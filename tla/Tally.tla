-------------------------------- MODULE Tally --------------------------------
(* VotePolicy.calculateResult: the outcome of a vote from its ballots.      *)
EXTENDS Naturals, FiniteSets, SequencesExt

CONSTANTS
    Abstain,   \* the option whose value is 'ABSTAIN'
    NoWinner   \* a null winningOptionId

\* Mutant: quorum counts the ballots as if every unit were worth one percent.
QuorumOfHundred(quorum, eligible, cast) == quorum = 0 \/ cast >= quorum

\* quorum = 0 is a null quorumPercent: the DTO admits 1 to 100.
IsQuorumMet(quorum, eligible, cast) ==
    \/ quorum = 0
    \/ eligible > 0 /\ cast * 100 >= quorum * eligible

\* cast: the option of each unit that voted.
VotesFor(cast, o) == Cardinality({u \in DOMAIN cast : cast[u] = o})

\* The options that the map `tally` gets a key for.
Tallied(cast) == {cast[u] : u \in DOMAIN cast} \ {Abstain}

\* Mutant: a later option with as many votes takes the lead.
LaterLeads(acc, o, votes) ==
    IF votes >= acc.topCount THEN [leader |-> o, topCount |-> votes, tie |-> FALSE] ELSE acc

\* One turn of the loop over the tally.
Lead(acc, o, votes) ==
    IF votes > acc.topCount THEN [leader |-> o, topCount |-> votes, tie |-> FALSE]
    ELSE IF votes = acc.topCount /\ votes > 0 THEN [acc EXCEPT !.tie = TRUE]
    ELSE acc

\* The loop over the tally, in the order its keys were inserted: what it knows after i of them.
Loop(cast, order) ==
    LET acc[i \in 0 .. Len(order)] ==
            IF i = 0 THEN [leader |-> NoWinner, topCount |-> 0, tie |-> FALSE]
            ELSE Lead(acc[i - 1], order[i], VotesFor(cast, order[i]))
    IN  acc

Winner(cast, order) ==
    LET acc == Loop(cast, order)[Len(order)]
    IN  IF acc.tie THEN NoWinner ELSE acc.leader

\* The order of the keys is that of the rows findMany returns: any order.
TallyOrders(cast) == SetToSeqs(Tallied(cast))

ResultStatus(quorum, eligible, cast, order) ==
    IF ~IsQuorumMet(quorum, eligible, Cardinality(DOMAIN cast)) THEN "QUORUM_NOT_MET"
    ELSE IF Winner(cast, order) # NoWinner THEN "PASSED"
    ELSE "NOT_PASSED"
=============================================================================
