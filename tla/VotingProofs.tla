---------------------------- MODULE VotingProofs ----------------------------
(***************************************************************************)
(* Votes, ballots and proxies for any units, persons, votes and requests.  *)
(***************************************************************************)
EXTENDS Voting, FiniteSetTheorems, WellFoundedInduction, TLAPS

\* The type invariant, and that results are a function of the votes.
Typed == TypeOK /\ result = [v \in Votes |-> result[v]]

\* What is known of a ballot request.
Standing == [at : {"SENT", "CHECKED", "OPEN", "REFUSED", "DUPLICATE", "ACCEPTED"},
             option : Options]

\* The live answer to "who votes for u" is a person or nobody.
LEMMA VoterIsPerson ==
  ASSUME ownership \subseteq LinkRequests, NEW u \in Units
  PROVE  EligibleVoter(u) \in Persons \cup {NoOne}
<1>1. CASE AllowTenantVoting /\ Cardinality(Tenants[u]) = 1
  <2>1. IsFiniteSet(Tenants[u]) /\ Tenants[u] \subseteq Persons
    BY BodyAssumption
  <2>2. Tenants[u] # {}
    BY <1>1, FS_EmptySet
  <2> QED
    BY <1>1, <2>1, <2>2 DEF EligibleVoter
<1>2. CASE ~(AllowTenantVoting /\ Cardinality(Tenants[u]) = 1) /\ Cardinality(OwnershipsOf(u)) = 1
  <2>1. OwnershipsOf(u) # {}
    BY <1>2, FS_EmptySet
  <2>2. OwnershipsOf(u) \subseteq LinkRequests
    BY DEF OwnershipsOf
  <2>3. \A l \in LinkRequests : LinkBody[l].person \in Persons
    BY BodyAssumption
  <2> QED
    BY <1>2, <2>1, <2>2, <2>3 DEF EligibleVoter
<1> QED
  BY <1>1, <1>2 DEF EligibleVoter


LEMMA TypedInit == Init => Typed
<1> SUFFICES ASSUME Init PROVE Typed
  OBVIOUS
<1> USE DEF Init
<1>1. ballot \in [Votes -> [Units -> [caster : Persons \cup {NoOne}, option : Options]]]
  <2>1. NoWinner \in Options
    BY DEF Options
  <2>2. NoBallot \in [caster : Persons \cup {NoOne}, option : Options]
    BY <2>1 DEF NoBallot
  <2> QED
    BY <2>2
<1>2. request \in [BallotRequests -> Standing]
  <2>1. NoWinner \in Options
    BY DEF Options
  <2>2. [at |-> "SENT", option |-> NoWinner] \in Standing
    BY <2>1 DEF Standing
  <2> QED
    BY <2>2
<1>3. \A v \in Votes : result[v].status # "NONE" <=> status[v] = "CLOSED"
  BY DEF NoResult
<1>4. invited \in [Units -> Persons] /\ ownership \subseteq LinkRequests
  BY BodyAssumption
<1>5. cancelling \in [CancelRequests ->
          [vote : Votes, status : {"DRAFT", "ACTIVE"}] \cup {NotRead}]
  OBVIOUS
<1>6. result = [v \in Votes |-> result[v]]
  OBVIOUS
<1>7. /\ linking \in [LinkRequests -> {"SENT", "FOUND", "LINKED"}]
      /\ transfer \in [TransferRequests -> {"SENT", "CHECKED", "DONE"}]
      /\ proxies \subseteq GrantRequests
      /\ grant \in [GrantRequests ->
             {"SENT", "CHECKED", "READ", "CONFLICT", "REREAD", "GRANTED", "FAILED"}]
      /\ seen \in [GrantRequests -> SUBSET GrantRequests]
      /\ revoking \in [RevokeRequests -> GrantRequests \cup {NoGrant}]
  OBVIOUS
<1>8. /\ body \in [Votes -> Bodies \cup {NoBody}]
      /\ clock \in [Votes -> {"BEFORE", "OPEN", "OVER"}]
      /\ status \in [Votes -> {"NONE", "DRAFT", "ACTIVE", "CLOSED", "CANCELLED"}]
      /\ snapshot \in [Votes -> [Units -> Persons \cup {NoOne}]]
  OBVIOUS
<1> QED
  BY <1>1, <1>2, <1>3, <1>4, <1>5, <1>6, <1>7, <1>8 DEF Typed, TypeOK, Standing

\* The life of a vote keeps the types.
LEMMA TypedVote ==
  ASSUME Typed, NEW v \in Votes,
         \/ \E d \in Bodies : CreateVote(v, d)
         \/ ReachStart(v) \/ ReachEnd(v) \/ PublishVote(v) \/ CloseVote(v)
  PROVE  Typed'
<1> USE DEF Typed, TypeOK, ballotVars, ownerVars, proxyVars, managerVars
<1>1. ASSUME NEW d \in Bodies, CreateVote(v, d) PROVE Typed'
  BY <1>1 DEF CreateVote, InsertVote, SetStatus
<1>2. CASE ReachStart(v)
  BY <1>2 DEF ReachStart, Tick
<1>3. CASE ReachEnd(v)
  BY <1>3 DEF ReachEnd, Tick
<1>4. CASE PublishVote(v)
  <2>1. \A u \in Units : EligibleVoter(u) \in Persons \cup {NoOne}
    BY VoterIsPerson
  <2>2. snapshot' \in [Votes -> [Units -> Persons \cup {NoOne}]]
    BY <1>4, <2>1 DEF PublishVote, Publishable, Activate
  <2> QED
    BY <1>4, <2>2 DEF PublishVote, Publishable, Activate, SetStatus
<1>5. CASE CloseVote(v)
  <2>1. PICK order \in TallyOrders(Cast(v)) :
            LET outcome == ResultStatus(body[v].quorum, Cardinality(EligibleUnits(v)), Cast(v), order)
            IN  result' = [result EXCEPT ![v] =
                    [status |-> outcome, winner |-> Winner(Cast(v), order), counted |-> UnitsVoted(v)]]
    BY <1>5 DEF CloseVote, Closable, CountBallots
  <2> DEFINE outcome == ResultStatus(body[v].quorum, Cardinality(EligibleUnits(v)), Cast(v), order)
             row == [status |-> outcome, winner |-> Winner(Cast(v), order), counted |-> UnitsVoted(v)]
  <2>2. row.status # "NONE"
    BY DEF ResultStatus
  <2> HIDE DEF row
  <2>3. result' = [result EXCEPT ![v] = row]
    BY <2>1 DEF row
  <2>4. result' = [w \in Votes |-> result'[w]]
    BY <2>3
  <2>5. status' = [status EXCEPT ![v] = "CLOSED"]
    BY <1>5 DEF CloseVote, Closable, CountBallots, SetStatus
  <2>6. \A w \in Votes : result'[w].status # "NONE" <=> status'[w] = "CLOSED"
    BY <2>2, <2>3, <2>5
  <2> QED
    BY <1>5, <2>4, <2>5, <2>6 DEF CloseVote, Closable, CountBallots
<1> QED
  BY <1>1, <1>2, <1>3, <1>4, <1>5

LEMMA TypedCancel ==
  ASSUME Typed, NEW c \in CancelRequests,
         (\E v \in Votes : CheckCancel(c, v)) \/ CancelVote(c)
  PROVE  Typed'
<1> USE DEF Typed, TypeOK, ballotVars, ownerVars, proxyVars, managerVars
<1>1. ASSUME NEW v \in Votes, CheckCancel(c, v) PROVE Typed'
  BY <1>1 DEF CheckCancel
<1>2. CASE CancelVote(c)
  <2>1. cancelling[c] \in [vote : Votes, status : {"DRAFT", "ACTIVE"}]
    BY <1>2 DEF CancelVote
  <2>2. \/ UNCHANGED status
        \/ /\ status[cancelling[c].vote] \in {"DRAFT", "ACTIVE"}
           /\ status' = [status EXCEPT ![cancelling[c].vote] = "CANCELLED"]
    BY <1>2, <2>1 DEF CancelVote, StillAsRead, SetStatus
  <2>3. status' \in [Votes -> {"NONE", "DRAFT", "ACTIVE", "CLOSED", "CANCELLED"}]
    <3> DEFINE v == cancelling[c].vote
    <3>1. CASE status' = [status EXCEPT ![v] = "CANCELLED"]
      <4> HIDE DEF v
      <4> QED
        BY <3>1
    <3>2. CASE UNCHANGED status
      BY <3>2
    <3> QED
      BY <2>2, <3>1, <3>2
  <2>4. UNCHANGED <<result, body, clock, snapshot>>
    BY <1>2 DEF CancelVote
  <2>5. \A v \in Votes : result'[v].status # "NONE" <=> status'[v] = "CLOSED"
    BY <2>1, <2>2, <2>4
  <2>6. cancelling' \in [CancelRequests ->
            [vote : Votes, status : {"DRAFT", "ACTIVE"}] \cup {NotRead}]
    BY <1>2 DEF CancelVote
  <2> QED
    BY <1>2, <2>3, <2>4, <2>5, <2>6 DEF CancelVote
<1> QED
  BY <1>1, <1>2

\* A request that moves on keeps its option.
LEMMA StandingMoves ==
  ASSUME request \in [BallotRequests -> Standing], NEW b \in BallotRequests,
         NEW at \in {"OPEN", "REFUSED", "DUPLICATE", "ACCEPTED"}
  PROVE  [request EXCEPT ![b].at = at] \in [BallotRequests -> Standing]
<1>1. [request[b] EXCEPT !.at = at] \in Standing
  BY DEF Standing
<1> QED
  BY <1>1

\* Writing one row keeps the type of a table with one row per vote and unit.
LEMMA CellUpdate ==
  ASSUME NEW Row, NEW table \in [Votes -> [Units -> Row]],
         NEW v \in Votes, NEW u \in Units, NEW row \in Row
  PROVE  [table EXCEPT ![v][u] = row] \in [Votes -> [Units -> Row]]
<1>1. [table[v] EXCEPT ![u] = row] \in [Units -> Row]
  OBVIOUS
<1> QED
  BY <1>1

LEMMA TypedBallot ==
  ASSUME Typed, NEW b \in BallotRequests,
         \/ \E o \in body[BallotBody[b].vote].options : CheckBallot(b, o)
         \/ ReadOpen(b) \/ CreateBallot(b)
  PROVE  Typed'
<1> USE DEF Typed, TypeOK, voteVars, ownerVars, proxyVars, managerVars
<1>0. /\ BallotBody[b].vote \in Votes /\ BallotBody[b].unit \in Units
      /\ BallotBody[b].actor \in Persons
  BY BodyAssumption
<1>r. request \in [BallotRequests -> Standing]
  BY DEF Standing
<1>1. ASSUME NEW o \in body[BallotBody[b].vote].options, CheckBallot(b, o) PROVE Typed'
  <2>1. o \in Options
    BY <1>0, <1>1 DEF Options, NoBody
  <2>2. [at |-> "CHECKED", option |-> o] \in Standing
    BY <2>1 DEF Standing
  <2>3. request' = [request EXCEPT ![b] = [at |-> "CHECKED", option |-> o]]
    BY <1>1 DEF CheckBallot
  <2>4. request' \in [BallotRequests -> Standing]
    BY <1>r, <2>2, <2>3
  <2> QED
    BY <1>1, <2>4 DEF CheckBallot, Standing
<1>2. CASE ReadOpen(b)
  <2>1. PICK at \in {"OPEN", "REFUSED"} : request' = [request EXCEPT ![b].at = at]
    BY <1>2 DEF ReadOpen
  <2>2. request' \in [BallotRequests -> Standing]
    BY <1>r, <2>1, StandingMoves
  <2> QED
    BY <1>2, <2>2 DEF ReadOpen, Standing
<1>3. CASE CreateBallot(b)
  <2>1. PICK at \in {"DUPLICATE", "ACCEPTED"} : request' = [request EXCEPT ![b].at = at]
    BY <1>3 DEF CreateBallot
  <2>2. request' \in [BallotRequests -> Standing]
    BY <1>r, <2>1, StandingMoves
  <2> DEFINE row == [caster |-> BallotBody[b].actor, option |-> request[b].option]
  <2>3. row \in [caster : Persons \cup {NoOne}, option : Options]
    BY <1>0, <1>r DEF Standing
  <2>4. \/ UNCHANGED ballot
        \/ ballot' = [ballot EXCEPT ![BallotBody[b].vote][BallotBody[b].unit] = row]
    BY <1>3 DEF CreateBallot
  <2> HIDE DEF row
  <2>5. ballot' \in [Votes -> [Units -> [caster : Persons \cup {NoOne}, option : Options]]]
    <3> DEFINE v == BallotBody[b].vote  u == BallotBody[b].unit
               Row == [caster : Persons \cup {NoOne}, option : Options]
    <3>1. v \in Votes /\ u \in Units /\ row \in Row /\ ballot \in [Votes -> [Units -> Row]]
      BY <1>0, <2>3
    <3>2. CASE ballot' = [ballot EXCEPT ![v][u] = row]
      <4> HIDE DEF v, u, Row
      <4>1. [ballot EXCEPT ![v][u] = row] \in [Votes -> [Units -> Row]]
        BY <3>1, CellUpdate, Zenon
      <4> QED
        BY <3>2, <4>1 DEF Row
    <3>3. CASE UNCHANGED ballot
      BY <3>1, <3>3
    <3> QED
      BY <2>4, <3>2, <3>3
  <2> QED
    BY <1>3, <2>2, <2>5 DEF CreateBallot, Standing
<1> QED
  BY <1>1, <1>2, <1>3

LEMMA TypedOwner ==
  ASSUME Typed,
         \/ \E l \in LinkRequests : FindUnlinked(l) \/ LinkOwnerToUnit(l)
         \/ \E t \in TransferRequests : CheckTransfer(t) \/ TransferOwnership(t)
  PROVE  Typed'
<1> USE DEF Typed, TypeOK, voteVars, ballotVars, proxyVars, managerVars
<1>1. ASSUME NEW l \in LinkRequests, FindUnlinked(l) PROVE Typed'
  BY <1>1 DEF FindUnlinked
<1>2. ASSUME NEW l \in LinkRequests, LinkOwnerToUnit(l) PROVE Typed'
  BY <1>2 DEF LinkOwnerToUnit
<1>3. ASSUME NEW t \in TransferRequests, CheckTransfer(t) PROVE Typed'
  BY <1>3 DEF CheckTransfer
<1>4. ASSUME NEW t \in TransferRequests, TransferOwnership(t) PROVE Typed'
  <2>1. TransferBody[t].newOwner \in Persons
    BY BodyAssumption
  <2>2. invited' \in [Units -> Persons] /\ transfer' \in [TransferRequests -> {"SENT", "CHECKED", "DONE"}]
    BY <1>4, <2>1 DEF TransferOwnership
  <2> QED
    BY <1>4, <2>2 DEF TransferOwnership
<1> QED
  BY <1>1, <1>2, <1>3, <1>4

LEMMA TypedProxy ==
  ASSUME Typed,
         \/ \E g \in GrantRequests :
                CheckGrant(g) \/ ReadProxies(g) \/ CommitGrant(g) \/ AbortGrant(g)
         \/ \E r \in RevokeRequests, g \in GrantRequests : CheckRevoke(r, g)
         \/ \E r \in RevokeRequests : RevokeProxy(r)
  PROVE  Typed'
<1> USE DEF Typed, TypeOK, voteVars, ballotVars, ownerVars, managerVars
<1>1. ASSUME NEW g \in GrantRequests, CheckGrant(g) PROVE Typed'
  BY <1>1 DEF CheckGrant, GrantStep
<1>2. ASSUME NEW g \in GrantRequests, ReadProxies(g) PROVE Typed'
  <2>1. ProxiesOf(GrantBody[g].unit) \subseteq GrantRequests
    BY DEF ProxiesOf
  <2>2. seen' \in [GrantRequests -> SUBSET GrantRequests]
    BY <1>2, <2>1 DEF ReadProxies
  <2>3. grant' \in [GrantRequests ->
            {"SENT", "CHECKED", "READ", "CONFLICT", "REREAD", "GRANTED", "FAILED"}]
    BY <1>2 DEF ReadProxies, GrantStep
  <2> QED
    BY <1>2, <2>2, <2>3 DEF ReadProxies
<1>5. ASSUME NEW g \in GrantRequests, CommitGrant(g) PROVE Typed'
  <2>1. grant' \in [GrantRequests ->
            {"SENT", "CHECKED", "READ", "CONFLICT", "REREAD", "GRANTED", "FAILED"}]
    BY <1>5 DEF CommitGrant, GrantStep
  <2> QED
    BY <1>5, <2>1 DEF CommitGrant
<1>6. ASSUME NEW g \in GrantRequests, AbortGrant(g) PROVE Typed'
  <2>1. grant' \in [GrantRequests ->
            {"SENT", "CHECKED", "READ", "CONFLICT", "REREAD", "GRANTED", "FAILED"}]
    BY <1>6 DEF AbortGrant, GrantStep
  <2> QED
    BY <1>6, <2>1 DEF AbortGrant
<1>3. ASSUME NEW r \in RevokeRequests, NEW g \in GrantRequests, CheckRevoke(r, g) PROVE Typed'
  BY <1>3 DEF CheckRevoke
<1>4. ASSUME NEW r \in RevokeRequests, RevokeProxy(r) PROVE Typed'
  BY <1>4 DEF RevokeProxy
<1> QED
  BY <1>1, <1>2, <1>3, <1>4, <1>5, <1>6

\* The handover writes no column of a vote.
LEMMA TypedHandover ==
  ASSUME Typed, NEW v \in Votes, CheckHandover(v) \/ ReadManager(v) \/ ChangeManager(v)
  PROVE  Typed'
BY DEF Typed, TypeOK, CheckHandover, ReadManager, ChangeManager,
       voteVars, ballotVars, ownerVars, proxyVars

LEMMA TypedStep == Typed /\ [Next]_vars => Typed'
<1> SUFFICES ASSUME Typed, [Next]_vars PROVE Typed'
  OBVIOUS
<1>1. CASE Next
  BY <1>1, TypedVote, TypedCancel, TypedBallot, TypedOwner, TypedProxy, TypedHandover DEF Next
<1>2. CASE UNCHANGED vars
  BY <1>2 DEF Typed, TypeOK, vars, voteVars, ballotVars, ownerVars, proxyVars, managerVars
<1> QED
  BY <1>1, <1>2

\* Whatever the requests and however they interleave, every column keeps its type.
THEOREM VotingTypeCorrect == Spec => []TypeOK
<1>1. Spec => []Typed
  BY TypedInit, TypedStep, PTL DEF Spec
<1>2. Typed => TypeOK
  BY DEF Typed
<1> QED
  BY <1>1, <1>2, PTL
-----------------------------------------------------------------------------
(* Decisions are final.                                                    *)

\* What a step may do to the status of a vote.
LEMMA StatusSteps ==
  ASSUME Typed, [Next]_vars, NEW v \in Votes
  PROVE  /\ status[v] \in {"CLOSED", "CANCELLED"} =>
                status'[v] = status[v] /\ result'[v] = result[v]
         /\ status[v] \notin {"NONE", "DRAFT"} =>
                /\ status'[v] \notin {"NONE", "DRAFT"}
                /\ body'[v] = body[v] /\ snapshot'[v] = snapshot[v]
<1> USE DEF Typed, TypeOK
<1>1. ASSUME NEW w \in Votes, NEW d \in Bodies, CreateVote(w, d)
      PROVE  /\ UNCHANGED <<snapshot, result>>
             /\ w # v => status'[v] = status[v] /\ body'[v] = body[v]
             /\ status[w] = "NONE"
  BY <1>1 DEF CreateVote, InsertVote, SetStatus
<1>2. ASSUME NEW w \in Votes, PublishVote(w)
      PROVE  /\ UNCHANGED <<body, result>>
             /\ w # v => status'[v] = status[v] /\ snapshot'[v] = snapshot[v]
             /\ status[w] = "DRAFT"
  BY <1>2 DEF PublishVote, Publishable, Activate, SetStatus
<1>3. ASSUME NEW w \in Votes, CloseVote(w)
      PROVE  /\ UNCHANGED <<body, snapshot>>
             /\ w # v => status'[v] = status[v] /\ result'[v] = result[v]
             /\ status[w] = "ACTIVE" /\ status'[w] = "CLOSED"
  BY <1>3 DEF CloseVote, Closable, CountBallots, SetStatus
<1>4. ASSUME NEW c \in CancelRequests, CancelVote(c)
      PROVE  /\ UNCHANGED <<body, snapshot, result>>
             /\ \/ status'[v] = status[v]
                \/ status[v] \in {"DRAFT", "ACTIVE"} /\ status'[v] = "CANCELLED"
  <2>1. cancelling[c] \in [vote : Votes, status : {"DRAFT", "ACTIVE"}]
    BY <1>4 DEF CancelVote
  <2> QED
    BY <1>4, <2>1 DEF CancelVote, StillAsRead, SetStatus
<1>5. ASSUME UNCHANGED <<body, snapshot, status, result>>
      PROVE  UNCHANGED <<body[v], snapshot[v], status[v], result[v]>>
  BY <1>5
<1>6. \/ \E w \in Votes, d \in Bodies : CreateVote(w, d)
      \/ \E w \in Votes : PublishVote(w) \/ CloseVote(w)
      \/ \E c \in CancelRequests : CancelVote(c)
      \/ UNCHANGED <<body, snapshot, status, result>>
  <2>1. CASE UNCHANGED vars
    BY <2>1 DEF vars, voteVars
  <2>2. CASE Next
    BY <2>2 DEF Next, ReachStart, ReachEnd, Tick, CheckCancel, CheckBallot, ReadOpen,
          CreateBallot, FindUnlinked, LinkOwnerToUnit, CheckTransfer, TransferOwnership,
          CheckGrant, ReadProxies, CommitGrant, AbortGrant, CheckRevoke, RevokeProxy,
          CheckHandover, ReadManager, ChangeManager, voteVars
  <2> QED
    BY <2>1, <2>2
<1> QED
  BY <1>1, <1>2, <1>3, <1>4, <1>5, <1>6

\* A step leaves the ballots alone or adds one for a unit that had none.
LEMMA BallotSteps ==
  ASSUME Typed, [Next]_vars
  PROVE  \/ UNCHANGED ballot
         \/ \E b \in BallotRequests : CreateBallot(b) /\ ~Taken(b)
<1>1. CASE UNCHANGED vars
  BY <1>1 DEF vars, ballotVars
<1>2. CASE Next
  BY <1>2 DEF Next, CreateVote, InsertVote, ReachStart, ReachEnd, Tick, PublishVote, Publishable,
        Activate, CloseVote, Closable, CountBallots, CheckCancel,
        CancelVote, CheckBallot, ReadOpen, CreateBallot, FindUnlinked, LinkOwnerToUnit,
        CheckTransfer, TransferOwnership, CheckGrant, ReadProxies, CommitGrant, AbortGrant,
        CheckRevoke, RevokeProxy, CheckHandover, ReadManager, ChangeManager, ballotVars
<1> QED
  BY <1>1, <1>2

\* A ballot is never replaced.
LEMMA BallotsStay ==
  ASSUME Typed, [Next]_vars, NEW v \in Votes, NEW u \in Units, ballot[v][u] # NoBallot
  PROVE  ballot'[v][u] = ballot[v][u]
<1>1. CASE UNCHANGED ballot
  BY <1>1
<1>2. ASSUME NEW b \in BallotRequests, CreateBallot(b), ~Taken(b)
      PROVE  ballot'[v][u] = ballot[v][u]
  <2> DEFINE w == BallotBody[b].vote  x == BallotBody[b].unit
  <2>1. ballot[w][x] = NoBallot
    BY <1>2 DEF Taken
  <2>2. PICK row : ballot' = [ballot EXCEPT ![w][x] = row]
    BY <1>2 DEF CreateBallot
  <2>3. v # w \/ u # x
    BY <2>1
  <2> HIDE DEF w, x
  <2> QED
    BY <2>2, <2>3 DEF Typed, TypeOK
<1> QED
  BY <1>1, <1>2, BallotSteps

\* Closing, cancelling and second ballots may race in any order: what was
\* decided, and what was cast, stays.
THEOREM DecisionsFinal == Spec => DecisionsAreFinal
<1> DEFINE Final ==
      /\ \A v \in Votes :
             status[v] \in {"CLOSED", "CANCELLED"} =>
                 status'[v] = status[v] /\ result'[v] = result[v]
      /\ \A v \in Votes, u \in Units :
             ballot[v][u] # NoBallot => ballot'[v][u] = ballot[v][u]
<1>1. Typed /\ [Next]_vars => Final
  <2> SUFFICES ASSUME Typed, [Next]_vars PROVE Final
    OBVIOUS
  <2>1. \A v \in Votes : status[v] \in {"CLOSED", "CANCELLED"} =>
                             status'[v] = status[v] /\ result'[v] = result[v]
    BY StatusSteps
  <2>2. \A v \in Votes, u \in Units : ballot[v][u] # NoBallot => ballot'[v][u] = ballot[v][u]
    BY BallotsStay
  <2> QED
    BY <2>1, <2>2
<1>2. Spec => []Typed
  BY TypedInit, TypedStep, PTL DEF Spec
<1> QED
  BY <1>1, <1>2, PTL DEF Spec, DecisionsAreFinal

-----------------------------------------------------------------------------
(* At most one proxy for each unit.                                        *)

\* No two current proxies are of one unit.
OnePerUnit == \A g, h \in proxies : GrantBody[g].unit = GrantBody[h].unit => g = h

\* Only the commit of a grant adds a proxy, and revoking takes one away.
LEMMA ProxySteps ==
  ASSUME [Next]_vars
  PROVE  \/ proxies' \subseteq proxies
         \/ \E g \in GrantRequests : CommitGrant(g)
<1>1. CASE UNCHANGED vars
  BY <1>1 DEF vars, proxyVars
<1>2. CASE Next
  BY <1>2 DEF Next, CreateVote, InsertVote, ReachStart, ReachEnd, Tick, PublishVote, Publishable,
        Activate, CloseVote, Closable, CountBallots, CheckCancel,
        CancelVote, CheckBallot, ReadOpen, CreateBallot, FindUnlinked, LinkOwnerToUnit,
        CheckTransfer, TransferOwnership, CheckGrant, ReadProxies, AbortGrant,
        CheckRevoke, RevokeProxy, CheckHandover, ReadManager, ChangeManager, proxyVars
<1> QED
  BY <1>1, <1>2

\* Overlapping grants of one unit, each retried once, leave it at most one proxy.
THEOREM AtMostOneProxy == Spec => []OneCurrentProxy
<1>1. Init => OnePerUnit
  BY DEF Init, OnePerUnit
<1>2. OnePerUnit /\ [Next]_vars => OnePerUnit'
  <2> SUFFICES ASSUME OnePerUnit, [Next]_vars PROVE OnePerUnit'
    OBVIOUS
  <2>1. CASE proxies' \subseteq proxies
    BY <2>1 DEF OnePerUnit
  <2>2. ASSUME NEW g \in GrantRequests, CommitGrant(g) PROVE OnePerUnit'
    <3>1. proxies' = (proxies \ ProxiesOf(GrantBody[g].unit)) \cup {g}
      BY <2>2 DEF CommitGrant, Serializable
    <3> QED
      BY <3>1 DEF OnePerUnit, ProxiesOf
  <2> QED
    BY <2>1, <2>2, ProxySteps
<1>3. OnePerUnit => OneCurrentProxy
  <2> SUFFICES ASSUME OnePerUnit, NEW u \in Units PROVE Cardinality(ProxiesOf(u)) <= 1
    BY DEF OneCurrentProxy
  <2>1. CASE ProxiesOf(u) = {}
    BY <2>1, FS_EmptySet
  <2>2. CASE ProxiesOf(u) # {}
    <3>1. PICK g : ProxiesOf(u) = {g}
      BY <2>2 DEF ProxiesOf, OnePerUnit
    <3>2. Cardinality({g}) = 1
      BY FS_Singleton, Zenon
    <3> QED
      BY <3>1, <3>2
  <2> QED
    BY <2>1, <2>2
<1> QED
  BY <1>1, <1>2, <1>3, PTL DEF Spec

-----------------------------------------------------------------------------
(* Ballots are legitimate.                                                 *)

\* p may cast o for u, and what makes it so can no longer change.
Legitimate(v, u, p, o) ==
    /\ status[v] \notin {"NONE", "DRAFT"}
    /\ Entitled(v, u, p)
    /\ o \in body[v].options

\* What the checks of a ballot found still holds when the row is inserted.
BallotFacts ==
    /\ \A g \in proxies : grant[g] = "GRANTED"
    /\ \A b \in BallotRequests :
           request[b].at \in {"CHECKED", "OPEN"} =>
               Legitimate(BallotBody[b].vote, BallotBody[b].unit, BallotBody[b].actor,
                          request[b].option)
    /\ \A v \in Votes, u \in Units :
           ballot[v][u] # NoBallot =>
               Legitimate(v, u, ballot[v][u].caster, ballot[v][u].option)

\* A proxy that was once granted counts as granted for ever.
LEMMA GrantSteps ==
  ASSUME Typed, [Next]_vars, NEW g \in GrantRequests, grant[g] = "GRANTED"
  PROVE  grant'[g] = "GRANTED"
<1>1. CASE UNCHANGED vars
  BY <1>1 DEF vars, proxyVars
<1>2. CASE \E h \in GrantRequests :
               CheckGrant(h) \/ ReadProxies(h) \/ CommitGrant(h) \/ AbortGrant(h)
  BY <1>2 DEF Typed, TypeOK, CheckGrant, ReadProxies, CommitGrant, AbortGrant, GrantStep
<1>3. CASE Next /\ ~(\E h \in GrantRequests :
               CheckGrant(h) \/ ReadProxies(h) \/ CommitGrant(h) \/ AbortGrant(h))
  BY <1>3 DEF Next, CreateVote, InsertVote, ReachStart, ReachEnd, Tick, PublishVote, Publishable,
        Activate, CloseVote, Closable, CountBallots, CheckCancel,
        CancelVote, CheckBallot, ReadOpen, CreateBallot, FindUnlinked, LinkOwnerToUnit,
        CheckTransfer, TransferOwnership, CheckRevoke, RevokeProxy, CheckHandover,
        ReadManager, ChangeManager, proxyVars
<1> QED
  BY <1>1, <1>2, <1>3

LEMMA LegitimateStays ==
  ASSUME Typed, [Next]_vars, NEW v \in Votes, NEW u, NEW p, NEW o, Legitimate(v, u, p, o)
  PROVE  Legitimate(v, u, p, o)'
<1>1. /\ status'[v] \notin {"NONE", "DRAFT"}
      /\ body'[v] = body[v] /\ snapshot'[v] = snapshot[v]
  BY StatusSteps DEF Legitimate
<1>2. \A g \in GrantRequests : grant[g] = "GRANTED" => grant'[g] = "GRANTED"
  BY GrantSteps
<1> QED
  BY <1>1, <1>2 DEF Legitimate, Entitled

\* The person in the snapshot, or a current proxy of that person, passed the checks.
LEMMA CheckedIsLegitimate ==
  ASSUME Typed, BallotFacts, NEW b \in BallotRequests,
         NEW o \in body[BallotBody[b].vote].options, CheckBallot(b, o)
  PROVE  Legitimate(BallotBody[b].vote, BallotBody[b].unit, BallotBody[b].actor, o)
<1> DEFINE v == BallotBody[b].vote
           voter == snapshot[v][BallotBody[b].unit]
           actor == BallotBody[b].actor
<1>1. /\ IsOpen(v) /\ voter # NoOne /\ ~VotesOnOwnCandidacy(b)
      /\ actor = voter \/ IsCurrentProxyFor(voter, actor)
  BY DEF CheckBallot
<1>2. IsCurrentProxyFor(voter, actor) =>
          \E g \in GrantRequests : /\ grant[g] = "GRANTED"
                                   /\ GrantBody[g].granter = voter
                                   /\ GrantBody[g].proxy = actor
  BY DEF IsCurrentProxyFor, BallotFacts, Typed, TypeOK
<1> QED
  BY <1>1, <1>2 DEF Legitimate, Entitled, IsOpen, VotesOnOwnCandidacy

LEMMA RequestSteps ==
  ASSUME Typed, [Next]_vars, NEW b \in BallotRequests, request'[b].at \in {"CHECKED", "OPEN"}
  PROVE  \/ /\ request[b].at \in {"CHECKED", "OPEN"}
            /\ request'[b].option = request[b].option
         \/ \E o \in body[BallotBody[b].vote].options :
                CheckBallot(b, o) /\ request'[b].option = o
<1> USE DEF Typed, TypeOK
<1>1. CASE UNCHANGED request
  BY <1>1
<1>2. ASSUME NEW a \in BallotRequests, NEW o \in body[BallotBody[a].vote].options,
             CheckBallot(a, o)
      PROVE  \/ request'[b] = request[b]
             \/ a = b /\ request'[b].option = o
  BY <1>2 DEF CheckBallot
<1>3. ASSUME NEW a \in BallotRequests, ReadOpen(a)
      PROVE  \/ request'[b] = request[b]
             \/ request[b].at = "CHECKED" /\ request'[b].option = request[b].option
  BY <1>3 DEF ReadOpen
<1>4. ASSUME NEW a \in BallotRequests, CreateBallot(a)
      PROVE  \/ request'[b] = request[b]
             \/ request'[b].at \in {"DUPLICATE", "ACCEPTED"}
  BY <1>4 DEF CreateBallot
<1>5. \/ UNCHANGED request
      \/ \E a \in BallotRequests : \E o \in body[BallotBody[a].vote].options : CheckBallot(a, o)
      \/ \E a \in BallotRequests : ReadOpen(a) \/ CreateBallot(a)
  <2>1. CASE UNCHANGED vars
    BY <2>1 DEF vars, ballotVars
  <2>2. CASE Next
    BY <2>2 DEF Next, CreateVote, InsertVote, ReachStart, ReachEnd, Tick, PublishVote,
          Publishable, Activate, CloseVote, Closable, CountBallots,
          CheckCancel, CancelVote, FindUnlinked, LinkOwnerToUnit,
          CheckTransfer, TransferOwnership, CheckGrant, ReadProxies, CommitGrant, AbortGrant,
          CheckRevoke, RevokeProxy, CheckHandover, ReadManager, ChangeManager, ballotVars
  <2> QED
    BY <2>1, <2>2
<1> QED
  BY <1>1, <1>2, <1>3, <1>4, <1>5

LEMMA BallotFactsStep == Typed /\ BallotFacts /\ [Next]_vars => BallotFacts'
<1> SUFFICES ASSUME Typed, BallotFacts, [Next]_vars PROVE BallotFacts'
  OBVIOUS
<1>1. ASSUME NEW g \in proxies' PROVE grant'[g] = "GRANTED"
  <2>1. CASE g \in proxies
    BY <2>1, GrantSteps DEF BallotFacts, Typed, TypeOK
  <2>2. CASE g \notin proxies
    <3>1. PICK h \in GrantRequests : CommitGrant(h)
      BY <1>1, <2>2, ProxySteps
    <3>2. g = h
      BY <1>1, <2>2, <3>1 DEF CommitGrant
    <3> QED
      BY <3>1, <3>2 DEF CommitGrant, GrantStep, Typed, TypeOK
  <2> QED
    BY <2>1, <2>2
<1>2. ASSUME NEW b \in BallotRequests, request'[b].at \in {"CHECKED", "OPEN"}
      PROVE  Legitimate(BallotBody[b].vote, BallotBody[b].unit, BallotBody[b].actor,
                        request[b].option)'
  <2> DEFINE o == request'[b].option
  <2>1. Legitimate(BallotBody[b].vote, BallotBody[b].unit, BallotBody[b].actor, o)
    BY <1>2, RequestSteps, CheckedIsLegitimate DEF BallotFacts
  <2>2. BallotBody[b].vote \in Votes
    BY BodyAssumption
  <2>3. status'[BallotBody[b].vote] \notin {"NONE", "DRAFT"}
    BY <2>1, <2>2, StatusSteps DEF Legitimate
  <2>4. /\ body'[BallotBody[b].vote] = body[BallotBody[b].vote]
        /\ snapshot'[BallotBody[b].vote] = snapshot[BallotBody[b].vote]
    BY <2>1, <2>2, StatusSteps DEF Legitimate
  <2>5. \A g \in GrantRequests : grant[g] = "GRANTED" => grant'[g] = "GRANTED"
    BY GrantSteps
  <2> QED
    BY <2>1, <2>3, <2>4, <2>5 DEF Legitimate, Entitled
<1>3. ASSUME NEW v \in Votes, NEW u \in Units, ballot'[v][u] # NoBallot
      PROVE  Legitimate(v, u, ballot[v][u].caster, ballot[v][u].option)'
  <2>1. \E p, o : /\ Legitimate(v, u, p, o)
                  /\ ballot'[v][u].caster = p /\ ballot'[v][u].option = o
    <3>1. CASE ballot'[v][u] = ballot[v][u]
      BY <1>3, <3>1 DEF BallotFacts
    <3>2. ASSUME NEW b \in BallotRequests, CreateBallot(b), ~Taken(b),
                 ballot'[v][u] # ballot[v][u]
          PROVE  \E p, o : /\ Legitimate(v, u, p, o)
                           /\ ballot'[v][u].caster = p /\ ballot'[v][u].option = o
      <4> DEFINE w == BallotBody[b].vote  x == BallotBody[b].unit
                 row == [caster |-> BallotBody[b].actor, option |-> request[b].option]
      <4>1. ballot' = [ballot EXCEPT ![w][x] = row]
        BY <3>2 DEF CreateBallot
      <4>2. Legitimate(w, x, row.caster, row.option)
        BY <3>2 DEF BallotFacts, CreateBallot
      <4> HIDE DEF w, x, row
      <4>3. v = w /\ u = x /\ ballot'[v][u] = row
        BY <3>2, <4>1 DEF Typed, TypeOK
      <4> QED
        BY <4>2, <4>3
    <3> QED
      BY <3>1, <3>2, BallotSteps
  <2>2. PICK p, o : /\ Legitimate(v, u, p, o)
                    /\ ballot'[v][u].caster = p /\ ballot'[v][u].option = o
    BY <2>1
  <2>3. Legitimate(v, u, p, o)'
    BY <2>2, LegitimateStays
  <2> QED
    BY <2>2, <2>3
<1> QED
  BY <1>1, <1>2, <1>3 DEF BallotFacts

\* Whatever happens to ownership and proxies between publication and ballot, a
\* ballot is cast by the person in the snapshot or by that person's appointee.
THEOREM BallotsAreLegitimate == Spec => []BallotsLegitimate
<1>1. Init => BallotFacts
  BY DEF Init, BallotFacts
<1>2. Spec => []Typed
  BY TypedInit, TypedStep, PTL DEF Spec
<1>3. BallotFacts => BallotsLegitimate
  BY DEF BallotFacts, BallotsLegitimate, Legitimate
<1> QED
  BY <1>1, <1>2, <1>3, BallotFactsStep, PTL DEF Spec

-----------------------------------------------------------------------------
(* The tally.                                                              *)

\* What the loop starts from.
Start == [leader |-> NoWinner, topCount |-> 0, tie |-> FALSE]

\* A nonempty set of naturals has a least one.
LEMMA Least ==
  ASSUME NEW T \in SUBSET Nat, T # {}
  PROVE  \E m \in T : \A k \in T : m <= k
<1>1. PICK m \in T : \A k \in T : <<k, m>> \notin OpToRel(<, Nat)
  BY WFMin, NatLessThanWellFounded, Zenon
<1>2. \A k \in T : ~(k < m)
  BY <1>1, Zenon DEF OpToRel
<1> QED
  BY <1>2

\* The loop is well defined: a function on 0 .. m is continued by one more turn.
LEMMA LoopTurns ==
  ASSUME NEW cast, NEW order, Len(order) \in Nat
  PROVE  /\ Loop(cast, order)[0] = Start
         /\ \A i \in 1 .. Len(order) :
                Loop(cast, order)[i] =
                    Lead(Loop(cast, order)[i - 1], order[i], VotesFor(cast, order[i]))
<1> DEFINE turn(a, i) == Lead(a, order[i], VotesFor(cast, order[i]))
           runs(g, n) == g = [i \in 0 .. n |-> IF i = 0 THEN Start ELSE turn(g[i - 1], i)]
           bad == {n \in Nat : ~(\E g : runs(g, n))}
<1>1. bad = {}
  <2> SUFFICES ASSUME bad # {} PROVE FALSE
    OBVIOUS
  <2>1. PICK m \in bad : \A k \in bad : m <= k
    BY Least
  <2> HIDE DEF turn
  <2>2. m # 0
    <3>1. runs([i \in 0 .. 0 |-> Start], 0)
      OBVIOUS
    <3> QED
      BY <3>1
  <2>3. m - 1 \in Nat /\ m - 1 \notin bad
    BY <2>1, <2>2
  <2>4. PICK g : runs(g, m - 1)
    BY <2>3
  <2> DEFINE h == [i \in 0 .. m |-> IF i = m THEN turn(g[m - 1], m) ELSE g[i]]
  <2>5. \A i \in 0 .. m : h[i] = IF i = 0 THEN Start ELSE turn(h[i - 1], i)
    <3> SUFFICES ASSUME NEW i \in 0 .. m
                 PROVE  h[i] = IF i = 0 THEN Start ELSE turn(h[i - 1], i)
      OBVIOUS
    <3>1. CASE i = m
      <4>1. h[i - 1] = g[m - 1]
        BY <3>1, <2>3
      <4> QED
        BY <3>1, <4>1, <2>2
    <3>2. CASE i # m
      <4>1. i \in 0 .. m - 1 /\ h[i] = g[i]
        BY <3>2, <2>3
      <4>2. g[i] = IF i = 0 THEN Start ELSE turn(g[i - 1], i)
        BY <4>1, <2>4
      <4>3. i # 0 => h[i - 1] = g[i - 1]
        BY <3>2, <2>3
      <4> QED
        BY <4>1, <4>2, <4>3
    <3> QED
      BY <3>1, <3>2
  <2>6. runs(h, m)
    <3> DEFINE r == [i \in 0 .. m |-> IF i = 0 THEN Start ELSE turn(h[i - 1], i)]
    <3>1. h = [i \in 0 .. m |-> h[i]]
      OBVIOUS
    <3>2. h = r
      <4> HIDE DEF h
      <4> QED
        BY <2>5, <3>1
    <3> QED
      BY <3>2
  <2> QED
    BY <2>1, <2>6
<1>2. \E g : runs(g, Len(order))
  BY <1>1
<1>3. Loop(cast, order) = CHOOSE g : runs(g, Len(order))
  BY DEF Loop, Start
<1>4. runs(Loop(cast, order), Len(order))
  <2> HIDE DEF runs
  <2> QED
    BY <1>2, <1>3
<1> QED
  BY <1>4

\* What the loop knows after i options: the most votes of these, an option that has as many,
\* and whether another one has.
Knows(a, cast, order, i) ==
    /\ a = [leader |-> a.leader, topCount |-> a.topCount, tie |-> a.tie]
    /\ a.topCount \in Nat /\ a.tie \in BOOLEAN
    /\ i = 0 => a = Start
    /\ i > 0 => \E j \in 1 .. i : order[j] = a.leader /\ VotesFor(cast, order[j]) = a.topCount
    /\ \A j \in 1 .. i : VotesFor(cast, order[j]) <= a.topCount
    /\ a.tie <=> \E j, k \in 1 .. i : /\ j # k
                                      /\ VotesFor(cast, order[j]) = a.topCount
                                      /\ VotesFor(cast, order[k]) = a.topCount

\* One turn keeps that.
LEMMA LeadKnows ==
  ASSUME NEW cast, NEW order, NEW i \in Nat \ {0}, NEW a, Knows(a, cast, order, i - 1),
         \A j \in 1 .. i : VotesFor(cast, order[j]) \in Nat \ {0}
  PROVE  Knows(Lead(a, order[i], VotesFor(cast, order[i])), cast, order, i)
<1> DEFINE n(j) == VotesFor(cast, order[j])
           b == Lead(a, order[i], n(i))
<1>1. /\ a.topCount \in Nat /\ a.tie \in BOOLEAN
      /\ i = 1 => a = Start
      /\ i > 1 => \E j \in 1 .. i - 1 : order[j] = a.leader /\ n(j) = a.topCount
      /\ \A j \in 1 .. i - 1 : n(j) <= a.topCount
      /\ a.tie <=> \E j, k \in 1 .. i - 1 : j # k /\ n(j) = a.topCount /\ n(k) = a.topCount
      /\ a = [leader |-> a.leader, topCount |-> a.topCount, tie |-> a.tie]
  BY DEF Knows
<1>2. \A j \in 1 .. i : n(j) \in Nat \ {0}
  OBVIOUS
<1>3. 1 .. i = (1 .. i - 1) \cup {i} /\ i \in 1 .. i
  OBVIOUS
<1>4. CASE n(i) > a.topCount
  <2>1. b = [leader |-> order[i], topCount |-> n(i), tie |-> FALSE]
    BY <1>4 DEF Lead
  <2>2. \A j \in 1 .. i - 1 : n(j) < n(i) /\ n(j) \in Nat
    BY <1>1, <1>2, <1>4
  <2> HIDE DEF n, b
  <2>3. \A j \in 1 .. i : n(j) <= n(i)
    BY <2>2, <1>3, <1>2
  <2>4. \A j, k \in 1 .. i : n(j) = n(i) /\ n(k) = n(i) => j = k
    BY <2>2, <1>3
  <2>5. /\ b = [leader |-> b.leader, topCount |-> b.topCount, tie |-> b.tie]
        /\ b.topCount = n(i) /\ b.leader = order[i] /\ b.tie = FALSE
    BY <2>1
  <2> QED
    BY <2>3, <2>4, <2>5, <1>2, <1>3 DEF Knows, n, b
<1>5. CASE n(i) = a.topCount
  <2>0. i > 1
    BY <1>1, <1>2, <1>5, <1>3 DEF Start
  <2>1. b = [a EXCEPT !.tie = TRUE]
    BY <1>5, <1>2, <1>3 DEF Lead
  <2>2. b = [leader |-> a.leader, topCount |-> a.topCount, tie |-> TRUE]
    BY <1>1, <2>1
  <2> HIDE DEF n, b
  <2>3. PICK j \in 1 .. i - 1 : order[j] = a.leader /\ n(j) = a.topCount
    BY <2>0, <1>1
  <2>4. j \in 1 .. i /\ j # i
    BY <1>3
  <2>5. \A k \in 1 .. i : n(k) <= a.topCount
    BY <1>1, <1>2, <1>3, <1>5
  <2>6. /\ b = [leader |-> b.leader, topCount |-> b.topCount, tie |-> b.tie]
        /\ b.topCount = a.topCount /\ b.leader = a.leader /\ b.tie = TRUE
    BY <2>2
  <2> QED
    BY <2>3, <2>4, <2>5, <2>6, <1>1, <1>3, <1>5 DEF Knows, n, b
<1>6. CASE n(i) < a.topCount
  <2>0. i > 1
    BY <1>1, <1>2, <1>6, <1>3 DEF Start
  <2>1. b = a
    BY <1>6, <1>1, <1>2, <1>3 DEF Lead
  <2> HIDE DEF n, b
  <2>2. PICK j \in 1 .. i - 1 : order[j] = a.leader /\ n(j) = a.topCount
    BY <2>0, <1>1
  <2>3. \A k \in 1 .. i : n(k) <= a.topCount /\ (n(k) = a.topCount => k \in 1 .. i - 1)
    BY <1>1, <1>2, <1>3, <1>6
  <2>4. (\E h, k \in 1 .. i - 1 : h # k /\ n(h) = a.topCount /\ n(k) = a.topCount)
          <=> (\E h, k \in 1 .. i : h # k /\ n(h) = a.topCount /\ n(k) = a.topCount)
    BY <2>3, <1>3
  <2> QED
    BY <2>1, <2>2, <2>3, <2>4, <1>1, <1>3 DEF Knows, n, b
<1> QED
  BY <1>1, <1>2, <1>3, <1>4, <1>5, <1>6

\* So the loop knows it in the end.
LEMMA LoopKnows ==
  ASSUME NEW cast, NEW order, Len(order) \in Nat,
         \A j \in 1 .. Len(order) : VotesFor(cast, order[j]) \in Nat \ {0}
  PROVE  Knows(Loop(cast, order)[Len(order)], cast, order, Len(order))
<1> DEFINE L == Len(order)
           bad == {i \in 0 .. L : ~Knows(Loop(cast, order)[i], cast, order, i)}
<1>1. CASE bad = {}
  BY <1>1
<1>2. CASE bad # {}
  <2>1. bad \in SUBSET Nat
    OBVIOUS
  <2>2. PICK m \in bad : \A k \in bad : m <= k
    BY <2>1, <1>2, Least
  <2>3. m # 0
    <3>1. Knows(Start, cast, order, 0)
      BY DEF Knows, Start
    <3> QED
      BY <3>1, LoopTurns
  <2>4. m \in Nat \ {0} /\ m - 1 \in 0 .. L /\ m - 1 \notin bad /\ m \in 1 .. L
    BY <2>2, <2>3
  <2>5. Knows(Loop(cast, order)[m - 1], cast, order, m - 1)
    BY <2>4
  <2>6. \A j \in 1 .. m : VotesFor(cast, order[j]) \in Nat \ {0}
    BY <2>4
  <2>7. Knows(Lead(Loop(cast, order)[m - 1], order[m], VotesFor(cast, order[m])), cast, order, m)
    BY <2>4, <2>5, <2>6, LeadKnows
  <2> QED
    BY <2>2, <2>4, <2>7, LoopTurns
<1> QED
  BY <1>1, <1>2

\* The options with more votes than any other.
Most(cast) ==
    {o \in Tallied(cast) : \A q \in Tallied(cast) \ {o} : VotesFor(cast, o) > VotesFor(cast, q)}

\* Whatever the order, the loop names the option that has more votes than any other, if there is one.
LEMMA WinnerIsMost ==
  ASSUME NEW cast, IsFiniteSet(DOMAIN cast), NoWinner \notin Tallied(cast),
         NEW order \in TallyOrders(cast)
  PROVE  IF Most(cast) = {} THEN Winner(cast, order) = NoWinner
         ELSE Most(cast) = {Winner(cast, order)} /\ Winner(cast, order) # NoWinner
<1> DEFINE T == Tallied(cast)
           n == Cardinality(T)
           w == Winner(cast, order)
<1>1. IsFiniteSet(T) /\ n \in Nat
  <2> DEFINE C == {cast[u] : u \in DOMAIN cast}
             f == [u \in DOMAIN cast |-> cast[u]]
  <2>1. f \in Surjection(DOMAIN cast, C)
    BY DEF Surjection
  <2>2. IsFiniteSet(C)
    BY <2>1, FS_Surjection, Zenon
  <2>3. T \in SUBSET C
    BY DEF Tallied
  <2> QED
    BY <2>2, <2>3, FS_Subset, FS_CardinalityType
<1>2. /\ order \in [1 .. n -> T]
      /\ \A i, j \in 1 .. n : i # j => order[i] # order[j]
  BY DEF TallyOrders, SetToSeqs
<1>3. Len(order) = n
  BY <1>1, <1>2
<1>4. \A o \in T : \E j \in 1 .. n : order[j] = o
  <2>1. order \in Injection(1 .. n, T)
    BY <1>2 DEF Injection, IsInjective
  <2>2. Cardinality(1 .. n) = n
    BY <1>1, FS_Interval
  <2>3. order \in Surjection(1 .. n, T)
    BY <2>1, <2>2, <1>1, FS_Injection
  <2> QED
    BY <2>3 DEF Surjection
<1>5. \A o \in T : VotesFor(cast, o) \in Nat \ {0}
  <2> SUFFICES ASSUME NEW o \in T PROVE VotesFor(cast, o) \in Nat \ {0}
    OBVIOUS
  <2> DEFINE V == {u \in DOMAIN cast : cast[u] = o}
  <2>1. V # {} /\ V \in SUBSET DOMAIN cast
    BY DEF Tallied
  <2>2. IsFiniteSet(V)
    BY <2>1, FS_Subset
  <2>3. Cardinality(V) \in Nat /\ Cardinality(V) # 0
    BY <2>1, <2>2, FS_CardinalityType, FS_EmptySet
  <2> QED
    BY <2>3 DEF VotesFor
<1> DEFINE a == Loop(cast, order)[n]
<1>6. Knows(a, cast, order, n)
  BY <1>2, <1>3, <1>5, <1>1, LoopKnows
<1>7. w = IF a.tie THEN NoWinner ELSE a.leader
  BY <1>3 DEF Winner
<1> HIDE DEF a, w, n, T
<1>8. /\ a.topCount \in Nat /\ a.tie \in BOOLEAN
      /\ n = 0 => a = Start
      /\ n > 0 => \E j \in 1 .. n : order[j] = a.leader /\ VotesFor(cast, order[j]) = a.topCount
      /\ \A j \in 1 .. n : VotesFor(cast, order[j]) <= a.topCount
      /\ a.tie <=> \E j, k \in 1 .. n : /\ j # k
                                        /\ VotesFor(cast, order[j]) = a.topCount
                                        /\ VotesFor(cast, order[k]) = a.topCount
  BY <1>6 DEF Knows
<1>9. Most(cast) = {o \in T : \A q \in T \ {o} : VotesFor(cast, o) > VotesFor(cast, q)}
  BY DEF Most, T
<1>10. CASE n = 0
  <2>1. T = {}
    BY <1>10, <1>4
  <2>2. w = NoWinner
    BY <1>10, <1>7, <1>8 DEF Start
  <2> QED
    BY <2>1, <2>2, <1>9 DEF w
<1>11. CASE n > 0 /\ a.tie
  <2>1. PICK j, k \in 1 .. n : /\ j # k
                               /\ VotesFor(cast, order[j]) = a.topCount
                               /\ VotesFor(cast, order[k]) = a.topCount
    BY <1>11, <1>8
  <2>2. order[j] \in T /\ order[k] \in T /\ order[j] # order[k]
    BY <2>1, <1>2
  <2>3. \A o \in T : VotesFor(cast, o) <= a.topCount /\ VotesFor(cast, o) \in Nat
    BY <1>4, <1>5, <1>8
  <2>4. Most(cast) = {}
    <3> SUFFICES ASSUME NEW o \in T, \A q \in T \ {o} : VotesFor(cast, o) > VotesFor(cast, q)
                 PROVE  FALSE
      BY <1>9
    <3>1. PICK q \in T : q # o /\ VotesFor(cast, q) = a.topCount
      BY <2>1, <2>2
    <3> QED
      BY <3>1, <2>3, <1>8
  <2> QED
    BY <2>4, <1>7, <1>11 DEF w
<1>12. CASE n > 0 /\ ~a.tie
  <2>1. PICK j \in 1 .. n : order[j] = a.leader /\ VotesFor(cast, order[j]) = a.topCount
    BY <1>12, <1>8
  <2>2. w = a.leader /\ w \in T
    BY <2>1, <1>2, <1>7, <1>12
  <2>3. ASSUME NEW q \in T \ {w} PROVE VotesFor(cast, w) > VotesFor(cast, q)
    <3>1. PICK k \in 1 .. n : order[k] = q
      BY <1>4
    <3>2. k # j
      BY <2>1, <2>2, <3>1
    <3>3. VotesFor(cast, q) # a.topCount
      BY <1>8, <1>12, <2>1, <3>1, <3>2
    <3> QED
      BY <3>1, <3>3, <2>1, <2>2, <1>5, <1>8
  <2>4. Most(cast) = {w}
    <3>1. \A o \in T : o # w => ~(\A q \in T \ {o} : VotesFor(cast, o) > VotesFor(cast, q))
      BY <2>2, <2>3, <1>5
    <3> QED
      BY <3>1, <2>2, <2>3, <1>9
  <2>5. w # NoWinner
    BY <2>2 DEF T
  <2> QED
    BY <2>4, <2>5 DEF w
<1> QED
  BY <1>1, <1>8, <1>10, <1>11, <1>12 DEF w, n

\* What a closed vote says of its counted ballots.
Reproduces(v) ==
    LET cast == [u \in result[v].counted |-> ballot[v][u].option]
        turnout == Cardinality(result[v].counted) * 100
    IN  /\ result[v].status = "PASSED" <=>
               /\ Most(cast) # {}
               /\ turnout >= body[v].quorum * Cardinality(EligibleUnits(v))
        /\ result[v].status = "PASSED" => Most(cast) = {result[v].winner}

\* The counted ballots are there, and the result follows from them.
TallyInv ==
    \A v \in Votes :
        status[v] = "CLOSED" => result[v].counted \subseteq UnitsVoted(v) /\ Reproduces(v)

\* A vote that becomes closed is counted in that step.
LEMMA ClosedByCount ==
  ASSUME Typed, [Next]_vars, NEW v \in Votes, status[v] # "CLOSED", status'[v] = "CLOSED"
  PROVE  CloseVote(v)
<1> USE DEF Typed, TypeOK
<1>1. ASSUME NEW w \in Votes, w # v, CloseVote(w)
      PROVE  status'[v] = status[v]
  BY <1>1 DEF CloseVote, Closable, CountBallots, SetStatus
<1>2. ASSUME NEW w \in Votes, NEW d \in Bodies, CreateVote(w, d)
      PROVE  status'[v] \in {status[v], "DRAFT"}
  BY <1>2 DEF CreateVote, InsertVote, SetStatus
<1>3. ASSUME NEW w \in Votes, PublishVote(w)
      PROVE  status'[v] \in {status[v], "ACTIVE"}
  BY <1>3 DEF PublishVote, Publishable, Activate, SetStatus
<1>4. ASSUME NEW c \in CancelRequests, CancelVote(c)
      PROVE  status'[v] \in {status[v], "CANCELLED"}
  BY <1>4 DEF CancelVote, StillAsRead, SetStatus
<1>5. \/ \E w \in Votes, d \in Bodies : CreateVote(w, d)
      \/ \E w \in Votes : PublishVote(w) \/ CloseVote(w)
      \/ \E c \in CancelRequests : CancelVote(c)
      \/ UNCHANGED status
  <2>1. CASE UNCHANGED vars
    BY <2>1 DEF vars, voteVars
  <2>2. CASE Next
    BY <2>2 DEF Next, ReachStart, ReachEnd, Tick, CheckCancel, CheckBallot, ReadOpen,
          CreateBallot, FindUnlinked, LinkOwnerToUnit, CheckTransfer, TransferOwnership,
          CheckGrant, ReadProxies, CommitGrant, AbortGrant, CheckRevoke, RevokeProxy,
          CheckHandover, ReadManager, ChangeManager, voteVars
  <2> QED
    BY <2>1, <2>2
<1> QED
  BY <1>1, <1>2, <1>3, <1>4, <1>5

\* The count names the plurality of the ballots it finds.
LEMMA CountReproduces ==
  ASSUME Typed, BallotFacts, NEW v \in Votes, CloseVote(v)
  PROVE  result'[v].counted \subseteq UnitsVoted(v)' /\ Reproduces(v)'
<1> DEFINE cast == Cast(v)
           quorum == body[v].quorum
           voted == Cardinality(UnitsVoted(v))
           eligible == Cardinality(EligibleUnits(v))
<1>1. PICK order \in TallyOrders(cast) :
          LET outcome == ResultStatus(quorum, eligible, cast, order)
          IN  result' = [result EXCEPT ![v] =
                  [status |-> outcome, winner |-> Winner(cast, order), counted |-> UnitsVoted(v)]]
  BY DEF CloseVote, Closable, CountBallots
<1> DEFINE outcome == ResultStatus(quorum, eligible, cast, order)
           row == [status |-> outcome, winner |-> Winner(cast, order), counted |-> UnitsVoted(v)]
<1>2. result'[v] = row
  BY <1>1 DEF Typed
<1>3. body' = body /\ snapshot' = snapshot /\ ballot' = ballot
  BY DEF CloseVote, Closable, CountBallots, ballotVars
<1>4. UnitsVoted(v)' = UnitsVoted(v) /\ EligibleUnits(v)' = EligibleUnits(v)
  BY <1>3 DEF UnitsVoted, EligibleUnits
<1>5. \A u \in UnitsVoted(v) : /\ ballot[v][u].option \in body[v].options
                                /\ u \in EligibleUnits(v)
  BY DEF BallotFacts, UnitsVoted, EligibleUnits, Legitimate, Entitled
<1>6. IsFiniteSet(UnitsVoted(v)) /\ IsFiniteSet(EligibleUnits(v))
  <2>1. UnitsVoted(v) \in SUBSET Units /\ EligibleUnits(v) \in SUBSET Units
    BY DEF UnitsVoted, EligibleUnits
  <2> QED
    BY <2>1, FS_Subset, BodyAssumption
<1>7. voted \in Nat /\ eligible \in Nat
  BY <1>6, FS_CardinalityType
<1>8. DOMAIN cast = UnitsVoted(v) /\ \A u \in UnitsVoted(v) : cast[u] = ballot[v][u].option
  BY DEF Cast
<1>9. quorum \in Nat /\ NoWinner \notin body[v].options
  <2>1. body[v] \in Bodies \cup {NoBody}
    BY DEF Typed, TypeOK
  <2> QED
    BY <2>1, BodyAssumption DEF NoBody
<1>10. NoWinner \notin Tallied(cast)
  BY <1>5, <1>8, <1>9 DEF Tallied
<1>11. IF Most(cast) = {} THEN Winner(cast, order) = NoWinner
       ELSE Most(cast) = {Winner(cast, order)} /\ Winner(cast, order) # NoWinner
  BY <1>6, <1>8, <1>10, WinnerIsMost
<1>12. Most(cast) # {} => eligible > 0
  <2>1. Most(cast) # {} => EligibleUnits(v) # {}
    BY <1>5, <1>8 DEF Most, Tallied
  <2> QED
    BY <2>1, <1>6, <1>7, FS_EmptySet
<1>13. outcome = "PASSED" <=> IsQuorumMet(quorum, eligible, voted) /\ Winner(cast, order) # NoWinner
  BY <1>8 DEF ResultStatus
<1> HIDE DEF cast, quorum, voted, eligible, outcome
<1>14. Most(cast) # {} => (IsQuorumMet(quorum, eligible, voted) <=> voted * 100 >= quorum * eligible)
  <2>1. quorum = 0 => quorum * eligible = 0 /\ voted * 100 >= 0
    BY <1>7
  <2> QED
    BY <2>1, <1>7, <1>9, <1>12 DEF IsQuorumMet
<1>15. /\ outcome = "PASSED" <=> Most(cast) # {} /\ voted * 100 >= quorum * eligible
       /\ outcome = "PASSED" => Most(cast) = {Winner(cast, order)}
  BY <1>11, <1>13, <1>14
<1>16. [u \in result'[v].counted |-> ballot'[v][u].option] = cast
  BY <1>2, <1>3 DEF cast, Cast
<1> QED
  BY <1>2, <1>3, <1>4, <1>15, <1>16 DEF Reproduces, voted, quorum, eligible

LEMMA TallyInvStep == Typed /\ BallotFacts /\ TallyInv /\ [Next]_vars => TallyInv'
<1> SUFFICES ASSUME Typed, BallotFacts, TallyInv, [Next]_vars,
                    NEW v \in Votes, status'[v] = "CLOSED"
             PROVE  result'[v].counted \subseteq UnitsVoted(v)' /\ Reproduces(v)'
  BY DEF TallyInv
<1>1. CASE status[v] # "CLOSED"
  BY <1>1, ClosedByCount, CountReproduces
<1>2. CASE status[v] = "CLOSED"
  <2>1. /\ result'[v] = result[v] /\ body'[v] = body[v] /\ snapshot'[v] = snapshot[v]
        /\ result[v].counted \subseteq UnitsVoted(v) /\ Reproduces(v)
    BY <1>2, StatusSteps DEF TallyInv
  <2>2. \A u \in UnitsVoted(v) : ballot'[v][u] = ballot[v][u] /\ u \in UnitsVoted(v)'
    BY BallotsStay DEF UnitsVoted
  <2>3. [u \in result'[v].counted |-> ballot'[v][u].option]
            = [u \in result[v].counted |-> ballot[v][u].option]
    BY <2>1, <2>2
  <2>4. EligibleUnits(v)' = EligibleUnits(v)
    BY <2>1 DEF EligibleUnits
  <2> QED
    BY <2>1, <2>2, <2>3, <2>4 DEF Reproduces
<1> QED
  BY <1>1, <1>2

\* For any number of units and options, whatever order the ballots come in: a vote passes when
\* the turnout reaches the quorum and one option has more ballots than any other, and that
\* option wins.
THEOREM WinnersHavePlurality == Spec => []WinnerHasPlurality
<1>1. Init => BallotFacts /\ TallyInv
  BY DEF Init, BallotFacts, TallyInv
<1>2. Spec => []Typed
  BY TypedInit, TypedStep, PTL DEF Spec
<1>3. TallyInv => WinnerHasPlurality
  BY DEF TallyInv, Reproduces, WinnerHasPlurality, Most
<1> QED
  BY <1>1, <1>2, <1>3, BallotFactsStep, TallyInvStep, PTL DEF Spec
=============================================================================
