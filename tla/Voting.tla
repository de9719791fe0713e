------------------------------- MODULE Voting --------------------------------
(***************************************************************************)
(* The votes of one building: from draft to result, the ballots cast by    *)
(* units or by their standing proxies, changes of ownership meanwhile, and *)
(* the handover to a manager who won an election.                          *)
(*                                                                         *)
(* Handlers decide on reads made before their transaction, and the         *)
(* transactions run under READ COMMITTED, except that of a proxy grant,    *)
(* which is Serializable.  Each read that a later write relies on is a     *)
(* step of its own.                                                        *)
(***************************************************************************)
EXTENDS Tally

CONSTANTS
    Units, Persons,
    Votes,
    Bodies,             \* what votes may be about: election, options, quorum, scope
    AllowTenantVoting,  \* buildings_settings.allowTenantVoting
    Tenants,            \* Tenants[u]: persons with a current tenancy of u
    OtherMembers,       \* members of the building for another reason
    LinkRequests,       \* OTP verifications and claims that link an owner
    LinkBody,           \* LinkBody[l]: unit and person of l
    Invited,            \* Invited[u]: whose phone is on the invitation of u
    Linked,             \* links that are already made
    TransferRequests,
    TransferBody,       \* TransferBody[t]: unit, actor and new owner of t
    BallotRequests,
    BallotBody,         \* BallotBody[b]: vote, unit and actor of b
    GrantRequests,      \* a vote_proxies row is named by its grant
    GrantBody,          \* GrantBody[g]: unit, granter and proxy of g
    RevokeRequests,
    CancelRequests,
    FirstManager,       \* the current manager at the start
    NoOne, NoVote, NoGrant, NoRow

ASSUME BodyAssumption ==
    /\ Abstain \notin Persons /\ NoWinner \notin Persons \cup {Abstain}
    /\ NoOne \notin Persons /\ NoVote \notin Votes /\ NoGrant \notin GrantRequests
    /\ FirstManager \in Persons /\ OtherMembers \subseteq Persons
    /\ Linked \subseteq LinkRequests
    /\ Invited \in [Units -> Persons]
    /\ \A l \in Linked : Invited[LinkBody[l].unit] = LinkBody[l].person
    /\ AllowTenantVoting \in BOOLEAN
    /\ IsFiniteSet(LinkRequests) /\ IsFiniteSet(Units)
    /\ \A u \in Units : IsFiniteSet(Tenants[u]) /\ Tenants[u] \subseteq Persons
    /\ \A d \in Bodies : /\ d.election \in BOOLEAN
                         /\ d.quorum \in 0..100
                         /\ d.scope \subseteq Units
                         /\ IsFiniteSet(d.options) /\ Cardinality(d.options) >= 2
                         /\ d.election => d.options \subseteq Persons
                         /\ NoWinner \notin d.options
    /\ \A l \in LinkRequests : LinkBody[l].unit \in Units /\ LinkBody[l].person \in Persons
    /\ \A t \in TransferRequests : TransferBody[t].newOwner \in Persons
    /\ \A b \in BallotRequests : /\ BallotBody[b].vote \in Votes
                                 /\ BallotBody[b].unit \in Units
                                 /\ BallotBody[b].actor \in Persons
    /\ \A g \in GrantRequests : GrantBody[g].unit \in Units

VARIABLES
    body,       \* the columns of a vote that never change
    clock,      \* where now stands against startAt and endAt of a vote
    status,     \* votes.status
    snapshot,   \* vote_eligibility_snapshots: the eligible person of each unit
    ballot,     \* ballots, by vote and unit
    result,     \* vote_results, with the ballots that were counted
    request,    \* where a ballot request stands, and its option
    cancelling, \* the vote and status a cancel request has read
    invited,    \* units.ownerPhone
    ownership,  \* current ownerships; a row is named by its link
    linking,    \* where a link stands
    transfer,   \* where an ownership transfer stands
    proxies,    \* current vote_proxies
    grant,      \* where a grant stands
    seen,       \* the current proxies its transaction read
    revoking,   \* the proxy a revoke request has read
    managers,   \* current MANAGER memberships
    handover    \* where the handover to an elected manager stands

voteVars == <<body, clock, status, snapshot, result, cancelling>>
ballotVars == <<ballot, request>>
ownerVars == <<invited, ownership, linking, transfer>>
proxyVars == <<proxies, grant, seen, revoking>>
managerVars == <<managers, handover>>
vars == <<voteVars, ballotVars, ownerVars, proxyVars, managerVars>>

NoBody == [election |-> FALSE, options |-> {}, quorum |-> 0, scope |-> {}]
NoBallot == [caster |-> NoOne, option |-> NoWinner]
NoResult == [status |-> "NONE", winner |-> NoWinner, counted |-> {}]
NotRead == [vote |-> NoVote, status |-> "NONE"]
FirstRow == [vote |-> NoVote, person |-> FirstManager]

Init ==
    /\ body = [v \in Votes |-> NoBody]
    /\ clock = [v \in Votes |-> "BEFORE"]
    /\ status = [v \in Votes |-> "NONE"]
    /\ snapshot = [v \in Votes |-> [u \in Units |-> NoOne]]
    /\ ballot = [v \in Votes |-> [u \in Units |-> NoBallot]]
    /\ result = [v \in Votes |-> NoResult]
    /\ request = [b \in BallotRequests |-> [at |-> "SENT", option |-> NoWinner]]
    /\ cancelling = [c \in CancelRequests |-> NotRead]
    /\ invited = Invited
    /\ ownership = Linked
    /\ linking = [l \in LinkRequests |-> IF l \in Linked THEN "LINKED" ELSE "SENT"]
    /\ transfer = [t \in TransferRequests |-> "SENT"]
    /\ proxies = {}
    /\ grant = [g \in GrantRequests |-> "SENT"]
    /\ seen = [g \in GrantRequests |-> {}]
    /\ revoking = [r \in RevokeRequests |-> NoGrant]
    /\ managers = {FirstRow}
    /\ handover = [v \in Votes |-> [at |-> "NONE", found |-> NoRow]]

-----------------------------------------------------------------------------
(* Who votes for a unit.                                                   *)

OwnershipsOf(u) == {l \in ownership : LinkBody[l].unit = u}

\* publishVote and findLiveEligibleVoterForUnit: the sole current tenant when
\* tenants vote, else the sole current owner, else nobody.
EligibleVoter(u) ==
    IF AllowTenantVoting /\ Cardinality(Tenants[u]) = 1 THEN CHOOSE p \in Tenants[u] : TRUE
    ELSE IF Cardinality(OwnershipsOf(u)) = 1
         THEN LinkBody[CHOOSE l \in OwnershipsOf(u) : TRUE].person
    ELSE NoOne

\* A current membership of any role.
IsMember(p) ==
    \/ p \in OtherMembers
    \/ \E l \in ownership : LinkBody[l].person = p
    \/ \E u \in Units : p \in Tenants[u]
    \/ \E row \in managers : row.person = p

-----------------------------------------------------------------------------
(* The life of a vote.                                                     *)

SetStatus(v, s) == status' = [status EXCEPT ![v] = s]

InsertVote(v, d) == body' = [body EXCEPT ![v] = d] /\ SetStatus(v, "DRAFT")

\* A start date may be in the past; the end date is after it and in the future.
CreateVote(v, d) ==
    /\ status[v] = "NONE"
    /\ d.election => \A p \in d.options : IsMember(p)
    /\ InsertVote(v, d)
    /\ \E now \in {"BEFORE", "OPEN"} : clock' = [clock EXCEPT ![v] = now]
    /\ UNCHANGED <<snapshot, result, cancelling, ballotVars, ownerVars, proxyVars, managerVars>>

Tick(v, from, to) ==
    /\ status[v] # "NONE" /\ clock[v] = from
    /\ clock' = [clock EXCEPT ![v] = to]
    /\ UNCHANGED <<body, status, snapshot, result, cancelling>>
    /\ UNCHANGED <<ballotVars, ownerVars, proxyVars, managerVars>>

ReachStart(v) == Tick(v, "BEFORE", "OPEN")

ReachEnd(v) == Tick(v, "OPEN", "OVER")

Publishable(v) == status[v] = "DRAFT" /\ Cardinality(body[v].options) >= 2

\* The claim of the DRAFT vote and the snapshot of the units in its scope.
Activate(v) ==
    /\ SetStatus(v, "ACTIVE")
    /\ snapshot' = [snapshot EXCEPT ![v] =
           [u \in Units |-> IF u \in body[v].scope THEN EligibleVoter(u) ELSE NoOne]]
    /\ UNCHANGED <<body, clock, result, cancelling, ballotVars, ownerVars, proxyVars, managerVars>>

\* Publishable when the request reads it; the claim finds it still a draft.
PublishVote(v) == Publishable(v) /\ Activate(v)

\* findVotesDueForAutoPublish and findVotesDueForAutoClose.
DueForAutoPublish(v) == status[v] = "DRAFT" /\ clock[v] # "BEFORE"

\* Mutant: a vote that was over when it was published is not swept.
DueWhileOpen(v) == status[v] = "ACTIVE" /\ clock[v] = "OPEN"

DueForAutoClose(v) == status[v] = "ACTIVE" /\ clock[v] = "OVER"

AutoPublish(v) == DueForAutoPublish(v) /\ PublishVote(v)

EligibleUnits(v) == {u \in Units : snapshot[v][u] # NoOne}

UnitsVoted(v) == {u \in Units : ballot[v][u] # NoBallot}

Cast(v) == [u \in UnitsVoted(v) |-> ballot[v][u].option]

\* The claim of the ACTIVE vote, the tally of the ballots it then reads, and
\* the result row; a winning candidate is due to take over.
CountBallots(v) ==
    /\ SetStatus(v, "CLOSED")
    /\ \E order \in TallyOrders(Cast(v)) :
           LET outcome == ResultStatus(body[v].quorum, Cardinality(EligibleUnits(v)),
                                       Cast(v), order)
           IN  /\ result' = [result EXCEPT ![v] =
                      [status |-> outcome, winner |-> Winner(Cast(v), order),
                       counted |-> UnitsVoted(v)]]
               /\ handover' = [handover EXCEPT ![v].at =
                      IF body[v].election /\ outcome = "PASSED" THEN "DUE" ELSE @]
    /\ UNCHANGED <<body, clock, snapshot, cancelling, ballotVars, ownerVars, proxyVars, managers>>

Closable(v) == status[v] = "ACTIVE"

CloseVote(v) == Closable(v) /\ CountBallots(v)

AutoClose(v) == DueForAutoClose(v) /\ CloseVote(v)

\* assertCancellable, on the status the service reads.
CheckCancel(c, v) ==
    /\ cancelling[c] = NotRead
    /\ status[v] \in {"DRAFT", "ACTIVE"}
    /\ cancelling' = [cancelling EXCEPT ![c] = [vote |-> v, status |-> status[v]]]
    /\ UNCHANGED <<body, clock, status, snapshot, result>>
    /\ UNCHANGED <<ballotVars, ownerVars, proxyVars, managerVars>>

\* updateMany({id, status: expectedStatus}) matches the row.
StillAsRead(c) == status[cancelling[c].vote] = cancelling[c].status

CancelVote(c) ==
    /\ cancelling[c] # NotRead
    /\ IF StillAsRead(c) THEN SetStatus(cancelling[c].vote, "CANCELLED") ELSE UNCHANGED status
    /\ cancelling' = [cancelling EXCEPT ![c] = NotRead]
    /\ UNCHANGED <<body, clock, snapshot, result, ballotVars, ownerVars, proxyVars, managerVars>>

-----------------------------------------------------------------------------
(* Ballots.                                                                *)

IsOpen(v) == status[v] = "ACTIVE" /\ clock[v] # "OVER"

\* isCurrentProxyFor: of any unit of the granter.
IsCurrentProxyFor(granter, p) ==
    \E g \in proxies : GrantBody[g].granter = granter /\ GrantBody[g].proxy = p

\* Mutant: the rule is checked against who casts, not against whose unit it is.
CasterStands(b) ==
    LET v == BallotBody[b].vote
    IN  body[v].election /\ BallotBody[b].actor \in body[v].options

\* assertNotVotingOnOwnCandidacy, on the unit's eligible person.
VotesOnOwnCandidacy(b) ==
    LET v == BallotBody[b].vote
    IN  body[v].election /\ snapshot[v][BallotBody[b].unit] \in body[v].options

\* castBallot, up to the transaction.
CheckBallot(b, o) ==
    LET v == BallotBody[b].vote
        u == BallotBody[b].unit
        actor == BallotBody[b].actor
    IN  /\ request[b].at = "SENT"
        /\ IsMember(actor)
        /\ IsOpen(v)
        /\ snapshot[v][u] # NoOne
        /\ actor = snapshot[v][u] \/ IsCurrentProxyFor(snapshot[v][u], actor)
        /\ ballot[v][u] = NoBallot
        /\ o \in body[v].options
        /\ ~VotesOnOwnCandidacy(b)
        /\ request' = [request EXCEPT ![b] = [at |-> "CHECKED", option |-> o]]
        /\ UNCHANGED <<ballot, voteVars, ownerVars, proxyVars, managerVars>>

\* The transaction of createBallot reads the vote without a lock.
ReadOpen(b) ==
    /\ request[b].at = "CHECKED"
    /\ request' = [request EXCEPT ![b].at =
                      IF IsOpen(BallotBody[b].vote) THEN "OPEN" ELSE "REFUSED"]
    /\ UNCHANGED <<ballot, voteVars, ownerVars, proxyVars, managerVars>>

\* Mutant: no unique (voteId, unitId).
NeverTaken(b) == FALSE

\* A ballot row with this (voteId, unitId) is there.
Taken(b) == ballot[BallotBody[b].vote][BallotBody[b].unit] # NoBallot

CreateBallot(b) ==
    LET v == BallotBody[b].vote
        u == BallotBody[b].unit
    IN  /\ request[b].at = "OPEN"
        /\ IF Taken(b)
           THEN /\ request' = [request EXCEPT ![b].at = "DUPLICATE"]
                /\ UNCHANGED ballot
           ELSE /\ request' = [request EXCEPT ![b].at = "ACCEPTED"]
                /\ ballot' = [ballot EXCEPT ![v][u] =
                       [caster |-> BallotBody[b].actor, option |-> request[b].option]]
        /\ UNCHANGED <<voteVars, ownerVars, proxyVars, managerVars>>

-----------------------------------------------------------------------------
(* Owners.                                                                 *)

\* findUnlinkedOwnerUnitsByPhone, and the check of a claim.
FindUnlinked(l) ==
    /\ linking[l] = "SENT"
    /\ invited[LinkBody[l].unit] = LinkBody[l].person
    /\ OwnershipsOf(LinkBody[l].unit) = {}
    /\ linking' = [linking EXCEPT ![l] = "FOUND"]
    /\ UNCHANGED <<invited, ownership, transfer>>
    /\ UNCHANGED <<voteVars, ballotVars, proxyVars, managerVars>>

LinkOwnerToUnit(l) ==
    /\ linking[l] = "FOUND"
    /\ linking' = [linking EXCEPT ![l] = "LINKED"]
    /\ ownership' = ownership \cup {l}
    /\ UNCHANGED <<invited, transfer, voteVars, ballotVars, proxyVars, managerVars>>

\* assertCallerIsCurrentOwner.
CheckTransfer(t) ==
    /\ transfer[t] = "SENT"
    /\ \E l \in OwnershipsOf(TransferBody[t].unit) : LinkBody[l].person = TransferBody[t].actor
    /\ transfer' = [transfer EXCEPT ![t] = "CHECKED"]
    /\ UNCHANGED <<invited, ownership, linking>>
    /\ UNCHANGED <<voteVars, ballotVars, proxyVars, managerVars>>

TransferOwnership(t) ==
    /\ transfer[t] = "CHECKED"
    /\ transfer' = [transfer EXCEPT ![t] = "DONE"]
    /\ ownership' = ownership \ OwnershipsOf(TransferBody[t].unit)
    /\ invited' = [invited EXCEPT ![TransferBody[t].unit] = TransferBody[t].newOwner]
    /\ UNCHANGED <<linking, voteVars, ballotVars, proxyVars, managerVars>>

-----------------------------------------------------------------------------
(* Proxies.                                                                *)

ProxiesOf(u) == {g \in proxies : GrantBody[g].unit = u}

GrantStep(g, from, to) == grant[g] = from /\ grant' = [grant EXCEPT ![g] = to]

CheckGrant(g) ==
    /\ EligibleVoter(GrantBody[g].unit) = GrantBody[g].granter
    /\ GrantBody[g].granter # GrantBody[g].proxy
    /\ IsMember(GrantBody[g].proxy)
    /\ GrantStep(g, "SENT", "CHECKED")
    /\ UNCHANGED <<proxies, seen, revoking, voteVars, ballotVars, ownerVars, managerVars>>

\* The snapshot of the Serializable transaction, at the first or second attempt.
ReadProxies(g) ==
    /\ GrantStep(g, "CHECKED", "READ") \/ GrantStep(g, "CONFLICT", "REREAD")
    /\ seen' = [seen EXCEPT ![g] = ProxiesOf(GrantBody[g].unit)]
    /\ UNCHANGED <<proxies, revoking, voteVars, ballotVars, ownerVars, managerVars>>

\* Mutant: READ COMMITTED.
AnyProxies(g) == TRUE

\* The database commits a Serializable transaction only if what it read stands.
Serializable(g) == seen[g] = ProxiesOf(GrantBody[g].unit)

CommitGrant(g) ==
    /\ GrantStep(g, "READ", "GRANTED") \/ GrantStep(g, "REREAD", "GRANTED")
    /\ Serializable(g)
    /\ proxies' = (proxies \ seen[g]) \cup {g}
    /\ UNCHANGED <<seen, revoking, voteVars, ballotVars, ownerVars, managerVars>>

\* P2034, which the database may also raise without need: one retry.
AbortGrant(g) ==
    /\ GrantStep(g, "READ", "CONFLICT") \/ GrantStep(g, "REREAD", "FAILED")
    /\ UNCHANGED <<proxies, seen, revoking, voteVars, ballotVars, ownerVars, managerVars>>

\* findCurrentForUnit, with the granter as the actor.
CheckRevoke(r, g) ==
    /\ revoking[r] = NoGrant
    /\ g \in proxies
    /\ IsMember(GrantBody[g].granter)
    /\ revoking' = [revoking EXCEPT ![r] = g]
    /\ UNCHANGED <<proxies, grant, seen, voteVars, ballotVars, ownerVars, managerVars>>

RevokeProxy(r) ==
    /\ revoking[r] # NoGrant
    /\ revoking' = [revoking EXCEPT ![r] = NoGrant]
    /\ proxies' = proxies \ {revoking[r]}
    /\ UNCHANGED <<grant, seen, voteVars, ballotVars, ownerVars, managerVars>>

-----------------------------------------------------------------------------
(* The handover after an election: changeManager(..., 'ELECTED').          *)

HandoverStep(v, from, to, row) ==
    /\ handover[v].at = from
    /\ handover' = [handover EXCEPT ![v] = [at |-> to, found |-> row]]

\* findFirst of the current managers: any of them, or none.
FoundManager == IF managers = {} THEN {NoRow} ELSE managers

\* assertNotSelfHandoff and assertCandidateIsMember; a failure is audited only.
CheckHandover(v) ==
    /\ \E current \in FoundManager :
           HandoverStep(v, "DUE",
               IF (current # NoRow => current.person # result[v].winner) /\ IsMember(result[v].winner)
               THEN "CHECKED" ELSE "FAILED", NoRow)
    /\ UNCHANGED <<managers, voteVars, ballotVars, ownerVars, proxyVars>>

\* The transaction's own findFirst, without a lock.
ReadManager(v) ==
    /\ \E current \in FoundManager : HandoverStep(v, "CHECKED", "READ", current)
    /\ UNCHANGED <<managers, voteVars, ballotVars, ownerVars, proxyVars>>

ChangeManager(v) ==
    /\ HandoverStep(v, "READ", "DONE", NoRow)
    /\ managers' = (managers \ {handover[v].found})
                       \cup {[vote |-> v, person |-> result[v].winner]}
    /\ UNCHANGED <<voteVars, ballotVars, ownerVars, proxyVars>>

-----------------------------------------------------------------------------
Next ==
    \/ \E v \in Votes, d \in Bodies : CreateVote(v, d)
    \/ \E v \in Votes : ReachStart(v)
    \/ \E v \in Votes : ReachEnd(v)
    \/ \E v \in Votes : PublishVote(v)
    \/ \E v \in Votes : CloseVote(v)
    \/ \E c \in CancelRequests, v \in Votes : CheckCancel(c, v)
    \/ \E c \in CancelRequests : CancelVote(c)
    \/ \E b \in BallotRequests : \E o \in body[BallotBody[b].vote].options : CheckBallot(b, o)
    \/ \E b \in BallotRequests : ReadOpen(b)
    \/ \E b \in BallotRequests : CreateBallot(b)
    \/ \E l \in LinkRequests : FindUnlinked(l)
    \/ \E l \in LinkRequests : LinkOwnerToUnit(l)
    \/ \E t \in TransferRequests : CheckTransfer(t)
    \/ \E t \in TransferRequests : TransferOwnership(t)
    \/ \E g \in GrantRequests : CheckGrant(g)
    \/ \E g \in GrantRequests : ReadProxies(g)
    \/ \E g \in GrantRequests : CommitGrant(g)
    \/ \E g \in GrantRequests : AbortGrant(g)
    \/ \E r \in RevokeRequests, g \in GrantRequests : CheckRevoke(r, g)
    \/ \E r \in RevokeRequests : RevokeProxy(r)
    \/ \E v \in Votes : CheckHandover(v)
    \/ \E v \in Votes : ReadManager(v)
    \/ \E v \in Votes : ChangeManager(v)

Spec == Init /\ [][Next]_vars

\* Time passes, and the scheduler sweeps every five minutes; whatever fails for
\* one vote does not keep the sweep from the others.
Fairness ==
    \A v \in Votes :
        /\ WF_vars(ReachStart(v)) /\ WF_vars(ReachEnd(v))
        /\ WF_vars(AutoPublish(v)) /\ WF_vars(AutoClose(v))

FairSpec == Spec /\ Fairness
-----------------------------------------------------------------------------
(* Properties.                                                             *)

Options == {NoWinner} \cup UNION {d.options : d \in Bodies}

\* Every column holds a value of its type: whatever ownership does, a snapshot
\* names a person for each unit or nobody, and exactly closed votes have a result.
TypeOK ==
    /\ body \in [Votes -> Bodies \cup {NoBody}]
    /\ clock \in [Votes -> {"BEFORE", "OPEN", "OVER"}]
    /\ status \in [Votes -> {"NONE", "DRAFT", "ACTIVE", "CLOSED", "CANCELLED"}]
    /\ snapshot \in [Votes -> [Units -> Persons \cup {NoOne}]]
    /\ ballot \in [Votes -> [Units -> [caster : Persons \cup {NoOne}, option : Options]]]
    /\ \A v \in Votes : result[v].status # "NONE" <=> status[v] = "CLOSED"
    /\ request \in [BallotRequests ->
           [at : {"SENT", "CHECKED", "OPEN", "REFUSED", "DUPLICATE", "ACCEPTED"},
            option : Options]]
    /\ cancelling \in [CancelRequests ->
           [vote : Votes, status : {"DRAFT", "ACTIVE"}] \cup {NotRead}]
    /\ invited \in [Units -> Persons]
    /\ ownership \subseteq LinkRequests
    /\ linking \in [LinkRequests -> {"SENT", "FOUND", "LINKED"}]
    /\ transfer \in [TransferRequests -> {"SENT", "CHECKED", "DONE"}]
    /\ proxies \subseteq GrantRequests
    /\ grant \in [GrantRequests ->
           {"SENT", "CHECKED", "READ", "CONFLICT", "REREAD", "GRANTED", "FAILED"}]
    /\ seen \in [GrantRequests -> SUBSET GrantRequests]
    /\ revoking \in [RevokeRequests -> GrantRequests \cup {NoGrant}]

\* p may cast for u: the person in the snapshot, or one whom that person
\* appointed; and the person in the snapshot is no candidate.
Entitled(v, u, p) ==
    LET voter == snapshot[v][u]
    IN  /\ voter # NoOne
        /\ \/ p = voter
           \/ \E g \in GrantRequests : /\ grant[g] = "GRANTED"
                                       /\ GrantBody[g].granter = voter
                                       /\ GrantBody[g].proxy = p
        /\ body[v].election => voter \notin body[v].options

\* However ownership changes and proxies come and go between publication and
\* ballot, a unit's ballot was cast by the person in its snapshot or by one whom
\* that person had appointed, no unit of a candidate votes in the election, and
\* the option is one of the vote's own.
BallotsLegitimate ==
    \A v \in Votes, u \in Units :
        ballot[v][u] # NoBallot =>
            /\ Entitled(v, u, ballot[v][u].caster)
            /\ ballot[v][u].option \in body[v].options

\* Closing, cancelling and a second ballot race each other: a vote that is
\* closed or cancelled stays so, with its result, and a ballot is never replaced.
DecisionsAreFinal ==
    [][/\ \A v \in Votes :
              status[v] \in {"CLOSED", "CANCELLED"} =>
                  status'[v] = status[v] /\ result'[v] = result[v]
       /\ \A v \in Votes, u \in Units :
              ballot[v][u] # NoBallot => ballot'[v][u] = ballot[v][u]]_vars

\* The loop of calculateResult finds the option that has more of the counted
\* ballots than any other, abstentions aside, whatever order they come in.
WinnerHasPlurality ==
    \A v \in Votes :
        status[v] = "CLOSED" =>
            LET cast == [u \in result[v].counted |-> ballot[v][u].option]
                most == {o \in Tallied(cast) :
                            \A q \in Tallied(cast) \ {o} : VotesFor(cast, o) > VotesFor(cast, q)}
                turnout == Cardinality(result[v].counted) * 100
            IN  /\ result[v].status = "PASSED" <=>
                       /\ most # {}
                       /\ turnout >= body[v].quorum * Cardinality(EligibleUnits(v))
                /\ result[v].status = "PASSED" => most = {result[v].winner}

\* Grants and revocations of one unit that overlap leave it at most one proxy.
OneCurrentProxy == \A u \in Units : Cardinality(ProxiesOf(u)) <= 1

\* Every vote that was created is decided in the end: the sweeps publish it after
\* its start and close it after its end, also when it is published late.
VotesSettle ==
    \A v \in Votes : status[v] # "NONE" ~> status[v] \in {"CLOSED", "CANCELLED"}

\* A result is "reproducible from Ballot + VoteEligibilitySnapshot +
\* Vote.quorumPercent": the ballots of a closed vote are those that were counted.
ResultReproducible ==
    \A v \in Votes : status[v] = "CLOSED" => UnitsVoted(v) = result[v].counted

\* "There is at most one at a time (enforced transactionally by changeManager)".
OneManager == Cardinality(managers) <= 1
=============================================================================
