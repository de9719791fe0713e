------------------------------ MODULE MCVoting -------------------------------
(* Instances of Voting for TLC: three units, their owners, and requests.    *)
EXTENDS Voting

CONSTANTS
    ann, bob, cyd, dan, yes, no, u1, u2, u3, v1, v2,
    l1, l2, l3, l4, l5, t1, b1, b2, b3, b4, g1, g2

\* Ann owns u1, Bob u2 and Cyd u3; u1 is to go to Dan, who verifies twice.
Links ==
    [l \in LinkRequests |->
        CASE l = l1 -> [unit |-> u1, person |-> ann]
          [] l = l2 -> [unit |-> u2, person |-> bob]
          [] l = l3 -> [unit |-> u3, person |-> cyd]
          [] OTHER  -> [unit |-> u1, person |-> dan]]

Owners == [u \in Units |-> CASE u = u1 -> ann [] u = u2 -> bob [] OTHER -> cyd]

Transfers == [t \in TransferRequests |-> [unit |-> u1, actor |-> ann, newOwner |-> dan]]

NoTenants == [u \in Units |-> {}]
CydInU2 == [u \in Units |-> IF u = u2 THEN {cyd} ELSE {}]

\* Each owner for the own unit; b2 is Ann's second request.
OwnBallots ==
    [b \in BallotRequests |->
        CASE b \in {b1, b2} -> [vote |-> v1, unit |-> u1, actor |-> ann]
          [] b = b3         -> [vote |-> v1, unit |-> u2, actor |-> bob]
          [] OTHER          -> [vote |-> v1, unit |-> u3, actor |-> cyd]]

\* Bob, who may be Ann's proxy, for u1, and Cyd, the tenant, for u2.
ProxyBallots ==
    [b \in BallotRequests |->
        IF b = b2 THEN [vote |-> v1, unit |-> u1, actor |-> bob]
        ELSE [vote |-> v1, unit |-> u2, actor |-> cyd]]

\* One ballot in each of two elections.
ElectionBallots ==
    [b \in BallotRequests |-> [vote |-> IF b = b1 THEN v1 ELSE v2, unit |-> u1, actor |-> ann]]

\* Two appointments for one unit.
Grants ==
    [g \in GrantRequests |->
        [unit |-> u1, granter |-> ann, proxy |-> IF g = g1 THEN bob ELSE cyd]]

Election(candidates) ==
    [election |-> TRUE, options |-> candidates, quorum |-> 0, scope |-> Units]
Referendum ==
    [election |-> FALSE, options |-> {yes, no, Abstain}, quorum |-> 60, scope |-> Units]

ElectionOrReferendum == {Election({ann, dan}), Referendum}
OneReferendum == {Referendum}
TwoElections == {Election({bob, cyd})}

-----------------------------------------------------------------------------
\* The loop of calculateResult against its purpose, for all ballots of up to
\* five units on four options, and all orders of the tally.
ASSUME LoopFindsPlurality ==
    \A units \in SUBSET (1..5) : \A cast \in [units -> {yes, no, ann, Abstain}] :
        LET most == {o \in Tallied(cast) :
                        \A q \in Tallied(cast) \ {o} : VotesFor(cast, o) > VotesFor(cast, q)}
        IN  \A order \in TallyOrders(cast) :
                IF most = {} THEN Winner(cast, order) = NoWinner
                ELSE most = {Winner(cast, order)}
=============================================================================
