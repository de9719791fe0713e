-------------------------------- MODULE Rows --------------------------------
(***************************************************************************)
(* How the services of this backend change a row: a request reads it,      *)
(* checks it, and later writes it by its identifier.  Some writes repeat   *)
(* what was read in their where-clause, some do not, and between the read  *)
(* and the write any other request may run: that gap is what this module   *)
(* keeps.                                                                  *)
(***************************************************************************)
EXTENDS Naturals, Sequences, FiniteSets

CONSTANTS
    Persons,     \* people, staff among them
    Calls,       \* requests under way at the same time
    MaxRows,     \* bound of the model: rows of a kind
    Scenes       \* bound of the model: the parts of the platform that act together

VARIABLES
    table,       \* the rows of all kinds, in the order of their creation
    call,        \* per request: the operation, the row it is on and what it read
    scene        \* the scene of this behaviour: what it does not touch stays as it began

rowVars == <<table, call>>

Idle == [op |-> "IDLE"]
NoOne == "NO_ONE"

Ids(kind) == {i \in DOMAIN table : table[i].kind = kind}
Seen(c) == call[c].seen
Now(c) == table[call[c].on]

\* The request has read row i and found it fit for op.
Checked(c, op, i) ==
    /\ call[c] = Idle
    /\ call' = [call EXCEPT ![c] = [op |-> op, on |-> i, seen |-> table[i]]]
    /\ UNCHANGED table

\* The request, checked for op, ends.
Ends(c, op) ==
    /\ call[c].op = op
    /\ call' = [call EXCEPT ![c] = Idle]

Put(c, r) == table' = [table EXCEPT ![call[c].on] = r]

\* A conditional update: it finds its row again or it answers with a conflict.
PutIf(c, found, r) == IF found THEN Put(c, r) ELSE UNCHANGED table

\* Mutant: the update names the row by its identifier alone.
WhateverStatus(c) == TRUE

\* The where-clause that repeats the status the request has read.
SameStatus(c) == Now(c).status = Seen(c).status

\* Rows of different families share no column and no lock, so a behaviour of the
\* model keeps to one family.
Family(kind) ==
    IF kind \in {"FRAUD", "ENFORCEMENT", "BUILDING_CASE", "MANAGER_CASE"} THEN "STANDING"
    ELSE IF kind \in {"DRAFT", "BUILDING", "SETTINGS"} THEN "REGISTRATION"
    ELSE IF kind \in {"OWNERSHIP", "TENANCY", "UNIT_CASE"} THEN "PREMISES"
    ELSE IF kind \in {"FUND", "BATCH"} THEN "BILLING" ELSE kind

Insert(r) ==
    /\ Cardinality(Ids(r.kind)) < MaxRows
    /\ \A i \in DOMAIN table : Family(table[i].kind) = Family(r.kind)
    /\ table' = Append(table, r)

Open(r) == Insert(r) /\ UNCHANGED call

=============================================================================
