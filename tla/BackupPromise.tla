---------------------------- MODULE BackupPromise ----------------------------
(***************************************************************************)
(* What the backup of stored objects promises, without workers, leases or  *)
(* attempts: an object is asked to be protected once, it becomes protected *)
(* with one content that it had while it was asked, and nothing undoes it. *)
(***************************************************************************)
CONSTANTS
    Requests,   \* objects that may be asked to be protected
    Contents,   \* what an object may hold
    Absent      \* the object does not exist

VARIABLES
    source,     \* the object store the documents are uploaded to
    asked,      \* requests enqueued
    protected   \* protected[q]: the content that is safe, or Absent

vars == <<source, asked, protected>>

Init ==
    /\ source \in [Requests -> Contents \cup {Absent}]
    /\ asked = {}
    /\ protected = [q \in Requests |-> Absent]

Ask(q) ==
    /\ q \notin asked
    /\ asked' = asked \cup {q}
    /\ UNCHANGED protected

\* The content was captured earlier; the object may hold something else by now.
Protect(q) ==
    /\ q \in asked
    /\ protected[q] = Absent
    /\ \E c \in Contents : protected' = [protected EXCEPT ![q] = c]
    /\ UNCHANGED asked

Next ==
    \/ \E q \in Requests : Ask(q) \/ Protect(q)
    \/ UNCHANGED <<asked, protected>>

Spec == Init /\ [][Next]_vars
=============================================================================
