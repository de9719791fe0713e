---------------------------- MODULE ObjectBackup ----------------------------
(***************************************************************************)
(* The backup worker: one-shot processes that lease requests from a table, *)
(* capture the object, copy it under a fresh key, read the copy back,      *)
(* describe it in a manifest, read that back and only then mark the        *)
(* request verified, in a transaction fenced by the lease.                 *)
(*                                                                         *)
(* Every call to the database or to a store is a step of its own.  Any     *)
(* call may fail, a process may die between any two calls, and a lease may *)
(* run out under a process that is merely slow.  Time is abstract: a       *)
(* lease runs out and a backoff ends by a step of their own.  A claim is   *)
(* named by the attempt it starts, which stands for the random owner and   *)
(* capture identifiers.                                                    *)
(***************************************************************************)
EXTENDS Naturals, FiniteSets

CONSTANTS
    Requests,      \* object_backup_requests, named by the object they cover
    Workers,       \* backup processes
    Contents,      \* what an object may hold
    SizeAsDeclared,\* the contents whose size is the declared one
    Absent,        \* no object, no copy, no digest
    MaxAttempts,   \* the attempts a failing request gets (10 in the code)
    MaxMishaps     \* bound of the model: deaths of workers and stalls together

ASSUME BackupAssumption ==
    /\ SizeAsDeclared \subseteq Contents
    /\ Absent \notin Contents
    /\ MaxAttempts \in Nat \ {0}
    /\ MaxMishaps \in Nat

VARIABLES
    source,      \* the object store the documents are uploaded to
    row,         \* object_backup_requests
    generation,  \* object_backup_generations
    copy,        \* objects of the destination bucket: what was put, by key
    manifest,    \* keys of the destination bucket that hold a manifest
    worker,      \* where a process stands in runOne
    mishaps      \* deaths and stalls so far

backupVars == <<row, generation, copy, manifest, worker, mishaps>>
vars == <<source, row, generation, copy, manifest, worker, mishaps>>

NoRow == [state |-> "NONE", attempts |-> 0, owner |-> 0, leased |-> FALSE, due |-> FALSE]
Pending == [state |-> "PENDING", attempts |-> 0, owner |-> 0, leased |-> FALSE, due |-> TRUE]
Idle == [pc |-> "IDLE"]

InitBackup ==
    /\ row = [q \in Requests |-> NoRow]
    /\ generation = {}
    /\ copy = {}
    /\ manifest = {}
    /\ worker = [w \in Workers |-> Idle]
    /\ mishaps = 0

\* The row is written in the transaction that creates the document version.
Enqueue(q) ==
    /\ row[q].state = "NONE"
    /\ row' = [row EXCEPT ![q] = Pending]

-----------------------------------------------------------------------------
(* Claiming a request.                                                     *)

\* Mutant: a lease is not looked at, only whether a copy is under way.
EligibleWhileLeased(r) ==
    \/ r.state \in {"PENDING", "FAILED", "SOURCE_MISSING"} /\ r.due /\ r.attempts < MaxAttempts
    \/ r.state \in {"COPYING", "VERIFIED"}

\* Mutant: what a dead process left in COPYING is not taken up again.
EligibleUnlessCopying(r) ==
    r.state \in {"PENDING", "FAILED", "SOURCE_MISSING"} /\ r.due /\ r.attempts < MaxAttempts

\* Mutant: the last attempt is not made.
EligibleButLast(r) ==
    \/ r.state \in {"PENDING", "FAILED", "SOURCE_MISSING"} /\ r.due /\ r.attempts + 1 < MaxAttempts
    \/ r.state = "COPYING" /\ ~r.leased

Eligible(r) ==
    \/ r.state \in {"PENDING", "FAILED", "SOURCE_MISSING"} /\ r.due /\ r.attempts < MaxAttempts
    \/ r.state = "COPYING" /\ ~r.leased

\* The candidates are read first, but the update checks them again.
Claim(w, q) ==
    /\ worker[w].pc = "IDLE"
    /\ Eligible(row[q])
    /\ LET n == row[q].attempts + 1
       IN /\ row' = [row EXCEPT ![q] = [state |-> "COPYING", attempts |-> n, owner |-> n,
                                        leased |-> TRUE, due |-> FALSE]]
          /\ worker' = [worker EXCEPT ![w] = [pc |-> "CLAIMED", request |-> q, attempt |-> n,
                                              content |-> Absent, code |-> "NONE"]]
    /\ UNCHANGED <<source, generation, copy, manifest, mishaps>>

-----------------------------------------------------------------------------
(* Copying.                                                                *)

At(w, pc) == worker[w].pc = pc
Key(w) == [request |-> worker[w].request, attempt |-> worker[w].attempt]
Goes(w, pc) == worker' = [worker EXCEPT ![w].pc = pc]
Gives(w, code) == worker' = [worker EXCEPT ![w].pc = "FAILING", ![w].code = code]

\* HEAD, GET If-Match and HEAD again: what is kept is one content of the object.
Capture(w) ==
    /\ At(w, "CLAIMED")
    /\ LET c == source[worker[w].request]
       IN IF c \in SizeAsDeclared
          THEN worker' = [worker EXCEPT ![w].pc = "CAPTURED", ![w].content = c]
          ELSE Gives(w, IF c = Absent THEN "SOURCE_MISSING" ELSE "SIZE_MISMATCH")
    /\ UNCHANGED <<source, row, generation, copy, manifest, mishaps>>

CreateGeneration(w) ==
    /\ At(w, "CAPTURED")
    /\ generation' = generation \cup
           {[request |-> worker[w].request, attempt |-> worker[w].attempt, sha256 |-> Absent]}
    /\ Goes(w, "GENERATED")
    /\ UNCHANGED <<source, row, copy, manifest, mishaps>>

\* PUT If-None-Match under the generation's key.
PutCopy(w) ==
    /\ At(w, "GENERATED")
    /\ ~\E k \in copy : k.key = Key(w)
    /\ copy' = copy \cup {[key |-> Key(w), content |-> worker[w].content]}
    /\ Goes(w, "COPIED")
    /\ UNCHANGED <<source, row, generation, manifest, mishaps>>

\* Read the copy back and compare the digests, then PUT the manifest.
PutManifest(w) ==
    /\ At(w, "COPIED")
    /\ [key |-> Key(w), content |-> worker[w].content] \in copy
    /\ manifest' = manifest \cup {Key(w)}
    /\ Goes(w, "DESCRIBED")
    /\ UNCHANGED <<source, row, generation, copy, mishaps>>

\* Mutant: updates are not fenced by the lease's owner.
Unfenced(w) == row[worker[w].request].attempts >= worker[w].attempt

\* leaseOwner of the request is the one this process was given.
HoldsLease(w) ==
    LET r == row[worker[w].request]
    IN r.state = "COPYING" /\ r.owner = worker[w].attempt

Digested(w) ==
    {IF g.request = worker[w].request /\ g.attempt = worker[w].attempt
     THEN [g EXCEPT !.sha256 = worker[w].content] ELSE g : g \in generation}

\* The lease is checked and given back in the transaction that stamps the generation.
\* The process may not learn that it committed.
Verify(w) ==
    /\ At(w, "DESCRIBED")
    /\ IF HoldsLease(w) /\ row[worker[w].request].leased
       THEN /\ row' = [row EXCEPT ![worker[w].request] =
                           [@ EXCEPT !.state = "VERIFIED", !.owner = 0, !.leased = FALSE]]
            /\ generation' = Digested(w)
            /\ worker' = [worker EXCEPT ![w] = Idle] \/ Gives(w, "BACKUP_FAILED")
       ELSE Gives(w, "LEASE_LOST") /\ UNCHANGED <<row, generation>>
    /\ UNCHANGED <<source, copy, manifest, mishaps>>

\* A call to a store or the database fails, or the source changed while it was read.
\* A copy or a manifest may have been stored although its PUT failed.
CallFails(w) ==
    /\ worker[w].pc \in {"CLAIMED", "CAPTURED", "GENERATED", "COPIED", "DESCRIBED"}
    /\ mishaps < MaxMishaps
    /\ mishaps' = mishaps + 1
    /\ \/ UNCHANGED <<copy, manifest>>
       \/ /\ At(w, "GENERATED")
          /\ copy' = copy \cup {[key |-> Key(w), content |-> worker[w].content]}
          /\ UNCHANGED manifest
       \/ At(w, "COPIED") /\ manifest' = manifest \cup {Key(w)} /\ UNCHANGED copy
    /\ Gives(w, "STORAGE_UNAVAILABLE")
    /\ UNCHANGED <<source, row, generation>>

\* fail() is fenced by the owner alone: the lease may have run out meanwhile.
Fail(w) ==
    /\ At(w, "FAILING")
    /\ row' = IF HoldsLease(w)
              THEN [row EXCEPT ![worker[w].request] =
                        [@ EXCEPT !.state = IF worker[w].code = "SOURCE_MISSING"
                                            THEN "SOURCE_MISSING" ELSE "FAILED",
                                  !.owner = 0, !.leased = FALSE, !.due = FALSE]]
              ELSE row
    /\ worker' = [worker EXCEPT ![w] = Idle]
    /\ UNCHANGED <<source, generation, copy, manifest, mishaps>>

-----------------------------------------------------------------------------
(* Processes and time.                                                     *)

\* Forced exit or crash; the scheduled job starts another process.
Die(w) ==
    /\ worker[w].pc # "IDLE"
    /\ mishaps < MaxMishaps
    /\ mishaps' = mishaps + 1
    /\ worker' = [worker EXCEPT ![w] = Idle]
    /\ UNCHANGED <<source, row, generation, copy, manifest>>

Holder(q) == {w \in Workers : ~At(w, "IDLE") /\ worker[w].request = q
                                  /\ worker[w].attempt = row[q].owner}

\* The lease outlasts the process that took it, unless the process was suspended.
LeaseRunsOut(q) ==
    /\ row[q].state = "COPYING" /\ row[q].leased
    /\ \/ Holder(q) = {} /\ UNCHANGED mishaps
       \/ Holder(q) # {} /\ mishaps < MaxMishaps /\ mishaps' = mishaps + 1
    /\ row' = [row EXCEPT ![q].leased = FALSE]
    /\ UNCHANGED <<source, generation, copy, manifest, worker>>

BackoffEnds(q) ==
    /\ row[q].state \in {"FAILED", "SOURCE_MISSING"} /\ ~row[q].due
    /\ row' = [row EXCEPT ![q].due = TRUE]
    /\ UNCHANGED <<source, generation, copy, manifest, worker, mishaps>>

RunOne(w) ==
    \/ \E q \in Requests : Claim(w, q)
    \/ Capture(w) \/ CreateGeneration(w) \/ PutCopy(w) \/ PutManifest(w)
    \/ Verify(w) \/ Fail(w)

TimePasses(q) == LeaseRunsOut(q) \/ BackoffEnds(q)

\* The document side: the object is put, put again or deleted, and its version is created.
ClientPuts(q, c) ==
    /\ source' = [source EXCEPT ![q] = c]
    /\ UNCHANGED backupVars

VersionCreated(q) ==
    /\ Enqueue(q)
    /\ UNCHANGED <<source, generation, copy, manifest, worker, mishaps>>

BackupNext ==
    \/ \E w \in Workers : RunOne(w) \/ CallFails(w) \/ Die(w)
    \/ \E q \in Requests : TimePasses(q)

\* The job is started again and again, its calls return, and time passes.
BackupFairness ==
    /\ \A w \in Workers : WF_vars(RunOne(w))
    /\ \A q \in Requests : WF_vars(TimePasses(q))

BackupInit ==
    /\ source \in [Requests -> Contents \cup {Absent}]
    /\ InitBackup

ClientStep ==
    \E q \in Requests :
        VersionCreated(q) \/ \E c \in Contents \cup {Absent} : ClientPuts(q, c)

BackupSpec == BackupInit /\ [][BackupNext \/ ClientStep]_vars /\ BackupFairness

-----------------------------------------------------------------------------
(* Properties.                                                             *)

\* backupMetrics(): a version is protected by a verified request with a stamped generation.
VerifiedGenerations(q) == {g \in generation : g.request = q /\ g.sha256 # Absent}
Protected(q) == row[q].state = "VERIFIED" /\ VerifiedGenerations(q) # {}

\* reconcile(): verified, but by nothing complete, or by generations that disagree.
InvalidVerifiedMetadata(q) == row[q].state = "VERIFIED" /\ VerifiedGenerations(q) = {}
ConflictingGenerations(q) == Cardinality({g.sha256 : g \in VerifiedGenerations(q)}) > 1

StoredWhole(g) ==
    LET key == [request |-> g.request, attempt |-> g.attempt]
    IN [key |-> key, content |-> g.sha256] \in copy /\ key \in manifest

\* What reconcile() reports as invalid or conflicting never occurs: a request is verified
\* exactly when it has one stamped generation, whose copy has the stamped content and whose
\* manifest is stored.  However many processes raced for it, died or lost their lease.
VerifiedIsRestorable ==
    \A q \in Requests :
        /\ ~InvalidVerifiedMetadata(q) /\ ~ConflictingGenerations(q)
        /\ VerifiedGenerations(q) # {} => row[q].state = "VERIFIED"
        /\ Cardinality(VerifiedGenerations(q)) <= 1
        /\ \A g \in VerifiedGenerations(q) : StoredWhole(g)

\* The abstract promise, seen through the verified rows and their digests.
Promise == INSTANCE BackupPromise WITH
    asked <- {q \in Requests : row[q].state # "NONE"},
    protected <- [q \in Requests |-> IF Protected(q)
                                     THEN (CHOOSE g \in VerifiedGenerations(q) : TRUE).sha256
                                     ELSE Absent]

\* Workers implement the promise: no failure, death or late answer withdraws it.
ImplementsPromise == Promise!Spec

Exhausted(q) == row[q].state \in {"FAILED", "SOURCE_MISSING"} /\ row[q].attempts >= MaxAttempts

\* Every request is verified or gives up with a failure that the metrics report;
\* none stays behind a dead process's lease or a backoff.
BackupSettles ==
    \A q \in Requests :
        row[q].state # "NONE" ~> row[q].state = "VERIFIED" \/ Exhausted(q)

\* An object that stays in place outlasts fewer mishaps than there are attempts.
IntactIsProtected ==
    MaxMishaps < MaxAttempts =>
        \A q \in Requests :
            [](row[q].state # "NONE" => source[q] \in SizeAsDeclared) => (row[q].state # "NONE" ~> row[q].state = "VERIFIED")

=============================================================================
