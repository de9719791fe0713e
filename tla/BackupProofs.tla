---------------------------- MODULE BackupProofs ----------------------------
(***************************************************************************)
(* The backup for any requests, processes, attempts and mishaps, and the   *)
(* documents as its client.  Every claim of a request has an attempt of    *)
(* its own, so every process writes under a key that nobody else writes:   *)
(* that is what keeps a process which has lost its lease harmless.         *)
(***************************************************************************)
EXTENDS Documents, FiniteSetTheorems, FunctionTheorems, TLAPS

States == {"NONE", "PENDING", "COPYING", "FAILED", "SOURCE_MISSING", "VERIFIED"}
Working == {"CLAIMED", "CAPTURED", "GENERATED", "COPIED", "DESCRIBED"}
Codes == {"NONE", "SOURCE_MISSING", "SIZE_MISMATCH", "BACKUP_FAILED", "LEASE_LOST",
          "STORAGE_UNAVAILABLE"}

Row == [state : States, attempts : Nat, owner : Nat, leased : BOOLEAN, due : BOOLEAN]
CopyKey == [request : Requests, attempt : Nat]
Process == [pc : Working \cup {"FAILING"}, request : Requests, attempt : Nat,
            content : Contents \cup {Absent}, code : Codes]

BackupTypeOK ==
    /\ source \in [Requests -> Contents \cup {Absent}]
    /\ row \in [Requests -> Row]
    /\ generation \subseteq [request : Requests, attempt : Nat, sha256 : Contents \cup {Absent}]
    /\ copy \subseteq [key : CopyKey, content : Contents \cup {Absent}]
    /\ manifest \subseteq CopyKey
    /\ worker \in [Workers -> Process \cup {Idle}]

Busy(w) == worker[w].pc # "IDLE"

\* Attempts are counted by the row: what a process has of it, and what it left behind,
\* is not above that count.
AttemptsCounted ==
    /\ \A q \in Requests :
           /\ row[q].state = "COPYING" => row[q].owner = row[q].attempts
           /\ row[q].state = "NONE" => row[q].attempts = 0
    /\ \A w \in Workers : Busy(w) =>
           0 < worker[w].attempt /\ worker[w].attempt <= row[worker[w].request].attempts
    /\ \A g \in generation : g.attempt <= row[g.request].attempts
    /\ \A c \in copy : c.key.attempt <= row[c.key.request].attempts

\* Two processes never work under one key.
KeysApart ==
    \A v, w \in Workers : v # w /\ Busy(v) /\ Busy(w) => Key(v) # Key(w)

\* What a process has written when it stands at a step, and what it has not.
Stage(w) ==
    /\ At(w, "CLAIMED") \/ At(w, "CAPTURED") =>
           \A g \in generation : ~(g.request = worker[w].request /\ g.attempt = worker[w].attempt)
    /\ At(w, "CLAIMED") \/ At(w, "CAPTURED") \/ At(w, "GENERATED") =>
           \A c \in copy : c.key # Key(w)
    /\ At(w, "GENERATED") \/ At(w, "COPIED") \/ At(w, "DESCRIBED") =>
           \E g \in generation : g.request = worker[w].request /\ g.attempt = worker[w].attempt
    /\ At(w, "CAPTURED") \/ At(w, "GENERATED") \/ At(w, "COPIED") \/ At(w, "DESCRIBED") =>
           worker[w].content \in SizeAsDeclared
    /\ At(w, "COPIED") \/ At(w, "DESCRIBED") =>
           [key |-> Key(w), content |-> worker[w].content] \in copy
    /\ At(w, "DESCRIBED") => Key(w) \in manifest

\* A request is verified exactly when it has a stamped generation, and it has one.
Stamped ==
    /\ \A g \in generation : g.sha256 # Absent =>
           /\ row[g.request].state = "VERIFIED"
           /\ StoredWhole(g)
           /\ \A h \in generation : h.request = g.request /\ h.sha256 # Absent => h = g
    /\ \A q \in Requests : row[q].state = "VERIFIED" =>
           \E g \in generation : g.request = q /\ g.sha256 # Absent

BackupInv ==
    BackupTypeOK /\ AttemptsCounted /\ KeysApart /\ (\A w \in Workers : Stage(w)) /\ Stamped

LEMMA RowWritten ==
  ASSUME BackupTypeOK, NEW q \in Requests, NEW r \in Row, row' = [row EXCEPT ![q] = r]
  PROVE  row' \in [Requests -> Row] /\ row'[q] = r /\ \A p \in Requests \ {q} : row'[p] = row[p]
BY DEF BackupTypeOK

LEMMA WorkerWritten ==
  ASSUME BackupTypeOK, NEW w \in Workers, NEW p \in Process \cup {Idle},
         worker' = [worker EXCEPT ![w] = p]
  PROVE  /\ worker' \in [Workers -> Process \cup {Idle}] /\ worker'[w] = p
         /\ \A v \in Workers \ {w} : worker'[v] = worker[v]
BY DEF BackupTypeOK

\* A process at work has a request, an attempt and a content.
LEMMA BusyProcess ==
  ASSUME BackupTypeOK, NEW w \in Workers, Busy(w)
  PROVE  /\ worker[w] \in Process /\ worker[w].request \in Requests /\ worker[w].attempt \in Nat
         /\ worker[w].content \in Contents \cup {Absent}
         /\ Key(w) \in CopyKey
         /\ Key(w).request = worker[w].request /\ Key(w).attempt = worker[w].attempt
<1>1. worker[w] \in Process
  BY DEF BackupTypeOK, Busy, Idle
<1> QED
  BY <1>1 DEF Process, Key, CopyKey

LEMMA StepTaken ==
  ASSUME BackupTypeOK, NEW w \in Workers, Busy(w), NEW pc \in Working \cup {"FAILING"}, Goes(w, pc)
  PROVE  /\ worker' \in [Workers -> Process \cup {Idle}]
         /\ worker'[w].pc = pc /\ worker'[w].request = worker[w].request
         /\ worker'[w].attempt = worker[w].attempt /\ worker'[w].content = worker[w].content
         /\ \A v \in Workers \ {w} : worker'[v] = worker[v]
<1> DEFINE p == [worker[w] EXCEPT !.pc = pc]
<1>1. p \in Process /\ p.pc = pc /\ p.request = worker[w].request
      /\ p.attempt = worker[w].attempt /\ p.content = worker[w].content
  BY BusyProcess DEF Process
<1>2. worker' = [worker EXCEPT ![w] = p]
  BY DEF Goes
<1> HIDE DEF p
<1> QED
  BY <1>1, <1>2, WorkerWritten

LEMMA FailureGiven ==
  ASSUME BackupTypeOK, NEW w \in Workers, Busy(w), NEW code \in Codes, Gives(w, code)
  PROVE  /\ worker' \in [Workers -> Process \cup {Idle}]
         /\ worker'[w].pc = "FAILING" /\ worker'[w].request = worker[w].request
         /\ worker'[w].attempt = worker[w].attempt /\ worker'[w].content = worker[w].content
         /\ \A v \in Workers \ {w} : worker'[v] = worker[v]
<1> DEFINE p == [worker[w] EXCEPT !.pc = "FAILING", !.code = code]
<1>1. p \in Process /\ p.pc = "FAILING" /\ p.request = worker[w].request
      /\ p.attempt = worker[w].attempt /\ p.content = worker[w].content
  BY BusyProcess DEF Process
<1>2. worker' = [worker EXCEPT ![w] = p]
  BY DEF Gives
<1> HIDE DEF p
<1> QED
  BY <1>1, <1>2, WorkerWritten

BackupSteps == BackupNext \/ ClientStep

LEMMA BackupTypeNext == BackupTypeOK /\ [BackupSteps]_vars => BackupTypeOK'
<1> SUFFICES ASSUME BackupTypeOK, [BackupSteps]_vars
             PROVE  BackupTypeOK'
  OBVIOUS
<1> USE DEF BackupTypeOK
<1>1. CASE UNCHANGED vars
  BY <1>1 DEF vars
<1>2. ASSUME NEW w \in Workers, NEW q \in Requests, Claim(w, q)
      PROVE  BackupTypeOK'
  <2> DEFINE n == row[q].attempts + 1
             r == [state |-> "COPYING", attempts |-> n, owner |-> n, leased |-> TRUE, due |-> FALSE]
             p == [pc |-> "CLAIMED", request |-> q, attempt |-> n, content |-> Absent, code |-> "NONE"]
  <2>1. n \in Nat
    BY DEF Row
  <2>2. r \in Row /\ p \in Process
    BY <2>1 DEF Row, Process, States, Working, Codes
  <2>3. row' = [row EXCEPT ![q] = r] /\ worker' = [worker EXCEPT ![w] = p]
        /\ UNCHANGED <<source, generation, copy, manifest>>
    BY <1>2 DEF Claim
  <2> QED
    BY <2>2, <2>3, RowWritten, WorkerWritten
<1>3. ASSUME NEW w \in Workers, Capture(w)
      PROVE  BackupTypeOK'
  <2>1. Busy(w)
    BY <1>3 DEF Capture, At, Busy
  <2>2. worker[w].request \in Requests /\ worker[w] \in Process
    BY <2>1, BusyProcess
  <2> DEFINE c == source[worker[w].request]
             p == [[worker[w] EXCEPT !.pc = "CAPTURED"] EXCEPT !.content = c]
  <2>3. c \in Contents \cup {Absent}
    BY <2>2
  <2>4. p \in Process
    BY <2>2, <2>3 DEF Process, Working
  <2>5. CASE c \in SizeAsDeclared
    <3>1. worker' = [worker EXCEPT ![w] = p]
      BY <1>3, <2>5, <2>2 DEF Capture
    <3> QED
      BY <2>4, <3>1, WorkerWritten, <1>3 DEF Capture
  <2>6. CASE c \notin SizeAsDeclared
    BY <2>1, <2>6, <1>3, FailureGiven DEF Capture, Codes
  <2> QED
    BY <2>5, <2>6
<1>4. ASSUME NEW w \in Workers, CreateGeneration(w)
      PROVE  BackupTypeOK'
  <2>1. Busy(w)
    BY <1>4 DEF CreateGeneration, At, Busy
  <2> QED
    BY <1>4, <2>1, BusyProcess, StepTaken DEF CreateGeneration, Working
<1>5. ASSUME NEW w \in Workers, PutCopy(w)
      PROVE  BackupTypeOK'
  <2>1. Busy(w)
    BY <1>5 DEF PutCopy, At, Busy
  <2> QED
    BY <1>5, <2>1, BusyProcess, StepTaken DEF PutCopy, Working
<1>6. ASSUME NEW w \in Workers, PutManifest(w)
      PROVE  BackupTypeOK'
  <2>1. Busy(w)
    BY <1>6 DEF PutManifest, At, Busy
  <2> QED
    BY <1>6, <2>1, BusyProcess, StepTaken DEF PutManifest, Working
<1>7. ASSUME NEW w \in Workers, Verify(w)
      PROVE  BackupTypeOK'
  <2>1. Busy(w)
    BY <1>7 DEF Verify, At, Busy
  <2>2. worker' \in [Workers -> Process \cup {Idle}]
    BY <1>7, <2>1, FailureGiven, WorkerWritten DEF Verify, Codes
  <2>3. Digested(w) \subseteq [request : Requests, attempt : Nat, sha256 : Contents \cup {Absent}]
    BY <2>1, BusyProcess DEF Digested
  <2>4. row' \in [Requests -> Row]
    BY <1>7, <2>1, BusyProcess, RowWritten DEF Verify, Row, States
  <2> QED
    BY <1>7, <2>2, <2>3, <2>4 DEF Verify
<1>8. ASSUME NEW w \in Workers, CallFails(w)
      PROVE  BackupTypeOK'
  <2>1. Busy(w)
    BY <1>8 DEF CallFails, At, Busy
  <2> QED
    BY <1>8, <2>1, BusyProcess, FailureGiven DEF CallFails, Codes
<1>9. ASSUME NEW w \in Workers, Fail(w)
      PROVE  BackupTypeOK'
  <2>1. Busy(w)
    BY <1>9 DEF Fail, At, Busy
  <2>2. row' \in [Requests -> Row]
    BY <1>9, <2>1, BusyProcess, RowWritten DEF Fail, Row, States
  <2> QED
    BY <1>9, <2>2, WorkerWritten DEF Fail
<1>10. ASSUME NEW w \in Workers, Die(w)
       PROVE  BackupTypeOK'
  BY <1>10, WorkerWritten DEF Die
<1>11. ASSUME NEW q \in Requests, TimePasses(q) \/ VersionCreated(q)
       PROVE  BackupTypeOK'
  <2>1. Pending \in Row /\ [row[q] EXCEPT !.leased = FALSE] \in Row
        /\ [row[q] EXCEPT !.due = TRUE] \in Row
    BY DEF Pending, Row, States
  <2>2. \E r \in Row : row' = [row EXCEPT ![q] = r]
    BY <1>11, <2>1 DEF TimePasses, LeaseRunsOut, BackoffEnds, VersionCreated, Enqueue
  <2>3. row' \in [Requests -> Row]
    BY <2>2, RowWritten
  <2> QED
    BY <1>11, <2>3 DEF TimePasses, LeaseRunsOut, BackoffEnds, VersionCreated
<1>12. ASSUME NEW q \in Requests, NEW c \in Contents \cup {Absent}, ClientPuts(q, c)
       PROVE  BackupTypeOK'
  BY <1>12 DEF ClientPuts, backupVars
<1> QED
  BY <1>1, <1>2, <1>3, <1>4, <1>5, <1>6, <1>7, <1>8, <1>9, <1>10, <1>11, <1>12
     DEF BackupSteps, BackupNext, ClientStep, RunOne

\* A process that goes on under its key, or gives up and keeps it, or ends.
LEMMA CountsKept ==
  ASSUME BackupInv, BackupTypeOK', UNCHANGED row,
         \A v \in Workers : Busy(v)' =>
             /\ Busy(v) /\ worker'[v].request = worker[v].request
             /\ worker'[v].attempt = worker[v].attempt,
         \A g \in generation' : g \in generation \/
             \E v \in Workers : /\ Busy(v) /\ g.request = worker[v].request
                                /\ g.attempt = worker[v].attempt,
         \A c \in copy' : c \in copy \/ \E v \in Workers : Busy(v) /\ c.key = Key(v)
  PROVE  AttemptsCounted' /\ KeysApart'
<1>1. AttemptsCounted'
  BY BusyProcess DEF BackupInv, AttemptsCounted
<1>2. KeysApart'
  BY BusyProcess DEF BackupInv, KeysApart, Key
<1> QED
  BY <1>1, <1>2

\* What others do under their own keys does not move a process.
LEMMA StageKept ==
  ASSUME BackupInv, NEW v \in Workers, worker'[v] = worker[v],
         \A g \in generation' : g.request = worker[v].request /\ g.attempt = worker[v].attempt =>
             \E h \in generation : h.request = g.request /\ h.attempt = g.attempt,
         \A g \in generation : \E h \in generation' : h.request = g.request /\ h.attempt = g.attempt,
         \A c \in copy' : c \in copy \/ c.key # Key(v),
         copy \subseteq copy', manifest \subseteq manifest'
  PROVE  Stage(v)'
BY DEF BackupInv, Stage, At, Key

LEMMA FailingStage ==
  ASSUME NEW v \in Workers, worker'[v].pc \in {"FAILING", "IDLE"}
  PROVE  Stage(v)'
BY DEF Stage, At

LEMMA StampsKept ==
  ASSUME BackupInv, generation \subseteq generation',
         \A g \in generation' : g \in generation \/ g.sha256 = Absent,
         copy \subseteq copy', manifest \subseteq manifest',
         \A q \in Requests : row'[q].state = "VERIFIED" <=> row[q].state = "VERIFIED"
  PROVE  Stamped'
BY DEF BackupInv, Stamped, StoredWhole, BackupTypeOK

\* A step that writes to no store: of the row, of time, of a client, or of a process that
\* gives up or ends.
LEMMA QuietStep ==
  ASSUME BackupInv, BackupTypeOK', UNCHANGED <<generation, copy, manifest>>,
         \A v \in Workers : \/ worker'[v] = worker[v] \/ ~Busy(v)'
                            \/ /\ Busy(v) /\ worker'[v].pc = "FAILING"
                               /\ worker'[v].request = worker[v].request
                               /\ worker'[v].attempt = worker[v].attempt,
         \A q \in Requests :
             /\ row'[q].attempts = row[q].attempts
             /\ row'[q].state = "VERIFIED" <=> row[q].state = "VERIFIED"
             /\ row'[q].state = "COPYING" => row'[q].owner = row'[q].attempts
             /\ row'[q].state = "NONE" => row[q].state = "NONE"
  PROVE  BackupInv'
<1>1. \A v \in Workers : Stage(v)'
  BY StageKept, FailingStage DEF Busy
<1>2. Stamped'
  BY StampsKept
<1>3. AttemptsCounted'
  BY BusyProcess DEF BackupInv, AttemptsCounted, Busy, BackupTypeOK, CopyKey
<1>4. KeysApart'
  BY DEF BackupInv, KeysApart, Key, Busy
<1> QED
  BY <1>1, <1>2, <1>3, <1>4 DEF BackupInv

LEMMA ClaimKeeps ==
  ASSUME BackupInv, BackupTypeOK', NEW w \in Workers, NEW q \in Requests, Claim(w, q)
  PROVE  BackupInv'
<1> USE DEF BackupInv
<1> DEFINE n == row[q].attempts + 1
<1>1. /\ n \in Nat /\ row[q].attempts \in Nat /\ row[q].state # "VERIFIED"
      /\ row'[q].state = "COPYING" /\ row'[q].attempts = n /\ row'[q].owner = n
      /\ \A p \in Requests \ {q} : row'[p] = row[p]
      /\ worker'[w] = [pc |-> "CLAIMED", request |-> q, attempt |-> n, content |-> Absent, code |-> "NONE"]
      /\ \A v \in Workers \ {w} : worker'[v] = worker[v]
      /\ UNCHANGED <<generation, copy, manifest>>
  BY DEF Claim, Eligible, BackupTypeOK, Row
<1>2. /\ worker'[w].pc = "CLAIMED" /\ worker'[w].request = q /\ worker'[w].attempt = n
  BY <1>1
<1> HIDE DEF n
<1>3. AttemptsCounted'
  <2>1. \A p \in Requests : row[p].attempts <= row'[p].attempts
    BY <1>1 DEF n, BackupTypeOK, Row
  <2>2. \A v \in Workers : Busy(v)' =>
            0 < worker'[v].attempt /\ worker'[v].attempt <= row'[worker'[v].request].attempts
    BY <1>1, <1>2, BusyProcess DEF n, AttemptsCounted, Busy, BackupTypeOK, Row
  <2>3. \A g \in generation' : g.attempt <= row'[g.request].attempts
    BY <1>1, <2>1 DEF AttemptsCounted, BackupTypeOK, Row
  <2>4. \A c \in copy' : c.key.attempt <= row'[c.key.request].attempts
    BY <1>1, <2>1 DEF AttemptsCounted, BackupTypeOK, Row, CopyKey
  <2> QED
    BY <1>1, <2>2, <2>3, <2>4 DEF AttemptsCounted
<1>4. KeysApart'
  <2>1. \A v \in Workers : Busy(v) /\ worker[v].request = q => worker[v].attempt # n
    BY <1>1, BusyProcess DEF n, AttemptsCounted
  <2> QED
    BY <1>1, <1>2, <2>1 DEF KeysApart, Key, Busy
<1>5. Stage(w)'
  <2>1. \A g \in generation : ~(g.request = q /\ g.attempt = n)
    BY <1>1 DEF n, AttemptsCounted, BackupTypeOK
  <2>2. \A c \in copy : c.key # [request |-> q, attempt |-> n]
    BY <1>1 DEF n, AttemptsCounted, BackupTypeOK, CopyKey
  <2> QED
    BY <1>1, <1>2, <2>1, <2>2 DEF Stage, At, Key
<1>6. \A v \in Workers \ {w} : Stage(v)'
  BY <1>1, StageKept
<1>7. Stamped'
  BY <1>1, StampsKept
<1> QED
  BY <1>3, <1>4, <1>5, <1>6, <1>7

LEMMA CaptureKeeps ==
  ASSUME BackupInv, BackupTypeOK', NEW w \in Workers, Capture(w)
  PROVE  BackupInv'
<1> USE DEF BackupInv
<1>1. Busy(w) /\ UNCHANGED <<row, generation, copy, manifest>>
  BY DEF Capture, At, Busy
<1>2. CASE source[worker[w].request] \notin SizeAsDeclared
  <2>1. \E code \in Codes : Gives(w, code)
    BY <1>2 DEF Capture, Codes
  <2> QED
    BY <1>1, <2>1, FailureGiven, QuietStep DEF AttemptsCounted
<1>3. CASE source[worker[w].request] \in SizeAsDeclared
  <2>1. /\ worker'[w].pc = "CAPTURED" /\ worker'[w].request = worker[w].request
        /\ worker'[w].attempt = worker[w].attempt
        /\ worker'[w].content \in SizeAsDeclared
        /\ \A v \in Workers \ {w} : worker'[v] = worker[v]
    BY <1>1, <1>3, BusyProcess DEF Capture, BackupTypeOK, Process
  <2>2. Stage(w)'
    BY <1>1, <2>1 DEF Stage, At, Key, Capture
  <2>3. \A v \in Workers \ {w} : Stage(v)'
    BY <1>1, <2>1, StageKept
  <2>4. AttemptsCounted' /\ KeysApart'
    BY <1>1, <2>1, CountsKept DEF Busy
  <2> QED
    BY <1>1, <2>2, <2>3, <2>4, StampsKept
<1> QED
  BY <1>2, <1>3

LEMMA CreateGenerationKeeps ==
  ASSUME BackupInv, BackupTypeOK', NEW w \in Workers, CreateGeneration(w)
  PROVE  BackupInv'
<1> USE DEF BackupInv
<1>1. Busy(w) /\ UNCHANGED <<row, copy, manifest>>
  BY DEF CreateGeneration, At, Busy
<1> DEFINE new == [request |-> worker[w].request, attempt |-> worker[w].attempt, sha256 |-> Absent]
<1>2. /\ worker'[w].pc = "GENERATED" /\ worker'[w].request = worker[w].request
      /\ worker'[w].attempt = worker[w].attempt /\ worker'[w].content = worker[w].content
      /\ \A v \in Workers \ {w} : worker'[v] = worker[v]
  BY <1>1, StepTaken DEF CreateGeneration, Working
<1>3. generation' = generation \cup {new}
  BY DEF CreateGeneration
<1>4. Stage(w)'
  <2>1. \E g \in generation' : g.request = worker'[w].request /\ g.attempt = worker'[w].attempt
    <3>1. new \in generation' /\ new.request = worker'[w].request /\ new.attempt = worker'[w].attempt
      BY <1>2, <1>3
    <3> QED
      BY <3>1
  <2>2. (\A c \in copy : c.key # Key(w)) /\ worker[w].content \in SizeAsDeclared
    BY DEF Stage, At, CreateGeneration
  <2>3. Key(w)' = Key(w)
    BY <1>2 DEF Key
  <2> HIDE DEF new
  <2> QED
    BY <1>1, <1>2, <2>1, <2>2, <2>3 DEF Stage, At
<1>5. \A v \in Workers \ {w} : Stage(v)'
  <2> SUFFICES ASSUME NEW v \in Workers \ {w}, Busy(v)
               PROVE  Stage(v)'
    BY <1>2, FailingStage DEF Busy
  <2>1. ~(new.request = worker[v].request /\ new.attempt = worker[v].attempt)
    BY <1>1 DEF KeysApart, Key
  <2>2. \A g \in generation' :
            g.request = worker[v].request /\ g.attempt = worker[v].attempt => g \in generation
    BY <1>3, <2>1
  <2>3. generation \subseteq generation'
    BY <1>3
  <2> QED
    BY <1>1, <1>2, <2>2, <2>3, StageKept
<1>6. AttemptsCounted' /\ KeysApart'
  BY <1>1, <1>2, <1>3, CountsKept DEF Busy
<1>7. Stamped'
  BY <1>1, <1>3, StampsKept
<1> QED
  BY <1>4, <1>5, <1>6, <1>7

\* The copy under a process's own key, by a PUT that succeeds or that fails late.
LEMMA CopyPut ==
  ASSUME BackupInv, BackupTypeOK', NEW w \in Workers, At(w, "GENERATED"),
         copy' = copy \cup {[key |-> Key(w), content |-> worker[w].content]},
         UNCHANGED <<row, generation, manifest>>,
         \/ Goes(w, "COPIED")
         \/ Gives(w, "STORAGE_UNAVAILABLE")
  PROVE  BackupInv'
<1> USE DEF BackupInv
<1>1. Busy(w)
  BY DEF At, Busy
<1>2. /\ worker'[w].pc \in {"COPIED", "FAILING"} /\ worker'[w].request = worker[w].request
      /\ worker'[w].attempt = worker[w].attempt /\ worker'[w].content = worker[w].content
      /\ \A v \in Workers \ {w} : worker'[v] = worker[v]
  BY <1>1, StepTaken, FailureGiven DEF Working, Codes
<1>3. Stage(w)'
  BY <1>1, <1>2 DEF Stage, At, Key
<1>4. \A v \in Workers \ {w} : Stage(v)'
  <2> SUFFICES ASSUME NEW v \in Workers \ {w}, Busy(v)
               PROVE  Stage(v)'
    BY <1>2, FailingStage DEF Busy
  <2>1. Key(w) # Key(v)
    BY <1>1 DEF KeysApart
  <2> QED
    BY <1>1, <1>2, <2>1, StageKept
<1>5. AttemptsCounted' /\ KeysApart'
  BY <1>1, <1>2, CountsKept DEF Busy
<1>6. Stamped'
  BY <1>1, StampsKept
<1> QED
  BY <1>3, <1>4, <1>5, <1>6

LEMMA ManifestPut ==
  ASSUME BackupInv, BackupTypeOK', NEW w \in Workers, At(w, "COPIED"),
         manifest' = manifest \cup {Key(w)},
         UNCHANGED <<row, generation, copy>>,
         \/ Goes(w, "DESCRIBED")
         \/ Gives(w, "STORAGE_UNAVAILABLE")
  PROVE  BackupInv'
<1> USE DEF BackupInv
<1>1. Busy(w)
  BY DEF At, Busy
<1>2. /\ worker'[w].pc \in {"DESCRIBED", "FAILING"} /\ worker'[w].request = worker[w].request
      /\ worker'[w].attempt = worker[w].attempt /\ worker'[w].content = worker[w].content
      /\ \A v \in Workers \ {w} : worker'[v] = worker[v]
  BY <1>1, StepTaken, FailureGiven DEF Working, Codes
<1>3. Stage(w)'
  BY <1>1, <1>2 DEF Stage, At, Key
<1>4. \A v \in Workers \ {w} : Stage(v)'
  BY <1>2, StageKept
<1>5. AttemptsCounted' /\ KeysApart'
  BY <1>1, <1>2, CountsKept DEF Busy
<1>6. Stamped'
  BY <1>1, StampsKept
<1> QED
  BY <1>3, <1>4, <1>5, <1>6

\* The lease is still the process's own, so the row counts no later attempt.
LEMMA VerifyKeeps ==
  ASSUME BackupInv, BackupTypeOK', NEW w \in Workers, Verify(w)
  PROVE  BackupInv'
<1> USE DEF BackupInv
<1>1. Busy(w) /\ UNCHANGED <<copy, manifest>>
  BY DEF Verify, At, Busy
<1> DEFINE q == worker[w].request
           n == worker[w].attempt
           d == worker[w].content
<1>2. q \in Requests /\ n \in Nat /\ Key(w) = [request |-> q, attempt |-> n]
  BY <1>1, BusyProcess DEF Key
<1>3. CASE ~(HoldsLease(w) /\ row[q].leased)
  <2>1. Gives(w, "LEASE_LOST") /\ UNCHANGED <<row, generation>>
    BY <1>3 DEF Verify
  <2> QED
    BY <1>1, <2>1, FailureGiven, QuietStep DEF AttemptsCounted, Codes
<1>4. CASE HoldsLease(w) /\ row[q].leased
  <2>1. /\ generation' = Digested(w)
        /\ row[q].state = "COPYING" /\ row[q].owner = n
        /\ row'[q].state = "VERIFIED" /\ row'[q].attempts = row[q].attempts
        /\ \A p \in Requests \ {q} : row'[p] = row[p]
    <3> DEFINE r == [row[q] EXCEPT !.state = "VERIFIED", !.owner = 0, !.leased = FALSE]
    <3>1. row[q] \in Row
      BY <1>2 DEF BackupTypeOK
    <3>2. r \in Row /\ r.state = "VERIFIED" /\ r.attempts = row[q].attempts
      BY <3>1 DEF Row, States
    <3>3. row' = [row EXCEPT ![q] = r] /\ generation' = Digested(w)
      BY <1>4 DEF Verify
    <3> HIDE DEF r
    <3> QED
      BY <1>2, <1>4, <3>2, <3>3, RowWritten DEF HoldsLease
  <2>2. /\ \A v \in Workers \ {w} : worker'[v] = worker[v]
        /\ worker'[w].pc \in {"FAILING", "IDLE"}
        /\ Busy(w)' => worker'[w].request = q /\ worker'[w].attempt = n
    <3>1. CASE worker' = [worker EXCEPT ![w] = Idle]
      BY <3>1 DEF BackupTypeOK, Idle, Busy
    <3>2. CASE Gives(w, "BACKUP_FAILED")
      BY <1>1, <3>2, FailureGiven DEF Codes
    <3> QED
      BY <1>4, <3>1, <3>2 DEF Verify
  <2>3. d \in SizeAsDeclared /\ d # Absent /\ [key |-> Key(w), content |-> d] \in copy
        /\ Key(w) \in manifest
        /\ \E g \in generation : g.request = q /\ g.attempt = n
    BY BackupAssumption DEF Verify, Stage, At
  <2>4. \A g \in generation : g.request = q => g.sha256 = Absent
    BY <2>1 DEF Stamped
  <2> DEFINE stamp == [request |-> q, attempt |-> n, sha256 |-> d]
  <2>5. /\ stamp \in generation'
        /\ \A g \in generation' : g = stamp \/ (g \in generation /\ ~(g.request = q /\ g.attempt = n))
        /\ \A g \in generation : g \in generation' \/ (g.request = q /\ g.attempt = n)
    <3> DEFINE after(g) == [g EXCEPT !.sha256 = d]
    <3>1. ASSUME NEW g \in generation, g.request = q, g.attempt = n
          PROVE  after(g) = stamp
      <4> HIDE DEF q, n, d
      <4>1. g \in [request : Requests, attempt : Nat, sha256 : Contents \cup {Absent}]
        BY DEF BackupTypeOK
      <4> QED
        BY <3>1, <4>1
    <3>2. generation' = {IF g.request = q /\ g.attempt = n THEN after(g) ELSE g : g \in generation}
      BY <2>1, Zenon DEF Digested
    <3> HIDE DEF after, stamp, q, n, d
    <3>3. ASSUME NEW g \in generation, g.request = q, g.attempt = n
          PROVE  stamp \in generation'
      BY <3>1, <3>2, <3>3
    <3>4. ASSUME NEW g \in generation, ~(g.request = q /\ g.attempt = n)
          PROVE  g \in generation'
      BY <3>2, <3>4
    <3>5. ASSUME NEW x \in generation'
          PROVE  x = stamp \/ (x \in generation /\ ~(x.request = q /\ x.attempt = n))
      <4>1. PICK g \in generation : x = IF g.request = q /\ g.attempt = n THEN after(g) ELSE g
        BY <3>2
      <4> QED
        BY <3>1, <4>1
    <3> QED
      BY <2>3, <3>3, <3>4, <3>5
  <2> HIDE DEF q, n, d
  <2>6. Stamped'
    <3>1. ASSUME NEW g \in generation', g.sha256 # Absent
          PROVE  /\ row'[g.request].state = "VERIFIED"
                 /\ StoredWhole(g)'
                 /\ \A h \in generation' : h.request = g.request /\ h.sha256 # Absent => h = g
      <4>1. CASE g = stamp
        BY <1>1, <1>2, <2>1, <2>3, <2>4, <2>5, <4>1 DEF StoredWhole
      <4>2. CASE g \in generation
        <5>1. g.request # q /\ g.request \in Requests
          BY <2>4, <3>1, <4>2 DEF BackupTypeOK
        <5> QED
          BY <1>1, <2>1, <2>5, <3>1, <4>2, <5>1 DEF Stamped, StoredWhole
      <4> QED
        BY <2>5, <4>1, <4>2
    <3>2. ASSUME NEW p \in Requests, row'[p].state = "VERIFIED"
          PROVE  \E g \in generation' : g.request = p /\ g.sha256 # Absent
      <4>1. CASE p = q
        BY <2>3, <2>5, <4>1
      <4>2. CASE p # q
        <5>1. \E g \in generation : g.request = p /\ g.sha256 # Absent
          BY <2>1, <3>2, <4>2 DEF Stamped
        <5> QED
          BY <2>5, <4>2, <5>1
      <4> QED
        BY <4>1, <4>2
    <3> QED
      BY <3>1, <3>2 DEF Stamped
  <2>7. AttemptsCounted'
    <3>1. \A p \in Requests : row'[p].attempts = row[p].attempts
      BY <2>1
    <3>2. n <= row[q].attempts
      BY <1>1 DEF AttemptsCounted, q, n
    <3>3. \A g \in generation' : g.attempt <= row'[g.request].attempts
      BY <1>2, <2>5, <3>1, <3>2 DEF AttemptsCounted, BackupTypeOK
    <3>4. \A c \in copy' : c.key.attempt <= row'[c.key.request].attempts
      BY <1>1, <3>1 DEF AttemptsCounted, BackupTypeOK, CopyKey
    <3>5. \A v \in Workers : Busy(v)' =>
              0 < worker'[v].attempt /\ worker'[v].attempt <= row'[worker'[v].request].attempts
      BY <1>1, <2>2, <3>1, BusyProcess DEF AttemptsCounted, Busy, q, n
    <3> QED
      BY <2>1, <3>3, <3>4, <3>5 DEF AttemptsCounted
  <2>8. KeysApart'
    BY <1>1, <2>2 DEF KeysApart, Key, Busy, q, n
  <2>9. Stage(w)'
    BY <2>2, FailingStage
  <2>10. ASSUME NEW v \in Workers \ {w}, Busy(v)
         PROVE  Stage(v)'
    <3>1. ~(worker[v].request = q /\ worker[v].attempt = n)
      BY <1>1, <2>10 DEF KeysApart, Key, q, n
    <3>2. \A g \in generation' :
              g.request = worker[v].request /\ g.attempt = worker[v].attempt => g \in generation
      BY <2>5, <3>1
    <3>3. \A g \in generation : \E h \in generation' : h.request = g.request /\ h.attempt = g.attempt
      BY <2>5
    <3> QED
      BY <1>1, <2>2, <3>2, <3>3, StageKept
  <2>11. \A v \in Workers \ {w} : Stage(v)'
    BY <2>2, <2>10, FailingStage DEF Busy
  <2> QED
    BY <2>6, <2>7, <2>8, <2>9, <2>11
<1> QED
  BY <1>3, <1>4

LEMMA BackupNextKeeps == BackupInv /\ [BackupSteps]_vars => BackupInv'
<1> SUFFICES ASSUME BackupInv, [BackupSteps]_vars
             PROVE  BackupInv'
  OBVIOUS
<1> USE DEF BackupInv
<1>0. BackupTypeOK'
  BY BackupTypeNext
<1>1. CASE UNCHANGED vars
  BY <1>0, <1>1, QuietStep DEF vars, AttemptsCounted
<1>2. ASSUME NEW w \in Workers, RunOne(w)
      PROVE  BackupInv'
  <2>1. CASE PutCopy(w)
    BY <1>0, <2>1, CopyPut DEF PutCopy
  <2>2. CASE PutManifest(w)
    BY <1>0, <2>2, ManifestPut DEF PutManifest
  <2>3. CASE Fail(w)
    <3>1. \A q \in Requests :
              /\ row'[q].attempts = row[q].attempts
              /\ row'[q].state = "VERIFIED" <=> row[q].state = "VERIFIED"
              /\ row'[q].state = "COPYING" => row'[q].owner = row'[q].attempts
              /\ row'[q].state = "NONE" => row[q].state = "NONE"
      BY <2>3 DEF Fail, HoldsLease, BackupTypeOK, Row, AttemptsCounted
    <3>2. \A v \in Workers : worker'[v] = worker[v] \/ ~Busy(v)'
      BY <2>3 DEF Fail, Busy, Idle, BackupTypeOK
    <3> QED
      BY <1>0, <2>3, <3>1, <3>2, QuietStep DEF Fail
  <2> QED
    BY <1>0, <1>2, <2>1, <2>2, <2>3, ClaimKeeps, CaptureKeeps, CreateGenerationKeeps, VerifyKeeps
       DEF RunOne
<1>3. ASSUME NEW w \in Workers, CallFails(w)
      PROVE  BackupInv'
  <2>1. Busy(w) /\ UNCHANGED <<row, generation>> /\ Gives(w, "STORAGE_UNAVAILABLE")
    BY <1>3 DEF CallFails, Busy
  <2>2. CASE UNCHANGED <<copy, manifest>>
    BY <1>0, <2>1, <2>2, FailureGiven, QuietStep DEF AttemptsCounted, Codes
  <2>3. CASE ~UNCHANGED <<copy, manifest>>
    BY <1>0, <1>3, <2>1, <2>3, CopyPut, ManifestPut DEF CallFails
  <2> QED
    BY <2>2, <2>3
<1>4. ASSUME NEW w \in Workers, Die(w)
      PROVE  BackupInv'
  <2>1. \A v \in Workers : worker'[v] = worker[v] \/ ~Busy(v)'
    BY <1>4 DEF Die, Busy, Idle, BackupTypeOK
  <2> QED
    BY <1>0, <1>4, <2>1, QuietStep DEF Die, AttemptsCounted
<1>5. ASSUME NEW q \in Requests, TimePasses(q) \/ VersionCreated(q)
      PROVE  BackupInv'
  <2>1. \A p \in Requests :
            /\ row'[p].attempts = row[p].attempts
            /\ row'[p].state = "VERIFIED" <=> row[p].state = "VERIFIED"
            /\ row'[p].state = "COPYING" => row'[p].owner = row'[p].attempts
            /\ row'[p].state = "NONE" => row[p].state = "NONE"
    BY <1>5 DEF TimePasses, LeaseRunsOut, BackoffEnds, VersionCreated, Enqueue, Pending,
                BackupTypeOK, Row, AttemptsCounted
  <2>2. UNCHANGED <<generation, copy, manifest, worker>>
    BY <1>5 DEF TimePasses, LeaseRunsOut, BackoffEnds, VersionCreated
  <2> QED
    BY <1>0, <2>1, <2>2, QuietStep
<1>6. ASSUME NEW q \in Requests, NEW c \in Contents \cup {Absent}, ClientPuts(q, c)
      PROVE  BackupInv'
  BY <1>0, <1>6, QuietStep DEF ClientPuts, backupVars, AttemptsCounted
<1> QED
  BY <1>1, <1>2, <1>3, <1>4, <1>5, <1>6 DEF BackupSteps, BackupNext, ClientStep

LEMMA BackupInitHolds == BackupInit => BackupInv
BY DEF BackupInit, InitBackup, BackupInv, BackupTypeOK, AttemptsCounted, KeysApart, Stage, At,
       Stamped, Busy, Idle, NoRow, Row, States

BackupBehaviour == BackupInit /\ [][BackupSteps]_vars

\* Every attempt writes under a key of its own, and a stamped generation is what it says.
LEMMA BackupAlways == BackupBehaviour => []BackupInv
BY BackupInitHolds, BackupNextKeeps, PTL DEF BackupBehaviour

LEMMA VerifiedFromInv == BackupInv => VerifiedIsRestorable
<1> SUFFICES ASSUME BackupInv, NEW q \in Requests
             PROVE  /\ ~InvalidVerifiedMetadata(q) /\ ~ConflictingGenerations(q)
                    /\ VerifiedGenerations(q) # {} => row[q].state = "VERIFIED"
                    /\ Cardinality(VerifiedGenerations(q)) <= 1
                    /\ \A g \in VerifiedGenerations(q) : StoredWhole(g)
  BY DEF VerifiedIsRestorable
<1> USE DEF BackupInv, Stamped
<1>1. VerifiedGenerations(q) # {} <=> row[q].state = "VERIFIED"
  BY DEF VerifiedGenerations
<1>2. \A g \in VerifiedGenerations(q) : StoredWhole(g)
  BY DEF VerifiedGenerations
<1>3. CASE VerifiedGenerations(q) = {}
  <2>1. {g.sha256 : g \in VerifiedGenerations(q)} = {}
    BY <1>3
  <2>2. Cardinality(VerifiedGenerations(q)) = 0 /\ Cardinality({g.sha256 : g \in VerifiedGenerations(q)}) = 0
    BY <1>3, <2>1, FS_EmptySet, Zenon
  <2> QED
    BY <1>1, <1>2, <2>2 DEF InvalidVerifiedMetadata, ConflictingGenerations
<1>4. ASSUME NEW g \in VerifiedGenerations(q)
      PROVE  /\ ~ConflictingGenerations(q)
             /\ Cardinality(VerifiedGenerations(q)) <= 1
  <2>1. VerifiedGenerations(q) = {g}
    BY <1>4 DEF VerifiedGenerations
  <2>2. {h.sha256 : h \in VerifiedGenerations(q)} = {g.sha256}
    BY <2>1
  <2>3. Cardinality({g}) = 1 /\ Cardinality({g.sha256}) = 1
    BY FS_Singleton
  <2>4. /\ Cardinality(VerifiedGenerations(q)) = 1
        /\ Cardinality({h.sha256 : h \in VerifiedGenerations(q)}) = 1
    BY <2>1, <2>2, <2>3, Zenon
  <2> QED
    BY <2>4 DEF ConflictingGenerations
<1> QED
  BY <1>1, <1>2, <1>3, <1>4 DEF InvalidVerifiedMetadata

\* Processes may race for a request, die, stall or lose their lease: a verified request has
\* one stamped generation, whose copy and manifest are stored under its key.
THEOREM VerifiedRestorable == BackupSpec => []VerifiedIsRestorable
BY BackupAlways, VerifiedFromInv, PTL DEF BackupSpec, BackupBehaviour, BackupSteps

-----------------------------------------------------------------------------
(* The abstract promise.                                                   *)

Asked == {q \in Requests : row[q].state # "NONE"}
SafeContent(q) ==
    IF Protected(q) THEN (CHOOSE g \in VerifiedGenerations(q) : TRUE).sha256 ELSE Absent

LEMMA SafeContentIsStamp ==
  ASSUME BackupInv, NEW q \in Requests
  PROVE  /\ row[q].state # "VERIFIED" => SafeContent(q) = Absent
         /\ row[q].state = "VERIFIED" => SafeContent(q) \in Contents
         /\ \A g \in generation : g.request = q /\ g.sha256 # Absent => SafeContent(q) = g.sha256
<1>1. row[q].state # "VERIFIED" => SafeContent(q) = Absent
  BY DEF SafeContent, Protected
<1>2. ASSUME NEW g \in generation, g.request = q, g.sha256 # Absent
      PROVE  SafeContent(q) = g.sha256
  <2>1. VerifiedGenerations(q) = {g}
    BY <1>2 DEF BackupInv, Stamped, VerifiedGenerations
  <2>2. row[q].state = "VERIFIED"
    BY <1>2 DEF BackupInv, Stamped
  <2> QED
    BY <2>1, <2>2 DEF SafeContent, Protected
<1>3. row[q].state = "VERIFIED" => SafeContent(q) \in Contents
  BY <1>2 DEF BackupInv, Stamped, BackupTypeOK
<1> QED
  BY <1>1, <1>2, <1>3

\* Nobody takes a stamped generation away or stamps it anew.
LEMMA StampsStay ==
  ASSUME BackupInv, [BackupSteps]_vars, NEW g \in generation, g.sha256 # Absent
  PROVE  g \in generation'
<1>1. CASE generation \subseteq generation'
  BY <1>1
<1>2. ASSUME NEW w \in Workers, Verify(w), generation' = Digested(w), HoldsLease(w)
      PROVE  g \in generation'
  <2>1. row[g.request].state = "VERIFIED"
    BY DEF BackupInv, Stamped
  <2>2. g.request # worker[w].request
    BY <1>2, <2>1 DEF HoldsLease
  <2> QED
    BY <1>2, <2>2, Zenon DEF Digested
<1> QED
  BY <1>1, <1>2 DEF BackupSteps, BackupNext, RunOne, ClientStep, vars, backupVars, Claim, Capture,
       CreateGeneration, PutCopy, PutManifest, Verify, CallFails, Fail, Die, TimePasses,
       LeaseRunsOut, BackoffEnds, VersionCreated, ClientPuts

\* What a step does to the requests: nothing that counts, or it enqueues one, or it verifies one.
LEMMA RequestSteps ==
  ASSUME BackupInv, [BackupSteps]_vars
  PROVE  \/ \A p \in Requests :
                /\ row'[p].state = "VERIFIED" <=> row[p].state = "VERIFIED"
                /\ row'[p].state = "NONE" <=> row[p].state = "NONE"
         \/ \E q \in Requests :
                /\ row[q].state = "NONE" /\ row'[q].state \notin {"NONE", "VERIFIED"}
                /\ \A p \in Requests \ {q} : row'[p] = row[p]
         \/ \E q \in Requests :
                /\ row[q].state \notin {"NONE", "VERIFIED"} /\ row'[q].state = "VERIFIED"
                /\ \A p \in Requests \ {q} : row'[p] = row[p]
<1>1. CASE UNCHANGED row
  BY <1>1
<1>2. ASSUME NEW w \in Workers, NEW q \in Requests, Claim(w, q)
      PROVE  \A p \in Requests :
                /\ row'[p].state = "VERIFIED" <=> row[p].state = "VERIFIED"
                /\ row'[p].state = "NONE" <=> row[p].state = "NONE"
  BY <1>2 DEF Claim, Eligible, BackupInv, BackupTypeOK
<1>3. ASSUME NEW w \in Workers, Verify(w), ~UNCHANGED row
      PROVE  \E q \in Requests :
                /\ row[q].state \notin {"NONE", "VERIFIED"} /\ row'[q].state = "VERIFIED"
                /\ \A p \in Requests \ {q} : row'[p] = row[p]
  <2>1. worker[w].request \in Requests
    BY <1>3, BusyProcess DEF Verify, At, Busy, BackupInv
  <2> DEFINE q == worker[w].request
             r == [row[q] EXCEPT !.state = "VERIFIED", !.owner = 0, !.leased = FALSE]
  <2>2. r \in Row /\ r.state = "VERIFIED"
    <3>1. row[q] \in Row
      BY <2>1 DEF BackupInv, BackupTypeOK
    <3> QED
      BY <3>1 DEF Row, States
  <2>3. row' = [row EXCEPT ![q] = r] /\ row[q].state = "COPYING"
    BY <1>3 DEF Verify, HoldsLease
  <2> HIDE DEF r, q
  <2>4. q \in Requests
    BY <2>1 DEF q
  <2> QED
    BY <2>2, <2>3, <2>4, RowWritten DEF BackupInv
<1>4. ASSUME NEW w \in Workers, Fail(w)
      PROVE  \A p \in Requests :
                /\ row'[p].state = "VERIFIED" <=> row[p].state = "VERIFIED"
                /\ row'[p].state = "NONE" <=> row[p].state = "NONE"
  BY <1>4 DEF Fail, HoldsLease, BackupInv, BackupTypeOK, Row
<1>5. ASSUME NEW q \in Requests, TimePasses(q)
      PROVE  \A p \in Requests :
                /\ row'[p].state = "VERIFIED" <=> row[p].state = "VERIFIED"
                /\ row'[p].state = "NONE" <=> row[p].state = "NONE"
  BY <1>5 DEF TimePasses, LeaseRunsOut, BackoffEnds, BackupInv, BackupTypeOK, Row
<1>6. ASSUME NEW q \in Requests, VersionCreated(q)
      PROVE  /\ row[q].state = "NONE" /\ row'[q].state \notin {"NONE", "VERIFIED"}
             /\ \A p \in Requests \ {q} : row'[p] = row[p]
  BY <1>6 DEF VersionCreated, Enqueue, Pending, BackupInv, BackupTypeOK, Row
<1> QED
  BY <1>1, <1>2, <1>3, <1>4, <1>5, <1>6
     DEF BackupSteps, BackupNext, RunOne, ClientStep, vars, backupVars, Capture,
         CreateGeneration, PutCopy, PutManifest, CallFails, Die, ClientPuts

LEMMA PromiseInitially == BackupInit => Promise!Init
BY DEF BackupInit, InitBackup, Promise!Init, NoRow, Protected

LEMMA PromiseStep ==
  ASSUME BackupInv, BackupInv', [BackupSteps]_vars
  PROVE  [Promise!Next]_(Promise!vars)
<1> DEFINE safe == [q \in Requests |-> SafeContent(q)]
<1>1. ASSUME NEW q \in Requests, row[q].state = "VERIFIED", row'[q].state = "VERIFIED"
      PROVE  SafeContent(q)' = SafeContent(q)
  <2>1. PICK g \in generation : g.request = q /\ g.sha256 # Absent
    BY <1>1 DEF BackupInv, Stamped
  <2>2. g \in generation'
    BY <2>1, StampsStay
  <2>3. SafeContent(q) = g.sha256
    BY <2>1, SafeContentIsStamp
  <2>4. VerifiedGenerations(q)' = {g}
    BY <2>1, <2>2 DEF BackupInv, Stamped, VerifiedGenerations
  <2> QED
    BY <1>1, <2>3, <2>4 DEF SafeContent, Protected
<1>2. ASSUME NEW q \in Requests, row[q].state # "VERIFIED", row'[q].state # "VERIFIED"
      PROVE  SafeContent(q)' = SafeContent(q)
  BY <1>2 DEF SafeContent, Protected
<1>3. CASE \A p \in Requests :
               /\ row'[p].state = "VERIFIED" <=> row[p].state = "VERIFIED"
               /\ row'[p].state = "NONE" <=> row[p].state = "NONE"
  <2>1. Asked' = Asked
    BY <1>3 DEF Asked
  <2>2. safe' = safe
    BY <1>1, <1>2, <1>3
  <2> QED
    BY <2>1, <2>2, Zenon DEF Promise!Next, Asked, SafeContent
<1>4. ASSUME NEW q \in Requests,
             row[q].state = "NONE", row'[q].state \notin {"NONE", "VERIFIED"},
             \A p \in Requests \ {q} : row'[p] = row[p]
      PROVE  Promise!Next
  <2>1. q \notin Asked /\ Asked' = Asked \cup {q}
    BY <1>4 DEF Asked
  <2>2. safe' = safe
    BY <1>1, <1>2, <1>4
  <2> QED
    BY <2>1, <2>2, Zenon DEF Promise!Next, Promise!Ask, Asked, SafeContent
<1>5. ASSUME NEW q \in Requests,
             row[q].state \notin {"NONE", "VERIFIED"}, row'[q].state = "VERIFIED",
             \A p \in Requests \ {q} : row'[p] = row[p]
      PROVE  Promise!Next
  <2>1. q \in Asked /\ Asked' = Asked
    BY <1>5 DEF Asked
  <2>2. safe[q] = Absent
    BY <1>5 DEF SafeContent, Protected
  <2>3. SafeContent(q)' \in Contents
    <3>1. PICK g \in generation' : g.request = q /\ g.sha256 # Absent
      BY <1>5 DEF BackupInv, Stamped
    <3>2. VerifiedGenerations(q)' = {g}
      BY <3>1 DEF BackupInv, Stamped, VerifiedGenerations
    <3>3. SafeContent(q)' = g.sha256
      BY <1>5, <3>2 DEF SafeContent, Protected
    <3> QED
      BY <3>1, <3>3 DEF BackupInv, BackupTypeOK
  <2>4. \A p \in Requests \ {q} : SafeContent(p)' = SafeContent(p)
    BY <1>1, <1>2, <1>5
  <2>5. safe' = [safe EXCEPT ![q] = SafeContent(q)']
    BY <2>4
  <2>6. \E c \in Contents : safe' = [safe EXCEPT ![q] = c]
    BY <2>3, <2>5
  <2> QED
    BY <2>1, <2>2, <2>6, Zenon DEF Promise!Next, Promise!Protect, Asked, SafeContent
<1> QED
  BY <1>3, <1>4, <1>5, RequestSteps

LEMMA PromiseRefined == BackupBehaviour => Promise!Spec
BY PromiseInitially, PromiseStep, BackupAlways, PTL DEF BackupBehaviour, Promise!Spec

\* For any processes, attempts and mishaps, the workers implement the promise: an object that
\* was asked for is protected at most once, with one content, and that is never withdrawn.
THEOREM PromiseKept == BackupSpec => ImplementsPromise
BY PromiseRefined DEF BackupSpec, BackupBehaviour, BackupSteps, ImplementsPromise

-----------------------------------------------------------------------------
(* Documents as a client of the backup.                                    *)

LEMMA QueueIsEnqueue ==
  ASSUME BackupTypeOK, NEW k, QueueBackup(k),
         UNCHANGED <<source, generation, copy, manifest, worker, mishaps>>
  PROVE  [BackupSteps]_vars
<1>1. CASE k \in Requests /\ row[k].state = "NONE"
  <2>1. VersionCreated(k)
    BY <1>1 DEF QueueBackup, VersionCreated, Enqueue, BackupTypeOK
  <2> QED
    BY <1>1, <2>1 DEF BackupSteps, ClientStep
<1>2. CASE k \notin Requests \/ row[k].state # "NONE"
  <2>1. row' = row
    BY <1>2 DEF QueueBackup, BackupTypeOK
  <2> QED
    BY <2>1 DEF vars
<1> QED
  BY <1>1, <1>2

LEMMA DeleteIsPut ==
  ASSUME BackupTypeOK, NEW k, ObjectDeleted(k), UNCHANGED backupVars
  PROVE  [BackupSteps]_vars
<1>1. CASE k \in Requests
  <2>1. ClientPuts(k, Absent)
    BY DEF ObjectDeleted, ClientPuts
  <2> QED
    BY <1>1, <2>1 DEF BackupSteps, ClientStep
<1>2. CASE k \notin Requests
  <2>1. source' = source
    BY <1>2 DEF ObjectDeleted, BackupTypeOK
  <2> QED
    BY <2>1 DEF vars, backupVars
<1> QED
  BY <1>1, <1>2

LEMMA ClientStepTaken == BackupTypeOK /\ [Next]_allVars => [BackupSteps]_vars
<1> SUFFICES ASSUME BackupTypeOK, [Next]_allVars
             PROVE  [BackupSteps]_vars
  OBVIOUS
<1>1. CASE UNCHANGED vars
  BY <1>1
<1>2. CASE BackupNext
  BY <1>2 DEF BackupSteps
<1>3. ASSUME NEW k \in Keys, NEW c \in Contents, PutObject(k, c)
      PROVE  [BackupSteps]_vars
  BY <1>3 DEF PutObject, ClientPuts, BackupSteps, ClientStep, Keys
<1>4. ASSUME NEW r \in Calls, CreateDocument(r) \/ AddVersion(r) \/ CreatePaymentReceipt(r)
      PROVE  [BackupSteps]_vars
  <2>1. \/ /\ QueueBackup(call[r].key)
           /\ UNCHANGED <<source, generation, copy, manifest, worker, mishaps>>
        \/ UNCHANGED vars
    BY <1>4 DEF CreateDocument, AddVersion, CreatePaymentReceipt, WriteDocument, Conflict, vars, backupVars
  <2> QED
    BY <2>1, QueueIsEnqueue
<1>5. ASSUME NEW r \in Calls, DeleteInvalid(r)
      PROVE  [BackupSteps]_vars
  BY <1>5, DeleteIsPut DEF DeleteInvalid, vars, backupVars
<1>6. ASSUME \/ \E k \in Keys :
                   \/ RequestUploadUrl(k) \/ ExpireIntent(k)
                   \/ \E p \in Payments : RequestReceiptIntent(k, p)
             \/ \E d \in Documents : ArchiveDocument(d)
             \/ \E v \in version, e \in Entities : CreateReference(v, e)
             \/ \E r \in Calls :
                   \/ BulkCreateDocuments(r) \/ ReadLatest(r) \/ ValidateMagicBytes(r)
                   \/ \E k \in Keys :
                          \/ ResolveForDocument(r, k)
                          \/ \E d \in Documents : ResolveForVersion(r, k, d)
                          \/ \E p \in Payments : LoadReceiptIntent(r, k, p)
             \/ UNCHANGED allVars
      PROVE  UNCHANGED vars
  BY <1>6 DEF RequestUploadUrl, CreateUploadIntent, ExpireIntent, RequestReceiptIntent,
       ArchiveDocument, CreateReference, CreateReferenceRow, BulkCreateDocuments, ReadLatest,
       ValidateMagicBytes, ResolveForDocument, ResolveForVersion, LoadReceiptIntent,
       vars, backupVars, allVars
<1> QED
  BY <1>1, <1>2, <1>3, <1>4, <1>5, <1>6 DEF Next, DocumentsNext

LEMMA DocumentsInitially == Init => BackupInit
BY DEF Init, BackupInit, Keys

LEMMA DocumentsKeepBackup == Spec => []BackupInv
<1>1. Init => BackupInv
  BY DocumentsInitially, BackupInitHolds
<1>2. BackupInv /\ [Next]_allVars => BackupInv'
  BY ClientStepTaken, BackupNextKeeps DEF BackupInv
<1> QED
  BY <1>1, <1>2, PTL DEF Spec

\* Uploads, receipts, rollbacks and deletions of any number of calls are steps of the client
\* that the backup assumes.
THEOREM DocumentsAreBackupClient == Spec => ActsAsBackupClient
<1>1. BackupInv /\ [Next]_allVars => [BackupNext \/ ClientStep]_vars
  BY ClientStepTaken DEF BackupInv, BackupSteps
<1> QED
  BY <1>1, DocumentsInitially, DocumentsKeepBackup, PTL DEF Spec, ActsAsBackupClient

\* So what is backed up of a document is restorable, and the promise is kept, whatever calls
\* and processes do together.
THEOREM DocumentsAreRestorable == Spec => []VerifiedIsRestorable
BY DocumentsKeepBackup, VerifiedFromInv, PTL

\* The promise of the backup, for what the documents ask of it.
THEOREM DocumentsPromiseKept == Spec => ImplementsPromise
BY DocumentsAreBackupClient, PromiseRefined
   DEF ActsAsBackupClient, BackupBehaviour, BackupSteps, ImplementsPromise

-----------------------------------------------------------------------------
(* Versions, intents and receipts.                                         *)

Purposes == {"CREATE_DOCUMENT", "CREATE_VERSION", "PAYMENT_RECEIPT"}
UploadIntent == [purpose : Purposes, document : Documents \cup {NoDocument},
                 payment : Payments \cup {NoPayment}, expired : BOOLEAN, consumed : BOOLEAN]
VersionRow == [document : Documents, number : Nat, key : Keys, isCurrent : BOOLEAN]
ReferenceRow == [entity : Entities, key : Keys]

\* Where a call stands: between its items, or past the validation of one intent.
ResolvedSteps == {"RESOLVED", "NUMBERED", "LOADED", "GENUINE", "CLEANUP"}
SingleCall == [step : ResolvedSteps, op : Purposes, key : Keys, document : Documents \cup {NoDocument},
               payment : Payments \cup {NoPayment}, number : Nat, left : {<<>>}]
BulkCall == [step : {"ITEMS"}, op : {"CREATE_DOCUMENT"}, left : Seq(Keys)]
ItemCall == [step : {"ITEMS", "RESOLVED"}, op : {"CREATE_DOCUMENT"}, key : Keys, left : Seq(Keys)]

DocumentsTypeOK ==
    /\ intent \in [Keys -> UploadIntent \cup {NoIntent}]
    /\ status \in [Documents -> {"NONE", "ACTIVE", "ARCHIVED"}]
    /\ version \subseteq VersionRow
    /\ reference \subseteq ReferenceRow
    /\ call \in [Calls -> SingleCall \cup BulkCall \cup ItemCall \cup {NoCall}]
    /\ \A r \in Calls : call[r].step = "ITEMS" => call[r].left # <<>>

\* What was true of the intent and the document when the call looked still is, except that
\* others may have consumed the intent or archived the document.
CallSound(r) ==
    /\ call[r].step \in ResolvedSteps =>
           /\ call[r].key \in Keys /\ intent[call[r].key] # NoIntent
           /\ intent[call[r].key].purpose = call[r].op
    /\ call[r].step \in {"RESOLVED", "NUMBERED"} /\ call[r].op = "CREATE_VERSION" =>
           /\ call[r].document \in Documents /\ status[call[r].document] # "NONE"
           /\ intent[call[r].key].document = call[r].document
    /\ call[r].step = "NUMBERED" =>
           /\ call[r].op = "CREATE_VERSION" /\ call[r].number \in Nat
           /\ \E v \in version : v.document = call[r].document /\ call[r].number = v.number + 1
    /\ call[r].step \in {"LOADED", "GENUINE", "CLEANUP"} =>
           /\ call[r].op = "PAYMENT_RECEIPT" /\ call[r].payment \in Payments
           /\ intent[call[r].key].payment = call[r].payment

\* The versions of a document are numbered 1 to n, and the n-th is current.
Numbered(d, n) ==
    /\ \A v \in version : v.document = d =>
           1 <= v.number /\ v.number <= n /\ (v.isCurrent <=> v.number = n)
    /\ \A i \in 1 .. n : \E v \in version : v.document = d /\ v.number = i
    /\ status[d] = "NONE" <=> n = 0

Linear ==
    /\ \A d \in Documents : \E n \in Nat : Numbered(d, n)
    /\ \A u, v \in version : u.document = v.document /\ u.number = v.number => u = v

\* A consumed intent has bought one version, of the document it was for.
Bought ==
    /\ \A k \in Keys :
           (intent[k] # NoIntent /\ intent[k].consumed) <=> (\E v \in version : v.key = k)
    /\ \A u, v \in version : u.key = v.key => u = v
    /\ \A v \in version :
           intent[v.key].purpose = "CREATE_VERSION" => v.document = intent[v.key].document

Receipted ==
    \A x \in reference : x.entity \in Payments =>
        /\ intent[x.key] # NoIntent /\ intent[x.key].consumed
        /\ intent[x.key].payment = x.entity
        /\ \A y \in reference : y.entity = x.entity => y = x

DocumentsInv ==
    /\ BackupInv /\ DocumentsTypeOK /\ (\A r \in Calls : CallSound(r))
    /\ Linear /\ Bought /\ Receipted /\ EveryVersionIsQueued

LEMMA StepToWritten ==
  ASSUME DocumentsTypeOK, NEW r \in Calls, call[r].step \in ResolvedSteps,
         NEW step \in ResolvedSteps, call[r] \in SingleCall, StepTo(r, step)
  PROVE  /\ call' \in [Calls -> SingleCall \cup BulkCall \cup ItemCall \cup {NoCall}]
         /\ call'[r] \in SingleCall /\ call'[r].step = step /\ call'[r].op = call[r].op
         /\ call'[r].key = call[r].key /\ call'[r].document = call[r].document
         /\ call'[r].payment = call[r].payment /\ call'[r].number = call[r].number
         /\ \A q \in Calls \ {r} : call'[q] = call[q]
<1> DEFINE c == [call[r] EXCEPT !.step = step]
<1>1. /\ c \in SingleCall /\ c.step = step /\ c.op = call[r].op
      /\ c.key = call[r].key /\ c.document = call[r].document
      /\ c.payment = call[r].payment /\ c.number = call[r].number
  BY DEF SingleCall
<1>2. call' = [call EXCEPT ![r] = c]
  BY DEF StepTo
<1> HIDE DEF c
<1> QED
  BY <1>1, <1>2 DEF DocumentsTypeOK

LEMMA ReturnWritten ==
  ASSUME DocumentsTypeOK, NEW r \in Calls, Return(r)
  PROVE  /\ call' \in [Calls -> SingleCall \cup BulkCall \cup ItemCall \cup {NoCall}]
         /\ call'[r] = NoCall
         /\ \A q \in Calls \ {r} : call'[q] = call[q]
BY DEF DocumentsTypeOK, Return

\* An item that is done leaves its call between items or at its end.
LEMMA ItemDoneWritten ==
  ASSUME DocumentsTypeOK, NEW r \in Calls, call[r].step \in ResolvedSteps, ItemDone(r)
  PROVE  /\ call' \in [Calls -> SingleCall \cup BulkCall \cup ItemCall \cup {NoCall}]
         /\ call'[r].step \in {"NONE", "ITEMS"}
         /\ call'[r].step = "ITEMS" => call'[r].left # <<>>
         /\ \A q \in Calls \ {r} : call'[q] = call[q]
<1>1. CASE call[r].left = <<>>
  BY <1>1, ReturnWritten DEF ItemDone, NoCall
<1>2. CASE call[r].left # <<>>
  <2> DEFINE c == [call[r] EXCEPT !.step = "ITEMS"]
  <2>1. call[r] \in ItemCall
    BY <1>2 DEF DocumentsTypeOK, SingleCall, BulkCall, NoCall, ResolvedSteps
  <2>2. c \in ItemCall /\ c.step = "ITEMS" /\ c.left = call[r].left
    BY <2>1 DEF ItemCall
  <2>3. call' = [call EXCEPT ![r] = c]
    BY <1>2 DEF ItemDone, StepTo
  <2> HIDE DEF c
  <2> QED
    BY <1>2, <2>2, <2>3 DEF DocumentsTypeOK
<1> QED
  BY <1>1, <1>2

LEMMA CallKept ==
  ASSUME DocumentsTypeOK, NEW r \in Calls, CallSound(r), call'[r] = call[r],
         \A k \in Keys : intent[k] # NoIntent =>
             /\ intent'[k] # NoIntent /\ intent'[k].purpose = intent[k].purpose
             /\ intent'[k].document = intent[k].document /\ intent'[k].payment = intent[k].payment,
         \A d \in Documents : status[d] # "NONE" => status'[d] # "NONE",
         \A v \in version : \E u \in version' : u.document = v.document /\ u.number = v.number
  PROVE  CallSound(r)'
BY DEF CallSound, ResolvedSteps

IntentsKeep ==
    \A k \in Keys :
        /\ intent[k] # NoIntent =>
               /\ intent'[k] # NoIntent /\ intent'[k].purpose = intent[k].purpose
               /\ intent'[k].document = intent[k].document /\ intent'[k].payment = intent[k].payment
               /\ intent'[k].consumed = intent[k].consumed
        /\ intent[k] = NoIntent => intent'[k] = NoIntent \/ ~intent'[k].consumed

\* A step that writes no version and no reference.
LEMMA RowsKept ==
  ASSUME DocumentsInv, IntentsKeep, UNCHANGED <<version, reference>>,
         \A k \in Keys : row'[k].state = "NONE" <=> row[k].state = "NONE",
         \A d \in Documents : status'[d] = "NONE" <=> status[d] = "NONE"
  PROVE  Linear' /\ Bought' /\ Receipted' /\ EveryVersionIsQueued'
<1>1. Linear'
  BY DEF DocumentsInv, Linear, Numbered
<1>2. Bought'
  BY DEF DocumentsInv, Bought, IntentsKeep, DocumentsTypeOK, VersionRow
<1>3. Receipted'
  BY DEF DocumentsInv, Receipted, IntentsKeep, DocumentsTypeOK, ReferenceRow
<1>4. EveryVersionIsQueued'
  BY DEF DocumentsInv, EveryVersionIsQueued
<1> QED
  BY <1>1, <1>2, <1>3, <1>4

LEMMA CallsKept ==
  ASSUME DocumentsInv, IntentsKeep, UNCHANGED version,
         \A d \in Documents : status[d] # "NONE" => status'[d] # "NONE",
         NEW r \in Calls, call'[r] = call[r]
  PROVE  CallSound(r)'
BY CallKept DEF DocumentsInv, IntentsKeep

LEMMA IntentCreated ==
  ASSUME DocumentsInv, NEW k \in Keys, NEW purpose \in Purposes,
         NEW d \in Documents \cup {NoDocument}, NEW p \in Payments \cup {NoPayment},
         CreateUploadIntent(k, purpose, d, p)
  PROVE  /\ DocumentsTypeOK' /\ (\A r \in Calls : CallSound(r)')
         /\ Linear' /\ Bought' /\ Receipted' /\ EveryVersionIsQueued'
<1>1. /\ UNCHANGED <<row, status, version, reference, call>>
      /\ intent[k] = NoIntent /\ intent' = [intent EXCEPT ![k] = Intent(purpose, d, p)]
  BY DEF CreateUploadIntent, backupVars
<1>2. Intent(purpose, d, p) \in UploadIntent /\ ~Intent(purpose, d, p).consumed
  BY DEF Intent, UploadIntent
<1>3. DocumentsTypeOK' /\ IntentsKeep
  BY <1>1, <1>2 DEF DocumentsInv, DocumentsTypeOK, IntentsKeep
<1> QED
  BY <1>1, <1>3, RowsKept, CallsKept

LEMMA IntentExpired ==
  ASSUME DocumentsInv, NEW k \in Keys, ExpireIntent(k)
  PROVE  /\ DocumentsTypeOK' /\ (\A r \in Calls : CallSound(r)')
         /\ Linear' /\ Bought' /\ Receipted' /\ EveryVersionIsQueued'
<1> DEFINE i == [intent[k] EXCEPT !.expired = TRUE]
<1>1. /\ UNCHANGED <<row, status, version, reference, call>>
      /\ intent' = [intent EXCEPT ![k] = i]
  BY DEF ExpireIntent, backupVars
<1>2. intent[k] \in UploadIntent
  BY DEF ExpireIntent, DocumentsInv, DocumentsTypeOK
<1>3. /\ i \in UploadIntent /\ i.purpose = intent[k].purpose /\ i.document = intent[k].document
      /\ i.payment = intent[k].payment /\ i.consumed = intent[k].consumed
  BY <1>2 DEF UploadIntent
<1>4. NoIntent \notin UploadIntent
  BY DocumentsAssumption DEF UploadIntent, Purposes
<1> HIDE DEF i
<1>5. intent'[k] = i /\ \A l \in Keys \ {k} : intent'[l] = intent[l]
  BY <1>1 DEF DocumentsInv, DocumentsTypeOK
<1>6. DocumentsTypeOK'
  BY <1>1, <1>3 DEF DocumentsInv, DocumentsTypeOK
<1>7. intent[k] # NoIntent /\ i # NoIntent
  BY <1>3, <1>4 DEF ExpireIntent
<1>8. IntentsKeep
  BY <1>3, <1>5, <1>7 DEF IntentsKeep
<1> QED
  BY <1>1, <1>6, <1>8, RowsKept, CallsKept

LEMMA DocumentArchived ==
  ASSUME DocumentsInv, NEW d \in Documents, ArchiveDocument(d)
  PROVE  /\ DocumentsTypeOK' /\ (\A r \in Calls : CallSound(r)')
         /\ Linear' /\ Bought' /\ Receipted' /\ EveryVersionIsQueued'
<1>1. /\ UNCHANGED <<row, intent, version, reference, call>>
      /\ status[d] = "ACTIVE" /\ status' = [status EXCEPT ![d] = "ARCHIVED"]
  BY DEF ArchiveDocument, backupVars
<1>2. DocumentsTypeOK' /\ IntentsKeep
  BY <1>1 DEF DocumentsInv, DocumentsTypeOK, IntentsKeep
<1>3. \A e \in Documents : status'[e] = "NONE" <=> status[e] = "NONE"
  BY <1>1 DEF DocumentsInv, DocumentsTypeOK
<1> QED
  BY <1>1, <1>2, <1>3, RowsKept, CallsKept

LEMMA ReferenceCreated ==
  ASSUME DocumentsInv, NEW v \in version, NEW e \in Entities, CreateReference(v, e)
  PROVE  /\ DocumentsTypeOK' /\ (\A r \in Calls : CallSound(r)')
         /\ Linear' /\ Bought' /\ Receipted' /\ EveryVersionIsQueued'
<1>1. /\ UNCHANGED <<row, intent, status, version, call>>
      /\ e \notin Payments /\ reference' = reference \cup {[entity |-> e, key |-> v.key]}
  BY DEF CreateReference, CreateReferenceRow, Referencable, backupVars
<1>2. [entity |-> e, key |-> v.key] \in ReferenceRow
  BY DEF DocumentsInv, DocumentsTypeOK, VersionRow, ReferenceRow
<1>3. DocumentsTypeOK' /\ IntentsKeep
  BY <1>1, <1>2 DEF DocumentsInv, DocumentsTypeOK, IntentsKeep
<1>4. Receipted'
  BY <1>1 DEF DocumentsInv, Receipted
<1>5. Linear' /\ Bought' /\ EveryVersionIsQueued'
  BY <1>1 DEF DocumentsInv, Linear, Numbered, Bought, EveryVersionIsQueued
<1> QED
  BY <1>1, <1>3, <1>4, <1>5, CallsKept

\* A call begins, goes on or returns without a write.
LEMMA CallMoves ==
  ASSUME DocumentsInv, NEW r \in Calls,
         \A k \in Keys : row'[k].state = "NONE" <=> row[k].state = "NONE",
         UNCHANGED <<intent, status, version, reference>>,
         call' \in [Calls -> SingleCall \cup BulkCall \cup ItemCall \cup {NoCall}],
         call'[r].step = "ITEMS" => call'[r].left # <<>>,
         \A q \in Calls \ {r} : call'[q] = call[q],
         CallSound(r)'
  PROVE  /\ DocumentsTypeOK' /\ (\A q \in Calls : CallSound(q)')
         /\ Linear' /\ Bought' /\ Receipted' /\ EveryVersionIsQueued'
<1>1. IntentsKeep
  BY DEF IntentsKeep, DocumentsInv, DocumentsTypeOK
<1>2. DocumentsTypeOK'
  BY DEF DocumentsInv, DocumentsTypeOK
<1>3. \A q \in Calls : CallSound(q)'
  BY <1>1, CallsKept
<1> QED
  BY <1>1, <1>2, <1>3, RowsKept

LEMMA EndedCallSound ==
  ASSUME NEW r, call'[r].step \in {"NONE", "ITEMS"}
  PROVE  CallSound(r)'
BY DEF CallSound, ResolvedSteps

LEMMA CallBegins ==
  ASSUME DocumentsInv, NEW r \in Calls, NEW step \in {"RESOLVED", "LOADED"}, NEW op \in Purposes,
         NEW k \in Keys, NEW d \in Documents \cup {NoDocument}, NEW p \in Payments \cup {NoPayment},
         InFlight(r, step, op, k, d, p), Valid(k, op),
         op = "CREATE_VERSION" =>
             d \in Documents /\ status[d] # "NONE" /\ intent[k].document = d,
         step = "LOADED" => op = "PAYMENT_RECEIPT" /\ p \in Payments /\ intent[k].payment = p,
         UNCHANGED <<source, backupVars, intent, status, version, reference>>
  PROVE  /\ DocumentsTypeOK' /\ (\A q \in Calls : CallSound(q)')
         /\ Linear' /\ Bought' /\ Receipted' /\ EveryVersionIsQueued'
<1> DEFINE c == [step |-> step, op |-> op, key |-> k, document |-> d, payment |-> p,
                 number |-> 0, left |-> <<>>]
<1>1. c \in SingleCall
  BY DEF SingleCall, ResolvedSteps
<1>2. call' = [call EXCEPT ![r] = c]
  BY DEF InFlight
<1>3. /\ c.step = step /\ c.op = op /\ c.key = k /\ c.document = d /\ c.payment = p
  OBVIOUS
<1> HIDE DEF c
<1>4. call'[r] = c /\ \A q \in Calls \ {r} : call'[q] = call[q]
  BY <1>2 DEF DocumentsInv, DocumentsTypeOK
<1>5. call' \in [Calls -> SingleCall \cup BulkCall \cup ItemCall \cup {NoCall}]
  BY <1>1, <1>2 DEF DocumentsInv, DocumentsTypeOK
<1>6. CallSound(r)'
  BY <1>3, <1>4 DEF CallSound, Valid
<1>7. UNCHANGED row
  BY DEF backupVars
<1> QED
  BY <1>3, <1>4, <1>5, <1>6, <1>7, CallMoves

LEMMA IntentConsumed ==
  ASSUME DocumentsInv, NEW k \in Keys, intent[k] # NoIntent, Consume(k)
  PROVE  /\ intent' \in [Keys -> UploadIntent \cup {NoIntent}]
         /\ intent'[k] # NoIntent /\ intent'[k].consumed
         /\ intent'[k].purpose = intent[k].purpose /\ intent'[k].document = intent[k].document
         /\ intent'[k].payment = intent[k].payment
         /\ \A l \in Keys \ {k} : intent'[l] = intent[l]
<1> DEFINE i == [intent[k] EXCEPT !.consumed = TRUE]
<1>1. intent[k] \in UploadIntent
  BY DEF DocumentsInv, DocumentsTypeOK
<1>2. /\ i \in UploadIntent /\ i.purpose = intent[k].purpose /\ i.document = intent[k].document
      /\ i.payment = intent[k].payment /\ i.consumed
  BY <1>1 DEF UploadIntent
<1>3. NoIntent \notin UploadIntent
  BY DocumentsAssumption DEF UploadIntent, Purposes
<1>4. intent' = [intent EXCEPT ![k] = i]
  BY DEF Consume
<1> HIDE DEF i
<1>5. intent'[k] = i /\ \A l \in Keys \ {k} : intent'[l] = intent[l]
  BY <1>4 DEF DocumentsInv, DocumentsTypeOK
<1>6. i # NoIntent
  BY <1>2, <1>3
<1>7. intent' \in [Keys -> UploadIntent \cup {NoIntent}]
  BY <1>2, <1>4 DEF DocumentsInv, DocumentsTypeOK
<1> QED
  BY <1>2, <1>5, <1>6, <1>7

\* The version's transaction, for what hangs on its key.
LEMMA VersionBought ==
  ASSUME DocumentsInv, NEW k \in Keys, intent[k] # NoIntent, ~intent[k].consumed,
         Consume(k), QueueBackup(k), NEW v \in VersionRow, v.key = k, v \in version',
         intent[k].purpose = "CREATE_VERSION" => v.document = intent[k].document,
         \A u \in version' : u = v \/ \E o \in version : o.key = u.key /\ o.document = u.document,
         \A x, y \in version' : x.key = y.key => x = y,
         \A o \in version : \E u \in version' : u.key = o.key
  PROVE  Bought' /\ EveryVersionIsQueued'
<1>1. /\ intent'[k] # NoIntent /\ intent'[k].consumed
      /\ intent'[k].purpose = intent[k].purpose /\ intent'[k].document = intent[k].document
      /\ \A l \in Keys \ {k} : intent'[l] = intent[l]
  BY IntentConsumed
<1>2. \A l \in Keys : (\E u \in version' : u.key = l) <=> (l = k \/ \E o \in version : o.key = l)
  OBVIOUS
<1>3. Bought'
  <2>1. \A l \in Keys : (intent'[l] # NoIntent /\ intent'[l].consumed) <=> (\E u \in version' : u.key = l)
    BY <1>1, <1>2 DEF DocumentsInv, Bought
  <2>2. ASSUME NEW u \in version', intent'[u.key].purpose = "CREATE_VERSION"
        PROVE  u.document = intent'[u.key].document
    <3>1. CASE u = v
      BY <1>1, <2>2, <3>1
    <3>2. CASE u # v
      <4>1. PICK o \in version : o.key = u.key /\ o.document = u.document
        BY <3>2
      <4>2. o.key \in Keys /\ o.key # k
        BY <3>2, <4>1 DEF DocumentsInv, Bought, DocumentsTypeOK, VersionRow
      <4> QED
        BY <1>1, <2>2, <4>1, <4>2 DEF DocumentsInv, Bought
    <3> QED
      BY <3>1, <3>2
  <2> QED
    BY <2>1, <2>2 DEF Bought
<1>4. EveryVersionIsQueued'
  <2>1. /\ row'[k].state # "NONE"
        /\ \A l \in Keys \ {k} : row'[l] = row[l]
    BY DEF QueueBackup, DocumentsInv, BackupInv, BackupTypeOK, Keys, Pending
  <2> QED
    BY <1>2, <2>1 DEF DocumentsInv, EveryVersionIsQueued
<1> QED
  BY <1>3, <1>4

\* A receipt keeps the intent it was made from.
LEMMA ReceiptsKept ==
  ASSUME DocumentsInv, NEW k \in Keys, intent[k] # NoIntent, ~intent[k].consumed, Consume(k),
         \/ reference' = reference
         \/ \E p \in Payments : /\ ReceiptFree(p) /\ intent[k].payment = p
                                /\ reference' = reference \cup {[entity |-> p, key |-> k]}
  PROVE  Receipted' /\ reference' \subseteq ReferenceRow
<1>1. /\ intent'[k] # NoIntent /\ intent'[k].consumed /\ intent'[k].payment = intent[k].payment
      /\ \A l \in Keys \ {k} : intent'[l] = intent[l]
  BY IntentConsumed
<1>2. \A x \in reference : x.key \in Keys
  BY DEF DocumentsInv, DocumentsTypeOK, ReferenceRow
<1>3. CASE reference' = reference
  BY <1>1, <1>2, <1>3 DEF DocumentsInv, DocumentsTypeOK, Receipted
<1>4. ASSUME NEW p \in Payments, ReceiptFree(p), intent[k].payment = p,
             reference' = reference \cup {[entity |-> p, key |-> k]}
      PROVE  Receipted' /\ reference' \subseteq ReferenceRow
  <2> DEFINE new == [entity |-> p, key |-> k]
  <2>1. new \in ReferenceRow /\ new.entity = p /\ new.key = k
    BY DEF ReferenceRow, Entities
  <2>2. \A x \in reference : x.entity # p
    BY <1>4 DEF ReceiptFree, HasReceipt, Receipts
  <2>3. reference' = reference \cup {new}
    BY <1>4
  <2> HIDE DEF new
  <2>4. reference' \subseteq ReferenceRow
    BY <2>1, <2>3 DEF DocumentsInv, DocumentsTypeOK
  <2>5. Receipted'
    BY <1>1, <1>2, <1>4, <2>1, <2>2, <2>3 DEF DocumentsInv, Receipted
  <2> QED
    BY <2>4, <2>5
<1> QED
  BY <1>3, <1>4

LEMMA DocumentWritten ==
  ASSUME DocumentsInv, NEW k \in Keys, intent[k] # NoIntent, ~intent[k].consumed,
         intent[k].purpose # "CREATE_VERSION", NEW d \in Documents, WriteDocument(k, d),
         \/ reference' = reference
         \/ \E p \in Payments : /\ ReceiptFree(p) /\ intent[k].payment = p
                                /\ reference' = reference \cup {[entity |-> p, key |-> k]},
         NEW r \in Calls,
         call' \in [Calls -> SingleCall \cup BulkCall \cup ItemCall \cup {NoCall}],
         call'[r].step \in {"NONE", "ITEMS"}, call'[r].step = "ITEMS" => call'[r].left # <<>>,
         \A q \in Calls \ {r} : call'[q] = call[q]
  PROVE  /\ DocumentsTypeOK' /\ (\A q \in Calls : CallSound(q)')
         /\ Linear' /\ Bought' /\ Receipted' /\ EveryVersionIsQueued'
<1> DEFINE new == Version(d, 1, k)
<1>1. /\ new \in VersionRow /\ new.document = d /\ new.number = 1 /\ new.key = k /\ new.isCurrent
  BY DEF Version, VersionRow
<1>2. /\ status[d] = "NONE" /\ status' = [status EXCEPT ![d] = "ACTIVE"]
      /\ version' = version \cup {new} /\ Consume(k) /\ QueueBackup(k)
  BY DEF WriteDocument
<1> HIDE DEF new
<1>3. \A v \in version : v.document # d
  <2>1. PICK n \in Nat : Numbered(d, n)
    BY DEF DocumentsInv, Linear
  <2>2. n = 0
    BY <1>2, <2>1 DEF Numbered
  <2> QED
    BY <2>1, <2>2 DEF Numbered, DocumentsInv, DocumentsTypeOK, VersionRow
<1>4. \A v \in version : v.key # k /\ v.key \in Keys
  BY DEF DocumentsInv, Bought, DocumentsTypeOK, VersionRow
<1>5. status'[d] = "ACTIVE" /\ \A e \in Documents \ {d} : status'[e] = status[e]
  BY <1>2 DEF DocumentsInv, DocumentsTypeOK
<1>6. Receipted' /\ reference' \subseteq ReferenceRow
  BY <1>2, ReceiptsKept
<1>7. DocumentsTypeOK'
  <2>1. status' \in [Documents -> {"NONE", "ACTIVE", "ARCHIVED"}] /\ version' \subseteq VersionRow
    BY <1>1, <1>2 DEF DocumentsInv, DocumentsTypeOK
  <2>2. \A q \in Calls : call'[q].step = "ITEMS" => call'[q].left # <<>>
    BY DEF DocumentsInv, DocumentsTypeOK
  <2> QED
    BY <1>2, <1>6, <2>1, <2>2, IntentConsumed DEF DocumentsTypeOK
<1>8. Linear'
  <2>1. Numbered(d, 1)'
    BY <1>1, <1>2, <1>3, <1>5 DEF Numbered
  <2>2. ASSUME NEW e \in Documents \ {d}
        PROVE  \E n \in Nat : Numbered(e, n)'
    <3>1. PICK n \in Nat : Numbered(e, n)
      BY DEF DocumentsInv, Linear
    <3> QED
      BY <1>1, <1>2, <1>5, <3>1 DEF Numbered
  <2>3. \A u, v \in version' : u.document = v.document /\ u.number = v.number => u = v
    BY <1>1, <1>2, <1>3 DEF DocumentsInv, Linear
  <2> QED
    BY <2>1, <2>2, <2>3 DEF Linear
<1>9. Bought' /\ EveryVersionIsQueued'
  <2>1. \A x, y \in version' : x.key = y.key => x = y
    BY <1>1, <1>2, <1>4 DEF DocumentsInv, Bought
  <2>2. new \in version' /\ version \subseteq version' /\ \A u \in version' : u = new \/ u \in version
    BY <1>2
  <2> QED
    BY <1>1, <1>2, <2>1, <2>2, VersionBought
<1>10. \A q \in Calls : CallSound(q)'
  <2>1. CallSound(r)'
    BY EndedCallSound
  <2>2. \A l \in Keys : intent[l] # NoIntent =>
             /\ intent'[l] # NoIntent /\ intent'[l].purpose = intent[l].purpose
             /\ intent'[l].document = intent[l].document /\ intent'[l].payment = intent[l].payment
    BY <1>2, IntentConsumed
  <2>3. \A v \in version : \E u \in version' : u.document = v.document /\ u.number = v.number
    BY <1>2
  <2>4. \A e \in Documents : status[e] # "NONE" => status'[e] # "NONE"
    BY <1>5
  <2> QED
    BY <2>1, <2>2, <2>3, <2>4, CallKept DEF DocumentsInv
<1> QED
  BY <1>6, <1>7, <1>8, <1>9, <1>10

\* The other versions of the document step back; nothing else of them changes.
LEMMA VersionsDemoted ==
  ASSUME DocumentsTypeOK, NEW d \in Documents, NEW v \in VersionRow, version' = Demoted(d, v)
  PROVE  \E after \in [version -> VersionRow] :
             /\ version' = {after[u] : u \in version} \cup {v}
             /\ \A u \in version :
                    /\ after[u].document = u.document /\ after[u].number = u.number
                    /\ after[u].key = u.key
                    /\ after[u].isCurrent <=> (u.isCurrent /\ u.document # d)
                    /\ u.document # d => after[u] = u
<1> DEFINE demoted(u) == IF u.document = d THEN [u EXCEPT !.isCurrent = FALSE] ELSE u
           after == [u \in version |-> demoted(u)]
<1>1. ASSUME NEW u \in version
      PROVE  /\ demoted(u) \in VersionRow
             /\ demoted(u).document = u.document /\ demoted(u).number = u.number
             /\ demoted(u).key = u.key
             /\ demoted(u).isCurrent <=> (u.isCurrent /\ u.document # d)
             /\ u.document # d => demoted(u) = u
  <2>1. u \in VersionRow
    BY DEF DocumentsTypeOK
  <2> QED
    BY <2>1 DEF VersionRow
<1>2. version' = {demoted(u) : u \in version} \cup {v}
  BY Zenon DEF Demoted
<1> HIDE DEF demoted
<1>3. after \in [version -> VersionRow] /\ \A u \in version : after[u] = demoted(u)
  BY <1>1
<1>4. {demoted(u) : u \in version} = {after[u] : u \in version}
  OBVIOUS
<1> QED
  BY <1>1, <1>2, <1>3, <1>4

LEMMA VersionAdded ==
  ASSUME DocumentsInv, NEW r \in Calls, AddVersion(r),
         Consumable(call[r].key), NumberFree(call[r].document, call[r].number)
  PROVE  /\ DocumentsTypeOK' /\ (\A q \in Calls : CallSound(q)')
         /\ Linear' /\ Bought' /\ Receipted' /\ EveryVersionIsQueued'
<1>0. PICK k, d, n : k = call[r].key /\ d = call[r].document /\ n = call[r].number
  OBVIOUS
<1> DEFINE new == Version(d, n, k)
<1>1. /\ Consume(k) /\ version' = Demoted(d, new) /\ QueueBackup(k) /\ Return(r)
      /\ UNCHANGED <<status, reference>>
      /\ call[r].step = "NUMBERED"
  BY <1>0 DEF AddVersion
<1>2. /\ k \in Keys /\ intent[k] # NoIntent /\ ~intent[k].consumed
      /\ d \in Documents /\ status[d] # "NONE" /\ intent[k].document = d /\ n \in Nat
      /\ \E v \in version : v.document = d /\ n = v.number + 1
      /\ ~\E v \in version : v.document = d /\ v.number = n
  BY <1>0, <1>1 DEF DocumentsInv, CallSound, ResolvedSteps, Consumable, NumberFree, VersionsOf
<1>3. /\ new \in VersionRow /\ new.document = d /\ new.number = n /\ new.key = k /\ new.isCurrent
  BY <1>2 DEF Version, VersionRow
<1> HIDE DEF new
<1>4. PICK after \in [version -> VersionRow] :
             /\ version' = {after[u] : u \in version} \cup {new}
             /\ \A u \in version :
                    /\ after[u].document = u.document /\ after[u].number = u.number
                    /\ after[u].key = u.key
                    /\ after[u].isCurrent <=> (u.isCurrent /\ u.document # d)
                    /\ u.document # d => after[u] = u
  BY <1>1, <1>2, <1>3, VersionsDemoted DEF DocumentsInv
<1>5. /\ \A u \in version : after[u] \in version'
      /\ \A x \in version' : x = new \/ \E u \in version : x = after[u]
      /\ new \in version'
  BY <1>4
<1>6. \A v \in version : /\ v.key # k /\ v.key \in Keys /\ v.number \in Nat
                         /\ v.isCurrent \in BOOLEAN
  BY <1>2 DEF DocumentsInv, Bought, DocumentsTypeOK, VersionRow
<1>7. DocumentsTypeOK'
  <2>1. version' \subseteq VersionRow
    BY <1>3, <1>4
  <2>2. \A q \in Calls : call'[q].step = "ITEMS" => call'[q].left # <<>>
    BY <1>1, ReturnWritten DEF DocumentsInv, DocumentsTypeOK, NoCall
  <2> QED
    BY <1>1, <1>2, <2>1, <2>2, IntentConsumed, ReturnWritten DEF DocumentsInv, DocumentsTypeOK
<1>8. Numbered(d, n)'
  <2>1. PICK m \in Nat : Numbered(d, m)
    BY <1>2 DEF DocumentsInv, Linear
  <2>2. n = m + 1
    BY <1>2, <1>6, <2>1 DEF Numbered
  <2>3. ASSUME NEW x \in version', x.document = d
        PROVE  1 <= x.number /\ x.number <= n /\ (x.isCurrent <=> x.number = n)
    <3>1. CASE x = new
      BY <1>2, <1>3, <2>2, <3>1
    <3>2. ASSUME NEW u \in version, x = after[u]
          PROVE  1 <= x.number /\ x.number <= n /\ (x.isCurrent <=> x.number = n)
      <4>1. u.document = d /\ x.number = u.number /\ ~x.isCurrent
        BY <1>4, <2>3, <3>2
      <4> QED
        BY <1>6, <2>1, <2>2, <4>1 DEF Numbered
    <3> QED
      BY <1>5, <3>1, <3>2
  <2>4. ASSUME NEW i \in 1 .. n
        PROVE  \E x \in version' : x.document = d /\ x.number = i
    <3>1. CASE i = n
      BY <1>3, <1>5, <3>1
    <3>2. CASE i # n
      <4>1. PICK u \in version : u.document = d /\ u.number = i
        BY <2>1, <2>2, <3>2 DEF Numbered
      <4> QED
        BY <1>4, <1>5, <4>1
    <3> QED
      BY <3>1, <3>2
  <2>5. status'[d] # "NONE" /\ n # 0
    BY <1>1, <1>2, <2>1, <2>2
  <2> QED
    BY <2>3, <2>4, <2>5 DEF Numbered
<1>9. ASSUME NEW e \in Documents \ {d}
      PROVE  \E m \in Nat : Numbered(e, m)'
  <2>1. PICK m \in Nat : Numbered(e, m)
    BY DEF DocumentsInv, Linear
  <2>2. \A x : x \in version' /\ x.document = e <=> x \in version /\ x.document = e
    BY <1>3, <1>4, <1>5
  <2> QED
    BY <1>1, <2>1, <2>2 DEF Numbered
<1>10. Linear'
  <2>1. \A x, y \in version' : x.document = y.document /\ x.number = y.number => x = y
    BY <1>2, <1>3, <1>4, <1>5 DEF DocumentsInv, Linear
  <2> QED
    BY <1>2, <1>8, <1>9, <2>1 DEF Linear
<1>11. Bought' /\ EveryVersionIsQueued'
  <2>1. \A x, y \in version' : x.key = y.key => x = y
    BY <1>3, <1>4, <1>5, <1>6 DEF DocumentsInv, Bought
  <2>2. \A x \in version' : x = new \/ \E o \in version : o.key = x.key /\ o.document = x.document
    BY <1>4, <1>5
  <2>3. \A o \in version : \E u \in version' : u.key = o.key
    BY <1>4, <1>5
  <2> QED
    BY <1>1, <1>2, <1>3, <1>5, <2>1, <2>2, <2>3, VersionBought
<1>12. Receipted'
  BY <1>1, <1>2, ReceiptsKept
<1>13. \A q \in Calls : CallSound(q)'
  <2>1. CallSound(r)'
    BY <1>1, ReturnWritten, EndedCallSound DEF NoCall, DocumentsInv
  <2>2. \A l \in Keys : intent[l] # NoIntent =>
             /\ intent'[l] # NoIntent /\ intent'[l].purpose = intent[l].purpose
             /\ intent'[l].document = intent[l].document /\ intent'[l].payment = intent[l].payment
    BY <1>1, <1>2, IntentConsumed
  <2>3. \A v \in version : \E u \in version' : u.document = v.document /\ u.number = v.number
    BY <1>4, <1>5
  <2>4. \A q \in Calls \ {r} : call'[q] = call[q]
    BY <1>1, ReturnWritten DEF DocumentsInv
  <2> QED
    BY <1>1, <2>1, <2>2, <2>3, <2>4, CallKept DEF DocumentsInv
<1> QED
  BY <1>7, <1>10, <1>11, <1>12, <1>13

LEMMA LatestIsLast ==
  ASSUME DocumentsTypeOK, NEW d \in Documents, NEW n \in Nat, Numbered(d, n), n # 0
  PROVE  Latest(d) = n
<1> DEFINE numbers == {v.number : v \in VersionsOf(d)}
<1>1. \A v \in VersionsOf(d) : v \in version /\ v.document = d /\ v.number \in Nat
  BY DEF VersionsOf, DocumentsTypeOK, VersionRow
<1>2. n \in numbers /\ \A v \in VersionsOf(d) : v.number <= n
  <2>1. \E v \in version : v.document = d /\ v.number = n
    BY DEF Numbered
  <2> QED
    BY <1>1, <2>1 DEF VersionsOf, Numbered
<1>3. \A m \in numbers : (\A v \in VersionsOf(d) : v.number <= m) => m = n
  BY <1>1, <1>2
<1> QED
  BY <1>2, <1>3 DEF Latest

LEMMA LatestRead ==
  ASSUME DocumentsInv, NEW r \in Calls, ReadLatest(r)
  PROVE  /\ DocumentsTypeOK' /\ (\A q \in Calls : CallSound(q)')
         /\ Linear' /\ Bought' /\ Receipted' /\ EveryVersionIsQueued'
<1>0. PICK d, n : d = call[r].document /\ n = Latest(d) + 1
  OBVIOUS
<1> DEFINE c == [call[r] EXCEPT !.step = "NUMBERED", !.number = n]
<1>1. /\ call[r].step = "RESOLVED" /\ call[r].op = "CREATE_VERSION"
      /\ d \in Documents /\ status[d] # "NONE" /\ call' = [call EXCEPT ![r] = c]
      /\ UNCHANGED <<row, intent, status, version, reference>>
  BY <1>0 DEF ReadLatest, DocumentsInv, CallSound, backupVars
<1>2. n \in Nat /\ \E v \in version : v.document = d /\ n = v.number + 1
  <2>1. PICK m \in Nat : Numbered(d, m)
    BY <1>1 DEF DocumentsInv, Linear
  <2>2. m # 0
    BY <1>1, <2>1 DEF Numbered
  <2>3. n = m + 1
    BY <1>0, <1>1, <2>1, <2>2, LatestIsLast DEF DocumentsInv
  <2> QED
    BY <2>1, <2>2, <2>3 DEF Numbered
<1>3. call[r] \in SingleCall
  BY <1>1 DEF DocumentsInv, DocumentsTypeOK, BulkCall, ItemCall, NoCall
<1>4. /\ c \in SingleCall /\ c.step = "NUMBERED" /\ c.op = call[r].op /\ c.key = call[r].key
      /\ c.document = d /\ c.number = n
  BY <1>0, <1>2, <1>3 DEF SingleCall, ResolvedSteps
<1> HIDE DEF c
<1>5. /\ call' \in [Calls -> SingleCall \cup BulkCall \cup ItemCall \cup {NoCall}]
      /\ call'[r] = c /\ \A q \in Calls \ {r} : call'[q] = call[q]
  BY <1>1, <1>4 DEF DocumentsInv, DocumentsTypeOK
<1>6. CallSound(r)
  BY DEF DocumentsInv
<1>7. CallSound(r)'
  BY <1>0, <1>1, <1>2, <1>4, <1>5, <1>6 DEF CallSound, ResolvedSteps
<1> QED
  BY <1>1, <1>4, <1>5, <1>7, CallMoves

LEMMA BulkMoves ==
  ASSUME DocumentsInv, NEW r \in Calls, BulkCreateDocuments(r)
  PROVE  /\ DocumentsTypeOK' /\ (\A q \in Calls : CallSound(q)')
         /\ Linear' /\ Bought' /\ Receipted' /\ EveryVersionIsQueued'
<1>1. UNCHANGED <<row, intent, status, version, reference>>
  BY DEF BulkCreateDocuments, backupVars
<1>2. ASSUME NEW k \in Keys, NEW l \in Keys,
             call' = [call EXCEPT ![r] =
                 [step |-> "ITEMS", op |-> "CREATE_DOCUMENT", left |-> <<k, l>>]]
      PROVE  /\ DocumentsTypeOK' /\ (\A q \in Calls : CallSound(q)')
             /\ Linear' /\ Bought' /\ Receipted' /\ EveryVersionIsQueued'
  <2> DEFINE c == [step |-> "ITEMS", op |-> "CREATE_DOCUMENT", left |-> <<k, l>>]
  <2>1. c \in BulkCall /\ c.step = "ITEMS" /\ c.left # <<>>
    BY DEF BulkCall
  <2> HIDE DEF c
  <2>2. call' = [call EXCEPT ![r] = c]
    BY <1>2 DEF c
  <2>3. /\ call' \in [Calls -> SingleCall \cup BulkCall \cup ItemCall \cup {NoCall}]
        /\ call'[r] = c /\ \A q \in Calls \ {r} : call'[q] = call[q]
    BY <2>1, <2>2 DEF DocumentsInv, DocumentsTypeOK
  <2> QED
    BY <1>1, <2>1, <2>3, EndedCallSound, CallMoves
<1>3. CASE call[r].step = "ITEMS"
  <2>0. PICK k, rest : k = Head(call[r].left) /\ rest = Tail(call[r].left)
    OBVIOUS
  <2>1. /\ call[r] \in BulkCall \cup ItemCall
        /\ call[r].left \in Seq(Keys) /\ call[r].left # <<>>
    BY <1>3 DEF DocumentsInv, DocumentsTypeOK, SingleCall, BulkCall, ItemCall, NoCall, ResolvedSteps
  <2>2. k \in Keys /\ rest \in Seq(Keys)
    BY <2>0, <2>1
  <2>3. CASE ~\E x, y \in Keys : call' = [call EXCEPT ![r] =
                 [step |-> "ITEMS", op |-> "CREATE_DOCUMENT", left |-> <<x, y>>]]
    <3>1. call' = [call EXCEPT ![r] =
                    IF Valid(k, "CREATE_DOCUMENT") /\ ObjectUploaded(k)
                    THEN [step |-> "RESOLVED", op |-> "CREATE_DOCUMENT", key |-> k, left |-> rest]
                    ELSE IF rest = <<>> THEN NoCall ELSE [call[r] EXCEPT !.left = rest]]
      BY <2>0, <2>3 DEF BulkCreateDocuments
    <3>2. CASE Valid(k, "CREATE_DOCUMENT") /\ ObjectUploaded(k)
      <4> DEFINE c == [step |-> "RESOLVED", op |-> "CREATE_DOCUMENT", key |-> k, left |-> rest]
      <4>1. c \in ItemCall /\ c.step = "RESOLVED" /\ c.op = "CREATE_DOCUMENT" /\ c.key = k
        BY <2>2 DEF ItemCall
      <4>2. call' = [call EXCEPT ![r] = c]
        BY <3>1, <3>2
      <4> HIDE DEF c
      <4>3. /\ call' \in [Calls -> SingleCall \cup BulkCall \cup ItemCall \cup {NoCall}]
            /\ call'[r] = c /\ \A q \in Calls \ {r} : call'[q] = call[q]
        BY <4>1, <4>2 DEF DocumentsInv, DocumentsTypeOK
      <4>4. CallSound(r)'
        BY <1>1, <2>2, <3>2, <4>1, <4>3 DEF CallSound, Valid
      <4> QED
        BY <1>1, <4>1, <4>3, <4>4, CallMoves
    <3>3. CASE ~(Valid(k, "CREATE_DOCUMENT") /\ ObjectUploaded(k)) /\ rest = <<>>
      <4>1. call' = [call EXCEPT ![r] = NoCall]
        BY <3>1, <3>3
      <4>2. /\ call' \in [Calls -> SingleCall \cup BulkCall \cup ItemCall \cup {NoCall}]
            /\ call'[r].step = "NONE" /\ \A q \in Calls \ {r} : call'[q] = call[q]
        BY <4>1 DEF DocumentsInv, DocumentsTypeOK, NoCall
      <4> QED
        BY <1>1, <4>2, EndedCallSound, CallMoves
    <3>4. CASE ~(Valid(k, "CREATE_DOCUMENT") /\ ObjectUploaded(k)) /\ rest # <<>>
      <4> DEFINE c == [call[r] EXCEPT !.left = rest]
      <4>1. c \in BulkCall \cup ItemCall /\ c.step = "ITEMS" /\ c.left = rest
        <5>1. CASE call[r] \in BulkCall
          BY <2>2, <5>1 DEF BulkCall
        <5>2. CASE call[r] \in ItemCall
          BY <1>3, <2>2, <5>2 DEF ItemCall
        <5> QED
          BY <2>1, <5>1, <5>2
      <4>2. call' = [call EXCEPT ![r] = c]
        BY <3>1, <3>4
      <4> HIDE DEF c
      <4>3. /\ call' \in [Calls -> SingleCall \cup BulkCall \cup ItemCall \cup {NoCall}]
            /\ call'[r] = c /\ \A q \in Calls \ {r} : call'[q] = call[q]
        BY <4>1, <4>2 DEF DocumentsInv, DocumentsTypeOK
      <4> QED
        BY <1>1, <3>4, <4>1, <4>3, EndedCallSound, CallMoves
    <3> QED
      BY <3>2, <3>3, <3>4
  <2> QED
    BY <1>2, <2>3
<1> QED
  BY <1>2, <1>3 DEF BulkCreateDocuments

\* The transaction that found its intent spent, its number given or its payment answered.
LEMMA ConflictReturns ==
  ASSUME DocumentsInv, NEW r \in Calls, call[r].step \in ResolvedSteps, Conflict(r)
  PROVE  /\ DocumentsTypeOK' /\ (\A q \in Calls : CallSound(q)')
         /\ Linear' /\ Bought' /\ Receipted' /\ EveryVersionIsQueued'
<1>1. UNCHANGED <<row, intent, status, version, reference>> /\ ItemDone(r)
  BY DEF Conflict, backupVars
<1> QED
  BY <1>1, ItemDoneWritten, EndedCallSound, CallMoves DEF DocumentsInv

LEMMA DocumentCreated ==
  ASSUME DocumentsInv, NEW r \in Calls, CreateDocument(r)
  PROVE  /\ DocumentsTypeOK' /\ (\A q \in Calls : CallSound(q)')
         /\ Linear' /\ Bought' /\ Receipted' /\ EveryVersionIsQueued'
<1>1. call[r].step \in ResolvedSteps
  BY DEF CreateDocument, ResolvedSteps
<1>2. CASE ~Consumable(call[r].key)
  BY <1>1, <1>2, ConflictReturns DEF CreateDocument
<1>3. CASE Consumable(call[r].key)
  <2>1. PICK d \in Documents : WriteDocument(call[r].key, d)
    BY <1>3 DEF CreateDocument
  <2>2. ItemDone(r) /\ UNCHANGED reference
    BY <1>3 DEF CreateDocument
  <2>3. /\ call[r].key \in Keys /\ intent[call[r].key] # NoIntent /\ ~intent[call[r].key].consumed
        /\ intent[call[r].key].purpose # "CREATE_VERSION"
    BY <1>1, <1>3 DEF DocumentsInv, CallSound, CreateDocument, Consumable
  <2> QED
    BY <1>1, <2>1, <2>2, <2>3, ItemDoneWritten, DocumentWritten DEF DocumentsInv
<1> QED
  BY <1>2, <1>3

LEMMA ReceiptCreated ==
  ASSUME DocumentsInv, NEW r \in Calls, CreatePaymentReceipt(r)
  PROVE  /\ DocumentsTypeOK' /\ (\A q \in Calls : CallSound(q)')
         /\ Linear' /\ Bought' /\ Receipted' /\ EveryVersionIsQueued'
<1>1. call[r].step = "GENUINE" /\ call[r].step \in ResolvedSteps
  BY DEF CreatePaymentReceipt, ResolvedSteps
<1>2. CASE ~(Consumable(call[r].key) /\ ReceiptFree(call[r].payment))
  BY <1>1, <1>2, ConflictReturns DEF CreatePaymentReceipt
<1>3. CASE Consumable(call[r].key) /\ ReceiptFree(call[r].payment)
  <2>1. PICK d \in Documents : WriteDocument(call[r].key, d)
    BY <1>3 DEF CreatePaymentReceipt
  <2>2. /\ Return(r)
        /\ reference' = reference \cup {[entity |-> call[r].payment, key |-> call[r].key]}
    BY <1>3 DEF CreatePaymentReceipt
  <2>3. /\ call[r].key \in Keys /\ intent[call[r].key] # NoIntent /\ ~intent[call[r].key].consumed
        /\ intent[call[r].key].purpose # "CREATE_VERSION" /\ call[r].payment \in Payments
        /\ intent[call[r].key].payment = call[r].payment
    BY <1>1, <1>3 DEF DocumentsInv, CallSound, Consumable
  <2>4. call'[r].step = "NONE"
    BY <2>2, ReturnWritten DEF DocumentsInv, NoCall
  <2> QED
    BY <1>3, <2>1, <2>2, <2>3, <2>4, ReturnWritten, DocumentWritten DEF DocumentsInv
<1> QED
  BY <1>2, <1>3

LEMMA PrefixValidated ==
  ASSUME DocumentsInv, NEW r \in Calls, ValidateMagicBytes(r)
  PROVE  /\ DocumentsTypeOK' /\ (\A q \in Calls : CallSound(q)')
         /\ Linear' /\ Bought' /\ Receipted' /\ EveryVersionIsQueued'
<1>1. /\ call[r].step = "LOADED" /\ call[r].step \in ResolvedSteps
      /\ UNCHANGED <<row, intent, status, version, reference>>
      /\ \E step \in {"GENUINE", "CLEANUP"} : StepTo(r, step)
  BY DEF ValidateMagicBytes, ResolvedSteps, backupVars
<1>2. call[r] \in SingleCall
  BY <1>1 DEF DocumentsInv, DocumentsTypeOK, BulkCall, ItemCall, NoCall
<1>3. PICK step \in {"GENUINE", "CLEANUP"} : StepTo(r, step)
  BY <1>1
<1>4. step \in ResolvedSteps
  BY DEF ResolvedSteps
<1>5. /\ call' \in [Calls -> SingleCall \cup BulkCall \cup ItemCall \cup {NoCall}]
      /\ call'[r].step = step /\ call'[r].op = call[r].op /\ call'[r].key = call[r].key
      /\ call'[r].payment = call[r].payment
      /\ \A q \in Calls \ {r} : call'[q] = call[q]
  BY <1>1, <1>2, <1>3, <1>4, StepToWritten DEF DocumentsInv
<1>6. CallSound(r)
  BY DEF DocumentsInv
<1>7. CallSound(r)'
  BY <1>1, <1>4, <1>5, <1>6 DEF CallSound
<1> QED
  BY <1>1, <1>5, <1>7, CallMoves

LEMMA InvalidDeleted ==
  ASSUME DocumentsInv, NEW r \in Calls, DeleteInvalid(r)
  PROVE  /\ DocumentsTypeOK' /\ (\A q \in Calls : CallSound(q)')
         /\ Linear' /\ Bought' /\ Receipted' /\ EveryVersionIsQueued'
<1>1. UNCHANGED <<row, intent, status, version, reference>> /\ Return(r)
  BY DEF DeleteInvalid, backupVars
<1>2. call'[r].step = "NONE"
  BY <1>1, ReturnWritten DEF DocumentsInv, NoCall
<1> QED
  BY <1>1, <1>2, ReturnWritten, EndedCallSound, CallMoves DEF DocumentsInv

\* Processes and time move no request into the queue or out of it.
LEMMA BackupKeepsQueue ==
  ASSUME BackupInv, BackupNext
  PROVE  \A k \in Keys : row'[k].state = "NONE" <=> row[k].state = "NONE"
<1>1. ASSUME NEW w \in Workers, NEW q \in Requests, Claim(w, q)
      PROVE  \A k \in Keys : row'[k].state = "NONE" <=> row[k].state = "NONE"
  BY <1>1 DEF Claim, Eligible, Keys, BackupInv, BackupTypeOK
<1>2. ASSUME NEW w \in Workers, Verify(w)
      PROVE  \A k \in Keys : row'[k].state = "NONE" <=> row[k].state = "NONE"
  <2>0. PICK q : q = worker[w].request
    OBVIOUS
  <2> DEFINE r == [row[q] EXCEPT !.state = "VERIFIED", !.owner = 0, !.leased = FALSE]
  <2>1. q \in Requests
    BY <1>2, <2>0, BusyProcess DEF Verify, At, Busy, BackupInv
  <2>2. row[q] \in Row
    BY <2>1 DEF BackupInv, BackupTypeOK
  <2>3. r \in Row /\ r.state = "VERIFIED"
    BY <2>2 DEF Row, States
  <2>4. row' = row \/ (row' = [row EXCEPT ![q] = r] /\ row[q].state = "COPYING")
    BY <1>2, <2>0 DEF Verify, HoldsLease
  <2> HIDE DEF r
  <2> QED
    BY <2>1, <2>3, <2>4, RowWritten DEF BackupInv, Keys
<1>3. ASSUME NEW w \in Workers, Fail(w)
      PROVE  \A k \in Keys : row'[k].state = "NONE" <=> row[k].state = "NONE"
  BY <1>3 DEF Fail, HoldsLease, Keys, BackupInv, BackupTypeOK, Row
<1>4. ASSUME NEW q \in Requests, TimePasses(q)
      PROVE  \A k \in Keys : row'[k].state = "NONE" <=> row[k].state = "NONE"
  BY <1>4 DEF TimePasses, LeaseRunsOut, BackoffEnds, Keys, BackupInv, BackupTypeOK, Row
<1> QED
  BY <1>1, <1>2, <1>3, <1>4
     DEF BackupNext, RunOne, Capture, CreateGeneration, PutCopy, PutManifest, CallFails, Die

LEMMA DocumentsNextKeeps == DocumentsInv /\ [Next]_allVars => DocumentsInv'
<1> SUFFICES ASSUME DocumentsInv, [Next]_allVars
             PROVE  DocumentsInv'
  OBVIOUS
<1> DEFINE Kept == /\ DocumentsTypeOK' /\ (\A q \in Calls : CallSound(q)')
                   /\ Linear' /\ Bought' /\ Receipted' /\ EveryVersionIsQueued'
<1>1. BackupInv'
  BY ClientStepTaken, BackupNextKeeps DEF DocumentsInv, BackupInv
<1>2. ASSUME UNCHANGED documentVars,
             \A k \in Keys : row'[k].state = "NONE" <=> row[k].state = "NONE"
      PROVE  Kept
  <2>1. DocumentsTypeOK' /\ IntentsKeep
    BY <1>2 DEF documentVars, DocumentsInv, DocumentsTypeOK, IntentsKeep
  <2>2. \A r \in Calls : CallSound(r)'
    BY <1>2, <2>1, CallsKept DEF documentVars
  <2> QED
    BY <1>2, <2>1, <2>2, RowsKept DEF documentVars
<1>3. ASSUME UNCHANGED allVars
      PROVE  Kept
  BY <1>2, <1>3 DEF allVars
<1>4. ASSUME BackupNext, UNCHANGED documentVars
      PROVE  Kept
  BY <1>2, <1>4, BackupKeepsQueue DEF DocumentsInv
<1>5. ASSUME NEW k \in Keys, NEW c \in Contents, PutObject(k, c)
      PROVE  Kept
  BY <1>2, <1>5 DEF PutObject, backupVars
<1>6. ASSUME NEW k \in Keys, RequestUploadUrl(k) \/ \E p \in Payments : RequestReceiptIntent(k, p)
      PROVE  Kept
  BY <1>6, IntentCreated DEF RequestUploadUrl, RequestReceiptIntent, Purposes
<1>7. ASSUME NEW r \in Calls, NEW k \in Keys,
             \/ ResolveForDocument(r, k)
             \/ \E d \in Documents : ResolveForVersion(r, k, d)
             \/ \E p \in Payments : LoadReceiptIntent(r, k, p)
      PROVE  Kept
  <2>1. CASE ResolveForDocument(r, k)
    BY <2>1, CallBegins DEF ResolveForDocument, Purposes
  <2>2. ASSUME NEW d \in Documents, ResolveForVersion(r, k, d)
        PROVE  Kept
    BY <2>2, CallBegins DEF ResolveForVersion, Purposes
  <2>3. ASSUME NEW p \in Payments, LoadReceiptIntent(r, k, p)
        PROVE  Kept
    BY <2>3, CallBegins DEF LoadReceiptIntent, Purposes
  <2> QED
    BY <1>7, <2>1, <2>2, <2>3
<1>8. ASSUME NEW r \in Calls, AddVersion(r)
      PROVE  Kept
  <2>1. call[r].step \in ResolvedSteps
    BY <1>8 DEF AddVersion, ResolvedSteps
  <2>2. CASE ~(Consumable(call[r].key) /\ NumberFree(call[r].document, call[r].number))
    BY <1>8, <2>1, <2>2, ConflictReturns DEF AddVersion
  <2> QED
    BY <1>8, <2>2, VersionAdded
<1>9. Kept
  BY <1>3, <1>4, <1>5, <1>6, <1>7, <1>8, IntentExpired, DocumentArchived, ReferenceCreated,
     BulkMoves, DocumentCreated, LatestRead, PrefixValidated, InvalidDeleted, ReceiptCreated
     DEF Next, DocumentsNext
<1> QED
  BY <1>1, <1>9 DEF DocumentsInv

LEMMA DocumentsInitHolds == Init => DocumentsInv
<1> SUFFICES ASSUME Init
             PROVE  DocumentsInv
  OBVIOUS
<1>1. BackupInv
  BY DocumentsInitially, BackupInitHolds
<1>2. DocumentsTypeOK /\ \A r \in Calls : CallSound(r)
  BY DEF Init, DocumentsTypeOK, CallSound, NoCall, ResolvedSteps
<1>3. \A d \in Documents : Numbered(d, 0)
  BY DEF Init, Numbered
<1>4. Linear /\ Bought /\ Receipted /\ EveryVersionIsQueued
  BY <1>3 DEF Init, Linear, Bought, Receipted, EveryVersionIsQueued, InitBackup, Keys, NoRow
<1> QED
  BY <1>1, <1>2, <1>4 DEF DocumentsInv

LEMMA DocumentsAlways == Spec => []DocumentsInv
BY DocumentsInitHolds, DocumentsNextKeeps, PTL DEF Spec

LEMMA LinearIsCounted ==
  ASSUME DocumentsInv, NEW d \in Documents
  PROVE  LET numbers == {v.number : v \in VersionsOf(d)}
         IN /\ numbers = 1 .. Cardinality(VersionsOf(d))
            /\ (status[d] # "NONE") <=> (numbers # {})
            /\ \A v \in VersionsOf(d) : v.isCurrent <=> v.number = Latest(d)
<1> DEFINE numbers == {v.number : v \in VersionsOf(d)}
<1>1. PICK n \in Nat : Numbered(d, n)
  BY DEF DocumentsInv, Linear
<1>2. \A v \in VersionsOf(d) : v \in version /\ v.document = d /\ v.number \in Nat
  BY DEF VersionsOf, DocumentsInv, DocumentsTypeOK, VersionRow
<1>3. numbers = 1 .. n
  <2>1. \A v \in VersionsOf(d) : v.number \in 1 .. n
    BY <1>1, <1>2 DEF Numbered
  <2>2. \A i \in 1 .. n : \E v \in VersionsOf(d) : v.number = i
    BY <1>1 DEF Numbered, VersionsOf
  <2> QED
    BY <2>1, <2>2
<1>4. Cardinality(VersionsOf(d)) = n
  <2> DEFINE number == [v \in VersionsOf(d) |-> v.number]
  <2>1. number \in Bijection(VersionsOf(d), 1 .. n)
    <3>1. number \in [VersionsOf(d) -> 1 .. n]
      BY <1>3
    <3>2. \A u, v \in VersionsOf(d) : number[u] = number[v] => u = v
      BY <1>2 DEF DocumentsInv, Linear
    <3>3. \A i \in 1 .. n : \E v \in VersionsOf(d) : number[v] = i
      BY <1>1 DEF Numbered, VersionsOf
    <3> QED
      BY <3>1, <3>2, <3>3 DEF Bijection, Injection, Surjection, IsInjective
  <2>2. ExistsBijection(1 .. n, VersionsOf(d))
    BY <2>1, Fun_ExistsBijSymmetric DEF ExistsBijection
  <2>3. IsFiniteSet(1 .. n) /\ Cardinality(1 .. n) = n
    BY <1>1, FS_Interval
  <2> QED
    BY <2>2, <2>3, FS_Bijection
<1>5. (status[d] # "NONE") <=> (numbers # {})
  BY <1>1, <1>3 DEF Numbered
<1>6. \A v \in VersionsOf(d) : v.isCurrent <=> v.number = Latest(d)
  <2> SUFFICES ASSUME NEW v \in VersionsOf(d)
               PROVE  v.isCurrent <=> v.number = Latest(d)
    OBVIOUS
  <2>1. n # 0
    BY <1>1, <1>2 DEF Numbered
  <2> QED
    BY <1>1, <1>2, <2>1, LatestIsLast DEF Numbered, DocumentsInv
<1> QED
  BY <1>3, <1>4, <1>5, <1>6

\* Two calls may read the same last number, an intent may be spent meanwhile and a document
\* archived: the versions of a document stay numbered 1 to n, and the last one is current.
THEOREM VersionsStayLinear == Spec => []VersionsAreLinear
<1>1. DocumentsInv => VersionsAreLinear
  BY LinearIsCounted DEF VersionsAreLinear
<1> QED
  BY <1>1, DocumentsAlways, PTL

\* An intent buys one version or none, and a payment has one receipt, which was uploaded for it.
THEOREM IntentsSpentOnce == Spec => []IntentSpentOnce
<1>1. ASSUME DocumentsInv
      PROVE  IntentSpentOnce
  <2>1. ASSUME NEW k \in Keys
        PROVE  LET bought == {v \in version : v.key = k}
               IN /\ Cardinality(bought) = IF intent[k] # NoIntent /\ intent[k].consumed THEN 1 ELSE 0
                  /\ \A v \in bought :
                         intent[k].purpose = "CREATE_VERSION" => v.document = intent[k].document
    <3> DEFINE bought == {v \in version : v.key = k}
    <3>1. CASE intent[k] # NoIntent /\ intent[k].consumed
      <4>1. PICK v \in version : v.key = k
        BY <1>1, <3>1 DEF DocumentsInv, Bought
      <4>2. bought = {v}
        BY <1>1, <4>1 DEF DocumentsInv, Bought
      <4>3. Cardinality(bought) = 1
        BY <4>2, FS_Singleton, Zenon
      <4> QED
        BY <1>1, <3>1, <4>3 DEF DocumentsInv, Bought
    <3>2. CASE ~(intent[k] # NoIntent /\ intent[k].consumed)
      <4>1. bought = {}
        BY <1>1, <3>2 DEF DocumentsInv, Bought
      <4>2. Cardinality(bought) = 0
        BY <4>1, FS_EmptySet, Zenon
      <4> QED
        BY <3>2, <4>1, <4>2
    <3> QED
      BY <3>1, <3>2
  <2>2. ASSUME NEW x \in Receipts
        PROVE  /\ intent[x.key].consumed /\ intent[x.key].payment = x.entity
               /\ \A y \in Receipts : y.entity = x.entity => y = x
    BY <1>1 DEF DocumentsInv, Receipted, Receipts
  <2> QED
    BY <2>1, <2>2 DEF IntentSpentOnce
<1> QED
  BY <1>1, DocumentsAlways, PTL

\* A version and the request for its backup are written together or not at all.
THEOREM VersionsAreQueued == Spec => []EveryVersionIsQueued
<1>1. DocumentsInv => EveryVersionIsQueued
  BY DEF DocumentsInv
<1> QED
  BY <1>1, DocumentsAlways, PTL

=============================================================================
