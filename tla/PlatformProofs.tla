--------------------------- MODULE PlatformProofs ---------------------------
(***************************************************************************)
(* The rows of the platform, for any number of requests on any rows.  A    *)
(* request writes by identifier, so what a write may do to a row depends   *)
(* on what its operation was checked for: that the row it is on has the    *)
(* kind of the operation is what keeps rows of other kinds out of reach,   *)
(* and what the request has seen is what a repeated status stands for.     *)
(***************************************************************************)
EXTENDS Platform, MoneyProofs, SequenceTheorems, TLAPS

-----------------------------------------------------------------------------
(* Rows, and what may become of them.                                      *)

\* Kinds of which no property says anything but that they are their kinds.
Plain == {"SUPPORT", "HOLD", "SUBSCRIPTION", "BUILDING_CASE", "FLAG", "DRAFT", "BUILDING",
          "SETTINGS", "REQUEST", "MEETING", "LISTING", "SLOT", "CAMPAIGN", "UNIT_CASE",
          "FUND"}

\* A function with a kind.
Typed(r) == r = [f \in DOMAIN r |-> r[f]] /\ "kind" \in DOMAIN r

\* The columns that the properties read.
IsRow(r) ==
    /\ Typed(r)
    /\ r.kind \in {"CASE", "FRAUD", "COMPLIANCE", "MANAGER_CASE", "GRANT", "PERMISSION"} =>
           "status" \in DOMAIN r
    /\ r.kind = "CASE" => "into" \in DOMAIN r
    /\ r.kind = "COMPLIANCE" => "key" \in DOMAIN r
    /\ r.kind = "GRANT" => "to" \in DOMAIN r
    /\ r.kind = "ENFORCEMENT" =>
           "type" \in DOMAIN r /\ "target" \in DOMAIN r /\ "appeal" \in DOMAIN r
    /\ r.kind \in {"OWNERSHIP", "TENANCY"} => "unit" \in DOMAIN r
    /\ r.kind = "BATCH" => "items" \in DOMAIN r /\ "request" \in DOMAIN r

Rows == table \in Seq(Range(table)) /\ \A i \in DOMAIN table : IsRow(table[i])

\* A settled case is reopened, a case is closed when it is resolved or merged.
CaseFollows(k, l) ==
    /\ k.status = "CLOSED" => l.status \in {"CLOSED", "OPEN"}
    /\ k.status = "RESOLVED" => l.status \in {"RESOLVED", "CLOSED", "OPEN"}
    /\ k.status # "CLOSED" /\ l.status = "CLOSED" => k.status = "RESOLVED" \/ l.into # 0

\* What one step may make of row k.
Follows(k, l) ==
    /\ l.kind = k.kind
    /\ Decided(k) => l.status = k.status
    /\ k.kind = "CASE" => CaseFollows(k, l)
    /\ k.kind = "COMPLIANCE" => l.key \in {k.key, NoOne}
    /\ k.kind = "GRANT" => l.to = k.to
    /\ k.kind \in {"GRANT", "PERMISSION"} => (l.status = "ACTIVE" => k.status = "ACTIVE")
    /\ k.kind = "ENFORCEMENT" =>
           /\ l.type = k.type /\ l.target = k.target
           /\ k.appeal \in {"UPHELD", "OVERTURNED"} => l = k
    /\ k.kind \in {"OWNERSHIP", "TENANCY"} => l.unit = k.unit
    /\ k.kind = "BATCH" => l.items = k.items /\ l.request = k.request

\* A row that is live and another one of its subject.
Rivals(k, l) == Live(k) /\ Live(l) /\ k.kind = l.kind /\ Subject(k) = Subject(l)

\* The calculation asks for flats of the building.
Asks(k) == k \in Calculation \cup {Mixed}

\* The batch charges what its request works out.
Divided(r) == Asks(r.request.calc) /\ r.items = ResolveChargeItems(r.request.calc)

\* What a new row must be.
Fresh(r) ==
    /\ IsRow(r)
    /\ \A i \in DOMAIN table : ~Rivals(table[i], r)
    /\ r.kind \in {"OWNERSHIP", "TENANCY"} => r.unit \in Units /\ Stands(r.unit)
    /\ r.kind = "BATCH" /\ r.request.kind # NoKind =>
           table[r.fund].active /\ IsFundCompatible(r.request.kind, table[r.fund].type)
    /\ r.kind = "BATCH" => Divided(r)

\* What one step does to the table: rows follow themselves, and one may be new.
TableMoves ==
    /\ Rows'
    /\ \A i \in DOMAIN table : i \in DOMAIN table' /\ Follows(table[i], table'[i])
    /\ \A i \in DOMAIN table' \ DOMAIN table : Fresh(table'[i])
    /\ \A i, j \in DOMAIN table' \ DOMAIN table : i = j

LEMMA RowsNumbered ==
  ASSUME Rows
  PROVE  Len(table) \in Nat /\ DOMAIN table = 1 .. Len(table)
BY LenProperties DEF Rows

LEMMA Unmoved ==
  ASSUME Rows, UNCHANGED table
  PROVE  TableMoves
BY DEF Rows, TableMoves, Follows, CaseFollows, Decided

LEMMA Appended ==
  ASSUME Rows, NEW r, Fresh(r), table' = Append(table, r)
  PROVE  TableMoves
<1> DEFINE n == Len(table)
           T == Range(table) \cup {r}
<1>1. n \in Nat /\ DOMAIN table = 1 .. n
  BY RowsNumbered
<1>2. table \in Seq(T)
  BY SeqMonotonic DEF Rows
<1>3. /\ table' \in Seq(T) /\ Len(table') = n + 1
      /\ \A i \in 1 .. n : table'[i] = table[i]
      /\ table'[n + 1] = r
  BY <1>2, AppendProperties
<1>4. DOMAIN table' = 1 .. n + 1
  BY <1>3, LenProperties
<1>5. table' \in Seq(Range(table'))
  BY <1>3, SeqOfRange
<1>6. \A i \in DOMAIN table' : i \in DOMAIN table \/ (i = n + 1 /\ i \notin DOMAIN table)
  BY <1>1, <1>4
<1>7. \A i \in DOMAIN table' \ DOMAIN table : i = n + 1
  BY <1>6
<1>8. Rows'
  BY <1>3, <1>1, <1>5, <1>6 DEF Rows, Fresh
<1>9. \A i \in DOMAIN table : i \in DOMAIN table' /\ Follows(table[i], table'[i])
  BY <1>1, <1>3, <1>4 DEF Follows, CaseFollows, Decided
<1> QED
  BY <1>3, <1>7, <1>8, <1>9 DEF TableMoves

LEMMA Inserted ==
  ASSUME Rows, NEW r, Fresh(r), Insert(r)
  PROVE  TableMoves
BY Appended DEF Insert

\* The rows are rewritten in place.
LEMMA Rewritten ==
  ASSUME Rows, DOMAIN table' = DOMAIN table, table' = [i \in DOMAIN table |-> table'[i]],
         \A i \in DOMAIN table : IsRow(table'[i]) /\ Follows(table[i], table'[i])
  PROVE  TableMoves
<1>1. Len(table) \in Nat /\ DOMAIN table = 1 .. Len(table)
  BY RowsNumbered
<1>2. table' \in [1 .. Len(table) -> Range(table')]
  BY <1>1 DEF Range
<1>3. table' \in Seq(Range(table'))
  BY <1>1, <1>2, SeqDef
<1> QED
  BY <1>3 DEF Rows, TableMoves

LEMMA Replaced ==
  ASSUME Rows, NEW i, NEW r, table' = [table EXCEPT ![i] = r],
         i \in DOMAIN table => IsRow(r) /\ Follows(table[i], r)
  PROVE  TableMoves
<1>1. /\ DOMAIN table' = DOMAIN table /\ table' = [j \in DOMAIN table |-> table'[j]]
      /\ \A j \in DOMAIN table : table'[j] = IF j = i THEN r ELSE table[j]
  BY RowsNumbered, LenProperties DEF Rows
<1>2. \A j \in DOMAIN table : IsRow(table'[j]) /\ Follows(table[j], table'[j])
  BY <1>1 DEF Rows, Follows, CaseFollows, Decided
<1> QED
  BY <1>1, <1>2, Rewritten

-----------------------------------------------------------------------------
(* What a request has in its hands.                                        *)

PlainOps ==
    {"ASSIGN", "MESSAGE", "REPLY", "RESOLVE", "CLOSE", "REOPEN", "ESCALATE", "MERGE", "RELEASE",
     "PLAN", "STATUS", "EXPIRE", "DOWNGRADED", "REVOKE", "ASSIGN_BUILDING", "DECIDE_BUILDING",
     "UPDATE_FLAG", "SAVE_DRAFT", "SUBMIT_SETUP", "SUBMITTED_SETUP", "RESOLVE_REQUEST",
     "APPROVED_REQUEST", "GRANT_MEMBERSHIP", "UPDATE_FUND", "DEACTIVATE", "REACTIVATE",
     "UPDATE_MEETING", "ATTENDANCE", "ARCHIVE_MEETING", "EDIT_LISTING", "RESUBMIT",
     "DECIDE_LISTING", "ARCHIVE_LISTING", "SLOT_FILL", "TRANSITION", "UPDATE_CAMPAIGN"}

FraudOps == {"INVESTIGATE", "EVIDENCE", "DECIDE_FRAUD"}
ComplianceOps == {"COMPLY", "DECIDE_COMPLIANCE"}
CaseOps == {"EDIT_CASE", "ASSIGN_CASE", "MESSAGE_CASE", "RESOLVE_CASE", "CLOSE_CASE",
            "REOPEN_CASE", "MERGE_CASE"}
UnitOps == {"ADD_UNIT", "DELETE_UNIT", "UNIT_CASE", "CLAIM", "TRANSFER", "TRANSFERRING", "TENANCY"}

\* The kind of the row the operation is on, and what was true of the row that was seen.
OnItsRow(k) ==
    /\ k.op \in PlainOps => k.on \in DOMAIN table /\ table[k.on].kind \in Plain
    /\ k.op = "UPDATE_FLAG" => Typed(k.seen) /\ k.seen.kind = table[k.on].kind
    /\ k.op \in {"SLOT_FILL", "TRANSITION", "UPDATE_CAMPAIGN"} => "kind" \notin DOMAIN k.patch
    /\ k.op \in FraudOps =>
           k.on \in Ids("FRAUD") /\ (k.op # "EVIDENCE" => Investigable(k.seen))
    /\ k.op \in ComplianceOps => k.on \in Ids("COMPLIANCE") /\ ComplianceInvestigable(k.seen)
    /\ k.op = "REVOKE_ROLE" => k.on \in Ids("GRANT")
    /\ k.op = "FORBID" => k.on \in Ids("PERMISSION")
    /\ k.op \in {"NOTICE", "END_TENANCY"} => k.on \in Ids("TENANCY")
    /\ k.op = "ISSUE" => k.on \in Ids("BATCH")
    /\ k.op \in CaseOps => k.on \in Ids("CASE")
    /\ k.op = "ASSIGN_CASE" => ActiveCase(k.seen)
    /\ k.op = "RESOLVE_CASE" => CaseResolvable(k.seen)
    /\ k.op = "MERGE_CASE" => k.into # 0

\* What it remembers beside a row.
Remembers(k) ==
    /\ k.op \in {"EXPIRE", "SUBMIT_SETUP", "RESOLVE_REQUEST", "APPROVED_REQUEST"} =>
           "op" \in DOMAIN k /\ "on" \in DOMAIN k
    /\ k.op \in {"UPDATE_CAMPAIGN", "UNLOCK", "UNLOCKING", "SCORE"} => "op" \in DOMAIN k
    /\ k.op = "DEFAULT_FUND" => k.request.kind = NoKind
    /\ k.op = "CHARGE" /\ k.request.kind # NoKind => IsFundCompatible(k.request.kind, k.seen)
    /\ k.op \in {"CHARGE", "DEFAULT_FUND"} => Asks(k.request.calc)
    /\ k.op \in UnitOps => k.unit \in Units
    /\ k.op = "SUSPENSION" => k.suspend \in BOOLEAN /\ k.locks \in BOOLEAN
    /\ k.op = "NOTIFY" => "op" \in DOMAIN k /\ "left" \in DOMAIN k /\ k.left \subseteq Channels
    /\ k.op \in {"RESEND", "REQUEUE"} =>
           "op" \in DOMAIN k /\ "of" \in DOMAIN k /\ k.of \in Channels
    /\ k.op \in {"CLAWBACK", "AWARD", "INSERT"} =>
           {"op", "of", "reason"} \subseteq DOMAIN k /\ k.reason \in DOMAIN Award
    /\ k.op = "CLAWBACK" => k.reason = "CHARGE_PAID_REVERSED"

\* Points are taken back of what was awarded.
Awarded(k) ==
    k.op \in {"AWARD", "INSERT"} /\ k.reason = "CHARGE_PAID_REVERSED" =>
        Recorded(k.of, "CHARGE_PAID")

\* Who was told has a note, has wanted none, or was given up.
Told(p, a) == p \in silenced \/ \E n \in note \union missed : n.to = p /\ n.of = a

Telling(k) ==
    k.op = "TELL" =>
        /\ "op" \in DOMAIN k /\ "at" \in DOMAIN k /\ "of" \in DOMAIN k
        /\ DOMAIN k.at = Recipients(k.of)
        /\ \A p \in DOMAIN k.at :
               /\ k.at[p].step = "CREATE" /\ k.at[p].channels = {} => p \in silenced
               /\ k.at[p].step = "DONE" => Told(p, k.of)

Sound(k) == OnItsRow(k) /\ Remembers(k) /\ Awarded(k) /\ Telling(k)

Requested == DOMAIN call = Calls /\ \A c \in Calls : \A k \in {call[c]} : Sound(k)

\* What is known beside the rows only grows.
Grows ==
    /\ \A r, reason : Recorded(r, reason) => Recorded(r, reason)'
    /\ UNCHANGED <<member, owner, flats>>
    /\ note \subseteq note' /\ silenced \subseteq silenced' /\ missed \subseteq missed'

\* What is told is not broken off, and no suspension begins.
Apart ==
    \A c \in Calls : call[c].op = "TELL" \/ call'[c].op = "SUSPENSION" => call'[c] = call[c]

Proceeds == TableMoves /\ Requested' /\ Apart

LEMMA IdleSound == Sound(Idle) /\ Sound(Idle)'
BY DEF Sound, OnItsRow, Remembers, Awarded, Telling, Idle, PlainOps, FraudOps, ComplianceOps,
       CaseOps, UnitOps

\* What was known of a request is still known.
LEMMA StillSound ==
  ASSUME TableMoves, Grows, NEW k, Sound(k)
  PROVE  Sound(k)'
<1>1. \A i \in DOMAIN table : i \in DOMAIN table' /\ table'[i].kind = table[i].kind
  BY DEF TableMoves, Follows
<1>2. /\ Ids("FRAUD") \subseteq Ids("FRAUD")' /\ Ids("COMPLIANCE") \subseteq Ids("COMPLIANCE")'
      /\ Ids("GRANT") \subseteq Ids("GRANT")' /\ Ids("PERMISSION") \subseteq Ids("PERMISSION")'
      /\ Ids("TENANCY") \subseteq Ids("TENANCY")' /\ Ids("CASE") \subseteq Ids("CASE")'
      /\ Ids("BATCH") \subseteq Ids("BATCH")'
  BY <1>1 DEF Ids
<1>3. OnItsRow(k)'
  <2>1. k.op \in PlainOps => k.on \in DOMAIN table' /\ table'[k.on].kind = table[k.on].kind
    BY <1>1 DEF Sound, OnItsRow
  <2>2. k.op = "UPDATE_FLAG" => k.op \in PlainOps
    BY DEF PlainOps
  <2> QED
    BY <1>2, <2>1, <2>2 DEF Sound, OnItsRow
<1>4. Remembers(k)' /\ Awarded(k)'
  <2>1. Asks(k.request.calc)' <=> Asks(k.request.calc)
    BY DEF Asks, Calculation, UnitScopes, Mixed, Grows
  <2> QED
    BY <2>1 DEF Sound, Remembers, Awarded, Grows
<1>5. Recipients(k.of)' = Recipients(k.of)
  BY DEF Grows, Recipients, listCurrentMemberPersonIds, getCurrentOwnerPersonIds,
         listCurrentMemberPersonIdsByRoles
<1>6. Telling(k)'
  BY <1>5 DEF Sound, Telling, Told, Grows
<1> QED
  BY <1>3, <1>4, <1>6 DEF Sound

\* A step gives one request something else to hold.
LEMMA OneCall ==
  ASSUME Requested, TableMoves, Grows, NEW c \in Calls, NEW k, Sound(k)',
         call' = [call EXCEPT ![c] = k], call[c].op # "TELL", k.op # "SUSPENSION"
  PROVE  Proceeds
<1>1. \A d \in Calls : call'[d] = IF d = c THEN k ELSE call[d]
  BY DEF Requested
<1>2. ASSUME NEW d \in Calls, NEW v \in {call'[d]}
      PROVE  Sound(v)'
  <2>1. CASE d = c
    BY <1>1, <1>2, <2>1
  <2>2. CASE d # c
    BY <1>1, <1>2, <2>2, StillSound DEF Requested
  <2> QED
    BY <2>1, <2>2
<1>3. Apart
  BY <1>1 DEF Apart
<1> QED
  BY <1>2, <1>3 DEF Requested, Proceeds

LEMMA NoCallMade ==
  ASSUME Requested, TableMoves, Grows, UNCHANGED call
  PROVE  Proceeds
<1>1. ASSUME NEW d \in Calls, NEW v \in {call'[d]}
      PROVE  Sound(v)'
  BY <1>1, StillSound DEF Requested
<1> QED
  BY <1>1 DEF Requested, Proceeds, Apart

LEMMA Replied ==
  ASSUME Requested, TableMoves, Grows, NEW c \in Calls, NEW op, op # "TELL", Ends(c, op)
  PROVE  Proceeds
BY OneCall, IdleSound DEF Ends, Idle

-----------------------------------------------------------------------------
(* Checks and writes.                                                      *)

\* The facts in force before a step.
PlatformInv == Rows /\ Requested

LEMMA InHand ==
  ASSUME Requested, NEW c \in Calls
  PROVE  Sound(call[c])
BY DEF Requested

LEMMA Keeping ==
  ASSUME PlatformInv, Grows, NEW c \in Calls, NEW k, Sound(k), UNCHANGED table,
         call' = [call EXCEPT ![c] = k], call[c].op # "TELL", k.op # "SUSPENSION"
  PROVE  Proceeds
BY Unmoved, StillSound, OneCall DEF PlatformInv

LEMMA Starting ==
  ASSUME PlatformInv, Grows, NEW c \in Calls, NEW k, Sound(k), UNCHANGED table, call[c] = Idle,
         call' = [call EXCEPT ![c] = k], k.op # "SUSPENSION"
  PROVE  Proceeds
<1>1. call[c].op # "TELL"
  BY DEF Idle
<1> QED
  BY <1>1, Keeping

LEMMA Checking ==
  ASSUME PlatformInv, Grows, NEW c \in Calls, NEW op, NEW i, Checked(c, op, i),
         Sound([op |-> op, on |-> i, seen |-> table[i]]), op # "SUSPENSION"
  PROVE  Proceeds
<1>1. call[c].op # "TELL"
  BY DEF Checked, Idle
<1> QED
  BY <1>1, Keeping DEF Checked

LEMMA CheckingPlain ==
  ASSUME PlatformInv, Grows, NEW c \in Calls, NEW i \in DOMAIN table, table[i].kind \in Plain,
         NEW op \in PlainOps \ {"SLOT_FILL", "TRANSITION", "UPDATE_CAMPAIGN"},
         Checked(c, op, i)
  PROVE  Proceeds
<1> DEFINE k == [op |-> op, on |-> i, seen |-> table[i]]
<1>1. OnItsRow(k)
  BY DEF OnItsRow, PlainOps, FraudOps, ComplianceOps, CaseOps, PlatformInv, Rows, IsRow
<1>2. Remembers(k) /\ Awarded(k) /\ Telling(k)
  BY DEF Remembers, Awarded, Telling, PlainOps, UnitOps
<1> QED
  BY <1>1, <1>2, Checking DEF Sound, PlainOps

LEMMA Ending ==
  ASSUME PlatformInv, Grows, NEW c \in Calls, NEW op, op # "TELL", Ends(c, op), UNCHANGED table
  PROVE  Proceeds
BY Unmoved, Replied DEF PlatformInv

\* A write to a row of a plain kind.
LEMMA Writing ==
  ASSUME PlatformInv, NEW c \in Calls, call[c].op \in PlainOps, NEW r, Put(c, r),
         Typed(Now(c)) => Typed(r) /\ r.kind = Now(c).kind
  PROVE  TableMoves
<1>1. call[c].on \in DOMAIN table /\ Now(c).kind \in Plain /\ IsRow(Now(c))
  BY InHand DEF PlatformInv, Sound, OnItsRow, Rows, Now
<1>2. IsRow(r) /\ Follows(Now(c), r)
  BY <1>1 DEF IsRow, Follows, Plain, Decided
<1> QED
  BY <1>2, Replaced DEF Put, Now, PlatformInv

LEMMA WritingIf ==
  ASSUME PlatformInv, NEW c \in Calls, call[c].op \in PlainOps, NEW r, NEW found,
         PutIf(c, found, r), Typed(Now(c)) => Typed(r) /\ r.kind = Now(c).kind
  PROVE  TableMoves
BY Writing, Unmoved DEF PutIf, PlatformInv

\* One column is written, or two.
LEMMA Column ==
  ASSUME NEW r, Typed(r), NEW f, f # "kind", NEW v
  PROVE  /\ Typed([r EXCEPT ![f] = v]) /\ [r EXCEPT ![f] = v].kind = r.kind
         /\ DOMAIN [r EXCEPT ![f] = v] = DOMAIN r
         /\ \A g \in DOMAIN r : [r EXCEPT ![f] = v][g] = IF g = f THEN v ELSE r[g]
BY DEF Typed

LEMMA SupportProceeds ==
  ASSUME PlatformInv, Grows, NEW c \in Calls, SupportStep(c)
  PROVE  Proceeds
<1>1. ASSUME NEW op \in PlainOps \ {"SLOT_FILL", "TRANSITION", "UPDATE_CAMPAIGN"},
             NEW i \in Ids("SUPPORT"), Checked(c, op, i)
      PROVE  Proceeds
  BY <1>1, CheckingPlain DEF Ids, Plain
<1>2. ASSUME NEW op \in PlainOps, Ends(c, op), NEW s, UpdateSupportCaseStatus(c, s)
      PROVE  Proceeds
  <2>1. Typed(Now(c)) => /\ Typed([Now(c) EXCEPT !.status = s])
                         /\ [Now(c) EXCEPT !.status = s].kind = Now(c).kind
    BY Column
  <2> QED
    BY <1>2, <2>1, Writing, Replied DEF UpdateSupportCaseStatus, Ends, PlatformInv, PlainOps
<1>3. ASSUME NEW op \in PlainOps, Ends(c, op), NEW s, NEW found,
             PutIf(c, found, [Now(c) EXCEPT !.status = s])
      PROVE  Proceeds
  BY <1>2, <1>3, Ending DEF UpdateSupportCaseStatus, PutIf, PlainOps
<1>4. CASE AssignSupportCase(c)
  BY <1>4, <1>1, <1>3 DEF AssignSupportCase, ChecksSupport, SupportCaseAssigned, PlainOps
<1>5. CASE AddStaffMessage(c)
  BY <1>5, <1>1, <1>2, Ending DEF AddStaffMessage, ChecksSupport, PlainOps
<1>6. CASE ReplyAsCreator(c)
  BY <1>6, <1>1, <1>2, Ending DEF ReplyAsCreator, ChecksSupport, PlainOps
<1>7. CASE ResolveSupportCase(c)
  BY <1>7, <1>1, <1>3 DEF ResolveSupportCase, ChecksSupport, SupportCaseResolved, PlainOps
<1>8. CASE CloseSupportCase(c)
  BY <1>8, <1>1, <1>2 DEF CloseSupportCase, ChecksSupport, PlainOps
<1>9. CASE ReopenSupportCase(c)
  BY <1>9, <1>1, <1>3 DEF ReopenSupportCase, ChecksSupport, SupportCaseReopened, PlainOps
<1>10. CASE EscalateSupportCase(c)
  <2>1. ASSUME Ends(c, "ESCALATE"), NEW n, Put(c, [Now(c) EXCEPT !.priority = n])
        PROVE  Proceeds
    <3>1. Typed(Now(c)) => /\ Typed([Now(c) EXCEPT !.priority = n])
                           /\ [Now(c) EXCEPT !.priority = n].kind = Now(c).kind
      BY Column
    <3> QED
      BY <2>1, <3>1, Writing, Replied DEF Ends, PlatformInv, PlainOps
  <2> QED
    BY <1>10, <1>1, <2>1 DEF EscalateSupportCase, ChecksSupport, PlainOps
<1>11. CASE MergeSupportCase(c)
  <2>1. ASSUME NEW i \in Ids("SUPPORT"), NEW j, call[c] = Idle, UNCHANGED table,
               call' = [call EXCEPT ![c] =
                           [op |-> "MERGE", on |-> i, seen |-> table[i], into |-> j]]
        PROVE  Proceeds
    <3> DEFINE k == [op |-> "MERGE", on |-> i, seen |-> table[i], into |-> j]
    <3>1. OnItsRow(k) /\ Remembers(k) /\ Awarded(k) /\ Telling(k)
      BY DEF OnItsRow, Remembers, Awarded, Telling, Ids, Plain, PlainOps, FraudOps,
             ComplianceOps, CaseOps, UnitOps
    <3> QED
      BY <2>1, <3>1, Starting DEF Sound
  <2>2. ASSUME Ends(c, "MERGE"), SupportCaseMerged(c)
        PROVE  Proceeds
    <3>1. Typed(Now(c)) =>
              /\ Typed([Now(c) EXCEPT !.into = call[c].into, !.status = "CLOSED"])
              /\ [Now(c) EXCEPT !.into = call[c].into, !.status = "CLOSED"].kind = Now(c).kind
      BY DEF Typed
    <3> QED
      BY <2>2, <3>1, WritingIf, Replied DEF SupportCaseMerged, Ends, PlatformInv, PlainOps
  <2> QED
    BY <1>11, <2>1, <2>2 DEF MergeSupportCase
<1> QED
  BY <1>4, <1>5, <1>6, <1>7, <1>8, <1>9, <1>10, <1>11 DEF SupportStep

\* A write to a row that the properties look into.
LEMMA WritingRow ==
  ASSUME PlatformInv, NEW c \in Calls, NEW r, Put(c, r),
         call[c].on \in DOMAIN table => IsRow(r) /\ Follows(Now(c), r)
  PROVE  TableMoves
BY Replaced DEF Put, Now, PlatformInv

LEMMA FreshPlain ==
  ASSUME NEW r, Typed(r), r.kind \in Plain
  PROVE  Fresh(r)
BY DEF Fresh, IsRow, Plain, Rivals, Live

LEMMA Opening ==
  ASSUME PlatformInv, Grows, NEW r, Fresh(r), Open(r)
  PROVE  Proceeds
BY Inserted, NoCallMade DEF Open, PlatformInv

LEMMA FraudProceeds ==
  ASSUME PlatformInv, Grows, NEW c \in Calls, FraudStep(c)
  PROVE  Proceeds
<1>1. ASSUME NEW op \in FraudOps, NEW i \in Ids("FRAUD"), Checked(c, op, i),
             op # "EVIDENCE" => Investigable(table[i])
      PROVE  Proceeds
  <2> DEFINE k == [op |-> op, on |-> i, seen |-> table[i]]
  <2>1. OnItsRow(k) /\ Remembers(k) /\ Awarded(k) /\ Telling(k)
    BY <1>1 DEF OnItsRow, Remembers, Awarded, Telling, PlainOps, FraudOps, ComplianceOps, CaseOps,
                UnitOps
  <2> QED
    BY <1>1, <2>1, Checking DEF Sound, FraudOps
<1>2. ASSUME NEW op \in FraudOps, Ends(c, op)
      PROVE  call[c].on \in DOMAIN table /\ Now(c).kind = "FRAUD" /\ IsRow(Now(c))
  BY <1>2, InHand DEF PlatformInv, Sound, OnItsRow, Ends, Ids, Now, Rows
<1>3. ASSUME NEW op \in FraudOps \ {"EVIDENCE"}, Ends(c, op), NEW s,
             PutIf(c, SameStatus(c), [Now(c) EXCEPT !.status = s])
      PROVE  Proceeds
  <2>1. CASE ~SameStatus(c)
    BY <1>3, <2>1, Ending DEF PutIf, FraudOps
  <2>2. CASE SameStatus(c)
    <3>1. Investigable(Seen(c))
      BY <1>3, InHand DEF PlatformInv, Sound, OnItsRow, Ends, Seen
    <3>2. ~Decided(Now(c))
      BY <1>2, <1>3, <2>2, <3>1 DEF Investigable, SameStatus, Decided
    <3> DEFINE r == [Now(c) EXCEPT !.status = s]
    <3>3. /\ Typed(r) /\ DOMAIN r = DOMAIN Now(c) /\ r.kind = "FRAUD"
          /\ Now(c).kind = "FRAUD" /\ "status" \in DOMAIN r
      BY <1>2, <1>3, Column DEF IsRow
    <3>4. IsRow(r) /\ Follows(Now(c), r)
      BY <3>2, <3>3 DEF IsRow, Follows
    <3> QED
      BY <1>3, <2>2, <3>4, WritingRow, Replied DEF PutIf, PlatformInv, FraudOps
  <2> QED
    BY <2>1, <2>2
<1>4. CASE AssignFraudCase(c)
  BY <1>4, <1>1, <1>3 DEF AssignFraudCase, ChecksFraud, FraudCaseAssigned, FraudOps
<1>5. CASE AddFraudCaseEvidence(c)
  <2>1. ASSUME Ends(c, "EVIDENCE"), FraudCaseEvidenceAdded(c)
        PROVE  Proceeds
    <3>1. IsRow(Now(c)) /\ Now(c).kind = "FRAUD"
      BY <1>2, <2>1 DEF FraudOps
    <3>2. /\ IsRow([Now(c) EXCEPT !.evidence = TRUE])
          /\ Follows(Now(c), [Now(c) EXCEPT !.evidence = TRUE])
      BY <3>1, Column DEF IsRow, Follows
    <3> QED
      BY <2>1, <3>2, WritingRow, Replied DEF FraudCaseEvidenceAdded, PlatformInv
  <2> QED
    BY <1>5, <1>1, <2>1 DEF AddFraudCaseEvidence, ChecksFraud, FraudOps
<1>6. CASE DecideFraudCase(c)
  BY <1>6, <1>1, <1>3 DEF DecideFraudCase, ChecksFraud, FraudCaseDecided, FraudOps
<1> QED
  BY <1>4, <1>5, <1>6 DEF FraudStep

LEMMA ComplianceProceeds ==
  ASSUME PlatformInv, Grows, NEW c \in Calls, NEW eligible,
         AssignComplianceCase(c, eligible) \/ DecideComplianceCase(c)
  PROVE  Proceeds
<1>1. ASSUME NEW op \in ComplianceOps, ChecksCompliance(c, op)
      PROVE  Proceeds
  <2>1. PICK i \in Ids("COMPLIANCE") : ComplianceInvestigable(table[i]) /\ Checked(c, op, i)
    BY <1>1 DEF ChecksCompliance
  <2> DEFINE k == [op |-> op, on |-> i, seen |-> table[i]]
  <2>2. OnItsRow(k) /\ Remembers(k) /\ Awarded(k) /\ Telling(k)
    BY <2>1 DEF OnItsRow, Remembers, Awarded, Telling, PlainOps, FraudOps, ComplianceOps, CaseOps,
                UnitOps
  <2> QED
    BY <2>1, <2>2, Checking DEF Sound, ComplianceOps
<1>2. ASSUME NEW op \in ComplianceOps, Ends(c, op), NEW r,
             PutIf(c, SameStatus(c) /\ SameAssignee(c), r),
             IsRow(Now(c)) /\ Now(c).kind = "COMPLIANCE" =>
                 IsRow(r) /\ r.kind = "COMPLIANCE" /\ r.key \in {Now(c).key, NoOne}
      PROVE  Proceeds
  <2>1. CASE ~(SameStatus(c) /\ SameAssignee(c))
    BY <1>2, <2>1, Ending DEF PutIf, ComplianceOps
  <2>2. CASE SameStatus(c) /\ SameAssignee(c)
    <3>1. /\ call[c].on \in DOMAIN table /\ Now(c).kind = "COMPLIANCE" /\ IsRow(Now(c))
          /\ ComplianceInvestigable(Seen(c))
      BY <1>2, InHand DEF PlatformInv, Sound, OnItsRow, Ends, Ids, Now, Seen, Rows
    <3>2. ~Decided(Now(c))
      BY <2>2, <3>1 DEF ComplianceInvestigable, SameStatus, Decided
    <3>3. IsRow(r) /\ Follows(Now(c), r)
      BY <1>2, <3>1, <3>2 DEF Follows
    <3> QED
      BY <1>2, <2>2, <3>3, WritingRow, Replied DEF PutIf, PlatformInv, ComplianceOps
  <2> QED
    BY <2>1, <2>2
<1>3. CASE AssignComplianceCase(c, eligible)
  <2>1. ASSUME Ends(c, "COMPLY"), NEW p, ComplianceCaseAssigned(c, p)
        PROVE  Proceeds
    <3> DEFINE r == [Now(c) EXCEPT !.status = "UNDER_INVESTIGATION", !.by = p]
    <3>1. IsRow(Now(c)) /\ Now(c).kind = "COMPLIANCE" =>
              IsRow(r) /\ r.kind = "COMPLIANCE" /\ r.key \in {Now(c).key, NoOne}
      BY DEF IsRow, Typed
    <3> QED
      BY <2>1, <3>1, <1>2 DEF ComplianceCaseAssigned, ComplianceOps
  <2> QED
    BY <1>3, <1>1, <2>1 DEF AssignComplianceCase, ComplianceOps
<1>4. CASE DecideComplianceCase(c)
  <2>1. ASSUME Ends(c, "DECIDE_COMPLIANCE"), NEW s, ComplianceCaseDecided(c, s)
        PROVE  Proceeds
    <3> DEFINE r == [Now(c) EXCEPT !.status = s, !.key = NoOne]
    <3>1. IsRow(Now(c)) /\ Now(c).kind = "COMPLIANCE" =>
              IsRow(r) /\ r.kind = "COMPLIANCE" /\ r.key \in {Now(c).key, NoOne}
      BY DEF IsRow, Typed
    <3> QED
      BY <2>1, <3>1, <1>2 DEF ComplianceCaseDecided, ComplianceOps
  <2> QED
    BY <1>4, <1>1, <2>1 DEF DecideComplianceCase, ComplianceOps
<1> QED
  BY <1>3, <1>4

\* The last write of an operation on a plain row: one column, or none.
LEMMA ColumnWritten ==
  ASSUME PlatformInv, Grows, NEW c \in Calls, NEW op \in PlainOps, Ends(c, op),
         NEW f, f # "kind", NEW v, Put(c, [Now(c) EXCEPT ![f] = v])
  PROVE  Proceeds
<1>1. op # "TELL" /\ call[c].op \in PlainOps
  BY DEF PlainOps, Ends
<1> QED
  BY <1>1, Column, Writing, Replied DEF PlatformInv

LEMMA HoldProceeds ==
  ASSUME PlatformInv, Grows, NEW c \in Calls, PlaceLegalHold(c) \/ ReleaseLegalHold(c)
  PROVE  Proceeds
<1>1. ASSUME call[c] = Idle, UNCHANGED table, call' = [call EXCEPT ![c] = [op |-> "HOLD"]]
      PROVE  Proceeds
  <2>1. Sound([op |-> "HOLD"])
    BY DEF Sound, OnItsRow, Remembers, Awarded, Telling, PlainOps, FraudOps, ComplianceOps,
           CaseOps, UnitOps
  <2> QED
    BY <1>1, <2>1, Starting
<1>2. ASSUME Ends(c, "HOLD"), Insert(LegalHold)
      PROVE  Proceeds
  <2>1. Fresh(LegalHold)
    BY FreshPlain DEF LegalHold, Typed, Plain
  <2> QED
    BY <1>2, <2>1, Inserted, Replied DEF PlatformInv
<1>3. ASSUME NEW i \in ActiveLegalHolds, Checked(c, "RELEASE", i)
      PROVE  Proceeds
  BY <1>3, CheckingPlain DEF ActiveLegalHolds, Ids, Plain, PlainOps
<1>4. ASSUME Ends(c, "RELEASE"), LegalHoldReleased(c)
      PROVE  Proceeds
  BY <1>4, ColumnWritten DEF LegalHoldReleased, PlainOps
<1> QED
  BY <1>1, <1>2, <1>3, <1>4 DEF PlaceLegalHold, ReleaseLegalHold

\* An operation on a plain row goes on as another one.
LEMMA Turning ==
  ASSUME PlatformInv, Grows, TableMoves, NEW c \in Calls,
         call[c].op \in {"EXPIRE", "SUBMIT_SETUP", "RESOLVE_REQUEST", "APPROVED_REQUEST"},
         NEW op \in {"DOWNGRADED", "SUBMITTED_SETUP", "APPROVED_REQUEST", "GRANT_MEMBERSHIP"},
         call' = [call EXCEPT ![c].op = op]
  PROVE  Proceeds
<1> SUFFICES ASSUME NEW k, k = [call[c] EXCEPT !.op = op]
             PROVE  Proceeds
  OBVIOUS
<1>1. Sound(call[c])
  BY InHand DEF PlatformInv
<1>2. k.op = op /\ k.on = call[c].on /\ "op" \in DOMAIN k /\ "on" \in DOMAIN k
  BY <1>1 DEF Sound, Remembers
<1>3. k.on \in DOMAIN table /\ table[k.on].kind \in Plain
  BY <1>1, <1>2 DEF Sound, OnItsRow, PlainOps
<1>4. OnItsRow(k) /\ Remembers(k) /\ Awarded(k) /\ Telling(k)
  BY <1>2, <1>3 DEF OnItsRow, Remembers, Awarded, Telling, PlainOps, FraudOps, ComplianceOps,
                    CaseOps, UnitOps
<1>5. Sound(k)'
  BY <1>4, StillSound DEF Sound
<1>6. call' = [call EXCEPT ![c] = k]
  OBVIOUS
<1> QED
  BY <1>2, <1>5, <1>6, OneCall DEF PlatformInv

LEMMA SubscriptionProceeds ==
  ASSUME PlatformInv, Grows, NEW c \in Calls, SubscriptionStep(c)
  PROVE  Proceeds
<1>1. ASSUME NEW op \in {"PLAN", "STATUS", "EXPIRE", "REVOKE"}, NEW i \in Ids("SUBSCRIPTION"),
             Checked(c, op, i)
      PROVE  Proceeds
  BY <1>1, CheckingPlain DEF Ids, Plain, PlainOps
<1>2. ASSUME call[c].op \in PlainOps, NEW s, UpdateSubscriptionStatus(c, s)
      PROVE  TableMoves
  <2>1. Typed(Now(c)) =>
            /\ Typed([Now(c) EXCEPT !.status = s, !.due = FALSE])
            /\ [Now(c) EXCEPT !.status = s, !.due = FALSE].kind = Now(c).kind
    BY DEF Typed
  <2> QED
    BY <1>2, <2>1, Writing DEF UpdateSubscriptionStatus
<1>3. CASE ChangePlan(c)
  BY <1>3, <1>1, ColumnWritten DEF ChangePlan, UpdateSubscriptionPlan, PlainOps
<1>4. CASE ChangeStatus(c)
  BY <1>4, <1>1, <1>2, Replied DEF ChangeStatus, Ends, PlainOps, PlatformInv
<1>5. CASE EvaluateExpiry(c)
  <2>1. ASSUME call[c].op = "EXPIRE", NEW s, UpdateSubscriptionStatus(c, s),
               call' = [call EXCEPT ![c] = Idle]
        PROVE  Proceeds
    BY <2>1, <1>2, Replied DEF Ends, PlainOps, PlatformInv
  <2>2. ASSUME call[c].op = "EXPIRE", UpdateSubscriptionPlan(c, "FREE"),
               call' = [call EXCEPT ![c].op = "DOWNGRADED"]
        PROVE  Proceeds
    <3>1. Typed(Now(c)) => /\ Typed([Now(c) EXCEPT !.plan = "FREE"])
                           /\ [Now(c) EXCEPT !.plan = "FREE"].kind = Now(c).kind
      BY Column
    <3>2. TableMoves
      BY <2>2, <3>1, Writing DEF UpdateSubscriptionPlan, PlainOps
    <3> QED
      BY <2>2, <3>2, Turning
  <2>3. ASSUME Ends(c, "DOWNGRADED"), UpdateSubscriptionStatus(c, "ACTIVE")
        PROVE  Proceeds
    BY <2>3, <1>2, Replied DEF Ends, PlainOps, PlatformInv
  <2> QED
    BY <1>5, <1>1, <2>1, <2>2, <2>3 DEF EvaluateExpiry
<1>6. CASE RevokeGrant(c)
  BY <1>6, <1>1, ColumnWritten DEF RevokeGrant, FeatureGrantRevoked, PlainOps
<1> QED
  BY <1>3, <1>4, <1>5, <1>6 DEF SubscriptionStep

LEMMA OpeningProceeds ==
  ASSUME PlatformInv, Grows, DeskOpens \/ \E x : ReportFraud(x)
  PROVE  Proceeds
<1>1. Fresh(SupportCase) /\ Fresh(Subscription)
  BY FreshPlain DEF SupportCase, Subscription, Typed, Plain
<1>2. \A x : Fresh(FraudCase(x))
  BY DEF Fresh, FraudCase, IsRow, Typed, Rivals, Live
<1>3. Fresh(ComplianceCase(NoOne))
  BY DEF Fresh, ComplianceCase, IsRow, Typed, Rivals, Live
<1>4. ASSUME NEW p, ~DetectionKeyTaken(p)
      PROVE  Fresh(ComplianceCase(p))
  BY <1>4 DEF Fresh, ComplianceCase, IsRow, Typed, Rivals, Live, Subject, DetectionKeyTaken, Ids
<1>5. ASSUME NEW i \in Ids("SUBSCRIPTION"), CreateGrant(i) \/ PeriodEnds(i)
      PROVE  Proceeds
  <2>1. ASSUME NEW f \in {"grant", "due"}, NEW v, UNCHANGED call,
               table' = [table EXCEPT ![i] = [table[i] EXCEPT ![f] = v]]
        PROVE  Proceeds
    <3>1. i \in DOMAIN table /\ IsRow(table[i]) /\ table[i].kind = "SUBSCRIPTION"
      BY DEF PlatformInv, Rows, Ids
    <3> DEFINE r == [table[i] EXCEPT ![f] = v]
    <3>2. Typed(r) /\ r.kind = "SUBSCRIPTION"
      BY <3>1, Column DEF IsRow
    <3>3. IsRow(r) /\ Follows(table[i], r)
      BY <3>1, <3>2 DEF IsRow, Follows, Decided
    <3> QED
      BY <2>1, <3>3, Replaced, NoCallMade DEF PlatformInv
  <2>2. CASE CreateGrant(i)
    BY <2>1, <2>2 DEF CreateGrant
  <2>3. CASE PeriodEnds(i)
    BY <2>1, <2>3 DEF PeriodEnds
  <2> QED
    BY <1>5, <2>2, <2>3
<1> QED
  BY <1>1, <1>2, <1>3, <1>4, <1>5, Opening
     DEF DeskOpens, OpenSupportCase, InitiateSubscription, ReopenFraudCase, OpenComplianceCase,
         AutoOpenComplianceCase, ReportFraud

LEMMA DeskProceeds ==
  ASSUME PlatformInv, Grows, DeskMoves
  PROVE  Proceeds
BY SupportProceeds, FraudProceeds, ComplianceProceeds, HoldProceeds, SubscriptionProceeds,
   OpeningProceeds DEF DeskMoves, DeskStep

\* Operations that hold nothing the properties depend on.
Quiet == {"HOLD", "GRANT", "PERMIT", "BUILDING_STATUS", "FLAG", "NEW_DRAFT", "REFRESH", "SCORED",
          "CLEANUP"}

LEMMA QuietSound ==
  ASSUME NEW k, k.op \in Quiet
  PROVE  Sound(k) /\ Sound(k)'
BY DEF Sound, OnItsRow, Remembers, Awarded, Telling, PlainOps, FraudOps, ComplianceOps, CaseOps,
       UnitOps, Quiet

\* What begins a suspension, or ends one.
Suspends == \E c \in Calls, a, t \in Persons : \E suspend \in BOOLEAN : ChangeSuspensionReads(c, a, t, suspend)

LEMMA SuspensionBegins ==
  ASSUME PlatformInv, Grows, Suspends
  PROVE  TableMoves /\ Requested'
<1>1. PICK c \in Calls, a, t \in Persons, suspend \in BOOLEAN : ChangeSuspensionReads(c, a, t, suspend)
  BY DEF Suspends
<1> DEFINE k == [op |-> "SUSPENSION", target |-> t, suspend |-> suspend, locks |-> suspend /\ Admin(t)]
<1>2. Sound(k)
  BY DEF Sound, OnItsRow, Remembers, Awarded, Telling, PlainOps, FraudOps, ComplianceOps,
         CaseOps, UnitOps
<1>3. TableMoves
  BY <1>1, Unmoved DEF ChangeSuspensionReads, PlatformInv
<1>4. ASSUME NEW d \in Calls
      PROVE  \A v \in {call'[d]} : Sound(v)'
  <2>1. call'[d] = IF d = c THEN k ELSE call[d]
    BY <1>1 DEF ChangeSuspensionReads, PlatformInv, Requested
  <2>2. \A v \in {call'[d]} : Sound(v)
    BY <1>2, <2>1, InHand DEF PlatformInv
  <2> QED
    BY <1>3, <2>2, StillSound
<1> QED
  BY <1>1, <1>3, <1>4 DEF Requested, ChangeSuspensionReads, PlatformInv

LEMMA AccountsProceed ==
  ASSUME PlatformInv, Grows, AccountMoves, ~Suspends
  PROVE  Proceeds
<1>1. ASSUME NEW c \in Calls, ChangeSuspensionWrites(c)
      PROVE  Proceeds
  BY <1>1, Ending DEF ChangeSuspensionWrites
<1>2. ASSUME NEW a, NEW t, SetBackofficeApproval(a, t)
      PROVE  Proceeds
  BY <1>2, Unmoved, NoCallMade DEF SetBackofficeApproval, PlatformInv
<1> QED
  BY <1>1, <1>2 DEF AccountMoves, SuspendPerson, ReinstatePerson, Suspends

LEMMA RolesProceed ==
  ASSUME PlatformInv, Grows, RoleMoves
  PROVE  Proceeds
<1>1. ASSUME NEW p, ~GrantTaken(p)
      PROVE  Fresh(StaffRole(p))
  BY <1>1 DEF Fresh, StaffRole, IsRow, Typed, Rivals, Live, Subject, GrantTaken, ActiveGrants, Ids
<1>2. ~PermissionTaken => Fresh(RolePermission)
  BY DEF Fresh, RolePermission, IsRow, Typed, Rivals, Live, PermissionTaken, ActivePermissions, Ids
<1>3. ASSUME NEW op \in {"REVOKE_ROLE", "FORBID"}, NEW c \in Calls, NEW i, Checked(c, op, i),
             i \in IF op = "FORBID" THEN Ids("PERMISSION") ELSE Ids("GRANT")
      PROVE  Proceeds
  <2>1. Sound([op |-> op, on |-> i, seen |-> table[i]])
    BY <1>3 DEF Sound, OnItsRow, Remembers, Awarded, Telling, PlainOps, FraudOps, ComplianceOps,
           CaseOps, UnitOps
  <2> QED
    BY <1>3, <2>1, Checking
<1>4. ASSUME NEW op \in {"REVOKE_ROLE", "FORBID"}, NEW c \in Calls, Ends(c, op),
             Put(c, [Now(c) EXCEPT !.status = "REVOKED"])
      PROVE  Proceeds
  <2>1. IsRow(Now(c)) /\ Now(c).kind \in {"GRANT", "PERMISSION"}
    BY <1>4, InHand DEF PlatformInv, Sound, OnItsRow, Ends, Ids, Now, Rows
  <2> DEFINE r == [Now(c) EXCEPT !.status = "REVOKED"]
  <2>2. /\ Typed(r) /\ DOMAIN r = DOMAIN Now(c) /\ r.kind = Now(c).kind
        /\ r.status = "REVOKED"
        /\ Now(c).kind = "GRANT" => r.to = Now(c).to
    BY <2>1, Column DEF IsRow
  <2>3. IsRow(r) /\ Follows(Now(c), r)
    BY <2>1, <2>2 DEF IsRow, Follows, Decided
  <2> QED
    BY <1>4, <2>3, WritingRow, Replied DEF PlatformInv
<1>5. ASSUME NEW c \in Calls, AssignRole(c)
      PROVE  Proceeds
  <2>1. ASSUME NEW p, call[c] = Idle, UNCHANGED table,
               call' = [call EXCEPT ![c] = [op |-> "GRANT", to |-> p]]
        PROVE  Proceeds
    <3>1. Sound([op |-> "GRANT", to |-> p])
      BY QuietSound DEF Quiet
    <3> QED
      BY <2>1, <3>1, Starting
  <2>2. ASSUME Ends(c, "GRANT"), CreateStaffRole(call[c].to)
        PROVE  Proceeds
    BY <2>2, <1>1, Inserted, Ending, Replied DEF CreateStaffRole, PlatformInv
  <2> QED
    BY <1>5, <2>1, <2>2 DEF AssignRole
<1>6. ASSUME NEW c \in Calls, GrantPermission(c)
      PROVE  Proceeds
  <2>1. ASSUME call[c] = Idle, UNCHANGED table, call' = [call EXCEPT ![c] = [op |-> "PERMIT"]]
        PROVE  Proceeds
    <3>1. Sound([op |-> "PERMIT"])
      BY QuietSound DEF Quiet
    <3> QED
      BY <2>1, <3>1, Starting
  <2>2. ASSUME Ends(c, "PERMIT"), CreateRolePermission
        PROVE  Proceeds
    BY <2>2, <1>2, Inserted, Ending, Replied DEF CreateRolePermission, PlatformInv
  <2> QED
    BY <1>6, <2>1, <2>2 DEF GrantPermission
<1>7. ASSUME NEW c \in Calls, RevokeRole(c) \/ RevokePermission(c)
      PROVE  Proceeds
  BY <1>7, <1>3, <1>4
     DEF RevokeRole, RevokePermission, RoleRevoked, PermissionRevoked, ActiveGrants,
         ActivePermissions
<1>8. ASSUME NEW p \in Persons, Bootstrap(p)
      PROVE  Proceeds
  <2>1. ~GrantTaken(p)
    BY <1>8 DEF Bootstrap, GrantTaken
  <2> QED
    BY <1>8, <1>1, <2>1, Inserted, NoCallMade DEF Bootstrap, CreateBootstrapAdmin, PlatformInv
<1> QED
  BY <1>5, <1>6, <1>7, <1>8 DEF RoleMoves

LEMMA BuildingProceeds ==
  ASSUME PlatformInv, Grows, BuildingMoves
  PROVE  Proceeds
<1>1. ASSUME NEW c \in Calls, call[c].op # "TELL", NEW s, TableMoves,
             WritesCaseFirst(c, "BUILDING_STATUS", s)
      PROVE  Proceeds
  <2>1. Sound([op |-> "BUILDING_STATUS", then |-> s])'
    <3> SUFFICES ASSUME NEW k, k = [op |-> "BUILDING_STATUS", then |-> s]
                 PROVE  Sound(k)'
      OBVIOUS
    <3> QED
      BY QuietSound DEF Quiet
  <2> QED
    BY <1>1, <2>1, OneCall DEF WritesCaseFirst, PlatformInv, Idle
<1>2. \A s : Fresh(BuildingCase(s))
  BY FreshPlain DEF BuildingCase, Typed, Plain
<1>3. ASSUME NEW c \in Calls, EvaluateNewBuilding(c) \/ AppealBuilding(c)
      PROVE  Proceeds
  BY <1>1, <1>2, <1>3, Inserted DEF EvaluateNewBuilding, AppealBuilding, PlatformInv, Idle
<1>4. ASSUME NEW c \in Calls, WriteBuildingStatus(c)
      PROVE  Proceeds
  BY <1>4, Ending DEF WriteBuildingStatus
<1>5. ASSUME NEW c \in Calls, AssignBuildingCase(c)
      PROVE  Proceeds
  BY <1>5, CheckingPlain, ColumnWritten, Ending
     DEF AssignBuildingCase, BuildingCaseAssigned, BuildingCases, PutIf, Ids, Plain, PlainOps
<1>6. ASSUME NEW c \in Calls, DecideBuildingCase(c)
      PROVE  Proceeds
  <2>1. ASSUME NEW s, call[c].op = "DECIDE_BUILDING", BuildingCaseDecided(c, s)
        PROVE  TableMoves
    <3>1. Typed(Now(c)) => /\ Typed([Now(c) EXCEPT !.status = s])
                           /\ [Now(c) EXCEPT !.status = s].kind = Now(c).kind
      BY Column
    <3> QED
      BY <2>1, <3>1, Writing DEF BuildingCaseDecided, PlainOps
  <2> QED
    BY <1>1, <1>6, <2>1, CheckingPlain DEF DecideBuildingCase, BuildingCases, Ids, Plain, PlainOps
<1>7. ASSUME LockBuilding \/ ReinstateBuilding
      PROVE  Proceeds
  BY <1>7, Unmoved, NoCallMade DEF LockBuilding, ReinstateBuilding, PlatformInv
<1> QED
  BY <1>3, <1>4, <1>5, <1>6, <1>7 DEF BuildingMoves

LEMMA ManagerProceeds ==
  ASSUME PlatformInv, Grows, ManagerMoves
  PROVE  Proceeds
<1>1. ASSUME NEW r, Typed(r), r.kind = "MANAGER_CASE", "status" \in DOMAIN r
      PROVE  Fresh(r)
  BY <1>1 DEF Fresh, IsRow, Rivals, Live
<1>2. \A p, again : Fresh(ManagerCase(p, again))
  BY <1>1 DEF ManagerCase, Typed
<1>3. ASSUME NEW i \in Ids("MANAGER_CASE"), StillPending(table[i]), UNCHANGED call, NEW r,
             table' = [table EXCEPT ![i] = r],
             IsRow(table[i]) => Typed(r) /\ DOMAIN r = DOMAIN table[i] /\ r.kind = table[i].kind
      PROVE  Proceeds
  <2>1. i \in DOMAIN table /\ IsRow(table[i]) /\ table[i].kind = "MANAGER_CASE"
    BY DEF PlatformInv, Rows, Ids
  <2>2. IsRow(r) /\ Follows(table[i], r)
    BY <1>3, <2>1 DEF IsRow, Follows, Decided, StillPending
  <2> QED
    BY <1>3, <2>2, Replaced, NoCallMade DEF PlatformInv
<1>4. ASSUME NEW i \in Ids("MANAGER_CASE"), NEW d, DecideManagerCase(i, d)
      PROVE  Proceeds
  <2> DEFINE r == [table[i] EXCEPT !.status = ManagerOutcome(d).status]
  <2>1. IsRow(table[i]) => Typed(r) /\ DOMAIN r = DOMAIN table[i] /\ r.kind = table[i].kind
    BY Column DEF IsRow
  <2>2. StillPending(table[i]) /\ UNCHANGED call /\ table' = [table EXCEPT ![i] = r]
    BY <1>4 DEF DecideManagerCase, ManagerCaseDecided
  <2> QED
    BY <2>1, <2>2, <1>3
<1>5. ASSUME NEW i \in Ids("MANAGER_CASE"), NEW o, ApproveByOwner(i, o)
      PROVE  Proceeds
  <2> DEFINE approvals == table[i].approvals \union {o}
             resolved == MeetsApprovalThreshold(Cardinality(approvals))
             r == [table[i] EXCEPT !.approvals = approvals,
                                   !.status = IF resolved THEN "VERIFIED" ELSE @]
  <2>1. IsRow(table[i]) => Typed(r) /\ DOMAIN r = DOMAIN table[i] /\ r.kind = table[i].kind
    BY DEF IsRow, Typed
  <2>2. StillPending(table[i]) /\ UNCHANGED call /\ table' = [table EXCEPT ![i] = r]
    BY <1>5 DEF ApproveByOwner, CastApproval
  <2> QED
    BY <2>1, <2>2, <1>3
<1>6. ASSUME NEW i, RestoreManagement(i)
      PROVE  Proceeds
  <2> DEFINE r == [ManagerCase(table[i].of, TRUE) EXCEPT !.status = "VERIFIED", !.restores = TRUE]
  <2>1. Fresh(r)
    BY <1>1 DEF ManagerCase, Typed
  <2>2. Insert(r) /\ UNCHANGED call
    BY <1>6 DEF RestoreManagement, RestoreManager
  <2> QED
    BY <2>1, <2>2, Opening DEF Open
<1>7. ASSUME NEW p, InitiateForProvisionalManager(p) \/ AppealManager(p)
      PROVE  Proceeds
  BY <1>7, <1>2, Opening DEF InitiateForProvisionalManager, AppealManager, CreateManagerAppeal
<1>8. ASSUME NEW p, NEW s, EndManagement(p) \/ ChangeManager(p, s)
      PROVE  Proceeds
  BY <1>8, Unmoved, NoCallMade DEF EndManagement, ChangeManager, PlatformInv
<1> QED
  BY <1>4, <1>5, <1>6, <1>7, <1>8 DEF ManagerMoves

LEMMA ConductProceeds ==
  ASSUME PlatformInv, Grows, ConductMoves
  PROVE  Proceeds
<1>1. ASSUME NEW i, NEW key, NEW a, NEW type \in EnforcementTypes, NEW x, Enforce(i, key, a, type, x)
      PROVE  Proceeds
  <2> DEFINE e == EnforcementAction(i, key, type, x)
  <2>1. \A v : Fresh([e EXCEPT !.before = v]) /\ Fresh([e EXCEPT !.applied = v])
    <3>1. ASSUME NEW r, Typed(r), r.kind = "ENFORCEMENT",
                 "type" \in DOMAIN r /\ "target" \in DOMAIN r /\ "appeal" \in DOMAIN r
          PROVE  Fresh(r)
      BY <3>1 DEF Fresh, IsRow, Rivals, Live
    <3>2. /\ Typed(e) /\ e.kind = "ENFORCEMENT"
          /\ "type" \in DOMAIN e /\ "target" \in DOMAIN e /\ "appeal" \in DOMAIN e
      BY DEF EnforcementAction, Typed
    <3> QED
      BY <3>1, <3>2, Column
  <2>2. EnforcementEffect(e) /\ e.type = type
    BY <1>1 DEF Enforce, EnforcementAction
  <2>3. PICK r : Fresh(r) /\ Open(r)
    BY <2>1, <2>2 DEF EnforcementEffect, EnforcementTypes
  <2> QED
    BY <2>3, Opening
<1>2. ASSUME NEW i \in Ids("ENFORCEMENT"), UNCHANGED call, NEW r, table' = [table EXCEPT ![i] = r],
             table[i].appeal \in {"NONE", "PENDING"},
             IsRow(table[i]) => /\ Typed(r) /\ DOMAIN r = DOMAIN table[i] /\ r.kind = table[i].kind
                                /\ r.type = table[i].type /\ r.target = table[i].target
      PROVE  Proceeds
  <2>1. i \in DOMAIN table /\ IsRow(table[i]) /\ table[i].kind = "ENFORCEMENT"
    BY DEF PlatformInv, Rows, Ids
  <2>2. IsRow(r) /\ Follows(table[i], r)
    BY <1>2, <2>1 DEF IsRow, Follows, Decided
  <2> QED
    BY <1>2, <2>2, Replaced, NoCallMade DEF PlatformInv
<1>3. ASSUME NEW i \in Ids("ENFORCEMENT"), NEW v, UNCHANGED call, table[i].appeal \in {"NONE", "PENDING"},
             table' = [table EXCEPT ![i].appeal = v]
      PROVE  Proceeds
  <2> DEFINE r == [table[i] EXCEPT !.appeal = v]
  <2>1. IsRow(table[i]) /\ table[i].kind = "ENFORCEMENT"
    BY DEF PlatformInv, Rows, Ids
  <2>2. /\ Typed(r) /\ DOMAIN r = DOMAIN table[i] /\ r.kind = table[i].kind
        /\ r.type = table[i].type /\ r.target = table[i].target
    BY <2>1, Column DEF IsRow
  <2>3. table' = [table EXCEPT ![i] = r]
    BY <1>3
  <2> QED
    BY <1>3, <2>2, <2>3, <1>2
<1>4. ASSUME NEW i \in Ids("ENFORCEMENT"), NEW p, AppealEnforcement(i, p) \/ UpholdEnforcement(i)
      PROVE  Proceeds
  BY <1>3, <1>4 DEF AppealEnforcement, RequestAppeal, UpholdEnforcement, AppealDecidable
<1>5. ASSUME NEW i \in Ids("ENFORCEMENT"), OverturnEnforcement(i)
      PROVE  Proceeds
  <2> DEFINE r == [table[i] EXCEPT !.appeal = "OVERTURNED", !.reversed = table[i].applied]
  <2>1. IsRow(table[i]) /\ table[i].kind = "ENFORCEMENT" /\ i \in DOMAIN table
    BY DEF PlatformInv, Rows, Ids
  <2>2. /\ Typed(r) /\ DOMAIN r = DOMAIN table[i] /\ r.kind = table[i].kind
        /\ r.type = table[i].type /\ r.target = table[i].target
    BY <2>1 DEF IsRow, Typed
  <2>3. /\ UNCHANGED call /\ table[i].appeal = "PENDING"
        /\ table' = [table EXCEPT ![i].appeal = "OVERTURNED", ![i].reversed = table[i].applied]
    BY <1>5 DEF OverturnEnforcement, AppealDecidable
  <2>4. table' = [table EXCEPT ![i] = r]
    BY <2>1, <2>3, RowsNumbered DEF PlatformInv, Rows
  <2> QED
    BY <2>2, <2>3, <2>4, <1>2
<1> QED
  BY <1>1, <1>4, <1>5 DEF ConductMoves

LEMMA BackOfficeProceeds ==
  ASSUME PlatformInv, BackOfficeNext, UNCHANGED communityVars
  PROVE  Proceeds \/ (Suspends /\ TableMoves /\ Requested')
<1>1. Grows
  BY DEF Grows, communityVars, gameVars, inboxVars, Recorded
<1> QED
  BY <1>1, DeskProceeds, AccountsProceed, SuspensionBegins, RolesProceed, BuildingProceeds, ManagerProceeds,
     ConductProceeds DEF BackOfficeNext

-----------------------------------------------------------------------------
(* Records of the building.                                                *)

LEMMA CasesProceed ==
  ASSUME PlatformInv, Grows, CreateCase \/ \E c \in Calls : CaseStep(c)
  PROVE  Proceeds
<1>1. \A against : Fresh(Case(against))
  BY DEF Case, Fresh, IsRow, Typed, Rivals, Live
<1>2. ASSUME NEW c \in Calls, NEW i \in Ids("CASE"), NEW op \in CaseOps \ {"MERGE_CASE"},
             Checked(c, op, i),
             op = "ASSIGN_CASE" => ActiveCase(table[i]),
             op = "RESOLVE_CASE" => CaseResolvable(table[i])
      PROVE  Proceeds
  <2> DEFINE k == [op |-> op, on |-> i, seen |-> table[i]]
  <2>1. OnItsRow(k)
    BY <1>2 DEF OnItsRow, PlainOps, FraudOps, ComplianceOps, CaseOps
  <2>2. Remembers(k) /\ Awarded(k) /\ Telling(k)
    BY DEF Remembers, Awarded, Telling, CaseOps, UnitOps
  <2> QED
    BY <1>2, <2>1, <2>2, Checking DEF Sound, CaseOps
<1>3. ASSUME NEW c \in Calls, NEW op \in CaseOps, Ends(c, op), NEW found, NEW r, PutIf(c, found, r),
             found /\ IsRow(Now(c)) /\ Now(c).kind = "CASE" =>
                 /\ Typed(r) /\ DOMAIN r = DOMAIN Now(c) /\ r.kind = "CASE"
                 /\ CaseFollows(Now(c), r)
      PROVE  Proceeds
  <2>1. CASE ~found
    BY <1>3, <2>1, Ending DEF PutIf, CaseOps
  <2>2. CASE found
    <3>1. call[c].on \in DOMAIN table /\ Now(c).kind = "CASE" /\ IsRow(Now(c))
      BY <1>3, InHand DEF PlatformInv, Sound, OnItsRow, Ends, Ids, Now, Rows
    <3>2. IsRow(r) /\ Follows(Now(c), r)
      BY <1>3, <2>2, <3>1 DEF IsRow, Follows, Decided
    <3> QED
      BY <1>3, <2>2, <3>2, WritingRow, Replied DEF PutIf, PlatformInv, CaseOps
  <2> QED
    BY <2>1, <2>2
<1>4. ASSUME NEW c \in Calls, UpdateCase(c) \/ AddMessage(c)
      PROVE  Proceeds
  BY <1>2, <1>4, Ending DEF UpdateCase, AddMessage, ChecksCase, CaseOps
<1>5. ASSUME NEW c \in Calls, AssignCase(c)
      PROVE  Proceeds
  <2>1. ASSUME Ends(c, "ASSIGN_CASE"), NEW role, CaseAssigned(c, role)
        PROVE  Proceeds
    <3> DEFINE r == [Now(c) EXCEPT !.status = "IN_PROGRESS", !.by = role]
    <3>1. ActiveCase(Seen(c))
      BY <2>1, InHand DEF PlatformInv, Sound, OnItsRow, Ends, Seen
    <3>2. IsRow(Now(c)) /\ Now(c).kind = "CASE" =>
              /\ Typed(r) /\ DOMAIN r = DOMAIN Now(c) /\ r.kind = "CASE"
              /\ r.status = "IN_PROGRESS"
      BY DEF IsRow, Typed
    <3>3. SameStatus(c) => Now(c).status \notin {"RESOLVED", "CLOSED"}
      BY <3>1 DEF SameStatus, ActiveCase
    <3> QED
      BY <2>1, <3>2, <3>3, <1>3 DEF CaseAssigned, CaseFollows, CaseOps
  <2> QED
    BY <1>2, <1>5, <2>1 DEF AssignCase, ChecksCase, CaseOps
<1>6. \A c, s : IsRow(Now(c)) /\ Now(c).kind = "CASE" =>
                    LET r == [Now(c) EXCEPT !.status = s]
                    IN Typed(r) /\ DOMAIN r = DOMAIN Now(c) /\ r.kind = "CASE" /\ r.status = s
  BY Column DEF IsRow
<1>7. ASSUME NEW c \in Calls, ResolveCase(c)
      PROVE  Proceeds
  <2>1. ASSUME Ends(c, "RESOLVE_CASE"), CaseResolved(c)
        PROVE  Proceeds
    <3>1. CaseResolvable(Seen(c))
      BY <2>1, InHand DEF PlatformInv, Sound, OnItsRow, Ends, Seen
    <3>2. SameStatus(c) => Now(c).status \notin {"RESOLVED", "CLOSED"}
      BY <3>1 DEF SameStatus, CaseResolvable
    <3> QED
      BY <2>1, <3>2, <1>3, <1>6 DEF CaseResolved, CaseFollows, CaseOps
  <2> QED
    BY <1>2, <1>7, <2>1 DEF ResolveCase, ChecksCase, CaseOps
<1>8. ASSUME NEW c \in Calls, CloseCase(c)
      PROVE  Proceeds
  <2>1. ASSUME Ends(c, "CLOSE_CASE"), CaseClosed(c)
        PROVE  Proceeds
    BY <2>1, <1>3, <1>6 DEF CaseClosed, CaseFollows, CaseOps
  <2> QED
    BY <1>2, <1>8, <2>1 DEF CloseCase, ChecksCase, CaseOps
<1>9. ASSUME NEW c \in Calls, ReopenCase(c)
      PROVE  Proceeds
  <2>1. ASSUME Ends(c, "REOPEN_CASE"), CaseReopened(c)
        PROVE  Proceeds
    BY <2>1, <1>3, <1>6 DEF CaseReopened, CaseFollows, CaseOps
  <2> QED
    BY <1>2, <1>9, <2>1 DEF ReopenCase, ChecksCase, CaseOps
<1>10. ASSUME NEW c \in Calls, MergeCase(c)
       PROVE  Proceeds
  <2>1. ASSUME NEW i \in Ids("CASE"), NEW j \in Ids("CASE"), call[c] = Idle, UNCHANGED table,
               call' = [call EXCEPT ![c] =
                           [op |-> "MERGE_CASE", on |-> i, seen |-> table[i], into |-> j]]
        PROVE  Proceeds
    <3> DEFINE k == [op |-> "MERGE_CASE", on |-> i, seen |-> table[i], into |-> j]
    <3>1. j # 0
      BY RowsNumbered DEF PlatformInv, Ids
    <3>2. OnItsRow(k) /\ Remembers(k) /\ Awarded(k) /\ Telling(k)
      BY <3>1 DEF OnItsRow, Remembers, Awarded, Telling, PlainOps, FraudOps, ComplianceOps,
             CaseOps, UnitOps
    <3> QED
      BY <2>1, <3>2, Starting DEF Sound
  <2>2. ASSUME Ends(c, "MERGE_CASE"), CaseMerged(c)
        PROVE  Proceeds
    <3> DEFINE r == [Now(c) EXCEPT !.into = call[c].into, !.status = "CLOSED"]
    <3>1. call[c].into # 0
      BY <2>2, InHand DEF PlatformInv, Sound, OnItsRow, Ends
    <3>2. IsRow(Now(c)) /\ Now(c).kind = "CASE" =>
              /\ Typed(r) /\ DOMAIN r = DOMAIN Now(c) /\ r.kind = "CASE"
              /\ r.status = "CLOSED" /\ r.into = call[c].into
      BY DEF IsRow, Typed
    <3> QED
      BY <2>2, <3>1, <3>2, <1>3 DEF CaseMerged, CaseFollows, CaseOps
  <2> QED
    BY <1>10, <2>1, <2>2 DEF MergeCase
<1>11. ASSUME CreateCase
       PROVE  Proceeds
  BY <1>1, <1>11, Opening DEF CreateCase
<1> QED
  BY <1>4, <1>5, <1>7, <1>8, <1>9, <1>10, <1>11 DEF CaseStep

LEMMA MeetingsProceed ==
  ASSUME PlatformInv, Grows, CreateMeeting \/ \E c \in Calls : MeetingStep(c)
  PROVE  Proceeds
<1>1. Fresh(Meeting)
  BY FreshPlain DEF Meeting, Typed, Plain
<1>2. ASSUME NEW c \in Calls, NEW op \in {"UPDATE_MEETING", "ATTENDANCE", "ARCHIVE_MEETING"},
             ChecksMeeting(c, op)
      PROVE  Proceeds
  BY <1>2, CheckingPlain DEF ChecksMeeting, Ids, Plain, PlainOps
<1>3. ASSUME NEW c \in Calls, UpdateMeeting(c) \/ RecordAttendance(c) \/ ArchiveMeeting(c)
      PROVE  Proceeds
  BY <1>2, <1>3, ColumnWritten
     DEF UpdateMeeting, RecordAttendance, ArchiveMeeting, MeetingUpdated, AttendanceRecorded,
         MeetingArchived, PlainOps
<1> QED
  BY <1>1, <1>3, Opening DEF CreateMeeting, MeetingStep

LEMMA ListingsProceed ==
  ASSUME PlatformInv, Grows, Submit \/ \E c \in Calls : ListingStep(c)
  PROVE  Proceeds
<1> DEFINE Ops == {"EDIT_LISTING", "RESUBMIT", "DECIDE_LISTING", "ARCHIVE_LISTING", "DEACTIVATE"}
<1>1. Fresh(Listing)
  BY FreshPlain DEF Listing, Typed, Plain
<1>2. ASSUME NEW c \in Calls, NEW op \in Ops, NEW i \in Ids("LISTING"), Checked(c, op, i)
      PROVE  Proceeds
  BY <1>2, CheckingPlain DEF Ids, Plain, PlainOps
<1>3. ASSUME NEW c \in Calls, NEW op \in Ops, Ends(c, op), NEW s, SetListing(c, s)
      PROVE  Proceeds
  BY <1>3, ColumnWritten DEF SetListing, PlainOps
<1>4. ASSUME NEW c \in Calls, Deactivate(c)
      PROVE  Proceeds
  BY <1>2, <1>4, ColumnWritten DEF Deactivate, ChecksListing, PlainOps
<1>5. ASSUME NEW c \in Calls, UpdateListing(c)
      PROVE  Proceeds
  BY <1>2, <1>5, Ending DEF UpdateListing, ChecksListing
<1>6. ASSUME NEW c \in Calls, Resubmit(c) \/ DecideListing(c) \/ ArchiveListing(c)
      PROVE  Proceeds
  BY <1>2, <1>3, <1>6 DEF Resubmit, DecideListing, ArchiveListing, ChecksListing
<1> QED
  BY <1>1, <1>4, <1>5, <1>6, Opening DEF Submit, ListingStep

\* A request that gives some columns, none of them the kind.
LEMMA CallingWith ==
  ASSUME PlatformInv, Grows, NEW c \in Calls, NEW i \in DOMAIN table, table[i].kind \in Plain,
         NEW op \in {"SLOT_FILL", "TRANSITION", "UPDATE_CAMPAIGN"}, NEW patch,
         "kind" \notin DOMAIN patch, CallWith(c, op, i, patch), UNCHANGED table
  PROVE  Proceeds
<1> DEFINE k == [op |-> op, on |-> i, seen |-> table[i], patch |-> patch]
<1>1. OnItsRow(k)
  BY DEF OnItsRow, PlainOps, FraudOps, ComplianceOps, CaseOps
<1>2. Remembers(k) /\ Awarded(k) /\ Telling(k)
  BY DEF Remembers, Awarded, Telling, UnitOps
<1> QED
  BY <1>1, <1>2, Starting DEF Sound, CallWith

LEMMA PatchWritten ==
  ASSUME PlatformInv, NEW c \in Calls, call[c].op \in {"SLOT_FILL", "TRANSITION", "UPDATE_CAMPAIGN"},
         Put(c, Patched(Now(c), call[c].patch))
  PROVE  TableMoves
<1>1. "kind" \notin DOMAIN call[c].patch
  BY InHand DEF PlatformInv, Sound, OnItsRow
<1>2. Typed(Now(c)) => /\ Typed(Patched(Now(c), call[c].patch))
                       /\ Patched(Now(c), call[c].patch).kind = Now(c).kind
  BY <1>1 DEF Typed, Patched
<1> QED
  BY <1>2, Writing DEF PlainOps

LEMMA SlotProceeds ==
  ASSUME PlatformInv, Grows, NEW c \in Calls, UpdateSlotFill(c)
  PROVE  Proceeds
<1>1. \A patch \in SlotPatches : "kind" \notin DOMAIN patch
  BY DEF SlotPatches
<1>2. ASSUME NEW i \in Ids("SLOT"), NEW patch \in SlotPatches, CallWith(c, "SLOT_FILL", i, patch),
             UNCHANGED table
      PROVE  Proceeds
  BY <1>1, <1>2, CallingWith DEF Ids, Plain
<1>3. ASSUME Ends(c, "SLOT_FILL"), Put(c, Patched(Now(c), call[c].patch))
      PROVE  Proceeds
  BY <1>3, PatchWritten, Replied DEF Ends, PlatformInv
<1> QED
  BY <1>2, <1>3 DEF UpdateSlotFill

LEMMA FlagsProceed ==
  ASSUME PlatformInv, Grows, NEW c \in Calls, FlagStep(c)
  PROVE  Proceeds
<1>1. ASSUME CreateFlag(c)
      PROVE  Proceeds
  <2>1. Sound([op |-> "FLAG"])
    BY QuietSound DEF Quiet
  <2>2. \A enabled : Fresh(Flag(enabled))
    BY FreshPlain DEF Flag, Typed, Plain
  <2>3. ASSUME Ends(c, "FLAG"), NEW enabled, Insert(Flag(enabled))
        PROVE  Proceeds
    BY <2>2, <2>3, Inserted, Replied DEF PlatformInv
  <2> QED
    BY <1>1, <2>1, <2>3, Keeping, Ending DEF CreateFlag, Idle
<1>2. ASSUME UpdateFlag(c)
      PROVE  Proceeds
  <2>1. ASSUME NEW i \in Ids("FLAG"), Checked(c, "UPDATE_FLAG", i)
        PROVE  Proceeds
    BY <2>1, CheckingPlain DEF Ids, Plain, PlainOps
  <2>2. ASSUME Ends(c, "UPDATE_FLAG"), NEW f \in {"enabled", "description"}, NEW v,
               Put(c, [Seen(c) EXCEPT ![f] = v])
        PROVE  Proceeds
    <3>1. Typed(Seen(c)) /\ Seen(c).kind = Now(c).kind
      BY <2>2, InHand DEF PlatformInv, Sound, OnItsRow, Ends, Seen, Now
    <3>2. Typed([Seen(c) EXCEPT ![f] = v]) /\ [Seen(c) EXCEPT ![f] = v].kind = Now(c).kind
      BY <3>1, Column
    <3> QED
      BY <2>2, <3>2, Writing, Replied DEF Ends, PlainOps, PlatformInv
  <2> QED
    BY <1>2, <2>1, <2>2 DEF UpdateFlag, FlagUpdated
<1> QED
  BY <1>1, <1>2 DEF FlagStep

LEMMA RegistrationProceeds ==
  ASSUME PlatformInv, Grows, UpdateSettings \/ \E c \in Calls : RegistrationStep(c)
  PROVE  Proceeds
<1>1. ASSUME UpdateSettings
      PROVE  Proceeds
  <2>1. \A v : Fresh(Settings(v))
    BY FreshPlain DEF Settings, Typed, Plain
  <2>2. ASSUME NEW v, table' = [i \in DOMAIN table |->
                                   IF i \in Ids("SETTINGS") THEN Settings(v) ELSE table[i]]
        PROVE  TableMoves
    <3>1. \A i \in DOMAIN table : IsRow(table'[i]) /\ Follows(table[i], table'[i])
      BY <2>2 DEF PlatformInv, Rows, IsRow, Typed, Follows, CaseFollows, Decided, Settings, Ids
    <3> QED
      BY <2>2, <3>1, Rewritten DEF PlatformInv
  <2>3. PICK v \in BOOLEAN : UpsertBuildingSettings(v)
    BY <1>1 DEF UpdateSettings
  <2>4. TableMoves
    BY <2>1, <2>2, <2>3, Inserted DEF UpsertBuildingSettings, PlatformInv
  <2> QED
    BY <1>1, <2>4, NoCallMade DEF UpdateSettings, PlatformInv
<1>2. ASSUME NEW c \in Calls, SaveDraft(c)
      PROVE  Proceeds
  <2>1. ASSUME NEW p, UNCHANGED table, CallOn(c, "NEW_DRAFT", NoUnit, p)
        PROVE  Proceeds
    <3>1. Sound([op |-> "NEW_DRAFT", unit |-> NoUnit, with |-> p])
      BY QuietSound DEF Quiet
    <3> QED
      BY <2>1, <3>1, Starting DEF CallOn
  <2>2. ASSUME Ends(c, "NEW_DRAFT"), Insert(Draft(call[c].with))
        PROVE  Proceeds
    <3>1. Fresh(Draft(call[c].with))
      BY FreshPlain DEF Draft, Typed, Plain
    <3> QED
      BY <2>2, <3>1, Inserted, Replied DEF PlatformInv
  <2>3. ASSUME NEW p, NEW i \in ActiveDrafts(p), Checked(c, "SAVE_DRAFT", i)
        PROVE  Proceeds
    BY <2>3, CheckingPlain DEF ActiveDrafts, Ids, Plain, PlainOps
  <2> QED
    BY <1>2, <2>1, <2>2, <2>3, ColumnWritten DEF SaveDraft, PlainOps
<1>3. ASSUME NEW c \in Calls, SubmitSetup(c)
      PROVE  Proceeds
  <2>1. ASSUME NEW p, NEW i \in ActiveDrafts(p), Checked(c, "SUBMIT_SETUP", i)
        PROVE  Proceeds
    BY <2>1, CheckingPlain DEF ActiveDrafts, Ids, Plain, PlainOps
  <2>2. ASSUME call[c].op = "SUBMIT_SETUP", call' = [call EXCEPT ![c] = Idle], UNCHANGED table
        PROVE  Proceeds
    BY <2>2, Ending DEF Ends
  <2>3. ASSUME call[c].op = "SUBMIT_SETUP", CreateBuildingWithFoundingMember(Seen(c).of),
               call' = [call EXCEPT ![c].op = "SUBMITTED_SETUP"]
        PROVE  Proceeds
    <3>1. \A p, role : Fresh(Building(p, role))
      BY FreshPlain DEF Building, Typed, Plain
    <3> QED
      BY <2>3, <3>1, Inserted, Turning DEF CreateBuildingWithFoundingMember, PlatformInv
  <2>4. ASSUME Ends(c, "SUBMITTED_SETUP"), MarkSubmitted(c)
        PROVE  Proceeds
    BY <2>4, ColumnWritten DEF MarkSubmitted, PlainOps
  <2> QED
    BY <1>3, <2>1, <2>2, <2>3, <2>4 DEF SubmitSetup
<1> QED
  BY <1>1, <1>2, <1>3 DEF RegistrationStep

LEMMA RequestsProceed ==
  ASSUME PlatformInv, Grows, RequestMembership \/ \E c \in Calls : ResolveMembershipRequest(c)
  PROVE  Proceeds
<1>1. ASSUME RequestMembership
      PROVE  Proceeds
  <2>1. \A role : Fresh(MembershipRequest(role))
    BY FreshPlain DEF MembershipRequest, Typed, Plain
  <2> QED
    BY <1>1, <2>1, Opening DEF RequestMembership
<1>2. ASSUME NEW c \in Calls, ResolveMembershipRequest(c)
      PROVE  Proceeds
  <2>1. ASSUME NEW i \in Ids("REQUEST"), Checked(c, "RESOLVE_REQUEST", i)
        PROVE  Proceeds
    BY <2>1, CheckingPlain DEF Ids, Plain, PlainOps
  <2>2. ASSUME call[c].op = "RESOLVE_REQUEST", NEW s, StatusWritten(c, s)
        PROVE  TableMoves
    <3>1. Typed(Now(c)) => /\ Typed([Now(c) EXCEPT !.status = s])
                           /\ [Now(c) EXCEPT !.status = s].kind = Now(c).kind
      BY Column
    <3> QED
      BY <2>2, <3>1, Writing DEF StatusWritten, PlainOps
  <2>3. ASSUME call[c].op = "RESOLVE_REQUEST", StatusWritten(c, "REJECTED"),
               call' = [call EXCEPT ![c] = Idle]
        PROVE  Proceeds
    BY <2>2, <2>3, Replied DEF Ends, PlatformInv
  <2>4. ASSUME call[c].op = "RESOLVE_REQUEST", StatusWritten(c, "APPROVED"),
               call' = [call EXCEPT ![c].op = "APPROVED_REQUEST"]
        PROVE  Proceeds
    BY <2>2, <2>4, Turning
  <2>5. ASSUME call[c].op = "APPROVED_REQUEST", NEW managed, UNCHANGED table,
               call' = [call EXCEPT ![c] =
                   IF Seen(c).role = "MANAGER" /\ ~NoActiveManager(managed) THEN Idle
                   ELSE [@ EXCEPT !.op = "GRANT_MEMBERSHIP"]]
        PROVE  Proceeds
    <3>1. \/ call' = [call EXCEPT ![c] = Idle]
          \/ call' = [call EXCEPT ![c].op = "GRANT_MEMBERSHIP"]
      BY <2>5
    <3>2. TableMoves
      BY <2>5, Unmoved DEF PlatformInv
    <3> QED
      BY <2>5, <3>1, <3>2, Turning, Ending DEF Ends
  <2>6. ASSUME Ends(c, "GRANT_MEMBERSHIP"), MembershipCreated(c)
        PROVE  Proceeds
    <3>1. Put(c, [Now(c) EXCEPT !["granted"] = Now(c).granted + 1])
      BY <2>6 DEF MembershipCreated
    <3> QED
      BY <2>6, <3>1, ColumnWritten DEF PlainOps
  <2> QED
    BY <1>2, <2>1, <2>3, <2>4, <2>5, <2>6 DEF ResolveMembershipRequest
<1> QED
  BY <1>1, <1>2

LEMMA RecordsProceed ==
  ASSUME PlatformInv, RecordMoves
  PROVE  Proceeds
<1>1. Grows
  BY DEF Grows, RecordMoves, communityVars, gameVars, inboxVars, Recorded
<1> QED
  BY <1>1, CasesProceed, MeetingsProceed, ListingsProceed, SlotProceeds, FlagsProceed,
     RegistrationProceeds, RequestsProceed DEF RecordMoves

LEMMA CampaignsProceed ==
  ASSUME PlatformInv, AdvertisingMoves
  PROVE  Proceeds
<1> USE DEF PlatformInv
<1>1. Grows
  BY DEF Grows, AdvertisingMoves, gameVars, inboxVars, Recorded
<1>2. ASSUME NEW image, ImageRejected(image)
      PROVE  Proceeds
  BY <1>1, <1>2, Unmoved, NoCallMade DEF ImageRejected, rowVars
<1>3. ASSUME CreateCampaign
      PROVE  Proceeds
  <2>1. \A scope, image : Fresh(Campaign(scope, image))
    BY FreshPlain DEF Campaign, Typed, Plain
  <2> QED
    BY <1>1, <1>2, <1>3, <2>1, Opening DEF CreateCampaign
<1>4. ASSUME NEW c \in Calls, TransitionStatus(c)
      PROVE  Proceeds
  <2>1. ASSUME NEW i \in Ids("CAMPAIGN"), NEW s, CallWith(c, "TRANSITION", i, [status |-> s]),
               UNCHANGED table
        PROVE  Proceeds
    BY <1>1, <2>1, CallingWith DEF Ids, Plain
  <2>2. ASSUME Ends(c, "TRANSITION"), Put(c, Patched(Now(c), call[c].patch))
        PROVE  Proceeds
    BY <1>1, <2>2, PatchWritten, Replied DEF Ends
  <2> QED
    BY <1>4, <2>1, <2>2 DEF TransitionStatus
<1>5. ASSUME NEW c \in Calls, UpdateCampaign(c)
      PROVE  Proceeds
  <2>1. ASSUME NEW i \in Ids("CAMPAIGN"), NEW scope, NEW image, UNCHANGED table,
               CallWith(c, "UPDATE_CAMPAIGN", i, [scope |-> scope, image |-> image])
        PROVE  Proceeds
    BY <1>1, <2>1, CallingWith DEF Ids, Plain
  <2>2. ASSUME call[c].op = "UPDATE_CAMPAIGN", CampaignUpdated(c),
               call' = [call EXCEPT ![c].op = "CLEANUP"]
        PROVE  Proceeds
    <3> SUFFICES ASSUME NEW k, k = [call[c] EXCEPT !.op = "CLEANUP"]
                 PROVE  Proceeds
      OBVIOUS
    <3>1. k.op = "CLEANUP"
      BY <2>2, InHand DEF Sound, Remembers
    <3>2. Sound(k)'
      <4>1. k.op \in Quiet
        BY <3>1 DEF Quiet
      <4> QED
        BY ONLY <4>1, QuietSound
    <3>3. TableMoves
      BY <2>2, PatchWritten DEF CampaignUpdated
    <3> QED
      BY <1>1, <2>2, <3>1, <3>2, <3>3, OneCall
  <2>3. ASSUME Ends(c, "CLEANUP"), UNCHANGED table
        PROVE  Proceeds
    BY <1>1, <2>3, Ending
  <2> QED
    BY <1>2, <1>5, <2>1, <2>2, <2>3 DEF UpdateCampaign
<1> QED
  BY <1>3, <1>4, <1>5 DEF AdvertisingMoves, CampaignStep

LEMMA FundsProceed ==
  ASSUME PlatformInv, Grows, CreateFund \/ \E c \in Calls : UpdateFund(c) \/ DeactivateFund(c) \/ ReactivateFund(c)
  PROVE  Proceeds
<1>1. \A n, t, d : Fresh(Fund(n, t, d))
  BY FreshPlain DEF Fund, Typed, Plain
<1>2. ASSUME NEW c \in Calls, NEW op \in {"UPDATE_FUND", "DEACTIVATE", "REACTIVATE"},
             NEW i \in Ids("FUND"), call[c] = Idle,
             call' = [call EXCEPT ![c] = [op |-> op, on |-> i]], UNCHANGED table
      PROVE  Proceeds
  <2> DEFINE k == [op |-> op, on |-> i]
  <2>1. OnItsRow(k) /\ Remembers(k) /\ Awarded(k) /\ Telling(k)
    BY DEF OnItsRow, Remembers, Awarded, Telling, Ids, Plain, PlainOps, FraudOps, ComplianceOps,
           CaseOps, UnitOps
  <2> QED
    BY <1>2, <2>1, Starting DEF Sound
<1>3. ASSUME NEW c \in Calls, UpdateFund(c)
      PROVE  Proceeds
  <2>1. ASSUME Ends(c, "UPDATE_FUND"), NEW n, NEW t, FundUpdated(c, n, t)
        PROVE  Proceeds
    <3>1. Typed(Now(c)) => /\ Typed([Now(c) EXCEPT !.name = n, !.type = t])
                           /\ [Now(c) EXCEPT !.name = n, !.type = t].kind = Now(c).kind
      BY DEF Typed
    <3> QED
      BY <2>1, <3>1, WritingIf, Replied DEF FundUpdated, Ends, PlainOps, PlatformInv
  <2> QED
    BY <1>2, <1>3, <2>1 DEF UpdateFund, ChecksFund
<1>4. ASSUME NEW c \in Calls, DeactivateFund(c) \/ ReactivateFund(c)
      PROVE  Proceeds
  BY <1>2, <1>4, ColumnWritten DEF DeactivateFund, ReactivateFund, ChecksFund, SetFundActive, PlainOps
<1> QED
  BY <1>1, <1>3, <1>4, Opening DEF CreateFund

\* A batch is created of a fund that has been looked at again.
LEMMA BatchesProceed ==
  ASSUME PlatformInv, Grows, NEW c \in Calls, CreateChargeBatch(c)
  PROVE  Proceeds
<1> USE DEF Asks
<1>1. ASSUME NEW r, NEW i \in CompatibleFunds(r.kind), call[c] = Idle, Charges(c, r, i),
             UNCHANGED table, Asks(r.calc)
      PROVE  Proceeds
  <2> DEFINE k == [op |-> "CHARGE", on |-> i, seen |-> table[i].type, request |-> r]
  <2>1. r.kind # NoKind => IsFundCompatible(r.kind, table[i].type)
    BY DEF CompatibleFunds
  <2>2. OnItsRow(k) /\ Remembers(k) /\ Awarded(k) /\ Telling(k)
    BY <1>1, <2>1 DEF OnItsRow, Remembers, Awarded, Telling, PlainOps, FraudOps, ComplianceOps,
                      CaseOps, UnitOps
  <2> QED
    BY <1>1, <2>2, Starting DEF Sound, Charges
<1>2. ASSUME NEW r, r.kind = NoKind, Asks(r.calc), call[c] = Idle, UNCHANGED table,
             call' = [call EXCEPT ![c] = [op |-> "DEFAULT_FUND", request |-> r]]
      PROVE  Proceeds
  <2> DEFINE k == [op |-> "DEFAULT_FUND", request |-> r]
  <2>1. OnItsRow(k) /\ Remembers(k) /\ Awarded(k) /\ Telling(k)
    BY <1>2 DEF OnItsRow, Remembers, Awarded, Telling, PlainOps, FraudOps, ComplianceOps, CaseOps,
                UnitOps
  <2> QED
    BY <1>2, <2>1, Starting DEF Sound
<1>3. ASSUME GetOrCreateDefaultFund(c)
      PROVE  Proceeds
  <2> DEFINE f == Fund(CurrentAccount, "CURRENT", TRUE)
  <2>1. ASSUME UNCHANGED table, call' = [call EXCEPT ![c] = Idle]
        PROVE  Proceeds
    BY <1>3, <2>1, Ending DEF GetOrCreateDefaultFund, Ends
  <2>2. ASSUME Insert(f), NEW k,
               k = [op |-> "CHARGE", on |-> Len(table) + 1, seen |-> f.type, request |-> call[c].request],
               call' = [call EXCEPT ![c] = k]
        PROVE  Proceeds
    <3>1. Fresh(f)
      BY FreshPlain DEF Fund, Typed, Plain
    <3>2. call[c].request.kind = NoKind /\ Asks(call[c].request.calc)
      BY <1>3, InHand DEF PlatformInv, Sound, Remembers, GetOrCreateDefaultFund
    <3>3. OnItsRow(k) /\ Remembers(k) /\ Awarded(k) /\ Telling(k)
      BY <2>2, <3>2 DEF OnItsRow, Remembers, Awarded, Telling, PlainOps, FraudOps, ComplianceOps,
                        CaseOps, UnitOps
    <3>4. TableMoves
      BY <2>2, <3>1, Inserted DEF PlatformInv
    <3>5. Sound(k)'
      BY <3>3, <3>4, StillSound DEF Sound
    <3> QED
      BY <1>3, <2>2, <3>4, <3>5, OneCall DEF PlatformInv, GetOrCreateDefaultFund
  <2> QED
    BY <1>3, <2>1, <2>2 DEF GetOrCreateDefaultFund
<1>4. ASSUME Ends(c, "CHARGE"), CreateBatchRow(c)
      PROVE  Proceeds
  <2>1. call[c].request.kind # NoKind => IsFundCompatible(call[c].request.kind, Seen(c))
    BY <1>4, InHand DEF PlatformInv, Sound, Remembers, Ends, Seen
  <2>2. Asks(call[c].request.calc)
    BY <1>4, InHand DEF PlatformInv, Sound, Remembers, Ends
  <2>3. /\ Typed(Batch(c)) /\ Batch(c).kind = "BATCH" /\ Batch(c).fund = call[c].on
        /\ Batch(c).request = call[c].request /\ {"items", "request"} \subseteq DOMAIN Batch(c)
        /\ Batch(c).items = ResolveChargeItems(call[c].request.calc)
    BY DEF Batch, Typed
  <2>4. Divided(Batch(c))
    BY <2>2, <2>3 DEF Divided
  <2>5. StillSelected(c) => Fresh(Batch(c))
    BY <2>1, <2>3, <2>4 DEF StillSelected, Fresh, IsRow, Rivals, Live, Now, Seen
  <2> QED
    BY <1>4, <2>5, Inserted, Ending, Replied DEF CreateBatchRow, PlatformInv
<1>5. \A r \in Requests : Asks(r.calc)
  BY DEF Requests, Calculations
<1> QED
  BY <1>1, <1>2, <1>3, <1>4, <1>5 DEF CreateChargeBatch, ResolveChargeFund

LEMMA ChargesProceed ==
  ASSUME PlatformInv, ChargeMoves
  PROVE  Proceeds
<1>1. Grows
  BY DEF Grows, ChargeMoves, gameVars, inboxVars, Recorded
<1>2. ASSUME NEW c \in Calls, IssueChargeBatch(c)
      PROVE  Proceeds
  <2>1. ASSUME NEW i \in Ids("BATCH"), NEW payers, call[c] = Idle, UNCHANGED table,
               call' = [call EXCEPT ![c] = [op |-> "ISSUE", on |-> i, payers |-> payers]]
        PROVE  Proceeds
    <3> DEFINE k == [op |-> "ISSUE", on |-> i, payers |-> payers]
    <3>1. OnItsRow(k) /\ Remembers(k) /\ Awarded(k) /\ Telling(k)
      BY DEF OnItsRow, Remembers, Awarded, Telling, PlainOps, FraudOps, ComplianceOps, CaseOps,
             UnitOps
    <3> QED
      BY <1>1, <2>1, <3>1, Starting DEF Sound
  <2>2. ASSUME Ends(c, "ISSUE"), BatchIssued(c)
        PROVE  Proceeds
    <3> DEFINE l == [Now(c) EXCEPT !.status = "ISSUED", !.payers = call[c].payers]
    <3>1. call[c].on \in DOMAIN table /\ IsRow(Now(c)) /\ Now(c).kind = "BATCH"
      BY <2>2, InHand DEF PlatformInv, Rows, Sound, OnItsRow, Ends, Ids, Now
    <3>2. /\ Typed(l) /\ l.kind = "BATCH" /\ DOMAIN l = DOMAIN Now(c)
          /\ l.items = Now(c).items /\ l.request = Now(c).request
      BY <3>1 DEF IsRow, Typed
    <3> HIDE DEF l
    <3>3. IsRow(l) /\ Follows(Now(c), l)
      BY <3>1, <3>2 DEF IsRow, Follows, Decided
    <3>4. UNCHANGED table \/ Put(c, l)
      BY <2>2 DEF BatchIssued, PutIf, l
    <3> QED
      BY <1>1, <2>2, <3>3, <3>4, WritingRow, Ending, Replied DEF PlatformInv, Ends
  <2> QED
    BY <1>2, <2>1, <2>2 DEF IssueChargeBatch
<1> QED
  BY <1>1, <1>2, FundsProceed, BatchesProceed DEF ChargeMoves, FundStep, DivisionStep

-----------------------------------------------------------------------------
(* Premises.                                                               *)

\* A number has its row of a unit.
UnitRows == DOMAIN unit = Units /\ \A u \in Units : "state" \in DOMAIN unit[u]

\* The rows of ownership and tenancy are of units that stand.
History ==
    \A i \in Ids("OWNERSHIP") \union Ids("TENANCY") : table[i].unit \in Units /\ Stands(table[i].unit)

\* A unit is only given up when no such row is of it, and by a step that creates none.
UnitsMove ==
    /\ UnitRows'
    /\ \A u \in Units : Stands(u) => Stands(u)' \/ (DeletionAllowed(u) /\ DOMAIN table' = DOMAIN table)

LEMMA UnitsKept ==
  ASSUME UnitRows, UNCHANGED unit
  PROVE  UnitsMove
BY DEF UnitRows, UnitsMove, Stands

LEMMA HistoryKept ==
  ASSUME History, TableMoves, UnitsMove
  PROVE  History'
<1>1. ASSUME NEW i \in DOMAIN table', table'[i].kind \in {"OWNERSHIP", "TENANCY"}
      PROVE  table'[i].unit \in Units /\ unit'[table'[i].unit].state = "STANDS"
  <2>1. CASE i \in DOMAIN table
    <3>1. table[i].kind \in {"OWNERSHIP", "TENANCY"} /\ table'[i].unit = table[i].unit
      BY <1>1, <2>1 DEF TableMoves, Follows
    <3>2. i \in Ids("OWNERSHIP") \union Ids("TENANCY")
      BY <2>1, <3>1 DEF Ids
    <3>3. table[i].unit \in Units /\ Stands(table[i].unit) /\ ~DeletionAllowed(table[i].unit)
      BY <3>2 DEF History, DeletionAllowed
    <3> QED
      BY <3>1, <3>3 DEF UnitsMove, Stands
  <2>2. CASE i \notin DOMAIN table
    <3>1. Fresh(table'[i])
      BY <2>2 DEF TableMoves
    <3>2. table'[i].unit \in Units /\ Stands(table'[i].unit)
      BY <1>1, <3>1 DEF Fresh
    <3>3. DOMAIN table' # DOMAIN table
      BY <2>2
    <3> QED
      BY <3>2, <3>3 DEF UnitsMove, Stands
  <2> QED
    BY <2>1, <2>2
<1> QED
  BY <1>1 DEF History, Stands, Ids

\* Every write to the rows of units that is no deletion.
LEMMA UnitWritten ==
  ASSUME UnitRows, NEW u, NEW r, unit' = [unit EXCEPT ![u] = r], "state" \in DOMAIN r,
         u \in Units /\ Stands(u) => r.state = "STANDS"
  PROVE  UnitsMove
BY DEF UnitRows, UnitsMove, Stands

LEMMA UnitUpdated ==
  ASSUME UnitRows, NEW u \in Units, NEW p, UpdateUnit(u, [unit[u] EXCEPT !.owner = p])
  PROVE  UnitsMove
<1> DEFINE r == [unit[u] EXCEPT !.owner = p]
<1>1. "state" \in DOMAIN r /\ r.state = unit[u].state
  BY DEF UnitRows
<1> QED
  BY <1>1, UnitWritten, UnitsKept DEF UpdateUnit, Stands

LEMMA CallingOn ==
  ASSUME PlatformInv, Grows, NEW c \in Calls, NEW u \in Units, NEW x,
         NEW op \in UnitOps \ {"TRANSFERRING"}, CallOn(c, op, u, x), UNCHANGED table
  PROVE  Proceeds
<1> DEFINE k == [op |-> op, unit |-> u, with |-> x]
<1>1. OnItsRow(k) /\ Remembers(k) /\ Awarded(k) /\ Telling(k)
  BY DEF OnItsRow, Remembers, Awarded, Telling, PlainOps, FraudOps, ComplianceOps, CaseOps, UnitOps
<1> QED
  BY <1>1, Starting DEF Sound, CallOn, UnitOps

\* What a request on a unit is on.
LEMMA OnItsUnit ==
  ASSUME PlatformInv, NEW c \in Calls, call[c].op \in UnitOps
  PROVE  call[c].unit \in Units
BY InHand DEF PlatformInv, Sound, Remembers

LEMMA UnitsProceed ==
  ASSUME PlatformInv, UnitRows, Grows, NEW c \in Calls, UnitStep(c)
  PROVE  Proceeds /\ UnitsMove
<1>1. CASE AddUnit(c)
  <2>1. ASSUME NEW u \in Units, CallOn(c, "ADD_UNIT", u, NoOne), UNCHANGED <<table, unit>>
        PROVE  Proceeds /\ UnitsMove
    BY <2>1, CallingOn, UnitsKept DEF UnitOps
  <2>2. ASSUME Ends(c, "ADD_UNIT"), UnitCreated(call[c].unit), UNCHANGED table
        PROVE  Proceeds /\ UnitsMove
    <3>1. "state" \in DOMAIN Skeleton /\ Skeleton.state = "STANDS"
      BY DEF Skeleton
    <3> QED
      BY <2>2, <3>1, Ending, UnitWritten, UnitsKept DEF UnitCreated
  <2> QED
    BY <1>1, <2>1, <2>2 DEF AddUnit
<1>2. CASE DeleteUnit(c)
  <2>1. ASSUME NEW u \in Units, CallOn(c, "DELETE_UNIT", u, NoOne), UNCHANGED <<table, unit>>
        PROVE  Proceeds /\ UnitsMove
    BY <2>1, CallingOn, UnitsKept DEF UnitOps
  <2>2. ASSUME Ends(c, "DELETE_UNIT"), UNCHANGED <<table, unit>>
        PROVE  Proceeds /\ UnitsMove
    BY <2>2, Ending, UnitsKept
  <2>3. ASSUME Ends(c, "DELETE_UNIT"), NEW u, u = call[c].unit, DeletionAllowed(u),
               unit' = [unit EXCEPT ![u] = [Skeleton EXCEPT !.state = "GONE"]], table' = Released(u)
        PROVE  Proceeds /\ UnitsMove
    <3>1. ASSUME NEW i \in DOMAIN table
          PROVE  IsRow(table'[i]) /\ Follows(table[i], table'[i])
      <4> DEFINE r == [table[i] EXCEPT !.unit = NoUnit]
      <4>1. IsRow(table[i])
        BY DEF PlatformInv, Rows
      <4>2. table'[i] = IF table[i].kind = "UNIT_CASE" /\ table[i].unit = u THEN r ELSE table[i]
        BY <2>3 DEF Released
      <4>3. Typed(r) /\ DOMAIN r = DOMAIN table[i] /\ r.kind = table[i].kind
        BY <4>1, Column DEF IsRow
      <4>4. table[i].kind = "UNIT_CASE" => IsRow(r) /\ Follows(table[i], r)
        BY <4>3 DEF IsRow, Follows, Decided
      <4>5. Follows(table[i], table[i])
        BY DEF Follows, CaseFollows
      <4> QED
        BY <4>1, <4>2, <4>4, <4>5
    <3>2. DOMAIN table' = DOMAIN table /\ table' = [i \in DOMAIN table |-> table'[i]]
      BY <2>3 DEF Released
    <3>3. TableMoves
      BY <3>1, <3>2, Rewritten DEF PlatformInv
    <3>4. "state" \in DOMAIN [Skeleton EXCEPT !.state = "GONE"]
      BY DEF Skeleton
    <3>5. \A v \in Units : unit'[v] = IF v = u THEN [Skeleton EXCEPT !.state = "GONE"] ELSE unit[v]
      BY <2>3 DEF UnitRows
    <3>6. UnitsMove
      BY <2>3, <3>2, <3>4, <3>5 DEF UnitRows, UnitsMove, Stands
    <3> QED
      BY <2>3, <3>3, <3>6, Replied DEF PlatformInv
  <2> QED
    BY <1>2, <2>1, <2>2, <2>3 DEF DeleteUnit, UnitDeleted
<1>3. CASE CreateUnitCase(c)
  <2>1. ASSUME NEW u \in Units, CallOn(c, "UNIT_CASE", u, NoOne), UNCHANGED table
        PROVE  Proceeds
    BY <2>1, CallingOn DEF UnitOps
  <2>2. ASSUME Ends(c, "UNIT_CASE"), NEW u, Insert(UnitCase(u))
        PROVE  Proceeds
    <3>1. Fresh(UnitCase(u))
      BY FreshPlain DEF UnitCase, Typed, Plain
    <3> QED
      BY <2>2, <3>1, Inserted, Replied DEF PlatformInv
  <2> QED
    BY <1>3, <2>1, <2>2, Ending, UnitsKept DEF CreateUnitCase
<1> QED
  BY <1>1, <1>2, <1>3 DEF UnitStep

LEMMA OwnershipProceeds ==
  ASSUME PlatformInv, UnitRows, Grows, NEW c \in Calls, OwnershipStep(c)
  PROVE  Proceeds /\ UnitsMove
<1>1. CASE ClaimOwnership(c)
  <2>1. ASSUME NEW u \in Units, NEW p, CallOn(c, "CLAIM", u, p), UNCHANGED table
        PROVE  Proceeds
    BY <2>1, CallingOn DEF UnitOps
  <2>2. ASSUME Ends(c, "CLAIM"), NEW u \in Units, NEW p, LinkOwnerToUnit(u, p)
        PROVE  Proceeds
    <3>1. Stands(u) => Fresh(Ownership(u, p))
      BY DEF Fresh, Ownership, IsRow, Typed, Rivals, Live
    <3> QED
      BY <2>2, <3>1, Inserted, Ending, Replied DEF LinkOwnerToUnit, PlatformInv
  <2>3. Ends(c, "CLAIM") => call[c].unit \in Units
    BY OnItsUnit DEF Ends, UnitOps
  <2> QED
    BY <1>1, <2>1, <2>2, <2>3, UnitsKept DEF ClaimOwnership
<1>2. CASE TransferOwnership(c)
  <2>1. ASSUME NEW u \in Units, NEW p, CallOn(c, "TRANSFER", u, p), UNCHANGED <<table, unit>>
        PROVE  Proceeds /\ UnitsMove
    BY <2>1, CallingOn, UnitsKept DEF UnitOps
  <2>2. ASSUME call[c].op = "TRANSFER", UNCHANGED <<table, unit>>, NEW k,
               k = [op |-> "TRANSFERRING", unit |-> call[c].unit, with |-> call[c].with,
                    rows |-> CurrentOwners(call[c].unit)],
               call' = [call EXCEPT ![c] = k]
        PROVE  Proceeds /\ UnitsMove
    <3>1. k.op = "TRANSFERRING" /\ k.unit \in Units
      BY <2>2, OnItsUnit DEF UnitOps
    <3>2. OnItsRow(k) /\ Remembers(k) /\ Awarded(k) /\ Telling(k)
      BY <3>1 DEF OnItsRow, Remembers, Awarded, Telling, PlainOps, FraudOps, ComplianceOps, CaseOps
    <3> QED
      BY <2>2, <3>2, Keeping, UnitsKept DEF Sound
  <2>3. ASSUME Ends(c, "TRANSFERRING"), NEW rows, NEW u, table' = OwnershipsEnded(rows, u)
        PROVE  Proceeds
    <3>1. ASSUME NEW i \in DOMAIN table
          PROVE  IsRow(table'[i]) /\ Follows(table[i], table'[i])
      <4> DEFINE r == [table[i] EXCEPT !.member = FALSE, !.current = @ /\ i \notin rows]
      <4>1. IsRow(table[i])
        BY DEF PlatformInv, Rows
      <4>2. table'[i] = IF i \in Ids("OWNERSHIP") /\ table[i].unit = u THEN r ELSE table[i]
        BY <2>3 DEF OwnershipsEnded
      <4>3. /\ Typed(r) /\ DOMAIN r = DOMAIN table[i] /\ r.kind = table[i].kind
            /\ "unit" \in DOMAIN table[i] => r.unit = table[i].unit
        BY <4>1 DEF IsRow, Typed
      <4>4. table[i].kind = "OWNERSHIP" => IsRow(r) /\ Follows(table[i], r)
        BY <4>1, <4>3 DEF IsRow, Follows, Decided
      <4>5. Follows(table[i], table[i])
        BY DEF Follows, CaseFollows
      <4> QED
        BY <4>1, <4>2, <4>4, <4>5 DEF Ids
    <3>2. DOMAIN table' = DOMAIN table /\ table' = [i \in DOMAIN table |-> table'[i]]
      BY <2>3 DEF OwnershipsEnded
    <3> QED
      BY <2>3, <3>1, <3>2, Rewritten, Replied DEF PlatformInv
  <2>4. Ends(c, "TRANSFERRING") => call[c].unit \in Units
    BY OnItsUnit DEF Ends, UnitOps
  <2> QED
    BY <1>2, <2>1, <2>2, <2>3, <2>4, UnitUpdated DEF TransferOwnership
<1> QED
  BY <1>1, <1>2 DEF OwnershipStep

LEMMA TenancyProceeds ==
  ASSUME PlatformInv, Grows, NEW c \in Calls, TenancyStep(c)
  PROVE  Proceeds
<1>1. ASSUME NEW op \in {"NOTICE", "END_TENANCY"}, NEW i \in Ids("TENANCY"), Checked(c, op, i)
      PROVE  Proceeds
  <2> DEFINE k == [op |-> op, on |-> i, seen |-> table[i]]
  <2>1. OnItsRow(k) /\ Remembers(k) /\ Awarded(k) /\ Telling(k)
    BY DEF OnItsRow, Remembers, Awarded, Telling, PlainOps, FraudOps, ComplianceOps, CaseOps, UnitOps
  <2> QED
    BY <1>1, <2>1, Checking DEF Sound
<1>2. ASSUME call[c].op \in {"NOTICE", "END_TENANCY"}
      PROVE  call[c].on \in DOMAIN table /\ Now(c).kind = "TENANCY" /\ IsRow(Now(c))
  BY <1>2, InHand DEF PlatformInv, Sound, OnItsRow, Ids, Now, Rows
<1>3. CASE CreateTenancy(c)
  <2>1. ASSUME NEW u \in Units, NEW p, CallOn(c, "TENANCY", u, p), UNCHANGED table
        PROVE  Proceeds
    BY <2>1, CallingOn DEF UnitOps
  <2>2. ASSUME Ends(c, "TENANCY"), NEW u \in Units, NEW p, TenancyCreated(u, p)
        PROVE  Proceeds
    <3>1. Stands(u) => Fresh(Tenancy(u, p))
      BY DEF Fresh, Tenancy, IsRow, Typed, Rivals, Live
    <3> QED
      BY <2>2, <3>1, Inserted, Ending, Replied DEF TenancyCreated, PlatformInv
  <2>3. Ends(c, "TENANCY") => call[c].unit \in Units
    BY OnItsUnit DEF Ends, UnitOps
  <2> QED
    BY <1>3, <2>1, <2>2, <2>3 DEF CreateTenancy
<1>4. CASE GiveTenancyNotice(c)
  <2>1. ASSUME Ends(c, "NOTICE"), NoticeGiven(c)
        PROVE  Proceeds
    <3> DEFINE r == [Now(c) EXCEPT !.status = "NOTICE_GIVEN"]
    <3>1. Now(c).kind = "TENANCY" /\ IsRow(Now(c))
      BY <1>2, <2>1 DEF Ends
    <3>2. Typed(r) /\ DOMAIN r = DOMAIN Now(c) /\ r.kind = "TENANCY" /\ r.unit = Now(c).unit
      BY <3>1, Column DEF IsRow
    <3>3. IsRow(r) /\ Follows(Now(c), r)
      BY <3>1, <3>2 DEF IsRow, Follows, Decided
    <3> QED
      BY <2>1, <3>3, WritingRow, Replied DEF NoticeGiven, PlatformInv
  <2> QED
    BY <1>1, <1>4, <2>1 DEF GiveTenancyNotice, ChecksTenancy
<1>5. CASE EndTenancy(c)
  <2>1. ASSUME Ends(c, "END_TENANCY"), TenancyEnded(c)
        PROVE  Proceeds
    <3>1. ASSUME NEW i \in DOMAIN table
          PROVE  IsRow(table'[i]) /\ Follows(table[i], table'[i])
      <4> DEFINE t == IF i = call[c].on
                      THEN [table[i] EXCEPT !.status = "ENDED", !.current = FALSE] ELSE table[i]
                 r == [t EXCEPT !.member = FALSE]
                 Same(v) == Typed(v) /\ DOMAIN v = DOMAIN table[i] /\ v.kind = table[i].kind
                            /\ v.unit = table[i].unit
      <4>1. IsRow(table[i])
        BY DEF PlatformInv, Rows
      <4>2. CASE table[i].kind = "TENANCY"
        <5>1. Same(t)
          BY <4>1, <4>2 DEF IsRow, Typed
        <5>2. table'[i] = IF /\ t.kind = "TENANCY" /\ t.unit = Now(c).unit
                             /\ t.person = Now(c).person
                          THEN r ELSE t
          BY <2>1, Zenon DEF TenancyEnded
        <5>3. Same(r)
          <6> HIDE DEF t
          <6> QED
            BY <5>1, <4>1, <4>2, Column DEF IsRow
        <5>4. Same(table'[i])
          BY <5>1, <5>2, <5>3
        <5> QED
          BY <4>1, <4>2, <5>4 DEF IsRow, Follows, Decided
      <4>3. CASE table[i].kind # "TENANCY"
        <5>1. i # call[c].on
          BY <2>1, <1>2, <4>3 DEF Ends, Now
        <5>2. table'[i] = table[i]
          BY <2>1, <4>3, <5>1 DEF TenancyEnded
        <5> QED
          BY <4>1, <5>2 DEF Follows, CaseFollows
      <4> QED
        BY <4>2, <4>3
    <3>2. DOMAIN table' = DOMAIN table /\ table' = [i \in DOMAIN table |-> table'[i]]
      BY <2>1 DEF TenancyEnded
    <3> QED
      BY <2>1, <3>1, <3>2, Rewritten, Replied DEF PlatformInv
  <2> QED
    BY <1>1, <1>5, <2>1 DEF EndTenancy, ChecksTenancy
<1> QED
  BY <1>3, <1>4, <1>5 DEF TenancyStep

LEMMA PremisesProceed ==
  ASSUME PlatformInv, UnitRows, PremisesMoves
  PROVE  Proceeds /\ UnitsMove
<1>1. Grows
  BY DEF Grows, PremisesMoves, gameVars, inboxVars, Recorded
<1>2. CASE InviteOwner
  BY <1>1, <1>2, Unmoved, NoCallMade, UnitUpdated DEF InviteOwner, EditUnit, rowVars, PlatformInv
<1>3. ASSUME NEW c \in Calls, UnitStep(c) \/ OwnershipStep(c) \/ (TenancyStep(c) /\ UNCHANGED unit)
      PROVE  Proceeds /\ UnitsMove
  BY <1>1, <1>3, UnitsProceed, OwnershipProceeds, TenancyProceeds, UnitsKept
<1> QED
  BY <1>2, <1>3 DEF PremisesMoves

-----------------------------------------------------------------------------
(* Switches and notifications.                                             *)

LEMMA SwitchesProceed ==
  ASSUME PlatformInv, SwitchMoves
  PROVE  Proceeds
<1>1. Grows
  BY DEF Grows, SwitchMoves, gameVars, inboxVars, Recorded
<1>2. ASSUME NEW c \in Calls, NEW s, NEW v, SetEnabled(c, s, v)
      PROVE  Proceeds
  <2> DEFINE k == [op |-> "REFRESH", switch |-> s, value |-> v]
  <2>1. Sound(k) /\ k.op # "SUSPENSION"
    BY QuietSound DEF Quiet
  <2> QED
    BY <1>1, <1>2, <2>1, Starting DEF SetEnabled
<1>3. ASSUME NEW c \in Calls, Refreshes(c)
      PROVE  Proceeds
  BY <1>1, <1>3, Ending DEF Refreshes
<1> QED
  BY <1>2, <1>3 DEF SwitchMoves

\* After a restart nothing is asked any more.
LEMMA RestartForgets ==
  ASSUME PlatformInv, RestartMoves
  PROVE  TableMoves /\ Requested'
<1>1. TableMoves
  BY Unmoved DEF RestartMoves, Restart, PlatformInv
<1>2. call' = [c \in Calls |-> Idle]
  BY DEF RestartMoves, Restart
<1> QED
  BY <1>1, <1>2, IdleSound DEF Requested

\* A job that reports success has a delivery that was accepted.
NotesSent ==
    /\ delivery \in [Channels -> [status : {"NONE", "PENDING", "SENT", "FAILED"}, accepted : BOOLEAN]]
    /\ job \in [Jobs -> {NoJob} \union
                        [state : {"WAITING", "SENDING", "REFUSED", "ACCEPTED", "EXHAUSTED"},
                         of : Channels, made : Nat]]
    /\ \A j \in Jobs : job[j].state = "ACCEPTED" => delivery[job[j].of].accepted
    /\ SentMeansAccepted

LEMMA NotesKept ==
  ASSUME NotesSent, UNCHANGED noteVars
  PROVE  NotesSent'
BY DEF NotesSent, noteVars, SentMeansAccepted

\* A delivery is marked; it is sent only if it was accepted, or needs no provider.
LEMMA DeliveryMarked ==
  ASSUME NotesSent, NEW ch \in Channels, NEW s \in {"PENDING", "SENT", "FAILED"}, MarkDelivery(ch, s),
         s = "SENT" => ch = InApp \/ delivery[ch].accepted
  PROVE  /\ delivery' \in [Channels -> [status : {"NONE", "PENDING", "SENT", "FAILED"},
                                        accepted : BOOLEAN]]
         /\ \A d \in Channels : delivery'[d].accepted = delivery[d].accepted
         /\ SentMeansAccepted'
<1>1. /\ delivery' \in [Channels -> [status : {"NONE", "PENDING", "SENT", "FAILED"},
                                     accepted : BOOLEAN]]
      /\ \A d \in Channels :
             /\ delivery'[d].accepted = delivery[d].accepted
             /\ delivery'[d].status = IF d = ch THEN s ELSE delivery[d].status
  BY DEF NotesSent, MarkDelivery
<1>2. \A d \in External : d \in Channels /\ d # InApp
  BY OutreachAssumption DEF Channels
<1> QED
  BY <1>1, <1>2 DEF NotesSent, SentMeansAccepted

\* One job changes, and reports no success that was not there.
LEMMA JobMoved ==
  ASSUME NotesSent, NEW j \in Jobs, NEW v, job' = [job EXCEPT ![j] = v],
         v \in {NoJob} \union
               [state : {"WAITING", "SENDING", "REFUSED", "ACCEPTED", "EXHAUSTED"},
                of : Channels, made : Nat],
         v.state = "ACCEPTED" => delivery'[v.of].accepted,
         delivery' \in [Channels -> [status : {"NONE", "PENDING", "SENT", "FAILED"},
                                     accepted : BOOLEAN]],
         \A d \in Channels : delivery[d].accepted => delivery'[d].accepted,
         SentMeansAccepted'
  PROVE  NotesSent'
<1>1. \A i \in Jobs : job'[i] = IF i = j THEN v ELSE job[i]
  BY DEF NotesSent
<1>2. job' \in [Jobs -> {NoJob} \union
                        [state : {"WAITING", "SENDING", "REFUSED", "ACCEPTED", "EXHAUSTED"},
                         of : Channels, made : Nat]]
  BY DEF NotesSent
<1>3. ASSUME NEW i \in Jobs, job'[i].state = "ACCEPTED"
      PROVE  delivery'[job'[i].of].accepted
  <2>1. CASE i = j
    BY <1>1, <1>3, <2>1
  <2>2. CASE i # j
    <3>1. job[i].state = "ACCEPTED" /\ job'[i] = job[i]
      BY <1>1, <1>3, <2>2
    <3>2. job[i].of \in Channels
      BY <3>1 DEF NotesSent, NoJob
    <3> QED
      BY <3>1, <3>2 DEF NotesSent
  <2> QED
    BY <2>1, <2>2
<1> QED
  BY <1>2, <1>3 DEF NotesSent

LEMMA JobAdded ==
  ASSUME NotesSent, NEW ch \in Channels, AddJob(ch), UNCHANGED delivery
  PROVE  NotesSent'
<1>1. PICK j \in Jobs : job' = [job EXCEPT ![j] = DispatchJob(ch)]
  BY DEF AddJob, FreeJobs
<1>2. /\ DispatchJob(ch) \in [state : {"WAITING", "SENDING", "REFUSED", "ACCEPTED", "EXHAUSTED"},
                              of : Channels, made : Nat]
      /\ DispatchJob(ch).state # "ACCEPTED"
  BY DEF DispatchJob
<1>3. SentMeansAccepted'
  BY DEF NotesSent, SentMeansAccepted
<1> QED
  BY <1>1, <1>2, <1>3, JobMoved DEF NotesSent

LEMMA NotificationsCreated ==
  ASSUME PlatformInv, NotesSent, NEW c \in Calls, Grows, UNCHANGED <<table, job>>,
         call[c] = Idle, \A ch \in Channels : delivery[ch] = NoDelivery,
         NEW channels \in SUBSET Channels, CreateNotification(channels),
         call' = [call EXCEPT ![c] = [op |-> "NOTIFY", left |-> channels]]
  PROVE  Proceeds /\ NotesSent'
<1> DEFINE k == [op |-> "NOTIFY", left |-> channels]
<1>1. Sound(k) /\ k.op # "SUSPENSION"
  BY DEF Sound, OnItsRow, Remembers, Awarded, Telling, PlainOps, FraudOps, ComplianceOps,
         CaseOps, UnitOps
<1>2. Proceeds
  BY <1>1, Starting
<1>3. /\ delivery' \in [Channels -> [status : {"NONE", "PENDING", "SENT", "FAILED"},
                                     accepted : BOOLEAN]]
      /\ \A ch \in Channels : delivery'[ch].status # "SENT"
  BY DEF CreateNotification, NoDelivery
<1>4. SentMeansAccepted'
  BY <1>3 DEF SentMeansAccepted, Channels
<1>5. \A j \in Jobs : job[j].state # "ACCEPTED"
  <2>1. ASSUME NEW j \in Jobs, job[j].state = "ACCEPTED"
        PROVE  FALSE
    <3>1. job[j].of \in Channels /\ delivery[job[j].of].accepted
      BY <2>1 DEF NotesSent, NoJob
    <3> QED
      BY <3>1 DEF NoDelivery
  <2> QED
    BY <2>1
<1> QED
  BY <1>2, <1>3, <1>4, <1>5 DEF NotesSent

LEMMA NotifyProceeds ==
  ASSUME PlatformInv, NotesSent, Grows, UNCHANGED table, NEW c \in Calls, Notify(c)
  PROVE  Proceeds /\ NotesSent'
<1>1. CASE /\ call[c] = Idle
           /\ delivery = [ch \in Channels |-> NoDelivery]
           /\ \E channels \in SUBSET Channels \ {{}} :
                  /\ CreateNotification(channels)
                  /\ call' = [call EXCEPT ![c] = [op |-> "NOTIFY", left |-> channels]]
           /\ UNCHANGED job
  BY <1>1, NotificationsCreated
<1>2. ASSUME NEW ch \in Channels, call[c].op = "NOTIFY", ch \in call[c].left,
             call' = IF call[c].left = {ch} THEN [call EXCEPT ![c] = Idle]
                     ELSE [call EXCEPT ![c].left = @ \ {ch}],
             IF ch = InApp THEN MarkDelivery(ch, "SENT") /\ UNCHANGED job
             ELSE AddJob(ch) /\ UNCHANGED delivery
      PROVE  Proceeds /\ NotesSent'
  <2> DEFINE rest == [call[c] EXCEPT !.left = @ \ {ch}]
  <2>1. "op" \in DOMAIN call[c] /\ "left" \in DOMAIN call[c] /\ call[c].left \subseteq Channels
    BY <1>2, InHand DEF PlatformInv, Sound, Remembers
  <2>2. /\ rest.op = "NOTIFY" /\ "op" \in DOMAIN rest /\ "left" \in DOMAIN rest
        /\ rest.left \subseteq Channels
    BY <1>2, <2>1
  <2>3. Sound(rest)
    <3> HIDE DEF rest
    <3> QED
      BY <2>2 DEF Sound, OnItsRow, Remembers, Awarded, Telling, PlainOps, FraudOps, ComplianceOps,
                  CaseOps, UnitOps
  <2>4. rest.op # "SUSPENSION"
    BY <2>2
  <2>5. Proceeds
    <3>1. CASE call[c].left = {ch}
      <4>1. call' = [call EXCEPT ![c] = Idle]
        BY <1>2, <3>1
      <4>2. Idle.op # "SUSPENSION" /\ call[c].op # "TELL"
        BY <1>2 DEF Idle
      <4> QED
        BY <4>1, <4>2, IdleSound, Keeping
    <3>2. CASE call[c].left # {ch}
      <4>1. call' = [call EXCEPT ![c] = rest]
        BY <1>2, <3>2
      <4>2. call[c].op # "TELL"
        BY <1>2
      <4> HIDE DEF rest
      <4> QED
        BY <2>3, <2>4, <4>1, <4>2, Keeping
    <3> QED
      BY <3>1, <3>2
  <2>6. CASE ch = InApp
    <3>1. MarkDelivery(ch, "SENT") /\ UNCHANGED job
      BY <1>2, <2>6
    <3>2. /\ delivery' \in [Channels -> [status : {"NONE", "PENDING", "SENT", "FAILED"},
                                         accepted : BOOLEAN]]
          /\ \A d \in Channels : delivery'[d].accepted = delivery[d].accepted
          /\ SentMeansAccepted'
      BY <3>1, <2>6, DeliveryMarked
    <3> QED
      BY <2>5, <3>1, <3>2 DEF NotesSent, NoJob
  <2>7. CASE ch # InApp
    BY <1>2, <2>5, <2>7, JobAdded
  <2> QED
    BY <2>6, <2>7
<1> QED
  BY <1>1, <1>2 DEF Notify

LEMMA ResendProceeds ==
  ASSUME PlatformInv, NotesSent, Grows, UNCHANGED table, NEW c \in Calls, ResendDelivery(c)
  PROVE  Proceeds /\ NotesSent'
<1>1. ASSUME call[c] = Idle, UNCHANGED <<delivery, job>>, NEW ch \in Channels,
             call' = [call EXCEPT ![c] = [op |-> "RESEND", of |-> ch]]
      PROVE  Proceeds /\ NotesSent'
  <2> DEFINE k == [op |-> "RESEND", of |-> ch]
  <2>1. Sound(k) /\ k.op # "SUSPENSION"
    BY DEF Sound, OnItsRow, Remembers, Awarded, Telling, PlainOps, FraudOps, ComplianceOps,
           CaseOps, UnitOps
  <2> QED
    BY <1>1, <2>1, Starting DEF NotesSent, SentMeansAccepted
<1>2. ASSUME call[c].op = "RESEND", MarkDelivery(call[c].of, "PENDING"),
             call' = [call EXCEPT ![c].op = "REQUEUE"], UNCHANGED job
      PROVE  Proceeds /\ NotesSent'
  <2> DEFINE k == [call[c] EXCEPT !.op = "REQUEUE"]
  <2>1. "op" \in DOMAIN call[c] /\ "of" \in DOMAIN call[c] /\ call[c].of \in Channels
    BY <1>2, InHand DEF PlatformInv, Sound, Remembers
  <2>2. k.op = "REQUEUE" /\ "op" \in DOMAIN k /\ "of" \in DOMAIN k /\ k.of \in Channels
    BY <2>1
  <2>3. call' = [call EXCEPT ![c] = k]
    BY <1>2
  <2> HIDE DEF k
  <2>4. Sound(k) /\ k.op # "SUSPENSION"
    BY <2>2 DEF Sound, OnItsRow, Remembers, Awarded, Telling, PlainOps, FraudOps, ComplianceOps,
                CaseOps, UnitOps
  <2>5. Proceeds
    BY <1>2, <2>3, <2>4, Keeping
  <2>6. /\ delivery' \in [Channels -> [status : {"NONE", "PENDING", "SENT", "FAILED"},
                                       accepted : BOOLEAN]]
        /\ \A d \in Channels : delivery'[d].accepted = delivery[d].accepted
        /\ SentMeansAccepted'
    BY <1>2, <2>1, DeliveryMarked
  <2> QED
    BY <1>2, <2>5, <2>6 DEF NotesSent, NoJob
<1>3. ASSUME Ends(c, "REQUEUE"), AddJob(call[c].of), UNCHANGED delivery
      PROVE  Proceeds /\ NotesSent'
  <2>1. call[c].of \in Channels
    BY <1>3, InHand DEF PlatformInv, Sound, Remembers, Ends
  <2> QED
    BY <1>3, <2>1, Ending, JobAdded
<1> QED
  BY <1>1, <1>2, <1>3 DEF ResendDelivery

\* What a job that is not free holds.
LEMMA JobHeld ==
  ASSUME NotesSent, NEW j \in Jobs, job[j].state # "NONE"
  PROVE  /\ job[j] \in [state : {"WAITING", "SENDING", "REFUSED", "ACCEPTED", "EXHAUSTED"},
                        of : Channels, made : Nat]
         /\ job[j].of \in Channels
BY DEF NotesSent, NoJob

LEMMA JobTurned ==
  ASSUME NotesSent, NEW j \in Jobs, job[j].state # "NONE",
         NEW s \in {"SENDING", "REFUSED", "ACCEPTED"}, JobTurns(j, s),
         s = "ACCEPTED" => delivery'[job[j].of].accepted,
         delivery' \in [Channels -> [status : {"NONE", "PENDING", "SENT", "FAILED"},
                                     accepted : BOOLEAN]],
         \A d \in Channels : delivery[d].accepted => delivery'[d].accepted,
         SentMeansAccepted'
  PROVE  NotesSent'
<1> DEFINE v == [job[j] EXCEPT !.state = s]
<1>1. /\ v \in [state : {"WAITING", "SENDING", "REFUSED", "ACCEPTED", "EXHAUSTED"},
                of : Channels, made : Nat]
      /\ v.state = s /\ v.of = job[j].of
  BY JobHeld
<1>2. job' = [job EXCEPT ![j] = v]
  BY DEF JobTurns
<1> HIDE DEF v
<1> QED
  BY <1>1, <1>2, JobMoved

LEMMA JobFreed ==
  ASSUME NotesSent, NEW j \in Jobs, job' = [job EXCEPT ![j] = NoJob],
         delivery' \in [Channels -> [status : {"NONE", "PENDING", "SENT", "FAILED"},
                                     accepted : BOOLEAN]],
         \A d \in Channels : delivery[d].accepted => delivery'[d].accepted,
         SentMeansAccepted'
  PROVE  NotesSent'
<1>1. NoJob.state # "ACCEPTED"
  BY DEF NoJob
<1> QED
  BY <1>1, JobMoved

LEMMA JobsDispatched ==
  ASSUME NotesSent, NEW j \in Jobs, DispatchStep(j)
  PROVE  NotesSent'
<1>1. CASE StartJob(j)
  <2>1. /\ job[j].state = "WAITING" /\ UNCHANGED delivery /\ SentMeansAccepted'
        /\ \/ job' = [job EXCEPT ![j] = NoJob]
           \/ JobTurns(j, "SENDING") \/ JobTurns(j, "REFUSED")
    BY <1>1 DEF StartJob, NotesSent, SentMeansAccepted
  <2> QED
    BY <2>1, JobTurned, JobFreed DEF NotesSent
<1>2. CASE SendJob(j)
  <2>1. PICK n \in 0 .. 2 :
            /\ delivery' = [delivery EXCEPT ![job[j].of].accepted = @ \/ n > 0]
            /\ IF Succeeded(n) THEN JobTurns(j, "ACCEPTED")
               ELSE JobTurns(j, "REFUSED") \/ job' = [job EXCEPT ![j] = Retried(j)]
    BY <1>2 DEF SendJob
  <2>2. job[j].state = "SENDING" /\ job[j].of \in Channels
    BY <1>2, JobHeld DEF SendJob
  <2> DEFINE taken == delivery[job[j].of].accepted \/ n > 0
  <2>3. taken \in BOOLEAN /\ delivery' = [delivery EXCEPT ![job[j].of].accepted = taken]
    BY <2>1
  <2>4. \A d \in Channels : delivery[d].accepted => (d = job[j].of => taken)
    OBVIOUS
  <2>5. n > 0 => taken
    OBVIOUS
  <2> HIDE DEF taken
  <2>6. /\ delivery' \in [Channels -> [status : {"NONE", "PENDING", "SENT", "FAILED"},
                                       accepted : BOOLEAN]]
        /\ \A d \in Channels :
               /\ delivery'[d].status = delivery[d].status
               /\ delivery'[d].accepted = IF d = job[j].of THEN taken ELSE delivery[d].accepted
    BY <2>2, <2>3 DEF NotesSent
  <2>7. \A d \in Channels : delivery[d].accepted => delivery'[d].accepted
    BY <2>4, <2>6
  <2>8. SentMeansAccepted'
    BY <2>6, <2>7 DEF NotesSent, SentMeansAccepted, Channels
  <2>9. CASE Succeeded(n)
    <3>1. delivery'[job[j].of].accepted
      BY <2>2, <2>5, <2>6, <2>9 DEF Succeeded
    <3> QED
      BY <2>1, <2>2, <2>6, <2>7, <2>8, <2>9, <3>1, JobTurned
  <2>10. CASE JobTurns(j, "REFUSED")
    BY <2>2, <2>6, <2>7, <2>8, <2>10, JobTurned
  <2>11. CASE job' = [job EXCEPT ![j] = Retried(j)]
    <3>1. /\ Retried(j) \in [state : {"WAITING", "SENDING", "REFUSED", "ACCEPTED", "EXHAUSTED"},
                             of : Channels, made : Nat]
          /\ Retried(j).state # "ACCEPTED"
      <4> DEFINE s == IF job[j].made + 1 < MaxAttempts THEN "WAITING" ELSE "EXHAUSTED"
                 n1 == job[j].made + 1
      <4>1. /\ job[j] \in [state : {"WAITING", "SENDING", "REFUSED", "ACCEPTED", "EXHAUSTED"},
                           of : Channels, made : Nat]
            /\ s \in {"WAITING", "EXHAUSTED"}
        BY <2>2, JobHeld
      <4>2. n1 \in Nat
        BY <4>1
      <4>3. Retried(j) = [job[j] EXCEPT !.made = n1, !.state = s]
        BY Zenon DEF Retried
      <4> HIDE DEF s, n1
      <4> QED
        BY <4>1, <4>2, <4>3
    <3> QED
      BY <2>6, <2>7, <2>8, <2>11, <3>1, JobMoved
  <2> QED
    BY <2>1, <2>9, <2>10, <2>11
<1>3. CASE SettleJob(j)
  <2> DEFINE s == IF job[j].state = "ACCEPTED" THEN "SENT" ELSE "FAILED"
  <2>1. /\ job[j].state # "NONE" /\ MarkDelivery(job[j].of, s) /\ job' = [job EXCEPT ![j] = NoJob]
        /\ s \in {"PENDING", "SENT", "FAILED"} /\ (s = "SENT" => job[j].state = "ACCEPTED")
    BY <1>3 DEF SettleJob
  <2> HIDE DEF s
  <2>2. job[j].of \in Channels /\ (s = "SENT" => delivery[job[j].of].accepted)
    BY <2>1, JobHeld DEF NotesSent
  <2>3. /\ delivery' \in [Channels -> [status : {"NONE", "PENDING", "SENT", "FAILED"},
                                       accepted : BOOLEAN]]
        /\ \A d \in Channels : delivery'[d].accepted = delivery[d].accepted
        /\ SentMeansAccepted'
    BY <2>1, <2>2, DeliveryMarked
  <2> QED
    BY <2>1, <2>3, JobFreed
<1> QED
  BY <1>1, <1>2, <1>3 DEF DispatchStep

LEMMA NotificationsProceed ==
  ASSUME PlatformInv, NotesSent, NotificationMoves
  PROVE  Proceeds /\ NotesSent'
<1>1. Grows /\ UNCHANGED table
  BY DEF Grows, NotificationMoves, gameVars, inboxVars, Recorded
<1>2. ASSUME NEW c \in Calls, Notify(c) \/ ResendDelivery(c)
      PROVE  Proceeds /\ NotesSent'
  BY <1>1, <1>2, NotifyProceeds, ResendProceeds
<1>3. ASSUME NEW j \in Jobs, DispatchStep(j), UNCHANGED call
      PROVE  Proceeds /\ NotesSent'
  BY <1>1, <1>3, Unmoved, NoCallMade, JobsDispatched DEF PlatformInv
<1> QED
  BY <1>2, <1>3 DEF NotificationMoves

\* The jobs that are taken up again report nothing.
LEMMA RestartKeepsNotes ==
  ASSUME NotesSent, RestartMoves
  PROVE  NotesSent'
<1>1. job' = [j \in Jobs |-> Requeued(j)] /\ UNCHANGED delivery
  BY DEF RestartMoves
<1>2. ASSUME NEW j \in Jobs
      PROVE  /\ Requeued(j) \in {NoJob} \union
                   [state : {"WAITING", "SENDING", "REFUSED", "ACCEPTED", "EXHAUSTED"},
                    of : Channels, made : Nat]
             /\ Requeued(j).state # "ACCEPTED"
  <2>1. job[j] \in {NoJob} \union
                   [state : {"WAITING", "SENDING", "REFUSED", "ACCEPTED", "EXHAUSTED"},
                    of : Channels, made : Nat]
    BY DEF NotesSent
  <2>2. CASE job[j] = NoJob
    BY <2>2 DEF Requeued, Running, NoJob
  <2>3. CASE job[j] # NoJob
    BY <2>1, <2>3 DEF Requeued, Running, NoJob
  <2> QED
    BY <2>2, <2>3
<1>3. SentMeansAccepted'
  BY <1>1 DEF NotesSent, SentMeansAccepted
<1> QED
  BY <1>1, <1>2, <1>3 DEF NotesSent

-----------------------------------------------------------------------------
(* The ledger of points.                                                   *)

Ledger == points \in Seq(Range(points)) /\ \A i \in DOMAIN points : points[i].amount \in Int

GameInv == Ledger /\ (\A e \in event : e.name \in DOMAIN Award) /\ PointsMatchEvents

LEMMA GameKept ==
  ASSUME GameInv, UNCHANGED <<points, balance>>, \A e \in event' : e.name \in DOMAIN Award
  PROVE  GameInv'
BY DEF GameInv, Ledger, PointsMatchEvents, Signed

\* A new row adds its amount to what was given, or to what was taken back.
LEMMA SignedGrows ==
  ASSUME Ledger, NEW t, t.amount \in Int, points' = Append(points, t), NEW sign \in {1, -1}
  PROVE  /\ Signed(sign) \in Nat
         /\ Signed(sign)' = Signed(sign) + AtLeastZero(sign * t.amount)
<1> DEFINE n == Len(points)
           f == [i \in DOMAIN points |-> sign * points[i].amount]
           g == [i \in DOMAIN points' |-> sign * points'[i].amount]
<1>1. n \in Nat /\ DOMAIN points = 1 .. n
  BY LenProperties DEF Ledger
<1>2. points \in Seq(Range(points) \cup {t})
  BY SeqMonotonic DEF Ledger
<1>3. /\ points' \in Seq(Range(points) \cup {t}) /\ Len(points') = n + 1
      /\ \A i \in 1 .. n : points'[i] = points[i]
      /\ points'[n + 1] = t
  BY <1>2, AppendProperties
<1>4. DOMAIN points' = 1 .. n + 1
  BY <1>3, LenProperties
<1>5. IsFiniteSet(1 .. n)
  BY <1>1, FS_Interval
<1>6. \A i \in 1 .. n : f[i] \in Int /\ g[i] = f[i]
  BY <1>1, <1>3, <1>4 DEF Ledger
<1>7. g[n + 1] = sign * t.amount /\ g[n + 1] \in Int
  BY <1>1, <1>3, <1>4
<1>8. n + 1 \notin 1 .. n /\ 1 .. n + 1 = (1 .. n) \cup {n + 1}
  BY <1>1
<1> HIDE DEF f, g
<1>9. Total(1 .. n, f) \in Nat
  BY <1>5, <1>6, TotalType
<1>10. Total(1 .. n, g) = Total(1 .. n, f)
  BY <1>6, TotalSame
<1>11. Total((1 .. n) \cup {n + 1}, g) = Total(1 .. n, g) + AtLeastZero(g[n + 1])
  <2>1. \A i \in 1 .. n : g[i] \in Int
    BY <1>6
  <2>2. n + 1 \notin 1 .. n /\ g[n + 1] \in Int
    BY <1>7, <1>8
  <2> DEFINE S == 1 .. n
             m == n + 1
  <2>3. /\ IsFiniteSet(S) /\ m \notin S /\ g[m] \in Int
        /\ \A i \in S : g[i] \in Int
    BY <1>5, <2>1, <2>2
  <2> HIDE DEF S, m
  <2>4. Total(S \cup {m}, g) = Total(S, g) + AtLeastZero(g[m])
    BY ONLY <2>3, TotalAdd
  <2> QED
    BY <2>4 DEF S, m
<1>12. Signed(sign) = Total(1 .. n, f) /\ Signed(sign)' = Total(1 .. n + 1, g)
  BY <1>1, <1>4 DEF Signed, f, g
<1> QED
  BY <1>7, <1>8, <1>9, <1>10, <1>11, <1>12

\* A transaction that was not recorded before, and takes back only what was given.
LEMMA PointsAdded ==
  ASSUME GameInv, NEW t, t.amount \in Int, points' = Append(points, t),
         balance' = balance + t.amount,
         t.of = "NOTHING" \/ ~Recorded(t.of, t.reason),
         t.reason = "CHARGE_PAID_REVERSED" => Recorded(t.of, "CHARGE_PAID"),
         event' \subseteq event
  PROVE  GameInv' /\ \A r, reason : Recorded(r, reason) => Recorded(r, reason)'
<1> DEFINE n == Len(points)
<1>1. n \in Nat /\ DOMAIN points = 1 .. n
  BY LenProperties DEF GameInv, Ledger
<1>2. points \in Seq(Range(points) \cup {t})
  BY SeqMonotonic DEF GameInv, Ledger
<1>3. /\ points' \in Seq(Range(points) \cup {t}) /\ Len(points') = n + 1
      /\ \A i \in 1 .. n : points'[i] = points[i]
      /\ points'[n + 1] = t
  BY <1>2, AppendProperties
<1>4. DOMAIN points' = 1 .. n + 1
  BY <1>3, LenProperties
<1>5. points' \in Seq(Range(points'))
  BY <1>3, SeqOfRange
<1>6. \A i \in DOMAIN points' : i \in 1 .. n \/ i = n + 1
  BY <1>1, <1>4
<1>7. Ledger'
  BY <1>1, <1>3, <1>5, <1>6 DEF Ledger, GameInv
<1>8. balance' = Signed(1)' - Signed(-1)'
  <2>1. /\ Signed(1) \in Nat /\ Signed(1)' = Signed(1) + AtLeastZero(1 * t.amount)
        /\ Signed(-1) \in Nat /\ Signed(-1)' = Signed(-1) + AtLeastZero(-1 * t.amount)
    BY SignedGrows DEF GameInv
  <2>2. balance = Signed(1) - Signed(-1)
    BY DEF GameInv, PointsMatchEvents
  <2> QED
    BY <2>1, <2>2 DEF AtLeastZero
<1>9. \A i, j \in DOMAIN points' :
          points'[i].of # "NOTHING" /\ points'[i].of = points'[j].of
          /\ points'[i].reason = points'[j].reason => i = j
  <2>1. ASSUME NEW i \in 1 .. n, points[i].of # "NOTHING", points[i].of = t.of,
               points[i].reason = t.reason
        PROVE  FALSE
    BY <1>1, <2>1 DEF Recorded
  <2> QED
    BY <1>1, <1>3, <1>6, <2>1 DEF GameInv, PointsMatchEvents
<1>10. ASSUME NEW i \in DOMAIN points', points'[i].reason = "CHARGE_PAID_REVERSED"
       PROVE  \E j \in 1 .. i - 1 :
                  points'[j].of = points'[i].of /\ points'[j].reason = "CHARGE_PAID"
  <2>1. CASE i \in 1 .. n
    <3>1. PICK j \in 1 .. i - 1 : points[j].of = points[i].of /\ points[j].reason = "CHARGE_PAID"
      BY <1>1, <1>3, <1>10, <2>1 DEF GameInv, PointsMatchEvents
    <3>2. j \in 1 .. n
      BY <1>1, <2>1
    <3> QED
      BY <1>3, <2>1, <3>1, <3>2
  <2>2. CASE i = n + 1
    <3>1. PICK j \in 1 .. n : points[j].of = t.of /\ points[j].reason = "CHARGE_PAID"
      BY <1>1, <1>3, <1>10, <2>2 DEF Recorded
    <3>2. j \in 1 .. i - 1
      BY <1>1, <2>2
    <3> QED
      BY <1>3, <2>2, <3>1, <3>2
  <2> QED
    BY <1>6, <2>1, <2>2
<1>11. \A r, reason : Recorded(r, reason) => Recorded(r, reason)'
  <2>1. \A i \in DOMAIN points : i \in DOMAIN points' /\ points'[i] = points[i]
    BY <1>1, <1>3, <1>4
  <2> QED
    BY <2>1 DEF Recorded
<1> QED
  BY <1>7, <1>8, <1>9, <1>10, <1>11 DEF GameInv, PointsMatchEvents

LEMMA GameEventsKept ==
  ASSUME PlatformInv, GameInv, UNCHANGED <<table, flats, inboxVars>>,
         NEW r, PaymentApproved(r) \/ PaymentUndone(r) \/ CaseStatusChanged(r),
         UNCHANGED <<call, points, balance>>
  PROVE  Proceeds /\ GameInv'
<1>1. Grows /\ UNCHANGED table
  BY DEF Grows, inboxVars, Recorded
<1>2. \A e \in event' : e.name \in DOMAIN Award
  <2>1. PICK name \in DOMAIN Award : UNCHANGED event \/ Emit(r, name)
    BY DEF PaymentApproved, PaymentUndone, CaseStatusChanged, Award
  <2> QED
    BY <2>1 DEF Emit, GameInv
<1> QED
  BY <1>1, <1>2, Unmoved, NoCallMade, GameKept DEF PlatformInv

LEMMA EventHandled ==
  ASSUME PlatformInv, GameInv, UNCHANGED <<table, flats, inboxVars>>, NEW c \in Calls,
         NEW e \in event, HandleEvent(c, e)
  PROVE  Proceeds /\ GameInv'
<1> DEFINE op == IF e.name = "CHARGE_PAID_REVERSED" THEN "CLAWBACK" ELSE "AWARD"
           k == [op |-> op, of |-> e.of, reason |-> e.name]
<1>1. Grows /\ UNCHANGED table
  BY DEF Grows, inboxVars, Recorded, HandleEvent
<1>2. e.name \in DOMAIN Award
  BY DEF GameInv
<1>3. /\ k.op \in {"CLAWBACK", "AWARD"} /\ DOMAIN k = {"op", "of", "reason"}
      /\ k.reason \in DOMAIN Award
      /\ k.op = "CLAWBACK" <=> k.reason = "CHARGE_PAID_REVERSED"
  BY <1>2
<1>4. call[c] = Idle /\ call' = [call EXCEPT ![c] = k]
  BY DEF HandleEvent
<1> HIDE DEF k
<1>5. Sound(k) /\ k.op # "SUSPENSION"
  BY <1>3 DEF Sound, OnItsRow, Remembers, Awarded, Telling, PlainOps, FraudOps, ComplianceOps,
              CaseOps, UnitOps
<1>6. Proceeds
  BY <1>1, <1>4, <1>5, Starting
<1>7. \A d \in event' : d.name \in DOMAIN Award
  BY DEF HandleEvent, GameInv
<1> QED
  BY <1>6, <1>7, GameKept DEF HandleEvent

\* A request of gamification turns to what it does next.
LEMMA TurningTo ==
  ASSUME PlatformInv, Grows, UNCHANGED table, NEW c \in Calls, NEW op, Turns(c, op),
         call[c].op \in {"CLAWBACK", "AWARD", "INSERT", "UNLOCK", "UNLOCKING", "SCORE"},
         op \in {"AWARD", "INSERT"} =>
             /\ {"of", "reason"} \subseteq DOMAIN call[c] /\ call[c].reason \in DOMAIN Award
             /\ call[c].reason = "CHARGE_PAID_REVERSED" => Recorded(call[c].of, "CHARGE_PAID"),
         op \in {"AWARD", "INSERT", "UNLOCK", "UNLOCKING", "SCORE"}
  PROVE  Proceeds
<1> DEFINE k == [call[c] EXCEPT !.op = op]
<1>1. "op" \in DOMAIN call[c] /\ call[c].op # "TELL"
  BY InHand DEF PlatformInv, Sound, Remembers
<1>2. /\ k.op = op /\ DOMAIN k = DOMAIN call[c]
      /\ k.reason = call[c].reason /\ k.of = call[c].of
      /\ call' = [call EXCEPT ![c] = k]
  BY <1>1 DEF Turns
<1> HIDE DEF k
<1>3. Sound(k) /\ k.op # "SUSPENSION"
  BY <1>1, <1>2 DEF Sound, OnItsRow, Remembers, Awarded, Telling, PlainOps, FraudOps, ComplianceOps,
                   CaseOps, UnitOps
<1> QED
  BY <1>1, <1>2, <1>3, Keeping

LEMMA PointsCounted ==
  ASSUME PlatformInv, UNCHANGED <<table, flats, inboxVars>>, NEW c \in Calls, CountPrior(c)
  PROVE  Proceeds
<1> DEFINE b == PriorCount(call[c].reason) = 0
           k == [op |-> "INSERT", of |-> call[c].of, reason |-> call[c].reason, first |-> b]
<1>1. Grows /\ UNCHANGED table
  BY DEF Grows, inboxVars, Recorded, CountPrior
<1>2. /\ call[c].op = "AWARD" /\ call[c].reason \in DOMAIN Award
      /\ call[c].reason = "CHARGE_PAID_REVERSED" => Recorded(call[c].of, "CHARGE_PAID")
  BY InHand DEF PlatformInv, Sound, Remembers, Awarded, CountPrior
<1>3. call' = [call EXCEPT ![c] = k]
  BY DEF CountPrior
<1>4. /\ k.op = "INSERT" /\ {"op", "of", "reason"} \subseteq DOMAIN k
      /\ k.of = call[c].of /\ k.reason = call[c].reason
  OBVIOUS
<1> HIDE DEF k
<1>5. Sound(k) /\ k.op # "SUSPENSION"
  BY <1>2, <1>4 DEF Sound, OnItsRow, Remembers, Awarded, Telling, PlainOps, FraudOps, ComplianceOps,
                   CaseOps, UnitOps
<1> QED
  BY <1>1, <1>2, <1>3, <1>5, Keeping

LEMMA PointsAwarded ==
  ASSUME PlatformInv, GameInv, UNCHANGED <<table, flats, inboxVars, event>>, NEW c \in Calls, AwardXp(c)
  PROVE  Proceeds /\ GameInv'
<1>1. /\ call[c].op = "INSERT" /\ "op" \in DOMAIN call[c] /\ call[c].reason \in DOMAIN Award
      /\ call[c].reason = "CHARGE_PAID_REVERSED" => Recorded(call[c].of, "CHARGE_PAID")
  BY InHand DEF PlatformInv, Sound, Remembers, Awarded, AwardXp
<1>2. CASE DuplicateSuppressed(c)
  <2>1. UNCHANGED <<points, balance>> /\ Ends(c, "INSERT")
    BY <1>1, <1>2 DEF AwardXp, Ends
  <2>2. Grows
    BY <2>1 DEF Grows, inboxVars, Recorded
  <2>3. GameInv'
    BY <2>1, GameKept DEF GameInv
  <2> QED
    BY <2>1, <2>2, <2>3, Ending
<1>3. CASE ~DuplicateSuppressed(c)
  <2> DEFINE t == Transaction(call[c].of, call[c].reason)
  <2>1. /\ points' = Append(points, t) /\ balance' = balance + t.amount
        /\ \E op \in {"UNLOCK", "SCORE"} : Turns(c, op)
    BY <1>3 DEF AwardXp
  <2>2. t.of = call[c].of /\ t.reason = call[c].reason /\ t.amount \in Int
    BY <1>1 DEF Transaction, Award
  <2>3. ~Recorded(t.of, t.reason)
    BY <1>3, <2>2 DEF DuplicateSuppressed
  <2>4. t.reason = "CHARGE_PAID_REVERSED" => Recorded(t.of, "CHARGE_PAID")
    BY <1>1, <2>2
  <2> HIDE DEF t
  <2>5. GameInv' /\ \A r, reason : Recorded(r, reason) => Recorded(r, reason)'
    BY <2>1, <2>2, <2>3, <2>4, PointsAdded
  <2>6. Grows
    BY <2>5 DEF Grows, inboxVars
  <2> QED
    BY <1>1, <2>1, <2>5, <2>6, TurningTo
<1> QED
  BY <1>2, <1>3

\* What looks at the points and leaves them as they are.
LEMMA GameStepped ==
  ASSUME PlatformInv, GameInv, UNCHANGED <<table, flats, inboxVars, event>>, NEW c \in Calls, GameStep(c)
  PROVE  Proceeds /\ GameInv'
<1>1. ASSUME UNCHANGED <<points, balance>>
      PROVE  Grows /\ GameInv'
  BY <1>1, GameKept DEF Grows, inboxVars, Recorded, GameInv
<1>2. CASE ClawbackChargePaidXp(c)
  <2>1. /\ call[c].op = "CLAWBACK" /\ {"op", "of", "reason"} \subseteq DOMAIN call[c]
        /\ call[c].reason \in DOMAIN Award
    BY <1>2, InHand DEF PlatformInv, Sound, Remembers, ClawbackChargePaidXp
  <2>2. \/ Recorded(call[c].of, "CHARGE_PAID") /\ Turns(c, "AWARD")
        \/ Ends(c, "CLAWBACK")
    BY <1>2 DEF ClawbackChargePaidXp, Ends
  <2>3. UNCHANGED <<points, balance>>
    BY <1>2 DEF ClawbackChargePaidXp
  <2> QED
    BY <1>1, <2>1, <2>2, <2>3, TurningTo, Ending
<1>3. CASE CountPrior(c)
  BY <1>1, <1>3, PointsCounted DEF CountPrior
<1>4. CASE AwardXp(c)
  BY <1>4, PointsAwarded
<1>5. CASE UnlockAchievement(c)
  <2>1. UNCHANGED <<points, balance>>
    BY <1>5 DEF UnlockAchievement
  <2>2. \/ call[c].op \in {"UNLOCK", "UNLOCKING"}
           /\ \E op \in {"UNLOCKING", "SCORE"} : Turns(c, op)
        \/ Ends(c, "UNLOCKING")
    BY <1>5 DEF UnlockAchievement, Ends
  <2> QED
    BY <1>1, <2>1, <2>2, TurningTo, Ending
<1>6. CASE ApplyBuildingScoreDelta(c)
  <2>1. UNCHANGED <<points, balance>>
    BY <1>6 DEF ApplyBuildingScoreDelta
  <2>2. CASE Ends(c, "SCORED")
    BY <1>1, <2>1, <2>2, Ending
  <2>3. CASE call[c].op = "SCORE" /\ ~Ends(c, "SCORED")
    <3> DEFINE k == [op |-> "SCORED", reason |-> call[c].reason, before |-> score]
    <3>1. call' = [call EXCEPT ![c] = k] /\ call[c].op # "TELL"
      BY <1>6, <2>3 DEF ApplyBuildingScoreDelta
    <3>2. k.op \in Quiet /\ k.op # "SUSPENSION"
      BY DEF Quiet
    <3> HIDE DEF k
    <3> QED
      BY <1>1, <2>1, <3>1, <3>2, QuietSound, Keeping
  <2> QED
    BY <1>6, <2>2, <2>3 DEF ApplyBuildingScoreDelta
<1> QED
  BY <1>2, <1>3, <1>4, <1>5, <1>6 DEF GameStep

LEMMA GamificationProceeds ==
  ASSUME PlatformInv, GameInv, GamificationMoves
  PROVE  Proceeds /\ GameInv'
<1>1. UNCHANGED <<table, flats, inboxVars>>
  BY DEF GamificationMoves
<1>2. ASSUME NEW r, PaymentApproved(r) \/ PaymentUndone(r) \/ CaseStatusChanged(r),
             UNCHANGED <<call, points, balance>>
      PROVE  Proceeds /\ GameInv'
  BY <1>1, <1>2, GameEventsKept
<1>3. ASSUME NEW c \in Calls, NEW e \in event, HandleEvent(c, e)
      PROVE  Proceeds /\ GameInv'
  BY <1>1, <1>3, EventHandled
<1>4. ASSUME NEW c \in Calls, GameStep(c), UNCHANGED event
      PROVE  Proceeds /\ GameInv'
  BY <1>1, <1>4, GameStepped
<1>5. ASSUME NEW c \in Calls, AdjustBuildingScore(c), UNCHANGED event
      PROVE  Proceeds /\ GameInv'
  <2> DEFINE k == [op |-> "SCORE", reason |-> "CASE_RESOLVED"]
  <2>1. /\ UNCHANGED <<points, balance>> /\ call[c] = Idle /\ call' = [call EXCEPT ![c] = k]
    BY <1>5 DEF AdjustBuildingScore
  <2>2. k.op = "SCORE" /\ "op" \in DOMAIN k
    OBVIOUS
  <2> HIDE DEF k
  <2>3. Sound(k) /\ k.op # "SUSPENSION"
    BY <2>2 DEF Sound, OnItsRow, Remembers, Awarded, Telling, PlainOps, FraudOps, ComplianceOps,
                CaseOps, UnitOps
  <2>4. Grows /\ GameInv'
    BY <1>1, <1>5, <2>1, GameKept DEF Grows, inboxVars, Recorded, GameInv
  <2> QED
    BY <1>1, <2>1, <2>3, <2>4, Starting
<1>6. ASSUME AdjustXp(1), UNCHANGED event
      PROVE  Proceeds /\ GameInv'
  <2> DEFINE t == [of |-> "NOTHING", reason |-> "ADMIN_CORRECTION", amount |-> 1]
  <2>1. points' = Append(points, t) /\ balance' = balance + t.amount /\ UNCHANGED call
    BY <1>6 DEF AdjustXp
  <2>2. t.of = "NOTHING" /\ t.reason # "CHARGE_PAID_REVERSED" /\ t.amount \in Int
    OBVIOUS
  <2> HIDE DEF t
  <2>3. GameInv' /\ \A r, reason : Recorded(r, reason) => Recorded(r, reason)'
    BY <1>6, <2>1, <2>2, PointsAdded
  <2>4. Grows
    BY <1>1, <2>3 DEF Grows, inboxVars
  <2> QED
    BY <1>1, <2>1, <2>3, <2>4, Unmoved, NoCallMade DEF PlatformInv
<1>7. ASSUME GrantAchievement \/ RevokeAchievement, UNCHANGED event
      PROVE  Proceeds /\ GameInv'
  <2>1. UNCHANGED <<call, points, balance>>
    BY <1>7 DEF GrantAchievement, RevokeAchievement
  <2>2. Grows /\ GameInv'
    BY <1>1, <1>7, <2>1, GameKept DEF Grows, inboxVars, Recorded, GameInv
  <2> QED
    BY <1>1, <2>1, <2>2, Unmoved, NoCallMade DEF PlatformInv
<1> QED
  BY <1>2, <1>3, <1>4, <1>5, <1>6, <1>7 DEF GamificationMoves

LEMMA RestartKeepsPoints ==
  ASSUME GameInv, RestartMoves
  PROVE  GameInv'
BY GameKept DEF RestartMoves

-----------------------------------------------------------------------------
(* Who hears of what.                                                      *)

\* No suspension begins.
Unsuspending == \A c \in Calls : call'[c].op = "SUSPENSION" => call'[c] = call[c]

\* Who lets nothing through has been silent.
Preferred == \A r \in preference : r.on = {} => r.of \in silenced

\* A step gives one request something else to hold, whatever it held.
LEMMA OneCallHeld ==
  ASSUME PlatformInv, UNCHANGED table, Grows, NEW c \in Calls, NEW k, Sound(k)',
         call' = [call EXCEPT ![c] = k]
  PROVE  /\ Requested'
         /\ \A d \in Calls : call'[d] = IF d = c THEN k ELSE call[d]
<1>1. TableMoves
  BY Unmoved DEF PlatformInv
<1>2. \A d \in Calls : call'[d] = IF d = c THEN k ELSE call[d]
  BY DEF PlatformInv, Requested
<1>3. ASSUME NEW d \in Calls, NEW v \in {call'[d]}
      PROVE  Sound(v)'
  BY <1>1, <1>2, <1>3, StillSound DEF PlatformInv, Requested
<1> QED
  BY <1>2, <1>3 DEF PlatformInv, Requested

\* Whoever had heard of something, or wanted nothing, still has.
LEMMA StillTold ==
  ASSUME Grows
  PROVE  /\ \A a : Recipients(a)' = Recipients(a)
         /\ \A p, a : Told(p, a) => Told(p, a)'
BY DEF Grows, Told, Recipients, listCurrentMemberPersonIds, getCurrentOwnerPersonIds,
       listCurrentMemberPersonIdsByRoles

\* One recipient of an event moves on.
LEMMA OneMoves ==
  ASSUME PlatformInv, UNCHANGED <<table, said>>, Grows,
         NEW c \in Calls, NEW p, NEW s, NEW channels, call[c].op = "TELL", p \in DOMAIN call[c].at,
         Moves(c, p, s, channels), NEW b, b = call[c].of,
         s = "CREATE" /\ channels = {} => p \in silenced',
         s = "DONE" => Told(p, b)'
  PROVE  Requested' /\ Unsuspending /\ (NobodyIsSkipped => NobodyIsSkipped')
<1> SUFFICES ASSUME NEW at, at = [call[c].at EXCEPT ![p] = Step(s, channels)],
                    NEW k, k = [call[c] EXCEPT !.at = at]
             PROVE  Requested' /\ Unsuspending /\ (NobodyIsSkipped => NobodyIsSkipped')
  OBVIOUS
<1>1. Telling(call[c]) /\ "at" \in DOMAIN call[c]
  BY InHand DEF PlatformInv, Sound, Telling
<1>2. /\ k.op = "TELL" /\ k.of = b /\ k.at = at
      /\ "op" \in DOMAIN k /\ "at" \in DOMAIN k /\ "of" \in DOMAIN k
  BY <1>1 DEF Telling
<1>3. call' = [call EXCEPT ![c] = k]
  BY DEF Moves
<1>4. DOMAIN at = DOMAIN call[c].at
  OBVIOUS
<1>5. ASSUME NEW q \in DOMAIN at
      PROVE  /\ at[q].step = "CREATE" /\ at[q].channels = {} => q \in silenced'
             /\ at[q].step = "DONE" => Told(q, b)'
  <2>1. CASE q = p
    <3>1. at[q] = Step(s, channels)
      BY <2>1
    <3> QED
      BY <2>1, <3>1 DEF Step
  <2>2. CASE q # p
    <3>1. at[q] = call[c].at[q]
      BY <2>2
    <3>2. silenced \subseteq silenced' /\ (Told(q, b) => Told(q, b)')
      BY StillTold DEF Grows
    <3> QED
      BY <1>1, <1>4, <1>5, <3>1, <3>2 DEF Telling
  <2> QED
    BY <2>1, <2>2
<1>6. DOMAIN k.at = Recipients(k.of)'
  BY <1>1, <1>2, <1>4, StillTold DEF Telling
<1>7. Sound(k)'
  <2>1. Telling(k)'
    BY <1>2, <1>5, <1>6 DEF Telling
  <2> QED
    BY <1>2, <2>1 DEF Sound, OnItsRow, Remembers, Awarded, PlainOps, FraudOps, ComplianceOps,
                      CaseOps, UnitOps
<1>8. /\ Requested'
      /\ \A d \in Calls : call'[d] = IF d = c THEN k ELSE call[d]
  <2>1. PlatformInv /\ UNCHANGED table /\ Grows
    OBVIOUS
  <2> QED
    BY ONLY <1>3, <1>7, <2>1, c \in Calls, OneCallHeld
<1>9. Unsuspending
  BY <1>2, <1>8 DEF Unsuspending
<1>10. ASSUME NobodyIsSkipped, NEW a \in said'
       PROVE  \/ \E d \in Calls : call'[d].op = "TELL" /\ call'[d].of = a
              \/ \A q \in Recipients(a)' \ silenced' : \E n \in note' \union missed' : n.to = q /\ n.of = a
  <2>1. CASE \E d \in Calls : call[d].op = "TELL" /\ call[d].of = a
    BY <1>2, <1>8, <2>1
  <2>2. CASE \A q \in Recipients(a) \ silenced : \E n \in note \union missed : n.to = q /\ n.of = a
    BY <2>2, StillTold DEF Grows
  <2> QED
    BY <1>10, <2>1, <2>2 DEF NobodyIsSkipped
<1> QED
  BY <1>8, <1>9, <1>10 DEF NobodyIsSkipped

\* A step that leaves what is told to itself.
LEMMA NobodyMissed ==
  ASSUME Grows, UNCHANGED said,
         \A c \in Calls : call[c].op = "TELL" => call'[c] = call[c]
  PROVE  NobodyIsSkipped => NobodyIsSkipped'
<1>1. ASSUME NobodyIsSkipped, NEW a \in said'
      PROVE  \/ \E d \in Calls : call'[d].op = "TELL" /\ call'[d].of = a
             \/ \A q \in Recipients(a)' \ silenced' : \E n \in note' \union missed' : n.to = q /\ n.of = a
  <2>1. CASE \E d \in Calls : call[d].op = "TELL" /\ call[d].of = a
    BY <2>1
  <2>2. CASE \A q \in Recipients(a) \ silenced : \E n \in note \union missed : n.to = q /\ n.of = a
    BY <2>2, StillTold DEF Grows
  <2> QED
    BY <1>1, <2>1, <2>2 DEF NobodyIsSkipped
<1> QED
  BY <1>1 DEF NobodyIsSkipped

LEMMA NotifyingMany ==
  ASSUME PlatformInv, UNCHANGED <<table, points, flats>>, NEW c \in Calls, NEW a,
         NotifyMany(c, a)
  PROVE  Requested' /\ Unsuspending /\ (NobodyIsSkipped => NobodyIsSkipped')
<1> SUFFICES ASSUME NEW at, at = [p \in Recipients(a) |-> Step("READ", {})],
                    NEW l, l = [op |-> "TELL", of |-> a, at |-> at],
                    NEW k, k = IF Recipients(a) = {} THEN Idle ELSE l
             PROVE  Requested' /\ Unsuspending /\ (NobodyIsSkipped => NobodyIsSkipped')
  OBVIOUS
<1>1. Grows
  BY DEF Grows, NotifyMany, Recorded
<1>2. call[c] = Idle /\ call' = [call EXCEPT ![c] = k] /\ said' = said \union {a}
  BY DEF NotifyMany
<1>3. /\ l.op = "TELL" /\ l.of = a /\ l.at = at
      /\ "op" \in DOMAIN l /\ "of" \in DOMAIN l /\ "at" \in DOMAIN l
  OBVIOUS
<1>4. /\ DOMAIN at = Recipients(a) /\ Recipients(a)' = Recipients(a)
      /\ \A p \in DOMAIN at : at[p].step = "READ"
  BY <1>1, StillTold DEF Step
<1>5. k = IF Recipients(a) = {} THEN Idle ELSE l
  OBVIOUS
<1>6. Sound(l)'
  BY <1>3, <1>4 DEF Sound, OnItsRow, Remembers, Awarded, Telling, PlainOps, FraudOps, ComplianceOps,
                   CaseOps, UnitOps
<1>7. Sound(k)'
  BY <1>5, <1>6, IdleSound
<1>8. /\ Requested'
      /\ \A d \in Calls : call'[d] = IF d = c THEN k ELSE call[d]
  BY <1>1, <1>2, <1>7, OneCallHeld
<1>9. k.op # "SUSPENSION"
  BY <1>3, <1>5 DEF Idle
<1>10. Unsuspending
  BY <1>8, <1>9 DEF Unsuspending
<1>11. call[c].op # "TELL"
  BY <1>2 DEF Idle
<1>12. ASSUME NobodyIsSkipped, NEW b \in said'
       PROVE  \/ \E d \in Calls : call'[d].op = "TELL" /\ call'[d].of = b
              \/ \A q \in Recipients(b)' \ silenced' : \E n \in note' \union missed' : n.to = q /\ n.of = b
  <2>1. CASE b = a
    <3>1. CASE Recipients(a) = {}
      BY <1>4, <2>1, <3>1
    <3>2. CASE Recipients(a) # {}
      BY <1>3, <1>5, <1>8, <2>1, <3>2
    <3> QED
      BY <3>1, <3>2
  <2>2. CASE b \in said
    <3>1. CASE \E d \in Calls : call[d].op = "TELL" /\ call[d].of = b
      BY <1>8, <1>11, <3>1
    <3>2. CASE \A q \in Recipients(b) \ silenced : \E n \in note \union missed : n.to = q /\ n.of = b
      BY <1>1, <3>2, StillTold DEF Grows
    <3> QED
      BY <1>12, <2>2, <3>1, <3>2 DEF NobodyIsSkipped
  <2> QED
    BY <1>2, <1>12, <2>1, <2>2
<1> QED
  BY <1>8, <1>10, <1>12 DEF NobodyIsSkipped

LEMMA AllNotified ==
  ASSUME PlatformInv, UNCHANGED <<table, points, flats>>, NEW c \in Calls, Notified(c)
  PROVE  Requested' /\ Unsuspending /\ (NobodyIsSkipped => NobodyIsSkipped')
<1>1. Grows /\ UNCHANGED <<said, note, silenced, missed>>
  BY DEF Grows, Notified, inboxVars, Recorded
<1>2. /\ Requested'
      /\ \A d \in Calls : call'[d] = IF d = c THEN Idle ELSE call[d]
  BY <1>1, IdleSound, OneCallHeld DEF Notified
<1>3. Unsuspending
  BY <1>2 DEF Unsuspending, Idle
<1>4. call[c].op = "TELL" /\ \A p \in Recipients(call[c].of) : Told(p, call[c].of)
  BY InHand DEF PlatformInv, Sound, Telling, Notified, StepIs
<1>5. ASSUME NobodyIsSkipped, NEW a \in said'
      PROVE  \/ \E d \in Calls : call'[d].op = "TELL" /\ call'[d].of = a
             \/ \A q \in Recipients(a)' \ silenced' : \E n \in note' \union missed' : n.to = q /\ n.of = a
  <2>1. CASE a = call[c].of
    BY <1>1, <1>4, <2>1, StillTold DEF Told
  <2>2. CASE a # call[c].of /\ \E d \in Calls : call[d].op = "TELL" /\ call[d].of = a
    BY <1>2, <2>2
  <2>3. CASE \A q \in Recipients(a) \ silenced : \E n \in note \union missed : n.to = q /\ n.of = a
    BY <1>1, <2>3, StillTold
  <2> QED
    BY <1>1, <1>5, <2>1, <2>2, <2>3 DEF NobodyIsSkipped
<1> QED
  BY <1>2, <1>3, <1>5 DEF NobodyIsSkipped

LEMMA InboxProceeds ==
  ASSUME PlatformInv, Preferred, InboxMoves, UNCHANGED <<table, points, flats>>
  PROVE  TableMoves /\ Requested' /\ Unsuspending /\ Preferred' /\ (NobodyIsSkipped => NobodyIsSkipped')
<1>1. TableMoves
  BY Unmoved DEF PlatformInv
<1>2. ASSUME UNCHANGED inboxVars
      PROVE  Grows /\ Preferred'
  BY <1>2 DEF Grows, inboxVars, Recorded, Preferred
<1>3. ASSUME NEW c \in Calls, NEW a, NotifyMany(c, a)
      PROVE  Requested' /\ Unsuspending /\ Preferred' /\ (NobodyIsSkipped => NobodyIsSkipped')
  BY <1>3, NotifyingMany DEF NotifyMany, Preferred
<1>4. ASSUME NEW c \in Calls, Notified(c)
      PROVE  Requested' /\ Unsuspending /\ Preferred' /\ (NobodyIsSkipped => NobodyIsSkipped')
  BY <1>2, <1>4, AllNotified DEF Notified
<1>5. ASSUME NEW c \in Calls, NEW p, UNCHANGED inboxVars,
             call[c].op = "TELL", p \in DOMAIN call[c].at,
             \/ Moves(c, p, "MAKE", {})
             \/ \E r \in preference : r.of = p /\ Moves(c, p, "CREATE", r.on)
      PROVE  Requested' /\ Unsuspending /\ Preferred' /\ (NobodyIsSkipped => NobodyIsSkipped')
  <2>1. UNCHANGED said /\ silenced \subseteq silenced'
    BY <1>5 DEF inboxVars
  <2> QED
    BY <1>2, <1>5, <2>1, OneMoves DEF Preferred
<1>6. ASSUME NEW c \in Calls, NEW p, ReadPreference(c, p)
      PROVE  Requested' /\ Unsuspending /\ Preferred' /\ (NobodyIsSkipped => NobodyIsSkipped')
  BY <1>5, <1>6 DEF ReadPreference, PreferenceOf, StepIs
<1>7. ASSUME NEW c \in Calls, NEW p, RereadPreference(c, p)
       PROVE  Requested' /\ Unsuspending /\ Preferred' /\ (NobodyIsSkipped => NobodyIsSkipped')
  <2>1. /\ UNCHANGED <<member, owner, said, preference, note, silenced>>
        /\ call[c].op = "TELL" /\ p \in DOMAIN call[c].at
    BY <1>7 DEF RereadPreference, StepIs
  <2>2. CASE /\ UNCHANGED missed
             /\ \E r \in preference : r.of = p /\ Moves(c, p, "CREATE", r.on)
    BY <1>5, <2>1, <2>2 DEF inboxVars
  <2>3. CASE /\ missed' = missed \union {[to |-> p, of |-> call[c].of]}
             /\ Moves(c, p, "DONE", {})
    <3>1. Grows /\ Preferred'
      BY <2>1, <2>3 DEF Grows, Recorded, Preferred
    <3>2. ASSUME NEW b, b = call[c].of
          PROVE  Told(p, b)'
      <4>1. [to |-> p, of |-> b] \in note' \union missed'
        BY <2>3, <3>2
      <4> QED
        BY <4>1 DEF Told
    <3> QED
      BY <2>1, <2>3, <3>1, <3>2, OneMoves
  <2> QED
    BY <1>7, <2>2, <2>3 DEF RereadPreference, PreferenceOf
<1>8. ASSUME NEW c \in Calls, NEW p, MakePreference(c, p)
      PROVE  Requested' /\ Unsuspending /\ Preferred' /\ (NobodyIsSkipped => NobodyIsSkipped')
  <2>1. Grows /\ UNCHANGED <<said, silenced>>
    BY <1>8 DEF Grows, MakePreference, Recorded
  <2>2. DefaultChannels # {}
    BY DEF DefaultChannels
  <2>3. Preferred'
    BY <1>8, <2>2 DEF Preferred, MakePreference
  <2>4. /\ call[c].op = "TELL" /\ p \in DOMAIN call[c].at
        /\ Moves(c, p, "CREATE", DefaultChannels) \/ Moves(c, p, "REREAD", {})
    BY <1>8 DEF MakePreference, StepIs
  <2> QED
    BY <2>1, <2>2, <2>3, <2>4, OneMoves
<1>9. ASSUME NEW c \in Calls, NEW p, CreateNote(c, p)
      PROVE  Requested' /\ Unsuspending /\ Preferred' /\ (NobodyIsSkipped => NobodyIsSkipped')
  <2>1. /\ UNCHANGED <<member, owner, said, preference, silenced, missed>>
        /\ call[c].op = "TELL" /\ p \in DOMAIN call[c].at /\ call[c].at[p].step = "CREATE"
        /\ Moves(c, p, "DONE", {})
        /\ note' = IF call[c].at[p].channels = {} THEN note
                   ELSE note \union {[to |-> p, of |-> call[c].of]}
    BY <1>9 DEF CreateNote, StepIs
  <2>2. note \subseteq note'
    BY <2>1
  <2>3. Grows /\ Preferred'
    BY <2>1, <2>2 DEF Grows, Recorded, Preferred
  <2>4. ASSUME NEW b, b = call[c].of
        PROVE  Told(p, b)'
    <3>1. CASE call[c].at[p].channels = {}
      BY <2>1, <3>1, InHand DEF PlatformInv, Sound, Telling, Told
    <3>2. CASE call[c].at[p].channels # {}
      <4>1. [to |-> p, of |-> b] \in note' \union missed'
        BY <2>1, <2>4, <3>2
      <4> QED
        BY <4>1 DEF Told
    <3> QED
      BY <3>1, <3>2
  <2> QED
    BY <2>1, <2>3, <2>4, OneMoves
<1>10. ASSUME NEW p, UpdatePreferences(p)
      PROVE  Requested' /\ Unsuspending /\ Preferred' /\ (NobodyIsSkipped => NobodyIsSkipped')
  <2>1. silenced \subseteq silenced' /\ UNCHANGED <<call, member, owner, said, note, missed>>
    BY <1>10 DEF UpdatePreferences
  <2>2. Grows
    BY <2>1 DEF Grows, Recorded
  <2>3. Preferred'
    BY <1>10 DEF UpdatePreferences, Preferred
  <2>4. Proceeds
    BY <1>1, <2>1, <2>2, NoCallMade DEF PlatformInv
  <2> QED
    BY <2>1, <2>2, <2>3, <2>4, NobodyMissed DEF Proceeds, Unsuspending
<1> QED
  BY <1>1, <1>3, <1>4, <1>6, <1>7, <1>8, <1>9, <1>10 DEF InboxMoves

-----------------------------------------------------------------------------
(* The whole platform.                                                     *)

\* A restart forgets what is being told; where none happens, nobody is skipped.
InboxInv == Preferred /\ (scene \cap {"SWITCHES", "GAMIFICATION"} = {} => NobodyIsSkipped)

RowsInv == PlatformInv /\ UnitRows /\ History /\ NotesSent /\ GameInv /\ InboxInv

LEMMA InboxKept ==
  ASSUME InboxInv, UNCHANGED <<inboxVars, scene>>,
         scene \cap {"SWITCHES", "GAMIFICATION"} = {} => Apart
  PROVE  InboxInv'
<1>1. UNCHANGED <<member, owner, said, preference, note, silenced, missed>>
  BY DEF inboxVars
<1>2. Preferred'
  BY <1>1 DEF InboxInv, Preferred
<1>3. \A a : Recipients(a)' = Recipients(a)
  BY <1>1 DEF Recipients, listCurrentMemberPersonIds, getCurrentOwnerPersonIds,
              listCurrentMemberPersonIdsByRoles
<1>4. ASSUME NobodyIsSkipped, Apart
      PROVE  NobodyIsSkipped'
  <2>1. ASSUME NEW a \in said
        PROVE  \/ \E d \in Calls : call'[d].op = "TELL" /\ call'[d].of = a
               \/ \A q \in Recipients(a)' \ silenced' : \E n \in note' \union missed' : n.to = q /\ n.of = a
    <3>1. CASE \E d \in Calls : call[d].op = "TELL" /\ call[d].of = a
      BY <1>4, <3>1 DEF Apart
    <3>2. CASE \A q \in Recipients(a) \ silenced : \E n \in note \union missed : n.to = q /\ n.of = a
      BY <1>1, <1>3, <3>2
    <3> QED
      BY <1>4, <2>1, <3>1, <3>2 DEF NobodyIsSkipped
  <2> QED
    BY <1>1, <2>1 DEF NobodyIsSkipped
<1> QED
  BY <1>2, <1>4 DEF InboxInv

\* A step of the rows that are kept in the table.
LEMMA RowsKept ==
  ASSUME RowsInv, Proceeds, UNCHANGED <<noteVars, gameVars, inboxVars, unit, scene>>
  PROVE  RowsInv'
<1>1. History'
  BY UnitsKept, HistoryKept DEF RowsInv, Proceeds
<1>2. UnitRows'
  BY UnitsKept DEF RowsInv, UnitsMove
<1>3. NotesSent'
  BY NotesKept DEF RowsInv
<1>4. GameInv'
  BY GameKept DEF RowsInv, gameVars, GameInv
<1>5. InboxInv'
  BY InboxKept DEF RowsInv, Proceeds
<1> QED
  BY <1>1, <1>2, <1>3, <1>4, <1>5 DEF RowsInv, PlatformInv, Proceeds, TableMoves

LEMMA ApartEnough ==
  ASSUME Apart
  PROVE  Unsuspending
BY DEF Apart, Unsuspending

LEMMA BackOfficeKeeps ==
  ASSUME RowsInv, BackOfficeNext, UNCHANGED <<communityVars, scene>>
  PROVE  RowsInv' /\ TableMoves /\ (Suspends \/ Unsuspending)
<1>1. UNCHANGED <<noteVars, gameVars, inboxVars, unit, scene>>
  BY DEF communityVars
<1>2. CASE Proceeds
  BY <1>1, <1>2, RowsKept, ApartEnough DEF Proceeds
<1>3. CASE Suspends /\ TableMoves /\ Requested'
  <2>1. \A c \in Calls : call[c].op = "TELL" => call'[c] = call[c]
    BY <1>3 DEF Suspends, ChangeSuspensionReads, Idle, RowsInv, PlatformInv, Requested
  <2>2. History' /\ UnitRows' /\ NotesSent'
    BY <1>1, <1>3, UnitsKept, HistoryKept, NotesKept DEF RowsInv, UnitsMove
  <2>3. GameInv'
    BY <1>1, GameKept DEF RowsInv, gameVars, GameInv
  <2>4. InboxInv'
    <3>1. Preferred'
      BY <1>1 DEF RowsInv, InboxInv, Preferred, inboxVars
    <3>2. NobodyIsSkipped => NobodyIsSkipped'
      <4>1. Grows /\ UNCHANGED said
        BY <1>1 DEF Grows, communityVars, inboxVars, gameVars, Recorded
      <4> QED
        BY <2>1, <4>1, NobodyMissed
    <3> QED
      BY <3>1, <3>2 DEF RowsInv, InboxInv
  <2> QED
    BY <1>3, <2>2, <2>3, <2>4 DEF RowsInv, PlatformInv, TableMoves
<1> QED
  BY <1>2, <1>3, BackOfficeProceeds DEF RowsInv

LEMMA CommunityKeeps ==
  ASSUME RowsInv, CommunityNext, UNCHANGED scene
  PROVE  RowsInv' /\ TableMoves /\ Unsuspending
<1>1. CASE RecordMoves
  <2>1. UNCHANGED <<noteVars, gameVars, inboxVars, unit, scene>>
    BY <1>1 DEF RecordMoves, communityVars
  <2> QED
    BY <1>1, <2>1, RecordsProceed, RowsKept, ApartEnough DEF RowsInv, Proceeds
<1>2. CASE AdvertisingMoves
  <2>1. UNCHANGED <<noteVars, gameVars, inboxVars, unit, scene>>
    BY <1>2 DEF AdvertisingMoves
  <2> QED
    BY <1>2, <2>1, CampaignsProceed, RowsKept, ApartEnough DEF RowsInv, Proceeds
<1>3. CASE ChargeMoves
  <2>1. UNCHANGED <<noteVars, gameVars, inboxVars, unit, scene>>
    BY <1>3 DEF ChargeMoves
  <2> QED
    BY <1>3, <2>1, ChargesProceed, RowsKept, ApartEnough DEF RowsInv, Proceeds
<1>4. CASE SwitchMoves
  <2>1. UNCHANGED <<noteVars, gameVars, inboxVars, unit, scene>>
    BY <1>4 DEF SwitchMoves
  <2> QED
    BY <1>4, <2>1, SwitchesProceed, RowsKept, ApartEnough DEF RowsInv, Proceeds
<1>5. CASE PremisesMoves
  <2>1. Proceeds /\ UnitsMove
    BY <1>5, PremisesProceed DEF RowsInv
  <2>2. UNCHANGED <<noteVars, gameVars, inboxVars, scene>>
    BY <1>5 DEF PremisesMoves
  <2>3. History' /\ UnitRows' /\ NotesSent'
    BY <2>1, <2>2, HistoryKept, NotesKept DEF RowsInv, UnitsMove, Proceeds
  <2>4. GameInv' /\ InboxInv'
    BY <2>1, <2>2, GameKept, InboxKept DEF RowsInv, gameVars, GameInv, Proceeds
  <2> QED
    BY <2>1, <2>3, <2>4, ApartEnough DEF RowsInv, PlatformInv, Proceeds, TableMoves
<1>6. CASE scene \cap {"SWITCHES", "GAMIFICATION"} # {} /\ RestartMoves
  <2>1. UNCHANGED <<inboxVars, unit, scene>>
    BY <1>6 DEF RestartMoves
  <2>2. TableMoves /\ Requested'
    BY <1>6, RestartForgets DEF RowsInv
  <2>3. History' /\ UnitRows'
    BY <2>1, <2>2, UnitsKept, HistoryKept DEF RowsInv, UnitsMove
  <2>4. NotesSent' /\ GameInv' /\ InboxInv'
    BY <1>6, <2>1, RestartKeepsNotes, RestartKeepsPoints, InboxKept DEF RowsInv
  <2>5. Unsuspending
    BY <1>6 DEF Unsuspending, RestartMoves, Restart, Idle
  <2> QED
    BY <2>2, <2>3, <2>4, <2>5 DEF RowsInv, PlatformInv, TableMoves
<1>7. CASE NotificationMoves
  <2>1. UNCHANGED <<gameVars, inboxVars, unit, scene>>
    BY <1>7 DEF NotificationMoves
  <2>2. Proceeds /\ NotesSent'
    BY <1>7, NotificationsProceed DEF RowsInv
  <2>3. History' /\ UnitRows'
    BY <2>1, <2>2, UnitsKept, HistoryKept DEF RowsInv, UnitsMove, Proceeds
  <2>4. GameInv' /\ InboxInv'
    BY <2>1, <2>2, GameKept, InboxKept DEF RowsInv, gameVars, GameInv, Proceeds
  <2> QED
    BY <2>2, <2>3, <2>4, ApartEnough DEF RowsInv, PlatformInv, Proceeds, TableMoves
<1>8. CASE InboxMoves /\ UNCHANGED <<table, stored, switch, noteVars, gameVars, unit, flats>>
  <2>1. UNCHANGED <<table, points, flats, gameVars, noteVars, unit, scene>>
    BY <1>8 DEF gameVars
  <2>2. TableMoves /\ History' /\ UnitRows' /\ NotesSent'
    BY <2>1, Unmoved, UnitsKept, HistoryKept, NotesKept DEF RowsInv, PlatformInv, UnitsMove
  <2>3. GameInv'
    BY <2>1, GameKept DEF RowsInv, gameVars, GameInv
  <2>4. Requested' /\ Unsuspending /\ InboxInv'
    <3>1. Requested' /\ Unsuspending /\ Preferred' /\ (NobodyIsSkipped => NobodyIsSkipped')
      BY <1>8, <2>1, InboxProceeds DEF RowsInv, InboxInv
    <3> QED
      BY <2>1, <3>1 DEF RowsInv, InboxInv
  <2> QED
    BY <2>2, <2>3, <2>4 DEF RowsInv, PlatformInv, TableMoves
<1>9. CASE GamificationMoves
  <2>1. UNCHANGED <<noteVars, inboxVars, unit, scene>>
    BY <1>9 DEF GamificationMoves
  <2>2. Proceeds /\ GameInv'
    BY <1>9, GamificationProceeds DEF RowsInv
  <2>3. History' /\ UnitRows' /\ NotesSent'
    BY <2>1, <2>2, UnitsKept, HistoryKept, NotesKept DEF RowsInv, UnitsMove, Proceeds
  <2>4. InboxInv'
    BY <2>1, <2>2, InboxKept DEF RowsInv, Proceeds
  <2> QED
    BY <2>2, <2>3, <2>4, ApartEnough DEF RowsInv, PlatformInv, Proceeds, TableMoves
<1> QED
  BY <1>1, <1>2, <1>3, <1>4, <1>5, <1>6, <1>7, <1>8, <1>9 DEF CommunityNext

-----------------------------------------------------------------------------
(* Administrators.                                                         *)

PersonRows ==
    /\ DOMAIN person = Persons
    /\ \A p \in Persons : {"suspended", "rank", "overtaken"} \subseteq DOMAIN person[p]

\* No administrator was struck by an enforcement, or promoted while being suspended.
Undisturbed == \A p \in Persons : Admin(p) => ~SuspendedByEnforcement(p) /\ ~person[p].overtaken

\* Whoever suspends an administrator holds the lock, or read the account before it was one.
LockedOrOvertaken ==
    \A c \in Calls : call[c].op = "SUSPENSION" =>
        /\ call[c].target \in Persons
        /\ call[c].suspend /\ Admin(call[c].target) =>
               call[c].locks \/ person[call[c].target].overtaken

\* An administrator who can act, and whom no request is about to suspend.
Safe(p) ==
    /\ p \in Persons /\ Admin(p) /\ ~person[p].suspended
    /\ \A c \in Calls : call[c].op = "SUSPENSION" /\ call[c].suspend => call[c].target # p

AdminInv == PersonRows /\ LockedOrOvertaken /\ (Undisturbed => \E p \in Persons : Safe(p))

\* Administrators stay what they are, and what happened to them stays on record.
RanksKept ==
    \A p \in Persons :
        /\ Admin(p) => Admin(p)'
        /\ person[p].overtaken => person'[p].overtaken

\* Who was struck once stays struck.
LEMMA StillDisturbed ==
  ASSUME TableMoves, RanksKept, Undisturbed'
  PROVE  Undisturbed
<1>1. ASSUME NEW p \in Persons, Admin(p), SuspendedByEnforcement(p)
      PROVE  FALSE
  <2>1. PICK i \in Ids("ENFORCEMENT") : table[i].type = "ACCOUNT_SUSPENSION" /\ table[i].target = p
    BY <1>1 DEF SuspendedByEnforcement
  <2>2. /\ i \in DOMAIN table' /\ table'[i].kind = "ENFORCEMENT"
        /\ table'[i].type = "ACCOUNT_SUSPENSION" /\ table'[i].target = p
    BY <2>1 DEF Ids, TableMoves, Follows
  <2>3. SuspendedByEnforcement(p)'
    BY <2>2 DEF Ids, SuspendedByEnforcement
  <2> QED
    BY <1>1, <2>3 DEF Undisturbed, RanksKept
<1>2. ASSUME NEW p \in Persons, Admin(p), person[p].overtaken
      PROVE  FALSE
  BY <1>2 DEF Undisturbed, RanksKept
<1> QED
  BY <1>1, <1>2 DEF Undisturbed

\* Whoever was safe still is, or was struck.
LEMMA StaysSafe ==
  ASSUME AdminInv, TableMoves, PersonRows', LockedOrOvertaken', RanksKept,
         \A p \in Persons : Safe(p) => Safe(p)' \/ ~Undisturbed' \/ \E q \in Persons : Safe(q)'
  PROVE  AdminInv'
BY StillDisturbed DEF AdminInv

\* No suspension begins, and whoever is promoted is not being suspended or is put on record.
LEMMA AccountsKept ==
  ASSUME AdminInv, TableMoves, Unsuspending, PersonRows', RanksKept,
         \A p \in Persons : Admin(p)' => Admin(p) \/ ~BeingSuspended(p) \/ person'[p].overtaken,
         \A p \in Persons : Safe(p) => ~person'[p].suspended \/ ~Undisturbed'
  PROVE  AdminInv'
<1>1. ASSUME NEW p \in Persons, Safe(p), Undisturbed'
      PROVE  Safe(p)'
  BY <1>1 DEF Safe, Unsuspending, RanksKept
<1>2. ASSUME NEW c \in Calls, call'[c].op = "SUSPENSION", NEW t, t = call[c].target
      PROVE  /\ call'[c] = call[c] /\ t \in Persons
             /\ call[c].suspend /\ Admin(t)' => call[c].locks \/ person'[t].overtaken
  <2>1. call'[c] = call[c] /\ t \in Persons
    BY <1>2 DEF Unsuspending, AdminInv, LockedOrOvertaken
  <2>2. CASE Admin(t)
    BY <1>2, <2>1, <2>2 DEF AdminInv, LockedOrOvertaken, RanksKept
  <2>3. CASE ~Admin(t)
    BY <1>2, <2>1, <2>3 DEF BeingSuspended
  <2> QED
    BY <2>1, <2>2, <2>3
<1>3. LockedOrOvertaken'
  BY <1>2 DEF LockedOrOvertaken, Admin
<1> QED
  BY <1>1, <1>3, StaysSafe

LEMMA PersonsKept ==
  ASSUME AdminInv, TableMoves, Unsuspending, UNCHANGED person
  PROVE  AdminInv'
BY AccountsKept DEF AdminInv, PersonRows, RanksKept, Admin, Safe

\* The account of t is suspended or not from now on.
LEMMA SuspensionWritten ==
  ASSUME AdminInv, TableMoves, Unsuspending, NEW t, NEW v,
         person' = [person EXCEPT ![t].suspended = v],
         v # FALSE => ~Safe(t) \/ ~Undisturbed'
  PROVE  AdminInv'
<1>1. PersonRows
  BY DEF AdminInv
<1>2. /\ PersonRows'
      /\ \A p \in Persons : /\ person'[p].rank = person[p].rank
                            /\ person'[p].overtaken = person[p].overtaken
  BY <1>1 DEF PersonRows
<1>3. \A p \in Persons : person'[p].suspended = IF p = t THEN v ELSE person[p].suspended
  BY <1>1 DEF PersonRows
<1>4. ASSUME NEW p \in Persons, Safe(p)
      PROVE  ~person'[p].suspended \/ ~Undisturbed'
  BY <1>3, <1>4 DEF Safe
<1> QED
  BY <1>2, <1>4, AccountsKept DEF Admin, RanksKept

\* The last administrator who can act is not suspended, not even by a request that counts
\* one who is about to be, unless that one became an administrator meanwhile.
LEMMA SuspensionSpares ==
  ASSUME AdminInv, PlatformInv, TableMoves, Suspends
  PROVE  AdminInv'
<1>1. PICK c \in Calls, a, t \in Persons, suspend \in BOOLEAN : ChangeSuspensionReads(c, a, t, suspend)
  BY DEF Suspends
<1> DEFINE k == [op |-> "SUSPENSION", target |-> t, suspend |-> suspend, locks |-> suspend /\ Admin(t)]
<1>2. UNCHANGED person /\ \A d \in Calls : call'[d] = IF d = c THEN k ELSE call[d]
  BY <1>1 DEF ChangeSuspensionReads, PlatformInv, Requested
<1>3. \A d \in Calls : call'[d].op = "SUSPENSION" /\ call'[d].suspend =>
          \/ call[d].op = "SUSPENSION" /\ call[d].suspend /\ call'[d].target = call[d].target
          \/ suspend /\ call'[d].target = t
  BY <1>2
<1>4. PersonRows' /\ RanksKept
  BY <1>2 DEF AdminInv, PersonRows, RanksKept, Admin
<1>5. LockedOrOvertaken'
  BY <1>2 DEF AdminInv, LockedOrOvertaken, Admin
<1>6. CASE ~suspend \/ ~Admin(t)
  <2>1. \A p \in Persons : Safe(p) => Safe(p)'
    BY <1>2, <1>3, <1>6 DEF Safe, Admin
  <2> QED
    BY <1>4, <1>5, <2>1, StaysSafe
<1>7. CASE suspend /\ Admin(t)
  <2>1. UsabilityLockFree /\ OtherUsableAdmins(t) # {}
    BY <1>1, <1>7 DEF ChangeSuspensionReads, LastAdminKept
  <2>2. PICK q \in Persons \ {t} : Admin(q) /\ ~person[q].suspended
    BY <2>1 DEF OtherUsableAdmins
  <2>3. ASSUME Undisturbed'
        PROVE  Safe(q)'
    <3>1. Undisturbed
      BY <1>4, <2>3, StillDisturbed
    <3>2. \A d \in Calls : call[d].op = "SUSPENSION" /\ call[d].suspend => call[d].target # q
      BY <2>1, <2>2, <3>1 DEF UsabilityLockFree, AdminInv, LockedOrOvertaken, Undisturbed
    <3> QED
      BY <1>2, <1>3, <2>2, <3>2 DEF Safe, Admin
  <2> QED
    BY <1>4, <1>5, <2>3, StaysSafe
<1> QED
  BY <1>6, <1>7

LEMMA RowThere ==
  ASSUME Rows, NEW r, Insert(r)
  PROVE  \E i \in DOMAIN table' : table'[i] = r
<1> DEFINE n == Len(table)
<1>1. n \in Nat /\ DOMAIN table = 1 .. n
  BY RowsNumbered
<1>2. table \in Seq(Range(table) \cup {r})
  BY SeqMonotonic DEF Rows
<1>3. /\ table' \in Seq(Range(table) \cup {r}) /\ Len(table') = n + 1
      /\ table'[n + 1] = r
  BY <1>2, AppendProperties DEF Insert
<1>4. DOMAIN table' = 1 .. n + 1
  BY <1>3, LenProperties
<1> QED
  BY <1>1, <1>3, <1>4

\* An enforcement strikes the account it suspends.
LEMMA EnforcementSpares ==
  ASSUME AdminInv, Rows, TableMoves, Unsuspending, NEW i, NEW key, NEW a, NEW type, NEW x,
         Enforce(i, key, a, type, x)
  PROVE  AdminInv'
<1> DEFINE e == EnforcementAction(i, key, type, x)
<1>1. e.type = type /\ e.target = x /\ e.kind = "ENFORCEMENT"
  BY DEF EnforcementAction
<1>2. EnforcementEffect(e)
  BY DEF Enforce
<1>3. CASE type = "ACCOUNT_SUSPENSION"
  <2> DEFINE r == [e EXCEPT !.before = person[x].suspended]
  <2>1. Open(r) /\ person' = [person EXCEPT ![x].suspended = TRUE]
    BY <1>1, <1>2, <1>3 DEF EnforcementEffect
  <2>2. r.type = type /\ r.target = x /\ r.kind = "ENFORCEMENT"
    BY DEF EnforcementAction
  <2> HIDE DEF r
  <2>3. SuspendedByEnforcement(x)'
    <3>1. PICK j \in DOMAIN table' : table'[j] = r
      BY <2>1, RowThere DEF Open
    <3> QED
      BY <1>3, <2>2, <3>1 DEF SuspendedByEnforcement, Ids
  <2>4. Safe(x) => x \in Persons /\ Admin(x)'
    BY <2>1 DEF Safe, Admin, AdminInv, PersonRows
  <2>5. TRUE # FALSE => ~Safe(x) \/ ~Undisturbed'
    BY <2>3, <2>4 DEF Undisturbed
  <2> QED
    BY <2>1, <2>5, SuspensionWritten
<1>4. CASE type # "ACCOUNT_SUSPENSION"
  <2> HIDE DEF e
  <2>1. UNCHANGED person
    BY <1>1, <1>2, <1>4 DEF EnforcementEffect, StandingUnchanged
  <2> QED
    BY <2>1, PersonsKept
<1> QED
  BY <1>3, <1>4

LEMMA BackOfficeSpares ==
  ASSUME AdminInv, PlatformInv, TableMoves, BackOfficeNext, Suspends \/ Unsuspending
  PROVE  AdminInv'
<1>1. CASE Suspends
  BY <1>1, SuspensionSpares
<1>2. CASE ~Suspends /\ UNCHANGED person
  BY <1>2, PersonsKept
<1>3. ASSUME NEW c \in Calls, ~Suspends, ChangeSuspensionWrites(c)
      PROVE  AdminInv'
  <2>1. /\ call[c].op = "SUSPENSION" /\ call[c].suspend \in BOOLEAN
        /\ UNCHANGED person \/ person' = [person EXCEPT ![call[c].target].suspended = call[c].suspend]
    BY <1>3, InHand DEF ChangeSuspensionWrites, Ends, PlatformInv, Sound, Remembers
  <2>2. call[c].suspend # FALSE => ~Safe(call[c].target)
    BY <2>1 DEF Safe
  <2> QED
    BY <1>3, <2>1, <2>2, PersonsKept, SuspensionWritten
<1>4. ASSUME NEW a, NEW t, ~Suspends, SetBackofficeApproval(a, t)
      PROVE  AdminInv'
  <2>1. person' = [person EXCEPT ![t].approved = ~@]
    BY <1>4 DEF SetBackofficeApproval
  <2>2. /\ PersonRows'
        /\ \A p \in Persons : /\ person'[p].rank = person[p].rank
                              /\ person'[p].suspended = person[p].suspended
                              /\ person'[p].overtaken = person[p].overtaken
    BY <2>1 DEF AdminInv, PersonRows
  <2> QED
    BY <1>4, <2>2, AccountsKept DEF Admin, Safe, RanksKept
<1>5. ASSUME NEW p, ~Suspends, Bootstrap(p)
      PROVE  AdminInv'
  <2>1. person' = [person EXCEPT ![p].rank = MaxRank, ![p].overtaken = @ \/ BeingSuspended(p)]
    BY <1>5 DEF Bootstrap, CreateBootstrapAdmin
  <2>2. /\ PersonRows'
        /\ \A q \in Persons :
               /\ person'[q].rank = IF q = p THEN MaxRank ELSE person[q].rank
               /\ person'[q].suspended = person[q].suspended
               /\ person[q].overtaken => person'[q].overtaken
               /\ q = p /\ BeingSuspended(p) => person'[q].overtaken
    BY <2>1 DEF AdminInv, PersonRows
  <2>3. RanksKept
    BY <2>2 DEF RanksKept, Admin
  <2>4. \A q \in Persons : Admin(q)' => Admin(q) \/ ~BeingSuspended(q) \/ person'[q].overtaken
    BY <2>2 DEF Admin
  <2>5. \A q \in Persons : Safe(q) => ~person'[q].suspended
    BY <2>2 DEF Safe
  <2> QED
    BY <1>5, <2>2, <2>3, <2>4, <2>5, AccountsKept
<1>6. ASSUME NEW i, ~Suspends, OverturnEnforcement(i)
      PROVE  AdminInv'
  <2> DEFINE k == table[i]
  <2>1. Restored(k)
    BY <1>6 DEF OverturnEnforcement
  <2>2. CASE k.type = "ACCOUNT_SUSPENSION"
    <3>1. person[k.target].suspended /\ person' = [person EXCEPT ![k.target].suspended = k.before]
      BY <2>1, <2>2 DEF Restored
    <3>2. k.before # FALSE => ~Safe(k.target)
      BY <3>1 DEF Safe
    <3> QED
      BY <1>6, <3>1, <3>2, SuspensionWritten
  <2>3. CASE k.type # "ACCOUNT_SUSPENSION"
    <3>1. UNCHANGED person
      BY <2>1, <2>3 DEF Restored, StandingUnchanged
    <3> QED
      BY <1>6, <3>1, PersonsKept
  <2> QED
    BY <2>2, <2>3
<1>7. CASE ~Suspends /\ DeskMoves
  BY <1>2, <1>7 DEF DeskMoves, StandingUnchanged
<1>8. CASE ~Suspends /\ AccountMoves
  BY <1>3, <1>4, <1>8 DEF AccountMoves, SuspendPerson, ReinstatePerson, Suspends
<1>9. CASE ~Suspends /\ RoleMoves
  BY <1>2, <1>5, <1>9 DEF RoleMoves, AssignRole, RevokeRole, GrantPermission, RevokePermission,
                          StandingUnchanged
<1>10. CASE ~Suspends /\ BuildingMoves
  BY <1>2, <1>10 DEF BuildingMoves, EvaluateNewBuilding, WriteBuildingStatus, AssignBuildingCase,
                     DecideBuildingCase, AppealBuilding, LockBuilding, ReinstateBuilding,
                     StandingUnchanged
<1>11. CASE ~Suspends /\ ManagerMoves
  BY <1>2, <1>11 DEF ManagerMoves, InitiateForProvisionalManager, AppealManager, CreateManagerAppeal,
                     EndManagement, ChangeManager, DecideManagerCase, ManagerCaseDecided,
                     ApproveByOwner, CastApproval, RestoreManagement, RestoreManager,
                     StandingUnchanged
<1>12. CASE ~Suspends /\ ConductMoves
  <2>1. ASSUME NEW i, NEW key, NEW a, NEW type, NEW x, Enforce(i, key, a, type, x)
        PROVE  AdminInv'
    BY <1>12, <2>1, EnforcementSpares DEF PlatformInv
  <2>2. ASSUME NEW i, RequestAppeal(i) \/ UpholdEnforcement(i)
        PROVE  AdminInv'
    BY <1>2, <1>12, <2>2 DEF RequestAppeal, UpholdEnforcement, StandingUnchanged
  <2> QED
    BY <1>6, <1>12, <2>1, <2>2 DEF ConductMoves, AppealEnforcement
<1> QED
  BY <1>1, <1>7, <1>8, <1>9, <1>10, <1>11, <1>12 DEF BackOfficeNext

-----------------------------------------------------------------------------
(* The beginning.                                                          *)

LEMMA OneRow ==
  ASSUME NEW r, IsRow(r), table = <<r>>
  PROVE  Rows /\ DOMAIN table = {1} /\ table[1] = r
<1>1. <<r>> \in Seq({r}) /\ Len(<<r>>) = 1 /\ <<r>>[1] = r
  OBVIOUS
<1>2. DOMAIN table = 1 .. 1
  BY <1>1, LenProperties
<1>3. table \in Seq(Range(table))
  BY <1>1, SeqOfRange
<1> QED
  BY <1>1, <1>2, <1>3 DEF Rows

LEMMA NoRow ==
  ASSUME table = <<>>
  PROVE  Rows /\ DOMAIN table = {}
<1>1. <<>> \in Seq({}) /\ Len(<<>>) = 0
  OBVIOUS
<1>2. DOMAIN table = 1 .. 0
  BY <1>1, LenProperties
<1>3. table \in Seq(Range(table))
  BY <1>1, SeqOfRange
<1> QED
  BY <1>2, <1>3 DEF Rows

\* The rows there are at first.
LEMMA FirstRows ==
  ASSUME PlatformInit
  PROVE  /\ Rows /\ UnitRows /\ History
         /\ \A i, j \in DOMAIN table : i = j
<1>1. unit = [u \in Units |-> Skeleton]
  BY DEF PlatformInit, CommunityInit, PremisesInit
<1>2. UnitRows /\ \A u \in Units : Stands(u)
  BY <1>1 DEF UnitRows, Skeleton, Stands
<1>3. CASE table = <<>>
  BY <1>2, <1>3, NoRow DEF History, Ids
<1>4. ASSUME NEW x, table = <<Confirmed(x)>>
      PROVE  Rows /\ UnitRows /\ History /\ \A i, j \in DOMAIN table : i = j
  <2> DEFINE r == Confirmed(x)
  <2>1. Typed(r) /\ r.kind = "FRAUD" /\ "status" \in DOMAIN r
    BY DEF Confirmed, FraudCase, Typed
  <2> HIDE DEF r
  <2>2. IsRow(r)
    BY <2>1 DEF IsRow
  <2>3. table = <<r>>
    BY <1>4 DEF r
  <2>4. Rows /\ DOMAIN table = {1} /\ table[1] = r
    BY <2>2, <2>3, OneRow
  <2> QED
    BY <1>2, <2>1, <2>4 DEF History, Ids
<1>5. CASE table = <<Slot>>
  <2>1. Typed(Slot) /\ Slot.kind = "SLOT"
    BY DEF Slot, Typed
  <2>2. IsRow(Slot)
    BY <2>1 DEF IsRow
  <2>3. Rows /\ DOMAIN table = {1} /\ table[1] = Slot
    BY <1>5, <2>2, OneRow
  <2> QED
    BY <1>2, <2>1, <2>3 DEF History, Ids
<1>6. CASE table = <<Ownership(CHOOSE u \in Units : TRUE, Manager)>>
  <2> DEFINE u == CHOOSE v \in Units : TRUE
             r == Ownership(u, Manager)
  <2>1. u \in Units
    BY PremisesAssumption
  <2>2. Typed(r) /\ r.kind = "OWNERSHIP" /\ "unit" \in DOMAIN r /\ r.unit = u
    BY DEF Ownership, Typed
  <2> HIDE DEF r, u
  <2>3. IsRow(r)
    BY <2>2 DEF IsRow
  <2>4. table = <<r>>
    BY <1>6 DEF r, u
  <2>5. Rows /\ DOMAIN table = {1} /\ table[1] = r
    BY <2>3, <2>4, OneRow
  <2> QED
    BY <1>2, <2>1, <2>2, <2>5 DEF History, Ids
<1> QED
  BY <1>3, <1>4, <1>5, <1>6 DEF PlatformInit, BackOfficeInit, StartOf

LEMMA FirstRequests ==
  ASSUME PlatformInit
  PROVE  Requested
<1>1. call = [c \in Calls |-> Idle]
  BY DEF PlatformInit, BackOfficeInit, StandingInit, StandingFrom
<1> QED
  BY <1>1, IdleSound DEF Requested

LEMMA FirstPoints ==
  ASSUME PlatformInit
  PROVE  NotesSent /\ GameInv /\ InboxInv
<1>1. /\ delivery = [ch \in Channels |-> NoDelivery] /\ job = [j \in Jobs |-> NoJob]
      /\ event = {} /\ points = <<>> /\ balance = 0
      /\ said = {} /\ preference = {}
  BY DEF PlatformInit, CommunityInit, OutreachInit, InboxInit
<1>2. NotesSent
  BY <1>1 DEF NotesSent, NoDelivery, NoJob, SentMeansAccepted, Channels
<1>3. <<>> \in Seq({}) /\ Len(<<>>) = 0
  OBVIOUS
<1>4. DOMAIN points = {}
  BY <1>1, <1>3, LenProperties
<1>5. points \in Seq(Range(points))
  BY <1>1, <1>3, SeqOfRange
<1>6. Signed(1) = 0 /\ Signed(-1) = 0
  BY <1>4, TotalEmpty DEF Signed
<1>7. GameInv
  BY <1>1, <1>4, <1>5, <1>6 DEF GameInv, Ledger, PointsMatchEvents
<1>8. InboxInv
  BY <1>1 DEF InboxInv, Preferred, NobodyIsSkipped
<1> QED
  BY <1>2, <1>7, <1>8

LEMMA FirstAdmins ==
  ASSUME PlatformInit
  PROVE  AdminInv
<1>1. PICK rank \in [Persons -> {0, MaxRank - 1, MaxRank}] :
          (\E p \in Persons : rank[p] = MaxRank) /\ StandingFrom(rank)
  <2>1. CASE StandingInit
    BY <2>1 DEF StandingInit
  <2>2. CASE StandingFrom([p \in Persons |-> MaxRank])
    <3> DEFINE rank == [p \in Persons |-> MaxRank]
    <3>1. rank \in [Persons -> {0, MaxRank - 1, MaxRank}] /\ rank[Creator] = MaxRank
      BY StandingAssumption
    <3> QED
      BY <2>2, <3>1, StandingAssumption
  <2> QED
    BY <2>1, <2>2 DEF PlatformInit, BackOfficeInit
<1>2. /\ call = [c \in Calls |-> Idle]
      /\ person = [p \in Persons |->
                      [suspended |-> FALSE, approved |-> rank[p] > 0, rank |-> rank[p],
                       overtaken |-> FALSE]]
  BY <1>1 DEF StandingFrom
<1>3. PersonRows /\ \A p \in Persons : person[p].rank = rank[p] /\ ~person[p].suspended
  BY <1>2 DEF PersonRows
<1>4. \A c \in Calls : call[c].op # "SUSPENSION"
  BY <1>2 DEF Idle
<1> QED
  BY <1>1, <1>3, <1>4 DEF AdminInv, LockedOrOvertaken, Safe, Admin

-----------------------------------------------------------------------------
(* Totals that are divided.                                                *)

\* Equal shares fit their total.
LEMMA EqualShares ==
  ASSUME NEW S \in SUBSET Nat, IsFiniteSet(S), S # {}, NEW total \in Nat \ {0},
         NEW weight, \A u \in S : weight[u] = 1
  PROVE  LET items == AllocateEqually(total, S)
         IN  DOMAIN items = S /\ Fits(S, total, weight, Total(S, weight), items)
<1> DEFINE n == Cardinality(S)
           items == AllocateEqually(total, S)
           q == [u \in S |-> total \div n]
           r == [u \in S |-> total % n]
           ahead == [u \in S |-> {v \in S : v < u}]
<1>1. n \in Nat \ {0}
  BY FS_CardinalityType, FS_EmptySet
<1>2. /\ total \div n \in Nat /\ total % n \in Nat /\ total % n < n
      /\ total = n * (total \div n) + (total % n)
  BY <1>1, Dividing
<1>3. Total(S, weight) = n
  <2>1. Total(S, weight) = Cardinality(S) * 1
    BY TotalEqual
  <2> QED
    BY <2>1, <1>1
<1>4. Total(S, q) = n * (total \div n)
  <2>1. \A u \in S : q[u] = total \div n
    OBVIOUS
  <2> QED
    BY <2>1, <1>2, TotalEqual
<1>5. \A u \in S : /\ weight[u] \in Nat /\ q[u] \in Nat /\ r[u] \in Nat /\ r[u] < n
                   /\ total * weight[u] = n * q[u] + r[u]
  <2>1. \A u \in S : weight[u] = 1 /\ q[u] = total \div n /\ r[u] = total % n
    OBVIOUS
  <2> HIDE DEF n, q, r
  <2> QED
    BY <2>1, <1>1, <1>2
<1>6. /\ \A u \in S : ahead[u] \subseteq S /\ u \notin ahead[u]
      /\ \A u, v \in S : u # v => u \in ahead[v] \/ v \in ahead[u]
      /\ \A u, v \in S : u \in ahead[v] => ahead[u] \subseteq ahead[v]
      /\ \A u, v \in S : r[u] > r[v] => u \in ahead[v]
  <2>1. \A u \in S : u \in Nat /\ r[u] = total % n /\ ahead[u] \subseteq S
    OBVIOUS
  <2>2. \A u, v \in S : u \in ahead[v] <=> u < v
    OBVIOUS
  <2> HIDE DEF n, r, ahead
  <2>3. ASSUME NEW u \in S
        PROVE  u \notin ahead[u]
    <3>1. u \in Nat
      BY <2>1
    <3> QED
      BY <2>2, <3>1
  <2>4. ASSUME NEW u \in S, NEW v \in S, u # v
        PROVE  u \in ahead[v] \/ v \in ahead[u]
    <3>1. u \in Nat /\ v \in Nat
      BY <2>1
    <3> QED
      BY <2>2, <2>4, <3>1
  <2>5. ASSUME NEW u \in S, NEW v \in S, u \in ahead[v], NEW w \in ahead[u]
        PROVE  w \in ahead[v]
    <3>1. w \in S /\ u \in Nat /\ v \in Nat /\ w \in Nat
      BY <2>1, <2>5
    <3>2. w < u /\ u < v
      BY <2>2, <2>5, <3>1
    <3> QED
      BY <2>2, <3>1, <3>2
  <2>6. \A u, v \in S : ~(r[u] > r[v])
    BY <1>2, <2>1
  <2> QED
    BY <2>1, <2>3, <2>4, <2>5, <2>6
<1> HIDE DEF n
<1>7. total % n = total - Total(S, q)
  BY <1>1, <1>2, <1>4
<1>8. /\ DOMAIN items = S
      /\ \A u \in S : items[u] = q[u] + IF Cardinality(ahead[u]) < total % n THEN 1 ELSE 0
  BY DEF AllocateEqually, Before, n
<1> HIDE DEF n, items, q, r, ahead
<1>9. SharedOut(S, total, weight, n, q, r, ahead, total % n, items)
  BY <1>1, <1>3, <1>5, <1>6, <1>7, <1>8 DEF SharedOut
<1> QED
  BY <1>3, <1>8, <1>9, SharesFit DEF items

\* Shares by area fit their total.
LEMMA AreaShares ==
  ASSUME NEW S \in SUBSET Nat, IsFiniteSet(S), S # {}, NEW total \in Nat \ {0},
         NEW area, DOMAIN area = S, \A u \in S : area[u] \in Nat \ {0},
         NEW weight, \A u \in S : weight[u] = area[u]
  PROVE  LET items == AllocateByArea(total, area)
         IN  DOMAIN items = S /\ Fits(S, total, weight, Total(S, weight), items)
<1> DEFINE whole == SumOf(area)
           items == AllocateByArea(total, area)
           q == [u \in S |-> (total * area[u]) \div whole]
           r == [u \in S |-> (total * area[u]) % whole]
           ahead == [u \in S |-> Ahead(total, area, u)]
           left == total - Total(S, q)
<1>1. whole = Total(S, area) /\ whole \in Nat \ {0}
  <2>1. whole = Total(S, area)
    BY DEF SumOf
  <2>2. \A u \in S : area[u] \in Int /\ area[u] > 0
    OBVIOUS
  <2>3. Total(S, area) \in Nat /\ Total(S, area) > 0
    BY <2>2, TotalType, TotalPositive
  <2> HIDE DEF whole
  <2> QED
    BY <2>1, <2>3
<1>2. Total(S, weight) = whole
  BY <1>1, TotalSame
<1>3. \A u \in S : /\ weight[u] \in Nat /\ q[u] \in Nat /\ r[u] \in Nat /\ r[u] < whole
                   /\ total * weight[u] = whole * q[u] + r[u]
  <2> SUFFICES ASSUME NEW u \in S
               PROVE  /\ weight[u] \in Nat /\ q[u] \in Nat /\ r[u] \in Nat /\ r[u] < whole
                      /\ total * weight[u] = whole * q[u] + r[u]
    OBVIOUS
  <2> DEFINE x == total * area[u]
  <2>1. x \in Nat /\ total * weight[u] = x /\ weight[u] \in Nat
    OBVIOUS
  <2>2. q[u] = x \div whole /\ r[u] = x % whole
    OBVIOUS
  <2> HIDE DEF whole, q, r, x
  <2>3. /\ x \div whole \in Nat /\ x % whole \in Nat /\ x % whole < whole
        /\ x = whole * (x \div whole) + (x % whole)
    BY <1>1, <2>1, Dividing
  <2> QED
    BY <2>1, <2>2, <2>3
<1>4. \A u, v \in S : u \in ahead[v] <=> r[u] > r[v] \/ (r[u] = r[v] /\ u < v)
  BY DEF Ahead, Fraction
<1>5. \A u \in S : ahead[u] \subseteq S
  BY DEF Ahead
<1>6. /\ DOMAIN items = S
      /\ \A u \in S : items[u] = q[u] + IF Cardinality(ahead[u]) < left THEN 1 ELSE 0
  BY DEF AllocateByArea, SumOf
<1>7. left = total - Total(S, q)
  OBVIOUS
<1> HIDE DEF whole, items, q, r, ahead, left
<1>8. /\ \A u \in S : ahead[u] \subseteq S /\ u \notin ahead[u]
      /\ \A u, v \in S : u # v => u \in ahead[v] \/ v \in ahead[u]
      /\ \A u, v \in S : u \in ahead[v] => ahead[u] \subseteq ahead[v]
      /\ \A u, v \in S : r[u] > r[v] => u \in ahead[v]
  <2>1. \A u \in S : u \in Nat /\ r[u] \in Nat
    BY <1>3
  <2>2. ASSUME NEW u \in S, NEW v \in S
        PROVE  /\ u \notin ahead[u]
               /\ u # v => u \in ahead[v] \/ v \in ahead[u]
               /\ r[u] > r[v] => u \in ahead[v]
    <3>1. u \in Nat /\ v \in Nat /\ r[u] \in Nat /\ r[v] \in Nat
      BY <2>1
    <3> QED
      BY <1>4, <3>1
  <2>3. ASSUME NEW u \in S, NEW v \in S, u \in ahead[v], NEW w \in ahead[u]
        PROVE  w \in ahead[v]
    <3>1. /\ w \in S /\ u \in Nat /\ v \in Nat /\ w \in Nat
          /\ r[u] \in Nat /\ r[v] \in Nat /\ r[w] \in Nat
      BY <1>5, <2>1, <2>3
    <3>2. /\ r[u] > r[v] \/ (r[u] = r[v] /\ u < v)
          /\ r[w] > r[u] \/ (r[w] = r[u] /\ w < u)
      BY <1>4, <2>3, <3>1
    <3>3. r[w] > r[v] \/ (r[w] = r[v] /\ w < v)
      BY <3>1, <3>2
    <3> QED
      BY <1>4, <3>1, <3>3
  <2> QED
    BY <1>5, <2>2, <2>3
<1>9. SharedOut(S, total, weight, whole, q, r, ahead, left, items)
  BY <1>1, <1>2, <1>3, <1>6, <1>7, <1>8 DEF SharedOut
<1> QED
  BY <1>2, <1>6, <1>9, SharesFit DEF items

\* A batch charges what its request works out, of flats that stay as they are.
Charged == flats \in FlatLists /\ \A i \in Ids("BATCH") : Divided(table[i])

LEMMA PickedFlats ==
  ASSUME flats \in FlatLists, NEW k \in Calculation
  PROVE  Picked(k.scope) \subseteq DOMAIN flats
<1>1. k.scope \in UnitScopes
  BY DEF Calculation
<1>2. k.scope[1] = "MANUAL" => k.scope[2] \subseteq DOMAIN flats
  BY <1>1 DEF UnitScopes
<1> QED
  BY <1>2 DEF Picked

\* The flats, their order and their areas make the shares of every total fit.
LEMMA ChargedAddUp ==
  ASSUME Charged
  PROVE  SharesAddUp
<1> SUFFICES ASSUME NEW i \in Ids("BATCH"),
                    NEW items, items = table[i].items, NEW k, k = table[i].request.calc,
                    NEW weight, weight = [u \in DOMAIN items |-> Weight(k, u)],
                    k.total > 0, DOMAIN items # {}
             PROVE  Fits(DOMAIN items, k.total, weight, SumOf(weight), items)
  BY DEF SharesAddUp, Fits, SumOf
<1>1. items = ResolveChargeItems(k) /\ k \in Calculation
  BY DEF Charged, Divided, Asks, Mixed
<1>2. /\ k.method \in {"FIXED", "AREA_BASED"} /\ k.total \in Nat \ {0}
  <2>1. k.method \in {"FIXED", "AREA_BASED"} /\ k.total \in Totals \cup {0}
    BY <1>1 DEF Calculation
  <2>2. Totals \subseteq Nat \ {0}
    BY BillingAssumption
  <2>3. \A n \in Totals \cup {0} : n > 0 => n \in Nat \ {0}
    BY <2>2
  <2> QED
    BY <2>1, <2>3
<1> DEFINE S == Picked(k.scope)
<1>3. /\ DOMAIN flats \subseteq Nat /\ IsFiniteSet(DOMAIN flats)
      /\ \A u \in DOMAIN flats : flats[u].area \in Nat
  BY BillingAssumption DEF Charged
<1>4. S \in SUBSET DOMAIN flats
  BY <1>1, PickedFlats DEF Charged
<1> HIDE DEF S
<1>5. CASE k.method = "FIXED"
  <2>1. items = AllocateEqually(k.total, S)
    BY <1>1, <1>2, <1>5 DEF ResolveChargeItems, S
  <2>2. DOMAIN items = S
    BY <2>1 DEF AllocateEqually
  <2>3. \A u \in S : weight[u] = 1
    BY <1>5, <2>2 DEF Weight
  <2>4. IsFiniteSet(S) /\ S \in SUBSET Nat
    BY <1>3, <1>4, FS_Subset
  <2>5. Fits(S, k.total, weight, Total(S, weight), items)
    BY <1>2, <2>1, <2>2, <2>3, <2>4, EqualShares
  <2> QED
    BY <2>2, <2>5 DEF SumOf
<1>6. CASE k.method = "AREA_BASED"
  <2> DEFINE area == Area(S)
  <2>1. items = AllocateByArea(k.total, area)
    BY <1>1, <1>2, <1>6 DEF ResolveChargeItems, S
  <2>2. /\ DOMAIN area \in SUBSET S
        /\ \A u \in DOMAIN area : area[u] = flats[u].area /\ area[u] > 0
    BY DEF Area, WithArea
  <2> HIDE DEF area
  <2>3. DOMAIN items = DOMAIN area
    BY <2>1 DEF AllocateByArea
  <2>4. \A u \in DOMAIN area : weight[u] = area[u] /\ area[u] \in Nat \ {0}
    BY <1>3, <1>4, <1>6, <2>2, <2>3 DEF Weight
  <2>5. IsFiniteSet(DOMAIN area) /\ DOMAIN area \in SUBSET Nat
    BY <1>3, <1>4, <2>2, FS_Subset
  <2>6. Fits(DOMAIN area, k.total, weight, Total(DOMAIN area, weight), items)
    BY <1>2, <2>1, <2>3, <2>4, <2>5, AreaShares
  <2> QED
    BY <2>3, <2>6 DEF SumOf
<1> QED
  BY <1>2, <1>5, <1>6

\* A batch that is there keeps its amounts, and a new one is divided.
LEMMA ChargedKept ==
  ASSUME Charged, TableMoves, UNCHANGED flats
  PROVE  Charged'
<1>1. ASSUME NEW k
      PROVE  /\ Asks(k)' <=> Asks(k)
             /\ ResolveChargeItems(k)' = ResolveChargeItems(k)
  BY DEF Asks, Calculation, UnitScopes, Mixed, ResolveChargeItems, Picked, WithArea, Area
<1>2. ASSUME NEW i \in DOMAIN table', table'[i].kind = "BATCH"
      PROVE  Divided(table[i])'
  <2>1. \A r \in {table'[i]} : Divided(r)
    <3>1. CASE i \in DOMAIN table
      BY <1>2, <3>1 DEF TableMoves, Follows, Charged, Divided, Ids
    <3>2. CASE i \notin DOMAIN table
      BY <1>2, <3>2 DEF TableMoves, Fresh
    <3> QED
      BY <3>1, <3>2
  <2> QED
    BY <1>1, <2>1 DEF Divided
<1> QED
  BY <1>2 DEF Charged, Ids

LEMMA FlatsStay ==
  ASSUME CommunityNext
  PROVE  UNCHANGED flats
BY DEF CommunityNext, RecordMoves, AdvertisingMoves, ChargeMoves, PremisesMoves, SwitchMoves,
       RestartMoves, NotificationMoves, GamificationMoves, communityVars

LEMMA FirstCharges ==
  ASSUME PlatformInit
  PROVE  Charged
<1>1. flats \in FlatLists
  BY BillingAssumption DEF PlatformInit, CommunityInit, BillingInit
<1>2. Ids("BATCH") = {}
  <2>1. \/ table = <<>> \/ \E x : table = <<Confirmed(x)>>
        \/ table = <<Slot>> \/ \E u : table = <<Ownership(u, Manager)>>
    BY DEF PlatformInit, BackOfficeInit, StartOf
  <2>2. \A x : Confirmed(x).kind # "BATCH" /\ Slot.kind # "BATCH" /\ Ownership(x, Manager).kind # "BATCH"
    BY DEF Confirmed, FraudCase, Slot, Ownership
  <2>3. table = <<>> \/ \E r : table = <<r>> /\ r.kind # "BATCH"
    BY <2>1, <2>2
  <2> QED
    BY <2>3 DEF Ids
<1> QED
  BY <1>1, <1>2 DEF Charged

-----------------------------------------------------------------------------
(* Theorems.                                                               *)

\* The inductive invariant.
Inv == RowsInv /\ AdminInv /\ OneLiveRow /\ Charged

\* A row that is live was live before, and of the same subject; a new one has no rival.
LEMMA LiveRowsKept ==
  ASSUME OneLiveRow, TableMoves
  PROVE  OneLiveRow'
<1>1. ASSUME NEW i \in DOMAIN table, Live(table'[i])
      PROVE  /\ Live(table[i]) /\ table'[i].kind = table[i].kind
             /\ Subject(table'[i]) = Subject(table[i])
  BY <1>1 DEF TableMoves, Follows, Live, Subject
<1>2. ASSUME NEW i \in DOMAIN table, NEW j \in DOMAIN table' \ DOMAIN table,
             Live(table'[i]), Live(table'[j]), table'[i].kind = table'[j].kind,
             Subject(table'[i]) = Subject(table'[j])
      PROVE  FALSE
  BY <1>1, <1>2 DEF TableMoves, Fresh, Rivals
<1>3. ASSUME NEW i \in DOMAIN table', NEW j \in DOMAIN table',
             Live(table'[i]), Live(table'[j]), table'[i].kind = table'[j].kind,
             Subject(table'[i]) = Subject(table'[j])
      PROVE  i = j
  <2>1. CASE i \in DOMAIN table /\ j \in DOMAIN table
    BY <1>1, <1>3, <2>1 DEF OneLiveRow
  <2>2. CASE i \in DOMAIN table /\ j \notin DOMAIN table
    BY <1>2, <1>3, <2>2
  <2>3. CASE i \notin DOMAIN table /\ j \in DOMAIN table
    BY <1>2, <1>3, <2>3
  <2>4. CASE i \notin DOMAIN table /\ j \notin DOMAIN table
    BY <1>3, <2>4 DEF TableMoves
  <2> QED
    BY <2>1, <2>2, <2>3, <2>4
<1>4. \A i, j \in DOMAIN table' :
          /\ Live(table'[i]) /\ Live(table'[j])
          /\ table'[i].kind = table'[j].kind /\ Subject(table'[i]) = Subject(table'[j])
          => i = j
  BY <1>3
<1> QED
  BY <1>4 DEF OneLiveRow, Live, Subject

LEMMA InvInit ==
  ASSUME PlatformInit
  PROVE  Inv
BY FirstRows, FirstRequests, FirstPoints, FirstAdmins, FirstCharges DEF Inv, RowsInv, PlatformInv, OneLiveRow

LEMMA InvNext ==
  ASSUME Inv, [PlatformNext]_platformVars
  PROVE  Inv' /\ TableMoves
<1>1. CASE BackOfficeNext /\ UNCHANGED <<communityVars, scene>>
  BY <1>1, BackOfficeKeeps, BackOfficeSpares, LiveRowsKept, ChargedKept DEF Inv, RowsInv, communityVars
<1>2. CASE CommunityNext /\ UNCHANGED <<person, building, manager, scene>>
  BY <1>2, CommunityKeeps, PersonsKept, LiveRowsKept, FlatsStay, ChargedKept DEF Inv
<1>3. CASE UNCHANGED platformVars
  <2>1. /\ UNCHANGED <<table, call, person, scene>>
        /\ UNCHANGED <<noteVars, gameVars, inboxVars, unit, flats, scene>>
    BY <1>3 DEF platformVars, standingVars, communityVars
  <2>2. Grows
    BY <2>1 DEF Grows, gameVars, inboxVars, Recorded
  <2>3. Proceeds
    BY <2>1, <2>2, Unmoved, NoCallMade DEF Inv, RowsInv, PlatformInv
  <2>4. TableMoves /\ Unsuspending
    BY <2>3, ApartEnough DEF Proceeds
  <2> QED
    BY <2>1, <2>3, <2>4, RowsKept, PersonsKept, LiveRowsKept, ChargedKept DEF Inv
<1> QED
  BY <1>1, <1>2, <1>3 DEF PlatformNext

LEMMA Invariance == PlatformSpec => []Inv
<1>1. PlatformInit => Inv
  BY InvInit
<1>2. Inv /\ [PlatformNext]_platformVars => Inv'
  BY InvNext
<1> QED
  BY <1>1, <1>2, PTL DEF PlatformSpec

\* A decided fraud, compliance or manager case keeps its decision and a decided appeal its
\* outcome: whichever requests have read the row before, none writes over what was decided.
THEOREM DecisionsAreFinal == PlatformSpec => DecisionsStand
<1> DEFINE Stand ==
        \A i \in DOMAIN table :
            /\ Decided(table[i]) => table'[i].status = table[i].status
            /\ table[i].kind = "ENFORCEMENT" /\ table[i].appeal \in {"UPHELD", "OVERTURNED"} =>
                   table'[i] = table[i]
<1>1. Inv /\ [PlatformNext]_platformVars => [Stand]_standingVars
  <2> SUFFICES ASSUME Inv, [PlatformNext]_platformVars
               PROVE  Stand
    OBVIOUS
  <2> QED
    BY InvNext DEF TableMoves, Follows
<1> QED
  BY <1>1, Invariance, PTL DEF PlatformSpec, DecisionsStand

\* A settled case becomes active again only by being reopened, and only a resolved or merged
\* one is closed, whatever an assignment, a resolution or a merge has read of it.
THEOREM SettledCasesStaySettled == PlatformSpec => SettledCasesReopen
<1> DEFINE Reopened ==
        \A i \in Ids("CASE") :
            LET before == table[i].status
                after == table'[i].status
            IN /\ before = "CLOSED" => after \in {"CLOSED", "OPEN"}
               /\ before = "RESOLVED" => after \in {"RESOLVED", "CLOSED", "OPEN"}
               /\ before # "CLOSED" /\ after = "CLOSED" =>
                      before = "RESOLVED" \/ table'[i].into # 0
<1>1. Inv /\ [PlatformNext]_platformVars => [Reopened]_rowVars
  <2> SUFFICES ASSUME Inv, [PlatformNext]_platformVars
               PROVE  Reopened
    OBVIOUS
  <2> QED
    BY InvNext DEF TableMoves, Follows, CaseFollows, Ids
<1> QED
  BY <1>1, Invariance, PTL DEF PlatformSpec, SettledCasesReopen

\* A classified charge is born into an active fund of its type, although the fund may be
\* retyped and deactivated between the resolution of the charge and its insertion.
THEOREM ChargesFitTheirFund == PlatformSpec => ClassifiedFundFits
<1> DEFINE Fitting ==
        \A i \in DOMAIN table' \ DOMAIN table :
            table'[i].kind = "BATCH" /\ table'[i].request.kind # NoKind =>
                LET f == table[table'[i].fund]
                IN f.active /\ IsFundCompatible(table'[i].request.kind, f.type)
<1>1. Inv /\ [PlatformNext]_platformVars => [Fitting]_rowVars
  <2> SUFFICES ASSUME Inv, [PlatformNext]_platformVars
               PROVE  Fitting
    OBVIOUS
  <2> QED
    BY InvNext DEF TableMoves, Fresh
<1> QED
  BY <1>1, Invariance, PTL DEF PlatformSpec, ClassifiedFundFits

\* The shares of a total come to the total, each within a rial of its exact share and none
\* smaller than that of a flat with less area, however many flats there are, with and without
\* an area, and whichever of them the scope picks.
THEOREM ChargesAddUp == PlatformSpec => []SharesAddUp
<1>1. Inv => SharesAddUp
  BY ChargedAddUp DEF Inv
<1> QED
  BY <1>1, Invariance, PTL

\* At most one live row per subject: the partial unique indexes hold against requests that
\* have found none and create one later.
THEOREM LiveRowsAreUnique == PlatformSpec => []OneLiveRow
<1>1. Inv => OneLiveRow
  BY DEF Inv
<1> QED
  BY <1>1, Invariance, PTL

\* Staff cannot lock themselves out: unless an enforcement has struck an admin, there is
\* always an administrator who can act, even if two of them suspend each other.
THEOREM AdminsSurvive == PlatformSpec => []LastAdminSurvives
<1>1. Inv => LastAdminSurvives
  BY DEF Inv, AdminInv, Undisturbed, Safe, LastAdminSurvives, UsableAdmins
<1> QED
  BY <1>1, Invariance, PTL

\* The ledger of points agrees with its events: each is rewarded once and taken back once,
\* after it was rewarded, and the balance is what the ledger adds up to.
THEOREM PointsAddUp == PlatformSpec => []PointsMatchEvents
<1>1. Inv => PointsMatchEvents
  BY DEF Inv, RowsInv, GameInv
<1> QED
  BY <1>1, Invariance, PTL

\* SENT says that a provider accepted the notification, whatever jobs of the same delivery
\* ran before, are resent, or are taken up again after a restart.
THEOREM SentWasAccepted == PlatformSpec => []SentMeansAccepted
<1>1. Inv => SentMeansAccepted
  BY DEF Inv, RowsInv, NotesSent
<1> QED
  BY <1>1, Invariance, PTL

\* The history of ownership and tenancy is never cut off from its unit, although the unit
\* was counted as unused before it came into use.
THEOREM HistoryHasItsUnit == PlatformSpec => []HistoryKeepsItsUnit
<1>1. Inv => HistoryKeepsItsUnit
  BY DEF Inv, RowsInv, History, HistoryKeepsItsUnit
<1> QED
  BY <1>1, Invariance, PTL

\* Where no restart forgets what is being told, everybody an event concerns finds it among
\* their notifications once it is handled, unless they wanted none.
THEOREM NobodyLeftOut ==
  PlatformSpec => [](scene \cap {"SWITCHES", "GAMIFICATION"} = {} => NobodyIsSkipped)
<1>1. Inv => (scene \cap {"SWITCHES", "GAMIFICATION"} = {} => NobodyIsSkipped)
  BY DEF Inv, RowsInv, InboxInv
<1> QED
  BY <1>1, Invariance, PTL

=============================================================================
