------------------------------ MODULE Documents ------------------------------
(***************************************************************************)
(* Documents, their versions and the receipts of payments, composed with   *)
(* the backup of the objects they are stored in.                           *)
(*                                                                         *)
(* A client asks for an upload intent, puts the object to the store, and   *)
(* names the key in a second call.  That call validates the intent and     *)
(* looks at the object outside of any transaction; a short transaction     *)
(* then consumes the intent, writes the rows and queues the backup.  So an *)
(* in-flight call stands between the two, while others validate, consume,  *)
(* archive, upload again or clean up.                                      *)
(*                                                                         *)
(* A key is given to one intent, and a version takes the key of its        *)
(* intent, so keys also name versions and backup requests (Requests).      *)
(***************************************************************************)
EXTENDS ObjectBackup, Sequences

CONSTANTS
    Documents,        \* rows of documents, fresh ones included
    Payments,         \* bank transfers, each with its payer as the caller
    Calls,            \* API calls in flight
    Case,             \* what a document may be attached to beside a payment
    GenuineSignature, \* the contents whose first bytes match the declared type
    NoIntent, NoDocument, NoPayment

ASSUME DocumentsAssumption ==
    /\ GenuineSignature \subseteq Contents
    /\ NoDocument \notin Documents
    /\ NoPayment \notin Payments /\ Case \notin Payments
    /\ NoIntent \notin [purpose : {"CREATE_DOCUMENT", "CREATE_VERSION", "PAYMENT_RECEIPT"},
                        document : Documents \cup {NoDocument}, payment : Payments \cup {NoPayment},
                        expired : BOOLEAN, consumed : BOOLEAN]

VARIABLES
    intent,     \* document_upload_intents by storage key
    status,     \* documents.status
    version,    \* document_versions
    reference,  \* document_references: those of type PAYMENT are receipts
    call,       \* where a call stands
    scene       \* bound of the model: what happens beside single documents; "BACKUP" has two keys

documentVars == <<intent, status, version, reference, call, scene>>
allVars == <<source, row, generation, copy, manifest, worker, mishaps, documentVars>>

Keys == Requests
NoCall == [step |-> "NONE", left |-> <<>>]

Init ==
    /\ source = [k \in Keys |-> Absent]
    /\ InitBackup
    /\ intent = [k \in Keys |-> NoIntent]
    /\ status = [d \in Documents |-> "NONE"]
    /\ version = {}
    /\ reference = {}
    /\ call = [r \in Calls |-> NoCall]
    /\ scene \in {"RECEIPTS", "BULK", "BACKUP"}

-----------------------------------------------------------------------------
(* Upload intents and the object store.                                    *)

Intent(purpose, d, p) ==
    [purpose |-> purpose, document |-> d, payment |-> p, expired |-> FALSE, consumed |-> FALSE]

CreateUploadIntent(k, purpose, d, p) ==
    /\ intent[k] = NoIntent
    /\ scene = "BACKUP" => Cardinality({o \in Keys : intent[o] # NoIntent}) < 2
    /\ intent' = [intent EXCEPT ![k] = Intent(purpose, d, p)]
    /\ UNCHANGED <<source, backupVars, status, version, reference, call>>

RequestUploadUrl(k) ==
    \/ CreateUploadIntent(k, "CREATE_DOCUMENT", NoDocument, NoPayment)
    \/ \E d \in Documents :
           status[d] # "NONE" /\ CreateUploadIntent(k, "CREATE_VERSION", d, NoPayment)

Entities == Payments \cup {Case}
Receipts == {x \in reference : x.entity \in Payments}
HasReceipt(p) == \E x \in Receipts : x.entity = p

RequestReceiptIntent(k, p) ==
    /\ scene = "RECEIPTS" /\ ~HasReceipt(p)
    /\ CreateUploadIntent(k, "PAYMENT_RECEIPT", NoDocument, p)

\* The presigned URL and the intent expire together.
ExpireIntent(k) ==
    /\ intent[k] # NoIntent /\ ~intent[k].expired
    /\ intent' = [intent EXCEPT ![k].expired = TRUE]
    /\ UNCHANGED <<source, backupVars, status, version, reference, call>>

\* The presigned URL names the key and nothing of what is put under it.
PresignedPut(k) == intent[k] # NoIntent /\ ~intent[k].expired

\* The client puts the object, or puts it again, while the URL is good.
PutObject(k, c) ==
    /\ PresignedPut(k)
    /\ source' = [source EXCEPT ![k] = c]
    /\ UNCHANGED <<backupVars, documentVars>>

Valid(k, purpose) ==
    /\ intent[k] # NoIntent
    /\ intent[k].purpose = purpose
    /\ ~intent[k].consumed
    /\ ~intent[k].expired

\* Mutant: the update that consumes an intent forgets WHERE consumedAt IS NULL.
ConsumableAgain(k) == intent[k] # NoIntent

Consumable(k) == ~intent[k].consumed

Consume(k) == intent' = [intent EXCEPT ![k].consumed = TRUE]

InFlight(r, step, op, k, d, p) ==
    /\ call[r] = NoCall
    /\ call' = [call EXCEPT ![r] = [step |-> step, op |-> op, key |-> k, document |-> d,
                                    payment |-> p, number |-> 0, left |-> <<>>]]

StepTo(r, step) == call' = [call EXCEPT ![r].step = step]
Return(r) == call' = [call EXCEPT ![r] = NoCall]

\* Of several documents, the next is taken up whatever became of this one.
ItemDone(r) == IF call[r].left = <<>> THEN Return(r) ELSE StepTo(r, "ITEMS")

\* A conflict rolls the whole transaction back.
Conflict(r) == ItemDone(r) /\ UNCHANGED <<source, backupVars, intent, status, version, reference>>

\* Mutant: the backup is queued by the caller after the transaction, if it lives.
QueueLater(k) == UNCHANGED row

\* Mutant: the request is queued without a date of its next attempt.
QueueUndated(k) == row' = [row EXCEPT ![k] = IF @.state = "NONE" THEN [Pending EXCEPT !.due = FALSE] ELSE @]

QueueBackup(k) == row' = [row EXCEPT ![k] = IF @.state = "NONE" THEN Pending ELSE @]

-----------------------------------------------------------------------------
(* Documents and versions.                                                 *)

\* HEAD: the object is there, and of the size declared if the store tells its size.
ObjectUploaded(k) == source[k] \in SizeAsDeclared

\* The intent, then the object.
ResolveForDocument(r, k) ==
    /\ Valid(k, "CREATE_DOCUMENT")
    /\ ObjectUploaded(k)
    /\ InFlight(r, "RESOLVED", "CREATE_DOCUMENT", k, NoDocument, NoPayment)
    /\ UNCHANGED <<source, backupVars, intent, status, version, reference>>

ResolveForVersion(r, k, d) ==
    /\ status[d] = "ACTIVE"
    /\ Valid(k, "CREATE_VERSION")
    /\ intent[k].document = d
    /\ ObjectUploaded(k)
    /\ InFlight(r, "RESOLVED", "CREATE_VERSION", k, d, NoPayment)
    /\ UNCHANGED <<source, backupVars, intent, status, version, reference>>

Version(d, n, k) == [document |-> d, number |-> n, key |-> k, isCurrent |-> TRUE]

\* The rows of a new document with its first version, and the queued backup.
WriteDocument(k, d) ==
    /\ status[d] = "NONE"
    /\ Consume(k)
    /\ status' = [status EXCEPT ![d] = "ACTIVE"]
    /\ version' = version \cup {Version(d, 1, k)}
    /\ QueueBackup(k)
    /\ UNCHANGED <<source, generation, copy, manifest, worker, mishaps>>

CreateDocument(r) ==
    /\ call[r].step = "RESOLVED" /\ call[r].op = "CREATE_DOCUMENT"
    /\ IF Consumable(call[r].key)
       THEN /\ \E d \in Documents : WriteDocument(call[r].key, d)
            /\ ItemDone(r)
            /\ UNCHANGED reference
       ELSE Conflict(r)

\* Several documents, each as if it came alone.  (Bound of the model: two, which may name
\* the same key, and one such call at a time.)
BulkCreateDocuments(r) ==
    /\ \/ /\ scene = "BULK" /\ call[r] = NoCall /\ \A q \in Calls : call[q].left = <<>>
          /\ \E k, l \in Keys :
                 call' = [call EXCEPT ![r] =
                     [step |-> "ITEMS", op |-> "CREATE_DOCUMENT", left |-> <<k, l>>]]
       \/ /\ call[r].step = "ITEMS"
          /\ LET k == Head(call[r].left)
                 rest == Tail(call[r].left)
             IN call' = [call EXCEPT ![r] =
                    IF Valid(k, "CREATE_DOCUMENT") /\ ObjectUploaded(k)
                    THEN [step |-> "RESOLVED", op |-> "CREATE_DOCUMENT", key |-> k, left |-> rest]
                    ELSE IF rest = <<>> THEN NoCall ELSE [@ EXCEPT !.left = rest]]
    /\ UNCHANGED <<source, backupVars, intent, status, version, reference>>

VersionsOf(d) == {v \in version : v.document = d}
Latest(d) == CHOOSE n \in {v.number : v \in VersionsOf(d)} :
                 \A v \in VersionsOf(d) : v.number <= n

\* addVersion, its first statements: the number to give is read.
ReadLatest(r) ==
    /\ call[r].step = "RESOLVED" /\ call[r].op = "CREATE_VERSION"
    /\ call' = [call EXCEPT ![r].step = "NUMBERED", ![r].number = Latest(call[r].document) + 1]
    /\ UNCHANGED <<source, backupVars, intent, status, version, reference>>

NumberFree(d, n) == ~\E v \in VersionsOf(d) : v.number = n

\* Mutant: the former current version is not demoted.
Promoted(d, v) == version \cup {v}

Demoted(d, v) ==
    {IF u.document = d THEN [u EXCEPT !.isCurrent = FALSE] ELSE u : u \in version} \cup {v}

\* The rest of it: the intent is consumed by this call or not at all, the unique index
\* refuses a number given meanwhile.
AddVersion(r) ==
    /\ call[r].step = "NUMBERED"
    /\ LET k == call[r].key
           d == call[r].document
       IN IF Consumable(k) /\ NumberFree(d, call[r].number)
          THEN /\ Consume(k)
               /\ version' = Demoted(d, Version(d, call[r].number, k))
               /\ QueueBackup(k)
               /\ Return(r)
               /\ UNCHANGED <<source, generation, copy, manifest, worker, mishaps, status, reference>>
          ELSE Conflict(r)

\* The check of the status and the update need no order: the update is unconditional.
ArchiveDocument(d) ==
    /\ status[d] = "ACTIVE"
    /\ status' = [status EXCEPT ![d] = "ARCHIVED"]
    /\ UNCHANGED <<source, backupVars, intent, version, reference, call>>

\* Receipts come from finalize alone.
Referencable(e) == e \notin Payments

CreateReferenceRow(v, e) ==
    /\ reference' = reference \cup {[entity |-> e, key |-> v.key]}
    /\ UNCHANGED <<source, backupVars, intent, status, version, call>>

\* A version of a document is attached to something of the building.  (Bound of the model:
\* one such reference.)
CreateReference(v, e) ==
    /\ scene = "RECEIPTS" /\ \A x \in reference : x.entity \in Payments
    /\ Referencable(e)
    /\ CreateReferenceRow(v, e)

-----------------------------------------------------------------------------
(* Payment receipts.                                                       *)

\* finalize: payer, method, no receipt yet, and the intent loaded by its id.
LoadReceiptIntent(r, k, p) ==
    /\ ~HasReceipt(p)
    /\ Valid(k, "PAYMENT_RECEIPT")
    /\ intent[k].payment = p
    /\ InFlight(r, "LOADED", "PAYMENT_RECEIPT", k, NoDocument, p)
    /\ UNCHANGED <<source, backupVars, intent, status, version, reference>>

\* The answers to a ranged GET, which may also fail.
ObjectPrefix(k) == {"UNREADABLE"} \cup {"GENUINE" : c \in {source[k]} \cap GenuineSignature}

\* The first bytes of the object decide.
ValidateMagicBytes(r) ==
    /\ call[r].step = "LOADED"
    /\ \E prefix \in ObjectPrefix(call[r].key) :
           StepTo(r, IF prefix = "GENUINE" THEN "GENUINE" ELSE "CLEANUP")
    /\ UNCHANGED <<source, backupVars, intent, status, version, reference>>

ObjectDeleted(k) == source' = [source EXCEPT ![k] = Absent]

\* Best effort: the object of an intent that did not validate is deleted.
DeleteInvalid(r) ==
    /\ call[r].step = "CLEANUP"
    /\ ObjectDeleted(call[r].key) \/ UNCHANGED source
    /\ Return(r)
    /\ UNCHANGED <<backupVars, intent, status, version, reference>>

ReceiptFree(p) == ~HasReceipt(p)

CreatePaymentReceipt(r) ==
    /\ call[r].step = "GENUINE"
    /\ LET k == call[r].key
       IN IF Consumable(k) /\ ReceiptFree(call[r].payment)
          THEN /\ \E d \in Documents : WriteDocument(k, d)
               /\ reference' = reference \cup {[entity |-> call[r].payment, key |-> k]}
               /\ Return(r)
          ELSE Conflict(r)

-----------------------------------------------------------------------------
DocumentsNext ==
    \/ \E k \in Keys :
           \/ RequestUploadUrl(k) \/ ExpireIntent(k)
           \/ \E c \in Contents : PutObject(k, c)
           \/ \E p \in Payments : RequestReceiptIntent(k, p)
    \/ \E d \in Documents : ArchiveDocument(d)
    \/ \E v \in version, e \in Entities : CreateReference(v, e)
    \/ \E r \in Calls :
           \/ BulkCreateDocuments(r) \/ CreateDocument(r) \/ ReadLatest(r) \/ AddVersion(r)
           \/ ValidateMagicBytes(r) \/ DeleteInvalid(r) \/ CreatePaymentReceipt(r)
           \/ \E k \in Keys :
                  \/ ResolveForDocument(r, k)
                  \/ \E d \in Documents : ResolveForVersion(r, k, d)
                  \/ \E p \in Payments : LoadReceiptIntent(r, k, p)

Next ==
    \/ DocumentsNext /\ UNCHANGED scene
    \/ scene = "BACKUP" /\ BackupNext /\ UNCHANGED documentVars

Spec == Init /\ [][Next]_allVars /\ BackupFairness

-----------------------------------------------------------------------------
(* Properties.                                                             *)

\* However uploads interleave, the versions of a document are numbered 1 to n without a gap
\* and exactly the last one is current.
VersionsAreLinear ==
    \A d \in Documents :
        LET numbers == {v.number : v \in VersionsOf(d)}
        IN /\ numbers = 1 .. Cardinality(VersionsOf(d))
           /\ (status[d] # "NONE") <=> (numbers # {})
           /\ \A v \in VersionsOf(d) : v.isCurrent <=> v.number = Latest(d)

\* An intent pays for one version, of the document or payment it was asked for; a payment
\* has one receipt, which was uploaded for it and checked; and no intent is spent on a call
\* that was rolled back.
IntentSpentOnce ==
    /\ \A k \in Keys :
           LET bought == {v \in version : v.key = k}
           IN /\ Cardinality(bought) = IF intent[k] # NoIntent /\ intent[k].consumed THEN 1 ELSE 0
              /\ \A v \in bought :
                     intent[k].purpose = "CREATE_VERSION" => v.document = intent[k].document
    /\ \A x \in Receipts :
           /\ intent[x.key].consumed /\ intent[x.key].payment = x.entity
           /\ \A y \in Receipts : y.entity = x.entity => y = x

\* The backup is queued in the transaction that writes the version: no crash in between
\* leaves a version that nobody copies, and nothing else is queued.
EveryVersionIsQueued == \A k \in Keys : (row[k].state # "NONE") <=> (\E v \in version : v.key = k)

\* Documents are what the backup takes its clients to be: one transaction queues one request
\* at a time, due at once, and nothing else touches the queue.  So what ObjectBackup promises
\* under any such clients holds of the composition.
ActsAsBackupClient == BackupInit /\ [][BackupNext \/ ClientStep]_vars

\* payment-receipt.service.ts:172-176, "the invalid object is best-effort deleted": the
\* object behind a finalized receipt is not deleted.
ReceiptKeepsObject == \A x \in Receipts : source[x.key] # Absent

\* document.policy.ts:90, "Archived Document -> Read-Only Access - no new versions may be
\* added".
ArchivedIsReadOnly ==
    [][\A d \in Documents : status[d] = "ARCHIVED" => UNCHANGED VersionsOf(d)]_allVars

=============================================================================
