---------------------------- MODULE Neighbourhood ----------------------------
(***************************************************************************)
(* What a building's people keep beside its money and its votes: requests  *)
(* and complaints (cases), meetings, listings of the marketplace, and the  *)
(* advertising campaigns shown to them.  All of them are rows that are     *)
(* read, checked and written by their identifier.                          *)
(***************************************************************************)
EXTENDS Rows

CONSTANTS
    Images,      \* campaign images that have been uploaded
    Providers,   \* external providers that can fill an advertising slot
    Scopes       \* what campaigns target: all buildings, or some

VARIABLES stored    \* the images the object storage still has

-----------------------------------------------------------------------------
(* Cases.                                                                  *)

\* "against" says that it is a complaint against the manager; "by" is the role assigned to.
Case(against) ==
    [kind |-> "CASE", status |-> "OPEN", against |-> against, by |-> "NOBODY", into |-> 0]

CreateCase == \E against \in BOOLEAN : Open(Case(against))

ActiveCase(k) == k.status \in {"OPEN", "IN_PROGRESS", "WAITING_USER"}
CaseEditable(k) == k.status # "CLOSED"
CaseResolvable(k) == k.status \notin {"RESOLVED", "CLOSED"}
CaseCloseable(k) == k.status = "RESOLVED"
CaseReopenable(k) == k.status \in {"RESOLVED", "CLOSED"} /\ k.into = 0

ChecksCase(c, op, Fit(_)) == \E i \in Ids("CASE") : Fit(table[i]) /\ Checked(c, op, i)

\* A case that is closed meanwhile is edited all the same; no status is part of the edit.
UpdateCase(c) ==
    \/ ChecksCase(c, "EDIT_CASE", CaseEditable)
    \/ Ends(c, "EDIT_CASE") /\ UNCHANGED table

\* A complaint against the manager is not given to the manager.
Assignable(k, role) == k.against => role # "MANAGER"

CaseAssigned(c, role) == PutIf(c, SameStatus(c), [Now(c) EXCEPT !.status = "IN_PROGRESS", !.by = role])

AssignCase(c) ==
    \/ ChecksCase(c, "ASSIGN_CASE", ActiveCase)
    \/ /\ Ends(c, "ASSIGN_CASE")
       /\ \E role \in {"MANAGER", "BOARD_MEMBER"} : Assignable(Seen(c), role) /\ CaseAssigned(c, role)

\* The message is created whatever the case has become.
AddMessage(c) ==
    \/ ChecksCase(c, "MESSAGE_CASE", ActiveCase)
    \/ Ends(c, "MESSAGE_CASE") /\ UNCHANGED table

CaseResolved(c) == PutIf(c, SameStatus(c), [Now(c) EXCEPT !.status = "RESOLVED"])

ResolveCase(c) ==
    \/ ChecksCase(c, "RESOLVE_CASE", CaseResolvable)
    \/ Ends(c, "RESOLVE_CASE") /\ CaseResolved(c)

CaseClosed(c) == PutIf(c, Now(c).status = "RESOLVED", [Now(c) EXCEPT !.status = "CLOSED"])

CloseCase(c) ==
    \/ ChecksCase(c, "CLOSE_CASE", CaseCloseable)
    \/ Ends(c, "CLOSE_CASE") /\ CaseClosed(c)

\* Only the status is compared: a case that was reopened and merged meanwhile reopens.
CaseReopened(c) == PutIf(c, SameStatus(c), [Now(c) EXCEPT !.status = "OPEN"])

ReopenCase(c) ==
    \/ ChecksCase(c, "REOPEN_CASE", CaseReopenable)
    \/ Ends(c, "REOPEN_CASE") /\ CaseReopened(c)

CaseMergeable(i, j) ==
    /\ i # j
    /\ table[i].into = 0 /\ table[i].status # "CLOSED"
    /\ table[j].into = 0 /\ CaseResolvable(table[j])

\* The target is not looked at again.
CaseMerged(c) ==
    PutIf(c, SameStatus(c) /\ Now(c).into = 0,
          [Now(c) EXCEPT !.into = call[c].into, !.status = "CLOSED"])

MergeCase(c) ==
    \/ \E i, j \in Ids("CASE") :
           /\ call[c] = Idle
           /\ CaseMergeable(i, j)
           /\ call' = [call EXCEPT ![c] =
                  [op |-> "MERGE_CASE", on |-> i, seen |-> table[i], into |-> j]]
           /\ UNCHANGED table
    \/ Ends(c, "MERGE_CASE") /\ CaseMerged(c)

CaseStep(c) ==
    \/ UpdateCase(c) \/ AssignCase(c) \/ AddMessage(c) \/ ResolveCase(c)
    \/ CloseCase(c) \/ ReopenCase(c) \/ MergeCase(c)

-----------------------------------------------------------------------------
(* Meetings.                                                               *)

Meeting == [kind |-> "MEETING", status |-> "PLANNED", minutes |-> 0, attendance |-> FALSE]

CreateMeeting == Open(Meeting)

NotArchived(k) == k.status # "ARCHIVED"
ChecksMeeting(c, op) == \E i \in Ids("MEETING") : NotArchived(table[i]) /\ Checked(c, op, i)

\* The minutes and the attendance may be written after the meeting has been archived.
MeetingUpdated(c) == Put(c, [Now(c) EXCEPT !.minutes = 1])
AttendanceRecorded(c) == Put(c, [Now(c) EXCEPT !.attendance = TRUE])
MeetingArchived(c) == Put(c, [Now(c) EXCEPT !.status = "ARCHIVED"])

UpdateMeeting(c) ==
    \/ ChecksMeeting(c, "UPDATE_MEETING")
    \/ Ends(c, "UPDATE_MEETING") /\ MeetingUpdated(c)

RecordAttendance(c) ==
    \/ ChecksMeeting(c, "ATTENDANCE")
    \/ Ends(c, "ATTENDANCE") /\ AttendanceRecorded(c)

ArchiveMeeting(c) ==
    \/ ChecksMeeting(c, "ARCHIVE_MEETING")
    \/ Ends(c, "ARCHIVE_MEETING") /\ MeetingArchived(c)

MeetingStep(c) == UpdateMeeting(c) \/ RecordAttendance(c) \/ ArchiveMeeting(c)

-----------------------------------------------------------------------------
(* Listings of the marketplace: no write repeats the status it has checked. *)

Listing == [kind |-> "LISTING", status |-> "PENDING", active |-> TRUE]

Submit == Open(Listing)

Reviewable(k) == k.status = "PENDING"
Resubmittable(k) == k.status = "REJECTED"
Archivable(k) == k.status = "APPROVED"
Existing(k) == TRUE

ChecksListing(c, op, Fit(_)) == \E i \in Ids("LISTING") : Fit(table[i]) /\ Checked(c, op, i)
SetListing(c, s) == Put(c, [Now(c) EXCEPT !.status = s])

\* The owner edits the text of a rejected listing, then resubmits it.
UpdateListing(c) ==
    \/ ChecksListing(c, "EDIT_LISTING", Resubmittable)
    \/ Ends(c, "EDIT_LISTING") /\ UNCHANGED table

Resubmit(c) ==
    \/ ChecksListing(c, "RESUBMIT", Resubmittable)
    \/ Ends(c, "RESUBMIT") /\ SetListing(c, "PENDING")

DecideListing(c) ==
    \/ ChecksListing(c, "DECIDE_LISTING", Reviewable)
    \/ Ends(c, "DECIDE_LISTING") /\ \E s \in {"APPROVED", "REJECTED"} : SetListing(c, s)

ArchiveListing(c) ==
    \/ ChecksListing(c, "ARCHIVE_LISTING", Archivable)
    \/ Ends(c, "ARCHIVE_LISTING") /\ SetListing(c, "ARCHIVED")

Deactivate(c) ==
    \/ ChecksListing(c, "DEACTIVATE", Existing)
    \/ Ends(c, "DEACTIVATE") /\ Put(c, [Now(c) EXCEPT !.active = FALSE])

ListingStep(c) ==
    UpdateListing(c) \/ Resubmit(c) \/ DecideListing(c) \/ ArchiveListing(c) \/ Deactivate(c)

-----------------------------------------------------------------------------
(* Advertising: one slot, and the campaigns that share it at one time.     *)

NoProvider == "NONE"

Slot == [kind |-> "SLOT", strategy |-> "DIRECT_ONLY", provider |-> NoProvider]

\* A direct slot has no provider, any other has one.
ValidSlotFill(k) == k.strategy = "DIRECT_ONLY" <=> k.provider = NoProvider

Strategies == {"DIRECT_ONLY", "EXTERNAL"}

\* The fields a request gives; those it leaves out are kept.
Patched(k, patch) == [f \in DOMAIN k |-> IF f \in DOMAIN patch THEN patch[f] ELSE k[f]]

SlotPatches ==
    [strategy : Strategies] \union [provider : Providers \union {NoProvider}]
        \union [strategy : Strategies, provider : Providers \union {NoProvider}]

CallWith(c, op, i, patch) ==
    /\ call[c] = Idle
    /\ call' = [call EXCEPT ![c] = [op |-> op, on |-> i, seen |-> table[i], patch |-> patch]]

\* The merged row is validated; only the given fields are written.
UpdateSlotFill(c) ==
    /\ \/ \E i \in Ids("SLOT"), patch \in SlotPatches :
              /\ ValidSlotFill(Patched(table[i], patch))
              /\ CallWith(c, "SLOT_FILL", i, patch)
              /\ UNCHANGED table
       \/ Ends(c, "SLOT_FILL") /\ Put(c, Patched(Now(c), call[c].patch))

Campaign(scope, image) ==
    [kind |-> "CAMPAIGN", status |-> "DRAFT", scope |-> scope, image |-> image]

ImageValid(image) == image \in stored

\* The content of the image is read: what cannot be read, or is no image, is deleted, the
\* image of another campaign too when the read has only failed for a moment.
ImageRejected(image) == stored' = stored \ {image} /\ UNCHANGED rowVars

CreateCampaign ==
    \E scope \in Scopes, image \in Images :
        /\ \/ ImageValid(image) /\ Open(Campaign(scope, image)) /\ UNCHANGED stored
           \/ ImageRejected(image)

AllowedTransitions ==
    [DRAFT |-> {"ACTIVE", "ENDED"}, ACTIVE |-> {"PAUSED", "ENDED"},
     PAUSED |-> {"ACTIVE", "ENDED"}, ENDED |-> {}]

ObviousSlotConflict(i, scope) ==
    \E j \in Ids("CAMPAIGN") \ {i} : table[j].status = "ACTIVE" /\ table[j].scope = scope

\* Checked against the other campaigns, then set by its identifier.
TransitionStatus(c) ==
    /\ \/ \E i \in Ids("CAMPAIGN") : \E s \in AllowedTransitions[table[i].status] :
              /\ s = "ACTIVE" => ~ObviousSlotConflict(i, table[i].scope)
              /\ CallWith(c, "TRANSITION", i, [status |-> s])
              /\ UNCHANGED table
       \/ Ends(c, "TRANSITION") /\ Put(c, Patched(Now(c), call[c].patch))
    /\ UNCHANGED stored

\* The update rewrites every field but the status, those it was not given with what it read.
CampaignUpdated(c) == Put(c, Patched(Now(c), call[c].patch))

\* The image that was read is deleted once another has taken its place.
UpdateCampaign(c) ==
    \/ \E i \in Ids("CAMPAIGN"), scope \in Scopes, image \in Images :
           /\ image # table[i].image => ImageValid(image)
           /\ table[i].status = "ACTIVE" => ~ObviousSlotConflict(i, scope)
           /\ CallWith(c, "UPDATE_CAMPAIGN", i, [scope |-> scope, image |-> image])
           /\ UNCHANGED <<table, stored>>
    \/ /\ call[c] = Idle
       /\ \E i \in Ids("CAMPAIGN") : \E image \in Images \ {table[i].image} : ImageRejected(image)
    \/ /\ call[c].op = "UPDATE_CAMPAIGN"
       /\ CampaignUpdated(c)
       /\ call' = [call EXCEPT ![c].op = "CLEANUP"]
       /\ UNCHANGED stored
    \/ /\ Ends(c, "CLEANUP")
       /\ stored' = IF call[c].patch.image # Seen(c).image THEN stored \ {Seen(c).image} ELSE stored
       /\ UNCHANGED table

CampaignStep(c) == TransitionStatus(c) \/ UpdateCampaign(c)

=============================================================================
