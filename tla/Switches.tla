------------------------------ MODULE Switches ------------------------------
(***************************************************************************)
(* Operational switches: maintenance mode and the providers that           *)
(* notifications leave through are rows with a copy in the memory of the   *)
(* one server process; feature flags are rows that are read when asked.    *)
(***************************************************************************)
EXTENDS Rows

CONSTANTS
    Maintenance,   \* the switch of maintenance mode
    SwitchNames    \* all switches, Maintenance and a name per provider

ASSUME SwitchesAssumption == Maintenance \in SwitchNames

VARIABLES switch   \* per switch: the row, and the copy that is consulted

\* The copy of a server that has not read, or could not read, the row: the platform is open
\* and every provider is on.
SafeDefault(s) == s # Maintenance

SwitchesInit == switch = [s \in SwitchNames |-> [row |-> SafeDefault(s), copy |-> SafeDefault(s)]]

IsEnabled(s) == switch[s].copy

UpsertSwitch(s, v) == switch' = [switch EXCEPT ![s].row = v]
RefreshCopy(s, v) == switch' = [switch EXCEPT ![s].copy = v]

\* The row is written, then the copy takes the value this request has written, although
\* another request may have written the row since.
SetEnabled(c, s, v) ==
    /\ call[c] = Idle
    /\ UpsertSwitch(s, v)
    /\ call' = [call EXCEPT ![c] = [op |-> "REFRESH", switch |-> s, value |-> v]]
    /\ UNCHANGED table

Refreshes(c) ==
    /\ Ends(c, "REFRESH")
    /\ RefreshCopy(call[c].switch, call[c].value)
    /\ UNCHANGED table

\* At boot the rows are read, or they cannot be.
Booted(readable) ==
    [s \in SwitchNames |->
        [switch[s] EXCEPT !.copy = IF readable THEN switch[s].row ELSE SafeDefault(s)]]

\* A restart ends the requests under way.
Restart ==
    /\ \E readable \in BOOLEAN : switch' = Booted(readable)
    /\ call' = [c \in Calls |-> Idle]
    /\ UNCHANGED table

-----------------------------------------------------------------------------
(* Feature flags: one key.                                                 *)

Flag(enabled) == [kind |-> "FLAG", enabled |-> enabled, description |-> 0]

FlagTaken == Ids("FLAG") # {}

\* Looked up, then created; the key is unique.
CreateFlag(c) ==
    \/ /\ call[c] = Idle /\ ~FlagTaken
       /\ call' = [call EXCEPT ![c] = [op |-> "FLAG"]]
       /\ UNCHANGED table
    \/ /\ Ends(c, "FLAG")
       /\ \E enabled \in BOOLEAN : IF FlagTaken THEN UNCHANGED table ELSE Insert(Flag(enabled))

\* What the request leaves out is written as it was read.
FlagUpdated(c, f) == Put(c, f)

UpdateFlag(c) ==
    \/ \E i \in Ids("FLAG") : Checked(c, "UPDATE_FLAG", i)
    \/ /\ Ends(c, "UPDATE_FLAG")
       /\ \/ \E v \in BOOLEAN : FlagUpdated(c, [Seen(c) EXCEPT !.enabled = v])
          \/ FlagUpdated(c, [Seen(c) EXCEPT !.description = 1])

FlagStep(c) == CreateFlag(c) \/ UpdateFlag(c)

=============================================================================
