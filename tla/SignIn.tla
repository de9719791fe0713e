------------------------------- MODULE SignIn -------------------------------
(***************************************************************************)
(* One-time codes, refresh tokens and the suspension of accounts.  A phone *)
(* asks for a code, a call verifies a guess of it and issues tokens, a     *)
(* call with a refresh token rotates it.  Every query of a call is a step  *)
(* of its own, so guesses, rotations and a suspension interleave as the    *)
(* requests of several devices do.                                         *)
(*                                                                         *)
(* A phone names its account: findPersonByPhone is a unique index.  The    *)
(* identifiers of codes and tokens are their places in the order of their  *)
(* creation.                                                               *)
(***************************************************************************)
EXTENDS Naturals, Sequences

CONSTANTS
    Phones,       \* phones, and the accounts they name
    Devices,      \* device tokens
    Calls,        \* requests under way at the same time
    MaxAttempts,  \* wrong guesses a code takes (OTP_MAX_ATTEMPTS)
    MaxCodes,     \* bound of the model: codes requested
    MaxTokens     \* bound of the model: refresh tokens created

ASSUME SignInAssumption == MaxAttempts \in Nat \ {0} /\ MaxCodes \in Nat /\ MaxTokens \in Nat

VARIABLES
    otp,        \* otp_requests
    token,      \* refresh_tokens
    person,     \* the accounts that exist, and whether they are suspended
    device,     \* devices: the account a device token belongs to
    call        \* where each request stands, and what it has read

signInVars == <<otp, token, person, device, call>>

Idle == [pc |-> "IDLE"]
NewPerson == [exists |-> TRUE, suspended |-> FALSE]
NoPerson == [exists |-> FALSE, suspended |-> FALSE]
NobodysDevice == "NOBODY"

SignInInit ==
    /\ otp = <<>>
    /\ token = <<>>
    /\ person \in [Phones -> {NoPerson, NewPerson}]
    /\ device = [d \in Devices |-> NobodysDevice]
    /\ call = [c \in Calls |-> Idle]

Done(c) == call' = [call EXCEPT ![c] = Idle]

-----------------------------------------------------------------------------
(* Codes.                                                                  *)

\* The row is created before delivery is tried; a failed delivery leaves it.
RequestOtp(p) ==
    /\ Len(otp) < MaxCodes
    /\ otp' = Append(otp, [phone |-> p, attempts |-> 0, consumed |-> FALSE, expired |-> FALSE])
    /\ UNCHANGED <<token, person, device, call>>

Unconsumed(p) == {o \in DOMAIN otp : otp[o].phone = p /\ ~otp[o].consumed}
LatestActiveOtp(p) == {o \in Unconsumed(p) : \A n \in Unconsumed(p) : n <= o}

\* assertNotExpired and assertAttemptsRemaining, on the row as it was read.
Verifiable(o) == ~otp[o].expired /\ otp[o].attempts < MaxAttempts

\* What verifyOtp reads first; whether the guess is right is compared in memory.
ReadOtp(c, p, d, right) ==
    /\ call[c] = Idle
    /\ \E o \in LatestActiveOtp(p) :
           /\ Verifiable(o)
           /\ call' = [call EXCEPT ![c] =
                  [pc |-> IF right THEN "RIGHT" ELSE "WRONG", code |-> o,
                   attempts |-> otp[o].attempts, phone |-> p, device |-> d]]
    /\ UNCHANGED <<otp, token, person, device>>

IncrementOtpAttempts(c) ==
    /\ call[c].pc = "WRONG"
    /\ otp' = [otp EXCEPT ![call[c].code].attempts = @ + 1]
    /\ Done(c)
    /\ UNCHANGED <<token, person, device>>

\* Mutant: the claim does not compare the attempts it has read.
ClaimableAnyAttempts(o, attempts) == ~otp[o].consumed /\ ~otp[o].expired

\* Mutant: the claim forgets that another call may have consumed the code.
ClaimableTwice(o, attempts) == otp[o].attempts = attempts /\ ~otp[o].expired

\* The where-clause of claimOtp.
Claimable(o, attempts) ==
    /\ otp[o].attempts = attempts
    /\ ~otp[o].consumed
    /\ ~otp[o].expired

ClaimOtp(c) ==
    /\ call[c].pc = "RIGHT"
    /\ IF Claimable(call[c].code, call[c].attempts)
       THEN /\ otp' = [otp EXCEPT ![call[c].code].consumed = TRUE]
            /\ call' = [call EXCEPT ![c].pc = "CLAIMED"]
       ELSE Done(c) /\ UNCHANGED otp
    /\ UNCHANGED <<token, person, device>>

\* Find the account or create it; a suspended one gets no tokens, but the code is spent.
AdmitPerson(c) ==
    /\ call[c].pc = "CLAIMED"
    /\ LET p == call[c].phone
       IN /\ person' = [person EXCEPT ![p] = IF @.exists THEN @ ELSE NewPerson]
          /\ IF person[p].suspended
             THEN Done(c) ELSE call' = [call EXCEPT ![c].pc = "ADMITTED"]
    /\ UNCHANGED <<otp, token, device>>

\* A device token moves to the account that signs in last.
UpsertDevice(c) ==
    /\ call[c].pc = "ADMITTED"
    /\ device' = [device EXCEPT ![call[c].device] = call[c].phone]
    /\ call' = [call EXCEPT ![c].pc = "ISSUING"]
    /\ UNCHANGED <<otp, token, person>>

\* "from" (the code of the sign-in), "ended" and "next" tell the history of a token.
NewToken(p, d, from) ==
    [person |-> p, device |-> d, from |-> from, revoked |-> FALSE, expired |-> FALSE,
     ended |-> FALSE, next |-> 0]

CreateRefreshToken(c) ==
    /\ call[c].pc = "ISSUING"
    /\ Len(token) < MaxTokens
    /\ token' = Append(token, NewToken(call[c].phone, call[c].device, call[c].code))
    /\ Done(c)
    /\ UNCHANGED <<otp, person, device>>

-----------------------------------------------------------------------------
(* Refresh.                                                                *)

Live(t) == ~token[t].revoked /\ ~token[t].expired

ReadToken(c, t) ==
    /\ call[c] = Idle
    /\ Live(t)
    /\ call' = [call EXCEPT ![c] = [pc |-> "PRESENTED", token |-> t]]
    /\ UNCHANGED <<otp, token, person, device>>

CheckPerson(c) ==
    /\ call[c].pc = "PRESENTED"
    /\ IF person[token[call[c].token].person].suspended
       THEN Done(c) ELSE call' = [call EXCEPT ![c].pc = "ROTATING"]
    /\ UNCHANGED <<otp, token, person, device>>

\* The where-clause of rotateRefreshToken: still live when it is replaced.
Rotatable(t) == Live(t)

\* Revoke, create the successor and link it, in one transaction.
RotateRefreshToken(c) ==
    /\ call[c].pc = "ROTATING"
    /\ LET t == call[c].token
       IN IF Rotatable(t)
          THEN /\ Len(token) < MaxTokens
               /\ token' = Append([token EXCEPT ![t].revoked = TRUE, ![t].next = Len(token) + 1],
                                  NewToken(token[t].person, token[t].device, token[t].from))
          ELSE UNCHANGED token
    /\ Done(c)
    /\ UNCHANGED <<otp, person, device>>

-----------------------------------------------------------------------------
(* Suspension, seen from the tokens.                                       *)

TokensToRevoke(p) == {t \in DOMAIN token : token[t].person = p /\ ~token[t].revoked}

\* The account's row is locked from its compare-and-set to the end of the transaction.
RowLocked(p) == \E c \in Calls : call[c].pc = "SUSPENDING" /\ call[c].phone = p

\* The compare-and-set of isSuspended, then an update that finds its tokens in the snapshot
\* of its statement ...
SuspendBegins(c, p) ==
    /\ call[c] = Idle
    /\ person[p].exists /\ ~person[p].suspended
    /\ ~RowLocked(p)
    /\ call' = [call EXCEPT ![c] =
           [pc |-> "SUSPENDING", phone |-> p, found |-> TokensToRevoke(p)]]
    /\ UNCHANGED <<otp, token, person, device>>

\* Mutant: a row found in the snapshot is written whatever became of it.
StillToRevoke(c) == call[c].found
RevokedWhileHeld(c) == {t \in call[c].found : ~token[t].revoked}

\* ... and checks each of them again when it has locked it: a token that was rotated
\* meanwhile is skipped, its successor was not in the snapshot.
SuspendCommits(c) ==
    /\ call[c].pc = "SUSPENDING"
    /\ LET held == RevokedWhileHeld(c)
       IN token' = [t \in DOMAIN token |->
                       IF t \in held THEN [token[t] EXCEPT !.revoked = TRUE, !.ended = TRUE]
                       ELSE token[t]]
    /\ person' = [person EXCEPT ![call[c].phone].suspended = TRUE]
    /\ Done(c)
    /\ UNCHANGED <<otp, device>>

\* An enforcement action suspends without revoking; an appeal or an administrator reinstates.
SuspendPerson(p) ==
    /\ person[p].exists
    /\ ~RowLocked(p)
    /\ person' = [person EXCEPT ![p].suspended = TRUE]
    /\ UNCHANGED <<otp, token, device, call>>

ReinstatePerson(p) ==
    /\ person[p].suspended
    /\ person' = [person EXCEPT ![p].suspended = FALSE]
    /\ UNCHANGED <<otp, token, device, call>>

Expire ==
    \/ /\ \E o \in DOMAIN otp : ~otp[o].expired /\ otp' = [otp EXCEPT ![o].expired = TRUE]
       /\ UNCHANGED <<token, person, device, call>>
    \/ /\ \E t \in DOMAIN token : Live(t) /\ token' = [token EXCEPT ![t].expired = TRUE]
       /\ UNCHANGED <<otp, person, device, call>>

CallStep(c) ==
    \/ IncrementOtpAttempts(c) \/ ClaimOtp(c) \/ AdmitPerson(c) \/ UpsertDevice(c)
    \/ CreateRefreshToken(c) \/ CheckPerson(c) \/ RotateRefreshToken(c)
    \/ SuspendCommits(c)

SignInNext ==
    \/ \E p \in Phones : RequestOtp(p) \/ SuspendPerson(p) \/ ReinstatePerson(p)
    \/ \E c \in Calls, p \in Phones : SuspendBegins(c, p)
    \/ \E c \in Calls, p \in Phones, d \in Devices, right \in BOOLEAN : ReadOtp(c, p, d, right)
    \/ \E c \in Calls : \E t \in DOMAIN token : ReadToken(c, t)
    \/ \E c \in Calls : CallStep(c)
    \/ Expire

SignInSpec == SignInInit /\ [][SignInNext]_signInVars

-----------------------------------------------------------------------------
(* Properties.                                                             *)

SignInTypeOK ==
    /\ \A o \in DOMAIN otp : otp[o].phone \in Phones /\ otp[o].attempts \in Nat
    /\ \A t \in DOMAIN token :
           /\ token[t].person \in Phones /\ token[t].device \in Devices
           /\ token[t].from \in DOMAIN otp /\ token[t].next \in 0 .. Len(token)
    /\ \A p \in Phones : person[p].suspended => person[p].exists
    /\ device \in [Devices -> Phones \cup {NobodysDevice}]

Issued(o) == {t \in DOMAIN token : token[t].from = o}
SigningIn(o) == {c \in Calls : /\ call[c].pc \in {"CLAIMED", "ADMITTED", "ISSUING"}
                               /\ call[c].code = o}

\* A code signs in one device, once, and a sign-in never has two live refresh tokens:
\* whatever two calls with one code, two refreshes of one token and a suspension read
\* before the others wrote.
OneSessionPerCode ==
    \A o \in DOMAIN otp :
        /\ \A c1, c2 \in SigningIn(o) : c1 = c2
        /\ \A t1, t2 \in Issued(o) : ~token[t1].revoked /\ ~token[t2].revoked => t1 = t2
        /\ SigningIn(o) # {} => Issued(o) = {}
        /\ (SigningIn(o) # {} \/ Issued(o) # {}) => otp[o].consumed

\* A refresh under way never revives a token that a suspension has revoked, and a
\* suspension never stamps a token that was replaced: a token is ended or replaced.
EndedOrReplaced ==
    \A t \in DOMAIN token :
        /\ ~(token[t].ended /\ token[t].next # 0)
        /\ token[t].revoked => token[t].ended \/ token[t].next # 0
        /\ token[t].next # 0 => token[token[t].next].from = token[t].from

\* A code that has taken its wrong guesses is dead: a call that read it before the last of
\* them cannot claim it any more.
LockedCodeStaysLocked ==
    [][\A o \in DOMAIN otp :
           otp[o].attempts >= MaxAttempts /\ ~otp[o].consumed => ~otp'[o].consumed]_signInVars

=============================================================================
