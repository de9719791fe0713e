---------------------------- MODULE SignInProofs ----------------------------
(***************************************************************************)
(* SignIn keeps its types, and for any phones, devices and calls a code    *)
(* opens one session, a locked code stays locked, and a revoked token was  *)
(* ended or replaced.                                                      *)
(***************************************************************************)
EXTENDS SignIn, SequenceTheorems, TLAPS

Codes == [phone : Phones, attempts : Nat, consumed : BOOLEAN, expired : BOOLEAN]

Tokens ==
    [person : Phones, device : Devices, from : Nat, revoked : BOOLEAN, expired : BOOLEAN,
     ended : BOOLEAN, next : Nat]

People == [exists : BOOLEAN, suspended : BOOLEAN]

CodePcs == {"RIGHT", "WRONG", "CLAIMED", "ADMITTED", "ISSUING"}
TokenPcs == {"PRESENTED", "ROTATING"}

CodeCalls == [pc : CodePcs, code : Nat, attempts : Nat, phone : Phones, device : Devices]
TokenCalls == [pc : TokenPcs, token : Nat]
SuspendCalls == [pc : {"SUSPENDING"}, phone : Phones, found : SUBSET Nat]

\* The tables, and what their rows refer to.
RowsOK ==
    /\ otp \in Seq(Codes)
    /\ token \in Seq(Tokens)
    /\ \A t \in 1 .. Len(token) : token[t].from \in 1 .. Len(otp) /\ token[t].next \in 0 .. Len(token)
    /\ device \in [Devices -> Phones \cup {NobodysDevice}]

PeopleOK == person \in [Phones -> People]

\* The requests under way, and the rows they have read.
CallsOK ==
    /\ call \in [Calls -> {Idle} \cup CodeCalls \cup TokenCalls \cup SuspendCalls]
    /\ \A c \in Calls :
           /\ call[c].pc \in CodePcs => call[c].code \in 1 .. Len(otp)
           /\ call[c].pc \in TokenPcs => call[c].token \in 1 .. Len(token)

Types == RowsOK /\ PeopleOK /\ CallsOK

-----------------------------------------------------------------------------
(* Facts about sequences and calls.                                        *)

LEMMA FunctionIsSeq ==
    ASSUME NEW S, NEW n \in Nat, NEW f \in [1 .. n -> S]
    PROVE  f \in Seq(S) /\ Len(f) = n /\ DOMAIN f = 1 .. n
<1>1. f \in Seq(S)
  BY SeqDef
<1>2. DOMAIN f = 1 .. n
  OBVIOUS
<1> QED
  BY <1>1, <1>2, LenProperties

\* A call in a given state of its code, token or suspension has the columns of that state.
LEMMA CallKinds ==
    ASSUME CallsOK, NEW c \in Calls
    PROVE  /\ call[c].pc \in CodePcs => call[c] \in CodeCalls
           /\ call[c].pc \in TokenPcs => call[c] \in TokenCalls
           /\ call[c].pc = "SUSPENDING" => call[c] \in SuspendCalls
  BY DEF CallsOK, CodeCalls, TokenCalls, SuspendCalls, CodePcs, TokenPcs, Idle

LEMMA CodeCallMoves ==
    ASSUME NEW k \in CodeCalls, NEW s \in CodePcs
    PROVE  LET n == [k EXCEPT !.pc = s]
           IN n \in CodeCalls /\ n.pc = s /\ n.code = k.code /\ n.attempts = k.attempts
              /\ n.phone = k.phone /\ n.device = k.device
  BY DEF CodeCalls

LEMMA TokenCallMoves ==
    ASSUME NEW k \in TokenCalls, NEW s \in TokenPcs
    PROVE  LET n == [k EXCEPT !.pc = s]
           IN n \in TokenCalls /\ n.pc = s /\ n.token = k.token
  BY DEF TokenCalls

\* One request has written its own state and no other's.
Writes(c, k) == call' = [call EXCEPT ![c] = k]

\* What a request may remember, given the rows that exist.
Recallable(k) ==
    \/ k = Idle
    \/ k \in CodeCalls /\ k.code \in 1 .. Len(otp)
    \/ k \in TokenCalls /\ k.token \in 1 .. Len(token)
    \/ k \in SuspendCalls

\* A call that ends, or that goes on with what it has read, keeps CallsOK as long as no row
\* disappears.
LEMMA CallsKept ==
    ASSUME CallsOK, RowsOK, RowsOK', Len(otp') >= Len(otp), Len(token') >= Len(token),
           NEW c \in Calls, NEW k, Writes(c, k), Recallable(k)
    PROVE  CallsOK'
<1> USE DEF Writes, Recallable
<1>1. Len(otp) \in Nat /\ Len(otp') \in Nat /\ Len(token) \in Nat /\ Len(token') \in Nat
  BY LenProperties DEF RowsOK
<1>2. call' \in [Calls -> {Idle} \cup CodeCalls \cup TokenCalls \cup SuspendCalls]
  BY DEF CallsOK
<1>3. ASSUME NEW d \in Calls
      PROVE  /\ call'[d].pc \in CodePcs => call'[d].code \in 1 .. Len(otp')
             /\ call'[d].pc \in TokenPcs => call'[d].token \in 1 .. Len(token')
  <2>1. CASE d # c
    BY <1>1, <2>1 DEF CallsOK
  <2>2. CASE d = c
    <3>1. call'[d] = k
      BY <2>2 DEF CallsOK
    <3> QED
      BY <1>1, <3>1 DEF CodeCalls, TokenCalls, SuspendCalls, CodePcs, TokenPcs, Idle
  <2> QED
    BY <2>1, <2>2
<1> QED
  BY <1>2, <1>3 DEF CallsOK

-----------------------------------------------------------------------------
(* What each action does to the rows.                                      *)

\* A code is added, a wrong guess is counted, a code is consumed or expires: one code changes.
LEMMA CodeChanged ==
    ASSUME RowsOK, NEW o \in 1 .. Len(otp), NEW r \in Codes,
           otp' = [otp EXCEPT ![o] = r], token' = token, device' = device
    PROVE  /\ RowsOK'
           /\ Len(otp') = Len(otp)
           /\ otp'[o] = r
           /\ \A n \in 1 .. Len(otp) : n # o => otp'[n] = otp[n]
<1>1. otp' \in Seq(Codes) /\ Len(otp') = Len(otp)
  BY ExceptSeq DEF RowsOK
<1>2. \A n \in 1 .. Len(otp) : otp'[n] = IF n = o THEN r ELSE otp[n]
  BY ExceptSeq DEF RowsOK
<1> QED
  BY <1>1, <1>2 DEF RowsOK

LEMMA CodeRequested ==
    ASSUME RowsOK, NEW p \in Phones, RequestOtp(p)
    PROVE  /\ RowsOK'
           /\ Len(otp') = Len(otp) + 1
           /\ \A n \in 1 .. Len(otp) : otp'[n] = otp[n]
           /\ otp'[Len(otp) + 1].consumed = FALSE /\ otp'[Len(otp) + 1].attempts = 0
<1> DEFINE r == [phone |-> p, attempts |-> 0, consumed |-> FALSE, expired |-> FALSE]
<1>1. r \in Codes /\ otp' = Append(otp, r) /\ token' = token /\ device' = device
  BY DEF RequestOtp, Codes
<1>2. Len(otp) \in Nat
  BY LenProperties DEF RowsOK
<1> HIDE DEF r
<1>3. /\ otp' \in Seq(Codes) /\ Len(otp') = Len(otp) + 1
      /\ \A n \in 1 .. Len(otp) : otp'[n] = otp[n]
      /\ otp'[Len(otp) + 1] = r
  BY <1>1, AppendProperties DEF RowsOK
<1>4. RowsOK'
  BY <1>1, <1>2, <1>3 DEF RowsOK
<1> QED
  BY <1>3, <1>4 DEF r

\* One token changes, in its flags only.
LEMMA TokenChanged ==
    ASSUME RowsOK, NEW t \in 1 .. Len(token), NEW r \in Tokens,
           r.from = token[t].from, r.next = token[t].next,
           token' = [token EXCEPT ![t] = r], otp' = otp, device' = device
    PROVE  /\ RowsOK'
           /\ Len(token') = Len(token)
           /\ token'[t] = r
           /\ \A u \in 1 .. Len(token) : u # t => token'[u] = token[u]
<1>1. token' \in Seq(Tokens) /\ Len(token') = Len(token)
  BY ExceptSeq DEF RowsOK
<1>2. \A u \in 1 .. Len(token) : token'[u] = IF u = t THEN r ELSE token[u]
  BY ExceptSeq DEF RowsOK
<1> QED
  BY <1>1, <1>2 DEF RowsOK

LEMMA TokenCreated ==
    ASSUME RowsOK, CallsOK, NEW c \in Calls, CreateRefreshToken(c)
    PROVE  /\ RowsOK'
           /\ Len(token') = Len(token) + 1
           /\ \A u \in 1 .. Len(token) : token'[u] = token[u]
           /\ token'[Len(token) + 1] = NewToken(call[c].phone, call[c].device, call[c].code)
<1> DEFINE r == NewToken(call[c].phone, call[c].device, call[c].code)
<1>1. call[c] \in CodeCalls /\ call[c].code \in 1 .. Len(otp)
  BY CallKinds DEF CreateRefreshToken, CodePcs, CallsOK
<1>2. Len(token) \in Nat /\ Len(otp) \in Nat
  BY LenProperties DEF RowsOK
<1>3. r \in Tokens /\ r.from \in 1 .. Len(otp) /\ r.next = 0
  BY <1>1, <1>2 DEF NewToken, Tokens, CodeCalls
<1>4. token' = Append(token, r) /\ otp' = otp /\ device' = device
  BY DEF CreateRefreshToken
<1> HIDE DEF r
<1>5. /\ token' \in Seq(Tokens) /\ Len(token') = Len(token) + 1
      /\ \A u \in 1 .. Len(token) : token'[u] = token[u]
      /\ token'[Len(token) + 1] = r
  BY <1>3, <1>4, AppendProperties DEF RowsOK
<1>6. RowsOK'
  BY <1>2, <1>3, <1>4, <1>5 DEF RowsOK
<1> QED
  BY <1>5, <1>6 DEF r

\* A rotation that goes through revokes its token, links it and appends the successor.
LEMMA TokenRotated ==
    ASSUME RowsOK, CallsOK, NEW c \in Calls, RotateRefreshToken(c), Rotatable(call[c].token)
    PROVE  LET t == call[c].token
           IN /\ RowsOK'
              /\ t \in 1 .. Len(token)
              /\ Len(token') = Len(token) + 1
              /\ token'[t] = [token[t] EXCEPT !.revoked = TRUE, !.next = Len(token) + 1]
              /\ \A u \in 1 .. Len(token) : u # t => token'[u] = token[u]
              /\ token'[Len(token) + 1] = NewToken(token[t].person, token[t].device, token[t].from)
<1> DEFINE t == call[c].token
           q == [token[t] EXCEPT !.revoked = TRUE, !.next = Len(token) + 1]
           s == [token EXCEPT ![t] = q]
           r == NewToken(token[t].person, token[t].device, token[t].from)
<1>1. t \in 1 .. Len(token)
  BY DEF RotateRefreshToken, CallsOK, TokenPcs
<1>2. Len(token) \in Nat /\ Len(otp) \in Nat
  BY LenProperties DEF RowsOK
<1>3. token[t] \in Tokens
  BY <1>1, ElementOfSeq DEF RowsOK
<1>4. /\ q \in Tokens /\ q.from = token[t].from /\ q.next = Len(token) + 1
      /\ r \in Tokens /\ r.from = token[t].from /\ r.next = 0
  <2>1. Len(token) + 1 \in Nat
    BY <1>2
  <2>2. q \in Tokens /\ q.from = token[t].from /\ q.next = Len(token) + 1
    BY <1>3, <2>1 DEF Tokens
  <2>3. r \in Tokens /\ r.from = token[t].from /\ r.next = 0
    BY <1>3 DEF Tokens, NewToken
  <2> QED
    BY <2>2, <2>3
<1>5. token' = Append(s, r) /\ otp' = otp /\ device' = device
  <2>1. token' = Append([token EXCEPT ![t].revoked = TRUE, ![t].next = Len(token) + 1], r)
    BY DEF RotateRefreshToken
  <2>2. [token EXCEPT ![t].revoked = TRUE, ![t].next = Len(token) + 1] = s
    BY <1>1, <1>3 DEF Tokens
  <2> QED
    BY <2>1, <2>2 DEF RotateRefreshToken
<1>6. /\ s \in Seq(Tokens) /\ Len(s) = Len(token)
      /\ \A u \in 1 .. Len(token) : s[u] = IF u = t THEN q ELSE token[u]
  BY <1>1, <1>4, ExceptSeq DEF RowsOK
<1> HIDE DEF t, q, r, s
<1>7. /\ token' \in Seq(Tokens) /\ Len(token') = Len(token) + 1
      /\ \A u \in 1 .. Len(token) : token'[u] = IF u = t THEN q ELSE token[u]
      /\ token'[Len(token) + 1] = r
  BY <1>4, <1>5, <1>6, AppendProperties
<1>8. RowsOK'
  <2>1. ASSUME NEW u \in 1 .. Len(token')
        PROVE  token'[u].from \in 1 .. Len(otp') /\ token'[u].next \in 0 .. Len(token')
    <3>1. CASE u = Len(token) + 1
      BY <1>1, <1>2, <1>4, <1>5, <1>7, <3>1 DEF RowsOK
    <3>2. CASE u \in 1 .. Len(token)
      BY <1>1, <1>2, <1>4, <1>5, <1>7, <3>2 DEF RowsOK
    <3> QED
      BY <1>2, <1>7, <3>1, <3>2
  <2> QED
    BY <1>5, <1>7, <2>1 DEF RowsOK
<1> QED
  BY <1>1, <1>7, <1>8 DEF t, q, r

\* A suspension stamps what it finds still unrevoked, and leaves every other token alone.
LEMMA TokensEnded ==
    ASSUME RowsOK, CallsOK, NEW c \in Calls, SuspendCommits(c)
    PROVE  /\ RowsOK'
           /\ Len(token') = Len(token)
           /\ \A u \in 1 .. Len(token) :
                  \/ token'[u] = token[u]
                  \/ /\ ~token[u].revoked
                     /\ token'[u] = [token[u] EXCEPT !.revoked = TRUE, !.ended = TRUE]
<1> DEFINE held == RevokedWhileHeld(c)
           e(u) == IF u \in held THEN [token[u] EXCEPT !.revoked = TRUE, !.ended = TRUE]
                   ELSE token[u]
<1>1. Len(token) \in Nat /\ DOMAIN token = 1 .. Len(token)
  BY LenProperties DEF RowsOK
<1>2. token' = [u \in 1 .. Len(token) |-> e(u)] /\ otp' = otp /\ device' = device
  BY <1>1 DEF SuspendCommits
<1>3. ASSUME NEW u \in 1 .. Len(token)
      PROVE  e(u) \in Tokens /\ e(u).from = token[u].from /\ e(u).next = token[u].next
  <2>1. token[u] \in Tokens
    BY ElementOfSeq DEF RowsOK
  <2> QED
    BY <2>1 DEF Tokens
<1>4. token' \in [1 .. Len(token) -> Tokens]
  BY <1>2, <1>3
<1>5. token' \in Seq(Tokens) /\ Len(token') = Len(token)
  BY <1>1, <1>4, FunctionIsSeq
<1>6. RowsOK'
  BY <1>2, <1>3, <1>5 DEF RowsOK
<1>7. ASSUME NEW u \in held PROVE ~token[u].revoked
  BY DEF RevokedWhileHeld
<1> QED
  BY <1>2, <1>5, <1>6, <1>7

-----------------------------------------------------------------------------
(* The types.                                                              *)

LEMMA TypesStart == SignInInit => Types
<1> SUFFICES ASSUME SignInInit PROVE Types
  OBVIOUS
<1>1. otp = <<>> /\ token = <<>> /\ Len(token) = 0
  BY EmptySeq DEF SignInInit
<1>2. RowsOK
  BY <1>1, EmptySeq DEF SignInInit, RowsOK
<1>3. PeopleOK
  <2>1. NewPerson \in People /\ NoPerson \in People
    BY DEF People, NewPerson, NoPerson
  <2> QED
    BY <2>1 DEF SignInInit, PeopleOK
<1>4. CallsOK
  BY DEF SignInInit, CallsOK, Idle, CodePcs, TokenPcs
<1> QED
  BY <1>2, <1>3, <1>4 DEF Types

LEMMA CodeStepKeepsTypes ==
    ASSUME Types, NEW c \in Calls,
           IncrementOtpAttempts(c) \/ ClaimOtp(c) \/ AdmitPerson(c) \/ UpsertDevice(c)
           \/ CreateRefreshToken(c)
    PROVE  Types'
<1> USE DEF Types
<1>1. /\ call[c] \in CodeCalls /\ call[c].code \in 1 .. Len(otp)
      /\ otp[call[c].code] \in Codes /\ Len(otp) \in Nat /\ Len(token) \in Nat
  <2>1. call[c].pc \in CodePcs
    BY DEF IncrementOtpAttempts, ClaimOtp, AdmitPerson, UpsertDevice, CreateRefreshToken, CodePcs
  <2>2. call[c] \in CodeCalls /\ call[c].code \in 1 .. Len(otp)
    BY <2>1, CallKinds DEF CallsOK
  <2> QED
    BY <2>2, ElementOfSeq, LenProperties DEF RowsOK
<1>2. CASE IncrementOtpAttempts(c)
  <2> DEFINE r == [otp[call[c].code] EXCEPT !.attempts = @ + 1]
  <2>1. r \in Codes
    BY <1>1 DEF Codes
  <2>2. otp' = [otp EXCEPT ![call[c].code] = r] /\ UNCHANGED <<token, device, person>>
    BY <1>2 DEF IncrementOtpAttempts
  <2>3. Writes(c, Idle)
    BY <1>2 DEF IncrementOtpAttempts, Done, Writes
  <2> HIDE DEF r
  <2>4. RowsOK' /\ Len(otp') = Len(otp)
    BY <1>1, <2>1, <2>2, CodeChanged
  <2>5. CallsOK'
    BY <1>1, <2>2, <2>3, <2>4, CallsKept DEF Recallable
  <2> QED
    BY <2>2, <2>4, <2>5 DEF PeopleOK
<1>3. CASE ClaimOtp(c)
  <2>1. CASE Claimable(call[c].code, call[c].attempts)
    <3> DEFINE r == [otp[call[c].code] EXCEPT !.consumed = TRUE]
               k == [call[c] EXCEPT !.pc = "CLAIMED"]
    <3>1. r \in Codes
      BY <1>1 DEF Codes
    <3>2. k \in CodeCalls /\ k.code = call[c].code
      BY <1>1, CodeCallMoves DEF CodePcs
    <3>3. otp' = [otp EXCEPT ![call[c].code] = r] /\ UNCHANGED <<token, device, person>>
      BY <1>3, <2>1 DEF ClaimOtp
    <3>4. Writes(c, k)
      BY <1>3, <2>1 DEF ClaimOtp, Writes
    <3> HIDE DEF r, k
    <3>5. RowsOK' /\ Len(otp') = Len(otp)
      BY <1>1, <3>1, <3>3, CodeChanged
    <3>6. CallsOK'
      BY <1>1, <3>2, <3>3, <3>4, <3>5, CallsKept DEF Recallable
    <3> QED
      BY <3>3, <3>5, <3>6 DEF PeopleOK
  <2>2. CASE ~Claimable(call[c].code, call[c].attempts)
    <3>1. UNCHANGED <<otp, token, device, person>> /\ Writes(c, Idle)
      BY <1>3, <2>2 DEF ClaimOtp, Done, Writes
    <3>2. RowsOK' /\ PeopleOK'
      BY <3>1 DEF RowsOK, PeopleOK
    <3> QED
      BY <1>1, <3>1, <3>2, CallsKept DEF Recallable
  <2> QED
    BY <2>1, <2>2
<1>4. CASE AdmitPerson(c)
  <2> DEFINE k == [call[c] EXCEPT !.pc = "ADMITTED"]
  <2>1. UNCHANGED <<otp, token, device>> /\ RowsOK'
    BY <1>4 DEF AdmitPerson, RowsOK
  <2>2. k \in CodeCalls /\ k.code = call[c].code
    BY <1>1, CodeCallMoves DEF CodePcs
  <2>3. Writes(c, Idle) \/ Writes(c, k)
    BY <1>4 DEF AdmitPerson, Done, Writes
  <2> HIDE DEF k
  <2>4. CallsOK'
    BY <1>1, <2>1, <2>2, <2>3, CallsKept DEF Recallable
  <2>5. PeopleOK'
    BY <1>1, <1>4 DEF AdmitPerson, PeopleOK, People, NewPerson, CodeCalls
  <2> QED
    BY <2>1, <2>4, <2>5
<1>5. CASE UpsertDevice(c)
  <2> DEFINE k == [call[c] EXCEPT !.pc = "ISSUING"]
  <2>1. UNCHANGED <<otp, token, person>> /\ RowsOK'
    BY <1>1, <1>5 DEF UpsertDevice, RowsOK, CodeCalls
  <2>2. k \in CodeCalls /\ k.code = call[c].code
    BY <1>1, CodeCallMoves DEF CodePcs
  <2>3. Writes(c, k)
    BY <1>5 DEF UpsertDevice, Writes
  <2> HIDE DEF k
  <2>4. CallsOK'
    BY <1>1, <2>1, <2>2, <2>3, CallsKept DEF Recallable
  <2> QED
    BY <2>1, <2>4 DEF PeopleOK
<1>6. CASE CreateRefreshToken(c)
  <2>1. RowsOK' /\ Len(token') = Len(token) + 1
    BY <1>6, TokenCreated
  <2>2. UNCHANGED <<otp, person>> /\ Writes(c, Idle)
    BY <1>6 DEF CreateRefreshToken, Done, Writes
  <2>3. CallsOK'
    BY <1>1, <2>1, <2>2, CallsKept DEF Recallable
  <2> QED
    BY <2>1, <2>2, <2>3 DEF PeopleOK
<1> QED
  BY <1>2, <1>3, <1>4, <1>5, <1>6

LEMMA TokenStepKeepsTypes ==
    ASSUME Types, NEW c \in Calls,
           CheckPerson(c) \/ RotateRefreshToken(c) \/ SuspendCommits(c)
    PROVE  Types'
<1> USE DEF Types
<1>1. Len(otp) \in Nat /\ Len(token) \in Nat
  BY LenProperties DEF RowsOK
<1>2. CASE CheckPerson(c)
  <2> DEFINE k == [call[c] EXCEPT !.pc = "ROTATING"]
  <2>1. UNCHANGED <<otp, token, device, person>> /\ RowsOK' /\ PeopleOK'
    BY <1>2 DEF CheckPerson, RowsOK, PeopleOK
  <2>2. call[c] \in TokenCalls /\ call[c].token \in 1 .. Len(token)
    BY <1>2, CallKinds DEF CheckPerson, TokenPcs, CallsOK
  <2>3. k \in TokenCalls /\ k.token = call[c].token
    BY <2>2, TokenCallMoves DEF TokenPcs
  <2>4. Writes(c, Idle) \/ Writes(c, k)
    BY <1>2 DEF CheckPerson, Done, Writes
  <2> HIDE DEF k
  <2> QED
    BY <1>1, <2>1, <2>2, <2>3, <2>4, CallsKept DEF Recallable
<1>3. CASE RotateRefreshToken(c)
  <2>1. UNCHANGED <<otp, device, person>> /\ Writes(c, Idle)
    BY <1>3 DEF RotateRefreshToken, Done, Writes
  <2>2. RowsOK' /\ (Len(token') = Len(token) \/ Len(token') = Len(token) + 1)
    <3>1. CASE Rotatable(call[c].token)
      BY <1>3, <3>1, TokenRotated
    <3>2. CASE ~Rotatable(call[c].token)
      BY <1>3, <2>1, <3>2 DEF RotateRefreshToken, RowsOK
    <3> QED
      BY <3>1, <3>2
  <2>3. CallsOK'
    BY <1>1, <2>1, <2>2, CallsKept DEF Recallable
  <2> QED
    BY <2>1, <2>2, <2>3 DEF PeopleOK
<1>4. CASE SuspendCommits(c)
  <2>1. RowsOK' /\ Len(token') = Len(token)
    BY <1>4, TokensEnded
  <2>2. /\ UNCHANGED <<otp, device>> /\ Writes(c, Idle)
        /\ person' = [person EXCEPT ![call[c].phone].suspended = TRUE]
    BY <1>4 DEF SuspendCommits, Done, Writes
  <2>3. CallsOK'
    BY <1>1, <2>1, <2>2, CallsKept DEF Recallable
  <2> QED
    BY <2>1, <2>2, <2>3 DEF PeopleOK, People
<1> QED
  BY <1>2, <1>3, <1>4

LEMMA StartStepKeepsTypes ==
    ASSUME Types, NEW c \in Calls,
           \/ \E p \in Phones : SuspendBegins(c, p)
           \/ \E p \in Phones, d \in Devices, right \in BOOLEAN : ReadOtp(c, p, d, right)
           \/ \E t \in DOMAIN token : ReadToken(c, t)
    PROVE  Types'
<1> USE DEF Types
<1>1. /\ Len(otp) \in Nat /\ DOMAIN otp = 1 .. Len(otp)
      /\ Len(token) \in Nat /\ DOMAIN token = 1 .. Len(token)
  BY LenProperties DEF RowsOK
<1>2. UNCHANGED <<otp, token, device, person>> /\ RowsOK' /\ PeopleOK'
  BY DEF SuspendBegins, ReadOtp, ReadToken, RowsOK, PeopleOK
<1>3. ASSUME NEW p \in Phones, SuspendBegins(c, p) PROVE CallsOK'
  <2> DEFINE k == [pc |-> "SUSPENDING", phone |-> p, found |-> TokensToRevoke(p)]
  <2>1. TokensToRevoke(p) \in SUBSET Nat
    BY <1>1 DEF TokensToRevoke
  <2>2. k \in SuspendCalls
    BY <2>1 DEF SuspendCalls
  <2>3. Writes(c, k)
    BY <1>3 DEF SuspendBegins, Writes
  <2> HIDE DEF k
  <2> QED
    BY <1>1, <1>2, <2>2, <2>3, CallsKept DEF Recallable
<1>4. ASSUME NEW p \in Phones, NEW d \in Devices, NEW right \in BOOLEAN, ReadOtp(c, p, d, right)
      PROVE  CallsOK'
  <2>1. PICK o \in LatestActiveOtp(p) :
            Writes(c, [pc |-> IF right THEN "RIGHT" ELSE "WRONG", code |-> o,
                       attempts |-> otp[o].attempts, phone |-> p, device |-> d])
    BY <1>4 DEF ReadOtp, Writes
  <2> DEFINE k == [pc |-> IF right THEN "RIGHT" ELSE "WRONG", code |-> o,
                   attempts |-> otp[o].attempts, phone |-> p, device |-> d]
  <2>2. o \in 1 .. Len(otp)
    BY <1>1 DEF LatestActiveOtp, Unconsumed
  <2>3. otp[o].attempts \in Nat
    <3>1. otp[o] \in Codes
      BY <2>2, ElementOfSeq DEF RowsOK
    <3> QED
      BY <3>1 DEF Codes
  <2>4. k \in CodeCalls /\ k.code = o
    BY <2>2, <2>3 DEF CodeCalls, CodePcs
  <2> HIDE DEF k
  <2>5. Writes(c, k)
    BY <2>1 DEF k
  <2> QED
    BY <1>1, <1>2, <2>2, <2>4, <2>5, CallsKept DEF Recallable
<1>5. ASSUME NEW t \in DOMAIN token, ReadToken(c, t) PROVE CallsOK'
  <2> DEFINE k == [pc |-> "PRESENTED", token |-> t]
  <2>1. k \in TokenCalls /\ k.token = t
    BY <1>1 DEF TokenCalls, TokenPcs
  <2>2. Writes(c, k)
    BY <1>5 DEF ReadToken, Writes
  <2> HIDE DEF k
  <2> QED
    BY <1>1, <1>2, <2>1, <2>2, CallsKept DEF Recallable
<1> QED
  BY <1>2, <1>3, <1>4, <1>5

LEMMA OtherStepKeepsTypes ==
    ASSUME Types,
           \/ \E p \in Phones : RequestOtp(p) \/ SuspendPerson(p) \/ ReinstatePerson(p)
           \/ Expire
    PROVE  Types'
<1> USE DEF Types
<1>1. /\ Len(otp) \in Nat /\ DOMAIN otp = 1 .. Len(otp)
      /\ Len(token) \in Nat /\ DOMAIN token = 1 .. Len(token)
  BY LenProperties DEF RowsOK
<1>2. ASSUME RowsOK', Len(otp') >= Len(otp), token' = token, call' = call PROVE CallsOK'
  BY <1>1, <1>2, LenProperties DEF CallsOK, RowsOK
<1>3. ASSUME NEW p \in Phones, RequestOtp(p) PROVE Types'
  <2>1. RowsOK' /\ Len(otp') = Len(otp) + 1
    BY <1>3, CodeRequested
  <2> QED
    BY <1>1, <1>2, <1>3, <2>1 DEF RequestOtp, PeopleOK
<1>4. ASSUME NEW p \in Phones, SuspendPerson(p) \/ ReinstatePerson(p) PROVE Types'
  <2>1. UNCHANGED <<otp, token, device, call>> /\ RowsOK'
    BY <1>4 DEF SuspendPerson, ReinstatePerson, RowsOK
  <2>2. PeopleOK'
    BY <1>4 DEF SuspendPerson, ReinstatePerson, PeopleOK, People
  <2> QED
    BY <1>1, <1>2, <2>1, <2>2
<1>5. ASSUME Expire PROVE Types'
  <2>1. UNCHANGED <<person, device, call>>
    BY <1>5 DEF Expire
  <2>2. CASE \E o \in DOMAIN otp : otp' = [otp EXCEPT ![o].expired = TRUE] /\ token' = token
    <3>1. PICK o \in DOMAIN otp : otp' = [otp EXCEPT ![o].expired = TRUE] /\ token' = token
      BY <2>2
    <3> DEFINE r == [otp[o] EXCEPT !.expired = TRUE]
    <3>2. o \in 1 .. Len(otp) /\ otp[o] \in Codes
      BY <1>1, <3>1, ElementOfSeq DEF RowsOK
    <3>3. r \in Codes /\ otp' = [otp EXCEPT ![o] = r]
      BY <3>1, <3>2 DEF Codes
    <3> HIDE DEF r
    <3>4. RowsOK' /\ Len(otp') = Len(otp)
      BY <2>1, <3>1, <3>2, <3>3, CodeChanged
    <3> QED
      BY <1>1, <1>2, <2>1, <3>1, <3>4 DEF PeopleOK
  <2>3. CASE \E t \in DOMAIN token : token' = [token EXCEPT ![t].expired = TRUE] /\ otp' = otp
    <3>1. PICK t \in DOMAIN token : token' = [token EXCEPT ![t].expired = TRUE] /\ otp' = otp
      BY <2>3
    <3> DEFINE r == [token[t] EXCEPT !.expired = TRUE]
    <3>2. t \in 1 .. Len(token) /\ token[t] \in Tokens
      BY <1>1, <3>1, ElementOfSeq DEF RowsOK
    <3>3. /\ r \in Tokens /\ r.from = token[t].from /\ r.next = token[t].next
          /\ token' = [token EXCEPT ![t] = r]
      BY <3>1, <3>2 DEF Tokens
    <3> HIDE DEF r
    <3>4. RowsOK' /\ Len(token') = Len(token)
      BY <2>1, <3>1, <3>2, <3>3, TokenChanged
    <3>5. CallsOK'
      BY <1>1, <2>1, <3>1, <3>4 DEF CallsOK
    <3> QED
      BY <2>1, <3>4, <3>5 DEF PeopleOK
  <2> QED
    BY <1>5, <2>2, <2>3 DEF Expire
<1> QED
  BY <1>3, <1>4, <1>5

LEMMA TypesStep == Types /\ [SignInNext]_signInVars => Types'
<1> SUFFICES ASSUME Types, [SignInNext]_signInVars PROVE Types'
  OBVIOUS
<1>1. ASSUME NEW c \in Calls, CallStep(c) PROVE Types'
  BY <1>1, CodeStepKeepsTypes, TokenStepKeepsTypes DEF CallStep
<1>2. CASE UNCHANGED signInVars
  BY <1>2 DEF signInVars, Types, RowsOK, PeopleOK, CallsOK
<1> QED
  BY <1>1, <1>2, StartStepKeepsTypes, OtherStepKeepsTypes DEF SignInNext

\* Whatever the requests read and write, every table keeps its columns and a request under way
\* names a code or a token that exists: no row of otp_requests or refresh_tokens is deleted.
THEOREM TypesHold == SignInSpec => []Types
  BY TypesStart, TypesStep, PTL DEF SignInSpec

-----------------------------------------------------------------------------
(* Accounts.                                                               *)

\* Only an account that exists is, or is about to be, suspended.
Existing ==
    /\ \A p \in Phones : person[p].suspended => person[p].exists
    /\ \A c \in Calls : call[c].pc = "SUSPENDING" => person[call[c].phone].exists

\* What a request writes about itself.
LEMMA CallWritten ==
    ASSUME CallsOK, NEW c \in Calls, NEW k, Writes(c, k)
    PROVE  call'[c] = k /\ \A d \in Calls : d # c => call'[d] = call[d]
  BY DEF CallsOK, Writes

LEMMA ExistingStep == Types /\ Existing /\ [SignInNext]_signInVars => Existing'
<1> SUFFICES ASSUME Types, Existing, [SignInNext]_signInVars PROVE Existing'
  OBVIOUS
<1> USE DEF Types
<1>1. ASSUME person' = person, call' = call PROVE Existing'
  BY <1>1 DEF Existing
<1>2. ASSUME person' = person, NEW c \in Calls, NEW k, Writes(c, k), k.pc # "SUSPENDING"
      PROVE  Existing'
  BY <1>2, CallWritten DEF Existing
<1>3. ASSUME NEW p \in Phones, NEW c \in Calls, SuspendBegins(c, p) PROVE Existing'
  <2> DEFINE k == [pc |-> "SUSPENDING", phone |-> p, found |-> TokensToRevoke(p)]
  <2>1. Writes(c, k) /\ person' = person /\ person[p].exists
    BY <1>3 DEF SuspendBegins, Writes
  <2>2. k.phone = p
    OBVIOUS
  <2> HIDE DEF k
  <2> QED
    BY <2>1, <2>2, CallWritten DEF Existing
<1>4. ASSUME NEW c \in Calls, NEW p \in Phones, NEW d \in Devices, NEW right \in BOOLEAN,
             ReadOtp(c, p, d, right)
      PROVE  Existing'
  <2>1. PICK o \in LatestActiveOtp(p) :
            Writes(c, [pc |-> IF right THEN "RIGHT" ELSE "WRONG", code |-> o,
                       attempts |-> otp[o].attempts, phone |-> p, device |-> d])
    BY <1>4 DEF ReadOtp, Writes
  <2> QED
    BY <1>2, <1>4, <2>1 DEF ReadOtp
<1>5. ASSUME NEW c \in Calls, NEW t \in DOMAIN token, ReadToken(c, t) PROVE Existing'
  <2>1. Writes(c, [pc |-> "PRESENTED", token |-> t]) /\ person' = person
    BY <1>5 DEF ReadToken, Writes
  <2> QED
    BY <1>2, <2>1
<1>6. ASSUME NEW p \in Phones, SuspendPerson(p) \/ ReinstatePerson(p) PROVE Existing'
  <2>1. /\ call' = call /\ person[p].exists
        /\ \E b \in BOOLEAN : person' = [person EXCEPT ![p].suspended = b]
    BY <1>6 DEF SuspendPerson, ReinstatePerson, Existing
  <2>2. PICK b \in BOOLEAN : person' = [person EXCEPT ![p].suspended = b]
    BY <2>1
  <2>3. /\ \A q \in Phones : person[q].exists => person'[q].exists
        /\ \A q \in Phones \ {p} : person'[q] = person[q]
    BY <2>2 DEF PeopleOK, People
  <2>4. \A d \in Calls : call[d].pc = "SUSPENDING" => call[d].phone \in Phones
    BY CallKinds DEF SuspendCalls
  <2>5. \A q \in Phones : person'[q].suspended => person'[q].exists
    <3>1. person'[p].exists
      BY <2>1, <2>3
    <3>2. ASSUME NEW q \in Phones \ {p}, person'[q].suspended PROVE person'[q].exists
      BY <2>3, <3>2 DEF Existing
    <3> QED
      BY <3>1, <3>2
  <2>6. ASSUME NEW d \in Calls, call'[d].pc = "SUSPENDING"
        PROVE  person'[call'[d].phone].exists
    <3>1. call[d].pc = "SUSPENDING" /\ call'[d].phone = call[d].phone
      BY <2>1, <2>6
    <3>2. call[d].phone \in Phones /\ person[call[d].phone].exists
      BY <2>4, <3>1 DEF Existing
    <3> QED
      BY <2>3, <3>1, <3>2
  <2> QED
    BY <2>5, <2>6 DEF Existing
<1>7. ASSUME NEW c \in Calls, CallStep(c) PROVE Existing'
  <2>1. Idle.pc # "SUSPENDING"
    BY DEF Idle
  <2>2. CASE IncrementOtpAttempts(c) \/ CreateRefreshToken(c) \/ RotateRefreshToken(c)
    <3>1. Writes(c, Idle) /\ person' = person
      BY <2>2 DEF IncrementOtpAttempts, CreateRefreshToken, RotateRefreshToken, Done, Writes
    <3> QED
      BY <1>2, <2>1, <3>1
  <2>3. CASE ClaimOtp(c) \/ UpsertDevice(c) \/ CheckPerson(c)
    <3>1. call[c] \in CodeCalls \/ call[c] \in TokenCalls
      BY <2>3, CallKinds DEF ClaimOtp, UpsertDevice, CheckPerson, CodePcs, TokenPcs
    <3>2. PICK s \in {"CLAIMED", "ISSUING", "ROTATING"} :
              Writes(c, Idle) \/ Writes(c, [call[c] EXCEPT !.pc = s])
      BY <2>3 DEF ClaimOtp, UpsertDevice, CheckPerson, Done, Writes
    <3>3. person' = person
      BY <2>3 DEF ClaimOtp, UpsertDevice, CheckPerson
    <3>4. [call[c] EXCEPT !.pc = s].pc # "SUSPENDING"
      BY <3>1 DEF CodeCalls, TokenCalls
    <3> QED
      BY <1>2, <2>1, <3>2, <3>3, <3>4
  <2>4. CASE AdmitPerson(c)
    <3> DEFINE k == [call[c] EXCEPT !.pc = "ADMITTED"]
    <3>1. call[c] \in CodeCalls
      BY <2>4, CallKinds DEF AdmitPerson, CodePcs
    <3>2. Writes(c, Idle) \/ Writes(c, k)
      BY <2>4 DEF AdmitPerson, Done, Writes
    <3>3. k.pc # "SUSPENDING"
      BY <3>1 DEF CodeCalls
    <3> HIDE DEF k
    <3>4. call'[c].pc # "SUSPENDING" /\ \A d \in Calls : d # c => call'[d] = call[d]
      BY <2>1, <3>2, <3>3, CallWritten
    <3>5. \A p \in Phones :
              person'[p] = person[p] \/ person'[p] = NewPerson
      BY <2>4 DEF AdmitPerson, PeopleOK
    <3>6. NewPerson.exists /\ ~NewPerson.suspended
      BY DEF NewPerson
    <3>7. ASSUME NEW d \in Calls, call'[d].pc = "SUSPENDING"
          PROVE  person'[call'[d].phone].exists
      <4>1. d # c /\ call'[d] = call[d] /\ call[d].pc = "SUSPENDING"
        BY <3>4, <3>7
      <4>2. call[d].phone \in Phones
        BY <4>1, CallKinds DEF SuspendCalls
      <4> QED
        BY <3>5, <3>6, <4>1, <4>2 DEF Existing
    <3> QED
      BY <3>5, <3>6, <3>7 DEF Existing
  <2>5. CASE SuspendCommits(c)
    <3>1. Writes(c, Idle) /\ person' = [person EXCEPT ![call[c].phone].suspended = TRUE]
      BY <2>5 DEF SuspendCommits, Done, Writes
    <3>2. call[c].phone \in Phones /\ person[call[c].phone].exists
      BY <2>5, CallKinds DEF SuspendCommits, SuspendCalls, Existing
    <3>3. \A p \in Phones : /\ person'[p].exists = person[p].exists
                            /\ person'[p].suspended => person[p].suspended \/ person[p].exists
      BY <3>1, <3>2 DEF PeopleOK, People
    <3>4. ASSUME NEW d \in Calls, call'[d].pc = "SUSPENDING"
          PROVE  person'[call'[d].phone].exists
      <4>1. call'[d] = call[d] /\ call[d].pc = "SUSPENDING"
        BY <2>1, <3>1, <3>4, CallWritten
      <4>2. call[d].phone \in Phones
        BY <4>1, CallKinds DEF SuspendCalls
      <4> QED
        BY <3>3, <4>1, <4>2 DEF Existing
    <3> QED
      BY <3>3, <3>4 DEF Existing
  <2> QED
    BY <1>7, <2>2, <2>3, <2>4, <2>5 DEF CallStep
<1>8. CASE UNCHANGED signInVars
  BY <1>1, <1>8 DEF signInVars
<1>9. CASE Expire \/ \E p \in Phones : RequestOtp(p)
  BY <1>1, <1>9 DEF Expire, RequestOtp
<1> QED
  BY <1>3, <1>4, <1>5, <1>6, <1>7, <1>8, <1>9 DEF SignInNext

\* The type invariant of SignIn.
THEOREM SignInTypeCorrect == SignInSpec => []SignInTypeOK
<1>1. SignInInit => Existing
  <2>1. ~NewPerson.suspended /\ ~NoPerson.suspended /\ Idle.pc # "SUSPENDING"
    BY DEF NewPerson, NoPerson, Idle
  <2> QED
    BY <2>1 DEF SignInInit, Existing
<1>2. Types /\ Existing => SignInTypeOK
  <2> SUFFICES ASSUME Types, Existing PROVE SignInTypeOK
    OBVIOUS
  <2>1. DOMAIN otp = 1 .. Len(otp) /\ DOMAIN token = 1 .. Len(token)
    BY LenProperties DEF Types, RowsOK
  <2>2. \A o \in DOMAIN otp : otp[o] \in Codes
    BY <2>1, ElementOfSeq DEF Types, RowsOK
  <2>3. \A t \in DOMAIN token : token[t] \in Tokens
    BY <2>1, ElementOfSeq DEF Types, RowsOK
  <2>4. \A o \in DOMAIN otp : otp[o].phone \in Phones /\ otp[o].attempts \in Nat
    BY <2>2 DEF Codes
  <2>5. \A t \in DOMAIN token : token[t].person \in Phones /\ token[t].device \in Devices
    BY <2>3 DEF Tokens
  <2> QED
    BY <2>1, <2>4, <2>5 DEF Types, RowsOK, Existing, SignInTypeOK
<1> QED
  BY <1>1, <1>2, TypesStart, TypesStep, ExistingStep, PTL DEF SignInSpec

-----------------------------------------------------------------------------
(* A locked code stays locked.                                             *)

\* A right guess was read while the code had attempts left.
ReadInTime == \A c \in Calls : call[c].pc = "RIGHT" => call[c].attempts < MaxAttempts

LEMMA ReadInTimeStep == Types /\ ReadInTime /\ [SignInNext]_signInVars => ReadInTime'
<1> SUFFICES ASSUME Types, ReadInTime, [SignInNext]_signInVars PROVE ReadInTime'
  OBVIOUS
<1> USE DEF Types
<1>1. ASSUME call' = call PROVE ReadInTime'
  BY <1>1 DEF ReadInTime
<1>2. ASSUME NEW c \in Calls, NEW k, Writes(c, k),
             k.pc # "RIGHT" \/ k.attempts < MaxAttempts
      PROVE  ReadInTime'
  BY <1>2, CallWritten DEF ReadInTime
<1>3. ASSUME NEW p \in Phones, NEW c \in Calls, SuspendBegins(c, p) PROVE ReadInTime'
  <2>1. Writes(c, [pc |-> "SUSPENDING", phone |-> p, found |-> TokensToRevoke(p)])
    BY <1>3 DEF SuspendBegins, Writes
  <2> QED
    BY <1>2, <2>1
<1>4. ASSUME NEW c \in Calls, NEW p \in Phones, NEW d \in Devices, NEW right \in BOOLEAN,
             ReadOtp(c, p, d, right)
      PROVE  ReadInTime'
  <2>1. PICK o \in LatestActiveOtp(p) :
            /\ Verifiable(o)
            /\ Writes(c, [pc |-> IF right THEN "RIGHT" ELSE "WRONG", code |-> o,
                          attempts |-> otp[o].attempts, phone |-> p, device |-> d])
    BY <1>4 DEF ReadOtp, Writes
  <2> QED
    BY <1>2, <2>1 DEF Verifiable
<1>5. ASSUME NEW c \in Calls, NEW t \in DOMAIN token, ReadToken(c, t) PROVE ReadInTime'
  <2>1. Writes(c, [pc |-> "PRESENTED", token |-> t])
    BY <1>5 DEF ReadToken, Writes
  <2> QED
    BY <1>2, <2>1
<1>6. ASSUME NEW c \in Calls, CallStep(c) PROVE ReadInTime'
  <2>1. Idle.pc # "RIGHT"
    BY DEF Idle
  <2>2. CASE IncrementOtpAttempts(c) \/ CreateRefreshToken(c) \/ RotateRefreshToken(c)
             \/ SuspendCommits(c)
    <3>1. Writes(c, Idle)
      BY <2>2 DEF IncrementOtpAttempts, CreateRefreshToken, RotateRefreshToken, SuspendCommits,
                  Done, Writes
    <3> QED
      BY <1>2, <2>1, <3>1
  <2>3. CASE ClaimOtp(c) \/ AdmitPerson(c) \/ UpsertDevice(c) \/ CheckPerson(c)
    <3>1. call[c] \in CodeCalls \/ call[c] \in TokenCalls
      BY <2>3, CallKinds DEF ClaimOtp, AdmitPerson, UpsertDevice, CheckPerson, CodePcs, TokenPcs
    <3>2. PICK s \in {"CLAIMED", "ADMITTED", "ISSUING", "ROTATING"} :
              Writes(c, Idle) \/ Writes(c, [call[c] EXCEPT !.pc = s])
      BY <2>3 DEF ClaimOtp, AdmitPerson, UpsertDevice, CheckPerson, Done, Writes
    <3>3. [call[c] EXCEPT !.pc = s].pc # "RIGHT"
      BY <3>1 DEF CodeCalls, TokenCalls
    <3> QED
      BY <1>2, <2>1, <3>2, <3>3
  <2> QED
    BY <1>6, <2>2, <2>3 DEF CallStep
<1>7. CASE \/ UNCHANGED signInVars \/ Expire
           \/ \E p \in Phones : RequestOtp(p) \/ SuspendPerson(p) \/ ReinstatePerson(p)
  BY <1>1, <1>7 DEF signInVars, Expire, RequestOtp, SuspendPerson, ReinstatePerson
<1> QED
  BY <1>3, <1>4, <1>5, <1>6, <1>7 DEF SignInNext

\* What a step may do to a code: nothing but claim it sets consumed, and nothing unsets it.
LEMMA CodesInAStep ==
    ASSUME Types, [SignInNext]_signInVars, NEW o \in 1 .. Len(otp)
    PROVE  \/ otp'[o].consumed = otp[o].consumed
           \/ /\ otp'[o].consumed
              /\ \E c \in Calls : ClaimOtp(c) /\ call[c].code = o /\ Claimable(o, call[c].attempts)
<1> USE DEF Types
<1>1. /\ DOMAIN otp = 1 .. Len(otp)
      /\ \A n \in 1 .. Len(otp) : otp[n] \in Codes
  BY LenProperties, ElementOfSeq DEF RowsOK
<1>2. ASSUME NEW c \in Calls, ClaimOtp(c)
      PROVE  \/ otp'[o].consumed = otp[o].consumed
             \/ /\ otp'[o].consumed
                /\ call[c].code = o /\ Claimable(o, call[c].attempts)
  <2>1. CASE Claimable(call[c].code, call[c].attempts)
    BY <1>1, <1>2, <2>1 DEF ClaimOtp, Codes
  <2>2. CASE ~Claimable(call[c].code, call[c].attempts)
    BY <1>2, <2>2 DEF ClaimOtp
  <2> QED
    BY <2>1, <2>2
<1>3. ASSUME NEW c \in Calls, IncrementOtpAttempts(c) PROVE otp'[o].consumed = otp[o].consumed
  BY <1>1, <1>3 DEF IncrementOtpAttempts, Codes
<1>4. ASSUME Expire PROVE otp'[o].consumed = otp[o].consumed
  BY <1>1, <1>4 DEF Expire, Codes
<1>5. ASSUME NEW p \in Phones, RequestOtp(p) PROVE otp'[o].consumed = otp[o].consumed
  BY <1>5, CodeRequested
<1>6. CASE otp' = otp
  BY <1>6
<1>7. \/ otp' = otp \/ Expire \/ \E p \in Phones : RequestOtp(p)
      \/ \E c \in Calls : ClaimOtp(c) \/ IncrementOtpAttempts(c)
  BY DEF SignInNext, CallStep, signInVars, SuspendPerson, ReinstatePerson, SuspendBegins, ReadOtp,
         ReadToken, AdmitPerson, UpsertDevice, CreateRefreshToken, CheckPerson,
         RotateRefreshToken, SuspendCommits
<1> QED
  BY <1>2, <1>3, <1>4, <1>5, <1>6, <1>7

\* A code with all its wrong guesses cannot be claimed, by no call and at no time: the claim
\* compares the attempts the call has read with those of the row.
THEOREM LockedStaysLocked == SignInSpec => LockedCodeStaysLocked
<1>1. SignInInit => ReadInTime
  BY DEF SignInInit, ReadInTime, Idle
<1>2. ASSUME Types, ReadInTime, [SignInNext]_signInVars, NEW o \in DOMAIN otp,
             otp[o].attempts >= MaxAttempts, ~otp[o].consumed
      PROVE  ~otp'[o].consumed
  <2>1. o \in 1 .. Len(otp) /\ otp[o] \in Codes
    BY <1>2, LenProperties, ElementOfSeq DEF Types, RowsOK
  <2>2. ASSUME NEW c \in Calls, ClaimOtp(c), call[c].code = o, Claimable(o, call[c].attempts)
        PROVE  FALSE
    <3>1. call[c].attempts < MaxAttempts
      BY <1>2, <2>2 DEF ReadInTime, ClaimOtp
    <3>2. call[c].attempts = otp[o].attempts
      BY <2>2 DEF Claimable
    <3>3. otp[o].attempts \in Nat /\ MaxAttempts \in Nat
      BY <2>1, SignInAssumption DEF Codes
    <3> QED
      BY <1>2, <3>1, <3>2, <3>3
  <2> QED
    BY <1>2, <2>1, <2>2, CodesInAStep
<1>3. Types /\ ReadInTime /\ [SignInNext]_signInVars =>
          [\A o \in DOMAIN otp :
               otp[o].attempts >= MaxAttempts /\ ~otp[o].consumed => ~otp'[o].consumed]_signInVars
  BY <1>2
<1> QED
  BY <1>1, <1>3, TypesStart, TypesStep, ReadInTimeStep, PTL DEF SignInSpec, LockedCodeStaysLocked

-----------------------------------------------------------------------------
(* Revoked, and by whom.                                                   *)

\* A token is revoked exactly if it was ended or replaced, and never both.
Told(k) ==
    /\ ~(k.ended /\ k.next # 0)
    /\ k.revoked => k.ended \/ k.next # 0
    /\ k.ended \/ k.next # 0 => k.revoked

TokensTold ==
    /\ \A t \in 1 .. Len(token) : Told(token[t])
    /\ \A t \in 1 .. Len(token) : token[t].next # 0 => token[token[t].next].from = token[t].from

\* As long as a step keeps the origin of every token, and links none but rightly, the
\* links stay right.
LEMMA LinksKept ==
    ASSUME RowsOK, TokensTold, Len(token) \in Nat, Len(token') \in Nat,
           Len(token') >= Len(token),
           \A u \in 1 .. Len(token) : token'[u].from = token[u].from,
           \A u \in 1 .. Len(token') :
               /\ Told(token'[u])
               /\ \/ token'[u].next = 0
                  \/ u \in 1 .. Len(token) /\ token'[u].next = token[u].next
                  \/ token'[token'[u].next].from = token'[u].from
    PROVE  TokensTold'
<1>1. ASSUME NEW u \in 1 .. Len(token), token[u].next # 0, token'[u].next = token[u].next
      PROVE  token'[token'[u].next].from = token'[u].from
  <2>1. token[u].next \in 1 .. Len(token)
    BY <1>1 DEF RowsOK
  <2> QED
    BY <1>1, <2>1 DEF TokensTold
<1>2. ASSUME NEW u \in 1 .. Len(token'), token'[u].next # 0
      PROVE  token'[token'[u].next].from = token'[u].from
  BY <1>1, <1>2
<1>3. \A u \in 1 .. Len(token') : Told(token'[u])
  OBVIOUS
<1> QED
  BY <1>2, <1>3 DEF TokensTold, Told

LEMMA TokensToldStep == Types /\ TokensTold /\ [SignInNext]_signInVars => TokensTold'
<1> SUFFICES ASSUME Types, TokensTold, [SignInNext]_signInVars PROVE TokensTold'
  OBVIOUS
<1> USE DEF Types
<1>1. Len(token) \in Nat /\ Len(otp) \in Nat /\ DOMAIN token = 1 .. Len(token)
  BY LenProperties DEF RowsOK
<1>2. \A t \in 1 .. Len(token) : token[t] \in Tokens
  BY ElementOfSeq DEF RowsOK
<1>3. CASE token' = token
  BY <1>3 DEF TokensTold, Told
<1>4. ASSUME NEW c \in Calls, CreateRefreshToken(c) PROVE TokensTold'
  <2>1. /\ Len(token') = Len(token) + 1
        /\ \A u \in 1 .. Len(token) : token'[u] = token[u]
        /\ token'[Len(token) + 1] = NewToken(call[c].phone, call[c].device, call[c].code)
    BY <1>4, TokenCreated
  <2>2. Told(token'[Len(token) + 1]) /\ token'[Len(token) + 1].next = 0
    BY <2>1 DEF NewToken, Told
  <2>3. \A u \in 1 .. Len(token') : u \in 1 .. Len(token) \/ u = Len(token) + 1
    BY <1>1, <2>1
  <2>4. \A u \in 1 .. Len(token) : Told(token'[u]) /\ token'[u].next = token[u].next
    BY <2>1 DEF TokensTold, Told
  <2> QED
    BY <1>1, <2>1, <2>2, <2>3, <2>4, LinksKept
<1>5. ASSUME NEW c \in Calls, RotateRefreshToken(c), Rotatable(call[c].token) PROVE TokensTold'
  <2> DEFINE t == call[c].token
  <2>1. /\ t \in 1 .. Len(token)
        /\ Len(token') = Len(token) + 1
        /\ token'[t] = [token[t] EXCEPT !.revoked = TRUE, !.next = Len(token) + 1]
        /\ \A u \in 1 .. Len(token) : u # t => token'[u] = token[u]
        /\ token'[Len(token) + 1] = NewToken(token[t].person, token[t].device, token[t].from)
    BY <1>5, TokenRotated
  <2>2. ~token[t].revoked
    BY <1>5 DEF Rotatable, Live
  <2> HIDE DEF t
  <2>3. ~token[t].ended /\ token[t].next = 0
    BY <2>1, <2>2 DEF TokensTold, Told
  <2>4. /\ token'[t].revoked /\ token'[t].next = Len(token) + 1
        /\ token'[t].from = token[t].from
        /\ token'[t].ended = token[t].ended
    BY <1>1, <1>2, <2>1 DEF Tokens
  <2>5. /\ Told(token'[Len(token) + 1]) /\ token'[Len(token) + 1].next = 0
        /\ token'[Len(token) + 1].from = token[t].from
    BY <2>1 DEF NewToken, Told
  <2>6. Told(token'[t]) /\ token'[token'[t].next].from = token'[t].from
    BY <1>1, <2>3, <2>4, <2>5 DEF Told
  <2>7. ASSUME NEW u \in 1 .. Len(token), u # t
        PROVE  Told(token'[u]) /\ token'[u].next = token[u].next /\ token'[u].from = token[u].from
    BY <2>1, <2>7 DEF TokensTold, Told
  <2>8. \A u \in 1 .. Len(token') : u \in 1 .. Len(token) \/ u = Len(token) + 1
    BY <1>1, <2>1
  <2>9. Len(token') >= Len(token) /\ Len(token') \in Nat
    BY <1>1, <2>1
  <2>10. \A u \in 1 .. Len(token) : token'[u].from = token[u].from
    BY <2>4, <2>7
  <2>11. ASSUME NEW u \in 1 .. Len(token')
         PROVE  /\ Told(token'[u])
                /\ \/ token'[u].next = 0
                   \/ u \in 1 .. Len(token) /\ token'[u].next = token[u].next
                   \/ token'[token'[u].next].from = token'[u].from
    BY <2>5, <2>6, <2>7, <2>8
  <2> QED
    BY <1>1, <2>9, <2>10, <2>11, LinksKept
<1>6. ASSUME NEW c \in Calls, SuspendCommits(c) PROVE TokensTold'
  <2>1. /\ Len(token') = Len(token)
        /\ \A u \in 1 .. Len(token) :
               \/ token'[u] = token[u]
               \/ /\ ~token[u].revoked
                  /\ token'[u] = [token[u] EXCEPT !.revoked = TRUE, !.ended = TRUE]
    BY <1>6, TokensEnded
  <2>2. ASSUME NEW u \in 1 .. Len(token)
        PROVE  Told(token'[u]) /\ token'[u].next = token[u].next /\ token'[u].from = token[u].from
    <3>1. CASE token'[u] = token[u]
      BY <3>1 DEF TokensTold, Told
    <3>2. CASE /\ ~token[u].revoked
               /\ token'[u] = [token[u] EXCEPT !.revoked = TRUE, !.ended = TRUE]
      <4>1. token[u].next = 0
        BY <3>2 DEF TokensTold, Told
      <4>2. /\ token'[u].revoked /\ token'[u].ended /\ token'[u].next = token[u].next
            /\ token'[u].from = token[u].from
        BY <1>2, <3>2 DEF Tokens
      <4> QED
        BY <4>1, <4>2 DEF Told
    <3> QED
      BY <2>1, <3>1, <3>2
  <2>3. Len(token') = Len(token)
    BY <2>1
  <2>4. Len(token') >= Len(token) /\ Len(token') \in Nat
    BY <1>1, <2>3
  <2> QED
    BY <1>1, <2>2, <2>3, <2>4, LinksKept
<1>7. ASSUME Expire PROVE TokensTold'
  <2>1. CASE token' = token
    BY <1>3, <2>1
  <2>2. CASE /\ \E t \in DOMAIN token : token' = [token EXCEPT ![t].expired = TRUE]
             /\ otp' = otp /\ device' = device
    <3>1. PICK t \in 1 .. Len(token) : token' = [token EXCEPT ![t].expired = TRUE]
      BY <1>1, <2>2
    <3> DEFINE r == [token[t] EXCEPT !.expired = TRUE]
    <3>2. /\ r \in Tokens /\ r.from = token[t].from /\ r.next = token[t].next
          /\ r.revoked = token[t].revoked /\ r.ended = token[t].ended
      BY <1>2 DEF Tokens
    <3>3. token' = [token EXCEPT ![t] = r] /\ otp' = otp /\ device' = device
      BY <1>2, <3>1, <2>2 DEF Tokens
    <3> HIDE DEF r
    <3>4. /\ Len(token') = Len(token) /\ token'[t] = r
          /\ \A u \in 1 .. Len(token) : u # t => token'[u] = token[u]
      BY <3>2, <3>3, TokenChanged
    <3>5. ASSUME NEW u \in 1 .. Len(token)
          PROVE  Told(token'[u]) /\ token'[u].next = token[u].next /\ token'[u].from = token[u].from
      BY <3>2, <3>4 DEF TokensTold, Told
    <3>6. 1 .. Len(token') = 1 .. Len(token) /\ Len(token') >= Len(token) /\ Len(token') \in Nat
      BY <1>1, <3>4
    <3> QED
      BY <1>1, <3>5, <3>6, LinksKept
  <2> QED
    BY <1>7, <2>1, <2>2 DEF Expire
<1>8. \/ token' = token
      \/ Expire
      \/ \E c \in Calls : CreateRefreshToken(c)
      \/ \E c \in Calls : SuspendCommits(c)
      \/ \E c \in Calls : RotateRefreshToken(c) /\ Rotatable(call[c].token)
  BY DEF SignInNext, CallStep, signInVars, RequestOtp, SuspendPerson, ReinstatePerson,
         SuspendBegins, ReadOtp, ReadToken, IncrementOtpAttempts, ClaimOtp, AdmitPerson,
         UpsertDevice, CheckPerson, RotateRefreshToken
<1> QED
  BY <1>3, <1>4, <1>5, <1>6, <1>7, <1>8

\* Rotation and suspension never both write a token: each checks, when it writes, that
\* nobody has revoked it since it was read; and a successor comes from the same sign-in.
THEOREM RevokedOnce == SignInSpec => []EndedOrReplaced
<1>1. SignInInit => TokensTold
  <2> SUFFICES ASSUME SignInInit PROVE TokensTold
    OBVIOUS
  <2>1. token = <<>> /\ Len(token) = 0
    BY EmptySeq DEF SignInInit
  <2> QED
    BY <2>1 DEF TokensTold
<1>2. Types /\ TokensTold => EndedOrReplaced
  <2> SUFFICES ASSUME Types, TokensTold PROVE EndedOrReplaced
    OBVIOUS
  <2>1. DOMAIN token = 1 .. Len(token)
    BY LenProperties DEF Types, RowsOK
  <2> QED
    BY <2>1 DEF TokensTold, Told, EndedOrReplaced
<1> QED
  BY <1>1, <1>2, TypesStart, TypesStep, TokensToldStep, PTL DEF SignInSpec

-----------------------------------------------------------------------------
(* One session of a code.                                                  *)

SignInPcs == {"CLAIMED", "ADMITTED", "ISSUING"}

\* A request that has claimed its code and not yet issued the token.
In(c) == call[c].pc \in SignInPcs

\* A consumed code has one request signing in or tokens, and one of these at most is live.
OneSession ==
    /\ \A c1, c2 \in Calls : In(c1) /\ In(c2) /\ call[c1].code = call[c2].code => c1 = c2
    /\ \A t1, t2 \in 1 .. Len(token) :
           ~token[t1].revoked /\ ~token[t2].revoked /\ token[t1].from = token[t2].from => t1 = t2
    /\ \A c \in Calls, t \in 1 .. Len(token) : In(c) => token[t].from # call[c].code
    /\ \A c \in Calls : In(c) => otp[call[c].code].consumed
    /\ \A t \in 1 .. Len(token) : otp[token[t].from].consumed

\* What a step does to the requests that are signing in, when it lets none in.
NobodyEnters ==
    \A c \in Calls : call'[c].pc \in SignInPcs => In(c) /\ call'[c].code = call[c].code

LEMMA ConsumedStays ==
    ASSUME Types, [SignInNext]_signInVars, NEW o \in 1 .. Len(otp), otp[o].consumed
    PROVE  otp'[o].consumed
  BY CodesInAStep

\* A code that a request is signing in with, or a token came from, is a row of the table.
LEMMA CodesOfSessions ==
    ASSUME Types
    PROVE  /\ \A c \in Calls : In(c) => call[c].code \in 1 .. Len(otp)
           /\ \A t \in 1 .. Len(token) : token[t].from \in 1 .. Len(otp)
  BY DEF Types, RowsOK, CallsOK, In, SignInPcs, CodePcs

\* A step that lets nobody in and creates or revives no token.
LEMMA QuietStep ==
    ASSUME Types, OneSession, [SignInNext]_signInVars, NobodyEnters,
           Len(token') = Len(token),
           \A u \in 1 .. Len(token) :
               token'[u].from = token[u].from /\ (~token'[u].revoked => ~token[u].revoked)
    PROVE  OneSession'
<1>1. \A o \in 1 .. Len(otp) : otp[o].consumed => otp'[o].consumed
  BY ConsumedStays
<1>2. ASSUME NEW c1 \in Calls, NEW c2 \in Calls, In(c1)', In(c2)', call'[c1].code = call'[c2].code
      PROVE  c1 = c2
  BY <1>2 DEF NobodyEnters, OneSession, In
<1>3. ASSUME NEW t1 \in 1 .. Len(token'), NEW t2 \in 1 .. Len(token'),
             ~token'[t1].revoked, ~token'[t2].revoked, token'[t1].from = token'[t2].from
      PROVE  t1 = t2
  BY <1>3 DEF OneSession
<1>4. ASSUME NEW c \in Calls, NEW t \in 1 .. Len(token'), In(c)'
      PROVE  token'[t].from # call'[c].code
  BY <1>4 DEF NobodyEnters, OneSession, In
<1>5. ASSUME NEW c \in Calls, In(c)' PROVE otp'[call'[c].code].consumed
  <2>1. In(c) /\ call'[c].code = call[c].code
    BY <1>5 DEF NobodyEnters, In
  <2> QED
    BY <1>1, <2>1, CodesOfSessions DEF OneSession
<1>6. ASSUME NEW t \in 1 .. Len(token') PROVE otp'[token'[t].from].consumed
  BY <1>1, CodesOfSessions DEF OneSession
<1> QED
  BY <1>2, <1>3, <1>4, <1>5, <1>6 DEF OneSession

\* Only a claim that goes through lets a request in.
LEMMA WhoEnters ==
    ASSUME Types, [SignInNext]_signInVars
    PROVE  \/ NobodyEnters
           \/ \E c \in Calls : ClaimOtp(c) /\ Claimable(call[c].code, call[c].attempts)
<1> USE DEF Types
<1>1. ASSUME call' = call PROVE NobodyEnters
  BY <1>1 DEF NobodyEnters, In
<1>2. ASSUME NEW c \in Calls, NEW k, Writes(c, k),
             k.pc \notin SignInPcs \/ (In(c) /\ k.code = call[c].code)
      PROVE  NobodyEnters
  BY <1>2, CallWritten DEF NobodyEnters, In
<1>3. ASSUME NEW p \in Phones, NEW c \in Calls, SuspendBegins(c, p) PROVE NobodyEnters
  <2>1. Writes(c, [pc |-> "SUSPENDING", phone |-> p, found |-> TokensToRevoke(p)])
    BY <1>3 DEF SuspendBegins, Writes
  <2> QED
    BY <1>2, <2>1 DEF SignInPcs
<1>4. ASSUME NEW c \in Calls, NEW p \in Phones, NEW d \in Devices, NEW right \in BOOLEAN,
             ReadOtp(c, p, d, right)
      PROVE  NobodyEnters
  <2>1. PICK o \in LatestActiveOtp(p) :
            Writes(c, [pc |-> IF right THEN "RIGHT" ELSE "WRONG", code |-> o,
                       attempts |-> otp[o].attempts, phone |-> p, device |-> d])
    BY <1>4 DEF ReadOtp, Writes
  <2> QED
    BY <1>2, <2>1 DEF SignInPcs
<1>5. ASSUME NEW c \in Calls, NEW t \in DOMAIN token, ReadToken(c, t) PROVE NobodyEnters
  <2>1. Writes(c, [pc |-> "PRESENTED", token |-> t])
    BY <1>5 DEF ReadToken, Writes
  <2> QED
    BY <1>2, <2>1 DEF SignInPcs
<1>6. ASSUME NEW c \in Calls, CallStep(c)
      PROVE  NobodyEnters \/ (ClaimOtp(c) /\ Claimable(call[c].code, call[c].attempts))
  <2>1. Idle.pc \notin SignInPcs
    BY DEF Idle, SignInPcs
  <2>2. CASE \/ IncrementOtpAttempts(c) \/ CreateRefreshToken(c) \/ RotateRefreshToken(c)
             \/ SuspendCommits(c) \/ (ClaimOtp(c) /\ ~Claimable(call[c].code, call[c].attempts))
    <3>1. Writes(c, Idle)
      BY <2>2 DEF IncrementOtpAttempts, CreateRefreshToken, RotateRefreshToken, SuspendCommits,
                  ClaimOtp, Done, Writes
    <3> QED
      BY <1>2, <2>1, <3>1
  <2>3. CASE AdmitPerson(c) \/ UpsertDevice(c)
    <3>1. In(c) /\ call[c] \in CodeCalls
      BY <2>3, CallKinds DEF AdmitPerson, UpsertDevice, CodePcs, In, SignInPcs
    <3>2. PICK s \in {"ADMITTED", "ISSUING"} :
              Writes(c, Idle) \/ Writes(c, [call[c] EXCEPT !.pc = s])
      BY <2>3 DEF AdmitPerson, UpsertDevice, Done, Writes
    <3>3. [call[c] EXCEPT !.pc = s].code = call[c].code
      BY <3>1, CodeCallMoves DEF CodePcs
    <3> QED
      BY <1>2, <2>1, <3>1, <3>2, <3>3
  <2>4. CASE CheckPerson(c)
    <3>1. call[c] \in TokenCalls
      BY <2>4, CallKinds DEF CheckPerson, TokenPcs
    <3>2. Writes(c, Idle) \/ Writes(c, [call[c] EXCEPT !.pc = "ROTATING"])
      BY <2>4 DEF CheckPerson, Done, Writes
    <3>3. [call[c] EXCEPT !.pc = "ROTATING"].pc \notin SignInPcs
      BY <3>1, TokenCallMoves DEF TokenPcs, SignInPcs
    <3> QED
      BY <1>2, <2>1, <3>2, <3>3
  <2> QED
    BY <1>6, <2>2, <2>3, <2>4 DEF CallStep
<1>7. CASE \/ UNCHANGED signInVars \/ Expire
           \/ \E p \in Phones : RequestOtp(p) \/ SuspendPerson(p) \/ ReinstatePerson(p)
  BY <1>1, <1>7 DEF signInVars, Expire, RequestOtp, SuspendPerson, ReinstatePerson
<1> QED
  BY <1>3, <1>4, <1>5, <1>6, <1>7 DEF SignInNext

\* A claim found its code unconsumed: nobody else is signing in with it, no token came from it.
LEMMA ClaimKeepsOneSession ==
    ASSUME Types, OneSession, [SignInNext]_signInVars, NEW c \in Calls, ClaimOtp(c),
           Claimable(call[c].code, call[c].attempts)
    PROVE  OneSession'
<1> DEFINE o == call[c].code
           r == [otp[o] EXCEPT !.consumed = TRUE]
           k == [call[c] EXCEPT !.pc = "CLAIMED"]
<1>1. call[c] \in CodeCalls /\ o \in 1 .. Len(otp) /\ otp[o] \in Codes
  <2>1. call[c].pc \in CodePcs
    BY DEF ClaimOtp, CodePcs
  <2>2. call[c] \in CodeCalls /\ o \in 1 .. Len(otp)
    BY <2>1, CallKinds DEF Types, CallsOK
  <2> QED
    BY <2>2, ElementOfSeq DEF Types, RowsOK
<1>2. /\ call'[c].pc = "CLAIMED" /\ call'[c].code = o
      /\ \A d \in Calls : d # c => call'[d] = call[d]
  <2>1. k.pc = "CLAIMED" /\ k.code = o
    BY <1>1, CodeCallMoves DEF CodePcs
  <2>2. Writes(c, k)
    BY DEF ClaimOtp, Writes
  <2> HIDE DEF k
  <2> QED
    BY <2>1, <2>2, CallWritten DEF Types
<1>3. token' = token /\ otp'[o].consumed
  <2>1. otp' = [otp EXCEPT ![o] = r] /\ token' = token /\ device' = device
    BY DEF ClaimOtp
  <2>2. r \in Codes /\ r.consumed
    BY <1>1 DEF Codes
  <2> HIDE DEF r, o
  <2> QED
    BY <1>1, <2>1, <2>2, CodeChanged DEF Types
<1>4. ~otp[o].consumed
  BY DEF Claimable
<1> HIDE DEF o
<1>5. \A d \in Calls : In(d) => call[d].code # o
  BY <1>4 DEF OneSession
<1>6. \A t \in 1 .. Len(token) : token[t].from # o
  BY <1>4 DEF OneSession
<1>7. \A d \in Calls : In(d)' => (d = c \/ (In(d) /\ call'[d] = call[d]))
  BY <1>2 DEF In
<1>8. \A n \in 1 .. Len(otp) : otp[n].consumed => otp'[n].consumed
  BY ConsumedStays
<1>9. ASSUME NEW c1 \in Calls, NEW c2 \in Calls, In(c1)', In(c2)', call'[c1].code = call'[c2].code
      PROVE  c1 = c2
  BY <1>2, <1>5, <1>7, <1>9 DEF OneSession
<1>10. ASSUME NEW d \in Calls, NEW t \in 1 .. Len(token), In(d)'
       PROVE  token'[t].from # call'[d].code
  BY <1>2, <1>3, <1>6, <1>7, <1>10 DEF OneSession
<1>11. ASSUME NEW d \in Calls, In(d)' PROVE otp'[call'[d].code].consumed
  BY <1>2, <1>3, <1>7, <1>8, <1>11, CodesOfSessions DEF OneSession
<1>12. ASSUME NEW t \in 1 .. Len(token) PROVE otp'[token'[t].from].consumed
  BY <1>3, <1>8, CodesOfSessions DEF OneSession
<1> QED
  BY <1>3, <1>9, <1>10, <1>11, <1>12 DEF OneSession

\* One token is added, and the code it came from has no other live token afterwards and no
\* request that is still signing in.
LEMMA TokenAdded ==
    ASSUME Types, OneSession, [SignInNext]_signInVars, NobodyEnters,
           NEW f \in 1 .. Len(otp), otp[f].consumed,
           Len(token') = Len(token) + 1,
           token'[Len(token) + 1].from = f,
           \A u \in 1 .. Len(token) :
               /\ token'[u].from = token[u].from
               /\ ~token'[u].revoked => ~token[u].revoked /\ token[u].from # f,
           \A d \in Calls : call'[d].pc \in SignInPcs => call'[d].code # f
    PROVE  OneSession'
<1>1. Len(token) \in Nat
  BY LenProperties DEF Types, RowsOK
<1>2. \A u \in 1 .. Len(token') : u \in 1 .. Len(token) \/ u = Len(token) + 1
  BY <1>1
<1>3. \A o \in 1 .. Len(otp) : otp[o].consumed => otp'[o].consumed
  BY ConsumedStays
<1>4. ASSUME NEW c1 \in Calls, NEW c2 \in Calls, In(c1)', In(c2)', call'[c1].code = call'[c2].code
      PROVE  c1 = c2
  BY <1>4 DEF NobodyEnters, OneSession, In
<1>5. ASSUME NEW t1 \in 1 .. Len(token'), NEW t2 \in 1 .. Len(token'),
             ~token'[t1].revoked, ~token'[t2].revoked, token'[t1].from = token'[t2].from
      PROVE  t1 = t2
  BY <1>2, <1>5 DEF OneSession
<1>6. ASSUME NEW c \in Calls, NEW t \in 1 .. Len(token'), In(c)'
      PROVE  token'[t].from # call'[c].code
  BY <1>2, <1>6 DEF NobodyEnters, OneSession, In
<1>7. ASSUME NEW c \in Calls, In(c)' PROVE otp'[call'[c].code].consumed
  <2>1. In(c) /\ call'[c].code = call[c].code
    BY <1>7 DEF NobodyEnters, In
  <2> QED
    BY <1>3, <2>1, CodesOfSessions DEF OneSession
<1>8. ASSUME NEW t \in 1 .. Len(token') PROVE otp'[token'[t].from].consumed
  BY <1>2, <1>3, CodesOfSessions DEF OneSession
<1> QED
  BY <1>4, <1>5, <1>6, <1>7, <1>8 DEF OneSession

LEMMA OneSessionStep == Types /\ OneSession /\ [SignInNext]_signInVars => OneSession'
<1> SUFFICES ASSUME Types, OneSession, [SignInNext]_signInVars PROVE OneSession'
  OBVIOUS
<1>1. CASE \E c \in Calls : ClaimOtp(c) /\ Claimable(call[c].code, call[c].attempts)
  BY <1>1, ClaimKeepsOneSession
<1>2. CASE NobodyEnters
  <2>1. \A t \in 1 .. Len(token) : token[t] \in Tokens
    BY ElementOfSeq DEF Types, RowsOK
  <2>2. ASSUME NEW c \in Calls, CreateRefreshToken(c) PROVE OneSession'
    <3> DEFINE f == call[c].code
    <3>1. /\ Len(token') = Len(token) + 1
          /\ \A u \in 1 .. Len(token) : token'[u] = token[u]
          /\ token'[Len(token) + 1] = NewToken(call[c].phone, call[c].device, f)
      BY <2>2, TokenCreated DEF Types
    <3>2. In(c) /\ call'[c].pc \notin SignInPcs
      <4>1. Writes(c, Idle)
        BY <2>2 DEF CreateRefreshToken, Done, Writes
      <4>2. call'[c] = Idle
        BY <4>1, CallWritten DEF Types
      <4> QED
        BY <2>2, <4>2 DEF CreateRefreshToken, In, SignInPcs, Idle
    <3>3. f \in 1 .. Len(otp) /\ otp[f].consumed
      BY <3>2, CodesOfSessions DEF OneSession
    <3>4. token'[Len(token) + 1].from = f
      BY <3>1 DEF NewToken
    <3> HIDE DEF f
    <3>5. \A u \in 1 .. Len(token) : token[u].from # f
      BY <3>2 DEF OneSession, f
    <3>6. \A d \in Calls : call'[d].pc \in SignInPcs => call'[d].code # f
      BY <1>2, <3>2 DEF NobodyEnters, OneSession, f
    <3> QED
      BY <1>2, <3>1, <3>3, <3>4, <3>5, <3>6, TokenAdded
  <2>3. ASSUME NEW c \in Calls, RotateRefreshToken(c), Rotatable(call[c].token) PROVE OneSession'
    <3> DEFINE t == call[c].token
               f == token[t].from
    <3>1. /\ t \in 1 .. Len(token)
          /\ Len(token') = Len(token) + 1
          /\ token'[t] = [token[t] EXCEPT !.revoked = TRUE, !.next = Len(token) + 1]
          /\ \A u \in 1 .. Len(token) : u # t => token'[u] = token[u]
          /\ token'[Len(token) + 1] = NewToken(token[t].person, token[t].device, f)
      BY <2>3, TokenRotated DEF Types
    <3>2. ~token[t].revoked
      BY <2>3 DEF Rotatable, Live
    <3> HIDE DEF t
    <3>3. f \in 1 .. Len(otp) /\ otp[f].consumed
      BY <3>1, CodesOfSessions DEF OneSession
    <3>4. token'[Len(token) + 1].from = f
      BY <3>1 DEF NewToken
    <3>5. token'[t].revoked /\ token'[t].from = token[t].from
      BY <2>1, <3>1 DEF Tokens
    <3>6. ASSUME NEW u \in 1 .. Len(token)
          PROVE  /\ token'[u].from = token[u].from
                 /\ ~token'[u].revoked => ~token[u].revoked /\ token[u].from # f
      BY <3>1, <3>2, <3>5 DEF OneSession
    <3>7. \A d \in Calls : call'[d].pc \in SignInPcs => call'[d].code # f
      BY <1>2, <3>1 DEF NobodyEnters, OneSession
    <3> HIDE DEF f
    <3> QED
      BY <1>2, <3>1, <3>3, <3>4, <3>6, <3>7, TokenAdded
  <2>4. ASSUME NEW c \in Calls, SuspendCommits(c) PROVE OneSession'
    <3>1. /\ Len(token') = Len(token)
          /\ \A u \in 1 .. Len(token) :
                 \/ token'[u] = token[u]
                 \/ /\ ~token[u].revoked
                    /\ token'[u] = [token[u] EXCEPT !.revoked = TRUE, !.ended = TRUE]
      BY <2>4, TokensEnded DEF Types
    <3>2. ASSUME NEW u \in 1 .. Len(token)
          PROVE  token'[u].from = token[u].from /\ (~token'[u].revoked => ~token[u].revoked)
      BY <2>1, <3>1 DEF Tokens
    <3> QED
      BY <1>2, <3>1, <3>2, QuietStep
  <2>5. ASSUME Expire PROVE OneSession'
    <3>1. Len(token') = Len(token)
      <4>1. CASE token' = token
        BY <4>1
      <4>2. CASE \E t \in DOMAIN token : token' = [token EXCEPT ![t].expired = TRUE]
        <5>1. PICK t \in DOMAIN token : token' = [token EXCEPT ![t].expired = TRUE]
          BY <4>2
        <5>2. DOMAIN token' = DOMAIN token
          BY <5>1
        <5> QED
          BY <5>2, TypesStep, LenProperties DEF Types, RowsOK
      <4> QED
        BY <2>5, <4>1, <4>2 DEF Expire
    <3>2. ASSUME NEW u \in 1 .. Len(token)
          PROVE  token'[u].from = token[u].from /\ (~token'[u].revoked => ~token[u].revoked)
      <4>1. u \in DOMAIN token
        BY LenProperties DEF Types, RowsOK
      <4> QED
        BY <2>1, <2>5, <4>1 DEF Expire, Tokens
    <3> QED
      BY <1>2, <3>1, <3>2, QuietStep
  <2>6. CASE token' = token
    BY <1>2, <2>6, QuietStep
  <2>7. \/ token' = token
        \/ Expire
        \/ \E c \in Calls : CreateRefreshToken(c)
        \/ \E c \in Calls : SuspendCommits(c)
        \/ \E c \in Calls : RotateRefreshToken(c) /\ Rotatable(call[c].token)
    BY DEF SignInNext, CallStep, signInVars, RequestOtp, SuspendPerson, ReinstatePerson,
           SuspendBegins, ReadOtp, ReadToken, IncrementOtpAttempts, ClaimOtp, AdmitPerson,
           UpsertDevice, CheckPerson, RotateRefreshToken
  <2> QED
    BY <2>2, <2>3, <2>4, <2>5, <2>6, <2>7
<1> QED
  BY <1>1, <1>2, WhoEnters

\* However many requests present one code or one refresh token at the same time, the code
\* opens one session: the claim of the code and the revocation of the token are
\* compare-and-sets.
THEOREM OneSessionOnly == SignInSpec => []OneSessionPerCode
<1>1. SignInInit => OneSession
  <2> SUFFICES ASSUME SignInInit PROVE OneSession
    OBVIOUS
  <2>1. token = <<>> /\ Len(token) = 0
    BY EmptySeq DEF SignInInit
  <2>2. \A c \in Calls : ~In(c)
    BY DEF SignInInit, In, Idle, SignInPcs
  <2> QED
    BY <2>1, <2>2 DEF OneSession
<1>2. Types /\ OneSession => OneSessionPerCode
  <2> SUFFICES ASSUME Types, OneSession PROVE OneSessionPerCode
    OBVIOUS
  <2>1. DOMAIN token = 1 .. Len(token)
    BY LenProperties DEF Types, RowsOK
  <2>2. \A o : \A c \in SigningIn(o) : c \in Calls /\ In(c) /\ call[c].code = o
    BY DEF SigningIn, In, SignInPcs
  <2>3. \A o : \A t \in Issued(o) : t \in 1 .. Len(token) /\ token[t].from = o
    BY <2>1 DEF Issued
  <2> QED
    BY <2>2, <2>3 DEF OneSession, OneSessionPerCode
<1> QED
  BY <1>1, <1>2, TypesStart, TypesStep, OneSessionStep, PTL DEF SignInSpec

=============================================================================
