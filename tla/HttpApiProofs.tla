---------------------------- MODULE HttpApiProofs ----------------------------
(***************************************************************************)
(* Proofs about HttpApi: type correctness, that a nonce authorises at most *)
(* one write, and that failed checks are a cooldown apart however often    *)
(* millis() wraps, for every number of clients and every length of the     *)
(* clock, the nonce's life and the cooldown.                               *)
(***************************************************************************)
EXTENDS HttpApi, TLAPS

\* While less than a cooldown has passed since the last failure, the 32-bit
\* difference is the time that passed, wrapped or not; a nonce that is still
\* valid has authorised nothing.
IInv ==
    /\ TypeOK
    /\ uses <= 1
    /\ nonceValid => uses = 0
    /\ lastAuthFailure # 0 /\ since < Cooldown => Elapsed(lastAuthFailure) = since
    /\ gap >= Cooldown

\* What a node comes up with satisfies the invariant.
LEMMA Bounds == 0 \in 0..(Wrap - 1) /\ Cooldown \in 0..Cooldown /\ Cooldown >= Cooldown /\ 0 <= 1
  BY HttpAssumption, SMT DEF HttpAssumption

LEMMA InitStep == Init => IInv
<1> SUFFICES ASSUME Init PROVE IInv OBVIOUS
<1>1. TypeOK
  <2>1. uses \in Nat
    BY SMT DEF Init
  <2> QED BY <2>1, Bounds, Zenon DEF Init, TypeOK
<1>2. uses <= 1 /\ gap >= Cooldown
  BY Bounds, Zenon DEF Init
<1> QED BY <1>1, <1>2, Zenon DEF Init, IInv

\* The difference of two readings of the clock is a time of the clock.
LEMMA ElapsedType ==
  ASSUME clock \in 0..(Wrap - 1), NEW from \in 0..(Wrap - 1)
  PROVE  Elapsed(from) \in 0..(Wrap - 1)
  BY HttpAssumption, SMT DEF Elapsed, HttpAssumption

\* A tick lengthens the 32-bit difference by one until it turns over.
LEMMA TickStep == IInv /\ Tick => IInv'
<1> SUFFICES ASSUME IInv, Tick PROVE IInv' OBVIOUS
<1> USE HttpAssumption DEF HttpAssumption
<1>1. TypeOK'
  BY SMT DEF IInv, TypeOK, Tick, server
<1>2. uses' <= 1 /\ gap' >= Cooldown
  BY SMT DEF IInv, Tick
<1>3. nonceValid' => uses' = 0
  BY DEF IInv, Tick, server
<1>4. ASSUME lastAuthFailure' # 0, since' < Cooldown
      PROVE  IF clock' >= lastAuthFailure' THEN clock' - lastAuthFailure' = since'
             ELSE clock' + Wrap - lastAuthFailure' = since'
  BY <1>4, SMT DEF IInv, TypeOK, Tick, server, Elapsed
<1>5. lastAuthFailure' # 0 /\ since' < Cooldown => Elapsed(lastAuthFailure)' = since'
  BY <1>4 DEF Elapsed
<1> QED BY <1>1, <1>2, <1>3, <1>5 DEF IInv

\* A refused write outside the cooldown comes a cooldown after the last one.
LEMMA RefuseStep ==
  ASSUME IInv, NEW c \in Clients, NEW proof \in BOOLEAN, Write(c, proof), Refuse(c, proof)
  PROVE  IInv'
<1> USE HttpAssumption DEF HttpAssumption
<1>1. TypeOK'
  <2>1. asked' \in BOOLEAN /\ nonceValid' \in BOOLEAN /\ started' \in BOOLEAN
    BY Zenon DEF IInv, TypeOK, Write, Refuse
  <2>2. lastAuthFailure' \in 0..(Wrap - 1) /\ since' \in 0..Cooldown /\ gap' \in 0..Cooldown
    BY SMT DEF IInv, TypeOK, Refuse, FailedAt
  <2>3. last' \in Clients \cup {"none"} /\ nonce' \in Clients \cup {"none"}
    BY Zenon DEF IInv, TypeOK, Write
  <2>4. answer' \in {"none", "nonce", "cooldown", "ok", "refused"}
    BY Zenon DEF Refuse
  <2>5. clock' \in 0..(Wrap - 1) /\ nonceIssued' \in 0..(Wrap - 1) /\ uses' \in Nat
    BY Zenon DEF IInv, TypeOK, Write, Refuse
  <2> QED BY <2>1, <2>2, <2>3, <2>4, <2>5 DEF TypeOK
<1>2. uses' <= 1 /\ nonceValid' = FALSE
  BY Zenon DEF IInv, Refuse
<1>3. Elapsed(lastAuthFailure)' = since'
  BY SMT DEF IInv, TypeOK, Refuse, Write, FailedAt, Elapsed
<1>4. gap' >= Cooldown
  <2>1. CASE lastAuthFailure = 0
    BY <2>1, SMT DEF Refuse
  <2>2. CASE lastAuthFailure # 0
    <3>1. ~(Elapsed(lastAuthFailure) < Cooldown)
      BY <2>2 DEF Refuse, CoolingDown
    <3>2. ~(since < Cooldown)
      BY <2>2, <3>1, SMT DEF IInv
    <3> QED BY <2>2, <3>2, SMT DEF IInv, TypeOK, Refuse
  <2> QED BY <2>1, <2>2
<1> QED BY <1>1, <1>2, <1>3, <1>4 DEF IInv

\* A write that is authorised is the first the nonce authorises, and the last.
LEMMA AuthoriseStep ==
  ASSUME IInv, NEW c \in Clients, NEW proof \in BOOLEAN, Write(c, proof), Authorise(c, proof)
  PROVE  IInv'
<1>1. uses = 0
  BY DEF IInv, Authorise, Genuine
<1>2. uses' = 1 /\ nonceValid' = FALSE
  BY <1>1, SMT DEF Authorise
<1>3. TypeOK'
  <2>1. asked' \in BOOLEAN /\ nonceValid' \in BOOLEAN /\ answer' = "ok"
    BY Zenon DEF IInv, TypeOK, Write, Authorise
  <2>2. uses' \in Nat
    BY <1>2, SMT
  <2> QED BY <2>1, <2>2, Zenon DEF IInv, TypeOK, Write, Authorise
<1>4. gap' >= Cooldown /\ uses' <= 1
  BY <1>2, SMT DEF IInv, Authorise
<1>5. lastAuthFailure' # 0 /\ since' < Cooldown => Elapsed(lastAuthFailure)' = since'
  BY Zenon DEF IInv, Authorise, Write, Elapsed
<1> QED BY <1>2, <1>3, <1>4, <1>5 DEF IInv

LEMMA CooldownStep ==
  ASSUME IInv, NEW c \in Clients, NEW proof \in BOOLEAN, Write(c, proof), RefuseInCooldown(c)
  PROVE  IInv'
<1>1. asked' \in BOOLEAN /\ answer' = "cooldown"
  BY Zenon DEF IInv, TypeOK, Write, RefuseInCooldown
<1>2. TypeOK'
  BY <1>1, Zenon DEF IInv, TypeOK, Write, RefuseInCooldown, history
<1>3. Elapsed(lastAuthFailure)' = Elapsed(lastAuthFailure)
  BY DEF Write, RefuseInCooldown, Elapsed
<1> QED BY <1>2, <1>3, Zenon DEF IInv, Write, RefuseInCooldown, history

\* A fresh nonce has authorised nothing.
LEMMA NonceStep ==
  ASSUME IInv, NEW c \in Clients, GetNonce(c)
  PROVE  IInv'
<1> USE HttpAssumption DEF HttpAssumption
<1>1. asked' \in BOOLEAN
  BY Zenon DEF IInv, TypeOK, GetNonce
<1>2. TypeOK'
  BY <1>1, SMT DEF IInv, TypeOK, GetNonce
<1>3. Elapsed(lastAuthFailure)' = Elapsed(lastAuthFailure)
  BY DEF GetNonce, Elapsed
<1>4. uses' <= 1 /\ uses' = 0
  BY SMT DEF GetNonce
<1> QED BY <1>2, <1>3, <1>4, Zenon DEF IInv, GetNonce

LEMMA NextStep == IInv /\ [Next]_vars => IInv'
<1> SUFFICES ASSUME IInv, [Next]_vars PROVE IInv' OBVIOUS
<1> USE HttpAssumption DEF HttpAssumption
<1>1. CASE Tick
  BY <1>1, TickStep
<1>2. CASE Start
  BY <1>2, Zenon DEF IInv, TypeOK, Start, history, Elapsed
<1>3. CASE Restart
  <2>1. uses' \in Nat
    BY <1>3, SMT DEF Restart
  <2>2. TypeOK'
    BY <1>3, <2>1, Bounds, Zenon DEF Restart, TypeOK
  <2>3. uses' <= 1 /\ gap' >= Cooldown
    BY <1>3, Bounds, Zenon DEF Restart
  <2> QED BY <1>3, <2>2, <2>3, Zenon DEF Restart, IInv
<1>4. ASSUME NEW c \in Clients, GetNonce(c) PROVE IInv'
  BY <1>4, NonceStep
<1>5. ASSUME NEW c \in Clients, NEW proof \in BOOLEAN, Write(c, proof) PROVE IInv'
  <2>1. CASE RefuseInCooldown(c)
    BY <1>5, <2>1, CooldownStep
  <2>2. CASE Authorise(c, proof)
    BY <1>5, <2>2, AuthoriseStep
  <2>3. CASE Refuse(c, proof)
    BY <1>5, <2>3, RefuseStep
  <2> QED BY <1>5, <2>1, <2>2, <2>3 DEF Write
<1>6. CASE UNCHANGED vars
  BY <1>6, Zenon DEF IInv, TypeOK, vars, server, history, Elapsed
<1> QED BY <1>1, <1>2, <1>3, <1>4, <1>5, <1>6, Zenon DEF Next

\* The strengthened invariant holds in every reachable state.
THEOREM Invariance == Spec => []IInv
<1> QED BY InitStep, NextStep, PTL DEF Spec

\* Every variable keeps the range the code gives it.
THEOREM TypeCorrect == Spec => []TypeOK
<1>1. IInv => TypeOK
  BY DEF IInv
<1> QED BY <1>1, Invariance, PTL

\* A nonce authorises at most one write.
THEOREM NonceIsOneShot == Spec => []OncePerNonce
<1>1. IInv => OncePerNonce
  BY DEF IInv, OncePerNonce
<1> QED BY <1>1, Invariance, PTL

\* Two failed checks are at least a cooldown apart.
THEOREM FailuresAreSpaced == Spec => []GuessesSpaced
<1>1. IInv => GuessesSpaced
  BY DEF IInv, GuessesSpaced
<1> QED BY <1>1, Invariance, PTL
=============================================================================
