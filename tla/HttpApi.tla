------------------------------- MODULE HttpApi -------------------------------
(***************************************************************************)
(* The one-shot nonce of src/src/HttpApi.cpp: GET /nonce hands out a       *)
(* nonce, a write quotes it with a proof of the key, and a write that      *)
(* fails the check starts a cooldown.                                      *)
(*                                                                         *)
(* There is one nonce for all clients. A client quotes the one it fetched  *)
(* last, so a nonce is known by the client that fetched it. Time is        *)
(* millis(), which wraps at Wrap; ages are differences of it.              *)
(*                                                                         *)
(* What a write does once it is authorised is NodeSettings and Ota; routes *)
(* that are not authorised and malformed requests change nothing here.     *)
(***************************************************************************)
EXTENDS Naturals

CONSTANTS Clients,
          Patient,     \* a client that has the key and fetches a nonce for each try
          Wrap,        \* 2^32, in ticks
          NonceTtl,    \* NODE_API_NONCE_TTL_S
          Cooldown     \* NODE_API_AUTH_COOLDOWN_S

ASSUME HttpAssumption ==
    /\ Patient \in Clients /\ "none" \notin Clients
    /\ Wrap \in Nat /\ NonceTtl \in Nat \ {0} /\ Cooldown \in Nat \ {0}
    /\ NonceTtl < Wrap /\ Cooldown < Wrap

VARIABLES
    started,           \* _started
    clock,             \* millis()
    nonce,             \* _nonce, by the client that fetched it; "none" before the first
    nonceIssued, nonceValid,  \* _nonceIssued, _nonceValid
    lastAuthFailure,   \* _lastAuthFailure: 0 is never
    asked,             \* the patient client is between its GET and its write
    last, answer,      \* who was answered last, and how
    since, gap,        \* history: real time since the last failure, and between the last two, up to Cooldown
    uses               \* history: how many writes the nonce has authorised

server == <<started, nonce, nonceIssued, nonceValid, lastAuthFailure>>
history == <<since, gap, uses>>
vars == <<server, clock, asked, last, answer, history>>

\* The difference of two 32-bit millis().
Elapsed(from) == IF clock >= from THEN clock - from ELSE clock + Wrap - from

Init ==
    /\ started = FALSE /\ clock = 0
    /\ nonce = "none" /\ nonceIssued = 0 /\ nonceValid = FALSE
    /\ lastAuthFailure = 0
    /\ asked = FALSE /\ last = "none" /\ answer = "none"
    /\ since = Cooldown /\ gap = Cooldown /\ uses = 0

\* The patient client's write follows its GET within a tick.
Tick ==
    /\ ~asked
    /\ clock' = IF clock + 1 = Wrap THEN 0 ELSE clock + 1
    /\ since' = IF since < Cooldown THEN since + 1 ELSE Cooldown
    /\ UNCHANGED <<server, asked, last, answer, gap, uses>>

\* loop(): the server starts once there is an address.
Start ==
    /\ ~started
    /\ started' = TRUE
    /\ UNCHANGED <<clock, nonce, nonceIssued, nonceValid, lastAuthFailure, asked, last, answer, history>>

Restart ==
    /\ started
    /\ started' = FALSE /\ clock' = 0
    /\ nonce' = "none" /\ nonceIssued' = 0 /\ nonceValid' = FALSE
    /\ lastAuthFailure' = 0
    /\ asked' = FALSE /\ last' = "none" /\ answer' = "none"
    /\ since' = Cooldown /\ gap' = Cooldown /\ uses' = 0

GetNonce(c) ==
    /\ started /\ (c = Patient => ~asked)
    /\ nonce' = c /\ nonceIssued' = clock /\ nonceValid' = TRUE
    /\ asked' = (asked \/ c = Patient)
    /\ last' = c /\ answer' = "nonce"
    /\ uses' = 0
    /\ UNCHANGED <<started, clock, lastAuthFailure, since, gap>>

CoolingDown == lastAuthFailure # 0 /\ Elapsed(lastAuthFailure) < Cooldown

\* Mutant: an attempt during the cooldown starts it again.
RefuseAndRestart(c) ==
    /\ CoolingDown
    /\ answer' = "cooldown"
    /\ lastAuthFailure' = clock
    /\ UNCHANGED <<nonceValid, history>>

\* Answered before the nonce is looked at: it stays as it is.
RefuseInCooldown(c) ==
    /\ CoolingDown
    /\ answer' = "cooldown"
    /\ UNCHANGED <<nonceValid, lastAuthFailure, history>>

Genuine(c, proof) == nonceValid /\ Elapsed(nonceIssued) <= NonceTtl /\ nonce = c /\ proof

\* Mutant: the nonce is only spent when it was good for nothing.
AuthoriseKeepsNonce(c, proof) ==
    /\ ~CoolingDown /\ Genuine(c, proof)
    /\ answer' = "ok" /\ uses' = uses + 1
    /\ UNCHANGED <<nonceValid, lastAuthFailure, since, gap>>

Authorise(c, proof) ==
    /\ ~CoolingDown /\ Genuine(c, proof)
    /\ answer' = "ok" /\ nonceValid' = FALSE /\ uses' = uses + 1
    /\ UNCHANGED <<lastAuthFailure, since, gap>>

\* Mutant: quoting the wrong nonce, or none, starts no cooldown.
FailedProof(c, proof) == IF nonceValid /\ nonce = c /\ ~proof THEN clock ELSE lastAuthFailure

\* Mutant: the end of the cooldown is kept instead of its start.
FailedUntil(c, proof) == clock + Cooldown

FailedAt(c, proof) == clock

Refuse(c, proof) ==
    /\ ~CoolingDown /\ ~Genuine(c, proof)
    /\ answer' = "refused" /\ nonceValid' = FALSE
    /\ lastAuthFailure' = FailedAt(c, proof)
    /\ since' = 0
    /\ gap' = IF lastAuthFailure = 0 THEN Cooldown ELSE since
    /\ UNCHANGED uses

\* Handlers of the authorised routes start with authorised().
Write(c, proof) ==
    /\ started /\ (c = Patient => asked /\ proof)
    /\ RefuseInCooldown(c) \/ Authorise(c, proof) \/ Refuse(c, proof)
    /\ asked' = (asked /\ c # Patient)
    /\ last' = c
    /\ UNCHANGED <<started, clock, nonce, nonceIssued>>

Next ==
    \/ Tick \/ Start \/ Restart
    \/ \E c \in Clients : GetNonce(c)
    \/ \E c \in Clients, proof \in BOOLEAN : Write(c, proof)

Spec == Init /\ [][Next]_vars

\* loop() runs and time passes; the patient client goes on trying, and waits
\* for the cooldown it was told of to end.
FairSpec ==
    /\ Spec
    /\ WF_vars(Start) /\ SF_vars(Tick)
    /\ SF_vars(GetNonce(Patient) /\ ~CoolingDown) /\ SF_vars(Write(Patient, TRUE))

-----------------------------------------------------------------------------
(* Properties *)

TypeOK ==
    /\ started \in BOOLEAN /\ clock \in 0..(Wrap - 1)
    /\ nonce \in Clients \cup {"none"} /\ nonceIssued \in 0..(Wrap - 1) /\ nonceValid \in BOOLEAN
    /\ lastAuthFailure \in 0..(Wrap - 1)
    /\ asked \in BOOLEAN /\ last \in Clients \cup {"none"}
    /\ answer \in {"none", "nonce", "cooldown", "ok", "refused"}
    /\ since \in 0..Cooldown /\ gap \in 0..Cooldown /\ uses \in Nat

\* A nonce authorises one write, whoever quotes it, how often and however late.
OncePerNonce == uses <= 1

\* Two failed checks are a cooldown apart, also when millis() wraps in between
\* (but for a failure at the very millisecond that counts as never).
GuessesSpaced == gap >= Cooldown

\* Once the other clients keep quiet, a client that tries again and again gets
\* through, whatever nonce or cooldown they left behind.
PatientServed ==
    <>[](last \in {Patient, "none"}) => []<>(last = Patient /\ answer = "ok")
=============================================================================
