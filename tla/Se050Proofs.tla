----------------------------- MODULE Se050Proofs -----------------------------
(* Theorems about Se050, for every board, fault set and bound: the two sides  *)
(* of the channel stay in step, the keys in the chip are never generated      *)
(* again, a rotation never locks the board out and reports the truth, and the *)
(* driver as a whole implements the vault of Vault.tla.                       *)
EXTENDS Se050, TLAPS

AnswerType == [sw : {"ok", "error", "refused"}, says : BOOLEAN, chip : Chip]
OutcomeType == [sw : {"ok", "error", "refused", "none", "damaged"}, says : BOOLEAN, chip : Chip,
                cost : {0, 1}]

\* What the chip keeps through frames and counters.
SameStore(d, c) == d.keys = c.keys /\ d.key = c.key /\ d.peer = c.peer

------------------------------------------------------------------------------
(* What an exchange can end with.                                          *)

\* A frame the chip takes, a reset, a power cycle and a counter left behind make a chip of a chip.
LEMMA TookType == ASSUME NEW c \in Chip PROVE Took(c) \in Chip
<1>1. c.expects \in {0, 1} /\ c.up \in BOOLEAN
  BY DEF Chip
<1>2. 1 - c.expects \in {0, 1}
  BY <1>1
<1> QED
  BY <1>2 DEF Took, Chip

LEMMA FreshType == ASSUME NEW c \in Chip PROVE Fresh(c) \in Chip
<1>1. (IF c.peer = "none" THEN "none" ELSE "empty") \in {"none", "empty", "other", "mine"}
  OBVIOUS
<1> QED
  BY <1>1 DEF Fresh, Chip

LEMMA PoweredType == ASSUME NEW c \in Chip PROVE PoweredUp(c) \in Chip
<1>1. PICK d \in Chip : d = Fresh(c)
  BY FreshType
<1>2. [d EXCEPT !.up = TRUE] \in Chip
  BY DEF Chip
<1> QED
  BY <1>1, <1>2 DEF PoweredUp

LEMMA AheadType == ASSUME NEW c \in Chip PROVE [c EXCEPT !.agrees = FALSE] \in Chip
BY DEF Chip

\* Frames and counters leave the store alone, and a frame taken flips the N(S) only.
LEMMA TookFields ==
    ASSUME NEW c \in Chip
    PROVE  /\ SameStore(Took(c), c) /\ SameStore([c EXCEPT !.agrees = FALSE], c) /\ SameStore(c, c)
           /\ Took(c).channel = c.channel /\ Took(c).session = c.session
           /\ Took(c).agrees = c.agrees /\ Took(c).expects = 1 - c.expects
           /\ Took(c).selected = c.selected
BY DEF Took, SameStore, Chip

\* Answers and missing answers are typed.
LEMMA AnswerTyped ==
    ASSUME NEW sw \in {"ok", "error", "refused"}, NEW c \in Chip
    PROVE  Answer(sw, c) \in AnswerType /\ Answer(sw, c).sw = sw /\ Answer(sw, c).chip = c
<1>1. Answer(sw, c) \in AnswerType
  BY DEF AnswerType, Answer
<1> QED
  BY <1>1 DEF Answer

LEMMA ReportTyped ==
    ASSUME NEW truth \in BOOLEAN, chip \in Chip
    PROVE  Report(truth) \in AnswerType /\ Report(truth).says = truth /\ Report(truth).chip = chip
<1>1. Report(truth) \in AnswerType
  BY DEF AnswerType, Report
<1> QED
  BY <1>1 DEF Report

LEMMA MissedTyped ==
    ASSUME NEW c \in Chip, NEW n \in {0, 1}
    PROVE  Missed(c, n) \in OutcomeType /\ Missed(c, n).sw = "none" /\ Missed(c, n).chip = c
<1>1. Missed(c, n) \in OutcomeType
  BY DEF OutcomeType, Missed
<1> QED
  BY <1>1 DEF Missed

\* An exchange has a well-typed outcome.
LEMMA ExchangeType ==
    ASSUME NEW answers \in SUBSET AnswerType, NEW unheard \in Chip, chip \in Chip,
           NEW o \in Exchange(answers, unheard)
    PROVE  o \in OutcomeType
<1>1. \A a \in answers : /\ a.sw \in {"ok", "error", "refused"} /\ a.says \in BOOLEAN
                         /\ a.chip \in Chip /\ Took(a.chip) \in Chip
  BY TookType DEF AnswerType
<1>2. CASE \E a \in answers : o = [sw |-> a.sw, says |-> a.says, chip |-> Took(a.chip), cost |-> 0]
  BY <1>1, <1>2 DEF OutcomeType
<1>3. CASE \E a \in answers : o = Missed(Took(a.chip), 1)
  BY <1>1, <1>3 DEF OutcomeType, Missed
<1>4. CASE o = Missed(unheard, 1)
  BY <1>4, MissedTyped
<1>5. CASE o = Missed(unheard, 0)
  BY <1>5, MissedTyped
<1> QED
  BY <1>2, <1>3, <1>4, <1>5 DEF Exchange

\* What an exchange tells and leaves: an answer the driver reads is one the chip gave.
LEMMA ExchangeFacts ==
    ASSUME NEW answers \in SUBSET AnswerType, NEW unheard \in Chip, chip \in Chip,
           SameStore(unheard, chip), NEW o \in Exchange(answers, unheard)
    PROVE  /\ o.sw # "none" => /\ Heard
                               /\ \E a \in answers : o.sw = a.sw /\ o.says = a.says /\ o.chip = Took(a.chip)
           /\ o.sw # "damaged"
           /\ \/ SameStore(o.chip, chip)
              \/ \E a \in answers : SameStore(o.chip, a.chip)
<1>1. \A a \in answers : a.sw \in {"ok", "error", "refused"} /\ SameStore(Took(a.chip), a.chip)
  BY TookFields DEF AnswerType
<1>2. CASE \E a \in answers : Heard /\ o = [sw |-> a.sw, says |-> a.says, chip |-> Took(a.chip), cost |-> 0]
  BY <1>1, <1>2
<1>3. CASE \E a \in answers : o = Missed(Took(a.chip), 1)
  BY <1>1, <1>3 DEF Missed
<1>4. CASE o = Missed(unheard, 1)
  BY <1>4, MissedTyped
<1>5. CASE o = Missed(unheard, 0)
  BY <1>5, MissedTyped
<1> QED
  BY <1>2, <1>3, <1>4, <1>5 DEF Exchange

\* Inside the channel: what a command can end with.
LEMMA SecuredType ==
    ASSUME NEW answers \in SUBSET AnswerType, chip \in Chip, NEW o \in Secured(answers)
    PROVE  o \in OutcomeType
<1> DEFINE sent == IF InChannel THEN answers ELSE {Answer(sw, chip) : sw \in {"error", "refused"}}
           known == Exchange(sent, [chip EXCEPT !.agrees = FALSE])
<1>1. sent \in SUBSET AnswerType
  BY AnswerTyped
<1>2. \A r \in known : r \in OutcomeType
  BY <1>1, ExchangeType, AheadType
<1>3. CASE ~scpOpen
  BY <1>3, MissedTyped DEF Secured
<1>4. CASE scpOpen /\ o \in known
  BY <1>2, <1>4
<1>5. CASE scpOpen /\ \E r \in known : o = [r EXCEPT !.sw = "damaged", !.cost = 1]
  <2> HIDE DEF known
  <2>1. PICK r \in known : o = [r EXCEPT !.sw = "damaged", !.cost = 1]
    BY <1>5
  <2> QED
    BY <1>2, <2>1 DEF OutcomeType
<1> QED
  BY <1>3, <1>4, <1>5 DEF Secured, Wrapped

\* Inside the channel: an accepted command was performed, an answer after which the driver
\* keeps a channel that is in step is the chip's, and nothing else touches the store.
LEMMA SecuredFacts ==
    ASSUME NEW answers \in SUBSET AnswerType, chip \in Chip, NEW o \in Secured(answers)
    PROVE  /\ o.sw # "none" => scpOpen /\ Heard
           /\ Accepted(o) => /\ InChannel
                             /\ \E a \in answers : a.sw = "ok" /\ o.says = a.says /\ o.chip = Took(a.chip)
           /\ InChannel /\ o.sw \in {"ok", "error"} =>
                \E a \in answers : o.sw = a.sw /\ o.says = a.says /\ o.chip = Took(a.chip)
           /\ \/ SameStore(o.chip, chip)
              \/ InChannel /\ \E a \in answers : SameStore(o.chip, a.chip)
<1> DEFINE guesses == {Answer(sw, chip) : sw \in {"error", "refused"}}
           sent == IF InChannel THEN answers ELSE guesses
           known == Exchange(sent, [chip EXCEPT !.agrees = FALSE])
<1>1. \A a \in guesses : a \in AnswerType /\ a.sw # "ok" /\ SameStore(a.chip, chip)
  <2>1. SameStore(chip, chip)
    BY DEF SameStore
  <2> QED
    BY <2>1, AnswerTyped
<1>2. sent \in SUBSET AnswerType
  BY <1>1
<1>3. SameStore([chip EXCEPT !.agrees = FALSE], chip) /\ [chip EXCEPT !.agrees = FALSE] \in Chip
  BY TookFields, AheadType
<1>4. \A r \in known :
         /\ r.sw # "none" => /\ Heard
                             /\ \E a \in sent : r.sw = a.sw /\ r.says = a.says /\ r.chip = Took(a.chip)
         /\ r.sw # "damaged"
         /\ SameStore(r.chip, chip) \/ \E a \in sent : SameStore(r.chip, a.chip)
  <2> HIDE DEF sent
  <2> QED
    BY <1>2, <1>3, ExchangeFacts
<1>5. \A r \in known : r \in OutcomeType
  <2> HIDE DEF sent
  <2> QED
    BY <1>2, ExchangeType, AheadType
<1>6. \A a \in sent : /\ a.sw = "ok" => InChannel /\ a \in answers
                      /\ SameStore(a.chip, chip) \/ (InChannel /\ a \in answers)
  BY <1>1
<1>7. \A a \in sent : InChannel => a \in answers
  OBVIOUS
<1>8. CASE ~scpOpen
  <2>1. o = Missed(chip, 0)
    BY <1>8 DEF Secured
  <2>2. o.sw = "none" /\ o.chip = chip
    BY <2>1, MissedTyped
  <2> QED
    BY <2>2 DEF Accepted, SameStore
<1>9. CASE scpOpen /\ o \in known
  <2> HIDE DEF known, sent
  <2>1. Accepted(o) => o.sw = "ok"
    BY <1>4, <1>9 DEF Accepted
  <2>2. SameStore(o.chip, chip) \/ (InChannel /\ \E a \in answers : SameStore(o.chip, a.chip))
    BY <1>4, <1>6, <1>9 DEF SameStore
  <2> QED
    BY <1>4, <1>6, <1>7, <1>9, <2>1, <2>2
<1>10. CASE scpOpen /\ \E r \in known : r.sw = "ok" /\ o = [r EXCEPT !.sw = "damaged", !.cost = 1]
  <2> HIDE DEF known, sent
  <2>1. PICK r \in known : r.sw = "ok" /\ o = [r EXCEPT !.sw = "damaged", !.cost = 1]
    BY <1>10
  <2>2. o.sw = "damaged" /\ o.says = r.says /\ o.chip = r.chip
    BY <1>5, <2>1 DEF OutcomeType
  <2>3. PICK a \in sent : a.sw = "ok" /\ r.says = a.says /\ r.chip = Took(a.chip)
    BY <1>4, <2>1
  <2>4. InChannel /\ a \in answers /\ Heard
    BY <1>4, <1>6, <2>1, <2>3
  <2>5. a.chip \in Chip
    BY <2>4 DEF AnswerType
  <2>6. SameStore(Took(a.chip), a.chip)
    BY <2>5, TookFields
  <2>7. SameStore(o.chip, a.chip)
    BY <2>2, <2>3, <2>6
  <2> QED
    BY <1>10, <2>2, <2>3, <2>4, <2>7
<1> QED
  BY <1>8, <1>9, <1>10 DEF Secured, Wrapped

\* With the applet and the session: the same, and both are there when a command is accepted.
LEMMA InAppletFacts ==
    ASSUME NEW answers \in SUBSET AnswerType, chip \in Chip, NEW o \in InApplet(answers)
    PROVE  /\ o \in OutcomeType
           /\ o.sw # "none" => scpOpen /\ Heard
           /\ Accepted(o) => /\ InChannel
                             /\ \E a \in answers : a.sw = "ok" /\ o.says = a.says /\ o.chip = Took(a.chip)
           /\ InChannel /\ o.sw \in {"ok", "error"} =>
                \/ o.chip = Took(chip)
                \/ \E a \in answers : o.sw = a.sw /\ o.says = a.says /\ o.chip = Took(a.chip)
           /\ \/ SameStore(o.chip, chip)
              \/ \E a \in answers : SameStore(o.chip, a.chip)
<1> DEFINE given == IF chip.selected = "applet" THEN answers ELSE {Answer("error", chip)}
<1>1. Answer("error", chip) \in AnswerType /\ Answer("error", chip).sw = "error"
      /\ Answer("error", chip).chip = chip
  BY AnswerTyped
<1>2. given \in SUBSET AnswerType
  BY <1>1
<1>3. \A a \in given : a \in answers \/ (a.sw = "error" /\ a.chip = chip)
  BY <1>1
<1>4. o \in Secured(given)
  BY DEF InApplet
<1> HIDE DEF given
<1>5. o \in OutcomeType
  BY <1>2, <1>4, SecuredType
<1>6. /\ o.sw # "none" => scpOpen /\ Heard
      /\ Accepted(o) => /\ InChannel
                        /\ \E a \in given : a.sw = "ok" /\ o.says = a.says /\ o.chip = Took(a.chip)
      /\ InChannel /\ o.sw \in {"ok", "error"} =>
           \E a \in given : o.sw = a.sw /\ o.says = a.says /\ o.chip = Took(a.chip)
      /\ \/ SameStore(o.chip, chip)
         \/ InChannel /\ \E a \in given : SameStore(o.chip, a.chip)
  BY <1>2, <1>4, SecuredFacts
<1> QED
  BY <1>3, <1>5, <1>6

LEMMA InSessionFacts ==
    ASSUME NEW answers \in SUBSET AnswerType, chip \in Chip, NEW o \in InSession(answers)
    PROVE  /\ o \in OutcomeType
           /\ o.sw # "none" => scpOpen /\ Heard
           /\ Accepted(o) => /\ InChannel
                             /\ \E a \in answers : a.sw = "ok" /\ o.says = a.says /\ o.chip = Took(a.chip)
           /\ InChannel /\ o.sw \in {"ok", "error"} =>
                \/ o.chip = Took(chip)
                \/ \E a \in answers : o.sw = a.sw /\ o.says = a.says /\ o.chip = Took(a.chip)
           /\ \/ SameStore(o.chip, chip)
              \/ \E a \in answers : SameStore(o.chip, a.chip)
<1> DEFINE given == IF chip.session = "open" /\ sessionIdGood THEN answers ELSE {Answer("error", chip)}
<1>1. Answer("error", chip) \in AnswerType /\ Answer("error", chip).sw = "error"
      /\ Answer("error", chip).chip = chip
  BY AnswerTyped
<1>2. given \in SUBSET AnswerType
  BY <1>1
<1>3. \A a \in given : a \in answers \/ (a.sw = "error" /\ a.chip = chip)
  BY <1>1
<1>4. o \in InApplet(given)
  BY DEF InSession
<1> HIDE DEF given
<1>5. /\ o \in OutcomeType
      /\ o.sw # "none" => scpOpen /\ Heard
      /\ Accepted(o) => /\ InChannel
                        /\ \E a \in given : a.sw = "ok" /\ o.says = a.says /\ o.chip = Took(a.chip)
      /\ InChannel /\ o.sw \in {"ok", "error"} =>
           \/ o.chip = Took(chip)
           \/ \E a \in given : o.sw = a.sw /\ o.says = a.says /\ o.chip = Took(a.chip)
      /\ \/ SameStore(o.chip, chip)
         \/ \E a \in given : SameStore(o.chip, a.chip)
  BY <1>2, <1>4, InAppletFacts
<1> QED
  BY <1>3, <1>5

\* Outside the channel: an answer the driver reads is the chip's own.
LEMMA PlainFacts ==
    ASSUME NEW answers \in SUBSET AnswerType, chip \in Chip, NEW o \in Plain(answers)
    PROVE  /\ o \in OutcomeType
           /\ o.sw = "ok" => /\ Heard
                             /\ \E a \in answers : a.sw = "ok" /\ o.chip = Took(a.chip)
           /\ \/ SameStore(o.chip, chip)
              \/ \E a \in answers : SameStore(o.chip, a.chip)
<1>1. SameStore(chip, chip)
  BY DEF SameStore
<1> QED
  BY <1>1, ExchangeType, ExchangeFacts DEF Plain

------------------------------------------------------------------------------
(* The inductive invariant.                                                *)

\* Only a use for the node goes by the peer object; a rotation is only under way on a board
\* that derives the keys it rotates to, and reopens or reports once the chip has them.
OperationInv ==
    /\ job.form = "object" => job.op = "use" /\ job.why = "loop"
    /\ job.op \in {"rotate", "reopen"} => "Otp" \in derivable
    /\ job.op = "reopen" => chip.keys = "Otp"
    /\ rotated = "done" => chip.keys = "Otp"

\* What each step relies on: no channel is taken for open while the link comes up, but for
\* one a reset disturbed; a key is generated after the chip said there is none; the peer
\* object that was written is not written again before the agreement.
StepInv ==
    /\ pc \in {"select", "info", "init"} => ~scpOpen \/ disturbed
    /\ pc = "reset" /\ job.op \in {"ensure", "use"} => ~scpOpen \/ disturbed
    /\ pc = "auth" => ~scpOpen /\ ~sessionActive /\ chip.keys = keySource
    /\ pc \in {"setup", "create", "verify"} => ~sessionActive
    /\ pc = "generate" => chip.key[job.key] = "absent"
    /\ pc = "putKey" => job.op = "rotate"
    /\ pc \in {"peerExists", "peerCreate", "peerUpdate", "agreePeer"} => job.form = "object"
    /\ pc = "agreePeer" => chip.peer \in {"mine", "empty"}

\* The keys in the chip; the driver takes it to have the OTP keys only when it has, or while
\* it tries them.
KeysKnown == chip.keys \in derivable \cup {"Factory"}
StoreInv ==
    /\ KeysKept
    /\ KeysKnown
    /\ keySource = "Otp" => chip.keys = "Otp" \/ pc = "init"

IInv == TypeOK /\ OperationInv /\ StepInv /\ StoreInv /\ InStep

------------------------------------------------------------------------------
(* How operations start, go on and end.                                    *)

LEMMA WorkTyped ==
    ASSUME NEW op \in {"probe", "ensure", "use", "rotate", "reopen", "none"}, NEW key \in Keys,
           NEW why \in {"test", "identity", "loop"}
    PROVE  /\ Work(op, key, why) \in Job
           /\ Work(op, key, why).op = op /\ Work(op, key, why).form = "bytes"
           /\ op \in {"ensure", "use"} => Work(op, key, why) \in Errand
BY DEF Work, Job, Errand

LEMMA ErrandTyped ==
    ASSUME NEW j \in Errand
    PROVE  j \in Job /\ j.form = "bytes" /\ j.op \in {"ensure", "use"}
BY DEF Errand, Job

LEMMA AgendaTyped ==
    SelfTest \in Seq(Errand) /\ IdentityKeys \in Seq(Errand) /\ AfterTest \in Seq(Errand)
<1>1. ExchangeKey \in Keys /\ SigningKey \in Keys
  BY DEF Keys
<1>2. SelfTest \in Seq(Errand)
  BY <1>1, WorkTyped DEF SelfTest
<1>3. IdentityKeys \in Seq(Errand)
  BY <1>1, WorkTyped DEF IdentityKeys
<1> QED
  BY <1>2, <1>3 DEF AfterTest

\* The types of the program's variables, and of the others.
ProgramTyped ==
    /\ pc \in Steps /\ job \in Job /\ agenda \in Seq(Errand) /\ cycled \in BOOLEAN
    /\ identity \in {"none", "chip", "file"} /\ first \in {"none", "chip", "file"}
    /\ result \in {"none", "served", "failed"} /\ rotated \in {"none", "done", "failed"}
    /\ service \in Nat
LinkTyped ==
    /\ chip \in Chip /\ seq \in {0, 1}
    /\ scpOpen \in BOOLEAN /\ sessionActive \in BOOLEAN /\ sessionIdGood \in BOOLEAN
    /\ keySource \in Sources /\ peerObjReady \in BOOLEAN /\ viaObject \in BOOLEAN
    /\ left \subseteq Sources /\ troubles \in Nat /\ acts \in Nat /\ disturbed \in BOOLEAN

\* An operation goes on, starts again or ends: it goes by the peer object only if it did, no
\* rotation starts, and none is reported done.
Flow ==
    /\ ProgramTyped'
    /\ job'.form = "object" => job'.op = "use" /\ job'.why = "loop"
    /\ job'.op \in {"rotate", "reopen"} => job'.op = job.op
    /\ rotated' \in {rotated, "failed", "none"}

\* Steps the invariant says nothing of.
Quiet == {"session", "exists", "read", "agree", "idle", "absent"}

LEMMA NextJobFlow ==
    ASSUME NEW list \in Seq(Errand), NextJob(list), cycled \in BOOLEAN
    PROVE  /\ pc' \in {"idle", "session"} /\ job' \in Job /\ agenda' \in Seq(Errand)
           /\ cycled' \in BOOLEAN /\ job'.form = "bytes" /\ job'.op \in {"ensure", "use", "none"}
<1>1. CASE list = << >>
  <2>1. NoWork \in Job /\ NoWork.form = "bytes" /\ NoWork.op = "none"
    BY WorkTyped DEF NoWork, Keys
  <2>2. << >> \in Seq(Errand)
    OBVIOUS
  <2> QED
    BY <1>1, <2>1, <2>2 DEF NextJob
<1>2. CASE list # << >>
  <2>1. Head(list) \in Errand /\ Tail(list) \in Seq(Errand)
    BY <1>2
  <2> QED
    BY <1>2, <2>1, ErrandTyped DEF NextJob
<1> QED
  BY <1>1, <1>2

LEMMA GotoFlow ==
    ASSUME TypeOK, OperationInv, NEW step \in Steps, Goto(step)
    PROVE  Flow /\ pc' = step
BY DEF Goto, Flow, ProgramTyped, TypeOK, OperationInv, verdicts

LEMMA FinishFlow ==
    ASSUME TypeOK, troubles' \in Nat, NEW ok \in BOOLEAN, Finish(ok)
    PROVE  Flow /\ pc' \in Quiet
<1>1. agenda \in Seq(Errand) /\ cycled \in BOOLEAN /\ << >> \in Seq(Errand)
  BY DEF TypeOK
<1>2. PICK list \in Seq(Errand) : NextJob(list)
  BY <1>1, AgendaTyped DEF Finish
<1>3. /\ pc' \in {"idle", "session"} /\ job' \in Job /\ agenda' \in Seq(Errand)
      /\ cycled' \in BOOLEAN /\ job'.form = "bytes" /\ job'.op \in {"ensure", "use", "none"}
  BY <1>1, <1>2, NextJobFlow
<1>4. /\ identity' \in {"none", "chip", "file"} /\ first' \in {"none", "chip", "file"}
      /\ result' \in {"none", "served", "failed"} /\ rotated' = rotated /\ service' \in Nat
  BY DEF Finish, RunsWith, TypeOK, verdicts
<1>5. pc' \in Steps /\ pc' \in Quiet /\ rotated' \in {"none", "done", "failed"}
  BY <1>3, <1>4 DEF Steps, Quiet, TypeOK
<1> QED
  BY <1>3, <1>4, <1>5 DEF Flow, ProgramTyped

LEMMA RotationEndsFlow ==
    ASSUME TypeOK, NEW report \in {"done", "failed"}, RotationEnds(report)
    PROVE  /\ ProgramTyped' /\ pc' \in Quiet /\ rotated' = report
           /\ job'.form = "bytes" /\ job'.op \notin {"rotate", "reopen"}
<1>1. << >> \in Seq(Errand) /\ cycled \in BOOLEAN /\ NextJob(<< >>)
  BY DEF TypeOK, RotationEnds
<1>2. /\ pc' \in {"idle", "session"} /\ job' \in Job /\ agenda' \in Seq(Errand)
      /\ cycled' \in BOOLEAN /\ job'.form = "bytes" /\ job'.op \in {"ensure", "use", "none"}
  BY <1>1, NextJobFlow
<1>3. rotated' = report /\ UNCHANGED verdicts
  BY DEF RotationEnds
<1>4. pc' \in Steps /\ pc' \in Quiet
  BY <1>2 DEF Steps, Quiet
<1> QED
  BY <1>2, <1>3, <1>4 DEF ProgramTyped, TypeOK, verdicts

LEMMA FailsFlow ==
    ASSUME TypeOK, OperationInv, troubles' \in Nat, Fails
    PROVE  Flow /\ pc' \in Quiet
<1>1. CASE job.op \in {"rotate", "reopen"} /\ RotationEnds("failed")
  BY <1>1, RotationEndsFlow DEF Flow
<1>2. CASE /\ job.form = "object"
           /\ job' = [job EXCEPT !.form = "bytes", !.attempt = 1]
           /\ pc' = "session"
           /\ UNCHANGED <<agenda, cycled, verdicts, rotated>>
  <2>1. job' \in Job /\ job'.form = "bytes" /\ job'.op = job.op
    BY <1>2 DEF TypeOK, Job
  <2>2. pc' \in Steps /\ pc' \in Quiet
    BY <1>2 DEF Steps, Quiet
  <2> QED
    BY <1>2, <2>1, <2>2 DEF Flow, ProgramTyped, TypeOK, verdicts
<1>3. CASE Finish(FALSE)
  BY <1>3, FinishFlow
<1> QED
  BY <1>1, <1>2, <1>3 DEF Fails

LEMMA RetryFlow ==
    ASSUME TypeOK, OperationInv, troubles' \in Nat, CloseAndRetry
    PROVE  Flow /\ pc' \in Quiet /\ scpOpen' = FALSE /\ sessionActive' = FALSE
<1>1. CASE Fails
  BY <1>1, FailsFlow DEF CloseAndRetry, CloseChannel
<1>2. CASE /\ job' = [job EXCEPT !.attempt = 2] /\ pc' = "session"
           /\ UNCHANGED <<agenda, cycled, verdicts, rotated>>
  <2>1. job' \in Job /\ job'.form = job.form /\ job'.op = job.op /\ job'.why = job.why
    BY <1>2 DEF TypeOK, Job
  <2>2. pc' \in Steps /\ pc' \in Quiet
    BY <1>2 DEF Steps, Quiet
  <2>3. Flow
    BY <1>2, <2>1, <2>2 DEF Flow, ProgramTyped, TypeOK, verdicts, OperationInv
  <2> QED
    BY <2>2, <2>3 DEF CloseAndRetry, CloseChannel
<1> QED
  BY <1>1, <1>2 DEF CloseAndRetry

LEMMA PowerCyclingFlow ==
    ASSUME TypeOK, OperationInv, PowerCycling
    PROVE  Flow /\ pc' = "reset"
<1>1. pc' \in Steps /\ pc' = "reset"
  BY DEF PowerCycling, Steps
<1> QED
  BY <1>1 DEF PowerCycling, Flow, ProgramTyped, TypeOK, OperationInv, verdicts

LEMMA OpenFailsFlow ==
    ASSUME TypeOK, OperationInv, troubles' \in Nat, OpenFails
    PROVE  Flow /\ pc' \in Quiet
<1>1. CASE pc' = "absent" /\ RunsWith("file") /\ UNCHANGED <<job, agenda, cycled>>
  <2>1. pc' \in Steps /\ pc' \in Quiet
    BY <1>1 DEF Steps, Quiet
  <2> QED
    BY <1>1, <2>1 DEF RunsWith, Flow, ProgramTyped, TypeOK, OperationInv
<1>2. CASE NextJob(<< >>) /\ UNCHANGED <<verdicts, rotated>>
  <2>1. << >> \in Seq(Errand) /\ cycled \in BOOLEAN
    BY DEF TypeOK
  <2>2. /\ pc' \in {"idle", "session"} /\ job' \in Job /\ agenda' \in Seq(Errand)
        /\ cycled' \in BOOLEAN /\ job'.form = "bytes" /\ job'.op \in {"ensure", "use", "none"}
    BY <1>2, <2>1, NextJobFlow
  <2>3. pc' \in Steps /\ pc' \in Quiet
    BY <2>2 DEF Steps, Quiet
  <2> QED
    BY <1>2, <2>2, <2>3 DEF Flow, ProgramTyped, TypeOK, verdicts
<1>3. CASE Fails
  BY <1>3, FailsFlow
<1> QED
  BY <1>1, <1>2, <1>3 DEF OpenFails

------------------------------------------------------------------------------
(* What the invariant asks of a step.                                      *)

\* Nothing is asked of a quiet step.
LEMMA QuietStep == ASSUME pc' \in Quiet PROVE StepInv'
BY DEF Quiet, StepInv

\* A step that keeps the key set, or moves it to the OTP keys on a board that derives them.
LEMMA Kept ==
    ASSUME IInv, ProgramTyped', OperationInv', LinkTyped', UNCHANGED environment, StepInv', InStep',
           KeysKept',
           chip'.keys = chip.keys \/ (chip'.keys = "Otp" /\ "Otp" \in derivable),
           keySource' = "Otp" => chip'.keys = "Otp" \/ pc' = "init"
    PROVE  IInv'
<1>1. TypeOK'
  BY DEF IInv, ProgramTyped, LinkTyped, TypeOK, environment
<1>2. StoreInv'
  BY DEF IInv, StoreInv, KeysKnown, environment
<1> QED
  BY <1>1, <1>2 DEF IInv

LEMMA Preserved ==
    ASSUME IInv, Flow, LinkTyped', UNCHANGED environment, StepInv', InStep', KeysKept',
           chip'.keys = chip.keys \/ (chip'.keys = "Otp" /\ "Otp" \in derivable),
           keySource' = "Otp" => chip'.keys = "Otp" \/ pc' = "init"
    PROVE  IInv'
<1>1. OperationInv'
  BY DEF IInv, Flow, OperationInv, environment
<1>2. ProgramTyped'
  BY DEF Flow
<1> QED
  BY <1>1, <1>2, Kept

\* An exchange inside the channel whose answers leave the channel alone, and after which the
\* driver closes what it cannot vouch for.
LEMMA ChannelKept ==
    ASSUME TypeOK, InStep, NEW A \in SUBSET AnswerType, NEW o \in OutcomeType,
           \A a \in A : /\ a.chip.channel = chip.channel /\ a.chip.agrees = chip.agrees
                        /\ a.chip.expects = chip.expects,
           InChannel /\ o.sw \in {"ok", "error"} =>
               o.chip = Took(chip) \/ \E a \in A : o.chip = Took(a.chip),
           Happened(o, scpOpen),
           scpOpen' \in {FALSE, scpOpen /\ ~Closing(o)}, sessionActive' \in BOOLEAN,
           sessionIdGood' \in BOOLEAN, peerObjReady' \in BOOLEAN, viaObject' \in BOOLEAN,
           keySource' \in Sources, UNCHANGED <<left, disturbed>>
    PROVE  /\ LinkTyped' /\ UNCHANGED environment /\ troubles' \in Nat /\ chip' = o.chip
           /\ scpOpen' /\ ~disturbed' =>
                /\ scpOpen /\ ~disturbed /\ InChannel /\ o.sw \in {"ok", "error"}
                /\ chip'.channel = "open" /\ chip'.agrees /\ seq' = chip'.expects
<1>1. /\ chip' = o.chip /\ chip' \in Chip /\ troubles' \in Nat /\ acts' \in Nat
      /\ UNCHANGED environment
  BY Se050Assumption DEF Happened, OutcomeType, TypeOK
<1>2. seq' \in {0, 1} /\ (scpOpen => seq' = 1 - seq)
  BY DEF Happened, TypeOK
<1>3. Closing(o) \in BOOLEAN /\ scpOpen \in BOOLEAN
  BY DEF Closing, TypeOK
<1>4. LinkTyped'
  <2>1. scpOpen' \in BOOLEAN
    BY <1>3
  <2> QED
    BY <1>1, <1>2, <2>1 DEF LinkTyped, TypeOK
<1>5. ASSUME scpOpen', ~disturbed'
      PROVE  /\ scpOpen /\ ~disturbed /\ InChannel /\ o.sw \in {"ok", "error"}
             /\ chip'.channel = "open" /\ chip'.agrees /\ seq' = chip'.expects
  <2>1. scpOpen /\ ~Closing(o) /\ ~disturbed
    BY <1>5
  <2>2. o.sw \in {"ok", "error"}
    BY <2>1 DEF Closing, OutcomeType
  <2>3. InChannel /\ seq = chip.expects
    BY <2>1 DEF InStep, InChannel
  <2>4. chip \in Chip /\ \A a \in A : a.chip \in Chip
    BY DEF TypeOK, AnswerType
  <2>5. PICK c \in Chip : /\ chip' = Took(c)
                          /\ c.channel = chip.channel /\ c.agrees = chip.agrees
                          /\ c.expects = chip.expects
    BY <1>1, <2>2, <2>3, <2>4
  <2>6. chip'.channel = c.channel /\ chip'.agrees = c.agrees /\ chip'.expects = 1 - c.expects
    BY <2>5, TookFields
  <2>7. seq' = chip'.expects
    BY <1>2, <2>1, <2>3, <2>5, <2>6
  <2> QED
    BY <2>1, <2>2, <2>3, <2>5, <2>6, <2>7 DEF InChannel
<1> QED
  BY <1>1, <1>4, <1>5

\* When the answers leave the session alone as well, the two sides stay in step.
LEMMA ChannelStep ==
    ASSUME TypeOK, InStep, NEW A \in SUBSET AnswerType, NEW o \in OutcomeType,
           \A a \in A : /\ a.chip.channel = chip.channel /\ a.chip.agrees = chip.agrees
                        /\ a.chip.expects = chip.expects
                        /\ sessionActive => a.chip.session = chip.session,
           InChannel /\ o.sw \in {"ok", "error"} =>
               o.chip = Took(chip) \/ \E a \in A : o.chip = Took(a.chip),
           SameStore(o.chip, chip) \/ \E a \in A : SameStore(o.chip, a.chip),
           Happened(o, scpOpen),
           scpOpen' \in {FALSE, scpOpen /\ ~Closing(o)},
           sessionActive' \in {FALSE, sessionActive /\ ~Closing(o)},
           sessionIdGood' \in BOOLEAN, peerObjReady' \in BOOLEAN, viaObject' \in BOOLEAN,
           keySource' \in Sources, UNCHANGED <<left, disturbed>>
    PROVE  /\ LinkTyped' /\ UNCHANGED environment /\ InStep' /\ troubles' \in Nat
           /\ (\A a \in A : a.chip.keys = chip.keys) => chip'.keys = chip.keys
<1>1. sessionActive' \in BOOLEAN /\ (sessionActive' => sessionActive)
  BY DEF Closing, TypeOK
<1>2. /\ LinkTyped' /\ UNCHANGED environment /\ troubles' \in Nat /\ chip' = o.chip
      /\ scpOpen' /\ ~disturbed' =>
           /\ scpOpen /\ ~disturbed /\ InChannel /\ o.sw \in {"ok", "error"}
           /\ chip'.channel = "open" /\ chip'.agrees /\ seq' = chip'.expects
  BY <1>1, ChannelKept
<1>3. ASSUME scpOpen', ~disturbed', sessionActive' PROVE chip'.session = "open"
  <2>1. sessionActive /\ chip.session = "open"
    BY <1>1, <1>2, <1>3 DEF InStep
  <2>2. chip \in Chip /\ \A a \in A : a.chip \in Chip
    BY DEF TypeOK, AnswerType
  <2>3. PICK c \in Chip : chip' = Took(c) /\ c.session = chip.session
    BY <1>2, <1>3, <2>1, <2>2
  <2> QED
    BY <2>1, <2>3, TookFields
<1>4. InStep'
  BY <1>2, <1>3 DEF InStep
<1>5. (\A a \in A : a.chip.keys = chip.keys) => chip'.keys = chip.keys
  BY <1>2 DEF SameStore
<1> QED
  BY <1>2, <1>4, <1>5

------------------------------------------------------------------------------
(* Keys and agreements.                                                    *)

\* A change of the key objects or the peer object is no change of the rest.
LEMMA KeyWritten ==
    ASSUME NEW c \in Chip, NEW k \in Keys, NEW v \in {"absent", "original", "replaced"}
    PROVE  LET d == [c EXCEPT !.key[k] = v]
           IN  /\ d \in Chip /\ d.channel = c.channel /\ d.agrees = c.agrees
               /\ d.expects = c.expects /\ d.keys = c.keys /\ d.session = c.session
               /\ d.key[k] = v /\ \A j \in Keys \ {k} : d.key[j] = c.key[j]
BY DEF Chip

LEMMA PeerWritten ==
    ASSUME NEW c \in Chip
    PROVE  LET d == [c EXCEPT !.peer = "mine"]
           IN  /\ d \in Chip /\ d.channel = c.channel /\ d.agrees = c.agrees
               /\ d.expects = c.expects /\ d.keys = c.keys /\ d.session = c.session
               /\ d.key = c.key /\ d.peer = "mine"
BY DEF Chip

LEMMA ReadPublicStep == ASSUME IInv, ReadPublic PROVE IInv'
<1> DEFINE A == {Answer(IF chip.key[job.key] = "absent" THEN "error" ELSE "ok", chip)}
<1>1. PICK o \in InSession(A) : /\ Happened(o, scpOpen) /\ KeepOrClose(o)
                                /\ \/ o.sw = "ok" /\ Finish(TRUE)
                                   \/ o.sw # "ok" /\ Fails
  BY DEF ReadPublic
<1>2. A \in SUBSET AnswerType /\ \A a \in A : a.chip = chip
  BY AnswerTyped DEF IInv, TypeOK
<1>3. UNCHANGED <<sessionIdGood, keySource, peerObjReady, viaObject, left, disturbed>>
  BY DEF ReadPublic
<1> HIDE DEF A
<1>4. /\ o \in OutcomeType
      /\ InChannel /\ o.sw \in {"ok", "error"} => o.chip = Took(chip)
      /\ SameStore(o.chip, chip)
  BY <1>2, InSessionFacts DEF IInv, TypeOK
<1>5. /\ LinkTyped' /\ UNCHANGED environment /\ InStep' /\ troubles' \in Nat
      /\ chip'.keys = chip.keys
  BY <1>1, <1>2, <1>3, <1>4, ChannelStep DEF IInv, TypeOK, KeepOrClose
<1>6. Flow /\ pc' \in Quiet
  BY <1>1, <1>5, FinishFlow, FailsFlow DEF IInv
<1>7. KeysKept' /\ (keySource' = "Otp" => chip'.keys = "Otp" \/ pc' = "init")
  BY <1>1, <1>3, <1>4, <1>5 DEF IInv, StoreInv, KeysKept, Happened, SameStore, ReadPublic
<1> QED
  BY <1>3, <1>5, <1>6, <1>7, QuietStep, Preserved

LEMMA ExistsStep == ASSUME IInv, Exists PROVE IInv'
<1> DEFINE A == {Report(chip.key[job.key] # "absent")}
<1>1. PICK o \in InSession(A) :
         /\ Happened(o, scpOpen)
         /\ \/ o.sw = "ok" /\ KeepOrClose(o) /\ Goto(IF o.says THEN "read" ELSE "generate")
            \/ o.sw # "ok" /\ CloseAndRetry
  BY DEF Exists
<1>2. \A a \in A : a \in AnswerType /\ a.chip = chip /\ a.says = (chip.key[job.key] # "absent")
  BY ReportTyped DEF IInv, TypeOK
<1>3. pc = "exists" /\ UNCHANGED <<sessionIdGood, keySource, peerObjReady, viaObject, left, disturbed>>
  BY DEF Exists
<1> HIDE DEF A
<1>4. /\ o \in OutcomeType
      /\ InChannel /\ o.sw \in {"ok", "error"} => o.chip = Took(chip)
      /\ SameStore(o.chip, chip)
      /\ o.sw = "ok" => o.says = (chip.key[job.key] # "absent")
  BY <1>2, InSessionFacts DEF IInv, TypeOK, Accepted
<1>5. /\ LinkTyped' /\ UNCHANGED environment /\ InStep' /\ troubles' \in Nat
      /\ chip'.keys = chip.keys
  <2>1. /\ Happened(o, scpOpen)
        /\ scpOpen' \in {FALSE, scpOpen /\ ~Closing(o)}
        /\ sessionActive' \in {FALSE, sessionActive /\ ~Closing(o)}
    BY <1>1 DEF KeepOrClose, CloseAndRetry, CloseChannel
  <2>2. /\ sessionIdGood' \in BOOLEAN /\ peerObjReady' \in BOOLEAN /\ viaObject' \in BOOLEAN
        /\ keySource' \in Sources /\ InStep /\ TypeOK
    BY <1>3 DEF IInv, TypeOK
  <2> QED
    BY <1>2, <1>3, <1>4, <2>1, <2>2, ChannelStep
<1>6. chip'.key = chip.key
  BY <1>1, <1>4 DEF Happened, SameStore
<1>7. KeysKept' /\ (keySource' = "Otp" => chip'.keys = "Otp" \/ pc' = "init")
  BY <1>3, <1>5, <1>6 DEF IInv, StoreInv, KeysKept
<1>8. CASE o.sw = "ok" /\ Goto(IF o.says THEN "read" ELSE "generate")
  <2>1. Flow /\ pc' = IF o.says THEN "read" ELSE "generate"
    BY <1>8, GotoFlow DEF IInv, Steps
  <2>2. job' = job
    BY <1>8 DEF Goto
  <2>3. StepInv'
    BY <1>4, <1>6, <1>8, <2>1, <2>2 DEF StepInv
  <2> QED
    BY <1>3, <1>5, <1>7, <2>1, <2>3, Preserved
<1>9. CASE CloseAndRetry
  BY <1>3, <1>5, <1>7, <1>9, RetryFlow, QuietStep, Preserved DEF IInv
<1> QED
  BY <1>1, <1>8, <1>9

LEMMA GenerateStep == ASSUME IInv, Generate PROVE IInv'
<1> DEFINE A == {Answer("ok", [chip EXCEPT !.key[job.key] = Generated])}
<1>1. PICK o \in InSession(A) : /\ Happened(o, scpOpen) /\ KeepOrClose(o)
                                /\ \/ Accepted(o) /\ Goto("read")
                                   \/ ~Accepted(o) /\ Fails
  BY DEF Generate
<1>2. chip \in Chip /\ job.key \in Keys /\ chip.key[job.key] = "absent"
  BY DEF IInv, TypeOK, Job, StepInv, Generate
<1>3. Generated = "original"
  BY <1>2 DEF Generated
<1>4. \A a \in A : /\ a \in AnswerType
                   /\ a.chip.channel = chip.channel /\ a.chip.agrees = chip.agrees
                   /\ a.chip.expects = chip.expects /\ a.chip.keys = chip.keys
                   /\ a.chip.session = chip.session
                   /\ a.chip.key[job.key] = "original"
                   /\ \A k \in Keys \ {job.key} : a.chip.key[k] = chip.key[k]
  <2> DEFINE d == [chip EXCEPT !.key[job.key] = "original"]
  <2>1. /\ d \in Chip /\ d.channel = chip.channel /\ d.agrees = chip.agrees
        /\ d.expects = chip.expects /\ d.keys = chip.keys /\ d.session = chip.session
        /\ d.key[job.key] = "original" /\ \A k \in Keys \ {job.key} : d.key[k] = chip.key[k]
    BY <1>2, KeyWritten
  <2>2. A = {Answer("ok", d)}
    BY <1>3
  <2> HIDE DEF d, A
  <2>3. Answer("ok", d) \in AnswerType /\ Answer("ok", d).chip = d
    BY <2>1, AnswerTyped
  <2> QED
    BY <2>1, <2>2, <2>3
<1>5. UNCHANGED <<sessionIdGood, keySource, peerObjReady, viaObject, left, disturbed>>
  BY DEF Generate
<1> HIDE DEF A
<1>6. /\ o \in OutcomeType
      /\ InChannel /\ o.sw \in {"ok", "error"} =>
           o.chip = Took(chip) \/ \E a \in A : o.chip = Took(a.chip)
      /\ SameStore(o.chip, chip) \/ \E a \in A : SameStore(o.chip, a.chip)
  BY <1>2, <1>4, InSessionFacts
<1>7. /\ LinkTyped' /\ UNCHANGED environment /\ InStep' /\ troubles' \in Nat
      /\ chip'.keys = chip.keys
  <2>1. /\ TypeOK /\ InStep /\ keySource' \in Sources
        /\ sessionIdGood' \in BOOLEAN /\ peerObjReady' \in BOOLEAN /\ viaObject' \in BOOLEAN
    BY <1>5 DEF IInv, TypeOK
  <2>2. /\ Happened(o, scpOpen) /\ A \in SUBSET AnswerType
        /\ scpOpen' \in {FALSE, scpOpen /\ ~Closing(o)}
        /\ sessionActive' \in {FALSE, sessionActive /\ ~Closing(o)}
    BY <1>1, <1>4 DEF KeepOrClose
  <2> QED
    BY <1>4, <1>5, <1>6, <2>1, <2>2, ChannelStep
<1>8. Flow /\ pc' \in Quiet
  BY <1>1, <1>7, GotoFlow, FailsFlow DEF IInv, Steps, Quiet
<1>9. KeysKept'
  BY <1>1, <1>4, <1>6 DEF IInv, StoreInv, KeysKept, Happened, SameStore
<1>10. keySource' = "Otp" => chip'.keys = "Otp" \/ pc' = "init"
  BY <1>5, <1>7 DEF IInv, StoreInv, Generate
<1> QED
  BY <1>5, <1>7, <1>8, <1>9, <1>10, QuietStep, Preserved

LEMMA AgreeStep == ASSUME IInv, Agree PROVE IInv'
<1> DEFINE A == {Answer(IF chip.key[job.key] = "absent" THEN "error" ELSE "ok", chip)}
<1>1. PICK o \in InSession(A) :
         /\ Happened(o, scpOpen)
         /\ \/ /\ o.sw = "ok" /\ KeepOrClose(o) /\ Finish(TRUE)
               /\ viaObject' = (viaObject /\ (job.why = "test" \/ job.key = SigningKey))
            \/ o.sw = "damaged" /\ KeepOrClose(o) /\ Fails /\ UNCHANGED viaObject
            \/ ~Accepted(o) /\ CloseAndRetry /\ UNCHANGED viaObject
  BY DEF Agree
<1>2. \A a \in A : a \in AnswerType /\ a.chip = chip
  BY AnswerTyped DEF IInv, TypeOK
<1>3. pc = "agree" /\ UNCHANGED <<sessionIdGood, keySource, peerObjReady, left, disturbed>>
  BY DEF Agree
<1> HIDE DEF A
<1>4. /\ o \in OutcomeType
      /\ InChannel /\ o.sw \in {"ok", "error"} => o.chip = Took(chip)
      /\ SameStore(o.chip, chip)
  BY <1>2, InSessionFacts DEF IInv, TypeOK
<1>5. /\ scpOpen' \in {FALSE, scpOpen /\ ~Closing(o)}
      /\ sessionActive' \in {FALSE, sessionActive /\ ~Closing(o)}
      /\ viaObject' \in BOOLEAN
  BY <1>1 DEF IInv, TypeOK, KeepOrClose,
        CloseAndRetry, CloseChannel
<1>6. /\ LinkTyped' /\ UNCHANGED environment /\ InStep' /\ troubles' \in Nat
      /\ chip'.keys = chip.keys
  BY <1>1, <1>2, <1>3, <1>4, <1>5, ChannelStep DEF IInv, TypeOK
<1>7. Flow /\ pc' \in Quiet
  BY <1>1, <1>6, FinishFlow, FailsFlow, RetryFlow DEF IInv
<1>8. chip'.key = chip.key
  BY <1>1, <1>4 DEF Happened, SameStore
<1>9. KeysKept' /\ (keySource' = "Otp" => chip'.keys = "Otp" \/ pc' = "init")
  BY <1>3, <1>6, <1>8 DEF IInv, StoreInv, KeysKept
<1> QED
  BY <1>3, <1>6, <1>7, <1>9, QuietStep, Preserved

LEMMA PeerExistsStep == ASSUME IInv, PeerExists PROVE IInv'
<1> DEFINE A == {Report(chip.peer # "none")}
<1>1. PICK o \in InSession(A) :
         /\ Happened(o, scpOpen)
         /\ \/ /\ o.sw = "ok" /\ KeepOrClose(o) /\ peerObjReady' = o.says
               /\ Goto(IF o.says THEN "peerUpdate" ELSE "peerCreate")
            \/ o.sw # "ok" /\ CloseAndRetry /\ UNCHANGED peerObjReady
  BY DEF PeerExists
<1>2. \A a \in A : a \in AnswerType /\ a.chip = chip
  BY ReportTyped DEF IInv, TypeOK
<1>3. pc = "peerExists" /\ UNCHANGED <<sessionIdGood, keySource, viaObject, left, disturbed>>
  BY DEF PeerExists
<1> HIDE DEF A
<1>4. /\ o \in OutcomeType
      /\ InChannel /\ o.sw \in {"ok", "error"} => o.chip = Took(chip)
      /\ SameStore(o.chip, chip)
  BY <1>2, InSessionFacts DEF IInv, TypeOK
<1>5. peerObjReady' \in BOOLEAN
  BY <1>1, <1>4 DEF OutcomeType, IInv, TypeOK
<1>6. /\ LinkTyped' /\ UNCHANGED environment /\ InStep' /\ troubles' \in Nat
      /\ chip'.keys = chip.keys
  BY <1>1, <1>2, <1>3, <1>4, <1>5, ChannelStep DEF IInv, TypeOK, KeepOrClose,
        CloseAndRetry, CloseChannel
<1>7. chip'.key = chip.key
  BY <1>1, <1>4 DEF Happened, SameStore
<1>8. KeysKept' /\ (keySource' = "Otp" => chip'.keys = "Otp" \/ pc' = "init")
  BY <1>3, <1>6, <1>7 DEF IInv, StoreInv, KeysKept
<1>9. CASE Goto(IF o.says THEN "peerUpdate" ELSE "peerCreate")
  <2>1. Flow /\ pc' = IF o.says THEN "peerUpdate" ELSE "peerCreate"
    BY <1>9, GotoFlow DEF IInv, Steps
  <2>2. job' = job /\ job.form = "object"
    BY <1>3, <1>9 DEF Goto, IInv, StepInv
  <2>3. StepInv'
    BY <2>1, <2>2 DEF StepInv
  <2> QED
    BY <1>3, <1>6, <1>8, <2>1, <2>3, Preserved
<1>10. CASE CloseAndRetry
  BY <1>3, <1>6, <1>8, <1>10, RetryFlow, QuietStep, Preserved DEF IInv
<1> QED
  BY <1>1, <1>9, <1>10

\* The answers to a command that writes the peer object.
LEMMA PeerAnswers ==
    ASSUME chip \in Chip,
           NEW A \in SUBSET {Answer("ok", [chip EXCEPT !.peer = "mine"]), Answer("error", chip)}
    PROVE  \A a \in A : /\ a \in AnswerType
                        /\ a.chip.channel = chip.channel /\ a.chip.agrees = chip.agrees
                        /\ a.chip.expects = chip.expects /\ a.chip.keys = chip.keys
                        /\ a.chip.session = chip.session /\ a.chip.key = chip.key
                        /\ a.sw = "ok" => a.chip.peer = "mine"
<1> DEFINE d == [chip EXCEPT !.peer = "mine"]
<1>1. /\ d \in Chip /\ d.channel = chip.channel /\ d.agrees = chip.agrees
      /\ d.expects = chip.expects /\ d.keys = chip.keys /\ d.session = chip.session
      /\ d.key = chip.key /\ d.peer = "mine"
  BY PeerWritten
<1>2. A \subseteq {Answer("ok", d), Answer("error", chip)}
  OBVIOUS
<1> HIDE DEF d
<1>3. /\ Answer("ok", d) \in AnswerType /\ Answer("ok", d).chip = d
      /\ Answer("error", chip) \in AnswerType /\ Answer("error", chip).chip = chip
      /\ Answer("error", chip).sw = "error"
  BY <1>1, AnswerTyped
<1> QED
  BY <1>1, <1>2, <1>3

\* What such a command leaves: the keys as they were, and, accepted, this call's peer.
LEMMA PeerStored ==
    ASSUME chip \in Chip,
           NEW A \in SUBSET {Answer("ok", [chip EXCEPT !.peer = "mine"]), Answer("error", chip)},
           NEW o \in InSession(A), Happened(o, scpOpen)
    PROVE  chip'.key = chip.key /\ (Accepted(o) => chip'.peer = "mine")
<1>1. /\ A \in SUBSET AnswerType
      /\ \A a \in A : a.chip \in Chip /\ a.chip.key = chip.key /\ (a.sw = "ok" => a.chip.peer = "mine")
  BY PeerAnswers DEF AnswerType
<1>2. /\ Accepted(o) => \E a \in A : a.sw = "ok" /\ o.chip = Took(a.chip)
      /\ SameStore(o.chip, chip) \/ \E a \in A : SameStore(o.chip, a.chip)
  BY <1>1, InSessionFacts
<1>3. chip' = o.chip
  BY DEF Happened
<1>4. chip'.key = chip.key
  BY <1>1, <1>2, <1>3 DEF SameStore
<1>5. ASSUME Accepted(o) PROVE chip'.peer = "mine"
  <2>1. PICK a \in A : a.sw = "ok" /\ o.chip = Took(a.chip)
    BY <1>2, <1>5
  <2>2. SameStore(Took(a.chip), a.chip)
    BY <1>1, TookFields
  <2> QED
    BY <1>1, <1>3, <2>1, <2>2 DEF SameStore
<1> QED
  BY <1>4, <1>5

LEMMA PeerCreateStep == ASSUME IInv, PeerCreate PROVE IInv'
<1> DEFINE A == {Answer("ok", [chip EXCEPT !.peer = "mine"]), Answer("error", chip)}
<1>1. PICK o \in InSession(A) :
         /\ Happened(o, scpOpen) /\ KeepOrClose(o)
         /\ \/ Accepted(o) /\ peerObjReady' = TRUE /\ Goto("agreePeer")
            \/ ~Accepted(o) /\ UNCHANGED peerObjReady /\ Fails
  BY DEF PeerCreate
<1>2. chip \in Chip /\ pc = "peerCreate"
      /\ UNCHANGED <<sessionIdGood, keySource, viaObject, left, disturbed>>
  BY DEF PeerCreate, IInv, TypeOK
<1>3. chip'.key = chip.key /\ (Accepted(o) => chip'.peer = "mine")
  BY <1>1, <1>2, PeerStored
<1>4. \A a \in A : /\ a \in AnswerType
                   /\ a.chip.channel = chip.channel /\ a.chip.agrees = chip.agrees
                   /\ a.chip.expects = chip.expects /\ a.chip.keys = chip.keys
                   /\ a.chip.session = chip.session
  BY <1>2, PeerAnswers
<1> HIDE DEF A
<1>5. /\ o \in OutcomeType
      /\ InChannel /\ o.sw \in {"ok", "error"} =>
           o.chip = Took(chip) \/ \E a \in A : o.chip = Took(a.chip)
      /\ SameStore(o.chip, chip) \/ \E a \in A : SameStore(o.chip, a.chip)
  BY <1>2, <1>4, InSessionFacts
<1>6. peerObjReady' \in BOOLEAN
  BY <1>1 DEF IInv, TypeOK
<1>7. /\ LinkTyped' /\ UNCHANGED environment /\ InStep' /\ troubles' \in Nat
      /\ chip'.keys = chip.keys
  BY <1>1, <1>2, <1>4, <1>5, <1>6, ChannelStep DEF IInv, TypeOK, KeepOrClose
<1>8. KeysKept' /\ (keySource' = "Otp" => chip'.keys = "Otp" \/ pc' = "init")
  BY <1>2, <1>3, <1>7 DEF IInv, StoreInv, KeysKept
<1>9. CASE Accepted(o) /\ Goto("agreePeer")
  <2>1. Flow /\ pc' = "agreePeer"
    BY <1>9, GotoFlow DEF IInv, Steps
  <2>2. job' = job /\ job.form = "object"
    BY <1>2, <1>9 DEF Goto, IInv, StepInv
  <2>3. StepInv'
    BY <1>3, <1>9, <2>1, <2>2 DEF StepInv
  <2> QED
    BY <1>2, <1>7, <1>8, <2>1, <2>3, Preserved
<1>10. CASE Fails
  BY <1>2, <1>7, <1>8, <1>10, FailsFlow, QuietStep, Preserved DEF IInv
<1> QED
  BY <1>1, <1>9, <1>10

LEMMA PeerUpdateStep == ASSUME IInv, PeerUpdate PROVE IInv'
<1> DEFINE A == {IF chip.peer = "none" THEN Answer("error", chip)
                 ELSE Answer("ok", [chip EXCEPT !.peer = "mine"])}
<1>1. PICK o \in InSession(A) :
         /\ Happened(o, scpOpen)
         /\ \/ Accepted(o) /\ KeepOrClose(o) /\ Goto("agreePeer") /\ UNCHANGED peerObjReady
            \/ ~Accepted(o) /\ peerObjReady' = FALSE /\ CloseAndRetry
  BY DEF PeerUpdate
<1>2. chip \in Chip /\ pc = "peerUpdate"
      /\ UNCHANGED <<sessionIdGood, keySource, viaObject, left, disturbed>>
  BY DEF PeerUpdate, IInv, TypeOK
<1>3. A \in SUBSET {Answer("ok", [chip EXCEPT !.peer = "mine"]), Answer("error", chip)}
  OBVIOUS
<1> HIDE DEF A
<1>4. chip'.key = chip.key /\ (Accepted(o) => chip'.peer = "mine")
  BY <1>1, <1>2, <1>3, PeerStored
<1>5. \A a \in A : /\ a \in AnswerType
                   /\ a.chip.channel = chip.channel /\ a.chip.agrees = chip.agrees
                   /\ a.chip.expects = chip.expects /\ a.chip.keys = chip.keys
                   /\ a.chip.session = chip.session
  BY <1>2, <1>3, PeerAnswers
<1>6. /\ o \in OutcomeType
      /\ InChannel /\ o.sw \in {"ok", "error"} =>
           o.chip = Took(chip) \/ \E a \in A : o.chip = Took(a.chip)
      /\ SameStore(o.chip, chip) \/ \E a \in A : SameStore(o.chip, a.chip)
  BY <1>2, <1>5, InSessionFacts
<1>7. peerObjReady' \in BOOLEAN
  BY <1>1 DEF IInv, TypeOK
<1>8. /\ LinkTyped' /\ UNCHANGED environment /\ InStep' /\ troubles' \in Nat
      /\ chip'.keys = chip.keys
  BY <1>1, <1>2, <1>5, <1>6, <1>7, ChannelStep DEF IInv, TypeOK, KeepOrClose,
        CloseAndRetry, CloseChannel
<1>9. KeysKept' /\ (keySource' = "Otp" => chip'.keys = "Otp" \/ pc' = "init")
  BY <1>2, <1>4, <1>8 DEF IInv, StoreInv, KeysKept
<1>10. CASE Accepted(o) /\ Goto("agreePeer")
  <2>1. Flow /\ pc' = "agreePeer"
    BY <1>10, GotoFlow DEF IInv, Steps
  <2>2. job' = job /\ job.form = "object"
    BY <1>2, <1>10 DEF Goto, IInv, StepInv
  <2>3. StepInv'
    BY <1>4, <1>10, <2>1, <2>2 DEF StepInv
  <2> QED
    BY <1>2, <1>8, <1>9, <2>1, <2>3, Preserved
<1>11. CASE CloseAndRetry
  BY <1>2, <1>8, <1>9, <1>11, RetryFlow, QuietStep, Preserved DEF IInv
<1> QED
  BY <1>1, <1>10, <1>11

LEMMA AgreePeerStep == ASSUME IInv, AgreePeer PROVE IInv'
<1> DEFINE A == {Answer(IF chip.key[job.key] = "absent" \/ chip.peer \in {"none", "empty"}
                        THEN "error" ELSE "ok", chip)}
<1>1. PICK o \in InSession(A) :
         /\ Happened(o, scpOpen)
         /\ \/ o.sw = "ok" /\ KeepOrClose(o) /\ Finish(TRUE) /\ UNCHANGED peerObjReady
            \/ o.sw = "damaged" /\ KeepOrClose(o) /\ Fails /\ UNCHANGED peerObjReady
            \/ ~Accepted(o) /\ peerObjReady' = FALSE /\ CloseAndRetry
  BY DEF AgreePeer
<1>2. \A a \in A : a \in AnswerType /\ a.chip = chip
  BY AnswerTyped DEF IInv, TypeOK
<1>3. pc = "agreePeer" /\ UNCHANGED <<sessionIdGood, keySource, viaObject, left, disturbed>>
  BY DEF AgreePeer
<1> HIDE DEF A
<1>4. /\ o \in OutcomeType
      /\ InChannel /\ o.sw \in {"ok", "error"} => o.chip = Took(chip)
      /\ SameStore(o.chip, chip)
  BY <1>2, InSessionFacts DEF IInv, TypeOK
<1>5. /\ scpOpen' \in {FALSE, scpOpen /\ ~Closing(o)}
      /\ sessionActive' \in {FALSE, sessionActive /\ ~Closing(o)}
      /\ peerObjReady' \in BOOLEAN
  BY <1>1 DEF IInv, TypeOK, KeepOrClose,
        CloseAndRetry, CloseChannel
<1>6. /\ LinkTyped' /\ UNCHANGED environment /\ InStep' /\ troubles' \in Nat
      /\ chip'.keys = chip.keys
  BY <1>1, <1>2, <1>3, <1>4, <1>5, ChannelStep DEF IInv, TypeOK
<1>7. Flow /\ pc' \in Quiet
  BY <1>1, <1>6, FinishFlow, FailsFlow, RetryFlow DEF IInv
<1>8. chip'.key = chip.key
  BY <1>1, <1>4 DEF Happened, SameStore
<1>9. KeysKept' /\ (keySource' = "Otp" => chip'.keys = "Otp" \/ pc' = "init")
  BY <1>3, <1>6, <1>8 DEF IInv, StoreInv, KeysKept
<1> QED
  BY <1>3, <1>6, <1>7, <1>9, QuietStep, Preserved

LEMMA PutKeyStep == ASSUME IInv, PutKey PROVE IInv'
<1> DEFINE A == {IF chip.selected = "ssd" THEN Answer("ok", [chip EXCEPT !.keys = "Otp"])
                 ELSE Answer("error", chip)}
<1>1. PICK o \in Secured(A) :
         /\ Happened(o, scpOpen)
         /\ \/ /\ o.sw = "ok" /\ CloseChannel
               /\ keySource' = "Otp"
               /\ pc' = "reset" /\ job' = [job EXCEPT !.op = "reopen"]
               /\ UNCHANGED <<agenda, cycled, verdicts, rotated>>
            \/ o.sw # "ok" /\ KeepOrClose(o) /\ Fails /\ UNCHANGED keySource
  BY DEF PutKey
<1>2. /\ chip \in Chip /\ pc = "putKey" /\ "Otp" \in Sources
      /\ UNCHANGED <<sessionIdGood, peerObjReady, viaObject, left, disturbed>>
  BY DEF PutKey, IInv, TypeOK, Sources, Rank
<1>3. job.op = "rotate" /\ "Otp" \in derivable
  BY <1>2 DEF IInv, StepInv, OperationInv
<1>4. \A a \in A : /\ a \in AnswerType
                   /\ a.chip.channel = chip.channel /\ a.chip.agrees = chip.agrees
                   /\ a.chip.expects = chip.expects /\ a.chip.session = chip.session
                   /\ a.chip.key = chip.key
                   /\ a.chip.keys \in {chip.keys, "Otp"} /\ (a.sw = "ok" => a.chip.keys = "Otp")
  <2> DEFINE d == [chip EXCEPT !.keys = "Otp"]
  <2>1. /\ d \in Chip /\ d.channel = chip.channel /\ d.agrees = chip.agrees
        /\ d.expects = chip.expects /\ d.session = chip.session /\ d.key = chip.key
        /\ d.keys = "Otp"
    BY <1>2 DEF Chip
  <2>2. A \subseteq {Answer("ok", d), Answer("error", chip)}
    OBVIOUS
  <2> HIDE DEF d, A
  <2>3. /\ Answer("ok", d) \in AnswerType /\ Answer("ok", d).chip = d
        /\ Answer("error", chip) \in AnswerType /\ Answer("error", chip).chip = chip
        /\ Answer("error", chip).sw = "error"
    BY <1>2, <2>1, AnswerTyped
  <2> QED
    BY <2>1, <2>2, <2>3
<1> HIDE DEF A
<1>5. /\ o \in OutcomeType
      /\ InChannel /\ o.sw \in {"ok", "error"} =>
           o.chip = Took(chip) \/ \E a \in A : o.chip = Took(a.chip)
      /\ SameStore(o.chip, chip) \/ \E a \in A : SameStore(o.chip, a.chip)
      /\ o.sw = "ok" => \E a \in A : a.sw = "ok" /\ o.chip = Took(a.chip)
  <2>1. A \in SUBSET AnswerType
    BY <1>4
  <2>2. o \in OutcomeType
    BY <1>2, <2>1, SecuredType
  <2>3. /\ Accepted(o) => \E a \in A : a.sw = "ok" /\ o.chip = Took(a.chip)
        /\ InChannel /\ o.sw \in {"ok", "error"} => \E a \in A : o.chip = Took(a.chip)
        /\ SameStore(o.chip, chip) \/ \E a \in A : SameStore(o.chip, a.chip)
    <3>1. o \in Secured(A)
      BY <1>1
    <3> QED
      BY <1>2, <2>1, <3>1, SecuredFacts, Zenon
  <2>4. o.sw = "ok" => Accepted(o)
    BY DEF Accepted
  <2> QED
    BY <2>2, <2>3, <2>4
<1>6. /\ scpOpen' \in {FALSE, scpOpen /\ ~Closing(o)}
      /\ sessionActive' \in {FALSE, sessionActive /\ ~Closing(o)}
      /\ keySource' \in Sources
  BY <1>1, <1>2 DEF IInv, TypeOK, KeepOrClose, CloseChannel
<1>7. LinkTyped' /\ UNCHANGED environment /\ InStep' /\ troubles' \in Nat
  <2>1. A \in SUBSET AnswerType
    BY <1>4
  <2>2. /\ TypeOK /\ InStep /\ Happened(o, scpOpen)
        /\ sessionIdGood' \in BOOLEAN /\ peerObjReady' \in BOOLEAN /\ viaObject' \in BOOLEAN
    BY <1>1, <1>2 DEF IInv, TypeOK
  <2> QED
    BY <1>2, <1>4, <1>5, <1>6, <2>1, <2>2, ChannelStep
<1>8. chip'.key = chip.key /\ chip'.keys \in {chip.keys, "Otp"}
  BY <1>1, <1>4, <1>5 DEF Happened, SameStore
<1>9. KeysKept'
  BY <1>8 DEF IInv, StoreInv, KeysKept
<1>10. CASE /\ o.sw = "ok" /\ pc' = "reset" /\ job' = [job EXCEPT !.op = "reopen"]
            /\ UNCHANGED <<agenda, cycled, verdicts, rotated>>
  <2>1. chip'.keys = "Otp"
    <3>1. PICK a \in A : a.sw = "ok" /\ o.chip = Took(a.chip)
      BY <1>5, <1>10
    <3>2. SameStore(Took(a.chip), a.chip) /\ a.chip.keys = "Otp"
      BY <1>4, <3>1, TookFields DEF AnswerType
    <3> QED
      BY <1>1, <3>1, <3>2 DEF Happened, SameStore
  <2>2. job' \in Job /\ job'.form = job.form /\ job'.op = "reopen" /\ job.form # "object"
    BY <1>3, <1>10 DEF IInv, TypeOK, OperationInv, Job
  <2>3. ProgramTyped'
    BY <1>10, <2>2 DEF ProgramTyped, IInv, TypeOK, verdicts, Steps
  <2>4. TypeOK'
    BY <1>7, <2>3 DEF IInv, ProgramTyped, LinkTyped, TypeOK, environment
  <2>5. OperationInv'
    BY <1>3, <1>7, <1>10, <2>1, <2>2 DEF IInv, OperationInv, environment
  <2>6. StoreInv'
    BY <1>3, <1>7, <1>9, <2>1 DEF StoreInv, KeysKnown, environment
  <2>7. StepInv'
    BY <1>10, <2>2 DEF StepInv
  <2> QED
    BY <1>7, <2>4, <2>5, <2>6, <2>7 DEF IInv
<1>11. CASE Fails /\ UNCHANGED keySource
  <2>1. keySource' = "Otp" => chip'.keys = "Otp"
    BY <1>2, <1>8, <1>11 DEF IInv, StoreInv
  <2> QED
    BY <1>3, <1>7, <1>8, <1>9, <1>11, <2>1, FailsFlow, QuietStep, Preserved DEF IInv
<1> QED
  BY <1>1, <1>10, <1>11

------------------------------------------------------------------------------
(* The session.                                                            *)

\* An operation goes on by the peer object only when it has that form.
LEMMA MainStepFlow ==
    ASSUME TypeOK, OperationInv
    PROVE  /\ MainStep \in Steps
           /\ \/ MainStep \in {"exists", "agree"}
              \/ MainStep \in {"peerExists", "peerUpdate"} /\ job.form = "object"
<1>1. CASE job.op = "ensure"
  BY <1>1 DEF MainStep, Steps
<1>2. CASE job.op # "ensure" /\ job.form = "object"
  BY <1>2 DEF MainStep, Steps
<1>3. CASE job.op # "ensure" /\ job.form # "object"
  BY <1>3 DEF MainStep, Steps
<1> QED
  BY <1>1, <1>2, <1>3

LEMMA EnsureSessionStep == ASSUME IInv, EnsureSession PROVE IInv'
<1>1. \/ sessionActive /\ pc' = MainStep
      \/ ~sessionActive /\ scpOpen /\ pc' = "setup"
      \/ ~sessionActive /\ ~scpOpen /\ pc' = "reset"
  BY DEF EnsureSession, IInv, TypeOK
<1>2. /\ UNCHANGED <<chip, link, keySource, peerObjReady, viaObject, job, agenda, left, verdicts,
                     rotated, environment, troubles, acts, disturbed>>
      /\ cycled' = FALSE /\ pc = "session"
  BY DEF EnsureSession
<1>3. pc' \in Steps
  BY <1>1, MainStepFlow DEF Steps, IInv
<1>4. Flow
  BY <1>2, <1>3 DEF Flow, ProgramTyped, IInv, TypeOK, OperationInv, verdicts
<1>5. StepInv'
  BY <1>1, <1>2, MainStepFlow DEF StepInv, IInv, link
<1>6. LinkTyped' /\ InStep'
  BY <1>2 DEF LinkTyped, InStep, IInv, TypeOK, link
<1>7. KeysKept' /\ chip'.keys = chip.keys /\ (keySource' = "Otp" => chip'.keys = "Otp")
  BY <1>2 DEF IInv, StoreInv, KeysKept
<1> QED
  BY <1>2, <1>4, <1>5, <1>6, <1>7, Preserved

LEMMA SetupStep == ASSUME IInv, Setup PROVE IInv'
<1> DEFINE A == {Answer("ok", chip)}
<1>1. PICK o \in InApplet(A) : /\ Happened(o, scpOpen) /\ KeepOrClose(o)
                               /\ \/ o.sw \in {"ok", "error"} /\ Goto("create")
                                  \/ o.sw \notin {"ok", "error"} /\ Fails
  BY DEF Setup
<1>2. \A a \in A : a \in AnswerType /\ a.chip = chip
  BY AnswerTyped DEF IInv, TypeOK
<1>3. /\ pc = "setup" /\ ~sessionActive
      /\ UNCHANGED <<sessionIdGood, keySource, peerObjReady, viaObject, left, disturbed>>
  BY DEF Setup, IInv, StepInv
<1> HIDE DEF A
<1>4. /\ o \in OutcomeType
      /\ InChannel /\ o.sw \in {"ok", "error"} => o.chip = Took(chip)
      /\ SameStore(o.chip, chip)
  BY <1>2, InAppletFacts DEF IInv, TypeOK
<1>5. /\ LinkTyped' /\ UNCHANGED environment /\ InStep' /\ troubles' \in Nat
      /\ chip'.keys = chip.keys
  BY <1>1, <1>2, <1>3, <1>4, ChannelStep DEF IInv, TypeOK, KeepOrClose
<1>6. chip'.key = chip.key
  BY <1>1, <1>4 DEF Happened, SameStore
<1>7. KeysKept' /\ (keySource' = "Otp" => chip'.keys = "Otp" \/ pc' = "init")
  BY <1>3, <1>5, <1>6 DEF IInv, StoreInv, KeysKept
<1>8. CASE Goto("create")
  <2>1. Flow /\ pc' = "create"
    BY <1>8, GotoFlow DEF IInv, Steps
  <2>2. StepInv'
    BY <1>1, <1>3, <2>1 DEF StepInv, KeepOrClose
  <2> QED
    BY <1>3, <1>5, <1>7, <2>1, <2>2, Preserved
<1>9. CASE Fails
  BY <1>3, <1>5, <1>7, <1>9, FailsFlow, QuietStep, Preserved DEF IInv
<1> QED
  BY <1>1, <1>8, <1>9

\* A session begun or opened on the chip.
LEMMA SessionSet ==
    ASSUME NEW c \in Chip, NEW s \in {"created", "open"}
    PROVE  LET d == [c EXCEPT !.session = s]
           IN  /\ d \in Chip /\ d.channel = c.channel /\ d.agrees = c.agrees
               /\ d.expects = c.expects /\ d.keys = c.keys /\ d.key = c.key /\ d.session = s
BY DEF Chip

LEMMA CreateSessionStep == ASSUME IInv, CreateSession PROVE IInv'
<1> DEFINE d == [chip EXCEPT !.session = "created"]
           A == {Answer("ok", d)}
<1>1. PICK o \in InApplet(A) :
         /\ Happened(o, scpOpen) /\ KeepOrClose(o)
         /\ \/ o.sw = "ok" /\ sessionIdGood' = TRUE /\ Goto("verify")
            \/ o.sw # "ok" /\ UNCHANGED sessionIdGood /\ Fails
  BY DEF CreateSession
<1>2. /\ chip \in Chip /\ pc = "create" /\ ~sessionActive
      /\ UNCHANGED <<keySource, peerObjReady, viaObject, left, disturbed>>
  BY DEF CreateSession, IInv, TypeOK, StepInv
<1>3. /\ d \in Chip /\ d.channel = chip.channel /\ d.agrees = chip.agrees
      /\ d.expects = chip.expects /\ d.keys = chip.keys /\ d.key = chip.key
  BY <1>2, SessionSet
<1> HIDE DEF d
<1>4. \A a \in A : a \in AnswerType /\ a.chip = d
  BY <1>3, AnswerTyped
<1> HIDE DEF A
<1>5. /\ o \in OutcomeType
      /\ InChannel /\ o.sw \in {"ok", "error"} =>
           o.chip = Took(chip) \/ \E a \in A : o.chip = Took(a.chip)
      /\ SameStore(o.chip, chip) \/ \E a \in A : SameStore(o.chip, a.chip)
  BY <1>2, <1>4, InAppletFacts
<1>6. sessionIdGood' \in BOOLEAN
  BY <1>1 DEF IInv, TypeOK
<1>7. /\ LinkTyped' /\ UNCHANGED environment /\ InStep' /\ troubles' \in Nat
      /\ chip'.keys = chip.keys
  BY <1>1, <1>2, <1>3, <1>4, <1>5, <1>6, ChannelStep DEF IInv, TypeOK, KeepOrClose
<1>8. chip'.key = chip.key
  BY <1>1, <1>3, <1>4, <1>5 DEF Happened, SameStore
<1>9. KeysKept' /\ (keySource' = "Otp" => chip'.keys = "Otp" \/ pc' = "init")
  BY <1>2, <1>7, <1>8 DEF IInv, StoreInv, KeysKept
<1>10. CASE Goto("verify")
  <2>1. Flow /\ pc' = "verify"
    BY <1>10, GotoFlow DEF IInv, Steps
  <2>2. StepInv'
    BY <1>1, <1>2, <2>1 DEF StepInv, KeepOrClose
  <2> QED
    BY <1>2, <1>7, <1>9, <2>1, <2>2, Preserved
<1>11. CASE Fails
  BY <1>2, <1>7, <1>9, <1>11, FailsFlow, QuietStep, Preserved DEF IInv
<1> QED
  BY <1>1, <1>10, <1>11

LEMMA VerifySessionStep == ASSUME IInv, VerifySession PROVE IInv'
<1> DEFINE d == [chip EXCEPT !.session = "open"]
           A == {IF chip.session = "created" /\ sessionIdGood THEN Answer("ok", d)
                 ELSE Answer("error", chip)}
<1>1. PICK o \in InApplet(A) :
         /\ Happened(o, scpOpen)
         /\ \/ /\ Accepted(o)
               /\ scpOpen' = (scpOpen /\ ~Closing(o)) /\ sessionActive' = TRUE
               /\ Goto(MainStep)
            \/ ~Accepted(o) /\ KeepOrClose(o) /\ Fails
  BY DEF VerifySession
<1>2. /\ chip \in Chip /\ pc = "verify" /\ ~sessionActive
      /\ UNCHANGED <<sessionIdGood, keySource, peerObjReady, viaObject, left, disturbed>>
  BY DEF VerifySession, IInv, TypeOK, StepInv
<1>3. /\ d \in Chip /\ d.channel = chip.channel /\ d.agrees = chip.agrees
      /\ d.expects = chip.expects /\ d.keys = chip.keys /\ d.key = chip.key /\ d.session = "open"
  BY <1>2, SessionSet
<1> HIDE DEF d
<1>4. \A a \in A : a \in AnswerType /\ a.chip \in {chip, d} /\ (a.sw = "ok" => a.chip = d)
  BY <1>2, <1>3, AnswerTyped
<1> HIDE DEF A
<1>5. /\ o \in OutcomeType
      /\ InChannel /\ o.sw \in {"ok", "error"} =>
           o.chip = Took(chip) \/ \E a \in A : o.chip = Took(a.chip)
      /\ SameStore(o.chip, chip) \/ \E a \in A : SameStore(o.chip, a.chip)
      /\ Accepted(o) => o.chip = Took(d)
  <2>1. A \in SUBSET AnswerType
    BY <1>4
  <2>2. /\ o \in OutcomeType
        /\ Accepted(o) => \E a \in A : a.sw = "ok" /\ o.chip = Took(a.chip)
        /\ InChannel /\ o.sw \in {"ok", "error"} =>
             o.chip = Took(chip) \/ \E a \in A : o.chip = Took(a.chip)
        /\ SameStore(o.chip, chip) \/ \E a \in A : SameStore(o.chip, a.chip)
    BY <1>2, <2>1, InAppletFacts
  <2>3. Accepted(o) => o.chip = Took(d)
    BY <1>4, <2>2
  <2> QED
    BY <2>2, <2>3
<1>6. chip'.key = chip.key /\ chip'.keys = chip.keys
  BY <1>1, <1>3, <1>4, <1>5 DEF Happened, SameStore
<1>7. KeysKept' /\ (keySource' = "Otp" => chip'.keys = "Otp" \/ pc' = "init")
  BY <1>2, <1>6 DEF IInv, StoreInv, KeysKept
<1>8. CASE /\ Accepted(o) /\ Goto(MainStep)
           /\ scpOpen' = (scpOpen /\ ~Closing(o)) /\ sessionActive' = TRUE
  <2>1. /\ LinkTyped' /\ UNCHANGED environment /\ chip' = o.chip
        /\ scpOpen' /\ ~disturbed' => chip'.channel = "open" /\ chip'.agrees /\ seq' = chip'.expects
    <3>1. /\ TypeOK /\ InStep /\ keySource' \in Sources
          /\ sessionIdGood' \in BOOLEAN /\ peerObjReady' \in BOOLEAN /\ viaObject' \in BOOLEAN
      BY <1>2 DEF IInv, TypeOK
    <3>2. /\ Happened(o, scpOpen) /\ A \in SUBSET AnswerType /\ o \in OutcomeType
          /\ scpOpen' \in {FALSE, scpOpen /\ ~Closing(o)} /\ sessionActive' \in BOOLEAN
      BY <1>1, <1>4, <1>5, <1>8
    <3>3. \A a \in A : /\ a.chip.channel = chip.channel /\ a.chip.agrees = chip.agrees
                       /\ a.chip.expects = chip.expects
      BY <1>3, <1>4
    <3> QED
      BY <1>2, <1>5, <3>1, <3>2, <3>3, ChannelKept
  <2>2. chip'.session = "open"
    BY <1>3, <1>5, <1>8, <2>1, TookFields
  <2>3. InStep'
    BY <2>1, <2>2 DEF InStep
  <2>4. Flow /\ pc' = MainStep /\ job' = job
    BY <1>8, MainStepFlow, GotoFlow DEF IInv, Goto
  <2>5. StepInv'
    BY <2>4, MainStepFlow DEF StepInv, IInv
  <2> QED
    BY <1>2, <1>6, <1>7, <2>1, <2>3, <2>4, <2>5, Preserved
<1>9. CASE KeepOrClose(o) /\ Fails
  <2>1. /\ LinkTyped' /\ UNCHANGED environment /\ InStep' /\ troubles' \in Nat
    BY <1>1, <1>2, <1>3, <1>4, <1>5, <1>9, ChannelStep DEF IInv, TypeOK, KeepOrClose
  <2> QED
    BY <1>2, <1>6, <1>7, <1>9, <2>1, FailsFlow, QuietStep, Preserved DEF IInv
<1> QED
  BY <1>1, <1>8, <1>9

------------------------------------------------------------------------------
(* Link and channel.                                                       *)

\* A reset leaves the keys, and at most the peer object's existence.
LEMMA FreshFields ==
    ASSUME NEW c \in Chip
    PROVE  /\ Fresh(c).keys = c.keys /\ Fresh(c).key = c.key
           /\ c.peer \in {"mine", "empty"} => Fresh(c).peer \in {"mine", "empty"}
           /\ PoweredUp(c).keys = c.keys /\ PoweredUp(c).key = c.key
<1>1. /\ Fresh(c).keys = c.keys /\ Fresh(c).key = c.key
      /\ Fresh(c).peer = IF c.peer = "none" THEN "none" ELSE "empty"
  BY DEF Fresh, Chip
<1>2. Fresh(c) \in Chip
  BY FreshType
<1>3. PoweredUp(c).keys = Fresh(c).keys /\ PoweredUp(c).key = Fresh(c).key
  BY <1>2 DEF PoweredUp, Chip
<1>4. c.peer \in {"mine", "empty"} => Fresh(c).peer \in {"mine", "empty"}
  BY <1>1
<1> QED
  BY <1>1, <1>3, <1>4

LEMMA ResetStep == ASSUME IInv, Reset PROVE IInv'
<1>1. /\ pc = "reset"
      /\ UNCHANGED <<scpOpen, sessionActive, sessionIdGood, keySource, peerObjReady, viaObject,
                     left, environment, troubles, acts>>
  BY DEF Reset
<1>2. chip \in Chip /\ Fresh(chip) \in Chip /\ PoweredUp(chip) \in Chip /\ troubles' \in Nat
  BY <1>1, FreshType, PoweredType DEF IInv, TypeOK
<1>3. CASE /\ chip' = Fresh(chip) /\ seq' = 0 /\ disturbed' = (disturbed \/ scpOpen)
           /\ Goto("select")
  <2>1. LinkTyped'
    BY <1>1, <1>2, <1>3 DEF LinkTyped, IInv, TypeOK
  <2>2. Flow /\ pc' = "select"
    BY <1>3, GotoFlow DEF IInv, Steps
  <2>3. StepInv'
    BY <1>1, <1>3, <2>2 DEF StepInv
  <2>4. InStep'
    BY <1>1, <1>3 DEF InStep
  <2>5. chip'.keys = chip.keys /\ chip'.key = chip.key
    BY <1>2, <1>3, FreshFields
  <2>6. KeysKept' /\ (keySource' = "Otp" => chip'.keys = "Otp")
    BY <1>1, <2>5 DEF IInv, StoreInv, KeysKept
  <2> QED
    BY <1>1, <2>1, <2>2, <2>3, <2>4, <2>5, <2>6, Preserved
<1>4. CASE MayCycle /\ chip' = PoweredUp(chip) /\ PowerCycling /\ UNCHANGED <<seq, disturbed>>
  <2>1. LinkTyped'
    BY <1>1, <1>2, <1>4 DEF LinkTyped, IInv, TypeOK
  <2>2. Flow /\ pc' = "reset"
    BY <1>4, PowerCyclingFlow DEF IInv
  <2>3. ~scpOpen \/ disturbed
    BY <1>1, <1>4 DEF MayCycle, IInv, StepInv
  <2>4. StepInv' /\ InStep'
    BY <1>1, <1>4, <2>2, <2>3 DEF StepInv, InStep
  <2>5. chip'.keys = chip.keys /\ chip'.key = chip.key
    BY <1>2, <1>4, FreshFields
  <2>6. KeysKept' /\ (keySource' = "Otp" => chip'.keys = "Otp")
    BY <1>1, <2>5 DEF IInv, StoreInv, KeysKept
  <2> QED
    BY <1>1, <2>1, <2>2, <2>4, <2>5, <2>6, Preserved
<1>5. CASE OpenFails /\ UNCHANGED <<chip, seq, disturbed>>
  <2>1. LinkTyped'
    BY <1>1, <1>5 DEF LinkTyped, IInv, TypeOK
  <2>2. Flow /\ pc' \in Quiet
    BY <1>2, <1>5, OpenFailsFlow DEF IInv
  <2>3. InStep' /\ KeysKept' /\ chip'.keys = chip.keys /\ (keySource' = "Otp" => chip'.keys = "Otp")
    BY <1>1, <1>5 DEF IInv, StoreInv, KeysKept, InStep
  <2> QED
    BY <1>1, <2>1, <2>2, <2>3, QuietStep, Preserved
<1> QED
  BY <1>3, <1>4, <1>5 DEF Reset

\* The key sets a board tries are key sets.
LEMMA KeySetsTyped ==
    ASSUME derivable \in Builds
    PROVE  KeySets \subseteq Sources /\ "Factory" \in Sources /\ "Otp" \in Sources
<1>1. Sources = {"Otp", "Bench", "Factory"}
  BY DEF Sources, Rank
<1>2. derivable \subseteq {"Otp", "Bench"}
  BY Se050Assumption
<1> QED
  BY <1>1, <1>2 DEF KeySets

LEMMA SelectStep == ASSUME IInv, Select PROVE IInv'
<1> DEFINE d == [chip EXCEPT !.selected = Target]
<1>1. PICK o \in Plain({Answer("ok", d)}) :
         \/ /\ o.sw = "ok" /\ Happened(o, TRUE) /\ left' = KeySets
            /\ Goto(IF job.op = "probe" THEN "info" ELSE "init")
         \/ /\ MayCycle /\ Happened([o EXCEPT !.chip = PoweredUp(@)], TRUE)
            /\ PowerCycling /\ UNCHANGED left
         \/ /\ Happened(o, TRUE) /\ OpenFails /\ UNCHANGED left
  BY DEF Select
<1>2. /\ pc = "select" /\ chip \in Chip /\ (~scpOpen \/ disturbed)
      /\ UNCHANGED <<scpOpen, sessionActive, sessionIdGood, keySource, peerObjReady, viaObject,
                     disturbed>>
  BY DEF Select, IInv, TypeOK, StepInv
<1>3. d \in Chip /\ d.keys = chip.keys /\ d.key = chip.key
  BY <1>2 DEF Target, Chip
<1> HIDE DEF d
<1>4. Answer("ok", d) \in AnswerType /\ Answer("ok", d).chip = d
  BY <1>3, AnswerTyped
<1>5. o \in OutcomeType /\ o.chip.keys = chip.keys /\ o.chip.key = chip.key
  BY <1>2, <1>3, <1>4, PlainFacts DEF SameStore
<1>6. o.chip \in Chip /\ o.cost \in {0, 1} /\ PoweredUp(o.chip) \in Chip
      /\ PoweredUp(o.chip).keys = chip.keys /\ PoweredUp(o.chip).key = chip.key
  BY <1>5, PoweredType, FreshFields DEF OutcomeType
<1>7. /\ [o EXCEPT !.chip = PoweredUp(@)].chip = PoweredUp(o.chip)
      /\ [o EXCEPT !.chip = PoweredUp(@)].cost = o.cost
  BY <1>5 DEF OutcomeType
<1>8. /\ chip' \in {o.chip, PoweredUp(o.chip)} /\ seq' = 1 - seq /\ troubles' = troubles + o.cost
      /\ UNCHANGED environment /\ acts' = acts
  BY <1>1, <1>7 DEF Happened
<1>9. left' \subseteq Sources
  BY <1>1, KeySetsTyped DEF IInv, TypeOK
<1>10. chip' \in Chip /\ seq' \in {0, 1} /\ troubles' \in Nat
  BY <1>6, <1>8 DEF IInv, TypeOK
<1>11. LinkTyped'
  BY <1>2, <1>8, <1>9, <1>10 DEF LinkTyped, IInv, TypeOK
<1>12. chip'.keys = chip.keys /\ chip'.key = chip.key
  BY <1>5, <1>6, <1>8
<1>13. InStep' /\ KeysKept' /\ (keySource' = "Otp" => chip'.keys = "Otp")
  BY <1>2, <1>12 DEF IInv, StoreInv, KeysKept, InStep
<1>14. CASE Goto(IF job.op = "probe" THEN "info" ELSE "init")
  <2>1. Flow /\ pc' \in {"info", "init"}
    BY <1>14, GotoFlow DEF IInv, Steps
  <2>2. StepInv'
    BY <1>2, <2>1 DEF StepInv
  <2> QED
    BY <1>8, <1>11, <1>12, <1>13, <2>1, <2>2, Preserved
<1>15. CASE PowerCycling
  <2>1. Flow /\ pc' = "reset"
    BY <1>15, PowerCyclingFlow DEF IInv
  <2>2. StepInv'
    BY <1>2, <2>1 DEF StepInv
  <2> QED
    BY <1>8, <1>11, <1>12, <1>13, <2>1, <2>2, Preserved
<1>16. CASE OpenFails
  BY <1>8, <1>10, <1>11, <1>12, <1>13, <1>16, OpenFailsFlow, QuietStep, Preserved DEF IInv
<1> QED
  BY <1>1, <1>14, <1>15, <1>16

LEMMA InfoStep == ASSUME IInv, Info PROVE IInv'
<1>1. /\ pc = "info" /\ chip \in Chip /\ (~scpOpen \/ disturbed) /\ Goto("init")
      /\ UNCHANGED <<link, keySource, peerObjReady, viaObject, left, environment, acts, disturbed>>
  BY DEF Info, IInv, TypeOK, StepInv
<1>2. chip' \in {chip, Took(chip)} /\ troubles' \in {troubles, troubles + 1}
  BY DEF Info
<1>3. chip' \in Chip /\ troubles' \in Nat /\ chip'.keys = chip.keys /\ chip'.key = chip.key
  BY <1>1, <1>2, TookType, TookFields DEF SameStore, IInv, TypeOK
<1>4. LinkTyped'
  BY <1>1, <1>3 DEF LinkTyped, IInv, TypeOK, link
<1>5. Flow /\ pc' = "init"
  BY <1>1, GotoFlow DEF IInv, Steps
<1>6. InStep' /\ KeysKept' /\ StepInv' /\ (keySource' = "Otp" => chip'.keys = "Otp")
  BY <1>1, <1>3, <1>5 DEF IInv, StoreInv, KeysKept, InStep, StepInv, link
<1> QED
  BY <1>1, <1>3, <1>4, <1>5, <1>6, Preserved

\* The key set tried is one of those left.
LEMMA TryingTyped ==
    ASSUME left \subseteq Sources, left # {}
    PROVE  Trying \in Sources
<1>1. Sources = {"Otp", "Bench", "Factory"} /\ Rank["Otp"] = 1 /\ Rank["Bench"] = 2 /\ Rank["Factory"] = 3
  BY DEF Sources, Rank
<1>2. \E s \in left : \A t \in left : Rank[s] <= Rank[t]
  <2>1. CASE "Otp" \in left
    BY <1>1, <2>1
  <2>2. CASE "Otp" \notin left /\ "Bench" \in left
    BY <1>1, <2>2
  <2>3. CASE left = {"Factory"}
    BY <1>1, <2>3
  <2> QED
    BY <1>1, <2>1, <2>2, <2>3
<1> QED
  BY <1>2 DEF Trying

\* Going on to the next key set, or giving up.
LEMMA NextKeySetStep ==
    ASSUME IInv, NextKeySet, troubles' \in Nat, chip'.keys = chip.keys, ~scpOpen'
    PROVE  /\ left' \subseteq Sources /\ keySource' \in Sources
           /\ Flow /\ StepInv' /\ (keySource' = "Otp" => chip'.keys = "Otp" \/ pc' = "init")
<1>1. left \subseteq Sources /\ left' = left \ {Trying}
  BY DEF NextKeySet, IInv, TypeOK
<1>2. CASE left' # {} /\ keySource' = Trying /\ Goto("init")
  <2>1. keySource' \in Sources
    BY <1>1, <1>2, TryingTyped
  <2>2. Flow /\ pc' = "init"
    BY <1>2, GotoFlow DEF IInv, Steps
  <2>3. StepInv'
    BY <2>2 DEF StepInv
  <2> QED
    BY <1>1, <2>1, <2>2, <2>3
<1>3. CASE Fails /\ keySource' = IF job.op = "reopen" THEN keySource ELSE "Factory"
  <2>1. keySource' \in Sources
    BY <1>3 DEF IInv, TypeOK, Sources, Rank
  <2>2. Flow /\ pc' \in Quiet
    BY <1>3, FailsFlow DEF IInv
  <2>3. keySource' = "Otp" => chip'.keys = "Otp"
    BY <1>3 DEF IInv, OperationInv
  <2> QED
    BY <1>1, <2>1, <2>2, <2>3, QuietStep
<1> QED
  BY <1>2, <1>3 DEF NextKeySet

LEMMA InitializeUpdateStep == ASSUME IInv, InitializeUpdate PROVE IInv'
<1> DEFINE d == [chip EXCEPT !.channel = "begun", !.session = "none"]
           A == {IF chip.selected = "none" THEN Answer("error", chip) ELSE Answer("ok", d)}
<1>1. PICK o \in Plain(A) :
         /\ Happened(o, TRUE)
         /\ \/ /\ o.sw = "ok" /\ chip.keys = Trying /\ keySource' = Trying
               /\ Goto("auth") /\ UNCHANGED left
            \/ NextKeySet
  BY DEF InitializeUpdate
<1>2. /\ chip \in Chip /\ scpOpen' = FALSE /\ sessionActive' = FALSE /\ disturbed' = FALSE
      /\ UNCHANGED <<sessionIdGood, peerObjReady, viaObject>>
  BY DEF InitializeUpdate, CloseChannel, IInv, TypeOK
<1>3. d \in Chip /\ d.keys = chip.keys /\ d.key = chip.key
  BY <1>2 DEF Chip
<1> HIDE DEF d
<1>4. \A a \in A : a \in AnswerType /\ a.chip.keys = chip.keys /\ a.chip.key = chip.key
  BY <1>2, <1>3, AnswerTyped
<1> HIDE DEF A
<1>5. o \in OutcomeType /\ o.chip.keys = chip.keys /\ o.chip.key = chip.key
  BY <1>2, <1>4, PlainFacts DEF SameStore
<1>6. /\ chip' = o.chip /\ chip' \in Chip /\ seq' \in {0, 1} /\ troubles' \in Nat /\ acts' \in Nat
      /\ UNCHANGED environment
  BY <1>1, <1>5 DEF Happened, OutcomeType, IInv, TypeOK
<1>7. InStep' /\ KeysKept' /\ chip'.keys = chip.keys
  BY <1>2, <1>5, <1>6 DEF IInv, StoreInv, KeysKept, InStep
<1>8. CASE /\ chip.keys = Trying /\ keySource' = Trying /\ Goto("auth") /\ UNCHANGED left
  <2>1. keySource' = chip'.keys /\ keySource' \in Sources /\ left' \subseteq Sources
    BY <1>6, <1>7, <1>8 DEF Chip, IInv, TypeOK
  <2>2. Flow /\ pc' = "auth"
    BY <1>8, GotoFlow DEF IInv, Steps
  <2>3. StepInv'
    BY <1>2, <2>1, <2>2 DEF StepInv
  <2>4. LinkTyped'
    BY <1>2, <1>6, <2>1 DEF LinkTyped, IInv, TypeOK
  <2> QED
    BY <1>6, <1>7, <2>1, <2>2, <2>3, <2>4, Preserved
<1>9. CASE NextKeySet
  <2>1. /\ left' \subseteq Sources /\ keySource' \in Sources
        /\ Flow /\ StepInv' /\ (keySource' = "Otp" => chip'.keys = "Otp" \/ pc' = "init")
    BY <1>2, <1>6, <1>7, <1>9, NextKeySetStep
  <2>2. LinkTyped'
    BY <1>2, <1>6, <2>1 DEF LinkTyped, IInv, TypeOK
  <2> QED
    BY <1>6, <1>7, <2>1, <2>2, Preserved
<1> QED
  BY <1>1, <1>8, <1>9

\* What an open channel is used for.
LEMMA ChannelOpenStep ==
    ASSUME IInv, ChannelOpen, troubles' \in Nat, UNCHANGED environment, chip'.keys = chip.keys,
           chip.keys = keySource, ~sessionActive'
    PROVE  ProgramTyped' /\ OperationInv' /\ StepInv' /\ pc' # "init"
<1> USE DEF IInv
<1>1. CASE job.op \in {"ensure", "use"} /\ Goto("setup")
  <2>1. Flow /\ pc' = "setup"
    BY <1>1, GotoFlow DEF Steps
  <2>2. StepInv'
    BY <2>1 DEF StepInv
  <2> QED
    BY <2>1, <2>2 DEF Flow, OperationInv, environment
<1>2. CASE NextJob(SelfTest \o AfterTest) /\ UNCHANGED <<verdicts, rotated>>
  <2>1. SelfTest \o AfterTest \in Seq(Errand) /\ cycled \in BOOLEAN
    BY AgendaTyped DEF TypeOK
  <2>2. /\ pc' \in {"idle", "session"} /\ job' \in Job /\ agenda' \in Seq(Errand)
        /\ cycled' \in BOOLEAN /\ job'.form = "bytes" /\ job'.op \in {"ensure", "use", "none"}
    BY <1>2, <2>1, NextJobFlow
  <2>3. pc' \in Steps /\ pc' \in Quiet
    BY <2>2 DEF Steps, Quiet
  <2>4. ProgramTyped'
    BY <1>2, <2>2, <2>3 DEF ProgramTyped, TypeOK, verdicts
  <2>5. OperationInv'
    BY <1>2, <2>2 DEF OperationInv
  <2> QED
    BY <2>2, <2>3, <2>4, <2>5, QuietStep
<1>3. CASE job.op = "rotate" /\ keySource = "Otp" /\ RotationEnds("done")
  <2>1. /\ ProgramTyped' /\ pc' \in Quiet /\ rotated' = "done"
        /\ job'.form = "bytes" /\ job'.op \notin {"rotate", "reopen"}
    BY <1>3, RotationEndsFlow
  <2>2. OperationInv'
    BY <1>3, <2>1 DEF OperationInv
  <2> QED
    BY <2>1, <2>2, QuietStep DEF Quiet
<1>4. CASE job.op = "rotate" /\ Goto("putKey")
  <2>1. Flow /\ pc' = "putKey" /\ job' = job
    BY <1>4, GotoFlow DEF Steps, Goto
  <2>2. StepInv'
    BY <1>4, <2>1 DEF StepInv
  <2> QED
    BY <2>1, <2>2 DEF Flow, OperationInv, environment
<1>5. CASE /\ job.op = "reopen" /\ NextJob(<<Work("ensure", ExchangeKey, "loop")>>)
           /\ rotated' = "done" /\ UNCHANGED verdicts
  <2>1. <<Work("ensure", ExchangeKey, "loop")>> \in Seq(Errand) /\ cycled \in BOOLEAN
    BY WorkTyped DEF TypeOK, Keys
  <2>2. /\ pc' \in {"idle", "session"} /\ job' \in Job /\ agenda' \in Seq(Errand)
        /\ cycled' \in BOOLEAN /\ job'.form = "bytes" /\ job'.op \in {"ensure", "use", "none"}
    BY <1>5, <2>1, NextJobFlow
  <2>3. pc' \in Steps /\ pc' \in Quiet
    BY <2>2 DEF Steps, Quiet
  <2>4. ProgramTyped'
    BY <1>5, <2>2, <2>3 DEF ProgramTyped, TypeOK, verdicts
  <2>5. OperationInv'
    BY <1>5, <2>2 DEF OperationInv
  <2> QED
    BY <2>2, <2>3, <2>4, <2>5, QuietStep
<1> QED
  BY <1>1, <1>2, <1>3, <1>4, <1>5 DEF ChannelOpen

LEMMA ExternalAuthenticateStep == ASSUME IInv, ExternalAuthenticate PROVE IInv'
<1> DEFINE d == [chip EXCEPT !.channel = "open", !.agrees = TRUE]
           A == {IF chip.channel = "begun" THEN Answer("ok", d) ELSE Answer("error", chip)}
<1>1. PICK o \in Plain(A) :
         /\ Happened(o, TRUE)
         /\ \/ o.sw = "ok" /\ scpOpen' = TRUE /\ ChannelOpen /\ UNCHANGED <<left, keySource>>
            \/ o.sw # "ok" /\ NextKeySet /\ UNCHANGED scpOpen
  BY DEF ExternalAuthenticate
<1>2. /\ chip \in Chip /\ ~scpOpen /\ ~sessionActive /\ chip.keys = keySource
      /\ UNCHANGED <<sessionActive, sessionIdGood, peerObjReady, viaObject, disturbed>>
  BY DEF ExternalAuthenticate, IInv, TypeOK, StepInv
<1>3. /\ d \in Chip /\ d.keys = chip.keys /\ d.key = chip.key
      /\ d.channel = "open" /\ d.agrees /\ d.expects = chip.expects
  BY <1>2 DEF Chip
<1> HIDE DEF d
<1>4. \A a \in A : /\ a \in AnswerType /\ a.chip.keys = chip.keys /\ a.chip.key = chip.key
                   /\ a.sw = "ok" => a.chip = d
  BY <1>2, <1>3, AnswerTyped
<1> HIDE DEF A
<1>5. /\ o \in OutcomeType /\ o.chip.keys = chip.keys /\ o.chip.key = chip.key
      /\ o.sw = "ok" => Heard /\ o.chip = Took(d)
  BY <1>2, <1>4, PlainFacts DEF SameStore
<1>6. /\ chip' = o.chip /\ chip' \in Chip /\ seq' = 1 - seq /\ seq' \in {0, 1} /\ troubles' \in Nat
      /\ acts' \in Nat /\ UNCHANGED environment
  BY <1>1, <1>5 DEF Happened, OutcomeType, IInv, TypeOK
<1>7. KeysKept' /\ chip'.keys = chip.keys
  BY <1>5, <1>6 DEF IInv, StoreInv, KeysKept
<1>8. CASE o.sw = "ok" /\ scpOpen' = TRUE /\ ChannelOpen /\ UNCHANGED <<left, keySource>>
  <2>1. chip' = Took(d) /\ seq = chip.expects
    BY <1>5, <1>6, <1>8 DEF Heard
  <2>2. chip'.channel = "open" /\ chip'.agrees /\ chip'.expects = 1 - chip.expects
    BY <1>3, <2>1, TookFields
  <2>3. InStep'
    BY <1>2, <1>6, <2>1, <2>2 DEF InStep
  <2>4. ProgramTyped' /\ OperationInv' /\ StepInv' /\ pc' # "init"
    BY <1>2, <1>6, <1>7, <1>8, ChannelOpenStep
  <2>5. LinkTyped'
    BY <1>2, <1>6, <1>8 DEF LinkTyped, IInv, TypeOK
  <2>6. keySource' = "Otp" => chip'.keys = "Otp"
    BY <1>2, <1>7, <1>8
  <2> QED
    BY <1>6, <1>7, <2>3, <2>4, <2>5, <2>6, Kept
<1>9. CASE NextKeySet /\ UNCHANGED scpOpen
  <2>1. /\ left' \subseteq Sources /\ keySource' \in Sources
        /\ Flow /\ StepInv' /\ (keySource' = "Otp" => chip'.keys = "Otp" \/ pc' = "init")
    BY <1>2, <1>6, <1>7, <1>9, NextKeySetStep
  <2>2. LinkTyped'
    BY <1>2, <1>6, <1>9, <2>1 DEF LinkTyped, IInv, TypeOK
  <2>3. InStep'
    BY <1>2, <1>9 DEF InStep
  <2> QED
    BY <1>6, <1>7, <2>1, <2>2, <2>3, Preserved
<1> QED
  BY <1>1, <1>8, <1>9

------------------------------------------------------------------------------
(* Requests and surroundings.                                              *)

LEMMA UseKeyStep == ASSUME IInv, NEW k \in Keys, UseKey(k) PROVE IInv'
<1> DEFINE w == Work("use", k, "loop")
           f == IF k = ExchangeKey /\ viaObject THEN "object" ELSE "bytes"
<1>1. /\ pc = "idle" /\ job' = [w EXCEPT !.form = f] /\ pc' = "session"
      /\ chip' = [chip EXCEPT !.peer = IF k = ExchangeKey /\ @ = "mine" THEN "other" ELSE @]
      /\ UNCHANGED <<link, keySource, peerObjReady, viaObject, agenda, cycled, left, verdicts,
                     rotated, environment, troubles, acts, disturbed>>
  BY DEF UseKey
<1>2. w \in Job /\ w.op = "use" /\ f \in {"object", "bytes"}
  BY WorkTyped
<1>3. w.why = "loop"
  BY DEF Work
<1> HIDE DEF w, f
<1>4. job' \in Job /\ job'.op = "use" /\ job'.why = "loop"
  BY <1>1, <1>2, <1>3 DEF Job
<1>5. pc' \in Steps /\ pc' \in Quiet
  BY <1>1 DEF Steps, Quiet
<1>6. Flow
  BY <1>1, <1>4, <1>5 DEF Flow, ProgramTyped, IInv, TypeOK, verdicts
<1>7. chip \in Chip
  BY DEF IInv, TypeOK
<1>8. PICK p \in {"none", "empty", "other", "mine"} : chip' = [chip EXCEPT !.peer = p]
  <2>1. chip.peer \in {"none", "empty", "other", "mine"}
    BY <1>7 DEF Chip
  <2> QED
    BY <1>1, <2>1
<1>9. /\ chip' \in Chip /\ chip'.keys = chip.keys /\ chip'.key = chip.key
      /\ chip'.channel = chip.channel /\ chip'.agrees = chip.agrees
      /\ chip'.expects = chip.expects /\ chip'.session = chip.session
  BY <1>7, <1>8 DEF Chip
<1>10. LinkTyped' /\ InStep'
  BY <1>1, <1>9 DEF LinkTyped, InStep, IInv, TypeOK, link
<1>11. KeysKept' /\ (keySource' = "Otp" => chip'.keys = "Otp")
  BY <1>1, <1>9 DEF IInv, StoreInv, KeysKept
<1> QED
  BY <1>1, <1>5, <1>6, <1>9, <1>10, <1>11, QuietStep, Preserved

LEMMA ReprobeStep == ASSUME IInv, Reprobe PROVE IInv'
<1>1. /\ pc = "idle" /\ pc' = "reset" /\ job' = Work("probe", ExchangeKey, "test")
      /\ UNCHANGED <<chip, seq, scpOpen, sessionActive, sessionIdGood, keySource, agenda, cycled,
                     left, verdicts, rotated, environment, troubles, disturbed>>
      /\ acts' = acts + 1 /\ viaObject' = ViaObject /\ peerObjReady' = FALSE
  BY DEF Reprobe, Command
<1>2. job' \in Job /\ job'.op = "probe" /\ job'.form = "bytes" /\ pc' \in Steps
  BY <1>1, WorkTyped DEF Keys, Steps
<1>3. Flow
  BY <1>1, <1>2 DEF Flow, ProgramTyped, IInv, TypeOK, verdicts
<1>4. LinkTyped' /\ InStep'
  <2>1. acts' \in Nat /\ viaObject' \in BOOLEAN /\ peerObjReady' \in BOOLEAN
    <3>1. acts' \in Nat
      BY <1>1 DEF IInv, TypeOK
    <3> QED
      BY <1>1, <3>1, Se050Assumption
  <2>2. LinkTyped'
    BY <1>1, <2>1 DEF LinkTyped, IInv, TypeOK
  <2>3. InStep'
    BY <1>1 DEF InStep, IInv
  <2> QED
    BY <2>2, <2>3
<1>5. StepInv'
  BY <1>1, <1>2 DEF StepInv
<1>6. KeysKept' /\ (keySource' = "Otp" => chip'.keys = "Otp")
  BY <1>1 DEF IInv, StoreInv, KeysKept
<1> QED
  BY <1>1, <1>3, <1>4, <1>5, <1>6, Preserved

LEMMA RotateStep == ASSUME IInv, Rotate PROVE IInv'
<1>1. /\ pc = "idle" /\ acts' = acts + 1
      /\ UNCHANGED <<chip, seq, sessionIdGood, keySource, agenda, cycled, left, verdicts,
                     environment, troubles, disturbed, peerObjReady, viaObject>>
  BY DEF Rotate, Command
<1>2. KeysKept' /\ (keySource' = "Otp" => chip'.keys = "Otp")
  BY <1>1 DEF IInv, StoreInv, KeysKept
<1>3. CASE /\ rotated' = IF keySource = "Otp" THEN "done" ELSE "failed"
           /\ UNCHANGED <<pc, job, scpOpen, sessionActive>>
  <2>1. LinkTyped' /\ InStep'
    BY <1>1, <1>3 DEF LinkTyped, InStep, IInv, TypeOK
  <2>2. ProgramTyped'
    BY <1>1, <1>3 DEF ProgramTyped, IInv, TypeOK, verdicts
  <2>3. rotated' = "done" => chip'.keys = "Otp"
    BY <1>1, <1>2, <1>3
  <2>4. OperationInv'
    BY <1>1, <1>3, <2>3 DEF IInv, OperationInv, environment
  <2>5. StepInv'
    BY <1>1, <1>3, QuietStep DEF Quiet
  <2> QED
    BY <1>1, <1>2, <2>1, <2>2, <2>4, <2>5, Kept
<1>4. CASE /\ "Otp" \in derivable /\ scpOpen' = FALSE /\ sessionActive' = FALSE
           /\ pc' = "reset" /\ job' = Work("rotate", ExchangeKey, "loop")
           /\ UNCHANGED rotated
  <2>1. LinkTyped' /\ InStep'
    <3>1. acts' \in Nat
      BY <1>1 DEF IInv, TypeOK
    <3>2. LinkTyped'
      BY <1>1, <1>4, <3>1 DEF LinkTyped, IInv, TypeOK
    <3>3. InStep'
      BY <1>4 DEF InStep
    <3> QED
      BY <3>2, <3>3
  <2>2. job' \in Job /\ job'.op = "rotate" /\ job'.form = "bytes" /\ pc' \in Steps
    BY <1>4, WorkTyped DEF Keys, Steps
  <2>3. ProgramTyped'
    BY <1>1, <1>4, <2>2 DEF ProgramTyped, IInv, TypeOK, verdicts
  <2>4. OperationInv'
    BY <1>1, <1>4, <2>2 DEF IInv, OperationInv, environment
  <2>5. StepInv'
    BY <1>4 DEF StepInv
  <2> QED
    BY <1>1, <1>2, <2>1, <2>3, <2>4, <2>5, Kept
<1> QED
  BY <1>3, <1>4 DEF Rotate, CloseChannel

\* Trouble leaves the program alone, and an open channel disturbed.
LEMMA TroubleStep ==
    ASSUME IInv, NEW kind, Trouble(kind), chip' \in Chip, sessionIdGood' \in BOOLEAN,
           chip'.keys = chip.keys, chip'.key = chip.key,
           chip.peer \in {"mine", "empty"} => chip'.peer \in {"mine", "empty"}
    PROVE  IInv'
<1>1. /\ troubles' = troubles + 1 /\ disturbed' = (disturbed \/ scpOpen)
      /\ UNCHANGED <<seq, scpOpen, sessionActive, keySource, peerObjReady, viaObject, program, left,
                     verdicts, rotated, environment, acts>>
  BY DEF Trouble
<1>2. LinkTyped'
  BY <1>1 DEF LinkTyped, IInv, TypeOK
<1>3. InStep'
  BY <1>1 DEF InStep
<1>4. Flow
  BY <1>1 DEF Flow, ProgramTyped, IInv, TypeOK, OperationInv, verdicts, program
<1>5. StepInv'
  <2>1. pc' = pc /\ job' = job /\ (~scpOpen \/ disturbed => ~scpOpen' \/ disturbed')
    BY <1>1 DEF program
  <2> QED
    BY <1>1, <2>1 DEF StepInv, IInv
<1>6. KeysKept' /\ (keySource' = "Otp" => chip'.keys = "Otp" \/ pc' = "init")
  BY <1>1 DEF IInv, StoreInv, KeysKept, program
<1> QED
  BY <1>1, <1>2, <1>3, <1>4, <1>5, <1>6, Preserved

LEMMA SurroundingsStep ==
    ASSUME IInv, ChipResets \/ ChipSilent \/ FaultInject
    PROVE  IInv'
<1>1. chip \in Chip /\ sessionIdGood \in BOOLEAN
  BY DEF IInv, TypeOK
<1>2. CASE ChipResets
  <2>1. PICK kind \in FaultKinds : Trouble(kind)
    BY <1>2 DEF ChipResets, FaultKinds
  <2> QED
    BY <1>1, <1>2, <2>1, FreshType, FreshFields, TroubleStep DEF ChipResets
<1>3. CASE ChipSilent
  <2>1. /\ chip' = [chip EXCEPT !.up = FALSE] /\ Trouble("silent") /\ UNCHANGED sessionIdGood
    BY <1>3 DEF ChipSilent
  <2>2. chip' \in Chip /\ chip'.keys = chip.keys /\ chip'.key = chip.key /\ chip'.peer = chip.peer
    BY <1>1, <2>1 DEF Chip
  <2> QED
    BY <1>1, <2>1, <2>2, TroubleStep
<1>4. CASE FaultInject
  <2>1. chip' \in {chip, [chip EXCEPT !.agrees = FALSE]} /\ Trouble("inject")
    BY <1>4 DEF FaultInject
  <2>2. sessionIdGood' \in BOOLEAN
    BY <1>1, <1>4 DEF FaultInject
  <2>3. SameStore(chip', chip) /\ chip' \in Chip
    BY <1>1, <2>1, TookFields, AheadType
  <2> QED
    BY <2>1, <2>2, <2>3, TroubleStep DEF SameStore
<1> QED
  BY <1>2, <1>3, <1>4

LEMMA RestartStep == ASSUME IInv, Restart PROVE IInv'
<1>1. /\ acts' = acts + 1 /\ seq' = 0 /\ scpOpen' = FALSE /\ sessionActive' = FALSE
      /\ sessionIdGood' = FALSE /\ keySource' = "Factory" /\ peerObjReady' = FALSE
      /\ viaObject' = ViaObject /\ pc' = "reset" /\ job' = Work("probe", ExchangeKey, "test")
      /\ agenda' = << >> /\ left' = {} /\ cycled' = FALSE
      /\ identity' = "none" /\ result' = "none" /\ rotated' = "none"
      /\ chip' = (IF PowerCycle THEN PoweredUp(chip) ELSE chip)
      /\ disturbed' = FALSE
      /\ UNCHANGED <<first, service, environment, troubles>>
  BY DEF Restart
<1>2. chip' \in Chip /\ chip'.keys = chip.keys /\ chip'.key = chip.key
  BY <1>1, PoweredType, FreshFields DEF IInv, TypeOK
<1>3. job' \in Job /\ job'.op = "probe" /\ job'.form = "bytes" /\ pc' \in Steps
  BY <1>1, WorkTyped DEF Keys, Steps
<1>4. agenda' \in Seq(Errand)
  BY <1>1
<1>5. Flow
  BY <1>1, <1>3, <1>4 DEF Flow, ProgramTyped, IInv, TypeOK
<1>6. LinkTyped'
  <2>1. acts' \in Nat /\ seq' \in {0, 1} /\ left' \subseteq Sources /\ keySource' \in Sources
    BY <1>1 DEF IInv, TypeOK, Sources, Rank
  <2>2. /\ scpOpen' \in BOOLEAN /\ sessionActive' \in BOOLEAN /\ sessionIdGood' \in BOOLEAN
        /\ peerObjReady' \in BOOLEAN /\ viaObject' \in BOOLEAN /\ disturbed' \in BOOLEAN
    BY <1>1, Se050Assumption
  <2> QED
    BY <1>1, <1>2, <2>1, <2>2 DEF LinkTyped, IInv, TypeOK
<1>7. StepInv' /\ InStep'
  BY <1>1, <1>3 DEF StepInv, InStep
<1>8. KeysKept' /\ (keySource' = "Otp" => chip'.keys = "Otp")
  BY <1>1, <1>2 DEF IInv, StoreInv, KeysKept
<1> QED
  BY <1>1, <1>2, <1>5, <1>6, <1>7, <1>8, Preserved

LEMMA StutterStep == ASSUME IInv, UNCHANGED vars PROVE IInv'
BY DEF IInv, TypeOK, OperationInv, StepInv, StoreInv, InStep, KeysKept, KeysKnown,
       vars, link, program, verdicts, environment

------------------------------------------------------------------------------
(* Theorems.                                                               *)

\* The invariant holds at power-up.
LEMMA InitInv == Init => IInv
<1> SUFFICES ASSUME Init PROVE IInv
  OBVIOUS
<1>1. derivable \in Builds /\ faults \in Environments /\ derivable \subseteq {"Otp", "Bench"}
  BY Se050Assumption DEF Init
<1>2. PICK s \in derivable \cup {"Factory"} :
         chip = [up |-> TRUE, expects |-> 0, selected |-> "none", channel |-> "none",
                 agrees |-> TRUE, session |-> "none", keys |-> s,
                 key |-> [k \in Keys |-> "absent"], peer |-> "none"]
  BY DEF Init
<1>3. s \in Sources /\ "Factory" \in Sources
  BY <1>1 DEF Sources, Rank
<1>4. chip \in Chip /\ chip.keys = s /\ \A k \in Keys : chip.key[k] = "absent"
  BY <1>2, <1>3 DEF Chip
<1>5. job \in Job /\ job.op = "probe" /\ job.form = "bytes"
  BY WorkTyped DEF Init, Keys
<1>6. agenda \in Seq(Errand)
  BY DEF Init
<1>7. TypeOK
  BY <1>1, <1>3, <1>4, <1>5, <1>6, Se050Assumption DEF Init, TypeOK, Steps
<1>8. OperationInv /\ StepInv /\ InStep
  BY <1>5 DEF Init, OperationInv, StepInv, InStep
<1>9. StoreInv
  BY <1>4 DEF Init, StoreInv, KeysKept, KeysKnown
<1> QED
  BY <1>7, <1>8, <1>9 DEF IInv

\* Every step preserves it.
LEMMA Inductive == IInv /\ [Next]_vars => IInv'
<1> SUFFICES ASSUME IInv, [Next]_vars PROVE IInv'
  OBVIOUS
<1>1. CASE OpenStep
  BY <1>1, ResetStep, SelectStep, InfoStep, InitializeUpdateStep, ExternalAuthenticateStep DEF OpenStep
<1>2. CASE SessionStep
  BY <1>2, EnsureSessionStep, SetupStep, CreateSessionStep, VerifySessionStep DEF SessionStep
<1>3. CASE KeyStep
  BY <1>3, ExistsStep, GenerateStep, ReadPublicStep, AgreeStep, PutKeyStep DEF KeyStep
<1>4. CASE PeerStep
  BY <1>4, PeerExistsStep, PeerCreateStep, PeerUpdateStep, AgreePeerStep DEF PeerStep
<1>5. CASE Requests
  BY <1>5, UseKeyStep, ReprobeStep, RotateStep DEF Requests
<1>6. CASE Surroundings
  BY <1>6, SurroundingsStep, RestartStep, StutterStep DEF Surroundings, Rest
<1>7. CASE UNCHANGED vars
  BY <1>7, StutterStep
<1> QED
  BY <1>1, <1>2, <1>3, <1>4, <1>5, <1>6, <1>7 DEF Next, DriverStep

LEMMA Invariance == Spec => []IInv
BY InitInv, Inductive, PTL DEF Spec

\* Every variable keeps its type: chip, link, channel, operation and verdicts.
THEOREM TypeCorrect == Spec => []TypeOK
<1>1. IInv => TypeOK
  BY DEF IInv
<1> QED
  BY <1>1, Invariance, PTL

\* A channel the driver takes for open is in step with the chip's, whatever frames got lost
\* (secureApdu(), tryOpenChannel()).
THEOREM ChannelInStep == Spec => []InStep
<1>1. IInv => InStep
  BY DEF IInv
<1> QED
  BY <1>1, Invariance, PTL

\* keyEnsure() never generates over a key.
THEOREM KeysSafe == Spec => []KeysKept
<1>1. IInv => KeysKept
  BY DEF IInv, StoreInv
<1> QED
  BY <1>1, Invariance, PTL

\* Whatever becomes of a rotation, openSecureChannel(), or tryOpenChannel() with the new keys
\* after PUT KEY, goes on to try the key set the chip answers to.
THEOREM ChipSafe == Spec => []ChipOpens
<1>1. IInv => ChipOpens
  BY DEF IInv, StoreInv, KeysKnown, OperationInv, ChipOpens, KeySets
<1> QED
  BY <1>1, Invariance, PTL

\* rotatePlatformKeys() reports success, and the driver believes in the OTP keys, only when
\* the chip has them.
THEOREM RotationSafe == Spec => []RotationTruthful
<1>1. IInv => RotationTruthful
  BY DEF IInv, StoreInv, OperationInv, RotationTruthful
<1> QED
  BY <1>1, Invariance, PTL

------------------------------------------------------------------------------
(* The plan of a boot.                                                     *)

\* A key object that is there.
Present(c, k) == c.key[k] # "absent"

\* The exchanges that bring up the link and the channel, those that open a session, and
\* those of the operation itself.
Opening == {"reset", "select", "info", "init", "auth"}
Establishing == {"setup", "create", "verify"}
Serving == {"exists", "generate", "read", "agree", "peerExists", "peerCreate", "peerUpdate",
            "agreePeer"}

\* What setup() has left to do: the identity's two keys come last, the exchange key first.
IdentityErrand(k) == Work("ensure", k, "identity")
WellPlanned(s) ==
    \A i \in 1..Len(s) :
        /\ s[i].why # "loop"
        /\ s[i].why = "identity" =>
             \/ /\ s[i] = IdentityErrand(ExchangeKey)
                /\ Len(s) = i + 1 /\ s[i + 1] = IdentityErrand(SigningKey)
             \/ s[i] = IdentityErrand(SigningKey) /\ i > 1 /\ s[i - 1] = IdentityErrand(ExchangeKey)

\* What may come next: an errand of the plan, or nothing.
NextErrand(list) ==
    list # << >> =>
        /\ Head(list).why # "loop"
        /\ Head(list).why = "test" => WellPlanned(Tail(list))
        /\ Head(list).why = "identity" =>
             \/ Head(list).key = ExchangeKey /\ Tail(list) = <<IdentityErrand(SigningKey)>>
             \/ Head(list).key = SigningKey /\ Tail(list) = << >> /\ Present(chip', ExchangeKey)

LEMMA ErrandFields ==
    ASSUME NEW k \in Keys
    PROVE  /\ IdentityErrand(k).why = "identity" /\ IdentityErrand(k).key = k
           /\ IdentityErrand(k).op = "ensure" /\ IdentityErrand(k) \in Errand
BY DEF IdentityErrand, Work, Errand

LEMMA OneElement ==
    ASSUME NEW s \in Seq(Errand), Len(s) = 1
    PROVE  s = <<s[1]>>
OBVIOUS

\* A plan goes on with its first errand.
LEMMA PlanGoesOn ==
    ASSUME NEW s \in Seq(Errand), WellPlanned(s)
    PROVE  NextErrand(s)
<1> SUFFICES ASSUME s # << >> PROVE NextErrand(s)
  BY DEF NextErrand
<1>1. Len(s) \in Nat /\ Len(s) >= 1 /\ Head(s) = s[1] /\ 1 \in 1..Len(s)
  OBVIOUS
<1>2. /\ Tail(s) \in Seq(Errand) /\ Len(Tail(s)) = Len(s) - 1
      /\ \A i \in 1..Len(Tail(s)) : Tail(s)[i] = s[i + 1]
  BY <1>1
<1>3. s[1].why # "loop"
  BY <1>1 DEF WellPlanned
<1>4. s[1].why = "identity" =>
        /\ s[1] = IdentityErrand(ExchangeKey)
        /\ Len(s) = 2 /\ s[2] = IdentityErrand(SigningKey)
  <2>1. s[1].why = "identity" =>
          \/ /\ s[1] = IdentityErrand(ExchangeKey)
             /\ Len(s) = 1 + 1 /\ s[1 + 1] = IdentityErrand(SigningKey)
          \/ 1 > 1
    BY <1>1, Zenon DEF WellPlanned
  <2>2. 1 + 1 = 2 /\ ~(1 > 1)
    OBVIOUS
  <2> QED
    BY <2>1, <2>2, Zenon
<1>5. ASSUME s[1].why = "identity"
      PROVE  Head(s).key = ExchangeKey /\ Tail(s) = <<IdentityErrand(SigningKey)>>
  <2>1. Head(s).key = ExchangeKey
    BY <1>1, <1>4, <1>5, ErrandFields DEF Keys
  <2>2. Len(Tail(s)) = 1 /\ Tail(s)[1] = IdentityErrand(SigningKey)
    <3>1. Len(s) = 2 /\ s[2] = IdentityErrand(SigningKey)
      BY <1>4, <1>5
    <3>2. Len(Tail(s)) = 1
      BY <1>2, <3>1
    <3>3. Tail(s)[1] = s[2]
      BY <1>2, <3>2
    <3> QED
      BY <3>1, <3>2, <3>3
  <2>3. IdentityErrand(SigningKey) \in Errand
    BY ErrandFields DEF Keys
  <2> HIDE DEF IdentityErrand
  <2>4. Tail(s) = <<IdentityErrand(SigningKey)>>
    BY <1>2, <2>2, <2>3, OneElement
  <2> QED
    BY <2>1, <2>4
<1>6. ASSUME s[1].why = "test" PROVE WellPlanned(Tail(s))
  <2> SUFFICES ASSUME NEW i \in 1..Len(Tail(s))
               PROVE  /\ Tail(s)[i].why # "loop"
                      /\ Tail(s)[i].why = "identity" =>
                           \/ /\ Tail(s)[i] = IdentityErrand(ExchangeKey)
                              /\ Len(Tail(s)) = i + 1
                              /\ Tail(s)[i + 1] = IdentityErrand(SigningKey)
                           \/ /\ Tail(s)[i] = IdentityErrand(SigningKey) /\ i > 1
                              /\ Tail(s)[i - 1] = IdentityErrand(ExchangeKey)
    BY DEF WellPlanned
  <2>1. i + 1 \in 1..Len(s) /\ Tail(s)[i] = s[i + 1] /\ i \in Nat /\ i >= 1
    BY <1>1, <1>2
  <2>2. s[i + 1].why # "loop"
    BY <2>1 DEF WellPlanned
  <2>3. s[i + 1].why = "identity" =>
          \/ /\ s[i + 1] = IdentityErrand(ExchangeKey)
             /\ Len(s) = (i + 1) + 1 /\ s[(i + 1) + 1] = IdentityErrand(SigningKey)
          \/ /\ s[i + 1] = IdentityErrand(SigningKey) /\ i + 1 > 1
             /\ s[(i + 1) - 1] = IdentityErrand(ExchangeKey)
    BY <2>1 DEF WellPlanned
  <2>4. CASE /\ s[i + 1] = IdentityErrand(ExchangeKey)
             /\ Len(s) = (i + 1) + 1 /\ s[(i + 1) + 1] = IdentityErrand(SigningKey)
    <3>1. i + 1 \in 1..Len(Tail(s)) /\ Len(Tail(s)) = i + 1
      BY <1>2, <2>1, <2>4
    <3>2. Tail(s)[i + 1] = s[(i + 1) + 1]
      BY <1>2, <3>1
    <3> QED
      BY <2>1, <2>2, <2>4, <3>1, <3>2
  <2>5. CASE /\ s[i + 1] = IdentityErrand(SigningKey)
             /\ s[(i + 1) - 1] = IdentityErrand(ExchangeKey)
    <3>1. s[i] = IdentityErrand(ExchangeKey)
      BY <2>1, <2>5
    <3>2. i # 1
      BY <1>6, <3>1, ErrandFields DEF Keys
    <3>3. i - 1 \in 1..Len(Tail(s)) /\ (i - 1) + 1 = i
      BY <2>1, <3>2
    <3>4. Tail(s)[i - 1] = s[i]
      BY <1>2, <3>3
    <3> QED
      BY <2>1, <2>2, <2>5, <3>1, <3>2, <3>4
  <2> QED
    BY <2>1, <2>2, <2>3, <2>4, <2>5
<1> QED
  BY <1>1, <1>3, <1>5, <1>6 DEF NextErrand

LEMMA OneBefore ==
    \A n, m \in Nat : \A j \in 1..m :
        j > 1 => j - 1 \in 1..m /\ n + (j - 1) = (n + j) - 1 /\ n + j > 1
OBVIOUS

LEMMA TestsFirst ==
    ASSUME NEW s \in Seq(Errand), NEW t \in Seq(Errand),
           \A i \in 1..Len(s) : s[i].why = "test", WellPlanned(t)
    PROVE  s \o t \in Seq(Errand) /\ WellPlanned(s \o t) /\ Len(s \o t) >= Len(s)
<1> DEFINE r == s \o t
           n == Len(s)
<1>1. /\ r \in Seq(Errand) /\ n \in Nat /\ Len(t) \in Nat /\ Len(r) = n + Len(t)
      /\ \A i \in 1..n : r[i] = s[i]
      /\ \A i \in 1..Len(t) : r[n + i] = t[i]
  OBVIOUS
<1> HIDE DEF r, n
<1>2. ASSUME NEW i \in 1..Len(r)
      PROVE  /\ r[i].why # "loop"
             /\ r[i].why = "identity" =>
                  \/ /\ r[i] = IdentityErrand(ExchangeKey)
                     /\ Len(r) = i + 1 /\ r[i + 1] = IdentityErrand(SigningKey)
                  \/ /\ r[i] = IdentityErrand(SigningKey) /\ i > 1
                     /\ r[i - 1] = IdentityErrand(ExchangeKey)
  <2>1. CASE i \in 1..n
    <3>1. r[i].why = "test"
      BY <1>1, <2>1 DEF n
    <3> QED
      BY <3>1
  <2>2. CASE i \notin 1..n
    <3> DEFINE j == i - n
    <3>1. j \in 1..Len(t) /\ i = n + j
      BY <1>1, <2>2
    <3>2. r[i] = t[j]
      BY <1>1, <3>1
    <3>3. /\ t[j].why # "loop"
          /\ t[j].why = "identity" =>
               \/ /\ t[j] = IdentityErrand(ExchangeKey)
                  /\ Len(t) = j + 1 /\ t[j + 1] = IdentityErrand(SigningKey)
               \/ /\ t[j] = IdentityErrand(SigningKey) /\ j > 1
                  /\ t[j - 1] = IdentityErrand(ExchangeKey)
      BY <3>1 DEF WellPlanned
    <3>4. CASE Len(t) = j + 1 /\ t[j] = IdentityErrand(ExchangeKey) /\ t[j + 1] = IdentityErrand(SigningKey)
      <4>1. j + 1 \in 1..Len(t) /\ n + (j + 1) = i + 1 /\ Len(r) = i + 1
        BY <1>1, <3>1, <3>4
      <4>2. r[i + 1] = t[j + 1]
        BY <1>1, <4>1
      <4>3. r[i].why # "loop" /\ r[i] = IdentityErrand(ExchangeKey)
            /\ r[i + 1] = IdentityErrand(SigningKey)
        BY <3>2, <3>3, <3>4, <4>2
      <4> QED
        BY <4>1, <4>3
    <3>5. CASE j > 1 /\ t[j] = IdentityErrand(SigningKey) /\ t[j - 1] = IdentityErrand(ExchangeKey)
      <4>0. j > 1
        BY <3>5
      <4>1. j - 1 \in 1..Len(t) /\ n + (j - 1) = i - 1 /\ i > 1
        <5>1. n \in Nat /\ Len(t) \in Nat /\ j \in 1..Len(t) /\ i = n + j
          BY <1>1, <3>1
        <5> HIDE DEF j
        <5>2. j - 1 \in 1..Len(t) /\ n + (j - 1) = (n + j) - 1 /\ n + j > 1
          BY <4>0, <5>1, OneBefore, Zenon
        <5> QED
          BY <5>1, <5>2, Zenon
      <4>2. r[i - 1] = t[j - 1]
        BY <1>1, <4>1
      <4>3. r[i].why # "loop" /\ r[i] = IdentityErrand(SigningKey)
            /\ r[i - 1] = IdentityErrand(ExchangeKey)
        BY <3>2, <3>3, <3>5, <4>2
      <4> QED
        BY <4>1, <4>3
    <3> QED
      BY <3>2, <3>3, <3>4, <3>5
  <2> QED
    BY <2>1, <2>2
<1>3. WellPlanned(r)
  BY <1>2 DEF WellPlanned
<1>4. Len(r) >= n
  BY <1>1
<1> QED
  BY <1>1, <1>3, <1>4 DEF r, n

\* setup()'s plans are well made.
LEMMA PlansMade ==
    /\ WellPlanned(<< >>) /\ WellPlanned(IdentityKeys) /\ WellPlanned(AfterTest)
    /\ WellPlanned(SelfTest \o AfterTest) /\ SelfTest \o AfterTest \in Seq(Errand)
    /\ SelfTest \o AfterTest # << >>
<1>1. WellPlanned(<< >>)
  BY DEF WellPlanned
<1>2. WellPlanned(IdentityKeys)
  <2>1. /\ IdentityErrand(ExchangeKey).why = "identity"
        /\ IdentityErrand(SigningKey).why = "identity"
    BY ErrandFields DEF Keys
  <2>2. IdentityKeys = <<IdentityErrand(ExchangeKey), IdentityErrand(SigningKey)>>
    BY DEF IdentityKeys, IdentityErrand
  <2> HIDE DEF IdentityErrand
  <2>3. /\ Len(IdentityKeys) = 2 /\ IdentityKeys[1] = IdentityErrand(ExchangeKey)
        /\ IdentityKeys[2] = IdentityErrand(SigningKey)
    BY <2>2
  <2> QED
    BY <2>1, <2>3 DEF WellPlanned
<1>3. WellPlanned(AfterTest)
  BY <1>1, <1>2 DEF AfterTest
<1>4. Len(SelfTest) = 4 /\ \A i \in 1..Len(SelfTest) : SelfTest[i].why = "test"
  BY DEF SelfTest, Work
<1>5. /\ SelfTest \o AfterTest \in Seq(Errand) /\ WellPlanned(SelfTest \o AfterTest)
      /\ Len(SelfTest \o AfterTest) >= Len(SelfTest)
  BY <1>3, <1>4, AgendaTyped, TestsFirst
<1>6. SelfTest \o AfterTest # << >>
  BY <1>4, <1>5
<1> QED
  BY <1>1, <1>2, <1>3, <1>5, <1>6

------------------------------------------------------------------------------
(* What an operation works for.                                            *)

\* Only a boot that has not settled whose keys the node runs with still asks for them.
Untaken(whose, s) == whose # "none" => \A i \in 1..Len(s) : s[i].why # "identity"

\* A step belongs to an operation that takes it, and an idle driver to none.
Suits(step) ==
    /\ step = "idle" => job = NoWork
    /\ step \in {"session"} \cup Establishing \cup Serving => job.op \in {"ensure", "use"}
    /\ step \in {"exists", "generate", "read"} => job.op = "ensure"
    /\ step = "agree" => job.op = "use" /\ job.form = "bytes"
WorkInv == Suits(pc)

\* What is left to do is what setup() planned, and the signing key is asked for once the
\* exchange key is there.
ErrandInv ==
    /\ job.op = "probe" => job.why = "test" /\ agenda = << >>
    /\ job.why = "loop" => agenda = << >>
    /\ job.why = "test" => WellPlanned(agenda) /\ Untaken(identity, agenda)
    /\ job.why = "identity" =>
         /\ identity = "none"
         /\ \/ job.key = ExchangeKey /\ agenda = <<IdentityErrand(SigningKey)>>
            \/ job.key = SigningKey /\ agenda = << >> /\ Present(chip, ExchangeKey)
VaultInv == IInv /\ WorkInv /\ ErrandInv

------------------------------------------------------------------------------
(* The steps of the vault.                                                 *)

Promised == [Promise!Next]_(Promise!vars)

\* The use under way goes on, or there is none.
GoesOn ==
    /\ UNCHANGED <<identity, result>>
    /\ UseUnderWay' <=> UseUnderWay
    /\ UseUnderWay => job'.key = job.key

\* The keys in the chip stay, or one is generated while no use is under way.
Grown ==
    \/ chip'.key = chip.key
    \/ /\ ~UseUnderWay
       /\ \E k \in Keys : chip.key[k] = "absent" /\ chip'.key = [chip.key EXCEPT ![k] = "original"]

LEMMA GrownKeeps ==
    ASSUME chip \in Chip, Grown, NEW k \in Keys, Present(chip, k)
    PROVE  Present(chip', k)
<1>1. CASE chip'.key = chip.key
  BY <1>1 DEF Present
<1>2. CASE \E j \in Keys : chip.key[j] = "absent" /\ chip'.key = [chip.key EXCEPT ![j] = "original"]
  <2>1. PICK j \in Keys : chip.key[j] = "absent" /\ chip'.key = [chip.key EXCEPT ![j] = "original"]
    BY <1>2
  <2>2. j # k
    BY <2>1 DEF Present
  <2>3. chip'.key[k] = chip.key[k]
    BY <2>1, <2>2 DEF Chip
  <2> QED
    BY <2>3 DEF Present
<1> QED
  BY <1>1, <1>2 DEF Grown

LEMMA GenerateAsPromised ==
    ASSUME ~UseUnderWay, ~UseUnderWay', UNCHANGED <<identity, result>>, Grown
    PROVE  Promised
<1>1. PeerGiven' = PeerGiven
  BY DEF PeerGiven
<1>2. Promise!Grows
  BY DEF Promise!Grows, Grown
<1>3. Promise!Generate
  BY <1>1, <1>2 DEF Promise!Generate
<1> QED
  BY <1>3 DEF Promised, Promise!Next

LEMMA GoesOnAsPromised == ASSUME GoesOn, Grown PROVE Promised
<1>1. /\ identity' = identity /\ result' = result /\ (UseUnderWay' <=> UseUnderWay)
      /\ (UseUnderWay => job'.key = job.key)
  BY DEF GoesOn
<1>2. CASE ~UseUnderWay
  BY <1>1, <1>2, GenerateAsPromised
<1>3. CASE UseUnderWay
  <2>1. chip'.key = chip.key
    BY <1>3 DEF Grown
  <2>2. (IF UseUnderWay' THEN {job'.key} ELSE {}) = (IF UseUnderWay THEN {job.key} ELSE {})
        /\ (IF UseUnderWay THEN {job.key} ELSE {}) # {}
    BY <1>1, <1>3
  <2>3. CASE PeerGiven' <=> PeerGiven
    BY <1>1, <2>1, <2>2, <2>3 DEF Promised, Promise!vars
  <2>4. CASE ~(PeerGiven' <=> PeerGiven)
    <3>1. PeerGiven' = ~PeerGiven
      BY <2>4 DEF PeerGiven
    <3>2. Promise!Hand
      BY <1>1, <2>1, <2>2, <3>1 DEF Promise!Hand
    <3> QED
      BY <3>2 DEF Promised, Promise!Next
  <2> QED
    BY <2>3, <2>4
<1> QED
  BY <1>2, <1>3

LEMMA AdoptAsPromised ==
    ASSUME ~UseUnderWay, ~UseUnderWay', Grown, result' = result,
           identity = "none", identity' \in {"chip", "file"},
           identity' = "chip" => \A k \in Keys : chip.key[k] = "original"
    PROVE  Promised
<1>1. PeerGiven' = PeerGiven
  BY DEF PeerGiven
<1>2. Promise!Grows
  BY DEF Promise!Grows, Grown
<1>3. ASSUME NEW whose \in {"chip", "file"}, identity' = whose PROVE Promise!Adopt(whose)
  BY <1>1, <1>2, <1>3 DEF Promise!Adopt
<1>4. \E whose \in {"chip", "file"} : Promise!Adopt(whose)
  BY <1>3
<1> QED
  BY <1>4 DEF Promised, Promise!Next

LEMMA AskAsPromised ==
    ASSUME ~UseUnderWay, identity = "chip", NEW k \in Keys, UseUnderWay', job'.key = k,
           chip'.key = chip.key, UNCHANGED <<identity, result>>
    PROVE  Promised
<1>1. PeerGiven' \in BOOLEAN
  BY DEF PeerGiven
<1>2. Promise!Ask(k)
  BY <1>1 DEF Promise!Ask
<1> QED
  BY <1>2 DEF Promised, Promise!Next

LEMMA ServeAsPromised ==
    ASSUME UseUnderWay, PeerGiven, chip.key[job.key] = "original", ~UseUnderWay',
           result' = "served", chip'.key = chip.key, identity' = identity
    PROVE  Promised
<1>1. PeerGiven' = FALSE
  BY DEF PeerGiven
<1>2. Promise!Serve
  BY <1>1 DEF Promise!Serve
<1> QED
  BY <1>2 DEF Promised, Promise!Next

LEMMA RefuseAsPromised ==
    ASSUME UseUnderWay, ~UseUnderWay', result' = "failed", chip'.key = chip.key,
           identity' = identity
    PROVE  Promised
<1>1. PeerGiven' = FALSE
  BY DEF PeerGiven
<1>2. Promise!Refuse
  BY <1>1 DEF Promise!Refuse
<1> QED
  BY <1>2 DEF Promised, Promise!Next

LEMMA BootAsPromised ==
    ASSUME ~UseUnderWay', identity' = "none", result' = "none", chip'.key = chip.key
    PROVE  Promised
<1>1. PeerGiven' = FALSE
  BY DEF PeerGiven
<1>2. Promise!Boot
  BY <1>1 DEF Promise!Boot
<1> QED
  BY <1>2 DEF Promised, Promise!Next

------------------------------------------------------------------------------
(* How operations go on and end.                                           *)

\* What every step leaves.
Planned == WorkInv' /\ ErrandInv' /\ Promised

\* The next errand of a plan is taken up as planned, and is no use for the node.
LEMMA NextJobPlanned ==
    ASSUME NEW list \in Seq(Errand), NextJob(list), NextErrand(list), Untaken(identity', list)
    PROVE  WorkInv' /\ ErrandInv' /\ ~UseUnderWay'
<1>1. CASE list = << >>
  <2>1. NoWork.op = "none" /\ NoWork.why = "loop"
    BY DEF NoWork, Work
  <2>2. job' = NoWork /\ agenda' = << >> /\ pc' = "idle"
    BY <1>1 DEF NextJob
  <2>3. WorkInv'
    BY <2>1, <2>2 DEF WorkInv, Suits, Establishing, Serving
  <2> QED
    BY <2>1, <2>2, <2>3 DEF ErrandInv, UseUnderWay
<1>2. CASE list # << >>
  <2>1. Head(list) \in Errand /\ Head(list) = list[1] /\ 1 \in 1..Len(list)
    BY <1>2
  <2>2. /\ Head(list).op \in {"ensure", "use"} /\ Head(list).why \in {"test", "identity"}
        /\ Head(list).form = "bytes"
    BY <1>2, <2>1 DEF Errand, NextErrand
  <2>3. job' = Head(list) /\ agenda' = Tail(list) /\ pc' = "session"
    BY <1>2 DEF NextJob
  <2>4. WorkInv'
    BY <2>2, <2>3 DEF WorkInv, Suits, Establishing, Serving
  <2>5. Head(list).why = "identity" => identity' = "none"
    BY <2>1 DEF Untaken
  <2>6. Untaken(identity', Tail(list))
    <3>1. Len(Tail(list)) = Len(list) - 1 /\ \A i \in 1..Len(Tail(list)) : Tail(list)[i] = list[i + 1]
      BY <1>2
    <3>2. \A i \in 1..Len(Tail(list)) : i + 1 \in 1..Len(list)
      BY <3>1
    <3> QED
      BY <3>1, <3>2, Zenon DEF Untaken
  <2>7. ErrandInv'
    BY <1>2, <2>2, <2>3, <2>5, <2>6 DEF ErrandInv, NextErrand
  <2> QED
    BY <2>2, <2>3, <2>4, <2>7 DEF UseUnderWay
<1> QED
  BY <1>1, <1>2

\* An operation ends, for the test, the identity or the node.
LEMMA FinishPromised ==
    ASSUME VaultInv, Grown, NEW ok \in BOOLEAN, Finish(ok),
           ok => Present(chip, job.key) /\ (UseUnderWay => PeerGiven)
    PROVE  Planned
<1>1. agenda \in Seq(Errand) /\ << >> \in Seq(Errand) /\ job.key \in Keys /\ chip \in Chip
  BY DEF VaultInv, IInv, TypeOK, Job
<1>2. ErrandInv
  BY DEF VaultInv
<1>3. NextErrand(<< >>) /\ Untaken(identity', << >>)
  BY DEF NextErrand, Untaken
<1>4. CASE job.why = "test" /\ NextJob(IF ok THEN agenda ELSE AfterTest) /\ UNCHANGED <<verdicts, rotated>>
  <2>1. identity' = identity /\ result' = result
    BY <1>4 DEF verdicts
  <2>2. NextErrand(agenda) /\ Untaken(identity', agenda)
    BY <1>1, <1>2, <1>4, <2>1, PlanGoesOn DEF ErrandInv
  <2>3. NextErrand(AfterTest) /\ AfterTest \in Seq(Errand)
    BY AgendaTyped, PlansMade, PlanGoesOn
  <2>4. Untaken(identity', AfterTest)
    BY <2>1 DEF Untaken, AfterTest
  <2>5. WorkInv' /\ ErrandInv' /\ ~UseUnderWay'
    BY <1>1, <1>4, <2>2, <2>3, <2>4, NextJobPlanned
  <2>6. GoesOn
    BY <1>4, <2>1, <2>5 DEF GoesOn, UseUnderWay
  <2> QED
    BY <2>5, <2>6, GoesOnAsPromised DEF Planned
<1>5. CASE job.why = "identity" /\ ok /\ agenda # << >> /\ NextJob(agenda) /\ UNCHANGED <<verdicts, rotated>>
  <2>1. identity' = identity /\ result' = result
    BY <1>5 DEF verdicts
  <2>2. job.key = ExchangeKey /\ agenda = <<IdentityErrand(SigningKey)>> /\ identity = "none"
    BY <1>2, <1>5 DEF ErrandInv
  <2>3. IdentityErrand(SigningKey).why = "identity" /\ IdentityErrand(SigningKey).key = SigningKey
    BY ErrandFields DEF Keys
  <2>4. Head(agenda) = IdentityErrand(SigningKey) /\ Tail(agenda) = << >>
    <3> HIDE DEF IdentityErrand
    <3> QED
      BY <2>2
  <2>5. Present(chip', ExchangeKey)
    BY <1>1, <1>5, <2>2, GrownKeeps
  <2>6. NextErrand(agenda)
    BY <2>3, <2>4, <2>5 DEF NextErrand
  <2>7. Untaken(identity', agenda)
    BY <2>1, <2>2 DEF Untaken
  <2>8. WorkInv' /\ ErrandInv' /\ ~UseUnderWay'
    BY <1>1, <1>5, <2>6, <2>7, NextJobPlanned
  <2>9. GoesOn
    BY <1>5, <2>1, <2>8 DEF GoesOn, UseUnderWay
  <2> QED
    BY <2>8, <2>9, GoesOnAsPromised DEF Planned
<1>6. CASE /\ job.why = "identity" /\ ~(ok /\ agenda # << >>)
           /\ NextJob(<< >>) /\ RunsWith(IF ok THEN "chip" ELSE "file")
  <2>1. identity' = (IF ok THEN "chip" ELSE "file") /\ result' = result
    BY <1>6 DEF RunsWith
  <2>2. WorkInv' /\ ErrandInv' /\ ~UseUnderWay'
    BY <1>1, <1>3, <1>6, NextJobPlanned
  <2>3. identity = "none" /\ ~UseUnderWay
    BY <1>2, <1>6 DEF ErrandInv, UseUnderWay
  <2>4. ok => \A k \in Keys : chip.key[k] = "original"
    <3> SUFFICES ASSUME ok PROVE \A k \in Keys : chip.key[k] = "original"
      OBVIOUS
    <3>1. job.key = SigningKey /\ Present(chip, ExchangeKey) /\ Present(chip, SigningKey)
      BY <1>2, <1>6 DEF ErrandInv
    <3>2. \A k \in Keys : Present(chip, k)
      BY <3>1 DEF Keys
    <3>3. \A k \in Keys : chip.key[k] \in {"absent", "original"}
      BY DEF VaultInv, IInv, TypeOK, StoreInv, KeysKept, Chip
    <3> QED
      BY <3>2, <3>3 DEF Present
  <2>5. identity' \in {"chip", "file"} /\ (identity' = "chip" => \A k \in Keys : chip.key[k] = "original")
    BY <2>1, <2>4
  <2>6. Promised
    BY <2>1, <2>2, <2>3, <2>5, AdoptAsPromised
  <2> QED
    BY <2>2, <2>6 DEF Planned
<1>7. CASE /\ job.why = "loop" /\ NextJob(<< >>)
           /\ result' = IF job.op # "use" THEN result ELSE IF ok THEN "served" ELSE "failed"
           /\ UNCHANGED <<identity, first, rotated>>
  <2>1. WorkInv' /\ ErrandInv' /\ ~UseUnderWay'
    BY <1>1, <1>3, <1>7, NextJobPlanned
  <2>2. CASE job.op # "use"
    <3>1. GoesOn
      BY <1>7, <2>1, <2>2 DEF GoesOn, UseUnderWay
    <3> QED
      BY <2>1, <3>1, GoesOnAsPromised DEF Planned
  <2>3. CASE job.op = "use" /\ ok
    <3>1. UseUnderWay /\ PeerGiven
      BY <1>7, <2>3 DEF UseUnderWay
    <3>2. chip.key[job.key] = "original"
      BY <1>1, <2>3 DEF VaultInv, IInv, TypeOK, StoreInv, KeysKept, Chip, Present
    <3>3. chip'.key = chip.key
      BY <3>1 DEF Grown
    <3>4. Promised
      BY <1>7, <2>1, <2>3, <3>1, <3>2, <3>3, ServeAsPromised
    <3> QED
      BY <2>1, <3>4 DEF Planned
  <2>4. CASE job.op = "use" /\ ~ok
    <3>1. UseUnderWay /\ result' = "failed" /\ identity' = identity
      BY <1>7, <2>4 DEF UseUnderWay
    <3>2. chip'.key = chip.key
      BY <3>1 DEF Grown
    <3>3. Promised
      BY <2>1, <3>1, <3>2, RefuseAsPromised
    <3> QED
      BY <2>1, <3>3 DEF Planned
  <2> QED
    BY <2>2, <2>3, <2>4
<1> QED
  BY <1>4, <1>5, <1>6, <1>7 DEF Finish

\* The operation stays the same; a step further; a power cycle.
LEMMA StaysPromised ==
    ASSUME VaultInv, Grown, NEW step, pc' = step, Suits(step), UNCHANGED <<job, agenda, identity, result>>
    PROVE  Planned
<1>1. WorkInv'
  BY DEF WorkInv, Suits
<1>2. chip \in Chip /\ ErrandInv /\ ExchangeKey \in Keys
  BY DEF VaultInv, IInv, TypeOK, Keys
<1>3. Present(chip, ExchangeKey) => Present(chip', ExchangeKey)
  BY <1>2, GrownKeeps
<1>4. ErrandInv'
  BY <1>2, <1>3 DEF ErrandInv
<1>5. GoesOn
  BY DEF GoesOn, UseUnderWay
<1> QED
  BY <1>1, <1>4, <1>5, GoesOnAsPromised DEF Planned

LEMMA GotoPromised ==
    ASSUME VaultInv, Grown, NEW step, Goto(step), Suits(step)
    PROVE  Planned
<1>1. pc' = step /\ UNCHANGED <<job, agenda, identity, result>>
  BY DEF Goto, verdicts
<1> QED
  BY <1>1, StaysPromised

LEMMA PowerCyclingPromised ==
    ASSUME VaultInv, Grown, PowerCycling
    PROVE  Planned
<1>1. pc' = "reset" /\ UNCHANGED <<job, agenda, identity, result>>
  BY DEF PowerCycling, verdicts
<1>2. Suits("reset")
  BY DEF Suits, Establishing, Serving
<1> QED
  BY <1>1, <1>2, StaysPromised

\* A failure: the next operation, the other form of the same use, or the end of it.
LEMMA FailsPromised ==
    ASSUME VaultInv, Grown, Fails
    PROVE  Planned
<1>1. CASE job.op \in {"rotate", "reopen"} /\ RotationEnds("failed")
  <2>1. NextJob(<< >>) /\ identity' = identity /\ result' = result
    BY <1>1 DEF RotationEnds, verdicts
  <2>2. << >> \in Seq(Errand) /\ NextErrand(<< >>) /\ Untaken(identity', << >>)
    BY DEF NextErrand, Untaken
  <2>3. WorkInv' /\ ErrandInv' /\ ~UseUnderWay'
    BY <2>1, <2>2, NextJobPlanned
  <2>4. GoesOn
    BY <1>1, <2>1, <2>3 DEF GoesOn, UseUnderWay
  <2> QED
    BY <2>3, <2>4, GoesOnAsPromised DEF Planned
<1>2. CASE /\ job.form = "object"
           /\ job' = [job EXCEPT !.form = "bytes", !.attempt = 1]
           /\ pc' = "session"
           /\ UNCHANGED <<agenda, cycled, verdicts, rotated>>
  <2>1. job \in Job /\ job.op = "use" /\ job.why = "loop"
    BY <1>2 DEF VaultInv, IInv, TypeOK, OperationInv
  <2>2. job'.op = "use" /\ job'.why = "loop" /\ job'.key = job.key
    BY <1>2, <2>1 DEF Job
  <2>3. agenda' = agenda /\ identity' = identity /\ result' = result
    BY <1>2 DEF verdicts
  <2>4. WorkInv'
    BY <1>2, <2>2 DEF WorkInv, Suits, Establishing, Serving
  <2>5. ErrandInv'
    BY <2>1, <2>2, <2>3 DEF VaultInv, ErrandInv
  <2>6. GoesOn
    BY <2>1, <2>2, <2>3 DEF GoesOn, UseUnderWay
  <2> QED
    BY <2>4, <2>5, <2>6, GoesOnAsPromised DEF Planned
<1>3. CASE Finish(FALSE)
  BY <1>3, FinishPromised
<1> QED
  BY <1>1, <1>2, <1>3 DEF Fails

\* A second lap is still the same use.
LEMMA RetryPromised ==
    ASSUME VaultInv, Grown, pc \in Serving, CloseAndRetry
    PROVE  Planned
<1>1. CASE Fails
  BY <1>1, FailsPromised
<1>2. CASE /\ job' = [job EXCEPT !.attempt = 2] /\ pc' = "session"
           /\ UNCHANGED <<agenda, cycled, verdicts, rotated>>
  <2>1. job \in Job /\ job.op \in {"ensure", "use"}
    BY DEF VaultInv, IInv, TypeOK, WorkInv, Suits
  <2>2. job'.op = job.op /\ job'.why = job.why /\ job'.key = job.key
    BY <1>2, <2>1 DEF Job
  <2>3. agenda' = agenda /\ identity' = identity /\ result' = result
    BY <1>2 DEF verdicts
  <2>4. WorkInv'
    BY <1>2, <2>1, <2>2 DEF WorkInv, Suits, Establishing, Serving
  <2>5. ErrandInv'
    <3>1. chip \in Chip /\ ExchangeKey \in Keys
      BY DEF VaultInv, IInv, TypeOK, Keys
    <3>2. Present(chip, ExchangeKey) => Present(chip', ExchangeKey)
      BY <3>1, GrownKeeps
    <3> QED
      BY <2>2, <2>3, <3>2 DEF VaultInv, ErrandInv
  <2>6. GoesOn
    BY <2>2, <2>3 DEF GoesOn, UseUnderWay
  <2> QED
    BY <2>4, <2>5, <2>6, GoesOnAsPromised DEF Planned
<1> QED
  BY <1>1, <1>2 DEF CloseAndRetry

\* A chip that does not open leaves the node without one at boot.
LEMMA OpenFailsPromised ==
    ASSUME VaultInv, Grown, OpenFails
    PROVE  Planned
<1>1. CASE /\ job.op = "probe" /\ identity = "none"
           /\ pc' = "absent" /\ RunsWith("file") /\ UNCHANGED <<job, agenda, cycled>>
  <2>1. /\ identity' = "file" /\ result' = result /\ agenda = << >>
    BY <1>1 DEF RunsWith, VaultInv, ErrandInv
  <2>2. WorkInv'
    BY <1>1 DEF WorkInv, Suits, Establishing, Serving
  <2>3. ErrandInv'
    <3>1. WellPlanned(<< >>) /\ Untaken(identity', << >>)
      BY PlansMade DEF Untaken
    <3>2. job.why = "test"
      BY <1>1 DEF VaultInv, ErrandInv
    <3> QED
      BY <1>1, <2>1, <3>1, <3>2 DEF ErrandInv
  <2>4. ~UseUnderWay /\ ~UseUnderWay'
    BY <1>1 DEF UseUnderWay
  <2>5. Promised
    BY <1>1, <2>1, <2>4, AdoptAsPromised
  <2> QED
    BY <2>2, <2>3, <2>5 DEF Planned
<1>2. CASE job.op = "probe" /\ NextJob(<< >>) /\ UNCHANGED <<verdicts, rotated>>
  <2>1. identity' = identity /\ result' = result
    BY <1>2 DEF verdicts
  <2>2. << >> \in Seq(Errand) /\ NextErrand(<< >>) /\ Untaken(identity', << >>)
    BY DEF NextErrand, Untaken
  <2>3. WorkInv' /\ ErrandInv' /\ ~UseUnderWay'
    BY <1>2, <2>2, NextJobPlanned
  <2>4. GoesOn
    BY <1>2, <2>1, <2>3 DEF GoesOn, UseUnderWay
  <2> QED
    BY <2>3, <2>4, GoesOnAsPromised DEF Planned
<1>3. CASE Fails
  BY <1>3, FailsPromised
<1> QED
  BY <1>1, <1>2, <1>3 DEF OpenFails

\* The next key set, or none left.
LEMMA NextKeySetPromised ==
    ASSUME VaultInv, Grown, NextKeySet
    PROVE  Planned
<1>1. Suits("init")
  BY DEF Suits, Establishing, Serving
<1>2. CASE Goto("init")
  BY <1>1, <1>2, GotoPromised
<1>3. CASE Fails
  BY <1>3, FailsPromised
<1> QED
  BY <1>2, <1>3 DEF NextKeySet

\* An open channel: the operation's session, the plan of the boot, or the rotation's end.
LEMMA ChannelOpenPromised ==
    ASSUME VaultInv, Grown, ChannelOpen
    PROVE  Planned
<1>1. CASE job.op \in {"ensure", "use"} /\ Goto("setup")
  <2>1. Suits("setup")
    BY <1>1 DEF Suits, Establishing, Serving
  <2> QED
    BY <1>1, <2>1, GotoPromised
<1>2. CASE job.op = "probe" /\ NextJob(SelfTest \o AfterTest) /\ UNCHANGED <<verdicts, rotated>>
  <2>1. identity' = identity /\ result' = result
    BY <1>2 DEF verdicts
  <2>2. SelfTest \o AfterTest \in Seq(Errand) /\ NextErrand(SelfTest \o AfterTest)
    BY PlansMade, PlanGoesOn
  <2>3. Untaken(identity', SelfTest \o AfterTest)
    <3> SUFFICES ASSUME identity # "none", NEW i \in 1..Len(SelfTest \o AfterTest)
                 PROVE  (SelfTest \o AfterTest)[i].why # "identity"
      BY <2>1 DEF Untaken
    <3>1. AfterTest = << >>
      BY DEF AfterTest
    <3>2. SelfTest \o AfterTest = SelfTest
      BY <3>1, AgendaTyped
    <3>3. \A j \in 1..Len(SelfTest) : SelfTest[j].why = "test"
      BY DEF SelfTest, Work
    <3> QED
      BY <3>2, <3>3
  <2>4. WorkInv' /\ ErrandInv' /\ ~UseUnderWay'
    BY <1>2, <2>2, <2>3, NextJobPlanned
  <2>5. GoesOn
    BY <1>2, <2>1, <2>4 DEF GoesOn, UseUnderWay
  <2> QED
    BY <2>4, <2>5, GoesOnAsPromised DEF Planned
<1>3. CASE job.op = "rotate" /\ RotationEnds("done")
  <2>1. NextJob(<< >>) /\ identity' = identity /\ result' = result
    BY <1>3 DEF RotationEnds, verdicts
  <2>2. << >> \in Seq(Errand) /\ NextErrand(<< >>) /\ Untaken(identity', << >>)
    BY DEF NextErrand, Untaken
  <2>3. WorkInv' /\ ErrandInv' /\ ~UseUnderWay'
    BY <2>1, <2>2, NextJobPlanned
  <2>4. GoesOn
    BY <1>3, <2>1, <2>3 DEF GoesOn, UseUnderWay
  <2> QED
    BY <2>3, <2>4, GoesOnAsPromised DEF Planned
<1>4. CASE job.op = "rotate" /\ Goto("putKey")
  <2>1. Suits("putKey")
    BY DEF Suits, Establishing, Serving
  <2> QED
    BY <1>4, <2>1, GotoPromised
<1>5. CASE /\ job.op = "reopen" /\ NextJob(<<Work("ensure", ExchangeKey, "loop")>>)
           /\ rotated' = "done" /\ UNCHANGED verdicts
  <2>1. identity' = identity /\ result' = result
    BY <1>5 DEF verdicts
  <2>2. job' = Work("ensure", ExchangeKey, "loop") /\ agenda' = << >> /\ pc' = "session"
    BY <1>5 DEF NextJob
  <2>3. job'.op = "ensure" /\ job'.why = "loop"
    BY <2>2 DEF Work
  <2>4. WorkInv' /\ ErrandInv'
    BY <2>2, <2>3 DEF WorkInv, Suits, ErrandInv, Establishing, Serving
  <2>5. GoesOn
    BY <1>5, <2>1, <2>3 DEF GoesOn, UseUnderWay
  <2> QED
    BY <2>4, <2>5, GoesOnAsPromised DEF Planned
<1> QED
  BY <1>1, <1>2, <1>3, <1>4, <1>5 DEF ChannelOpen

------------------------------------------------------------------------------
(* The driver's steps.                                                     *)

\* A command that writes no key leaves the keys as they were.
LEMMA ObjectsStay ==
    ASSUME NEW A, NEW o, chip' = o.chip, \A a \in A : a.chip.key = chip.key,
           SameStore(o.chip, chip) \/ \E a \in A : SameStore(o.chip, a.chip)
    PROVE  Grown
BY DEF SameStore, Grown

LEMMA ResetPromised == ASSUME VaultInv, Reset PROVE Planned
<1>1. chip \in Chip
  BY DEF VaultInv, IInv, TypeOK
<1>2. chip' \in {chip, Fresh(chip), PoweredUp(chip)}
  BY DEF Reset
<1>3. Grown
  BY <1>1, <1>2, FreshFields DEF Grown
<1>4. Suits("select")
  BY DEF Suits, Establishing, Serving
<1>5. Goto("select") \/ PowerCycling \/ OpenFails
  BY DEF Reset
<1> QED
  BY <1>3, <1>4, <1>5, GotoPromised, PowerCyclingPromised, OpenFailsPromised

LEMMA SelectPromised == ASSUME VaultInv, Select PROVE Planned
<1> DEFINE d == [chip EXCEPT !.selected = Target]
<1>1. PICK o \in Plain({Answer("ok", d)}) :
         \/ Happened(o, TRUE) /\ Goto(IF job.op = "probe" THEN "info" ELSE "init")
         \/ Happened([o EXCEPT !.chip = PoweredUp(@)], TRUE) /\ PowerCycling
         \/ Happened(o, TRUE) /\ OpenFails
  BY DEF Select
<1>2. chip \in Chip
  BY DEF VaultInv, IInv, TypeOK
<1>3. d \in Chip /\ d.key = chip.key
  BY <1>2 DEF Target, Chip
<1> HIDE DEF d
<1>4. Answer("ok", d) \in AnswerType /\ Answer("ok", d).chip = d
  BY <1>3, AnswerTyped
<1>5. o \in OutcomeType /\ o.chip.key = chip.key
  BY <1>2, <1>3, <1>4, PlainFacts DEF SameStore
<1>6. o.chip \in Chip /\ PoweredUp(o.chip).key = o.chip.key
  BY <1>5, FreshFields DEF OutcomeType
<1>7. [o EXCEPT !.chip = PoweredUp(@)].chip = PoweredUp(o.chip)
  BY <1>5 DEF OutcomeType
<1>8. chip' \in {o.chip, PoweredUp(o.chip)}
  BY <1>1, <1>7 DEF Happened
<1>9. Grown
  BY <1>5, <1>6, <1>8 DEF Grown
<1>10. Suits(IF job.op = "probe" THEN "info" ELSE "init")
  BY DEF Suits, Establishing, Serving
<1> QED
  BY <1>1, <1>9, <1>10, GotoPromised, PowerCyclingPromised, OpenFailsPromised

LEMMA InfoPromised == ASSUME VaultInv, Info PROVE Planned
<1>1. chip \in Chip /\ chip' \in {chip, Took(chip)} /\ Goto("init")
  BY DEF Info, VaultInv, IInv, TypeOK
<1>2. Grown
  BY <1>1, TookFields DEF SameStore, Grown
<1>3. Suits("init")
  BY DEF Suits, Establishing, Serving
<1> QED
  BY <1>1, <1>2, <1>3, GotoPromised

LEMMA InitializeUpdatePromised == ASSUME VaultInv, InitializeUpdate PROVE Planned
<1> DEFINE d == [chip EXCEPT !.channel = "begun", !.session = "none"]
           A == {IF chip.selected = "none" THEN Answer("error", chip) ELSE Answer("ok", d)}
<1>1. PICK o \in Plain(A) : Happened(o, TRUE) /\ (Goto("auth") \/ NextKeySet)
  BY DEF InitializeUpdate
<1>2. chip \in Chip
  BY DEF VaultInv, IInv, TypeOK
<1>3. d \in Chip /\ d.key = chip.key
  BY <1>2 DEF Chip
<1> HIDE DEF d
<1>4. \A a \in A : a \in AnswerType /\ a.chip.key = chip.key
  BY <1>2, <1>3, AnswerTyped
<1> HIDE DEF A
<1>5. Grown
  BY <1>1, <1>2, <1>4, PlainFacts, ObjectsStay DEF Happened
<1>6. Suits("auth")
  BY DEF Suits, Establishing, Serving
<1> QED
  BY <1>1, <1>5, <1>6, GotoPromised, NextKeySetPromised

LEMMA ExternalAuthenticatePromised == ASSUME VaultInv, ExternalAuthenticate PROVE Planned
<1> DEFINE d == [chip EXCEPT !.channel = "open", !.agrees = TRUE]
           A == {IF chip.channel = "begun" THEN Answer("ok", d) ELSE Answer("error", chip)}
<1>1. PICK o \in Plain(A) : Happened(o, TRUE) /\ (ChannelOpen \/ NextKeySet)
  BY DEF ExternalAuthenticate
<1>2. chip \in Chip
  BY DEF VaultInv, IInv, TypeOK
<1>3. d \in Chip /\ d.key = chip.key
  BY <1>2 DEF Chip
<1> HIDE DEF d
<1>4. \A a \in A : a \in AnswerType /\ a.chip.key = chip.key
  BY <1>2, <1>3, AnswerTyped
<1> HIDE DEF A
<1>5. Grown
  BY <1>1, <1>2, <1>4, PlainFacts, ObjectsStay DEF Happened
<1> QED
  BY <1>1, <1>5, ChannelOpenPromised, NextKeySetPromised

\* Where an operation goes on with its session is a step of its own.
LEMMA MainStepSuits ==
    ASSUME job \in Job, job.op \in {"ensure", "use"}
    PROVE  Suits(MainStep)
<1>1. CASE job.op = "ensure"
  BY <1>1 DEF MainStep, Suits, Establishing, Serving
<1>2. CASE job.op = "use" /\ job.form = "object"
  BY <1>2 DEF MainStep, Suits, Establishing, Serving
<1>3. CASE job.op = "use" /\ job.form = "bytes"
  BY <1>3 DEF MainStep, Suits, Establishing, Serving
<1> QED
  BY <1>1, <1>2, <1>3 DEF Job

LEMMA EnsureSessionPromised == ASSUME VaultInv, EnsureSession PROVE Planned
<1>1. /\ pc' \in {MainStep, "setup", "reset"} /\ chip' = chip
      /\ UNCHANGED <<job, agenda, identity, result>>
  BY DEF EnsureSession, verdicts
<1>2. job \in Job /\ job.op \in {"ensure", "use"}
  BY DEF EnsureSession, VaultInv, IInv, TypeOK, WorkInv, Suits
<1>3. Suits(MainStep) /\ Suits("setup") /\ Suits("reset")
  BY <1>2, MainStepSuits DEF Suits, Establishing, Serving
<1>4. Grown
  BY <1>1 DEF Grown
<1> QED
  BY <1>1, <1>3, <1>4, StaysPromised

LEMMA SetupPromised == ASSUME VaultInv, Setup PROVE Planned
<1> DEFINE A == {Answer("ok", chip)}
<1>1. PICK o \in InApplet(A) : Happened(o, scpOpen) /\ (Goto("create") \/ Fails)
  BY DEF Setup
<1>2. chip \in Chip /\ job.op \in {"ensure", "use"}
  BY DEF Setup, VaultInv, IInv, TypeOK, WorkInv, Suits, Establishing
<1>3. \A a \in A : a \in AnswerType /\ a.chip.key = chip.key
  BY <1>2, AnswerTyped
<1> HIDE DEF A
<1>4. Grown
  BY <1>1, <1>2, <1>3, InAppletFacts, ObjectsStay DEF Happened
<1>5. Suits("create")
  BY <1>2 DEF Suits, Establishing, Serving
<1> QED
  BY <1>1, <1>4, <1>5, GotoPromised, FailsPromised

LEMMA CreateSessionPromised == ASSUME VaultInv, CreateSession PROVE Planned
<1> DEFINE d == [chip EXCEPT !.session = "created"]
           A == {Answer("ok", d)}
<1>1. PICK o \in InApplet(A) : Happened(o, scpOpen) /\ (Goto("verify") \/ Fails)
  BY DEF CreateSession
<1>2. chip \in Chip /\ job.op \in {"ensure", "use"}
  BY DEF CreateSession, VaultInv, IInv, TypeOK, WorkInv, Suits, Establishing
<1>3. d \in Chip /\ d.key = chip.key
  BY <1>2, SessionSet
<1> HIDE DEF d
<1>4. \A a \in A : a \in AnswerType /\ a.chip.key = chip.key
  BY <1>3, AnswerTyped
<1> HIDE DEF A
<1>5. Grown
  BY <1>1, <1>2, <1>4, InAppletFacts, ObjectsStay DEF Happened
<1>6. Suits("verify")
  BY <1>2 DEF Suits, Establishing, Serving
<1> QED
  BY <1>1, <1>5, <1>6, GotoPromised, FailsPromised

LEMMA VerifySessionPromised == ASSUME VaultInv, VerifySession PROVE Planned
<1> DEFINE d == [chip EXCEPT !.session = "open"]
           A == {IF chip.session = "created" /\ sessionIdGood THEN Answer("ok", d)
                 ELSE Answer("error", chip)}
<1>1. PICK o \in InApplet(A) : Happened(o, scpOpen) /\ (Goto(MainStep) \/ Fails)
  BY DEF VerifySession
<1>2. chip \in Chip /\ job \in Job /\ job.op \in {"ensure", "use"}
  BY DEF VerifySession, VaultInv, IInv, TypeOK, WorkInv, Suits, Establishing
<1>3. d \in Chip /\ d.key = chip.key
  BY <1>2, SessionSet
<1> HIDE DEF d
<1>4. \A a \in A : a \in AnswerType /\ a.chip.key = chip.key
  BY <1>2, <1>3, AnswerTyped
<1> HIDE DEF A
<1>5. Grown
  BY <1>1, <1>2, <1>4, InAppletFacts, ObjectsStay DEF Happened
<1> QED
  BY <1>1, <1>2, <1>5, MainStepSuits, GotoPromised, FailsPromised

LEMMA ExistsPromised == ASSUME VaultInv, Exists PROVE Planned
<1> DEFINE A == {Report(chip.key[job.key] # "absent")}
<1>1. PICK o \in InSession(A) :
         /\ Happened(o, scpOpen)
         /\ Goto(IF o.says THEN "read" ELSE "generate") \/ CloseAndRetry
  BY DEF Exists
<1>2. chip \in Chip /\ pc \in Serving /\ job.op = "ensure"
  BY DEF Exists, VaultInv, IInv, TypeOK, WorkInv, Suits, Serving
<1>3. \A a \in A : a \in AnswerType /\ a.chip.key = chip.key
  BY <1>2, ReportTyped
<1> HIDE DEF A
<1>4. Grown
  BY <1>1, <1>2, <1>3, InSessionFacts, ObjectsStay DEF Happened
<1>5. Suits(IF o.says THEN "read" ELSE "generate")
  BY <1>2 DEF Suits, Establishing, Serving
<1> QED
  BY <1>1, <1>2, <1>4, <1>5, GotoPromised, RetryPromised

\* The one command that makes a key makes one that was not there, while no use is under way.
LEMMA GeneratePromised == ASSUME VaultInv, Generate PROVE Planned
<1> DEFINE A == {Answer("ok", [chip EXCEPT !.key[job.key] = Generated])}
<1>1. PICK o \in InSession(A) : Happened(o, scpOpen) /\ (Goto("read") \/ Fails)
  BY DEF Generate
<1>2. /\ chip \in Chip /\ job.key \in Keys /\ job.op = "ensure"
      /\ chip.key[job.key] = "absent"
  BY DEF Generate, VaultInv, IInv, TypeOK, Job, StepInv, WorkInv, Suits
<1>3. Generated = "original"
  BY <1>2 DEF Generated
<1> DEFINE d == [chip EXCEPT !.key[job.key] = "original"]
<1>4. d \in Chip /\ d.key = [chip.key EXCEPT ![job.key] = "original"]
  BY <1>2 DEF Chip
<1>5. A = {Answer("ok", d)}
  BY <1>3
<1> HIDE DEF d, A
<1>6. \A a \in A : a \in AnswerType /\ a.chip = d
  BY <1>4, <1>5, AnswerTyped
<1>7. chip'.key \in {chip.key, d.key}
  BY <1>1, <1>2, <1>6, InSessionFacts DEF Happened, SameStore
<1>8. ~UseUnderWay
  BY <1>2 DEF UseUnderWay
<1>9. Grown
  BY <1>2, <1>4, <1>7, <1>8 DEF Grown
<1>10. Suits("read")
  BY <1>2 DEF Suits, Establishing, Serving
<1> QED
  BY <1>1, <1>9, <1>10, GotoPromised, FailsPromised

\* An answer made with a key is one the chip has.
LEMMA MadeWithKey ==
    ASSUME chip \in Chip, NEW sw \in {"ok", "error"}, NEW o \in InSession({Answer(sw, chip)}),
           Happened(o, scpOpen)
    PROVE  Grown /\ (o.sw = "ok" => sw = "ok")
<1> DEFINE A == {Answer(sw, chip)}
<1>1. \A a \in A : a \in AnswerType /\ a.sw = sw /\ a.chip.key = chip.key
  BY AnswerTyped
<1> HIDE DEF A
<1>2. o \in InSession(A)
  BY DEF A
<1>3. Grown
  BY <1>1, <1>2, InSessionFacts, ObjectsStay DEF Happened
<1>4. o.sw = "ok" => sw = "ok"
  BY <1>1, <1>2, InSessionFacts DEF Accepted
<1> QED
  BY <1>3, <1>4

LEMMA ReadPublicPromised == ASSUME VaultInv, ReadPublic PROVE Planned
<1> DEFINE sw == IF chip.key[job.key] = "absent" THEN "error" ELSE "ok"
<1>1. PICK o \in InSession({Answer(sw, chip)}) :
         Happened(o, scpOpen) /\ ((o.sw = "ok" /\ Finish(TRUE)) \/ Fails)
  BY DEF ReadPublic
<1>2. chip \in Chip /\ job.op = "ensure" /\ sw \in {"ok", "error"}
  BY DEF ReadPublic, VaultInv, IInv, TypeOK, WorkInv, Suits
<1>3. Grown /\ (o.sw = "ok" => sw = "ok")
  <2> HIDE DEF sw
  <2> QED
    BY <1>1, <1>2, MadeWithKey
<1>4. o.sw = "ok" => Present(chip, job.key)
  BY <1>3 DEF Present
<1>5. ~UseUnderWay
  BY <1>2 DEF UseUnderWay
<1> QED
  BY <1>1, <1>3, <1>4, <1>5, FinishPromised, FailsPromised

\* An agreement or a signature whose input comes with the command.
LEMMA AgreePromised == ASSUME VaultInv, Agree PROVE Planned
<1> DEFINE sw == IF chip.key[job.key] = "absent" THEN "error" ELSE "ok"
<1>1. PICK o \in InSession({Answer(sw, chip)}) :
         Happened(o, scpOpen) /\ ((o.sw = "ok" /\ Finish(TRUE)) \/ Fails \/ CloseAndRetry)
  BY DEF Agree
<1>2. chip \in Chip /\ pc \in Serving /\ job.form = "bytes" /\ sw \in {"ok", "error"}
  BY DEF Agree, VaultInv, IInv, TypeOK, WorkInv, Suits, Serving
<1>3. Grown /\ (o.sw = "ok" => sw = "ok")
  <2> HIDE DEF sw
  <2> QED
    BY <1>1, <1>2, MadeWithKey
<1>4. o.sw = "ok" => Present(chip, job.key)
  BY <1>3 DEF Present
<1>5. UseUnderWay => PeerGiven
  BY <1>2 DEF PeerGiven
<1> QED
  BY <1>1, <1>2, <1>3, <1>4, <1>5, FinishPromised, FailsPromised, RetryPromised

LEMMA PeerExistsPromised == ASSUME VaultInv, PeerExists PROVE Planned
<1> DEFINE A == {Report(chip.peer # "none")}
<1>1. PICK o \in InSession(A) :
         /\ Happened(o, scpOpen)
         /\ Goto(IF o.says THEN "peerUpdate" ELSE "peerCreate") \/ CloseAndRetry
  BY DEF PeerExists
<1>2. chip \in Chip /\ pc \in Serving /\ job.op \in {"ensure", "use"}
  BY DEF PeerExists, VaultInv, IInv, TypeOK, WorkInv, Suits, Serving
<1>3. \A a \in A : a \in AnswerType /\ a.chip.key = chip.key
  BY <1>2, ReportTyped
<1> HIDE DEF A
<1>4. Grown
  BY <1>1, <1>2, <1>3, InSessionFacts, ObjectsStay DEF Happened
<1>5. Suits(IF o.says THEN "peerUpdate" ELSE "peerCreate")
  BY <1>2 DEF Suits, Establishing, Serving
<1> QED
  BY <1>1, <1>2, <1>4, <1>5, GotoPromised, RetryPromised

\* A command that writes the peer object.
LEMMA PeerWrittenPromised ==
    ASSUME VaultInv, pc \in Serving,
           NEW A \in SUBSET {Answer("ok", [chip EXCEPT !.peer = "mine"]), Answer("error", chip)},
           NEW o \in InSession(A), Happened(o, scpOpen),
           Goto("agreePeer") \/ Fails \/ CloseAndRetry
    PROVE  Planned
<1>1. chip \in Chip /\ job.op \in {"ensure", "use"}
  BY DEF VaultInv, IInv, TypeOK, WorkInv, Suits
<1>2. Grown
  BY <1>1, PeerStored DEF Grown
<1>3. Suits("agreePeer")
  BY <1>1 DEF Suits, Establishing, Serving
<1> QED
  BY <1>2, <1>3, GotoPromised, FailsPromised, RetryPromised

LEMMA PeerCreatePromised == ASSUME VaultInv, PeerCreate PROVE Planned
<1>1. PICK o \in InSession({Answer("ok", [chip EXCEPT !.peer = "mine"]), Answer("error", chip)}) :
         Happened(o, scpOpen) /\ (Goto("agreePeer") \/ Fails)
  BY DEF PeerCreate
<1>2. pc \in Serving
  BY DEF PeerCreate, Serving
<1> QED
  BY <1>1, <1>2, PeerWrittenPromised

LEMMA PeerUpdatePromised == ASSUME VaultInv, PeerUpdate PROVE Planned
<1> DEFINE A == {IF chip.peer = "none" THEN Answer("error", chip)
                 ELSE Answer("ok", [chip EXCEPT !.peer = "mine"])}
<1>1. PICK o \in InSession(A) : Happened(o, scpOpen) /\ (Goto("agreePeer") \/ CloseAndRetry)
  BY DEF PeerUpdate
<1>2. pc \in Serving
  BY DEF PeerUpdate, Serving
<1>3. A \in SUBSET {Answer("ok", [chip EXCEPT !.peer = "mine"]), Answer("error", chip)}
  OBVIOUS
<1> HIDE DEF A
<1> QED
  BY <1>1, <1>2, <1>3, PeerWrittenPromised

\* An agreement by the peer object is with the peer it was given for this use: the object
\* was written, and a chip that lost it has nothing to agree with.
LEMMA AgreePeerPromised == ASSUME VaultInv, AgreePeer PROVE Planned
<1> DEFINE sw == IF chip.key[job.key] = "absent" \/ chip.peer \in {"none", "empty"}
                 THEN "error" ELSE "ok"
<1>1. PICK o \in InSession({Answer(sw, chip)}) :
         Happened(o, scpOpen) /\ ((o.sw = "ok" /\ Finish(TRUE)) \/ Fails \/ CloseAndRetry)
  BY DEF AgreePeer
<1>2. /\ chip \in Chip /\ pc \in Serving /\ chip.peer \in {"mine", "empty"}
      /\ sw \in {"ok", "error"}
  BY DEF AgreePeer, VaultInv, IInv, TypeOK, StepInv, Serving
<1>3. Grown /\ (o.sw = "ok" => sw = "ok")
  <2> HIDE DEF sw
  <2> QED
    BY <1>1, <1>2, MadeWithKey
<1>4. o.sw = "ok" => Present(chip, job.key) /\ chip.peer = "mine"
  BY <1>2, <1>3 DEF Present
<1>5. o.sw = "ok" => (UseUnderWay => PeerGiven)
  BY <1>4 DEF PeerGiven
<1> QED
  BY <1>1, <1>2, <1>3, <1>4, <1>5, FinishPromised, FailsPromised, RetryPromised

LEMMA PutKeyPromised == ASSUME VaultInv, PutKey PROVE Planned
<1> DEFINE d == [chip EXCEPT !.keys = "Otp"]
           A == {IF chip.selected = "ssd" THEN Answer("ok", d) ELSE Answer("error", chip)}
<1>1. PICK o \in Secured(A) :
         /\ Happened(o, scpOpen)
         /\ \/ /\ pc' = "reset" /\ job' = [job EXCEPT !.op = "reopen"]
               /\ UNCHANGED <<agenda, cycled, verdicts, rotated>>
            \/ Fails
  BY DEF PutKey
<1>2. chip \in Chip /\ job \in Job /\ job.op = "rotate"
  BY DEF PutKey, VaultInv, IInv, TypeOK, StepInv
<1>3. d \in Chip /\ d.key = chip.key
  BY <1>2 DEF Chip, Sources, Rank
<1> HIDE DEF d
<1>4. \A a \in A : a \in AnswerType /\ a.chip.key = chip.key
  BY <1>2, <1>3, AnswerTyped
<1> HIDE DEF A
<1>5. Grown
  BY <1>1, <1>2, <1>4, SecuredFacts, ObjectsStay DEF Happened
<1>6. CASE /\ pc' = "reset" /\ job' = [job EXCEPT !.op = "reopen"]
           /\ UNCHANGED <<agenda, cycled, verdicts, rotated>>
  <2>1. job'.op = "reopen" /\ job'.why = job.why /\ job'.key = job.key
    BY <1>2, <1>6 DEF Job
  <2>2. agenda' = agenda /\ identity' = identity /\ result' = result
    BY <1>6 DEF verdicts
  <2>3. WorkInv'
    BY <1>6 DEF WorkInv, Suits, Establishing, Serving
  <2>4. ErrandInv'
    <3>1. ExchangeKey \in Keys /\ ErrandInv
      BY DEF Keys, VaultInv
    <3>2. Present(chip, ExchangeKey) => Present(chip', ExchangeKey)
      BY <1>2, <1>5, <3>1, GrownKeeps
    <3> QED
      BY <2>1, <2>2, <3>1, <3>2 DEF ErrandInv
  <2>5. GoesOn
    BY <1>2, <2>1, <2>2 DEF GoesOn, UseUnderWay
  <2> QED
    BY <1>5, <2>3, <2>4, <2>5, GoesOnAsPromised DEF Planned
<1> QED
  BY <1>1, <1>5, <1>6, FailsPromised

------------------------------------------------------------------------------
(* Requests and surroundings.                                              *)

LEMMA UseKeyPromised == ASSUME VaultInv, NEW k \in Keys, UseKey(k) PROVE Planned
<1> DEFINE w == Work("use", k, "loop")
           f == IF k = ExchangeKey /\ viaObject THEN "object" ELSE "bytes"
<1>1. /\ pc = "idle" /\ identity = "chip" /\ job' = [w EXCEPT !.form = f] /\ pc' = "session"
      /\ chip' = [chip EXCEPT !.peer = IF k = ExchangeKey /\ @ = "mine" THEN "other" ELSE @]
      /\ UNCHANGED <<agenda, identity, result>>
  BY DEF UseKey, verdicts
<1>2. w \in Job /\ w.op = "use" /\ w.why = "loop" /\ w.key = k
  BY WorkTyped DEF Work
<1> HIDE DEF w, f
<1>3. job'.op = "use" /\ job'.why = "loop" /\ job'.key = k
  BY <1>1, <1>2 DEF Job
<1>4. chip'.key = chip.key
  BY <1>1 DEF VaultInv, IInv, TypeOK, Chip
<1>5. job = NoWork /\ NoWork.op = "none" /\ NoWork.why = "loop"
  BY <1>1 DEF VaultInv, WorkInv, Suits, NoWork, Work
<1>6. agenda = << >>
  BY <1>5 DEF VaultInv, ErrandInv
<1>7. WorkInv' /\ ErrandInv'
  BY <1>1, <1>3, <1>6 DEF WorkInv, Suits, Establishing, Serving, ErrandInv
<1>8. ~UseUnderWay /\ UseUnderWay'
  BY <1>3, <1>5 DEF UseUnderWay
<1> QED
  BY <1>1, <1>3, <1>4, <1>7, <1>8, AskAsPromised DEF Planned

\* The console's commands start from an idle driver and are no uses for the node.
LEMMA CommandPromised ==
    ASSUME VaultInv, Command, pc' = "reset", job' \in Job, job'.op \in {"probe", "rotate"},
           job'.op = "probe" => job'.why = "test", job'.op = "rotate" => job'.why = "loop"
    PROVE  Planned
<1>1. pc = "idle" /\ chip' = chip /\ UNCHANGED <<agenda, identity, result>>
  BY DEF Command, verdicts
<1>2. job = NoWork /\ NoWork.op = "none" /\ NoWork.why = "loop"
  BY <1>1 DEF VaultInv, WorkInv, Suits, NoWork, Work
<1>3. agenda = << >> /\ WellPlanned(<< >>) /\ Untaken(identity', << >>)
  BY <1>2, PlansMade DEF VaultInv, ErrandInv, Untaken
<1>4. WorkInv' /\ ErrandInv'
  BY <1>1, <1>3 DEF WorkInv, Suits, Establishing, Serving, ErrandInv
<1>5. GoesOn
  BY <1>1, <1>2 DEF GoesOn, UseUnderWay
<1>6. Grown
  BY <1>1 DEF Grown
<1> QED
  BY <1>4, <1>5, <1>6, GoesOnAsPromised DEF Planned

LEMMA ReprobePromised == ASSUME VaultInv, Reprobe PROVE Planned
<1>1. Command /\ pc' = "reset" /\ job' = Work("probe", ExchangeKey, "test")
  BY DEF Reprobe
<1>2. job' \in Job /\ job'.op = "probe" /\ job'.why = "test"
  BY <1>1, WorkTyped DEF Keys, Work
<1> QED
  BY <1>1, <1>2, CommandPromised

\* A step that leaves the operation alone.
LEMMA ProgramStays ==
    ASSUME VaultInv, Grown, UNCHANGED <<pc, job, agenda, identity, result>>
    PROVE  Planned
<1>1. Suits(pc)
  BY DEF VaultInv, WorkInv
<1> QED
  BY <1>1, StaysPromised

LEMMA RotatePromised == ASSUME VaultInv, Rotate PROVE Planned
<1>1. Command
  BY DEF Rotate
<1>2. CASE UNCHANGED <<pc, job>>
  <2>1. chip' = chip /\ UNCHANGED <<pc, job, agenda, identity, result>>
    BY <1>1, <1>2 DEF Command, verdicts
  <2>2. Grown
    BY <2>1 DEF Grown
  <2> QED
    BY <2>1, <2>2, ProgramStays
<1>3. CASE pc' = "reset" /\ job' = Work("rotate", ExchangeKey, "loop")
  <2>1. job' \in Job /\ job'.op = "rotate" /\ job'.why = "loop"
    BY <1>3, WorkTyped DEF Keys, Work
  <2> QED
    BY <1>1, <1>3, <2>1, CommandPromised
<1> QED
  BY <1>2, <1>3 DEF Rotate

LEMMA SurroundingsPromised ==
    ASSUME VaultInv, ChipResets \/ ChipSilent \/ FaultInject
    PROVE  Planned
<1>1. chip \in Chip
  BY DEF VaultInv, IInv, TypeOK
<1>2. UNCHANGED <<pc, job, agenda, identity, result>>
  BY DEF ChipResets, ChipSilent, FaultInject, Trouble, program, verdicts
<1>3. CASE chip' = Fresh(chip)
  <2>1. Grown
    BY <1>1, <1>3, FreshFields DEF Grown
  <2> QED
    BY <1>2, <2>1, ProgramStays
<1>4. CASE chip' \in {chip, [chip EXCEPT !.up = FALSE], [chip EXCEPT !.agrees = FALSE]}
  <2>1. Grown
    BY <1>1, <1>4 DEF Grown, Chip
  <2> QED
    BY <1>2, <2>1, ProgramStays
<1> QED
  BY <1>3, <1>4 DEF ChipResets, ChipSilent, FaultInject

LEMMA RestartPromised == ASSUME VaultInv, Restart PROVE Planned
<1>1. /\ pc' = "reset" /\ job' = Work("probe", ExchangeKey, "test") /\ agenda' = << >>
      /\ identity' = "none" /\ result' = "none"
      /\ chip' = (IF PowerCycle THEN PoweredUp(chip) ELSE chip)
  BY DEF Restart
<1>2. job'.op = "probe" /\ job'.why = "test"
  BY <1>1 DEF Work
<1>3. chip'.key = chip.key
  BY <1>1, FreshFields DEF VaultInv, IInv, TypeOK
<1>4. WellPlanned(<< >>) /\ Untaken(identity', << >>)
  BY PlansMade DEF Untaken
<1>5. WorkInv' /\ ErrandInv'
  BY <1>1, <1>2, <1>4 DEF WorkInv, Suits, Establishing, Serving, ErrandInv
<1>6. ~UseUnderWay'
  BY <1>2 DEF UseUnderWay
<1> QED
  BY <1>1, <1>3, <1>5, <1>6, BootAsPromised DEF Planned

LEMMA NothingPromised == ASSUME VaultInv, UNCHANGED vars PROVE Planned
<1>1. UNCHANGED <<pc, job, agenda, identity, result, chip>>
  BY DEF vars, program, verdicts
<1>2. Grown
  BY <1>1 DEF Grown
<1> QED
  BY <1>1, <1>2, ProgramStays

------------------------------------------------------------------------------
(* The refinement.                                                         *)

LEMMA InitPromised == Init => VaultInv /\ Promise!Init
<1> SUFFICES ASSUME Init PROVE VaultInv /\ Promise!Init
  OBVIOUS
<1>1. /\ pc = "reset" /\ job = Work("probe", ExchangeKey, "test") /\ agenda = << >>
      /\ identity = "none" /\ result = "none"
      /\ chip.key = [k \in Keys |-> "absent"]
  BY DEF Init
<1>2. job.op = "probe" /\ job.why = "test"
  BY <1>1 DEF Work
<1>3. WellPlanned(<< >>) /\ Untaken(identity, << >>)
  BY PlansMade DEF Untaken
<1>4. WorkInv /\ ErrandInv
  BY <1>1, <1>2, <1>3 DEF WorkInv, Suits, Establishing, Serving, ErrandInv
<1>5. ~UseUnderWay /\ PeerGiven = FALSE
  BY <1>2 DEF UseUnderWay, PeerGiven
<1>6. Promise!Init
  BY <1>1, <1>5 DEF Promise!Init
<1> QED
  BY <1>4, <1>6, InitInv DEF VaultInv

LEMMA StepPromised == VaultInv /\ [Next]_vars => VaultInv' /\ Promised
<1> SUFFICES ASSUME VaultInv, [Next]_vars PROVE VaultInv' /\ Promised
  OBVIOUS
<1>1. Planned
  <2>1. CASE OpenStep
    BY <2>1, ResetPromised, SelectPromised, InfoPromised, InitializeUpdatePromised,
       ExternalAuthenticatePromised DEF OpenStep
  <2>2. CASE SessionStep
    BY <2>2, EnsureSessionPromised, SetupPromised, CreateSessionPromised, VerifySessionPromised
       DEF SessionStep
  <2>3. CASE KeyStep
    BY <2>3, ExistsPromised, GeneratePromised, ReadPublicPromised, AgreePromised, PutKeyPromised
       DEF KeyStep
  <2>4. CASE PeerStep
    BY <2>4, PeerExistsPromised, PeerCreatePromised, PeerUpdatePromised, AgreePeerPromised
       DEF PeerStep
  <2>5. CASE Requests
    BY <2>5, UseKeyPromised, ReprobePromised, RotatePromised DEF Requests
  <2>6. CASE Surroundings
    BY <2>6, SurroundingsPromised, RestartPromised, NothingPromised DEF Surroundings, Rest
  <2>7. CASE UNCHANGED vars
    BY <2>7, NothingPromised
  <2> QED
    BY <2>1, <2>2, <2>3, <2>4, <2>5, <2>6, <2>7 DEF Next, DriverStep
<1>2. IInv'
  BY Inductive DEF VaultInv
<1> QED
  BY <1>1, <1>2 DEF Planned, VaultInv

\* Se050 implements the vault: whatever is lost, reset or retried, a use is answered with its
\* own key and its own peer or throws, a key is generated once, and an identity is taken from
\* the chip only with both its keys (x25519Ecdh(), keyEnsure(), reticulumSetup()).
THEOREM ImplementsTheVault == Spec => ImplementsVault
<1>1. VaultInv /\ [Next]_vars => [Promise!Next]_(Promise!vars)
  BY StepPromised DEF Promised
<1>2. VaultInv /\ [Next]_vars => VaultInv'
  BY StepPromised
<1> QED
  BY <1>1, <1>2, InitPromised, PTL DEF Spec, ImplementsVault, Promise!Spec
==============================================================================
