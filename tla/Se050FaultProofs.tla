--------------------------- MODULE Se050FaultProofs ---------------------------
(* One fault never fails a use of the vault: the theorem about what the SE050 *)
(* driver makes of a lost frame, a reset, a silent chip or a fault injected,  *)
(* for every board that can power-cycle a silent chip, every bound on faults  *)
(* and every sequence of requests and restarts.                               *)
EXTENDS Se050Proofs

------------------------------------------------------------------------------
(* What outlasts an exchange.                                              *)

\* Nothing but power and the rotation changes whether the chip answers and its static keys;
\* no key object goes away, no peer object, and nobody selects the security domain.
Lasting(d, c) ==
    /\ d.keys = c.keys
    /\ d.selected = "ssd" => c.selected = "ssd"
    /\ \A k \in Keys : Present(c, k) => Present(d, k)
    /\ c.peer # "none" => d.peer # "none"
Keeps(d, c) == d.up = c.up /\ Lasting(d, c)

\* An answer of the set, as the driver reads it.
From(o, answers) == \E a \in answers : o.sw = a.sw /\ o.says = a.says /\ o.chip = Took(a.chip)

LEMMA KeepsTook ==
    ASSUME NEW c \in Chip, NEW d \in Chip, Keeps(d, c)
    PROVE  Keeps(Took(d), c)
BY DEF Keeps, Lasting, Present, Took, Chip

LEMMA KeepsSelf ==
    ASSUME NEW c \in Chip
    PROVE  Keeps(c, c) /\ Keeps([c EXCEPT !.agrees = FALSE], c)
BY DEF Keeps, Lasting, Present, Chip

\* An exchange costs a fault only if the driver hears nothing, and hears an answer of the
\* chip's otherwise, as long as the chip answers.
LEMMA ExchangeOutcome ==
    ASSUME NEW answers \in SUBSET AnswerType, NEW unheard \in Chip, chip \in Chip,
           Keeps(unheard, chip), \A a \in answers : Keeps(a.chip, chip),
           NEW o \in Exchange(answers, unheard)
    PROVE  /\ o.sw \in {"ok", "error", "refused", "none"}
           /\ Keeps(o.chip, chip)
           /\ o.cost \in {0, 1}
           /\ o.sw # "none" => Heard /\ o.cost = 0 /\ From(o, answers)
           /\ Heard /\ o.cost = 0 => o.sw # "none"
<1>1. \A a \in answers : a.sw \in {"ok", "error", "refused"} /\ Keeps(Took(a.chip), chip)
  BY KeepsTook DEF AnswerType
<1>2. CASE \E a \in answers : Heard /\ o = [sw |-> a.sw, says |-> a.says, chip |-> Took(a.chip), cost |-> 0]
  <2>1. PICK a \in answers : Heard /\ o = [sw |-> a.sw, says |-> a.says, chip |-> Took(a.chip), cost |-> 0]
    BY <1>2
  <2>2. From(o, answers)
    BY <2>1 DEF From
  <2>3. o.sw = a.sw /\ o.chip = Took(a.chip) /\ o.cost = 0
    BY <2>1
  <2> QED
    BY <1>1, <2>1, <2>2, <2>3
<1>3. CASE \E a \in answers : o = Missed(Took(a.chip), 1)
  BY <1>1, <1>3 DEF Missed
<1>4. CASE o = Missed(unheard, 1)
  BY <1>4 DEF Missed
<1>5. CASE ~Heard /\ o = Missed(unheard, 0)
  BY <1>5 DEF Missed
<1> QED
  BY <1>2, <1>3, <1>4, <1>5 DEF Exchange

\* The same outside the channel.
LEMMA PlainOutcome ==
    ASSUME NEW answers \in SUBSET AnswerType, chip \in Chip,
           \A a \in answers : Keeps(a.chip, chip), NEW o \in Plain(answers)
    PROVE  /\ o.sw \in {"ok", "error", "refused", "none"}
           /\ Keeps(o.chip, chip)
           /\ o.cost \in {0, 1}
           /\ o.sw # "none" => Heard /\ o.cost = 0 /\ From(o, answers)
           /\ Heard /\ o.cost = 0 => o.sw # "none"
BY ExchangeOutcome, KeepsSelf DEF Plain

\* And in the channel, where the chip performs what it is sent if the counters agree.
LEMMA SecuredOutcome ==
    ASSUME NEW answers \in SUBSET AnswerType, chip \in Chip, scpOpen, "damaged" \notin faults,
           \A a \in answers : Keeps(a.chip, chip), NEW o \in Secured(answers)
    PROVE  /\ o.sw \in {"ok", "error", "refused", "none"}
           /\ Keeps(o.chip, chip)
           /\ o.cost \in {0, 1}
           /\ o.sw # "none" => Heard /\ o.cost = 0
           /\ o.sw = "ok" => InChannel
           /\ InChannel /\ o.sw # "none" => From(o, answers)
           /\ Heard /\ o.cost = 0 => o.sw # "none"
<1> DEFINE guesses == {Answer(sw, chip) : sw \in {"error", "refused"}}
           sent == IF InChannel THEN answers ELSE guesses
<1>1. \A a \in guesses : a \in AnswerType /\ a.sw # "ok" /\ a.chip = chip
  BY AnswerTyped
<1>2. sent \in SUBSET AnswerType /\ \A a \in sent : Keeps(a.chip, chip)
  BY <1>1, KeepsSelf
<1>3. Keeps([chip EXCEPT !.agrees = FALSE], chip) /\ [chip EXCEPT !.agrees = FALSE] \in Chip
  BY KeepsSelf, AheadType
<1>4. o \in Exchange(sent, [chip EXCEPT !.agrees = FALSE])
  BY DEF Secured, Wrapped
<1>5. (InChannel => sent = answers) /\ (~InChannel => \A a \in sent : a.sw # "ok")
  BY <1>1
<1> HIDE DEF sent
<1>6. /\ o.sw \in {"ok", "error", "refused", "none"}
      /\ Keeps(o.chip, chip)
      /\ o.cost \in {0, 1}
      /\ o.sw # "none" => Heard /\ o.cost = 0 /\ From(o, sent)
      /\ Heard /\ o.cost = 0 => o.sw # "none"
  BY <1>2, <1>3, <1>4, ExchangeOutcome
<1>7. o.sw = "ok" => InChannel
  BY <1>5, <1>6 DEF From
<1> QED
  BY <1>5, <1>6, <1>7

InStepNow == InChannel /\ chip.selected = "applet"

LEMMA AppletOutcome ==
    ASSUME NEW answers \in SUBSET AnswerType, chip \in Chip, scpOpen, "damaged" \notin faults,
           \A a \in answers : Keeps(a.chip, chip), NEW o \in InApplet(answers)
    PROVE  /\ o.sw \in {"ok", "error", "refused", "none"}
           /\ Keeps(o.chip, chip)
           /\ o.cost \in {0, 1}
           /\ o.sw # "none" => Heard /\ o.cost = 0
           /\ o.sw = "ok" => InStepNow
           /\ InStepNow /\ o.sw # "none" => From(o, answers)
           /\ Heard /\ o.cost = 0 => o.sw # "none"
<1> DEFINE given == IF chip.selected = "applet" THEN answers ELSE {Answer("error", chip)}
<1>1. Answer("error", chip) \in AnswerType /\ Answer("error", chip).sw = "error"
      /\ Answer("error", chip).chip = chip
  BY AnswerTyped
<1>2. given \in SUBSET AnswerType /\ \A a \in given : Keeps(a.chip, chip)
  BY <1>1, KeepsSelf
<1>3. (chip.selected = "applet" => given = answers)
      /\ (chip.selected # "applet" => \A a \in given : a.sw = "error")
  BY <1>1
<1>4. o \in Secured(given)
  BY DEF InApplet
<1> HIDE DEF given
<1>5. /\ o.sw \in {"ok", "error", "refused", "none"}
      /\ Keeps(o.chip, chip)
      /\ o.cost \in {0, 1}
      /\ o.sw # "none" => Heard /\ o.cost = 0
      /\ o.sw = "ok" => InChannel
      /\ InChannel /\ o.sw # "none" => From(o, given)
      /\ Heard /\ o.cost = 0 => o.sw # "none"
  BY <1>2, <1>4, SecuredOutcome
<1>6. o.sw = "ok" => chip.selected = "applet"
  BY <1>3, <1>5 DEF From
<1> QED
  BY <1>3, <1>5, <1>6 DEF InStepNow

InSessionNow == InStepNow /\ chip.session = "open" /\ sessionIdGood

LEMMA SessionOutcome ==
    ASSUME NEW answers \in SUBSET AnswerType, chip \in Chip, scpOpen, "damaged" \notin faults,
           \A a \in answers : Keeps(a.chip, chip), NEW o \in InSession(answers)
    PROVE  /\ o.sw \in {"ok", "error", "refused", "none"}
           /\ Keeps(o.chip, chip)
           /\ o.cost \in {0, 1}
           /\ o.sw # "none" => Heard /\ o.cost = 0
           /\ o.sw = "ok" => InSessionNow
           /\ InSessionNow /\ o.sw # "none" => From(o, answers)
           /\ Heard /\ o.cost = 0 => o.sw # "none"
<1> DEFINE live == chip.session = "open" /\ sessionIdGood
           given == IF live THEN answers ELSE {Answer("error", chip)}
<1>1. Answer("error", chip) \in AnswerType /\ Answer("error", chip).sw = "error"
      /\ Answer("error", chip).chip = chip
  BY AnswerTyped
<1>2. given \in SUBSET AnswerType /\ \A a \in given : Keeps(a.chip, chip)
  BY <1>1, KeepsSelf
<1>3. (live => given = answers) /\ (~live => \A a \in given : a.sw = "error")
  BY <1>1
<1>4. o \in InApplet(given)
  BY DEF InSession
<1> HIDE DEF given
<1>5. /\ o.sw \in {"ok", "error", "refused", "none"}
      /\ Keeps(o.chip, chip)
      /\ o.cost \in {0, 1}
      /\ o.sw # "none" => Heard /\ o.cost = 0
      /\ o.sw = "ok" => InStepNow
      /\ InStepNow /\ o.sw # "none" => From(o, given)
      /\ Heard /\ o.cost = 0 => o.sw # "none"
  BY <1>2, <1>4, AppletOutcome
<1>6. o.sw = "ok" => live
  BY <1>3, <1>5 DEF From
<1> QED
  BY <1>3, <1>5, <1>6 DEF InSessionNow

------------------------------------------------------------------------------
(* The inductive invariant.                                                *)

\* Without rotations, what an operation works for: a node that runs with the chip's identity
\* has both keys in the chip, and only such a node asks for uses of its own.
JobInv ==
    /\ job.op \in {"probe", "ensure", "use", "none"}
    /\ job.op = "probe" => job.why = "test" /\ pc \in Opening \cup {"absent"}
    /\ job.op = "none" <=> pc = "idle"
    /\ job.why = "loop" /\ pc # "idle" => job.op = "use" /\ identity = "chip"
    /\ pc \in {"exists", "generate", "read"} => job.op = "ensure"
AgendaInv ==
    /\ job.op \in {"ensure", "use"} /\ job.why = "test" => WellPlanned(agenda)
    /\ job.why = "identity" =>
         \/ job.key = ExchangeKey /\ agenda = <<IdentityErrand(SigningKey)>>
         \/ job.key = SigningKey /\ agenda = << >> /\ Present(chip, ExchangeKey)
PresentInv ==
    /\ identity = "chip" => \A k \in Keys : Present(chip, k)
    /\ pc = "read" => Present(chip, job.key)
PlanInv == JobInv /\ AgendaInv /\ PresentInv

\* How channel, session and peer object go together.
ChannelInv ==
    /\ chip.selected # "ssd"
    /\ sessionActive => scpOpen
    /\ pc \in Serving => sessionActive
    /\ pc \in Establishing => scpOpen /\ ~sessionActive
    /\ pc \in Opening /\ job.op # "probe" => ~scpOpen
    /\ peerObjReady => chip.peer # "none"
    /\ pc = "peerUpdate" => peerObjReady
    /\ pc = "agreePeer" => chip.peer = "mine"

\* Both sides agree on everything a use needs.
Sound == Heard /\ InSessionNow /\ scpOpen /\ sessionActive

\* A use for the node is under way; at most one fault since the last that was served; none.
Alone == job.why = "loop" /\ pc # "idle"
Near == troubles <= service + 1
Calm == troubles = service

\* After one fault at most: a session is only established where the chip would take it, an
\* idle driver has a session or no channel, and a second lap has the two sides in step.
NearInv ==
    /\ pc \in Establishing => (Heard => InStepNow)
    /\ pc = "verify" => (Heard => chip.session = "created" /\ sessionIdGood)
    /\ pc = "auth" => (Heard => chip.selected = "applet")
    /\ pc = "session" /\ scpOpen /\ ~sessionActive => ~Alone /\ (Heard => InStepNow)
    /\ pc \in {"idle", "reset", "select", "info"} => (scpOpen => sessionActive)
    /\ Alone /\ pc = "session" /\ job.attempt = 2 => ~scpOpen
    /\ Alone /\ pc \in Serving /\ job.attempt = 2 => Sound

\* A link that comes up without another fault.
OpeningInv ==
    /\ pc = "reset" => chip.up \/ (PowerCycle /\ ~cycled)
    /\ pc \in (Opening \ {"reset"}) \cup Establishing => Heard
    /\ pc \in {"info", "init"} => chip.selected = "applet" /\ chip.keys \in left
    /\ pc = "auth" => chip.channel = "begun"

\* Without a fault a use for the node is on its first lap, over a sound session.
CalmInv ==
    /\ chip.up
    /\ Alone => pc \in {"session"} \cup Serving /\ job.attempt = 1 /\ Sound
    /\ pc \in Serving => Sound
    /\ pc = "idle" /\ identity = "chip" => Sound
    /\ pc = "session" => IF sessionActive THEN Sound
                         ELSE IF scpOpen THEN Heard ELSE identity = "none"

NearPath == Near => NearInv /\ result # "failed"
AlonePath == Near /\ Alone => OpeningInv
CalmPath == Calm /\ identity # "file" => OpeningInv /\ CalmInv
Path == NearPath /\ AlonePath /\ CalmPath

\* A chip goes silent only where chips do, and a use is served after the faults before it.
PowerInv == (~chip.up => "silent" \in faults) /\ service <= troubles

FInv == PowerInv /\ (Orderly => PlanInv /\ ChannelInv /\ Path)

\* A carrier that can switch the chip off and on, or a chip that never goes silent.
Recoverable == PowerCycle \/ \A e \in Environments : "silent" \notin e

------------------------------------------------------------------------------
(* How the plan goes on.                                                   *)

\* The next errand of a plan, as the operation under way.
LEMMA NextJobPlan ==
    ASSUME NEW list \in Seq(Errand), NextJob(list), NextErrand(list)
    PROVE  /\ list = << >> => pc' = "idle" /\ job' = NoWork
           /\ list # << >> => /\ pc' = "session" /\ job'.op \in {"ensure", "use"}
                              /\ job'.why \in {"test", "identity"} /\ job' = Head(list)
           /\ job'.why = "loop" => pc' = "idle"
           /\ JobInv' /\ AgendaInv'
<1>1. CASE list = << >>
  <2>1. NoWork.op = "none" /\ NoWork.why = "loop"
    BY DEF NoWork, Work
  <2>2. job' = NoWork /\ agenda' = << >> /\ pc' = "idle"
    BY <1>1 DEF NextJob
  <2> QED
    BY <1>1, <2>1, <2>2 DEF JobInv, AgendaInv
<1>2. CASE list # << >>
  <2>1. Head(list) \in Errand
    BY <1>2
  <2>2. Head(list).op \in {"ensure", "use"} /\ Head(list).why \in {"test", "identity"}
    BY <1>2, <2>1 DEF Errand, NextErrand
  <2>3. job' = Head(list) /\ agenda' = Tail(list) /\ pc' = "session"
    BY <1>2 DEF NextJob
  <2>4. JobInv'
    BY <2>2, <2>3 DEF JobInv
  <2>5. AgendaInv'
    BY <1>2, <2>2, <2>3 DEF AgendaInv, NextErrand
  <2> QED
    BY <1>2, <2>2, <2>3, <2>4, <2>5
<1> QED
  BY <1>1, <1>2

------------------------------------------------------------------------------
(* How operations end.                                                     *)

\* What a plan needs from the chip outlasts every exchange.
LEMMA PresentKept ==
    ASSUME Lasting(chip', chip), NEW k \in Keys, Present(chip, k)
    PROVE  Present(chip', k)
BY DEF Lasting

\* An operation ends, for the test, the identity or the node: the next one is planned, and
\* an identity that is taken has both its keys.
LEMMA FinishPlan ==
    ASSUME IInv, PlanInv, pc # "idle", Lasting(chip', chip), NEW ok \in BOOLEAN, Finish(ok),
           ok => Present(chip', job.key) /\ pc \in Serving
    PROVE  /\ PlanInv' /\ pc' \in {"idle", "session"} /\ ~Alone'
           /\ identity' \in IF ok THEN {identity, "chip", "file"} ELSE {identity, "file"}
<1>1. agenda \in Seq(Errand) /\ << >> \in Seq(Errand) /\ job.key \in Keys
  BY DEF IInv, TypeOK, Job
<1>2. JobInv /\ AgendaInv /\ PresentInv
  BY DEF PlanInv
<1>3. NextErrand(<< >>)
  BY DEF NextErrand
<1>4. ASSUME NEW list \in Seq(Errand), NextJob(list), NextErrand(list),
             identity' = "chip" => \A k \in Keys : Present(chip', k),
             identity' \in IF ok THEN {identity, "chip", "file"} ELSE {identity, "file"}
      PROVE  /\ PlanInv' /\ pc' \in {"idle", "session"} /\ ~Alone'
             /\ identity' \in IF ok THEN {identity, "chip", "file"} ELSE {identity, "file"}
  <2>1. JobInv' /\ AgendaInv' /\ pc' \in {"idle", "session"} /\ (job'.why = "loop" => pc' = "idle")
    BY <1>4, NextJobPlan
  <2>2. PresentInv'
    BY <1>4, <2>1 DEF PresentInv
  <2> QED
    BY <1>4, <2>1, <2>2 DEF PlanInv, Alone
<1>5. identity = "chip" => \A k \in Keys : Present(chip', k)
  BY <1>2, PresentKept DEF PresentInv
<1>6. CASE job.why = "test" /\ NextJob(IF ok THEN agenda ELSE AfterTest) /\ UNCHANGED <<verdicts, rotated>>
  <2>1. identity' = identity
    BY <1>6 DEF verdicts
  <2>2. CASE ~ok
    <3>1. NextErrand(AfterTest) /\ AfterTest \in Seq(Errand)
      BY AgendaTyped, PlansMade, PlanGoesOn
    <3> QED
      BY <1>4, <1>5, <1>6, <2>1, <2>2, <3>1
  <2>3. CASE ok /\ job.op # "probe"
    <3>1. job.op \in {"ensure", "use"}
      BY <1>2, <2>3 DEF JobInv
    <3>2. NextErrand(agenda)
      BY <1>1, <1>2, <1>6, <3>1, PlanGoesOn DEF AgendaInv
    <3> QED
      BY <1>1, <1>4, <1>5, <1>6, <2>1, <2>3, <3>2
  <2>4. ok => job.op # "probe"
    BY <1>2 DEF JobInv, Serving, Opening
  <2> QED
    BY <2>2, <2>3, <2>4
<1>7. CASE job.why = "identity" /\ ok /\ agenda # << >> /\ NextJob(agenda) /\ UNCHANGED <<verdicts, rotated>>
  <2>1. identity' = identity
    BY <1>7 DEF verdicts
  <2>2. job.key = ExchangeKey /\ agenda = <<IdentityErrand(SigningKey)>>
    BY <1>2, <1>7 DEF AgendaInv
  <2>3. /\ IdentityErrand(SigningKey).why = "identity" /\ IdentityErrand(SigningKey).key = SigningKey
    BY ErrandFields DEF Keys
  <2>4. NextErrand(agenda)
    <3> HIDE DEF IdentityErrand
    <3>1. Head(agenda) = IdentityErrand(SigningKey) /\ Tail(agenda) = << >>
      BY <2>2
    <3> QED
      BY <1>7, <2>2, <2>3, <3>1 DEF NextErrand
  <2> QED
    BY <1>1, <1>4, <1>5, <1>7, <2>1, <2>4
<1>8. CASE /\ job.why = "identity" /\ ~(ok /\ agenda # << >>)
           /\ NextJob(<< >>) /\ RunsWith(IF ok THEN "chip" ELSE "file")
  <2>1. identity' = IF ok THEN "chip" ELSE "file"
    BY <1>8 DEF RunsWith
  <2>2. ok => \A k \in Keys : Present(chip', k)
    <3> SUFFICES ASSUME ok PROVE \A k \in Keys : Present(chip', k)
      OBVIOUS
    <3>1. job.key = SigningKey /\ Present(chip, ExchangeKey)
      BY <1>2, <1>8 DEF AgendaInv
    <3> QED
      BY <3>1, PresentKept DEF Keys
  <2> QED
    BY <1>1, <1>3, <1>4, <1>8, <2>1, <2>2
<1>9. CASE job.why = "loop" /\ NextJob(<< >>) /\ identity' = identity
  BY <1>1, <1>3, <1>4, <1>5, <1>9
<1> QED
  BY <1>6, <1>7, <1>8, <1>9 DEF Finish

\* What the node makes of it.
LEMMA FinishVerdict ==
    ASSUME IInv, PlanInv, pc # "idle", NEW ok \in BOOLEAN, Finish(ok)
    PROVE  /\ ok => result' \in {result, "served"} /\ service' \in {service, troubles'}
           /\ ~ok => service' = service
           /\ ~ok /\ job.why # "loop" => result' = result
<1>1. JobInv
  BY DEF PlanInv
<1>2. job.why = "loop" => job.op = "use"
  BY <1>1 DEF JobInv
<1> QED
  BY <1>2 DEF Finish, verdicts, RunsWith

------------------------------------------------------------------------------
(* The path of an operation.                                               *)

\* Between operations, and between laps: the session is the channel's, and without a fault
\* there is one, or a node that has no identity yet will open it.
Ready ==
    /\ Near => scpOpen = sessionActive
    /\ Calm /\ identity # "file" => Sound \/ (~scpOpen /\ identity = "none" /\ chip.up)

LEMMA WithinOne == \A m, n \in Nat : m = n => m <= n + 1
OBVIOUS

LEMMA CalmIsNear ==
    ASSUME TypeOK
    PROVE  Calm => Near
BY DEF Calm, Near, TypeOK

LEMMA CalmIsNearNext ==
    ASSUME TypeOK'
    PROVE  Calm' => Near'
<1>1. troubles' \in Nat /\ service' \in Nat
  BY DEF TypeOK
<1>2. (Calm' => troubles' = service') /\ (troubles' <= service' + 1 => Near')
  BY Zenon DEF Calm, Near
<1>3. troubles' = service' => troubles' <= service' + 1
  BY <1>1, WithinOne, Zenon
<1> QED
  BY <1>2, <1>3, Zenon

LEMMA SoundFields ==
    Sound => /\ chip.up /\ scpOpen /\ sessionActive /\ sessionIdGood /\ Heard /\ InSessionNow
             /\ InStepNow
BY DEF Sound, Heard, InSessionNow

LEMMA SoundFieldsNext ==
    Sound' => /\ chip'.up /\ scpOpen' /\ sessionActive'
BY DEF Sound, Heard

\* The invariant's path holds wherever an operation, or a lap of it, ends ready.
LEMMA Rests ==
    ASSUME TypeOK', pc' \in {"idle", "session"}, Ready',
           Alone' => identity' = "chip" /\ (job'.attempt = 1 \/ ~scpOpen'),
           Alone' /\ Calm' => job'.attempt = 1,
           Near' => result' # "failed"
    PROVE  Path'
<1>1. /\ pc' \notin Opening /\ pc' \notin Establishing /\ pc' \notin Serving
      /\ pc' \notin (Opening \ {"reset"}) \cup Establishing
      /\ pc' # "reset" /\ pc' \notin {"info", "init"} /\ pc' # "auth" /\ pc' # "verify"
  BY DEF Opening, Establishing, Serving
<1>2. OpeningInv'
  BY <1>1 DEF OpeningInv
<1>3. Near' => scpOpen' = sessionActive'
  BY DEF Ready
<1>4. Near' => NearInv'
  BY <1>1, <1>3 DEF NearInv
<1>5. ASSUME Calm', identity' # "file" PROVE CalmInv'
  <2>1. Sound' \/ (~scpOpen' /\ identity' = "none" /\ chip'.up)
    BY <1>5 DEF Ready
  <2>2. ~scpOpen' => ~sessionActive'
    BY <1>3, <1>5, CalmIsNearNext
  <2>3. chip'.up
    BY <2>1, SoundFieldsNext
  <2>4. Alone' => Sound' /\ job'.attempt = 1 /\ pc' \in {"session"} \cup Serving
    BY <1>5, <2>1 DEF Alone
  <2>5. CASE Sound'
    <3>1. sessionActive'
      BY <2>5, SoundFieldsNext
    <3> QED
      BY <1>1, <2>3, <2>4, <2>5, <3>1, Zenon DEF CalmInv
  <2>6. CASE ~scpOpen' /\ identity' = "none" /\ chip'.up
    BY <1>1, <2>2, <2>3, <2>4, <2>6 DEF CalmInv
  <2> QED
    BY <2>1, <2>5, <2>6
<1> QED
  BY <1>2, <1>4, <1>5 DEF Path, NearPath, AlonePath, CalmPath

\* Where the driver rests, its channel is fit for what comes next.
LEMMA RestsInChannel ==
    ASSUME TypeOK, ChannelInv, pc' \in {"idle", "session"}, Lasting(chip', chip),
           sessionActive' => scpOpen', peerObjReady' => peerObjReady \/ chip'.peer # "none"
    PROVE  ChannelInv'
<1>1. /\ pc' \notin Opening /\ pc' \notin Establishing /\ pc' \notin Serving
      /\ pc' # "peerUpdate" /\ pc' # "agreePeer"
  BY DEF Opening, Establishing, Serving
<1>2. chip'.selected # "ssd" /\ (chip.peer # "none" => chip'.peer # "none")
  BY DEF ChannelInv, Lasting
<1> QED
  BY <1>1, <1>2 DEF ChannelInv

\* Faults are only forgotten by a use that is served.
LEMMA Counting ==
    \A t, s, u \in Nat : /\ t <= u /\ u <= s + 1 => t <= s + 1
                         /\ t <= u /\ s <= t /\ u = s => t = s /\ u = t
                         /\ s <= t /\ t <= u => s <= u
OBVIOUS

LEMMA NearBefore ==
    ASSUME TypeOK, TypeOK', service' = service, troubles <= troubles', service <= troubles
    PROVE  (Near' => Near) /\ (Calm' => Calm /\ troubles' = troubles)
<1>1. troubles \in Nat /\ service \in Nat /\ troubles' \in Nat
  BY DEF TypeOK
<1>2. /\ Near' <=> troubles' <= service + 1
      /\ Near <=> troubles <= service + 1
      /\ Calm' <=> troubles' = service
      /\ Calm <=> troubles = service
  BY Zenon DEF Calm, Near
<1> QED
  BY <1>1, <1>2, Counting, Zenon

\* An operation that fails leaves the driver ready, if it fails the node only after a second
\* fault and, without a fault, only before it has an identity.
LEMMA FailsWell ==
    ASSUME IInv, TypeOK', PowerInv, PlanInv, ChannelInv, NearPath, pc # "idle", Fails,
           Lasting(chip', chip), troubles <= troubles',
           sessionActive' => scpOpen', peerObjReady' => peerObjReady,
           Near' => scpOpen' = sessionActive',
           Near' /\ Alone => job.form = "object",
           Calm' /\ identity # "file" => Sound' \/ (~scpOpen' /\ identity = "none" /\ chip'.up)
    PROVE  PlanInv' /\ ChannelInv' /\ Path'
<1>1. TypeOK /\ OperationInv /\ JobInv /\ AgendaInv /\ PresentInv
  BY DEF IInv, PlanInv
<1>2. job \in Job
  BY <1>1 DEF TypeOK
<1>3. service <= troubles
  BY DEF PowerInv
<1>4. CASE job.op \in {"rotate", "reopen"}
  BY <1>1, <1>4 DEF JobInv
<1>5. CASE /\ job.form = "object"
           /\ job' = [job EXCEPT !.form = "bytes", !.attempt = 1] /\ pc' = "session"
           /\ UNCHANGED <<agenda, cycled, verdicts, rotated>>
  <2>1. /\ job.op = "use" /\ job.why = "loop"
    BY <1>1, <1>5 DEF OperationInv
  <2>2. /\ job'.op = "use" /\ job'.why = "loop" /\ job'.attempt = 1
    BY <1>2, <1>5, <2>1 DEF Job
  <2>3. identity' = identity /\ result' = result /\ service' = service /\ identity = "chip"
    BY <1>1, <1>5, <2>1 DEF verdicts, JobInv
  <2>4. JobInv'
    BY <1>5, <2>2, <2>3 DEF JobInv
  <2>5. AgendaInv'
    BY <2>2 DEF AgendaInv
  <2>6. PresentInv'
    <3>1. \A k \in Keys : Present(chip', k)
      BY <1>1, <2>3, PresentKept DEF PresentInv
    <3> QED
      BY <1>5, <3>1 DEF PresentInv
  <2>7. Near' => result' # "failed"
    BY <1>1, <1>3, <2>3, NearBefore, Zenon DEF NearPath
  <2>8. Ready'
    BY <2>3, Zenon DEF Ready
  <2>9. Path'
    BY <1>5, <2>2, <2>3, <2>7, <2>8, Rests, Zenon
  <2>10. ChannelInv'
    BY <1>1, <1>5, RestsInChannel, Zenon
  <2> QED
    BY <2>4, <2>5, <2>6, <2>9, <2>10 DEF PlanInv
<1>6. CASE job.form = "bytes" /\ Finish(FALSE)
  <2>1. /\ PlanInv' /\ pc' \in {"idle", "session"} /\ ~Alone'
        /\ identity' \in {identity, "file"}
    BY <1>6, FinishPlan
  <2>2. /\ service' = service
        /\ job.why # "loop" => result' = result
    BY <1>6, FinishVerdict
  <2>3. Near' => result' # "failed"
    <3>1. Near' => job.why # "loop"
      BY <1>6, Zenon DEF Alone
    <3> QED
      BY <1>1, <1>3, <2>2, <3>1, NearBefore, Zenon DEF NearPath
  <2>4. Ready'
    BY <2>1, Zenon DEF Ready
  <2>5. Path'
    BY <2>1, <2>3, <2>4, Rests, Zenon
  <2>6. ChannelInv'
    BY <1>1, <2>1, RestsInChannel, Zenon
  <2> QED
    BY <2>1, <2>5, <2>6
<1> QED
  BY <1>4, <1>5, <1>6 DEF Fails

LEMMA FailsVerdict ==
    ASSUME IInv, PlanInv, pc # "idle", Fails
    PROVE  service' = service
<1>1. JobInv
  BY DEF PlanInv
<1> QED
  BY <1>1, FinishVerdict DEF Fails, verdicts, JobInv

\* An operation that is served leaves the two sides in step.
LEMMA FinishWell ==
    ASSUME IInv, TypeOK', PowerInv, PlanInv, ChannelInv, NearPath, pc \in Serving, Finish(TRUE),
           Lasting(chip', chip), troubles' = troubles,
           Present(chip', job.key), Sound', peerObjReady' => peerObjReady
    PROVE  PlanInv' /\ ChannelInv' /\ Path'
<1>1. TypeOK /\ pc # "idle" /\ service <= troubles /\ troubles <= troubles' /\ troubles \in Nat
  BY DEF IInv, PowerInv, TypeOK, Serving
<1>2. PlanInv' /\ pc' \in {"idle", "session"} /\ ~Alone'
  BY <1>1, FinishPlan
<1>3. result' \in {result, "served"} /\ service' \in {service, troubles'}
  BY <1>1, FinishVerdict
<1>4. Near' => result' # "failed"
  <2>1. CASE result' = "served"
    BY <2>1
  <2>2. CASE result' = result /\ service' = service
    BY <1>1, <2>2, NearBefore, Zenon DEF NearPath
  <2>3. CASE result' = result /\ service' # service
    <3>1. job.why = "loop" /\ job.op = "use"
      BY <2>3 DEF Finish, verdicts, RunsWith
    <3>2. result' = "served"
      BY <3>1 DEF Finish
    <3> QED
      BY <3>2
  <2> QED
    BY <1>3, <2>1, <2>2, <2>3
<1>5. scpOpen' /\ sessionActive'
  BY SoundFieldsNext
<1>6. Ready'
  BY <1>5, Zenon DEF Ready
<1>7. Path'
  BY <1>2, <1>4, <1>6, Rests, Zenon
<1>8. ChannelInv'
  BY <1>1, <1>2, <1>5, RestsInChannel, Zenon
<1> QED
  BY <1>2, <1>7, <1>8

\* One more fault than the one that is forgiven.
LEMMA SecondFault ==
    \A t, s, u \in Nat : s <= t /\ t <= u /\ u <= s + 1 /\ u # t => t = s
OBVIOUS

LEMMA NoSecondFault ==
    ASSUME TypeOK, TypeOK', service' = service, troubles <= troubles', service <= troubles,
           troubles' # troubles, Near'
    PROVE  Calm
<1>1. troubles \in Nat /\ service \in Nat /\ troubles' \in Nat
  BY DEF TypeOK
<1>2. troubles' <= service + 1 /\ (troubles = service => Calm)
  BY Zenon DEF Calm, Near
<1> QED
  BY <1>1, <1>2, SecondFault, Zenon

\* A lap that is given up leaves the driver ready for the next, or for the next operation, if
\* between two sides in step only a fault fails it.
LEMMA RetryWell ==
    ASSUME IInv, TypeOK', PowerInv, PlanInv, ChannelInv, Path, pc \in Serving, CloseAndRetry,
           Lasting(chip', chip), chip'.up = chip.up, troubles <= troubles',
           peerObjReady' => peerObjReady,
           Sound /\ identity = "chip" => troubles' # troubles
    PROVE  PlanInv' /\ ChannelInv' /\ Path'
<1>1. TypeOK /\ JobInv /\ AgendaInv /\ PresentInv /\ NearPath /\ CalmPath
  BY DEF IInv, PlanInv, Path
<1>2. job \in Job /\ pc # "idle" /\ identity \in {"none", "chip", "file"}
  BY <1>1 DEF TypeOK, Serving
<1>3. service <= troubles
  BY DEF PowerInv
<1>4. scpOpen' = FALSE /\ sessionActive' = FALSE
  BY DEF CloseAndRetry, CloseChannel
<1>5. service' = service => (Near' => Near) /\ (Calm' => Calm /\ troubles' = troubles)
  BY <1>1, <1>3, NearBefore, Zenon
<1>6. Calm /\ identity # "file" => chip.up /\ Sound
  BY <1>1, Zenon DEF CalmPath, CalmInv
<1>7. Alone => identity = "chip"
  BY <1>1, <1>2, Zenon DEF Alone, JobInv
<1>8. CASE job.attempt = 1
  <2>1. job' = [job EXCEPT !.attempt = 2] /\ pc' = "session"
        /\ UNCHANGED <<agenda, cycled, verdicts, rotated>>
    BY <1>8 DEF CloseAndRetry
  <2>2. job'.op = job.op /\ job'.why = job.why /\ job'.key = job.key /\ job'.attempt = 2
    BY <1>2, <2>1 DEF Job
  <2>3. identity' = identity /\ result' = result /\ service' = service /\ agenda' = agenda
    BY <2>1 DEF verdicts
  <2>4. JobInv'
    <3>1. pc' \notin {"idle", "exists", "generate", "read"}
      BY <2>1
    <3>2. job.op # "probe" /\ job.op # "none"
      BY <1>1, <1>2 DEF JobInv, Serving, Opening
    <3> QED
      BY <1>1, <1>2, <2>2, <2>3, <3>1, <3>2 DEF JobInv
  <2>5. AgendaInv'
    <3>1. Present(chip, ExchangeKey) => Present(chip', ExchangeKey)
      BY PresentKept DEF Keys
    <3> QED
      BY <1>1, <2>2, <2>3, <3>1 DEF AgendaInv
  <2>6. PresentInv'
    <3>1. identity = "chip" => \A k \in Keys : Present(chip', k)
      BY <1>1, PresentKept DEF PresentInv
    <3> QED
      BY <2>1, <2>3, <3>1 DEF PresentInv
  <2>7. Near' => result' # "failed"
    BY <1>1, <1>5, <2>3, Zenon DEF NearPath
  <2>8. Alone' => Alone
    BY <1>2, <2>2, Zenon DEF Alone
  <2>9. ~(Alone' /\ Calm')
    BY <1>5, <1>6, <1>7, <2>3, <2>8, Zenon
  <2>10. Calm' /\ identity # "file" => identity' = "none" /\ chip'.up
    BY <1>2, <1>5, <1>6, <2>3, Zenon
  <2>11. Ready'
    BY <1>4, <2>3, <2>10, Zenon DEF Ready
  <2>12. Path'
    BY <1>4, <1>7, <2>1, <2>3, <2>7, <2>8, <2>9, <2>11, Rests, Zenon
  <2>13. ChannelInv'
    BY <1>1, <1>4, <2>1, RestsInChannel, Zenon
  <2> QED
    BY <2>4, <2>5, <2>6, <2>12, <2>13 DEF PlanInv
<1>9. CASE job.attempt = 2 /\ Fails
  <2>1. service' = service
    BY <1>1, <1>2, <1>9, FailsVerdict
  <2>2. ~(Near' /\ Alone)
    <3> SUFFICES ASSUME Near', Alone PROVE FALSE
      OBVIOUS
    <3>1. Sound /\ identity = "chip"
      BY <1>1, <1>5, <1>7, <1>9, <2>1, Zenon DEF NearPath, NearInv
    <3>2. Calm
      BY <1>1, <1>3, <2>1, <3>1, NoSecondFault, Zenon
    <3>3. job.attempt = 1
      BY <1>1, <3>1, <3>2 DEF CalmPath, CalmInv
    <3> QED
      BY <1>9, <3>3
  <2>3. Calm' /\ identity # "file" => ~scpOpen' /\ identity = "none" /\ chip'.up
    BY <1>2, <1>4, <1>5, <1>6, <2>1, Zenon
  <2> QED
    BY <1>1, <1>2, <1>4, <1>9, <2>2, <2>3, FailsWell, Zenon
<1> QED
  BY <1>2, <1>8, <1>9 DEF CloseAndRetry, Job

------------------------------------------------------------------------------
(* Commands in the session.                                                *)

\* The part of the chip a command in the session leaves alone.
SameLink(d, c) ==
    /\ d.expects = c.expects /\ d.selected = c.selected /\ d.channel = c.channel
    /\ d.agrees = c.agrees /\ d.session = c.session

Before == IInv /\ TypeOK' /\ PowerInv /\ Orderly /\ PlanInv /\ ChannelInv /\ Path
After == PlanInv' /\ ChannelInv' /\ Path'

LEMMA BeforeFields ==
    Before => /\ IInv /\ TypeOK /\ TypeOK' /\ OperationInv /\ StepInv /\ chip \in Chip /\ job \in Job
              /\ PowerInv /\ PlanInv /\ JobInv /\ AgendaInv /\ PresentInv /\ ChannelInv
              /\ Path /\ NearPath /\ AlonePath /\ CalmPath
              /\ "damaged" \notin faults /\ troubles \in Nat /\ service <= troubles
BY DEF Before, IInv, TypeOK, PlanInv, Path, Orderly, PowerInv

\* Both sides stay in step over a command the chip answered.
LEMMA SoundTaken ==
    ASSUME chip \in Chip, seq \in {0, 1}, Sound, NEW c \in Chip, Keeps(c, chip), SameLink(c, chip),
           chip' = Took(c), seq' = 1 - seq, scpOpen', sessionActive', sessionIdGood'
    PROVE  Sound'
<1>1. /\ chip.up /\ seq = chip.expects /\ chip.channel = "open" /\ chip.agrees
      /\ chip.selected = "applet" /\ chip.session = "open"
  BY DEF Sound, Heard, InSessionNow, InStepNow, InChannel
<1>2. /\ c.up /\ c.expects = chip.expects /\ c.channel = "open" /\ c.agrees
      /\ c.selected = "applet" /\ c.session = "open"
  BY <1>1 DEF Keeps, SameLink
<1>3. /\ chip'.up /\ chip'.expects = 1 - chip.expects /\ chip'.channel = "open" /\ chip'.agrees
      /\ chip'.selected = "applet" /\ chip'.session = "open"
  BY <1>2 DEF Took, Chip
<1> QED
  BY <1>1, <1>3 DEF Sound, Heard, InSessionNow, InStepNow, InChannel

\* What a command in the session tells and leaves.
LEMMA ServingStep ==
    ASSUME Before, pc \in Serving, NEW answers \in SUBSET AnswerType,
           \A a \in answers : Keeps(a.chip, chip) /\ SameLink(a.chip, chip),
           NEW o \in InSession(answers), Happened(o, scpOpen)
    PROVE  /\ o.sw \in {"ok", "error", "refused", "none"}
           /\ Keeps(chip', chip)
           /\ troubles <= troubles'
           /\ o.sw = "ok" => troubles' = troubles /\ Sound /\ From(o, answers)
           /\ Sound /\ troubles' = troubles => From(o, answers)
           /\ Sound /\ From(o, answers) /\ scpOpen' /\ sessionActive' /\ sessionIdGood' => Sound'
<1>1. /\ TypeOK /\ chip \in Chip /\ ChannelInv /\ "damaged" \notin faults /\ troubles \in Nat
  BY BeforeFields
<1>2. scpOpen /\ sessionActive /\ seq \in {0, 1}
  BY <1>1 DEF ChannelInv, TypeOK
<1>3. /\ o.sw \in {"ok", "error", "refused", "none"}
      /\ Keeps(o.chip, chip)
      /\ o.cost \in {0, 1}
      /\ o.sw # "none" => Heard /\ o.cost = 0
      /\ o.sw = "ok" => InSessionNow
      /\ InSessionNow /\ o.sw # "none" => From(o, answers)
      /\ Heard /\ o.cost = 0 => o.sw # "none"
  BY <1>1, <1>2, SessionOutcome
<1>4. chip' = o.chip /\ troubles' = troubles + o.cost /\ seq' = 1 - seq
  BY <1>2 DEF Happened
<1>5. troubles <= troubles' /\ (o.cost = 0 <=> troubles' = troubles)
  BY <1>1, <1>3, <1>4
<1>6. Sound <=> Heard /\ InSessionNow
  BY <1>2 DEF Sound
<1>7. ASSUME Sound, From(o, answers), scpOpen', sessionActive', sessionIdGood' PROVE Sound'
  <2>1. PICK a \in answers : o.chip = Took(a.chip)
    BY <1>7 DEF From
  <2>2. a.chip \in Chip
    BY DEF AnswerType
  <2> QED
    BY <1>1, <1>2, <1>4, <1>7, <2>1, <2>2, SoundTaken
<1>8. o.sw = "ok" => troubles' = troubles /\ Sound /\ From(o, answers)
  BY <1>3, <1>5, <1>6
<1>9. Sound /\ troubles' = troubles => From(o, answers)
  BY <1>3, <1>5, <1>6
<1> QED
  BY <1>3, <1>4, <1>5, <1>7, <1>8, <1>9

\* An operation goes on in its session; on its second lap, and without a fault, the two sides
\* are in step.
LEMMA ServesOn ==
    ASSUME Before, pc \notin Opening \cup {"absent", "idle"}, NEW step \in Serving, pc' = step,
           UNCHANGED <<job, agenda, verdicts>>,
           Lasting(chip', chip), troubles' = troubles, scpOpen', sessionActive',
           (Near /\ Alone /\ job.attempt = 2) \/ (Calm /\ identity # "file") => Sound',
           peerObjReady' => chip'.peer # "none",
           step = "peerUpdate" => peerObjReady', step = "agreePeer" => chip'.peer = "mine",
           step \in {"exists", "generate", "read"} => job.op = "ensure",
           step = "read" => Present(chip', job.key)
    PROVE  After
<1>1. /\ TypeOK /\ JobInv /\ AgendaInv /\ PresentInv /\ ChannelInv /\ NearPath /\ CalmPath
  BY BeforeFields
<1>2. pc' = step /\ job' = job /\ agenda' = agenda /\ identity' = identity /\ result' = result
      /\ service' = service
  BY DEF verdicts
<1>3. /\ pc' \in Serving /\ pc' \notin Opening /\ pc' \notin Establishing
      /\ pc' \notin (Opening \ {"reset"}) \cup Establishing
      /\ pc' \notin {"idle", "reset", "select", "info"} /\ pc' # "reset" /\ pc' \notin {"info", "init"}
      /\ pc' # "auth" /\ pc' # "verify" /\ pc' # "session" /\ pc' # "idle"
      /\ pc # "idle" /\ pc \notin Opening \cup {"absent"}
  BY <1>2 DEF Serving, Opening, Establishing
<1>4. JobInv'
  BY <1>1, <1>2, <1>3 DEF JobInv
<1>5. AgendaInv'
  <2>1. Present(chip, ExchangeKey) => Present(chip', ExchangeKey)
    BY PresentKept DEF Keys
  <2> QED
    BY <1>1, <1>2, <2>1 DEF AgendaInv
<1>6. PresentInv'
  <2>1. identity = "chip" => \A k \in Keys : Present(chip', k)
    BY <1>1, PresentKept DEF PresentInv
  <2> QED
    BY <1>2, <2>1 DEF PresentInv
<1>7. Calm /\ identity # "file" => Sound' /\ chip'.up
  BY SoundFieldsNext
<1>8. ChannelInv'
  <2>1. chip'.selected # "ssd"
    BY <1>1 DEF ChannelInv, Lasting
  <2> QED
    BY <1>2, <1>3, <2>1, Zenon DEF ChannelInv
<1>9. (Near' => Near) /\ (Calm' => Calm)
  BY <1>2 DEF Near, Calm
<1>10. Near' => NearInv'
  <2>1. (Alone' => Alone) /\ job'.attempt = job.attempt
    BY <1>2, <1>3 DEF Alone
  <2> QED
    BY <1>3, <1>9, <2>1, Zenon DEF NearInv
<1>11. OpeningInv'
  BY <1>3, Zenon DEF OpeningInv
<1>12. ASSUME Calm', identity' # "file" PROVE CalmInv'
  <2>1. Alone => job.attempt = 1
    BY <1>1, <1>2, <1>9, <1>12, Zenon DEF CalmPath, CalmInv
  <2>2. Alone' => job'.attempt = 1 /\ pc' \in {"session"} \cup Serving
    BY <1>2, <1>3, <2>1, Zenon DEF Alone
  <2> QED
    BY <1>2, <1>3, <1>7, <1>9, <1>12, <2>2, Zenon DEF CalmInv
<1>13. Near' => result' # "failed"
  BY <1>1, <1>2, <1>9, Zenon DEF NearPath
<1>14. Path'
  BY <1>10, <1>11, <1>12, <1>13, Zenon DEF Path, NearPath, AlonePath, CalmPath
<1> QED
  BY <1>4, <1>5, <1>6, <1>8, <1>14 DEF After, PlanInv

LEMMA ServesSoundly ==
    ASSUME Before, pc \in Serving \cup {"verify"}, NEW step \in Serving, Goto(step),
           Lasting(chip', chip), troubles' = troubles, Sound',
           peerObjReady' => chip'.peer # "none",
           step = "peerUpdate" => peerObjReady', step = "agreePeer" => chip'.peer = "mine",
           step \in {"exists", "generate", "read"} => job.op = "ensure",
           step = "read" => Present(chip', job.key)
    PROVE  After
<1>1. pc \notin Opening \cup {"absent", "idle"}
  BY DEF Opening, Serving
<1>2. pc' = step /\ UNCHANGED <<job, agenda, verdicts>>
  BY DEF Goto
<1>3. scpOpen' /\ sessionActive'
  BY SoundFieldsNext
<1> QED
  BY <1>1, <1>2, <1>3, ServesOn

\* Lost channels, served commands.
LEMMA KeptOpen ==
    ASSUME NEW o, KeepOrClose(o), o.sw \in {"ok", "error"}, scpOpen, sessionActive
    PROVE  scpOpen' /\ sessionActive'
BY DEF KeepOrClose, Closing

LEMMA KeptTogether ==
    ASSUME Before, pc \in Serving, NEW o, KeepOrClose(o)
    PROVE  scpOpen' = sessionActive'
BY BeforeFields DEF KeepOrClose, ChannelInv, TypeOK

LEMMA SessionUp ==
    ASSUME Before, pc \in Serving
    PROVE  scpOpen /\ sessionActive /\ (Sound => sessionIdGood)
BY BeforeFields DEF ChannelInv, Sound, InSessionNow

\* Without a fault so far, a command that fails is not one over a sound session.
LEMMA CalmServing ==
    ASSUME Before, pc \in Serving, Fails, troubles <= troubles', Calm', identity # "file"
    PROVE  Sound /\ troubles' = troubles
<1>1. /\ IInv /\ TypeOK /\ TypeOK' /\ PlanInv /\ CalmPath /\ service <= troubles
  BY BeforeFields DEF Before
<1>2. pc # "idle"
  BY DEF Serving
<1>3. service' = service
  BY <1>1, <1>2, FailsVerdict
<1>4. Calm /\ troubles' = troubles
  BY <1>1, <1>3, NearBefore, Zenon
<1> QED
  BY <1>1, <1>4, Zenon DEF CalmPath, CalmInv

\* The link fields of an answer that writes at most a key or the peer object.
LEMMA WritesNoLink ==
    ASSUME chip \in Chip, NEW k \in Keys, NEW v \in {"original", "replaced"}
    PROVE  /\ Keeps(chip, chip) /\ SameLink(chip, chip)
           /\ Keeps([chip EXCEPT !.key[k] = v], chip) /\ SameLink([chip EXCEPT !.key[k] = v], chip)
           /\ Present([chip EXCEPT !.key[k] = v], k)
           /\ Keeps([chip EXCEPT !.peer = "mine"], chip)
           /\ SameLink([chip EXCEPT !.peer = "mine"], chip)
           /\ [chip EXCEPT !.key[k] = v] \in Chip /\ [chip EXCEPT !.peer = "mine"] \in Chip
BY DEF Keeps, Lasting, SameLink, Present, Chip

LEMMA ExistsWell == ASSUME Before, Exists PROVE After
<1> DEFINE answers == {Report(Present(chip, job.key))}
<1>1. /\ chip \in Chip /\ job \in Job /\ JobInv /\ ChannelInv /\ TypeOK /\ pc = "exists"
  BY BeforeFields DEF Exists
<1>2. /\ Report(Present(chip, job.key)) \in AnswerType
      /\ Report(Present(chip, job.key)).says = Present(chip, job.key)
      /\ Report(Present(chip, job.key)).sw = "ok"
      /\ Report(Present(chip, job.key)).chip = chip
  <2>1. Present(chip, job.key) \in BOOLEAN
    BY DEF Present
  <2> QED
    BY <1>1, <2>1, ReportTyped DEF Report
<1>3. /\ answers \in SUBSET AnswerType
      /\ \A a \in answers : Keeps(a.chip, chip) /\ SameLink(a.chip, chip)
  <2>1. Keeps(chip, chip) /\ SameLink(chip, chip)
    BY <1>1, KeepsSelf DEF SameLink
  <2> QED
    BY <1>2, <2>1
<1>4. PICK o \in InSession(answers) :
        /\ Happened(o, scpOpen)
        /\ \/ o.sw = "ok" /\ KeepOrClose(o) /\ Goto(IF o.says THEN "read" ELSE "generate")
           \/ o.sw # "ok" /\ CloseAndRetry
  BY DEF Exists, Present
<1>5. sessionIdGood' = sessionIdGood /\ peerObjReady' = peerObjReady
  BY DEF Exists
<1>6. pc \in Serving
  BY <1>1 DEF Serving
<1> HIDE DEF answers
<1>7. /\ Keeps(chip', chip)
      /\ troubles <= troubles'
      /\ o.sw = "ok" => troubles' = troubles /\ Sound /\ From(o, answers)
      /\ Sound /\ troubles' = troubles => From(o, answers)
      /\ Sound /\ From(o, answers) /\ scpOpen' /\ sessionActive' /\ sessionIdGood' => Sound'
  BY <1>3, <1>4, <1>6, ServingStep
<1>8. Lasting(chip', chip) /\ chip'.up = chip.up
  BY <1>7 DEF Keeps
<1>9. From(o, answers) => o.sw = "ok" /\ o.says = Present(chip, job.key) /\ chip' = Took(chip)
  <2>1. chip' = o.chip
    BY <1>4 DEF Happened
  <2> QED
    BY <1>2, <2>1 DEF From, answers
<1>10. CASE o.sw = "ok" /\ KeepOrClose(o) /\ Goto(IF o.says THEN "read" ELSE "generate")
  <2>1. Sound' /\ troubles' = troubles
    BY <1>5, <1>6, <1>7, <1>10, KeptOpen, SessionUp
  <2>2. job.op = "ensure"
    BY <1>1 DEF JobInv
  <2>3. peerObjReady' => chip'.peer # "none"
    BY <1>1, <1>5, <1>8 DEF ChannelInv, Lasting
  <2>4. o.says => Present(chip', job.key)
    BY <1>1, <1>7, <1>8, <1>9, <1>10, PresentKept DEF Job
  <2>5. "read" \in Serving /\ "generate" \in Serving
    BY DEF Serving
  <2>6. CASE o.says
    <3>1. Goto("read")
      BY <1>10, <2>6
    <3> QED
      BY <1>6, <1>8, <2>1, <2>2, <2>3, <2>4, <2>5, <2>6, <3>1, ServesSoundly
  <2>7. CASE ~o.says
    <3>1. Goto("generate")
      BY <1>10, <2>7
    <3> QED
      BY <1>6, <1>8, <2>1, <2>2, <2>3, <2>5, <3>1, ServesSoundly
  <2> QED
    BY <2>6, <2>7
<1>11. CASE o.sw # "ok" /\ CloseAndRetry
  <2>1. Sound /\ identity = "chip" => troubles' # troubles
    BY <1>7, <1>9, <1>11
  <2> QED
    BY <1>5, <1>6, <1>7, <1>8, <1>11, <2>1, BeforeFields, RetryWell DEF After
<1> QED
  BY <1>4, <1>10, <1>11

LEMMA GenerateWell == ASSUME Before, Generate PROVE After
<1> DEFINE new == [chip EXCEPT !.key[job.key] = Generated]
           answers == {Answer("ok", new)}
<1>1. /\ chip \in Chip /\ job \in Job /\ JobInv /\ ChannelInv /\ TypeOK /\ pc = "generate"
      /\ "damaged" \notin faults /\ NearPath /\ PowerInv /\ IInv /\ TypeOK' /\ PlanInv
  BY BeforeFields DEF Generate
<1>2. job.key \in Keys /\ Generated \in {"original", "replaced"}
  BY <1>1 DEF Job, Generated
<1>3. /\ new \in Chip /\ Keeps(new, chip) /\ SameLink(new, chip) /\ Present(new, job.key)
  BY <1>1, <1>2, WritesNoLink
<1> HIDE DEF new
<1>4. /\ answers \in SUBSET AnswerType
      /\ \A a \in answers : a.sw = "ok" /\ a.chip = new /\ Keeps(a.chip, chip) /\ SameLink(a.chip, chip)
  BY <1>3, AnswerTyped
<1>5. PICK o \in InSession(answers) :
        /\ Happened(o, scpOpen) /\ KeepOrClose(o)
        /\ \/ Accepted(o) /\ Goto("read")
           \/ ~Accepted(o) /\ Fails
  BY DEF Generate, new
<1>6. sessionIdGood' = sessionIdGood /\ peerObjReady' = peerObjReady
  BY DEF Generate
<1>7. pc \in Serving
  BY <1>1 DEF Serving
<1> HIDE DEF answers
<1>8. /\ o.sw \in {"ok", "error", "refused", "none"}
      /\ Keeps(chip', chip)
      /\ troubles <= troubles'
      /\ o.sw = "ok" => troubles' = troubles /\ Sound /\ From(o, answers)
      /\ Sound /\ troubles' = troubles => From(o, answers)
      /\ Sound /\ From(o, answers) /\ scpOpen' /\ sessionActive' /\ sessionIdGood' => Sound'
  BY <1>4, <1>5, <1>7, ServingStep
<1>9. Lasting(chip', chip) /\ chip'.up = chip.up
  BY <1>8 DEF Keeps
<1>10. From(o, answers) => o.sw = "ok" /\ chip' = Took(new)
  <2>1. chip' = o.chip
    BY <1>5 DEF Happened
  <2> QED
    BY <1>4, <2>1 DEF From
<1>11. job.op = "ensure"
  BY <1>1 DEF JobInv
<1>12. CASE o.sw = "ok" /\ Goto("read")
  <2>1. Sound' /\ troubles' = troubles
    BY <1>5, <1>6, <1>7, <1>8, <1>12, KeptOpen, SessionUp
  <2>2. peerObjReady' => chip'.peer # "none"
    BY <1>1, <1>6, <1>9 DEF ChannelInv, Lasting
  <2>3. Present(chip', job.key)
    <3>1. Present(Took(new), job.key)
      BY <1>2, <1>3, TookFields DEF Present, SameStore
    <3> QED
      BY <1>8, <1>10, <1>12, <3>1
  <2>4. "read" \in Serving
    BY DEF Serving
  <2> QED
    BY <1>7, <1>9, <1>11, <1>12, <2>1, <2>2, <2>3, <2>4, ServesSoundly
<1>13. CASE o.sw # "ok" /\ Fails
  <2>1. ~Alone
    BY <1>1, <1>11 DEF JobInv, Alone
  <2>2. scpOpen' = sessionActive'
    BY <1>5, <1>7, KeptTogether
  <2>3. ~(Sound /\ troubles' = troubles)
    BY <1>8, <1>10, <1>13
  <2>4. ~(Calm' /\ identity # "file")
    BY <1>7, <1>8, <1>13, <2>3, CalmServing
  <2> QED
    BY <1>1, <1>6, <1>7, <1>8, <1>9, <1>13, <2>1, <2>2, <2>4, FailsWell, Zenon DEF After, Serving
<1> QED
  BY <1>5, <1>8, <1>12, <1>13 DEF Accepted

\* A command whose only answer is the chip's word on what it holds.
LEMMA WordOfTheChip ==
    ASSUME chip \in Chip, NEW bad \in BOOLEAN
    PROVE  LET a == Answer(IF bad THEN "error" ELSE "ok", chip)
           IN  /\ a \in AnswerType /\ a.chip = chip /\ (a.sw = "ok" <=> ~bad)
               /\ Keeps(a.chip, chip) /\ SameLink(a.chip, chip)
<1> DEFINE sw == IF bad THEN "error" ELSE "ok"
           a == Answer(sw, chip)
<1>1. sw \in {"ok", "error", "refused"} /\ (sw = "ok" <=> ~bad)
  OBVIOUS
<1> HIDE DEF sw
<1>2. a \in AnswerType /\ a.chip = chip /\ a.sw = sw
  BY <1>1, AnswerTyped
<1> HIDE DEF a
<1>3. Keeps(a.chip, chip) /\ SameLink(a.chip, chip)
  BY <1>2, KeepsSelf DEF SameLink
<1>4. a \in AnswerType /\ a.chip = chip /\ (a.sw = "ok" <=> ~bad)
      /\ Keeps(a.chip, chip) /\ SameLink(a.chip, chip)
  BY <1>1, <1>2, <1>3
<1> QED
  BY <1>4 DEF a, sw

LEMMA ReadPublicWell == ASSUME Before, ReadPublic PROVE After
<1> DEFINE a == Answer(IF chip.key[job.key] = "absent" THEN "error" ELSE "ok", chip)
<1>1. /\ chip \in Chip /\ job \in Job /\ JobInv /\ PresentInv /\ ChannelInv /\ TypeOK /\ pc = "read"
      /\ IInv /\ TypeOK' /\ PowerInv /\ PlanInv /\ NearPath
  BY BeforeFields DEF ReadPublic
<1>2. a \in AnswerType /\ a.chip = chip /\ Keeps(a.chip, chip) /\ SameLink(a.chip, chip)
      /\ a.sw = "ok" /\ Present(chip, job.key)
  BY <1>1, WordOfTheChip DEF PresentInv, Present
<1>3. PICK o \in InSession({a}) :
        /\ Happened(o, scpOpen) /\ KeepOrClose(o)
        /\ \/ o.sw = "ok" /\ Finish(TRUE)
           \/ o.sw # "ok" /\ Fails
  BY DEF ReadPublic
<1>4. sessionIdGood' = sessionIdGood /\ peerObjReady' = peerObjReady
  BY DEF ReadPublic
<1>5. pc \in Serving /\ pc # "idle"
  BY <1>1 DEF Serving
<1> HIDE DEF a
<1>6. /\ Keeps(chip', chip)
      /\ troubles <= troubles'
      /\ o.sw = "ok" => troubles' = troubles /\ Sound /\ From(o, {a})
      /\ Sound /\ troubles' = troubles => From(o, {a})
      /\ Sound /\ From(o, {a}) /\ scpOpen' /\ sessionActive' /\ sessionIdGood' => Sound'
  BY <1>2, <1>3, <1>5, ServingStep
<1>7. Lasting(chip', chip) /\ chip'.up = chip.up
  BY <1>6 DEF Keeps
<1>8. From(o, {a}) => o.sw = "ok"
  BY <1>2 DEF From
<1>9. CASE o.sw = "ok" /\ Finish(TRUE)
  <2>1. Sound' /\ troubles' = troubles
    BY <1>3, <1>4, <1>5, <1>6, <1>9, KeptOpen, SessionUp
  <2>2. Present(chip', job.key)
    BY <1>1, <1>2, <1>7, PresentKept DEF Job
  <2> QED
    BY <1>1, <1>4, <1>5, <1>7, <1>9, <2>1, <2>2, FinishWell, Zenon DEF After
<1>10. CASE o.sw # "ok" /\ Fails
  <2>1. ~Alone
    BY <1>1 DEF JobInv, Alone
  <2>2. scpOpen' = sessionActive'
    BY <1>3, <1>5, KeptTogether
  <2>3. ~(Calm' /\ identity # "file")
    BY <1>5, <1>6, <1>8, <1>10, CalmServing
  <2> QED
    BY <1>1, <1>4, <1>5, <1>6, <1>7, <1>10, <2>1, <2>2, <2>3, FailsWell, Zenon DEF After
<1> QED
  BY <1>3, <1>9, <1>10

LEMMA AgreeWell == ASSUME Before, Agree PROVE After
<1> DEFINE a == Answer(IF chip.key[job.key] = "absent" THEN "error" ELSE "ok", chip)
<1>1. /\ chip \in Chip /\ job \in Job /\ JobInv /\ PresentInv /\ ChannelInv /\ TypeOK /\ pc = "agree"
      /\ IInv /\ TypeOK' /\ PowerInv /\ PlanInv /\ NearPath /\ Path
  BY BeforeFields DEF Agree
<1>2. a \in AnswerType /\ a.chip = chip /\ Keeps(a.chip, chip) /\ SameLink(a.chip, chip)
      /\ (a.sw = "ok" <=> Present(chip, job.key))
  BY <1>1, WordOfTheChip DEF Present
<1>3. PICK o \in InSession({a}) :
        /\ Happened(o, scpOpen)
        /\ \/ o.sw = "ok" /\ KeepOrClose(o) /\ Finish(TRUE)
           \/ o.sw = "damaged"
           \/ ~Accepted(o) /\ CloseAndRetry
  BY DEF Agree
<1>4. sessionIdGood' = sessionIdGood /\ peerObjReady' = peerObjReady
  BY DEF Agree
<1>5. pc \in Serving
  BY <1>1 DEF Serving
<1> HIDE DEF a
<1>6. /\ o.sw \in {"ok", "error", "refused", "none"}
      /\ Keeps(chip', chip)
      /\ troubles <= troubles'
      /\ o.sw = "ok" => troubles' = troubles /\ Sound /\ From(o, {a})
      /\ Sound /\ troubles' = troubles => From(o, {a})
      /\ Sound /\ From(o, {a}) /\ scpOpen' /\ sessionActive' /\ sessionIdGood' => Sound'
  BY <1>2, <1>3, <1>5, ServingStep
<1>7. Lasting(chip', chip) /\ chip'.up = chip.up
  BY <1>6 DEF Keeps
<1>8. From(o, {a}) => (o.sw = "ok" <=> Present(chip, job.key))
  BY <1>2 DEF From
<1>9. CASE o.sw = "ok" /\ KeepOrClose(o) /\ Finish(TRUE)
  <2>1. Sound' /\ troubles' = troubles
    BY <1>4, <1>5, <1>6, <1>9, KeptOpen, SessionUp
  <2>2. Present(chip', job.key)
    BY <1>1, <1>6, <1>7, <1>8, <1>9, PresentKept DEF Job
  <2> QED
    BY <1>1, <1>4, <1>5, <1>7, <1>9, <2>1, <2>2, FinishWell, Zenon DEF After
<1>10. CASE ~Accepted(o) /\ CloseAndRetry
  <2>1. Sound /\ identity = "chip" => troubles' # troubles
    BY <1>1, <1>6, <1>8, <1>10 DEF Accepted, PresentInv, Job
  <2> QED
    BY <1>1, <1>4, <1>5, <1>6, <1>7, <1>10, <2>1, RetryWell, Zenon DEF After
<1> QED
  BY <1>3, <1>6, <1>9, <1>10

LEMMA AgreePeerWell == ASSUME Before, AgreePeer PROVE After
<1> DEFINE a == Answer(IF chip.key[job.key] = "absent" \/ chip.peer \in {"none", "empty"}
                       THEN "error" ELSE "ok", chip)
<1>1. /\ chip \in Chip /\ job \in Job /\ JobInv /\ PresentInv /\ ChannelInv /\ TypeOK
      /\ pc = "agreePeer" /\ IInv /\ TypeOK' /\ PowerInv /\ PlanInv /\ NearPath /\ Path
  BY BeforeFields DEF AgreePeer
<1>2. a \in AnswerType /\ a.chip = chip /\ Keeps(a.chip, chip) /\ SameLink(a.chip, chip)
      /\ (a.sw = "ok" <=> Present(chip, job.key) /\ chip.peer \notin {"none", "empty"})
  BY <1>1, WordOfTheChip DEF Present
<1>3. PICK o \in InSession({a}) :
        /\ Happened(o, scpOpen)
        /\ \/ o.sw = "ok" /\ KeepOrClose(o) /\ Finish(TRUE) /\ UNCHANGED peerObjReady
           \/ o.sw = "damaged"
           \/ ~Accepted(o) /\ peerObjReady' = FALSE /\ CloseAndRetry
  BY DEF AgreePeer
<1>4. sessionIdGood' = sessionIdGood
  BY DEF AgreePeer
<1>5. pc \in Serving /\ chip.peer = "mine"
  BY <1>1 DEF Serving, ChannelInv
<1> HIDE DEF a
<1>6. /\ o.sw \in {"ok", "error", "refused", "none"}
      /\ Keeps(chip', chip)
      /\ troubles <= troubles'
      /\ o.sw = "ok" => troubles' = troubles /\ Sound /\ From(o, {a})
      /\ Sound /\ troubles' = troubles => From(o, {a})
      /\ Sound /\ From(o, {a}) /\ scpOpen' /\ sessionActive' /\ sessionIdGood' => Sound'
  BY <1>2, <1>3, <1>5, ServingStep
<1>7. Lasting(chip', chip) /\ chip'.up = chip.up
  BY <1>6 DEF Keeps
<1>8. From(o, {a}) => (o.sw = "ok" <=> Present(chip, job.key))
  BY <1>2, <1>5 DEF From
<1>9. CASE o.sw = "ok" /\ KeepOrClose(o) /\ Finish(TRUE) /\ UNCHANGED peerObjReady
  <2>1. Sound' /\ troubles' = troubles
    BY <1>4, <1>5, <1>6, <1>9, KeptOpen, SessionUp
  <2>2. Present(chip', job.key)
    BY <1>1, <1>6, <1>7, <1>8, <1>9, PresentKept DEF Job
  <2> QED
    BY <1>1, <1>5, <1>7, <1>9, <2>1, <2>2, FinishWell, Zenon DEF After
<1>10. CASE ~Accepted(o) /\ peerObjReady' = FALSE /\ CloseAndRetry
  <2>1. Sound /\ identity = "chip" => troubles' # troubles
    BY <1>1, <1>6, <1>8, <1>10 DEF Accepted, PresentInv, Job
  <2> QED
    BY <1>1, <1>5, <1>6, <1>7, <1>10, <2>1, RetryWell, Zenon DEF After
<1> QED
  BY <1>3, <1>6, <1>9, <1>10

LEMMA PeerExistsWell == ASSUME Before, PeerExists PROVE After
<1> DEFINE a == Report(chip.peer # "none")
<1>1. /\ chip \in Chip /\ ChannelInv /\ TypeOK /\ pc = "peerExists"
      /\ IInv /\ TypeOK' /\ PowerInv /\ PlanInv /\ Path
  BY BeforeFields DEF PeerExists
<1>2. /\ a \in AnswerType /\ a.chip = chip /\ Keeps(a.chip, chip) /\ SameLink(a.chip, chip)
      /\ a.sw = "ok" /\ a.says = (chip.peer # "none")
  <2>1. (chip.peer # "none") \in BOOLEAN
    OBVIOUS
  <2> QED
    BY <1>1, <2>1, ReportTyped, KeepsSelf DEF Report, SameLink
<1>3. PICK o \in InSession({a}) :
        /\ Happened(o, scpOpen)
        /\ \/ /\ o.sw = "ok" /\ KeepOrClose(o)
              /\ peerObjReady' = o.says
              /\ Goto(IF o.says THEN "peerUpdate" ELSE "peerCreate")
           \/ o.sw # "ok" /\ CloseAndRetry /\ UNCHANGED peerObjReady
  BY DEF PeerExists
<1>4. sessionIdGood' = sessionIdGood
  BY DEF PeerExists
<1>5. pc \in Serving
  BY <1>1 DEF Serving
<1> HIDE DEF a
<1>6. /\ Keeps(chip', chip)
      /\ troubles <= troubles'
      /\ o.sw = "ok" => troubles' = troubles /\ Sound /\ From(o, {a})
      /\ Sound /\ troubles' = troubles => From(o, {a})
      /\ Sound /\ From(o, {a}) /\ scpOpen' /\ sessionActive' /\ sessionIdGood' => Sound'
  BY <1>2, <1>3, <1>5, ServingStep
<1>7. Lasting(chip', chip) /\ chip'.up = chip.up
  BY <1>6 DEF Keeps
<1>8. From(o, {a}) => o.sw = "ok" /\ (o.says <=> chip.peer # "none")
  BY <1>2 DEF From
<1>9. CASE /\ o.sw = "ok" /\ KeepOrClose(o) /\ peerObjReady' = o.says
           /\ Goto(IF o.says THEN "peerUpdate" ELSE "peerCreate")
  <2>1. Sound' /\ troubles' = troubles
    BY <1>4, <1>5, <1>6, <1>9, KeptOpen, SessionUp
  <2>2. peerObjReady' => chip'.peer # "none"
    BY <1>6, <1>7, <1>8, <1>9 DEF Lasting
  <2>3. "peerUpdate" \in Serving /\ "peerCreate" \in Serving
    BY DEF Serving
  <2>4. CASE o.says
    <3>1. Goto("peerUpdate") /\ peerObjReady'
      BY <1>9, <2>4
    <3> QED
      BY <1>5, <1>7, <2>1, <2>2, <2>3, <3>1, ServesSoundly
  <2>5. CASE ~o.says
    <3>1. Goto("peerCreate")
      BY <1>9, <2>5
    <3> QED
      BY <1>5, <1>7, <2>1, <2>2, <2>3, <3>1, ServesSoundly
  <2> QED
    BY <2>4, <2>5
<1>10. CASE o.sw # "ok" /\ CloseAndRetry /\ UNCHANGED peerObjReady
  <2>1. Sound /\ identity = "chip" => troubles' # troubles
    BY <1>6, <1>8, <1>10
  <2> QED
    BY <1>1, <1>5, <1>6, <1>7, <1>10, <2>1, RetryWell, Zenon DEF After
<1> QED
  BY <1>3, <1>9, <1>10

\* With the peer's key written, the agreement follows.
LEMMA PeerWell ==
    ASSUME Before, pc \in {"peerCreate", "peerUpdate"}, Goto("agreePeer"), Keeps(chip', chip),
           chip' = Took([chip EXCEPT !.peer = "mine"]), troubles' = troubles, Sound'
    PROVE  After
<1>1. chip \in Chip /\ [chip EXCEPT !.peer = "mine"] \in Chip
  BY BeforeFields DEF Chip
<1>2. chip'.peer = "mine"
  BY <1>1 DEF Took, Chip
<1>3. Lasting(chip', chip) /\ pc \in Serving /\ "agreePeer" \in Serving
  BY DEF Keeps, Serving
<1> QED
  BY <1>2, <1>3, ServesSoundly

LEMMA PeerCreateWell == ASSUME Before, PeerCreate PROVE After
<1> DEFINE new == [chip EXCEPT !.peer = "mine"]
           answers == {Answer("ok", new), Answer("error", chip)}
<1>1. /\ chip \in Chip /\ ChannelInv /\ TypeOK /\ pc = "peerCreate"
      /\ IInv /\ TypeOK' /\ PowerInv /\ PlanInv /\ NearPath /\ StepInv
  BY BeforeFields DEF PeerCreate
<1>2. /\ new \in Chip /\ Keeps(new, chip) /\ SameLink(new, chip)
      /\ Keeps(chip, chip) /\ SameLink(chip, chip)
  BY <1>1 DEF Keeps, Lasting, SameLink, Present, Chip
<1>3. /\ answers \in SUBSET AnswerType
      /\ \A a \in answers : Keeps(a.chip, chip) /\ SameLink(a.chip, chip)
      /\ \A a \in answers : \/ a.sw = "ok" /\ a.chip = new
                            \/ a.sw = "error"
  <2> HIDE DEF new
  <2> QED
    BY <1>1, <1>2, AnswerTyped
<1>4. PICK o \in InSession(answers) :
        /\ Happened(o, scpOpen) /\ KeepOrClose(o)
        /\ \/ Accepted(o) /\ peerObjReady' = TRUE /\ Goto("agreePeer")
           \/ ~Accepted(o) /\ UNCHANGED peerObjReady /\ Fails
  BY DEF PeerCreate
<1>5. sessionIdGood' = sessionIdGood
  BY DEF PeerCreate
<1>6. pc \in Serving /\ pc # "idle" /\ job.form = "object"
  BY <1>1 DEF Serving, StepInv
<1> HIDE DEF answers
<1>7. /\ o.sw \in {"ok", "error", "refused", "none"}
      /\ Keeps(chip', chip)
      /\ troubles <= troubles'
      /\ o.sw = "ok" => troubles' = troubles /\ Sound /\ From(o, answers)
      /\ Sound /\ troubles' = troubles => From(o, answers)
      /\ Sound /\ From(o, answers) /\ scpOpen' /\ sessionActive' /\ sessionIdGood' => Sound'
  BY <1>3, <1>4, <1>6, ServingStep
<1>8. Lasting(chip', chip)
  BY <1>7 DEF Keeps
<1>9. From(o, answers) => /\ o.sw \in {"ok", "error"}
                          /\ o.sw = "ok" => chip' = Took(new)
  <2>1. chip' = o.chip
    BY <1>4 DEF Happened
  <2> QED
    BY <1>3, <2>1 DEF From
<1>10. From(o, answers) /\ Sound => Sound'
  BY <1>4, <1>5, <1>6, <1>7, <1>9, KeptOpen, SessionUp
<1>11. CASE Accepted(o) /\ peerObjReady' = TRUE /\ Goto("agreePeer")
  <2>1. o.sw = "ok"
    BY <1>7, <1>11 DEF Accepted
  <2> QED
    BY <1>1, <1>7, <1>9, <1>10, <1>11, <2>1, PeerWell
<1>12. CASE ~Accepted(o) /\ UNCHANGED peerObjReady /\ Fails
  <2>1. scpOpen' = sessionActive'
    BY <1>4, <1>6, KeptTogether
  <2>2. Calm' /\ identity # "file" => Sound'
    BY <1>6, <1>7, <1>10, <1>12, CalmServing
  <2> QED
    BY <1>1, <1>6, <1>7, <1>8, <1>12, <2>1, <2>2, FailsWell, Zenon DEF After
<1> QED
  BY <1>4, <1>11, <1>12

LEMMA PeerUpdateWell == ASSUME Before, PeerUpdate PROVE After
<1> DEFINE new == [chip EXCEPT !.peer = "mine"]
           a == IF chip.peer = "none" THEN Answer("error", chip) ELSE Answer("ok", new)
<1>1. /\ chip \in Chip /\ ChannelInv /\ TypeOK /\ pc = "peerUpdate"
      /\ IInv /\ TypeOK' /\ PowerInv /\ PlanInv /\ Path
  BY BeforeFields DEF PeerUpdate
<1>2. new \in Chip /\ Keeps(new, chip) /\ SameLink(new, chip) /\ chip.peer # "none"
  BY <1>1 DEF Keeps, Lasting, SameLink, Present, Chip, ChannelInv
<1>3. /\ a \in AnswerType /\ Keeps(a.chip, chip) /\ SameLink(a.chip, chip)
      /\ a.sw = "ok" /\ a.chip = new
  <2> HIDE DEF new
  <2> QED
    BY <1>1, <1>2, AnswerTyped
<1>4. PICK o \in InSession({a}) :
        /\ Happened(o, scpOpen)
        /\ \/ Accepted(o) /\ KeepOrClose(o) /\ Goto("agreePeer") /\ UNCHANGED peerObjReady
           \/ ~Accepted(o) /\ peerObjReady' = FALSE /\ CloseAndRetry
  BY DEF PeerUpdate
<1>5. sessionIdGood' = sessionIdGood
  BY DEF PeerUpdate
<1>6. pc \in Serving
  BY <1>1 DEF Serving
<1> HIDE DEF a
<1>7. /\ o.sw \in {"ok", "error", "refused", "none"}
      /\ Keeps(chip', chip)
      /\ troubles <= troubles'
      /\ o.sw = "ok" => troubles' = troubles /\ Sound /\ From(o, {a})
      /\ Sound /\ troubles' = troubles => From(o, {a})
      /\ Sound /\ From(o, {a}) /\ scpOpen' /\ sessionActive' /\ sessionIdGood' => Sound'
  BY <1>3, <1>4, <1>6, ServingStep
<1>8. Lasting(chip', chip) /\ chip'.up = chip.up
  BY <1>7 DEF Keeps
<1>9. From(o, {a}) => o.sw = "ok" /\ chip' = Took(new)
  <2>1. chip' = o.chip
    BY <1>4 DEF Happened
  <2> QED
    BY <1>3, <2>1 DEF From
<1>10. CASE Accepted(o) /\ KeepOrClose(o) /\ Goto("agreePeer") /\ UNCHANGED peerObjReady
  <2>1. o.sw = "ok"
    BY <1>7, <1>10 DEF Accepted
  <2>2. Sound' /\ troubles' = troubles
    BY <1>5, <1>6, <1>7, <1>10, <2>1, KeptOpen, SessionUp
  <2> QED
    BY <1>1, <1>7, <1>9, <1>10, <2>1, <2>2, PeerWell
<1>11. CASE ~Accepted(o) /\ peerObjReady' = FALSE /\ CloseAndRetry
  <2>1. Sound /\ identity = "chip" => troubles' # troubles
    BY <1>7, <1>9, <1>11 DEF Accepted
  <2> QED
    BY <1>1, <1>6, <1>7, <1>8, <1>11, <2>1, RetryWell, Zenon DEF After
<1> QED
  BY <1>4, <1>10, <1>11

------------------------------------------------------------------------------
(* Establishing a session.                                                 *)

\* Without a fault, a use for the node has its session already.
LEMMA CalmNotAlone ==
    ASSUME Before, pc \in Opening \cup Establishing, Calm, identity # "file"
    PROVE  ~Alone /\ chip.up
<1>1. CalmInv
  BY BeforeFields, Zenon DEF CalmPath
<1>2. pc \notin {"session"} \cup Serving
  BY DEF Opening, Establishing, Serving
<1> QED
  BY <1>1, <1>2, Zenon DEF CalmInv

\* On the way up, a use for the node cannot afford another fault.
LEMMA AloneOnTheWay ==
    ASSUME Before, pc \in Opening \cup Establishing, service' = service, troubles <= troubles',
           Near', Alone
    PROVE  OpeningInv /\ troubles' = troubles
<1>1. /\ TypeOK /\ TypeOK' /\ JobInv /\ AlonePath /\ service <= troubles
  BY BeforeFields
<1>2. Near
  BY <1>1, NearBefore, Zenon
<1>3. identity = "chip"
  BY <1>1, Zenon DEF JobInv, Alone
<1>4. ~Calm
  BY <1>3, CalmNotAlone
<1>5. troubles' = troubles
  BY <1>1, <1>4, NoSecondFault, Zenon
<1> QED
  BY <1>1, <1>2, <1>5, Zenon DEF AlonePath

LEMMA CalmOnTheWay ==
    ASSUME Before, service' = service, troubles <= troubles', Calm', identity # "file"
    PROVE  OpeningInv /\ CalmInv /\ troubles' = troubles
<1>1. /\ TypeOK /\ TypeOK' /\ CalmPath /\ service <= troubles
  BY BeforeFields
<1> QED
  BY <1>1, NearBefore, Zenon DEF CalmPath

\* What a command tells and leaves before there is a session.
LEMMA EstablishStep ==
    ASSUME Before, scpOpen, NEW answers \in SUBSET AnswerType,
           \A a \in answers : Keeps(a.chip, chip),
           NEW o \in InApplet(answers), Happened(o, scpOpen)
    PROVE  /\ o.sw \in {"ok", "error", "refused", "none"}
           /\ Keeps(chip', chip)
           /\ troubles <= troubles'
           /\ o.sw # "none" => Heard /\ troubles' = troubles
           /\ o.sw = "ok" => InStepNow
           /\ InStepNow /\ o.sw # "none" => From(o, answers)
           /\ Heard /\ troubles' = troubles => o.sw # "none"
           /\ chip' = o.chip /\ seq' = 1 - seq
<1>1. chip \in Chip /\ "damaged" \notin faults /\ troubles \in Nat
  BY BeforeFields
<1>2. /\ o.sw \in {"ok", "error", "refused", "none"}
      /\ Keeps(o.chip, chip)
      /\ o.cost \in {0, 1}
      /\ o.sw # "none" => Heard /\ o.cost = 0
      /\ o.sw = "ok" => InStepNow
      /\ InStepNow /\ o.sw # "none" => From(o, answers)
      /\ Heard /\ o.cost = 0 => o.sw # "none"
  BY <1>1, AppletOutcome
<1>3. chip' = o.chip /\ troubles' = troubles + o.cost /\ seq' = 1 - seq
  BY DEF Happened
<1>4. troubles <= troubles' /\ (o.cost = 0 <=> troubles' = troubles)
  BY <1>1, <1>2, <1>3
<1> QED
  BY <1>2, <1>3, <1>4

\* A session comes up by another step.
LEMMA EstablishesOn ==
    ASSUME Before, NEW step \in Establishing, pc' = step, UNCHANGED <<job, agenda, verdicts>>,
           pc # "idle", job.op # "probe", Lasting(chip', chip), troubles' = troubles,
           scpOpen', ~sessionActive', peerObjReady' = peerObjReady,
           Calm /\ identity # "file" => ~Alone,
           Near => (Heard' => InStepNow'),
           Near /\ step = "verify" => (Heard' => chip'.session = "created" /\ sessionIdGood'),
           (Near /\ Alone) \/ (Calm /\ identity # "file") => Heard'
    PROVE  After
<1>1. /\ TypeOK /\ JobInv /\ AgendaInv /\ PresentInv /\ ChannelInv /\ NearPath /\ CalmPath
  BY BeforeFields
<1>2. job' = job /\ agenda' = agenda /\ identity' = identity /\ result' = result
      /\ service' = service
  BY DEF verdicts
<1>3. /\ pc' \in Establishing /\ pc' \notin Opening /\ pc' \notin Serving
      /\ pc' \notin {"idle", "reset", "select", "info"} /\ pc' # "reset"
      /\ pc' \notin {"info", "init"} /\ pc' # "auth" /\ pc' # "session" /\ pc' # "idle"
      /\ pc' \notin {"exists", "generate", "read"} /\ pc' # "peerUpdate" /\ pc' # "agreePeer"
  BY DEF Serving, Opening, Establishing
<1>4. JobInv'
  BY <1>1, <1>2, <1>3 DEF JobInv
<1>5. AgendaInv'
  <2>1. Present(chip, ExchangeKey) => Present(chip', ExchangeKey)
    BY PresentKept DEF Keys
  <2> QED
    BY <1>1, <1>2, <2>1 DEF AgendaInv
<1>6. PresentInv'
  <2>1. identity = "chip" => \A k \in Keys : Present(chip', k)
    BY <1>1, PresentKept DEF PresentInv
  <2> QED
    BY <1>2, <1>3, <2>1 DEF PresentInv
<1>7. ChannelInv'
  <2>1. chip'.selected # "ssd" /\ (peerObjReady' => chip'.peer # "none")
    BY <1>1 DEF ChannelInv, Lasting
  <2> QED
    BY <1>3, <2>1, Zenon DEF ChannelInv
<1>8. (Near' => Near) /\ (Calm' => Calm) /\ (Alone' => Alone)
  BY <1>2 DEF Near, Calm, Alone
<1>9. Near' => NearInv'
  BY <1>3, <1>8, Zenon DEF NearInv
<1>10. (Near' /\ Alone') \/ (Calm' /\ identity' # "file") => OpeningInv'
  BY <1>2, <1>3, <1>8, Zenon DEF OpeningInv
<1>11. Heard' => chip'.up
  BY DEF Heard
<1>12. Calm' /\ identity' # "file" => CalmInv'
  BY <1>2, <1>3, <1>8, <1>11, Zenon DEF CalmInv
<1>13. Near' => result' # "failed"
  BY <1>1, <1>2, <1>8, Zenon DEF NearPath
<1>14. Path'
  BY <1>9, <1>10, <1>12, <1>13, Zenon DEF Path, NearPath, AlonePath, CalmPath
<1> QED
  BY <1>4, <1>5, <1>6, <1>7, <1>14 DEF After, PlanInv

\* A session that does not come up, where the chip would take it unless a fault came between.
LEMMA EstablishFails ==
    ASSUME Before, pc \in Establishing, Fails, Lasting(chip', chip), troubles <= troubles',
           peerObjReady' = peerObjReady, NEW o, KeepOrClose(o),
           Near => o.sw = "none", Heard /\ troubles' = troubles => o.sw # "none"
    PROVE  After
<1>1. /\ IInv /\ TypeOK /\ TypeOK' /\ PowerInv /\ PlanInv /\ ChannelInv /\ NearPath
      /\ service <= troubles
  BY BeforeFields
<1>2. pc # "idle" /\ pc \in Opening \cup Establishing /\ pc \in (Opening \ {"reset"}) \cup Establishing
  BY DEF Opening, Establishing
<1>3. service' = service
  BY <1>1, <1>2, FailsVerdict
<1>4. Near' => Near
  BY <1>1, <1>3, NearBefore, Zenon
<1>5. sessionActive' => scpOpen'
  BY <1>1 DEF KeepOrClose, ChannelInv
<1>6. scpOpen
  BY <1>1 DEF ChannelInv
<1>7. o.sw = "none" => ~scpOpen' /\ ~sessionActive'
  BY <1>6 DEF KeepOrClose, Closing
<1>8. scpOpen' \in BOOLEAN /\ sessionActive' \in BOOLEAN
  BY <1>1, Zenon DEF TypeOK
<1>9. Near' => scpOpen' = sessionActive'
  BY <1>4, <1>7, <1>8
<1>10. OpeningInv => Heard
  BY <1>2, Zenon DEF OpeningInv
<1>11. ~(Near' /\ Alone)
  BY <1>2, <1>3, <1>4, <1>10, AloneOnTheWay
<1>12. ~(Calm' /\ identity # "file")
  BY <1>1, <1>3, <1>4, <1>10, CalmOnTheWay, CalmIsNearNext
<1> QED
  BY <1>1, <1>2, <1>5, <1>9, <1>11, <1>12, FailsWell, Zenon DEF After

\* Where the operation goes on, it may.
LEMMA MainStepServes ==
    ASSUME TypeOK, OperationInv, JobInv, pc # "idle", pc \notin Opening \cup {"absent"}
    PROVE  /\ MainStep \in Serving
           /\ MainStep = "peerUpdate" => peerObjReady
           /\ MainStep # "agreePeer" /\ MainStep # "read"
           /\ MainStep \in {"exists", "generate", "read"} => job.op = "ensure"
<1>1. job.op \in {"ensure", "use"}
  BY DEF JobInv
<1>2. CASE job.op = "ensure"
  BY <1>2 DEF MainStep, Serving
<1>3. CASE job.op # "ensure" /\ job.form = "object"
  BY <1>3 DEF MainStep, Serving
<1>4. CASE job.op # "ensure" /\ job.form # "object"
  BY <1>4 DEF MainStep, Serving
<1> QED
  BY <1>2, <1>3, <1>4

\* The two sides over a command the chip answered while a session comes up.
LEMMA StepTaken ==
    ASSUME chip \in Chip, seq \in {0, 1}, Heard, NEW c \in Chip, Keeps(c, chip),
           c.expects = chip.expects, chip' = Took(c), seq' = 1 - seq
    PROVE  /\ Heard' /\ chip'.channel = c.channel /\ chip'.agrees = c.agrees
           /\ chip'.selected = c.selected /\ chip'.session = c.session
<1>1. chip.up /\ seq = chip.expects /\ c.up /\ c.expects = chip.expects
  BY DEF Heard, Keeps
<1>2. /\ chip'.up = c.up /\ chip'.expects = 1 - c.expects /\ chip'.channel = c.channel
      /\ chip'.agrees = c.agrees /\ chip'.selected = c.selected /\ chip'.session = c.session
  <2>1. chip'.up = c.up
    BY DEF Took, Chip
  <2> QED
    BY <2>1, TookFields
<1>3. Heard'
  BY <1>1, <1>2 DEF Heard
<1> QED
  BY <1>2, <1>3

LEMMA SetupWell == ASSUME Before, Setup PROVE After
<1> DEFINE a == Answer("ok", chip)
<1>1. /\ chip \in Chip /\ ChannelInv /\ TypeOK /\ pc = "setup" /\ JobInv /\ NearPath
  BY BeforeFields DEF Setup
<1>2. a \in AnswerType /\ a.sw = "ok" /\ a.chip = chip /\ Keeps(a.chip, chip)
  <2>1. a \in AnswerType /\ a.sw = "ok" /\ a.chip = chip
    BY <1>1, AnswerTyped
  <2> HIDE DEF a
  <2> QED
    BY <1>1, <2>1, KeepsSelf
<1>3. PICK o \in InApplet({a}) :
        /\ Happened(o, scpOpen) /\ KeepOrClose(o)
        /\ \/ o.sw \in {"ok", "error"} /\ Goto("create")
           \/ o.sw \notin {"ok", "error"} /\ Fails
  BY DEF Setup
<1>4. sessionIdGood' = sessionIdGood /\ peerObjReady' = peerObjReady
  BY DEF Setup
<1>5. /\ pc \in Establishing /\ pc # "idle" /\ pc \in Opening \cup Establishing
      /\ pc \notin Opening \cup {"absent"}
  BY <1>1 DEF Establishing, Opening
<1>6. scpOpen /\ ~sessionActive /\ seq \in {0, 1}
  BY <1>1, <1>5 DEF ChannelInv, TypeOK
<1> HIDE DEF a
<1>7. /\ o.sw \in {"ok", "error", "refused", "none"}
      /\ Keeps(chip', chip)
      /\ troubles <= troubles'
      /\ o.sw # "none" => Heard /\ troubles' = troubles
      /\ InStepNow /\ o.sw # "none" => From(o, {a})
      /\ Heard /\ troubles' = troubles => o.sw # "none"
      /\ chip' = o.chip /\ seq' = 1 - seq
  BY <1>2, <1>3, <1>6, EstablishStep
<1>8. Lasting(chip', chip)
  BY <1>7 DEF Keeps
<1>9. From(o, {a}) => o.sw = "ok" /\ o.chip = Took(chip)
  BY <1>2 DEF From
<1>10. Near => (Heard => InStepNow)
  BY <1>1, <1>5, Zenon DEF NearPath, NearInv
<1>11. CASE o.sw \in {"ok", "error"} /\ Goto("create")
  <2>1. scpOpen' /\ ~sessionActive'
    BY <1>3, <1>6, <1>11 DEF KeepOrClose, Closing
  <2>2. InStepNow => Heard' /\ InStepNow'
    <3>1. Keeps(chip, chip)
      BY <1>1, KeepsSelf
    <3>2. InStepNow => /\ Heard' /\ chip'.channel = chip.channel /\ chip'.agrees = chip.agrees
                       /\ chip'.selected = chip.selected
      BY <1>1, <1>6, <1>7, <1>9, <1>11, <3>1, StepTaken
    <3> QED
      BY <3>2 DEF InStepNow, InChannel
  <2>3. Heard
    BY <1>7, <1>11
  <2>4. "create" \in Establishing /\ job.op # "probe" /\ troubles' = troubles
    BY <1>1, <1>5, <1>7, <1>11 DEF Establishing, JobInv
  <2>5. pc' = "create" /\ UNCHANGED <<job, agenda, verdicts>>
    BY <1>11 DEF Goto
  <2>6. Near => Heard' /\ InStepNow'
    BY <1>10, <2>2, <2>3, Zenon
  <2>7. Calm => Near
    BY <1>1, CalmIsNear
  <2> QED
    BY <1>4, <1>5, <1>8, <2>1, <2>4, <2>5, <2>6, <2>7, CalmNotAlone, EstablishesOn
<1>12. CASE o.sw \notin {"ok", "error"} /\ Fails
  <2>1. Near => o.sw = "none"
    BY <1>7, <1>9, <1>10, <1>12
  <2> QED
    BY <1>3, <1>4, <1>5, <1>7, <1>8, <1>12, <2>1, EstablishFails
<1> QED
  BY <1>3, <1>11, <1>12

LEMMA CreateSessionWell == ASSUME Before, CreateSession PROVE After
<1> DEFINE new == [chip EXCEPT !.session = "created"]
           a == Answer("ok", new)
<1>1. /\ chip \in Chip /\ ChannelInv /\ TypeOK /\ pc = "create" /\ JobInv /\ NearPath
  BY BeforeFields DEF CreateSession
<1>2. /\ new \in Chip /\ Keeps(new, chip) /\ new.expects = chip.expects
      /\ new.channel = chip.channel /\ new.agrees = chip.agrees /\ new.selected = chip.selected
      /\ new.session = "created"
  BY <1>1 DEF Keeps, Lasting, Present, Chip
<1> HIDE DEF new
<1>3. a \in AnswerType /\ a.sw = "ok" /\ a.chip = new /\ Keeps(a.chip, chip)
  BY <1>2, AnswerTyped
<1>4. PICK o \in InApplet({a}) :
        /\ Happened(o, scpOpen) /\ KeepOrClose(o)
        /\ \/ o.sw = "ok" /\ sessionIdGood' = TRUE /\ Goto("verify")
           \/ o.sw # "ok" /\ Fails
  BY DEF CreateSession, new
<1>5. peerObjReady' = peerObjReady
  BY DEF CreateSession
<1>6. /\ pc \in Establishing /\ pc # "idle" /\ pc \in Opening \cup Establishing
      /\ pc \notin Opening \cup {"absent"}
  BY <1>1 DEF Establishing, Opening
<1>7. scpOpen /\ ~sessionActive /\ seq \in {0, 1}
  BY <1>1, <1>6 DEF ChannelInv, TypeOK
<1> HIDE DEF a
<1>8. /\ o.sw \in {"ok", "error", "refused", "none"}
      /\ Keeps(chip', chip)
      /\ troubles <= troubles'
      /\ o.sw # "none" => Heard /\ troubles' = troubles
      /\ o.sw = "ok" => InStepNow
      /\ InStepNow /\ o.sw # "none" => From(o, {a})
      /\ Heard /\ troubles' = troubles => o.sw # "none"
      /\ chip' = o.chip /\ seq' = 1 - seq
  BY <1>3, <1>4, <1>7, EstablishStep
<1>9. Lasting(chip', chip)
  BY <1>8 DEF Keeps
<1>10. From(o, {a}) => o.sw = "ok" /\ o.chip = Took(new)
  BY <1>3 DEF From
<1>11. Near => (Heard => InStepNow)
  BY <1>1, <1>6, Zenon DEF NearPath, NearInv
<1>12. CASE o.sw = "ok" /\ sessionIdGood' = TRUE /\ Goto("verify")
  <2>1. scpOpen' /\ ~sessionActive'
    BY <1>4, <1>7, <1>12 DEF KeepOrClose, Closing
  <2>2. /\ Heard' /\ chip'.channel = chip.channel /\ chip'.agrees = chip.agrees
        /\ chip'.selected = chip.selected /\ chip'.session = "created" /\ InStepNow
    BY <1>1, <1>2, <1>7, <1>8, <1>10, <1>12, StepTaken
  <2>3. Heard' /\ InStepNow' /\ chip'.session = "created" /\ sessionIdGood'
    BY <1>12, <2>2 DEF InStepNow, InChannel
  <2>4. "verify" \in Establishing /\ job.op # "probe" /\ troubles' = troubles
    BY <1>1, <1>6, <1>8, <1>12 DEF Establishing, JobInv
  <2>5. pc' = "verify" /\ UNCHANGED <<job, agenda, verdicts>>
    BY <1>12 DEF Goto
  <2> QED
    BY <1>5, <1>6, <1>9, <2>1, <2>3, <2>4, <2>5, CalmNotAlone, EstablishesOn
<1>13. CASE o.sw # "ok" /\ Fails
  <2>1. Near => o.sw = "none"
    BY <1>8, <1>10, <1>11, <1>13
  <2> QED
    BY <1>4, <1>5, <1>6, <1>8, <1>9, <1>13, <2>1, EstablishFails
<1> QED
  BY <1>4, <1>12, <1>13

LEMMA VerifySessionWell == ASSUME Before, VerifySession PROVE After
<1> DEFINE new == [chip EXCEPT !.session = "open"]
           live == chip.session = "created" /\ sessionIdGood
           a == IF live THEN Answer("ok", new) ELSE Answer("error", chip)
<1>1. /\ chip \in Chip /\ ChannelInv /\ TypeOK /\ pc = "verify" /\ JobInv /\ NearPath
      /\ OperationInv
  BY BeforeFields DEF VerifySession
<1>2. /\ new \in Chip /\ Keeps(new, chip) /\ new.expects = chip.expects
      /\ new.channel = chip.channel /\ new.agrees = chip.agrees /\ new.selected = chip.selected
      /\ new.session = "open"
  BY <1>1 DEF Keeps, Lasting, Present, Chip
<1> HIDE DEF new
<1>3. a \in AnswerType /\ Keeps(a.chip, chip)
      /\ IF live THEN a.sw = "ok" /\ a.chip = new ELSE a.sw = "error"
  <2>1. CASE live
    BY <1>2, <2>1, AnswerTyped
  <2>2. CASE ~live
    <3>1. a \in AnswerType /\ a.sw = "error" /\ a.chip = chip
      BY <1>1, <2>2, AnswerTyped
    <3> HIDE DEF a
    <3> QED
      BY <1>1, <2>2, <3>1, KeepsSelf
  <2> QED
    BY <2>1, <2>2
<1>4. PICK o \in InApplet({a}) :
        /\ Happened(o, scpOpen)
        /\ \/ /\ Accepted(o)
              /\ scpOpen' = (scpOpen /\ ~Closing(o)) /\ sessionActive' = TRUE
              /\ Goto(MainStep)
           \/ ~Accepted(o) /\ KeepOrClose(o) /\ Fails
  BY DEF VerifySession, new
<1>5. peerObjReady' = peerObjReady /\ sessionIdGood' = sessionIdGood
  BY DEF VerifySession
<1>6. /\ pc \in Establishing /\ pc # "idle" /\ pc \in Opening \cup Establishing
      /\ pc \notin Opening \cup {"absent"} /\ pc \in Serving \cup {"verify"}
  BY <1>1 DEF Establishing, Opening
<1>7. scpOpen /\ ~sessionActive /\ seq \in {0, 1}
  BY <1>1, <1>6 DEF ChannelInv, TypeOK
<1> HIDE DEF a
<1>8. /\ o.sw \in {"ok", "error", "refused", "none"}
      /\ Keeps(chip', chip)
      /\ troubles <= troubles'
      /\ o.sw # "none" => Heard /\ troubles' = troubles
      /\ o.sw = "ok" => InStepNow
      /\ InStepNow /\ o.sw # "none" => From(o, {a})
      /\ Heard /\ troubles' = troubles => o.sw # "none"
      /\ chip' = o.chip /\ seq' = 1 - seq
  BY <1>3, <1>4, <1>7, EstablishStep
<1>9. Lasting(chip', chip)
  BY <1>8 DEF Keeps
<1>10. From(o, {a}) => IF live THEN o.sw = "ok" /\ o.chip = Took(new) ELSE o.sw = "error"
  BY <1>3 DEF From
<1>11. Near => (Heard => InStepNow /\ live)
  BY <1>1, <1>6, Zenon DEF NearPath, NearInv
<1>12. CASE Accepted(o) /\ scpOpen' = (scpOpen /\ ~Closing(o)) /\ sessionActive' = TRUE /\ Goto(MainStep)
  <2>1. o.sw = "ok" /\ InStepNow /\ Heard /\ troubles' = troubles
    BY <1>8, <1>12 DEF Accepted
  <2>2. live /\ chip' = Took(new)
    BY <1>8, <1>10, <2>1
  <2>3. scpOpen' /\ sessionActive' /\ sessionIdGood'
    BY <1>5, <1>7, <1>12, <2>1, <2>2 DEF Closing
  <2>4. /\ Heard' /\ chip'.channel = chip.channel /\ chip'.agrees = chip.agrees
        /\ chip'.selected = chip.selected /\ chip'.session = "open"
    BY <1>1, <1>2, <1>7, <1>8, <2>1, <2>2, StepTaken
  <2>5. Sound'
    BY <2>1, <2>3, <2>4 DEF Sound, InSessionNow, InStepNow, InChannel
  <2>6. /\ MainStep \in Serving
        /\ MainStep = "peerUpdate" => peerObjReady
        /\ MainStep # "agreePeer" /\ MainStep # "read"
        /\ MainStep \in {"exists", "generate", "read"} => job.op = "ensure"
    BY <1>1, <1>6, MainStepServes
  <2>7. peerObjReady' => chip'.peer # "none"
    BY <1>1, <1>5, <1>9 DEF ChannelInv, Lasting
  <2> HIDE DEF live
  <2> QED
    BY <1>5, <1>6, <1>9, <1>12, <2>1, <2>5, <2>6, <2>7, ServesSoundly
<1>13. CASE ~Accepted(o) /\ KeepOrClose(o) /\ Fails
  <2>1. Near => o.sw = "none"
    BY <1>8, <1>10, <1>11, <1>13 DEF Accepted
  <2> QED
    BY <1>5, <1>6, <1>8, <1>9, <1>13, <2>1, EstablishFails
<1> QED
  BY <1>4, <1>12, <1>13

------------------------------------------------------------------------------
(* Bringing up the link and the channel.                                   *)

\* What outlasts two steps outlasts both.
LEMMA LastingTwice ==
    ASSUME NEW b, NEW c, NEW d, Lasting(d, c), Lasting(c, b)
    PROVE  Lasting(d, b)
BY DEF Lasting

LEMMA FreshLasting ==
    ASSUME NEW c \in Chip
    PROVE  /\ Lasting(Fresh(c), c) /\ Lasting(PoweredUp(c), c)
           /\ Fresh(c).up = c.up /\ PoweredUp(c).up /\ Fresh(c).expects = 0
<1>1. /\ Fresh(c).up = c.up /\ Fresh(c).keys = c.keys /\ Fresh(c).key = c.key
      /\ Fresh(c).selected = "none" /\ Fresh(c).expects = 0
      /\ (c.peer # "none" => Fresh(c).peer # "none")
  BY DEF Fresh, Chip
<1>2. Fresh(c) \in Chip
  BY FreshType
<1>3. /\ PoweredUp(c).up /\ PoweredUp(c).keys = c.keys /\ PoweredUp(c).key = c.key
      /\ PoweredUp(c).selected = "none"
      /\ (c.peer # "none" => PoweredUp(c).peer # "none")
  BY <1>1, <1>2 DEF PoweredUp, Chip
<1> QED
  BY <1>1, <1>3 DEF Lasting, Present

\* The link comes up by another step.
LEMMA OpensOn ==
    ASSUME Before, NEW step \in Opening, pc' = step, UNCHANGED <<job, agenda, verdicts>>,
           pc # "idle", Lasting(chip', chip), troubles <= troubles',
           sessionActive' => scpOpen', job.op # "probe" => ~scpOpen',
           peerObjReady' = peerObjReady,
           Near' /\ step \in {"reset", "select", "info"} => (scpOpen' => sessionActive'),
           Near' /\ step = "auth" => (Heard' => chip'.selected = "applet"),
           Near' /\ Alone => OpeningInv',
           Calm' /\ identity # "file" => OpeningInv' /\ chip'.up /\ ~Alone
    PROVE  After
<1>1. /\ TypeOK /\ TypeOK' /\ JobInv /\ AgendaInv /\ PresentInv /\ ChannelInv /\ NearPath
      /\ service <= troubles
  BY BeforeFields
<1>2. job' = job /\ agenda' = agenda /\ identity' = identity /\ result' = result
      /\ service' = service
  BY DEF verdicts
<1>3. /\ pc' \in Opening /\ pc' \notin Establishing /\ pc' \notin Serving
      /\ pc' # "session" /\ pc' # "idle" /\ pc' # "verify" /\ pc' # "read"
      /\ pc' \notin {"exists", "generate", "read"} /\ pc' # "peerUpdate" /\ pc' # "agreePeer"
  BY DEF Serving, Opening, Establishing
<1>4. JobInv'
  BY <1>1, <1>2, <1>3 DEF JobInv
<1>5. AgendaInv'
  <2>1. Present(chip, ExchangeKey) => Present(chip', ExchangeKey)
    BY PresentKept DEF Keys
  <2> QED
    BY <1>1, <1>2, <2>1 DEF AgendaInv
<1>6. PresentInv'
  <2>1. identity = "chip" => \A k \in Keys : Present(chip', k)
    BY <1>1, PresentKept DEF PresentInv
  <2> QED
    BY <1>2, <1>3, <2>1 DEF PresentInv
<1>7. ChannelInv'
  <2>1. chip'.selected # "ssd" /\ (peerObjReady' => chip'.peer # "none")
    BY <1>1 DEF ChannelInv, Lasting
  <2> QED
    BY <1>2, <1>3, <2>1, Zenon DEF ChannelInv
<1>8. (Near' => Near) /\ (Alone' => Alone)
  <2>1. Near' => Near
    BY <1>1, <1>2, NearBefore, Zenon
  <2> QED
    BY <1>2, <2>1 DEF Alone
<1>9. Near' => NearInv'
  <2>1. pc' = step /\ pc' # "session"
    BY <1>3
  <2>2. pc' \in {"idle", "reset", "select", "info"} => step \in {"reset", "select", "info"}
    BY <1>3
  <2> QED
    BY <1>3, <2>1, <2>2, Zenon DEF NearInv
<1>10. Calm' /\ identity' # "file" => CalmInv'
  <2>1. Calm' /\ identity' # "file" => ~Alone' /\ chip'.up
    BY <1>2, <1>8, Zenon
  <2> QED
    BY <1>3, <2>1, Zenon DEF CalmInv
<1>11. Near' => result' # "failed"
  BY <1>1, <1>2, <1>8, Zenon DEF NearPath
<1>12. Path'
  BY <1>2, <1>8, <1>9, <1>10, <1>11, Zenon DEF Path, NearPath, AlonePath, CalmPath
<1> QED
  BY <1>4, <1>5, <1>6, <1>7, <1>12 DEF After, PlanInv

\* A link that does not come up: only a second fault fails a use with it.
LEMMA OpenFailsWell ==
    ASSUME Before, pc \in {"reset", "select"}, OpenFails, Lasting(chip', chip),
           troubles <= troubles', scpOpen' = scpOpen, sessionActive' = sessionActive,
           peerObjReady' = peerObjReady,
           ~(Near' /\ Alone), ~(Calm' /\ identity # "file")
    PROVE  After
<1>1. /\ IInv /\ TypeOK /\ TypeOK' /\ PowerInv /\ PlanInv /\ JobInv /\ AgendaInv /\ PresentInv
      /\ ChannelInv /\ NearPath /\ service <= troubles
  BY BeforeFields
<1>2. pc # "idle" /\ pc \in Opening
  BY DEF Opening
<1>3. sessionActive => scpOpen
  BY <1>1 DEF ChannelInv
<1>4. CASE /\ job.op = "probe" /\ pc' = "absent" /\ RunsWith("file")
           /\ UNCHANGED <<job, agenda, cycled>>
  <2>1. job' = job /\ identity' = "file" /\ result' = result /\ service' = service
        /\ job.why = "test"
    BY <1>1, <1>4 DEF RunsWith, JobInv
  <2>2. /\ pc' \notin Opening /\ pc' \notin Establishing /\ pc' \notin Serving
        /\ pc' \notin {"idle", "reset", "select", "info"} /\ pc' # "session" /\ pc' # "idle"
        /\ pc' # "verify" /\ pc' # "auth" /\ pc' # "peerUpdate" /\ pc' # "agreePeer"
        /\ pc' # "read" /\ pc' \notin {"exists", "generate", "read"}
        /\ pc' \notin (Opening \ {"reset"}) \cup Establishing /\ pc' # "reset"
        /\ pc' \notin {"info", "init"}
    BY <1>4 DEF Serving, Opening, Establishing
  <2>3. PlanInv'
    BY <1>4, <2>1, <2>2 DEF PlanInv, JobInv, AgendaInv, PresentInv
  <2>4. ChannelInv'
    <3>1. chip'.selected # "ssd" /\ (peerObjReady' => chip'.peer # "none")
      BY <1>1 DEF ChannelInv, Lasting
    <3> QED
      BY <1>3, <2>2, <3>1, Zenon DEF ChannelInv
  <2>5. Near' => NearInv'
    BY <2>2, Zenon DEF NearInv
  <2>6. OpeningInv'
    BY <2>2, Zenon DEF OpeningInv
  <2>7. Near' => result' # "failed"
    BY <1>1, <2>1, NearBefore, Zenon DEF NearPath
  <2>8. Path'
    BY <2>1, <2>5, <2>6, <2>7, Zenon DEF Path, NearPath, AlonePath, CalmPath
  <2> QED
    BY <2>3, <2>4, <2>8 DEF After
<1>5. CASE /\ job.op = "probe" /\ NextJob(<< >>)
           /\ UNCHANGED <<verdicts, rotated>>
  <2>1. << >> \in Seq(Errand) /\ NextErrand(<< >>)
    BY DEF NextErrand
  <2>2. JobInv' /\ AgendaInv' /\ pc' = "idle"
    BY <1>5, <2>1, NextJobPlan
  <2>3. identity' = identity /\ result' = result /\ service' = service
    BY <1>5 DEF verdicts
  <2>4. PresentInv'
    <3>1. identity = "chip" => \A k \in Keys : Present(chip', k)
      BY <1>1, PresentKept DEF PresentInv
    <3> QED
      BY <2>2, <2>3, <3>1 DEF PresentInv
  <2>5. Near' => Near
    BY <1>1, <2>3, NearBefore, Zenon
  <2>6. Near' => result' # "failed"
    BY <1>1, <2>3, <2>5, Zenon DEF NearPath
  <2>7. Near => (scpOpen => sessionActive)
    BY <1>1, Zenon DEF NearPath, NearInv
  <2>8. scpOpen \in BOOLEAN /\ sessionActive \in BOOLEAN
    BY <1>1 DEF TypeOK
  <2>9. Near' => scpOpen' = sessionActive'
    BY <1>3, <2>5, <2>7, <2>8
  <2>10. Ready'
    BY <2>3, <2>9, Zenon DEF Ready
  <2>11. ~Alone'
    BY <2>2 DEF Alone
  <2>12. Path'
    BY <1>1, <2>2, <2>6, <2>10, <2>11, Rests, Zenon
  <2>13. ChannelInv'
    BY <1>1, <1>3, <2>2, RestsInChannel, Zenon
  <2> QED
    BY <2>2, <2>4, <2>12, <2>13 DEF After, PlanInv
<1>6. CASE job.op # "probe" /\ Fails
  <2>1. ~scpOpen /\ ~sessionActive
    BY <1>1, <1>2, <1>3, <1>6 DEF ChannelInv
  <2>2. scpOpen' = sessionActive' /\ (sessionActive' => scpOpen')
    BY <1>1, <2>1 DEF TypeOK
  <2>3. peerObjReady' => peerObjReady
    OBVIOUS
  <2> QED
    BY <1>1, <1>2, <1>6, <2>2, <2>3, FailsWell DEF After
<1> QED
  BY <1>4, <1>5, <1>6 DEF OpenFails

LEMMA OpenFailsVerdict ==
    ASSUME Before, pc # "idle", OpenFails
    PROVE  service' = service
BY BeforeFields, FailsVerdict DEF OpenFails, RunsWith, verdicts

LEMMA ResetWell == ASSUME Before, Reset PROVE After
<1>1. /\ chip \in Chip /\ ChannelInv /\ TypeOK /\ TypeOK' /\ pc = "reset" /\ JobInv /\ NearPath
      /\ troubles \in Nat /\ service <= troubles
  BY BeforeFields DEF Reset
<1>2. /\ scpOpen' = scpOpen /\ sessionActive' = sessionActive /\ peerObjReady' = peerObjReady
      /\ troubles' = troubles
  BY DEF Reset
<1>3. pc \in Opening /\ pc \in Opening \cup Establishing /\ pc # "idle" /\ troubles <= troubles'
  BY <1>1, <1>2 DEF Opening
<1>4. /\ sessionActive' => scpOpen'
      /\ job.op # "probe" => ~scpOpen'
  BY <1>1, <1>2, <1>3 DEF ChannelInv
<1>5. Near => (scpOpen' => sessionActive')
  BY <1>1, <1>2, Zenon DEF NearPath, NearInv
<1>6. /\ Lasting(Fresh(chip), chip) /\ Lasting(PoweredUp(chip), chip)
      /\ Fresh(chip).up = chip.up /\ PoweredUp(chip).up /\ Fresh(chip).expects = 0
  BY <1>1, FreshLasting
<1>7. CASE chip.up /\ chip' = Fresh(chip) /\ seq' = 0 /\ Goto("select")
  <2>1. pc' = "select" /\ UNCHANGED <<job, agenda, verdicts>> /\ service' = service
    BY <1>7 DEF Goto, verdicts
  <2>2. Near' => Near
    BY <1>1, <1>3, <2>1, NearBefore, Zenon
  <2>3. Heard' /\ chip'.up
    BY <1>6, <1>7 DEF Heard
  <2>4. OpeningInv'
    <3>1. pc' # "reset" /\ pc' \notin {"info", "init"} /\ pc' # "auth"
      BY <2>1
    <3> QED
      BY <2>3, <3>1, Zenon DEF OpeningInv
  <2>5. Calm' /\ identity # "file" => ~Alone
    BY <1>1, <1>3, <2>1, NearBefore, CalmNotAlone, Zenon
  <2>6. "select" \in Opening /\ "select" # "auth"
    BY DEF Opening
  <2>7. Lasting(chip', chip) /\ Near' => (scpOpen' => sessionActive')
    BY <1>5, <1>6, <1>7, <2>2
  <2> QED
    BY <1>2, <1>3, <1>4, <1>6, <1>7, <2>1, <2>3, <2>4, <2>5, <2>6, <2>7, OpensOn
<1>8. CASE ~chip.up /\ MayCycle /\ chip' = PoweredUp(chip) /\ PowerCycling
  <2>1. pc' = "reset" /\ UNCHANGED <<job, agenda, verdicts>> /\ service' = service
    BY <1>8 DEF PowerCycling, verdicts
  <2>2. Near' => Near
    BY <1>1, <1>3, <2>1, NearBefore, Zenon
  <2>3. chip'.up
    BY <1>6, <1>8
  <2>4. OpeningInv'
    <3>1. /\ pc' = "reset" /\ pc' \notin (Opening \ {"reset"}) \cup Establishing
          /\ pc' \notin {"info", "init"} /\ pc' # "auth"
      BY <2>1 DEF Opening, Establishing
    <3> QED
      BY <2>3, <3>1, Zenon DEF OpeningInv
  <2>5. Calm' /\ identity # "file" => ~Alone
    BY <1>1, <1>3, <2>1, NearBefore, CalmNotAlone, Zenon
  <2>6. "reset" \in Opening /\ "reset" # "auth"
    BY DEF Opening
  <2>7. Lasting(chip', chip) /\ Near' => (scpOpen' => sessionActive')
    BY <1>5, <1>6, <1>8, <2>2
  <2> QED
    BY <1>2, <1>3, <1>4, <1>6, <1>8, <2>1, <2>3, <2>4, <2>5, <2>6, <2>7, OpensOn
<1>9. CASE ~chip.up /\ ~MayCycle /\ OpenFails /\ chip' = chip
  <2>1. service' = service
    BY <1>3, <1>9, OpenFailsVerdict
  <2>2. OpeningInv => PowerCycle /\ ~cycled
    BY <1>1, <1>9, Zenon DEF OpeningInv
  <2>3. ~(Near' /\ Alone)
    <3> SUFFICES ASSUME Near', Alone PROVE FALSE
      OBVIOUS
    <3>1. PowerCycle /\ ~cycled
      BY <1>3, <2>1, <2>2, AloneOnTheWay
    <3>2. job.op = "use"
      BY <1>1 DEF JobInv, Alone
    <3> QED
      BY <1>9, <3>1, <3>2 DEF MayCycle
  <2>4. ~(Calm' /\ identity # "file")
    BY <1>3, <1>9, <2>1, CalmOnTheWay, Zenon DEF CalmInv
  <2>5. Lasting(chip', chip)
    BY <1>9 DEF Lasting
  <2> QED
    BY <1>1, <1>2, <1>3, <1>9, <2>3, <2>4, <2>5, OpenFailsWell
<1> QED
  BY <1>7, <1>8, <1>9 DEF Reset

\* A chip that does not answer can be brought back.
LEMMA BroughtBack ==
    ASSUME IInv, PowerInv, Recoverable
    PROVE  chip.up \/ PowerCycle
BY DEF IInv, TypeOK, PowerInv, Recoverable

LEMMA EnsureSessionWell == ASSUME Before, Recoverable, EnsureSession PROVE After
<1>1. /\ IInv /\ ChannelInv /\ TypeOK /\ OperationInv /\ pc = "session" /\ JobInv /\ NearPath
      /\ PowerInv
  BY BeforeFields DEF EnsureSession
<1>2. /\ chip' = chip /\ seq' = seq /\ scpOpen' = scpOpen /\ sessionActive' = sessionActive
      /\ sessionIdGood' = sessionIdGood /\ peerObjReady' = peerObjReady
      /\ troubles' = troubles /\ cycled' = FALSE /\ UNCHANGED <<job, agenda, verdicts>>
      /\ service' = service
  BY DEF EnsureSession, link, verdicts
<1>3. pc \notin Opening \cup {"absent", "idle"} /\ pc # "idle" /\ job.op # "probe"
  BY <1>1 DEF Opening, JobInv
<1>4. /\ Lasting(chip', chip) /\ (Sound => Sound') /\ (Heard' <=> Heard)
      /\ (InStepNow => InStepNow')
  BY <1>2 DEF Lasting, Present, Sound, Heard, InSessionNow, InStepNow, InChannel
<1>5. Calm /\ identity # "file" => CalmInv
  BY BeforeFields, Zenon DEF CalmPath
<1>6. (Near' <=> Near) /\ (Calm' <=> Calm)
  BY <1>2 DEF Near, Calm
<1>7. sessionActive => scpOpen
  BY <1>1 DEF ChannelInv
<1>8. Sound => scpOpen /\ sessionActive
  BY SoundFields
<1>9. CASE sessionActive /\ pc' = MainStep
  <2>1. /\ MainStep \in Serving
        /\ MainStep = "peerUpdate" => peerObjReady
        /\ MainStep # "agreePeer" /\ MainStep # "read"
        /\ MainStep \in {"exists", "generate", "read"} => job.op = "ensure"
    BY <1>1, <1>3, MainStepServes
  <2>2. ~(Near /\ Alone /\ job.attempt = 2)
    BY <1>1, <1>7, <1>9, Zenon DEF NearPath, NearInv
  <2>3. Calm /\ identity # "file" => Sound'
    BY <1>1, <1>4, <1>5, <1>9, Zenon DEF CalmInv
  <2>4. scpOpen' /\ sessionActive'
    BY <1>2, <1>7, <1>9
  <2>5. peerObjReady' => chip'.peer # "none"
    BY <1>1, <1>2 DEF ChannelInv
  <2>6. MainStep = "peerUpdate" => peerObjReady'
    BY <1>2, <2>1
  <2> QED
    BY <1>2, <1>3, <1>4, <1>9, <2>1, <2>2, <2>3, <2>4, <2>5, <2>6, ServesOn
<1>10. CASE ~sessionActive /\ scpOpen /\ pc' = "setup"
  <2>1. Near => ~Alone /\ (Heard => InStepNow)
    BY <1>1, <1>10, Zenon DEF NearPath, NearInv
  <2>2. Calm /\ identity # "file" => ~Alone /\ Heard
    BY <1>1, <1>5, <1>8, <1>10, Zenon DEF CalmInv
  <2>3. "setup" \in Establishing /\ "setup" # "verify"
    BY DEF Establishing
  <2>4. scpOpen' /\ ~sessionActive'
    BY <1>2, <1>10
  <2>5. Near => (Heard' => InStepNow')
    BY <1>4, <2>1, Zenon
  <2>6. (Near /\ Alone) \/ (Calm /\ identity # "file") => Heard'
    BY <1>4, <2>1, <2>2, Zenon
  <2> QED
    BY <1>2, <1>3, <1>4, <1>10, <2>2, <2>3, <2>4, <2>5, <2>6, EstablishesOn
<1>11. CASE ~sessionActive /\ ~scpOpen /\ pc' = "reset"
  <2>1. "reset" \in Opening /\ "reset" # "auth"
    BY DEF Opening
  <2>2. ~scpOpen' /\ ~sessionActive' /\ troubles <= troubles'
    BY <1>1, <1>2, <1>11 DEF TypeOK
  <2>3. OpeningInv'
    <3>1. chip'.up \/ (PowerCycle /\ ~cycled')
      BY <1>1, <1>2, BroughtBack
    <3>2. /\ pc' = "reset" /\ pc' \notin (Opening \ {"reset"}) \cup Establishing
          /\ pc' \notin {"info", "init"} /\ pc' # "auth"
      BY <1>11 DEF Opening, Establishing
    <3> QED
      BY <3>1, <3>2, Zenon DEF OpeningInv
  <2>4. Calm /\ identity # "file" => chip.up /\ ~Alone
    BY <1>5, <1>8, <1>11, Zenon DEF CalmInv
  <2>5. Calm' /\ identity # "file" => chip'.up /\ ~Alone
    BY <1>2, <1>6, <2>4
  <2> QED
    BY <1>2, <1>3, <1>4, <1>11, <2>1, <2>2, <2>3, <2>5, OpensOn
<1> QED
  BY <1>7, <1>9, <1>10, <1>11 DEF EnsureSession

\* What a command outside the channel tells and leaves.
LEMMA OpeningStep ==
    ASSUME Before, NEW answers \in SUBSET AnswerType, \A a \in answers : Keeps(a.chip, chip),
           NEW o \in Plain(answers), chip' = o.chip, troubles' = troubles + o.cost
    PROVE  /\ o.sw \in {"ok", "error", "refused", "none"}
           /\ Keeps(chip', chip)
           /\ troubles <= troubles'
           /\ o.sw # "none" => Heard /\ troubles' = troubles /\ From(o, answers)
           /\ Heard /\ troubles' = troubles => o.sw # "none"
<1>1. chip \in Chip /\ troubles \in Nat
  BY BeforeFields
<1>2. /\ o.sw \in {"ok", "error", "refused", "none"}
      /\ Keeps(o.chip, chip)
      /\ o.cost \in {0, 1}
      /\ o.sw # "none" => Heard /\ o.cost = 0 /\ From(o, answers)
      /\ Heard /\ o.cost = 0 => o.sw # "none"
  BY <1>1, PlainOutcome
<1>3. troubles <= troubles' /\ (o.cost = 0 <=> troubles' = troubles)
  BY <1>1, <1>2
<1> QED
  BY <1>2, <1>3

LEMMA SelectWell == ASSUME Before, Select PROVE After
<1> DEFINE new == [chip EXCEPT !.selected = Target]
           a == Answer("ok", new)
<1>1. /\ IInv /\ chip \in Chip /\ ChannelInv /\ TypeOK /\ TypeOK' /\ pc = "select" /\ JobInv
      /\ NearPath /\ troubles \in Nat /\ service <= troubles /\ seq \in {0, 1}
  BY BeforeFields DEF Select, TypeOK
<1>2. job.op \in {"probe", "ensure", "use", "none"} /\ Target = "applet"
      /\ KeySets = derivable \cup {"Factory"}
  BY <1>1 DEF JobInv, Target, KeySets
<1>3. /\ new \in Chip /\ Keeps(new, chip) /\ new.expects = chip.expects /\ new.selected = "applet"
  BY <1>1, <1>2 DEF Keeps, Lasting, Present, Chip
<1> HIDE DEF new
<1>4. a \in AnswerType /\ a.sw = "ok" /\ a.chip = new /\ Keeps(a.chip, chip)
  BY <1>3, AnswerTyped
<1>5. PICK o \in Plain({a}) :
         \/ /\ o.sw = "ok"
            /\ Happened(o, TRUE)
            /\ left' = KeySets
            /\ Goto(IF job.op = "probe" THEN "info" ELSE "init")
         \/ /\ o.sw # "ok" /\ MayCycle
            /\ Happened([o EXCEPT !.chip = PoweredUp(@)], TRUE)
            /\ PowerCycling
         \/ /\ o.sw # "ok" /\ ~MayCycle
            /\ Happened(o, TRUE)
            /\ OpenFails
  BY DEF Select, new
<1>6. /\ scpOpen' = scpOpen /\ sessionActive' = sessionActive /\ peerObjReady' = peerObjReady
  BY DEF Select
<1>7. /\ pc \in Opening /\ pc \in Opening \cup Establishing /\ pc # "idle"
      /\ pc \in (Opening \ {"reset"}) \cup Establishing /\ pc \in {"reset", "select"}
  BY <1>1 DEF Opening
<1>8. /\ sessionActive' => scpOpen'
      /\ job.op # "probe" => ~scpOpen'
  BY <1>1, <1>6, <1>7 DEF ChannelInv
<1>9. Near => (scpOpen' => sessionActive')
  BY <1>1, <1>6, Zenon DEF NearPath, NearInv
<1> HIDE DEF a
<1>10. From(o, {a}) => o.sw = "ok" /\ o.chip = Took(new)
  BY <1>4 DEF From
<1>11. CASE o.sw = "ok" /\ Happened(o, TRUE) /\ left' = KeySets
            /\ Goto(IF job.op = "probe" THEN "info" ELSE "init")
  <2> DEFINE step == IF job.op = "probe" THEN "info" ELSE "init"
  <2>1. chip' = o.chip /\ troubles' = troubles + o.cost /\ seq' = 1 - seq
    BY <1>11 DEF Happened
  <2>2. /\ Keeps(chip', chip) /\ Heard /\ troubles' = troubles /\ chip' = Took(new)
        /\ troubles <= troubles'
    BY <1>4, <1>10, <1>11, <2>1, OpeningStep
  <2>3. Heard' /\ chip'.selected = "applet"
    BY <1>1, <1>3, <2>1, <2>2, StepTaken
  <2>4. Lasting(chip', chip) /\ chip'.up
    BY <2>2, <2>3 DEF Keeps, Heard
  <2>5. chip'.keys \in left'
    BY <1>1, <1>2, <1>11, <2>4 DEF IInv, StoreInv, KeysKnown, Lasting
  <2>6. pc' = step /\ UNCHANGED <<job, agenda, verdicts>> /\ service' = service
    BY <1>11 DEF Goto, verdicts
  <2>7. step \in Opening /\ step # "auth" /\ step # "reset" /\ step \in {"info", "init"}
    BY DEF Opening
  <2> HIDE DEF step
  <2>8. OpeningInv'
    BY <2>3, <2>5, <2>6, <2>7, Zenon DEF OpeningInv
  <2>9. Near' => (scpOpen' => sessionActive')
    BY <1>1, <1>9, <2>2, <2>6, NearBefore, Zenon
  <2>10. Calm' /\ identity # "file" => ~Alone
    BY <1>1, <1>7, <2>2, <2>6, NearBefore, CalmNotAlone, Zenon
  <2> QED
    BY <1>6, <1>7, <1>8, <2>2, <2>4, <2>6, <2>7, <2>8, <2>9, <2>10, OpensOn
<1>12. CASE o.sw # "ok" /\ MayCycle /\ PowerCycling
            /\ Happened([o EXCEPT !.chip = PoweredUp(@)], TRUE)
  <2>1. o \in OutcomeType
    BY <1>1, <1>4, PlainFacts
  <2>2. o.chip \in Chip /\ chip' = PoweredUp(o.chip) /\ troubles' = troubles + o.cost
        /\ o.cost \in {0, 1}
    BY <1>12, <2>1 DEF OutcomeType, Happened
  <2>3. Keeps(o.chip, chip)
    BY <1>1, <1>4, PlainOutcome
  <2>4. Lasting(chip', chip) /\ chip'.up
    BY <2>2, <2>3, FreshLasting, LastingTwice DEF Keeps
  <2>5. pc' = "reset" /\ UNCHANGED <<job, agenda, verdicts>> /\ service' = service
    BY <1>12 DEF PowerCycling, verdicts
  <2>6. "reset" \in Opening /\ "reset" # "auth"
    BY DEF Opening
  <2>7. OpeningInv'
    <3>1. /\ pc' = "reset" /\ pc' \notin (Opening \ {"reset"}) \cup Establishing
          /\ pc' \notin {"info", "init"} /\ pc' # "auth"
      BY <2>5 DEF Opening, Establishing
    <3> QED
      BY <2>4, <3>1, Zenon DEF OpeningInv
  <2>8. troubles <= troubles'
    BY <1>1, <2>2
  <2>9. Near' => (scpOpen' => sessionActive')
    BY <1>1, <1>9, <2>5, <2>8, NearBefore, Zenon
  <2>10. Calm' /\ identity # "file" => ~Alone
    BY <1>1, <1>7, <2>5, <2>8, NearBefore, CalmNotAlone, Zenon
  <2> QED
    BY <1>6, <1>7, <1>8, <2>4, <2>5, <2>6, <2>7, <2>8, <2>9, <2>10, OpensOn
<1>13. CASE o.sw # "ok" /\ ~MayCycle /\ Happened(o, TRUE) /\ OpenFails
  <2>1. chip' = o.chip /\ troubles' = troubles + o.cost
    BY <1>13 DEF Happened
  <2>2. /\ Keeps(chip', chip) /\ troubles <= troubles' /\ ~(Heard /\ troubles' = troubles)
    BY <1>4, <1>10, <1>13, <2>1, OpeningStep
  <2>3. service' = service
    BY <1>7, <1>13, OpenFailsVerdict
  <2>4. OpeningInv => Heard
    BY <1>7, Zenon DEF OpeningInv
  <2>5. ~(Near' /\ Alone)
    BY <1>7, <2>2, <2>3, <2>4, AloneOnTheWay
  <2>6. ~(Calm' /\ identity # "file")
    BY <1>7, <2>2, <2>3, <2>4, CalmOnTheWay
  <2>7. Lasting(chip', chip)
    BY <2>2 DEF Keeps
  <2> QED
    BY <1>6, <1>7, <1>13, <2>2, <2>5, <2>6, <2>7, OpenFailsWell
<1> QED
  BY <1>5, <1>11, <1>12, <1>13

LEMMA InfoWell == ASSUME Before, Info PROVE After
<1>1. /\ IInv /\ chip \in Chip /\ ChannelInv /\ TypeOK /\ TypeOK' /\ pc = "info" /\ JobInv
      /\ NearPath /\ troubles \in Nat /\ service <= troubles /\ seq \in {0, 1}
  BY BeforeFields DEF Info, TypeOK
<1>2. /\ scpOpen' = scpOpen /\ sessionActive' = sessionActive /\ peerObjReady' = peerObjReady
      /\ seq' = seq /\ left' = left /\ pc' = "init" /\ UNCHANGED <<job, agenda, verdicts>>
      /\ service' = service
  BY DEF Info, link, Goto, verdicts
<1>3. /\ pc \in Opening /\ pc \in Opening \cup Establishing /\ pc # "idle"
      /\ pc \in (Opening \ {"reset"}) \cup Establishing /\ pc \in {"info", "init"}
      /\ "init" \in Opening /\ "init" \notin {"reset", "select", "info"} /\ "init" # "auth"
  BY <1>1 DEF Opening
<1>4. /\ sessionActive' => scpOpen'
      /\ job.op # "probe" => ~scpOpen'
  BY <1>1, <1>2, <1>3 DEF ChannelInv
<1>5. Lasting(chip', chip) /\ troubles <= troubles'
  <2>1. CASE chip' = chip /\ troubles' = troubles
    BY <1>1, <2>1 DEF Lasting
  <2>2. CASE chip' = Took(chip) /\ troubles' = troubles + 1
    <3>1. Keeps(chip, chip)
      BY <1>1, KeepsSelf
    <3>2. Keeps(Took(chip), chip)
      BY <1>1, <3>1, KeepsTook
    <3> QED
      BY <1>1, <2>2, <3>2 DEF Keeps
  <2> QED
    BY <2>1, <2>2 DEF Info
<1>6. ASSUME OpeningInv, troubles' = troubles
      PROVE  OpeningInv' /\ chip'.up
  <2>1. chip' = chip
    BY <1>1, <1>6 DEF Info
  <2>2. Heard /\ chip.selected = "applet" /\ chip.keys \in left
    BY <1>3, <1>6, Zenon DEF OpeningInv
  <2>3. Heard' /\ chip'.selected = "applet" /\ chip'.keys \in left' /\ chip'.up
    BY <1>2, <2>1, <2>2 DEF Heard
  <2>4. pc' # "reset" /\ pc' # "auth"
    BY <1>2
  <2> QED
    BY <2>3, <2>4, Zenon DEF OpeningInv
<1>7. Near' /\ Alone => OpeningInv'
  BY <1>2, <1>3, <1>5, <1>6, AloneOnTheWay
<1>8. Calm' /\ identity # "file" => OpeningInv' /\ chip'.up
  BY <1>2, <1>5, <1>6, CalmOnTheWay
<1>9. Calm' /\ identity # "file" => ~Alone
  BY <1>1, <1>2, <1>3, <1>5, NearBefore, CalmNotAlone, Zenon
<1> QED
  BY <1>2, <1>3, <1>4, <1>5, <1>7, <1>8, <1>9, OpensOn

\* The next key set: the chip's own is not given up, unless a fault came between.
LEMMA NextKeySetWell ==
    ASSUME Before, pc \in {"init", "auth"}, NextKeySet, Lasting(chip', chip), troubles <= troubles',
           scpOpen' = FALSE, sessionActive' = FALSE, peerObjReady' = peerObjReady,
           OpeningInv /\ troubles' = troubles =>
               Heard' /\ chip'.selected = "applet" /\ chip'.keys \in left'
    PROVE  After
<1>1. /\ IInv /\ TypeOK /\ TypeOK' /\ PowerInv /\ PlanInv /\ ChannelInv /\ NearPath
      /\ service <= troubles
  BY BeforeFields
<1>2. /\ pc # "idle" /\ pc \in Opening \cup Establishing
      /\ "init" \in Opening /\ "init" # "auth" /\ "init" \notin {"reset", "select", "info"}
  BY DEF Opening
<1>3. CASE Goto("init")
  <2>1. pc' = "init" /\ UNCHANGED <<job, agenda, verdicts>> /\ service' = service
    BY <1>3 DEF Goto, verdicts
  <2>2. ASSUME OpeningInv, troubles' = troubles
        PROVE  OpeningInv' /\ chip'.up
    <3>1. Heard' /\ chip'.selected = "applet" /\ chip'.keys \in left' /\ chip'.up
      BY <2>2 DEF Heard
    <3>2. pc' # "reset" /\ pc' # "auth"
      BY <2>1
    <3> QED
      BY <3>1, <3>2, Zenon DEF OpeningInv
  <2>3. Near' /\ Alone => OpeningInv'
    BY <1>2, <2>1, <2>2, AloneOnTheWay
  <2>4. Calm' /\ identity # "file" => OpeningInv' /\ chip'.up
    BY <1>2, <2>1, <2>2, CalmOnTheWay
  <2>5. Calm' /\ identity # "file" => ~Alone
    BY <1>1, <1>2, <2>1, NearBefore, CalmNotAlone, Zenon
  <2> QED
    BY <1>2, <2>1, <2>3, <2>4, <2>5, OpensOn
<1>4. CASE left' = {} /\ Fails
  <2>1. service' = service
    BY <1>1, <1>2, <1>4, FailsVerdict
  <2>2. ~(OpeningInv /\ troubles' = troubles)
    BY <1>4
  <2>3. ~(Near' /\ Alone)
    BY <1>2, <2>1, <2>2, AloneOnTheWay
  <2>4. ~(Calm' /\ identity # "file")
    BY <1>2, <2>1, <2>2, CalmOnTheWay
  <2>5. peerObjReady' => peerObjReady
    OBVIOUS
  <2> QED
    BY <1>1, <1>2, <1>4, <2>3, <2>4, <2>5, FailsWell DEF After
<1> QED
  BY <1>3, <1>4 DEF NextKeySet

LEMMA InitializeUpdateWell == ASSUME Before, InitializeUpdate PROVE After
<1> DEFINE new == [chip EXCEPT !.channel = "begun", !.session = "none"]
           a == IF chip.selected = "none" THEN Answer("error", chip) ELSE Answer("ok", new)
<1>1. /\ IInv /\ chip \in Chip /\ ChannelInv /\ TypeOK /\ TypeOK' /\ pc = "init"
      /\ troubles \in Nat /\ service <= troubles /\ seq \in {0, 1}
  BY BeforeFields DEF InitializeUpdate, TypeOK
<1>2. /\ new \in Chip /\ Keeps(new, chip) /\ new.expects = chip.expects
      /\ new.selected = chip.selected /\ new.channel = "begun"
  BY <1>1 DEF Keeps, Lasting, Present, Chip
<1>3. Keeps(chip, chip)
  BY <1>1, KeepsSelf
<1> HIDE DEF new
<1>4. a \in AnswerType /\ Keeps(a.chip, chip)
      /\ IF chip.selected = "none" THEN a.sw = "error" ELSE a.sw = "ok" /\ a.chip = new
  BY <1>1, <1>2, <1>3, AnswerTyped
<1>5. PICK o \in Plain({a}) :
        /\ Happened(o, TRUE)
        /\ \/ /\ o.sw = "ok" /\ chip.keys = Trying
              /\ Goto("auth")
           \/ ~(o.sw = "ok" /\ chip.keys = Trying) /\ NextKeySet
  BY DEF InitializeUpdate, new
<1>6. /\ scpOpen' = FALSE /\ sessionActive' = FALSE /\ peerObjReady' = peerObjReady
  BY DEF InitializeUpdate, CloseChannel
<1>7. /\ pc \in Opening /\ pc \in Opening \cup Establishing /\ pc # "idle"
      /\ pc \in (Opening \ {"reset"}) \cup Establishing /\ pc \in {"info", "init"}
      /\ pc \in {"init", "auth"}
  BY <1>1 DEF Opening
<1> HIDE DEF a
<1>8. chip' = o.chip /\ troubles' = troubles + o.cost /\ seq' = 1 - seq
  BY <1>5 DEF Happened
<1>9. /\ o.sw \in {"ok", "error", "refused", "none"}
      /\ Keeps(chip', chip)
      /\ troubles <= troubles'
      /\ o.sw # "none" => Heard /\ troubles' = troubles /\ From(o, {a})
      /\ Heard /\ troubles' = troubles => o.sw # "none"
  BY <1>4, <1>8, OpeningStep
<1>10. From(o, {a}) => o.sw = a.sw /\ o.chip = Took(a.chip)
  BY DEF From
<1>11. Lasting(chip', chip)
  BY <1>9 DEF Keeps
<1>12. CASE o.sw = "ok" /\ chip.keys = Trying /\ Goto("auth")
  <2>1. chip.selected # "none" /\ chip' = Took(new) /\ Heard /\ troubles' = troubles
    BY <1>4, <1>8, <1>9, <1>10, <1>12
  <2>2. chip.selected = "applet"
    BY <1>1, <2>1 DEF ChannelInv, Chip
  <2>3. Heard' /\ chip'.selected = "applet" /\ chip'.channel = "begun"
    BY <1>1, <1>2, <1>8, <2>1, <2>2, StepTaken
  <2>4. chip'.up
    BY <2>3 DEF Heard
  <2>5. pc' = "auth" /\ UNCHANGED <<job, agenda, verdicts>> /\ service' = service
    BY <1>12 DEF Goto, verdicts
  <2>6. OpeningInv'
    <3>1. pc' # "reset" /\ pc' \notin {"info", "init"}
      BY <2>5
    <3> QED
      BY <2>3, <3>1, Zenon DEF OpeningInv
  <2>7. Calm' /\ identity # "file" => ~Alone
    BY <1>1, <1>7, <1>9, <2>5, NearBefore, CalmNotAlone, Zenon
  <2>8. "auth" \in Opening /\ "auth" \notin {"reset", "select", "info"}
    BY DEF Opening
  <2> QED
    BY <1>6, <1>7, <1>9, <1>11, <2>3, <2>4, <2>5, <2>6, <2>7, <2>8, OpensOn
<1>13. CASE ~(o.sw = "ok" /\ chip.keys = Trying) /\ NextKeySet
  <2>1. ASSUME OpeningInv, troubles' = troubles
        PROVE  Heard' /\ chip'.selected = "applet" /\ chip'.keys \in left'
    <3>1. Heard /\ chip.selected = "applet" /\ chip.keys \in left
      BY <1>7, <2>1, Zenon DEF OpeningInv
    <3>2. o.sw = "ok" /\ chip' = Took(new)
      BY <1>4, <1>8, <1>9, <1>10, <2>1, <3>1
    <3>3. Heard' /\ chip'.selected = "applet"
      BY <1>1, <1>2, <1>8, <3>1, <3>2, StepTaken
    <3>4. chip.keys \in left'
      BY <1>13, <3>1, <3>2 DEF NextKeySet
    <3> QED
      BY <1>11, <3>3, <3>4 DEF Lasting
  <2> QED
    BY <1>6, <1>7, <1>9, <1>11, <1>13, <2>1, NextKeySetWell
<1> QED
  BY <1>5, <1>12, <1>13

LEMMA ExternalAuthenticateWell == ASSUME Before, ExternalAuthenticate PROVE After
<1> DEFINE new == [chip EXCEPT !.channel = "open", !.agrees = TRUE]
           a == IF chip.channel = "begun" THEN Answer("ok", new) ELSE Answer("error", chip)
<1>1. /\ IInv /\ chip \in Chip /\ ChannelInv /\ TypeOK /\ TypeOK' /\ pc = "auth" /\ JobInv
      /\ PresentInv /\ NearPath /\ troubles \in Nat /\ service <= troubles /\ seq \in {0, 1}
      /\ ~scpOpen /\ ~sessionActive
  BY BeforeFields DEF ExternalAuthenticate, TypeOK, StepInv
<1>2. /\ new \in Chip /\ Keeps(new, chip) /\ new.expects = chip.expects
      /\ new.selected = chip.selected /\ new.channel = "open" /\ new.agrees
  BY <1>1 DEF Keeps, Lasting, Present, Chip
<1>3. Keeps(chip, chip)
  BY <1>1, KeepsSelf
<1> HIDE DEF new
<1>4. a \in AnswerType /\ Keeps(a.chip, chip)
      /\ IF chip.channel = "begun" THEN a.sw = "ok" /\ a.chip = new ELSE a.sw = "error"
  BY <1>1, <1>2, <1>3, AnswerTyped
<1>5. PICK o \in Plain({a}) :
        /\ Happened(o, TRUE)
        /\ \/ o.sw = "ok" /\ scpOpen' = TRUE /\ ChannelOpen
           \/ o.sw # "ok" /\ NextKeySet /\ UNCHANGED scpOpen
  BY DEF ExternalAuthenticate, new
<1>6. sessionActive' = FALSE /\ peerObjReady' = peerObjReady
  BY <1>1 DEF ExternalAuthenticate, TypeOK
<1>7. /\ pc \in Opening /\ pc \in Opening \cup Establishing /\ pc # "idle"
      /\ pc \in (Opening \ {"reset"}) \cup Establishing /\ pc \in {"init", "auth"}
  BY <1>1 DEF Opening
<1> HIDE DEF a
<1>8. chip' = o.chip /\ troubles' = troubles + o.cost /\ seq' = 1 - seq
  BY <1>5 DEF Happened
<1>9. /\ o.sw \in {"ok", "error", "refused", "none"}
      /\ Keeps(chip', chip)
      /\ troubles <= troubles'
      /\ o.sw # "none" => Heard /\ troubles' = troubles /\ From(o, {a})
      /\ Heard /\ troubles' = troubles => o.sw # "none"
  BY <1>4, <1>8, OpeningStep
<1>10. From(o, {a}) => o.sw = a.sw /\ o.chip = Took(a.chip)
  BY DEF From
<1>11. Lasting(chip', chip)
  BY <1>9 DEF Keeps
<1>12. CASE o.sw = "ok" /\ scpOpen' = TRUE /\ ChannelOpen
  <2>1. chip' = Took(new) /\ Heard /\ troubles' = troubles
    BY <1>4, <1>8, <1>9, <1>10, <1>12
  <2>2. /\ Heard' /\ chip'.channel = "open" /\ chip'.agrees /\ chip'.selected = chip.selected
    BY <1>1, <1>2, <1>8, <2>1, StepTaken
  <2>3. chip'.up
    BY <2>2 DEF Heard
  <2>4. Near => InStepNow'
    <3>1. Near => (Heard => chip.selected = "applet")
      BY <1>1, Zenon DEF NearPath, NearInv
    <3> QED
      BY <2>1, <2>2, <3>1 DEF InStepNow, InChannel
  <2>5. CASE job.op \in {"ensure", "use"} /\ Goto("setup")
    <3>1. pc' = "setup" /\ UNCHANGED <<job, agenda, verdicts>> /\ job.op # "probe"
      BY <2>5 DEF Goto
    <3>2. "setup" \in Establishing /\ "setup" # "verify"
      BY DEF Establishing
    <3>3. Calm /\ identity # "file" => ~Alone
      BY <1>7, CalmNotAlone, Zenon
    <3> QED
      BY <1>6, <1>7, <1>11, <1>12, <2>1, <2>2, <2>4, <3>1, <3>2, <3>3, EstablishesOn
  <2>6. CASE job.op = "probe" /\ NextJob(SelfTest \o AfterTest) /\ UNCHANGED <<verdicts, rotated>>
    <3> DEFINE plan == SelfTest \o AfterTest
    <3>1. plan \in Seq(Errand) /\ plan # << >> /\ NextErrand(plan)
      BY PlansMade, PlanGoesOn
    <3> HIDE DEF plan
    <3>2. NextJob(plan)
      BY <2>6 DEF plan
    <3>3. /\ pc' = "session" /\ JobInv' /\ AgendaInv' /\ (job'.why = "loop" => pc' = "idle")
      BY <3>1, <3>2, NextJobPlan
    <3>4. identity' = identity /\ result' = result /\ service' = service
      BY <2>6 DEF verdicts
    <3>5. /\ pc' \notin Opening /\ pc' \notin Establishing /\ pc' \notin Serving
          /\ pc' \notin (Opening \ {"reset"}) \cup Establishing
          /\ pc' # "reset" /\ pc' \notin {"info", "init"} /\ pc' # "auth" /\ pc' # "verify"
          /\ pc' # "read" /\ pc' # "idle" /\ pc' \notin {"idle", "reset", "select", "info"}
          /\ pc' \in {"idle", "session"}
      BY <3>3 DEF Opening, Establishing, Serving
    <3>6. PresentInv'
      <4>1. identity = "chip" => \A k \in Keys : Present(chip', k)
        BY <1>1, <1>11, PresentKept DEF PresentInv
      <4> QED
        BY <3>4, <3>5, <4>1 DEF PresentInv
    <3>7. ChannelInv'
      BY <1>1, <1>6, <1>11, <3>5, RestsInChannel
    <3>8. ~Alone'
      BY <3>3, <3>5 DEF Alone
    <3>9. (Near' => Near) /\ (Calm' => Calm)
      BY <1>1, <1>9, <3>4, NearBefore, Zenon
    <3>10. Near' => NearInv'
      BY <2>4, <3>5, <3>8, <3>9, Zenon DEF NearInv
    <3>11. OpeningInv'
      BY <3>5, Zenon DEF OpeningInv
    <3>12. CalmInv'
      <4>1. scpOpen' /\ ~sessionActive'
        BY <1>6, <1>12
      <4> QED
        BY <2>2, <2>3, <3>5, <3>8, <4>1, Zenon DEF CalmInv
    <3>13. Near' => result' # "failed"
      BY <1>1, <3>4, <3>9, Zenon DEF NearPath
    <3>14. Path'
      BY <3>10, <3>11, <3>12, <3>13, Zenon DEF Path, NearPath, AlonePath, CalmPath
    <3> QED
      BY <3>3, <3>6, <3>7, <3>14 DEF After, PlanInv
  <2> QED
    BY <1>1, <1>12, <2>5, <2>6 DEF ChannelOpen, JobInv
<1>13. CASE o.sw # "ok" /\ NextKeySet /\ UNCHANGED scpOpen
  <2>1. ~(OpeningInv /\ troubles' = troubles)
    <3>1. OpeningInv => Heard /\ chip.channel = "begun"
      BY <1>1, <1>7, Zenon DEF OpeningInv
    <3> QED
      BY <1>4, <1>9, <1>10, <1>13, <3>1
  <2>2. scpOpen' = FALSE
    BY <1>1, <1>13 DEF TypeOK
  <2> QED
    BY <1>6, <1>7, <1>9, <1>11, <1>13, <2>1, <2>2, NextKeySetWell
<1> QED
  BY <1>5, <1>12, <1>13

------------------------------------------------------------------------------
(* Requests, faults and restarts.                                          *)

LEMMA UseKeyWell == ASSUME Before, NEW k \in Keys, UseKey(k) PROVE After
<1>1. /\ IInv /\ chip \in Chip /\ ChannelInv /\ TypeOK /\ TypeOK' /\ PresentInv /\ NearPath
      /\ CalmPath /\ pc = "idle" /\ identity = "chip"
  BY BeforeFields DEF UseKey
<1>2. /\ seq' = seq /\ scpOpen' = scpOpen /\ sessionActive' = sessionActive
      /\ sessionIdGood' = sessionIdGood /\ peerObjReady' = peerObjReady /\ troubles' = troubles
      /\ identity' = identity /\ result' = result /\ service' = service /\ pc' = "session"
  BY DEF UseKey, link, verdicts
<1>3. /\ job' \in Job /\ job'.op = "use" /\ job'.why = "loop" /\ job'.attempt = 1
  BY DEF UseKey, Work, Job
<1>4. /\ chip'.up = chip.up /\ chip'.expects = chip.expects /\ chip'.selected = chip.selected
      /\ chip'.channel = chip.channel /\ chip'.agrees = chip.agrees
      /\ chip'.session = chip.session /\ chip'.keys = chip.keys /\ chip'.key = chip.key
      /\ (chip.peer # "none" => chip'.peer # "none")
  BY <1>1 DEF UseKey, Chip
<1>5. Lasting(chip', chip)
  BY <1>4 DEF Lasting, Present
<1>6. Sound => Sound'
  BY <1>2, <1>4 DEF Sound, Heard, InSessionNow, InStepNow, InChannel
<1>7. JobInv' /\ AgendaInv'
  BY <1>1, <1>2, <1>3 DEF JobInv, AgendaInv, Opening
<1>8. PresentInv'
  <2>1. \A j \in Keys : Present(chip', j)
    BY <1>1, <1>5, PresentKept DEF PresentInv
  <2> QED
    BY <1>2, <2>1 DEF PresentInv
<1>9. ChannelInv'
  <2>1. sessionActive' => scpOpen'
    BY <1>1, <1>2 DEF ChannelInv
  <2> QED
    BY <1>1, <1>2, <1>5, <2>1, RestsInChannel
<1>10. (Near' <=> Near) /\ (Calm' <=> Calm)
  BY <1>2 DEF Near, Calm
<1>11. Near => scpOpen = sessionActive
  <2>1. Near => (scpOpen => sessionActive)
    BY <1>1, Zenon DEF NearPath, NearInv
  <2> QED
    BY <1>1, <2>1 DEF ChannelInv, TypeOK
<1>12. Calm => Sound
  BY <1>1, Zenon DEF CalmPath, CalmInv
<1>13. Ready'
  BY <1>2, <1>6, <1>10, <1>11, <1>12, Zenon DEF Ready
<1>14. Near' => result' # "failed"
  BY <1>1, <1>2, <1>10, Zenon DEF NearPath
<1>15. Path'
  BY <1>1, <1>2, <1>3, <1>13, <1>14, Rests
<1> QED
  BY <1>7, <1>8, <1>9, <1>15 DEF After, PlanInv

LEMMA ReprobeWell == ASSUME Before, Reprobe PROVE After
<1>1. /\ chip \in Chip /\ ChannelInv /\ TypeOK /\ TypeOK' /\ PresentInv /\ NearPath /\ CalmPath
      /\ pc = "idle"
  BY BeforeFields DEF Reprobe, Command
<1>2. /\ chip' = chip /\ scpOpen' = scpOpen /\ sessionActive' = sessionActive
      /\ peerObjReady' = FALSE /\ troubles' = troubles
      /\ identity' = identity /\ result' = result /\ service' = service /\ pc' = "reset"
      /\ job' = Work("probe", ExchangeKey, "test")
  BY DEF Reprobe, Command, verdicts
<1>3. job'.op = "probe" /\ job'.why = "test"
  BY <1>2 DEF Work
<1>4. /\ pc' \in Opening /\ pc' \notin Establishing /\ pc' \notin Serving
      /\ pc' \notin (Opening \ {"reset"}) \cup Establishing /\ pc' \notin {"info", "init"}
      /\ pc' # "auth" /\ pc' # "verify" /\ pc' # "session" /\ pc' # "idle" /\ pc' # "read"
      /\ pc' # "peerUpdate" /\ pc' # "agreePeer" /\ pc' \notin {"exists", "generate", "read"}
  BY <1>2 DEF Opening, Establishing, Serving
<1>5. JobInv' /\ AgendaInv' /\ PresentInv'
  BY <1>1, <1>2, <1>3, <1>4 DEF JobInv, AgendaInv, PresentInv
<1>6. ChannelInv'
  BY <1>1, <1>2, <1>3, <1>4 DEF ChannelInv
<1>7. (Near' <=> Near) /\ (Calm' <=> Calm) /\ ~Alone'
  BY <1>2, <1>3 DEF Near, Calm, Alone
<1>8. Near' => NearInv'
  <2>1. Near => (scpOpen' => sessionActive')
    BY <1>1, <1>2, Zenon DEF NearPath, NearInv
  <2> QED
    BY <1>4, <1>7, <2>1, Zenon DEF NearInv
<1>9. Calm' /\ identity' # "file" => OpeningInv' /\ CalmInv'
  <2>1. Calm /\ identity # "file" => chip.up
    BY <1>1, Zenon DEF CalmPath, CalmInv
  <2>2. Calm' /\ identity' # "file" => chip'.up
    BY <1>2, <1>7, <2>1
  <2> QED
    BY <1>4, <1>7, <2>2, Zenon DEF OpeningInv, CalmInv
<1>10. Near' => result' # "failed"
  BY <1>1, <1>2, <1>7, Zenon DEF NearPath
<1>11. Path'
  BY <1>7, <1>8, <1>9, <1>10, Zenon DEF Path, NearPath, AlonePath, CalmPath
<1> QED
  BY <1>5, <1>6, <1>11 DEF After, PlanInv

LEMMA OneMore ==
    \A t, s \in Nat : s <= t => ~(t + 1 = s) /\ (t + 1 <= s + 1 => t = s)
OBVIOUS

\* A fault that meets an idle driver, or a chip that goes silent, is the one that is absorbed.
LEMMA TroubleWell ==
    ASSUME Before, troubles' = troubles + 1, UNCHANGED <<program, verdicts>>,
           UNCHANGED <<scpOpen, sessionActive, peerObjReady>>,
           Lasting(chip', chip), pc = "agreePeer" => chip'.peer = chip.peer,
           pc = "idle" \/ ~Heard'
    PROVE  After
<1>1. /\ IInv /\ ChannelInv /\ TypeOK /\ TypeOK' /\ JobInv /\ AgendaInv /\ PresentInv /\ NearPath
      /\ CalmPath /\ service <= troubles /\ troubles \in Nat /\ service \in Nat
  BY BeforeFields DEF TypeOK
<1>2. /\ pc' = pc /\ job' = job /\ agenda' = agenda /\ identity' = identity /\ result' = result
      /\ service' = service /\ scpOpen' = scpOpen /\ sessionActive' = sessionActive
      /\ peerObjReady' = peerObjReady
  BY DEF program, verdicts
<1>3. JobInv'
  BY <1>1, <1>2 DEF JobInv
<1>4. AgendaInv'
  <2>1. Present(chip, ExchangeKey) => Present(chip', ExchangeKey)
    BY PresentKept DEF Keys
  <2> QED
    BY <1>1, <1>2, <2>1 DEF AgendaInv
<1>5. PresentInv'
  <2>1. identity = "chip" => \A k \in Keys : Present(chip', k)
    BY <1>1, PresentKept DEF PresentInv
  <2>2. pc = "read" => Present(chip', job.key)
    BY <1>1, PresentKept DEF PresentInv, TypeOK, Job
  <2> QED
    BY <1>2, <2>1, <2>2 DEF PresentInv
<1>6. ChannelInv'
  <2>1. chip'.selected # "ssd" /\ (peerObjReady' => chip'.peer # "none")
    BY <1>1, <1>2 DEF ChannelInv, Lasting
  <2> QED
    BY <1>1, <1>2, <2>1 DEF ChannelInv
<1>7. ~Calm' /\ (Near' => Calm)
  <2>1. /\ Calm' <=> troubles + 1 = service
        /\ Near' <=> troubles + 1 <= service + 1
        /\ Calm <=> troubles = service
    BY <1>2, Zenon DEF Calm, Near
  <2> QED
    BY <1>1, <2>1, OneMore, Zenon
<1>8. (Calm => Near) /\ (Alone' <=> Alone)
  BY <1>1, <1>2, CalmIsNear DEF Alone
<1>9. Alone => identity = "chip"
  BY <1>1, Zenon DEF JobInv, Alone
<1>10. Near' /\ Alone => pc \in {"session"} \cup Serving /\ job.attempt = 1
  BY <1>1, <1>7, <1>9, Zenon DEF CalmPath, CalmInv
<1>11. Near' => NearInv'
  <2>1. ASSUME Near' PROVE NearInv'
    <3>1. NearInv
      BY <1>1, <1>7, <1>8, <2>1, Zenon DEF NearPath
    <3>2. Alone => job.attempt # 2
      BY <1>10, <2>1
    <3>3. Alone' => job'.attempt # 2
      BY <1>2, <1>8, <3>2
    <3>4. CASE pc = "idle"
      <4>1. scpOpen => sessionActive
        BY <3>1, <3>4, Zenon DEF NearInv
      <4>2. /\ pc' \notin Establishing /\ pc' # "verify" /\ pc' # "auth" /\ pc' # "session"
            /\ pc' \notin Serving
        BY <1>2, <3>4 DEF Establishing, Serving
      <4>3. scpOpen' => sessionActive'
        BY <1>2, <4>1
      <4> QED
        BY <4>2, <4>3, Zenon DEF NearInv
    <3>5. CASE ~Heard'
      <4>1. pc \in {"idle", "reset", "select", "info"} => (scpOpen => sessionActive)
        BY <3>1, Zenon DEF NearInv
      <4>2. pc = "session" /\ scpOpen /\ ~sessionActive => ~Alone
        BY <3>1, Zenon DEF NearInv
      <4>3. /\ pc' \in {"idle", "reset", "select", "info"} => (scpOpen' => sessionActive')
            /\ pc' = "session" /\ scpOpen' /\ ~sessionActive' => ~Alone'
        BY <1>2, <1>8, <4>1, <4>2
      <4> QED
        BY <3>3, <3>5, <4>3, Zenon DEF NearInv
    <3> QED
      BY <3>4, <3>5
  <2> QED
    BY <2>1
<1>12. Near' /\ Alone' => OpeningInv'
  <2>1. Near' /\ Alone' => pc' \in {"session"} \cup Serving
    BY <1>2, <1>8, <1>10
  <2>2. pc' \in {"session"} \cup Serving =>
          /\ pc' # "reset" /\ pc' \notin (Opening \ {"reset"}) \cup Establishing
          /\ pc' \notin {"info", "init"} /\ pc' # "auth"
    BY DEF Opening, Establishing, Serving
  <2> QED
    BY <2>1, <2>2, Zenon DEF OpeningInv
<1>13. Near' => result' # "failed"
  BY <1>1, <1>2, <1>7, <1>8, Zenon DEF NearPath
<1>14. Path'
  BY <1>7, <1>11, <1>12, <1>13, Zenon DEF Path, NearPath, AlonePath, CalmPath
<1> QED
  BY <1>3, <1>4, <1>5, <1>6, <1>14 DEF After, PlanInv

LEMMA ChipResetsWell == ASSUME Before, ChipResets PROVE After
<1>1. chip \in Chip /\ pc = "idle"
  BY BeforeFields DEF ChipResets, Trouble, Before, Orderly
<1>2. /\ troubles' = troubles + 1 /\ UNCHANGED <<program, verdicts>>
      /\ UNCHANGED <<scpOpen, sessionActive, peerObjReady>> /\ chip' = Fresh(chip)
  BY DEF ChipResets, Trouble
<1>3. Lasting(chip', chip)
  BY <1>1, <1>2, FreshLasting
<1> QED
  BY <1>1, <1>2, <1>3, TroubleWell

LEMMA ChipSilentWell == ASSUME Before, ChipSilent PROVE After
<1>1. chip \in Chip
  BY BeforeFields
<1>2. /\ troubles' = troubles + 1 /\ UNCHANGED <<program, verdicts>>
      /\ UNCHANGED <<scpOpen, sessionActive, peerObjReady>> /\ chip' = [chip EXCEPT !.up = FALSE]
  BY DEF ChipSilent, Trouble
<1>3. Lasting(chip', chip) /\ chip'.peer = chip.peer /\ ~chip'.up
  BY <1>1, <1>2 DEF Lasting, Present, Chip
<1>4. ~Heard'
  BY <1>3 DEF Heard
<1> QED
  BY <1>2, <1>3, <1>4, TroubleWell

LEMMA FaultInjectWell == ASSUME Before, FaultInject PROVE After
<1>1. chip \in Chip /\ pc = "idle"
  BY BeforeFields DEF FaultInject
<1>2. /\ troubles' = troubles + 1 /\ UNCHANGED <<program, verdicts>>
      /\ UNCHANGED <<scpOpen, sessionActive, peerObjReady>>
      /\ chip' \in {chip, [chip EXCEPT !.agrees = FALSE]}
  BY DEF FaultInject, Trouble
<1>3. Lasting(chip', chip)
  BY <1>1, <1>2, KeepsSelf DEF Keeps
<1> QED
  BY <1>1, <1>2, <1>3, TroubleWell

\* A node that restarts finds a chip it can bring up, and nothing it was asked for before.
LEMMA RestartWell == ASSUME Before, Recoverable, Restart PROVE After
<1>1. chip \in Chip /\ IInv /\ PowerInv /\ ChannelInv
  BY BeforeFields
<1>2. /\ scpOpen' = FALSE /\ sessionActive' = FALSE /\ peerObjReady' = FALSE /\ pc' = "reset"
      /\ job' = Work("probe", ExchangeKey, "test") /\ cycled' = FALSE
      /\ identity' = "none" /\ result' = "none"
      /\ chip' = IF PowerCycle THEN PoweredUp(chip) ELSE chip
  BY DEF Restart
<1>3. job'.op = "probe" /\ job'.why = "test"
  BY <1>2 DEF Work
<1>4. /\ pc' \in Opening /\ pc' \notin Establishing /\ pc' \notin Serving
      /\ pc' \notin (Opening \ {"reset"}) \cup Establishing /\ pc' \notin {"info", "init"}
      /\ pc' # "auth" /\ pc' # "verify" /\ pc' # "session" /\ pc' # "idle" /\ pc' # "read"
      /\ pc' # "peerUpdate" /\ pc' # "agreePeer" /\ pc' \notin {"exists", "generate", "read"}
  BY <1>2 DEF Opening, Establishing, Serving
<1>5. JobInv' /\ AgendaInv' /\ PresentInv'
  BY <1>2, <1>3, <1>4 DEF JobInv, AgendaInv, PresentInv
<1>6. chip'.selected # "ssd" /\ chip'.up
  <2>1. CASE PowerCycle
    BY <1>1, <1>2, <2>1, FreshLasting DEF ChannelInv, Lasting
  <2>2. CASE ~PowerCycle
    BY <1>1, <1>2, <2>2, BroughtBack DEF ChannelInv
  <2> QED
    BY <2>1, <2>2
<1>7. ChannelInv'
  BY <1>2, <1>4, <1>6 DEF ChannelInv
<1>8. ~Alone'
  BY <1>3 DEF Alone
<1>9. NearInv' /\ result' # "failed"
  BY <1>2, <1>4, <1>8 DEF NearInv
<1>10. OpeningInv' /\ CalmInv'
  BY <1>4, <1>6, <1>8, Zenon DEF OpeningInv, CalmInv
<1>11. Path'
  BY <1>8, <1>9, <1>10, Zenon DEF Path, NearPath, AlonePath, CalmPath
<1> QED
  BY <1>5, <1>7, <1>11 DEF After, PlanInv

------------------------------------------------------------------------------
(* Power, and the count of faults, whatever goes on.                       *)

Powered(c) == c \in Chip /\ c.up = chip.up
Steady == /\ faults' = faults /\ chip'.up = chip.up /\ troubles' \in {troubles, troubles + 1}
          /\ service' \in {service, troubles'}

LEMMA TookPowered ==
    ASSUME NEW c, Powered(c)
    PROVE  Took(c).up = chip.up
BY DEF Powered, Took, Chip

LEMMA ExchangePower ==
    ASSUME NEW answers, \A a \in answers : Powered(a.chip), NEW unheard, Powered(unheard),
           NEW o \in Exchange(answers, unheard)
    PROVE  o.chip.up = chip.up /\ o.cost \in {0, 1}
<1>1. \A a \in answers : Took(a.chip).up = chip.up
  BY TookPowered
<1>2. CASE \E a \in answers : o = [sw |-> a.sw, says |-> a.says, chip |-> Took(a.chip), cost |-> 0]
  BY <1>1, <1>2
<1>3. CASE \E a \in answers : o = Missed(Took(a.chip), 1)
  BY <1>1, <1>3 DEF Missed
<1>4. CASE o = Missed(unheard, 1) \/ o = Missed(unheard, 0)
  BY <1>4 DEF Missed, Powered
<1> QED
  BY <1>2, <1>3, <1>4 DEF Exchange

LEMMA PlainPower ==
    ASSUME chip \in Chip, NEW answers, \A a \in answers : Powered(a.chip), NEW o \in Plain(answers)
    PROVE  o.chip.up = chip.up /\ o.cost \in {0, 1}
<1>1. Powered(chip)
  BY DEF Powered
<1> QED
  BY <1>1, ExchangePower DEF Plain

LEMMA SecuredPower ==
    ASSUME chip \in Chip, NEW answers \in SUBSET AnswerType, \A a \in answers : Powered(a.chip),
           NEW o \in Secured(answers)
    PROVE  o.chip.up = chip.up /\ o.cost \in {0, 1}
<1> DEFINE sent == IF InChannel THEN answers ELSE {Answer(sw, chip) : sw \in {"error", "refused"}}
           known == Exchange(sent, [chip EXCEPT !.agrees = FALSE])
<1>1. Powered(chip) /\ Powered([chip EXCEPT !.agrees = FALSE])
  BY DEF Powered, Chip
<1>2. sent \in SUBSET AnswerType /\ \A a \in sent : Powered(a.chip)
  BY <1>1, AnswerTyped
<1> HIDE DEF sent
<1>3. \A r \in known : r.chip.up = chip.up /\ r.cost \in {0, 1} /\ r \in OutcomeType
  BY <1>1, <1>2, ExchangePower, ExchangeType, AheadType
<1> HIDE DEF known
<1>4. CASE ~scpOpen
  BY <1>4 DEF Secured, Missed
<1>5. CASE scpOpen /\ o \in known
  BY <1>3, <1>5
<1>6. CASE scpOpen /\ \E r \in known : o = [r EXCEPT !.sw = "damaged", !.cost = 1]
  <2>1. PICK r \in known : o = [r EXCEPT !.sw = "damaged", !.cost = 1]
    BY <1>6
  <2>2. o.chip = r.chip /\ o.cost = 1
    BY <1>3, <2>1 DEF OutcomeType
  <2> QED
    BY <1>3, <2>2
<1> QED
  BY <1>4, <1>5, <1>6 DEF Secured, Wrapped, known, sent

LEMMA AppletPower ==
    ASSUME chip \in Chip, NEW answers \in SUBSET AnswerType, \A a \in answers : Powered(a.chip),
           NEW o \in InApplet(answers)
    PROVE  o.chip.up = chip.up /\ o.cost \in {0, 1}
<1> DEFINE given == IF chip.selected = "applet" THEN answers ELSE {Answer("error", chip)}
<1>1. given \in SUBSET AnswerType /\ \A a \in given : Powered(a.chip)
  BY AnswerTyped DEF Powered
<1>2. o \in Secured(given)
  BY DEF InApplet
<1> HIDE DEF given
<1> QED
  BY <1>1, <1>2, SecuredPower

LEMMA SessionPower ==
    ASSUME chip \in Chip, NEW answers \in SUBSET AnswerType, \A a \in answers : Powered(a.chip),
           NEW o \in InSession(answers)
    PROVE  o.chip.up = chip.up /\ o.cost \in {0, 1}
<1> DEFINE live == chip.session = "open" /\ sessionIdGood
           given == IF live THEN answers ELSE {Answer("error", chip)}
<1>1. given \in SUBSET AnswerType /\ \A a \in given : Powered(a.chip)
  BY AnswerTyped DEF Powered
<1>2. o \in InApplet(given)
  BY DEF InSession
<1> HIDE DEF given
<1> QED
  BY <1>1, <1>2, AppletPower

\* However an operation goes on or ends, faults are forgotten only for a use that is served.
LEMMA Verdicts ==
    /\ \A step : Goto(step) => service' \in {service, troubles'}
    /\ \A ok \in BOOLEAN : Finish(ok) => service' \in {service, troubles'}
    /\ Fails \/ CloseAndRetry \/ OpenFails \/ NextKeySet \/ ChannelOpen \/ PowerCycling =>
         service' \in {service, troubles'}
<1>1. \A step : Goto(step) => service' \in {service, troubles'}
  BY DEF Goto, verdicts
<1>2. \A ok \in BOOLEAN : Finish(ok) => service' \in {service, troubles'}
  BY DEF Finish, RunsWith, verdicts
<1>3. \A report : RotationEnds(report) => service' = service
  BY DEF RotationEnds, verdicts
<1>4. Fails => service' \in {service, troubles'}
  BY <1>2, <1>3 DEF Fails, verdicts
<1>5. CloseAndRetry => service' \in {service, troubles'}
  BY <1>4 DEF CloseAndRetry, verdicts
<1>6. OpenFails => service' \in {service, troubles'}
  BY <1>4 DEF OpenFails, RunsWith, verdicts
<1>7. NextKeySet => service' \in {service, troubles'}
  BY <1>1, <1>4 DEF NextKeySet
<1>8. ChannelOpen => service' \in {service, troubles'}
  BY <1>1, <1>3 DEF ChannelOpen, verdicts
<1>9. PowerCycling => service' \in {service, troubles'}
  BY DEF PowerCycling, verdicts
<1> QED
  BY <1>1, <1>2, <1>4, <1>5, <1>6, <1>7, <1>8, <1>9

\* An exchange, whatever comes of it.
LEMMA ExchangeSteady ==
    ASSUME TypeOK, NEW o, o.chip.up = chip.up /\ o.cost \in {0, 1}, NEW sent, Happened(o, sent),
           service' \in {service, troubles'}
    PROVE  Steady
BY DEF Happened, Steady, TypeOK, environment

LEMMA KeySteady ==
    ASSUME TypeOK, Exists \/ Generate \/ ReadPublic \/ Agree
    PROVE  Steady
<1>1. chip \in Chip /\ job.key \in Keys
  BY DEF TypeOK, Job
<1>2. CASE Exists
  <2> DEFINE answers == {Report(chip.key[job.key] # "absent")}
  <2>1. PICK o \in InSession(answers) :
          Happened(o, scpOpen) /\ ((\E step : Goto(step)) \/ CloseAndRetry)
    BY <1>2 DEF Exists
  <2>2. answers \in SUBSET AnswerType /\ \A a \in answers : Powered(a.chip)
    BY <1>1, ReportTyped DEF Powered
  <2> HIDE DEF answers
  <2> QED
    BY <1>1, <2>1, <2>2, SessionPower, Verdicts, ExchangeSteady
<1>3. CASE Generate
  <2> DEFINE new == [chip EXCEPT !.key[job.key] = Generated]
             answers == {Answer("ok", new)}
  <2>1. PICK o \in InSession(answers) :
          Happened(o, scpOpen) /\ ((\E step : Goto(step)) \/ Fails)
    BY <1>3 DEF Generate
  <2>2. Powered(new)
    BY <1>1 DEF Powered, Chip, Generated
  <2> HIDE DEF new
  <2>3. answers \in SUBSET AnswerType /\ \A a \in answers : Powered(a.chip)
    BY <2>2, AnswerTyped DEF Powered
  <2> HIDE DEF answers
  <2> QED
    BY <1>1, <2>1, <2>3, SessionPower, Verdicts, ExchangeSteady
<1>4. ASSUME NEW sw \in {"ok", "error"},
             NEW o \in InSession({Answer(sw, chip)}), Happened(o, scpOpen),
             (\E step : Goto(step)) \/ Finish(TRUE) \/ Fails \/ CloseAndRetry
      PROVE  Steady
  <2>1. {Answer(sw, chip)} \in SUBSET AnswerType /\ \A a \in {Answer(sw, chip)} : Powered(a.chip)
    BY <1>1, AnswerTyped DEF Powered
  <2> QED
    BY <1>1, <1>4, <2>1, SessionPower, Verdicts, ExchangeSteady
<1>5. CASE ReadPublic
  <2> DEFINE sw == IF chip.key[job.key] = "absent" THEN "error" ELSE "ok"
  <2>1. PICK o \in InSession({Answer(sw, chip)}) : Happened(o, scpOpen) /\ (Finish(TRUE) \/ Fails)
    BY <1>5 DEF ReadPublic
  <2>2. sw \in {"ok", "error"}
    OBVIOUS
  <2> HIDE DEF sw
  <2> QED
    BY <1>4, <2>1, <2>2
<1>6. CASE Agree
  <2> DEFINE sw == IF chip.key[job.key] = "absent" THEN "error" ELSE "ok"
  <2>1. PICK o \in InSession({Answer(sw, chip)}) :
          Happened(o, scpOpen) /\ (Finish(TRUE) \/ Fails \/ CloseAndRetry)
    BY <1>6 DEF Agree
  <2>2. sw \in {"ok", "error"}
    OBVIOUS
  <2> HIDE DEF sw
  <2> QED
    BY <1>4, <2>1, <2>2
<1> QED
  BY <1>2, <1>3, <1>5, <1>6

LEMMA PeerSteady ==
    ASSUME TypeOK, PeerStep
    PROVE  Steady
<1> DEFINE mine == [chip EXCEPT !.peer = "mine"]
           told == {Report(chip.peer # "none")}
           created == {Answer("ok", mine), Answer("error", chip)}
           updated == {IF chip.peer = "none" THEN Answer("error", chip) ELSE Answer("ok", mine)}
           agreed == {Answer(IF chip.key[job.key] = "absent" \/ chip.peer \in {"none", "empty"}
                             THEN "error" ELSE "ok", chip)}
<1>1. chip \in Chip /\ Powered(chip) /\ Powered(mine)
  BY DEF TypeOK, Powered, Chip
<1>2. /\ \E answers \in {told, created, updated, agreed} : \E o \in InSession(answers) :
           Happened(o, scpOpen) /\ ((\E step : Goto(step)) \/ Finish(TRUE) \/ Fails \/ CloseAndRetry)
  BY DEF PeerStep, PeerExists, PeerCreate, PeerUpdate, AgreePeer
<1> HIDE DEF mine
<1>3. mine \in Chip
  BY <1>1 DEF Powered
<1>4. told \in SUBSET AnswerType /\ \A a \in told : Powered(a.chip)
  BY <1>1, ReportTyped
<1>5. created \in SUBSET AnswerType /\ \A a \in created : Powered(a.chip)
  BY <1>1, <1>3, AnswerTyped
<1>6. updated \in SUBSET AnswerType /\ \A a \in updated : Powered(a.chip)
  BY <1>1, <1>3, AnswerTyped
<1>7. agreed \in SUBSET AnswerType /\ \A a \in agreed : Powered(a.chip)
  BY <1>1, AnswerTyped
<1> HIDE DEF told, created, updated, agreed
<1>8. PICK answers \in {told, created, updated, agreed} : \E o \in InSession(answers) :
           Happened(o, scpOpen) /\ ((\E step : Goto(step)) \/ Finish(TRUE) \/ Fails \/ CloseAndRetry)
  BY <1>2
<1>9. PICK o \in InSession(answers) :
           Happened(o, scpOpen) /\ ((\E step : Goto(step)) \/ Finish(TRUE) \/ Fails \/ CloseAndRetry)
  BY <1>8
<1>10. answers \in SUBSET AnswerType /\ \A a \in answers : Powered(a.chip)
  BY <1>4, <1>5, <1>6, <1>7
<1>11. o.chip.up = chip.up /\ o.cost \in {0, 1}
  BY <1>1, <1>10, SessionPower
<1>12. service' \in {service, troubles'}
  BY <1>9, Verdicts
<1> QED
  BY <1>9, <1>11, <1>12, ExchangeSteady

LEMMA PutKeySteady == ASSUME TypeOK, PutKey PROVE Steady
<1> DEFINE new == [chip EXCEPT !.keys = "Otp"]
           answers == {IF chip.selected = "ssd" THEN Answer("ok", new) ELSE Answer("error", chip)}
<1>1. chip \in Chip /\ Powered(chip) /\ Powered(new)
  BY DEF TypeOK, Powered, Chip, Sources, Rank
<1>2. PICK o \in Secured(answers) : Happened(o, scpOpen) /\ (UNCHANGED verdicts \/ Fails)
  BY DEF PutKey
<1> HIDE DEF new
<1>3. new \in Chip
  BY <1>1 DEF Powered
<1>4. answers \in SUBSET AnswerType /\ \A a \in answers : Powered(a.chip)
  BY <1>1, <1>3, AnswerTyped
<1> HIDE DEF answers
<1>5. o.chip.up = chip.up /\ o.cost \in {0, 1}
  BY <1>1, <1>4, SecuredPower
<1>6. service' \in {service, troubles'}
  BY <1>2, Verdicts DEF verdicts
<1> QED
  BY <1>2, <1>5, <1>6, ExchangeSteady

LEMMA SessionSteady ==
    ASSUME TypeOK, SessionStep
    PROVE  Steady
<1> DEFINE created == [chip EXCEPT !.session = "created"]
           opened == [chip EXCEPT !.session = "open"]
           set == {Answer("ok", chip)}
           create == {Answer("ok", created)}
           verify == {IF chip.session = "created" /\ sessionIdGood
                      THEN Answer("ok", opened) ELSE Answer("error", chip)}
<1>1. chip \in Chip /\ Powered(chip) /\ Powered(created) /\ Powered(opened)
  BY DEF TypeOK, Powered, Chip
<1>2. CASE EnsureSession
  BY <1>2 DEF EnsureSession, Steady, environment, verdicts
<1>3. CASE Setup \/ CreateSession \/ VerifySession
  <2>1. \E answers \in {set, create, verify} : \E o \in InApplet(answers) :
           Happened(o, scpOpen) /\ ((\E step : Goto(step)) \/ Fails)
    BY <1>3 DEF Setup, CreateSession, VerifySession
  <2> HIDE DEF created, opened
  <2>2. created \in Chip /\ opened \in Chip
    BY <1>1 DEF Powered
  <2>3. set \in SUBSET AnswerType /\ \A a \in set : Powered(a.chip)
    BY <1>1, AnswerTyped
  <2>4. create \in SUBSET AnswerType /\ \A a \in create : Powered(a.chip)
    BY <1>1, <2>2, AnswerTyped
  <2>5. verify \in SUBSET AnswerType /\ \A a \in verify : Powered(a.chip)
    BY <1>1, <2>2, AnswerTyped
  <2> HIDE DEF set, create, verify
  <2>6. PICK answers \in {set, create, verify} : \E o \in InApplet(answers) :
           Happened(o, scpOpen) /\ ((\E step : Goto(step)) \/ Fails)
    BY <2>1
  <2>7. PICK o \in InApplet(answers) : Happened(o, scpOpen) /\ ((\E step : Goto(step)) \/ Fails)
    BY <2>6
  <2>8. answers \in SUBSET AnswerType /\ \A a \in answers : Powered(a.chip)
    BY <2>3, <2>4, <2>5, <2>6
  <2>9. o.chip.up = chip.up /\ o.cost \in {0, 1}
    BY <1>1, <2>8, AppletPower
  <2>10. service' \in {service, troubles'}
    BY <2>7, Verdicts
  <2> QED
    BY <2>7, <2>9, <2>10, ExchangeSteady
<1> QED
  BY <1>2, <1>3 DEF SessionStep

LEMMA ChannelSteady ==
    ASSUME TypeOK, InitializeUpdate \/ ExternalAuthenticate
    PROVE  Steady
<1> DEFINE begun == [chip EXCEPT !.channel = "begun", !.session = "none"]
           opened == [chip EXCEPT !.channel = "open", !.agrees = TRUE]
           update == {IF chip.selected = "none" THEN Answer("error", chip)
                      ELSE Answer("ok", begun)}
           authenticate == {IF chip.channel = "begun" THEN Answer("ok", opened)
                            ELSE Answer("error", chip)}
<1>1. chip \in Chip /\ Powered(chip) /\ Powered(begun) /\ Powered(opened)
  BY DEF TypeOK, Powered, Chip
<1>2. \E answers \in {update, authenticate} : \E o \in Plain(answers) :
         Happened(o, TRUE) /\ ((\E step : Goto(step)) \/ NextKeySet \/ ChannelOpen)
  BY DEF InitializeUpdate, ExternalAuthenticate
<1> HIDE DEF begun, opened
<1>3. \A answers \in {update, authenticate} : \A a \in answers : Powered(a.chip)
  BY <1>1 DEF Answer
<1> HIDE DEF update, authenticate
<1>4. PICK answers \in {update, authenticate} : \E o \in Plain(answers) :
         Happened(o, TRUE) /\ ((\E step : Goto(step)) \/ NextKeySet \/ ChannelOpen)
  BY <1>2
<1>5. PICK o \in Plain(answers) :
         Happened(o, TRUE) /\ ((\E step : Goto(step)) \/ NextKeySet \/ ChannelOpen)
  BY <1>4
<1>6. o.chip.up = chip.up /\ o.cost \in {0, 1}
  BY <1>1, <1>3, <1>4, PlainPower
<1>7. service' \in {service, troubles'}
  BY <1>5, Verdicts
<1> QED
  BY <1>5, <1>6, <1>7, ExchangeSteady

LEMMA CountKept ==
    \A t, s, u, r \in Nat : s <= t /\ u \in {t, t + 1} /\ r \in {s, u} => r <= u
OBVIOUS

\* A chip keeps its power, gets it back, or goes silent where chips do.
LEMMA PowerHolds ==
    ASSUME TypeOK, TypeOK', PowerInv, faults' = faults,
           chip'.up = chip.up \/ chip'.up = TRUE \/ "silent" \in faults,
           troubles' \in {troubles, troubles + 1}, service' \in {service, troubles'}
    PROVE  PowerInv' /\ (Orderly' => Orderly)
<1>1. troubles \in Nat /\ troubles' \in Nat /\ service \in Nat /\ service' \in Nat
  BY Zenon DEF TypeOK
<1>2. service <= troubles /\ (~chip.up => "silent" \in faults)
  BY Zenon DEF PowerInv
<1>3. service' <= troubles'
  BY <1>1, <1>2, CountKept, Zenon
<1>4. ~chip'.up => "silent" \in faults'
  BY <1>2, Zenon
<1> QED
  BY <1>3, <1>4, Zenon DEF PowerInv, Orderly

LEMMA SteadyPower == ASSUME TypeOK, TypeOK', PowerInv, Steady PROVE PowerInv' /\ (Orderly' => Orderly)
<1>1. /\ faults' = faults /\ chip'.up = chip.up /\ troubles' \in {troubles, troubles + 1}
      /\ service' \in {service, troubles'}
  BY DEF Steady
<1> QED
  BY <1>1, PowerHolds, Zenon

LEMMA OpeningPower ==
    ASSUME TypeOK, TypeOK', PowerInv, OpenStep
    PROVE  PowerInv' /\ (Orderly' => Orderly)
<1>1. chip \in Chip
  BY DEF TypeOK
<1>2. CASE Reset
  <2>1. /\ faults' = faults /\ troubles' = troubles
        /\ chip' \in {chip, Fresh(chip), PoweredUp(chip)}
        /\ (\E step : Goto(step)) \/ PowerCycling \/ OpenFails
    BY <1>2 DEF Reset, environment
  <2>2. chip'.up = chip.up \/ chip'.up = TRUE
    <3>1. Fresh(chip).up = chip.up
      BY <1>1, FreshLasting
    <3>2. PoweredUp(chip).up = TRUE
      BY <1>1, FreshType DEF PoweredUp, Chip
    <3> QED
      BY <2>1, <3>1, <3>2
  <2>3. service' \in {service, troubles'} /\ troubles' \in {troubles, troubles + 1}
    BY <2>1, Verdicts
  <2> QED
    BY <2>1, <2>2, <2>3, PowerHolds, Zenon
<1>3. CASE Select
  <2> DEFINE new == [chip EXCEPT !.selected = Target]
             answers == {Answer("ok", new)}
  <2>1. PICK o \in Plain(answers) :
          /\ Happened(o, TRUE) \/ Happened([o EXCEPT !.chip = PoweredUp(@)], TRUE)
          /\ (\E step : Goto(step)) \/ PowerCycling \/ OpenFails
    BY <1>3 DEF Select
  <2>2. Powered(new)
    BY <1>1 DEF Powered, Chip, Target
  <2> HIDE DEF new
  <2>3. answers \in SUBSET AnswerType /\ \A a \in answers : Powered(a.chip)
    BY <2>2, AnswerTyped DEF Powered
  <2> HIDE DEF answers
  <2>4. o.chip.up = chip.up /\ o.cost \in {0, 1} /\ o \in OutcomeType
    BY <1>1, <2>3, PlainPower, PlainFacts
  <2>5. service' \in {service, troubles'}
    BY <2>1, Verdicts
  <2>6. CASE Happened(o, TRUE)
    BY <2>4, <2>5, <2>6, ExchangeSteady, SteadyPower
  <2>7. CASE Happened([o EXCEPT !.chip = PoweredUp(@)], TRUE)
    <3>1. o.chip \in Chip /\ chip' = PoweredUp(o.chip) /\ troubles' = troubles + o.cost
          /\ faults' = faults
      BY <2>4, <2>7 DEF OutcomeType, Happened, environment
    <3>2. chip'.up = TRUE
      BY <3>1, FreshType DEF PoweredUp, Chip
    <3>3. troubles' \in {troubles, troubles + 1}
      BY <2>4, <3>1 DEF TypeOK
    <3> QED
      BY <2>5, <3>1, <3>2, <3>3, PowerHolds, Zenon
  <2> QED
    BY <2>1, <2>6, <2>7
<1>4. CASE Info
  <2>1. /\ faults' = faults /\ troubles' \in {troubles, troubles + 1} /\ service' = service
        /\ chip' \in {chip, Took(chip)}
    BY <1>4 DEF Info, environment, Goto, verdicts
  <2>2. chip'.up = chip.up
    BY <1>1, <2>1, TookPowered DEF Powered
  <2> QED
    BY <2>1, <2>2, SteadyPower DEF Steady
<1>5. CASE InitializeUpdate \/ ExternalAuthenticate
  BY <1>5, ChannelSteady, SteadyPower
<1> QED
  BY <1>2, <1>3, <1>4, <1>5 DEF OpenStep

LEMMA RequestsPower ==
    ASSUME TypeOK, TypeOK', PowerInv, Requests
    PROVE  PowerInv' /\ (Orderly' => Orderly)
<1>1. chip'.up = chip.up
  <2>1. CASE \E k \in Keys : UseKey(k)
    BY <2>1 DEF UseKey, TypeOK, Chip
  <2>2. CASE Reprobe \/ Rotate
    BY <2>2 DEF Reprobe, Rotate, Command
  <2> QED
    BY <2>1, <2>2 DEF Requests
<1>2. faults' = faults /\ troubles' = troubles /\ service' = service
  BY DEF Requests, UseKey, Reprobe, Rotate, Command, environment, verdicts
<1> QED
  BY <1>1, <1>2, SteadyPower DEF Steady

LEMMA SurroundingsPower ==
    ASSUME TypeOK, TypeOK', PowerInv, Surroundings \/ UNCHANGED vars
    PROVE  PowerInv' /\ (Orderly' => Orderly)
<1>1. chip \in Chip
  BY DEF TypeOK
<1>2. CASE ChipResets \/ ChipSilent \/ FaultInject
  <2>1. faults' = faults /\ troubles' = troubles + 1 /\ service' = service
    BY <1>2 DEF ChipResets, ChipSilent, FaultInject, Trouble, environment, verdicts
  <2>2. chip'.up = chip.up \/ "silent" \in faults
    <3>1. CASE ChipResets
      BY <1>1, <3>1, FreshLasting DEF ChipResets
    <3>2. CASE ChipSilent
      BY <3>2 DEF ChipSilent, Trouble
    <3>3. CASE FaultInject
      BY <1>1, <3>3 DEF FaultInject, Chip
    <3> QED
      BY <1>2, <3>1, <3>2, <3>3
  <2> QED
    BY <2>1, <2>2, PowerHolds
<1>3. CASE Restart
  <2>1. faults' = faults /\ troubles' = troubles /\ service' = service
        /\ chip' = IF PowerCycle THEN PoweredUp(chip) ELSE chip
    BY <1>3 DEF Restart, environment
  <2>2. chip'.up = chip.up \/ chip'.up = TRUE
    BY <1>1, <2>1, FreshType DEF PoweredUp, Chip
  <2> QED
    BY <2>1, <2>2, PowerHolds
<1>4. CASE UNCHANGED vars
  BY <1>4, SteadyPower DEF Steady, vars, environment, verdicts
<1> QED
  BY <1>2, <1>3, <1>4 DEF Surroundings, Rest

\* Whatever happens, power is where it was expected and faults are counted.
LEMMA PowerKept ==
    ASSUME TypeOK, TypeOK', PowerInv, [Next]_vars
    PROVE  PowerInv' /\ (Orderly' => Orderly)
<1>1. CASE OpenStep
  BY <1>1, OpeningPower
<1>2. CASE SessionStep
  BY <1>2, SessionSteady, SteadyPower
<1>3. CASE KeyStep
  BY <1>3, KeySteady, PutKeySteady, SteadyPower DEF KeyStep
<1>4. CASE PeerStep
  BY <1>4, PeerSteady, SteadyPower
<1>5. CASE Requests
  BY <1>5, RequestsPower
<1>6. CASE Surroundings \/ UNCHANGED vars
  BY <1>6, SurroundingsPower
<1> QED
  BY <1>1, <1>2, <1>3, <1>4, <1>5, <1>6 DEF Next, DriverStep

------------------------------------------------------------------------------
(* The theorem.                                                            *)

LEMMA StutterWell == ASSUME Before, UNCHANGED vars PROVE After
<1>1. PlanInv /\ ChannelInv /\ Path
  BY DEF Before
<1>2. PlanInv'
  BY <1>1 DEF PlanInv, JobInv, AgendaInv, PresentInv, vars, program, verdicts
<1>3. ChannelInv'
  BY <1>1 DEF ChannelInv, vars, link, program
<1>4. /\ chip' = chip /\ seq' = seq /\ scpOpen' = scpOpen /\ sessionActive' = sessionActive
      /\ sessionIdGood' = sessionIdGood /\ pc' = pc /\ job' = job /\ cycled' = cycled
      /\ left' = left /\ identity' = identity /\ result' = result /\ service' = service
      /\ troubles' = troubles
  BY DEF vars, link, program, verdicts
<1>5. Path'
  BY <1>1, <1>4 DEF Path, NearPath, AlonePath, CalmPath, NearInv, OpeningInv, CalmInv, Near, Calm,
                    Alone, Sound, Heard, InSessionNow, InStepNow, InChannel
<1> QED
  BY <1>2, <1>3, <1>5 DEF After

\* Every step keeps the path of an operation.
LEMMA StepWell == ASSUME Before, Recoverable, [Next]_vars PROVE After
<1>1. CASE OpenStep
  BY <1>1, ResetWell, SelectWell, InfoWell, InitializeUpdateWell, ExternalAuthenticateWell
     DEF OpenStep
<1>2. CASE SessionStep
  BY <1>2, EnsureSessionWell, SetupWell, CreateSessionWell, VerifySessionWell DEF SessionStep
<1>3. CASE KeyStep
  <2>1. ~PutKey
    BY BeforeFields DEF StepInv, JobInv, PutKey
  <2> QED
    BY <1>3, <2>1, ExistsWell, GenerateWell, ReadPublicWell, AgreeWell DEF KeyStep
<1>4. CASE PeerStep
  BY <1>4, PeerExistsWell, PeerCreateWell, PeerUpdateWell, AgreePeerWell DEF PeerStep
<1>5. CASE Requests
  <2>1. ~Rotate
    BY DEF Before, Orderly, Rotate
  <2> QED
    BY <1>5, <2>1, UseKeyWell, ReprobeWell DEF Requests
<1>6. CASE Surroundings
  BY <1>6, ChipResetsWell, ChipSilentWell, FaultInjectWell, RestartWell, StutterWell
     DEF Surroundings, Rest
<1>7. CASE UNCHANGED vars
  BY <1>7, StutterWell
<1> QED
  BY <1>1, <1>2, <1>3, <1>4, <1>5, <1>6, <1>7 DEF Next, DriverStep

LEMMA FaultInit == Init => FInv
<1> SUFFICES ASSUME Init PROVE FInv
  OBVIOUS
<1>1. /\ chip.up /\ chip.selected = "none" /\ job = Work("probe", ExchangeKey, "test")
      /\ pc = "reset" /\ scpOpen = FALSE /\ sessionActive = FALSE /\ peerObjReady = FALSE
      /\ identity = "none" /\ result = "none" /\ troubles = 0 /\ service = 0
  BY DEF Init
<1>2. job.op = "probe" /\ job.why = "test"
  BY <1>1 DEF Work
<1>3. PowerInv
  BY <1>1 DEF PowerInv
<1>4. /\ pc \in Opening /\ pc \notin Establishing /\ pc \notin Serving
      /\ pc \notin (Opening \ {"reset"}) \cup Establishing /\ pc \notin {"info", "init"}
      /\ pc # "auth" /\ pc # "verify" /\ pc # "session" /\ pc # "idle" /\ pc # "read"
      /\ pc # "peerUpdate" /\ pc # "agreePeer" /\ pc \notin {"exists", "generate", "read"}
  BY <1>1 DEF Opening, Establishing, Serving
<1>5. PlanInv
  BY <1>1, <1>2, <1>4 DEF PlanInv, JobInv, AgendaInv, PresentInv
<1>6. ChannelInv
  BY <1>1, <1>2, <1>4 DEF ChannelInv
<1>7. ~Alone
  BY <1>2 DEF Alone
<1>8. NearInv /\ OpeningInv /\ CalmInv
  BY <1>1, <1>4, <1>7 DEF NearInv, OpeningInv, CalmInv
<1>9. Path
  BY <1>1, <1>7, <1>8, Zenon DEF Path, NearPath, AlonePath, CalmPath
<1> QED
  BY <1>3, <1>5, <1>6, <1>9 DEF FInv

LEMMA FaultStep == ASSUME Recoverable, IInv, IInv', FInv, [Next]_vars PROVE FInv'
<1>1. TypeOK /\ TypeOK' /\ PowerInv
  BY DEF IInv, FInv
<1>2. PowerInv' /\ (Orderly' => Orderly)
  BY <1>1, PowerKept
<1>3. Orderly => Before
  BY <1>1 DEF FInv, Before
<1>4. Orderly => After
  BY <1>3, StepWell
<1> QED
  BY <1>2, <1>4, Zenon DEF FInv, After

\* A use of the vault that throws has met two faults since the last that was served: on a
\* board that can switch its chip off and on, or with one that never goes silent, ensureSession()
\* and the second lap of x25519Ecdh() and ed25519Sign() make up for any one of them, whatever
\* the driver was doing when it struck.
THEOREM FaultAbsorbed == ASSUME Recoverable PROVE Spec => []OneFaultAbsorbed
<1>1. Init => FInv
  BY FaultInit
<1>2. IInv /\ IInv' /\ FInv /\ [Next]_vars => FInv'
  BY FaultStep
<1>3. IInv /\ FInv => OneFaultAbsorbed
  <2> SUFFICES ASSUME IInv, FInv, result = "failed", Orderly PROVE troubles >= service + 2
    BY DEF OneFaultAbsorbed
  <2>1. ~(troubles <= service + 1)
    BY DEF FInv, Path, NearPath, Near
  <2>2. troubles \in Nat /\ service \in Nat
    BY DEF IInv, TypeOK
  <2> QED
    BY <2>1, <2>2
<1> QED
  BY <1>1, <1>2, <1>3, Invariance, PTL DEF Spec

=============================================================================
