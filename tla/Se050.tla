-------------------------------- MODULE Se050 --------------------------------
(***************************************************************************)
(* The SE050 driver of src/src/se050/SE050.cpp: the T=1 link, the SCP03    *)
(* channel and the UserID session inside it, kept in step with a chip that *)
(* may lose frames, reset or go silent; the recovery every operation falls *)
(* back on; the keys generated in the chip; the rotation of the channel's  *)
(* own keys; and what the node makes of it at boot.                        *)
(*                                                                         *)
(* An action is one exchange of a command and its answer, since a reset of *)
(* chip or node may fall between any two.  Bytes are abstracted: a command *)
(* is named for what it does, an answer for how the driver reads it.  The  *)
(* SCP03 counters and MAC chains appear only as whether they agree.        *)
(***************************************************************************)
EXTENDS Naturals, Sequences

CONSTANTS ExchangeKey, SigningKey,  \* the key objects, IDENTITY_OBJ and SIGNING_OBJ
          Builds,        \* sets of key sets a board can derive besides the factory's
          ViaObject,     \* built with SE050_ECDH_VIA_OBJECT
          PowerCycle,    \* the carrier has SE050_ENA_PIN
          Environments,  \* sets of faults a behaviour may be exposed to
          MaxFaults,     \* bound on faults
          MaxActs        \* bound on restarts and console commands

Keys == {ExchangeKey, SigningKey}

\* A frame to or from the chip is lost, or an answer is damaged so that its CRC
\* holds and its R-MAC does not; the chip resets while the driver is idle, or
\* in the middle of its work; it goes silent; the console injects a fault, or
\* asks for a rotation of the platform keys.
FaultKinds == {"commandLost", "answerLost", "damaged", "reset", "resetMidway",
               "silent", "inject", "rotation"}

\* The static SCP03 key sets, in the order openSecureChannel() tries them.
Rank == [Otp |-> 1, Bench |-> 2, Factory |-> 3]
Sources == DOMAIN Rank

ASSUME Se050Assumption ==
    /\ ExchangeKey # SigningKey
    /\ Builds \subseteq SUBSET {"Otp", "Bench"}
    /\ ViaObject \in BOOLEAN
    /\ PowerCycle \in BOOLEAN
    /\ Environments \subseteq SUBSET FaultKinds
    /\ MaxFaults \in Nat
    /\ MaxActs \in Nat

VARIABLES
    chip,           \* the SE050, see Chip
    seq,            \* the driver's N(S)
    scpOpen,        \* scp.open
    sessionActive,
    sessionIdGood,  \* sessionId is the one the chip gave
    keySource,
    peerObjReady,
    viaObject,      \* ecdhViaObject
    pc,             \* the exchange that comes next, or "idle", or "absent" without a chip
    job,            \* the operation under way
    agenda,         \* the operations probe() and setup() still have to do
    left,           \* key sets openSecureChannel() has not given up yet
    cycled,         \* recover() has power-cycled the chip
    identity,       \* whose keys the node runs with in this boot
    first,          \* history: whose keys it ran with in its first boot
    result,         \* of the last operation for the node in this boot
    rotated,        \* what the last rotation reported
    derivable,      \* the key sets this board can derive
    faults,         \* the faults this behaviour is exposed to
    troubles, acts, \* how many faults, how many restarts and commands so far
    disturbed,      \* history: someone but the driver changed an open channel
    service         \* history: troubles when the node was last served

link == <<seq, scpOpen, sessionActive, sessionIdGood>>
program == <<pc, job, agenda, cycled>>
verdicts == <<identity, first, result, service>>
environment == <<derivable, faults>>
vars == <<chip, link, keySource, peerObjReady, viaObject, program, left, verdicts,
          rotated, environment, troubles, acts, disturbed>>

\* The chip: whether it answers, the N(S) it expects, the applet selected, its
\* SCP03 channel and whether its counters agree with the driver's, the UserID
\* session, the static keys, the key objects, and the peer key object, which is
\* empty once its value is gone.
Chip == [up : BOOLEAN, expects : {0, 1}, selected : {"none", "applet", "ssd"},
         channel : {"none", "begun", "open"}, agrees : BOOLEAN,
         session : {"none", "created", "open"}, keys : Sources,
         key : [Keys -> {"absent", "original", "replaced"}],
         peer : {"none", "empty", "other", "mine"}]

Job == [op : {"probe", "ensure", "use", "rotate", "reopen", "none"}, key : Keys,
        why : {"test", "identity", "loop"}, form : {"bytes", "object"}, attempt : {1, 2}]

Errand == [op : {"ensure", "use"}, key : Keys, why : {"test", "identity", "loop"},
           form : {"bytes"}, attempt : {1, 2}]

Steps == {"reset", "select", "info", "init", "auth", "session", "setup", "create", "verify",
          "exists", "generate", "read", "agree", "peerExists", "peerCreate", "peerUpdate",
          "agreePeer", "putKey", "idle", "absent"}

Work(op, key, why) ==
    [op |-> op, key |-> key, why |-> why, form |-> "bytes", attempt |-> 1]
NoWork == Work("none", ExchangeKey, "loop")

\* An interface reset, or power: what the chip keeps is in its NVM.
Fresh(c) ==
    [c EXCEPT !.expects = 0, !.selected = "none", !.channel = "none", !.agrees = TRUE,
              !.session = "none", !.peer = IF @ = "none" THEN "none" ELSE "empty"]
PoweredUp(c) == [Fresh(c) EXCEPT !.up = TRUE]

\* The probe's self-test, and the identity setup() asks the chip for.  The transport
\* identity, whose two keys of its own it asks for in between (main.cpp:257-265), is left
\* out: it shares the channel, and no key, with this one.
SelfTest == << Work("ensure", ExchangeKey, "test"), Work("use", ExchangeKey, "test"),
               Work("ensure", SigningKey, "test"), Work("use", SigningKey, "test") >>
IdentityKeys == << Work("ensure", ExchangeKey, "identity"),
                   Work("ensure", SigningKey, "identity") >>

\* A virgin chip, or one whose keys were rotated, in a board that derives them.
Init ==
    /\ derivable \in Builds /\ faults \in Environments
    /\ chip \in { [up |-> TRUE, expects |-> 0, selected |-> "none", channel |-> "none",
                   agrees |-> TRUE, session |-> "none", keys |-> s,
                   key |-> [k \in Keys |-> "absent"], peer |-> "none"] :
                  s \in derivable \cup {"Factory"} }
    /\ seq = 0 /\ scpOpen = FALSE /\ sessionActive = FALSE /\ sessionIdGood = FALSE
    /\ keySource = "Factory" /\ peerObjReady = FALSE /\ viaObject = ViaObject
    /\ pc = "reset" /\ job = Work("probe", ExchangeKey, "test")
    /\ agenda = << >> /\ left = {} /\ cycled = FALSE
    /\ identity = "none" /\ result = "none" /\ rotated = "none"
    /\ first = "none" /\ disturbed = FALSE
    /\ troubles = 0 /\ acts = 0 /\ service = 0

------------------------------------------------------------------------------
(* An exchange.                                                            *)

\* What the chip answers and becomes: 9000, an application error, or a refusal of the
\* secure messaging itself (6982, 6987, 6988).  "says" is what it reports.
Answer(sw, c) == [sw |-> sw, says |-> TRUE, chip |-> c]
Report(truth) == [sw |-> "ok", says |-> truth, chip |-> chip]

\* transceive() and xfer(): the chip takes a frame with the N(S) it expects.  A frame
\* may get lost either way; without a valid answer the driver reads "none".
Heard == chip.up /\ seq = chip.expects
Took(c) == [c EXCEPT !.expects = 1 - @]
Missed(c, cost) == [sw |-> "none", says |-> FALSE, chip |-> c, cost |-> cost]
Exchange(answers, unheard) ==
       { [sw |-> a.sw, says |-> a.says, chip |-> Took(a.chip), cost |-> 0] :
         a \in IF Heard THEN answers ELSE {} }
  \cup { Missed(Took(a.chip), 1) : a \in IF Heard /\ "answerLost" \in faults THEN answers ELSE {} }
  \cup { Missed(unheard, 1) : f \in {"commandLost"} \cap faults }
  \cup { Missed(unheard, 0) : x \in IF Heard THEN {} ELSE {chip} }

\* A command outside the secure channel.
Plain(answers) == Exchange(answers, chip)

\* secureApdu(): nothing is sent on a closed channel.  The chip performs the command
\* when the counters agree; otherwise what it makes of it is anyone's guess.  A command
\* it never saw leaves the driver's counter ahead.  A damaged answer keeps its status
\* word, 9000, and fails its R-MAC.
InChannel == chip.channel = "open" /\ chip.agrees
Wrapped(answers) ==
    LET sent == IF InChannel THEN answers ELSE {Answer(sw, chip) : sw \in {"error", "refused"}}
        known == Exchange(sent, [chip EXCEPT !.agrees = FALSE])
    IN  known \cup { [o EXCEPT !.sw = "damaged", !.cost = 1] :
                     o \in {r \in known : r.sw = "ok" /\ "damaged" \in faults} }
Secured(answers) == IF scpOpen THEN Wrapped(answers) ELSE {Missed(chip, 0)}

\* Commands for the applet, and those that need the UserID session as well.
InApplet(answers) ==
    Secured(IF chip.selected = "applet" THEN answers ELSE {Answer("error", chip)})
InSession(answers) ==
    InApplet(IF chip.session = "open" /\ sessionIdGood THEN answers ELSE {Answer("error", chip)})

\* Mutant: N(S) counts without its mask.
HappenedUnmasked(o, sent) ==
    /\ troubles + o.cost <= MaxFaults
    /\ chip' = o.chip /\ troubles' = troubles + o.cost
    /\ seq' = IF sent THEN 1 + seq ELSE seq
    /\ UNCHANGED <<environment, acts>>

\* What an exchange with outcome o leaves, whatever the driver makes of the answer.
Happened(o, sent) ==
    /\ troubles + o.cost <= MaxFaults
    /\ chip' = o.chip /\ troubles' = troubles + o.cost
    /\ seq' = IF sent THEN 1 - seq ELSE seq
    /\ UNCHANGED <<environment, acts>>

\* Mutant: a channel survives a missing answer.
ClosingRefused(o) == scpOpen /\ o.sw \in {"refused", "damaged"}

\* secureApdu() closes a channel it sent on when it cannot tell whether the two sides
\* are still in step.
Closing(o) == scpOpen /\ o.sw \in {"none", "refused", "damaged"}
KeepOrClose(o) ==
    /\ scpOpen' = (scpOpen /\ ~Closing(o))
    /\ sessionActive' = (sessionActive /\ ~Closing(o))
CloseChannel == scpOpen' = FALSE /\ sessionActive' = FALSE

\* The status word is all some callers look at.
Accepted(o) == o.sw \in {"ok", "damaged"}

------------------------------------------------------------------------------
(* How an operation ends.                                                  *)

Goto(step) == pc' = step /\ UNCHANGED <<job, agenda, cycled, verdicts, rotated>>

NextJob(list) ==
    /\ job' = IF list = << >> THEN NoWork ELSE Head(list)
    /\ agenda' = IF list = << >> THEN << >> ELSE Tail(list)
    /\ pc' = IF list = << >> THEN "idle" ELSE "session"
    /\ UNCHANGED cycled

\* reticulumSetup() takes the chip's identity, or falls back to the one on LittleFS.
RunsWith(whose) ==
    /\ identity' = whose
    /\ first' = IF first = "none" THEN whose ELSE first
    /\ UNCHANGED <<result, service, rotated>>

\* The first failure ends the self-test; either half of an identity that is missing
\* leaves the node without the chip's; a use for the node is served or throws.
AfterTest == IF identity = "none" THEN IdentityKeys ELSE << >>
Finish(ok) ==
    \/ /\ job.why = "test"
       /\ NextJob(IF ok THEN agenda ELSE AfterTest)
       /\ UNCHANGED <<verdicts, rotated>>
    \/ /\ job.why = "identity" /\ ok /\ agenda # << >>
       /\ NextJob(agenda)
       /\ UNCHANGED <<verdicts, rotated>>
    \/ /\ job.why = "identity" /\ ~(ok /\ agenda # << >>)
       /\ NextJob(<< >>)
       /\ RunsWith(IF ok THEN "chip" ELSE "file")
    \/ /\ job.why = "loop"
       /\ NextJob(<< >>)
       /\ result' = IF job.op # "use" THEN result ELSE IF ok THEN "served" ELSE "failed"
       /\ service' = IF job.op = "use" /\ ok THEN troubles' ELSE service
       /\ UNCHANGED <<identity, first, rotated>>

\* An operation returns false: a rotation says so, x25519Ecdh() tries the byte-array
\* form after the peer object's, anything else is over.
RotationEnds(report) ==
    NextJob(<< >>) /\ rotated' = report /\ UNCHANGED verdicts
Fails ==
    \/ job.op \in {"rotate", "reopen"} /\ RotationEnds("failed")
    \/ /\ job.form = "object"
       /\ job' = [job EXCEPT !.form = "bytes", !.attempt = 1]
       /\ pc' = "session"
       /\ UNCHANGED <<agenda, cycled, verdicts, rotated>>
    \/ job.op \in {"probe", "ensure", "use"} /\ job.form = "bytes" /\ Finish(FALSE)

\* Mutant: no second lap.
CloseAndFail == CloseChannel /\ Fails

\* Close, rebuild on the next lap, and give up after the second.
CloseAndRetry ==
    /\ CloseChannel
    /\ \/ /\ job.attempt = 1
          /\ job' = [job EXCEPT !.attempt = 2]
          /\ pc' = "session"
          /\ UNCHANGED <<agenda, cycled, verdicts, rotated>>
       \/ job.attempt = 2 /\ Fails

------------------------------------------------------------------------------
(* Link, channel and session.                                              *)

\* recover() power-cycles a chip that did not come up, once.
MayCycle == job.op \in {"ensure", "use"} /\ PowerCycle /\ ~cycled
PowerCycling ==
    /\ pc' = "reset" /\ cycled' = TRUE
    /\ UNCHANGED <<job, agenda, verdicts, rotated>>

\* A chip that does not open: probe() at boot leaves the node without one.
OpenFails ==
    \/ /\ job.op = "probe" /\ identity = "none"
       /\ pc' = "absent" /\ RunsWith("file")
       /\ UNCHANGED <<job, agenda, cycled>>
    \/ /\ job.op = "probe" /\ identity # "none"
       /\ NextJob(<< >>)
       /\ UNCHANGED <<verdicts, rotated>>
    \/ job.op # "probe" /\ Fails

\* reset(): the interface reset.  Four attempts outlast lost frames, not silence.
Reset ==
    /\ pc = "reset"
    /\ \/ /\ chip.up
          /\ chip' = Fresh(chip) /\ seq' = 0
          /\ disturbed' = (disturbed \/ scpOpen)
          /\ Goto("select")
       \/ /\ ~chip.up /\ MayCycle
          /\ chip' = PoweredUp(chip)
          /\ PowerCycling
          /\ UNCHANGED <<seq, disturbed>>
       \/ /\ ~chip.up /\ ~MayCycle
          /\ OpenFails
          /\ UNCHANGED <<chip, seq, disturbed>>
    /\ UNCHANGED <<scpOpen, sessionActive, sessionIdGood, keySource, peerObjReady, viaObject,
                   left, environment, troubles, acts>>

\* selectApplet(), or the security domain in a rotation.
Target == IF job.op = "rotate" THEN "ssd" ELSE "applet"
KeySets == IF job.op = "reopen" THEN {"Otp"} ELSE derivable \cup {"Factory"}
Select ==
    /\ pc = "select"
    /\ \E o \in Plain({Answer("ok", [chip EXCEPT !.selected = Target])}) :
          \/ /\ o.sw = "ok"
             /\ Happened(o, TRUE)
             /\ left' = KeySets
             /\ Goto(IF job.op = "probe" THEN "info" ELSE "init")
          \/ /\ o.sw # "ok" /\ MayCycle
             /\ Happened([o EXCEPT !.chip = PoweredUp(@)], TRUE)
             /\ PowerCycling
             /\ UNCHANGED left
          \/ /\ o.sw # "ok" /\ ~MayCycle
             /\ Happened(o, TRUE)
             /\ OpenFails
             /\ UNCHANGED left
    /\ UNCHANGED <<scpOpen, sessionActive, sessionIdGood, keySource, peerObjReady, viaObject,
                   disturbed>>

\* probe()'s GetVersion and GetRandom: their answers do not matter, but a lost second
\* one leaves the N(S) of the two sides apart.
Info ==
    /\ pc = "info"
    /\ \/ UNCHANGED <<chip, troubles>>
       \/ /\ chip.up /\ "commandLost" \in faults /\ troubles < MaxFaults
          /\ chip' = Took(chip) /\ troubles' = troubles + 1
    /\ Goto("init")
    /\ UNCHANGED <<link, keySource, peerObjReady, viaObject, left, environment, acts, disturbed>>

\* openSecureChannel() goes on to the next key set it can derive.
Trying == CHOOSE s \in left : \A t \in left : Rank[s] <= Rank[t]
NextKeySet ==
    /\ left' = left \ {Trying}
    /\ \/ left' # {} /\ keySource' = Trying /\ Goto("init")
       \/ /\ left' = {}
          /\ keySource' = IF job.op = "reopen" THEN keySource ELSE "Factory"
          /\ Fails

\* tryOpenChannel(): INITIALIZE UPDATE, whose cryptogram tells whether the chip has
\* these keys, and EXTERNAL AUTHENTICATE.
InitializeUpdate ==
    /\ pc = "init"
    /\ \E o \in Plain({IF chip.selected = "none" THEN Answer("error", chip)
                        ELSE Answer("ok", [chip EXCEPT !.channel = "begun", !.session = "none"])}) :
          /\ Happened(o, TRUE)
          /\ \/ /\ o.sw = "ok" /\ chip.keys = Trying
                /\ keySource' = Trying
                /\ Goto("auth")
                /\ UNCHANGED left
             \/ ~(o.sw = "ok" /\ chip.keys = Trying) /\ NextKeySet
    /\ CloseChannel
    /\ disturbed' = FALSE
    /\ UNCHANGED <<sessionIdGood, peerObjReady, viaObject>>

ChannelOpen ==
    \/ job.op \in {"ensure", "use"} /\ Goto("setup")
    \/ /\ job.op = "probe"
       /\ NextJob(SelfTest \o AfterTest)
       /\ UNCHANGED <<verdicts, rotated>>
    \/ job.op = "rotate" /\ keySource = "Otp" /\ RotationEnds("done")
    \/ job.op = "rotate" /\ keySource # "Otp" /\ Goto("putKey")
    \/ /\ job.op = "reopen"
       /\ NextJob(<<Work("ensure", ExchangeKey, "loop")>>)
       /\ rotated' = "done" /\ UNCHANGED verdicts
ExternalAuthenticate ==
    /\ pc = "auth"
    /\ \E o \in Plain({IF chip.channel = "begun"
                        THEN Answer("ok", [chip EXCEPT !.channel = "open", !.agrees = TRUE])
                        ELSE Answer("error", chip)}) :
          /\ Happened(o, TRUE)
          /\ \/ o.sw = "ok" /\ scpOpen' = TRUE /\ ChannelOpen /\ UNCHANGED <<left, keySource>>
             \/ o.sw # "ok" /\ NextKeySet /\ UNCHANGED scpOpen
    /\ UNCHANGED <<sessionActive, sessionIdGood, peerObjReady, viaObject, disturbed>>

\* Mutant: a peer object that is ready is not rewritten.
MainStepStale ==
    CASE job.op = "ensure"     -> "exists"
      [] job.form = "object"   -> IF peerObjReady THEN "agreePeer" ELSE "peerExists"
      [] OTHER                 -> "agree"

\* Mutant: after a check without an answer the second lap takes the key for absent.
MainStepAssumed ==
    CASE job.op = "ensure"     -> IF job.attempt = 2 THEN "generate" ELSE "exists"
      [] job.form = "object"   -> IF peerObjReady THEN "peerUpdate" ELSE "peerExists"
      [] OTHER                 -> "agree"

\* Where an operation goes on once it has its session.
MainStep ==
    CASE job.op = "ensure"     -> "exists"
      [] job.form = "object"   -> IF peerObjReady THEN "peerUpdate" ELSE "peerExists"
      [] OTHER                 -> "agree"

\* Mutant: a channel that is down is not rebuilt.
EnsureSessionOnly ==
    /\ pc = "session"
    /\ cycled' = FALSE
    /\ pc' = IF sessionActive THEN MainStep ELSE "setup"
    /\ UNCHANGED <<chip, link, keySource, peerObjReady, viaObject, job, agenda, left, verdicts,
                   rotated, environment, troubles, acts, disturbed>>

\* ensureSession(): the session there is, a first one on an open channel, or recover().
EnsureSession ==
    /\ pc = "session"
    /\ cycled' = FALSE
    /\ pc' = IF sessionActive THEN MainStep ELSE IF scpOpen THEN "setup" ELSE "reset"
    /\ UNCHANGED <<chip, link, keySource, peerObjReady, viaObject, job, agenda, left, verdicts,
                   rotated, environment, troubles, acts, disturbed>>

\* identitySession(): the curves and the UserID, whose failures are ignored but may
\* close the channel under the rest; then the session and its PIN.
Setup ==
    /\ pc = "setup"
    /\ \E o \in InApplet({Answer("ok", chip)}) :
          /\ Happened(o, scpOpen) /\ KeepOrClose(o)
          /\ \/ o.sw \in {"ok", "error"} /\ Goto("create")
             \/ o.sw \notin {"ok", "error"} /\ Fails
    /\ UNCHANGED <<sessionIdGood, keySource, peerObjReady, viaObject, left, disturbed>>

CreateSession ==
    /\ pc = "create"
    /\ \E o \in InApplet({Answer("ok", [chip EXCEPT !.session = "created"])}) :
          /\ Happened(o, scpOpen) /\ KeepOrClose(o)
          /\ \/ o.sw = "ok" /\ sessionIdGood' = TRUE /\ Goto("verify")
             \/ o.sw # "ok" /\ UNCHANGED sessionIdGood /\ Fails
    /\ UNCHANGED <<keySource, peerObjReady, viaObject, left, disturbed>>

\* A damaged answer closes the channel and still counts as a session.
VerifySession ==
    /\ pc = "verify"
    /\ \E o \in InApplet({IF chip.session = "created" /\ sessionIdGood
                           THEN Answer("ok", [chip EXCEPT !.session = "open"])
                           ELSE Answer("error", chip)}) :
          /\ Happened(o, scpOpen)
          /\ \/ /\ Accepted(o)
                /\ scpOpen' = (scpOpen /\ ~Closing(o)) /\ sessionActive' = TRUE
                /\ Goto(MainStep)
             \/ ~Accepted(o) /\ KeepOrClose(o) /\ Fails
    /\ UNCHANGED <<sessionIdGood, keySource, peerObjReady, viaObject, left, disturbed>>

------------------------------------------------------------------------------
(* Keys and agreements.                                                    *)

\* objectExists() in keyEnsure(): no answer is not an absent key.
Exists ==
    /\ pc = "exists"
    /\ \E o \in InSession({Report(chip.key[job.key] # "absent")}) :
          /\ Happened(o, scpOpen)
          /\ \/ o.sw = "ok" /\ KeepOrClose(o) /\ Goto(IF o.says THEN "read" ELSE "generate")
             \/ o.sw # "ok" /\ CloseAndRetry
    /\ UNCHANGED <<sessionIdGood, keySource, peerObjReady, viaObject, left, disturbed>>

\* WriteECKey without a value: the chip generates the pair.
Generated == IF chip.key[job.key] = "absent" THEN "original" ELSE "replaced"
Generate ==
    /\ pc = "generate"
    /\ \E o \in InSession({Answer("ok", [chip EXCEPT !.key[job.key] = Generated])}) :
          /\ Happened(o, scpOpen) /\ KeepOrClose(o)
          /\ \/ Accepted(o) /\ Goto("read")
             \/ ~Accepted(o) /\ Fails
    /\ UNCHANGED <<sessionIdGood, keySource, peerObjReady, viaObject, left, disturbed>>

ReadPublic ==
    /\ pc = "read"
    /\ \E o \in InSession({Answer(IF chip.key[job.key] = "absent" THEN "error" ELSE "ok", chip)}) :
          /\ Happened(o, scpOpen) /\ KeepOrClose(o)
          /\ \/ o.sw = "ok" /\ Finish(TRUE)
             \/ o.sw # "ok" /\ Fails
    /\ UNCHANGED <<sessionIdGood, keySource, peerObjReady, viaObject, left, disturbed>>

\* x25519EcdhBytes() and ed25519Sign().  Once the byte-array form was served where the
\* peer object's was not, x25519Ecdh() stays with it.
Agree ==
    /\ pc = "agree"
    /\ \E o \in InSession({Answer(IF chip.key[job.key] = "absent" THEN "error" ELSE "ok", chip)}) :
          /\ Happened(o, scpOpen)
          /\ \/ /\ o.sw = "ok" /\ KeepOrClose(o) /\ Finish(TRUE)
                /\ viaObject' = (viaObject /\ (job.why = "test" \/ job.key = SigningKey))
             \/ o.sw = "damaged" /\ KeepOrClose(o) /\ Fails /\ UNCHANGED viaObject
             \/ ~Accepted(o) /\ CloseAndRetry /\ UNCHANGED viaObject
    /\ UNCHANGED <<sessionIdGood, keySource, peerObjReady, left, disturbed>>

\* x25519EcdhObject(): is there a peer object, create it, or give it this peer's key.
PeerExists ==
    /\ pc = "peerExists"
    /\ \E o \in InSession({Report(chip.peer # "none")}) :
          /\ Happened(o, scpOpen)
          /\ \/ /\ o.sw = "ok" /\ KeepOrClose(o)
                /\ peerObjReady' = o.says
                /\ Goto(IF o.says THEN "peerUpdate" ELSE "peerCreate")
             \/ o.sw # "ok" /\ CloseAndRetry /\ UNCHANGED peerObjReady
    /\ UNCHANGED <<sessionIdGood, keySource, viaObject, left, disturbed>>

\* The chip may have no transient memory for a new object.
PeerCreate ==
    /\ pc = "peerCreate"
    /\ \E o \in InSession({Answer("ok", [chip EXCEPT !.peer = "mine"]), Answer("error", chip)}) :
          /\ Happened(o, scpOpen) /\ KeepOrClose(o)
          /\ \/ Accepted(o) /\ peerObjReady' = TRUE /\ Goto("agreePeer")
             \/ ~Accepted(o) /\ UNCHANGED peerObjReady /\ Fails
    /\ UNCHANGED <<sessionIdGood, keySource, viaObject, left, disturbed>>

PeerUpdate ==
    /\ pc = "peerUpdate"
    /\ \E o \in InSession({IF chip.peer = "none" THEN Answer("error", chip)
                           ELSE Answer("ok", [chip EXCEPT !.peer = "mine"])}) :
          /\ Happened(o, scpOpen)
          /\ \/ Accepted(o) /\ KeepOrClose(o) /\ Goto("agreePeer") /\ UNCHANGED peerObjReady
             \/ ~Accepted(o) /\ peerObjReady' = FALSE /\ CloseAndRetry
    /\ UNCHANGED <<sessionIdGood, keySource, viaObject, left, disturbed>>

AgreePeer ==
    /\ pc = "agreePeer"
    /\ \E o \in InSession({Answer(IF chip.key[job.key] = "absent" \/ chip.peer \in {"none", "empty"}
                                  THEN "error" ELSE "ok", chip)}) :
          /\ Happened(o, scpOpen)
          /\ \/ o.sw = "ok" /\ KeepOrClose(o) /\ Finish(TRUE) /\ UNCHANGED peerObjReady
             \/ o.sw = "damaged" /\ KeepOrClose(o) /\ Fails /\ UNCHANGED peerObjReady
             \/ ~Accepted(o) /\ peerObjReady' = FALSE /\ CloseAndRetry
    /\ UNCHANGED <<sessionIdGood, keySource, viaObject, left, disturbed>>

\* Mutant: the new keys are adopted whatever the chip answered.
PutKeyBlind ==
    /\ pc = "putKey"
    /\ \E o \in Secured({IF chip.selected = "ssd" THEN Answer("ok", [chip EXCEPT !.keys = "Otp"])
                         ELSE Answer("error", chip)}) : Happened(o, scpOpen)
    /\ CloseChannel
    /\ keySource' = "Otp"
    /\ pc' = "reset" /\ job' = [job EXCEPT !.op = "reopen"]
    /\ UNCHANGED <<agenda, cycled, verdicts, rotated, sessionIdGood, peerObjReady, viaObject, left,
                   disturbed>>

\* PUT KEY: the host adopts the new keys and reopens the channel with them when the
\* chip echoes them; any other answer leaves it with the old ones.
PutKey ==
    /\ pc = "putKey"
    /\ \E o \in Secured({IF chip.selected = "ssd" THEN Answer("ok", [chip EXCEPT !.keys = "Otp"])
                         ELSE Answer("error", chip)}) :
          /\ Happened(o, scpOpen)
          /\ \/ /\ o.sw = "ok" /\ CloseChannel
                /\ keySource' = "Otp"
                /\ pc' = "reset" /\ job' = [job EXCEPT !.op = "reopen"]
                /\ UNCHANGED <<agenda, cycled, verdicts, rotated>>
             \/ o.sw # "ok" /\ KeepOrClose(o) /\ Fails /\ UNCHANGED keySource
    /\ UNCHANGED <<sessionIdGood, peerObjReady, viaObject, left, disturbed>>

------------------------------------------------------------------------------
(* What the node and its operator ask for, and what may happen to the chip.  *)

\* VaultKeys.h: an agreement or a signature for Reticulum, with a peer of its own.
UseKey(k) ==
    /\ pc = "idle" /\ identity = "chip"
    /\ job' = [Work("use", k, "loop") EXCEPT
                  !.form = IF k = ExchangeKey /\ viaObject THEN "object" ELSE "bytes"]
    /\ chip' = [chip EXCEPT !.peer = IF k = ExchangeKey /\ @ = "mine" THEN "other" ELSE @]
    /\ pc' = "session"
    /\ UNCHANGED <<link, keySource, peerObjReady, viaObject, agenda, cycled, left, verdicts,
                   rotated, environment, troubles, acts, disturbed>>

\* The console: probe() again, and the rotation.
Command ==
    /\ pc = "idle" /\ acts < MaxActs
    /\ acts' = acts + 1
    /\ UNCHANGED <<chip, seq, sessionIdGood, keySource, agenda, cycled, left, verdicts,
                   environment, troubles, disturbed>>
Reprobe ==
    /\ Command
    /\ viaObject' = ViaObject /\ peerObjReady' = FALSE
    /\ pc' = "reset" /\ job' = Work("probe", ExchangeKey, "test")
    /\ UNCHANGED <<scpOpen, sessionActive, rotated>>
\* Mutant: rotates to keys the board cannot derive.
RotateUnseeded ==
    /\ "rotation" \in faults
    /\ Command
    /\ CloseChannel
    /\ pc' = "reset" /\ job' = Work("rotate", ExchangeKey, "loop")
    /\ UNCHANGED <<rotated, peerObjReady, viaObject>>

Rotate ==
    /\ "rotation" \in faults
    /\ Command
    /\ \/ /\ keySource = "Otp" \/ "Otp" \notin derivable
          /\ rotated' = IF keySource = "Otp" THEN "done" ELSE "failed"
          /\ UNCHANGED <<pc, job, scpOpen, sessionActive>>
       \/ /\ keySource # "Otp" /\ "Otp" \in derivable
          /\ CloseChannel
          /\ pc' = "reset" /\ job' = Work("rotate", ExchangeKey, "loop")
          /\ UNCHANGED rotated
    /\ UNCHANGED <<peerObjReady, viaObject>>

Trouble(kind) ==
    /\ kind \in faults /\ troubles < MaxFaults
    /\ troubles' = troubles + 1
    /\ disturbed' = (disturbed \/ scpOpen)
    /\ UNCHANGED <<seq, scpOpen, sessionActive, keySource, peerObjReady, viaObject, program, left,
                   verdicts, rotated, environment, acts>>
ChipResets ==
    /\ chip.up
    /\ (Trouble("reset") /\ pc = "idle") \/ Trouble("resetMidway")
    /\ chip' = Fresh(chip)
    /\ UNCHANGED sessionIdGood
ChipSilent ==
    /\ chip.up
    /\ Trouble("silent")
    /\ chip' = [chip EXCEPT !.up = FALSE]
    /\ UNCHANGED sessionIdGood

\* faultInject(): the host's counter, or its session id.
FaultInject ==
    /\ pc = "idle"
    /\ Trouble("inject")
    /\ \/ chip' = [chip EXCEPT !.agrees = FALSE] /\ UNCHANGED sessionIdGood
       \/ sessionIdGood' = ~sessionIdGood /\ UNCHANGED chip

\* The node restarts, in the middle of anything; setup() power-cycles the chip where it can.
Restart ==
    /\ acts < MaxActs
    /\ acts' = acts + 1
    /\ seq' = 0 /\ scpOpen' = FALSE /\ sessionActive' = FALSE /\ sessionIdGood' = FALSE
    /\ keySource' = "Factory" /\ peerObjReady' = FALSE /\ viaObject' = ViaObject
    /\ pc' = "reset" /\ job' = Work("probe", ExchangeKey, "test")
    /\ agenda' = << >> /\ left' = {} /\ cycled' = FALSE
    /\ identity' = "none" /\ result' = "none" /\ rotated' = "none"
    /\ chip' = IF PowerCycle THEN PoweredUp(chip) ELSE chip
    /\ disturbed' = FALSE
    /\ UNCHANGED <<first, service, environment, troubles>>

\* A node without a chip, or with an identity of its own, has no use for it.
Rest == (pc = "absent" \/ (pc = "idle" /\ identity = "file")) /\ UNCHANGED vars

------------------------------------------------------------------------------
OpenStep == Reset \/ Select \/ Info \/ InitializeUpdate \/ ExternalAuthenticate
SessionStep == EnsureSession \/ Setup \/ CreateSession \/ VerifySession
KeyStep == Exists \/ Generate \/ ReadPublic \/ Agree \/ PutKey
PeerStep == PeerExists \/ PeerCreate \/ PeerUpdate \/ AgreePeer
DriverStep == OpenStep \/ SessionStep \/ KeyStep \/ PeerStep
Requests == (\E k \in Keys : UseKey(k)) \/ Reprobe \/ Rotate
Surroundings == ChipResets \/ ChipSilent \/ FaultInject \/ Restart \/ Rest

Next == DriverStep \/ Requests \/ Surroundings

Spec == Init /\ [][Next]_vars

\* The driver's calls return, their waits being bounded, and the node goes on needing
\* its keys: loop() announces itself for ever, and an announce is signed in the chip.
FairSpec == Spec /\ WF_vars(DriverStep) /\ WF_vars(\E k \in Keys : UseKey(k))

------------------------------------------------------------------------------
(* Properties.                                                             *)

\* Every variable keeps its type: the chip, the operation under way, the verdicts.
TypeOK ==
    /\ chip \in Chip /\ seq \in {0, 1}
    /\ scpOpen \in BOOLEAN /\ sessionActive \in BOOLEAN /\ sessionIdGood \in BOOLEAN
    /\ keySource \in Sources /\ peerObjReady \in BOOLEAN /\ viaObject \in BOOLEAN
    /\ pc \in Steps /\ job \in Job /\ agenda \in Seq(Errand)
    /\ left \subseteq Sources /\ cycled \in BOOLEAN
    /\ identity \in {"none", "chip", "file"} /\ first \in {"none", "chip", "file"}
    /\ result \in {"none", "served", "failed"} /\ rotated \in {"none", "done", "failed"}
    /\ derivable \in Builds /\ faults \in Environments
    /\ troubles \in Nat /\ acts \in Nat /\ service \in Nat
    /\ disturbed \in BOOLEAN

\* A channel the driver takes for open is open on the chip, with the same counters and
\* the N(S) it expects, unless the chip was reset or a fault injected behind the driver's
\* back (SE050.cpp:569-572 "the host and card ICVs/MCVs can no longer agree").
InStep ==
    scpOpen /\ ~disturbed =>
        /\ chip.channel = "open" /\ chip.agrees /\ seq = chip.expects
        /\ sessionActive => chip.session = "open"

\* A key generated in the chip is never generated again, whatever answers got lost
\* (SE050.cpp:938-939 "generating over an existing key is the one thing not to do").
KeysKept == \A k \in Keys : chip.key[k] # "replaced"

\* The chip always answers to a key set the driver goes on to try: one openSecureChannel()
\* tries (SE050.cpp:413-418), also when a rotation was interrupted at any point, and the
\* new one where rotatePlatformKeys() reopens the channel with that alone (SE050.cpp:1506-1507).
ChipOpens == chip.keys \in KeySets

\* A rotation that reports success left the chip with the OTP-derived keys, and a driver
\* that believes in them is right (SE050.h:188-194).
RotationTruthful ==
    /\ rotated = "done" => chip.keys = "Otp"
    /\ pc = "idle" /\ keySource = "Otp" => chip.keys = "Otp"

\* One fault since the last use that was served does not fail the next one: the operation
\* rebuilds what is missing and retries (SE050.cpp:852-858 "sees a slower call").
Orderly == faults \cap {"rotation", "resetMidway", "damaged"} = {}
OneFaultAbsorbed ==
    result = "failed" /\ Orderly => troubles >= service + 2

\* After a failure the vault serves again by itself, once the chip answers
\* (SE050.cpp:857-858 "not a dead vault until the next reboot").
VaultNeverDead == (result = "failed") ~> (result # "failed")
VaultComesBack == faults \cap {"rotation", "resetMidway"} = {} => VaultNeverDead

\* The node's identity is the same in every boot (main.cpp:310-312 "the hash is the same
\* as long as the chip is").
IdentityStable == identity \in {"none", first}

\* A use of a key for the node, and whether the chip would answer with the peer of this
\* use: one that comes with the command, or one the peer object was given for it.
UseUnderWay == job.op = "use" /\ job.why = "loop"
PeerGiven == UseUnderWay /\ (job.form = "bytes" \/ chip.peer = "mine")

\* Se050 implements the vault: through every loss, reset and retry a use is answered with
\* its own key and its own peer (SE050.h:79-80 "rewritten before every agreement") or throws
\* (VaultKeys.h:9-10 "a chip that refuses is reported the same way"), a key is generated
\* once, and an identity is the chip's only with both its keys.
Promise == INSTANCE Vault WITH
    key <- chip.key,
    owner <- identity,
    asked <- IF UseUnderWay THEN {job.key} ELSE {},
    given <- PeerGiven
ImplementsVault == Promise!Spec
==============================================================================
