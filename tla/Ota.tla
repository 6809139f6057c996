--------------------------------- MODULE Ota ---------------------------------
(***************************************************************************)
(* The Ethernet OTA of src/src/Ota.cpp: an upload staged for the OTA stub  *)
(* of arduino-pico, the trial boots of the new image, its confirmation and *)
(* the rollback, with the reboots and power losses that fall between any   *)
(* two of their steps.                                                     *)
(*                                                                         *)
(* What survives a reset: the flash, the files of LittleFS and the stub's  *)
(* command.  What does not: the members of the Ota object and how far the  *)
(* running image got.  Bytes, hashes and sizes are abstracted: a file      *)
(* holds a whole image, is Torn (created, its data never written back) or  *)
(* is Absent.  Refusals before any file is touched (authentication, board, *)
(* headers, length: Ota.cpp:331-366) change nothing and are left out.      *)
(***************************************************************************)
EXTENDS Naturals

CONSTANTS Images,         \* the images clients upload
          Sound,          \* those that can reach "SE050 probed and announce sent"
          Absent, Torn,   \* a file that is not there; one whose data is not there
          TrialBoots,     \* NODE_OTA_TRIAL_BOOTS
          Environments,   \* sets of faults a behaviour may be exposed to
          MaxUploads,     \* bound on accepted uploads
          MaxLosses       \* bound on power losses

\* What can go wrong around the code: power lost outside the windows named
\* after it, while a body is received, between the stub's command and the
\* state file of an upload, the same of a rollback; a staging call that fails
\* (upload, rollback); a save() that fails; an upload while a staged image
\* waits for its reboot, or while the running image is on trial; a bring-up
\* that fails in reticulumSetup(); a filesystem too small for two images.
FaultKinds == {"loss", "lossReceiving", "lossStaged", "lossRestoring",
               "stageUpload", "stageRestore", "save",
               "uploadStaged", "uploadTrial", "blink", "space"}

ASSUME OtaAssumption ==
    /\ Sound \subseteq Images
    /\ Absent \notin Images
    /\ Torn \notin Images
    /\ Absent # Torn
    /\ TrialBoots \in Nat \ {0}
    /\ Environments \subseteq SUBSET FaultKinds
    /\ MaxUploads \in Nat
    /\ MaxLosses \in Nat

VARIABLES
    flash,          \* the image in flash
    image, prev,    \* firmware.bin, firmware.prev.bin
    command,        \* the file otacommand.bin names, "none" when there is none
    record,         \* /ota_state
    mode,           \* where the program is
    ram,            \* _state, _sha, _boots
    trialThisBoot,  \* _trialThisBoot
    rebootAt,       \* _rebootAt # 0
    proven,         \* se050 && announcedOnce
    watchdog,       \* the hardware watchdog is armed
    incoming,       \* the image the upload in progress declares
    faults,         \* the faults this behaviour is exposed to
    uploads, losses,  \* how many so far
    settled,        \* history: what ran when an upload last reached a node not on trial
    trials          \* history: boots of the staged image that went past begin()

files == <<image, prev, command, record>>
volatile == <<ram, trialThisBoot, rebootAt, proven, incoming>>
history == <<settled, trials>>
bounds == <<faults, uploads, losses>>
vars == <<flash, files, mode, volatile, watchdog, bounds, history>>

States == {"none", "pending", "confirmed", "rolledback", "failed"}
File == Images \cup {Absent, Torn}
Record == [state : States, sha : Images \cup {Absent}, boots : Nat]
Modes == {"reset", "boot", "restoring", "bringup", "blink", "dead", "loop", "confirmed",
          "demoting", "demoted", "receiving", "received", "staged"}

Rec(state, sha, boots) == [state |-> state, sha |-> sha, boots |-> boots]
NoRecord == Rec("none", Absent, 0)

\* A board flashed over USB: no OTA file yet, the first boot about to start.
Init ==
    /\ flash \in Images
    /\ image = Absent /\ prev = Absent /\ command = "none"
    /\ record = NoRecord
    /\ mode = "reset"
    /\ ram = NoRecord /\ trialThisBoot = FALSE /\ rebootAt = FALSE
    /\ proven = FALSE /\ watchdog = FALSE /\ incoming = Absent
    /\ faults \in Environments /\ uploads = 0 /\ losses = 0
    /\ settled = flash /\ trials = 0

\* save(): its result is ignored by every caller; a failing open leaves the file.
SaveOutcomes == IF "save" \in faults THEN BOOLEAN ELSE {TRUE}

\* Mutant: the boots are not written.
SaveUncounted(r) == record' = [state |-> r.state, sha |-> r.sha]

\* The state, the hash and the boots of r, written as one file.
Save(r) == \E done \in SaveOutcomes : record' = IF done THEN r ELSE record

\* addFile() && commit() of the picoOTA library, for an upload and for a rollback.
Outcomes(fault) == IF fault \in faults THEN BOOLEAN ELSE {TRUE}

------------------------------------------------------------------------------
(* Reset, the stub and the boot.                                           *)

\* RAM is gone; the watchdog stays armed over a reset but not over a power loss.
Reset ==
    /\ mode' = "reset"
    /\ ram' = NoRecord /\ trialThisBoot' = FALSE /\ rebootAt' = FALSE
    /\ proven' = FALSE /\ incoming' = Absent

\* The OTA stub runs before the firmware, copies the file the command names
\* over the flash and drops the command; it verifies nothing (docs/ota.md).  A
\* missing file leaves the flash alone, a torn one leaves it alone or ruins it.
Commanded == IF command = "image" THEN image ELSE prev
Stub ==
    /\ mode = "reset"
    /\ \E content \in IF command = "none" \/ Commanded = Absent THEN {flash}
                      ELSE IF Commanded = Torn THEN {flash, Torn}
                      ELSE {Commanded} :
          /\ flash' = content
          /\ mode' = IF content = Torn THEN "dead" ELSE "boot"
    /\ command' = "none"
    /\ UNCHANGED <<image, prev, record, volatile, watchdog, bounds, history>>

\* begin(), a boot that is no trial: load() and nothing else.
BeginSteady ==
    /\ mode = "boot"
    /\ record.state # "pending"
    /\ ram' = record
    /\ mode' = "bringup"
    /\ UNCHANGED <<flash, files, trialThisBoot, rebootAt, proven, incoming, watchdog, bounds, history>>

\* Mutants: one boot too many (compared before the increment), one too few.
BootsLeftLate == record.boots <= TrialBoots
BootsLeftEarly == record.boots + 1 < TrialBoots

\* Boots allowed to a pending image: _boots++ and the comparison of begin().
BootsLeft == record.boots + 1 <= TrialBoots

\* begin(), a trial boot: counted in the file before anything that could fail.
BeginTrial ==
    /\ mode = "boot"
    /\ record.state = "pending"
    /\ BootsLeft
    /\ ram' = Rec("pending", record.sha, record.boots + 1)
    /\ Save(ram')
    /\ trialThisBoot' = TRUE
    /\ mode' = "bringup"
    /\ trials' = trials + 1
    /\ UNCHANGED <<flash, image, prev, command, rebootAt, proven, incoming, watchdog, bounds, settled>>

\* Mutant: the rollback stages the file of the failing image.
BeginRollbackWrongFile ==
    /\ mode = "boot"
    /\ record.state = "pending"
    /\ ~BootsLeft
    /\ prev # Absent
    /\ ram' = Rec("pending", record.sha, record.boots + 1)
    /\ command' = "image"
    /\ mode' = "restoring"
    /\ UNCHANGED <<flash, image, prev, record, trialThisBoot, rebootAt, proven, incoming,
                   watchdog, bounds, history>>

\* begin() -> rollback(), up to the commit of the previous image.
BeginRollback ==
    /\ mode = "boot"
    /\ record.state = "pending"
    /\ ~BootsLeft
    /\ prev # Absent
    /\ ram' = Rec("pending", record.sha, record.boots + 1)
    /\ command' = "prev"
    /\ mode' = "restoring"
    /\ UNCHANGED <<flash, image, prev, record, trialThisBoot, rebootAt, proven, incoming,
                   watchdog, bounds, history>>

\* rollback() after the commit: the verdict is saved and the node reboots.
FinishRollback ==
    /\ mode = "restoring"
    /\ Save(Rec("rolledback", ram.sha, ram.boots))
    /\ Reset
    /\ UNCHANGED <<flash, image, prev, command, watchdog, bounds, history>>

\* rollback() with nothing to stage, or a staging call that failed: the node
\* stays on the image in flash, this boot is no trial.
GiveUp ==
    /\ mode = "boot"
    /\ record.state = "pending"
    /\ ~BootsLeft
    /\ prev = Absent \/ "stageRestore" \in faults
    /\ ram' = Rec("failed", record.sha, record.boots + 1)
    /\ Save(ram')
    /\ mode' = "bringup"
    /\ UNCHANGED <<flash, image, prev, command, trialThisBoot, rebootAt, proven, incoming,
                   watchdog, bounds, history>>

\* The rest of setup(): the watchdog is armed by its last lines.
BringUp ==
    /\ mode = "bringup"
    /\ mode' = "loop"
    /\ watchdog' = TRUE
    /\ UNCHANGED <<flash, files, volatile, bounds, history>>

\* reticulumSetup() returned false: setup() blinks for good, feeding nothing.
BringUpFails ==
    /\ mode = "bringup"
    /\ "blink" \in faults
    /\ mode' = "blink"
    /\ UNCHANGED <<flash, files, volatile, watchdog, bounds, history>>

\* A watchdog left armed by the previous run ends the blinking.
WatchdogTrips ==
    /\ mode = "blink"
    /\ watchdog
    /\ Reset
    /\ UNCHANGED <<flash, files, watchdog, bounds, history>>

\* What a node that will not run any further keeps doing.
Stuck ==
    /\ mode \in {"blink", "dead"}
    /\ UNCHANGED vars

\* The fault a power loss at each point of the program stands for.
LossOf(m) ==
    IF m \in {"receiving", "received"} THEN "lossReceiving"
    ELSE IF m = "staged" THEN "lossStaged"
    ELSE IF m = "restoring" THEN "lossRestoring"
    ELSE "loss"

PowerLoss ==
    /\ losses < MaxLosses
    /\ LossOf(mode) \in faults
    /\ Reset
    /\ watchdog' = FALSE
    /\ losses' = losses + 1
    /\ UNCHANGED <<flash, files, faults, uploads, history>>

------------------------------------------------------------------------------
(* loop(): proof, confirmation, reboots.                                   *)

\* The SE050 answered and an announce went out signed by it; only then does
\* main.cpp's loop() call confirm().
Prove ==
    /\ mode = "loop"
    /\ ~proven
    /\ flash \in Sound
    /\ proven' = TRUE
    /\ UNCHANGED <<flash, files, mode, ram, trialThisBoot, rebootAt, incoming, watchdog, bounds, history>>

\* Mutant: whoever finds the image pending confirms it (docs/ota.md, the bug
\* of 2026-09-16).
MayConfirmAny == ram.state = "pending"

\* confirm(): only in the boot that begin() counted as the trial.
MayConfirm == ram.state = "pending" /\ trialThisBoot
\* Mutant: the fallback is dropped before the verdict is saved.
ConfirmDropFirst ==
    /\ mode = "loop"
    /\ proven
    /\ MayConfirm
    /\ prev' = Absent
    /\ UNCHANGED <<flash, image, command, record, mode, volatile, watchdog, bounds, history>>

Confirm ==
    /\ mode = "loop"
    /\ proven
    /\ MayConfirm
    /\ ram' = Rec("confirmed", ram.sha, 0)
    /\ trialThisBoot' = FALSE
    /\ Save(ram')
    /\ mode' = "confirmed"
    /\ UNCHANGED <<flash, image, prev, command, rebootAt, proven, incoming, watchdog, bounds, history>>

\* confirm() goes on: the fallback is dropped after the verdict was saved.
DropFallback ==
    /\ mode = "confirmed"
    /\ prev' = Absent
    /\ mode' = "loop"
    /\ UNCHANGED <<flash, image, command, record, volatile, watchdog, bounds, history>>

\* Ota::loop(): 500 ms after an upload was staged.
RebootIntoStaged ==
    /\ mode = "loop"
    /\ rebootAt
    /\ Reset
    /\ UNCHANGED <<flash, files, watchdog, bounds, history>>

\* Mutant: the image that staged the upload times out, the one on trial does not.
TrialTimeoutWrongBoot ==
    /\ mode = "loop"
    /\ ~trialThisBoot
    /\ ram.state = "pending"
    /\ Reset
    /\ UNCHANGED <<flash, files, watchdog, bounds, history>>

\* Ota::loop(): a trial boot not confirmed within NODE_OTA_TRIAL_TIMEOUT_S.
TrialTimeout ==
    /\ mode = "loop"
    /\ trialThisBoot
    /\ ram.state = "pending"
    /\ Reset
    /\ UNCHANGED <<flash, files, watchdog, bounds, history>>

\* Every other reboot of a running node: low heap, the console, a settings
\* reboot, the IP trial, a watchdog trip of a stalled loop().
OtherReboot ==
    /\ mode = "loop"
    /\ Reset
    /\ UNCHANGED <<flash, files, watchdog, bounds, history>>

------------------------------------------------------------------------------
(* handleUpload(), in the steps a reset can separate.                      *)

\* An upload that passed every check of its headers.  The handler itself does
\* not ask what the node is busy with.
UploadAllowed ==
    /\ rebootAt => "uploadStaged" \in faults
    /\ trialThisBoot => "uploadTrial" \in faults

\* Mutant: after a rollback the failed image is kept as if it had been running.
UploadKeepsFailed(i) ==
    /\ mode = "loop"
    /\ uploads < MaxUploads
    /\ UploadAllowed
    /\ uploads' = uploads + 1
    /\ incoming' = i
    /\ IF image = Absent
         THEN mode' = "demoted" /\ UNCHANGED <<image, prev>>
         ELSE mode' = "demoting" /\ prev' = Absent /\ UNCHANGED image
    /\ UNCHANGED <<flash, command, record, ram, trialThisBoot, rebootAt, proven, watchdog,
                   faults, losses, history>>

Upload(i) ==
    /\ mode = "loop"
    /\ uploads < MaxUploads
    /\ UploadAllowed
    /\ uploads' = uploads + 1
    /\ incoming' = i
    /\ IF image = Absent
         THEN mode' = "demoted" /\ UNCHANGED <<image, prev>>
         ELSE IF ram.state = "rolledback"
           THEN mode' = "demoted" /\ image' = Absent /\ UNCHANGED prev
           ELSE mode' = "demoting" /\ prev' = Absent /\ UNCHANGED image
    /\ UNCHANGED <<flash, command, record, ram, trialThisBoot, rebootAt, proven, watchdog,
                   faults, losses, history>>

\* LittleFS.rename(IMAGE_FILE, PREV_FILE)
Demote ==
    /\ mode = "demoting"
    /\ prev' = image
    /\ image' = Absent
    /\ mode' = "demoted"
    /\ UNCHANGED <<flash, command, record, volatile, watchdog, bounds, history>>

\* Room for the new image: next to the previous one, without it, or not at all
\* (507).  receiveBody() then creates the file.
FitsOutcomes == IF "space" \in faults THEN BOOLEAN ELSE {TRUE}
MakeRoom ==
    /\ mode = "demoted"
    /\ \E beside \in FitsOutcomes, alone \in FitsOutcomes :
         LET fits == beside \/ (prev # Absent /\ alone)
         IN  /\ prev' = IF beside THEN prev ELSE Absent
             /\ image' = IF fits THEN Torn ELSE image
             /\ mode' = IF fits THEN "receiving" ELSE "loop"
    /\ UNCHANGED <<flash, command, record, volatile, watchdog, bounds, history>>

\* receiveBody() to its end: every byte written, hash and signature good.
ReceiveBody ==
    /\ mode = "receiving"
    /\ image' = incoming
    /\ mode' = "received"
    /\ UNCHANGED <<flash, prev, command, record, volatile, watchdog, bounds, history>>

\* Mutant: a body that failed its checks goes on to be staged.
RejectBodyKept ==
    /\ mode = "receiving"
    /\ mode' = "received"
    /\ UNCHANGED <<flash, files, volatile, watchdog, bounds, history>>

\* receiveBody() failing at any check: the file is removed.
RejectBody ==
    /\ mode = "receiving"
    /\ image' = Absent
    /\ mode' = "loop"
    /\ UNCHANGED <<flash, prev, command, record, volatile, watchdog, bounds, history>>

\* picoOTA.commit(): from here on the stub acts at the next reset, whatever
\* the state file says.
Commit ==
    /\ mode = "received"
    /\ \E done \in Outcomes("stageUpload") :
         IF done THEN command' = "image" /\ mode' = "staged" /\ UNCHANGED image
                 ELSE image' = Absent /\ mode' = "loop" /\ UNCHANGED command
    /\ UNCHANGED <<flash, prev, record, volatile, watchdog, bounds, history>>

\* The upload is on record, this image is not the one on trial, and the node
\* reboots in 500 ms.
RecordPending ==
    /\ mode = "staged"
    /\ ram' = Rec("pending", incoming, 0)
    /\ trialThisBoot' = FALSE
    /\ Save(ram')
    /\ rebootAt' = TRUE
    /\ mode' = "loop"
    /\ settled' = IF trialThisBoot THEN settled ELSE flash
    /\ trials' = 0
    /\ UNCHANGED <<flash, image, prev, command, proven, incoming, watchdog, bounds>>

------------------------------------------------------------------------------
BootStep == Stub \/ BeginSteady \/ BeginTrial \/ BeginRollback \/ FinishRollback \/ GiveUp
              \/ BringUp \/ BringUpFails \/ WatchdogTrips
LoopStep == Confirm \/ DropFallback \/ RebootIntoStaged \/ TrialTimeout
UploadStep == Demote \/ MakeRoom \/ ReceiveBody \/ RejectBody \/ Commit \/ RecordPending

\* What the node does by itself, and what its surroundings may do to it.
NodeStep == BootStep \/ LoopStep \/ UploadStep
Surroundings == Stuck \/ PowerLoss \/ Prove \/ OtherReboot \/ (\E i \in Images : Upload(i))

Next == NodeStep \/ Surroundings

Spec == Init /\ [][Next]_vars

\* loop() runs round for ever, a body arrives or times out, and the trial
\* deadline passes: the node never stops at a step of its own that it can
\* take.  Nothing makes an image prove itself, power fail or a client upload.
FairSpec == Spec /\ WF_vars(NodeStep)

------------------------------------------------------------------------------
(* Properties.                                                             *)

\* Every variable keeps its type: files hold an image, nothing, or a torn one.
TypeOK ==
    /\ flash \in Images \cup {Torn}
    /\ image \in File /\ prev \in File
    /\ command \in {"none", "image", "prev"}
    /\ record \in Record /\ ram \in Record
    /\ mode \in Modes
    /\ trialThisBoot \in BOOLEAN /\ rebootAt \in BOOLEAN
    /\ proven \in BOOLEAN /\ watchdog \in BOOLEAN
    /\ incoming \in Images \cup {Absent}
    /\ faults \in Environments
    /\ uploads \in Nat /\ losses \in Nat
    /\ settled \in Images \cup {Torn}
    /\ trials \in Nat

\* The stub verifies nothing, so whenever its command exists the file it names
\* is a whole, verified image: a reset at any moment then boots something
\* (Ota.cpp:237-241, docs/ota.md "every check lives in the firmware").
CommandNamesWholeImage ==
    /\ command = "image" => image \in Images
    /\ command = "prev" => prev \in Images

\* While an image is on trial the fallback is the image that ran when the
\* upload came in, or nothing: never the trial image, a torn file or an older
\* one (Ota.cpp:367-368 "is the rollback target").
FallbackIsPreviousImage ==
    record.state = "pending" => prev \in {settled, Absent}

\* A node that reports a rollback runs the image it ran before the update, not
\* one of the images that failed (docs/ota.md "the node puts the previous one
\* back").
RollbackRestores ==
    mode = "loop" /\ ram.state = "rolledback" => flash = settled

\* What the node reports about its image is true of the flash it runs from:
\* confirmed means the image on record runs, rolled back that the one before
\* it runs, and an image nobody vouches for runs only on trial
\* (Ota::begin, Ota::confirm, docs/ota.md "has to prove itself").
ReportIsTrue ==
    /\ RollbackRestores
    /\ mode = "loop" =>
           /\ ram.state = "none" => flash = settled
           /\ ram.state = "confirmed" => flash = ram.sha
           /\ ram.state = "failed" => flash \in {ram.sha, settled}
           /\ ram.state = "pending" /\ trialThisBoot => flash = ram.sha
           /\ ram.state = "pending" /\ ~trialThisBoot => flash = settled

\* A trial is exactly TrialBoots long: the image never gets a boot more, and
\* is not written off a boot earlier, wherever the resets fall
\* (Ota.cpp:127-134, 153-172).
TrialBudget ==
    /\ trials <= TrialBoots
    /\ record.state \in {"rolledback", "failed"} => trials = TrialBoots

\* An image is confirmed on file only by itself, in a boot counted as its
\* trial, once it proved the vault and the network: not by the image that
\* received it (the bench bug of 2026-09-16 in docs/ota.md).
OnlyTheTrialConfirms ==
    [][record.state = "pending" /\ record'.state = "confirmed"
         => proven /\ record.boots > 0 /\ flash = record.sha]_vars

\* The fallback of an image on trial is dropped only when the verdict is
\* already on file: a reset never finds a pending trial that lost its way back
\* (Ota.cpp:180-185).
FallbackOutlivesTrial ==
    [][record.state = "pending" /\ prev # Absent => prev' # Absent]_vars

\* A trial ends: confirmed, rolled back or given up (docs/ota.md, steps 3-4).
TrialEnds == (record.state = "pending") ~> (record.state # "pending")

\* The image the next boot executes, as TrialBoot sees it: the stub's command
\* counts once the state file knows of it.
RunsNext ==
    IF mode = "staged" \/ command = "none" THEN flash ELSE Commanded

\* Ota implements the trial boot.
Promise == INSTANCE TrialBoot WITH
    NoImage <- Absent,
    running <- RunsNext,
    previous <- settled,
    candidate <- record.sha,
    tries <- IF record.state = "pending" THEN record.boots ELSE 0,
    verdict <- record.state
ImplementsTrialBoot == Promise!Spec
==============================================================================
