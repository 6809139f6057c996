------------------------------ MODULE OtaProofs ------------------------------
(***************************************************************************)
(* Theorems about Ota, for every set of images, every number of trial      *)
(* boots and every bound.                                                  *)
(***************************************************************************)
EXTENDS Ota, TLAPS

\* The faults under which the update keeps its word: power may fail except
\* while a body is received and between an upload's commit and its record,
\* saves succeed, uploads wait for the last one's verdict, and a rollback does
\* not lose power and then fail to be staged.
OrderlyEnvironments ==
    \A f \in Environments :
        /\ f \cap {"lossReceiving", "lossStaged", "save", "uploadStaged", "uploadTrial"} = {}
        /\ ~({"lossRestoring", "stageRestore"} \subseteq f)

UploadModes == {"demoting", "demoted", "receiving", "received", "staged"}

\* What is in RAM, by where the program is.
RamInv ==
    /\ mode \in {"reset", "boot", "restoring"} => ~trialThisBoot /\ ~rebootAt
    /\ mode \notin {"reset", "boot", "restoring", "dead"} => ram = record
    /\ mode = "restoring" => ram = Rec("pending", record.sha, record.boots + 1)
    /\ trialThisBoot => record.state = "pending" /\ mode \in {"bringup", "blink", "loop"}
    /\ rebootAt => record.state = "pending" /\ mode = "loop" /\ ~trialThisBoot
    /\ mode \in {"bringup", "blink"} /\ record.state = "pending" => trialThisBoot
    /\ mode = "loop" /\ record.state = "pending" => trialThisBoot \/ rebootAt
    /\ mode \in UploadModes => record.state # "pending" /\ incoming \in Images
    /\ mode = "confirmed" => record.state = "confirmed"
    /\ mode = "restoring" => record.state = "pending"

\* The stub's command, and that the node never boots a torn image.
CommandInv ==
    /\ flash \in Images /\ settled \in Images
    /\ mode # "dead"
    /\ command = "image" => /\ image \in Images
                            /\ \/ mode = "staged"
                               \/ /\ record.state = "pending"
                                  /\ record.boots = 0
                                  /\ mode = "reset" \/ (mode = "loop" /\ rebootAt)
    /\ command = "prev" => /\ prev \in Images
                           /\ mode \in {"reset", "restoring"}
                           /\ record.state \in {"pending", "rolledback"}
    /\ mode = "staged" => command = "image"
    /\ mode = "restoring" => command = "prev"
    /\ mode = "loop" /\ rebootAt => command = "image"

\* A trial: its files, its count, and what runs next.
TrialInv ==
    record.state = "pending" =>
        /\ image = record.sha
        /\ record.sha \in Images
        /\ prev \in {settled, Absent}
        /\ trials = record.boots
        /\ record.boots <= TrialBoots
        /\ \/ RunsNext = record.sha
           \/ /\ record.boots = TrialBoots
              /\ prev = settled
              /\ RunsNext = settled
              /\ mode = "restoring" \/ "lossRestoring" \in faults
        /\ mode = "restoring" => record.boots = TrialBoots
        /\ trialThisBoot => RunsNext = record.sha /\ record.boots > 0
        /\ rebootAt => flash = settled

\* No trial: the verdict is true of what runs next.
VerdictInv ==
    /\ record.state \in {"none", "rolledback"} => RunsNext = settled
    /\ record.state = "confirmed" => RunsNext = record.sha
    /\ record.state = "failed" => RunsNext = record.sha
    /\ record.state \in {"rolledback", "failed"} => trials = TrialBoots
    /\ trials <= TrialBoots

\* No trial: the files from which the next upload makes its fallback.
FilesInv ==
    /\ record.state # "pending" /\ mode \notin UploadModes =>
          IF record.state = "rolledback"
            THEN prev \in {RunsNext, Absent} /\ image \in Images \cup {Absent}
            ELSE image = RunsNext \/ (image = Absent /\ prev \in {RunsNext, Absent})
    /\ mode = "demoting" => image = flash /\ record.state # "rolledback"
    /\ mode \in {"demoted", "receiving", "received", "staged"} => prev \in {flash, Absent}
    /\ mode = "demoted" => image = Absent
    /\ mode \in {"received", "staged"} => image = incoming

IInv == TypeOK /\ RamInv /\ CommandInv /\ TrialInv /\ VerdictInv /\ FilesInv

------------------------------------------------------------------------------
\* A record made of a state, a hash and a count is one, and holds them.
LEMMA RecType ==
    ASSUME NEW s \in States, NEW h \in Images \cup {Absent}, NEW n \in Nat
    PROVE  /\ Rec(s, h, n) \in Record
           /\ Rec(s, h, n).state = s
           /\ Rec(s, h, n).sha = h
           /\ Rec(s, h, n).boots = n
BY DEF Rec, Record

\* The fields of a record have their types.
LEMMA RecordFields ==
    ASSUME NEW r \in Record
    PROVE  r.state \in States /\ r.sha \in Images \cup {Absent} /\ r.boots \in Nat
BY DEF Record

\* A board without a state file is described by a record.
LEMMA NoRecordType ==
    /\ NoRecord \in Record
    /\ NoRecord.state = "none" /\ NoRecord.sha = Absent /\ NoRecord.boots = 0
BY RecType DEF NoRecord, States

\* The state file holds a record whether or not a save went through.
LEMMA SaveType ==
    ASSUME NEW r \in Record, record \in Record, Save(r)
    PROVE  record' \in Record
BY DEF Save

\* A reset keeps the types: it only clears what RAM held.
LEMMA ResetTypes ==
    ASSUME Reset
    PROVE  /\ mode' \in Modes
           /\ ram' \in Record
           /\ trialThisBoot' \in BOOLEAN /\ rebootAt' \in BOOLEAN
           /\ proven' \in BOOLEAN /\ incoming' \in Images \cup {Absent}
BY NoRecordType DEF Reset, Modes

\* The first state has the types.
LEMMA TypeInit == Init => TypeOK
<1> SUFFICES ASSUME Init PROVE TypeOK
  OBVIOUS
<1> USE DEF Init
<1>1. record \in Record /\ ram \in Record
  BY NoRecordType
<1>2. image \in File /\ prev \in File /\ incoming \in Images \cup {Absent}
  BY DEF File
<1>3. mode \in Modes
  BY DEF Modes
<1> QED
  BY <1>1, <1>2, <1>3 DEF TypeOK

\* No step disturbs the types.
LEMMA TypeStep == TypeOK /\ [Next]_vars => TypeOK'
<1> SUFFICES ASSUME TypeOK, [Next]_vars PROVE TypeOK'
  OBVIOUS
<1> USE OtaAssumption DEF OtaAssumption, TypeOK, File, States, Modes, files,
         volatile, history, bounds, vars
<1>1. CASE Stub
  BY <1>1 DEF Stub, Commanded
<1>2. CASE BeginSteady
  BY <1>2 DEF BeginSteady
<1>3. CASE BeginTrial
  <2>1. ram' \in Record
    BY <1>3, RecType, RecordFields DEF BeginTrial
  <2>2. record' \in Record
    BY <1>3, <2>1, SaveType DEF BeginTrial
  <2> QED
    BY <1>3, <2>1, <2>2 DEF BeginTrial
<1>4. CASE BeginRollback
  BY <1>4, RecType, RecordFields DEF BeginRollback
<1>5. CASE FinishRollback
  <2>1. Rec("rolledback", ram.sha, ram.boots) \in Record
    BY RecType, RecordFields
  <2>2. record' \in Record
    BY <1>5, <2>1, SaveType DEF FinishRollback
  <2> QED
    BY <1>5, <2>2, ResetTypes DEF FinishRollback
<1>6. CASE GiveUp
  <2>1. ram' \in Record
    BY <1>6, RecType, RecordFields DEF GiveUp
  <2>2. record' \in Record
    BY <1>6, <2>1, SaveType DEF GiveUp
  <2> QED
    BY <1>6, <2>1, <2>2 DEF GiveUp
<1>7. CASE BringUp
  BY <1>7 DEF BringUp
<1>8. CASE BringUpFails
  BY <1>8 DEF BringUpFails
<1>9. CASE WatchdogTrips
  BY <1>9, ResetTypes DEF WatchdogTrips
<1>10. CASE Confirm
  <2>1. ram' \in Record
    BY <1>10, RecType, RecordFields DEF Confirm
  <2>2. record' \in Record
    BY <1>10, <2>1, SaveType DEF Confirm
  <2> QED
    BY <1>10, <2>1, <2>2 DEF Confirm
<1>11. CASE DropFallback
  BY <1>11 DEF DropFallback
<1>12. CASE RebootIntoStaged
  BY <1>12, ResetTypes DEF RebootIntoStaged
<1>13. CASE TrialTimeout
  BY <1>13, ResetTypes DEF TrialTimeout
<1>14. CASE Demote
  BY <1>14 DEF Demote
<1>15. CASE MakeRoom
  BY <1>15 DEF MakeRoom, FitsOutcomes
<1>16. CASE ReceiveBody
  BY <1>16 DEF ReceiveBody
<1>17. CASE RejectBody
  BY <1>17 DEF RejectBody
<1>18. CASE Commit
  BY <1>18 DEF Commit, Outcomes
<1>19. CASE RecordPending
  <2>1. ram' \in Record
    BY <1>19, RecType DEF RecordPending
  <2>2. record' \in Record
    BY <1>19, <2>1, SaveType DEF RecordPending
  <2>3. settled' \in Images \cup {Torn}
    BY <1>19 DEF RecordPending
  <2> QED
    BY <1>19, <2>1, <2>2, <2>3 DEF RecordPending
<1>20. CASE PowerLoss
  <2>1. losses' = losses + 1 /\ watchdog' = FALSE
    BY <1>20 DEF PowerLoss
  <2>2. losses' \in Nat
    BY <2>1
  <2>3. watchdog' \in BOOLEAN
    BY <2>1
  <2>4. Reset /\ UNCHANGED <<flash, image, prev, command, record, faults, uploads, settled, trials>>
    BY <1>20 DEF PowerLoss
  <2> QED
    BY <2>2, <2>3, <2>4, ResetTypes
<1>21. CASE Prove
  BY <1>21 DEF Prove
<1>22. CASE OtherReboot
  BY <1>22, ResetTypes DEF OtherReboot
<1>23. ASSUME NEW i \in Images, Upload(i) PROVE TypeOK'
  BY <1>23 DEF Upload
<1>24. CASE Stuck \/ UNCHANGED vars
  BY <1>24 DEF Stuck
<1> QED
  BY <1>1, <1>2, <1>3, <1>4, <1>5, <1>6, <1>7, <1>8, <1>9, <1>10, <1>11, <1>12,
     <1>13, <1>14, <1>15, <1>16, <1>17, <1>18, <1>19, <1>20, <1>21, <1>22, <1>23, <1>24
  DEF Next, NodeStep, BootStep, LoopStep, UploadStep, Surroundings

\* TypeOK: no step, under any faults, leaves a file or a member without its
\* type; in particular the flash is an image or visibly torn (all of Ota.cpp).
THEOREM TypeCorrect == Spec => []TypeOK
BY TypeInit, TypeStep, PTL DEF Spec


------------------------------------------------------------------------------
\* What a record holds.
LEMMA RecFields ==
    ASSUME NEW s, NEW h, NEW n
    PROVE  Rec(s, h, n).state = s /\ Rec(s, h, n).sha = h /\ Rec(s, h, n).boots = n
BY DEF Rec

\* What the orderly environments leave out.
LEMMA Orderly ==
    ASSUME OrderlyEnvironments, TypeOK
    PROVE  /\ "lossReceiving" \notin faults
           /\ "lossStaged" \notin faults
           /\ "save" \notin faults
           /\ "uploadStaged" \notin faults
           /\ "uploadTrial" \notin faults
           /\ ~("lossRestoring" \in faults /\ "stageRestore" \in faults)
BY DEF OrderlyEnvironments, TypeOK

\* With saves that succeed the state file holds what was saved.
LEMMA Saved ==
    ASSUME "save" \notin faults, NEW r, Save(r)
    PROVE  record' = r
BY DEF Save, SaveOutcomes

\* IInv holds of a board fresh from USB.
LEMMA InitInv == Init => IInv
<1> SUFFICES ASSUME Init PROVE IInv
  OBVIOUS
<1>1. TypeOK
  BY TypeInit
<1>2. RamInv
  BY NoRecordType DEF Init, RamInv, UploadModes
<1>3. CommandInv
  BY NoRecordType DEF Init, CommandInv
<1>4. TrialInv
  BY NoRecordType DEF Init, TrialInv
<1>5. VerdictInv
  BY NoRecordType, OtaAssumption DEF OtaAssumption, Init, VerdictInv, RunsNext
<1>6. FilesInv
  BY NoRecordType DEF Init, FilesInv, UploadModes
<1> QED
  BY <1>1, <1>2, <1>3, <1>4, <1>5, <1>6 DEF IInv

\* No step of an orderly environment disturbs IInv.
LEMMA StepInv ==
    ASSUME OrderlyEnvironments, IInv, [Next]_vars
    PROVE  IInv'
<1> USE OtaAssumption DEF OtaAssumption, IInv, files, volatile, history, bounds, vars
<1>0. TypeOK'
  BY TypeStep
<1>o. /\ "lossReceiving" \notin faults
      /\ "lossStaged" \notin faults
      /\ "save" \notin faults
      /\ "uploadStaged" \notin faults
      /\ "uploadTrial" \notin faults
      /\ ~("lossRestoring" \in faults /\ "stageRestore" \in faults)
  BY Orderly
<1>1. CASE Stub
  <2>1. RamInv'
    BY <1>1
    DEF Stub, RamInv, UploadModes
  <2>2. CommandInv'
    BY <1>1
    DEF Stub, CommandInv, Commanded, TypeOK
  <2>3. TrialInv'
    BY <1>1
    DEF Stub, RamInv, CommandInv, TrialInv, RunsNext
  <2>4. VerdictInv'
    BY <1>1
    DEF Stub, CommandInv, VerdictInv, RunsNext, TypeOK
  <2>5. FilesInv'
    BY <1>1
    DEF Stub, CommandInv, FilesInv, UploadModes, RunsNext, TypeOK
  <2> QED
    BY <1>0, <2>1, <2>2, <2>3, <2>4, <2>5
<1>2. CASE BeginSteady
  <2>1. RamInv'
    BY <1>2
    DEF BeginSteady, RamInv, UploadModes
  <2>2. CommandInv'
    BY <1>2
    DEF BeginSteady, CommandInv
  <2>3. TrialInv'
    BY <1>2
    DEF BeginSteady, TrialInv
  <2>4. VerdictInv'
    BY <1>2
    DEF BeginSteady, VerdictInv, RunsNext, Commanded
  <2>5. FilesInv'
    BY <1>2
    DEF BeginSteady, FilesInv, UploadModes, RunsNext, Commanded
  <2> QED
    BY <1>0, <2>1, <2>2, <2>3, <2>4, <2>5
<1>3. CASE BeginTrial
  <2>1. RamInv'
    BY <1>3, <1>o, RecFields, Saved
    DEF BeginTrial, RamInv, UploadModes
  <2>2. CommandInv'
    BY <1>3
    DEF BeginTrial, CommandInv
  <2>3. TrialInv'
    BY <1>3, <1>o, RecFields, Saved
    DEF BeginTrial, BootsLeft, TrialInv, RunsNext, Commanded, TypeOK
  <2>4. VerdictInv'
    BY <1>3, <1>o, RecFields, Saved
    DEF BeginTrial, BootsLeft, TrialInv, VerdictInv
  <2>5. FilesInv'
    BY <1>3, <1>o, RecFields, Saved
    DEF BeginTrial, FilesInv
  <2> QED
    BY <1>0, <2>1, <2>2, <2>3, <2>4, <2>5
<1>4. CASE BeginRollback
  <2>1. RamInv'
    BY <1>4
    DEF BeginRollback, RamInv, UploadModes
  <2>2. CommandInv'
    BY <1>4
    DEF BeginRollback, CommandInv, TrialInv
  <2>3. TrialInv'
    BY <1>4
    DEF BeginRollback, BootsLeft, RamInv, TrialInv, RunsNext, Commanded, TypeOK
  <2>4. VerdictInv'
    BY <1>4
    DEF BeginRollback, VerdictInv
  <2>5. FilesInv'
    BY <1>4
    DEF BeginRollback, FilesInv
  <2> QED
    BY <1>0, <2>1, <2>2, <2>3, <2>4, <2>5
<1>5. CASE FinishRollback
  <2>1. RamInv'
    BY <1>5
    DEF FinishRollback, Reset, RamInv, UploadModes
  <2>2. CommandInv'
    BY <1>5, <1>o, RecFields, Saved
    DEF FinishRollback, Reset, CommandInv
  <2>3. TrialInv'
    BY <1>5, <1>o, RecFields, Saved
    DEF FinishRollback, TrialInv
  <2>4. VerdictInv'
    BY <1>5, <1>o, RecFields, Saved
    DEF FinishRollback, Reset, CommandInv, TrialInv, VerdictInv, RunsNext, Commanded
  <2>5. FilesInv'
    BY <1>5, <1>o, RecFields, Saved
    DEF FinishRollback, Reset, CommandInv, TrialInv, FilesInv, UploadModes, RunsNext, Commanded
  <2> QED
    BY <1>0, <2>1, <2>2, <2>3, <2>4, <2>5
<1>6. CASE GiveUp
  <2>1. RamInv'
    BY <1>6, <1>o, RecFields, Saved
    DEF GiveUp, RamInv, UploadModes
  <2>2. CommandInv'
    BY <1>6
    DEF GiveUp, CommandInv
  <2>3. TrialInv'
    BY <1>6, <1>o, RecFields, Saved
    DEF GiveUp, TrialInv
  <2>4. VerdictInv'
    BY <1>6, <1>o, RecFields, Saved
    DEF GiveUp, BootsLeft, TrialInv, VerdictInv, RunsNext, Commanded, TypeOK
  <2>5. FilesInv'
    BY <1>6, <1>o, RecFields, Saved
    DEF GiveUp, TrialInv, FilesInv, RunsNext, Commanded, TypeOK
  <2> QED
    BY <1>0, <2>1, <2>2, <2>3, <2>4, <2>5
<1>7. CASE BringUp
  <2>1. RamInv'
    BY <1>7
    DEF BringUp, RamInv, UploadModes
  <2>2. CommandInv'
    BY <1>7
    DEF BringUp, RamInv, CommandInv
  <2>3. TrialInv'
    BY <1>7
    DEF BringUp, TrialInv, RunsNext, Commanded
  <2>4. VerdictInv'
    BY <1>7
    DEF BringUp, VerdictInv, RunsNext, Commanded
  <2>5. FilesInv'
    BY <1>7
    DEF BringUp, FilesInv, UploadModes, RunsNext, Commanded
  <2> QED
    BY <1>0, <2>1, <2>2, <2>3, <2>4, <2>5
<1>8. CASE BringUpFails
  <2>1. RamInv'
    BY <1>8
    DEF BringUpFails, RamInv, UploadModes
  <2>2. CommandInv'
    BY <1>8
    DEF BringUpFails, CommandInv
  <2>3. TrialInv'
    BY <1>8
    DEF BringUpFails, TrialInv, RunsNext, Commanded
  <2>4. VerdictInv'
    BY <1>8
    DEF BringUpFails, VerdictInv, RunsNext, Commanded
  <2>5. FilesInv'
    BY <1>8
    DEF BringUpFails, FilesInv, UploadModes, RunsNext, Commanded
  <2> QED
    BY <1>0, <2>1, <2>2, <2>3, <2>4, <2>5
<1>9. CASE WatchdogTrips
  <2>1. RamInv'
    BY <1>9
    DEF WatchdogTrips, Reset, RamInv, UploadModes
  <2>2. CommandInv'
    BY <1>9
    DEF WatchdogTrips, Reset, CommandInv
  <2>3. TrialInv'
    BY <1>9
    DEF WatchdogTrips, Reset, TrialInv, RunsNext, Commanded
  <2>4. VerdictInv'
    BY <1>9
    DEF WatchdogTrips, Reset, VerdictInv, RunsNext, Commanded
  <2>5. FilesInv'
    BY <1>9
    DEF WatchdogTrips, Reset, FilesInv, UploadModes, RunsNext, Commanded
  <2> QED
    BY <1>0, <2>1, <2>2, <2>3, <2>4, <2>5
<1>10. CASE Confirm
  <2>1. RamInv'
    BY <1>10, <1>o, RecFields, Saved
    DEF Confirm, MayConfirm, RamInv, UploadModes
  <2>2. CommandInv'
    BY <1>10
    DEF Confirm, MayConfirm, RamInv, CommandInv
  <2>3. TrialInv'
    BY <1>10, <1>o, RecFields, Saved
    DEF Confirm, TrialInv
  <2>4. VerdictInv'
    BY <1>10, <1>o, RecFields, Saved
    DEF Confirm, MayConfirm, RamInv, TrialInv, VerdictInv, RunsNext, Commanded
  <2>5. FilesInv'
    BY <1>10, <1>o, RecFields, Saved
    DEF Confirm, MayConfirm, RamInv, TrialInv, FilesInv, RunsNext, Commanded
  <2> QED
    BY <1>0, <2>1, <2>2, <2>3, <2>4, <2>5
<1>11. CASE DropFallback
  <2>1. RamInv'
    BY <1>11
    DEF DropFallback, RamInv, UploadModes
  <2>2. CommandInv'
    BY <1>11
    DEF DropFallback, RamInv, CommandInv
  <2>3. TrialInv'
    BY <1>11
    DEF DropFallback, RamInv, TrialInv
  <2>4. VerdictInv'
    BY <1>11
    DEF DropFallback, CommandInv, VerdictInv, RunsNext, TypeOK
  <2>5. FilesInv'
    BY <1>11
    DEF DropFallback, CommandInv, FilesInv, UploadModes, RunsNext, TypeOK
  <2> QED
    BY <1>0, <2>1, <2>2, <2>3, <2>4, <2>5
<1>12. CASE RebootIntoStaged
  <2>1. RamInv'
    BY <1>12
    DEF RebootIntoStaged, Reset, RamInv, UploadModes
  <2>2. CommandInv'
    BY <1>12
    DEF RebootIntoStaged, Reset, CommandInv
  <2>3. TrialInv'
    BY <1>12
    DEF RebootIntoStaged, Reset, TrialInv, RunsNext, Commanded
  <2>4. VerdictInv'
    BY <1>12
    DEF RebootIntoStaged, Reset, VerdictInv, RunsNext, Commanded
  <2>5. FilesInv'
    BY <1>12
    DEF RebootIntoStaged, Reset, FilesInv, UploadModes, RunsNext, Commanded
  <2> QED
    BY <1>0, <2>1, <2>2, <2>3, <2>4, <2>5
<1>13. CASE TrialTimeout
  <2>1. RamInv'
    BY <1>13
    DEF TrialTimeout, Reset, RamInv, UploadModes
  <2>2. CommandInv'
    BY <1>13
    DEF TrialTimeout, Reset, CommandInv
  <2>3. TrialInv'
    BY <1>13
    DEF TrialTimeout, Reset, TrialInv, RunsNext, Commanded
  <2>4. VerdictInv'
    BY <1>13
    DEF TrialTimeout, Reset, VerdictInv, RunsNext, Commanded
  <2>5. FilesInv'
    BY <1>13
    DEF TrialTimeout, Reset, FilesInv, UploadModes, RunsNext, Commanded
  <2> QED
    BY <1>0, <2>1, <2>2, <2>3, <2>4, <2>5
<1>14. CASE Demote
  <2>1. RamInv'
    BY <1>14
    DEF Demote, RamInv, UploadModes
  <2>2. CommandInv'
    BY <1>14
    DEF Demote, CommandInv
  <2>3. TrialInv'
    BY <1>14
    DEF Demote, RamInv, TrialInv, UploadModes
  <2>4. VerdictInv'
    BY <1>14
    DEF Demote, CommandInv, VerdictInv, RunsNext, TypeOK
  <2>5. FilesInv'
    BY <1>14
    DEF Demote, FilesInv, UploadModes
  <2> QED
    BY <1>0, <2>1, <2>2, <2>3, <2>4, <2>5
<1>15. CASE MakeRoom
  <2>1. RamInv'
    BY <1>15
    DEF MakeRoom, RamInv, UploadModes
  <2>2. CommandInv'
    BY <1>15
    DEF MakeRoom, RamInv, CommandInv
  <2>3. TrialInv'
    BY <1>15
    DEF MakeRoom, RamInv, TrialInv, UploadModes
  <2>4. VerdictInv'
    BY <1>15
    DEF MakeRoom, CommandInv, VerdictInv, RunsNext, TypeOK
  <2>5. FilesInv'
    BY <1>15
    DEF MakeRoom, FilesInv, UploadModes
  <2> QED
    BY <1>0, <2>1, <2>2, <2>3, <2>4, <2>5
<1>16. CASE ReceiveBody
  <2>1. RamInv'
    BY <1>16
    DEF ReceiveBody, RamInv, UploadModes
  <2>2. CommandInv'
    BY <1>16
    DEF ReceiveBody, CommandInv
  <2>3. TrialInv'
    BY <1>16
    DEF ReceiveBody, RamInv, TrialInv, UploadModes
  <2>4. VerdictInv'
    BY <1>16
    DEF ReceiveBody, CommandInv, VerdictInv, RunsNext, TypeOK
  <2>5. FilesInv'
    BY <1>16
    DEF ReceiveBody, FilesInv, UploadModes
  <2> QED
    BY <1>0, <2>1, <2>2, <2>3, <2>4, <2>5
<1>17. CASE RejectBody
  <2>1. RamInv'
    BY <1>17
    DEF RejectBody, RamInv, UploadModes
  <2>2. CommandInv'
    BY <1>17
    DEF RejectBody, RamInv, CommandInv
  <2>3. TrialInv'
    BY <1>17
    DEF RejectBody, RamInv, TrialInv, UploadModes
  <2>4. VerdictInv'
    BY <1>17
    DEF RejectBody, CommandInv, VerdictInv, RunsNext, TypeOK
  <2>5. FilesInv'
    BY <1>17
    DEF RejectBody, CommandInv, FilesInv, RunsNext, TypeOK
  <2> QED
    BY <1>0, <2>1, <2>2, <2>3, <2>4, <2>5
<1>18. CASE Commit
  <2>1. RamInv'
    BY <1>18
    DEF Commit, RamInv, UploadModes
  <2>2. CommandInv'
    BY <1>18
    DEF Commit, RamInv, CommandInv, FilesInv, UploadModes
  <2>3. TrialInv'
    BY <1>18
    DEF Commit, RamInv, TrialInv, UploadModes
  <2>4. VerdictInv'
    BY <1>18
    DEF Commit, CommandInv, VerdictInv, RunsNext, TypeOK
  <2>5. FilesInv'
    BY <1>18
    DEF Commit, CommandInv, FilesInv, UploadModes, RunsNext, TypeOK
  <2> QED
    BY <1>0, <2>1, <2>2, <2>3, <2>4, <2>5
<1>19. CASE RecordPending
  <2>1. RamInv'
    BY <1>19, <1>o, RecFields, Saved
    DEF RecordPending, RamInv, UploadModes
  <2>2. CommandInv'
    BY <1>19, <1>o, RecFields, Saved
    DEF RecordPending, CommandInv
  <2>3. TrialInv'
    BY <1>19, <1>o, RecFields, Saved
    DEF RecordPending, RamInv, CommandInv, TrialInv, FilesInv, RunsNext, Commanded
  <2>4. VerdictInv'
    BY <1>19, <1>o, RecFields, Saved
    DEF RecordPending, VerdictInv
  <2>5. FilesInv'
    BY <1>19, <1>o, RecFields, Saved
    DEF RecordPending, FilesInv
  <2> QED
    BY <1>0, <2>1, <2>2, <2>3, <2>4, <2>5
<1>20. CASE PowerLoss
  <2>1. RamInv'
    BY <1>20
    DEF PowerLoss, Reset, RamInv, UploadModes
  <2>2. CommandInv'
    BY <1>20, <1>o
    DEF PowerLoss, LossOf, Reset, CommandInv
  <2>3. TrialInv'
    BY <1>20
    DEF PowerLoss, LossOf, Reset, CommandInv, TrialInv, RunsNext, Commanded
  <2>4. VerdictInv'
    BY <1>20, <1>o
    DEF PowerLoss, LossOf, Reset, VerdictInv, RunsNext, Commanded
  <2>5. FilesInv'
    <3>1. mode \notin {"receiving", "received", "staged"}
      BY <1>20, <1>o DEF PowerLoss, LossOf
    <3>2. mode' = "reset" /\ UNCHANGED <<flash, image, prev, command, record>>
      BY <1>20 DEF PowerLoss, Reset
    <3>3. RunsNext' = RunsNext
      BY <3>1, <3>2 DEF RunsNext, Commanded
    <3>4. CASE mode \in {"demoting", "demoted"}
      <4>1. RunsNext = flash
        BY <3>4 DEF RunsNext, CommandInv, RamInv, UploadModes, TypeOK
      <4> QED
        BY <3>2, <3>3, <3>4, <4>1 DEF FilesInv, UploadModes, CommandInv
    <3>5. CASE mode \notin {"demoting", "demoted"}
      BY <3>1, <3>2, <3>3, <3>5 DEF FilesInv, UploadModes
    <3> QED
      BY <3>4, <3>5
  <2> QED
    BY <1>0, <2>1, <2>2, <2>3, <2>4, <2>5
<1>21. CASE Prove
  <2>1. RamInv'
    BY <1>21
    DEF Prove, RamInv
  <2>2. CommandInv'
    BY <1>21
    DEF Prove, CommandInv
  <2>3. TrialInv'
    BY <1>21
    DEF Prove, TrialInv, RunsNext, Commanded
  <2>4. VerdictInv'
    BY <1>21
    DEF Prove, VerdictInv, RunsNext, Commanded
  <2>5. FilesInv'
    BY <1>21
    DEF Prove, FilesInv, RunsNext, Commanded
  <2> QED
    BY <1>0, <2>1, <2>2, <2>3, <2>4, <2>5
<1>22. CASE OtherReboot
  <2>1. RamInv'
    BY <1>22
    DEF OtherReboot, Reset, RamInv, UploadModes
  <2>2. CommandInv'
    BY <1>22
    DEF OtherReboot, Reset, CommandInv
  <2>3. TrialInv'
    BY <1>22
    DEF OtherReboot, Reset, TrialInv, RunsNext, Commanded
  <2>4. VerdictInv'
    BY <1>22
    DEF OtherReboot, Reset, VerdictInv, RunsNext, Commanded
  <2>5. FilesInv'
    BY <1>22
    DEF OtherReboot, Reset, FilesInv, UploadModes, RunsNext, Commanded
  <2> QED
    BY <1>0, <2>1, <2>2, <2>3, <2>4, <2>5
<1>23. ASSUME NEW i \in Images, Upload(i) PROVE IInv'
  <2>1. RamInv'
    BY <1>23, <1>o
    DEF Upload, UploadAllowed, RamInv
  <2>2. CommandInv'
    BY <1>23, <1>o
    DEF Upload, UploadAllowed, CommandInv
  <2>3. TrialInv'
    BY <1>23
    DEF Upload, RamInv, CommandInv, TrialInv, RunsNext, Commanded, TypeOK
  <2>4. VerdictInv'
    BY <1>23
    DEF Upload, CommandInv, VerdictInv, RunsNext, TypeOK
  <2>5. FilesInv'
    BY <1>23, <1>o
    DEF Upload, UploadAllowed, RamInv, CommandInv, FilesInv, UploadModes, RunsNext, TypeOK
  <2> QED
    BY <1>0, <2>1, <2>2, <2>3, <2>4, <2>5
<1>24. CASE Stuck \/ UNCHANGED vars
  <2>1. RamInv'
    BY <1>24
    DEF Stuck, RamInv
  <2>2. CommandInv'
    BY <1>24
    DEF Stuck, CommandInv
  <2>3. TrialInv'
    BY <1>24
    DEF Stuck, TrialInv, RunsNext, Commanded
  <2>4. VerdictInv'
    BY <1>24
    DEF Stuck, VerdictInv, RunsNext, Commanded
  <2>5. FilesInv'
    BY <1>24
    DEF Stuck, FilesInv, RunsNext, Commanded
  <2> QED
    BY <1>0, <2>1, <2>2, <2>3, <2>4, <2>5
<1> QED
  BY <1>0, <1>1, <1>2, <1>3, <1>4, <1>5, <1>6, <1>7, <1>8, <1>9, <1>10, <1>11, <1>12, <1>13, <1>14, <1>15, <1>16, <1>17, <1>18, <1>19, <1>20, <1>21, <1>22, <1>23, <1>24
  DEF Next, NodeStep, BootStep, LoopStep, UploadStep, Surroundings

\* Under the orderly environments IInv holds at every step.
LEMMA Inductive == ASSUME OrderlyEnvironments PROVE Spec => []IInv
BY InitInv, StepInv, PTL DEF Spec

\* A reset at any moment finds a whole, verified image behind the stub's
\* command (Ota.cpp:396-397, 155-157).
THEOREM CommandSafe ==
    ASSUME OrderlyEnvironments PROVE Spec => []CommandNamesWholeImage
<1>1. IInv => CommandNamesWholeImage
  BY DEF IInv, CommandInv, CommandNamesWholeImage
<1> QED
  BY <1>1, Inductive, PTL

\* The fallback of an image on trial is the one that ran before it
\* (Ota.cpp:367-376).
THEOREM FallbackSafe ==
    ASSUME OrderlyEnvironments PROVE Spec => []FallbackIsPreviousImage
<1>1. IInv => FallbackIsPreviousImage
  BY DEF IInv, TrialInv, FallbackIsPreviousImage
<1> QED
  BY <1>1, Inductive, PTL

\* What the node reports is true of the image it runs (Ota::begin, confirm,
\* handleStatus).
THEOREM ReportSafe ==
    ASSUME OrderlyEnvironments PROVE Spec => []ReportIsTrue
<1>1. IInv => ReportIsTrue
  <2> SUFFICES ASSUME IInv, mode = "loop" PROVE ReportIsTrue
    BY DEF ReportIsTrue, RollbackRestores
  <2> USE DEF IInv
  <2>1. ram = record
    BY DEF RamInv
  <2>2. CASE rebootAt
    BY <2>1, <2>2 DEF RamInv, TrialInv, ReportIsTrue, RollbackRestores
  <2>3. CASE ~rebootAt
    <3>1. RunsNext = flash
      BY <2>3 DEF RamInv, CommandInv, RunsNext, TypeOK
    <3> QED
      BY <2>1, <2>3, <3>1 DEF RamInv, TrialInv, VerdictInv, ReportIsTrue, RollbackRestores
  <2> QED
    BY <2>2, <2>3
<1> QED
  BY <1>1, Inductive, PTL

\* A trial is exactly TrialBoots boots long (Ota.cpp:126-134).
THEOREM BudgetSafe ==
    ASSUME OrderlyEnvironments PROVE Spec => []TrialBudget
<1>1. IInv => TrialBudget
  BY DEF IInv, VerdictInv, TrialBudget
<1> QED
  BY <1>1, Inductive, PTL

\* An image is confirmed on file only by a boot of its own that was counted and
\* that proved itself: the image that received it has no say (Ota.cpp:176-179).
THEOREM OnlyTrialConfirms ==
    ASSUME OrderlyEnvironments PROVE Spec => OnlyTheTrialConfirms
<1> DEFINE A == record.state = "pending" /\ record'.state = "confirmed"
                  => proven /\ record.boots > 0 /\ flash = record.sha
<1>1. ASSUME IInv, [Next]_vars PROVE [A]_vars
  <2> SUFFICES ASSUME Next, record.state = "pending", record'.state = "confirmed"
               PROVE  proven /\ record.boots > 0 /\ flash = record.sha
    BY <1>1
  <2> USE <1>1, RecFields DEF IInv, files
  <2>o. "save" \notin faults
    BY Orderly
  <2>1. Confirm
    <3>1. ~BeginTrial /\ ~FinishRollback /\ ~GiveUp /\ ~RecordPending
      BY <2>o, Saved DEF BeginTrial, FinishRollback, GiveUp, RecordPending
    <3>2. record' # record
      OBVIOUS
    <3> QED
      BY <3>1, <3>2 DEF Next, NodeStep, BootStep, LoopStep, UploadStep, Surroundings, Stub,
         BeginSteady, BeginRollback, BringUp, BringUpFails, WatchdogTrips, DropFallback,
         RebootIntoStaged, TrialTimeout, Demote, MakeRoom, ReceiveBody, RejectBody, Commit,
         Stuck, PowerLoss, Prove, OtherReboot, Upload, vars
  <2>2. trialThisBoot /\ proven /\ command = "none"
    BY <2>1 DEF Confirm, MayConfirm, RamInv, CommandInv, TypeOK
  <2> QED
    BY <2>2 DEF TrialInv, RunsNext
<1> QED
  BY <1>1, Inductive, PTL DEF Spec, OnlyTheTrialConfirms

\* The fallback of a pending trial is never dropped: confirm() writes the
\* verdict first, and no upload touches it (Ota.cpp:180-185).
THEOREM FallbackKept ==
    ASSUME OrderlyEnvironments PROVE Spec => FallbackOutlivesTrial
<1> DEFINE A == record.state = "pending" /\ prev # Absent => prev' # Absent
<1>1. ASSUME IInv, [Next]_vars PROVE [A]_vars
  <2> SUFFICES ASSUME Next, record.state = "pending" PROVE prev' = prev
    BY <1>1
  <2> USE <1>1 DEF IInv, files
  <2>o. "uploadStaged" \notin faults /\ "uploadTrial" \notin faults
    BY Orderly
  <2>1. ~DropFallback /\ ~Demote /\ ~MakeRoom
    BY DEF RamInv, UploadModes, DropFallback, Demote, MakeRoom
  <2>2. ~(\E i \in Images : Upload(i))
    BY <2>o DEF RamInv, Upload, UploadAllowed
  <2> QED
    BY <2>1, <2>2 DEF Next, NodeStep, BootStep, LoopStep, UploadStep, Surroundings, Stub,
       BeginSteady, BeginTrial, BeginRollback, FinishRollback, GiveUp, BringUp, BringUpFails,
       WatchdogTrips, Confirm, RebootIntoStaged, TrialTimeout, ReceiveBody, RejectBody,
       Commit, RecordPending, Stuck, PowerLoss, Prove, OtherReboot, vars
<1> QED
  BY <1>1, Inductive, PTL DEF Spec, FallbackOutlivesTrial

------------------------------------------------------------------------------
\* Steps of the node that leave the state file and what runs next alone: all
\* but those that count a trial boot, roll back, confirm or record an upload.
LEMMA Unseen ==
    ASSUME OrderlyEnvironments, IInv, [Next]_vars,
           ~BeginTrial, ~BeginRollback, ~FinishRollback, ~GiveUp, ~Confirm, ~RecordPending
    PROVE  UNCHANGED <<record, RunsNext, settled>>
<1> USE DEF IInv, files, volatile, history, bounds, vars
<1>o. "lossStaged" \notin faults /\ "uploadStaged" \notin faults
  BY Orderly
<1>1. CASE Stub
  BY <1>1, OtaAssumption DEF OtaAssumption, Stub, RunsNext, Commanded, CommandInv, TypeOK
<1>2. CASE mode = "loop"
  <2>1. UNCHANGED <<record, settled, flash, command>>
    BY <1>2 DEF Next, NodeStep, BootStep, LoopStep, UploadStep, Surroundings, Stub,
       BeginSteady, BringUp, BringUpFails, WatchdogTrips, DropFallback, RebootIntoStaged,
       TrialTimeout, Demote, MakeRoom, ReceiveBody, RejectBody, Commit, Stuck, PowerLoss,
       Prove, OtherReboot, Upload
  <2>2. CASE command = "none"
    BY <2>1, <2>2 DEF RunsNext
  <2>3. CASE command # "none"
    <3>1. command = "image" /\ rebootAt
      BY <1>2, <2>3 DEF CommandInv, TypeOK
    <3>2. mode' # "staged" /\ image' = image
      BY <1>2, <1>o, <3>1 DEF Next, NodeStep, BootStep, LoopStep, UploadStep, Surroundings,
         Stub, BeginSteady, BringUp, BringUpFails, WatchdogTrips, DropFallback,
         RebootIntoStaged, TrialTimeout, Demote, MakeRoom, ReceiveBody, RejectBody, Commit,
         Stuck, PowerLoss, Prove, OtherReboot, Upload, UploadAllowed, Reset
    <3> QED
      BY <1>2, <2>1, <3>1, <3>2 DEF RunsNext, Commanded
  <2> QED
    BY <2>2, <2>3
<1>3. CASE mode \in {"boot", "bringup", "blink", "confirmed", "demoting", "demoted",
                     "receiving", "received"} /\ ~Stub
  <2>1. command = "none"
    BY <1>3 DEF CommandInv, RamInv, UploadModes, TypeOK
  <2>2. UNCHANGED <<record, settled, flash>>
    BY <1>3 DEF Next, NodeStep, BootStep, LoopStep, UploadStep, Surroundings,
       BeginSteady, BringUp, BringUpFails, WatchdogTrips, DropFallback, RebootIntoStaged,
       TrialTimeout, Demote, MakeRoom, ReceiveBody, RejectBody, Commit, Stuck, PowerLoss,
       Prove, OtherReboot, Upload
  <2>3. command' = "none" \/ mode' = "staged"
    BY <1>3, <2>1 DEF Next, NodeStep, BootStep, LoopStep, UploadStep, Surroundings,
       BeginSteady, BringUp, BringUpFails, WatchdogTrips, DropFallback, RebootIntoStaged,
       TrialTimeout, Demote, MakeRoom, ReceiveBody, RejectBody, Commit, Stuck, PowerLoss,
       Prove, OtherReboot, Upload
  <2> QED
    BY <2>1, <2>2, <2>3 DEF RunsNext
<1>4. CASE mode \in {"reset", "restoring", "staged"} /\ ~Stub
  <2>1. UNCHANGED vars \/ PowerLoss
    BY <1>4 DEF Next, NodeStep, BootStep, LoopStep, UploadStep, Surroundings,
       BeginSteady, BringUp, BringUpFails, WatchdogTrips, DropFallback, RebootIntoStaged,
       TrialTimeout, Demote, MakeRoom, ReceiveBody, RejectBody, Commit, Stuck,
       Prove, OtherReboot, Upload
  <2>2. CASE UNCHANGED vars
    BY <2>2 DEF RunsNext, Commanded
  <2>3. CASE PowerLoss
    BY <2>3, <1>o, <1>4 DEF PowerLoss, LossOf, Reset, RunsNext, Commanded
  <2> QED
    BY <2>1, <2>2, <2>3
<1>5. mode \in Modes /\ mode # "dead"
  BY DEF TypeOK, CommandInv
<1> QED
  BY <1>1, <1>2, <1>3, <1>4, <1>5 DEF Modes

\* The step simulation: what each step of the node is to the trial boot.
LEMMA StepSimulated ==
    ASSUME OrderlyEnvironments, IInv, [Next]_vars
    PROVE  [Promise!Next]_(Promise!vars)
<1> USE OtaAssumption, RecFields DEF OtaAssumption, IInv, Promise!Next, Promise!vars, files
<1>o. "save" \notin faults
  BY Orderly
<1>0. /\ TypeOK
      /\ record.sha \in Images \cup {Absent} /\ record.boots \in Nat
  BY RecordFields DEF TypeOK
<1>1. CASE BeginTrial
  <2>1. record' = Rec("pending", record.sha, record.boots + 1)
    BY <1>1, <1>o, Saved DEF BeginTrial
  <2>2. command = "none" /\ RunsNext' = RunsNext
    BY <1>1 DEF BeginTrial, RunsNext, CommandInv, TypeOK
  <2> QED
    BY <1>0, <1>1, <2>1, <2>2 DEF BeginTrial, BootsLeft, Promise!Try
<1>2. CASE BeginRollback
  <2>1. record.boots = TrialBoots /\ prev = settled
    BY <1>0, <1>2 DEF BeginRollback, BootsLeft, TrialInv
  <2>2. RunsNext' = settled /\ UNCHANGED <<record, settled>>
    BY <1>2, <2>1 DEF BeginRollback, RunsNext, Commanded, history
  <2> QED
    BY <1>2, <2>1, <2>2 DEF BeginRollback, Promise!Revert
<1>3. CASE FinishRollback
  <2>1. /\ record.state = "pending" /\ record.boots = TrialBoots
        /\ RunsNext = settled /\ ram.sha = record.sha
    BY <1>3 DEF FinishRollback, RamInv, TrialInv, CommandInv, RunsNext, Commanded
  <2>2. record' = Rec("rolledback", ram.sha, ram.boots)
    BY <1>3, <1>o, Saved DEF FinishRollback
  <2>3. RunsNext' = RunsNext /\ settled' = settled
    BY <1>3 DEF FinishRollback, Reset, RunsNext, Commanded, history
  <2> QED
    BY <2>1, <2>2, <2>3 DEF Promise!Reject
<1>4. CASE GiveUp
  <2>1. record.boots = TrialBoots
    BY <1>0, <1>4 DEF GiveUp, BootsLeft, TrialInv
  <2>2. record' = Rec("failed", record.sha, record.boots + 1)
    BY <1>4, <1>o, Saved DEF GiveUp
  <2>3. RunsNext' = RunsNext /\ settled' = settled
    BY <1>4 DEF GiveUp, RunsNext, CommandInv, TypeOK, history
  <2> QED
    BY <1>4, <2>1, <2>2, <2>3 DEF GiveUp, Promise!GiveUp
<1>5. CASE Confirm
  <2>1. ram = record /\ command = "none"
    BY <1>5 DEF Confirm, MayConfirm, RamInv, CommandInv, TypeOK
  <2>2. record.state = "pending" /\ RunsNext = record.sha /\ record.boots > 0
    BY <1>5, <2>1 DEF Confirm, MayConfirm, TrialInv
  <2>3. record' = Rec("confirmed", record.sha, 0)
    BY <1>5, <1>o, <2>1, Saved DEF Confirm
  <2>4. RunsNext' = RunsNext /\ settled' = settled
    BY <1>5, <2>1 DEF Confirm, RunsNext, history
  <2> QED
    BY <2>2, <2>3, <2>4 DEF Promise!Accept
<1>6. CASE RecordPending
  <2>1. record.state # "pending" /\ incoming \in Images /\ ~trialThisBoot
    BY <1>6 DEF RecordPending, RamInv, UploadModes
  <2>2. record' = Rec("pending", incoming, 0)
    BY <1>6, <1>o, Saved DEF RecordPending
  <2>3. RunsNext = flash /\ settled' = flash
    BY <1>6, <2>1 DEF RecordPending, RunsNext
  <2>4. RunsNext' = incoming
    BY <1>6 DEF RecordPending, RunsNext, Commanded, CommandInv, FilesInv
  <2>5. Promise!Offer(incoming)
    BY <2>1, <2>2, <2>3, <2>4 DEF Promise!Offer
  <2> QED
    BY <2>1, <2>5
<1> QED
  BY <1>1, <1>2, <1>3, <1>4, <1>5, <1>6, Unseen

\* Ota implements the trial boot: an offered image is tried TrialBoots times
\* and then accepted, replaced by the one before it, or kept because there is
\* none (docs/ota.md, "The trial boot").
THEOREM Implements ==
    ASSUME OrderlyEnvironments PROVE Spec => ImplementsTrialBoot
<1>1. Init => Promise!Init
  BY NoRecordType DEF Init, Promise!Init, RunsNext
<1> QED
  BY <1>1, Inductive, StepSimulated, PTL DEF Spec, ImplementsTrialBoot, Promise!Spec
==============================================================================
