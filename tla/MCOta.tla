-------------------------------- MODULE MCOta --------------------------------
(* Instances of Ota for TLC: three images, one of which can never prove      *)
(* itself, and the fault sets of each run.                                   *)
EXTENDS Ota

CONSTANTS a, b, bad

MCImages == {a, b, bad}
MCSound == {a, b}

\* One upload at a time, as tools/ota_upload.py --wait makes them.  Losing power
\* in a rollback and a rollback that cannot be staged are not combined, nor a
\* node that blinks with a watchdog a power loss disarmed.
Orderly == { {"loss", "lossRestoring", "stageUpload", "space"},
             {"loss", "stageUpload", "stageRestore", "space"},
             {"blink", "stageUpload", "stageRestore", "space"} }

StagingLoss == {{"loss", "lossStaged"}}
TornFallback == {{"loss", "lossReceiving"}}
TrialUpload == {{"uploadTrial"}}
Blinking == {{"blink", "loss"}}
StagedUpload == {{"uploadStaged", "lossReceiving"}}
==============================================================================
