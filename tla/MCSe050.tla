------------------------------- MODULE MCSe050 -------------------------------
(* Instances of Se050 for TLC: boards with and without each derived key set,  *)
(* and the fault sets of each run.                                            *)
EXTENDS Se050

MCBuilds == {{"Otp", "Bench"}, {"Bench"}}

\* Whatever may happen between operations; and a chip that resets at any moment
\* while its keys are rotated.
AllFaults == { {"commandLost", "answerLost", "reset", "silent", "inject"},
               {"answerLost", "damaged", "resetMidway", "rotation"} }
LostAnswers == {{"answerLost"}}
RotationRetried == {{"answerLost", "rotation"}}
==============================================================================
