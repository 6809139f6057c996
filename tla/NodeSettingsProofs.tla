-------------------------- MODULE NodeSettingsProofs --------------------------
(***************************************************************************)
(* Theorems about NodeSettings, for every set of addresses and requests,   *)
(* every number of trial boots and every bound, with any flash write and   *)
(* any radio command free to fail.                                         *)
(***************************************************************************)
EXTENDS NodeSettings, TLAPS

Trials == {"none", "pending", "reverted"}

\* What a configuration v with overrides over and a trial is worth wherever it
\* is kept: in RAM or on file.  seen are the addresses requests arrived at.
Plain(v, over) == \A f \in Settings \ over : v[f] = Default[f]
Addressed(v) == v["mode"] = "static" => v["addr"] # NoAddr
Vouched(v, trial, seen) == v["mode"] = "static" => v["addr"] \in seen \/ trial = "pending"
Provable(v, trial) == trial = "pending" => v["mode"] = "static"

Good(v, over, trial, seen) ==
    Plain(v, over) /\ Addressed(v) /\ Vouched(v, trial, seen) /\ Provable(v, trial)

FileInv ==
    /\ Good(file.value, file.over, file.trial, reached)
    /\ file.trial # "pending" => file.boots = 0

\* RAM while the program runs: as good as the file, on trial at the address it
\* runs with, and equal to the file and the radio until something failed.
RunInv ==
    mode # "off" =>
        /\ Good(value, overridden, ipTrial, reached)
        /\ OnTrial => /\ value["mode"] = running["mode"] /\ value["addr"] = running["addr"]
                      /\ file.trial = "pending"
        /\ ~rebootPending => BootValues(value) = running
        /\ ~failed => /\ file = Saved(value, overridden, ipTrial, ipTrialBoots)
                      /\ value["power"] = power

IInv == TypeOK /\ FileInv /\ RunInv /\ (mode = "off" => reply = "none")

------------------------------------------------------------------------------
(* What is written and what is read back.                                  *)

LEMMA SavedType ==
    ASSUME NEW v \in [Settings -> Values], NEW over \in SUBSET Settings,
           NEW trial \in Trials, NEW boots \in Nat
    PROVE  Saved(v, over, trial, boots) \in File
BY SettingsAssumption DEF SettingsAssumption, Saved, File, Trials

\* What was saved is read back as it was: nothing but defaults is left out.
LEMMA SavedValue ==
    ASSUME NEW v \in [Settings -> Values], NEW over \in SUBSET Settings, Plain(v, over),
           NEW trial, NEW boots
    PROVE  Saved(v, over, trial, boots).value = v
<1>1. [f \in Settings |-> IF f \in over THEN v[f] ELSE Default[f]] = v
  BY DEF Plain
<1> QED
  BY <1>1 DEF Saved

LEMMA SavedAgain ==
    ASSUME NEW f \in File, f.trial # "pending" => f.boots = 0, Plain(f.value, f.over)
    PROVE  Saved(f.value, f.over, f.trial, f.boots) = f
<1>1. [g \in Settings |-> IF g \in f.over THEN f.value[g] ELSE Default[g]] = f.value
  BY DEF File, Plain
<1>2. (IF f.trial = "pending" THEN f.boots ELSE 0) = f.boots
  OBVIOUS
<1> QED
  BY <1>1, <1>2 DEF Saved, File

\* A saved configuration is as good as the one it was saved from.
LEMMA SavedGood ==
    ASSUME NEW v \in [Settings -> Values], NEW over \in SUBSET Settings,
           NEW trial, NEW boots, NEW seen, Good(v, over, trial, seen)
    PROVE  /\ Good(Saved(v, over, trial, boots).value, Saved(v, over, trial, boots).over,
                   Saved(v, over, trial, boots).trial, seen)
           /\ trial # "pending" => Saved(v, over, trial, boots).boots = 0
<1>1. Saved(v, over, trial, boots).value = v
  BY SavedValue DEF Good
<1>2. Saved(v, over, trial, boots).over = over /\ Saved(v, over, trial, boots).trial = trial
  BY DEF Saved
<1>3. trial # "pending" => Saved(v, over, trial, boots).boots = 0
  BY DEF Saved
<1> QED
  BY <1>1, <1>2, <1>3

LEMMA NoFileGood ==
    /\ NoFile \in File
    /\ NoFile.value = Default
    /\ NoFile.over = {} /\ NoFile.trial = "none" /\ NoFile.boots = 0
    /\ \A seen : Good(Default, {}, "none", seen)
<1>1. Default \in [Settings -> Values] /\ Plain(Default, {})
  BY SettingsAssumption DEF SettingsAssumption, Plain
<1>2. \A seen : Good(Default, {}, "none", seen)
  BY <1>1, SettingsAssumption DEF SettingsAssumption, Good, Addressed, Vouched, Provable
<1>3. NoFile \in File
  BY <1>1, SavedType DEF NoFile, Trials
<1>4. NoFile.value = Default
  BY <1>1, SavedValue DEF NoFile
<1>5. NoFile.over = {} /\ NoFile.trial = "none" /\ NoFile.boots = 0
  BY DEF NoFile, Saved
<1> QED
  BY <1>2, <1>3, <1>4, <1>5

LEMMA LoadedIsFile == ASSUME TypeOK, FileInv PROVE Loaded = file.value
BY DEF Loaded, FileInv, Good, Addressed

\* Going back to dhcp keeps a configuration good, and ends its trial.
LEMMA RevertedGood ==
    ASSUME NEW v \in [Settings -> Values], NEW over \in SUBSET Settings, NEW trial, NEW seen,
           Good(v, over, trial, seen)
    PROVE  /\ Reverted(v, over) \in File
           /\ Good(Reverted(v, over).value, Reverted(v, over).over, Reverted(v, over).trial, seen)
           /\ Reverted(v, over).trial = "reverted"
           /\ Reverted(v, over).boots = 0
<1> DEFINE w == [v EXCEPT !["mode"] = "dhcp"]
<1>1. w \in [Settings -> Values] /\ over \cup {"mode"} \in SUBSET Settings /\ w["mode"] = "dhcp"
  BY SettingsAssumption DEF SettingsAssumption, Settings
<1>2. Good(w, over \cup {"mode"}, "reverted", seen)
  BY <1>1 DEF Good, Plain, Addressed, Vouched, Provable
<1>3. Reverted(v, over) = Saved(w, over \cup {"mode"}, "reverted", 0)
  BY DEF Reverted
<1>4. Saved(w, over \cup {"mode"}, "reverted", 0) \in File
  BY <1>1, SavedType DEF Trials
<1>5. /\ Saved(w, over \cup {"mode"}, "reverted", 0).trial = "reverted"
      /\ Saved(w, over \cup {"mode"}, "reverted", 0).boots = 0
  BY DEF Saved
<1> HIDE DEF w
<1> QED
  BY <1>1, <1>2, <1>3, <1>4, <1>5, SavedGood

LEMMA MoreSeen ==
    ASSUME NEW v, NEW over, NEW trial, NEW seen, NEW more, seen \subseteq more,
           Good(v, over, trial, seen)
    PROVE  Good(v, over, trial, more)
BY DEF Good, Vouched

\* A valid request makes a good configuration of a good one: what it does not
\* override is still a default, and a new static address is on trial.
LEMMA MergedGood ==
    ASSUME NEW r \in Requests, TypeOK, Good(value, overridden, ipTrial, reached), Valid(r),
           NEW trial,
           AddrChanged(r) => trial = IF Merged(r)["mode"] = "static" THEN "pending" ELSE "none",
           ~AddrChanged(r) => trial = ipTrial
    PROVE  /\ Merged(r) \in [Settings -> Values]
           /\ OverriddenWith(r) \in SUBSET Settings
           /\ Good(Merged(r), OverriddenWith(r), trial, reached)
<1>1. Merged(r) \in [Settings -> Values] /\ OverriddenWith(r) \in SUBSET Settings
  BY SettingsAssumption DEF SettingsAssumption, Merged, OverriddenWith, TypeOK
<1>2. Plain(Merged(r), OverriddenWith(r))
  <2> SUFFICES ASSUME NEW f \in Settings, f \notin OverriddenWith(r)
               PROVE  Merged(r)[f] = Default[f]
    BY DEF Plain
  <2>1. CASE f \in overridden \cup DOMAIN r
    BY <2>1, SettingsAssumption DEF SettingsAssumption, OverriddenWith
  <2>2. CASE f \notin overridden \cup DOMAIN r
    BY <2>2 DEF Merged, Good, Plain
  <2> QED
    BY <2>1, <2>2
<1>3. Addressed(Merged(r))
  BY DEF Valid, Addressed
<1>4. Vouched(Merged(r), trial, reached) /\ Provable(Merged(r), trial)
  BY DEF AddrChanged, Good, Vouched, Provable
<1> QED
  BY <1>1, <1>2, <1>3, <1>4 DEF Good

------------------------------------------------------------------------------
(* The invariant.                                                          *)

LEMMA InitInv == Init => IInv
<1> SUFFICES ASSUME Init PROVE IInv
  OBVIOUS
<1>1. TypeOK
  BY SettingsAssumption, NoFileGood
  DEF SettingsAssumption, Init, TypeOK, BootValues, Settings, BootOnly
<1>2. FileInv
  BY NoFileGood DEF Init, FileInv
<1> QED
  BY <1>1, <1>2 DEF Init, IInv, RunInv

\* A reboot leaves the file to the next boot and nothing else.
LEMMA OffInv ==
    ASSUME TypeOK, Off, file' \in File, failed' \in BOOLEAN, writes' = writes, UNCHANGED <<reachable, reached>>,
           Good(file'.value, file'.over, file'.trial, reached),
           file'.trial # "pending" => file'.boots = 0
    PROVE  IInv'
<1>1. TypeOK'
  BY SettingsAssumption DEF SettingsAssumption, Off, TypeOK, BootValues, Settings, BootOnly
<1>2. FileInv'
  BY DEF FileInv
<1> QED
  BY <1>1, <1>2 DEF Off, IInv, RunInv

\* A write to flash leaves a good file behind, the new one or the old one.
LEMMA WriteGood ==
    ASSUME TypeOK, FileInv, NEW f \in File, WriteFile(f),
           Good(f.value, f.over, f.trial, reached), f.trial # "pending" => f.boots = 0
    PROVE  /\ file' \in File
           /\ Good(file'.value, file'.over, file'.trial, reached)
           /\ file'.trial # "pending" => file'.boots = 0
           /\ failed' \in BOOLEAN
           /\ ~failed' => ~failed /\ file' = f
           /\ file' \in {f, file}
BY DEF WriteFile, FileInv, TypeOK

\* A node started from its file.
LEMMA BeginInv == ASSUME IInv, BeginSettled \/ BeginTrial PROVE IInv'
<1> USE DEF IInv
<1>1. /\ Loaded = file.value /\ file \in File
      /\ file.value \in [Settings -> Values] /\ file.over \in SUBSET Settings /\ file.boots \in Nat
  BY LoadedIsFile DEF TypeOK, File
<1>2. /\ value' = file.value /\ overridden' = file.over /\ mode' = "loop" /\ reply' = "none"
      /\ running' = BootValues(file.value) /\ power' = file.value["power"]
      /\ ~rebootPending' /\ ~rebootAt' /\ UNCHANGED <<reachable, reached, writes>>
      /\ rebootPending' \in BOOLEAN /\ rebootAt' \in BOOLEAN
  BY <1>1 DEF BeginSettled, BeginTrial, StartWith
<1>3. /\ running' \in [BootOnly -> Values] /\ power' \in Values
      /\ BootValues(value') = running'
      /\ value'["mode"] = running'["mode"] /\ value'["addr"] = running'["addr"]
  BY <1>1, <1>2 DEF BootValues, BootOnly, Settings
<1>4. CASE BeginSettled
  <2>1. file.trial # "pending"
    BY <1>1, <1>4 DEF BeginSettled, TrialDue, FileInv, Good, Addressed, Provable
  <2>2. /\ ipTrial' = file.trial /\ ipTrialBoots' = file.boots /\ ipTrialThisBoot' = FALSE
        /\ UNCHANGED <<file, failed>>
    BY <1>4, <2>1 DEF BeginSettled
  <2>3. file = Saved(file.value, file.over, file.trial, file.boots)
    BY <1>1, SavedAgain DEF FileInv, Good
  <2>4. TypeOK'
    BY <1>1, <1>2, <1>3, <2>2 DEF TypeOK, File
  <2>5. FileInv'
    BY <1>2, <2>2 DEF FileInv
  <2>6. RunInv'
    BY <1>2, <1>3, <2>1, <2>2, <2>3 DEF RunInv, FileInv, OnTrial
  <2> QED
    BY <1>2, <2>4, <2>5, <2>6
<1>5. CASE BeginTrial
  <2> DEFINE f == Saved(file.value, file.over, "pending", file.boots + 1)
  <2>1. file.trial = "pending"
    BY <1>5 DEF BeginTrial, TrialDue
  <2>2. /\ ipTrial' = "pending" /\ ipTrialBoots' = file.boots + 1 /\ ipTrialThisBoot' = TRUE
        /\ WriteFile(f)
    BY <1>1, <1>5 DEF BeginTrial
  <2>3. Good(file.value, file.over, "pending", reached)
    BY <2>1 DEF FileInv
  <2>4. f \in File /\ Good(f.value, f.over, f.trial, reached) /\ f.trial = "pending"
    <3>1. file.boots + 1 \in Nat
      BY <1>1
    <3>2. f \in File
      BY <1>1, <3>1, SavedType DEF Trials
    <3>3. Good(f.value, f.over, f.trial, reached)
      BY <1>1, <2>3, SavedGood
    <3> QED
      BY <3>2, <3>3 DEF Saved
  <2> HIDE DEF f
  <2>5. /\ file' \in File /\ Good(file'.value, file'.over, file'.trial, reached)
        /\ file'.trial = "pending"
        /\ failed' \in BOOLEAN /\ (~failed' => file' = f)
    BY <2>1, <2>2, <2>4, WriteGood
  <2>6. TypeOK'
    BY <1>1, <1>2, <1>3, <2>2, <2>5 DEF TypeOK
  <2>7. FileInv'
    BY <1>2, <2>5 DEF FileInv
  <2>8. RunInv'
    BY <1>2, <1>3, <2>2, <2>3, <2>5 DEF RunInv, f, OnTrial
  <2> QED
    BY <1>2, <2>6, <2>7, <2>8
<1> QED
  BY <1>4, <1>5

\* Going back to dhcp, at boot or at the end of the trial.
LEMMA RevertInv == ASSUME IInv, BeginRevert \/ Timeout PROVE IInv'
<1> USE DEF IInv
<1>1. CASE BeginRevert
  <2> DEFINE f == Reverted(file.value, file.over)
  <2>1. WriteFile(f) /\ UNCHANGED <<ramVars, mode, reply, reachable, reached, writes>> /\ mode = "off"
    BY <1>1, LoadedIsFile DEF BeginRevert
  <2>2. file.value \in [Settings -> Values] /\ file.over \in SUBSET Settings
    BY DEF TypeOK, File
  <2>3. /\ f \in File /\ Good(f.value, f.over, f.trial, reached)
        /\ f.trial = "reverted" /\ f.boots = 0
    BY <2>2, RevertedGood DEF FileInv
  <2> HIDE DEF f
  <2>4. /\ file' \in File /\ Good(file'.value, file'.over, file'.trial, reached)
        /\ file'.trial # "pending" => file'.boots = 0
        /\ failed' \in BOOLEAN
    BY <2>1, <2>3, WriteGood
  <2>5. TypeOK'
    BY <2>1, <2>4 DEF TypeOK, ramVars, trialVars
  <2> QED
    BY <2>1, <2>4, <2>5 DEF FileInv, RunInv
<1>2. CASE Timeout
  <2> DEFINE f == Reverted(value, overridden)
  <2>1. WriteFile(f) /\ Off /\ UNCHANGED <<reachable, reached, writes>> /\ mode # "off"
    BY <1>2 DEF Timeout
  <2>2. /\ f \in File /\ Good(f.value, f.over, f.trial, reached)
        /\ f.trial = "reverted" /\ f.boots = 0
    BY <2>1, RevertedGood DEF RunInv, TypeOK
  <2> HIDE DEF f
  <2>3. /\ file' \in File /\ Good(file'.value, file'.over, file'.trial, reached)
        /\ file'.trial # "pending" => file'.boots = 0
        /\ failed' \in BOOLEAN
    BY <2>1, <2>2, WriteGood
  <2> QED
    BY <2>1, <2>3, OffInv
<1> QED
  BY <1>1, <1>2

LEMMA RequestInv == ASSUME IInv, Request PROVE IInv'
<1> USE DEF IInv
<1> DEFINE f == Saved(value, overridden, "none", 0)
<1>1. /\ mode = "loop" /\ mode' = "serving" /\ reply' = "none"
      /\ UNCHANGED <<value, overridden, rebootPending, rebootAt, running, power, reachable, writes>>
  BY DEF Request
<1>2. reached \subseteq reached' /\ reached' \in SUBSET Values
  BY DEF Request, TypeOK, BootOnly
<1>3. CASE OnTrial
  <2>1. /\ ipTrial' = "none" /\ ipTrialBoots' = 0 /\ ipTrialThisBoot' = FALSE
        /\ WriteFile(f)
    BY <1>3 DEF Request
  <2>2. value["mode"] = "static" => value["addr"] \in reached'
    BY <1>1, <1>3 DEF Request, RunInv
  <2>3. Good(value, overridden, "none", reached') /\ Good(file.value, file.over, file.trial, reached')
    BY <1>1, <1>2, <2>2 DEF RunInv, FileInv, Good, Vouched, Provable
  <2>4. f \in File /\ Good(f.value, f.over, f.trial, reached') /\ f.boots = 0
    <3>1. f \in File
      BY SavedType DEF Trials, TypeOK
    <3>2. Good(f.value, f.over, f.trial, reached')
      BY <2>3, SavedGood DEF TypeOK
    <3>3. f.boots = 0
      BY DEF Saved
    <3> QED
      BY <3>1, <3>2, <3>3
  <2> HIDE DEF f
  <2>5. /\ file' \in File /\ Good(file'.value, file'.over, file'.trial, reached')
        /\ file'.trial # "pending" => file'.boots = 0
        /\ failed' \in BOOLEAN /\ (~failed' => ~failed /\ file' = f)
    BY <2>1, <2>3, <2>4 DEF WriteFile, FileInv, TypeOK
  <2>6. TypeOK'
    BY <1>1, <1>2, <2>1, <2>5 DEF TypeOK
  <2>7. FileInv'
    BY <2>5 DEF FileInv
  <2>8. RunInv'
    BY <1>1, <2>1, <2>3, <2>5 DEF RunInv, f, OnTrial, BootValues
  <2> QED
    BY <1>1, <2>6, <2>7, <2>8
<1>4. CASE ~OnTrial
  <2>1. UNCHANGED <<trialVars, file, failed>>
    BY <1>4 DEF Request
  <2>2. Good(value, overridden, ipTrial, reached') /\ Good(file.value, file.over, file.trial, reached')
    BY <1>1, <1>2, MoreSeen DEF RunInv, FileInv
  <2>3. TypeOK'
    BY <1>1, <1>2, <2>1 DEF TypeOK, trialVars
  <2>4. FileInv'
    BY <2>1, <2>2 DEF FileInv
  <2>5. RunInv'
    BY <1>1, <1>4, <2>1, <2>2 DEF RunInv, trialVars, OnTrial, BootValues
  <2> QED
    BY <1>1, <2>3, <2>4, <2>5
<1> QED
  BY <1>3, <1>4

LEMMA PutInv == ASSUME IInv, NEW r \in Requests, Put(r) PROVE IInv'
<1> USE DEF IInv
<1>1. /\ mode # "off" /\ mode' = "loop" /\ Valid(r) /\ reply' \in {"ok", "refused"}
      /\ value' = Merged(r) /\ overridden' = OverriddenWith(r)
      /\ rebootPending' = (rebootPending \/ NeedsReboot(r))
      /\ writes' = writes + 1 /\ UNCHANGED <<reachable, reached, running, rebootAt>>
  BY DEF Put, Writing
<1>2. power' = (IF NewPower(r) THEN r["power"] ELSE power) /\ power' \in Values
  BY SettingsAssumption DEF SettingsAssumption, Put, TypeOK, NewPower
<1>3. /\ AddrChanged(r) => /\ ipTrial' = IF Merged(r)["mode"] = "static" THEN "pending" ELSE "none"
                           /\ ipTrialBoots' = 0 /\ ipTrialThisBoot' = FALSE
      /\ ~AddrChanged(r) => UNCHANGED trialVars
  BY DEF Put
<1>4. /\ value' \in [Settings -> Values] /\ overridden' \in SUBSET Settings
      /\ Good(value', overridden', ipTrial', reached)
  <2>1. Good(value, overridden, ipTrial, reached)
    BY <1>1 DEF RunInv
  <2>2. /\ AddrChanged(r) => ipTrial' = IF Merged(r)["mode"] = "static" THEN "pending" ELSE "none"
        /\ ~AddrChanged(r) => ipTrial' = ipTrial
    BY <1>3 DEF trialVars
  <2>3. /\ Merged(r) \in [Settings -> Values] /\ OverriddenWith(r) \in SUBSET Settings
        /\ Good(Merged(r), OverriddenWith(r), ipTrial', reached)
    BY <1>1, <2>1, <2>2, MergedGood
  <2> QED
    BY <1>1, <2>3
<1>5. ipTrial' \in Trials /\ ipTrialBoots' \in Nat /\ ipTrialThisBoot' \in BOOLEAN
  <2>1. CASE AddrChanged(r)
    <3>1. /\ ipTrial' = IF Merged(r)["mode"] = "static" THEN "pending" ELSE "none"
          /\ ipTrialBoots' = 0 /\ ipTrialThisBoot' = FALSE
      BY <1>3, <2>1
    <3>2. ipTrial' \in Trials
      BY <3>1 DEF Trials
    <3> QED
      BY <3>1, <3>2
  <2>2. CASE ~AddrChanged(r)
    BY <1>3, <2>2 DEF TypeOK, trialVars, Trials
  <2> QED
    BY <2>1, <2>2
<1> DEFINE f == Saved(value', overridden', ipTrial', ipTrialBoots')
<1>6. /\ f \in File /\ Good(f.value, f.over, f.trial, reached) /\ f.trial = ipTrial'
      /\ f.trial # "pending" => f.boots = 0
  <2>1. f \in File
    BY <1>4, <1>5, SavedType
  <2>2. Good(f.value, f.over, f.trial, reached) /\ (ipTrial' # "pending" => f.boots = 0)
    BY <1>4, SavedGood
  <2> QED
    BY <2>1, <2>2 DEF Saved
<1>7. (file' = f /\ failed' = failed) \/ (file' = file /\ failed' = TRUE)
  BY DEF Put
<1> HIDE DEF f
<1>8. TypeOK'
  <2>1. rebootPending' \in BOOLEAN /\ failed' \in BOOLEAN
    BY <1>1, <1>7, Zenon DEF TypeOK
  <2> QED
    BY <1>1, <1>2, <1>4, <1>5, <1>6, <1>7, <2>1 DEF TypeOK, Trials
<1>9. FileInv'
  BY <1>1, <1>6, <1>7 DEF FileInv
<1>10. RunInv'
  <2>1. OnTrial' => ~AddrChanged(r) /\ OnTrial
    BY <1>3 DEF OnTrial, trialVars
  <2>2. OnTrial' => /\ value'["mode"] = running'["mode"] /\ value'["addr"] = running'["addr"]
                    /\ file'.trial = "pending"
    BY <1>1, <1>6, <1>7, <2>1 DEF RunInv, AddrChanged, OnTrial
  <2>3. ~rebootPending' => BootValues(value') = running'
    <3>1. SUFFICES ASSUME ~rebootPending' PROVE BootValues(value') = running
      BY <1>1
    <3>2. ~rebootPending /\ DOMAIN r \cap BootOnly = {}
      BY <1>1, <3>1 DEF NeedsReboot
    <3>3. \A g \in BootOnly : value'[g] = value[g]
      BY <1>1, <3>2 DEF Merged, BootOnly, Settings
    <3> QED
      BY <1>1, <3>2, <3>3 DEF RunInv, BootValues
  <2>4. ~failed' => file' = f /\ ~failed
    BY <1>7
  <2>5. ~failed' => value'["power"] = power'
    BY <1>1, <1>2, <2>4 DEF RunInv, Merged, NewPower, Settings
  <2> QED
    BY <1>1, <1>4, <2>2, <2>3, <2>4, <2>5 DEF RunInv, f
<1> QED
  BY <1>1, <1>8, <1>9, <1>10

\* A refusal leaves everything but, at worst, the radio.
LEMMA RefusedInv ==
    ASSUME IInv, NEW r \in Requests, PutInvalid(r) \/ PutPowerRefused(r)
    PROVE  IInv'
<1> USE DEF IInv
<1>1. /\ mode # "off" /\ mode' = "loop" /\ reply' = "refused" /\ writes' = writes + 1
      /\ UNCHANGED <<reachable, reached, running, rebootAt, file, value, overridden, trialVars, rebootPending>>
  BY DEF PutInvalid, PutPowerRefused, Writing
<1>2. /\ power' \in Values /\ failed' \in BOOLEAN
      /\ ~failed' => ~failed /\ power' = power
  <2>1. CASE PutInvalid(r)
    BY <2>1 DEF PutInvalid, TypeOK
  <2>2. CASE PutPowerRefused(r)
    <3>1. r["power"] \in Values
      BY <2>2, SettingsAssumption DEF SettingsAssumption, PutPowerRefused, NewPower
    <3>2. (power' = power /\ failed' = failed) \/ (power' = r["power"] /\ failed' = TRUE)
      BY <2>2 DEF PutPowerRefused
    <3>3. power' \in Values /\ (~failed' => ~failed /\ power' = power)
      BY <3>1, <3>2 DEF TypeOK
    <3>4. failed' \in BOOLEAN
      BY <3>2, Zenon DEF TypeOK
    <3> QED
      BY <3>3, <3>4
  <2> QED
    BY <2>1, <2>2
<1>3. TypeOK'
  BY <1>1, <1>2 DEF TypeOK, trialVars
<1> QED
  BY <1>1, <1>2, <1>3 DEF FileInv, RunInv, trialVars, OnTrial, BootValues

LEMMA ResetInv == ASSUME IInv, ResetSettings PROVE IInv'
<1> USE DEF IInv
<1>1. /\ mode # "off" /\ mode' = "loop" /\ reply' = "ok" /\ writes' = writes + 1
      /\ value' = Default /\ overridden' = {} /\ ipTrial' = "none" /\ ipTrialThisBoot' = FALSE
      /\ ipTrialBoots' = ipTrialBoots
      /\ rebootPending' = (rebootPending \/ overridden \cap BootOnly # {})
      /\ UNCHANGED <<reachable, reached, running, rebootAt>>
  BY DEF ResetSettings, Writing
<1>2. Default \in [Settings -> Values] /\ Default["power"] \in Values
  BY SettingsAssumption DEF SettingsAssumption, Settings
<1>3. \/ file' = NoFile /\ power' = Default["power"] /\ failed' = failed
      \/ file' \in {file, NoFile} /\ power' \in {power, Default["power"]} /\ failed' = TRUE
  BY DEF ResetSettings
<1>4. TypeOK'
  <2>1. rebootPending' \in BOOLEAN /\ failed' \in BOOLEAN
    BY <1>1, <1>3, Zenon DEF TypeOK
  <2>2. file' \in File /\ power' \in Values
    BY <1>2, <1>3, NoFileGood DEF TypeOK
  <2>3. ipTrialThisBoot' \in BOOLEAN /\ overridden' \in SUBSET Settings
    BY <1>1
  <2> QED
    BY <1>1, <1>2, <2>1, <2>2, <2>3 DEF TypeOK
<1>5. FileInv'
  BY <1>1, <1>3, NoFileGood DEF FileInv
<1>6. RunInv'
  <2>1. ~rebootPending' => BootValues(value') = running'
    <3>1. SUFFICES ASSUME ~rebootPending' PROVE BootValues(Default) = running
      BY <1>1
    <3>2. ~rebootPending /\ overridden \cap BootOnly = {}
      BY <1>1, <3>1
    <3>3. \A g \in BootOnly : value[g] = Default[g]
      BY <1>1, <3>2 DEF RunInv, Good, Plain, BootOnly, Settings
    <3> QED
      BY <1>1, <3>2, <3>3 DEF RunInv, BootValues
  <2>2. NoFile = Saved(value', overridden', ipTrial', ipTrialBoots')
    BY <1>1 DEF NoFile, Saved
  <2> QED
    BY <1>1, <1>3, <2>1, <2>2, NoFileGood DEF RunInv, OnTrial
<1> QED
  BY <1>1, <1>4, <1>5, <1>6

LEMMA StepInv == ASSUME IInv, [Next]_vars PROVE IInv'
<1> USE DEF IInv
<1>1. CASE BeginSettled \/ BeginTrial
  BY <1>1, BeginInv
<1>2. CASE BeginRevert \/ Timeout
  BY <1>2, RevertInv
<1>3. CASE Request
  BY <1>3, RequestInv
<1>4. CASE \E r \in Requests : PutInvalid(r) \/ PutPowerRefused(r) \/ Put(r)
  BY <1>4, PutInv, RefusedInv
<1>5. CASE ResetSettings
  BY <1>5, ResetInv
<1>6. CASE ServeOther
  <2>1. TypeOK'
    BY <1>6 DEF ServeOther, TypeOK, ramVars, trialVars, history
  <2> QED
    BY <1>6, <2>1 DEF ServeOther, ramVars, trialVars, history, FileInv, RunInv, OnTrial, BootValues
<1>7. CASE RequestReboot
  <2>1. TypeOK'
    BY <1>7 DEF RequestReboot, TypeOK, trialVars, history
  <2> QED
    BY <1>7, <2>1 DEF RequestReboot, trialVars, history, FileInv, RunInv, OnTrial, BootValues
<1>8. CASE Reboot \/ Restart
  <2>1. Off /\ UNCHANGED <<file, history>>
    BY <1>8 DEF Reboot, Restart
  <2> QED
    BY <2>1, OffInv DEF history, TypeOK, FileInv
<1>9. CASE UNCHANGED vars
  <2>1. TypeOK'
    BY <1>9 DEF vars, TypeOK, ramVars, trialVars, history
  <2> QED
    BY <1>9, <2>1 DEF vars, ramVars, trialVars, history, FileInv, RunInv, OnTrial, BootValues
<1> QED
  BY <1>1, <1>2, <1>3, <1>4, <1>5, <1>6, <1>7, <1>8, <1>9 DEF Next, NodeStep, ClientStep

LEMMA Inductive == Spec => []IInv
<1> QED
  BY InitInv, StepInv, PTL DEF Spec

------------------------------------------------------------------------------
(* The theorems.                                                           *)

\* Every variable keeps its type.
THEOREM TypeCorrect == Spec => []TypeOK
<1>1. IInv => TypeOK
  BY DEF IInv
<1> QED
  BY <1>1, Inductive, PTL

\* No boot takes an unproven static address for good, whatever was written,
\* refused, reverted or not saved before it.
THEOREM Unproven == Spec => []UnprovenOnTrial
<1>1. IInv => UnprovenOnTrial
  BY DEF IInv, FileInv, RunInv, Good, Vouched, UnprovenOnTrial
<1> QED
  BY <1>1, Inductive, PTL

\* Until flash fails, the node that reports no reboot pending runs what it
\* would boot.
THEOREM ReportedBoots == Spec => []BootsAsReported
<1>1. IInv => BootsAsReported
  <2> SUFFICES ASSUME IInv, mode # "off", ~failed, ~rebootPending
               PROVE  BootValues(file.value) = running
    BY DEF BootsAsReported
  <2>1. file.value = value
    BY SavedValue DEF IInv, RunInv, TypeOK, Good
  <2> QED
    BY <2>1 DEF IInv, RunInv
<1> QED
  BY <1>1, Inductive, PTL

\* Until flash or the radio fails, the power on file is the radio's.
THEOREM RadioMatched == Spec => []FileMatchesRadio
<1>1. IInv => FileMatchesRadio
  <2> SUFFICES ASSUME IInv, mode # "off", ~failed
               PROVE  file.value["power"] = power
    BY DEF FileMatchesRadio
  <2>1. file.value = value
    BY SavedValue DEF IInv, RunInv, TypeOK, Good
  <2> QED
    BY <2>1 DEF IInv, RunInv
<1> QED
  BY <1>1, Inductive, PTL

\* A refused write leaves the file as it was, and RAM, trial and radio too unless a
\* flash write or a radio command failed.
THEOREM RefusalsHarmless == Spec => RefusalsComeFirst
<1> DEFINE A == reply' = "refused" =>
                  UNCHANGED file /\ (~failed' => UNCHANGED <<value, overridden, ipTrial, power>>)
<1>1. ASSUME IInv, [Next]_vars PROVE [A]_vars
  <2>1. CASE UNCHANGED vars
    BY <2>1
  <2>2. CASE Next
    <3> SUFFICES ASSUME reply' = "refused"
                 PROVE  UNCHANGED file /\ (~failed' => UNCHANGED <<value, overridden, ipTrial, power>>)
      OBVIOUS
    <3>1. ~Off /\ (mode = "off" => reply = "none")
      BY <1>1 DEF Off, IInv
    <3>2. PICK r \in Requests : PutInvalid(r) \/ PutPowerRefused(r) \/ Put(r)
      BY <2>2, <3>1 DEF Next, NodeStep, ClientStep, BeginSettled, BeginTrial, BeginRevert, StartWith,
         ServeOther, Reboot, Timeout, Request, RequestReboot, ResetSettings, Restart
    <3> QED
      BY <3>2 DEF PutInvalid, PutPowerRefused, Put, trialVars
  <2> QED
    BY <1>1, <2>1, <2>2
<1> QED
  BY <1>1, Inductive, PTL DEF Spec, RefusalsComeFirst

\* No timeout and no count of boots takes a proven address away.
THEOREM ProvenKept == Spec => ProvenAddressKept
<1> DEFINE A == file.value["mode"] = "static" /\ file.trial = "none" /\ writes' = writes
                  => BootValues(file'.value) = BootValues(file.value)
<1>1. ASSUME IInv, [Next]_vars PROVE [A]_vars
  <2> SUFFICES ASSUME Next, file.trial = "none", writes' = writes
               PROVE  file' = file
    BY <1>1
  <2>1. CASE BeginSettled \/ BeginTrial \/ BeginRevert
    BY <2>1 DEF BeginSettled, BeginTrial, BeginRevert, TrialDue
  <2>2. CASE Request \/ Timeout
    <3>1. ~OnTrial
      BY <1>1, <2>2 DEF IInv, RunInv, Request, Timeout
    <3> QED
      BY <2>2, <3>1 DEF Request, Timeout
  <2>3. CASE ServeOther \/ Reboot \/ Restart \/ RequestReboot
    BY <2>3 DEF ServeOther, Reboot, Restart, RequestReboot
  <2>4. ~Writing
    BY <1>1 DEF Writing, IInv, TypeOK
  <2> QED
    BY <2>1, <2>2, <2>3, <2>4
    DEF Next, NodeStep, ClientStep, ResetSettings, PutInvalid, PutPowerRefused, Put
<1> QED
  BY <1>1, Inductive, PTL DEF Spec, ProvenAddressKept
==============================================================================
