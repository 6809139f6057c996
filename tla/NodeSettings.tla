----------------------------- MODULE NodeSettings -----------------------------
(***************************************************************************)
(* The runtime settings of src/src/NodeSettings.cpp: the overrides kept in *)
(* /node_settings, written over HTTP (PUT /config, POST /config/reset) and *)
(* by radio (the Provisioning commit hook), and the trial a static address *)
(* is put to at the next boot.                                             *)
(*                                                                         *)
(* Ten settings are five here, one for each way a setting behaves: live    *)
(* (announce and NTP intervals), power (the one the radio must be told),   *)
(* host (rnsd address and port, read at boot), mode (static or dhcp) and   *)
(* addr (ip, subnet, gateway and dns as one value; NoAddr without an ip).  *)
(* A request that fails validation changes nothing and is left out, except *)
(* for "static needs an ip", which depends on the state.                   *)
(***************************************************************************)
EXTENDS Naturals

CONSTANTS Default,      \* the compile-time value of every setting
          NoAddr,       \* addr when no ip is set
          Requests,     \* what clients write: functions from settings to values
          Values, Addrs, \* every value a setting may have, the addresses among them
          IpTrialBoots, \* NODE_IP_TRIAL_BOOTS
          MaxWrites     \* bound on PUTs and resets

Settings == {"live", "power", "host", "mode", "addr"}
BootOnly == {"host", "mode", "addr"}

ASSUME SettingsAssumption ==
    /\ Default \in [Settings -> Values]
    /\ Default["mode"] = "dhcp" /\ Default["addr"] = NoAddr
    /\ "dhcp" \in Values
    /\ Addrs \subseteq Values
    /\ \A r \in Requests : DOMAIN r \subseteq Settings /\ \A f \in DOMAIN r : r[f] \in Values
    /\ IpTrialBoots \in Nat \ {0}
    /\ MaxWrites \in Nat

VARIABLES
    file,             \* /node_settings
    value,            \* the fields of NodeSettings
    overridden,       \* _overridden
    ipTrial, ipTrialBoots, ipTrialThisBoot,  \* _ipTrial, _ipTrialBoots, _ipTrialThisBoot
    rebootPending,    \* _rebootPending
    rebootAt,         \* s_rebootAt # 0
    running,          \* the boot-only settings setup() started the node with
    power,            \* the output power the SX1262 was last set to
    mode,             \* where the program is
    reply,            \* the answer to a write: "ok", "refused"; "none" for any other step
    reachable,        \* environment: the static addresses at which the API can be reached
    reached,          \* history: those at which a request did arrive
    failed,           \* history: a flash write or a radio command failed
    writes            \* PUTs and resets so far

trialVars == <<ipTrial, ipTrialBoots, ipTrialThisBoot>>
ramVars == <<value, overridden, trialVars, rebootPending, rebootAt, running, power>>
history == <<reachable, reached, failed, writes>>
vars == <<file, ramVars, mode, reply, history>>

\* Mutant: the boots are kept one short.
SavedOneShort(v, over, trial, boots) ==
    [value |-> [f \in Settings |-> IF f \in over THEN v[f] ELSE Default[f]],
     over |-> over,
     trial |-> trial,
     boots |-> IF trial = "pending" THEN boots - 1 ELSE 0]

\* save() writes the overridden settings only; load() reads the others as their
\* defaults, and the boots only mean something while the trial is pending.
Saved(v, over, trial, boots) ==
    [value |-> [f \in Settings |-> IF f \in over THEN v[f] ELSE Default[f]],
     over |-> over,
     trial |-> trial,
     boots |-> IF trial = "pending" THEN boots ELSE 0]
NoFile == Saved(Default, {}, "none", 0)

\* A write to flash or a command to the radio may fail.
WriteFile(f) ==
    \/ file' = f /\ failed' = failed
    \/ file' = file /\ failed' = TRUE

\* load(): a static mode without an address is read as dhcp.
Loaded == IF file.value["mode"] = "static" /\ file.value["addr"] = NoAddr
            THEN [file.value EXCEPT !["mode"] = "dhcp"] ELSE file.value

BootValues(v) == [f \in BootOnly |-> v[f]]

Off ==
    /\ mode' = "off"
    /\ value' = Default /\ overridden' = {}
    /\ ipTrial' = "none" /\ ipTrialBoots' = 0 /\ ipTrialThisBoot' = FALSE
    /\ rebootPending' = FALSE /\ rebootAt' = FALSE
    /\ running' = BootValues(Default) /\ power' = Default["power"]
    /\ reply' = "none"

Init ==
    /\ file = NoFile
    /\ mode = "off"
    /\ value = Default /\ overridden = {}
    /\ ipTrial = "none" /\ ipTrialBoots = 0 /\ ipTrialThisBoot = FALSE
    /\ rebootPending = FALSE /\ rebootAt = FALSE
    /\ running = BootValues(Default) /\ power = Default["power"]
    /\ reply = "none"
    /\ reachable \in SUBSET Addrs
    /\ reached = {} /\ failed = FALSE /\ writes = 0

------------------------------------------------------------------------------
(* setup()                                                                 *)

\* eth.begin(), reticulumSetup(): what the node runs with until the next boot.
StartWith(v) ==
    /\ value' = v
    /\ overridden' = file.over
    /\ running' = BootValues(v)
    /\ power' = v["power"]
    /\ rebootPending' = FALSE /\ rebootAt' = FALSE
    /\ mode' = "loop" /\ reply' = "none"
    /\ UNCHANGED <<reachable, reached, writes>>

\* begin(): a static address is on trial.
TrialDue == file.trial = "pending" /\ Loaded["mode"] = "static" /\ Loaded["addr"] # NoAddr

\* begin() with nothing on trial, or nothing static left to prove.
BeginSettled ==
    /\ mode = "off"
    /\ ~TrialDue
    /\ StartWith(Loaded)
    /\ ipTrial' = IF file.trial = "pending" THEN "none" ELSE file.trial
    /\ ipTrialBoots' = file.boots
    /\ ipTrialThisBoot' = FALSE
    /\ IF file.trial = "pending"
         THEN WriteFile(Saved(Loaded, file.over, "none", 0))
         ELSE UNCHANGED <<file, failed>>

\* Mutant: the trial boot is counted in RAM only.
BeginTrialUncounted ==
    /\ mode = "off"
    /\ TrialDue
    /\ file.boots + 1 <= IpTrialBoots
    /\ StartWith(Loaded)
    /\ ipTrial' = "pending"
    /\ ipTrialBoots' = file.boots + 1
    /\ ipTrialThisBoot' = TRUE
    /\ UNCHANGED <<file, failed>>

\* begin(), a trial boot: counted in the file before the address is used.
BeginTrial ==
    /\ mode = "off"
    /\ TrialDue
    /\ file.boots + 1 <= IpTrialBoots
    /\ StartWith(Loaded)
    /\ ipTrial' = "pending"
    /\ ipTrialBoots' = file.boots + 1
    /\ ipTrialThisBoot' = TRUE
    /\ WriteFile(Saved(Loaded, file.over, "pending", file.boots + 1))

\* revertIpToDhcp(): an explicit dhcp, the address stays as the fallback.
Reverted(v, over) == Saved([v EXCEPT !["mode"] = "dhcp"], over \cup {"mode"}, "reverted", 0)

\* begin(), one trial boot too many: back to dhcp, and reboot.
BeginRevert ==
    /\ mode = "off"
    /\ TrialDue
    /\ file.boots + 1 > IpTrialBoots
    /\ WriteFile(Reverted(Loaded, file.over))
    /\ UNCHANGED <<ramVars, mode, reply, reachable, reached, writes>>

------------------------------------------------------------------------------
(* loop(): the API, the trial and the reboots.                             *)

\* Mutant: whoever finds the trial pending ends it, as the OTA once did.
OnTrialAny == ipTrial = "pending"

\* confirmIp(), timeoutIpTrial(): only the boot that started on trial.
OnTrial == ipTrial = "pending" /\ ipTrialThisBoot

ReachableNow == running["mode"] = "static" => running["addr"] \in reachable

\* A well-formed request, whatever it asks for: HttpApi calls confirmIp() first.
Request ==
    /\ mode = "loop"
    /\ ReachableNow
    /\ mode' = "serving" /\ reply' = "none"
    /\ reached' = IF running["mode"] = "static" THEN reached \cup {running["addr"]} ELSE reached
    /\ IF OnTrial
         THEN /\ ipTrial' = "none" /\ ipTrialBoots' = 0 /\ ipTrialThisBoot' = FALSE
              /\ WriteFile(Saved(value, overridden, "none", 0))
         ELSE UNCHANGED <<trialVars, file, failed>>
    /\ UNCHANGED <<value, overridden, rebootPending, rebootAt, running, power, reachable, writes>>

\* A GET, or a write that was not authorised: the request changes nothing more.
ServeOther ==
    /\ mode = "serving"
    /\ mode' = "loop" /\ reply' = "none"
    /\ UNCHANGED <<file, ramVars, history>>

\* Writes come over HTTP, or by radio out of reticulum.loop().
Writing ==
    /\ mode \in {"serving", "loop"}
    /\ writes < MaxWrites
    /\ mode' = "loop"
    /\ writes' = writes + 1
    /\ UNCHANGED <<reachable, reached, running, rebootAt>>

Merged(r) == [f \in Settings |-> IF f \in DOMAIN r THEN r[f] ELSE value[f]]
Valid(r) == Merged(r)["mode"] = "static" => Merged(r)["addr"] # NoAddr
\* The power is only told to the radio when it differs from the one stored.
NewPower(r) == "power" \in DOMAIN r /\ r["power"] # value["power"]

\* applyJson() refusing a static mode without an ip.
PutInvalid(r) ==
    /\ Writing
    /\ ~Valid(r)
    /\ reply' = "refused"
    /\ UNCHANGED <<file, value, overridden, trialVars, rebootPending, power, failed>>

\* Mutant: the power is stored before the radio is asked.
PutPowerStoredFirst(r) ==
    /\ Writing
    /\ Valid(r)
    /\ NewPower(r)
    /\ value' = [value EXCEPT !["power"] = r["power"]]
    /\ reply' = "refused"
    /\ UNCHANGED <<file, overridden, trialVars, rebootPending, power, failed>>

\* The radio refuses the new power: setOutputPower() failed, or startReceive()
\* after it did.
PutPowerRefused(r) ==
    /\ Writing
    /\ Valid(r)
    /\ NewPower(r)
    /\ \/ power' = power /\ failed' = failed
       \/ power' = r["power"] /\ failed' = TRUE
    /\ reply' = "refused"
    /\ UNCHANGED <<file, value, overridden, trialVars, rebootPending>>

\* The settings written; an empty address is no override.
OverriddenWith(r) == {f \in overridden \cup DOMAIN r : f # "addr" \/ Merged(r)["addr"] # NoAddr}
\* Whether the addresses written differ from the ones held.
AddrChanged(r) == Merged(r)["mode"] # value["mode"] \/ Merged(r)["addr"] # value["addr"]

\* Mutant: a new address does not ask for a reboot.
NeedsRebootHost(r) == "host" \in DOMAIN r

NeedsReboot(r) == DOMAIN r \cap BootOnly # {}

\* applyJson() going through: RAM first, then the file.
Put(r) ==
    /\ Writing
    /\ Valid(r)
    /\ power' = IF NewPower(r) THEN r["power"] ELSE power
    /\ value' = Merged(r)
    /\ overridden' = OverriddenWith(r)
    /\ rebootPending' = (rebootPending \/ NeedsReboot(r))
    /\ IF AddrChanged(r)
         THEN /\ ipTrial' = IF Merged(r)["mode"] = "static" THEN "pending" ELSE "none"
              /\ ipTrialBoots' = 0 /\ ipTrialThisBoot' = FALSE
         ELSE UNCHANGED trialVars
    /\ \/ /\ file' = Saved(value', overridden', ipTrial', ipTrialBoots')
          /\ failed' = failed /\ reply' = "ok"
       \/ /\ file' = file /\ failed' = TRUE /\ reply' = "refused"

\* Mutant: the radio is not told.
ResetForgetsRadio ==
    /\ Writing
    /\ value' = Default /\ overridden' = {}
    /\ ipTrial' = "none" /\ ipTrialThisBoot' = FALSE
    /\ rebootPending' = (rebootPending \/ overridden \cap BootOnly # {})
    /\ file' = NoFile
    /\ reply' = "ok"
    /\ UNCHANGED <<power, failed, ipTrialBoots>>

\* reset(): neither the removal nor the radio is asked how it went.
ResetSettings ==
    /\ Writing
    /\ value' = Default /\ overridden' = {}
    /\ ipTrial' = "none" /\ ipTrialThisBoot' = FALSE
    /\ rebootPending' = (rebootPending \/ overridden \cap BootOnly # {})
    /\ \/ file' = NoFile /\ power' = Default["power"] /\ failed' = failed
       \/ file' \in {file, NoFile} /\ power' \in {power, Default["power"]} /\ failed' = TRUE
    /\ reply' = "ok"
    /\ UNCHANGED ipTrialBoots

\* nodeSettingsRequestReboot(), over HTTP or by radio.
RequestReboot ==
    /\ mode \in {"serving", "loop"}
    /\ mode' = "loop" /\ reply' = "none"
    /\ rebootAt' = TRUE
    /\ UNCHANGED <<file, value, overridden, trialVars, rebootPending, running, power, history>>

\* nodeSettingsLoop(): half a second later.
Reboot ==
    /\ mode = "loop"
    /\ rebootAt
    /\ Off
    /\ UNCHANGED <<file, history>>

\* Mutant: any node on a static address is timed out.
TimeoutAny ==
    /\ mode = "loop"
    /\ running["mode"] = "static"
    /\ WriteFile(Reverted(value, overridden))
    /\ Off
    /\ UNCHANGED <<reachable, reached, writes>>

\* nodeSettingsLoop() -> timeoutIpTrial(): NODE_IP_TRIAL_TIMEOUT_S after the boot.
Timeout ==
    /\ mode = "loop"
    /\ OnTrial
    /\ WriteFile(Reverted(value, overridden))
    /\ Off
    /\ UNCHANGED <<reachable, reached, writes>>

\* A power loss, the watchdog, or a reboot for any other reason.
Restart ==
    /\ mode # "off"
    /\ Off
    /\ UNCHANGED <<file, history>>

------------------------------------------------------------------------------
NodeStep == BeginSettled \/ BeginTrial \/ BeginRevert \/ ServeOther \/ Reboot \/ Timeout
ClientStep ==
    \/ Request
    \/ RequestReboot
    \/ ResetSettings
    \/ \E r \in Requests : PutInvalid(r) \/ PutPowerRefused(r) \/ Put(r)

Next == NodeStep \/ ClientStep \/ Restart

Spec == Init /\ [][Next]_vars

\* setup() and loop() run on and the trial's deadline passes; nobody is obliged
\* to send a request, and power may fail at any time.
FairSpec == Spec /\ WF_vars(NodeStep)

------------------------------------------------------------------------------
(* Properties.                                                             *)

File == [value : [Settings -> Values], over : SUBSET Settings,
         trial : {"none", "pending", "reverted"}, boots : Nat]

\* Every variable keeps its type.
TypeOK ==
    /\ file \in File
    /\ value \in [Settings -> Values] /\ overridden \in SUBSET Settings
    /\ ipTrial \in {"none", "pending", "reverted"}
    /\ ipTrialBoots \in Nat /\ ipTrialThisBoot \in BOOLEAN
    /\ rebootPending \in BOOLEAN /\ rebootAt \in BOOLEAN
    /\ running \in [BootOnly -> Values] /\ power \in Values
    /\ mode \in {"off", "loop", "serving"}
    /\ reply \in {"none", "ok", "refused"}
    /\ reachable \in SUBSET Addrs /\ reached \in SUBSET Values
    /\ failed \in BOOLEAN /\ writes \in Nat

\* A static address nobody reached the API at is on trial wherever it is kept,
\* so that no boot takes a typo for good, whatever was written, refused, saved
\* or lost on the way (NodeSettings.cpp:427-428, node_config.h:60-64).
UnprovenOnTrial ==
    /\ file.value["mode"] = "static" =>
          file.value["addr"] \in reached \/ file.trial = "pending"
    /\ mode # "off" /\ value["mode"] = "static" =>
          value["addr"] \in reached \/ ipTrial = "pending"

\* Until a flash write fails, a node that reports no reboot pending would boot
\* with the very settings it runs with: neither a write nor a reset drifts away
\* unreported (NodeSettings.h:52-53, NodeSettings.cpp:193-203, 418-444).
BootsAsReported ==
    mode # "off" /\ ~failed /\ ~rebootPending => BootValues(file.value) = running

\* The power on file is the one the radio was set to, until one of the two
\* fails (NodeSettings.cpp:396-397).
FileMatchesRadio == mode # "off" /\ ~failed => file.value["power"] = power

\* docs/config.md:40-41: "if the radio refuses the new power, nothing is written, so
\* the file can never disagree with the radio".
FileNeverDisagrees == mode # "off" => file.value["power"] = power

\* NodeSettings.h:79: "On failure, nothing is changed".
RefusedChangesNothing ==
    [][reply' = "refused" => UNCHANGED <<value, overridden, ipTrial, rebootPending>>]_vars

\* A write that is refused leaves the file as it was, and RAM, trial and radio too
\* unless a flash write or a radio command failed: every check comes before the
\* first change (NodeSettings.cpp:295-403). What a failed save leaves in RAM the
\* next save stores, see RefusedChangesNothing.
RefusalsComeFirst ==
    [][reply' = "refused" =>
          UNCHANGED file /\ (~failed' => UNCHANGED <<value, overridden, ipTrial, power>>)]_vars

\* An address that proved itself is taken away by a client only: no timeout and
\* no count of boots reverts it (NodeSettings.cpp:247-267).
ProvenAddressKept ==
    [][file.value["mode"] = "static" /\ file.trial = "none" /\ writes' = writes
         => BootValues(file'.value) = BootValues(file.value)]_vars

\* A node on a static address at which nobody can reach it does not stay there:
\* it goes back to DHCP unless a client is changing its settings by radio, or
\* flash failed it (docs/config.md, "A static address boots on trial").
NoStranding ==
    (mode = "loop" /\ running["mode"] = "static" /\ running["addr"] \notin reachable)
        ~> (mode = "loop" /\ (running["mode"] = "dhcp" \/ rebootPending)) \/ failed
==============================================================================
