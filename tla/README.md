# A TLA+ model of the RP2350 Reticulum node

The firmware is one cooperative loop: `setup()` brings the node up, `loop()` calls every part in turn
(`src/src/main.cpp`), nothing preempts it. What makes it hard is not threads but **resets**: power, the
watchdog, a timeout or a client may end the program between any two writes to flash, and the next boot
has to make sense of what is left. The models are therefore written around what survives a reset (flash,
files, fuses, the keys of a chip) and what does not (RAM), and every operation that writes more than one
of them is cut into the steps a reset can separate.

## Inventory

| Part | State it keeps | Operations | Hard behaviour | What makes it correct |
|---|---|---|---|---|
| Ethernet OTA (`Ota`) | `firmware.bin`, `firmware.prev.bin`, the stub's `otacommand.bin`, `/ota_state`; in RAM `_state`, `_boots`, `_trialThisBoot`, `_rebootAt` | `begin`, `rollback`, `confirm`, `loop`, `PUT /ota` | resets between any two steps, failing writes, uploads at odd moments | the stub only ever finds whole images; the fallback is the image that ran; a trial is bounded and ends; the report is true |
| Settings (`NodeSettings`) | `/node_settings`; in RAM the ten settings, which are overridden, the static-address trial | `begin`, `applyJson`, `reset`, `confirmIp`, `timeoutIpTrial`, reboot | refusals halfway, writes by HTTP and radio, resets, a trial of the address the API itself uses | an unproven static address is on trial; until something fails, a refusal changes nothing, and file and radio agree; `reboot_pending` is honest |
| `setup()`, `loop()` (`main.cpp`) | `announcePending`, `announcedOnce`, `clockValid`, `se050` | bring-up, announces, clock, console | what fails at bring-up, what must be retried | the node gets announced; a bring-up that fails ends |
| HTTP API (`HttpApi`) | the nonce, its age, the last failure, the routes | `serve`, `handleNonce`, `authorised` | two clients, `millis()` wrapping, the cooldown | one write per nonce, failed checks a cooldown apart, a client that waits gets through |
| Settings by radio (`NodeProvisioning`) | the Provisioner's working map, a mirror of the settings | commit, reset, reboot, sync | the engine promotes drafts after the hook | the mirror shows the settings |
| LoRa (`LoRaInterface`) | the half of a split packet, its sequence; the radio | `loop`, `send_outgoing`, `setTxPowerDbm` | lost halves, several senders, a frame overwritten in the radio, a radio left in standby | no packet made of two |
| TCP (`TCPClientInterface`) | the socket, the frame being read | reconnect, `feed`, `send_outgoing` | a stream cut anywhere by reads, a drop inside a frame, a drop under the handler that reads it | no frame made of two, none swallowed |
| SE050 driver | T=1 sequence, SCP03 keys and counter, session, which keys are ready; in the chip the objects and key sets | `open`, `openSecureChannel`, `identitySession`, `recover`, `keyEnsure`, agreements, signatures, `rotatePlatformKeys` | lost answers, host and chip out of step, retries, a rotation whose answer is lost | a key is never written over; a failure is never taken for an answer; some key set always opens the chip |
| SE050 identities (`VaultKeys`) | none | `exchange`, `sign` | failure as exception | no unsigned announce |
| OTP vault and provisioning | the fuses: seed, complement, locks, boot keys, voted flags; latched at reset the CRITICAL register, in RAM the soft lock and which keys were derived | `readSeed`, `writeSeed`, `lock`, `softLock`, the console's steps | nothing can be undone; a write refused or cut by power after any row; steps in any order an operator types; images changed in between | no order of steps bricks the board; nothing is closed before a secured boot; the steps can be finished |
| Image metadata (`Picobin`) | none | walk over the block loop | any flash content | ends, and names our key only for a signed image |
| Ethernet (`EthernetLink`) | where the address came from | `begin`, `loop` | no lease, a lease lost | the API can be reached again |
| NTP (`Ntp`, `clockLoop`) | one request in flight | `request`, `poll` | late and lost answers | the clock is retried |
| LittleFS adapter, TRNG, configuration, host tools, bench scripts | - | - | - | left out, see `PROJECT.json` |

How they interact: `Ota`, `NodeSettings` and the store share LittleFS; the HTTP API calls `Ota` and
`NodeSettings` through routes and tells `NodeSettings` of every request; the radio reaches `NodeSettings`
through the Provisioner's hooks; `NodeSettings` calls the LoRa radio through `onTxPower`; confirming an
image needs the SE050 (probe, signature) and a link over which the announce went out; a reboot asked for
by any part is a reset for all of them.

## Modules

| Module | What it is |
|---|---|
| `TrialBoot` | what the OTA promises, abstractly: an offered image is tried a bounded number of times, then accepted, replaced by the one before it, or kept for want of another |
| `Ota` | `Ota.cpp` with its boot, its loop, its upload and its resets; implements `TrialBoot` |
| `MCOta` | instances of `Ota` for TLC |
| `OtaProofs` | theorems about `Ota` |
| `NodeSettings` | `NodeSettings.cpp` with its file, its two ways in, the static-address trial and its resets |
| `MCNodeSettings` | instances of `NodeSettings` for TLC |
| `NodeSettingsProofs` | theorems about `NodeSettings` |
| `Vault` | what the node relies on when its keys are in the chip: each is generated once, an identity is taken with both of them or not at all, a use is answered with its own key and input or throws |
| `Se050` | `SE050.cpp` over a link that loses frames, with the chip, the node's identity and the rotation; implements `Vault` |
| `MCSe050` | instances of `Se050` for TLC |
| `Se050Proofs` | theorems about `Se050` |
| `Se050FaultProofs` | one fault never fails a use of the vault |
| `Otp` | the fuses as `OtpVault.cpp` and `OtpProvision.cpp` burn them, with the bootrom's choice and the images that come and go |
| `MCOtp` | instances of `Otp` for TLC |
| `OtpProofs` | theorems about `Otp` |
| `HttpApi` | the nonce, its lifetime and the cooldown of `HttpApi.cpp`, with several clients |
| `MCHttpApi` | instances of `HttpApi` for TLC |
| `HttpApiProofs` | theorems about `HttpApi` |
| `Channel` | what a link promises: packets arrive whole, in order, no more often than they were sent |
| `Links` | `TCPClientInterface.cpp` and `LoRaInterface.cpp` composed: a frame read from the server is passed on by radio; its TCP half implements `Channel` |
| `MCLinks` | instances of `Links` for TLC |
| `LinksProofs` | theorems about both halves of `Links` |
| `Node` | `setup()` and a pass of `loop()` of `main.cpp` call by call, composing both trials, `EthernetLink`, the announces and the requests |
| `MCNode` | instances of `Node` for TLC |
| `NodeProofs` | theorems about `Node` |

### Ota

`mode` is where the program is: `reset` (the OTA stub has not run yet), `boot` (about to run
`Ota::begin()`), `restoring` (in `rollback()` after the stub's command was committed), `bringup` (the rest
of `setup()`), `blink`, `dead` (flash ruined), `loop`, `confirmed` (in `confirm()` after the save), and the
steps of `handleUpload()`: `demoting`, `demoted`, `receiving`, `received`, `staged`. One action stands for
each stretch of code between two operations a reset can separate. A file holds an image, is `Torn` (created
or partly written) or `Absent`; hash, signature and size checks are the choice between `ReceiveBody` and
`RejectBody`. `Stub` is arduino-pico's OTA stub, modelled from how the code uses it. `Prove` stands for the
condition of `loop()` before `ota.confirm()`: the SE050 answered its probe and an announce went out.

Faults are a parameter. `Environments` is a set of sets of fault kinds, and a behaviour is exposed to one
of them: that lets one model show what holds in orderly surroundings and, in a run of its own each, what a
single extra fault breaks.

### NodeSettings

`file` is `/node_settings` as the next boot reads it, `value`/`overridden`/`ipTrial...` the members,
`running` the boot-only settings `setup()` started with, `power` what the SX1262 was set to. The ten
settings are five, one for each way a setting behaves. `reachable` is the set of static addresses at which
requests can arrive, fixed by the environment; `reached` remembers those at which one did. Every write of
the file or command to the radio may fail; `failed` remembers it, since `FileMatchesRadio` and
`RefusalsComeFirst` hold until then only.

### Se050

An action is one exchange of a command and its answer; `pc` names the one that comes next (`reset`,
`select`, `info`, `init`, `auth` bring the channel up, `session`, `setup`, `create`, `verify` the UserID
session, the rest is the operation itself) and `job` the operation it belongs to: the probe, `keyEnsure`, a
use of a key, the rotation and its reopening. `chip` is what the SE050 knows, the other variables what the
driver does: each side has its own T=1 sequence, its own idea of the channel and of the session, and the
properties say how the two relate. `Exchange` is the whole unreliable link: what an exchange may end with,
given the answers the chip would give. `Secured` adds what secure messaging does with them, `InApplet` and
`InSession` what the chip refuses. How an operation ends is `Fails`, `CloseAndRetry` or `Finish`, and
`agenda` holds what the self-test and `se050Identity()` still have to do. Cryptography is abstracted to
whether counters and MAC chains `agree`, and a key object to whether it is absent, as first generated or
generated again.

`disturbed`, `first` and `service` are history: that someone but the driver changed an open channel, whose
keys the node ran with in its first boot, and how many faults there had been when it was last served.

### Otp

A row of fuses is burned or not and never clears, so the state is how many rows of each word are burned
(`seedRows`, `chaffRows`, `validRows`, `secureRows`, ...), what each BOOTKEY slot reads as, and the lock
words. `Valid`, `Invalid`, `Secured` and `DebugOff` are what the bootrom's vote makes of them. A console
command is one action, since the console runs one at a time; what can cut it is in `Burns`: the write is
complete, or refused, or power goes, after any number of its rows. A slot written in part is `damaged` (it
decodes to another key) or `garbled` (it does not decode, and the console takes it for blank). `critical` is
decoded at reset, while the flags are read live, as `OtpProvision.cpp:314` does. `Boots` is the bootrom,
modelled from what the code and `docs/secure_boot.md` say of it; `LoadImage` is BOOTSEL, and `Upload`,
`Confirm`, `RollBack` are the OTA as far as it decides which image is next.

### HttpApi

There is one nonce for all clients, so a nonce is named by the client that fetched it. `Write` is any
authorised route: `authorised()` refuses in the cooldown before it looks at the nonce, then consumes it,
whatever comes of it. `clock` is `millis()` and wraps at `Wrap`; `Elapsed` is the unsigned difference the
code takes. `since`, `gap` and `uses` are history. Restarts forget the nonce and the cooldown.

### Links

`wire` is the TCP stream; `Break` cuts it anywhere, and what had arrived can still be read. `ReadAvailable`
takes at most `Chunk` bytes, the five `Feed`/`Take` actions are the branches of `feed()`. A packet is a
sequence of the four bytes that framing tells apart (flag, escape and their escaped forms), because the
framing is the point. `Take` is `handle_incoming()`: Reticulum may pass the packet on by radio before the
call returns, and its answer may find the connection broken, which drops it under the bytes still to be
fed. On the radio only lengths matter; a frame carries who sent it (`from`: 0 for another station, else
which boot of the node), the number of the packet it belongs to and which half it is, none of which the code
has: `SeqOf` is what it has, the number modulo `SeqMod`. Other stations send whole packets and halves with
any sequence at any moment (`OtherStation`); `Restart` takes the node from any point to a new `boot`, which
forgets the connection and counts its split packets from 0 again. The far node is the same `LoRaInterface`
on the receiving side: `chip` is the one frame its radio keeps, `half` the half that waits in its buffer and
`rxSeq` the sequence it waits under; `HalvesMatch` speaks of the two when they are about to be joined. `Arrive`
may lose or overwrite a frame; every path that leaves the radio out of receive is an action. A reset of the
far node is not: it only forgets a half, as a lost frame does.

### Node

`at` names the call `setup()` or `loop()` makes next, in the order of `main.cpp`; one action per call. It
keeps of `Ota` and `NodeSettings` the two trials, of `EthernetLink` where the address came from, of
`main.cpp` the announces. Failing writes, uploads at odd moments and a bring-up that fails are in the
components' own modules; here the question is what the two trials do to each other and whether the announce
that decides one of them is made. A pass is a tick. `healthy` is history: the passes in a row in which the
server was connected and the identity could sign.

## Runs

| Run | Shows |
|---|---|
| `ota` | all properties of `Ota` with fair scheduling, and that it implements `TrialBoot` |
| `ota_torn_fallback` | finding: a reset while a body is received makes a torn file the fallback of the next upload |
| `settings` | all properties of `NodeSettings` with fair scheduling |
| `settings_refused` | finding: a refused `PUT` whose flash write failed has changed RAM, radio and trial |
| `se050` | all properties of `Se050` but `IdentityStable` and `VaultNeverDead`, with fair scheduling, and that it implements `Vault` |
| `se050_identity` | finding: a frame lost at boot leaves the node with another identity until the next boot |
| `otp` | in whatever order, however interrupted, the steps leave a board that boots; nothing is closed before a secured boot; a locked seed page is whole; an operator who goes on can finish, but for a half-written seed or a slot that holds a wrong key |
| `otp_rollback` | finding: secure boot enabled during the trial of a signed image over an unsigned one leaves a fallback that never boots |
| `http` | a nonce authorises one write, failed checks are a cooldown apart over a wrap, a patient client gets through |
| `links` | the TCP half implements `Channel` and swallows nothing; among other stations' halves and over a restart, two joined frames the node sent in one boot are the halves of one packet in order, or a whole turn of the sequence apart |
| `node` | an image whose chip signs over a link that holds is confirmed in time; both trials end |
| `node_trials` | finding: with both trials running, the image's timeout reboots the node in the pass that was to give the address up |

Six more configurations are kept for further counterexamples, each a consequence of the design the docs
describe rather than a contradiction of a line of it, or close to one above; run them by hand
(`tlc -config MCOtaBlink.cfg MCOta`):

| Configuration | TLC shows |
|---|---|
| `MCOtaStagingLoss` | a power loss between the stub's command and the state file boots an image that is never on trial |
| `MCOtaTrialUpload` | an upload during a trial replaces the proven fallback by the unproven image |
| `MCOtaStagedUpload` | an upload in the 500 ms before the reboot truncates the file the stub is about to copy |
| `MCOtaBlink` | a bring-up that fails after a power loss blinks for ever, and the trial with it |
| `MCNodeSettingsRadio` | `setOutputPower` succeeds and `startReceive` fails: the `PUT` is refused, the file keeps the old power, the radio has the new one |
| `MCSe050DeadVault` | a rotation run again after its answer was lost leaves the vault dead until a probe or a reboot |

### Bounds

- `ota`: three images (one can never prove itself), three uploads (one to confirm or fail, one over its
  remains, one over theirs), two power losses, the code's three trial boots; three environments, which
  between them combine every fault that does not break the promise. Two images are too few to tell "the one
  before" from "an older one"; a fourth upload meets the files as the third did.
- `settings`: two addresses, two values of every other setting, three writes (set an address, change it,
  undo it), the code's three trial boots, any number of restarts.
- `se050`: two faults, one more than a retry absorbs, and two restarts or console commands, so that a
  rotation can be interrupted and probed or run again; two environments, one with whatever may happen between
  operations, one with a chip that resets at any moment, damaged answers and the rotation; boards with and
  without an OTP seed. `OneFaultAbsorbed` and `VaultComesBack` leave out what the driver does not promise to
  absorb: a reset in the middle of an operation's retry, a damaged answer (whose status word is trusted, and
  its R-MAC not) and the rotation, which `MCSe050DeadVault` is about. The theorems have none of these bounds.
- `otp`: the two keys of `boot_pubkeys.h`, two rows of seed (enough to be cut inside either half), the
  chip's three copies of a flag row with two to set a bit and eight of CRIT1 with three, one write that does
  not complete (a second finds the board as the first left it, and every order of commands is tried after
  it). The theorems of `OtpProofs` have no such bounds.
- `http`: two clients, one of which is patient; a lifetime and a cooldown of three ticks, so that they can
  overlap and either can end first, on a clock that wraps at eight.
- `links`: packets of one byte (too short for TCP), two (one radio frame), three (two radio frames) and
  eight (over the room of `_rx`, twice the MTU); reads of at most four bytes, fewer than most framed packets
  have, so that a read can end inside a frame and inside an escape, and enough to hold the end of one packet
  and a valid beginning of the next when the connection drops between them (with fewer, a frame state kept
  over a connection would do no harm); three packets, so that one can be lost
  between two; one broken connection or restart, so that a connection follows one that broke and a boot
  follows one whose half is still waiting at the far node; a sequence modulo two, so that three packets go
  round it. The theorems have none of these bounds.
- `node`: trials of two boots and nine passes, a link delay of one pass and a spacing of two between
  announces, so that a link that flaps, a failed signature and the deadlines meet in one boot; two requests
  that start a trial.

### Fairness

`NodeStep` of `Ota` and `NodeSettings` is weakly fair: `loop()` never blocks (the body of an upload times
out, `Ota.cpp:261`), the watchdog ends a pass that stalls, and the trial's deadline passes with `millis()`.
Clients, power and the image's own proof are not fair: nothing obliges them. `TrialEnds` and `NoStranding`
need no more than that. `Se050` is fair to `DriverStep`, since every wait in the driver is bounded, and to
`UseKey`, since `loop()` goes on announcing and an announce is signed in the chip; to faults and commands it
is not. `Node` is weakly fair to `Step`, for the reason of `Ota`; requests and the network are not fair.
`Otp` and `HttpApi` state a liveness of a person's or client's work, so their fairness is theirs too: an
operator who now and then takes one of the steps left (`Progress`), reboots and loads a signed image, none of
them in a given order; a client that goes on fetching nonces and writing and waits for the cooldown it was
told of. `PatientServed` asks nothing of the other clients but that they stop at some time. `Links` has
safety only: a radio that is not listening, or a server that is away, may stay so.

Deadlock is checked everywhere; a node that blinks or has no firmware left takes the step `Stuck`, a boot of
`Node` past its bound on uptime the step `Idle`.

## Proofs

`OtaProofs`, for every set of images, bound and number of trial boots. Type correctness holds everywhere;
the others are for `OrderlyEnvironments`: no power loss while a body is received or between a commit and
its record, saves succeed, uploads wait for the last verdict, and a node that may lose power inside a
rollback can stage one. Each excluded fault is the subject of a counterexample configuration or its direct
consequence. The properties are not inductive: what makes them so is knowing for each `mode` what RAM, the
files and the stub's command hold (`RamInv`, `CommandInv`, `FilesInv`, `TrialInv`, `VerdictInv`), in
particular that while a trial is on record the next image to run is either the candidate or, once its boots
are used up, the fallback. From it follow `CommandSafe`, `FallbackSafe`, `ReportSafe`, `BudgetSafe`, the
action properties `OnlyTrialConfirms` and `FallbackKept`, and `Implements`, the refinement of `TrialBoot`
step by step.

`NodeSettingsProofs`, for every set of settings, requests and addresses, and with every failure allowed.
The invariant adds what the file and RAM know of an address: on trial or reached, in RAM as on file, and
how `running`, `value`, `file` and `rebootPending` hang together. From it follow `Unproven`,
`ReportedBoots`, `RadioMatched`, and the action properties `RefusalsHarmless` and `ProvenKept`.

`Se050Proofs`, for every set of boards, faults and bounds. `ExchangeFacts`, `SecuredFacts` and
`InSessionFacts` say once what an exchange can end with: an answer the driver reads is one the chip gave to
the frame it took, an accepted command was performed, and what was lost touches the store only as an answer
would have. `Flow` says once what every way an operation can go on has in common. The invariant is about
the steps in between (`StepInv`: no channel is taken for open while the link comes up, a key is generated
after the chip said there is none, the object written is this call's) and about the rotation
(`OperationInv`, `StoreInv`: the driver believes in the OTP keys only once the chip has them, and the chip
only ever has keys of `KeySets`, those `tryOpenChannel()` is called with). From it
follow `TypeCorrect`, `ChannelInStep`, `KeysSafe`, `ChipSafe` and `RotationSafe`.

`ImplementsTheVault` is the refinement of `Vault`. It maps the keys of the chip and the node's identity as
they are, `asked` to the key of a use from the loop, and `given` to whether the chip, asked now, would answer
with the peer of this use: the command carries it, or the peer object holds it. Nothing of the link, the
channel, the session and the recovery has a counterpart, so what has to be shown is that none of it is
visible: an exchange generates a key that was not there, or moves the input of the use in or out of the
chip's hands (`Hand`: written to the peer object, or lost with a reset), or stutters. The invariant above
knows the exchange but not what it is for, so two parts are added, `VaultInv` with them. `WorkInv` says that
a step belongs to an operation that takes it, so that only a use ever asks for an agreement. `ErrandInv` says
that what `agenda` and the job hold is what `setup()` planned, with the signing key asked for only once the
exchange key was found or made; so when the identity is taken from the chip both keys are there
(`Suits`, `Untaken`), and so they are whenever a use is served. Each action has a lemma that names the steps
of `Vault` it can be (`...Promised`), and the theorem holds for every set of boards, faults and bounds.

`Se050FaultProofs`, for every bound on faults and restarts: `FaultAbsorbed`, that a use of the vault from the
loop fails only after two faults since the last one that was served. It is stated for boards that are
`Recoverable`: either the driver can cut the chip's power (`SE050_ENA_PIN`), or the chip is never silent.
Without the pin a chip that stops answering stays so, and one fault then fails every later use; that is what
the code says of such boards, not a gap in the argument. The invariant, `FInv`, has four parts.
- `PlanInv` says what the job and the agenda behind it are for: a test, an identity's key or an announce; a
  node whose identity is in the chip has both keys there, so no announce meets a chip without its key.
- `ChannelInv` says how the driver's channel, its session and the peer object go together at every step.
- `NearPath`: with at most one fault since the last use that was served, the two ends count alike wherever
  the chip hears a command while a session comes up, and the second lap of a use starts with no channel or
  with one that is sound.
- `AlonePath` and `CalmPath`: a use from the loop, or any operation when there has been no fault at all,
  brings the link up without another fault (`OpeningInv`), and without any fault it never leaves its first
  lap (`CalmInv`). So the fault that ends a first lap is the one the budget allows, and the second lap meets
  none.

`OtpProofs`, for every number of keys, rows, copies, quorums and incomplete writes. The invariant ties the
registers latched at reset to the fuses, which only grow: a CRITICAL register that says secured was read from
fuses that still say so, and secure boot was enabled only from an image whose key is in a valid slot, which
no later write can take out of it. `NoSequenceBricks`, `ClosedAfterProof`, `LockedAfterSeed` follow.

`HttpApiProofs`, for every set of clients, clock, lifetime and cooldown. A 32-bit difference is the time that
passed only as long as less than a turn did, so the invariant relates it to the real time `since` the last
failure while that is below the cooldown. `NonceIsOneShot` and `FailuresAreSpaced` follow.

`LinksProofs`, for every set of packets, size of a read, number of packets and of breaks, payload and width
of the sequence. `JoinsOnlyHalves` is about the radio: with whatever other stations send in between and
across restarts, among the frames of one boot numbers only grow along the path of the frames on the air, in
the far radio and in its half-packet, and a second half is never in flight with its first half behind it.
`TypesHold`, `SwallowsNothing` and `ImplementsChannel` are about the TCP half. A read may end anywhere,
inside an escape too, so the invariant gives every byte of the stream a tag that says what it is: the flag
that opens or closes packet `n`, the escape of its byte `i`, or that byte (`Tags`, `Legal`), each following
from the one before (`Follows`). `Cut` says what `_rx` and the two flags of the deframer hold after the byte
with a given tag, and `TakenMap` maps what was taken, in order, to what was sent, and to every packet of a
valid size that this connection has read to its end. That `Framed(p)` can be tagged is a fact about a
recursive function; it is proved from the least index at which it would fail.

`NodeProofs`, for every length of the trials, of the link delay and of the announce spacing:
`GoodImagesConfirmed`. The property speaks of a number of healthy passes, so the invariant has to say what
they have done: the link was noticed in the first of them or earlier (`Online`), and an announce that has not
been made in any of them is still pending and held back by the link delay or by the spacing after an attempt
made before them (`Held`); `HeldIsShort` then bounds how many there can have been. The link delay is
assumed not to be zero (it is 5 s): the pass that notices the link does not announce yet, and the bound counts
that pass as part of the delay.

Only model-checked: liveness (`TrialEnds`, `NoStranding`, `VaultComesBack`, `ProvisioningCompletes`,
`PatientServed`, `Settles`), which TLAPS does not reach here. Every invariant and every action property of
the passing runs is also a theorem.

## Limits of the models

- `Links`: the halves of two stations, or of one before and after its restart, are joined when their three
  bits agree, and so are two of one sender a whole turn apart. The code has nothing to tell them apart by and
  no document promises that it does, so `HalvesMatch` allows it and says only what holds: the frames one
  sender sent between two restarts. Hazard `LoRaInterface.cpp:137` in `PROJECT.json` carries this note.
- `NodeSettings`: `FileMatchesRadio` and `RefusalsComeFirst` hold until a write of the file or a command to
  the radio has failed. After a failure a refused `PUT` has changed RAM (run `settings_refused`), and a later
  save stores what was refused; when `setOutputPower` succeeds and the `startReceive` after it fails, the
  radio has a power the file has not (`MCNodeSettingsRadio`, hazard `LoRaInterface.cpp:37`).
- `Ota`: the passing run and the theorems leave out the power loss between the stub's command and the state
  file (hazard `Ota.cpp:397`), so neither `ReportIsTrue` nor the refinement of `TrialBoot` speaks of it;
  `MCOtaStagingLoss` shows what it does.
- `Se050`: `VaultComesBack` leaves out resets of the chip in the middle of an operation and rotations, and
  with them damaged answers, which occur only in the environment that has all three. A chip that resets
  inside `recover()` can leave the driver with a channel it takes for open and the chip has forgotten; that
  this too is recovered from is not shown, and hazard `SE050.cpp:1475` says so.
- `Se050`: the transport identity (`main.cpp:257-265`) is not in the model. It is a second call of the same
  `se050Identity()` over two more key objects, made before the application's; the two share the chip, the
  link and the channel and nothing else. What a `keyEnsure()` that failed leaves of the channel for the
  application's identity, a failed self-test leaves in the model too; which identity the transport then takes
  (its own fallback in LittleFS) and what it signs are not tracked.
- `HttpApi`: `GuessesSpaced` does not count a failure at the very millisecond 0, which the code takes for
  "never" (`HttpApi.cpp:132`).
- `Otp`: enabling secure boot that is interrupted after the quorum leaves fewer copies than eight; the
  console calls it enabled after the next boot and does not burn the rest. Nothing here depends on the margin.
- `Vault` promises what a use returns, not that it does: that a vault serves again is `VaultComesBack`, and
  how few faults make a use throw is `OneFaultAbsorbed`, both stated of `Se050` itself.

## Not modelled, and the plan

Next, in this order: the Provisioner's mirror of the settings (`NodeProvisioning.cpp`, whose map lives in the
library), and the walk of `Picobin.cpp` as a pure function over block loops.

Left out of `Se050`: the transport identity (see the limits above), `identityImport()`, which nothing calls,
the NVM benchmark, the key derivation check and the dry run, which leave nothing behind, and the guard
`reentered()`: the driver waits with a hardware busy-wait (`SE050_WAIT_MS`), so nothing runs while it does.

Left out for good: the NTP request and `clockLoop()`, which nothing else depends on; refusals before anything
is changed, JSON and number parsing, formatting, logging; `Rp2350Trng` and the LittleFS pass-through (pure
I/O); the host tools and bench scripts (their requests are the inputs of the models).
