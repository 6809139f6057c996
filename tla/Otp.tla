--------------------------------- MODULE Otp ---------------------------------
(***************************************************************************)
(* The fuses of the RP2350 as src/src/OtpVault.cpp and the provisioning    *)
(* console of src/src/OtpProvision.cpp burn them: the seed page, the boot  *)
(* keys, the boot flags, the critical rows and the page locks.             *)
(*                                                                         *)
(* A fuse row is burned or it is not, and never clears. The console runs   *)
(* one command at a time, so a command is one action; what can cut it is a *)
(* write the bootrom refuses or a power loss, after any number of its rows *)
(* (Burns). Slot k is the BOOTKEY slot meant for key k.                    *)
(*                                                                         *)
(* The bootrom and the OTP hardware are modelled from what the code says   *)
(* of them: flags are voted over their copies, CRITICAL is decoded at      *)
(* reset, a lock word cannot be written while its page is soft-locked.     *)
(***************************************************************************)
EXTENDS Naturals

CONSTANTS Keys,                  \* NODE_BOOT_PUBKEYS, and the slots meant for them
          SeedRows,              \* SEED_ROWS
          FlagRows, FlagQuorum,  \* copies of BOOT_FLAGS0/1, how many set a bit
          CritRows, CritQuorum,  \* copies of CRIT1, how many set a bit
          MaxFaults              \* bound on refused or interrupted writes

Images == Keys \cup {"foreign", "unsigned"}   \* by who signed them
Contents == Keys \cup {"blank", "damaged", "garbled"}

ASSUME OtpAssumption ==
    /\ Keys # {}
    /\ Keys \cap {"foreign", "unsigned", "none", "blank", "damaged", "garbled"} = {}
    /\ SeedRows \in Nat \ {0}
    /\ FlagRows \in Nat /\ FlagQuorum \in 1..FlagRows
    /\ CritRows \in Nat /\ CritQuorum \in 1..CritRows
    /\ MaxFaults \in Nat

VARIABLES
    seedRows, chaffRows,   \* rows of the seed and of its complement burned so far
    pageLock,              \* PAGE32_LOCK1 is burned
    slot,                  \* what each BOOTKEY slot holds; damaged reads wrong, garbled does not decode
    validRows, invalidRows, flags0Rows,  \* rows with KEY_VALID 0011, KEY_INVALID 1100, BOOT_FLAGS0
    secureRows, debugRows, \* rows of CRIT1 with SECURE_BOOT_ENABLE, with the debug bits
    locks,                 \* which of pages 1 and 2 are locked
    softLock,              \* sw_lock of the seed page
    keys,                  \* otpKeys of the SE050 driver
    critical,              \* the CRITICAL register
    image,                 \* the image in flash
    fallback,              \* the image an OTA trial goes back to; "none" when none is on
    mode,                  \* "reset", "running" or "bootsel"
    proven,                \* history: an image has booted under secure boot
    faults                 \* history: writes that did not complete

seedVars == <<seedRows, chaffRows, pageLock>>
flagVars == <<validRows, invalidRows, flags0Rows>>
fuses == <<seedVars, slot, flagVars, secureRows, debugRows, locks>>
ram == <<softLock, keys, critical>>
flash == <<image, fallback>>
vars == <<fuses, ram, flash, mode, proven, faults>>

Init ==
    /\ seedRows = 0 /\ chaffRows = 0 /\ pageLock = FALSE
    /\ slot = [k \in Keys |-> "blank"]
    /\ validRows = 0 /\ invalidRows = 0 /\ flags0Rows = 0
    /\ secureRows = 0 /\ debugRows = 0 /\ locks = {}
    /\ softLock = FALSE /\ keys = "untried" /\ critical = [secure |-> FALSE, debug |-> FALSE]
    /\ image \in Images /\ fallback = "none"
    /\ mode = "reset" /\ proven = FALSE /\ faults = 0

-----------------------------------------------------------------------------
(* What the fuses say *)

Valid == validRows >= FlagQuorum
Invalid == invalidRows >= FlagQuorum
Secured == secureRows >= CritQuorum
DebugOff == debugRows >= CritQuorum

\* readSeed(), with the page soft-locked or not.
SeedRead(soft) ==
    CASE soft                                                      -> "Unreadable"
      [] ~soft /\ seedRows = 0 /\ chaffRows = 0                  -> "Blank"
      [] ~soft /\ seedRows = SeedRows /\ chaffRows = SeedRows    -> "Present"
      [] OTHER                                                     -> "Corrupt"

SeedState == SeedRead(softLock)

\* Under secure boot the bootrom takes an image whose key is in a valid slot.
Boots(i) == Secured => i \in Keys /\ Valid /\ \E s \in Keys : slot[s] = i

\* Mutant: the slot of the running image's key need not be marked valid.
AcceptedIfBurned == image \in Keys /\ \E s \in Keys : slot[s] = image

\* The running image is signed with a key that is burned, in a valid slot.
Accepted == image \in Keys /\ Valid /\ \E s \in Keys : slot[s] = image

-----------------------------------------------------------------------------
(* Burning *)

\* Mutant: a row past the copies is burned too.
BurnsOneMore(cur, total) == [rows : {total + 1}, end : {"done"}]

\* What burning rows cur+1..total can come to.
Burns(cur, total) ==
    {[rows |-> total, end |-> "done"]} \cup
    IF cur < total /\ faults < MaxFaults
    THEN [rows : cur..total, end : {"failed", "lost"}] ELSE {}

Ends(end) ==
    /\ mode' = IF end = "lost" THEN "reset" ELSE mode
    /\ faults' = IF end = "done" THEN faults ELSE faults + 1

WriteSeed ==
    /\ mode = "running" /\ SeedState = "Blank" /\ ~pageLock
    /\ \E b \in Burns(0, 2 * SeedRows) :
         /\ seedRows' = IF b.rows > SeedRows THEN SeedRows ELSE b.rows
         /\ chaffRows' = IF b.rows > SeedRows THEN b.rows - SeedRows ELSE 0
         /\ keys' = IF b.end = "done" THEN "untried" ELSE keys
         /\ Ends(b.end)
    /\ UNCHANGED <<pageLock, slot, flagVars, secureRows, debugRows, locks, softLock, critical, flash, proven>>

\* Mutant: any page that is not blank is taken for provisioned.
NotBlank == SeedState # "Blank"

Provisioned == SeedState = "Present" \/ (SeedState = "Unreadable" /\ softLock)

LockSeedPage ==
    /\ mode = "running" /\ Provisioned
    /\ ~softLock /\ ~pageLock
    /\ \E b \in Burns(0, 1) : pageLock' = (b.rows = 1) /\ Ends(b.end)
    /\ UNCHANGED <<seedRows, chaffRows, slot, flagVars, secureRows, debugRows, locks, ram, flash, proven>>

SoftLock ==
    /\ mode = "running"
    /\ softLock' = TRUE
    /\ UNCHANGED <<fuses, keys, critical, flash, mode, proven, faults>>

\* Mutant: the page is soft-locked as soon as the keys are derived.
LockedOnceDerived(soft) == soft \/ SeedRead(soft) = "Present"

LockedAfter(soft) == soft \/ (SeedRead(soft) = "Present" /\ pageLock)

Derive(soft) ==
    /\ keys' = IF SeedRead(soft) = "Present" THEN "present" ELSE "absent"
    /\ softLock' = LockedAfter(soft)

DeriveKeys ==
    /\ mode = "running" /\ keys = "untried"
    /\ Derive(softLock)
    /\ UNCHANGED <<fuses, critical, flash, mode, proven, faults>>

\* What writing key k to a slot can leave there: the rows of an interrupted
\* write may read as another key or not decode, and a slot that does not
\* decode is written over as if it were blank.
Burned(old, k) ==
    [content : {k} \cup (IF old = "blank" THEN {} ELSE {"damaged", "garbled"}), end : {"done"}] \cup
    IF faults < MaxFaults
    THEN [content : {old, k, "damaged", "garbled"}, end : {"failed", "lost"}] ELSE {}

WriteBootkey(s, k) ==
    /\ mode = "running" /\ slot[s] \in {"blank", "garbled"}
    /\ \E b \in Burned(slot[s], k) :
         /\ slot' = [slot EXCEPT ![s] = b.content]
         /\ Ends(b.end)
    /\ UNCHANGED <<seedVars, flagVars, secureRows, debugRows, locks, ram, flash, proven>>

KeyValid ==
    /\ mode = "running" /\ \A k \in Keys : slot[k] = k
    /\ \E b \in Burns(validRows, FlagRows) : validRows' = b.rows /\ Ends(b.end)
    /\ UNCHANGED <<seedVars, slot, invalidRows, flags0Rows, secureRows, debugRows, locks, ram, flash, proven>>

SecureBoot ==
    /\ mode = "running" /\ ~critical.secure /\ Accepted
    /\ \E b \in Burns(secureRows, CritRows) : secureRows' = b.rows /\ Ends(b.end)
    /\ UNCHANGED <<seedVars, slot, flagVars, debugRows, locks, ram, flash, proven>>

\* Mutant: what the fuses say now, instead of what they said at reset.
SecuredNow == Secured

BootedSecured == critical.secure

KeyInvalid ==
    /\ mode = "running" /\ BootedSecured
    /\ \E b \in Burns(invalidRows, FlagRows) : invalidRows' = b.rows /\ Ends(b.end)
    /\ UNCHANGED <<seedVars, slot, validRows, flags0Rows, secureRows, debugRows, locks, ram, flash, proven>>

\* Two writes; the second is made even if the first was refused.
Lockdown ==
    /\ mode = "running" /\ BootedSecured
    /\ \E b \in Burns(debugRows, CritRows) :
         /\ debugRows' = b.rows
         /\ \/ b.end = "lost" /\ flags0Rows' = flags0Rows /\ Ends("lost")
            \/ b.end = "failed" /\ flags0Rows' \in flags0Rows..FlagRows /\ \E e \in {"failed", "lost"} : Ends(e)
            \/ b.end = "done" /\ \E c \in Burns(flags0Rows, FlagRows) : flags0Rows' = c.rows /\ Ends(c.end)
    /\ UNCHANGED <<seedVars, slot, validRows, invalidRows, secureRows, locks, ram, flash, proven>>

LockBootPages ==
    /\ mode = "running" /\ BootedSecured /\ critical.debug /\ Invalid /\ locks # {1, 2}
    /\ \E b \in Burns(0, 2) :
         /\ \/ locks' = locks \cup (1..b.rows)
            \/ b.end = "failed" /\ locks' = locks \cup {2}
         /\ Ends(b.end)
    /\ UNCHANGED <<seedVars, slot, flagVars, secureRows, debugRows, ram, flash, proven>>

-----------------------------------------------------------------------------
(* Resets, the bootrom and BOOTSEL *)

Reset ==
    /\ mode = "running" \/ mode = "bootsel"
    /\ mode' = "reset"
    /\ UNCHANGED <<fuses, ram, flash, proven, faults>>

\* setup() opens the SE050, and so derives its keys, if there is one.
Boot ==
    /\ mode = "reset" /\ Boots(image)
    /\ mode' = "running"
    /\ Derive(FALSE) \/ (softLock' = FALSE /\ keys' = "untried")
    /\ critical' = [secure |-> Secured, debug |-> DebugOff]
    /\ proven' = (proven \/ Secured)
    /\ UNCHANGED <<fuses, flash, faults>>

Refuse ==
    /\ mode = "reset" /\ ~Boots(image)
    /\ mode' = "bootsel"
    /\ UNCHANGED <<fuses, ram, flash, proven, faults>>

RebootToBootsel ==
    /\ mode = "running"
    /\ mode' = "bootsel"
    /\ UNCHANGED <<fuses, ram, flash, proven, faults>>

LoadImage(i) ==
    /\ mode = "bootsel"
    /\ image' = i /\ mode' = "reset"
    /\ UNCHANGED <<fuses, ram, fallback, proven, faults>>

\* The OTA, as far as it decides which image is next: one that is on trial may
\* be replaced by the one before it. tools/ota_upload.py sends an unsealed image
\* only to a board that does not report secure_boot, which is CRITICAL.
Upload(i) ==
    /\ mode = "running" /\ i # "foreign" /\ (critical.secure => i \in Keys)
    /\ image' = i /\ fallback' = image /\ mode' = "reset"
    /\ UNCHANGED <<fuses, ram, proven, faults>>

Confirm ==
    /\ mode = "running" /\ fallback # "none"
    /\ fallback' = "none"
    /\ UNCHANGED <<fuses, ram, image, mode, proven, faults>>

RollBack ==
    /\ mode = "running" /\ fallback # "none"
    /\ image' = fallback /\ fallback' = "none" /\ mode' = "reset"
    /\ UNCHANGED <<fuses, ram, proven, faults>>

SeedStep == WriteSeed \/ LockSeedPage \/ SoftLock \/ DeriveKeys
BootStep == KeyValid \/ SecureBoot \/ KeyInvalid \/ Lockdown \/ LockBootPages
ResetStep == Reset \/ Boot \/ Refuse \/ RebootToBootsel

Next ==
    \/ SeedStep
    \/ \E s, k \in Keys : WriteBootkey(s, k)
    \/ BootStep
    \/ ResetStep
    \/ \E i \in Images : LoadImage(i) \/ Upload(i)
    \/ Confirm \/ RollBack

Spec == Init /\ [][Next]_vars

\* An operator who takes one of the steps left of docs/secure_boot.md now and
\* then, whichever it is, and goes on rebooting and loading signed images.
Progress ==
    \/ WriteSeed \/ LockSeedPage
    \/ \E k \in Keys : WriteBootkey(k, k)
    \/ BootStep

Persistence ==
    /\ WF_vars(Boot \/ Refuse)
    /\ SF_vars(Progress)
    /\ SF_vars(Reset) /\ SF_vars(RebootToBootsel)
    /\ SF_vars(\E i \in Keys : LoadImage(i))

FairSpec == Spec /\ Persistence

-----------------------------------------------------------------------------
(* Properties *)

TypeOK ==
    /\ seedRows \in 0..SeedRows /\ chaffRows \in 0..SeedRows /\ pageLock \in BOOLEAN
    /\ slot \in [Keys -> Contents]
    /\ validRows \in 0..FlagRows /\ invalidRows \in 0..FlagRows /\ flags0Rows \in 0..FlagRows
    /\ secureRows \in 0..CritRows /\ debugRows \in 0..CritRows
    /\ locks \in SUBSET {1, 2}
    /\ softLock \in BOOLEAN /\ keys \in {"untried", "present", "absent"}
    /\ critical \in [secure : BOOLEAN, debug : BOOLEAN]
    /\ image \in Images /\ fallback \in Images \cup {"none"}
    /\ mode \in {"reset", "running", "bootsel"} /\ proven \in BOOLEAN
    /\ faults \in 0..MaxFaults

\* Whatever was burned, in whatever order and however interrupted: the image
\* that runs boots again, and one of our keys signs images that boot.
NeverBricked ==
    /\ (mode = "running" => Boots(image))
    /\ \E k \in Keys : Boots(k)

\* Nothing that cannot be taken back is burned (slots 2-3 closed, debug off,
\* boot paths off, pages locked) before an image has booted under secure boot.
ClosedOnlyWhenProven ==
    invalidRows > 0 \/ debugRows > 0 \/ flags0Rows > 0 \/ locks # {} => proven

\* A seed page that can no longer be written holds a whole seed.
LockedPageHoldsSeed == pageLock => seedRows = SeedRows /\ chaffRows = SeedRows

\* Two things no command can repair: a seed page or a slot written in part, and
\* a key in the wrong slot.
Spoiled ==
    \/ <<seedRows, chaffRows>> \notin {<<0, 0>>, <<SeedRows, SeedRows>>}
    \/ \E k \in Keys : slot[k] \notin {"blank", k}

Provisioning ==
    /\ pageLock /\ Secured /\ DebugOff /\ locks = {1, 2}
    /\ validRows = FlagRows /\ invalidRows = FlagRows /\ flags0Rows = FlagRows

\* The order of the steps, the detours and the interruptions never lead to a
\* board the console refuses to finish, but for the two cases of Spoiled.
ProvisioningCompletes == <>(Provisioning \/ Spoiled)

\* "A rollback cannot run on an image that never boots, so this keeps a secured
\* node from ever staging one" (docs/secure_boot.md:27-28).
FallbackBoots == fallback # "none" => Boots(fallback)
=============================================================================
