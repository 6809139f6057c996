------------------------------ MODULE OtpProofs ------------------------------
(***************************************************************************)
(* Proofs about Otp, for every number of keys, rows, copies and quorums,   *)
(* any order of commands and any number of writes that are refused or cut  *)
(* short: no sequence of commands bricks the board, what cannot be taken   *)
(* back waits for a boot under secure boot, and a locked seed page holds a *)
(* whole seed.                                                             *)
(***************************************************************************)
EXTENDS Otp, TLAPS

FuseType ==
    /\ seedRows \in 0..SeedRows /\ chaffRows \in 0..SeedRows /\ pageLock \in BOOLEAN
    /\ slot \in [Keys -> Contents]
    /\ validRows \in 0..FlagRows /\ invalidRows \in 0..FlagRows /\ flags0Rows \in 0..FlagRows
    /\ secureRows \in 0..CritRows /\ debugRows \in 0..CritRows
    /\ locks \in SUBSET {1, 2}

RamType ==
    /\ softLock \in BOOLEAN /\ keys \in {"untried", "present", "absent"}
    /\ critical \in [secure : BOOLEAN, debug : BOOLEAN]

RunType ==
    /\ image \in Images /\ fallback \in Images \cup {"none"}
    /\ mode \in {"reset", "running", "bootsel"} /\ proven \in BOOLEAN
    /\ faults \in 0..MaxFaults

\* Once secure boot is on, a valid slot holds a key of ours, and the image that
\* runs is signed with one.
KeySafe ==
    Secured =>
        /\ Valid
        /\ \E s \in Keys : slot[s] \in Keys
        /\ mode = "running" => image \in Keys /\ \E s \in Keys : slot[s] = image

\* What the register says was booted.
CriticalProven == critical.secure => proven

Safe == KeySafe /\ CriticalProven /\ ClosedOnlyWhenProven /\ LockedPageHoldsSeed

IInv == FuseType /\ RamType /\ RunType /\ Safe

LEMMA TypeParts == TypeOK <=> FuseType /\ RamType /\ RunType
  BY Zenon DEF TypeOK, FuseType, RamType, RunType

-----------------------------------------------------------------------------
(* Writes that may be cut short *)

\* A write burns rows up to all of them, and fails only while it may.
LEMMA BurnsRows ==
  ASSUME NEW total \in Nat, NEW cur \in 0..total, NEW b \in Burns(cur, total)
  PROVE  /\ b.rows \in cur..total
         /\ b.end \in {"done", "failed", "lost"}
         /\ b.end # "done" => faults < MaxFaults
<1>1. CASE b = [rows |-> total, end |-> "done"]
  BY <1>1, SMT
<1>2. CASE cur < total /\ faults < MaxFaults /\ b \in [rows : cur..total, end : {"failed", "lost"}]
  BY <1>2, SMT
<1> QED BY <1>1, <1>2, Zenon DEF Burns

\* A write that ends leaves the node running or in reset.
LEMMA EndsType ==
  ASSUME RunType, NEW end \in {"done", "failed", "lost"}, end # "done" => faults < MaxFaults,
         Ends(end), UNCHANGED <<flash, proven>>
  PROVE  RunType' /\ (mode' = "running" => mode = "running")
<1>1. faults' \in 0..MaxFaults
  BY OtpAssumption, SMT DEF OtpAssumption, RunType, Ends
<1>2. mode' = mode \/ mode' = "reset"
  BY DEF Ends
<1> QED BY <1>1, <1>2, Zenon DEF RunType, flash

\* Slots that hold a key keep it and valid marks are never lost: what was safe
\* stays safe while secure boot is not touched.
LEMMA KeysKept ==
  ASSUME FuseType, KeySafe, secureRows' = secureRows, validRows' \in validRows..FlagRows,
         \A s \in Keys : slot[s] \in Keys => slot'[s] = slot[s],
         mode' = "running" => mode = "running" /\ image' = image
  PROVE  KeySafe'
<1>1. Secured' = Secured
  BY DEF Secured
<1>2. Valid => Valid'
  BY OtpAssumption, SMT DEF OtpAssumption, FuseType, Valid
<1> QED BY <1>1, <1>2, Zenon DEF KeySafe

bootFuses == <<slot, flagVars, secureRows, debugRows, locks>>

LEMMA SeedPageWritten ==
  ASSUME FuseType, RunType, Safe, UNCHANGED <<bootFuses, critical, flash, proven>>,
         mode' = "running" => mode = "running"
  PROVE  KeySafe' /\ CriticalProven' /\ ClosedOnlyWhenProven'
<1>1. validRows' \in validRows..FlagRows
  BY OtpAssumption, SMT DEF OtpAssumption, FuseType, bootFuses, flagVars
<1>2. KeySafe'
  BY <1>1, KeysKept DEF bootFuses, flash, Safe
<1> QED BY <1>2, Zenon DEF Safe, CriticalProven, ClosedOnlyWhenProven, bootFuses, flagVars

-----------------------------------------------------------------------------
(* The seed page *)

LEMMA WriteSeedStep == IInv /\ WriteSeed => IInv'
<1> SUFFICES ASSUME IInv, WriteSeed PROVE IInv' OBVIOUS
<1>1. PICK b \in Burns(0, 2 * SeedRows) :
        /\ seedRows' = IF b.rows > SeedRows THEN SeedRows ELSE b.rows
        /\ chaffRows' = IF b.rows > SeedRows THEN b.rows - SeedRows ELSE 0
        /\ keys' = IF b.end = "done" THEN "untried" ELSE keys
        /\ Ends(b.end)
  BY Zenon DEF WriteSeed
<1>2. 2 * SeedRows \in Nat /\ 0 \in 0..(2 * SeedRows) /\ SeedRows \in Nat
  BY OtpAssumption, SMT DEF OtpAssumption
<1>3. /\ b.rows \in 0..(2 * SeedRows)
      /\ b.end \in {"done", "failed", "lost"} /\ (b.end # "done" => faults < MaxFaults)
  BY <1>2, BurnsRows
<1>4. seedRows' \in 0..SeedRows /\ chaffRows' \in 0..SeedRows
  BY <1>1, <1>2, <1>3, SMT
<1>5. FuseType'
  BY <1>4, Zenon DEF IInv, FuseType, WriteSeed, flagVars
<1>6. RamType'
  BY <1>1, Zenon DEF IInv, RamType, WriteSeed
<1>7. RunType' /\ (mode' = "running" => mode = "running")
  BY <1>1, <1>3, EndsType DEF IInv, WriteSeed
<1>8. KeySafe' /\ CriticalProven' /\ ClosedOnlyWhenProven'
  BY <1>7, SeedPageWritten DEF IInv, WriteSeed, bootFuses
<1>9. LockedPageHoldsSeed'
  BY DEF WriteSeed, LockedPageHoldsSeed
<1> QED BY <1>5, <1>6, <1>7, <1>8, <1>9 DEF IInv, Safe

\* The page is locked only when the whole seed was read from it.
LEMMA LockSeedPageStep == IInv /\ LockSeedPage => IInv'
<1> SUFFICES ASSUME IInv, LockSeedPage PROVE IInv' OBVIOUS
<1>1. PICK b \in Burns(0, 1) : pageLock' = (b.rows = 1) /\ Ends(b.end)
  BY DEF LockSeedPage
<1>2. b.end \in {"done", "failed", "lost"} /\ (b.end # "done" => faults < MaxFaults)
  BY BurnsRows, SMT
<1>3. FuseType'
  BY <1>1, Zenon DEF IInv, FuseType, LockSeedPage, flagVars
<1>4. RamType'
  BY Zenon DEF IInv, RamType, LockSeedPage, ram
<1>5. RunType' /\ (mode' = "running" => mode = "running")
  BY <1>1, <1>2, EndsType DEF IInv, LockSeedPage
<1>6. KeySafe' /\ CriticalProven' /\ ClosedOnlyWhenProven'
  BY <1>5, SeedPageWritten DEF IInv, LockSeedPage, bootFuses, ram
<1>7. LockedPageHoldsSeed'
  <2>1. SeedRead(softLock) = "Present" /\ ~softLock
    BY DEF LockSeedPage, Provisioned, SeedState
  <2>2. seedRows = SeedRows /\ chaffRows = SeedRows
    BY <2>1 DEF SeedRead
  <2> QED BY <2>2, Zenon DEF LockSeedPage, LockedPageHoldsSeed
<1> QED BY <1>3, <1>4, <1>5, <1>6, <1>7 DEF IInv, Safe

LEMMA DeriveType ==
  ASSUME RamType, NEW soft \in BOOLEAN, Derive(soft)
  PROVE  softLock' \in BOOLEAN /\ keys' \in {"untried", "present", "absent"}
  BY Zenon DEF Derive, LockedAfter

LEMMA RamStep == IInv /\ (SoftLock \/ DeriveKeys) => IInv'
<1> SUFFICES ASSUME IInv, SoftLock \/ DeriveKeys PROVE IInv' OBVIOUS
<1>1. UNCHANGED <<fuses, critical, flash, mode, proven, faults>>
  BY DEF SoftLock, DeriveKeys
<1>2. FuseType'
  BY <1>1, Zenon DEF IInv, FuseType, fuses, seedVars, flagVars
<1>3. RamType'
  <2>1. CASE SoftLock
    BY <2>1, Zenon DEF IInv, RamType, SoftLock
  <2>2. CASE DeriveKeys
    BY <1>1, <2>2, DeriveType, Zenon DEF IInv, RamType, DeriveKeys
  <2> QED BY <2>1, <2>2
<1>4. RunType'
  BY <1>1, Zenon DEF IInv, RunType, flash
<1>5. KeySafe' /\ CriticalProven' /\ ClosedOnlyWhenProven'
  BY <1>1, SeedPageWritten DEF IInv, fuses, bootFuses
<1>6. LockedPageHoldsSeed'
  BY <1>1, Zenon DEF IInv, Safe, LockedPageHoldsSeed, fuses, seedVars
<1> QED BY <1>2, <1>3, <1>4, <1>5, <1>6 DEF IInv, Safe
-----------------------------------------------------------------------------
(* Keys and flags *)

\* A slot is written only while it holds no key.
LEMMA BootkeyStep ==
  ASSUME IInv, NEW s \in Keys, NEW k \in Keys, WriteBootkey(s, k)
  PROVE  IInv'
<1>1. PICK b \in Burned(slot[s], k) : slot' = [slot EXCEPT ![s] = b.content] /\ Ends(b.end)
  BY DEF WriteBootkey
<1>2. slot[s] \in Contents /\ slot \in [Keys -> Contents]
  BY DEF IInv, FuseType
<1>3. /\ b.content \in Contents
      /\ b.end \in {"done", "failed", "lost"} /\ (b.end # "done" => faults < MaxFaults)
  <2>1. CASE b \in [content : {k} \cup (IF slot[s] = "blank" THEN {} ELSE {"damaged", "garbled"}), end : {"done"}]
    BY <2>1, SMT DEF Contents
  <2>2. CASE /\ faults < MaxFaults
             /\ b \in [content : {slot[s], k, "damaged", "garbled"}, end : {"failed", "lost"}]
    BY <1>2, <2>2, SMT DEF Contents
  <2> QED BY <2>1, <2>2, Zenon DEF Burned
<1>4. slot' \in [Keys -> Contents]
  BY <1>1, <1>2, <1>3
<1>5. FuseType'
  BY <1>4, Zenon DEF IInv, FuseType, WriteBootkey, seedVars, flagVars
<1>6. RamType'
  BY Zenon DEF IInv, RamType, WriteBootkey, ram
<1>7. RunType' /\ (mode' = "running" => mode = "running")
  BY <1>1, <1>3, EndsType DEF IInv, WriteBootkey
<1>8. \A t \in Keys : slot[t] \in Keys => slot'[t] = slot[t]
  <2>1. slot[s] \notin Keys
    BY OtpAssumption DEF OtpAssumption, WriteBootkey
  <2> QED BY <1>1, <1>2, <2>1
<1>9. validRows' \in validRows..FlagRows
  BY OtpAssumption, SMT DEF OtpAssumption, IInv, FuseType, WriteBootkey, flagVars
<1>10. KeySafe'
  BY <1>7, <1>8, <1>9, KeysKept DEF IInv, Safe, WriteBootkey, flash
<1>11. CriticalProven' /\ ClosedOnlyWhenProven' /\ LockedPageHoldsSeed'
  BY Zenon DEF IInv, Safe, CriticalProven, ClosedOnlyWhenProven, LockedPageHoldsSeed,
               WriteBootkey, seedVars, flagVars, ram
<1> QED BY <1>5, <1>6, <1>7, <1>10, <1>11 DEF IInv, Safe

LEMMA FlagBounds == FlagRows \in Nat /\ CritRows \in Nat /\ FlagQuorum \in Nat /\ CritQuorum \in Nat
  BY OtpAssumption, SMT DEF OtpAssumption

LEMMA KeyValidStep == IInv /\ KeyValid => IInv'
<1> SUFFICES ASSUME IInv, KeyValid PROVE IInv' OBVIOUS
<1>1. PICK b \in Burns(validRows, FlagRows) : validRows' = b.rows /\ Ends(b.end)
  BY DEF KeyValid
<1>2. validRows \in 0..FlagRows
  BY DEF IInv, FuseType
<1>3. /\ b.rows \in validRows..FlagRows
      /\ b.end \in {"done", "failed", "lost"} /\ (b.end # "done" => faults < MaxFaults)
  BY <1>2, FlagBounds, BurnsRows
<1>4. validRows' \in 0..FlagRows
  BY <1>1, <1>2, <1>3, FlagBounds, SMT
<1>5. FuseType'
  BY <1>4, Zenon DEF IInv, FuseType, KeyValid, seedVars
<1>6. RamType'
  BY Zenon DEF IInv, RamType, KeyValid, ram
<1>7. RunType' /\ (mode' = "running" => mode = "running")
  BY <1>1, <1>3, EndsType DEF IInv, KeyValid
<1>8. KeySafe'
  BY <1>1, <1>3, <1>7, KeysKept DEF IInv, Safe, KeyValid, flash
<1>9. CriticalProven' /\ ClosedOnlyWhenProven' /\ LockedPageHoldsSeed'
  BY Zenon DEF IInv, Safe, CriticalProven, ClosedOnlyWhenProven, LockedPageHoldsSeed, KeyValid, seedVars, ram
<1> QED BY <1>5, <1>6, <1>7, <1>8, <1>9 DEF IInv, Safe

\* The one step that turns secure boot on: the image that runs is signed with
\* a key in a valid slot.
LEMMA SecureBootStep == IInv /\ SecureBoot => IInv'
<1> SUFFICES ASSUME IInv, SecureBoot PROVE IInv' OBVIOUS
<1>1. PICK b \in Burns(secureRows, CritRows) : secureRows' = b.rows /\ Ends(b.end)
  BY DEF SecureBoot
<1>2. secureRows \in 0..CritRows
  BY DEF IInv, FuseType
<1>3. /\ b.rows \in secureRows..CritRows
      /\ b.end \in {"done", "failed", "lost"} /\ (b.end # "done" => faults < MaxFaults)
  BY <1>2, FlagBounds, BurnsRows
<1>4. secureRows' \in 0..CritRows
  BY <1>1, <1>2, <1>3, FlagBounds, SMT
<1>5. FuseType'
  BY <1>4, Zenon DEF IInv, FuseType, SecureBoot, seedVars, flagVars
<1>6. RamType'
  BY Zenon DEF IInv, RamType, SecureBoot, ram
<1>7. RunType' /\ (mode' = "running" => mode = "running")
  BY <1>1, <1>3, EndsType DEF IInv, SecureBoot
<1>8. KeySafe'
  BY Zenon DEF SecureBoot, Accepted, KeySafe, Valid, flagVars, flash
<1>9. CriticalProven' /\ ClosedOnlyWhenProven' /\ LockedPageHoldsSeed'
  BY Zenon DEF IInv, Safe, CriticalProven, ClosedOnlyWhenProven, LockedPageHoldsSeed,
               SecureBoot, seedVars, flagVars, ram
<1> QED BY <1>5, <1>6, <1>7, <1>8, <1>9 DEF IInv, Safe

\* The steps that cannot be taken back ask for the register, which is proof.
LEMMA KeyInvalidStep == IInv /\ KeyInvalid => IInv'
<1> SUFFICES ASSUME IInv, KeyInvalid PROVE IInv' OBVIOUS
<1>1. PICK b \in Burns(invalidRows, FlagRows) : invalidRows' = b.rows /\ Ends(b.end)
  BY DEF KeyInvalid
<1>2. invalidRows \in 0..FlagRows
  BY DEF IInv, FuseType
<1>3. /\ b.rows \in invalidRows..FlagRows
      /\ b.end \in {"done", "failed", "lost"} /\ (b.end # "done" => faults < MaxFaults)
  BY <1>2, FlagBounds, BurnsRows
<1>4. invalidRows' \in 0..FlagRows
  BY <1>1, <1>2, <1>3, FlagBounds, SMT
<1>5. FuseType'
  BY <1>4, Zenon DEF IInv, FuseType, KeyInvalid, seedVars
<1>6. RamType'
  BY Zenon DEF IInv, RamType, KeyInvalid, ram
<1>7. RunType' /\ (mode' = "running" => mode = "running")
  BY <1>1, <1>3, EndsType DEF IInv, KeyInvalid
<1>8. validRows' \in validRows..FlagRows
  BY FlagBounds, SMT DEF IInv, FuseType, KeyInvalid
<1>9. KeySafe'
  BY <1>7, <1>8, KeysKept DEF IInv, Safe, KeyInvalid, flash
<1>10. proven'
  BY DEF IInv, Safe, CriticalProven, KeyInvalid, BootedSecured
<1>11. CriticalProven' /\ ClosedOnlyWhenProven' /\ LockedPageHoldsSeed'
  BY <1>10, Zenon DEF IInv, Safe, CriticalProven, ClosedOnlyWhenProven, LockedPageHoldsSeed, KeyInvalid, seedVars
<1> QED BY <1>5, <1>6, <1>7, <1>9, <1>11 DEF IInv, Safe

LEMMA LockdownStep == IInv /\ Lockdown => IInv'
<1> SUFFICES ASSUME IInv, Lockdown PROVE IInv' OBVIOUS
<1>1. PICK b \in Burns(debugRows, CritRows) :
        /\ debugRows' = b.rows
        /\ \/ b.end = "lost" /\ flags0Rows' = flags0Rows /\ Ends("lost")
           \/ b.end = "failed" /\ flags0Rows' \in flags0Rows..FlagRows /\ \E e \in {"failed", "lost"} : Ends(e)
           \/ b.end = "done" /\ \E c \in Burns(flags0Rows, FlagRows) : flags0Rows' = c.rows /\ Ends(c.end)
  BY Zenon DEF Lockdown
<1>2. debugRows \in 0..CritRows /\ flags0Rows \in 0..FlagRows
  BY DEF IInv, FuseType
<1>3. /\ b.rows \in debugRows..CritRows
      /\ b.end \in {"done", "failed", "lost"} /\ (b.end # "done" => faults < MaxFaults)
  BY <1>2, FlagBounds, BurnsRows
<1>4. debugRows' \in 0..CritRows
  BY <1>1, <1>2, <1>3, FlagBounds, SMT
<1>5. PICK end \in {"done", "failed", "lost"} :
        /\ Ends(end) /\ (end # "done" => faults < MaxFaults)
        /\ flags0Rows' \in flags0Rows..FlagRows
  <2>1. flags0Rows \in flags0Rows..FlagRows
    BY <1>2, FlagBounds, SMT
  <2>2. ASSUME NEW c \in Burns(flags0Rows, FlagRows)
        PROVE  /\ c.rows \in flags0Rows..FlagRows
               /\ c.end \in {"done", "failed", "lost"} /\ (c.end # "done" => faults < MaxFaults)
    BY <1>2, FlagBounds, BurnsRows
  <2>3. CASE b.end = "lost"
    BY <1>1, <1>3, <2>1, <2>3
  <2>4. CASE b.end = "failed"
    BY <1>1, <1>3, <2>4
  <2>5. CASE b.end = "done"
    BY <1>1, <2>2, <2>5
  <2> QED BY <1>3, <2>3, <2>4, <2>5
<1>6. flags0Rows' \in 0..FlagRows
  BY <1>2, <1>5, FlagBounds, SMT
<1>7. FuseType'
  BY <1>4, <1>6, Zenon DEF IInv, FuseType, Lockdown, seedVars
<1>8. RamType'
  BY Zenon DEF IInv, RamType, Lockdown, ram
<1>9. RunType' /\ (mode' = "running" => mode = "running")
  BY <1>5, EndsType DEF IInv, Lockdown
<1>10. validRows' \in validRows..FlagRows
  BY FlagBounds, SMT DEF IInv, FuseType, Lockdown
<1>11. KeySafe'
  BY <1>9, <1>10, KeysKept DEF IInv, Safe, Lockdown, flash
<1>12. proven'
  BY DEF IInv, Safe, CriticalProven, Lockdown, BootedSecured
<1>13. CriticalProven' /\ ClosedOnlyWhenProven' /\ LockedPageHoldsSeed'
  BY <1>12, Zenon DEF IInv, Safe, CriticalProven, ClosedOnlyWhenProven, LockedPageHoldsSeed, Lockdown, seedVars
<1> QED BY <1>7, <1>8, <1>9, <1>11, <1>13 DEF IInv, Safe

LEMMA LockBootPagesStep == IInv /\ LockBootPages => IInv'
<1> SUFFICES ASSUME IInv, LockBootPages PROVE IInv' OBVIOUS
<1>1. PICK b \in Burns(0, 2) :
        /\ \/ locks' = locks \cup (1..b.rows)
           \/ b.end = "failed" /\ locks' = locks \cup {2}
        /\ Ends(b.end)
  BY DEF LockBootPages
<1>2. /\ b.rows \in 0..2
      /\ b.end \in {"done", "failed", "lost"} /\ (b.end # "done" => faults < MaxFaults)
  BY BurnsRows, SMT
<1>3. 1..b.rows \in SUBSET {1, 2}
  BY <1>2, SMT
<1>4. locks' \in SUBSET {1, 2}
  BY <1>1, <1>3 DEF IInv, FuseType
<1>5. FuseType'
  BY <1>4, Zenon DEF IInv, FuseType, LockBootPages, seedVars, flagVars
<1>6. RamType'
  BY Zenon DEF IInv, RamType, LockBootPages, ram
<1>7. RunType' /\ (mode' = "running" => mode = "running")
  BY <1>1, <1>2, EndsType DEF IInv, LockBootPages
<1>8. validRows' \in validRows..FlagRows
  BY FlagBounds, SMT DEF IInv, FuseType, LockBootPages, flagVars
<1>9. KeySafe'
  BY <1>7, <1>8, KeysKept DEF IInv, Safe, LockBootPages, flash
<1>10. proven'
  BY DEF IInv, Safe, CriticalProven, LockBootPages, BootedSecured
<1>11. CriticalProven' /\ ClosedOnlyWhenProven' /\ LockedPageHoldsSeed'
  BY <1>10, Zenon DEF IInv, Safe, CriticalProven, ClosedOnlyWhenProven, LockedPageHoldsSeed, LockBootPages, seedVars
<1> QED BY <1>5, <1>6, <1>7, <1>9, <1>11 DEF IInv, Safe

-----------------------------------------------------------------------------
(* Resets and images *)

\* What runs after a reset is an image the bootrom took.
LEMMA BootStepSafe == IInv /\ Boot => IInv'
<1> SUFFICES ASSUME IInv, Boot PROVE IInv' OBVIOUS
<1>1. FuseType'
  BY Zenon DEF IInv, FuseType, Boot, fuses, seedVars, flagVars
<1>2. softLock' \in BOOLEAN /\ keys' \in {"untried", "present", "absent"}
  BY DeriveType, Zenon DEF IInv, Boot
<1>3. critical' \in [secure : BOOLEAN, debug : BOOLEAN]
  BY SMT DEF Boot, Secured, DebugOff
<1>4. RunType'
  BY Zenon DEF IInv, RunType, Boot, flash
<1>5. KeySafe'
  BY Zenon DEF IInv, Safe, KeySafe, Boot, Boots, Secured, Valid, fuses, flagVars, flash
<1>6. CriticalProven'
  BY DEF Boot, CriticalProven
<1>7. ClosedOnlyWhenProven' /\ LockedPageHoldsSeed'
  BY Zenon DEF IInv, Safe, ClosedOnlyWhenProven, LockedPageHoldsSeed, Boot, fuses, seedVars, flagVars
<1> QED BY <1>1, <1>2, <1>3, <1>4, <1>5, <1>6, <1>7 DEF IInv, Safe, RamType

\* Every other step that burns nothing leaves the node not running, or leaves
\* the image that runs.
LEMMA ImageStep ==
  ASSUME IInv, UNCHANGED <<fuses, ram, proven, faults>>,
         image' \in Images, fallback' \in Images \cup {"none"}, mode' \in {"reset", "running", "bootsel"},
         mode' = "running" => mode = "running" /\ image' = image
  PROVE  IInv'
<1>1. FuseType' /\ RamType' /\ RunType'
  BY Zenon DEF IInv, FuseType, RamType, RunType, fuses, seedVars, flagVars, ram
<1>2. validRows' \in validRows..FlagRows
  BY FlagBounds, SMT DEF IInv, FuseType, fuses, flagVars
<1>3. KeySafe'
  BY <1>2, KeysKept DEF IInv, Safe, fuses
<1>4. CriticalProven' /\ ClosedOnlyWhenProven' /\ LockedPageHoldsSeed'
  BY Zenon DEF IInv, Safe, CriticalProven, ClosedOnlyWhenProven, LockedPageHoldsSeed, fuses, seedVars, flagVars, ram
<1> QED BY <1>1, <1>3, <1>4 DEF IInv, Safe

LEMMA InitStep == Init => IInv
<1> SUFFICES ASSUME Init PROVE IInv OBVIOUS
<1>1. 0 \in 0..SeedRows /\ 0 \in 0..FlagRows /\ 0 \in 0..CritRows /\ 0 \in 0..MaxFaults
  BY OtpAssumption, SMT DEF OtpAssumption
<1>2. FuseType
  <2>1. slot \in [Keys -> Contents]
    BY DEF Init, Contents
  <2> QED BY <1>1, <2>1, Zenon DEF Init, FuseType
<1>3. RamType /\ RunType
  BY <1>1 DEF Init, RamType, RunType
<1>4. ~Secured
  BY OtpAssumption, SMT DEF OtpAssumption, Init, Secured
<1>5. Safe
  BY <1>4, SMT DEF Init, Safe, KeySafe, CriticalProven, ClosedOnlyWhenProven, LockedPageHoldsSeed
<1> QED BY <1>2, <1>3, <1>5 DEF IInv

LEMMA NextStep == IInv /\ [Next]_vars => IInv'
<1> SUFFICES ASSUME IInv, [Next]_vars PROVE IInv' OBVIOUS
<1>0. /\ image \in Images /\ fallback \in Images \cup {"none"} /\ mode \in {"reset", "running", "bootsel"}
      /\ image \in Images \cup {"none"}
  BY DEF IInv, RunType
<1>1. CASE SeedStep
  BY <1>1, WriteSeedStep, LockSeedPageStep, RamStep DEF SeedStep
<1>2. ASSUME NEW s \in Keys, NEW k \in Keys, WriteBootkey(s, k) PROVE IInv'
  BY <1>2, BootkeyStep
<1>3. CASE BootStep
  BY <1>3, KeyValidStep, SecureBootStep, KeyInvalidStep, LockdownStep, LockBootPagesStep DEF BootStep
<1>4. CASE Boot
  BY <1>4, BootStepSafe
<1>5. CASE Reset \/ Refuse \/ RebootToBootsel
  BY <1>0, <1>5, ImageStep DEF Reset, Refuse, RebootToBootsel, flash
<1>6. ASSUME NEW i \in Images, LoadImage(i) \/ Upload(i) PROVE IInv'
  BY <1>0, <1>6, ImageStep DEF LoadImage, Upload
<1>7. CASE Confirm
  BY <1>0, <1>7, ImageStep DEF Confirm
<1>8. CASE RollBack
  <2>1. fallback \in Images
    BY <1>0, <1>8 DEF RollBack
  <2> QED BY <1>0, <1>8, <2>1, ImageStep DEF RollBack
<1>9. CASE UNCHANGED vars
  BY <1>0, <1>9, ImageStep DEF vars, flash
<1> QED BY <1>1, <1>2, <1>3, <1>4, <1>5, <1>6, <1>7, <1>8, <1>9, Zenon DEF Next, ResetStep

\* The strengthened invariant holds in every reachable state.
THEOREM Invariance == Spec => []IInv
<1> QED BY InitStep, NextStep, PTL DEF Spec

\* Every variable keeps its range, whatever the numbers of rows and copies.
THEOREM TypeCorrect == Spec => []TypeOK
<1>1. IInv => TypeOK
  BY TypeParts DEF IInv
<1> QED BY <1>1, Invariance, PTL

\* The image that runs boots again, and one of our keys signs images that boot.
THEOREM NoSequenceBricks == Spec => []NeverBricked
<1>1. IInv => NeverBricked
  <2> SUFFICES ASSUME IInv PROVE NeverBricked OBVIOUS
  <2>1. mode = "running" => Boots(image)
    BY Zenon DEF IInv, Safe, KeySafe, Boots
  <2>2. \E k \in Keys : Boots(k)
    <3>1. CASE Secured
      BY <3>1, Zenon DEF IInv, Safe, KeySafe, Boots
    <3>2. CASE ~Secured
      BY <3>2, OtpAssumption DEF OtpAssumption, Boots
    <3> QED BY <3>1, <3>2
  <2> QED BY <2>1, <2>2 DEF NeverBricked
<1> QED BY <1>1, Invariance, PTL

\* What cannot be taken back is burned only after a boot under secure boot.
THEOREM ClosedAfterProof == Spec => []ClosedOnlyWhenProven
<1>1. IInv => ClosedOnlyWhenProven
  BY DEF IInv, Safe
<1> QED BY <1>1, Invariance, PTL

\* A locked seed page holds a whole seed.
THEOREM LockedAfterSeed == Spec => []LockedPageHoldsSeed
<1>1. IInv => LockedPageHoldsSeed
  BY DEF IInv, Safe
<1> QED BY <1>1, Invariance, PTL
=============================================================================
