----------------------------- MODULE LinksProofs -----------------------------
(***************************************************************************)
(* Proofs about the node's two links.                                      *)
(*                                                                         *)
(* The radio half: whatever the server sends, however often the node       *)
(* restarts, however many frames are lost, overwritten or read in error,   *)
(* and whatever other stations send, the node that listens joins two       *)
(* frames of one sender between its restarts only if they are the halves   *)
(* of one packet or a whole turn of the sequence apart.                    *)
(*                                                                         *)
(* The TCP half, for every set of packets, every size of read and any      *)
(* number of packets and broken connections: what was taken is what was    *)
(* sent, and nothing was swallowed.  The invariant gives every byte        *)
(* between the server and feed() what it stands for: a flag, an escape or  *)
(* a byte of a packet (Tags). One byte's tag decides the next one's        *)
(* (Follows), so a read that cuts the stream, or a connection that breaks, *)
(* shortens the tags and changes none. The tag of the last byte fed        *)
(* determines inFrame, escape and rx (Cut), and how many packets have been *)
(* read to their end: TakenMap says which of them were taken.              *)
(*                                                                         *)
(* Framed is recursive. What it makes of a packet of any length is proved  *)
(* by a least counterexample (LeastNat), since the library's induction     *)
(* theorems take an operator that no prover here can instantiate.          *)
(***************************************************************************)
EXTENDS Links, WellFoundedInduction, TLAPS

-----------------------------------------------------------------------------
(* The radio: frames and halves *)

\* What is still to come of the packet being transmitted.
AirInv ==
    \/ air = <<>>
    \/ air = <<Whole>>
    \/ txSeqCtr > 0 /\ air = <<Half(txSeqCtr - 1, 1), Half(txSeqCtr - 1, 2)>>
    \/ txSeqCtr > 0 /\ air = <<Half(txSeqCtr - 1, 2)>>

\* A half of the node's that left the air: it is older than what is still on it.
Older(f) ==
    /\ f.part \in {1, 2} /\ f.id < txSeqCtr
    /\ Len(air) = 2 => f.id < txSeqCtr - 1
    /\ air # <<>> /\ air # <<Whole>> => f.id < txSeqCtr - 1 \/ f.part = 1

\* A half that was received: another station's, one from before a restart, or
\* one that left the air since.
Gone(f) ==
    /\ f.id \in Nat /\ f.from \in 0..boot
    /\ f.from = boot => Older(f)

Before(f, g) == f.id < g.id \/ (f.id = g.id /\ f.part = 1 /\ g.part = 2)

ChipInv == chip = NoFrame \/ chip = Whole \/ (chip.split /\ Gone(chip))

\* A half that was kept has the sequence it is kept under.
HalfInv == rxSeq # SeqUnset => half.split /\ Gone(half) /\ SeqOf(half) = rxSeq

\* Frames of one sender, between its restarts, are read in the order sent.
OrderInv ==
    rxSeq # SeqUnset /\ chip.split /\ half.from = chip.from /\ chip.from # 0 => Before(half, chip)

RadioInv ==
    /\ txSeqCtr \in Nat /\ boot \in Nat \ {0}
    /\ AirInv /\ ChipInv /\ HalfInv /\ OrderInv

-----------------------------------------------------------------------------
(* Frames and sequences *)

LEMMA FrameFields ==
    /\ Whole.split = FALSE /\ NoFrame.split = FALSE
    /\ Whole # NoFrame
    /\ \A i, p : /\ Half(i, p).split = TRUE /\ Half(i, p).from = boot
               /\ Half(i, p).id = i /\ Half(i, p).part = p
    /\ \A i, p : Half(i, p) # Whole /\ Half(i, p) # NoFrame
    /\ \A f \in OthersHalves : f.split = TRUE /\ f.from = 0 /\ f.id \in Nat
<1>1. ASSUME NEW f \in OthersHalves PROVE f.split = TRUE /\ f.from = 0 /\ f.id \in Nat
  <2>1. f.split \in {TRUE} /\ f.from \in {0} /\ f.id \in 0..(SeqMod - 1)
    BY DEF OthersHalves
  <2>2. f.split = TRUE
    BY <2>1, Zenon
  <2>3. f.from = 0 /\ f.id \in Nat
    BY <2>1
  <2> QED BY <2>2, <2>3
<1>2. \A i, p : /\ Half(i, p).split = TRUE /\ Half(i, p).from = boot
               /\ Half(i, p).id = i /\ Half(i, p).part = p
  BY Zenon DEF Half
<1>3. Whole.split = FALSE /\ NoFrame.split = FALSE /\ Whole # NoFrame
  BY DEF Whole, NoFrame
<1>4. \A i, p : Half(i, p) # Whole /\ Half(i, p) # NoFrame
  BY DEF Half, Whole, NoFrame
<1> QED BY <1>1, <1>2, <1>3, <1>4

LEMMA ShortSequences ==
  ASSUME NEW a, NEW b
  PROVE  /\ Head(<<a>>) = a /\ Tail(<<a>>) = <<>> /\ Len(<<a>>) = 1 /\ <<a>> # <<>>
         /\ Head(<<a, b>>) = a /\ Tail(<<a, b>>) = <<b>> /\ Len(<<a, b>>) = 2
  BY SMT

LEMMA SeqOfNotUnset ==
  ASSUME NEW f, f.id \in Nat
  PROVE  SeqOf(f) \in Nat /\ SeqOf(f) # SeqUnset
  BY LinksAssumption, SMT DEF SeqOf, SeqUnset, LinksAssumption
-----------------------------------------------------------------------------
(* One lemma for each way the radio can change *)

LEMMA InitStep == Init => RadioInv
  BY FrameFields, SMT DEF Init, RadioInv, AirInv, ChipInv, HalfInv, OrderInv

radio == <<boot, txSeqCtr, air, chip, rxSeq, half>>

LEMMA ElsewhereStep == RadioInv /\ UNCHANGED radio => RadioInv'
  BY Zenon DEF RadioInv, AirInv, ChipInv, HalfInv, OrderInv, Gone, Older, Before, Half,
               SeqOf, radio

\* The air changes: what was received stays as old, or is older.
LEMMA AirStep ==
  ASSUME RadioInv, UNCHANGED <<boot, rxSeq, half>>, txSeqCtr' \in Nat, AirInv',
         \A f : f.id \in Nat /\ f.from = boot /\ Older(f) => Older(f)',
         \/ chip' = chip \/ chip' = Whole
         \/ /\ chip'.split = TRUE /\ chip'.id \in Nat /\ chip'.from = boot /\ Older(chip)'
            /\ \A f : f.id \in Nat /\ f.from = boot /\ Older(f) => Before(f, chip')
  PROVE  RadioInv'
<1>1. boot' \in Nat \ {0} /\ boot \in 0..boot /\ boot # 0
  BY DEF RadioInv
<1>2. ASSUME NEW f, Gone(f) PROVE Gone(f)'
  BY <1>2, Zenon DEF Gone
<1>3. HalfInv'
  BY <1>2, Zenon DEF RadioInv, HalfInv, SeqOf
<1>4. CASE chip' = chip
  <2>1. ChipInv'
    <3>1. CASE chip.split /\ Gone(chip)
      <4>1. Gone(chip)'
        BY <1>2, <1>4, <3>1, Zenon
      <4> QED BY <1>4, <3>1, <4>1, Zenon DEF ChipInv
    <3> QED BY <1>4, <3>1, Zenon DEF RadioInv, ChipInv
  <2>2. OrderInv'
    BY <1>4, Zenon DEF RadioInv, OrderInv, Before
  <2> QED BY <1>1, <1>3, <2>1, <2>2 DEF RadioInv
<1>5. CASE chip' = Whole
  <2>1. ChipInv' /\ OrderInv'
    BY <1>5, FrameFields, Zenon DEF ChipInv, OrderInv
  <2> QED BY <1>1, <1>3, <2>1 DEF RadioInv
<1>6. CASE /\ chip'.split = TRUE /\ chip'.id \in Nat /\ chip'.from = boot /\ Older(chip)'
           /\ \A f : f.id \in Nat /\ f.from = boot /\ Older(f) => Before(f, chip')
  <2>1. boot' = boot /\ chip'.from \in 0..boot'
    BY <1>1, <1>6
  <2>3. ChipInv'
    BY <1>6, <2>1, Zenon DEF ChipInv, Gone
  <2>2. OrderInv'
    <3>1. rxSeq # SeqUnset /\ half.from = boot => Before(half, chip')
      BY <1>6, Zenon DEF RadioInv, HalfInv, Gone
    <3>2. SeqUnset' = SeqUnset /\ (Before(half, chip') => Before(half, chip)')
      BY Zenon DEF SeqUnset, Before
    <3> QED BY <1>6, <3>1, <3>2, Zenon DEF OrderInv
  <2> QED BY <1>1, <1>3, <2>2, <2>3 DEF RadioInv
<1> QED BY <1>4, <1>5, <1>6

\* A packet starts on an air that is empty: every half before it is older.
LEMMA SendStep ==
  ASSUME RadioInv, air = <<>>, NEW n, SendByRadio(n), UNCHANGED <<boot, far>>
  PROVE  RadioInv'
<1>1. txSeqCtr \in Nat
  BY DEF RadioInv
<1>2. \/ air' = <<Whole>> /\ txSeqCtr' = txSeqCtr
      \/ /\ air' = <<Half(txSeqCtr, 1), Half(txSeqCtr, 2)>>
         /\ txSeqCtr' = txSeqCtr + 1
      \/ air' = <<>> /\ txSeqCtr' = txSeqCtr
  BY Zenon DEF SendByRadio, RadioFrames, Splits
<1>3. txSeqCtr' \in Nat
  BY <1>1, <1>2, SMT
<1>4. AirInv'
  <2>1. CASE air' = <<Half(txSeqCtr, 1), Half(txSeqCtr, 2)>> /\ txSeqCtr' = txSeqCtr + 1
    <3>1. txSeqCtr' - 1 = txSeqCtr /\ txSeqCtr' > 0
      BY <1>1, <2>1, SMT
    <3>2. boot' = boot
      OBVIOUS
    <3> QED BY <2>1, <3>1, <3>2, Zenon DEF AirInv, Half
  <2> QED BY <1>2, <2>1, Zenon DEF AirInv
<1>5. ASSUME NEW f, f.id \in Nat, Older(f)
      PROVE  Older(f)'
  <2>1. f.part \in {1, 2} /\ f.id < txSeqCtr
    BY <1>5 DEF Older
  <2>2. CASE txSeqCtr' = txSeqCtr + 1
    <3>1. f.id < txSeqCtr' /\ f.id < txSeqCtr' - 1
      BY <1>1, <1>5, <2>1, <2>2, SMT
    <3> QED BY <2>1, <3>1, Zenon DEF Older
  <2>3. CASE air' = <<Whole>> /\ txSeqCtr' = txSeqCtr
    <3>1. Len(air') # 2
      BY <2>3, ShortSequences, SMT
    <3> QED BY <2>1, <2>3, <3>1, Zenon DEF Older
  <2>4. CASE air' = <<>> /\ txSeqCtr' = txSeqCtr
    <3>1. Len(air') # 2
      BY <2>4, SMT
    <3> QED BY <2>1, <2>4, <3>1, Zenon DEF Older
  <2> QED BY <1>2, <2>2, <2>3, <2>4
<1>6. UNCHANGED <<rxSeq, half, chip>>
  BY DEF far
<1> QED BY <1>3, <1>4, <1>5, <1>6, AirStep

\* A frame that ends leaves its packet's next half, if any, younger than it.
LEMMA ArriveStep == RadioInv /\ Arrive => RadioInv'
<1> SUFFICES ASSUME RadioInv, Arrive PROVE RadioInv' OBVIOUS
<1> DEFINE t == txSeqCtr - 1
<1>1. txSeqCtr \in Nat /\ UNCHANGED <<boot, txSeqCtr, rxSeq, half>> /\ txSeqCtr' \in Nat
  BY DEF RadioInv, Arrive
<1>2. (chip' = chip \/ chip' = Head(air)) /\ air' = Tail(air) /\ air # <<>>
  BY DEF Arrive
<1>3. CASE air = <<Whole>>
  <2>1. air' = <<>> /\ Head(air) = Whole /\ Len(air') # 2
    BY <1>2, <1>3, ShortSequences, SMT
  <2>2. AirInv' BY <2>1 DEF AirInv
  <2>3. \A f : Older(f) => Older(f)'
    BY <1>1, <2>1, Zenon DEF Older
  <2>4. chip' = chip \/ chip' = Whole
    BY <1>2, <2>1, Zenon
  <2> QED BY <1>1, <2>2, <2>3, <2>4, AirStep
<1>4. CASE txSeqCtr > 0 /\ air = <<Half(t, 1), Half(t, 2)>>
  <2>1. air' = <<Half(t, 2)>> /\ Head(air) = Half(t, 1) /\ Len(air') # 2 /\ Len(air) = 2
    BY <1>2, <1>4, ShortSequences, SMT
  <2>2. AirInv'
    BY <1>1, <1>4, <2>1, Zenon DEF AirInv, Half
  <2>3. \A f : Older(f) => f.id < t /\ Older(f)'
    BY <1>1, <2>1, Zenon DEF Older
  <2>4. t < txSeqCtr /\ t \in Nat
    BY <1>1, <1>4, SMT
  <2> HIDE DEF t
  <2>5. /\ Half(t, 1).split = TRUE /\ Half(t, 1).id \in Nat /\ Half(t, 1).from = boot
        /\ Half(t, 1).id = t /\ Half(t, 1).part = 1
    BY <2>4, FrameFields, SMT
  <2>7. \A f : Older(f) => Before(f, Half(t, 1))
    BY <2>3, <2>5, Zenon DEF Before
  <2>8. CASE chip' = Half(t, 1)
    <3>1. Older(chip)'
      BY <2>8, <2>5, <1>1, <2>1, <2>4, Zenon DEF Older
    <3> QED BY <1>1, <2>2, <2>3, <2>5, <2>7, <2>8, <3>1, AirStep
  <2>9. CASE chip' = chip
    BY <1>1, <2>2, <2>3, <2>9, AirStep
  <2> QED BY <1>2, <2>1, <2>8, <2>9
<1>5. CASE txSeqCtr > 0 /\ air = <<Half(t, 2)>>
  <2>1. air' = <<>> /\ Head(air) = Half(t, 2) /\ Len(air') # 2
    BY <1>2, <1>5, ShortSequences, SMT
  <2>2. AirInv' BY <2>1 DEF AirInv
  <2>3. air # <<Whole>>
    BY <1>5, ShortSequences, FrameFields, Zenon
  <2>4. t < txSeqCtr /\ t \in Nat /\ \A i \in Nat : i < txSeqCtr => i < t \/ i = t
    BY <1>1, <1>5, SMT
  <2>5. /\ Half(t, 2).split = TRUE /\ Half(t, 2).id \in Nat /\ Half(t, 2).from = boot
        /\ Half(t, 2).id = t /\ Half(t, 2).part = 2
    BY <2>4, FrameFields, SMT
  <2>6. \A f : Older(f) => /\ f.part \in {1, 2} /\ f.id < txSeqCtr
                          /\ (f.id < t \/ f.part = 1)
    BY <1>1, <1>2, <2>3 DEF Older
  <2>7. \A f : Older(f) => Older(f)'
    BY <1>1, <2>1, <2>6, Zenon DEF Older
  <2> HIDE DEF t
  <2>8. ASSUME NEW f, f.id \in Nat, Older(f) PROVE Before(f, Half(t, 2))
    <3>1. f.id < txSeqCtr /\ (f.id < t \/ f.part = 1)
      BY <2>6, <2>8
    <3>2. f.id < t \/ f.id = t
      BY <2>4, <2>8, <3>1
    <3>3. f.id < t \/ (f.id = t /\ f.part = 1)
      BY <3>1, <3>2, Zenon
    <3> QED BY <2>5, <3>3, Zenon DEF Before
  <2>9. CASE chip' = Half(t, 2)
    <3>1. Older(chip)'
      BY <2>9, <2>5, <1>1, <2>1, <2>4, Zenon DEF Older
    <3> QED BY <1>1, <2>2, <2>5, <2>7, <2>8, <2>9, <3>1, AirStep
  <2>10. CASE chip' = chip
    BY <1>1, <2>2, <2>7, <2>10, AirStep
  <2> QED BY <1>2, <2>1, <2>9, <2>10
<1> QED BY <1>2, <1>3, <1>4, <1>5 DEF RadioInv, AirInv

\* The chip loses its frame, or another station's takes its place.
LEMMA ChipStep ==
  ASSUME RadioInv, chip' = NoFrame \/ chip' \in {Whole} \cup OthersHalves,
         UNCHANGED <<boot, txSeqCtr, air, rxSeq, half>>
  PROVE  RadioInv'
<1>1. AirInv' /\ HalfInv' /\ txSeqCtr' \in Nat /\ boot' \in Nat \ {0}
  BY Zenon DEF RadioInv, AirInv, HalfInv, Gone, Older, Half, SeqOf
<1>2. CASE chip' = NoFrame \/ chip' = Whole
  <2>1. ChipInv' /\ OrderInv'
    BY <1>2, FrameFields, Zenon DEF ChipInv, OrderInv
  <2> QED BY <1>1, <2>1 DEF RadioInv
<1>3. CASE chip' \in OthersHalves
  <2>1. chip'.split = TRUE /\ chip'.from = 0 /\ chip'.id \in Nat
    BY <1>3, FrameFields
  <2>2. 0 \in 0..boot' /\ 0 # boot'
    BY <1>1
  <2>3. ChipInv' /\ OrderInv'
    BY <2>1, <2>2, Zenon DEF ChipInv, OrderInv, Gone
  <2> QED BY <1>1, <2>3 DEF RadioInv
<1> QED BY <1>2, <1>3

\* After a restart nothing received is of the node as it is now.
LEMMA RestartStep == RadioInv /\ Restart => RadioInv'
<1> SUFFICES ASSUME RadioInv, Restart PROVE RadioInv' OBVIOUS
<1>1. boot \in Nat \ {0} /\ boot' = boot + 1 /\ txSeqCtr' = 0 /\ air' = <<>>
      /\ UNCHANGED <<chip, rxSeq, half>>
  BY DEF RadioInv, Restart, far
<1>2. boot' \in Nat \ {0} /\ \A i \in 0..boot : i \in 0..boot' /\ i # boot'
  BY <1>1
<1>3. ASSUME NEW f, Gone(f) PROVE f.id \in Nat /\ f.from \in 0..boot' /\ f.from # boot'
  BY <1>2, <1>3 DEF Gone
<1>4. ChipInv' /\ HalfInv'
  BY <1>1, <1>3, Zenon DEF RadioInv, ChipInv, HalfInv, Gone, SeqOf
<1>5. AirInv' /\ OrderInv'
  BY <1>1, Zenon DEF RadioInv, AirInv, OrderInv, Before
<1> QED BY <1>1, <1>2, <1>4, <1>5 DEF RadioInv

\* A half is kept, or the one that waits is given up.
LEMMA ReadStep == RadioInv /\ Read => RadioInv'
<1> SUFFICES ASSUME RadioInv, Read PROVE RadioInv' OBVIOUS
<1>1. AirInv' /\ txSeqCtr' \in Nat /\ boot' \in Nat \ {0}
  BY Zenon DEF RadioInv, AirInv, Half, Read
<1>2. ChipInv' /\ OrderInv'
  BY FrameFields, Zenon DEF Read, ChipInv, OrderInv
<1>3. chip.split => Gone(chip)
  BY FrameFields DEF RadioInv, ChipInv
<1>4. HalfInv'
  <2>1. CASE FirstHalf
    BY <1>3, <2>1, Zenon DEF FirstHalf, Read, HalfInv, Gone, Older, SeqOf
  <2>2. CASE SecondHalf \/ WholePacket
    BY <2>2, Zenon DEF SecondHalf, WholePacket, HalfInv, SeqUnset
  <2> QED BY <2>1, <2>2 DEF Read
<1> QED BY <1>1, <1>2, <1>4 DEF RadioInv

LEMMA NextStep == RadioInv /\ [Next]_vars => RadioInv'
<1> SUFFICES ASSUME RadioInv, [Next]_vars PROVE RadioInv' OBVIOUS
<1>1. CASE \E p \in Packets : ServerSends(p)
  BY <1>1, ElsewhereStep DEF ServerSends, radio, far
<1>2. CASE Break \/ TryConnect \/ DropConnection \/ ReadAvailable
  BY <1>2, ElsewhereStep DEF Break, TryConnect, DropConnection, ReadAvailable, radio, far
<1>3. CASE FeedFlag \/ FeedEscape \/ FeedOutside \/ FeedByte
  BY <1>3, ElsewhereStep DEF FeedFlag, FeedEscape, FeedOutside, FeedByte, radio, far
<1>4. CASE Take
  <2>1. air = <<>> /\ UNCHANGED far
    BY <1>4 DEF Take, Feeds
  <2>2. CASE SendByRadio(Len(rx))
    BY <1>4, <2>1, <2>2, SendStep DEF Take
  <2>3. CASE UNCHANGED <<air, txSeqCtr>>
    BY <1>4, <2>1, <2>3, ElsewhereStep DEF Take, radio, far
  <2> QED BY <1>4, <2>2, <2>3 DEF Take
<1>5. CASE Arrive
  BY <1>5, ArriveStep
<1>6. CASE OtherStation \/ ReadFails \/ SetTxPower \/ FarTransmits
  BY <1>6, ChipStep DEF OtherStation, ReadFails, SetTxPower, FarTransmits
<1>7. CASE Read
  BY <1>7, ReadStep
<1>8. CASE Restart
  BY <1>8, RestartStep
<1>9. CASE UNCHANGED vars
  BY <1>9, ElsewhereStep DEF vars, radio, far
<1> QED BY <1>1, <1>2, <1>3, <1>4, <1>5, <1>6, <1>7, <1>8, <1>9 DEF Next

\* Frames about to be joined are of one sequence; when the node sent both
\* between restarts they are the halves of one packet, or a turn of the sequence apart.
THEOREM JoinsOnlyHalves == Spec => []HalvesMatch
<1>1. ASSUME RadioInv, chip.split, Continues
      PROVE  /\ half.split /\ SeqOf(half) = SeqOf(chip)
             /\ half.from = chip.from /\ half.from # 0 => Before(half, chip)
  <2>1. Gone(chip)
    BY <1>1, FrameFields DEF RadioInv, ChipInv
  <2>2. rxSeq = SeqOf(chip) /\ rxSeq # SeqUnset
    BY <1>1, <2>1, SeqOfNotUnset DEF Continues, Gone
  <2> QED BY <1>1, <2>2 DEF RadioInv, HalfInv, OrderInv
<1>2. RadioInv => HalvesMatch
  BY <1>1, Zenon DEF HalvesMatch, Before
<1> QED BY <1>2, InitStep, NextStep, PTL DEF Spec

-----------------------------------------------------------------------------
(* The bytes of a connection and what each stands for *)

\* A byte of the stream, by what it stands for: the flag that opens the n-th
\* packet, the escape before its i-th byte, that byte, the flag that closes it.
Tags == [n : Nat, i : Nat, ph : {"open", "esc", "byte", "close"}]
Tag(n, i, ph) == [n |-> n, i |-> i, ph |-> ph]

Special(b) == b \in {"flag", "esc"}

Legal(s, t) ==
    /\ t \in Tags /\ t.n <= Len(s)
    /\ t.ph # "close" => 1 <= t.n
    /\ t.ph \in {"open", "close"} => t.i = 0
    /\ t.ph \in {"esc", "byte"} => t.i \in 1..Len(s[t.n])
    /\ t.ph = "esc" => Special(s[t.n][t.i])

ByteAt(s, t) ==
    IF t.ph = "esc" THEN "esc"
    ELSE IF t.ph = "byte"
    THEN IF Special(s[t.n][t.i]) THEN Mask(s[t.n][t.i]) ELSE s[t.n][t.i]
    ELSE "flag"

Follows(s, t, u) ==
    \/ t.ph = "close" /\ u = Tag(t.n + 1, 0, "open")
    \/ /\ t.ph \in {"open", "byte"} /\ t.i < Len(s[t.n])
       /\ u = Tag(t.n, t.i + 1, IF Special(s[t.n][t.i + 1]) THEN "esc" ELSE "byte")
    \/ t.ph = "esc" /\ u = Tag(t.n, t.i, "byte")
    \/ t.ph \in {"open", "byte"} /\ t.i = Len(s[t.n]) /\ u = Tag(t.n, 0, "close")

\* g[0] is the last byte taken from the stream S, g[k] its k-th byte.
Tagged(s, g, S) ==
    /\ S \in Seq(Bytes)
    /\ g \in [Nat -> Tags]
    /\ \A k \in 0..Len(S) : Legal(s, g[k])
    /\ \A k \in 1..Len(S) : Follows(s, g[k - 1], g[k]) /\ S[k] = ByteAt(s, g[k])

-----------------------------------------------------------------------------
(* Lemmas about numbers and sequences *)

\* The least counterexample stands for induction over data.
LEMMA LeastNat ==
  ASSUME NEW T, T \subseteq Nat, T # {}
  PROVE  \E n \in T : \A m \in T : n <= m
<1> DEFINE R == OpToRel(<, Nat)
<1>1. IsWellFoundedOn(R, Nat)
  BY NatLessThanWellFounded
<1>2. \A x, y \in Nat : <<y, x>> \in R <=> y < x
  BY DEF OpToRel
<1> HIDE DEF R
<1>3. PICK x \in T : \A y \in T : ~(<<y, x>> \in R)
  BY <1>1, WFMin
<1>4. \A y \in T : ~(y < x)
  BY <1>2, <1>3
<1>5. \A y \in Nat : ~(y < x) => x <= y
  BY <1>3
<1> QED BY <1>4, <1>5

LEMMA HeadAndTail ==
  ASSUME NEW b \in Seq(Bytes), NEW w \in Seq(Bytes), b # <<>>
  PROVE  /\ Tail(b) \o w \in Seq(Bytes)
         /\ Len(b \o w) = Len(Tail(b) \o w) + 1
         /\ (b \o w)[1] = Head(b)
         /\ \A k \in 1..Len(Tail(b) \o w) : (Tail(b) \o w)[k] = (b \o w)[k + 1]
  OBVIOUS

LEMMA CutInTwo ==
  ASSUME NEW w \in Seq(Bytes), NEW n \in 1..Len(w)
  PROVE  /\ SubSeq(w, 1, n) \in Seq(Bytes) /\ SubSeq(w, n + 1, Len(w)) \in Seq(Bytes)
         /\ SubSeq(w, 1, n) \o SubSeq(w, n + 1, Len(w)) = <<>> \o w
  OBVIOUS

LEMMA CutShort ==
  ASSUME NEW b \in Seq(Bytes), NEW w \in Seq(Bytes), NEW n \in 0..Len(w)
  PROVE  /\ SubSeq(w, 1, n) \in Seq(Bytes)
         /\ b \o SubSeq(w, 1, n) \in Seq(Bytes)
         /\ Len(b \o SubSeq(w, 1, n)) <= Len(b \o w)
         /\ \A k \in 1..Len(b \o SubSeq(w, 1, n)) : (b \o SubSeq(w, 1, n))[k] = (b \o w)[k]
  OBVIOUS


LEMMA CatElements ==
  ASSUME NEW b \in Seq(Bytes), NEW w \in Seq(Bytes)
  PROVE  /\ b \o w \in Seq(Bytes) /\ Len(b \o w) = Len(b) + Len(w)
         /\ \A k \in 1..Len(b) : (b \o w)[k] = b[k]
         /\ \A k \in 1..Len(w) : (b \o w)[Len(b) + k] = w[k]
  OBVIOUS

-----------------------------------------------------------------------------
(* Lemmas about tags *)

LEMMA TagFields ==
  ASSUME NEW n \in Nat, NEW i \in Nat, NEW ph \in {"open", "esc", "byte", "close"}
  PROVE  /\ Tag(n, i, ph) \in Tags
         /\ Tag(n, i, ph).n = n /\ Tag(n, i, ph).i = i /\ Tag(n, i, ph).ph = ph
  BY DEF Tag, Tags

LEMMA MaskBytes ==
  /\ \A b \in Bytes : Special(b) <=> Mask(b) \in {"flag'", "esc'"}
  /\ \A b \in Bytes : Special(b) => Mask(Mask(b)) = b
  /\ \A b \in Bytes : ~Special(b) => b \in {"flag'", "esc'"}
  /\ \A b \in Bytes : Mask(b) \in Bytes
  BY DEF Bytes, Special, Mask

\* What each kind of byte looks like on the wire.
LEMMA ByteKinds ==
  ASSUME NEW s \in Seq(Seq(Bytes)), NEW t, Legal(s, t)
  PROVE  /\ ByteAt(s, t) \in Bytes
         /\ t.ph \in {"open", "close"} <=> ByteAt(s, t) = "flag"
         /\ t.ph = "esc" <=> ByteAt(s, t) = "esc"
         /\ t.ph = "byte" <=> ByteAt(s, t) \in {"flag'", "esc'"}
<1>1. t.n \in Nat /\ t.i \in Nat /\ t.ph \in {"open", "esc", "byte", "close"}
  BY DEF Legal, Tags
<1>2. CASE t.ph = "byte"
  <2>1. t.n \in 1..Len(s) /\ t.i \in 1..Len(s[t.n])
    BY <1>1, <1>2 DEF Legal
  <2>2. s[t.n][t.i] \in Bytes
    BY <2>1
  <2>3. ByteAt(s, t) \in {"flag'", "esc'"}
    BY <1>2, <2>2, MaskBytes DEF ByteAt
  <2> QED BY <1>2, <2>3 DEF Bytes
<1> QED BY <1>1, <1>2 DEF ByteAt, Bytes

\* A packet sent leaves what the bytes before it stand for.
LEMMA LegalGrows ==
  ASSUME NEW s \in Seq(Seq(Bytes)), NEW p \in Seq(Bytes), NEW t, Legal(s, t)
  PROVE  Legal(Append(s, p), t) /\ ByteAt(Append(s, p), t) = ByteAt(s, t)
<1>1. t.n \in Nat /\ t.n <= Len(s) /\ Len(Append(s, p)) = Len(s) + 1
  BY DEF Legal, Tags
<1>2. t.ph # "close" => Append(s, p)[t.n] = s[t.n]
  BY <1>1 DEF Legal
<1> QED BY <1>1, <1>2 DEF Legal, ByteAt

LEMMA TaggedGrows ==
  ASSUME NEW s \in Seq(Seq(Bytes)), NEW p \in Seq(Bytes), NEW g, NEW S, Tagged(s, g, S)
  PROVE  Tagged(Append(s, p), g, S)
<1>1. \A k \in 0..Len(S) : Legal(Append(s, p), g[k]) /\ ByteAt(Append(s, p), g[k]) = ByteAt(s, g[k])
  BY LegalGrows DEF Tagged
<1>2. ASSUME NEW k \in 1..Len(S)
      PROVE  Follows(Append(s, p), g[k - 1], g[k])
  <2>1. k - 1 \in 0..Len(S) /\ S \in Seq(Bytes)
    BY DEF Tagged
  <2>2. Legal(s, g[k - 1]) /\ Follows(s, g[k - 1], g[k])
    BY <2>1 DEF Tagged
  <2>3. g[k - 1].n \in Nat /\ g[k - 1].n <= Len(s)
    BY <2>2 DEF Legal, Tags
  <2>4. g[k - 1].ph # "close" => Append(s, p)[g[k - 1].n] = s[g[k - 1].n]
    BY <2>2, <2>3 DEF Legal
  <2> QED BY <2>2, <2>4, Zenon DEF Follows
<1>3. \A k \in 1..Len(S) : k \in 0..Len(S)
  BY DEF Tagged
<1> QED BY <1>1, <1>2, <1>3 DEF Tagged

\* One more byte.
LEMMA TaggedAppend ==
  ASSUME NEW s, NEW g, NEW S, Tagged(s, g, S),
         NEW u, Legal(s, u), Follows(s, g[Len(S)], u), NEW b \in Bytes, b = ByteAt(s, u)
  PROVE  \E h : Tagged(s, h, Append(S, b)) /\ h[0] = g[0] /\ h[Len(S) + 1] = u
<1> DEFINE h == [g EXCEPT ![Len(S) + 1] = u]
           R == Append(S, b)
<1>1. S \in Seq(Bytes) /\ g \in [Nat -> Tags] /\ u \in Tags
  BY DEF Tagged, Legal
<1>2. R \in Seq(Bytes) /\ Len(R) = Len(S) + 1 /\ R[Len(S) + 1] = ByteAt(s, u)
  BY <1>1
<1>3. \A k \in 1..Len(S) : R[k] = S[k]
  BY <1>1
<1>4. h \in [Nat -> Tags] /\ h[Len(S) + 1] = u /\ \A k \in 0..Len(S) : h[k] = g[k]
  BY <1>1
<1> HIDE DEF h, R
<1>5. ASSUME NEW k \in 0..Len(R) PROVE Legal(s, h[k])
  BY <1>1, <1>2, <1>4 DEF Tagged
<1>6. ASSUME NEW k \in 1..Len(R) PROVE Follows(s, h[k - 1], h[k]) /\ R[k] = ByteAt(s, h[k])
  <2>1. CASE k = Len(S) + 1
    <3>1. k - 1 = Len(S) /\ h[k - 1] = g[Len(S)]
      BY <1>1, <1>4, <2>1
    <3> QED BY <1>2, <1>4, <2>1, <3>1
  <2>2. CASE k # Len(S) + 1
    <3>1. k \in 1..Len(S) /\ k - 1 \in 0..Len(S) /\ k \in 0..Len(S)
      BY <1>1, <1>2, <2>2
    <3> QED BY <1>3, <1>4, <3>1 DEF Tagged
  <2> QED BY <2>1, <2>2
<1>7. Tagged(s, h, R)
  BY <1>2, <1>4, <1>5, <1>6 DEF Tagged
<1>8. h[0] = g[0]
  BY <1>1, <1>4
<1> QED BY <1>4, <1>7, <1>8 DEF R

\* More bytes, tagged from where these end.
LEMMA TaggedCat ==
  ASSUME NEW s, NEW g, NEW S, Tagged(s, g, S), NEW h, NEW F, Tagged(s, h, F), h[0] = g[Len(S)]
  PROVE  \E j : Tagged(s, j, S \o F) /\ j[0] = g[0] /\ j[Len(S \o F)] = h[Len(F)]
<1> DEFINE L == Len(S)
           j == [k \in Nat |-> IF k <= L THEN g[k] ELSE h[k - L]]
           R == S \o F
<1>1. S \in Seq(Bytes) /\ F \in Seq(Bytes) /\ L \in Nat
      /\ g \in [Nat -> Tags] /\ h \in [Nat -> Tags]
  BY DEF Tagged
<1>2. R \in Seq(Bytes) /\ Len(R) = L + Len(F) /\ Len(F) \in Nat
  BY <1>1
<1>3. /\ \A k \in 1..L : R[k] = S[k]
      /\ \A k \in 1..Len(F) : R[L + k] = F[k]
  BY <1>1, CatElements
<1>4. /\ j \in [Nat -> Tags] /\ \A k \in 0..L : j[k] = g[k]
      /\ \A k \in 1..Len(F) : j[L + k] = h[k]
  BY <1>1
<1>5. /\ \A k \in 0..L : Legal(s, g[k])
      /\ \A k \in 1..L : Follows(s, g[k - 1], g[k]) /\ S[k] = ByteAt(s, g[k])
  BY DEF Tagged
<1>6. /\ \A k \in 0..Len(F) : Legal(s, h[k])
      /\ \A k \in 1..Len(F) : Follows(s, h[k - 1], h[k]) /\ F[k] = ByteAt(s, h[k])
  BY DEF Tagged
<1>7. h[0] = g[L]
  OBVIOUS
<1> HIDE DEF L, j, R
<1>8. ASSUME NEW k \in 0..Len(R)
      PROVE  Legal(s, j[k]) /\ (k # 0 => Follows(s, j[k - 1], j[k]) /\ R[k] = ByteAt(s, j[k]))
  <2>1. CASE k <= L
    <3>1. k \in 0..L /\ (k # 0 => k \in 1..L /\ k - 1 \in 0..L)
      BY <1>1, <2>1
    <3> QED BY <1>3, <1>4, <1>5, <3>1
  <2>2. CASE ~(k <= L)
    <3> DEFINE m == k - L
    <3>1. m \in 1..Len(F) /\ m \in 0..Len(F) /\ k = L + m
      BY <1>1, <1>2, <2>2
    <3>2. k - 1 = L + (m - 1) /\ (m # 1 => m - 1 \in 1..Len(F)) /\ (m = 1 => k - 1 = L /\ m - 1 = 0) /\ L \in 0..L
      BY <1>1, <1>2, <3>1
    <3> HIDE DEF m
    <3>3. j[k] = h[m] /\ R[k] = F[m]
      BY <1>3, <1>4, <3>1
    <3>4. j[k - 1] = h[m - 1]
      BY <1>4, <1>7, <3>1, <3>2
    <3> QED BY <1>6, <3>1, <3>3, <3>4
  <2> QED BY <2>1, <2>2
<1>9. Tagged(s, j, R)
  <2>1. \A k \in 1..Len(R) : k \in 0..Len(R) /\ k # 0
    BY <1>2
  <2> QED BY <1>2, <1>4, <1>8, <2>1 DEF Tagged
<1>10. j[0] = g[0] /\ j[Len(R)] = h[Len(F)]
  <2>1. CASE Len(F) = 0
    BY <1>1, <1>2, <1>4, <1>7, <2>1
  <2>2. CASE Len(F) # 0
    BY <1>1, <1>2, <1>4, <2>2
  <2> QED BY <2>1, <2>2
<1> QED BY <1>9, <1>10 DEF R

\* The first byte is taken.
LEMMA TaggedTail ==
  ASSUME NEW s, NEW g, NEW S, Tagged(s, g, S), NEW R \in Seq(Bytes), Len(S) = Len(R) + 1,
         \A k \in 1..Len(R) : R[k] = S[k + 1]
  PROVE  \E h : Tagged(s, h, R) /\ h[0] = g[1] /\ h[Len(R)] = g[Len(S)]
<1> DEFINE h == [k \in Nat |-> g[k + 1]]
<1>1. S \in Seq(Bytes) /\ g \in [Nat -> Tags] /\ Len(R) \in Nat
  BY DEF Tagged
<1>2. h \in [Nat -> Tags] /\ \A k \in Nat : h[k] = g[k + 1]
  BY <1>1
<1> HIDE DEF h
<1>3. ASSUME NEW k \in 0..Len(R) PROVE Legal(s, h[k])
  <2>1. k + 1 \in 0..Len(S) /\ k \in Nat
    BY <1>1
  <2> QED BY <1>2, <2>1 DEF Tagged
<1>4. ASSUME NEW k \in 1..Len(R) PROVE Follows(s, h[k - 1], h[k]) /\ R[k] = ByteAt(s, h[k])
  <2>1. k + 1 \in 1..Len(S) /\ k \in Nat /\ k - 1 \in Nat /\ (k - 1) + 1 = (k + 1) - 1
    BY <1>1
  <2>2. h[k] = g[k + 1] /\ h[k - 1] = g[(k + 1) - 1]
    BY <1>2, <2>1
  <2> QED BY <2>1, <2>2 DEF Tagged
<1>5. h[0] = g[1] /\ h[Len(R)] = g[Len(S)]
  BY <1>1, <1>2
<1> QED BY <1>2, <1>3, <1>4, <1>5 DEF Tagged

\* The last bytes are lost.
LEMMA TaggedCut ==
  ASSUME NEW s, NEW g, NEW S, Tagged(s, g, S), NEW R \in Seq(Bytes), Len(R) <= Len(S),
         \A k \in 1..Len(R) : R[k] = S[k]
  PROVE  Tagged(s, g, R)
<1>1. S \in Seq(Bytes) /\ \A k \in 0..Len(R) : k \in 0..Len(S)
  BY DEF Tagged
<1>2. \A k \in 1..Len(R) : k \in 1..Len(S)
  BY <1>1
<1> QED BY <1>1, <1>2 DEF Tagged

-----------------------------------------------------------------------------
(* What Framed makes of a packet *)

EscapeOf(b) == IF b \in {"flag", "esc"} THEN <<"esc", Mask(b)>> ELSE <<b>>

\* The recursion of Framed, and as far as it has come after n bytes.
Escapes(e, p) == e = [i \in 0..Len(p) |-> IF i = 0 THEN <<>> ELSE e[i - 1] \o EscapeOf(p[i])]

EscapesTo(e, p, n) ==
    /\ e = [i \in 0..n |-> e[i]] /\ e[0] = <<>>
    /\ \A i \in 1..n : e[i] = e[i - 1] \o EscapeOf(p[i])

LEMMA EscapesOne ==
  ASSUME NEW p, NEW n \in Nat \ {0}, NEW e, EscapesTo(e, p, n - 1)
  PROVE  \E f : EscapesTo(f, p, n)
<1> DEFINE last == e[n - 1] \o EscapeOf(p[n])
           f == [i \in 0..n |-> IF i < n THEN e[i] ELSE last]
<1>1. /\ \A i \in 0..n : i < n => f[i] = e[i]
      /\ f[n] = last
  <2> HIDE DEF last
  <2> QED OBVIOUS
<1>2. f = [i \in 0..n |-> f[i]]
  <2> HIDE DEF last
  <2> QED OBVIOUS
<1> HIDE DEF f
<1>3. f[0] = <<>>
  BY <1>1 DEF EscapesTo
<1>4. ASSUME NEW i \in 1..n PROVE f[i] = f[i - 1] \o EscapeOf(p[i])
  <2>1. i - 1 \in 0..n /\ i - 1 < n /\ i \in 0..n
    OBVIOUS
  <2>2. f[i - 1] = e[i - 1]
    BY <1>1, <2>1
  <2>3. CASE i < n
    <3>1. i \in 1..(n - 1)
      BY <2>3
    <3>2. f[i] = e[i]
      BY <1>1, <2>1, <2>3
    <3> QED BY <2>2, <3>1, <3>2 DEF EscapesTo
  <2>4. CASE ~(i < n)
    <3>1. i = n
      BY <2>4
    <3> QED BY <1>1, <2>2, <3>1
  <2> QED BY <2>3, <2>4
<1> QED BY <1>2, <1>3, <1>4 DEF EscapesTo

LEMMA EscapesAll ==
  ASSUME NEW p, NEW n \in Nat
  PROVE  \E e : EscapesTo(e, p, n)
<1> DEFINE Missing == {m \in Nat : ~(\E e : EscapesTo(e, p, m))}
<1>1. ASSUME Missing # {} PROVE FALSE
  <2>1. \E m \in Missing : \A k \in Missing : m <= k
    <3>1. Missing \subseteq Nat
      OBVIOUS
    <3> HIDE DEF Missing
    <3> QED BY <1>1, <3>1, LeastNat
  <2>2. PICK m \in Missing : \A k \in Missing : m <= k
    BY <2>1
  <2>3. m \in Nat /\ ~(\E e : EscapesTo(e, p, m))
    OBVIOUS
  <2>4. CASE m = 0
    <3> DEFINE f == [i \in 0..0 |-> <<>>]
    <3>1. EscapesTo(f, p, 0)
      BY DEF EscapesTo
    <3> QED BY <2>3, <2>4, <3>1
  <2>5. CASE m # 0
    <3>1. m \in Nat \ {0} /\ m - 1 \in Nat /\ ~(m <= m - 1)
      BY <2>3, <2>5
    <3>2. m - 1 \notin Missing
      <4> HIDE DEF Missing
      <4> QED BY <2>2, <3>1
    <3>3. PICK e : EscapesTo(e, p, m - 1)
      BY <3>1, <3>2
    <3> QED BY <2>3, <3>1, <3>3, EscapesOne
  <2> QED BY <2>4, <2>5
<1> QED BY <1>1

LEMMA EscapesExists ==
  ASSUME NEW p \in Seq(Bytes)
  PROVE  \E e : Escapes(e, p)
<1>1. Len(p) \in Nat
  OBVIOUS
<1>2. PICK e : EscapesTo(e, p, Len(p))
  BY <1>1, EscapesAll
<1>3. \A i \in 0..Len(p) : e[i] = IF i = 0 THEN <<>> ELSE e[i - 1] \o EscapeOf(p[i])
  BY <1>1, <1>2 DEF EscapesTo
<1>4. e = [i \in 0..Len(p) |-> e[i]]
  BY <1>2 DEF EscapesTo
<1>5. Escapes(e, p)
  BY <1>3, <1>4 DEF Escapes
<1> QED BY <1>5

LEMMA FramedIs ==
  ASSUME NEW p \in Seq(Bytes)
  PROVE  \E e : Escapes(e, p) /\ Framed(p) = <<"flag">> \o e[Len(p)] \o <<"flag">>
<1> DEFINE E == CHOOSE e : Escapes(e, p)
<1>1. Escapes(E, p)
  BY EscapesExists
<1>2. Framed(p) = <<"flag">> \o E[Len(p)] \o <<"flag">>
  BY DEF Framed, Escapes, EscapeOf
<1> QED BY <1>1, <1>2

\* Where a packet is: at its opening flag, or at one of its bytes.
At(n, i) == Tag(n, i, IF i = 0 THEN "open" ELSE "byte")

LEMMA AtFields ==
  ASSUME NEW n \in Nat, NEW i \in Nat
  PROVE  At(n, i).n = n /\ At(n, i).i = i /\ At(n, i).ph \in {"open", "byte"}
  BY TagFields DEF At

\* The opening flag and i bytes of the n-th packet, each for what it stands for.
Opening(s, n, b, i) ==
    /\ b \in Seq(Bytes)
    /\ \E h : Tagged(s, h, b) /\ h[0] = Tag(n - 1, 0, "close") /\ h[Len(b)] = At(n, i)

LEMMA OpeningFlag ==
  ASSUME NEW s \in Seq(Seq(Bytes)), NEW n \in 1..Len(s)
  PROVE  Opening(s, n, <<"flag">>, 0)
<1> DEFINE c == Tag(n - 1, 0, "close")
           o == At(n, 0)
           start == [k \in Nat |-> c]
           none == <<>>
<1>1. n \in Nat /\ n - 1 \in Nat /\ (n - 1) + 1 = n /\ 1 <= n /\ n <= Len(s) /\ n - 1 <= Len(s)
  OBVIOUS
<1>2. c \in Tags /\ c.n = n - 1 /\ c.i = 0 /\ c.ph = "close"
  BY <1>1, TagFields
<1>3. o \in Tags /\ o.n = n /\ o.i = 0 /\ o.ph = "open" /\ o = Tag(n, 0, "open")
  BY <1>1, TagFields DEF At
<1> HIDE DEF c, o
<1>4. Legal(s, c) /\ Legal(s, o) /\ ByteAt(s, o) = "flag" /\ Follows(s, c, o)
  BY <1>1, <1>2, <1>3 DEF Legal, ByteAt, Follows
<1>5. Tagged(s, start, none) /\ start[0] = c /\ Len(none) = 0
  BY <1>2, <1>4 DEF Tagged
<1>6. "flag" \in Bytes
  BY DEF Bytes
<1> HIDE DEF start
<1>7. PICK h : Tagged(s, h, Append(none, "flag")) /\ h[0] = start[0] /\ h[Len(none) + 1] = o
  <2> HIDE DEF none
  <2>1. Follows(s, start[Len(none)], o) /\ Legal(s, o) /\ Tagged(s, start, none)
    BY <1>4, <1>5
  <2> DEFINE b == "flag"
  <2>2. b \in Bytes /\ b = ByteAt(s, o)
    BY <1>4, <1>6
  <2> HIDE DEF b
  <2>3. \E h : Tagged(s, h, Append(none, b)) /\ h[0] = start[0] /\ h[Len(none) + 1] = o
    BY <2>1, <2>2, TaggedAppend
  <2> QED BY <2>3 DEF b
<1>8. Append(none, "flag") = <<"flag">> /\ Len(none) + 1 = Len(<<"flag">>) /\ <<"flag">> \in Seq(Bytes)
  BY <1>6
<1>9. Tagged(s, h, <<"flag">>) /\ h[0] = c /\ h[Len(<<"flag">>)] = o
  BY <1>5, <1>7, <1>8
<1> QED BY <1>8, <1>9 DEF Opening, c, o

LEMMA CatAssoc ==
  ASSUME NEW b \in Seq(Bytes), NEW w \in Seq(Bytes), NEW f \in Seq(Bytes)
  PROVE  b \o (w \o f) = (b \o w) \o f
  OBVIOUS

LEMMA CatTwo ==
  ASSUME NEW S \in Seq(Bytes), NEW b \in Bytes, NEW c \in Bytes
  PROVE  Append(Append(S, b), c) = S \o <<b, c>>
  OBVIOUS

LEMMA OpeningMore ==
  ASSUME NEW s, NEW n, NEW m, NEW b, NEW w, NEW z, NEW g,
         b \in Seq(Bytes), w \in Seq(Bytes), z \in Seq(Bytes), g = w \o z,
         Opening(s, n, (b \o w) \o z, m)
  PROVE  Opening(s, n, b \o g, m)
<1>1. b \o g = (b \o w) \o z
  BY CatAssoc, Zenon
<1> QED BY <1>1

LEMMA OpeningByte ==
  ASSUME NEW s \in Seq(Seq(Bytes)), NEW n \in 1..Len(s), NEW m \in 1..Len(s[n]),
         NEW S, Opening(s, n, S, m - 1)
  PROVE  Opening(s, n, S \o EscapeOf(s[n][m]), m)
<1> DEFINE x == s[n][m]
           t == At(n, m - 1)
           u == Tag(n, m, "byte")
           v == Tag(n, m, "esc")
<1>1. s[n] \in Seq(Bytes) /\ x \in Bytes
  OBVIOUS
<1>2. n \in Nat /\ 1 <= n /\ n <= Len(s) /\ m \in Nat /\ m - 1 \in Nat /\ (m - 1) + 1 = m /\ m # 0
      /\ m - 1 < Len(s[n])
  BY <1>1
<1>3. PICK h : Tagged(s, h, S) /\ h[0] = Tag(n - 1, 0, "close") /\ h[Len(S)] = t
  BY DEF Opening
<1>4. S \in Seq(Bytes) /\ Len(S) \in Nat
  BY DEF Opening
<1>5. t.n = n /\ t.i = m - 1 /\ t.ph \in {"open", "byte"} /\ u = At(n, m)
  BY <1>2, AtFields DEF At
<1>6. /\ u \in Tags /\ u.n = n /\ u.i = m /\ u.ph = "byte"
      /\ v \in Tags /\ v.n = n /\ v.i = m /\ v.ph = "esc"
  BY <1>2, TagFields
<1>7. Follows(s, t, IF Special(x) THEN v ELSE u)
  <2>1. t.ph \in {"open", "byte"} /\ t.i < Len(s[t.n])
    BY <1>2, <1>5
  <2>2. (IF Special(x) THEN v ELSE u) = Tag(t.n, t.i + 1, IF Special(s[t.n][t.i + 1]) THEN "esc" ELSE "byte")
    <3>1. t.i + 1 = m
      BY <1>2, <1>5
    <3>2. Special(s[t.n][t.i + 1]) <=> Special(x)
      BY <1>5, <3>1
    <3> QED BY <1>5, <3>1, <3>2, Zenon
  <2> QED BY <2>1, <2>2, Zenon DEF Follows
<1>8. /\ Legal(s, u) /\ (Special(x) => Legal(s, v)) /\ ByteAt(s, v) = "esc"
      /\ ByteAt(s, u) = IF Special(x) THEN Mask(x) ELSE x
  <2> HIDE DEF u, v
  <2> QED BY <1>2, <1>6 DEF Legal, ByteAt
<1>9. Follows(s, v, u)
  <2>1. u = Tag(v.n, v.i, "byte")
    BY <1>6
  <2> QED BY <1>6, <2>1 DEF Follows
<1> HIDE DEF t, u, v
<1>10. CASE ~Special(x)
  <2>1. EscapeOf(x) = <<x>> /\ ByteAt(s, u) = x
    BY <1>8, <1>10 DEF EscapeOf, Special
  <2>2. Follows(s, h[Len(S)], u)
    BY <1>3, <1>7, <1>10
  <2> HIDE DEF x
  <2>3. PICK g : Tagged(s, g, Append(S, x)) /\ g[0] = h[0] /\ g[Len(S) + 1] = u
    BY <1>1, <1>3, <1>8, <2>1, <2>2, TaggedAppend
  <2>4. Append(S, x) = S \o EscapeOf(x) /\ Append(S, x) \in Seq(Bytes) /\ Len(Append(S, x)) = Len(S) + 1
    BY <1>1, <1>4, <2>1
  <2>5. Opening(s, n, Append(S, x), m)
    BY <1>3, <1>5, <2>3, <2>4 DEF Opening
  <2> QED BY <2>4, <2>5 DEF x
<1>11. CASE Special(x)
  <2>1. EscapeOf(x) = <<"esc", Mask(x)>> /\ ByteAt(s, u) = Mask(x)
    BY <1>8, <1>11 DEF EscapeOf, Special
  <2>2. Follows(s, h[Len(S)], v)
    BY <1>3, <1>7, <1>11
  <2>3. "esc" \in Bytes /\ Mask(x) \in Bytes
    BY <1>1, MaskBytes DEF Bytes
  <2> HIDE DEF x
  <2>4. PICK g : Tagged(s, g, Append(S, "esc")) /\ g[0] = h[0] /\ g[Len(S) + 1] = v
    <3> DEFINE b == "esc"
    <3>1. /\ b \in Bytes /\ b = ByteAt(s, v) /\ Legal(s, v)
          /\ Tagged(s, h, S) /\ Follows(s, h[Len(S)], v)
      BY <1>3, <1>8, <1>11, <2>2, <2>3 DEF x
    <3> HIDE DEF b
    <3>2. \E g : Tagged(s, g, Append(S, b)) /\ g[0] = h[0] /\ g[Len(S) + 1] = v
      BY <3>1, TaggedAppend
    <3> QED BY <3>2 DEF b
  <2> DEFINE R == Append(S, "esc")
  <2>5. R \in Seq(Bytes) /\ Len(R) = Len(S) + 1
    BY <1>4, <2>3
  <2>6. Append(R, Mask(x)) = S \o <<"esc", Mask(x)>>
        /\ Append(R, Mask(x)) \in Seq(Bytes) /\ Len(Append(R, Mask(x))) = Len(R) + 1
    <3> DEFINE y == Mask(x)
    <3>1. y \in Bytes
      BY <2>3
    <3> HIDE DEF y
    <3>2. Append(R, y) = S \o <<"esc", y>>
      BY <1>4, <2>3, <3>1, CatTwo
    <3>3. Append(R, y) \in Seq(Bytes) /\ Len(Append(R, y)) = Len(R) + 1
      <4> HIDE DEF R
      <4> QED BY <2>5, <3>1
    <3> QED BY <3>2, <3>3 DEF y
  <2> HIDE DEF R
  <2>7. Follows(s, g[Len(R)], u) /\ Tagged(s, g, R)
    BY <1>9, <2>4, <2>5 DEF R
  <2>8. PICK f : Tagged(s, f, Append(R, Mask(x))) /\ f[0] = g[0] /\ f[Len(R) + 1] = u
    BY <1>8, <2>1, <2>3, <2>7, TaggedAppend
  <2>9. Opening(s, n, Append(R, Mask(x)), m)
    BY <1>3, <1>5, <2>4, <2>6, <2>8 DEF Opening
  <2> QED BY <2>1, <2>6, <2>9 DEF x
<1> QED BY <1>10, <1>11

\* The induction is over the number of bytes escaped.
LEMMA OpeningEscaped ==
  ASSUME NEW s \in Seq(Seq(Bytes)), NEW n \in 1..Len(s), NEW e, Escapes(e, s[n]),
         NEW i \in 0..Len(s[n])
  PROVE  Opening(s, n, <<"flag">> \o e[i], i) /\ e[i] \in Seq(Bytes)
<1> DEFINE l == Len(s[n])
           Good(m) == Opening(s, n, <<"flag">> \o e[m], m) /\ e[m] \in Seq(Bytes)
           Bad == {m \in 0..l : ~Good(m)}
<1>1. s[n] \in Seq(Bytes) /\ l \in Nat /\ "flag" \in Bytes
  BY DEF Bytes
<1>2. e[0] = <<>> /\ \A m \in 1..l : e[m] = e[m - 1] \o EscapeOf(s[n][m])
  <2>1. \A m \in 0..l : e[m] = IF m = 0 THEN <<>> ELSE e[m - 1] \o EscapeOf(s[n][m])
    <3> DEFINE body(m) == IF m = 0 THEN <<>> ELSE e[m - 1] \o EscapeOf(s[n][m])
    <3>1. e = [m \in 0..l |-> body(m)]
      BY DEF Escapes
    <3> HIDE DEF body
    <3>2. \A m \in 0..l : e[m] = body(m)
      BY <3>1
    <3> QED BY <3>2 DEF body
  <2>2. 0 \in 0..l /\ \A m \in 1..l : m \in 0..l /\ m # 0
    BY <1>1
  <2> HIDE DEF l
  <2> QED BY <2>1, <2>2, Zenon
<1>3. Good(0)
  <2>1. <<"flag">> \o e[0] = <<"flag">> /\ e[0] \in Seq(Bytes)
    BY <1>2
  <2> QED BY <2>1, OpeningFlag
<1>4. ASSUME NEW m \in 1..l, Good(m - 1) PROVE Good(m)
  <2> DEFINE x == EscapeOf(s[n][m])
  <2>1. x \in Seq(Bytes)
    <3> DEFINE b == s[n][m]
    <3>1. b \in Bytes /\ Mask(b) \in Bytes /\ "esc" \in Bytes
      <4>1. b \in Bytes
        BY <1>1
      <4> QED BY <4>1, MaskBytes DEF Bytes
    <3> HIDE DEF b
    <3>2. EscapeOf(b) \in Seq(Bytes)
      BY <3>1 DEF EscapeOf
    <3> QED BY <3>2 DEF b
  <2>2. Opening(s, n, (<<"flag">> \o e[m - 1]) \o x, m)
    BY <1>4, OpeningByte
  <2>3. e[m] = e[m - 1] \o x
    BY <1>2
  <2> HIDE DEF x
  <2>4. <<"flag">> \in Seq(Bytes) /\ e[m - 1] \in Seq(Bytes)
    BY <1>1, <1>4
  <2>5. Opening(s, n, <<"flag">> \o e[m], m) /\ e[m] \in Seq(Bytes)
    <3> HIDE DEF Good, Bad, l
    <3>1. Opening(s, n, <<"flag">> \o e[m], m)
      BY <2>1, <2>2, <2>3, <2>4, OpeningMore, Zenon
    <3>2. e[m] \in Seq(Bytes)
      BY <2>1, <2>3, <2>4
    <3> QED BY <3>1, <3>2
  <2> QED BY <2>5
<1> HIDE DEF Good
<1>5. ASSUME Bad # {} PROVE FALSE
  <2>1. Bad \subseteq Nat
    BY <1>1
  <2>2. PICK m \in Bad : \A k \in Bad : m <= k
    <3> HIDE DEF Bad
    <3> QED BY <1>5, <2>1, LeastNat
  <2>3. m \in 0..l /\ ~Good(m)
    OBVIOUS
  <2>4. m # 0
    BY <1>3, <2>3
  <2>5. m \in 1..l /\ m - 1 \in 0..l /\ ~(m <= m - 1)
    BY <1>1, <2>3, <2>4
  <2>6. m - 1 \notin Bad
    BY <2>2, <2>5
  <2>7. Good(m - 1)
    BY <2>5, <2>6
  <2> QED BY <1>4, <2>3, <2>5, <2>7
<1> QED BY <1>5 DEF Good

\* The frame of the n-th packet, from the flag before it to its own.
LEMMA FramedTagged ==
  ASSUME NEW s \in Seq(Seq(Bytes)), NEW n \in 1..Len(s)
  PROVE  /\ Framed(s[n]) \in Seq(Bytes)
         /\ \E h : /\ Tagged(s, h, Framed(s[n]))
                   /\ h[0] = Tag(n - 1, 0, "close") /\ h[Len(Framed(s[n]))] = Tag(n, 0, "close")
<1> DEFINE p == s[n]
           l == Len(p)
           c == Tag(n, 0, "close")
<1>1. s[n] \in Seq(Bytes) /\ n \in Nat /\ n <= Len(s)
  OBVIOUS
<1>2. l \in Nat /\ l \in 0..l
  BY <1>1
<1>3. PICK e : Escapes(e, p) /\ Framed(p) = <<"flag">> \o e[l] \o <<"flag">>
  BY <1>1, FramedIs
<1> DEFINE S == <<"flag">> \o e[l]
<1>4. Opening(s, n, S, l) /\ e[l] \in Seq(Bytes)
  BY <1>2, <1>3, OpeningEscaped
<1>5. PICK h : Tagged(s, h, S) /\ h[0] = Tag(n - 1, 0, "close") /\ h[Len(S)] = At(n, l)
  BY <1>4 DEF Opening
<1>6. Legal(s, c) /\ ByteAt(s, c) = "flag" /\ "flag" \in Bytes
  BY <1>1, TagFields DEF Legal, ByteAt, Bytes
<1>7. Follows(s, At(n, l), c)
  <2>1. At(n, l).n = n /\ At(n, l).i = l /\ At(n, l).ph \in {"open", "byte"}
    <3> HIDE DEF l
    <3> QED BY <1>1, <1>2, AtFields
  <2> QED BY <2>1 DEF Follows
<1>8. S \in Seq(Bytes) /\ Append(S, "flag") = Framed(p) /\ Len(Framed(p)) = Len(S) + 1 /\ Framed(p) \in Seq(Bytes)
  <2> HIDE DEF l
  <2> QED BY <1>3, <1>4, <1>6
<1>9. PICK g : Tagged(s, g, Append(S, "flag")) /\ g[0] = h[0] /\ g[Len(S) + 1] = c
  <2> HIDE DEF S, c
  <2>1. Follows(s, h[Len(S)], c)
    BY <1>5, <1>7
  <2> QED BY <1>5, <1>6, <2>1, TaggedAppend
<1> HIDE DEF S
<1>10. Framed(p) \in Seq(Bytes) /\ Tagged(s, g, Framed(p))
       /\ g[0] = Tag(n - 1, 0, "close") /\ g[Len(Framed(p))] = c
  BY <1>5, <1>8, <1>9
<1> QED BY <1>10

-----------------------------------------------------------------------------
(* feed(): the state of the frame after a byte that stands for t *)

Holds(r, p, j) == r \in Seq(Bytes) /\ Len(r) = j /\ \A k \in 1..j : r[k] = p[k]

\* o: the packets sent before the connection, whose last flag was not read.
Cut(in, esc, r, o, s, t) ==
    \/ t.ph = "close" /\ t.n = o /\ in = FALSE /\ esc = FALSE /\ r = <<>>
    \/ t.ph \in {"open", "close"} /\ in = TRUE /\ esc = FALSE /\ r = <<>>
    \/ t.ph = "byte" /\ t.i <= 2 * Mtu /\ in = TRUE /\ esc = FALSE /\ Holds(r, s[t.n], t.i)
    \/ t.ph = "esc" /\ t.i <= 2 * Mtu + 1 /\ in = TRUE /\ esc = TRUE /\ Holds(r, s[t.n], t.i - 1)
    \/ t.ph = "byte" /\ t.i > 2 * Mtu /\ in = FALSE /\ esc = FALSE /\ r = <<>>
    \/ t.ph = "esc" /\ t.i > 2 * Mtu + 1 /\ in = FALSE /\ esc = FALSE /\ r = <<>>

LEMMA HoldsAll ==
  ASSUME NEW p \in Seq(Bytes), NEW r
  PROVE  /\ Holds(r, p, Len(p)) => r = p
         /\ Holds(<<>>, p, 0)
  BY DEF Holds

LEMMA HoldsMore ==
  ASSUME NEW p \in Seq(Bytes), NEW i \in 1..Len(p), NEW r, Holds(r, p, i - 1)
  PROVE  Holds(Append(r, p[i]), p, i)
<1>1. r \in Seq(Bytes) /\ Len(r) = i - 1 /\ p[i] \in Bytes /\ i \in Nat
  BY DEF Holds
<1>2. Append(r, p[i]) \in Seq(Bytes) /\ Len(Append(r, p[i])) = i
  BY <1>1
<1>3. ASSUME NEW k \in 1..i PROVE Append(r, p[i])[k] = p[k]
  <2>1. CASE k = i
    BY <1>1, <2>1
  <2>2. CASE k # i
    <3>1. k \in 1..(i - 1)
      BY <1>1, <2>2
    <3> QED BY <1>1, <3>1 DEF Holds
  <2> QED BY <2>1, <2>2
<1> QED BY <1>2, <1>3 DEF Holds

LEMMA TagParts ==
  ASSUME NEW s \in Seq(Seq(Bytes)), NEW t, Legal(s, t)
  PROVE  /\ t.n \in Nat /\ t.i \in Nat /\ t.n <= Len(s)
         /\ t.ph \in {"open", "esc", "byte", "close"}
         /\ t.ph # "close" => t.n \in 1..Len(s) /\ s[t.n] \in Seq(Bytes) /\ Len(s[t.n]) \in Nat
         /\ t.ph \in {"open", "close"} => t.i = 0
         /\ t.ph \in {"esc", "byte"} => t.i \in 1..Len(s[t.n])
<1>1. t.n \in Nat /\ t.i \in Nat /\ t.n <= Len(s) /\ t.ph \in {"open", "esc", "byte", "close"}
  BY DEF Legal, Tags
<1>2. t.ph # "close" => t.n \in 1..Len(s)
  BY <1>1 DEF Legal
<1> QED BY <1>1, <1>2 DEF Legal

\* What comes before each kind of byte.
LEMMA FollowsParts ==
  ASSUME NEW s \in Seq(Seq(Bytes)), NEW t, NEW u, Legal(s, t), Legal(s, u), Follows(s, t, u)
  PROVE  /\ u.ph = "open" => t.ph = "close" /\ u.n = t.n + 1
         /\ u.ph = "close" => t.ph \in {"open", "byte"} /\ u.n = t.n /\ t.i = Len(s[t.n])
         /\ u.ph = "esc" => /\ t.ph \in {"open", "byte"} /\ u.n = t.n /\ u.i = t.i + 1
                            /\ Special(s[u.n][u.i])
         /\ u.ph = "byte" => \/ /\ t.ph \in {"open", "byte"} /\ u.n = t.n /\ u.i = t.i + 1
                                /\ ~Special(s[u.n][u.i])
                             \/ t.ph = "esc" /\ u.n = t.n /\ u.i = t.i
<1>1. t.n \in Nat /\ t.i \in Nat /\ t.n + 1 \in Nat /\ t.i + 1 \in Nat
  BY TagParts
<1>2. CASE t.ph = "close" /\ u = Tag(t.n + 1, 0, "open")
  <2>1. u.n = t.n + 1 /\ u.ph = "open"
    BY <1>2 DEF Tag
  <2> QED BY <1>2, <2>1
<1>3. CASE /\ t.ph \in {"open", "byte"} /\ t.i < Len(s[t.n])
           /\ u = Tag(t.n, t.i + 1, IF Special(s[t.n][t.i + 1]) THEN "esc" ELSE "byte")
  <2>1. CASE Special(s[t.n][t.i + 1])
    <3>1. u = Tag(t.n, t.i + 1, "esc")
      BY <1>3, <2>1
    <3>2. u.n = t.n /\ u.i = t.i + 1 /\ u.ph = "esc"
      BY <3>1 DEF Tag
    <3>3. t.ph \in {"open", "byte"} /\ Special(s[u.n][u.i])
      BY <1>3, <2>1, <3>2
    <3> QED BY <3>2, <3>3
  <2>2. CASE ~Special(s[t.n][t.i + 1])
    <3>1. u = Tag(t.n, t.i + 1, "byte")
      BY <1>3, <2>2
    <3>2. u.n = t.n /\ u.i = t.i + 1 /\ u.ph = "byte"
      BY <3>1 DEF Tag
    <3>3. t.ph \in {"open", "byte"} /\ ~Special(s[u.n][u.i])
      BY <1>3, <2>2, <3>2
    <3> QED BY <3>2, <3>3
  <2> QED BY <2>1, <2>2
<1>4. CASE t.ph = "esc" /\ u = Tag(t.n, t.i, "byte")
  <2>1. u.n = t.n /\ u.i = t.i /\ u.ph = "byte"
    BY <1>4 DEF Tag
  <2>2. t.ph = "esc"
    BY <1>4
  <2> QED BY <2>1, <2>2
<1>5. CASE t.ph \in {"open", "byte"} /\ t.i = Len(s[t.n]) /\ u = Tag(t.n, 0, "close")
  <2>1. u.n = t.n /\ u.ph = "close"
    BY <1>5 DEF Tag
  <2>2. t.ph \in {"open", "byte"} /\ t.i = Len(s[t.n])
    BY <1>5
  <2> QED BY <2>1, <2>2
<1> QED BY <1>2, <1>3, <1>4, <1>5 DEF Follows

LEMMA CutOpen ==
  ASSUME NEW s \in Seq(Seq(Bytes)), NEW t, NEW u, Legal(s, t), Legal(s, u), Follows(s, t, u),
         NEW in, NEW esc, NEW r, NEW o, Cut(in, esc, r, o, s, t), u.ph = "open"
  PROVE  r = <<>>
  BY FollowsParts DEF Cut

\* The flag that closes a packet finds it whole, unless there was no room.
LEMMA CutClose ==
  ASSUME NEW s \in Seq(Seq(Bytes)), NEW t, NEW u, Legal(s, t), Legal(s, u), Follows(s, t, u),
         NEW in, NEW esc, NEW r, NEW o, Cut(in, esc, r, o, s, t), u.ph = "close"
  PROVE  /\ u.n \in 1..Len(s)
         /\ (in = TRUE /\ r = s[u.n]) \/ (in = FALSE /\ r = <<>> /\ 2 * Mtu < Len(s[u.n]))
<1>1. t.ph \in {"open", "byte"} /\ u.n = t.n /\ t.i = Len(s[t.n])
  BY FollowsParts
<1>2. t.n \in 1..Len(s) /\ s[t.n] \in Seq(Bytes)
  BY <1>1, TagParts
<1>3. CASE t.ph = "open"
  <2>1. t.i = 0 /\ in = TRUE /\ r = <<>>
    BY <1>3, TagParts DEF Cut
  <2>2. r = s[t.n]
    BY <1>1, <1>2, <2>1, HoldsAll
  <2> QED BY <1>1, <1>2, <2>1, <2>2
<1>4. CASE t.ph = "byte"
  <2>1. \/ in = TRUE /\ Holds(r, s[t.n], t.i)
        \/ in = FALSE /\ r = <<>> /\ t.i > 2 * Mtu
    BY <1>4 DEF Cut
  <2>2. Holds(r, s[t.n], t.i) => r = s[t.n]
    BY <1>1, <1>2, HoldsAll
  <2>3. t.i > 2 * Mtu => 2 * Mtu < Len(s[u.n])
    BY <1>1, <1>2, LinksAssumption DEF LinksAssumption
  <2> QED BY <1>1, <1>2, <2>1, <2>2, <2>3
<1> QED BY <1>1, <1>3, <1>4

LEMMA CutEscape ==
  ASSUME NEW s \in Seq(Seq(Bytes)), NEW t, NEW u, Legal(s, t), Legal(s, u), Follows(s, t, u),
         NEW in, NEW esc, NEW r, NEW o, Cut(in, esc, r, o, s, t), u.ph = "esc"
  PROVE  Cut(in, in, r, o, s, u)
<1>1. t.ph \in {"open", "byte"} /\ u.n = t.n /\ u.i = t.i + 1
  BY FollowsParts
<1>2. t.i \in Nat /\ u.i \in Nat /\ u.i - 1 = t.i /\ t.n \in 1..Len(s) /\ s[t.n] \in Seq(Bytes)
  BY <1>1, TagParts
<1>3. CASE t.ph = "open"
  <2>1. t.i = 0 /\ in = TRUE /\ r = <<>>
    BY <1>3, TagParts DEF Cut
  <2>2. u.i - 1 = 0 /\ u.i <= 2 * Mtu + 1
    BY <1>1, <2>1, LinksAssumption DEF LinksAssumption
  <2>3. Holds(r, s[u.n], u.i - 1)
    BY <1>1, <1>2, <2>1, <2>2, HoldsAll
  <2> QED BY <2>1, <2>2, <2>3 DEF Cut
<1>4. CASE t.ph = "byte"
  <2>1. \/ t.i <= 2 * Mtu /\ in = TRUE /\ Holds(r, s[t.n], t.i)
        \/ t.i > 2 * Mtu /\ in = FALSE /\ r = <<>>
    BY <1>4 DEF Cut
  <2>2. /\ t.i <= 2 * Mtu => u.i <= 2 * Mtu + 1
        /\ t.i > 2 * Mtu => u.i > 2 * Mtu + 1
    BY <1>1, <1>2, LinksAssumption DEF LinksAssumption
  <2>3. Holds(r, s[t.n], t.i) => Holds(r, s[u.n], u.i - 1)
    BY <1>1, <1>2
  <2> QED BY <2>1, <2>2, <2>3 DEF Cut
<1> QED BY <1>1, <1>3, <1>4

LEMMA CutOutside ==
  ASSUME NEW s \in Seq(Seq(Bytes)), NEW t, NEW u, Legal(s, t), Legal(s, u), Follows(s, t, u),
         NEW in, NEW esc, NEW r, NEW o, Cut(in, esc, r, o, s, t), u.ph = "byte", in = FALSE
  PROVE  Cut(in, esc, r, o, s, u)
<1>1. \/ t.ph \in {"open", "byte"} /\ u.n = t.n /\ u.i = t.i + 1
      \/ t.ph = "esc" /\ u.n = t.n /\ u.i = t.i
  BY FollowsParts
<1>2. t.i \in Nat /\ u.i \in Nat
  BY TagParts
<1>3. esc = FALSE /\ r = <<>> /\ t.ph # "open"
  BY <1>1 DEF Cut
<1>4. t.ph = "byte" => t.i > 2 * Mtu
  BY DEF Cut
<1>5. t.ph = "esc" => t.i > 2 * Mtu + 1
  BY DEF Cut
<1>6. u.i > 2 * Mtu
  BY <1>1, <1>2, <1>3, <1>4, <1>5, LinksAssumption DEF LinksAssumption
<1> QED BY <1>3, <1>6 DEF Cut

LEMMA CutByte ==
  ASSUME NEW s \in Seq(Seq(Bytes)), NEW t, NEW u, Legal(s, t), Legal(s, u), Follows(s, t, u),
         NEW in, NEW esc, NEW r, NEW o, Cut(in, esc, r, o, s, t), u.ph = "byte", in = TRUE
  PROVE  /\ Len(r) < 2 * Mtu =>
                Cut(TRUE, FALSE, Append(r, IF esc THEN Mask(ByteAt(s, u)) ELSE ByteAt(s, u)), o, s, u)
         /\ ~(Len(r) < 2 * Mtu) => Cut(FALSE, FALSE, <<>>, o, s, u)
<1> DEFINE p == s[u.n]
           x == p[u.i]
<1>1. u.i \in 1..Len(p) /\ p \in Seq(Bytes) /\ u.i \in Nat /\ t.i \in Nat /\ x \in Bytes
  <2>1. u.i \in 1..Len(p) /\ p \in Seq(Bytes)
    BY TagParts
  <2> QED BY <2>1, TagParts
<1>2. Holds(r, p, u.i - 1) /\ x = IF esc THEN Mask(ByteAt(s, u)) ELSE ByteAt(s, u)
  <2>1. CASE t.ph \in {"open", "byte"} /\ u.n = t.n /\ u.i = t.i + 1 /\ ~Special(x)
    <3>1. ByteAt(s, u) = x
      BY <2>1 DEF ByteAt
    <3>2. esc = FALSE
      BY <2>1 DEF Cut
    <3>3. Holds(r, p, t.i)
      <4>1. CASE t.ph = "open"
        <5>1. t.i = 0 /\ r = <<>>
          BY <4>1, TagParts DEF Cut
        <5> QED BY <1>1, <5>1, HoldsAll
      <4>2. CASE t.ph = "byte"
        BY <2>1, <4>2 DEF Cut
      <4> QED BY <2>1, <4>1, <4>2
    <3>4. u.i - 1 = t.i
      BY <1>1, <2>1
    <3> QED BY <3>1, <3>2, <3>3, <3>4
  <2>2. CASE t.ph = "esc" /\ u.n = t.n /\ u.i = t.i
    <3>1. esc = TRUE /\ Holds(r, p, u.i - 1)
      BY <2>2 DEF Cut
    <3>2. Special(x)
      BY <2>2 DEF Legal
    <3>3. ByteAt(s, u) = Mask(x) /\ Mask(Mask(x)) = x
      BY <1>1, <3>2, MaskBytes DEF ByteAt
    <3> QED BY <3>1, <3>3
  <2> QED BY <2>1, <2>2, FollowsParts
<1>3. Len(r) = u.i - 1
  BY <1>2 DEF Holds
<1>4. ASSUME Len(r) < 2 * Mtu PROVE Cut(TRUE, FALSE, Append(r, x), o, s, u)
  <2>1. u.i <= 2 * Mtu
    BY <1>1, <1>3, <1>4, LinksAssumption DEF LinksAssumption
  <2>2. Holds(Append(r, x), p, u.i)
    BY <1>1, <1>2, HoldsMore
  <2> QED BY <2>1, <2>2 DEF Cut
<1>5. ASSUME ~(Len(r) < 2 * Mtu) PROVE Cut(FALSE, FALSE, <<>>, o, s, u)
  <2>1. u.i > 2 * Mtu
    BY <1>1, <1>3, <1>5, LinksAssumption DEF LinksAssumption
  <2> QED BY <2>1 DEF Cut
<1> QED BY <1>2, <1>4, <1>5

-----------------------------------------------------------------------------
(* What was taken, of the first m packets of s *)

\* at: which packet each one is. Of those of the last connection, that came
\* after the first o packets, the node took from its v-th on all that are valid.
TakenMap(T, s, o, v, m, at) ==
    /\ o \in 0..m /\ v \in 0..Len(T) /\ m \in 0..Len(s)
    /\ at \in [1..Len(T) -> 1..m]
    /\ \A i \in 1..Len(T) : T[i] = s[at[i]]
    /\ \A i, j \in 1..Len(T) : i < j => at[i] < at[j]
    /\ \A i \in 1..Len(T) : v < i => o < at[i] /\ ValidSize(Len(s[at[i]]))
    /\ \A k \in 1..m : o < k /\ ValidSize(Len(s[k])) => \E i \in 1..Len(T) : v < i /\ at[i] = k

LEMMA TakenGrows ==
  ASSUME NEW T \in Seq(Seq(Bytes)), NEW s \in Seq(Seq(Bytes)), NEW o, NEW v, NEW m, NEW at, TakenMap(T, s, o, v, m, at), NEW p \in Seq(Bytes)
  PROVE  TakenMap(T, Append(s, p), o, v, m, at)
<1>1. m \in Nat /\ m <= Len(s) /\ Len(Append(s, p)) = Len(s) + 1
  BY DEF TakenMap
<1>2. \A k \in 1..m : Append(s, p)[k] = s[k]
  BY <1>1
<1>3. \A i \in 1..Len(T) : at[i] \in 1..m
  BY DEF TakenMap
<1> QED BY <1>1, <1>2, <1>3 DEF TakenMap

LEMMA TakenReopened ==
  ASSUME NEW T \in Seq(Seq(Bytes)), NEW s \in Seq(Seq(Bytes)), NEW o, NEW v, NEW m, NEW at, TakenMap(T, s, o, v, m, at)
  PROVE  TakenMap(T, s, Len(s), Len(T), Len(s), at)
<1>1. m \in Nat /\ m <= Len(s) /\ Len(s) \in Nat /\ Len(T) \in Nat
  BY DEF TakenMap
<1>2. at \in [1..Len(T) -> 1..Len(s)]
  BY <1>1 DEF TakenMap
<1> QED BY <1>1, <1>2 DEF TakenMap

LEMMA TakenSkips ==
  ASSUME NEW T \in Seq(Seq(Bytes)), NEW s \in Seq(Seq(Bytes)), NEW o, NEW v, NEW m, NEW at, TakenMap(T, s, o, v, m, at),
         m + 1 <= Len(s), ~ValidSize(Len(s[m + 1]))
  PROVE  TakenMap(T, s, o, v, m + 1, at)
<1>1. m \in Nat /\ m + 1 \in 0..Len(s) /\ o \in 0..(m + 1)
  BY DEF TakenMap
<1>2. at \in [1..Len(T) -> 1..(m + 1)]
  BY <1>1 DEF TakenMap
<1>3. \A k \in 1..(m + 1) : k \in 1..m \/ k = m + 1
  BY <1>1
<1> QED BY <1>1, <1>2, <1>3 DEF TakenMap

LEMMA TakenOneMore ==
  ASSUME NEW T \in Seq(Seq(Bytes)), NEW s \in Seq(Seq(Bytes)), NEW o, NEW v, NEW m, NEW at, TakenMap(T, s, o, v, m, at),
         m + 1 <= Len(s), ValidSize(Len(s[m + 1]))
  PROVE  \E to : TakenMap(Append(T, s[m + 1]), s, o, v, m + 1, to)
<1> DEFINE l == Len(T)
           x == s[m + 1]
           to == [i \in 1..(l + 1) |-> IF i = l + 1 THEN m + 1 ELSE at[i]]
           R == Append(T, x)
<1>1. m \in Nat /\ m + 1 \in 0..Len(s) /\ o \in 0..m /\ o \in 0..(m + 1) /\ l \in Nat /\ v \in 0..l /\ x \in Seq(Bytes)
  BY DEF TakenMap
<1>2. Len(R) = l + 1 /\ R[l + 1] = x /\ \A i \in 1..l : R[i] = T[i]
  BY <1>1
<1>3. \A i \in 1..l : at[i] \in 1..m
  BY DEF TakenMap
<1>4. \A i \in 1..(l + 1) : i \in 1..l \/ i = l + 1
  BY <1>1
<1>5. to[l + 1] = m + 1 /\ (\A i \in 1..l : to[i] = at[i]) /\ to \in [1..(l + 1) -> 1..(m + 1)]
  <2>1. \A i \in 1..l : at[i] \in 1..(m + 1)
    BY <1>1, <1>3
  <2> QED BY <1>1, <1>4, <2>1
<1> HIDE DEF l, x, to, R
<1>6. \A i \in 1..(l + 1) : R[i] = s[to[i]]
  BY <1>2, <1>4, <1>5 DEF TakenMap, l, x
<1>7. ASSUME NEW i \in 1..(l + 1), NEW j \in 1..(l + 1), i < j PROVE to[i] < to[j]
  <2>1. i \in 1..l
    BY <1>1, <1>7
  <2>2. CASE j \in 1..l
    <3>1. \A a, b \in 1..l : a < b => at[a] < at[b]
      BY DEF TakenMap, l
    <3>2. at[i] < at[j]
      BY <1>7, <2>1, <2>2, <3>1
    <3> QED BY <1>5, <2>1, <2>2, <3>2
  <2>3. CASE j = l + 1
    <3>1. to[i] \in 1..m /\ to[j] = m + 1
      BY <1>3, <1>5, <2>1, <2>3
    <3> QED BY <1>1, <3>1
  <2> QED BY <1>4, <2>2, <2>3
<1>8. ASSUME NEW i \in 1..(l + 1), v < i PROVE o < to[i] /\ ValidSize(Len(s[to[i]]))
  <2>1. CASE i \in 1..l
    BY <1>5, <1>8, <2>1 DEF TakenMap, l
  <2>2. CASE i = l + 1
    BY <1>1, <1>5, <2>2
  <2> QED BY <1>4, <2>1, <2>2
<1>9. ASSUME NEW k \in 1..(m + 1), o < k, ValidSize(Len(s[k])) PROVE \E i \in 1..(l + 1) : v < i /\ to[i] = k
  <2>1. CASE k \in 1..m
    <3>1. PICK i \in 1..l : v < i /\ at[i] = k
      BY <1>9, <2>1 DEF TakenMap, l
    <3>2. i \in 1..(l + 1) /\ to[i] = k
      BY <1>1, <1>5, <3>1
    <3> QED BY <3>1, <3>2
  <2>2. CASE k = m + 1
    <3>1. l + 1 \in 1..(l + 1) /\ v < l + 1
      BY <1>1
    <3> QED BY <1>5, <2>2, <3>1
  <2>3. k \in 1..m \/ k = m + 1
    BY <1>1
  <2> QED BY <2>1, <2>2, <2>3
<1>10. v \in 0..(l + 1)
  BY <1>1
<1>11. TakenMap(R, s, o, v, m + 1, to)
  BY <1>1, <1>2, <1>5, <1>6, <1>7, <1>8, <1>9, <1>10 DEF TakenMap
<1> QED BY <1>11 DEF R, x

\* An increasing map leaves no more than it maps into.
LEMMA TakenBounded ==
  ASSUME NEW T \in Seq(Seq(Bytes)), NEW s \in Seq(Seq(Bytes)), NEW o, NEW v, NEW m, NEW at, TakenMap(T, s, o, v, m, at)
  PROVE  Len(T) <= Len(s)
<1> DEFINE Behind == {i \in 1..Len(T) : at[i] < i}
<1>1. Len(T) \in Nat /\ m \in Nat /\ m <= Len(s) /\ Len(s) \in Nat /\ Behind \subseteq Nat
  BY DEF TakenMap
<1>2. \A i \in 1..Len(T) : at[i] \in Nat /\ 1 <= at[i] /\ at[i] <= m
  BY <1>1 DEF TakenMap
<1>3. ASSUME Behind # {} PROVE FALSE
  <2>1. PICK i \in Behind : \A k \in Behind : i <= k
    <3> HIDE DEF Behind
    <3> QED BY <1>1, <1>3, LeastNat
  <2>2. i \in 1..Len(T) /\ at[i] < i
    OBVIOUS
  <2>3. i # 1
    BY <1>2, <2>2
  <2>4. i - 1 \in 1..Len(T) /\ i - 1 < i /\ ~(i <= i - 1)
    BY <1>1, <2>2, <2>3
  <2>5. i - 1 \notin Behind
    BY <2>1, <2>4
  <2>6. ~(at[i - 1] < i - 1)
    BY <2>4, <2>5
  <2>7. at[i - 1] < at[i]
    BY <2>2, <2>4 DEF TakenMap
  <2>8. at[i] \in Nat /\ at[i - 1] \in Nat /\ i \in Nat
    BY <1>1, <1>2, <2>2, <2>4
  <2> HIDE DEF Behind
  <2> QED BY <2>2, <2>6, <2>7, <2>8
<1>4. CASE Len(T) = 0
  BY <1>1, <1>4
<1>5. CASE Len(T) # 0
  <2>1. Len(T) \in 1..Len(T)
    BY <1>1, <1>5
  <2>2. ~(at[Len(T)] < Len(T))
    BY <1>3, <2>1
  <2> QED BY <1>1, <1>2, <2>1, <2>2
<1> QED BY <1>4, <1>5

-----------------------------------------------------------------------------
(* The connection's invariant *)

LinkTypes ==
    /\ up \in BOOLEAN /\ wasConnected \in BOOLEAN
    /\ wire \in Seq(Bytes) /\ buf \in Seq(Bytes)
    /\ inFrame \in BOOLEAN /\ escape \in BOOLEAN
    /\ rx \in Seq(Bytes) /\ Len(rx) <= 2 * Mtu
    /\ sent \in Seq(Packets) /\ taken \in Seq(Seq(Bytes))
    /\ Len(sent) <= MaxSends

\* How many packets have been read to their last flag.
Closed(c) == IF c.ph = "close" THEN c.n ELSE c.n - 1

TakenInv(c, at) == TakenMap(taken, sent, opened[1], opened[2], Closed(c), at)

Dropped == up = FALSE /\ wire = <<>> /\ buf = <<>>

\* The bytes in buf and on the wire follow the last one fed, up to the end of
\* the last packet sent while the connection is up.
StreamInv(c, g) ==
    /\ g[0] = c
    /\ Tagged(sent, g, buf \o wire)
    /\ Cut(inFrame, escape, rx, opened[1], sent, c)
    /\ up = TRUE => g[Len(buf \o wire)] = Tag(Len(sent), 0, "close")

LinkInv ==
    /\ LinkTypes
    /\ \E c :
        /\ Legal(sent, c)
        /\ \E at : TakenInv(c, at)
        /\ Dropped \/ \E g : StreamInv(c, g)

LEMMA PacketBytes ==
  /\ Seq(Packets) \subseteq Seq(Seq(Bytes))
  /\ Packets \subseteq Seq(Bytes)
  BY LinksAssumption DEF LinksAssumption

LEMMA ClosedTag ==
  ASSUME NEW s \in Seq(Seq(Bytes)), NEW n \in 0..Len(s)
  PROVE  Legal(s, Tag(n, 0, "close")) /\ Closed(Tag(n, 0, "close")) = n
  BY TagFields DEF Legal, Closed

LEMMA LinkInit == Init => LinkInv
<1> SUFFICES ASSUME Init PROVE LinkInv OBVIOUS
<1> DEFINE c == Tag(0, 0, "close")
           at == [i \in 1..0 |-> 0]
           g == [k \in Nat |-> c]
<1>1. LinkTypes
  <2>1. <<>> \in Seq(Bytes) /\ <<>> \in Seq(Packets) /\ <<>> \in Seq(Seq(Bytes))
    OBVIOUS
  <2>2. Len(<<>>) <= 2 * Mtu /\ Len(<<>>) <= MaxSends
    BY LinksAssumption DEF LinksAssumption
  <2> QED BY <2>1, <2>2, Zenon DEF LinkTypes, Init
<1>2. sent = <<>> /\ taken = <<>> /\ opened[1] = 0 /\ opened[2] = 0
  BY DEF Init
<1>3. Legal(sent, c) /\ Closed(c) = 0
  <2>1. <<>> \in Seq(Seq(Bytes)) /\ 0 \in 0..Len(<<>>)
    OBVIOUS
  <2> QED BY <1>2, <2>1, ClosedTag
<1>4. TakenMap(<<>>, <<>>, 0, 0, 0, at)
  BY DEF TakenMap
<1>5. Dropped
  BY DEF Init, Dropped
<1> QED BY <1>1, <1>2, <1>3, <1>4, <1>5 DEF LinkInv, TakenInv

LEMMA LinkKept ==
  ASSUME LinkInv, UNCHANGED <<up, wire, wasConnected, buf, inFrame, escape, rx, sent, taken, opened>>
  PROVE  LinkInv'
<1>1. LinkTypes'
  BY DEF LinkInv, LinkTypes
<1>2. Dropped => Dropped'
  BY DEF Dropped
<1>3. \A c, g : StreamInv(c, g) => StreamInv(c, g)'
  BY DEF StreamInv
<1>4. \A c, at : TakenInv(c, at) => TakenInv(c, at)'
  BY DEF TakenInv
<1>5. PICK c : Legal(sent, c) /\ (\E at : TakenInv(c, at)) /\ (Dropped \/ \E g : StreamInv(c, g))
  BY Zenon DEF LinkInv
<1>6. sent' = sent
  OBVIOUS
<1> QED BY <1>1, <1>2, <1>3, <1>4, <1>5, <1>6 DEF LinkInv

LEMMA LinkSends ==
  ASSUME LinkInv, NEW p \in Packets, ServerSends(p)
  PROVE  LinkInv'
<1> USE DEF ServerSends
<1>1. PICK c : Legal(sent, c) /\ (\E at : TakenInv(c, at)) /\ (Dropped \/ \E g : StreamInv(c, g))
  BY Zenon DEF LinkInv
<1>2. PICK g : StreamInv(c, g)
  BY <1>1 DEF Dropped
<1>3. PICK at : TakenInv(c, at)
  BY <1>1
<1> DEFINE n == Len(sent) + 1
           f == Framed(p)
           S == buf \o wire
<1>4. /\ sent \in Seq(Packets) /\ sent \in Seq(Seq(Bytes)) /\ p \in Seq(Bytes) /\ taken \in Seq(Seq(Bytes))
      /\ buf \in Seq(Bytes) /\ wire \in Seq(Bytes) /\ Len(sent) \in Nat
  BY PacketBytes DEF LinkInv, LinkTypes
<1>5. sent' \in Seq(Packets) /\ sent' \in Seq(Seq(Bytes)) /\ n \in 1..Len(sent') /\ sent'[n] = p /\ n - 1 = Len(sent)
      /\ Len(sent') = n
  BY <1>4
<1>6. f \in Seq(Bytes)
      /\ \E h : Tagged(sent', h, f) /\ h[0] = Tag(Len(sent), 0, "close") /\ h[Len(f)] = Tag(n, 0, "close")
  <2>1. sent'[n] = p /\ n \in 1..Len(sent') /\ sent' \in Seq(Seq(Bytes)) /\ n - 1 = Len(sent)
    BY <1>5
  <2> DEFINE s == sent'
             l == Len(sent)
  <2>2. s \in Seq(Seq(Bytes)) /\ n \in 1..Len(s) /\ s[n] = p /\ n - 1 = l
    BY <2>1
  <2> HIDE DEF n, s, l
  <2>3. /\ Framed(s[n]) \in Seq(Bytes)
        /\ \E h : /\ Tagged(s, h, Framed(s[n]))
                  /\ h[0] = Tag(n - 1, 0, "close") /\ h[Len(Framed(s[n]))] = Tag(n, 0, "close")
    BY <2>2, FramedTagged, Zenon
  <2> QED BY <2>2, <2>3, Zenon DEF s, l, f
<1>7. PICK h : Tagged(sent', h, f) /\ h[0] = Tag(Len(sent), 0, "close") /\ h[Len(f)] = Tag(n, 0, "close")
  BY <1>6
<1> HIDE DEF n, f
<1>8. Tagged(sent', g, S) /\ Legal(sent', c) /\ g[Len(S)] = Tag(Len(sent), 0, "close") /\ g[0] = c
  <2>1. Tagged(sent, g, S) /\ g[0] = c /\ up = TRUE /\ g[Len(S)] = Tag(Len(sent), 0, "close")
    BY <1>2 DEF StreamInv, LinkInv, LinkTypes
  <2>2. sent' = Append(sent, p)
    OBVIOUS
  <2> QED BY <1>1, <1>4, <2>1, <2>2, TaggedGrows, LegalGrows
<1>9. PICK j : Tagged(sent', j, S \o f) /\ j[0] = g[0] /\ j[Len(S \o f)] = h[Len(f)]
  <2> HIDE DEF S
  <2> QED BY <1>7, <1>8, TaggedCat
<1>10. buf' \o wire' = S \o f /\ wire' \in Seq(Bytes)
  <2>1. wire' = wire \o f /\ buf' = buf
    BY DEF f
  <2> HIDE DEF f
  <2>2. buf \o (wire \o f) = (buf \o wire) \o f /\ wire \o f \in Seq(Bytes)
    <3>1. buf \in Seq(Bytes) /\ wire \in Seq(Bytes) /\ f \in Seq(Bytes)
      BY <1>4, <1>6
    <3> HIDE DEF S
    <3> QED BY <3>1
  <2> QED BY <2>1, <2>2 DEF f
<1>11. Cut(inFrame, escape, rx, opened[1], sent', c)
  <2>1. c.ph # "close" => sent'[c.n] = sent[c.n]
    <3>1. c.ph # "close" => c.n \in 1..Len(sent)
      BY <1>1, <1>4, TagParts
    <3> QED BY <1>4, <3>1
  <2>2. Cut(inFrame, escape, rx, opened[1], sent, c)
    BY <1>2 DEF StreamInv
  <2>3. c.ph \in {"byte", "esc"} => c.ph # "close"
    OBVIOUS
  <2> QED BY <2>1, <2>2, <2>3, Zenon DEF Cut
<1>12. StreamInv(c, j)'
  <2>1. UNCHANGED <<inFrame, escape, rx, opened, up>>
    BY DEF frame
  <2> QED BY <1>5, <1>7, <1>8, <1>9, <1>10, <1>11, <2>1 DEF StreamInv
<1>13. TakenInv(c, at)'
  <2>1. UNCHANGED <<taken, opened>> /\ sent' = Append(sent, p)
    OBVIOUS
  <2>2. TakenMap(taken, Append(sent, p), opened[1], opened[2], Closed(c), at)
    BY <1>3, <1>4, TakenGrows DEF TakenInv
  <2> QED BY <2>1, <2>2 DEF TakenInv
<1>14. LinkTypes'
  <2>1. Len(sent') <= MaxSends
    BY <1>4, LinksAssumption DEF LinksAssumption
  <2>2. UNCHANGED <<up, wasConnected, buf, inFrame, escape, rx, taken>>
    BY DEF frame
  <2> QED BY <1>5, <1>10, <2>1, <2>2 DEF LinkInv, LinkTypes
<1> QED BY <1>8, <1>12, <1>13, <1>14 DEF LinkInv

LEMMA LinkBreaks ==
  ASSUME LinkInv, Break
  PROVE  LinkInv'
<1>1. PICK c : Legal(sent, c) /\ (\E at : TakenInv(c, at)) /\ (Dropped \/ \E g : StreamInv(c, g))
  BY Zenon DEF LinkInv
<1>2. PICK g : StreamInv(c, g)
  BY <1>1 DEF Dropped, Break
<1>3. PICK n \in 0..Len(wire) : wire' = SubSeq(wire, 1, n)
  BY DEF Break
<1>4. UNCHANGED <<wasConnected, buf, inFrame, escape, rx, sent, taken, opened>> /\ up' = FALSE
  BY DEF Break, frame
<1>5. buf \in Seq(Bytes) /\ wire \in Seq(Bytes)
  BY DEF LinkInv, LinkTypes
<1>6. /\ wire' \in Seq(Bytes) /\ buf' \o wire' \in Seq(Bytes)
      /\ Len(buf' \o wire') <= Len(buf \o wire)
      /\ \A k \in 1..Len(buf' \o wire') : (buf' \o wire')[k] = (buf \o wire)[k]
  BY <1>3, <1>4, <1>5, CutShort
<1>7. Tagged(sent, g, buf' \o wire')
  BY <1>2, <1>6, TaggedCut DEF StreamInv
<1>8. StreamInv(c, g)'
  BY <1>2, <1>4, <1>7 DEF StreamInv
<1>9. LinkTypes'
  BY <1>4, <1>6 DEF LinkInv, LinkTypes
<1>10. \E at : TakenInv(c, at)'
  BY <1>1, <1>4 DEF TakenInv
<1> QED BY <1>1, <1>4, <1>8, <1>9, <1>10 DEF LinkInv

LEMMA LinkConnects ==
  ASSUME LinkInv, TryConnect
  PROVE  LinkInv'
<1> PICK c : c = Tag(Len(sent), 0, "close")
  OBVIOUS
<1> DEFINE g == [k \in Nat |-> c]
<1>1. PICK d, at : TakenInv(d, at)
  BY Zenon DEF LinkInv
<1>2. /\ up' = TRUE /\ wasConnected' = TRUE /\ UNCHANGED <<wire, buf, sent, taken>>
      /\ inFrame' = FALSE /\ escape' = FALSE /\ rx' = <<>>
      /\ opened' = <<Len(sent), Len(taken)>>
      /\ wire = <<>> /\ buf = <<>>
  BY DEF TryConnect, ClearedByConnect, Cleared, AtRest, Connected
<1>3. taken \in Seq(Seq(Bytes)) /\ sent \in Seq(Seq(Bytes)) /\ Len(sent) \in Nat
  BY PacketBytes DEF LinkInv, LinkTypes
<1>4. Legal(sent, c) /\ Closed(c) = Len(sent) /\ c.ph = "close" /\ c.n = Len(sent) /\ c \in Tags
  <2>1. Len(sent) \in 0..Len(sent)
    BY <1>3
  <2> QED BY <1>3, <2>1, ClosedTag, TagFields
<1>5. opened'[1] = Len(sent) /\ opened'[2] = Len(taken)
  BY <1>2
<1>6. TakenMap(taken, sent, Len(sent), Len(taken), Len(sent), at)
  BY <1>1, <1>3, TakenReopened DEF TakenInv
<1>7. TakenInv(c, at)'
  BY <1>2, <1>4, <1>5, <1>6 DEF TakenInv
<1>8. Tagged(sent, g, <<>>) /\ g[0] = c /\ g[Len(<<>>)] = c
  BY <1>4 DEF Tagged
<1>9. buf' \o wire' = <<>>
  BY <1>2
<1>10. Cut(inFrame', escape', rx', opened'[1], sent', c)
  BY <1>2, <1>4, <1>5 DEF Cut
<1> HIDE DEF g
<1>11. StreamInv(c, g)'
  BY <1>2, <1>8, <1>9, <1>10 DEF StreamInv
<1>12. LinkTypes'
  <2>1. <<>> \in Seq(Bytes) /\ Len(<<>>) = 0
    OBVIOUS
  <2>2. 0 <= 2 * Mtu
    BY LinksAssumption DEF LinksAssumption
  <2> QED BY <1>2, <2>1, <2>2 DEF LinkInv, LinkTypes
<1> QED BY <1>2, <1>4, <1>7, <1>11, <1>12 DEF LinkInv

LEMMA LinkDrops ==
  ASSUME LinkInv, DropConnection
  PROVE  LinkInv'
<1>1. /\ UNCHANGED <<up, wire, buf, sent, taken, opened>>
      /\ wasConnected' = FALSE /\ inFrame' = FALSE /\ escape' = FALSE /\ rx' = <<>>
      /\ ~up /\ wire = <<>> /\ buf = <<>>
  BY DEF DropConnection, Cleared, AtRest, Connected, log
<1>2. Dropped'
  BY <1>1 DEF Dropped, LinkInv, LinkTypes
<1>3. LinkTypes'
  <2>1. <<>> \in Seq(Bytes) /\ Len(<<>>) = 0
    OBVIOUS
  <2>2. 0 <= 2 * Mtu
    BY LinksAssumption DEF LinksAssumption
  <2> QED BY <1>1, <2>1, <2>2 DEF LinkInv, LinkTypes
<1>4. PICK c : Legal(sent, c) /\ (\E at : TakenInv(c, at))
  BY Zenon DEF LinkInv
<1>5. \E at : TakenInv(c, at)'
  BY <1>1, <1>4 DEF TakenInv
<1> QED BY <1>1, <1>2, <1>3, <1>4, <1>5 DEF LinkInv

LEMMA LinkRestarts ==
  ASSUME LinkInv, Restart
  PROVE  LinkInv'
<1>1. /\ UNCHANGED <<sent, taken, opened>> /\ up' = FALSE /\ wire' = <<>> /\ buf' = <<>>
      /\ wasConnected' = FALSE /\ inFrame' = FALSE /\ escape' = FALSE /\ rx' = <<>>
  BY DEF Restart, Cleared
<1>2. Dropped'
  BY <1>1 DEF Dropped
<1>3. LinkTypes'
  <2>1. <<>> \in Seq(Bytes) /\ Len(<<>>) = 0
    OBVIOUS
  <2>2. 0 <= 2 * Mtu
    BY LinksAssumption DEF LinksAssumption
  <2> QED BY <1>1, <2>1, <2>2 DEF LinkInv, LinkTypes
<1>4. PICK c : Legal(sent, c) /\ (\E at : TakenInv(c, at))
  BY Zenon DEF LinkInv
<1>5. \E at : TakenInv(c, at)'
  BY <1>1, <1>4 DEF TakenInv
<1> QED BY <1>1, <1>2, <1>3, <1>4, <1>5 DEF LinkInv

LEMMA LinkReads ==
  ASSUME LinkInv, ReadAvailable
  PROVE  LinkInv'
<1>1. PICK c : Legal(sent, c) /\ (\E at : TakenInv(c, at)) /\ (Dropped \/ \E g : StreamInv(c, g))
  BY Zenon DEF LinkInv
<1>2. PICK n \in 1..Len(wire) : buf' = SubSeq(wire, 1, n) /\ wire' = SubSeq(wire, n + 1, Len(wire))
  BY DEF ReadAvailable
<1>3. UNCHANGED <<up, wasConnected, inFrame, escape, rx, sent, taken, opened>> /\ buf = <<>> /\ wire # <<>>
  BY DEF ReadAvailable, frame, log, AtRest
<1>4. wire \in Seq(Bytes)
  BY DEF LinkInv, LinkTypes
<1>5. buf' \in Seq(Bytes) /\ wire' \in Seq(Bytes) /\ buf' \o wire' = buf \o wire
  BY <1>2, <1>3, <1>4, CutInTwo
<1>6. PICK g : StreamInv(c, g)
  BY <1>1, <1>3 DEF Dropped
<1>7. StreamInv(c, g)'
  BY <1>3, <1>5, <1>6 DEF StreamInv
<1>8. LinkTypes'
  BY <1>3, <1>5 DEF LinkInv, LinkTypes
<1>9. \E at : TakenInv(c, at)'
  BY <1>1, <1>3 DEF TakenInv
<1> QED BY <1>1, <1>3, <1>7, <1>8, <1>9 DEF LinkInv

\* The byte fed, and what is left behind it.
LEMMA StreamFeeds ==
  ASSUME LinkTypes, NEW c, Legal(sent, c), NEW g, StreamInv(c, g), NEW b, Feeds(b)
  PROVE  /\ Legal(sent, g[1]) /\ Follows(sent, c, g[1]) /\ ByteAt(sent, g[1]) = b
         /\ buf' \in Seq(Bytes)
         /\ \E h : /\ Tagged(sent, h, buf' \o wire) /\ h[0] = g[1]
                   /\ up = TRUE => h[Len(buf' \o wire)] = Tag(Len(sent), 0, "close")
<1> DEFINE S == buf \o wire
<1>1. buf \in Seq(Bytes) /\ wire \in Seq(Bytes) /\ buf # <<>> /\ Head(buf) = b /\ buf' = Tail(buf)
  BY DEF LinkTypes, Feeds
<1>2. /\ buf' \o wire \in Seq(Bytes) /\ Len(S) = Len(buf' \o wire) + 1 /\ S[1] = b
      /\ \A k \in 1..Len(buf' \o wire) : (buf' \o wire)[k] = S[k + 1]
  BY <1>1, HeadAndTail
<1>3. g[0] = c /\ Tagged(sent, g, S) /\ (up = TRUE => g[Len(S)] = Tag(Len(sent), 0, "close"))
  BY DEF StreamInv
<1>4. 1 \in 1..Len(S) /\ 1 \in 0..Len(S) /\ 1 - 1 = 0
  BY <1>1, <1>2
<1> HIDE DEF S
<1>5. Legal(sent, g[1]) /\ Follows(sent, c, g[1]) /\ ByteAt(sent, g[1]) = b
  BY <1>2, <1>3, <1>4 DEF Tagged
<1>6. PICK h : Tagged(sent, h, buf' \o wire) /\ h[0] = g[1] /\ h[Len(buf' \o wire)] = g[Len(S)]
  <2> DEFINE R == buf' \o wire
  <2>1. R \in Seq(Bytes) /\ Len(S) = Len(R) + 1 /\ \A k \in 1..Len(R) : R[k] = S[k + 1]
    BY <1>2
  <2> HIDE DEF R
  <2>2. \E h : Tagged(sent, h, R) /\ h[0] = g[1] /\ h[Len(R)] = g[Len(S)]
    BY <1>3, <2>1, TaggedTail
  <2> QED BY <2>2 DEF R
<1>7. buf' \in Seq(Bytes)
  BY <1>1
<1> QED BY <1>3, <1>5, <1>6, <1>7

\* A byte that is not the last of a packet.
LEMMA LinkFedInside ==
  ASSUME LinkInv, NEW b, Feeds(b), b # "flag", LinkTypes',
         UNCHANGED <<up, wire, sent, taken, opened>>,
         \A c, u : /\ Legal(sent, c) /\ Legal(sent, u) /\ Follows(sent, c, u) /\ ByteAt(sent, u) = b
                  /\ Cut(inFrame, escape, rx, opened[1], sent, c)
                  => Cut(inFrame', escape', rx', opened[1], sent, u)
  PROVE  LinkInv'
<1>1. PICK c : Legal(sent, c) /\ (\E at : TakenInv(c, at)) /\ (Dropped \/ \E g : StreamInv(c, g))
  BY Zenon DEF LinkInv
<1>2. PICK g : StreamInv(c, g)
  BY <1>1 DEF Dropped, Feeds
<1>3. PICK at : TakenInv(c, at)
  BY <1>1
<1>4. PICK u : u = g[1]
  OBVIOUS
<1>5. LinkTypes /\ sent \in Seq(Seq(Bytes))
  BY PacketBytes DEF LinkInv, LinkTypes
<1>6. /\ Legal(sent, u) /\ Follows(sent, c, u) /\ ByteAt(sent, u) = b
      /\ \E h : /\ Tagged(sent, h, buf' \o wire) /\ h[0] = u
                /\ up = TRUE => h[Len(buf' \o wire)] = Tag(Len(sent), 0, "close")
  BY <1>1, <1>2, <1>4, <1>5, StreamFeeds
<1>7. PICK h : /\ Tagged(sent, h, buf' \o wire) /\ h[0] = u
               /\ up = TRUE => h[Len(buf' \o wire)] = Tag(Len(sent), 0, "close")
  BY <1>6
<1>8. Cut(inFrame', escape', rx', opened[1], sent, u)
  BY <1>1, <1>2, <1>6 DEF StreamInv
<1>9. StreamInv(u, h)'
  BY <1>7, <1>8 DEF StreamInv
<1>10. Closed(u) = Closed(c)
  <2>1. u.ph \in {"esc", "byte"} /\ c.ph # "close" /\ u.n = c.n
    <3>1. u.ph \in {"esc", "byte"}
      BY <1>5, <1>6, ByteKinds, TagParts
    <3> QED BY <1>1, <1>5, <1>6, <3>1, FollowsParts
  <2> QED BY <2>1 DEF Closed
<1>11. TakenInv(u, at)'
  BY <1>3, <1>10 DEF TakenInv
<1> QED BY <1>6, <1>9, <1>11 DEF LinkInv

LEMMA LinkEscape ==
  ASSUME LinkInv, FeedEscape
  PROVE  LinkInv'
<1>1. /\ UNCHANGED <<up, wire, wasConnected, sent, taken, opened, inFrame, rx>>
      /\ escape' = inFrame /\ Feeds("esc")
  BY DEF FeedEscape, stream, log
<1>2. LinkTypes /\ sent \in Seq(Seq(Bytes))
  BY PacketBytes DEF LinkInv, LinkTypes
<1>3. LinkTypes'
  <2>1. buf' \in Seq(Bytes)
    BY <1>1, <1>2 DEF LinkTypes, Feeds
  <2> QED BY <1>1, <1>2, <2>1 DEF LinkTypes
<1>4. ASSUME NEW c, NEW u, Legal(sent, c), Legal(sent, u), Follows(sent, c, u), ByteAt(sent, u) = "esc",
             Cut(inFrame, escape, rx, opened[1], sent, c)
      PROVE  Cut(inFrame', escape', rx', opened[1], sent, u)
  <2>1. u.ph = "esc"
    BY <1>2, <1>4, ByteKinds
  <2>2. Cut(inFrame, inFrame, rx, opened[1], sent, u)
    BY <1>2, <1>4, <2>1, CutEscape
  <2> QED BY <1>1, <2>2
<1> QED BY <1>1, <1>3, <1>4, LinkFedInside

LEMMA LinkOutside ==
  ASSUME LinkInv, FeedOutside
  PROVE  LinkInv'
<1>1. PICK b \in {"flag'", "esc'"} : Feeds(b)
  BY DEF FeedOutside
<1>2. /\ UNCHANGED <<up, wire, wasConnected, sent, taken, opened, inFrame, escape, rx>>
      /\ ~inFrame /\ b # "flag"
  BY DEF FeedOutside, stream, log, frame
<1>3. LinkTypes /\ sent \in Seq(Seq(Bytes)) /\ inFrame = FALSE
  BY <1>2, PacketBytes DEF LinkInv, LinkTypes
<1>4. LinkTypes'
  <2>1. buf' \in Seq(Bytes)
    BY <1>1, <1>3 DEF LinkTypes, Feeds
  <2> QED BY <1>2, <1>3, <2>1 DEF LinkTypes
<1>5. ASSUME NEW c, NEW u, Legal(sent, c), Legal(sent, u), Follows(sent, c, u), ByteAt(sent, u) = b,
             Cut(inFrame, escape, rx, opened[1], sent, c)
      PROVE  Cut(inFrame', escape', rx', opened[1], sent, u)
  <2>1. u.ph = "byte"
    BY <1>3, <1>5, ByteKinds
  <2>2. Cut(inFrame, escape, rx, opened[1], sent, u)
    BY <1>3, <1>5, <2>1, CutOutside
  <2> QED BY <1>2, <2>2
<1> QED BY <1>1, <1>2, <1>4, <1>5, LinkFedInside

LEMMA LinkByte ==
  ASSUME LinkInv, FeedByte
  PROVE  LinkInv'
<1>1. PICK b \in {"flag'", "esc'"} :
          /\ Feeds(b)
          /\ IF Room
             THEN rx' = Append(rx, IF escape THEN Mask(b) ELSE b) /\ UNCHANGED inFrame
             ELSE rx' = <<>> /\ inFrame' = FALSE
  BY DEF FeedByte
<1>2. /\ UNCHANGED <<up, wire, wasConnected, sent, taken, opened>>
      /\ escape' = FALSE /\ inFrame /\ b # "flag"
  BY DEF FeedByte, stream, log
<1>3. LinkTypes /\ sent \in Seq(Seq(Bytes)) /\ inFrame = TRUE
  BY <1>2, PacketBytes DEF LinkInv, LinkTypes
<1>4. LinkTypes'
  <2>1. buf' \in Seq(Bytes)
    BY <1>1, <1>3 DEF LinkTypes, Feeds
  <2>2. rx' \in Seq(Bytes) /\ Len(rx') <= 2 * Mtu /\ inFrame' \in BOOLEAN
    <3>1. CASE Room
      <4> DEFINE x == IF escape THEN Mask(b) ELSE b
      <4>1. x \in Bytes
        BY MaskBytes DEF Bytes
      <4>2. rx' = Append(rx, x) /\ inFrame' = inFrame
        BY <1>1, <3>1
      <4> HIDE DEF x
      <4>3. rx' \in Seq(Bytes) /\ Len(rx') = Len(rx) + 1
        BY <1>3, <4>1, <4>2 DEF LinkTypes
      <4>4. Len(rx') <= 2 * Mtu
        BY <1>3, <3>1, <4>3, LinksAssumption DEF LinksAssumption, Room, LinkTypes
      <4> QED BY <1>3, <4>2, <4>3, <4>4
    <3>2. CASE ~Room
      <4>1. rx' = <<>> /\ inFrame' = FALSE
        BY <1>1, <3>2
      <4>2. Len(<<>>) <= 2 * Mtu /\ <<>> \in Seq(Bytes)
        BY LinksAssumption DEF LinksAssumption
      <4> QED BY <4>1, <4>2
    <3> QED BY <3>1, <3>2
  <2> QED BY <1>2, <1>3, <2>1, <2>2 DEF LinkTypes
<1>5. ASSUME NEW c, NEW u, Legal(sent, c), Legal(sent, u), Follows(sent, c, u), ByteAt(sent, u) = b,
             Cut(inFrame, escape, rx, opened[1], sent, c)
      PROVE  Cut(inFrame', escape', rx', opened[1], sent, u)
  <2>1. u.ph = "byte"
    BY <1>3, <1>5, ByteKinds
  <2>2. /\ Len(rx) < 2 * Mtu => Cut(TRUE, FALSE, Append(rx, IF escape THEN Mask(b) ELSE b), opened[1], sent, u)
        /\ ~(Len(rx) < 2 * Mtu) => Cut(FALSE, FALSE, <<>>, opened[1], sent, u)
    BY <1>3, <1>5, <2>1, CutByte
  <2>3. CASE Room
    <3>1. Len(rx) < 2 * Mtu /\ rx' = Append(rx, IF escape THEN Mask(b) ELSE b) /\ inFrame' = TRUE
      BY <1>1, <1>3, <2>3 DEF Room
    <3> QED BY <1>2, <2>2, <3>1
  <2>4. CASE ~Room
    <3>1. ~(Len(rx) < 2 * Mtu) /\ rx' = <<>> /\ inFrame' = FALSE
      BY <1>1, <2>4 DEF Room
    <3> QED BY <1>2, <2>2, <3>1
  <2> QED BY <2>3, <2>4
<1> QED BY <1>1, <1>2, <1>4, <1>5, LinkFedInside

\* A flag: it opens a packet, or closes one, which is taken if it is valid.
LEMMA LinkFlag ==
  ASSUME LinkInv, Feeds("flag"), Opened, LinkTypes', UNCHANGED <<sent, opened>>,
         UNCHANGED <<up, wire>> \/ (up' = FALSE /\ wire' = <<>>),
         \/ ~(inFrame /\ ValidSize(Len(rx))) /\ UNCHANGED taken
         \/ inFrame /\ ValidSize(Len(rx)) /\ taken' = Append(taken, rx)
  PROVE  LinkInv'
<1>1. PICK c : Legal(sent, c) /\ (\E at : TakenInv(c, at)) /\ (Dropped \/ \E g : StreamInv(c, g))
  BY Zenon DEF LinkInv
<1>2. PICK g : StreamInv(c, g)
  BY <1>1 DEF Dropped, Feeds
<1>3. PICK at : TakenInv(c, at)
  BY <1>1
<1>4. PICK u : u = g[1]
  OBVIOUS
<1>5. LinkTypes /\ sent \in Seq(Seq(Bytes)) /\ taken \in Seq(Seq(Bytes))
  BY PacketBytes DEF LinkInv, LinkTypes
<1>6. /\ Legal(sent, u) /\ Follows(sent, c, u) /\ ByteAt(sent, u) = "flag" /\ buf' \in Seq(Bytes)
      /\ \E h : /\ Tagged(sent, h, buf' \o wire) /\ h[0] = u
                /\ up = TRUE => h[Len(buf' \o wire)] = Tag(Len(sent), 0, "close")
  BY <1>1, <1>2, <1>4, <1>5, StreamFeeds
<1>7. PICK h : /\ Tagged(sent, h, buf' \o wire) /\ h[0] = u
               /\ up = TRUE => h[Len(buf' \o wire)] = Tag(Len(sent), 0, "close")
  BY <1>6
<1>8. u.ph \in {"open", "close"}
  BY <1>5, <1>6, ByteKinds
<1>9. Cut(inFrame, escape, rx, opened[1], sent, c)
  BY <1>2 DEF StreamInv
<1>10. /\ Cut(TRUE, FALSE, <<>>, opened[1], sent, u)
       /\ u.ph = "open" => rx = <<>>
       /\ u.ph = "close" => /\ u.n \in 1..Len(sent)
                            /\ \/ inFrame = TRUE /\ rx = sent[u.n]
                               \/ inFrame = FALSE /\ rx = <<>> /\ 2 * Mtu < Len(sent[u.n])
  <2>1. Cut(TRUE, FALSE, <<>>, opened[1], sent, u)
    BY <1>8 DEF Cut
  <2>2. ASSUME u.ph = "open" PROVE rx = <<>>
    BY <1>1, <1>5, <1>6, <1>9, <2>2, CutOpen
  <2>3. ASSUME u.ph = "close"
        PROVE  /\ u.n \in 1..Len(sent)
               /\ \/ inFrame = TRUE /\ rx = sent[u.n]
                  \/ inFrame = FALSE /\ rx = <<>> /\ 2 * Mtu < Len(sent[u.n])
    <3>1. sent \in Seq(Seq(Bytes)) /\ Legal(sent, c) /\ Legal(sent, u) /\ Follows(sent, c, u)
      BY <1>1, <1>5, <1>6
    <3> QED BY <3>1, <1>9, <2>3, CutClose, Zenon
  <2> QED BY <2>1, <2>2, <2>3
<1>11. StreamInv(u, h)'
  <2>1. Cut(inFrame', escape', rx', opened'[1], sent', u)
    BY <1>10 DEF Opened
  <2>2. CASE UNCHANGED <<up, wire>>
    BY <1>7, <2>1, <2>2 DEF StreamInv
  <2>3. CASE up' = FALSE /\ wire' = <<>>
    <3>1. /\ buf' \o wire' \in Seq(Bytes) /\ Len(buf' \o wire') <= Len(buf' \o wire)
          /\ \A k \in 1..Len(buf' \o wire') : (buf' \o wire')[k] = (buf' \o wire)[k]
      BY <1>5, <1>6, <2>3 DEF LinkTypes
    <3>2. Tagged(sent, h, buf' \o wire')
      BY <1>7, <3>1, TaggedCut
    <3> QED BY <1>7, <2>1, <2>3, <3>2 DEF StreamInv
  <2> QED BY <2>2, <2>3
<1>12. ~ValidSize(0) /\ Len(<<>>) = 0
  BY LinksAssumption DEF LinksAssumption, ValidSize
<1>13. CASE u.ph = "open"
  <2>1. UNCHANGED taken
    BY <1>10, <1>12, <1>13
  <2>2. Closed(u) = Closed(c)
    <3>1. c.ph = "close" /\ u.n = c.n + 1 /\ c.n \in Nat
      BY <1>1, <1>5, <1>6, <1>13, FollowsParts, TagParts
    <3> QED BY <1>13, <3>1 DEF Closed
  <2>3. TakenInv(u, at)'
    BY <1>3, <2>1, <2>2 DEF TakenInv
  <2> QED BY <1>6, <1>11, <2>3 DEF LinkInv
<1>14. CASE u.ph = "close"
  <2> DEFINE m == Closed(c)
  <2>1. /\ Closed(u) = m + 1 /\ m + 1 = u.n /\ m + 1 <= Len(sent)
    <3>1. c.ph # "close" /\ u.n = c.n /\ u.n \in 1..Len(sent)
      BY <1>1, <1>5, <1>6, <1>10, <1>14, FollowsParts
    <3> QED BY <1>14, <3>1 DEF Closed
  <2>2. TakenMap(taken, sent, opened[1], opened[2], m, at)
    BY <1>3 DEF TakenInv
  <2> HIDE DEF m
  <2>3. \/ inFrame = TRUE /\ rx = sent[m + 1]
        \/ inFrame = FALSE /\ 2 * Mtu < Len(sent[m + 1])
    BY <1>10, <1>14, <2>1
  <2>4. CASE inFrame /\ ValidSize(Len(rx)) /\ taken' = Append(taken, rx)
    <3>1. taken' = Append(taken, sent[m + 1]) /\ ValidSize(Len(sent[m + 1]))
      BY <2>3, <2>4
    <3>2. PICK to : TakenMap(taken', sent, opened[1], opened[2], m + 1, to)
      BY <1>5, <2>1, <2>2, <3>1, TakenOneMore
    <3>3. TakenInv(u, to)'
      BY <2>1, <3>2 DEF TakenInv
    <3> QED BY <1>6, <1>11, <3>3 DEF LinkInv
  <2>5. CASE ~(inFrame /\ ValidSize(Len(rx))) /\ UNCHANGED taken
    <3>1. ~ValidSize(Len(sent[m + 1]))
      <4>1. CASE inFrame = TRUE /\ rx = sent[m + 1]
        BY <2>5, <4>1
      <4>2. CASE 2 * Mtu < Len(sent[m + 1])
        <5>1. m + 1 \in 1..Len(sent) /\ Len(sent[m + 1]) \in Nat
          BY <1>5, <1>10, <1>14, <2>1
        <5> QED BY <4>2, <5>1, LinksAssumption DEF LinksAssumption, ValidSize
      <4> QED BY <2>3, <4>1, <4>2
    <3>2. TakenMap(taken, sent, opened[1], opened[2], m + 1, at)
      BY <1>5, <2>1, <2>2, <3>1, TakenSkips
    <3>3. TakenInv(u, at)'
      BY <2>1, <2>5, <3>2 DEF TakenInv
    <3> QED BY <1>6, <1>11, <3>3 DEF LinkInv
  <2> QED BY <2>4, <2>5
<1> QED BY <1>8, <1>13, <1>14

LEMMA LinkFeedFlag ==
  ASSUME LinkInv, FeedFlag
  PROVE  LinkInv'
<1>1. /\ Feeds("flag") /\ Opened /\ UNCHANGED <<up, wire, wasConnected, sent, taken, opened>>
      /\ ~(inFrame /\ ValidSize(Len(rx)))
  BY DEF FeedFlag, AtFlag, stream, log
<1>2. LinkTypes'
  <2>1. Len(<<>>) <= 2 * Mtu /\ <<>> \in Seq(Bytes)
    BY LinksAssumption DEF LinksAssumption
  <2>2. buf' \in Seq(Bytes)
    BY <1>1 DEF LinkInv, LinkTypes, Feeds
  <2> QED BY <1>1, <2>1, <2>2 DEF LinkInv, LinkTypes, Opened
<1> QED BY <1>1, <1>2, LinkFlag

LEMMA LinkTakes ==
  ASSUME LinkInv, Take
  PROVE  LinkInv'
<1>1. /\ Feeds("flag") /\ Opened /\ UNCHANGED <<sent, opened>>
      /\ inFrame /\ ValidSize(Len(rx)) /\ taken' = Append(taken, rx)
      /\ UNCHANGED <<up, wire, wasConnected>> \/ (up' = FALSE /\ wire' = <<>> /\ wasConnected' = FALSE)
  BY DEF Take, AtFlag, stream, log
<1>2. LinkTypes'
  <2>1. Len(<<>>) <= 2 * Mtu /\ <<>> \in Seq(Bytes)
    BY LinksAssumption DEF LinksAssumption
  <2>2. buf' \in Seq(Bytes) /\ taken' \in Seq(Seq(Bytes))
    BY <1>1 DEF LinkInv, LinkTypes, Feeds
  <2>3. up' \in BOOLEAN /\ wasConnected' \in BOOLEAN /\ wire' \in Seq(Bytes)
    BY <1>1, <2>1 DEF LinkInv, LinkTypes
  <2> QED BY <1>1, <2>1, <2>2, <2>3 DEF LinkInv, LinkTypes, Opened
<1> QED BY <1>1, <1>2, LinkFlag

LEMMA LinkStep == LinkInv /\ [Next]_vars => LinkInv'
<1> SUFFICES ASSUME LinkInv, [Next]_vars PROVE LinkInv' OBVIOUS
<1>1. CASE \E p \in Packets : ServerSends(p)
  BY <1>1, LinkSends
<1>2. CASE Break \/ TryConnect \/ DropConnection \/ ReadAvailable
  BY <1>2, LinkBreaks, LinkConnects, LinkDrops, LinkReads
<1>3. CASE FeedFlag \/ Take \/ FeedEscape \/ FeedOutside \/ FeedByte
  BY <1>3, LinkFeedFlag, LinkTakes, LinkEscape, LinkOutside, LinkByte
<1>4. CASE Arrive \/ OtherStation \/ Read
  BY <1>4, LinkKept DEF Arrive, OtherStation, Read, stream, frame, log
<1>5. CASE ReadFails \/ SetTxPower \/ FarTransmits
  BY <1>5, LinkKept DEF ReadFails, SetTxPower, FarTransmits, stream, frame, log
<1>6. CASE Restart
  BY <1>6, LinkRestarts
<1>7. CASE UNCHANGED vars
  BY <1>7, LinkKept DEF vars, stream, frame, log
<1> QED BY <1>1, <1>2, <1>3, <1>4, <1>5, <1>6, <1>7 DEF Next

-----------------------------------------------------------------------------
(* The types of the radio, and how often it may have transmitted *)

Halves(n) == [split : {TRUE}, from : 1..(MaxBreaks + 1), id : 0..(n - 1), part : {1, 2}]

FramesUpTo(n) == {Whole} \cup OthersHalves \cup Halves(n)

RadioTypes ==
    /\ breaks \in 0..MaxBreaks /\ boot \in 1..(breaks + 1)
    /\ txSeqCtr \in Nat /\ txSeqCtr <= Len(taken)
    /\ listening \in BOOLEAN
    /\ chip = NoFrame \/ chip \in FramesUpTo(Len(taken))
    /\ half = NoFrame \/ half \in FramesUpTo(Len(taken))
    /\ rxSeq \in 0..SeqMod

LEMMA HalfTypes ==
  ASSUME NEW n \in Nat, boot \in 1..(MaxBreaks + 1)
  PROVE  /\ \A m \in Nat : n <= m => FramesUpTo(n) \subseteq FramesUpTo(m)
         /\ n > 0 => Half(n - 1, 1) \in FramesUpTo(n) /\ Half(n - 1, 2) \in FramesUpTo(n)
         /\ \A f \in FramesUpTo(n) : f.id \in Nat
<1>1. ASSUME NEW m \in Nat, n <= m PROVE FramesUpTo(n) \subseteq FramesUpTo(m)
  <2>1. 0..(n - 1) \subseteq 0..(m - 1)
    BY <1>1
  <2>2. Halves(n) \subseteq Halves(m)
    BY <2>1 DEF Halves
  <2> QED BY <2>2, Zenon DEF FramesUpTo
<1>2. n > 0 => n - 1 \in 0..(n - 1)
  OBVIOUS
<1>3. \A i \in 0..(n - 1) : Half(i, 1) \in Halves(n) /\ Half(i, 2) \in Halves(n)
  BY DEF Halves, Half
<1>4. n > 0 => Half(n - 1, 1) \in FramesUpTo(n) /\ Half(n - 1, 2) \in FramesUpTo(n)
  BY <1>2, <1>3, Zenon DEF FramesUpTo
<1>5. ASSUME NEW f \in FramesUpTo(n) PROVE f.id \in Nat
  <2>1. CASE f \in Halves(n)
    <3>1. f.id \in 0..(n - 1)
      BY <2>1, Zenon DEF Halves
    <3> QED BY <3>1
  <2>2. CASE f = Whole
    BY <2>2 DEF Whole
  <2>3. CASE f \in OthersHalves
    BY <2>3, FrameFields
  <2> QED BY <2>1, <2>2, <2>3 DEF FramesUpTo
<1> QED BY <1>1, <1>4, <1>5

\* What is on the air is of the packet counted last.
LEMMA AirTypes ==
  ASSUME RadioInv, boot \in 1..(MaxBreaks + 1)
  PROVE  /\ air # <<>> => Head(air) \in FramesUpTo(txSeqCtr)
         /\ air \in Seq(FramesUpTo(txSeqCtr)) /\ Len(air) <= 2
<1>1. txSeqCtr \in Nat
  BY DEF RadioInv
<1> DEFINE F == FramesUpTo(txSeqCtr)
           a == Half(txSeqCtr - 1, 1)
           b == Half(txSeqCtr - 1, 2)
           w == Whole
<1>2. w \in F /\ (txSeqCtr > 0 => a \in F /\ b \in F)
  <2>1. w \in F
    BY Zenon DEF FramesUpTo
  <2> QED BY <1>1, <2>1, HalfTypes
<1>3. \/ air = <<>> \/ air = <<w>>
      \/ txSeqCtr > 0 /\ air = <<a, b>>
      \/ txSeqCtr > 0 /\ air = <<b>>
  BY Zenon DEF RadioInv, AirInv
<1> HIDE DEF F, a, b, w
<1>4. (air # <<>> => Head(air) \in F) /\ air \in Seq(F) /\ Len(air) <= 2
  <2>1. CASE air = <<>>
    BY <2>1
  <2>2. CASE air = <<w>>
    BY <1>2, <2>2
  <2>3. CASE txSeqCtr > 0 /\ air = <<a, b>>
    BY <1>2, <2>3
  <2>4. CASE txSeqCtr > 0 /\ air = <<b>>
    BY <1>2, <2>4
  <2> QED BY <1>3, <2>1, <2>2, <2>3, <2>4
<1> QED BY <1>4 DEF F

LEMMA RadioTypesInit == Init => RadioTypes
  BY FrameFields, LinksAssumption DEF Init, RadioTypes, SeqUnset, LinksAssumption

LEMMA RadioTypesKept ==
  ASSUME RadioTypes, UNCHANGED <<boot, txSeqCtr, taken, far>>,
         breaks' = breaks \/ (breaks < MaxBreaks /\ breaks' = breaks + 1)
  PROVE  RadioTypes'
<1>1. breaks' \in 0..MaxBreaks /\ boot' \in 1..(breaks' + 1)
  BY LinksAssumption DEF RadioTypes, LinksAssumption
<1>2. UNCHANGED <<listening, chip, half, rxSeq>>
  BY DEF far
<1> QED BY <1>1, <1>2 DEF RadioTypes

LEMMA RadioTypesTake ==
  ASSUME LinkInv, RadioTypes, Take
  PROVE  RadioTypes'
<1>1. txSeqCtr \in Nat /\ txSeqCtr <= Len(taken) /\ taken \in Seq(Seq(Bytes)) /\ rx \in Seq(Bytes)
  BY DEF RadioTypes, LinkInv, LinkTypes
<1>2. Len(taken') = Len(taken) + 1 /\ Len(taken) \in Nat /\ Len(taken') \in Nat
  BY <1>1 DEF Take
<1>3. txSeqCtr' = txSeqCtr \/ txSeqCtr' = txSeqCtr + 1
  BY DEF Take, SendByRadio
<1>4. txSeqCtr' \in Nat /\ txSeqCtr' <= Len(taken') /\ Len(taken) <= Len(taken')
  BY <1>1, <1>2, <1>3
<1>5. breaks' \in 0..MaxBreaks /\ boot' \in 1..(breaks' + 1) /\ boot \in 1..(MaxBreaks + 1)
  <2>1. boot' = boot /\ (breaks' = breaks \/ (breaks < MaxBreaks /\ breaks' = breaks + 1))
    BY DEF Take
  <2> QED BY <2>1, LinksAssumption DEF RadioTypes, LinksAssumption
<1>6. FramesUpTo(Len(taken)) \subseteq FramesUpTo(Len(taken'))
  BY <1>2, <1>4, <1>5, HalfTypes
<1>7. UNCHANGED <<listening, chip, half, rxSeq>>
  BY DEF Take, far
<1>8. /\ chip' = NoFrame \/ chip' \in FramesUpTo(Len(taken'))
      /\ half' = NoFrame \/ half' \in FramesUpTo(Len(taken'))
  BY <1>6, <1>7 DEF RadioTypes
<1> QED BY <1>4, <1>5, <1>7, <1>8, Zenon DEF RadioTypes, FramesUpTo

LEMMA RadioTypesRestart ==
  ASSUME LinkInv, RadioTypes, Restart
  PROVE  RadioTypes'
<1>1. /\ UNCHANGED <<taken, listening, chip, half, rxSeq>> /\ txSeqCtr' = 0
      /\ breaks < MaxBreaks /\ breaks' = breaks + 1 /\ boot' = boot + 1
  BY DEF Restart, far
<1>2. breaks' \in 0..MaxBreaks /\ boot' \in 1..(breaks' + 1)
  BY <1>1, LinksAssumption DEF RadioTypes, LinksAssumption
<1>3. txSeqCtr' \in Nat /\ txSeqCtr' <= Len(taken')
  BY <1>1 DEF RadioTypes
<1> QED BY <1>1, <1>2, <1>3 DEF RadioTypes

LEMMA RadioTypesArrive ==
  ASSUME LinkInv, RadioInv, RadioTypes, Arrive
  PROVE  RadioTypes'
<1>1. UNCHANGED <<boot, breaks, txSeqCtr, taken, listening, rxSeq, half>> /\ air # <<>>
  BY DEF Arrive, log
<1>2. chip' = chip \/ chip' = Head(air)
  BY DEF Arrive
<1>3. txSeqCtr \in Nat /\ txSeqCtr <= Len(taken) /\ Len(taken) \in Nat /\ boot \in 1..(MaxBreaks + 1)
  BY LinksAssumption DEF RadioTypes, LinkInv, LinkTypes, LinksAssumption
<1>4. Head(air) \in FramesUpTo(txSeqCtr)
  BY <1>1, <1>3, AirTypes
<1>5. FramesUpTo(txSeqCtr) \subseteq FramesUpTo(Len(taken))
  BY <1>3, HalfTypes
<1>6. chip' = NoFrame \/ chip' \in FramesUpTo(Len(taken))
  BY <1>2, <1>4, <1>5 DEF RadioTypes
<1> QED BY <1>1, <1>6 DEF RadioTypes

LEMMA RadioTypesRead ==
  ASSUME LinkInv, RadioTypes, Read
  PROVE  RadioTypes'
<1>1. UNCHANGED <<boot, breaks, txSeqCtr, taken, listening>> /\ chip' = NoFrame /\ chip # NoFrame
  BY DEF Read, log
<1>2. half' = chip \/ half' = NoFrame
  BY DEF Read, FirstHalf, SecondHalf, WholePacket
<1>3. rxSeq' \in 0..SeqMod
  <2>1. SeqUnset \in 0..SeqMod
    BY LinksAssumption DEF SeqUnset, LinksAssumption
  <2>2. ASSUME FirstHalf PROVE rxSeq' \in 0..SeqMod
    <3>1. rxSeq' = SeqOf(chip)
      BY <2>2 DEF FirstHalf
    <3>2. chip \in FramesUpTo(Len(taken))
      BY <1>1 DEF RadioTypes
    <3>3. boot \in 1..(MaxBreaks + 1) /\ Len(taken) \in Nat
      BY LinksAssumption DEF RadioTypes, LinkInv, LinkTypes, LinksAssumption
    <3>4. chip.id \in Nat
      BY <3>2, <3>3, HalfTypes
    <3> QED BY <3>1, <3>4, LinksAssumption DEF SeqOf, LinksAssumption
  <2> QED BY <2>1, <2>2 DEF Read, SecondHalf, WholePacket
<1>4. half' = NoFrame \/ half' \in FramesUpTo(Len(taken))
  BY <1>2 DEF RadioTypes
<1> QED BY <1>1, <1>3, <1>4 DEF RadioTypes

LEMMA RadioTypesStep == LinkInv /\ RadioInv /\ RadioTypes /\ [Next]_vars => RadioTypes'
<1> SUFFICES ASSUME LinkInv, RadioInv, RadioTypes, [Next]_vars PROVE RadioTypes' OBVIOUS
<1>1. CASE \E p \in Packets : ServerSends(p)
  BY <1>1, RadioTypesKept DEF ServerSends
<1>2. CASE Break \/ TryConnect \/ DropConnection \/ ReadAvailable
  BY <1>2, RadioTypesKept DEF Break, TryConnect, DropConnection, ReadAvailable, log
<1>3. CASE FeedFlag \/ FeedEscape \/ FeedOutside \/ FeedByte
  BY <1>3, RadioTypesKept DEF FeedFlag, FeedEscape, FeedOutside, FeedByte, log
<1>4. CASE Take
  BY <1>4, RadioTypesTake
<1>5. CASE Arrive
  BY <1>5, RadioTypesArrive
<1>6. CASE Read
  BY <1>6, RadioTypesRead
<1>7. CASE OtherStation \/ ReadFails \/ SetTxPower \/ FarTransmits
  <2>1. /\ UNCHANGED <<boot, breaks, txSeqCtr, taken, half, rxSeq>>
        /\ chip' = NoFrame \/ chip' \in {Whole} \cup OthersHalves
    BY <1>7 DEF OtherStation, ReadFails, SetTxPower, FarTransmits, log
  <2>2. listening' \in BOOLEAN
    BY <1>7 DEF OtherStation, ReadFails, SetTxPower, FarTransmits, RadioTypes
  <2>3. chip' = NoFrame \/ chip' \in FramesUpTo(Len(taken))
    BY <2>1, Zenon DEF FramesUpTo
  <2> QED BY <2>1, <2>2, <2>3 DEF RadioTypes
<1>8. CASE Restart
  BY <1>8, RadioTypesRestart
<1>9. CASE UNCHANGED vars
  BY <1>9, RadioTypesKept DEF vars, log
<1> QED BY <1>1, <1>2, <1>3, <1>4, <1>5, <1>6, <1>7, <1>8, <1>9 DEF Next

-----------------------------------------------------------------------------
(* Theorems *)

LinksInv == LinkInv /\ RadioInv /\ RadioTypes

LEMMA LinksInvHolds == Spec => []LinksInv
<1>1. Init => LinksInv
  BY LinkInit, InitStep, RadioTypesInit DEF LinksInv
<1>2. LinksInv /\ [Next]_vars => LinksInv'
  BY LinkStep, NextStep, RadioTypesStep DEF LinksInv
<1> QED BY <1>1, <1>2, PTL DEF Spec

LEMMA SentBound ==
  ASSUME LinkInv
  PROVE  Len(taken) <= MaxSends /\ Len(taken) \in Nat
<1>1. sent \in Seq(Seq(Bytes)) /\ taken \in Seq(Seq(Bytes)) /\ Len(sent) <= MaxSends
  BY PacketBytes DEF LinkInv, LinkTypes
<1>2. PICK c, at : TakenInv(c, at)
  BY Zenon DEF LinkInv
<1>3. Len(taken) <= Len(sent)
  BY <1>1, <1>2, TakenBounded DEF TakenInv
<1> QED BY <1>1, <1>3, LinksAssumption DEF LinksAssumption

\* Types: the frame being received never outgrows its room, and no more
\* packets go out by radio than the server sent, however often the node restarts.
THEOREM TypesHold == Spec => []TypeOK
<1>1. LinksInv => TypeOK
  <2> SUFFICES ASSUME LinksInv PROVE TypeOK OBVIOUS
  <2>1. LinkInv /\ LinkTypes /\ RadioInv /\ RadioTypes
    BY DEF LinksInv, LinkInv
  <2>2. txSeqCtr \in 0..MaxSends
    BY <2>1, SentBound, LinksAssumption DEF RadioTypes, LinksAssumption
  <2>3. /\ breaks \in 0..MaxBreaks /\ boot \in 1..(breaks + 1) /\ boot \in 1..(MaxBreaks + 1)
        /\ MaxSends \in Nat /\ txSeqCtr <= Len(taken)
    BY <2>1, LinksAssumption DEF RadioTypes, LinksAssumption
  <2>4. Frames = FramesUpTo(MaxSends)
    BY Zenon DEF Frames, FramesUpTo, Halves
  <2>5. FramesUpTo(txSeqCtr) \subseteq Frames /\ FramesUpTo(Len(taken)) \subseteq Frames
    BY <2>1, <2>2, <2>3, <2>4, SentBound, HalfTypes
  <2>6. air \in Seq(Frames) /\ Len(air) <= 2
    <3>1. air \in Seq(FramesUpTo(txSeqCtr)) /\ Len(air) <= 2
      BY <2>1, <2>3, AirTypes
    <3> HIDE DEF FramesUpTo
    <3> QED BY <2>5, <3>1
  <2>7. chip \in Frames \cup {NoFrame} /\ half \in Frames \cup {NoFrame}
    BY <2>1, <2>5 DEF RadioTypes
  <2> QED BY <2>1, <2>2, <2>3, <2>6, <2>7 DEF LinkTypes, RadioTypes, TypeOK
<1> QED BY <1>1, LinksInvHolds, PTL

\* A connection swallows no valid packet: when all that the server sent has
\* been read, the packets taken since the connect are the valid ones sent since.
THEOREM SwallowsNothing == Spec => []NothingSwallowed
<1>1. LinksInv => NothingSwallowed
  <2> SUFFICES ASSUME LinksInv, up, wire = <<>>, buf = <<>>
               PROVE  LET due == {k \in (opened[1] + 1)..Len(sent) : ValidSize(Len(sent[k]))}
                      IN  \E at \in [(opened[2] + 1)..Len(taken) -> due] :
                            /\ \A i \in DOMAIN at : taken[i] = sent[at[i]]
                            /\ \A i, j \in DOMAIN at : i < j => at[i] < at[j]
                            /\ \A k \in due : \E i \in DOMAIN at : at[i] = k
    BY Zenon DEF NothingSwallowed
  <2>1. PICK c : Legal(sent, c) /\ (\E at : TakenInv(c, at)) /\ (Dropped \/ \E g : StreamInv(c, g))
    BY Zenon DEF LinksInv, LinkInv
  <2>2. LinkTypes /\ sent \in Seq(Seq(Bytes)) /\ taken \in Seq(Seq(Bytes)) /\ up = TRUE
    BY PacketBytes DEF LinksInv, LinkInv, LinkTypes
  <2>3. PICK g : StreamInv(c, g)
    BY <2>1, <2>2 DEF Dropped
  <2>4. PICK all : TakenInv(c, all)
    BY <2>1
  <2>5. Closed(c) = Len(sent)
    <3>1. Len(buf \o wire) = 0
      OBVIOUS
    <3>2. c = Tag(Len(sent), 0, "close")
      BY <2>2, <2>3, <3>1 DEF StreamInv
    <3>3. Len(sent) \in 0..Len(sent)
      BY <2>2
    <3> QED BY <2>2, <3>2, <3>3, ClosedTag
  <2> DEFINE o == opened[1]
             v == opened[2]
             n == Len(sent)
             l == Len(taken)
             due == {k \in (o + 1)..n : ValidSize(Len(sent[k]))}
             at == [i \in (v + 1)..l |-> all[i]]
  <2>6. TakenMap(taken, sent, o, v, n, all)
    BY <2>4, <2>5 DEF TakenInv
  <2>7. n \in Nat /\ l \in Nat /\ o \in 0..n /\ v \in 0..l
    BY <2>2, <2>6 DEF TakenMap
  <2> HIDE DEF o, v, n
  <2>8. \A i \in (v + 1)..l : i \in 1..l /\ v < i
    BY <2>7
  <2>9. \A i \in (v + 1)..l : all[i] \in due
    <3> SUFFICES ASSUME NEW i \in (v + 1)..l PROVE all[i] \in due OBVIOUS
    <3>1. all[i] \in 1..n /\ o < all[i] /\ ValidSize(Len(sent[all[i]]))
      BY <2>6, <2>8 DEF TakenMap
    <3> QED BY <2>7, <3>1
  <2>10. ASSUME NEW k \in due PROVE \E i \in (v + 1)..l : all[i] = k
    <3>1. k \in 1..n /\ o < k /\ ValidSize(Len(sent[k]))
      BY <2>7
    <3>2. PICK i \in 1..l : v < i /\ all[i] = k
      BY <2>6, <3>1 DEF TakenMap
    <3>3. i \in (v + 1)..l
      BY <2>7, <3>2
    <3> QED BY <3>2, <3>3
  <2>11. \A i \in (v + 1)..l : taken[i] = sent[all[i]]
    BY <2>6, <2>8 DEF TakenMap
  <2>12. \A i, j \in (v + 1)..l : i < j => all[i] < all[j]
    BY <2>6, <2>8 DEF TakenMap
  <2> HIDE DEF due, l
  <2>13. at \in [(v + 1)..l -> due] /\ DOMAIN at = (v + 1)..l /\ \A i \in (v + 1)..l : at[i] = all[i]
    BY <2>9
  <2> HIDE DEF at
  <2>14. /\ \A i \in DOMAIN at : taken[i] = sent[at[i]]
         /\ \A i, j \in DOMAIN at : i < j => at[i] < at[j]
         /\ \A k \in due : \E i \in DOMAIN at : at[i] = k
    BY <2>10, <2>11, <2>12, <2>13
  <2> QED BY <2>13, <2>14, Zenon DEF due, o, v, n, l
<1> QED BY <1>1, LinksInvHolds, PTL

LEMMA LeftOfTaken ==
  ASSUME LinkInv
  PROVE  TcpChannel!LeftOf(taken, sent) /\ \A i \in 1..Len(taken) : taken[i] \in Packets
<1>1. sent \in Seq(Packets)
  BY DEF LinkInv, LinkTypes
<1>2. PICK c, at : TakenInv(c, at)
  BY Zenon DEF LinkInv
<1>3. TakenMap(taken, sent, opened[1], opened[2], Closed(c), at)
  BY <1>2 DEF TakenInv
<1>4. at \in [1..Len(taken) -> 1..Len(sent)]
  BY <1>1, <1>3 DEF TakenMap
<1>5. \A i \in 1..Len(taken) : taken[i] = sent[at[i]]
  BY <1>3 DEF TakenMap
<1>6. \A i, j \in 1..Len(taken) : i < j => at[i] < at[j]
  BY <1>3 DEF TakenMap
<1>7. TcpChannel!LeftOf(taken, sent)
  BY <1>4, <1>5, <1>6, Zenon DEF TcpChannel!LeftOf
<1>8. \A i \in 1..Len(taken) : taken[i] \in Packets
  BY <1>1, <1>4, <1>5
<1> QED BY <1>7, <1>8

\* The node's TCP interface implements the channel: packets may be lost with a
\* connection, but what is taken was sent, whole, once and in order.
THEOREM ImplementsChannel == Spec => TakesWhatWasSent
<1>1. Init => TcpChannel!Init
  BY DEF Init, TcpChannel!Init
<1>2. LinksInv /\ LinksInv' /\ [Next]_vars => [TcpChannel!Next]_<<sent, taken>>
  <2> SUFFICES ASSUME LinksInv, LinksInv', [Next]_vars, ~(UNCHANGED <<sent, taken>>)
               PROVE  TcpChannel!Next
    OBVIOUS
  <2>1. ASSUME NEW p \in Packets, ServerSends(p) PROVE TcpChannel!Next
    <3>1. TcpChannel!Send(p)
      BY <2>1 DEF ServerSends, TcpChannel!Send
    <3> QED BY <3>1 DEF TcpChannel!Next
  <2>2. ASSUME Take PROVE TcpChannel!Next
    <3>1. taken' = Append(taken, rx) /\ UNCHANGED sent
      BY <2>2 DEF Take
    <3>2. TcpChannel!LeftOf(taken, sent)' /\ (\A i \in 1..Len(taken) : taken[i] \in Packets)'
      BY LeftOfTaken, PTL DEF LinksInv
    <3>3. taken \in Seq(Seq(Bytes)) /\ rx \in Seq(Bytes)
      BY DEF LinksInv, LinkInv, LinkTypes
    <3>4. rx \in Packets
      <4>1. Len(taken') \in 1..Len(taken') /\ taken'[Len(taken')] = rx
        BY <3>1, <3>3
      <4> QED BY <3>2, <4>1
    <3>5. TcpChannel!LeftOf(taken', sent)
      BY <3>1, <3>2
    <3>6. TcpChannel!Deliver(rx)
      BY <3>1, <3>5 DEF TcpChannel!Deliver
    <3> QED BY <3>4, <3>6 DEF TcpChannel!Next
  <2>3. ASSUME Break \/ TryConnect \/ DropConnection \/ ReadAvailable PROVE FALSE
    BY <2>3 DEF Break, TryConnect, DropConnection, ReadAvailable, log
  <2>4. ASSUME FeedFlag \/ FeedEscape \/ FeedOutside \/ FeedByte PROVE FALSE
    BY <2>4 DEF FeedFlag, FeedEscape, FeedOutside, FeedByte, log
  <2>5. ASSUME Arrive \/ OtherStation \/ Read PROVE FALSE
    BY <2>5 DEF Arrive, OtherStation, Read, log
  <2>6. ASSUME ReadFails \/ SetTxPower \/ FarTransmits PROVE FALSE
    BY <2>6 DEF ReadFails, SetTxPower, FarTransmits, log
  <2>7. ASSUME Restart PROVE FALSE
    BY <2>7 DEF Restart
  <2>8. ~(UNCHANGED vars)
    BY DEF vars, log
  <2> QED BY <2>1, <2>2, <2>3, <2>4, <2>5, <2>6, <2>7, <2>8 DEF Next
<1> QED BY <1>1, <1>2, LinksInvHolds, PTL DEF Spec, TakesWhatWasSent, TcpChannel!Spec

=============================================================================
