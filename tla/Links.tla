------------------------------- MODULE Links -------------------------------
(***************************************************************************)
(* The two links of a node and what crosses from one to the other:         *)
(*   - src/src/TCPClientInterface.cpp: HDLC frames on a TCP connection to  *)
(*     a Reticulum server, cut from the stream byte by byte;               *)
(*   - src/src/LoRaInterface.cpp: packets of one or two radio frames.      *)
(*                                                                         *)
(* A server sends packets; the node takes them from the stream and         *)
(* Reticulum may pass them on by radio and may answer on the connection.   *)
(* Another node, running the same LoRaInterface, listens. Connections      *)
(* break, the node restarts, frames are lost, frames of other stations,    *)
(* whole ones and halves of any sequence, come between.                    *)
(*                                                                         *)
(* A packet is a sequence of the bytes that framing tells apart. On the    *)
(* radio only its length matters. A frame says that it is a half, and three *)
(* bits of id; who sent it (from), the rest of id and which half it is     *)
(* (part) are known to the properties, never to the node that listens.     *)
(***************************************************************************)
EXTENDS Naturals, Sequences

CONSTANTS Packets,     \* the packets the server may send
          MinSize,     \* HEADER_MINSIZE
          Mtu,         \* MTU, _HW_MTU
          Chunk,       \* sizeof(buf): what readAvailable() reads at a time
          MaxPayload,  \* LORA_MAX_PAYLOAD
          SeqMod,      \* HEADER_SEQ_MASK + 1
          MaxSends,    \* bounds the packets the server sends
          MaxBreaks    \* bounds the connections that fail and the restarts

\* HDLC_FLAG, HDLC_ESC and what HDLC_ESC_MASK makes of them.
Bytes == {"flag", "esc", "flag'", "esc'"}

ASSUME LinksAssumption ==
    /\ \A p \in Packets : p \in Seq(Bytes) /\ p # <<>>
    /\ MinSize \in Nat \ {0} /\ Mtu \in Nat /\ MinSize < Mtu
    /\ Chunk \in Nat \ {0}
    /\ MaxPayload \in Nat \ {0} /\ SeqMod \in Nat \ {0}
    /\ MaxSends \in Nat /\ MaxBreaks \in Nat

VARIABLES
    up,              \* the connection is established at both ends
    wire,            \* bytes the socket has received or will receive
    wasConnected,    \* _wasConnected
    buf,             \* what is left of readAvailable()'s buf
    inFrame, escape, rx,  \* _inFrame, _escape, _rx
    boot,            \* history: the node's restarts, from 1
    txSeqCtr,        \* _txSeqCtr, not wrapped
    air,             \* frames of the packet being transmitted
    listening,       \* the other node's radio is in receive
    chip,            \* the frame in its buffer, or NoFrame
    rxSeq, half,     \* its _rxSeq and the half that waits in its _buffer
    sent, taken,     \* history: packets the server sent, packets the node took
    opened,          \* history: Len(sent) and Len(taken) at the last connect
    breaks           \* bounds the run

stream == <<up, wire, wasConnected>>
frame == <<inFrame, escape, rx>>
far == <<listening, chip, rxSeq, half>>
log == <<sent, taken, opened, breaks>>
vars == <<stream, buf, frame, boot, txSeqCtr, air, far, log>>

\* SEQ_UNSET: no sequence number.
SeqUnset == SeqMod

\* The i-th packet that the node splits after a restart, one of its halves.
Half(i, p) == [split |-> TRUE, from |-> boot, id |-> i, part |-> p]

\* Halves other stations send: all that is known of them is the sequence.
OthersHalves == [split : {TRUE}, from : {0}, id : 0..(SeqMod - 1), part : {0}]

Whole == [split |-> FALSE, from |-> 0, id |-> 0, part |-> 0]
NoFrame == [split |-> FALSE, from |-> 0, id |-> 0, part |-> 3]

Init ==
    /\ up = FALSE /\ wire = <<>> /\ wasConnected = FALSE
    /\ buf = <<>>
    /\ inFrame = FALSE /\ escape = FALSE /\ rx = <<>>
    /\ boot = 1 /\ txSeqCtr = 0 /\ air = <<>>
    /\ listening = TRUE /\ chip = NoFrame /\ rxSeq = SeqUnset /\ half = NoFrame
    /\ sent = <<>> /\ taken = <<>> /\ opened = <<0, 0>> /\ breaks = 0

-----------------------------------------------------------------------------
(* The connection *)

Mask(b) == CASE b = "flag" -> "flag'" [] b = "flag'" -> "flag"
             [] b = "esc" -> "esc'"   [] b = "esc'" -> "esc"

\* FLAG + escape(data) + FLAG.
Framed(p) ==
    LET Escaped[i \in 0..Len(p)] ==
            IF i = 0 THEN <<>>
            ELSE Escaped[i - 1] \o (IF p[i] \in {"flag", "esc"} THEN <<"esc", Mask(p[i])>> ELSE <<p[i]>>)
    IN  <<"flag">> \o Escaped[Len(p)] \o <<"flag">>

ServerSends(p) ==
    /\ up /\ Len(sent) < MaxSends
    /\ wire' = wire \o Framed(p)
    /\ sent' = Append(sent, p)
    /\ UNCHANGED <<up, wasConnected, buf, frame, boot, txSeqCtr, air, far, taken, opened, breaks>>

\* The server closes, or the cable goes: what was on its way arrives in part.
Break ==
    /\ up /\ breaks < MaxBreaks
    /\ up' = FALSE /\ breaks' = breaks + 1
    /\ \E n \in 0..Len(wire) : wire' = SubSeq(wire, 1, n)
    /\ UNCHANGED <<wasConnected, buf, frame, boot, txSeqCtr, air, far, sent, taken, opened>>

\* EthernetClient: a closed socket is connected until it is read empty.
Connected == up \/ wire # <<>>

\* loop() is not in a handler, nor waiting for the radio.
AtRest == buf = <<>> /\ air = <<>>

\* Mutant: the state of the frame is only reset when a connection is dropped.
Kept == UNCHANGED frame

Cleared == inFrame' = FALSE /\ escape' = FALSE /\ rx' = <<>>

ClearedByConnect == Cleared

TryConnect ==
    /\ AtRest /\ ~Connected /\ ~wasConnected
    /\ up' = TRUE /\ wasConnected' = TRUE
    /\ ClearedByConnect
    /\ opened' = <<Len(sent), Len(taken)>>
    /\ UNCHANGED <<wire, buf, boot, txSeqCtr, air, far, sent, taken, breaks>>

\* loop() finds the socket closed: dropConnection().
DropConnection ==
    /\ AtRest /\ ~Connected /\ wasConnected
    /\ wasConnected' = FALSE
    /\ Cleared
    /\ UNCHANGED <<up, wire, buf, boot, txSeqCtr, air, far, log>>

ReadAvailable ==
    /\ AtRest /\ wire # <<>>
    /\ \E n \in 1..Len(wire) :
        /\ n <= Chunk
        /\ buf' = SubSeq(wire, 1, n)
        /\ wire' = SubSeq(wire, n + 1, Len(wire))
    /\ UNCHANGED <<up, wasConnected, frame, boot, txSeqCtr, air, far, log>>

-----------------------------------------------------------------------------
(* feed(), one byte of buf at a time *)

Feeds(b) == buf # <<>> /\ air = <<>> /\ Head(buf) = b /\ buf' = Tail(buf)

\* Mutant: flags open and close frames in turn.
Toggled == inFrame' = ~inFrame /\ escape' = FALSE /\ rx' = <<>>

Opened == inFrame' = TRUE /\ escape' = FALSE /\ rx' = <<>>

AtFlag == Opened

ValidSize(n) == MinSize < n /\ n <= Mtu

\* A flag with nothing before it, or with a frame of no valid size.
FeedFlag ==
    /\ Feeds("flag")
    /\ ~(inFrame /\ ValidSize(Len(rx)))
    /\ AtFlag
    /\ UNCHANGED <<stream, boot, txSeqCtr, air, far, log>>

\* A packet of n bytes takes two frames.
Splits(n) == ~(n <= MaxPayload) /\ n <= 2 * MaxPayload

\* LoRaInterface::send_outgoing: the frames of a packet of n bytes.
RadioFrames(n) ==
    IF n <= MaxPayload THEN <<Whole>>
    ELSE IF Splits(n) THEN <<Half(txSeqCtr, 1), Half(txSeqCtr, 2)>>
    ELSE <<>>

SendByRadio(n) ==
    /\ air' = RadioFrames(n)
    /\ txSeqCtr' = IF Splits(n) THEN txSeqCtr + 1 ELSE txSeqCtr

\* handle_incoming(): Reticulum may pass the packet on by radio and may answer;
\* an answer cut short drops the connection under the bytes still to be fed.
Take ==
    /\ Feeds("flag")
    /\ inFrame /\ ValidSize(Len(rx))
    /\ taken' = Append(taken, rx)
    /\ \/ SendByRadio(Len(rx))
       \/ UNCHANGED <<air, txSeqCtr>>
    /\ \/ UNCHANGED <<stream, breaks>>
       \/ /\ Connected /\ breaks < MaxBreaks
          /\ up' = FALSE /\ wire' = <<>> /\ wasConnected' = FALSE
          /\ breaks' = breaks + 1
    /\ AtFlag
    /\ UNCHANGED <<boot, far, sent, opened>>

FeedEscape ==
    /\ Feeds("esc")
    /\ escape' = inFrame
    /\ UNCHANGED <<stream, inFrame, rx, boot, txSeqCtr, air, far, log>>

FeedOutside ==
    /\ \E b \in {"flag'", "esc'"} : Feeds(b)
    /\ ~inFrame
    /\ UNCHANGED <<stream, frame, boot, txSeqCtr, air, far, log>>

\* Mutant: the frame is cut off at one byte more than its room.
RoomAndOne == Len(rx) <= 2 * Mtu

Room == Len(rx) < 2 * Mtu

FeedByte ==
    /\ inFrame
    /\ \E b \in {"flag'", "esc'"} :
        /\ Feeds(b)
        /\ IF Room
           THEN rx' = Append(rx, IF escape THEN Mask(b) ELSE b) /\ UNCHANGED inFrame
           ELSE rx' = <<>> /\ inFrame' = FALSE
    /\ escape' = FALSE
    /\ UNCHANGED <<stream, boot, txSeqCtr, air, far, log>>

\* A restart of the node, wherever it is: begin() and start() anew.
Restart ==
    /\ breaks < MaxBreaks /\ breaks' = breaks + 1
    /\ boot' = boot + 1
    /\ up' = FALSE /\ wire' = <<>> /\ wasConnected' = FALSE
    /\ buf' = <<>> /\ Cleared
    /\ txSeqCtr' = 0 /\ air' = <<>>
    /\ UNCHANGED <<far, sent, taken, opened>>

-----------------------------------------------------------------------------
(* The radio of the other node *)

\* A frame ends on the air. The chip keeps the last one it received.
Arrive ==
    /\ air # <<>>
    /\ air' = Tail(air)
    /\ (chip' = Head(air) /\ listening) \/ UNCHANGED chip
    /\ UNCHANGED <<stream, buf, frame, boot, txSeqCtr, listening, rxSeq, half, log>>

\* A frame of another station: a whole packet, or a half.
OtherStation ==
    /\ listening
    /\ chip' \in {Whole} \cup OthersHalves
    /\ UNCHANGED <<stream, buf, frame, boot, txSeqCtr, air, listening, rxSeq, half, log>>

SeqOf(f) == f.id % SeqMod

\* The frame read has the sequence of the half that waits.
Continues == rxSeq = SeqOf(chip)

FirstHalf ==
    /\ chip.split /\ ~Continues
    /\ rxSeq' = SeqOf(chip) /\ half' = chip

\* The two halves are handed up as one packet.
SecondHalf ==
    /\ chip.split /\ Continues
    /\ rxSeq' = SeqUnset /\ half' = NoFrame

\* Mutant: a whole packet leaves the sequence of the half it replaces.
WholePacketOverHalf ==
    /\ chip = Whole
    /\ half' = NoFrame
    /\ UNCHANGED rxSeq

WholePacket ==
    /\ chip = Whole
    /\ rxSeq' = SeqUnset /\ half' = NoFrame

\* loop(): readData() succeeds.
Read ==
    /\ chip # NoFrame /\ chip' = NoFrame
    /\ FirstHalf \/ SecondHalf \/ WholePacket
    /\ UNCHANGED <<stream, buf, frame, boot, txSeqCtr, air, listening, log>>

\* readData() fails: on a CRC error nothing, on any other startReceive().
ReadFails ==
    /\ chip # NoFrame /\ chip' = NoFrame
    /\ listening' \in {listening, FALSE, TRUE}
    /\ UNCHANGED <<stream, buf, frame, boot, txSeqCtr, air, rxSeq, half, log>>

\* setTxPowerDbm(): the radio stands by while the power is set, and stays so
\* when that or the startReceive() after it fails.
SetTxPower ==
    /\ listening' \in BOOLEAN
    /\ chip' = NoFrame
    /\ UNCHANGED <<stream, buf, frame, boot, txSeqCtr, air, rxSeq, half, log>>

\* send_outgoing() of a packet of the other node: startReceive(), whose result
\* is not looked at, clears the chip's buffer.
FarTransmits ==
    /\ listening' \in BOOLEAN
    /\ chip' = NoFrame
    /\ UNCHANGED <<stream, buf, frame, boot, txSeqCtr, air, rxSeq, half, log>>

Next ==
    \/ \E p \in Packets : ServerSends(p)
    \/ Break \/ TryConnect \/ DropConnection \/ ReadAvailable
    \/ FeedFlag \/ Take \/ FeedEscape \/ FeedOutside \/ FeedByte \/ Restart
    \/ Arrive \/ OtherStation \/ Read \/ ReadFails \/ SetTxPower \/ FarTransmits

Spec == Init /\ [][Next]_vars

-----------------------------------------------------------------------------
(* Properties *)

Frames ==
    {Whole} \cup OthersHalves
    \cup [split : {TRUE}, from : 1..(MaxBreaks + 1), id : 0..(MaxSends - 1), part : {1, 2}]

TypeOK ==
    /\ up \in BOOLEAN /\ wasConnected \in BOOLEAN
    /\ wire \in Seq(Bytes) /\ buf \in Seq(Bytes)
    /\ inFrame \in BOOLEAN /\ escape \in BOOLEAN
    /\ rx \in Seq(Bytes) /\ Len(rx) <= 2 * Mtu
    /\ breaks \in 0..MaxBreaks /\ boot \in 1..(breaks + 1)
    /\ txSeqCtr \in 0..MaxSends /\ air \in Seq(Frames) /\ Len(air) <= 2
    /\ listening \in BOOLEAN /\ chip \in Frames \cup {NoFrame}
    /\ rxSeq \in 0..SeqMod /\ half \in Frames \cup {NoFrame}

\* What the node takes from its connections is what the server sent, whole and
\* in order, however reads cut the stream and wherever connections break: half
\* a frame is never joined with the next connection's.
TcpChannel == INSTANCE Channel WITH got <- taken
TakesWhatWasSent == TcpChannel!Spec

\* On one connection nothing is lost: a frame too short or too long, or bytes
\* that look like framing, cost none of the packets around them.
NothingSwallowed ==
    up /\ wire = <<>> /\ buf = <<>> =>
        LET due == {k \in (opened[1] + 1)..Len(sent) : ValidSize(Len(sent[k]))}
        IN  \E at \in [(opened[2] + 1)..Len(taken) -> due] :
                /\ \A i \in DOMAIN at : taken[i] = sent[at[i]]
                /\ \A i, j \in DOMAIN at : i < j => at[i] < at[j]
                /\ \A k \in due : \E i \in DOMAIN at : at[i] = k

\* What the far node is about to join are halves of one sequence. A frame does
\* not say who sent it, so they may be of two stations, or of one before and
\* after its restart; two that the node sent between restarts are the halves of
\* one packet, in order, or a whole turn of the three bits apart (when what came
\* between was lost).
HalvesMatch ==
    chip.split /\ Continues =>
        /\ half.split
        /\ half.from = chip.from /\ half.from # 0 =>
            \/ half.id = chip.id /\ half.part = 1 /\ chip.part = 2
            \/ half.id < chip.id /\ SeqOf(half) = SeqOf(chip)
=============================================================================
