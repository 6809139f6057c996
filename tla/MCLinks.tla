------------------------------ MODULE MCLinks ------------------------------
(* Packets of each size the links tell apart, for TLC: refused by TCP as too *)
(* short, one radio frame, two, over the room of a frame.                    *)
EXTENDS Links

MCPackets == {
    <<"flag'">>,
    <<"esc'", "flag">>,
    <<"flag'", "esc", "esc'">>,
    [i \in 1..8 |-> "esc'"]}
=============================================================================
