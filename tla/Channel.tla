------------------------------- MODULE Channel -------------------------------
(***************************************************************************)
(* What a link of the node promises: packets may be lost, but what arrives *)
(* was sent, whole, once for each time it was sent, and in order.          *)
(***************************************************************************)
EXTENDS Naturals, Sequences

CONSTANT Packets

VARIABLES sent, got

\* s is what is left of t when some of its elements are lost.
LeftOf(s, t) ==
    \E at \in [1..Len(s) -> 1..Len(t)] :
        /\ \A i \in 1..Len(s) : s[i] = t[at[i]]
        /\ \A i, j \in 1..Len(s) : i < j => at[i] < at[j]

Init == sent = <<>> /\ got = <<>>

Send(p) == sent' = Append(sent, p) /\ UNCHANGED got

Deliver(p) ==
    /\ got' = Append(got, p)
    /\ LeftOf(got', sent)
    /\ UNCHANGED sent

Next == \E p \in Packets : Send(p) \/ Deliver(p)

Spec == Init /\ [][Next]_<<sent, got>>
=============================================================================
