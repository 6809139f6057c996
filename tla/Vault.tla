-------------------------------- MODULE Vault --------------------------------
(***************************************************************************)
(* What the node relies on when its keys live in the chip (VaultKeys.h),   *)
(* with no link, channel, session or recovery: each key is generated once  *)
(* and never again; a boot takes the chip's identity only when both halves *)
(* are there; and a use of a key is answered with that key and with the    *)
(* peer of this use, or it throws.  Se050.tla is shown to implement it.    *)
(***************************************************************************)
CONSTANT Keys       \* the key objects an identity is made of

VARIABLES key,      \* each key: not there yet, as generated, or another in its place
          owner,    \* whose keys this boot runs with
          asked,    \* the use under way: its key, or none
          given,    \* the use under way has its input in the chip's hands
          result    \* of the last use in this boot

vars == <<key, owner, asked, given, result>>

Init ==
    /\ key = [k \in Keys |-> "absent"]
    /\ owner = "none"
    /\ asked = {} /\ given = FALSE
    /\ result = "none"

\* A key that is not there is generated; whether anyone hears of it is another matter.
Grows ==
    \/ key' = key
    \/ \E k \in Keys : key[k] = "absent" /\ key' = [key EXCEPT ![k] = "original"]

Generate ==
    /\ asked = {}
    /\ Grows
    /\ UNCHANGED <<owner, asked, given, result>>

\* The boot settles whose keys the node runs with.
Adopt(whose) ==
    /\ owner = "none"
    /\ Grows
    /\ whose = "chip" => \A k \in Keys : key[k] = "original"
    /\ owner' = whose
    /\ UNCHANGED <<asked, given, result>>

\* A use of key k, with its input or ahead of it.
Ask(k) ==
    /\ owner = "chip" /\ asked = {}
    /\ asked' = {k}
    /\ given' \in BOOLEAN
    /\ UNCHANGED <<key, owner, result>>

\* The chip gets the input of this use, or loses it.
Hand ==
    /\ asked # {}
    /\ given' = ~given
    /\ UNCHANGED <<key, owner, asked, result>>

\* The use returns what the chip made with the key and the input.
Serve ==
    /\ \E k \in asked : key[k] = "original"
    /\ given
    /\ asked' = {} /\ given' = FALSE /\ result' = "served"
    /\ UNCHANGED <<key, owner>>

\* The use throws.
Refuse ==
    /\ asked # {}
    /\ asked' = {} /\ given' = FALSE /\ result' = "failed"
    /\ UNCHANGED <<key, owner>>

\* The node restarts, in the middle of a use or not.
Boot ==
    /\ owner' = "none" /\ asked' = {} /\ given' = FALSE /\ result' = "none"
    /\ UNCHANGED key

Next ==
    \/ Generate \/ (\E whose \in {"chip", "file"} : Adopt(whose))
    \/ (\E k \in Keys : Ask(k)) \/ Hand \/ Serve \/ Refuse \/ Boot

Spec == Init /\ [][Next]_vars
==============================================================================
