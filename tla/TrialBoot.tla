------------------------------ MODULE TrialBoot ------------------------------
(***************************************************************************)
(* What the Ethernet OTA promises (docs/ota.md, "The trial boot"), with no *)
(* files, no reboots and no OTA stub: a node runs one image; an offered    *)
(* image is tried a bounded number of times and then either accepted, or   *)
(* the image that ran before it is put back, or the node gives up because  *)
(* it kept nothing to put back.  Ota.tla is shown to implement it.         *)
(***************************************************************************)
EXTENDS Naturals

CONSTANTS Images,       \* the images a client may offer
          NoImage,      \* no image was ever offered
          TrialBoots    \* boots an offered image gets to prove itself

VARIABLES running,      \* the image the next boot executes
          previous,     \* the image that ran when the last one was offered
          candidate,    \* the last image offered
          tries,        \* boots of the candidate counted so far
          verdict       \* what became of the candidate

vars == <<running, previous, candidate, tries, verdict>>

Init ==
    /\ running \in Images
    /\ previous = running
    /\ candidate = NoImage
    /\ tries = 0
    /\ verdict = "none"

\* A new image is offered to a node that has settled the last one; it runs next.
Offer(i) ==
    /\ verdict # "pending"
    /\ verdict' = "pending"
    /\ previous' = running
    /\ running' = i
    /\ candidate' = i
    /\ tries' = 0

\* One more boot of the candidate is counted.
Try ==
    /\ verdict = "pending"
    /\ tries < TrialBoots
    /\ tries' = tries + 1
    /\ UNCHANGED <<running, previous, candidate, verdict>>

\* The candidate proved itself, in a boot that was counted.
Accept ==
    /\ verdict = "pending"
    /\ tries > 0
    /\ running = candidate
    /\ verdict' = "confirmed"
    /\ tries' = 0
    /\ UNCHANGED <<running, previous, candidate>>

\* The candidate used its boots up: the previous image runs next.
Revert ==
    /\ verdict = "pending"
    /\ tries = TrialBoots
    /\ running' = previous
    /\ UNCHANGED <<previous, candidate, tries, verdict>>

\* The verdict is written once the previous image is what runs next.
Reject ==
    /\ verdict = "pending"
    /\ tries = TrialBoots
    /\ running = previous
    /\ verdict' = "rolledback"
    /\ tries' = 0
    /\ UNCHANGED <<running, previous, candidate>>

\* The candidate used its boots up and there was nothing to put back.
GiveUp ==
    /\ verdict = "pending"
    /\ tries = TrialBoots
    /\ verdict' = "failed"
    /\ tries' = 0
    /\ UNCHANGED <<running, previous, candidate>>

Next == (\E i \in Images : Offer(i)) \/ Try \/ Accept \/ Revert \/ Reject \/ GiveUp

Spec == Init /\ [][Next]_vars
==============================================================================
