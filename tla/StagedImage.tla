---------------------------- MODULE StagedImage -----------------------------
(***************************************************************************)
(* What the update channel promises the code that installs an update: an   *)
(* image is either staged whole, exactly as the PC offered it, or not at   *)
(* all, and a staged image does not change until it is withdrawn.          *)
(* OtaTransfer implements it (OtaTransfer!StagedImageSpec).                *)
(***************************************************************************)
CONSTANTS Images, None

VARIABLES
  offered,     \* images the PC has finalised at least once
  staged       \* the image an installer would be handed, or None

Init == offered = {} /\ staged = None

Offer(img) ==
  /\ offered' = offered \cup {img}
  /\ UNCHANGED staged

Stage(img) ==
  /\ staged = None /\ img \in offered
  /\ staged' = img
  /\ UNCHANGED offered

\* Taken by the installer, or given up for a new transfer.
Withdraw ==
  /\ staged' = None
  /\ UNCHANGED offered

Next == Withdraw \/ \E img \in Images : Offer(img) \/ Stage(img)

Spec == Init /\ [][Next]_<<offered, staged>>
=============================================================================
