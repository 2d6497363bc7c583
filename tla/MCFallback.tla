----------------------------- MODULE MCFallback -----------------------------
(***************************************************************************)
(* A small instance of Fallback.  The snapshots: one too quiet to act on,  *)
(* a loud class 1, a tie that the larger byte (class 2) wins, a negative   *)
(* loud one of class 4 that is longer than the tensor, and silence.        *)
(***************************************************************************)
EXTENDS Fallback

MCSnapshots == {<<1, 1>>, <<97, 97>>, <<97, 98>>, <<156, 156, 3>>, <<>>}
=============================================================================
