--------------------------- MODULE MCAppController ---------------------------
(***************************************************************************)
(* Instances of AppController for TLC.                                     *)
(***************************************************************************)
EXTENDS AppController, TLC

\* A frame may be exchanged for another one.
FrameSymmetry == Permutations(Frames)
=============================================================================
