---------------------------- MODULE MCHantroDec -----------------------------
(* Model checking of HantroDec: frames are model values, and interchangeable   *)
(* (no symmetry in the run that checks liveness).                              *)
EXTENDS HantroDec, TLC

FrameSymmetry == Permutations(Frame)
=============================================================================
