------------------------------ MODULE MCVpuDec ------------------------------
(* Model checking of VpuDec: frames are model values, and interchangeable.     *)
EXTENDS VpuDec, TLC

FrameSymmetry == Permutations(Frame)
=============================================================================
