------------------------------ MODULE MCVpuEnc ------------------------------
(* Model checking of VpuEnc: the file, the passes and the number of pictures   *)
(* to encode bound every counter and the log.                                  *)
EXTENDS VpuEnc, TLC
=============================================================================
