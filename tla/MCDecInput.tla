---------------------------- MODULE MCDecInput ------------------------------
(* Model checking of DecInput, and of the ring's operators over small rings.   *)
EXTENDS DecInput, TLC

Bytes == {0, 1}

\* What is filled into a ring, wherever, is copied out again in order.
ASSUME FillThenCopy ==
  \A n \in 0..R-1, wr \in 0..R-1 : \A data \in [1..n -> Bytes] :
    LET ring == Written([p \in Position |-> 0], wr, data)
    IN /\ Copied(ring, wr, After(wr, n)) = data
       /\ wr = 0 => Copied(ring, R, After(0, n)) = data
=============================================================================
