------------------------------- MODULE BsRing -------------------------------
(* The bitstream ring of an i.MX6 decoder (vpu_wrapper.c): sizes of ranges    *)
(* over the wrap, filling it and copying out of it.  Positions are offsets    *)
(* from pBsBufPhyStart; R stands for pBsBufPhyEnd, one past the last byte,    *)
(* where a frame may end and where the first "last frame" is said to end.     *)
EXTENDS Integers, Sequences

CONSTANT R      \* bytes of the ring (VPU_BITS_BUF_SIZE)

ASSUME RingAssumption == R \in Nat /\ R > 1

Position == 0..R-1

\* The position n bytes after and before a position (the library's own pointers).
After(p, n)  == IF p + n >= R THEN p + n - R ELSE p + n
Before(p, n) == IF p - n < 0 THEN p - n + R ELSE p - n

\* Bytes from start to end, both included.
ValidSize(start, end) ==
  IF start <= end THEN end - start + 1 ELSE (R - start) + (end + 1)

\* Bytes from the end of a frame (exclusive already) up to a position: start and end are taken
\* off, and FRAME_END_OFFSET is put back.
Gap(last, pos) == ValidSize(last, pos) - 2 + 1

\* VpuFillData: data that passes the end of the ring is written in two segments.
Written(ring, wr, data) ==
  LET n     == Len(data)
      first == IF R < wr + n THEN R - wr ELSE n
  IN [p \in Position |->
        IF wr <= p /\ p < wr + first THEN data[p - wr + 1]
        ELSE IF p < n - first THEN data[first + p + 1]
        ELSE ring[p]]

\* VpuCopyValidSizeInRingBuf, and the byte at `end' dropped by its caller.
Copied(ring, start, end) ==
  [i \in 1..(ValidSize(start, end) - 1) |->
     IF start <= end \/ i <= R - start THEN ring[start + i - 1] ELSE ring[i - 1 - (R - start)]]

=============================================================================
