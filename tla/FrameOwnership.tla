--------------------------- MODULE FrameOwnership ---------------------------
(* What a decoder instance promises about its frame buffers, whatever the     *)
(* format, the data and the order of the calls: each frame has one owner, it  *)
(* goes round from the VPU to the wrapper's output slot, to the application   *)
(* and back, and the VPU may write only frames nobody else owns.              *)
CONSTANT Frame

VARIABLES
  owner,     \* owner[f]: vpu, ready (the frame VPU_DecGetOutputFrame will hand out) or user
  writable   \* frames the VPU may decode into

vars == <<owner, writable>>

Owned(o, who) == {f \in Frame : o[f] = who}

TypeOK ==
  /\ owner \in [Frame -> {"vpu", "ready", "user"}]
  /\ writable \subseteq Frame

\* The VPU allocates and frees frames of its own as it likes, and never writes another's.
Writes(o) == writable' \subseteq Owned(o, "vpu")

Pass(f, from, to) == owner[f] = from /\ owner' = [owner EXCEPT ![f] = to]

\* A frame is shown: there is one output slot.
Offer(f)  == Owned(owner, "ready") = {} /\ Pass(f, "vpu", "ready")

\* VPU_DecGetOutputFrame.
Take(f)   == Pass(f, "ready", "user")

\* VPU_DecOutFrameDisplayed.
Return(f) == Pass(f, "user", "vpu")

\* The instance is closed.
Recycle   == owner' = [f \in Frame |-> "vpu"]

\* The VPU works while the owners keep what they have.
Work      == UNCHANGED owner

Init ==
  /\ owner = [f \in Frame |-> "vpu"]
  /\ writable \subseteq Frame

Next ==
  /\ \/ \E f \in Frame : Offer(f) \/ Take(f) \/ Return(f)
     \/ Recycle
     \/ Work
  /\ Writes(owner')

Spec == Init /\ [][Next]_vars

\* What the protocol is for: the VPU writes no frame that waits in the output slot or that the
\* application has, and no more than one frame waits.
Promise ==
  /\ TypeOK
  /\ writable \subseteq Owned(owner, "vpu")
  /\ \A f, g \in Owned(owner, "ready") : f = g

=============================================================================
