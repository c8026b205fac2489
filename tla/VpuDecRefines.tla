---------------------------- MODULE VpuDecRefines ----------------------------
(* VpuDec implements FrameOwnership, for every format but VC1_AP.             *)
EXTENDS VpuDecProofs

\* How a step of the decoder moves the frames between the VPU, the output slot and the
\* application.
Moves ==
  \/ held' = held /\ Ready' = Ready
  \/ /\ held' = held /\ Ready = {}
     /\ \E f \in Frame \ held : Ready' = {f}
  \/ \E f \in Frame \ held : Ready = {f} /\ Ready' = {} /\ held' = held \cup {f}
  \/ \E f \in held : held' = held \ {f} /\ Ready' = Ready
  \/ held' = {} /\ Ready' = {}

\* VPU_DecDecodeBuf takes nothing from the application and gives it nothing but what it puts
\* in the output slot; with a frame in the slot it refuses to run.
LEMMA DecodeBufMoves ==
  ASSUME NEW in \in Inputs, VPU_DecDecodeBuf(in)
  PROVE  held' = held /\ (state = "OUTOK" => UNCHANGED <<state, pDisplayFrameBuf>>)
<1>1. ASSUME state # "OUTOK", NEW e, VpuDecBuf(in, e) PROVE held' = held
  <2> DEFINE enough == VpuBitsBufIsEnough(e.bs, in)
             b      == IF enough THEN VpuFillData(e.bs, in) ELSE e.bs
             used   == IF enough THEN "INPUT_USED" ELSE "INPUT_NOT_USED"
             run    == IF e.state = "DEC" THEN "busy" ELSE vpuRun
  <2>1. \/ DecodeCollect(in, e, b, used)
        \/ DecodeStartFails(e, b, used)
        \/ DecodeTimeout(e, b, run, used)
        \/ DecodeOutputFails(e, b, run, used)
        \/ \E r \in OutputResults(e, b) :
             \/ \E n \in r.remaining : DecodeOutput(in, b, used, r.got, r.pend, n)
             \/ \E k \in r.backup : DecodeResolutionChange(used, r.got, k)
             \/ DecodeReopenFails(b, used, r.got)
    BY <1>1 DEF VpuDecBuf
  <2> HIDE DEF b, used, run
  <2> QED
    BY <2>1 DEF DecodeCollect, DecodeStartFails, DecodeTimeout, DecodeOutputFails, DecodeOutput,
                DecodeResolutionChange, DecodeReopenFails, Decoded
<1>2. ASSUME NEW e, DecodeNoFrames(e) PROVE held' = held
  BY <1>2 DEF DecodeNoFrames, Decoded
<1>3. CASE state = "OUTOK"
  BY <1>3 DEF VPU_DecDecodeBuf, WrongCall, wrapVars
<1>4. CASE state = "OPEN"
  BY <1>4 DEF VPU_DecDecodeBuf, SeqInit, Decoded
<1>5. CASE state \notin {"OUTOK", "OPEN"}
  BY <1>1, <1>2, <1>5 DEF VPU_DecDecodeBuf, WrongCall, Decoded
<1> QED
  BY <1>3, <1>4, <1>5

\* Every step moves at most one frame, or closes the instance.
LEMMA StepMoves ==
  ASSUME Inv, Inv', [Next]_vars
  PROVE  Moves
<1>1. /\ Ready \subseteq Frame \ held /\ Ready' \subseteq Frame \ held'
      /\ (Ready = {} \/ Ready = {pDisplayFrameBuf}) /\ (Ready' = {} \/ Ready' = {pDisplayFrameBuf'})
  BY DEF Inv, TypeOK, NotOfferedTwice, Ready
<1>2. ASSUME NEW in \in Inputs, VPU_DecDecodeBuf(in) PROVE Moves
  <2>1. held' = held /\ (state = "OUTOK" => UNCHANGED <<state, pDisplayFrameBuf>>)
    BY <1>2, DecodeBufMoves
  <2>2. CASE state = "OUTOK"
    BY <2>1, <2>2 DEF Moves, Ready
  <2>3. CASE state # "OUTOK"
    <3>1. Ready = {}
      BY <2>3 DEF Ready
    <3> QED BY <1>1, <2>1, <3>1 DEF Moves
  <2> QED BY <2>2, <2>3
<1>3. CASE VPU_DecGetInitialInfo \/ VPU_DecRegisterFrameBuffer
  BY <1>3 DEF VPU_DecGetInitialInfo, VPU_DecRegisterFrameBuffer, WrongCall, wrapVars, Moves, Ready
<1>4. CASE VPU_DecGetOutputFrame
  BY <1>1, <1>4 DEF VPU_DecGetOutputFrame, WrongCall, wrapVars, Moves, Ready
<1>5. ASSUME NEW f \in Frame, VPU_DecOutFrameDisplayed(f) PROVE Moves
  BY <1>5 DEF VPU_DecOutFrameDisplayed, Moves, Ready
<1>6. CASE VPU_DecFlushAll
  <2>1. held' = held /\ UNCHANGED pDisplayFrameBuf
    BY <1>6 DEF VPU_DecFlushAll
  <2>2. state' = state \/ (state # "OUTOK" /\ state' = "EOS")
    <3>1. FlushDrive => state' = state \/ state' = "EOS"
      BY DEF FlushDrive, FlushOutput, FlushFinish, FlushFails
    <3> QED BY <1>6, <3>1 DEF VPU_DecFlushAll, FlushFinish, vpuVars
  <2> QED BY <2>1, <2>2 DEF Moves, Ready
<1>7. CASE Reopen
  BY <1>7 DEF Reopen, Moves, Ready
<1>8. CASE UNCHANGED vars
  BY <1>8 DEF vars, wrapVars, appVars, Moves, Ready
<1> QED
  BY <1>2, <1>3, <1>4, <1>5, <1>6, <1>7, <1>8 DEF Next

\* Moves are the steps of FrameOwnership.
LEMMA MovesAreOwnership ==
  ASSUME Inv, Inv', Moves, Writable' \subseteq Frame \ (held' \cup Ready')
  PROVE  Ownership!Next
<1> USE DEF Owner
<1>1. held \subseteq Frame /\ held' \subseteq Frame /\ held \cap Ready = {} /\ held' \cap Ready' = {}
  BY DEF Inv, TypeOK, NotOfferedTwice
<1>2. Ownership!Writes(Owner')
  BY DEF Ownership!Writes, Ownership!Owned
<1>3. CASE held' = held /\ Ready' = Ready
  BY <1>2, <1>3 DEF Ownership!Next, Ownership!Work
<1>4. ASSUME held' = held, Ready = {}, NEW f \in Frame \ held, Ready' = {f}
      PROVE  Ownership!Next
  <2>1. Ownership!Offer(f)
    BY <1>4 DEF Ownership!Offer, Ownership!Pass, Ownership!Owned
  <2> QED BY <1>2, <2>1 DEF Ownership!Next
<1>5. ASSUME NEW f \in Frame \ held, Ready = {f}, Ready' = {}, held' = held \cup {f}
      PROVE  Ownership!Next
  <2>1. Ownership!Take(f)
    BY <1>5 DEF Ownership!Take, Ownership!Pass
  <2> QED BY <1>2, <2>1 DEF Ownership!Next
<1>6. ASSUME NEW f \in held, held' = held \ {f}, Ready' = Ready
      PROVE  Ownership!Next
  <2>1. Ownership!Return(f)
    BY <1>1, <1>6 DEF Ownership!Return, Ownership!Pass
  <2> QED BY <1>1, <1>2, <2>1 DEF Ownership!Next
<1>7. CASE held' = {} /\ Ready' = {}
  BY <1>2, <1>7 DEF Ownership!Next, Ownership!Recycle
<1> QED
  BY <1>3, <1>4, <1>5, <1>6, <1>7 DEF Moves

\* Whatever the firmware answers, whichever calls fail and in whatever order the application
\* calls, a decoder of any format but VC1_AP keeps FrameOwnership's promise.
THEOREM DecoderKeepsOwnership ==
  ASSUME "VC1_AP" \notin Codecs
  PROVE  Spec => ImplementsOwnership
<1>1. Init => Ownership!Init
  BY DEF Init, Ownership!Init, Owner, Writable, Ready, Live
<1>2. Inv /\ Inv' /\ [Next]_vars => [Ownership!Next]_Ownership!vars
  <2> SUFFICES ASSUME Inv, Inv', [Next]_vars PROVE Ownership!Next
    OBVIOUS
  <2>1. codec' # "VC1_AP"
    BY DEF Inv, TypeOK
  <2>2. Writable' \subseteq Frame \ (held' \cup Ready')
    BY <2>1 DEF Writable, Inv, HeldProtected, NeverClearedByWrapper
  <2> QED
    BY <2>2, StepMoves, MovesAreOwnership
<1> QED
  BY <1>1, <1>2, Invariance, PTL DEF Spec, ImplementsOwnership, Ownership!Spec

\* Whatever keeps the protocol keeps the promise: the steps of FrameOwnership alone, and nothing
\* of the decoder, leave no frame writable that is offered or held.
THEOREM PromiseKept == Ownership!Spec => []Ownership!Promise
<1> USE DEF Ownership!Promise, Ownership!TypeOK, Ownership!Owned
<1>1. Ownership!Init => Ownership!Promise
  BY DEF Ownership!Init
<1>2. Ownership!Promise /\ [Ownership!Next]_Ownership!vars => Ownership!Promise'
  <2> SUFFICES ASSUME Ownership!Promise, [Ownership!Next]_Ownership!vars
               PROVE  Ownership!Promise'
    OBVIOUS
  <2>1. CASE UNCHANGED Ownership!vars
    BY <2>1 DEF Ownership!vars
  <2>2. ASSUME Ownership!Next PROVE Writable' \subseteq Ownership!Owned(Owner', "vpu")
    BY <2>2 DEF Ownership!Next, Ownership!Writes
  <2>3. ASSUME NEW f \in Frame, NEW from, NEW to \in {"vpu", "ready", "user"},
               Ownership!Pass(f, from, to)
        PROVE  /\ Owner' \in [Frame -> {"vpu", "ready", "user"}]
               /\ \A g \in Frame : Owner'[g] = IF g = f THEN to ELSE Owner[g]
    BY <2>3 DEF Ownership!Pass
  <2>4. ASSUME Ownership!Next, NEW f \in Frame, Ownership!Offer(f) PROVE Ownership!Promise'
    BY <2>2, <2>3, <2>4 DEF Ownership!Offer
  <2>5. ASSUME Ownership!Next, NEW f \in Frame, Ownership!Take(f) \/ Ownership!Return(f)
        PROVE  Ownership!Promise'
    BY <2>2, <2>3, <2>5 DEF Ownership!Take, Ownership!Return
  <2>6. CASE Ownership!Next /\ (Ownership!Recycle \/ Ownership!Work)
    BY <2>2, <2>6 DEF Ownership!Recycle, Ownership!Work
  <2> QED
    BY <2>1, <2>4, <2>5, <2>6 DEF Ownership!Next
<1> QED
  BY <1>1, <1>2, PTL DEF Ownership!Spec
=============================================================================
