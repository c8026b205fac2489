----------------------------- MODULE VpuDecCodes -----------------------------
(* The return codes of VpuDec agree with the state they leave: what a client   *)
(* that follows them needs, whatever the firmware answers and whatever fails.  *)
EXTENDS VpuDec, TLAPS

Offers(flags) == flags \cap {"DIS", "MOSAIC_DIS"} # {}
Starts(flags) == flags \cap {"INIT_OK", "RESOLUTION_CHANGED"} # {}

\* VpuGetOutput's state and flags tell the same.
ResultAgrees(g) ==
  /\ g.state \in {"DEC", "OUTOK", "EOS"}
  /\ Offers(g.flags) <=> g.state = "OUTOK"
  /\ "EOS" \in g.flags <=> g.state = "EOS"
  /\ ~Starts(g.flags)
  /\ ~g.enough => g.state = "DEC"

\* A call of VPU_DecDecodeBuf in sequence: what it returns tells the state it leaves.
CallAgrees ==
  /\ ret'.code # "WRONG_CALL_SEQUENCE"
  /\ duty' = NextDuty(ret'.code, ret'.flags) /\ held' = held
  /\ ret'.code # "FAILURE_TIMEOUT" =>
       /\ state' # "REGFRMOK"
       /\ Offers(ret'.flags) <=> state' = "OUTOK"
       /\ Starts(ret'.flags) <=> state' = "INITOK"
       /\ "EOS" \in ret'.flags => state' = "EOS"
       /\ "INIT_OK" \in ret'.flags => state = "OPEN"
       /\ state' = "OPEN" <=> state = "OPEN" /\ ~Starts(ret'.flags)
       /\ \/ ret'.flags \cap {"INPUT_USED", "INPUT_NOT_USED"} # {}
          \/ ~Offers(ret'.flags) /\ ~Starts(ret'.flags) /\ "EOS" \notin ret'.flags

-----------------------------------------------------------------------------
(* VPU_DecDecodeBuf. *)

\* VpuGetOutput, for every output.
LEMMA ResultsAgree ==
  ASSUME NEW o, NEW filter, NEW fbs, NEW flag
  PROVE  ResultAgrees(VpuGetOutput(o, filter, fbs, flag))
<1> DEFINE p == RectifyIndex(RectifyRange(o), fbs)
<1>1. ResultAgrees(NothingShown(p, fbs, flag))
  BY DEF NothingShown, ResultAgrees, Offers, Starts
<1>2. ASSUME NEW f PROVE ResultAgrees(ShowOutput(p, f, fbs, flag))
  <2> DEFINE fbs1     == MarkDecoded(p, fbs)
             dis      == DisplayIndex(p)
             disorder == dis \in Frame /\ fbs1[dis] # "DEC"
             shown    == dis \in Frame /\ (disorder => codec = "VC1_AP")
             repeated == shown /\ Repeated(fbs1, dis)
             dropped  == \/ disorder /\ ~shown
                         \/ f /\ p.dec = "UNDEC" /\ dis = "NODIS"
             result   == IF repeated THEN "REPEAT"
                         ELSE IF shown THEN IF f THEN "MOSAIC_DIS" ELSE "DIS"
                         ELSE IF dis = "EOS" THEN "EOS"
                         ELSE IF dropped THEN "DROPPED" ELSE "NODIS"
             g        == ShowOutput(p, f, fbs, flag)
  <2>1. g.state = OutputState(result) /\ g.enough = TRUE
        /\ g.flags = {result} \cup (IF p.dec = "NOBUF" THEN {"NO_ENOUGH_BUF"} ELSE {})
    BY DEF ShowOutput
  <2>2. result \in {"REPEAT", "MOSAIC_DIS", "DIS", "EOS", "DROPPED", "NODIS"}
    <3> HIDE DEF repeated, shown, dropped, dis
    <3> QED OBVIOUS
  <2>3. ResultAgrees(g)
    <3> HIDE DEF result, g
    <3> QED BY <2>1, <2>2 DEF ResultAgrees, OutputState, Offers, Starts
  <2> QED BY <2>3
<1> QED
  BY <1>1, <1>2 DEF VpuGetOutput

\* VpuDecBuf, from an entry in state DEC or STARTFRAMEOK.
LEMMA DecBufAgrees ==
  ASSUME NEW in, NEW e, e.state \in {"DEC", "STARTFRAMEOK"}, state # "OPEN", VpuDecBuf(in, e)
  PROVE  CallAgrees
<1> DEFINE enough == VpuBitsBufIsEnough(e.bs, in)
           b      == IF enough THEN VpuFillData(e.bs, in) ELSE e.bs
           used   == IF enough THEN "INPUT_USED" ELSE "INPUT_NOT_USED"
           run    == IF e.state = "DEC" THEN "busy" ELSE vpuRun
<1>1. used \in {"INPUT_USED", "INPUT_NOT_USED"}
  OBVIOUS
<1>2. \/ DecodeCollect(in, e, b, used)
      \/ DecodeStartFails(e, b, used)
      \/ DecodeTimeout(e, b, run, used)
      \/ DecodeOutputFails(e, b, run, used)
      \/ \E r \in OutputResults(e, b) :
           \/ \E n \in r.remaining : DecodeOutput(in, b, used, r.got, r.pend, n)
           \/ \E k \in r.backup : DecodeResolutionChange(used, r.got, k)
           \/ DecodeReopenFails(b, used, r.got)
  BY DEF VpuDecBuf
<1> HIDE DEF b, used, run
<1> USE DEF CallAgrees, Decoded
<1>3. CASE DecodeCollect(in, e, b, used)
  BY <1>1, <1>3 DEF DecodeCollect, Offers, Starts
<1>4. CASE DecodeStartFails(e, b, used)
  BY <1>1, <1>4 DEF DecodeStartFails, Offers, Starts
<1>5. CASE DecodeTimeout(e, b, run, used)
  BY <1>5 DEF DecodeTimeout
<1>6. CASE DecodeOutputFails(e, b, run, used)
  BY <1>1, <1>6 DEF DecodeOutputFails, Offers, Starts
<1>7. ASSUME NEW r \in OutputResults(e, b),
             \/ \E n \in r.remaining : DecodeOutput(in, b, used, r.got, r.pend, n)
             \/ \E k \in r.backup : DecodeResolutionChange(used, r.got, k)
             \/ DecodeReopenFails(b, used, r.got)
      PROVE  CallAgrees
  <2>1. ResultAgrees(r.got)
    <3>1. PICK o \in FirmwareOutputs(e.flag, e.pend, b), filter \in BOOLEAN :
            r = OutputResult(e, b, o, filter)
      BY DEF OutputResults
    <3> QED BY <3>1, ResultsAgree DEF OutputResult
  <2>2. ASSUME NEW n \in r.remaining, DecodeOutput(in, b, used, r.got, r.pend, n)
        PROVE  CallAgrees
    <3>1. /\ state' = r.got.state /\ held' = held
          /\ ret'.code \in {"SUCCESS", "FAILURE"}
          /\ ret'.flags = r.got.flags \cup InBuf(in, used, r.got.enough)
          /\ duty' = NextDuty(ret'.code, ret'.flags)
      BY <2>2 DEF DecodeOutput
    <3>2. /\ InBuf(in, used, r.got.enough)
               \subseteq {"INPUT_USED", "INPUT_NOT_USED", "NO_ENOUGH_INBUF"}
          /\ used \in InBuf(in, used, r.got.enough)
      BY <1>1 DEF InBuf
    <3>3. ret'.flags \cap {"INPUT_USED", "INPUT_NOT_USED"} # {}
      BY <1>1, <3>1, <3>2
    <3>4. /\ Offers(ret'.flags) <=> Offers(r.got.flags)
          /\ Starts(ret'.flags) <=> Starts(r.got.flags)
          /\ "EOS" \in ret'.flags <=> "EOS" \in r.got.flags
      BY <3>1, <3>2 DEF Offers, Starts
    <3>5. "INIT_OK" \notin ret'.flags
      BY <2>1, <3>4 DEF ResultAgrees, Starts
    <3> QED BY <2>1, <3>1, <3>3, <3>4, <3>5 DEF ResultAgrees
  <2>3. ASSUME NEW k \in r.backup, DecodeResolutionChange(used, r.got, k)
        PROVE  CallAgrees
    BY <1>1, <2>3 DEF DecodeResolutionChange, Offers, Starts
  <2>4. CASE DecodeReopenFails(b, used, r.got)
    BY <2>4 DEF DecodeReopenFails
  <2> QED BY <1>7, <2>2, <2>3, <2>4
<1> QED
  BY <1>2, <1>3, <1>4, <1>5, <1>6, <1>7

\* VPU_DecDecodeBuf, when no other call is due.
LEMMA DecodeBufAgrees ==
  ASSUME NEW in, VPU_DecDecodeBuf(in), state \notin {"INITOK", "REGFRMOK", "OUTOK"}
  PROVE  CallAgrees
<1> USE DEF CallAgrees, Decoded, Offers, Starts
<1>1. CASE state = "OPEN" /\ SeqInit(in)
  <2>1. InBuf(in, "INPUT_USED", FALSE) \subseteq {"INPUT_USED", "NO_ENOUGH_INBUF"}
    BY DEF InBuf
  <2>2. \/ /\ state' = state
           /\ \E code \in {"SUCCESS", "FAILURE"} :
                Decoded(code, {"INPUT_NOT_USED"}) \/ Decoded(code, InBuf(in, "INPUT_USED", FALSE))
        \/ state' = "INITOK" /\ Decoded("SUCCESS", {"INIT_OK", "INPUT_USED"})
    <3> HIDE DEF Decoded
    <3> QED BY <1>1 DEF SeqInit
  <2>3. ASSUME NEW code \in {"SUCCESS", "FAILURE"}, NEW flags, state' = state, Decoded(code, flags),
               flags \subseteq {"INPUT_USED", "INPUT_NOT_USED", "NO_ENOUGH_INBUF"}
        PROVE  CallAgrees
    BY <1>1, <2>3
  <2>4. CASE state' = "INITOK" /\ Decoded("SUCCESS", {"INIT_OK", "INPUT_USED"})
    BY <1>1, <2>4
  <2> HIDE DEF CallAgrees, Decoded
  <2> QED BY <2>1, <2>2, <2>3, <2>4
<1>2. CASE state = "CORRUPT" /\ Decoded("SUCCESS", {"INPUT_NOT_USED"}) /\ UNCHANGED wrapVars
  BY <1>2 DEF wrapVars
<1>3. CASE state = "EOS" /\ Decoded("SUCCESS", {"INPUT_USED", "NO_ENOUGH_INBUF"}) /\ UNCHANGED wrapVars
  BY <1>3 DEF wrapVars
<1>4. CASE state = "EOS" /\ Decoded("FAILURE", {}) /\ UNCHANGED state
  BY <1>4
<1>5. ASSUME state \in {"DEC", "STARTFRAMEOK", "EOS"}, NEW e \in Entries,
             IF TooFewFrames(e) THEN DecodeNoFrames(e) ELSE VpuDecBuf(in, e)
      PROVE  CallAgrees
  <2>1. e.state \in {"DEC", "STARTFRAMEOK"}
    BY <1>5 DEF Entries
  <2>2. CASE DecodeNoFrames(e)
    BY <1>5, <2>1, <2>2 DEF DecodeNoFrames
  <2>3. CASE VpuDecBuf(in, e)
    BY <1>5, <2>1, <2>3, DecBufAgrees
  <2> QED BY <1>5, <2>2, <2>3
<1> QED
  BY <1>1, <1>2, <1>3, <1>4, <1>5 DEF VPU_DecDecodeBuf, WrongCall

\* VPU_DecFlushAll when no frame is offered: an end of stream, or nothing new.
LEMMA FlushAllReturns ==
  ASSUME VPU_DecFlushAll
  PROVE  /\ state' \in {state, "EOS"} /\ (state' = "EOS" => state \in Live)
         /\ \E code \in {"SUCCESS", "FAILURE", "FAILURE_TIMEOUT"} : Returns(code)
<1> DEFINE P == /\ state' \in {state, "EOS"}
                /\ \E code \in {"SUCCESS", "FAILURE", "FAILURE_TIMEOUT"} : Returns(code)
<1>1. ASSUME NEW fbs, NEW flag, NEW b, FlushFinish(fbs, flag, b) PROVE P
  BY <1>1 DEF FlushFinish
<1>2. ASSUME NEW code \in {"FAILURE", "FAILURE_TIMEOUT"}, NEW fbs, NEW flag, NEW p, NEW b,
             NEW run, FlushFails(code, fbs, flag, p, b, run)
      PROVE  P
  BY <1>2 DEF FlushFails
<1>3. ASSUME NEW o, NEW b, FlushOutput(o, b) PROVE P
  <2> HIDE DEF P
  <2> QED BY <1>1, <1>2, <1>3 DEF FlushOutput
<1>4. ASSUME FlushDrive PROVE P
  <2> HIDE DEF P
  <2> QED BY <1>2, <1>3, <1>4 DEF FlushDrive
<1>5. P
  <2>1. CASE FlushDrive
    BY <1>4, <2>1
  <2>2. CASE FlushFinish(frameBufState, dispFlag, bs)
    BY <1>1, <2>2
  <2>3. CASE UNCHANGED state /\ (Returns("SUCCESS") \/ Returns("FAILURE"))
    BY <2>3
  <2> HIDE DEF P
  <2> QED BY <2>1, <2>2, <2>3 DEF VPU_DecFlushAll
<1>6. state' = "EOS" => state \in Live
  BY DEF VPU_DecFlushAll, Live
<1> QED
  BY <1>5, <1>6

-----------------------------------------------------------------------------
(* An application that follows the codes. *)

\* The state is one the call that is due may be made in.
DutyMatches ==
  /\ duty = "feed" => state \notin {"INITOK", "REGFRMOK", "OUTOK"}
  /\ duty = "getinfo" => state = "INITOK"
  /\ duty = "register" => state = "REGFRMOK"
  /\ duty = "fetch" => state = "OUTOK"

CodesInv == Obedient => duty \in Duties /\ DutyMatches /\ CodesMatchState

\* Every call keeps the duty in step with the state.
LEMMA StepKeepsCodes ==
  ASSUME CodesInv, [Next]_vars, Obedient
  PROVE  CodesInv'
<1> USE DEF CodesInv, DutyMatches, CodesMatchState, Duties, Asked
<1>1. ASSUME NEW in \in Inputs, VPU_DecDecodeBuf(in) PROVE CodesInv'
  <2>1. CallAgrees
    BY <1>1, DecodeBufAgrees DEF VPU_DecDecodeBuf
  <2> QED BY <2>1 DEF CallAgrees, NextDuty, Offers, Starts
<1>2. CASE VPU_DecGetInitialInfo
  BY <1>2 DEF VPU_DecGetInitialInfo
<1>3. CASE VPU_DecRegisterFrameBuffer
  BY <1>3 DEF VPU_DecRegisterFrameBuffer, Returns, wrapVars
<1>4. CASE VPU_DecGetOutputFrame
  BY <1>4 DEF VPU_DecGetOutputFrame
<1>5. ASSUME NEW f \in Frame, VPU_DecOutFrameDisplayed(f) PROVE CodesInv'
  BY <1>5 DEF VPU_DecOutFrameDisplayed, Returns
<1>6. CASE VPU_DecFlushAll
  <2>1. /\ duty = "feed"
        /\ ret'.code \in {"SUCCESS", "FAILURE", "FAILURE_TIMEOUT"}
        /\ duty' = IF ret'.code = "FAILURE_TIMEOUT" THEN "reopen" ELSE duty
        /\ state' \in {state, "EOS"}
    BY <1>6, FlushAllReturns DEF VPU_DecFlushAll, Returns
  <2> QED BY <2>1
<1>7. CASE Reopen
  BY <1>7 DEF Reopen
<1>8. CASE UNCHANGED vars
  BY <1>8 DEF vars, wrapVars, appVars
<1> QED
  BY <1>1, <1>2, <1>3, <1>4, <1>5, <1>6, <1>7, <1>8 DEF Next

\* An application that makes the calls the return codes of VPU_DecDecodeBuf ask for is never
\* told WRONG_CALL_SEQUENCE, whatever the firmware answers and whichever calls fail.
THEOREM CodesTellTheState == Spec => []CodesMatchState
<1>1. Init => CodesInv
  BY DEF Init, CodesInv, DutyMatches, CodesMatchState, Duties
<1>2. CodesInv /\ [Next]_vars => CodesInv'
  <2>1. CASE Obedient
    BY <2>1, StepKeepsCodes
  <2>2. CASE ~Obedient
    BY <2>2 DEF CodesInv
  <2> QED BY <2>1, <2>2
<1>3. CodesInv => CodesMatchState
  BY DEF CodesInv, CodesMatchState
<1> QED
  BY <1>1, <1>2, <1>3, PTL DEF Spec
=============================================================================
