---------------------------- MODULE VpuDecProofs ----------------------------
(* Theorems of VpuDec, for every number of frames, every set of formats and   *)
(* every size of the bitstream ring.                                          *)
EXTENDS VpuDec, TLAPS

USE FrameAssumption, SizeAssumption, SwitchAssumption

FrameStates == [Frame -> {"FREE", "DEC", "DISP"}]

\* An output of the firmware after the index repairs of VpuGetOutput.
Rectified == [dec : Frame \cup {"NOBUF", "UNDEC", "NOMEANING"}, dis : Frame \cup {"EOS", "NODIS"},
              status : {"ok", "rollback", "bad", "skip", "resch", "resized"}]

\* VpuGetOutput's result.
Results == [state : {"DEC", "OUTOK", "EOS"}, fbs : FrameStates, flag : SUBSET Frame,
            pre : Frame \cup {NoFrame}, disp : Frame \cup {NoFrame},
            flags : SUBSET RetFlags, enough : BOOLEAN, resized : BOOLEAN]

\* What VpuGetOutput may do to the frames: a displayed frame stays displayed and keeps its
\* flag, a frame is offered only if it was not displayed, and then with its flag set.
KeepsDisplayed(g, fbs, flag) ==
  /\ \A f \in Frame : fbs[f] = "DISP" => g.fbs[f] = "DISP" /\ (f \in flag => f \in g.flag)
  /\ g.state = "OUTOK" =>
       /\ g.disp \in Frame
       /\ fbs[g.disp] # "DISP" /\ g.fbs[g.disp] = "DISP"
       /\ codec # "VC1_AP" => g.disp \in g.flag

-----------------------------------------------------------------------------
(* VpuGetOutput. *)

\* The index repairs leave an output the rest of VpuGetOutput is written for, and only a
\* display index the firmware reported.
LEMMA RectifiedOutput ==
  ASSUME NEW o \in Outputs, NEW fbs
  PROVE  LET p == RectifyIndex(RectifyRange(o), fbs)
         IN p \in Rectified /\ (p.dis \in Frame => p.dis = o.dis)
<1> DEFINE r == RectifyRange(o)
<1>1. /\ o \in [dec : Frame \cup {"NOBUF", "UNDEC"}, dis : Frame \cup {"EOS", "NODIS", "OVER"},
                status : {"ok", "rollback", "bad", "skip", "resch", "resized"}]
  BY DEF Outputs, Statuses
<1>2. r \in Rectified /\ (r.dis \in Frame => r.dis = o.dis)
  BY <1>1 DEF RectifyRange, Rectified
<1> QED
  BY <1>2 DEF RectifyIndex, Rectified

\* Recording a decoded frame takes no displayed frame away.
LEMMA MarkDecodedKeeps ==
  ASSUME NEW p \in Rectified, NEW fbs \in FrameStates
  PROVE  /\ MarkDecoded(p, fbs) \in FrameStates
         /\ \A f \in Frame : MarkDecoded(p, fbs)[f] = "DISP" <=> fbs[f] = "DISP"
BY DEF MarkDecoded, Recorded, FrameStates, Rectified

\* The ordinary case of VpuGetOutput.
LEMMA ShowOutputKeeps ==
  ASSUME NEW p \in Rectified, NEW filter \in BOOLEAN, NEW fbs \in FrameStates,
         NEW flag \in SUBSET Frame,
         p.dis \in Frame => p.dis \in flag,
         pPreDisplayFrameBuf \in Frame \cup {NoFrame},
         pDisplayFrameBuf \in Frame \cup {NoFrame}
  PROVE  /\ ShowOutput(p, filter, fbs, flag) \in Results
         /\ KeepsDisplayed(ShowOutput(p, filter, fbs, flag), fbs, flag)
<1> DEFINE fbs1     == MarkDecoded(p, fbs)
           dis      == DisplayIndex(p)
           disorder == dis \in Frame /\ fbs1[dis] # "DEC"
           flag1    == IF disorder /\ fbs1[dis] # "DISP" THEN flag \ {dis} ELSE flag
           shown    == dis \in Frame /\ (disorder => codec = "VC1_AP")
           repeated == shown /\ Repeated(fbs1, dis)
           dropped  == \/ disorder /\ ~shown
                       \/ filter /\ p.dec = "UNDEC" /\ dis = "NODIS"
           result   == IF repeated THEN "REPEAT"
                       ELSE IF shown THEN IF filter THEN "MOSAIC_DIS" ELSE "DIS"
                       ELSE IF dis = "EOS" THEN "EOS"
                       ELSE IF dropped THEN "DROPPED" ELSE "NODIS"
           st       == OutputState(result)
           fbs2     == IF shown THEN [fbs1 EXCEPT ![dis] = "DISP"] ELSE fbs1
           disp     == IF shown THEN dis ELSE pDisplayFrameBuf
           flags    == {result} \cup (IF p.dec = "NOBUF" THEN {"NO_ENOUGH_BUF"} ELSE {})
           g        == ShowOutput(p, filter, fbs, flag)
<1>1. fbs1 \in FrameStates /\ \A f \in Frame : fbs1[f] = "DISP" <=> fbs[f] = "DISP"
  BY MarkDecodedKeeps
<1>2. dis \in Frame \cup {"EOS", "NODIS"} /\ (dis \in Frame => dis \in flag)
  BY DEF DisplayIndex, Rectified
<1>3. dis \in Frame => dis # "EOS" /\ dis # "NODIS"
  OBVIOUS
<1>4. result \in {"REPEAT", "MOSAIC_DIS", "DIS", "EOS", "DROPPED", "NODIS"}
  <2> HIDE DEF repeated, shown, dropped, dis
  <2> QED OBVIOUS
<1>5. st = "OUTOK" => shown /\ ~repeated
  <2> HIDE DEF repeated, shown, dropped, dis
  <2> QED BY <1>4 DEF OutputState
<1>6. st \in {"DEC", "OUTOK", "EOS"}
  <2> HIDE DEF result
  <2> QED BY DEF OutputState
<1>7. g = [state |-> st, fbs |-> fbs2, flag |-> flag1,
           pre |-> IF shown THEN dis ELSE pPreDisplayFrameBuf, disp |-> disp,
           flags |-> flags, enough |-> TRUE, resized |-> Recorded(p) /\ p.status = "resized"]
  BY DEF ShowOutput
<1>8. fbs2 \in FrameStates /\ flag1 \in SUBSET Frame
  <2> HIDE DEF fbs1, dis
  <2> QED BY <1>1 DEF FrameStates
<1>9. flags \in SUBSET RetFlags
  <2> HIDE DEF result
  <2> QED BY <1>4 DEF RetFlags
<1>10. (Recorded(p) /\ p.status = "resized") \in BOOLEAN
  OBVIOUS
<1>11. g \in Results
  <2> HIDE DEF g, st, fbs2, flag1, flags, dis, shown, disp
  <2>1. disp \in Frame \cup {NoFrame} /\ (IF shown THEN dis ELSE pPreDisplayFrameBuf) \in Frame \cup {NoFrame}
    BY DEF disp, shown
  <2> QED BY <1>6, <1>7, <1>8, <1>9, <1>10, <2>1 DEF Results
<1>12. \A f \in Frame : fbs[f] = "DISP" => fbs2[f] = "DISP" /\ (f \in flag => f \in flag1)
  <2> HIDE DEF fbs1, dis
  <2> QED BY <1>1 DEF FrameStates
<1>13. shown /\ ~repeated => /\ dis \in Frame /\ fbs[dis] # "DISP" /\ fbs2[dis] = "DISP"
                             /\ codec # "VC1_AP" => dis \in flag1
  <2> HIDE DEF fbs1, dis
  <2> QED BY <1>1, <1>2 DEF FrameStates, Repeated
<1>14. g.state = st /\ g.fbs = fbs2 /\ g.flag = flag1 /\ g.disp = disp
  <2> HIDE DEF g, st, fbs2, flag1, flags, dis, shown, disp
  <2> QED BY <1>7
<1>15. KeepsDisplayed(g, fbs, flag)
  <2> HIDE DEF g, st, fbs2, flag1, dis, repeated
  <2> QED BY <1>5, <1>12, <1>13, <1>14 DEF KeepsDisplayed
<1> QED
  BY <1>11, <1>15

\* VpuGetOutput, for every output of the firmware.
LEMMA VpuGetOutputKeeps ==
  ASSUME NEW o \in Outputs, NEW filter \in BOOLEAN, NEW fbs \in FrameStates,
         NEW flag \in SUBSET Frame,
         o.dis \in Frame => o.dis \in flag,
         pPreDisplayFrameBuf \in Frame \cup {NoFrame},
         pDisplayFrameBuf \in Frame \cup {NoFrame}
  PROVE  /\ VpuGetOutput(o, filter, fbs, flag) \in Results
         /\ KeepsDisplayed(VpuGetOutput(o, filter, fbs, flag), fbs, flag)
<1> DEFINE r == RectifyRange(o)
           p == RectifyIndex(r, fbs)
           quiet == p.status = "rollback" \/ p.status = "resch"
<1>1. p \in Rectified /\ (p.dis \in Frame => p.dis \in flag)
  BY RectifiedOutput
<1>2. (filter \/ Invisible(r)) \in BOOLEAN
  OBVIOUS
<1>3. VpuGetOutput(o, filter, fbs, flag) =
        IF quiet THEN NothingShown(p, fbs, flag)
                 ELSE ShowOutput(p, filter \/ Invisible(r), fbs, flag)
  BY DEF VpuGetOutput
<1> HIDE DEF p
<1>4. CASE quiet
  <2>1. NothingShown(p, fbs, flag) \in Results
    BY DEF NothingShown, Results, RetFlags
  <2>2. KeepsDisplayed(NothingShown(p, fbs, flag), fbs, flag)
    BY DEF NothingShown, KeepsDisplayed
  <2> QED BY <1>3, <1>4, <2>1, <2>2
<1>5. CASE ~quiet
  BY <1>1, <1>2, <1>3, <1>5, ShowOutputKeeps
<1> QED
  BY <1>4, <1>5
-----------------------------------------------------------------------------
(* The inductive invariant. *)

\* What is offered or held is in state DISP.
OwnedDisplayed ==
  state \in Live => \A f \in held \cup Ready : frameBufState[f] = "DISP"

\* Before the first output nothing is offered or held: what VPU_DecFlushAll throws away while
\* it drives the VPU is nobody's.
NothingBeforeOutput == state \in Live /\ ~realWork => held = {} /\ state # "OUTOK"

\* STARTFRAMEOK is left behind only after the interrupt was taken.
StartedIsDone == state = "STARTFRAMEOK" => vpuRun # "busy"

Inv ==
  /\ TypeOK
  /\ OwnedDisplayed
  /\ HeldProtected
  /\ NotOfferedTwice
  /\ NothingBeforeOutput
  /\ StartedIsDone

Bitstream == [filled : 0..Cap, eos : BOOLEAN, end : BOOLEAN]

\* What VPU_DecDecodeBuf starts VpuDecBuf from.
EntryOK(e) ==
  /\ e.state \in {"DEC", "STARTFRAMEOK"}
  /\ e.fbs \in FrameStates /\ e.flag \in SUBSET Frame /\ e.pend \in SUBSET Frame
  /\ e.bs \in Bitstream
  /\ \A f \in held : e.fbs[f] = "DISP" /\ (codec # "VC1_AP" => f \in e.flag)
  /\ e.state = "STARTFRAMEOK" => state = "STARTFRAMEOK"

\* Operations on the bitstream stay within the ring.
LEMMA BitstreamTypes ==
  ASSUME NEW b \in Bitstream, NEW in \in Inputs
  PROVE  /\ VpuBitsBufIsEnough(b, in) => VpuFillData(b, in) \in Bitstream
         /\ VpuBitFlush(b) \in Bitstream
<1>1. in.size \in Nat
  <2>1. CASE in \in {Null, Eos}
    BY <2>1 DEF Null, Eos
  <2>2. CASE \E n \in Sizes : in = [ptr |-> TRUE, size |-> n]
    BY <2>2
  <2> QED
    BY <2>1, <2>2 DEF Inputs
<1> QED
  BY <1>1 DEF Bitstream, VpuBitsBufIsEnough, VpuFillData, VpuBitFlush

\* A new instance's bitstream.
LEMMA EmptyRing ==
  [filled |-> 0, eos |-> FALSE, end |-> FALSE] \in [filled : 0..Cap, eos : BOOLEAN, end : BOOLEAN]
<1>1. Cap \in Nat
  OBVIOUS
<1>2. 0 \in 0..Cap
  BY <1>1
<1> QED
  BY <1>2

\* A call that succeeds without flags.
LEMMA FirstReturn ==
  [code |-> "SUCCESS", flags |-> {}] \in [code : RetCodes, flags : SUBSET RetFlags]
BY DEF RetCodes

\* VpuDecClearOperationEOStoDEC clears no frame that is displayed.
LEMMA EntriesKeep ==
  ASSUME Inv, state \in {"DEC", "STARTFRAMEOK", "EOS"}, NEW e \in Entries
  PROVE  EntryOK(e)
<1> USE DEF Inv, TypeOK, Live
<1>1. \A f \in held : frameBufState[f] = "DISP" /\ (codec # "VC1_AP" => f \in dispFlag)
  BY DEF OwnedDisplayed, HeldProtected, NeverClearedByWrapper
<1>2. CASE state # "EOS"
  BY <1>1, <1>2 DEF Entries, EntryOK, FrameStates, Bitstream
<1>3. CASE state = "EOS"
  <2> DEFINE fbs == [f \in Frame |-> IF frameBufState[f] = "DEC" THEN "FREE"
                                                            ELSE frameBufState[f]]
  <2>1. PICK S \in FlagsCleared(ClearedAtEOS) :
          e = [state |-> "DEC", fbs |-> fbs, flag |-> dispFlag \ S, pend |-> {},
               bs |-> VpuBitFlush(bs)]
    BY <1>3 DEF Entries
  <2>2. S \subseteq ClearedAtEOS
    BY DEF FlagsCleared
  <2>3. codec # "VC1_AP" => \A f \in held : f \notin ClearedAtEOS
    BY <1>1 DEF ClearedAtEOS, FramesIn
  <2>4. fbs \in FrameStates /\ \A f \in held : fbs[f] = "DISP"
    BY <1>1 DEF FrameStates
  <2>5. VpuBitFlush(bs) \in Bitstream
    BY DEF VpuBitFlush, Bitstream
  <2> HIDE DEF fbs
  <2> QED
    BY <1>1, <2>1, <2>2, <2>3, <2>4, <2>5 DEF EntryOK
<1> QED
  BY <1>2, <1>3

\* What Decoded records is well typed.
LEMMA DecodedTypes ==
  ASSUME TypeOK, NEW code \in RetCodes, NEW flags \in SUBSET RetFlags, Decoded(code, flags)
  PROVE  ret' \in [code : RetCodes, flags : SUBSET RetFlags] /\ duty' \in Duties /\ held' = held
BY DEF Decoded, NextDuty, Duties

\* A call that records only its code is well typed.
LEMMA ReturnsTypes ==
  ASSUME TypeOK, NEW code \in RetCodes, Returns(code)
  PROVE  ret' \in [code : RetCodes, flags : SUBSET RetFlags] /\ duty' \in Duties
BY DEF Returns, TypeOK, Duties

\* A call that gets no output, and leaves the instance in state st with the VPU in state run.
LEMMA NoOutputKeeps ==
  ASSUME Inv, state \in {"DEC", "STARTFRAMEOK", "EOS"}, NEW e, EntryOK(e), NEW b \in Bitstream,
         KeepEntry(e, b), held' = held,
         ret' \in [code : RetCodes, flags : SUBSET RetFlags], duty' \in Duties,
         state' \in {"DEC", "STARTFRAMEOK", "CORRUPT"},
         vpuRun' \in {"idle", "busy", "done"},
         state' = "STARTFRAMEOK" => vpuRun' # "busy"
  PROVE  Inv'
<1> USE DEF Inv, Live
<1>1. TypeOK'
  BY DEF TypeOK, KeepEntry, EntryOK, States, FrameStates, Bitstream
<1>2. OwnedDisplayed' /\ HeldProtected' /\ NotOfferedTwice'
  BY DEF TypeOK, KeepEntry, EntryOK, OwnedDisplayed, HeldProtected, NeverClearedByWrapper,
         NotOfferedTwice, Ready
<1>3. NothingBeforeOutput' /\ StartedIsDone'
  BY DEF KeepEntry, NothingBeforeOutput, StartedIsDone
<1> QED
  BY <1>1, <1>2, <1>3

\* A call that gets an output with result g and leaves the frames as g says.
LEMMA OutputKeeps ==
  ASSUME Inv, state \in {"DEC", "STARTFRAMEOK", "EOS"}, NEW e, EntryOK(e),
         NEW flag \in SUBSET Frame, e.flag \subseteq flag,
         NEW g \in Results, KeepsDisplayed(g, e.fbs, flag),
         state' = g.state, frameBufState' = g.fbs,
         pPreDisplayFrameBuf' = g.pre, pDisplayFrameBuf' = g.disp,
         dispFlag' = g.flag, pend' \in SUBSET Frame, bs' \in Bitstream,
         held' = held, codec' = codec, realWork' = TRUE, vpuRun' = "idle",
         ret' \in [code : RetCodes, flags : SUBSET RetFlags], duty' \in Duties
  PROVE  Inv'
<1> USE DEF Inv, Live, Results
<1>1. TypeOK'
  BY DEF TypeOK, States, KeepsDisplayed, FrameStates, Bitstream
<1>2. held \subseteq Frame
  BY DEF TypeOK
<1>3. \A f \in held : g.fbs[f] = "DISP" /\ (codec # "VC1_AP" => f \in g.flag)
  BY <1>2 DEF EntryOK, KeepsDisplayed
<1>4. g.state = "OUTOK" => /\ g.disp \notin held /\ g.fbs[g.disp] = "DISP"
                           /\ codec # "VC1_AP" => g.disp \in g.flag
  BY <1>2 DEF EntryOK, KeepsDisplayed
<1>5. OwnedDisplayed' /\ HeldProtected' /\ NotOfferedTwice'
  BY <1>3, <1>4 DEF OwnedDisplayed, HeldProtected, NeverClearedByWrapper, NotOfferedTwice, Ready
<1>6. NothingBeforeOutput' /\ StartedIsDone'
  BY DEF NothingBeforeOutput, StartedIsDone
<1> QED
  BY <1>1, <1>5, <1>6
-----------------------------------------------------------------------------
(* VPU_DecDecodeBuf. *)

\* What the firmware's next output gives, for any output it may report.
LEMMA OutputResultsKeep ==
  ASSUME Inv, NEW e, EntryOK(e), NEW b \in Bitstream, NEW r \in OutputResults(e, b)
  PROVE  /\ r.got \in Results
         /\ \E flag \in SUBSET Frame : e.flag \subseteq flag /\ KeepsDisplayed(r.got, e.fbs, flag)
         /\ r.pend \in SUBSET Frame
         /\ r.remaining \subseteq 0..Cap /\ r.backup \subseteq 0..Cap
<1>1. PICK o \in FirmwareOutputs(e.flag, e.pend, b), filter \in BOOLEAN :
        r = OutputResult(e, b, o, filter)
  BY DEF OutputResults
<1>2. o \in Outputs
  BY DEF FirmwareOutputs
<1>3. o.dis \in Frame => o.dis \in Flagged(o)
  BY DEF Flagged
<1>4. Flagged(o) \subseteq Frame
  BY DEF Flagged
<1>5. e.flag \cup Flagged(o) \in SUBSET Frame /\ e.fbs \in FrameStates
  BY <1>4 DEF EntryOK
<1>6. pPreDisplayFrameBuf \in Frame \cup {NoFrame} /\ pDisplayFrameBuf \in Frame \cup {NoFrame}
  BY DEF Inv, TypeOK
<1>7. /\ r.got \in Results
      /\ KeepsDisplayed(r.got, e.fbs, e.flag \cup Flagged(o))
  BY <1>1, <1>2, <1>3, <1>5, <1>6, VpuGetOutputKeeps DEF OutputResult
<1>8. r.pend \in SUBSET Frame
  BY <1>1, <1>4 DEF OutputResult, StillPending, EntryOK
<1>9. b.filled \in 0..Cap /\ Remaining(o, b) \subseteq 0..b.filled
  <2>1. b.filled \in 0..Cap
    BY DEF Bitstream
  <2>2. CASE o.status = "rollback"
    BY <2>1, <2>2 DEF Remaining
  <2>3. CASE o.status # "rollback" /\ Sane /\ o.status = "resch"
    BY <2>1, <2>3 DEF Remaining
  <2>4. CASE o.status # "rollback" /\ ~(Sane /\ o.status = "resch") /\ Sane /\ o.dec \in Frame
    BY <2>1, <2>4 DEF Remaining
  <2>5. CASE o.status # "rollback" /\ ~(Sane /\ o.status = "resch") /\ ~(Sane /\ o.dec \in Frame)
    BY <2>1, <2>5 DEF Remaining
  <2> QED
    BY <2>1, <2>2, <2>3, <2>4, <2>5
<1>10. r.remaining \subseteq 0..Cap
  BY <1>1, <1>9 DEF OutputResult
<1>11. r.backup \subseteq 0..Cap
  <2> SUFFICES ASSUME NEW n \in Remaining(o, b) PROVE n..b.filled \subseteq 0..Cap
    BY <1>1 DEF OutputResult
  <2> QED
    BY <1>9
<1> QED
  BY <1>5, <1>7, <1>8, <1>10, <1>11

\* A resolution change, and a reopening that fails, leave nothing registered.
LEMMA ResolutionChangeKeeps ==
  ASSUME Inv, NEW b \in Bitstream, NEW used \in {"INPUT_USED", "INPUT_NOT_USED"},
         NEW g \in Results, NEW k \in 0..Cap,
         \/ DecodeResolutionChange(used, g, k)
         \/ DecodeReopenFails(b, used, g)
  PROVE  Inv'
<1> USE DEF Inv, Live, Results
<1>1. CASE DecodeResolutionChange(used, g, k)
  <2>1. state' \in {"INITOK", "CORRUPT"} /\ held' = held /\ codec' = codec
    BY <1>1 DEF DecodeResolutionChange, Decoded
  <2>2. ret' \in [code : RetCodes, flags : SUBSET RetFlags] /\ duty' \in Duties
    <3>1. g.flags \subseteq RetFlags /\ used \in RetFlags
      BY DEF RetFlags
    <3>2. {used, "RESOLUTION_CHANGED"} \in SUBSET RetFlags /\ {used} \cup g.flags \in SUBSET RetFlags
      BY <3>1 DEF RetFlags
    <3> QED BY <1>1, <3>2, DecodedTypes DEF DecodeResolutionChange, RetCodes
  <2>3. bs' \in Bitstream
    BY <1>1 DEF DecodeResolutionChange, Bitstream
  <2>4. TypeOK'
    BY <1>1, <2>1, <2>2, <2>3 DEF DecodeResolutionChange, ResetFrames, TypeOK, States, Bitstream
  <2> QED
    BY <2>1, <2>4 DEF OwnedDisplayed, HeldProtected, NeverClearedByWrapper, NotOfferedTwice,
                      NothingBeforeOutput, StartedIsDone, Ready
<1>2. CASE DecodeReopenFails(b, used, g)
  <2>1. state' = "CORRUPT" /\ held' = held /\ codec' = codec
    BY <1>2 DEF DecodeReopenFails, Decoded
  <2>2. ret' \in [code : RetCodes, flags : SUBSET RetFlags] /\ duty' \in Duties
    <3>1. {used} \cup g.flags \in SUBSET RetFlags
      BY DEF RetFlags
    <3> QED BY <1>2, <3>1, DecodedTypes DEF DecodeReopenFails, RetCodes
  <2>3. TypeOK'
    BY <1>2, <2>1, <2>2 DEF DecodeReopenFails, TypeOK, States, Bitstream, FrameStates
  <2> QED
    BY <2>1, <2>3 DEF OwnedDisplayed, HeldProtected, NeverClearedByWrapper, NotOfferedTwice,
                      NothingBeforeOutput, StartedIsDone, Ready
<1> QED
  BY <1>1, <1>2

\* VpuDecBuf, on any input from any entry.
LEMMA VpuDecBufKeeps ==
  ASSUME Inv, state \in {"DEC", "STARTFRAMEOK", "EOS"}, NEW in \in Inputs, NEW e, EntryOK(e),
         VpuDecBuf(in, e)
  PROVE  Inv'
<1> DEFINE enough == VpuBitsBufIsEnough(e.bs, in)
           b      == IF enough THEN VpuFillData(e.bs, in) ELSE e.bs
           used   == IF enough THEN "INPUT_USED" ELSE "INPUT_NOT_USED"
           run    == IF e.state = "DEC" THEN "busy" ELSE vpuRun
<1>1. b \in Bitstream
  BY BitstreamTypes DEF EntryOK
<1>2. used \in {"INPUT_USED", "INPUT_NOT_USED"} /\ {used} \in SUBSET RetFlags
  BY DEF RetFlags
<1>3. vpuRun \in {"idle", "busy", "done"} /\ run \in {"idle", "busy", "done"} /\ TypeOK
  BY DEF Inv, TypeOK
<1>4. e.state \in {"DEC", "STARTFRAMEOK"}
      /\ (e.state = "STARTFRAMEOK" => state = "STARTFRAMEOK" /\ vpuRun # "busy")
  BY DEF EntryOK, Inv, StartedIsDone
<1>5. \/ DecodeCollect(in, e, b, used)
      \/ DecodeStartFails(e, b, used)
      \/ DecodeTimeout(e, b, run, used)
      \/ DecodeOutputFails(e, b, run, used)
      \/ \E r \in OutputResults(e, b) :
           \/ \E n \in r.remaining : DecodeOutput(in, b, used, r.got, r.pend, n)
           \/ \E k \in r.backup : DecodeResolutionChange(used, r.got, k)
           \/ DecodeReopenFails(b, used, r.got)
  BY DEF VpuDecBuf
<1> HIDE DEF b, used, run
<1>6. CASE DecodeCollect(in, e, b, used)
  <2>1. ret' \in [code : RetCodes, flags : SUBSET RetFlags] /\ duty' \in Duties /\ held' = held
    BY <1>2, <1>3, <1>6, DecodedTypes DEF DecodeCollect, RetCodes
  <2>2. KeepEntry(e, b) /\ state' = "DEC" /\ vpuRun' = vpuRun
    BY <1>6 DEF DecodeCollect
  <2> QED BY <1>1, <1>3, <2>1, <2>2, NoOutputKeeps
<1>7. CASE DecodeStartFails(e, b, used)
  <2>1. ret' \in [code : RetCodes, flags : SUBSET RetFlags] /\ duty' \in Duties /\ held' = held
    BY <1>2, <1>3, <1>7, DecodedTypes DEF DecodeStartFails, RetCodes
  <2>2. KeepEntry(e, b) /\ state' = "DEC" /\ vpuRun' = vpuRun
    BY <1>7 DEF DecodeStartFails
  <2> QED BY <1>1, <1>3, <2>1, <2>2, NoOutputKeeps
<1>8. CASE DecodeTimeout(e, b, run, used)
  <2>1. ret' \in [code : RetCodes, flags : SUBSET RetFlags] /\ duty' \in Duties /\ held' = held
    BY <1>2, <1>3, <1>8, DecodedTypes DEF DecodeTimeout, RetCodes
  <2>2. KeepEntry(e, b) /\ state' = "CORRUPT" /\ vpuRun' = run
    BY <1>8 DEF DecodeTimeout
  <2> QED BY <1>1, <1>3, <2>1, <2>2, NoOutputKeeps
<1>9. CASE DecodeOutputFails(e, b, run, used)
  <2>1. ret' \in [code : RetCodes, flags : SUBSET RetFlags] /\ duty' \in Duties /\ held' = held
    BY <1>2, <1>3, <1>9, DecodedTypes DEF DecodeOutputFails, RetCodes
  <2>2. KeepEntry(e, b) /\ state' = "STARTFRAMEOK" /\ vpuRun' = "done"
    BY <1>9 DEF DecodeOutputFails
  <2> QED BY <1>1, <1>3, <2>1, <2>2, NoOutputKeeps
<1>10. ASSUME NEW r \in OutputResults(e, b), NEW n \in r.remaining,
              DecodeOutput(in, b, used, r.got, r.pend, n)
       PROVE  Inv'
  <2> DEFINE code == IF used = "INPUT_NOT_USED" /\ ~r.got.enough THEN "FAILURE" ELSE "SUCCESS"
             flags == r.got.flags \cup InBuf(in, used, r.got.enough)
  <2>1. PICK flag \in SUBSET Frame : e.flag \subseteq flag /\ KeepsDisplayed(r.got, e.fbs, flag)
    BY <1>1, OutputResultsKeep
  <2>2. r.got \in Results /\ r.pend \in SUBSET Frame /\ n \in 0..Cap
    BY <1>1, <1>10, OutputResultsKeep
  <2>3. code \in RetCodes /\ flags \in SUBSET RetFlags
    BY <1>2, <2>2 DEF RetCodes, RetFlags, Results, InBuf
  <2>4. Decoded(code, flags)
    BY <1>10 DEF DecodeOutput
  <2>5. ret' \in [code : RetCodes, flags : SUBSET RetFlags] /\ duty' \in Duties /\ held' = held
    BY <1>3, <2>3, <2>4, DecodedTypes
  <2>6. bs' \in Bitstream
    BY <1>1, <1>10, <2>2 DEF DecodeOutput, Bitstream
  <2>7. /\ state' = r.got.state /\ frameBufState' = r.got.fbs
        /\ pPreDisplayFrameBuf' = r.got.pre /\ pDisplayFrameBuf' = r.got.disp
        /\ dispFlag' = r.got.flag /\ pend' = r.pend
        /\ codec' = codec /\ realWork' = TRUE /\ vpuRun' = "idle"
    BY <1>10 DEF DecodeOutput
  <2> HIDE DEF code, flags
  <2> QED BY <2>1, <2>2, <2>5, <2>6, <2>7, OutputKeeps
<1>11. ASSUME NEW r \in OutputResults(e, b), NEW k \in r.backup,
              DecodeResolutionChange(used, r.got, k)
       PROVE  Inv'
  <2>1. r.got \in Results /\ k \in 0..Cap
    BY <1>1, <1>11, OutputResultsKeep
  <2> QED BY <1>1, <1>2, <1>11, <2>1, ResolutionChangeKeeps
<1>12. ASSUME NEW r \in OutputResults(e, b), DecodeReopenFails(b, used, r.got)
       PROVE  Inv'
  <2>1. r.got \in Results
    BY <1>1, <1>12, OutputResultsKeep
  <2>2. 0 \in 0..Cap
    BY DEF SizeAssumption
  <2> QED BY <1>1, <1>2, <1>12, <2>1, <2>2, ResolutionChangeKeeps
<1> QED
  BY <1>5, <1>6, <1>7, <1>8, <1>9, <1>10, <1>11, <1>12
\* The sequence header, in state OPEN.
LEMMA SeqInitKeeps ==
  ASSUME Inv, state = "OPEN", NEW in \in Inputs, SeqInit(in)
  PROVE  Inv'
<1> USE DEF Inv
<1> DEFINE b == VpuFillData(bs, in)
<1>1. InBuf(in, "INPUT_USED", FALSE) \in SUBSET RetFlags
  BY DEF InBuf, RetFlags
<1>2. /\ state' \in {"OPEN", "INITOK"} /\ bs' \in Bitstream
      /\ \E code \in RetCodes, flags \in SUBSET RetFlags : Decoded(code, flags)
  <2>1. {"INPUT_NOT_USED"} \in SUBSET RetFlags /\ {"INIT_OK", "INPUT_USED"} \in SUBSET RetFlags
        /\ {"SUCCESS", "FAILURE"} \subseteq RetCodes
    BY DEF RetFlags, RetCodes
  <2>2. bs \in Bitstream
    BY DEF TypeOK, Bitstream
  <2>3. VpuBitsBufIsEnough(bs, in) => b \in Bitstream
    BY <2>2, BitstreamTypes
  <2> HIDE DEF b
  <2>4. \/ (state' = state /\ bs' = bs /\ \E code \in RetCodes : Decoded(code, {"INPUT_NOT_USED"}))
        \/ /\ bs' = b /\ VpuBitsBufIsEnough(bs, in)
           /\ \/ state' = state /\ \E code \in RetCodes : Decoded(code, InBuf(in, "INPUT_USED", FALSE))
              \/ state' = "INITOK" /\ \E code \in RetCodes : Decoded(code, {"INIT_OK", "INPUT_USED"})
    BY <2>1 DEF SeqInit, b
  <2> QED
    BY <1>1, <2>1, <2>2, <2>3, <2>4
<1>3. ret' \in [code : RetCodes, flags : SUBSET RetFlags] /\ duty' \in Duties /\ held' = held
  BY <1>2, DecodedTypes
<1>4. UNCHANGED <<codec, frameBufState, pPreDisplayFrameBuf, pDisplayFrameBuf, realWork,
                  vpuRun, dispFlag, pend>>
  BY DEF SeqInit
<1>5. TypeOK'
  BY <1>2, <1>3, <1>4 DEF TypeOK, States, Bitstream
<1> QED
  BY <1>2, <1>3, <1>4, <1>5 DEF OwnedDisplayed, HeldProtected, NeverClearedByWrapper,
       NotOfferedTwice, NothingBeforeOutput, StartedIsDone, Ready, Live

\* A step that changes only the return values, and the bitstream outside Live.
LEMMA QuietKeeps ==
  ASSUME Inv, UNCHANGED <<wrapVars, vpuRun, dispFlag, pend, held>>, bs' \in Bitstream,
         ret' \in [code : RetCodes, flags : SUBSET RetFlags], duty' \in Duties
  PROVE  Inv'
<1> USE DEF Inv, wrapVars
<1>1. TypeOK'
  BY DEF TypeOK, Bitstream
<1> QED
  BY <1>1 DEF OwnedDisplayed, HeldProtected, NeverClearedByWrapper,
       NotOfferedTwice, NothingBeforeOutput, StartedIsDone, Ready

\* A call in the wrong state changes nothing.
LEMMA WrongCallKeeps ==
  ASSUME Inv, WrongCall
  PROVE  Inv'
<1>1. ret' \in [code : RetCodes, flags : SUBSET RetFlags] /\ duty' \in Duties
  BY ReturnsTypes DEF WrongCall, RetCodes, Inv
<1>2. bs' \in Bitstream
  BY DEF WrongCall, vpuVars, Inv, TypeOK, Bitstream
<1> QED
  BY <1>1, <1>2, QuietKeeps DEF WrongCall, vpuVars

\* VPU_DecDecodeBuf.
LEMMA DecodeBufKeeps ==
  ASSUME Inv, NEW in \in Inputs, VPU_DecDecodeBuf(in)
  PROVE  Inv'
<1>0. TypeOK /\ bs \in Bitstream /\ vpuRun \in {"idle", "busy", "done"}
  BY DEF Inv, TypeOK, Bitstream
<1>1. CASE state = "OPEN" /\ SeqInit(in)
  BY <1>1, SeqInitKeeps
<1>2. CASE WrongCall
  BY <1>2, WrongCallKeeps
<1>3. ASSUME NEW flags \in {{"INPUT_NOT_USED"}, {"INPUT_USED", "NO_ENOUGH_INBUF"}},
             Decoded("SUCCESS", flags), UNCHANGED <<wrapVars, vpuVars>>
      PROVE  Inv'
  <2>1. flags \in SUBSET RetFlags /\ "SUCCESS" \in RetCodes
    BY DEF RetFlags, RetCodes
  <2>2. ret' \in [code : RetCodes, flags : SUBSET RetFlags] /\ duty' \in Duties /\ held' = held
    BY <1>0, <1>3, <2>1, DecodedTypes
  <2> QED BY <1>0, <1>3, <2>2, QuietKeeps DEF vpuVars
<1>4. ASSUME state = "EOS", NEW e \in Entries, KeepEntry(e, bs), Decoded("FAILURE", {}),
             UNCHANGED <<state, vpuRun>>
      PROVE  Inv'
  <2>1. ret' \in [code : RetCodes, flags : SUBSET RetFlags] /\ duty' \in Duties /\ held' = held
    BY <1>0, <1>4, DecodedTypes DEF RetCodes
  <2>2. EntryOK(e)
    BY <1>4, EntriesKeep
  <2> USE DEF Inv, Live
  <2>3. TypeOK'
    BY <1>0, <1>4, <2>1, <2>2 DEF TypeOK, KeepEntry, EntryOK, FrameStates, Bitstream
  <2>4. OwnedDisplayed' /\ HeldProtected' /\ NotOfferedTwice'
    BY <1>4, <2>1, <2>2 DEF KeepEntry, EntryOK, OwnedDisplayed, HeldProtected,
         NeverClearedByWrapper, NotOfferedTwice, Ready
  <2>5. NothingBeforeOutput' /\ StartedIsDone'
    BY <1>4, <2>1 DEF KeepEntry, NothingBeforeOutput, StartedIsDone
  <2> QED BY <2>3, <2>4, <2>5
<1>5. ASSUME state \in {"DEC", "STARTFRAMEOK", "EOS"}, NEW e \in Entries, DecodeNoFrames(e)
      PROVE  Inv'
  <2>1. {"NO_ENOUGH_BUF", "NODIS"} \in SUBSET RetFlags /\ "SUCCESS" \in RetCodes
    BY DEF RetFlags, RetCodes
  <2>2. ret' \in [code : RetCodes, flags : SUBSET RetFlags] /\ duty' \in Duties /\ held' = held
    BY <1>0, <1>5, <2>1, DecodedTypes DEF DecodeNoFrames
  <2>3. EntryOK(e)
    BY <1>5, EntriesKeep
  <2>4. /\ e.bs \in Bitstream /\ KeepEntry(e, e.bs) /\ vpuRun' = vpuRun
        /\ state' \in {"DEC", "STARTFRAMEOK"}
        /\ state' = "STARTFRAMEOK" => state = "STARTFRAMEOK" /\ vpuRun # "busy"
    BY <1>5, <2>3 DEF EntryOK, DecodeNoFrames, Inv, StartedIsDone
  <2> QED BY <1>0, <1>5, <2>2, <2>3, <2>4, NoOutputKeeps
<1>6. ASSUME state \in {"DEC", "STARTFRAMEOK", "EOS"}, NEW e \in Entries, VpuDecBuf(in, e)
      PROVE  Inv'
  BY <1>6, EntriesKeep, VpuDecBufKeeps
<1>7. \/ state = "OPEN" /\ SeqInit(in)
      \/ WrongCall
      \/ Decoded("SUCCESS", {"INPUT_NOT_USED"}) /\ UNCHANGED <<wrapVars, vpuVars>>
      \/ Decoded("SUCCESS", {"INPUT_USED", "NO_ENOUGH_INBUF"}) /\ UNCHANGED <<wrapVars, vpuVars>>
      \/ /\ state = "EOS"
         /\ \E e \in Entries : KeepEntry(e, bs)
         /\ Decoded("FAILURE", {}) /\ UNCHANGED <<state, vpuRun>>
      \/ /\ state \in {"DEC", "STARTFRAMEOK", "EOS"}
         /\ \E e \in Entries : DecodeNoFrames(e) \/ VpuDecBuf(in, e)
  BY DEF VPU_DecDecodeBuf
<1> QED
  BY <1>1, <1>2, <1>3, <1>4, <1>5, <1>6, <1>7

-----------------------------------------------------------------------------
(* The other calls. *)

\* VPU_DecFlushAll's way to FLUSH_FINISH, from frames and flags that keep what is held.
LEMMA FlushFinishKeeps ==
  ASSUME Inv, state \in {"DEC", "EOS"}, NEW fbs \in FrameStates, NEW flag \in SUBSET Frame,
         NEW b \in Bitstream,
         FlushFinish(fbs, flag, b),
         \A f \in held : fbs[f] = "DISP" /\ (codec # "VC1_AP" => f \in flag),
         UNCHANGED <<codec, pPreDisplayFrameBuf, pDisplayFrameBuf, realWork, held>>
  PROVE  Inv'
<1> USE DEF Inv, Live, FlushFinish
<1>1. ret' \in [code : RetCodes, flags : SUBSET RetFlags] /\ duty' \in Duties
  BY ReturnsTypes DEF RetCodes
<1>2. VpuBitFlush(b) \in Bitstream
  BY DEF VpuBitFlush, Bitstream
<1>3. TypeOK'
  BY <1>1, <1>2 DEF TypeOK, States, FrameStates, Bitstream
<1> QED
  BY <1>3 DEF OwnedDisplayed, HeldProtected, NeverClearedByWrapper,
       NotOfferedTwice, NothingBeforeOutput, StartedIsDone, Ready

\* VPU_DecFlushAll giving up, the same.
LEMMA FlushFailsKeeps ==
  ASSUME Inv, state \in {"DEC", "STARTFRAMEOK", "EOS"}, NEW fbs \in FrameStates,
         NEW flag \in SUBSET Frame, NEW p \in SUBSET Frame, NEW b \in Bitstream,
         NEW code \in RetCodes, NEW run \in {"idle", "busy", "done"},
         FlushFails(code, fbs, flag, p, b, run),
         state = "STARTFRAMEOK" => run # "busy",
         \A f \in held : fbs[f] = "DISP" /\ (codec # "VC1_AP" => f \in flag),
         UNCHANGED <<codec, pPreDisplayFrameBuf, pDisplayFrameBuf, realWork, held>>
  PROVE  Inv'
<1> USE DEF Inv, Live, FlushFails
<1>1. ret' \in [code : RetCodes, flags : SUBSET RetFlags] /\ duty' \in Duties
  BY ReturnsTypes
<1>2. TypeOK'
  BY <1>1 DEF TypeOK, States, FrameStates, Bitstream
<1> QED
  BY <1>2 DEF OwnedDisplayed, HeldProtected, NeverClearedByWrapper,
       NotOfferedTwice, NothingBeforeOutput, StartedIsDone, Ready
\* The VPU driven by VPU_DecFlushAll: either nothing is held, or it is not running.
LEMMA FlushDriveKeeps ==
  ASSUME Inv, state = "STARTFRAMEOK" \/ (state \in {"DEC", "EOS"} /\ ~realWork), FlushDrive,
         UNCHANGED <<codec, pPreDisplayFrameBuf, pDisplayFrameBuf, realWork, held>>
  PROVE  Inv'
<1> DEFINE filled == StartCodeFilled
           ended  == [filled EXCEPT !.end = TRUE]
<1>1. PICK run \in {"idle", "busy", "done"} :
        /\ state = "STARTFRAMEOK" => run = vpuRun
        /\ \/ FlushFails("FAILURE_TIMEOUT", frameBufState, dispFlag, pend, ended, run)
           \/ run = "busy" /\ FlushFails("FAILURE", frameBufState, dispFlag, pend, filled, "done")
           \/ /\ run = "busy"
              /\ \E b \in {filled, ended} : \E o \in FirmwareOutputs(dispFlag, pend, b) : FlushOutput(o, b)
  <2>1. PICK run \in (IF state = "STARTFRAMEOK" \/ vpuRun # "idle" THEN {vpuRun}
                     ELSE {"busy"} \cup IF CallsFail THEN {"idle"} ELSE {}) :
          \/ FlushFails("FAILURE_TIMEOUT", frameBufState, dispFlag, pend, ended, run)
          \/ run = "busy" /\ FlushFails("FAILURE", frameBufState, dispFlag, pend, filled, "done")
          \/ /\ run = "busy"
             /\ \E b \in (IF ~Sane THEN {filled, ended} ELSE IF Answers(filled) THEN {filled} ELSE {ended}) :
                  \E o \in FirmwareOutputs(dispFlag, pend, b) : FlushOutput(o, b)
    BY Zenon DEF FlushDrive
  <2>2. run \in {"idle", "busy", "done"} /\ (state = "STARTFRAMEOK" => run = vpuRun)
    BY DEF Inv, TypeOK
  <2> HIDE DEF filled, ended
  <2> QED
    BY <2>1, <2>2
<1>2. /\ frameBufState \in FrameStates /\ dispFlag \in SUBSET Frame /\ pend \in SUBSET Frame
      /\ filled \in Bitstream /\ ended \in Bitstream
  BY DEF Inv, TypeOK, FrameStates, Bitstream, StartCodeFilled
<1>3. \A f \in held : frameBufState[f] = "DISP" /\ (codec # "VC1_AP" => f \in dispFlag)
  BY DEF Inv, Live, OwnedDisplayed, HeldProtected, NeverClearedByWrapper
<1>4. state = "STARTFRAMEOK" => run # "busy"
  BY <1>1 DEF Inv, StartedIsDone
<1>5. {"FAILURE", "FAILURE_TIMEOUT"} \subseteq RetCodes
  BY DEF RetCodes
<1> HIDE DEF filled, ended
<1>6. CASE FlushFails("FAILURE_TIMEOUT", frameBufState, dispFlag, pend, ended, run)
  BY <1>2, <1>3, <1>4, <1>5, <1>6, FlushFailsKeeps
<1>7. CASE run = "busy" /\ FlushFails("FAILURE", frameBufState, dispFlag, pend, filled, "done")
  BY <1>2, <1>3, <1>4, <1>5, <1>7, FlushFailsKeeps
<1>8. ASSUME run = "busy", NEW b \in {filled, ended}, NEW o \in FirmwareOutputs(dispFlag, pend, b),
             FlushOutput(o, b)
      PROVE  Inv'
  <2>1. state \in {"DEC", "EOS"} /\ held = {}
    BY <1>4, <1>8 DEF Inv, NothingBeforeOutput, Live
  <2> DEFINE flag == dispFlag \cup Flagged(o)
             gone == IF o.status = "rollback" THEN {} ELSE {o.dis} \cap Frame
             dec  == IF o.status = "rollback" THEN {} ELSE {o.dec} \cap Frame
             fbs  == [f \in Frame |-> IF f \in gone THEN "FREE" ELSE frameBufState[f]]
             p    == StillPending(o, pend)
  <2>2. flag \in SUBSET Frame /\ p \in SUBSET Frame
    BY <1>2 DEF Flagged, StillPending
  <2>3. fbs \in FrameStates
    BY <1>2 DEF FrameStates
  <2>4. b \in Bitstream
    BY <1>2
  <2>5. \/ FlushFails("FAILURE", frameBufState, flag, p, b, "idle")
        \/ \E S \in FlagsCleared(dec) :
             \/ FlushFinish(fbs, flag \ (gone \cup S), b)
             \/ FlushFails("FAILURE", fbs, flag \ (gone \cup S), p, b, "idle")
    BY <1>8 DEF FlushOutput
  <2> HIDE DEF flag, gone, dec, fbs, p
  <2>6. CASE FlushFails("FAILURE", frameBufState, flag, p, b, "idle")
    BY <1>2, <1>5, <2>1, <2>2, <2>4, <2>6, FlushFailsKeeps
  <2>7. ASSUME NEW S \in FlagsCleared(dec), FlushFinish(fbs, flag \ (gone \cup S), b)
        PROVE  Inv'
    <3>1. flag \ (gone \cup S) \in SUBSET Frame
      BY <2>2
    <3> QED BY <2>1, <2>3, <2>4, <2>7, <3>1, FlushFinishKeeps
  <2>8. ASSUME NEW S \in FlagsCleared(dec),
               FlushFails("FAILURE", fbs, flag \ (gone \cup S), p, b, "idle")
        PROVE  Inv'
    <3>1. flag \ (gone \cup S) \in SUBSET Frame
      BY <2>2
    <3> QED BY <1>5, <2>1, <2>2, <2>3, <2>4, <2>8, <3>1, FlushFailsKeeps
  <2> QED
    BY <2>5, <2>6, <2>7, <2>8
<1> QED
  BY <1>1, <1>6, <1>7, <1>8

\* VPU_DecFlushAll.
LEMMA FlushAllKeeps ==
  ASSUME Inv, VPU_DecFlushAll
  PROVE  Inv'
<1>1. /\ frameBufState \in FrameStates /\ dispFlag \in SUBSET Frame
      /\ bs \in Bitstream /\ VpuBitFlush(bs) \in Bitstream
      /\ TypeOK /\ {"SUCCESS", "FAILURE"} \subseteq RetCodes
  BY DEF Inv, TypeOK, FrameStates, Bitstream, VpuBitFlush, RetCodes
<1>2. UNCHANGED <<codec, pPreDisplayFrameBuf, pDisplayFrameBuf, realWork, held>>
  BY DEF VPU_DecFlushAll
<1>3. CASE /\ bs' \in Bitstream /\ \E code \in RetCodes : Returns(code)
           /\ UNCHANGED <<state, frameBufState, vpuRun, dispFlag, pend>>
  <2>1. ret' \in [code : RetCodes, flags : SUBSET RetFlags] /\ duty' \in Duties
    BY <1>1, <1>3, ReturnsTypes
  <2> QED BY <1>2, <1>3, <2>1, QuietKeeps DEF wrapVars
<1>4. CASE state \in {"DEC", "EOS"} /\ FlushFinish(frameBufState, dispFlag, bs)
  <2>1. \A f \in held : frameBufState[f] = "DISP" /\ (codec # "VC1_AP" => f \in dispFlag)
    BY <1>4 DEF Inv, Live, OwnedDisplayed, HeldProtected, NeverClearedByWrapper
  <2> QED BY <1>1, <1>2, <1>4, <2>1, FlushFinishKeeps
<1>5. CASE (state = "STARTFRAMEOK" \/ (state \in {"DEC", "EOS"} /\ ~realWork)) /\ FlushDrive
  BY <1>2, <1>5, FlushDriveKeeps
<1> QED
  BY <1>1, <1>3, <1>4, <1>5 DEF VPU_DecFlushAll, vpuVars

\* VPU_DecGetInitialInfo and VPU_DecRegisterFrameBuffer.
LEMMA SetupKeeps ==
  ASSUME Inv, VPU_DecGetInitialInfo \/ VPU_DecRegisterFrameBuffer
  PROVE  Inv'
<1>1. CASE WrongCall
  BY <1>1, WrongCallKeeps
<1>2. CASE Returns("FAILURE") /\ UNCHANGED <<wrapVars, vpuVars, held>>
  <2>1. ret' \in [code : RetCodes, flags : SUBSET RetFlags] /\ duty' \in Duties
    BY <1>2, ReturnsTypes DEF RetCodes, Inv
  <2> QED BY <1>2, <2>1, QuietKeeps DEF vpuVars, Inv, TypeOK, Bitstream
<1>3. CASE /\ \/ state' = "REGFRMOK" /\ duty' = "register"
              \/ state' = "DEC" /\ held = {} /\ duty' = "feed"
           /\ ret' = [code |-> "SUCCESS", flags |-> {}]
           /\ UNCHANGED <<codec, frameBufState, pPreDisplayFrameBuf, pDisplayFrameBuf, realWork,
                          vpuVars, held>>
  <2> USE DEF Inv, Live, vpuVars
  <2>1. TypeOK'
    BY <1>3 DEF TypeOK, States, RetCodes, Duties
  <2> QED
    BY <1>3, <2>1 DEF OwnedDisplayed, HeldProtected, NeverClearedByWrapper,
         NotOfferedTwice, NothingBeforeOutput, StartedIsDone, Ready
<1> QED
  BY <1>1, <1>2, <1>3 DEF VPU_DecGetInitialInfo, VPU_DecRegisterFrameBuffer

\* VPU_DecGetOutputFrame: the offered frame is now held.
LEMMA GetOutputFrameKeeps ==
  ASSUME Inv, VPU_DecGetOutputFrame
  PROVE  Inv'
<1>1. CASE WrongCall
  BY <1>1, WrongCallKeeps
<1>2. CASE /\ state = "OUTOK" /\ state' = "DEC"
           /\ held' = held \cup {pDisplayFrameBuf}
           /\ ret' = [code |-> "SUCCESS", flags |-> {}] /\ duty' = "feed"
           /\ UNCHANGED <<codec, frameBufState, pPreDisplayFrameBuf, pDisplayFrameBuf, realWork,
                          vpuVars>>
  <2> USE DEF Inv, Live, vpuVars
  <2>1. TypeOK'
    BY <1>2 DEF TypeOK, States, RetCodes, Duties
  <2> QED
    BY <1>2, <2>1 DEF OwnedDisplayed, HeldProtected, NeverClearedByWrapper,
         NotOfferedTwice, NothingBeforeOutput, StartedIsDone, Ready
<1> QED
  BY <1>1, <1>2 DEF VPU_DecGetOutputFrame

\* VPU_DecOutFrameDisplayed: only the released frame loses its state and its flag.
LEMMA OutFrameDisplayedKeeps ==
  ASSUME Inv, NEW f \in Frame, VPU_DecOutFrameDisplayed(f)
  PROVE  Inv'
<1> USE DEF Inv, Live
<1>1. ret' \in [code : RetCodes, flags : SUBSET RetFlags] /\ duty' \in Duties
  BY ReturnsTypes DEF VPU_DecOutFrameDisplayed, RetCodes
<1>2. /\ f \in held /\ held' = held \ {f}
      /\ UNCHANGED <<state, codec, pDisplayFrameBuf, realWork, bs, vpuRun, pend>>
      /\ frameBufState' \in FrameStates /\ dispFlag' \in SUBSET Frame
      /\ pPreDisplayFrameBuf' \in Frame \cup {NoFrame}
      /\ \A h \in Frame \ {f} : /\ frameBufState'[h] = frameBufState[h]
                                /\ h \in dispFlag => h \in dispFlag'
  BY DEF VPU_DecOutFrameDisplayed, ForgetLast, TypeOK, FrameStates
<1>3. TypeOK'
  BY <1>1, <1>2 DEF TypeOK, FrameStates
<1>4. \A h \in (held \cup Ready)' : h \in (held \cup Ready) \ {f} /\ h \in Frame
  BY <1>2 DEF Ready, NotOfferedTwice, TypeOK
<1>5. OwnedDisplayed' /\ HeldProtected'
  <2>1. Ready' = Ready
    BY <1>2 DEF Ready
  <2> QED
    BY <1>2, <1>4, <2>1 DEF OwnedDisplayed, HeldProtected, NeverClearedByWrapper
<1> QED
  BY <1>2, <1>3, <1>5 DEF NotOfferedTwice, NothingBeforeOutput, StartedIsDone, Ready

\* Closing and opening again.
LEMMA ReopenKeeps ==
  ASSUME Inv, Reopen
  PROVE  Inv'
<1>1. TypeOK'
  BY EmptyRing, FirstReturn DEF Reopen, ResetFrames, TypeOK, States, Duties
<1> QED
  BY <1>1 DEF Reopen, ResetFrames, Inv, Live, OwnedDisplayed, HeldProtected,
       NeverClearedByWrapper, NotOfferedTwice, NothingBeforeOutput, StartedIsDone, Ready

-----------------------------------------------------------------------------
(* Theorems. *)

\* Every call keeps the invariant.
LEMMA StepKeepsInv ==
  ASSUME Inv, [Next]_vars
  PROVE  Inv'
<1>1. ASSUME NEW in \in Inputs, VPU_DecDecodeBuf(in) PROVE Inv'
  BY <1>1, DecodeBufKeeps
<1>2. CASE VPU_DecGetInitialInfo \/ VPU_DecRegisterFrameBuffer
  BY <1>2, SetupKeeps
<1>3. CASE VPU_DecGetOutputFrame
  BY <1>3, GetOutputFrameKeeps
<1>4. ASSUME NEW f \in Frame, VPU_DecOutFrameDisplayed(f) PROVE Inv'
  BY <1>4, OutFrameDisplayedKeeps
<1>5. CASE VPU_DecFlushAll
  BY <1>5, FlushAllKeeps
<1>6. CASE Reopen
  BY <1>6, ReopenKeeps
<1>7. CASE UNCHANGED vars
  <2>1. bs' \in Bitstream /\ ret' \in [code : RetCodes, flags : SUBSET RetFlags] /\ duty' \in Duties
    BY <1>7 DEF vars, vpuVars, appVars, Inv, TypeOK, Bitstream
  <2> QED BY <1>7, <2>1, QuietKeeps DEF vars, vpuVars, appVars
<1> QED
  BY <1>1, <1>2, <1>3, <1>4, <1>5, <1>6, <1>7 DEF Next

\* A new instance.
LEMMA InitInv ==
  ASSUME Init
  PROVE  Inv
<1>1. TypeOK
  BY EmptyRing, FirstReturn DEF Init, TypeOK, States, Duties
<1> QED
  BY <1>1 DEF Init, Inv, Live, OwnedDisplayed, HeldProtected, NeverClearedByWrapper,
       NotOfferedTwice, NothingBeforeOutput, StartedIsDone, Ready

\* No call, no answer of the firmware and no failing library call leads out of Inv.
THEOREM Invariance == Spec => []Inv
<1>1. Init => Inv
  BY InitInv
<1>2. Inv /\ [Next]_vars => Inv'
  BY StepKeepsInv
<1> QED
  BY <1>1, <1>2, PTL DEF Spec

\* The variables stay in their types; in state OUTOK there is a frame to hand out.
THEOREM TypeCorrect == Spec => []TypeOK
<1>1. Inv => TypeOK
  BY DEF Inv
<1> QED
  BY <1>1, Invariance, PTL

\* Except with VC1_AP, the VPU is never free to overwrite a frame the application was offered
\* and has not released, whatever the firmware reports and whichever library calls fail.
THEOREM HeldFramesProtected == Spec => []HeldProtected
<1>1. Inv => HeldProtected
  BY DEF Inv
<1> QED
  BY <1>1, Invariance, PTL

\* A VC1_AP skip picture is the only thing that makes the wrapper clear the flag of a frame that
\* is offered or held, against vpu_wrapper.c:3563.
THEOREM OnlyVc1apIsCleared ==
  ASSUME "VC1_AP" \notin Codecs
  PROVE  Spec => []NeverClearedByWrapper
<1>1. TypeOK /\ HeldProtected => NeverClearedByWrapper
  BY DEF TypeOK, HeldProtected
<1> QED
  BY <1>1, TypeCorrect, HeldFramesProtected, PTL

\* A frame the application holds is never offered to it again.
THEOREM OfferedOnce == Spec => []NotOfferedTwice
<1>1. Inv => NotOfferedTwice
  BY DEF Inv
<1> QED
  BY <1>1, Invariance, PTL
-----------------------------------------------------------------------------
(* A firmware in order is never left running. *)

\* With filledEOS the VPU has its mark: what is there is enough to make it answer.
EndKnown(b) == b.eos => b.end

RunInv == Sane /\ FlushKeepsEnd => EndKnown(bs) /\ vpuRun # "busy"

\* Filling and flushing the bitstream keep the mark.
LEMMA EndKept ==
  ASSUME FlushKeepsEnd, NEW b \in Bitstream, EndKnown(b), NEW in
  PROVE  EndKnown(VpuFillData(b, in)) /\ EndKnown(VpuBitFlush(b))
BY DEF EndKnown, VpuFillData, VpuBitFlush, Bitstream

\* A VPU started with enough data, or with the end of the stream, answers.
LEMMA EnoughAnswers ==
  ASSUME NEW b \in Bitstream, EndKnown(b), NEW in, ~NotEnoughDecData(in, b)
  PROVE  Answers(b)
BY DEF EndKnown, NotEnoughDecData, Answers, Bitstream

\* VpuDecBuf, on any input from any entry.
LEMMA VpuDecBufStops ==
  ASSUME Inv, RunInv, Sane, FlushKeepsEnd, NEW in \in Inputs, NEW e, EntryOK(e),
         EndKnown(e.bs), VpuDecBuf(in, e)
  PROVE  RunInv'
<1> USE DEF RunInv, EndKnown
<1> DEFINE enough == VpuBitsBufIsEnough(e.bs, in)
           b      == IF enough THEN VpuFillData(e.bs, in) ELSE e.bs
           used   == IF enough THEN "INPUT_USED" ELSE "INPUT_NOT_USED"
           run    == IF e.state = "DEC" THEN "busy" ELSE vpuRun
           ready  == e.state = "DEC" => vpuRun = "idle" /\ ~NotEnoughDecData(in, b)
<1>1. b \in Bitstream /\ EndKnown(b)
  BY BitstreamTypes, EndKept DEF EntryOK
<1>2. \/ DecodeCollect(in, e, b, used)
      \/ DecodeStartFails(e, b, used)
      \/ ready /\ DecodeTimeout(e, b, run, used)
      \/ DecodeOutputFails(e, b, run, used)
      \/ \E r \in OutputResults(e, b) :
           \/ \E n \in r.remaining : DecodeOutput(in, b, used, r.got, r.pend, n)
           \/ \E k \in r.backup : DecodeResolutionChange(used, r.got, k)
           \/ DecodeReopenFails(b, used, r.got)
  BY DEF VpuDecBuf
<1>3. ready /\ run = "busy" => Answers(b)
  BY <1>1, EnoughAnswers
<1> HIDE DEF b, used, run, ready
<1>4. CASE DecodeCollect(in, e, b, used) \/ DecodeStartFails(e, b, used)
  BY <1>1, <1>4 DEF DecodeCollect, DecodeStartFails, KeepEntry
<1>5. CASE ready /\ DecodeTimeout(e, b, run, used)
  BY <1>1, <1>3, <1>5 DEF DecodeTimeout, KeepEntry
<1>6. CASE DecodeOutputFails(e, b, run, used)
  BY <1>1, <1>6 DEF DecodeOutputFails, KeepEntry
<1>7. ASSUME NEW g, NEW p, NEW n, DecodeOutput(in, b, used, g, p, n)
      PROVE  RunInv'
  BY <1>1, <1>7 DEF DecodeOutput, Bitstream
<1>8. ASSUME NEW g, NEW k, DecodeResolutionChange(used, g, k)
      PROVE  RunInv'
  BY <1>8 DEF DecodeResolutionChange, ResetFrames
<1>9. ASSUME NEW g, DecodeReopenFails(b, used, g)
      PROVE  RunInv'
  BY <1>1, <1>9 DEF DecodeReopenFails
<1> QED
  BY <1>2, <1>4, <1>5, <1>6, <1>7, <1>8, <1>9

\* VPU_DecDecodeBuf.
LEMMA DecodeBufStops ==
  ASSUME Inv, RunInv, Sane, FlushKeepsEnd, NEW in \in Inputs, VPU_DecDecodeBuf(in)
  PROVE  RunInv'
<1> USE DEF RunInv
<1>1. bs \in Bitstream
  BY DEF Inv, TypeOK, Bitstream
<1>2. CASE state = "OPEN" /\ SeqInit(in)
  BY <1>1, <1>2, EndKept DEF SeqInit
<1>3. CASE UNCHANGED <<bs, vpuRun>>
  BY <1>3 DEF EndKnown
<1>4. ASSUME state \in {"DEC", "STARTFRAMEOK", "EOS"}, NEW e \in Entries
      PROVE  EntryOK(e) /\ EndKnown(e.bs)
  BY <1>1, <1>4, EntriesKeep, EndKept DEF Entries
<1>5. ASSUME state \in {"DEC", "STARTFRAMEOK", "EOS"}, NEW e \in Entries, DecodeNoFrames(e)
      PROVE  RunInv'
  BY <1>4, <1>5 DEF DecodeNoFrames, KeepEntry, EndKnown
<1>6. ASSUME state \in {"DEC", "STARTFRAMEOK", "EOS"}, NEW e \in Entries, VpuDecBuf(in, e)
      PROVE  RunInv'
  BY <1>4, <1>6, VpuDecBufStops
<1> QED
  BY <1>2, <1>3, <1>5, <1>6 DEF VPU_DecDecodeBuf, WrongCall, vpuVars, KeepEntry

\* VPU_DecFlushAll: it drives the VPU only with data or the mark, and waits for it.
LEMMA FlushAllStops ==
  ASSUME Inv, RunInv, Sane, FlushKeepsEnd, VPU_DecFlushAll
  PROVE  RunInv'
<1> USE DEF RunInv
<1>1. bs \in Bitstream
  BY DEF Inv, TypeOK, Bitstream
<1>2. ASSUME NEW fbs, NEW flag, NEW b \in Bitstream, EndKnown(b), FlushFinish(fbs, flag, b)
      PROVE  RunInv'
  BY <1>2, EndKept DEF FlushFinish
<1>3. ASSUME NEW code, NEW fbs, NEW flag, NEW p, NEW b, EndKnown(b), NEW run, run # "busy",
             FlushFails(code, fbs, flag, p, b, run)
      PROVE  RunInv'
  BY <1>3 DEF FlushFails, EndKnown
<1>4. CASE FlushDrive
  <2> DEFINE filled == StartCodeFilled
             ended  == [filled EXCEPT !.end = TRUE]
  <2>1. filled \in Bitstream /\ ended \in Bitstream /\ EndKnown(filled) /\ EndKnown(ended)
    BY <1>1 DEF StartCodeFilled, Bitstream, EndKnown
  <2>2. \E run : \/ run # "busy" /\ FlushFails("FAILURE_TIMEOUT", frameBufState, dispFlag, pend, ended, run)
                 \/ FlushFails("FAILURE", frameBufState, dispFlag, pend, filled, "done")
                 \/ \E b \in {filled, ended} : \E o : FlushOutput(o, b)
    BY <1>4 DEF FlushDrive
  <2> HIDE DEF filled, ended
  <2>3. ASSUME NEW b \in {filled, ended}, NEW o, FlushOutput(o, b) PROVE RunInv'
    <3>1. b \in Bitstream /\ EndKnown(b)
      BY <2>1
    <3>2. \/ \E fbs, flag, p : FlushFails("FAILURE", fbs, flag, p, b, "idle")
          \/ \E fbs, flag : FlushFinish(fbs, flag, b)
      BY <2>3, Zenon DEF FlushOutput
    <3> QED BY <1>2, <1>3, <3>1, <3>2
  <2> QED BY <1>3, <2>1, <2>2, <2>3
<1>5. CASE UNCHANGED <<bs, vpuRun>>
  BY <1>5 DEF EndKnown
<1>6. CASE bs' = VpuBitFlush(bs) /\ UNCHANGED vpuRun
  BY <1>1, <1>6, EndKept
<1>7. CASE FlushFinish(frameBufState, dispFlag, bs)
  BY <1>1, <1>2, <1>7
<1> QED
  BY <1>4, <1>5, <1>6, <1>7 DEF VPU_DecFlushAll, vpuVars

\* A VPU in order is started only when it will answer ("avoid wait timeout"), and no call
\* returns while a frame is in work, if the bit flush leaves the end mark where it was.
THEOREM StartedOnlyToAnswer == Spec => []NeverLeftRunning
<1>1. Init => RunInv
  BY DEF Init, RunInv, EndKnown
<1>2. Inv /\ RunInv /\ [Next]_vars => RunInv'
  <2> SUFFICES ASSUME Inv, RunInv, [Next]_vars, Sane, FlushKeepsEnd PROVE RunInv'
    BY DEF RunInv
  <2>1. ASSUME NEW in \in Inputs, VPU_DecDecodeBuf(in) PROVE RunInv'
    BY <2>1, DecodeBufStops
  <2>2. CASE VPU_DecFlushAll
    BY <2>2, FlushAllStops
  <2>3. CASE Reopen
    BY <2>3 DEF Reopen, ResetFrames, RunInv, EndKnown
  <2>4. CASE UNCHANGED <<bs, vpuRun>>
    BY <2>4 DEF RunInv, EndKnown
  <2>5. ASSUME NEW f \in Frame, VPU_DecOutFrameDisplayed(f) PROVE UNCHANGED <<bs, vpuRun>>
    BY <2>5 DEF VPU_DecOutFrameDisplayed
  <2>6. VPU_DecGetInitialInfo \/ VPU_DecRegisterFrameBuffer \/ VPU_DecGetOutputFrame \/ UNCHANGED vars
          => UNCHANGED <<bs, vpuRun>>
    BY DEF VPU_DecGetInitialInfo, VPU_DecRegisterFrameBuffer, VPU_DecGetOutputFrame, WrongCall,
           vars, vpuVars
  <2> QED
    BY <2>1, <2>2, <2>3, <2>4, <2>5, <2>6 DEF Next
<1>3. RunInv => NeverLeftRunning
  BY DEF RunInv, NeverLeftRunning
<1> QED
  BY <1>1, <1>2, <1>3, Invariance, PTL DEF Spec
=============================================================================
