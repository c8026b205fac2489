------------------------------- MODULE VpuDec -------------------------------
(* One decoder instance of vpu_wrapper.c on i.MX6 in stream mode: the state   *)
(* machine behind VPU_DecOpen .. VPU_DecClose, the frame buffer states it     *)
(* keeps, and what it asks of the VPU library.  Every API call is one action: *)
(* the wrapper has no thread of its own and runs the VPU inside the call.     *)
(* The library and its firmware are external; they answer with any result     *)
(* (Sane = FALSE), or with the results of a firmware that keeps its own       *)
(* buffers in order (Sane = TRUE).                                            *)
EXTENDS Naturals, FiniteSets

CONSTANTS
  Frame,          \* the registered frame buffers, frameBuf[0 .. frameNum-1]
  NoFrame,        \* the NULL frame pointer
  Codecs,         \* formats an instance may be opened with
  Cap,            \* units of data the bitstream ring holds (VPU_BITS_BUF_SIZE)
  Delay,          \* units wanted before a frame is started (streamBufDelaySize)
  MinUint,        \* units wanted in any case (VPU_MIN_UINT_SIZE, VPU_MIN_INIT_SIZE)
  Sizes,          \* units of one input node
  MinFrames,      \* nMinFrameBufferCount
  Sane,           \* firmware reports only what its own buffers allow
  CallsFail,      \* library calls and malloc may fail
  FlushKeepsEnd,  \* vpu_DecBitBufferFlush leaves the end-of-stream mark set
  Obedient        \* the application makes the calls the return codes ask for

ASSUME FrameAssumption ==
  /\ IsFiniteSet(Frame)
  /\ NoFrame \notin Frame
  /\ Frame \cap {"NOBUF", "UNDEC", "NOMEANING", "EOS", "NODIS", "OVER"} = {}

ASSUME SizeAssumption ==
  /\ {Cap, Delay, MinUint, MinFrames} \subseteq Nat
  /\ 0 < MinUint /\ MinUint <= Delay /\ Delay <= Cap
  /\ Sizes \subseteq Nat \ {0}

ASSUME SwitchAssumption ==
  {Sane, CallsFail, FlushKeepsEnd, Obedient} \subseteq BOOLEAN

VARIABLES
  state,                \* VpuDecObj.state
  codec,                \* VpuDecObj.CodecFormat
  frameBufState,        \* VpuDecObj.frameBufState
  pPreDisplayFrameBuf,  \* the frame displayed last
  pDisplayFrameBuf,     \* the frame VPU_DecGetOutputFrame will hand out
  realWork,             \* some output has been got since the frames were registered
  bs,                   \* the bitstream: filled, eos (filledEOS), end (the VPU's own mark)
  vpuRun,               \* idle; busy: a frame is started; done: interrupt taken, result not
  dispFlag,             \* frames whose display flag is set in the VPU: it must not write them
  pend,                 \* frames a sane firmware has decoded and not yet shown
  held,                 \* frames the application was given and has not released
  duty,                 \* what the last return codes ask the application to call
  ret                   \* code and flags of the last call

wrapVars == <<state, codec, frameBufState, pPreDisplayFrameBuf, pDisplayFrameBuf, realWork>>
vpuVars  == <<bs, vpuRun, dispFlag, pend>>
appVars  == <<held, duty, ret>>
vars     == <<wrapVars, vpuVars, appVars>>

States == {"OPEN", "INITOK", "REGFRMOK", "DEC", "STARTFRAMEOK", "OUTOK", "EOS", "CORRUPT"}
Live   == {"DEC", "STARTFRAMEOK", "OUTOK", "EOS"}   \* frames are registered, VPU may run

RetFlags == {"INPUT_USED", "INPUT_NOT_USED", "NO_ENOUGH_INBUF", "INIT_OK", "DIS", "MOSAIC_DIS",
             "REPEAT", "NODIS", "DROPPED", "EOS", "NO_ENOUGH_BUF", "RESOLUTION_CHANGED"}
RetCodes == {"SUCCESS", "FAILURE", "FAILURE_TIMEOUT", "WRONG_CALL_SEQUENCE"}
Duties   == {"feed", "getinfo", "register", "fetch", "reopen"}

\* Input nodes: no data (NULL, 0), end of stream (non-NULL, 0), or data.
Null   == [ptr |-> FALSE, size |-> 0]
Eos    == [ptr |-> TRUE,  size |-> 0]
Inputs == {Null, Eos} \cup {[ptr |-> TRUE, size |-> n] : n \in Sizes}

\* Formats for which DecOpen enables resolution change; the others of Codecs have it off.
ResolutionChangeEnabled == codec \in {"AVC", "MPEG4", "VP8"}

TypeOK ==
  /\ state \in States
  /\ codec \in Codecs
  /\ frameBufState \in [Frame -> {"FREE", "DEC", "DISP"}]
  /\ pPreDisplayFrameBuf \in Frame \cup {NoFrame}
  /\ pDisplayFrameBuf \in Frame \cup {NoFrame}
  /\ state = "OUTOK" => pDisplayFrameBuf \in Frame
  /\ realWork \in BOOLEAN
  /\ bs \in [filled : 0..Cap, eos : BOOLEAN, end : BOOLEAN]
  /\ vpuRun \in {"idle", "busy", "done"}
  /\ dispFlag \subseteq Frame
  /\ pend \subseteq Frame
  /\ held \subseteq Frame
  /\ duty \in Duties
  /\ ret \in [code : RetCodes, flags : SUBSET RetFlags]

-----------------------------------------------------------------------------
(* The application's side of the contract. *)

NextDuty(code, flags) ==
  IF code = "FAILURE_TIMEOUT" THEN "reopen"
  ELSE IF flags \cap {"INIT_OK", "RESOLUTION_CHANGED"} # {} THEN "getinfo"
  ELSE IF flags \cap {"DIS", "MOSAIC_DIS"} # {} THEN "fetch"
  ELSE "feed"

Asked(d) == ~Obedient \/ duty = d

\* A call that returns `code' and `flags' and leaves the frames with their holders.
Decoded(code, flags) ==
  /\ ret' = [code |-> code, flags |-> flags]
  /\ duty' = NextDuty(code, flags)
  /\ held' = held

Returns(code) ==
  /\ ret' = [code |-> code, flags |-> {}]
  /\ duty' = IF code = "FAILURE_TIMEOUT" THEN "reopen" ELSE duty

WrongCall == Returns("WRONG_CALL_SEQUENCE") /\ UNCHANGED <<wrapVars, vpuVars, held>>

-----------------------------------------------------------------------------
(* The bitstream buffer. *)

\* A NULL node and a repeated end of stream change nothing; an empty node marks the end.
VpuFillData(b, in) ==
  IF ~in.ptr \/ (in.size = 0 /\ b.eos)
    THEN b
    ELSE [filled |-> b.filled + in.size, eos |-> in.size = 0, end |-> b.end \/ in.size = 0]

VpuBitsBufIsEnough_Before(b, in) == b.filled < Cap
VpuBitsBufIsEnough(b, in) == b.filled + in.size <= Cap

\* filledEOS survives the flush: only the next fill or a re-initialisation rewrites it.
VpuBitFlush(b) == [filled |-> 0, eos |-> b.eos, end |-> b.end /\ FlushKeepsEnd]

-----------------------------------------------------------------------------
(* The firmware (external).  An output is the pair of frame indices and what  *)
(* the wrapper asks of it besides: decodingSuccess (bit 0 clear, rollback     *)
(* 0x10, resolution change bit 20), a decoded VC1_AP skip picture, a decoded  *)
(* picture of another size.  A distinction the code makes for one format only *)
(* is made for that format only.                                              *)

Statuses ==
  {"ok", "rollback"} \cup (IF codec = "VP8" THEN {"bad"} ELSE {})
                     \cup (IF codec = "VC1_AP" THEN {"skip"} ELSE {})
                     \cup (IF ResolutionChangeEnabled THEN {"resch", "resized"} ELSE {})

Outputs ==
  {o \in [dec : Frame \cup {"NOBUF", "UNDEC"}, dis : Frame \cup {"EOS", "NODIS", "OVER"},
          status : Statuses] :
     /\ o.status \in {"skip", "resized"} => o.dec \in Frame
     /\ o.dis = "OVER" => o.dec = "UNDEC" /\ o.status = "ok"}

\* The frames whose display flag the VPU sets with an output.
Flagged(o) == (IF codec = "VP8" THEN {o.dis} ELSE {o.dec, o.dis}) \cap Frame

\* A started VPU raises its interrupt when it has a unit of data or the end mark.
Answers(b) == b.filled >= MinUint \/ b.end

SaneOutput(o, flag, p, b) ==
  /\ o.status \in {"rollback", "resch"} => o.dec = "UNDEC"
  /\ o.status = "rollback" => o.dis = "NODIS" /\ ~b.end
  /\ o.status = "resch" => o.dis \in p \cup {"NODIS"} /\ b.filled > 0
  /\ o.dec \in Frame => o.dec \notin flag /\ b.filled > 0
  /\ o.dec = "NOBUF" => flag = Frame /\ o.dis # "EOS"
  /\ o.dis \in Frame => o.dis \in p \cup {o.dec}
  /\ o.dis = "EOS" => b.end /\ p = {} /\ b.filled = 0 /\ o.dec = "UNDEC"
  /\ o.dis # "OVER" /\ o.status # "bad"
  /\ codec = "VP8" /\ o.dec \in Frame => o.dis \in {o.dec, "NODIS"}

FirmwareOutputs(flag, p, b) ==
  IF Sane THEN {o \in Outputs : SaneOutput(o, flag, p, b)} ELSE Outputs

\* What is left in the buffer after output o.
Remaining(o, b) ==
  CASE o.status = "rollback"        -> {b.filled}
    [] Sane /\ o.status = "resch"   -> 1..b.filled
    [] Sane /\ o.dec \in Frame      -> 0..(b.filled - 1)
    [] OTHER                        -> {0, b.filled}

StillPending(o, p) == IF Sane THEN (p \cup Flagged(o)) \ {o.dis} ELSE {}

\* vpu_DecClrDispFlag called on every frame of S: the frames whose flag it did clear.
FlagsCleared(S) == IF CallsFail THEN SUBSET S ELSE {S}

-----------------------------------------------------------------------------
(* VpuGetOutput: what one output of the VPU does to the wrapper's frames. *)

FramesIn(fbs, st) == {f \in Frame : fbs[f] = st}

\* VpuQueryVpuHoldBufNum: the frames not handed to the application.
VpuQueryVpuHoldBufNum_Free(fbs) == Cardinality(FramesIn(fbs, "FREE"))
VpuQueryVpuHoldBufNum(fbs) == Cardinality(Frame \ FramesIn(fbs, "DISP"))

\* Index repairs, first part: a display index out of range, VP8's (-1, -1).
RectifyRange(o) ==
  IF o.dis = "OVER"
    THEN [o EXCEPT !.dec = "NOMEANING", !.dis = "NODIS", !.status = "rollback"]
  ELSE IF codec = "VP8" /\ o.dec = "NOBUF" /\ o.dis = "EOS"
    THEN IF o.status # "bad" THEN [o EXCEPT !.dec = "UNDEC", !.status = "ok"]
                            ELSE [o EXCEPT !.dis = "NODIS", !.status = "ok"]
  ELSE o

\* A VP8 frame that is not to be shown: reported as skipped.
Invisible(o) == codec = "VP8" /\ o.dec \in Frame /\ o.dis = "NODIS"

\* H.264 reporting no free frame although the VPU holds all of them.
FalseNoBuf(o, fbs) ==
  /\ codec = "AVC" /\ o.status # "rollback" /\ o.dec = "NOBUF" /\ o.dis = "NODIS"
  /\ VpuQueryVpuHoldBufNum(fbs) = Cardinality(Frame)

RectifyIndex(o, fbs) ==
  IF Invisible(o) \/ FalseNoBuf(o, fbs) THEN [o EXCEPT !.dec = "UNDEC"] ELSE o

\* A VC1_AP skip picture does not enter the decode state, nor is its size looked at.
Recorded(p) == p.dec \in Frame /\ p.status # "skip"

MarkDecoded_Displayed(p, fbs) == IF Recorded(p) THEN [fbs EXCEPT ![p.dec] = "DEC"] ELSE fbs
MarkDecoded(p, fbs) ==
  IF Recorded(p) /\ fbs[p.dec] = "FREE" THEN [fbs EXCEPT ![p.dec] = "DEC"] ELSE fbs

\* A decoded frame with an end-of-stream display index: the index is wrong.
DisplayIndex(p) == IF p.dec \in Frame /\ p.dis = "EOS" THEN "NODIS" ELSE p.dis

\* Rollback, or a resolution change seen before decoding: nothing is shown.
NothingShown(p, fbs, flag) ==
  [state |-> "DEC", fbs |-> fbs, flag |-> flag,
   pre |-> pPreDisplayFrameBuf, disp |-> pDisplayFrameBuf,
   flags |-> {"NODIS"}, enough |-> p.status # "rollback", resized |-> p.status # "rollback"]

\* A frame shown again: the application has it, or had it last.
Repeated_OnlyLast(fbs, dis) == pPreDisplayFrameBuf = dis
Repeated(fbs, dis) == fbs[dis] = "DISP" \/ pPreDisplayFrameBuf = dis

\* The state an output leaves the instance in.
OutputState_NoMosaic(result) ==
  IF result = "DIS" THEN "OUTOK" ELSE IF result = "EOS" THEN "EOS" ELSE "DEC"
OutputState(result) ==
  IF result \in {"DIS", "MOSAIC_DIS"} THEN "OUTOK"
  ELSE IF result = "EOS" THEN "EOS" ELSE "DEC"

\* The ordinary case.  A frame that was not decoded is refused and, unless the application
\* has it, given back to the VPU; VC1_AP gives it back and shows it all the same.  With
\* `filter' the picture falls to the unclosed GOP filter (mosaic) or to skipping (dropped).
ShowOutput(p, filter, fbs, flag) ==
  LET fbs1     == MarkDecoded(p, fbs)
      dis      == DisplayIndex(p)
      disorder == dis \in Frame /\ fbs1[dis] # "DEC"
      flag1    == IF disorder /\ fbs1[dis] # "DISP" THEN flag \ {dis} ELSE flag
      shown    == dis \in Frame /\ (disorder => codec = "VC1_AP")
      repeated == shown /\ Repeated(fbs1, dis)
      dropped  == \/ disorder /\ ~shown
                  \/ filter /\ p.dec = "UNDEC" /\ dis = "NODIS"
      result   == IF repeated THEN "REPEAT"
                  ELSE IF shown THEN IF filter THEN "MOSAIC_DIS" ELSE "DIS"
                  ELSE IF dis = "EOS" THEN "EOS"
                  ELSE IF dropped THEN "DROPPED" ELSE "NODIS"
  IN [state   |-> OutputState(result),
      fbs     |-> IF shown THEN [fbs1 EXCEPT ![dis] = "DISP"] ELSE fbs1,
      flag    |-> flag1,
      pre     |-> IF shown THEN dis ELSE pPreDisplayFrameBuf,
      disp    |-> IF shown THEN dis ELSE pDisplayFrameBuf,
      flags   |-> {result} \cup (IF p.dec = "NOBUF" THEN {"NO_ENOUGH_BUF"} ELSE {}),
      enough  |-> TRUE,
      resized |-> Recorded(p) /\ p.status = "resized"]

VpuGetOutput(o, filter, fbs, flag) ==
  LET r == RectifyRange(o)
      p == RectifyIndex(r, fbs)
  IN IF p.status = "rollback" \/ p.status = "resch"
       THEN NothingShown(p, fbs, flag)
       ELSE ShowOutput(p, filter \/ Invisible(r), fbs, flag)

-----------------------------------------------------------------------------
(* VPU_DecDecodeBuf. *)

\* Frames whose flag VpuDecClearOperationEOStoDEC clears: those decoded and never shown, and for
\* VC1_AP the free ones as well.
ClearedAtEOS_All == Frame
ClearedAtEOS_None == {}
ClearedAtEOS ==
  FramesIn(frameBufState, "DEC")
    \cup IF codec = "VC1_AP" THEN FramesIn(frameBufState, "FREE") ELSE {}

\* What the wrapper holds when the switch reaches VpuDecBuf: from EOS it gets there by
\* VpuDecClearOperationEOStoDEC, which makes the decoded frames free.
Entries ==
  IF state # "EOS"
    THEN {[state |-> state, fbs |-> frameBufState, flag |-> dispFlag, pend |-> pend, bs |-> bs]}
    ELSE {[state |-> "DEC",
           fbs   |-> [f \in Frame |-> IF frameBufState[f] = "DEC" THEN "FREE"
                                                                 ELSE frameBufState[f]],
           flag  |-> dispFlag \ S, pend |-> {}, bs |-> VpuBitFlush(bs)] :
             S \in FlagsCleared(ClearedAtEOS)}

InBuf(in, used, enough) ==
  IF used = "INPUT_USED" /\ in # Eos /\ ~enough THEN {used, "NO_ENOUGH_INBUF"} ELSE {used}

\* The part of an entry that a call returning without an output leaves behind.
KeepEntry(e, b) ==
  /\ frameBufState' = e.fbs /\ dispFlag' = e.flag /\ pend' = e.pend /\ bs' = b
  /\ UNCHANGED <<codec, pPreDisplayFrameBuf, pDisplayFrameBuf, realWork>>

\* RV: too few frames left to the VPU, nothing is even filled.
DecodeNoFrames(e) ==
  /\ KeepEntry(e, e.bs) /\ state' = e.state
  /\ Decoded("SUCCESS", {"NO_ENOUGH_BUF", "NODIS"})
  /\ UNCHANGED vpuRun

TooFewFrames(e) == codec = "RV" /\ VpuQueryVpuHoldBufNum(e.fbs) + 1 < MinFrames

\* Not enough data collected yet: the call returns without starting the VPU.
NotEnoughDecData_NoMin(in, b) == b.filled < Delay /\ in.size # 0
NotEnoughDecData(in, b) ==
  (b.filled < MinUint /\ ~b.eos) \/ (b.filled < Delay /\ in.size # 0)

DecodeCollect(in, e, b, used) ==
  /\ e.state = "DEC" /\ NotEnoughDecData(in, b)
  /\ KeepEntry(e, b) /\ state' = e.state
  /\ Decoded("SUCCESS", {used})
  /\ UNCHANGED vpuRun

\* vpu_DecStartOneFrame is refused, as it is while an earlier frame is not finished.
DecodeStartFails(e, b, used) ==
  /\ e.state = "DEC" /\ (CallsFail \/ vpuRun # "idle")
  /\ KeepEntry(e, b) /\ state' = e.state
  /\ Decoded("FAILURE", {used})
  /\ UNCHANGED vpuRun

\* The VPU does not answer: the instance is given up.
DecodeTimeout(e, b, run, used) ==
  /\ run # "busy" \/ ~Sane \/ ~Answers(b)
  /\ KeepEntry(e, b) /\ state' = "CORRUPT" /\ vpuRun' = run
  /\ Decoded("FAILURE_TIMEOUT", {used})

\* vpu_DecGetOutputInfo fails: the state stays STARTFRAMEOK.
DecodeOutputFails(e, b, run, used) ==
  /\ CallsFail /\ run = "busy"
  /\ KeepEntry(e, b) /\ state' = "STARTFRAMEOK" /\ vpuRun' = "done"
  /\ Decoded("FAILURE", {used})

\* An output is got and no resolution change follows, or it is ignored for want of memory.
DecodeOutput(in, b, used, g, p, n) ==
  /\ ~g.resized \/ g.state = "EOS" \/ CallsFail
  /\ state' = g.state /\ frameBufState' = g.fbs
  /\ pPreDisplayFrameBuf' = g.pre /\ pDisplayFrameBuf' = g.disp
  /\ dispFlag' = g.flag /\ pend' = p
  /\ bs' = [b EXCEPT !.filled = n]
  /\ Decoded(IF used = "INPUT_NOT_USED" /\ ~g.enough THEN "FAILURE" ELSE "SUCCESS",
             g.flags \cup InBuf(in, used, g.enough))
  /\ realWork' = TRUE /\ vpuRun' = "idle" /\ UNCHANGED codec

\* VpuResolutionChangeResetGlobalVariables, and the VPU closed and opened again.
ResetFrames_KeepLast ==
  /\ frameBufState' = [f \in Frame |-> "FREE"]
  /\ realWork' = FALSE
  /\ dispFlag' = {} /\ pend' = {} /\ vpuRun' = "idle"
  /\ UNCHANGED pPreDisplayFrameBuf
ResetFrames ==
  /\ frameBufState' = [f \in Frame |-> "FREE"]
  /\ pPreDisplayFrameBuf' = NoFrame
  /\ realWork' = FALSE
  /\ dispFlag' = {} /\ pend' = {} /\ vpuRun' = "idle"

\* VpuResolutionChangeProcess: the k units in the ring since the end of the last recorded
\* frame start the new sequence, if they reach VPU_MIN_INIT_SIZE and the VPU takes them.
DecodeResolutionChange(used, g, k) ==
  /\ g.resized /\ g.state # "EOS"
  /\ ResetFrames
  /\ bs' = [filled |-> k, eos |-> FALSE, end |-> FALSE]
  /\ pDisplayFrameBuf' = g.disp /\ UNCHANGED codec
  /\ \/ /\ k >= MinUint
        /\ state' = "INITOK"
        /\ Decoded("SUCCESS", {used, "RESOLUTION_CHANGED"})
     \/ /\ k < MinUint \/ CallsFail
        /\ state' = "CORRUPT"
        /\ Decoded("FAILURE_TIMEOUT", {used} \cup g.flags)

\* vpu_DecOpen fails in VpuResolutionChangeProcess: the wrapper keeps a closed handle.
DecodeReopenFails(b, used, g) ==
  /\ g.resized /\ g.state # "EOS" /\ CallsFail
  /\ state' = "CORRUPT"
  /\ frameBufState' = g.fbs /\ pPreDisplayFrameBuf' = g.pre /\ pDisplayFrameBuf' = g.disp
  /\ dispFlag' = {} /\ pend' = {} /\ vpuRun' = "idle" /\ bs' = b
  /\ realWork' = TRUE /\ UNCHANGED codec
  /\ Decoded("FAILURE_TIMEOUT", {used} \cup g.flags)

\* What output o of the firmware makes of entry e with bitstream b: VpuGetOutput's result got,
\* the frames still pending, the units left in the ring and those that may be copied out of it
\* on a resolution change.
OutputResult(e, b, o, filter) ==
  [got       |-> VpuGetOutput(o, filter, e.fbs, e.flag \cup Flagged(o)),
   pend      |-> StillPending(o, e.pend),
   remaining |-> Remaining(o, b),
   backup    |-> UNION {n..b.filled : n \in Remaining(o, b)}]

OutputResults(e, b) ==
  UNION {{OutputResult(e, b, o, filter) : filter \in BOOLEAN} :
           o \in FirmwareOutputs(e.flag, e.pend, b)}

VpuDecBuf(in, e) ==
  LET enough == VpuBitsBufIsEnough(e.bs, in)
      b      == IF enough THEN VpuFillData(e.bs, in) ELSE e.bs
      used   == IF enough THEN "INPUT_USED" ELSE "INPUT_NOT_USED"
      run    == IF e.state = "DEC" THEN "busy" ELSE vpuRun
      ready  == e.state = "DEC" => vpuRun = "idle" /\ ~NotEnoughDecData(in, b)
  IN \/ DecodeCollect(in, e, b, used)
     \/ ~NotEnoughDecData(in, b) /\ DecodeStartFails(e, b, used)
     \/ ready /\ DecodeTimeout(e, b, run, used)
     \/ ready /\ DecodeOutputFails(e, b, run, used)
     \/ /\ ready /\ run = "busy" /\ (Sane => Answers(b))
        /\ \E r \in OutputResults(e, b) :
             \/ \E n \in r.remaining : DecodeOutput(in, b, used, r.got, r.pend, n)
             \/ \E k \in r.backup : DecodeResolutionChange(used, r.got, k)
             \/ DecodeReopenFails(b, used, r.got)

\* VpuSeqInit, in state OPEN.
SeqInit(in) ==
  LET b     == VpuFillData(bs, in)
      again == InBuf(in, "INPUT_USED", FALSE)
  IN /\ UNCHANGED <<codec, frameBufState, pPreDisplayFrameBuf, pDisplayFrameBuf, realWork,
                    vpuRun, dispFlag, pend>>
     /\ \/ /\ codec = "VC1_AP" /\ in.size > 0      \* a node too short to build the header from
           /\ Decoded("SUCCESS", {"INPUT_NOT_USED"})
           /\ UNCHANGED <<state, bs>>
        \/ /\ ~VpuBitsBufIsEnough(bs, in)
           /\ Decoded("FAILURE", {"INPUT_NOT_USED"})
           /\ UNCHANGED <<state, bs>>
        \/ /\ VpuBitsBufIsEnough(bs, in)
           /\ bs' = b
           /\ \/ \* less than VPU_MIN_INIT_SIZE, no sequence header found, or not supported
                 /\ \E code \in {"SUCCESS", "FAILURE"} :
                      /\ b.filled < MinUint => code = "SUCCESS"
                      /\ Decoded(code, again)
                 /\ UNCHANGED state
              \/ /\ b.filled >= MinUint
                 /\ state' = "INITOK"
                 /\ Decoded("SUCCESS", {"INIT_OK", "INPUT_USED"})

VPU_DecDecodeBuf(in) ==
  /\ Asked("feed")
  /\ \/ state = "OPEN" /\ SeqInit(in)
     \/ state \in {"INITOK", "REGFRMOK", "OUTOK"} /\ WrongCall
     \/ /\ state = "CORRUPT"
        /\ Decoded("SUCCESS", {"INPUT_NOT_USED"})
        /\ UNCHANGED <<wrapVars, vpuVars>>
     \/ /\ state = "EOS" /\ in = Null
        /\ Decoded("SUCCESS", {"INPUT_USED", "NO_ENOUGH_INBUF"})
        /\ UNCHANGED <<wrapVars, vpuVars>>
     \/ /\ state = "EOS" /\ in # Null /\ CallsFail     \* the bit flush failed
        /\ \E e \in Entries : KeepEntry(e, bs)
        /\ Decoded("FAILURE", {})
        /\ UNCHANGED <<state, vpuRun>>
     \/ /\ state \in {"DEC", "STARTFRAMEOK"} \/ (state = "EOS" /\ in # Null)
        /\ \E e \in Entries : IF TooFewFrames(e) THEN DecodeNoFrames(e) ELSE VpuDecBuf(in, e)

-----------------------------------------------------------------------------
(* The other calls. *)

VPU_DecGetInitialInfo ==
  /\ Asked("getinfo")
  /\ \/ state # "INITOK" /\ WrongCall
     \/ /\ state = "INITOK" /\ state' = "REGFRMOK"
        /\ ret' = [code |-> "SUCCESS", flags |-> {}] /\ duty' = "register"
        /\ UNCHANGED <<codec, frameBufState, pPreDisplayFrameBuf, pDisplayFrameBuf, realWork,
                       vpuVars, held>>

\* The application releases every frame before it registers new ones.
VPU_DecRegisterFrameBuffer ==
  /\ Asked("register") /\ held = {}
  /\ \/ state # "REGFRMOK" /\ WrongCall
     \/ /\ state = "REGFRMOK" /\ CallsFail
        /\ Returns("FAILURE") /\ UNCHANGED <<wrapVars, vpuVars, held>>
     \/ /\ state = "REGFRMOK" /\ state' = "DEC"
        /\ ret' = [code |-> "SUCCESS", flags |-> {}] /\ duty' = "feed"
        /\ UNCHANGED <<codec, frameBufState, pPreDisplayFrameBuf, pDisplayFrameBuf, realWork,
                       vpuVars, held>>

VPU_DecGetOutputFrame ==
  /\ Asked("fetch")
  /\ \/ state # "OUTOK" /\ WrongCall
     \/ /\ state = "OUTOK" /\ state' = "DEC"
        /\ held' = held \cup {pDisplayFrameBuf}
        /\ ret' = [code |-> "SUCCESS", flags |-> {}] /\ duty' = "feed"
        /\ UNCHANGED <<codec, frameBufState, pPreDisplayFrameBuf, pDisplayFrameBuf, realWork,
                       vpuVars>>

\* A released frame is no longer the one displayed last.
ForgetLast_Never(f) == pPreDisplayFrameBuf
ForgetLast(f) == IF pPreDisplayFrameBuf = f THEN NoFrame ELSE pPreDisplayFrameBuf

\* The application gives back a frame it holds.  A frame already free needs no library call.
VPU_DecOutFrameDisplayed(f) ==
  /\ f \in held /\ held' = held \ {f}
  /\ UNCHANGED <<state, codec, pDisplayFrameBuf, realWork, bs, vpuRun, pend>>
  /\ \/ /\ state = "CORRUPT" \/ frameBufState[f] = "FREE"
        /\ Returns("SUCCESS")
        /\ UNCHANGED <<frameBufState, dispFlag, pPreDisplayFrameBuf>>
     \/ /\ state # "CORRUPT" /\ frameBufState[f] # "FREE"
        /\ frameBufState' = [frameBufState EXCEPT ![f] = "FREE"]
        /\ \/ /\ Returns("SUCCESS")
              /\ dispFlag' = dispFlag \ {f}
              /\ pPreDisplayFrameBuf' = ForgetLast(f)
           \/ /\ CallsFail /\ Returns("FAILURE")
              /\ UNCHANGED <<dispFlag, pPreDisplayFrameBuf>>

\* VPU_DecFlushAll ends in FLUSH_FINISH: state EOS, frames as they are.
FlushFinish(fbs, flag, b) ==
  /\ state' = "EOS" /\ frameBufState' = fbs /\ dispFlag' = flag /\ pend' = {}
  /\ bs' = VpuBitFlush(b) /\ vpuRun' = "idle"
  /\ Returns("SUCCESS")

FlushFails(code, fbs, flag, p, b, run) ==
  /\ UNCHANGED state /\ frameBufState' = fbs /\ dispFlag' = flag /\ pend' = p
  /\ bs' = b /\ vpuRun' = run
  /\ Returns(code)

\* Before the first output the VPU is made to run once, so that it reads the parameter sets,
\* and what it shows or decodes is thrown away.
FlushOutput(o, b) ==
  LET flag  == dispFlag \cup Flagged(o)
      gone  == IF o.status = "rollback" THEN {} ELSE {o.dis} \cap Frame
      dec   == IF o.status = "rollback" THEN {} ELSE {o.dec} \cap Frame
      fbs   == [f \in Frame |-> IF f \in gone THEN "FREE" ELSE frameBufState[f]]
      p     == StillPending(o, pend)
  IN \/ /\ gone # {} /\ CallsFail
        /\ FlushFails("FAILURE", frameBufState, flag, p, b, "idle")
     \/ \E S \in FlagsCleared(dec) :
          \/ FlushFinish(fbs, flag \ (gone \cup S), b)
          \/ CallsFail /\ FlushFails("FAILURE", fbs, flag \ (gone \cup S), p, b, "idle")

\* Before driving it, VC1_AP is filled with a start code; any fill clears filledEOS.
StartCodeFilled == IF codec = "VC1_AP" /\ ~realWork THEN [bs EXCEPT !.eos = FALSE] ELSE bs

FlushDrive ==
  \E run \in (IF state = "STARTFRAMEOK" \/ vpuRun # "idle" THEN {vpuRun}
              ELSE {"busy"} \cup IF CallsFail THEN {"idle"} ELSE {}) :
    LET filled == StartCodeFilled
        ended  == [filled EXCEPT !.end = TRUE]
    IN \/ /\ run # "busy" \/ ~Sane
          /\ FlushFails("FAILURE_TIMEOUT", frameBufState, dispFlag, pend, ended, run)
       \/ /\ run = "busy" /\ CallsFail
          /\ FlushFails("FAILURE", frameBufState, dispFlag, pend, filled, "done")
       \/ /\ run = "busy"
          /\ \E b \in (IF ~Sane THEN {filled, ended} ELSE IF Answers(filled) THEN {filled} ELSE {ended}) :
               \E o \in FirmwareOutputs(dispFlag, pend, b) :
                 o.dis # "OVER" /\ FlushOutput(o, b)

VPU_DecFlushAll ==
  /\ Asked("feed")
  /\ UNCHANGED <<codec, pPreDisplayFrameBuf, pDisplayFrameBuf, realWork, held>>
  /\ \/ /\ state \in {"OPEN", "INITOK", "REGFRMOK"}
        /\ bs' = VpuBitFlush(bs) /\ Returns("SUCCESS")
        /\ UNCHANGED <<state, frameBufState, vpuRun, dispFlag, pend>>
     \/ /\ state = "CORRUPT" /\ Returns("SUCCESS")
        /\ UNCHANGED <<state, frameBufState, vpuVars>>
     \/ /\ \/ state = "OUTOK"
           \/ CallsFail /\ state \in {"OPEN", "INITOK", "REGFRMOK"}
           \/ CallsFail /\ state \in {"DEC", "EOS"} /\ realWork
        /\ Returns("FAILURE")
        /\ UNCHANGED <<state, frameBufState, vpuVars>>
     \/ /\ state \in {"DEC", "EOS"} /\ realWork
        /\ FlushFinish(frameBufState, dispFlag, bs)
     \/ /\ state = "STARTFRAMEOK" \/ (state \in {"DEC", "EOS"} /\ ~realWork)
        /\ FlushDrive

\* VPU_DecReset if need be, VPU_DecClose, VPU_DecOpen: the frames' memory is freed in between.
Reopen ==
  /\ state' = "OPEN" /\ codec' \in Codecs
  /\ pDisplayFrameBuf' = NoFrame
  /\ ResetFrames
  /\ bs' = [filled |-> 0, eos |-> FALSE, end |-> FALSE]
  /\ held' = {} /\ duty' = "feed" /\ ret' = [code |-> "SUCCESS", flags |-> {}]

Init ==
  /\ state = "OPEN" /\ codec \in Codecs
  /\ frameBufState = [f \in Frame |-> "FREE"]
  /\ pPreDisplayFrameBuf = NoFrame /\ pDisplayFrameBuf = NoFrame
  /\ realWork = FALSE
  /\ bs = [filled |-> 0, eos |-> FALSE, end |-> FALSE]
  /\ vpuRun = "idle" /\ dispFlag = {} /\ pend = {}
  /\ held = {} /\ duty = "feed" /\ ret = [code |-> "SUCCESS", flags |-> {}]

Next ==
  \/ \E in \in Inputs : VPU_DecDecodeBuf(in)
  \/ VPU_DecGetInitialInfo
  \/ VPU_DecRegisterFrameBuffer
  \/ VPU_DecGetOutputFrame
  \/ \E f \in Frame : VPU_DecOutFrameDisplayed(f)
  \/ VPU_DecFlushAll
  \/ Reopen

Spec == Init /\ [][Next]_vars

-----------------------------------------------------------------------------
(* Properties. *)

\* The frame offered to the application and not yet fetched.
Ready == IF state = "OUTOK" THEN {pDisplayFrameBuf} ELSE {}

\* "wrapper should not clear buffer itself, user should be responsible to clear it
\* !!!otherwise, vpu may overwrite one output frame which still is hold by user"
\* (vpu_wrapper.c:3563).  A VC1_AP skip picture breaks it: VpuGetOutput clears the frame's flag
\* and then offers the frame all the same (run dec_vc1ap_skip).
NeverClearedByWrapper ==
  state \in Live => held \cup Ready \subseteq dispFlag

\* Every frame the application holds, or is about to fetch, has its display flag set in the
\* VPU: whatever the firmware reports and whatever calls fail, no clear, flush or drain gives
\* the VPU a frame that is still on screen.  For every format but VC1_AP.
HeldProtected == codec # "VC1_AP" => NeverClearedByWrapper

\* A frame is never offered while the application still holds it, whatever the firmware
\* reports: such an output becomes REPEAT or DROPPED.
NotOfferedTwice == held \cap Ready = {}

\* The DISP state and the application agree: a frame is in state DISP exactly while it is
\* offered or held, so no frame is lost to both sides (REPEAT, resolution change, flush).
DisplayedMeansOwned ==
  state \in Live /\ ~CallsFail => FramesIn(frameBufState, "DISP") = held \cup Ready

\* With a firmware that keeps its own buffers in order, the wrapper's FREE frames are exactly
\* those the VPU can decode into: no flush, drain or resolution change leaks a frame.
FreeMeansUsable ==
  state \in Live /\ Sane /\ ~CallsFail /\ codec # "VC1_AP"
    => FramesIn(frameBufState, "FREE") = Frame \ dispFlag

\* The VPU is never started with too little data and no end-of-stream mark ("avoid wait
\* timeout", vpu_wrapper.c:4065), and never left running when a call returns.
NeverLeftRunning == Sane /\ FlushKeepsEnd => vpuRun # "busy"

\* An application that follows the return codes is never told WRONG_CALL_SEQUENCE: the flags
\* of every path of VPU_DecDecodeBuf agree with the state it leaves.
CodesMatchState == Obedient => ret.code # "WRONG_CALL_SEQUENCE"

\* Told that there is no frame buffer and no output, the application holds a frame it can
\* release: it is not asked to wait for itself.  (H.264, and the wrapper's own RV check.)
NoBufMeansUserHolds ==
  ( /\ ~CallsFail /\ MinFrames <= Cardinality(Frame)
    /\ {"NODIS", "NO_ENOUGH_BUF"} \subseteq ret.flags
    /\ codec = "AVC" \/ ret.flags \cap {"INPUT_USED", "INPUT_NOT_USED"} = {} )
  => held # {}

\* A REPEAT output swallows only a frame the application already holds.
RepeatMeansHeld == ~CallsFail /\ "REPEAT" \in ret.flags => pDisplayFrameBuf \in held

\* Until frames are registered the wrapper has no frame to give back: a handle released late,
\* after a resolution change, reaches no frame of the new sequence.
NothingToRelease ==
  state \in {"OPEN", "INITOK", "REGFRMOK"} =>
    /\ FramesIn(frameBufState, "FREE") = Frame
    /\ dispFlag = {} /\ pPreDisplayFrameBuf = NoFrame

-----------------------------------------------------------------------------
(* The decoder implements FrameOwnership. *)

Owner ==
  [f \in Frame |-> IF f \in held THEN "user" ELSE IF f \in Ready THEN "ready" ELSE "vpu"]

\* While no frames are registered, or the instance is given up, the VPU decodes nothing.
Writable == IF state \in Live THEN Frame \ dispFlag ELSE {}

Ownership == INSTANCE FrameOwnership WITH owner <- Owner, writable <- Writable

\* Every call, for every answer of the firmware and every failure, moves the frames as
\* FrameOwnership allows: no frame skips the output slot, is taken back from the application,
\* or becomes writable before VPU_DecOutFrameDisplayed.  (Formats other than VC1_AP.)
ImplementsOwnership == Ownership!Spec

=============================================================================
