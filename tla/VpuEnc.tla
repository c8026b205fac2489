------------------------------- MODULE VpuEnc -------------------------------
(* The encoders behind one API, driven by the loop of encode_stream.c or by   *)
(* another application: vpu_wrapper.c (i.MX6), vpu_wrapper_hantro_encoder.c   *)
(* (H1) and vpu_wrapper_hantro_VCencoder.c (VC8000E).  They differ in when    *)
(* they put the sequence header (VOS/VOL, SPS/PPS) into the stream and in who *)
(* is asked for an intra picture.  A stream is the log of what the calls      *)
(* answered, with the sizes and the bytes left out.                           *)
EXTENDS Integers, Sequences, Measure

CONSTANTS
  Backends,   \* wrappers an application may be linked with: "imx6", "h1", "vc8000e"
  Codecs,     \* formats it may ask for
  GopSizes,   \* values of nGOPSize
  Apps,       \* "encode_stream", or "any": forces intra pictures at will, retries and reconfigures
  Pictures,   \* pictures in the input file
  MaxNum,     \* nMaxNum: pictures to encode
  MaxRepeat,  \* nRepeatNum: times the file is encoded again
  CallsFail   \* calls to the VPU library or the codec may fail or time out

ASSUME BoundAssumption == {Pictures, MaxNum, MaxRepeat} \subseteq Nat /\ GopSizes \subseteq Nat

ASSUME ChoiceAssumption ==
  /\ Backends \subseteq {"imx6", "h1", "vc8000e"}
  /\ Codecs \subseteq {"MPEG4", "H263", "AVC", "MJPG"}
  /\ Apps \subseteq {"encode_stream", "any"} /\ CallsFail \in BOOLEAN

VARIABLES
  opt,     \* the wrapper, the format, nGOPSize and the application
  enc,     \* the fields of VpuEncObj that decide what a call does
  vpu,     \* none (no frame buffers), ready, or busy (a picture was started and not awaited)
  stage,   \* where the application is
  nNeedInput,        \* the last picture was used: read another
  pos,               \* pictures read from the file in this pass
  picture,           \* number of the picture in the input buffer, over all passes
  nEncodedFrameNum,  \* pictures the application believes are in the stream
  repeatNum,         \* passes left
  asked,             \* it has configured VPU_ENC_CONF_ENA_SPSPPS_IDR
  log                \* what the successful calls answered

obj == <<enc, vpu>>
client == <<stage, nNeedInput, pos, picture, nEncodedFrameNum, repeatNum>>
vars == <<opt, obj, client, asked, log>>

-----------------------------------------------------------------------------
(* Opening. *)

Imx6Formats == {"MPEG4", "H263", "AVC", "MJPG"}
H1Formats == {"AVC"}
VcFormats == {"AVC"}

Supports(be) ==
  CASE be = "imx6" -> Imx6Formats [] be = "h1" -> H1Formats [] OTHER -> VcFormats

Options ==
  {o \in [be : Backends, fmt : Codecs, gop : GopSizes, app : Apps] : o.fmt \in Supports(o.be)}

Opened ==
  [nHeaderNeeded |-> TRUE, nJustOutputOneHeader |-> FALSE, nOutputHeaderCnt |-> 0,
   nInsertSPSPPSToIDR |-> FALSE, bStreamStarted |-> FALSE, nTotalFrames |-> 0]

\* Mutant: B pictures switched on.
GopSize_BPictures == 2

\* B pictures would need a picture to wait for a later one; both Hantro encoders are opened
\* without.
GopSize == 1

Imx6 == opt.be = "imx6"

-----------------------------------------------------------------------------
(* One call of VPU_EncEncodeFrame. *)

\* What a call that succeeds puts into the stream: a header or not, and the picture coded, if any.
Entry(used, hdr, kind, dis) ==
  [pic |-> picture, used |-> used, hdr |-> hdr, kind |-> kind, dis |-> dis]

Nothing == Entry(FALSE, FALSE, "none", FALSE)
HeaderOnly == Entry(FALSE, TRUE, "none", FALSE)
Coded(hdr, force) == Entry(TRUE, hdr, IF force THEN "I" ELSE "P", TRUE)
\* Mutant: a skipped picture is not taken.
Skipped_Kept == Nothing

Skipped == Entry(TRUE, FALSE, "none", FALSE)
Enqueued == Entry(TRUE, FALSE, "none", TRUE)

Answer(ret, e, v, entry) == [ret |-> ret, enc |-> e, vpu |-> v, entry |-> entry]

\* Mutants: a header only once; one again after a header was given out; none then, though asked.
FillsHeader_First(force) ==
  /\ enc.nHeaderNeeded \/ (opt.fmt = "AVC" /\ force /\ enc.nInsertSPSPPSToIDR)
  /\ ~enc.nJustOutputOneHeader \/ enc.nInsertSPSPPSToIDR

FillsHeader_Again(force) == enc.nHeaderNeeded \/ (opt.fmt = "AVC" /\ force)

FillsHeader_NeverTwice(force) ==
  (enc.nHeaderNeeded \/ (opt.fmt = "AVC" /\ force)) /\ ~enc.nJustOutputOneHeader

\* i.MX6: when the header is written in front of the output buffer.
FillsHeader(force) ==
  /\ enc.nHeaderNeeded \/ (opt.fmt = "AVC" /\ force)
  /\ ~enc.nJustOutputOneHeader \/ enc.nInsertSPSPPSToIDR

HasHeader == opt.fmt \in {"MPEG4", "AVC", "MJPG"}

Filled(force) ==
  IF FillsHeader(force) THEN [enc EXCEPT !.nHeaderNeeded = (opt.fmt = "MJPG")] ELSE enc

\* Mutant: every header is given out alone.
HeaderAlone_Every(force) == FillsHeader(force) /\ HasHeader /\ opt.fmt # "MJPG"

\* i.MX6: the first header is given out alone and the picture has to be offered again.
HeaderAlone(force) ==
  /\ FillsHeader(force) /\ HasHeader
  /\ enc.nOutputHeaderCnt = 0 /\ opt.fmt # "MJPG"

GivenOut(e) == [e EXCEPT !.nJustOutputOneHeader = TRUE, !.nOutputHeaderCnt = @ + 1]

\* vpu_EncStartOneFrame, the wait for the interrupt, vpu_EncGetOutputInfo.
Imx6Coding(force) ==
  LET e == Filled(force)
      done == [e EXCEPT !.nJustOutputOneHeader = FALSE]
      hdr == FillsHeader(force) /\ HasHeader
      failures ==
        {Answer("FAILURE", e, vpu, Nothing)} \cup
        (IF vpu = "ready" THEN {Answer("TIMEOUT", e, "busy", Nothing)} ELSE {})
      successes ==
        {Answer("SUCCESS", done, vpu, Coded(hdr, force)), Answer("SUCCESS", done, vpu, Skipped)}
  IN (IF vpu = "ready" THEN successes ELSE {}) \cup
     (IF CallsFail \/ vpu # "ready" THEN failures ELSE {})

Imx6Answers(force) ==
  IF HeaderAlone(force)
  THEN {Answer("SUCCESS", GivenOut(Filled(force)), vpu, HeaderOnly)}
  ELSE Imx6Coding(force)

\* H1 and VC8000E: the first call starts the stream and answers with its header.
Start ==
  {Answer("SUCCESS", [enc EXCEPT !.bStreamStarted = TRUE], vpu, HeaderOnly)} \cup
  (IF CallsFail THEN {Answer("FAILURE", enc, vpu, Nothing)} ELSE {})

\* A codec that has written more than the output buffer holds says so (BUFFER_OVERFLOW).
Failures ==
  IF CallsFail THEN {Answer(r, enc, vpu, Nothing) : r \in {"FAILURE", "TIMEOUT"}} ELSE {}

\* H1: the codec puts the header before every IDR picture (prependSPSPPSToIDRFrames).
H1Answers(force) ==
  IF ~enc.bStreamStarted THEN Start
  ELSE {Answer("SUCCESS", enc, vpu, Coded(force, force))} \cup Failures

\* VC8000E: the wrapper asks the codec for the header again (resendSPS, resendPPS).
Resend(force) == force /\ enc.nTotalFrames # 0

Counted == [enc EXCEPT !.nTotalFrames = @ + 1]

VcAnswers(force) ==
  IF ~enc.bStreamStarted THEN Start
  ELSE {Answer("SUCCESS", Counted, vpu, Coded(Resend(force), force))}
       \cup (IF GopSize > 1 THEN {Answer("SUCCESS", enc, vpu, Enqueued)} ELSE {}) \cup Failures

Answers(force) ==
  CASE opt.be = "imx6" -> Imx6Answers(force)
    [] opt.be = "h1" -> H1Answers(force)
    [] OTHER -> VcAnswers(force)

-----------------------------------------------------------------------------
(* The calls, and the application between them. *)

\* encode_stream forces one intra picture for the whole clip, or one per nGOPSize of H.264.
ForcesIntra ==
  IF opt.gop = 0 THEN nEncodedFrameNum = 0
  ELSE nEncodedFrameNum % opt.gop = 0 /\ opt.fmt = "AVC"

Forced == IF opt.app = "any" THEN BOOLEAN ELSE {ForcesIntra}

\* Mutant: encode_stream offers the picture again after a failure, with no reset.
StageAfter_Retry(ret) == stage

\* A failing call ends encode_stream; another application may try again.
StageAfter(ret) ==
  IF ret = "SUCCESS" \/ opt.app = "any" THEN stage ELSE "failed"

Logged(entry) == IF entry = Nothing THEN log ELSE Append(log, entry)

\* One call, and what the application makes of its answer: the picture is offered again until it
\* is used, and counted when there is output.
VPU_EncEncodeFrame ==
  /\ stage = "loop" /\ ~nNeedInput /\ nEncodedFrameNum < MaxNum
  /\ \E force \in Forced : \E a \in Answers(force) :
       /\ enc' = a.enc /\ vpu' = a.vpu
       /\ stage' = StageAfter(a.ret)
       /\ nNeedInput' = a.entry.used
       /\ nEncodedFrameNum' = nEncodedFrameNum + IF a.entry.dis THEN 1 ELSE 0
       /\ log' = Logged(a.entry)
  /\ UNCHANGED <<opt, pos, picture, repeatNum, asked>>

ReadOneYUVFrame ==
  /\ stage = "loop" /\ nNeedInput /\ nEncodedFrameNum < MaxNum /\ pos < Pictures
  /\ pos' = pos + 1 /\ picture' = picture + 1 /\ nNeedInput' = FALSE
  /\ UNCHANGED <<opt, obj, stage, nEncodedFrameNum, repeatNum, asked, log>>

\* The end of the file, or pictures enough: the file is encoded again, or the loop is left.
EndPass ==
  /\ stage = "loop"
  /\ nEncodedFrameNum >= MaxNum \/ (nNeedInput /\ pos = Pictures)
  /\ IF repeatNum > 0
     THEN repeatNum' = repeatNum - 1 /\ pos' = 0 /\ nNeedInput' = TRUE /\ stage' = stage
     ELSE stage' = "exit" /\ UNCHANGED <<repeatNum, pos, nNeedInput>>
  /\ UNCHANGED <<opt, obj, picture, nEncodedFrameNum, asked, log>>

VPU_EncGetInitialInfo ==
  /\ stage = "opened"
  /\ \/ stage' = "info"
     \/ CallsFail /\ Imx6 /\ stage' = "exit"
  /\ UNCHANGED <<opt, obj, nNeedInput, pos, picture, nEncodedFrameNum, repeatNum, asked, log>>

\* The application gives the frame buffers asked for; it has to do so again after a reset.
VPU_EncRegisterFrameBuffer ==
  /\ stage = "info" \/ (stage = "loop" /\ opt.app = "any" /\ vpu = "none")
  /\ \/ vpu' = "ready" /\ stage' = "loop"
     \/ CallsFail /\ Imx6 /\ vpu' = vpu /\ stage' = IF stage = "info" THEN "exit" ELSE stage
  /\ UNCHANGED <<opt, enc, nNeedInput, pos, picture, nEncodedFrameNum, repeatNum, asked, log>>

\* VPU_ENC_CONF_ENA_SPSPPS_IDR: the sequence header in front of every IDR picture.  H1 has it
\* so from the start, VC8000E does nothing about it.
VPU_EncConfig ==
  /\ opt.app = "any" /\ stage \in {"opened", "info", "loop"}
  /\ asked' = TRUE
  /\ enc' = IF Imx6 THEN [enc EXCEPT !.nInsertSPSPPSToIDR = TRUE] ELSE enc
  /\ UNCHANGED <<opt, vpu, client, log>>

\* vpu_SWReset stops the picture in progress; the frame buffers have to be registered again.  The
\* Hantro encoders have nothing to reset.
VPU_EncReset ==
  /\ stage = "failed" \/ (stage = "loop" /\ opt.app = "any")
  /\ stage' = IF stage = "failed" THEN "exit" ELSE stage
  /\ \/ vpu' = IF Imx6 THEN "none" ELSE vpu
     \/ CallsFail /\ Imx6 /\ vpu' = vpu
  /\ UNCHANGED <<opt, enc, nNeedInput, pos, picture, nEncodedFrameNum, repeatNum, asked, log>>

VPU_EncClose ==
  /\ stage = "exit" \/ (opt.app = "any" /\ stage \in {"opened", "info", "loop"})
  /\ stage' = "closed"
  /\ vpu' = "none"
  /\ UNCHANGED <<opt, enc, nNeedInput, pos, picture, nEncodedFrameNum, repeatNum, asked, log>>

-----------------------------------------------------------------------------
Init ==
  /\ opt \in Options
  /\ enc = Opened /\ vpu = IF opt.be = "imx6" THEN "none" ELSE "ready"
  /\ stage = "opened" /\ nNeedInput = TRUE /\ pos = 0 /\ picture = 0
  /\ nEncodedFrameNum = 0 /\ repeatNum \in 0..MaxRepeat
  /\ asked = FALSE /\ log = <<>>

Next ==
  \/ VPU_EncGetInitialInfo
  \/ VPU_EncRegisterFrameBuffer
  \/ VPU_EncConfig
  \/ ReadOneYUVFrame
  \/ VPU_EncEncodeFrame
  \/ EndPass
  \/ VPU_EncReset
  \/ VPU_EncClose

Spec == Init /\ [][Next]_vars

\* encode_stream is one loop: it makes its next call as long as it has one to make, and each call
\* returns, if only after VpuEncWaitBusy has timed out.
Fairness == WF_vars(opt.app = "encode_stream" /\ Next)

FairSpec == Spec /\ Fairness

-----------------------------------------------------------------------------
(* Properties. *)

Entries ==
  [pic : 0..Pictures * (MaxRepeat + 1), used : BOOLEAN, hdr : BOOLEAN,
   kind : {"none", "I", "P"}, dis : BOOLEAN]

Objects ==
  [nHeaderNeeded : BOOLEAN, nJustOutputOneHeader : BOOLEAN, nOutputHeaderCnt : 0..1,
   nInsertSPSPPSToIDR : BOOLEAN, bStreamStarted : BOOLEAN, nTotalFrames : Nat]

\* Every variable keeps its type; the header is never given out alone a second time
\* (nOutputHeaderCnt), and the application never counts more pictures than it read.
TypeOK ==
  /\ opt \in Options /\ enc \in Objects /\ vpu \in {"none", "ready", "busy"}
  /\ stage \in {"opened", "info", "loop", "failed", "exit", "closed"}
  /\ nNeedInput \in BOOLEAN /\ pos \in 0..Pictures /\ repeatNum \in 0..MaxRepeat
  /\ picture \in 0..Pictures * (MaxRepeat + 1) /\ nEncodedFrameNum \in 0..MaxNum
  /\ asked \in BOOLEAN /\ log \in Seq(Entries)

\* The entry is a header and no picture.
Alone(e) == e.hdr /\ e.kind = "none"

\* The picture of entry i can be decoded from what stands before it: there was a header, and it
\* stands right at the picture for a forced H.264 intra picture and for every JPEG picture.
Headed(i) ==
  /\ opt.fmt # "H263" => \E j \in 1..i : log[j].hdr
  /\ opt.fmt = "AVC" /\ log[i].kind = "I" => log[i].hdr \/ (i > 1 /\ Alone(log[i - 1]))
  /\ opt.fmt = "MJPG" => log[i].hdr

\* Whatever is forced, skipped, failing or tried again, no picture is put into the stream without
\* the header it needs ("For H.264, we will insert sps/pps before every IDR frame",
\* vpu_wrapper.c:8140).
StreamDecodable == \A i \in 1..Len(log) : log[i].kind # "none" => Headed(i)

\* A header given out alone is not repeated in front of the very picture it was given out for,
\* unless the application asked for that (nInsertSPSPPSToIDR).  The H1 codec always repeats it.
HeaderOnce ==
  opt.be # "h1" /\ ~enc.nInsertSPSPPSToIDR =>
    \A i \in 2..Len(log) : Alone(log[i - 1]) => ~log[i].hdr

\* The next picture is a forced H.264 intra picture of an application that asked for headers.
MarkedIdr(i) == asked /\ opt.fmt = "AVC" /\ log'[i].kind = "I"

\* Once the application asked for it, every forced intra picture carries its own header,
\* "including the first IDR" (vpu_wrapper.h:731), whatever was given out alone before.
HeaderInEveryIdr ==
  [][opt.be # "vc8000e" => \A i \in DOMAIN log' \ DOMAIN log : MarkedIdr(i) => log'[i].hdr]_vars

\* The same of every wrapper behind the API, as vpu_wrapper.h:731 promises it.
AskedHeaderInEveryIdr ==
  [][\A i \in DOMAIN log' \ DOMAIN log : MarkedIdr(i) => log'[i].hdr]_vars

\* The pictures of the file are used one after the other, each once, none is lost to the call
\* that only gave out a header or failed, and each answer that counts as output has a picture.
PicturesInOrder ==
  \A i \in 1..Len(log) :
    /\ log[i].pic = IF i = 1 THEN 1
                    ELSE log[i - 1].pic + IF log[i - 1].used THEN 1 ELSE 0
    /\ log[i].dis <=> log[i].kind # "none"

\* encode_stream comes to its end: offering the picture again after a header was given out must
\* not go on for ever ("avoid dead loop in filling header", vpu_wrapper.c:8146).
EncodeEnds == <>(opt.app = "encode_stream" => stage = "closed")

\* What encode_stream has left to do: stages of the session, passes over the file, pictures of
\* this pass, the picture in the input buffer, and the header a call may give out in its stead.
StagesLeft ==
  CASE stage = "opened" -> 5 [] stage = "info" -> 4 [] stage = "loop" -> 3
    [] stage = "failed" -> 2 [] stage = "exit" -> 1 [] OTHER -> 0

HeaderLeft == IF Imx6 THEN 1 - enc.nOutputHeaderCnt ELSE IF enc.bStreamStarted THEN 0 ELSE 1

WorkLeft ==
  <<StagesLeft, repeatNum, Pictures - pos, IF nNeedInput THEN 0 ELSE 1, HeaderLeft>>

\* No call of encode_stream is made in vain: each brings the end nearer, so that the number of
\* calls is bounded whatever is skipped, given out alone or failing; the loop has no counter of
\* its own that would cut it off (encode_stream.c:597).
EncodeAdvances ==
  [][opt.app = "encode_stream" => Decreases(5, WorkLeft', WorkLeft)]_vars

=============================================================================
