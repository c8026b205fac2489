---------------------------- MODULE VpuEncProofs ----------------------------
(* Theorems of VpuEnc, for every length of the file, every number of passes   *)
(* and every GOP size.                                                        *)
EXTENDS VpuEnc, TLAPS

USE BoundAssumption, ChoiceAssumption

\* The application has been given a header.
Headers == \E j \in 1..Len(log) : log[j].hdr

\* The last thing it was given is a header without a picture.
LastAlone == Len(log) > 0 /\ Alone(log[Len(log)])

\* What the fields of an encoder object e say of the stream: a header given out is counted,
\* nHeaderNeeded is cleared only for a format without header or once one was given out, and the
\* last entry is a header alone (lone) just as long as the fields remember it.
Remembers(e, headers, lone, empty) ==
  /\ e.nJustOutputOneHeader => e.nOutputHeaderCnt = 1
  /\ e.nOutputHeaderCnt = 1 => headers
  /\ Imx6 /\ opt.fmt \in {"MPEG4", "AVC"} /\ ~e.nHeaderNeeded => e.nOutputHeaderCnt = 1
  /\ opt.fmt = "MJPG" => e.nHeaderNeeded /\ ~e.nJustOutputOneHeader
  /\ ~Imx6 /\ e.bStreamStarted => headers
  /\ Imx6 => (e.nJustOutputOneHeader <=> lone)
  /\ opt.be = "vc8000e" => (lone <=> e.bStreamStarted /\ e.nTotalFrames = 0)
  /\ ~Imx6 /\ ~e.bStreamStarted => empty /\ e.nTotalFrames = 0
  /\ Imx6 /\ asked => e.nInsertSPSPPSToIDR

StreamKnown == Remembers(enc, Headers, LastAlone, Len(log) = 0)

\* The picture in the input buffer is the one after the last that was used.
InputKnown ==
  /\ ~nNeedInput => nEncodedFrameNum < MaxNum
  /\ picture <= Pictures * (MaxRepeat - repeatNum) + pos
  /\ Len(log) = 0 => picture = IF nNeedInput THEN 0 ELSE 1
  /\ Len(log) > 0 =>
       /\ picture = log[Len(log)].pic + IF log[Len(log)].used /\ ~nNeedInput THEN 1 ELSE 0
       /\ nNeedInput => log[Len(log)].used

EncInv ==
  /\ TypeOK /\ StreamKnown /\ InputKnown
  /\ StreamDecodable /\ HeaderOnce /\ PicturesInOrder

-----------------------------------------------------------------------------
(* The answers of a call. *)

\* The back ends and formats that occur.
LEMMA OptionTypes ==
  ASSUME opt \in Options
  PROVE  /\ opt.be \in {"imx6", "h1", "vc8000e"}
         /\ opt.fmt \in {"MPEG4", "H263", "AVC", "MJPG"}
         /\ ~Imx6 => opt.fmt = "AVC"
         /\ opt.gop \in Nat
BY DEF Options, Supports, Imx6, H1Formats, VcFormats

\* Every answer is a failure, which gives nothing and at most clears nHeaderNeeded; a header; or
\* a picture.
Kinds(force, a) ==
  \/ /\ a.entry = Nothing /\ a.ret # "SUCCESS"
     /\ a.enc = enc \/ (Imx6 /\ ~HeaderAlone(force) /\ a.enc = Filled(force))
  \/ Imx6 /\ HeaderAlone(force) /\ a.entry = HeaderOnly /\ a.enc = GivenOut(Filled(force))
  \/ /\ Imx6 /\ ~HeaderAlone(force)
     /\ a.enc = [Filled(force) EXCEPT !.nJustOutputOneHeader = FALSE]
     /\ a.entry \in {Skipped, Coded(FillsHeader(force) /\ HasHeader, force)}
  \/ /\ ~Imx6 /\ ~enc.bStreamStarted
     /\ a.enc = [enc EXCEPT !.bStreamStarted = TRUE] /\ a.entry = HeaderOnly
  \/ /\ opt.be = "h1" /\ enc.bStreamStarted
     /\ a.enc = enc /\ a.entry = Coded(force, force)
  \/ /\ opt.be = "vc8000e" /\ enc.bStreamStarted
     /\ a.enc = Counted /\ a.entry = Coded(Resend(force), force)

\* What an encoder may answer to the request for a header or a frame.
LEMMA AnswerKinds ==
  ASSUME opt \in Options, vpu \in {"none", "ready", "busy"},
         NEW force \in BOOLEAN, NEW a \in Answers(force)
  PROVE  a.vpu \in {"none", "ready", "busy"} /\ Kinds(force, a)
<1>1. CASE opt.be = "imx6"
  <2>1. a \in Imx6Answers(force)
    BY <1>1 DEF Answers
  <2>2. CASE HeaderAlone(force)
    BY <2>1, <2>2, <1>1 DEF Imx6Answers, Answer, Kinds, Imx6
  <2>3. CASE ~HeaderAlone(force)
    <3> DEFINE e    == Filled(force)
               done == [e EXCEPT !.nJustOutputOneHeader = FALSE]
               hdr  == FillsHeader(force) /\ HasHeader
    <3>1. a \in Imx6Coding(force)
      BY <2>1, <2>3 DEF Imx6Answers
    <3>2. \/ a = Answer("FAILURE", e, vpu, Nothing)
          \/ a = Answer("TIMEOUT", e, "busy", Nothing)
          \/ a = Answer("SUCCESS", done, vpu, Coded(hdr, force))
          \/ a = Answer("SUCCESS", done, vpu, Skipped)
      BY <3>1 DEF Imx6Coding
    <3> HIDE DEF e, done, hdr
    <3>3. a.vpu \in {"none", "ready", "busy"}
      BY <3>2 DEF Answer
    <3>4. \/ a.entry = Nothing /\ a.ret # "SUCCESS" /\ a.enc = e
          \/ a.enc = done /\ a.entry \in {Skipped, Coded(hdr, force)}
      BY <3>2 DEF Answer
    <3> QED
      BY <3>3, <3>4, <2>3, <1>1 DEF Kinds, Imx6, e, done, hdr
  <2> QED BY <2>2, <2>3
<1>2. CASE opt.be = "h1"
  <2>1. a \in H1Answers(force)
    BY <1>2 DEF Answers
  <2>2. \/ \E r \in {"FAILURE", "TIMEOUT"} : a = Answer(r, enc, vpu, Nothing)
        \/ ~enc.bStreamStarted
           /\ a = Answer("SUCCESS", [enc EXCEPT !.bStreamStarted = TRUE], vpu, HeaderOnly)
        \/ enc.bStreamStarted /\ a = Answer("SUCCESS", enc, vpu, Coded(force, force))
    BY <2>1 DEF H1Answers, Start, Failures
  <2>3. CASE \E r \in {"FAILURE", "TIMEOUT"} : a = Answer(r, enc, vpu, Nothing)
    <3>1. a.vpu = vpu /\ a.entry = Nothing /\ a.ret # "SUCCESS" /\ a.enc = enc
      BY <2>3 DEF Answer
    <3> QED BY <3>1 DEF Kinds
  <2>4. CASE /\ ~enc.bStreamStarted
             /\ a = Answer("SUCCESS", [enc EXCEPT !.bStreamStarted = TRUE], vpu, HeaderOnly)
    <3>1. /\ a.vpu = vpu /\ a.entry = HeaderOnly
          /\ a.enc = [enc EXCEPT !.bStreamStarted = TRUE]
      BY <2>4 DEF Answer
    <3> QED BY <3>1, <2>4, <1>2 DEF Kinds, Imx6
  <2>5. CASE enc.bStreamStarted /\ a = Answer("SUCCESS", enc, vpu, Coded(force, force))
    <3>1. a.vpu = vpu /\ a.entry = Coded(force, force) /\ a.enc = enc
      BY <2>5 DEF Answer
    <3> QED BY <3>1, <2>5, <1>2 DEF Kinds
  <2> QED BY <2>2, <2>3, <2>4, <2>5
<1>3. CASE opt.be = "vc8000e"
  <2>1. a \in VcAnswers(force)
    BY <1>3 DEF Answers
  <2>2. \/ \E r \in {"FAILURE", "TIMEOUT"} : a = Answer(r, enc, vpu, Nothing)
        \/ ~enc.bStreamStarted
           /\ a = Answer("SUCCESS", [enc EXCEPT !.bStreamStarted = TRUE], vpu, HeaderOnly)
        \/ enc.bStreamStarted
           /\ a = Answer("SUCCESS", Counted, vpu, Coded(Resend(force), force))
    BY <2>1 DEF VcAnswers, Start, Failures, GopSize
  <2>3. CASE \E r \in {"FAILURE", "TIMEOUT"} : a = Answer(r, enc, vpu, Nothing)
    <3>1. a.vpu = vpu /\ a.entry = Nothing /\ a.ret # "SUCCESS" /\ a.enc = enc
      BY <2>3 DEF Answer
    <3> QED BY <3>1 DEF Kinds
  <2>4. CASE /\ ~enc.bStreamStarted
             /\ a = Answer("SUCCESS", [enc EXCEPT !.bStreamStarted = TRUE], vpu, HeaderOnly)
    <3>1. /\ a.vpu = vpu /\ a.entry = HeaderOnly
          /\ a.enc = [enc EXCEPT !.bStreamStarted = TRUE]
      BY <2>4 DEF Answer
    <3> QED BY <3>1, <2>4, <1>3 DEF Kinds, Imx6
  <2>5. CASE /\ enc.bStreamStarted
             /\ a = Answer("SUCCESS", Counted, vpu, Coded(Resend(force), force))
    <3>1. a.vpu = vpu /\ a.entry = Coded(Resend(force), force) /\ a.enc = Counted
      BY <2>5 DEF Answer
    <3> QED BY <3>1, <2>5, <1>3 DEF Kinds
  <2> QED BY <2>2, <2>3, <2>4, <2>5
<1> QED BY <1>1, <1>2, <1>3, OptionTypes

\* What a new entry must be so that the stream stays decodable, with no header repeated and
\* none left out.
Fits(e) ==
  /\ e \in Entries /\ e # Nothing
  /\ e.pic = picture /\ (e.dis <=> e.kind # "none") /\ (e.dis => e.used)
  /\ e.kind # "none" =>
       /\ opt.fmt # "H263" => e.hdr \/ Headers
       /\ opt.fmt = "AVC" /\ e.kind = "I" => e.hdr \/ LastAlone
       /\ opt.fmt = "MJPG" => e.hdr
  /\ opt.be # "h1" /\ ~enc.nInsertSPSPPSToIDR /\ LastAlone => ~e.hdr
  /\ asked /\ opt.be # "vc8000e" /\ opt.fmt = "AVC" /\ e.kind = "I" => e.hdr

\* What a call leaves: an object that remembers the stream as it is with the new entry.
Leaves(a) ==
  /\ a.enc \in Objects /\ a.enc.nInsertSPSPPSToIDR = enc.nInsertSPSPPSToIDR
  /\ \/ a.entry = Nothing /\ Remembers(a.enc, Headers, LastAlone, Len(log) = 0)
     \/ Fits(a.entry) /\ Remembers(a.enc, Headers \/ a.entry.hdr, Alone(a.entry), FALSE)

\* The filled object.
LEMMA FilledFields ==
  ASSUME TypeOK, NEW force \in BOOLEAN
  PROVE  /\ Filled(force) \in Objects
         /\ Filled(force).nHeaderNeeded =
              IF FillsHeader(force) THEN opt.fmt = "MJPG" ELSE enc.nHeaderNeeded
         /\ Filled(force).nJustOutputOneHeader = enc.nJustOutputOneHeader
         /\ Filled(force).nOutputHeaderCnt = enc.nOutputHeaderCnt
         /\ Filled(force).nInsertSPSPPSToIDR = enc.nInsertSPSPPSToIDR
         /\ Filled(force).bStreamStarted = enc.bStreamStarted
         /\ Filled(force).nTotalFrames = enc.nTotalFrames
<1>1. CASE FillsHeader(force)
  BY <1>1 DEF Filled, TypeOK, Objects
<1>2. CASE ~FillsHeader(force)
  BY <1>2 DEF Filled, TypeOK, Objects
<1> QED BY <1>1, <1>2

\* The entries without a coded picture.
LEMMA EntryFields ==
  ASSUME TypeOK
  PROVE  /\ HeaderOnly \in Entries /\ HeaderOnly # Nothing /\ HeaderOnly.pic = picture
         /\ HeaderOnly.hdr = TRUE /\ HeaderOnly.kind = "none" /\ HeaderOnly.dis = FALSE
         /\ Skipped \in Entries /\ Skipped # Nothing /\ Skipped.pic = picture
         /\ Skipped.hdr = FALSE /\ Skipped.kind = "none" /\ Skipped.dis = FALSE
         /\ HeaderOnly.used = FALSE /\ Nothing.used = FALSE /\ Nothing.dis = FALSE
BY DEF TypeOK, Entries, HeaderOnly, Skipped, Nothing, Entry

\* i.MX6, a header given out alone.
LEMMA AloneLeaves ==
  ASSUME TypeOK, StreamKnown, NEW force \in BOOLEAN, NEW a, Imx6, HeaderAlone(force),
         a.entry = HeaderOnly, a.enc = GivenOut(Filled(force))
  PROVE  Leaves(a)
<1> DEFINE f == Filled(force)
<1>1. /\ f \in Objects /\ f.nHeaderNeeded = FALSE
      /\ f.nOutputHeaderCnt = 0 /\ f.nInsertSPSPPSToIDR = enc.nInsertSPSPPSToIDR
  BY FilledFields DEF HeaderAlone
<1> HIDE DEF f
<1>2. /\ a.enc \in Objects /\ a.enc.nHeaderNeeded = FALSE
      /\ a.enc.nJustOutputOneHeader = TRUE /\ a.enc.nOutputHeaderCnt = 1
      /\ a.enc.nInsertSPSPPSToIDR = enc.nInsertSPSPPSToIDR
  <2>1. a.enc = [f EXCEPT !.nJustOutputOneHeader = TRUE,
                          !.nOutputHeaderCnt = f.nOutputHeaderCnt + 1]
    BY DEF GivenOut, f
  <2>2. a.enc = [f EXCEPT !.nJustOutputOneHeader = TRUE, !.nOutputHeaderCnt = 1]
    BY <2>1, <1>1
  <2>3. a.enc = [[f EXCEPT !.nJustOutputOneHeader = TRUE] EXCEPT !.nOutputHeaderCnt = 1]
    BY <2>2
  <2> DEFINE g == [f EXCEPT !.nJustOutputOneHeader = TRUE]
  <2>4. /\ g \in Objects /\ g.nHeaderNeeded = FALSE /\ g.nJustOutputOneHeader = TRUE
        /\ g.nInsertSPSPPSToIDR = enc.nInsertSPSPPSToIDR
    BY <1>1 DEF Objects
  <2>5. a.enc = [g EXCEPT !.nOutputHeaderCnt = 1]
    BY <2>3
  <2> HIDE DEF g
  <2> QED BY <2>4, <2>5 DEF Objects
<1>3. ~LastAlone
  BY DEF StreamKnown, Remembers, HeaderAlone
<1>4. Fits(a.entry)
  BY <1>3, EntryFields DEF Fits
<1>5. Remembers(a.enc, Headers \/ a.entry.hdr, Alone(a.entry), FALSE)
  BY <1>2, EntryFields DEF Remembers, StreamKnown, Alone, Imx6, HeaderAlone
<1> QED BY <1>2, <1>4, <1>5 DEF Leaves

\* i.MX6, a picture coded or skipped.
LEMMA PictureLeaves ==
  ASSUME TypeOK, StreamKnown, NEW force \in BOOLEAN, NEW a, Imx6, ~HeaderAlone(force),
         a.enc = [Filled(force) EXCEPT !.nJustOutputOneHeader = FALSE],
         a.entry \in {Skipped, Coded(FillsHeader(force) /\ HasHeader, force)}
  PROVE  Leaves(a)
<1> DEFINE f == Filled(force)
           h == FillsHeader(force) /\ HasHeader
<1>1. /\ f \in Objects
      /\ f.nHeaderNeeded = IF FillsHeader(force) THEN opt.fmt = "MJPG" ELSE enc.nHeaderNeeded
      /\ f.nOutputHeaderCnt = enc.nOutputHeaderCnt
      /\ f.nInsertSPSPPSToIDR = enc.nInsertSPSPPSToIDR
  BY FilledFields
<1>2. /\ a.enc \in Objects /\ a.enc.nHeaderNeeded = f.nHeaderNeeded
      /\ a.enc.nJustOutputOneHeader = FALSE
      /\ a.enc.nOutputHeaderCnt = enc.nOutputHeaderCnt
      /\ a.enc.nInsertSPSPPSToIDR = enc.nInsertSPSPPSToIDR
  <2>1. a.enc = [f EXCEPT !.nJustOutputOneHeader = FALSE]
    BY DEF f
  <2> HIDE DEF f
  <2> QED BY <2>1, <1>1 DEF Objects
<1>3. opt.fmt \in {"MPEG4", "H263", "AVC", "MJPG"} /\ opt.be = "imx6"
  BY OptionTypes DEF TypeOK, Imx6
<1>4. h \in BOOLEAN
  BY DEF FillsHeader, HasHeader
<1>5. /\ opt.fmt \in {"MPEG4", "AVC"} /\ ~h => Headers
      /\ opt.fmt = "AVC" /\ force /\ ~h => LastAlone /\ ~enc.nInsertSPSPPSToIDR
      /\ opt.fmt = "MJPG" => h
      /\ h /\ LastAlone => enc.nInsertSPSPPSToIDR
  BY <1>3 DEF h, FillsHeader, HasHeader, StreamKnown, Remembers
<1>6. /\ opt.fmt \in {"MPEG4", "AVC"} /\ ~f.nHeaderNeeded => enc.nOutputHeaderCnt = 1
      /\ opt.fmt = "MJPG" => f.nHeaderNeeded
  BY <1>1, <1>3 DEF HeaderAlone, HasHeader, StreamKnown, Remembers, TypeOK, Objects
<1>7. Fits(a.entry) /\ ~Alone(a.entry)
  <2>1. CASE a.entry = Skipped
    BY <2>1, EntryFields DEF Fits, Alone
  <2>2. CASE a.entry = Coded(h, force)
    <3> HIDE DEF h
    <3>1. /\ a.entry \in Entries /\ a.entry # Nothing /\ a.entry.pic = picture
          /\ a.entry.hdr = h /\ a.entry.kind = (IF force THEN "I" ELSE "P")
          /\ a.entry.dis = TRUE /\ a.entry.used = TRUE
      BY <2>2, <1>4 DEF Coded, Entry, TypeOK, Entries, Nothing
    <3>2. asked => enc.nInsertSPSPPSToIDR
      BY DEF StreamKnown, Remembers
    <3> QED BY <3>1, <3>2, <1>3, <1>5 DEF Fits, Alone
  <2> QED BY <2>1, <2>2
<1>8. Remembers(a.enc, Headers \/ a.entry.hdr, Alone(a.entry), FALSE)
  BY <1>2, <1>3, <1>6, <1>7 DEF Remembers, StreamKnown, Imx6
<1> QED BY <1>2, <1>7, <1>8 DEF Leaves

\* i.MX6, a call that failed: it may have filled the header in, which is lost.
LEMMA FailureLeaves ==
  ASSUME TypeOK, StreamKnown, NEW force \in BOOLEAN, NEW a, a.entry = Nothing,
         a.enc = enc \/ (Imx6 /\ ~HeaderAlone(force) /\ a.enc = Filled(force))
  PROVE  Leaves(a)
<1>1. CASE a.enc = enc
  BY <1>1 DEF Leaves, TypeOK, StreamKnown
<1>2. CASE Imx6 /\ ~HeaderAlone(force) /\ a.enc = Filled(force)
  <2> DEFINE f == Filled(force)
  <2>1. /\ f \in Objects
        /\ f.nHeaderNeeded = IF FillsHeader(force) THEN opt.fmt = "MJPG" ELSE enc.nHeaderNeeded
        /\ f.nJustOutputOneHeader = enc.nJustOutputOneHeader
        /\ f.nOutputHeaderCnt = enc.nOutputHeaderCnt
        /\ f.nInsertSPSPPSToIDR = enc.nInsertSPSPPSToIDR
    BY FilledFields
  <2>2. opt.fmt \in {"MPEG4", "H263", "AVC", "MJPG"} /\ opt.be = "imx6"
    BY <1>2, OptionTypes DEF TypeOK, Imx6
  <2>3. /\ opt.fmt \in {"MPEG4", "AVC"} /\ ~f.nHeaderNeeded => enc.nOutputHeaderCnt = 1
        /\ opt.fmt = "MJPG" => f.nHeaderNeeded
    BY <1>2, <2>1, <2>2
    DEF HeaderAlone, HasHeader, StreamKnown, Remembers, TypeOK, Objects
  <2>4. Remembers(f, Headers, LastAlone, Len(log) = 0)
    BY <2>1, <2>2, <2>3 DEF Remembers, StreamKnown, Imx6
  <2> QED BY <1>2, <2>1, <2>4 DEF Leaves
<1> QED BY <1>1, <1>2

\* H1 and VC8000E, the header of the first call.
LEMMA StartLeaves ==
  ASSUME TypeOK, StreamKnown, NEW a, ~Imx6, ~enc.bStreamStarted,
         a.enc = [enc EXCEPT !.bStreamStarted = TRUE], a.entry = HeaderOnly
  PROVE  Leaves(a)
<1>1. /\ a.enc \in Objects /\ a.enc.nInsertSPSPPSToIDR = enc.nInsertSPSPPSToIDR
      /\ a.enc.nJustOutputOneHeader = enc.nJustOutputOneHeader
      /\ a.enc.nOutputHeaderCnt = enc.nOutputHeaderCnt
      /\ a.enc.bStreamStarted = TRUE /\ a.enc.nTotalFrames = 0
  BY DEF TypeOK, Objects, StreamKnown, Remembers
<1>2. opt.fmt = "AVC"
  BY OptionTypes DEF TypeOK
<1>3. ~LastAlone
  BY DEF StreamKnown, Remembers, LastAlone
<1>4. Fits(a.entry)
  BY <1>3, EntryFields DEF Fits
<1>5. Remembers(a.enc, Headers \/ a.entry.hdr, Alone(a.entry), FALSE)
  BY <1>1, <1>2, EntryFields DEF Remembers, StreamKnown, Alone
<1> QED BY <1>1, <1>4, <1>5 DEF Leaves

\* H1, a picture.
LEMMA H1Leaves ==
  ASSUME TypeOK, StreamKnown, NEW force \in BOOLEAN, NEW a, opt.be = "h1", enc.bStreamStarted,
         a.enc = enc, a.entry = Coded(force, force)
  PROVE  Leaves(a)
<1>1. /\ a.entry \in Entries /\ a.entry # Nothing /\ a.entry.pic = picture
      /\ a.entry.hdr = force /\ a.entry.kind = (IF force THEN "I" ELSE "P")
      /\ a.entry.dis = TRUE /\ a.entry.used = TRUE
  BY DEF Coded, Entry, TypeOK, Entries, Nothing
<1>2. opt.fmt = "AVC" /\ ~Imx6 /\ Headers
  BY OptionTypes DEF TypeOK, Imx6, StreamKnown, Remembers
<1>3. Fits(a.entry) /\ ~Alone(a.entry)
  BY <1>1, <1>2 DEF Fits, Alone
<1>4. Remembers(a.enc, Headers \/ a.entry.hdr, Alone(a.entry), FALSE)
  BY <1>2, <1>3 DEF Remembers, StreamKnown
<1> QED BY <1>3, <1>4 DEF Leaves, TypeOK

\* VC8000E, a picture: the header is asked for again exactly when the last answer was not it.
LEMMA VcLeaves ==
  ASSUME TypeOK, StreamKnown, NEW force \in BOOLEAN, NEW a, opt.be = "vc8000e",
         enc.bStreamStarted,
         a.enc = Counted, a.entry = Coded(Resend(force), force)
  PROVE  Leaves(a)
<1>1. /\ a.entry \in Entries /\ a.entry # Nothing /\ a.entry.pic = picture
      /\ a.entry.hdr = (force /\ enc.nTotalFrames # 0)
      /\ a.entry.kind = (IF force THEN "I" ELSE "P")
      /\ a.entry.dis = TRUE /\ a.entry.used = TRUE
  BY DEF Coded, Entry, TypeOK, Entries, Nothing, Resend
<1>2. opt.fmt = "AVC" /\ ~Imx6 /\ Headers /\ (LastAlone <=> enc.nTotalFrames = 0)
  BY OptionTypes DEF TypeOK, Imx6, StreamKnown, Remembers
<1>3. Fits(a.entry) /\ ~Alone(a.entry)
  BY <1>1, <1>2 DEF Fits, Alone
<1>4. enc \in Objects /\ enc.nTotalFrames \in Nat
  BY DEF TypeOK, Objects
<1>5. /\ a.enc \in Objects /\ a.enc.nTotalFrames = enc.nTotalFrames + 1
      /\ a.enc.nInsertSPSPPSToIDR = enc.nInsertSPSPPSToIDR
      /\ a.enc.nJustOutputOneHeader = enc.nJustOutputOneHeader
      /\ a.enc.nOutputHeaderCnt = enc.nOutputHeaderCnt
      /\ a.enc.bStreamStarted = enc.bStreamStarted
  <2> DEFINE n == enc.nTotalFrames + 1
  <2>1. a.enc = [enc EXCEPT !.nTotalFrames = n]
    BY <1>4 DEF Counted, Objects
  <2>2. n \in Nat
    BY <1>4
  <2> HIDE DEF n
  <2>3. a.enc \in Objects /\ a.enc.nTotalFrames = n
    BY <2>1, <2>2, <1>4 DEF Objects
  <2> QED BY <2>1, <2>3, <1>4 DEF Objects, n
<1>6. Remembers(a.enc, Headers \/ a.entry.hdr, Alone(a.entry), FALSE)
  BY <1>2, <1>3, <1>5, <1>4 DEF Remembers, StreamKnown
<1> QED BY <1>3, <1>5, <1>6 DEF Leaves

\* Every answer leaves the VPU and the stream in a known state.
LEMMA AnswerLeaves ==
  ASSUME TypeOK, StreamKnown, NEW force \in BOOLEAN, NEW a \in Answers(force)
  PROVE  a.vpu \in {"none", "ready", "busy"} /\ Leaves(a)
<1>1. a.vpu \in {"none", "ready", "busy"} /\ Kinds(force, a)
  BY AnswerKinds DEF TypeOK
<1>2. Leaves(a)
  <2>1. CASE /\ a.entry = Nothing
             /\ a.enc = enc \/ (Imx6 /\ ~HeaderAlone(force) /\ a.enc = Filled(force))
    BY <2>1, FailureLeaves
  <2>2. CASE /\ Imx6 /\ HeaderAlone(force)
             /\ a.entry = HeaderOnly /\ a.enc = GivenOut(Filled(force))
    BY <2>2, AloneLeaves
  <2>3. CASE /\ Imx6 /\ ~HeaderAlone(force)
             /\ a.enc = [Filled(force) EXCEPT !.nJustOutputOneHeader = FALSE]
             /\ a.entry \in {Skipped, Coded(FillsHeader(force) /\ HasHeader, force)}
    BY <2>3, PictureLeaves
  <2>4. CASE /\ ~Imx6 /\ ~enc.bStreamStarted
             /\ a.enc = [enc EXCEPT !.bStreamStarted = TRUE] /\ a.entry = HeaderOnly
    BY <2>4, StartLeaves
  <2>5. CASE /\ opt.be = "h1" /\ enc.bStreamStarted
             /\ a.enc = enc /\ a.entry = Coded(force, force)
    BY <2>5, H1Leaves
  <2>6. CASE /\ opt.be = "vc8000e" /\ enc.bStreamStarted
             /\ a.enc = Counted /\ a.entry = Coded(Resend(force), force)
    BY <2>6, VcLeaves
  <2> QED BY <1>1, <2>1, <2>2, <2>3, <2>4, <2>5, <2>6 DEF Kinds
<1> QED BY <1>1, <1>2

-----------------------------------------------------------------------------
(* The log. *)

\* A log that grows by one entry.
LEMMA LogGrows ==
  ASSUME log \in Seq(Entries), NEW e \in Entries, log' = Append(log, e)
  PROVE  /\ log' \in Seq(Entries) /\ Len(log) \in Nat /\ Len(log') = Len(log) + 1
         /\ \A i \in 1..Len(log) : log'[i] = log[i]
         /\ log'[Len(log) + 1] = e
OBVIOUS

\* What is said of the log is kept when an entry that fits is added.
LEMMA LogKept ==
  ASSUME TypeOK, StreamDecodable, HeaderOnce, PicturesInOrder, InputKnown,
         NEW e, Fits(e), log' = Append(log, e), opt' = opt, ~nNeedInput,
         enc'.nInsertSPSPPSToIDR = enc.nInsertSPSPPSToIDR
  PROVE  /\ StreamDecodable' /\ HeaderOnce' /\ PicturesInOrder'
         /\ Headers' <=> Headers \/ e.hdr
         /\ LastAlone' <=> Alone(e)
<1> DEFINE n == Len(log)
<1>1. /\ log' \in Seq(Entries) /\ n \in Nat /\ Len(log') = n + 1
      /\ \A i \in 1..n : log'[i] = log[i]
      /\ log'[n + 1] = e
  BY LogGrows DEF TypeOK, Fits
<1>2. Headers' <=> Headers \/ e.hdr
  BY <1>1 DEF Headers
<1>3. LastAlone' <=> Alone(e)
  BY <1>1 DEF LastAlone, Alone
<1>4. StreamDecodable'
  <2> SUFFICES ASSUME NEW i \in 1..(n + 1), log'[i].kind # "none"
               PROVE  Headed(i)'
    BY <1>1 DEF StreamDecodable
  <2>1. CASE i \in 1..n
    <3>1. Headed(i) /\ log'[i] = log[i]
      BY <1>1, <2>1 DEF StreamDecodable
    <3>2. \A j \in 1..i : log'[j] = log[j]
      BY <1>1, <2>1
    <3>3. i > 1 => log'[i - 1] = log[i - 1]
      BY <1>1, <2>1
    <3> QED BY <3>1, <3>2, <3>3 DEF Headed, Alone
  <2>2. CASE i = n + 1
    <3>1. log'[i] = e /\ e.kind # "none"
      BY <1>1, <2>2
    <3>2. opt.fmt # "H263" => \E j \in 1..i : log'[j].hdr
      BY <3>1, <2>2, <1>1 DEF Fits, Headers
    <3>3. opt.fmt = "AVC" /\ e.kind = "I" => e.hdr \/ (i > 1 /\ Alone(log'[i - 1]))
      BY <3>1, <2>2, <1>1 DEF Fits, LastAlone, Alone
    <3> QED BY <3>1, <3>2, <3>3 DEF Headed, Fits, Alone
  <2> QED BY <2>1, <2>2, <1>1
<1>5. HeaderOnce'
  <2> SUFFICES ASSUME opt.be # "h1", ~enc.nInsertSPSPPSToIDR, NEW i \in 2..(n + 1),
                      Alone(log'[i - 1])
               PROVE  ~log'[i].hdr
    BY <1>1 DEF HeaderOnce, Alone
  <2>1. CASE i \in 2..n
    BY <1>1, <2>1 DEF HeaderOnce, Alone
  <2>2. CASE i = n + 1
    BY <1>1, <2>2 DEF Fits, LastAlone, Alone
  <2> QED BY <2>1, <2>2, <1>1
<1>6. PicturesInOrder'
  <2> SUFFICES ASSUME NEW i \in 1..(n + 1)
               PROVE  /\ log'[i].pic = IF i = 1 THEN 1
                           ELSE log'[i - 1].pic + IF log'[i - 1].used THEN 1 ELSE 0
                      /\ log'[i].dis <=> log'[i].kind # "none"
    BY <1>1 DEF PicturesInOrder
  <2>1. CASE i \in 1..n
    <3>1. i # 1 => log'[i - 1] = log[i - 1]
      BY <1>1, <2>1
    <3> QED BY <3>1, <1>1, <2>1 DEF PicturesInOrder
  <2>2. CASE i = n + 1
    <3>1. i # 1 => log'[i - 1] = log[n]
      BY <1>1, <2>2
    <3> QED BY <3>1, <1>1, <2>2 DEF Fits, InputKnown
  <2> QED BY <2>1, <2>2, <1>1
<1> QED BY <1>2, <1>3, <1>4, <1>5, <1>6

\* Nor does it change while nothing is added.
LEMMA LogSame ==
  ASSUME StreamDecodable, HeaderOnce, PicturesInOrder, log' = log, opt' = opt,
         enc.nInsertSPSPPSToIDR => enc'.nInsertSPSPPSToIDR
  PROVE  StreamDecodable' /\ HeaderOnce' /\ PicturesInOrder'
BY DEF StreamDecodable, Headed, HeaderOnce, PicturesInOrder, Alone

-----------------------------------------------------------------------------
(* The invariant. *)

\* The pictures of the passes before the current one and of the current one.
LEMMA PassesBound ==
  ASSUME NEW r \in 0..MaxRepeat
  PROVE  /\ Pictures * (MaxRepeat - r) + Pictures <= Pictures * (MaxRepeat + 1)
         /\ Pictures * (MaxRepeat - (r - 1)) = Pictures * (MaxRepeat - r) + Pictures
<1>1. Pictures \in Nat /\ MaxRepeat \in Nat /\ r \in Nat /\ r <= MaxRepeat
  OBVIOUS
<1>2. MaxRepeat - r \in Nat /\ MaxRepeat - r <= MaxRepeat
  BY <1>1
<1>3. \A p, m, q \in Nat : m <= q => p * m + p <= p * (q + 1)
  <2> SUFFICES ASSUME NEW p \in Nat, NEW m \in Nat, NEW q \in Nat, m <= q
               PROVE  p * m + p <= p * (q + 1)
    OBVIOUS
  <2>1. PICK d \in Nat : q = m + d
    <3>1. q - m \in Nat /\ q = m + (q - m)
      OBVIOUS
    <3> QED BY <3>1
  <2>2. p * (q + 1) = p * m + p * d + p /\ p * d \in Nat /\ p * m \in Nat
    BY <2>1
  <2> QED BY <2>2
<1>4. MaxRepeat - (r - 1) = (MaxRepeat - r) + 1
  BY <1>1
<1>5. \A p, m \in Nat : p * (m + 1) = p * m + p
  OBVIOUS
<1> QED BY <1>1, <1>2, <1>3, <1>4, <1>5

\* The invariant holds of an encoder just opened.
LEMMA InitInv == Init => EncInv
<1> SUFFICES ASSUME Init PROVE EncInv
  OBVIOUS
<1>1. opt \in Options /\ log = <<>> /\ Len(log) = 0 /\ enc = Opened
  BY DEF Init
<1>2. TypeOK
  <2>1. enc \in Objects
    BY <1>1 DEF Opened, Objects
  <2>2. log \in Seq(Entries)
    BY <1>1
  <2>3. 0 \in 0..Pictures * (MaxRepeat + 1)
    <3>1. \A p, m \in Nat : p * (m + 1) \in Nat
      OBVIOUS
    <3> QED BY <3>1
  <2>4. nEncodedFrameNum \in 0..MaxNum /\ pos \in 0..Pictures /\ repeatNum \in 0..MaxRepeat
    BY DEF Init
  <2>5. vpu \in {"none", "ready", "busy"} /\ nNeedInput \in BOOLEAN /\ asked \in BOOLEAN
    BY DEF Init
  <2>6. stage \in {"opened", "info", "loop", "failed", "exit", "closed"}
    BY DEF Init
  <2>7. picture \in 0..Pictures * (MaxRepeat + 1)
    BY <2>3 DEF Init
  <2> QED BY <1>1, <2>1, <2>2, <2>4, <2>5, <2>6, <2>7 DEF TypeOK
<1>3. StreamKnown
  BY <1>1 DEF Init, StreamKnown, Remembers, Opened, Headers, LastAlone
<1>4. InputKnown
  BY <1>1 DEF Init, InputKnown
<1>5. StreamDecodable /\ HeaderOnce /\ PicturesInOrder
  BY <1>1 DEF StreamDecodable, HeaderOnce, PicturesInOrder
<1> QED BY <1>2, <1>3, <1>4, <1>5 DEF EncInv

\* A call of VPU_EncEncodeFrame keeps the invariant, and the header it was asked for is there.
LEMMA EncodeStep ==
  ASSUME EncInv, VPU_EncEncodeFrame
  PROVE  /\ EncInv'
         /\ opt.be # "vc8000e" => \A i \in DOMAIN log' \ DOMAIN log : MarkedIdr(i) => log'[i].hdr
<1>0. PICK force \in BOOLEAN :
        \E a \in Answers(force) :
          /\ enc' = a.enc /\ vpu' = a.vpu
          /\ stage' = StageAfter(a.ret)
          /\ nNeedInput' = a.entry.used
          /\ nEncodedFrameNum' = nEncodedFrameNum + IF a.entry.dis THEN 1 ELSE 0
          /\ log' = Logged(a.entry)
  <2>1. ForcesIntra \in BOOLEAN
    BY DEF ForcesIntra
  <2>2. Forced \subseteq BOOLEAN
    BY <2>1 DEF Forced
  <2> QED BY <2>2 DEF VPU_EncEncodeFrame
<1>1. PICK a \in Answers(force) :
        /\ enc' = a.enc /\ vpu' = a.vpu
        /\ stage' = StageAfter(a.ret)
        /\ nNeedInput' = a.entry.used
        /\ nEncodedFrameNum' = nEncodedFrameNum + IF a.entry.dis THEN 1 ELSE 0
        /\ log' = Logged(a.entry)
  BY <1>0
<1>2. /\ stage = "loop" /\ ~nNeedInput /\ nEncodedFrameNum < MaxNum
      /\ UNCHANGED <<opt, pos, picture, repeatNum, asked>>
  BY DEF VPU_EncEncodeFrame
<1>3. a.vpu \in {"none", "ready", "busy"} /\ Leaves(a)
  BY AnswerLeaves DEF EncInv
<1>4. stage' \in {"loop", "failed"}
  BY <1>1, <1>2 DEF StageAfter
<1>5. CASE a.entry = Nothing
  <2>1. log' = log /\ nNeedInput' = FALSE /\ nEncodedFrameNum' = nEncodedFrameNum
    <3>1. a.entry.used = FALSE /\ a.entry.dis = FALSE
      BY <1>5, EntryFields DEF EncInv
    <3> QED BY <1>1, <1>5, <3>1 DEF Logged, EncInv, TypeOK
  <2>2. /\ a.enc \in Objects /\ a.enc.nInsertSPSPPSToIDR = enc.nInsertSPSPPSToIDR
        /\ Remembers(a.enc, Headers, LastAlone, Len(log) = 0)
    BY <1>3, <1>5 DEF Leaves, Fits
  <2>3. TypeOK'
    BY <1>1, <1>2, <1>3, <1>4, <2>1, <2>2 DEF EncInv, TypeOK
  <2>4. StreamKnown'
    BY <1>1, <1>2, <2>1, <2>2
    DEF StreamKnown, Remembers, Headers, LastAlone, Imx6, Alone
  <2>5. InputKnown'
    BY <1>2, <2>1 DEF EncInv, InputKnown
  <2>6. StreamDecodable' /\ HeaderOnce' /\ PicturesInOrder'
    BY <1>1, <1>2, <2>1, <2>2, LogSame DEF EncInv
  <2> QED BY <2>1, <2>3, <2>4, <2>5, <2>6 DEF EncInv
<1>6. CASE a.entry # Nothing
  <2>1. /\ a.enc \in Objects /\ a.enc.nInsertSPSPPSToIDR = enc.nInsertSPSPPSToIDR
        /\ Fits(a.entry)
        /\ Remembers(a.enc, Headers \/ a.entry.hdr, Alone(a.entry), FALSE)
    BY <1>3, <1>6 DEF Leaves
  <2>2. log' = Append(log, a.entry)
    BY <1>1, <1>6 DEF Logged
  <2>3. /\ log' \in Seq(Entries) /\ Len(log) \in Nat /\ Len(log') = Len(log) + 1
        /\ \A i \in 1..Len(log) : log'[i] = log[i]
        /\ log'[Len(log) + 1] = a.entry
    BY <2>1, <2>2, LogGrows DEF EncInv, TypeOK, Fits
  <2>4. /\ a.entry.used \in BOOLEAN /\ a.entry.dis \in BOOLEAN
        /\ a.entry.pic = picture /\ (a.entry.dis => a.entry.used)
    BY <2>1 DEF Fits, Entries
  <2>5. TypeOK'
    <3>1. nEncodedFrameNum' \in 0..MaxNum
      BY <1>1, <1>2, <2>4 DEF EncInv, TypeOK
    <3> QED BY <1>1, <1>2, <1>3, <1>4, <2>1, <2>3, <2>4, <3>1 DEF EncInv, TypeOK
  <2>6. /\ StreamDecodable' /\ HeaderOnce' /\ PicturesInOrder'
        /\ Headers' <=> Headers \/ a.entry.hdr
        /\ LastAlone' <=> Alone(a.entry)
    BY <1>1, <1>2, <2>1, <2>2, LogKept DEF EncInv
  <2>7. StreamKnown'
    BY <1>1, <1>2, <2>1, <2>3, <2>6 DEF StreamKnown, Remembers, Imx6
  <2>8. InputKnown'
    <3>1. log'[Len(log')] = a.entry /\ Len(log') > 0
      BY <2>3
    <3>2. ~nNeedInput' => nEncodedFrameNum' < MaxNum
      BY <1>1, <1>2, <2>4 DEF EncInv, TypeOK
    <3>3. (picture <= Pictures * (MaxRepeat - repeatNum) + pos)'
      BY <1>2 DEF EncInv, InputKnown
    <3>4. picture' = picture /\ picture + 0 = picture
      BY <1>2 DEF EncInv, TypeOK
    <3>5. /\ picture' = log'[Len(log')].pic + IF log'[Len(log')].used /\ ~nNeedInput' THEN 1 ELSE 0
          /\ nNeedInput' => log'[Len(log')].used
      BY <1>1, <2>4, <3>1, <3>4
    <3> QED BY <3>1, <3>2, <3>3, <3>5 DEF InputKnown
  <2>9. opt.be # "vc8000e" => \A i \in DOMAIN log' \ DOMAIN log : MarkedIdr(i) => log'[i].hdr
    <3>1. DOMAIN log' = 1..(Len(log) + 1) /\ DOMAIN log = 1..Len(log)
      BY <2>3 DEF EncInv, TypeOK
    <3>2. \A i \in DOMAIN log' \ DOMAIN log : log'[i] = a.entry
      BY <2>3, <3>1
    <3> QED BY <2>1, <3>2 DEF MarkedIdr, Fits
  <2> QED BY <2>5, <2>6, <2>7, <2>8, <2>9 DEF EncInv
<1> QED BY <1>5, <1>6

\* The other steps keep the log.
LEMMA ReadStep ==
  ASSUME EncInv, ReadOneYUVFrame
  PROVE  EncInv'
<1>1. /\ stage = "loop" /\ nNeedInput /\ nEncodedFrameNum < MaxNum /\ pos < Pictures
      /\ pos' = pos + 1 /\ picture' = picture + 1 /\ nNeedInput' = FALSE
      /\ UNCHANGED <<opt, enc, vpu, stage, nEncodedFrameNum, repeatNum, asked, log>>
  BY DEF ReadOneYUVFrame, obj
<1>2. pos \in 0..Pictures /\ repeatNum \in 0..MaxRepeat /\ picture \in Nat
  BY DEF EncInv, TypeOK
<1> DEFINE before == Pictures * (MaxRepeat - repeatNum)
<1>3. before \in Nat /\ picture <= before + pos
  <2>1. \A p, m \in Nat : p * m \in Nat
    OBVIOUS
  <2>2. MaxRepeat - repeatNum \in Nat
    BY <1>2
  <2> QED BY <2>1, <2>2 DEF EncInv, InputKnown
<1>4. before + Pictures <= Pictures * (MaxRepeat + 1)
  BY PassesBound, <1>2
<1>5. before' = before
  BY <1>1
<1>6. picture' <= before + pos' /\ picture' \in 0..Pictures * (MaxRepeat + 1) /\ pos' \in 0..Pictures
  <2> HIDE DEF before
  <2>1. \A z \in Int : z + 0 = z
    OBVIOUS
  <2>2. Pictures * (MaxRepeat + 1) \in Nat
    <3>1. \A p, m \in Nat : p * (m + 1) \in Nat
      OBVIOUS
    <3> QED BY <3>1
  <2> DEFINE all == Pictures * (MaxRepeat + 1)
  <2>3. all \in Nat /\ before + Pictures <= all
    BY <1>4, <2>2
  <2> HIDE DEF all
  <2>4. picture' <= before + pos' /\ picture' \in 0..all /\ pos' \in 0..Pictures
    BY <1>1, <1>2, <1>3, <2>3
  <2> QED BY <2>4 DEF all
<1>7. TypeOK'
  BY <1>1, <1>6 DEF EncInv, TypeOK
<1>8. StreamKnown'
  BY <1>1 DEF EncInv, StreamKnown, Remembers, Headers, LastAlone, Alone, Imx6
<1>9. InputKnown'
  <2>1. Len(log) = 0 => picture = 0
    BY <1>1 DEF EncInv, InputKnown
  <2>2. Len(log) > 0 => picture = log[Len(log)].pic /\ log[Len(log)].used
    <3> SUFFICES ASSUME Len(log) > 0
                 PROVE  picture = log[Len(log)].pic /\ log[Len(log)].used
      OBVIOUS
    <3>1. log[Len(log)] \in Entries
      BY DEF EncInv, TypeOK
    <3>2. log[Len(log)].pic \in Int
      BY <3>1 DEF Entries
    <3> QED BY <1>1, <3>2 DEF EncInv, InputKnown
  <2> QED BY <1>1, <1>5, <1>6, <2>1, <2>2 DEF InputKnown
<1>10. StreamDecodable' /\ HeaderOnce' /\ PicturesInOrder'
  BY <1>1, LogSame DEF EncInv
<1> QED BY <1>7, <1>8, <1>9, <1>10 DEF EncInv

\* The end of a pass keeps the invariant.
LEMMA EndPassStep ==
  ASSUME EncInv, EndPass
  PROVE  EncInv'
<1>1. /\ stage = "loop" /\ (nEncodedFrameNum >= MaxNum \/ nNeedInput)
      /\ UNCHANGED <<opt, enc, vpu, picture, nEncodedFrameNum, asked, log>>
      /\ \/ /\ repeatNum > 0 /\ repeatNum' = repeatNum - 1 /\ pos' = 0
            /\ nNeedInput' = TRUE /\ stage' = stage
         \/ stage' = "exit" /\ UNCHANGED <<repeatNum, pos, nNeedInput>>
  BY DEF EndPass, obj
<1>2. pos \in 0..Pictures /\ repeatNum \in 0..MaxRepeat /\ picture \in Nat
  BY DEF EncInv, TypeOK
<1>3. nNeedInput = TRUE
  BY <1>1 DEF EncInv, InputKnown, TypeOK
<1>4. TypeOK'
  <2>1. repeatNum' \in 0..MaxRepeat /\ pos' \in 0..Pictures
    BY <1>1, <1>2
  <2>2. nNeedInput' \in BOOLEAN
    BY <1>1, <1>3
  <2>3. stage' \in {"exit", "loop"}
    BY <1>1
  <2> QED BY <1>1, <2>1, <2>2, <2>3 DEF EncInv, TypeOK
<1>5. StreamKnown'
  BY <1>1 DEF EncInv, StreamKnown, Remembers, Headers, LastAlone, Alone, Imx6
<1>6. nNeedInput' = TRUE
  BY <1>1, <1>3
<1>7. (picture <= Pictures * (MaxRepeat - repeatNum) + pos)'
  <2>1. picture <= Pictures * (MaxRepeat - repeatNum) + pos
    BY DEF EncInv, InputKnown
  <2>2. CASE UNCHANGED <<repeatNum, pos>>
    BY <1>1, <2>1, <2>2
  <2>3. CASE repeatNum' = repeatNum - 1 /\ pos' = 0
    <3>1. Pictures * (MaxRepeat - repeatNum') = Pictures * (MaxRepeat - repeatNum) + Pictures
      BY <2>3, <1>2, PassesBound
    <3> DEFINE before == Pictures * (MaxRepeat - repeatNum)
               now    == Pictures * (MaxRepeat - repeatNum')
    <3>2. before \in Int /\ now = before + Pictures /\ picture <= before + pos
      BY <3>1, <2>1, <1>2
    <3> HIDE DEF before, now
    <3>3. picture <= now + 0
      BY <3>2, <1>2
    <3> QED BY <3>3, <2>3, <1>1 DEF now
  <2> QED BY <1>1, <2>2, <2>3
<1>8. InputKnown'
  BY <1>1, <1>3, <1>6, <1>7 DEF EncInv, InputKnown
<1>9. StreamDecodable' /\ HeaderOnce' /\ PicturesInOrder'
  BY <1>1, LogSame DEF EncInv
<1> QED BY <1>4, <1>5, <1>8, <1>9 DEF EncInv

\* The steps that touch neither the pictures nor the log.
LEMMA ControlStep ==
  ASSUME EncInv, UNCHANGED <<opt, nNeedInput, pos, picture, nEncodedFrameNum, repeatNum, log>>,
         vpu' \in {"none", "ready", "busy"},
         stage' \in {"opened", "info", "loop", "failed", "exit", "closed"},
         \/ enc' = enc /\ asked' = asked
         \/ asked' = TRUE /\ enc' = IF Imx6 THEN [enc EXCEPT !.nInsertSPSPPSToIDR = TRUE] ELSE enc
  PROVE  EncInv'
<1>1. /\ enc' \in Objects /\ enc'.nHeaderNeeded = enc.nHeaderNeeded
      /\ enc'.nJustOutputOneHeader = enc.nJustOutputOneHeader
      /\ enc'.nOutputHeaderCnt = enc.nOutputHeaderCnt
      /\ enc'.bStreamStarted = enc.bStreamStarted /\ enc'.nTotalFrames = enc.nTotalFrames
      /\ enc.nInsertSPSPPSToIDR => enc'.nInsertSPSPPSToIDR
      /\ Imx6 /\ asked' => enc'.nInsertSPSPPSToIDR
  <2>1. CASE enc' = enc /\ asked' = asked
    BY <2>1 DEF EncInv, TypeOK, StreamKnown, Remembers
  <2>2. CASE ~Imx6 /\ enc' = enc
    BY <2>2 DEF EncInv, TypeOK
  <2>3. CASE Imx6 /\ enc' = [enc EXCEPT !.nInsertSPSPPSToIDR = TRUE]
    BY <2>3 DEF EncInv, TypeOK, Objects
  <2> QED BY <2>1, <2>2, <2>3
<1>2. TypeOK'
  BY <1>1 DEF EncInv, TypeOK
<1>3. StreamKnown'
  BY <1>1 DEF EncInv, StreamKnown, Remembers, Headers, LastAlone, Alone, Imx6
<1>4. InputKnown'
  BY DEF EncInv, InputKnown
<1>5. StreamDecodable' /\ HeaderOnce' /\ PicturesInOrder'
  BY <1>1, LogSame DEF EncInv
<1> QED BY <1>2, <1>3, <1>4, <1>5 DEF EncInv

\* A step that does nothing, and an entry of the log that was not there before.
LEMMA SameStep ==
  ASSUME EncInv, UNCHANGED vars
  PROVE  EncInv'
<1>1. UNCHANGED <<opt, enc, vpu, stage, nNeedInput, pos, picture, nEncodedFrameNum, repeatNum,
                  asked, log>>
  BY DEF vars, obj, client
<1> QED BY <1>1 DEF EncInv, TypeOK, StreamKnown, Remembers, Headers, LastAlone, Alone, Imx6,
             InputKnown, StreamDecodable, Headed, HeaderOnce, PicturesInOrder

\* Every step keeps the invariant, and adds no forced intra picture that lacks its header.
LEMMA NextStep ==
  ASSUME EncInv, [Next]_vars
  PROVE  /\ EncInv'
         /\ opt.be # "vc8000e" => \A i \in DOMAIN log' \ DOMAIN log : MarkedIdr(i) => log'[i].hdr
<1>1. CASE VPU_EncGetInitialInfo
  <2>1. /\ UNCHANGED <<opt, enc, vpu, nNeedInput, pos, picture, nEncodedFrameNum, repeatNum,
                       asked, log>>
        /\ stage' \in {"info", "exit"}
    BY <1>1 DEF VPU_EncGetInitialInfo, obj
  <2> QED BY <2>1, ControlStep DEF EncInv, TypeOK
<1>2. CASE VPU_EncRegisterFrameBuffer
  <2>1. /\ UNCHANGED <<opt, enc, nNeedInput, pos, picture, nEncodedFrameNum, repeatNum, asked,
                       log>>
        /\ vpu' \in {"ready", vpu} /\ stage' \in {"loop", "exit", stage}
    BY <1>2 DEF VPU_EncRegisterFrameBuffer
  <2> QED BY <2>1, ControlStep DEF EncInv, TypeOK
<1>3. CASE VPU_EncConfig
  <2>1. /\ UNCHANGED <<opt, vpu, stage, nNeedInput, pos, picture, nEncodedFrameNum, repeatNum,
                       log>>
        /\ asked' = TRUE
        /\ enc' = IF Imx6 THEN [enc EXCEPT !.nInsertSPSPPSToIDR = TRUE] ELSE enc
    BY <1>3 DEF VPU_EncConfig, client
  <2> QED BY <2>1, ControlStep DEF EncInv, TypeOK
<1>4. CASE ReadOneYUVFrame
  BY <1>4, ReadStep DEF ReadOneYUVFrame
<1>5. CASE VPU_EncEncodeFrame
  BY <1>5, EncodeStep
<1>6. CASE EndPass
  BY <1>6, EndPassStep DEF EndPass
<1>7. CASE VPU_EncReset
  <2>1. /\ UNCHANGED <<opt, enc, nNeedInput, pos, picture, nEncodedFrameNum, repeatNum, asked,
                       log>>
        /\ vpu' \in {"none", vpu} /\ stage' \in {"exit", stage}
    BY <1>7 DEF VPU_EncReset
  <2> QED BY <2>1, ControlStep DEF EncInv, TypeOK
<1>8. CASE VPU_EncClose
  <2>1. /\ UNCHANGED <<opt, enc, nNeedInput, pos, picture, nEncodedFrameNum, repeatNum, asked,
                       log>>
        /\ vpu' = "none" /\ stage' = "closed"
    BY <1>8 DEF VPU_EncClose
  <2> QED BY <2>1, ControlStep DEF EncInv, TypeOK
<1>9. CASE UNCHANGED vars
  BY <1>9, SameStep DEF vars
<1> QED BY <1>1, <1>2, <1>3, <1>4, <1>5, <1>6, <1>7, <1>8, <1>9 DEF Next

-----------------------------------------------------------------------------
(* The end of encode_stream. *)

\* One number of WorkLeft becomes smaller, the ones before it stay the same.
LEMMA WorkDecreases ==
  ASSUME EncInv', NEW k \in 1..5, WorkLeft'[k] < WorkLeft[k],
         \A j \in 1..(k - 1) : WorkLeft'[j] = WorkLeft[j]
  PROVE  Decreases(5, WorkLeft', WorkLeft)
<1>1. /\ enc'.nOutputHeaderCnt \in 0..1 /\ pos' \in 0..Pictures /\ repeatNum' \in 0..MaxRepeat
  BY DEF EncInv, TypeOK, Objects
<1>2. /\ StagesLeft' \in Nat /\ HeaderLeft' \in Nat /\ repeatNum' \in Nat
      /\ Pictures - pos' \in Nat
  BY <1>1 DEF StagesLeft, HeaderLeft
<1>3. \A i \in 1..5 : WorkLeft'[i] \in Nat
  BY <1>2 DEF WorkLeft
<1> QED
  BY <1>3 DEF Decreases

\* An answer to encode_stream ends it, takes the picture, or is the one header given out alone.
LEMMA AnswerAdvances ==
  ASSUME EncInv, opt.app = "encode_stream", NEW force \in BOOLEAN, NEW a \in Answers(force)
  PROVE  \/ a.ret # "SUCCESS"
         \/ a.entry.used
         \/ /\ ~a.entry.used
            /\ IF Imx6 THEN enc.nOutputHeaderCnt = 0 /\ a.enc.nOutputHeaderCnt = 1
                       ELSE ~enc.bStreamStarted /\ a.enc.bStreamStarted
<1>1. Kinds(force, a)
  BY AnswerKinds DEF EncInv, TypeOK
<1>2. enc \in Objects /\ Filled(force) \in Objects
      /\ Filled(force).nOutputHeaderCnt = enc.nOutputHeaderCnt
  BY FilledFields DEF EncInv, TypeOK
<1>3. CASE a.ret # "SUCCESS"
  BY <1>3
<1>4. CASE Imx6 /\ HeaderAlone(force) /\ a.entry = HeaderOnly /\ a.enc = GivenOut(Filled(force))
  <2>1. enc.nOutputHeaderCnt = 0 /\ a.entry.used = FALSE
    BY <1>4, EntryFields DEF HeaderAlone, EncInv
  <2>2. a.enc.nOutputHeaderCnt = 1
    <3> DEFINE f == Filled(force)
    <3>1. f \in Objects /\ f.nOutputHeaderCnt = 0
      BY <1>2, <2>1
    <3>2. a.enc = [f EXCEPT !.nJustOutputOneHeader = TRUE,
                            !.nOutputHeaderCnt = f.nOutputHeaderCnt + 1]
      BY <1>4 DEF GivenOut
    <3> HIDE DEF f
    <3> QED BY <3>1, <3>2 DEF Objects
  <2> QED BY <1>4, <2>1, <2>2
<1>5. CASE a.entry \in {Skipped, Coded(FillsHeader(force) /\ HasHeader, force),
                        Coded(force, force), Coded(Resend(force), force)}
  BY <1>5 DEF Skipped, Coded, Entry
<1>6. CASE /\ ~Imx6 /\ ~enc.bStreamStarted
           /\ a.enc = [enc EXCEPT !.bStreamStarted = TRUE] /\ a.entry = HeaderOnly
  <2>1. a.enc.bStreamStarted /\ a.entry.used = FALSE
    BY <1>2, <1>6, EntryFields DEF Objects, EncInv
  <2> QED BY <1>6, <2>1
<1> QED
  BY <1>1, <1>3, <1>4, <1>5, <1>6 DEF Kinds

\* Every step of encode_stream makes one number smaller.
LEMMA StepAdvances ==
  ASSUME EncInv, EncInv', Next, opt.app = "encode_stream"
  PROVE  Decreases(5, WorkLeft', WorkLeft)
<1>1. /\ opt' = opt /\ pos \in 0..Pictures /\ repeatNum \in 0..MaxRepeat /\ Pictures \in Nat
      /\ nNeedInput \in BOOLEAN
  BY DEF EncInv, TypeOK, Next, VPU_EncGetInitialInfo, VPU_EncRegisterFrameBuffer, VPU_EncConfig,
         ReadOneYUVFrame, VPU_EncEncodeFrame, EndPass, VPU_EncReset, VPU_EncClose
<1>2. CASE StagesLeft' < StagesLeft
  BY <1>2, WorkDecreases, 1 \in 1..5 DEF WorkLeft
<1>3. CASE StagesLeft' = StagesLeft /\ repeatNum' < repeatNum
  BY <1>3, WorkDecreases, 2 \in 1..5 DEF WorkLeft
<1>4. CASE StagesLeft' = StagesLeft /\ repeatNum' = repeatNum /\ pos' = pos + 1
  BY <1>1, <1>4, WorkDecreases, 3 \in 1..5 DEF WorkLeft
<1>5. CASE /\ StagesLeft' = StagesLeft /\ repeatNum' = repeatNum /\ pos' = pos
           /\ ~nNeedInput /\ nNeedInput'
  BY <1>1, <1>5, WorkDecreases, 4 \in 1..5 DEF WorkLeft
<1>6. CASE /\ StagesLeft' = StagesLeft /\ repeatNum' = repeatNum /\ pos' = pos
           /\ ~nNeedInput /\ ~nNeedInput' /\ HeaderLeft = 1 /\ HeaderLeft' = 0
  BY <1>1, <1>6, WorkDecreases, 5 \in 1..5 DEF WorkLeft
<1>7. CASE VPU_EncGetInitialInfo \/ VPU_EncRegisterFrameBuffer \/ VPU_EncReset \/ VPU_EncClose
  BY <1>2, <1>7 DEF StagesLeft, VPU_EncGetInitialInfo, VPU_EncRegisterFrameBuffer, VPU_EncReset,
                    VPU_EncClose
<1>8. CASE ReadOneYUVFrame
  BY <1>4, <1>8 DEF StagesLeft, ReadOneYUVFrame
<1>9. CASE EndPass
  <2>1. CASE stage' = "exit"
    BY <1>2, <1>9, <2>1 DEF StagesLeft, EndPass
  <2>2. CASE stage' = stage /\ repeatNum' = repeatNum - 1
    BY <1>1, <1>3, <2>2 DEF StagesLeft
  <2> QED BY <1>9, <2>1, <2>2 DEF EndPass
<1>10. CASE VPU_EncEncodeFrame
  <2>1. PICK force \in BOOLEAN :
          \E a \in Answers(force) :
            /\ enc' = a.enc /\ stage' = StageAfter(a.ret) /\ nNeedInput' = a.entry.used
    BY <1>1, <1>10 DEF VPU_EncEncodeFrame, Forced, ForcesIntra
  <2>2. PICK a \in Answers(force) :
          /\ enc' = a.enc /\ stage' = StageAfter(a.ret) /\ nNeedInput' = a.entry.used
    BY <2>1
  <2>3. /\ stage = "loop" /\ ~nNeedInput /\ repeatNum' = repeatNum /\ pos' = pos
    BY <1>10 DEF VPU_EncEncodeFrame
  <2>4. CASE a.ret # "SUCCESS"
    BY <1>2, <2>2, <2>3, <2>4 DEF StageAfter, StagesLeft
  <2>5. CASE a.ret = "SUCCESS" /\ a.entry.used
    BY <1>5, <2>2, <2>3, <2>5 DEF StageAfter, StagesLeft
  <2>6. CASE /\ a.ret = "SUCCESS" /\ ~a.entry.used
             /\ IF Imx6 THEN enc.nOutputHeaderCnt = 0 /\ a.enc.nOutputHeaderCnt = 1
                        ELSE ~enc.bStreamStarted /\ a.enc.bStreamStarted
    <3>1. HeaderLeft = 1 /\ HeaderLeft' = 0
      BY <1>1, <2>2, <2>6 DEF HeaderLeft, Imx6
    <3>2. StagesLeft' = StagesLeft /\ ~nNeedInput'
      BY <2>2, <2>3, <2>6 DEF StageAfter, StagesLeft
    <3> QED BY <1>6, <2>3, <3>1, <3>2
  <2> QED BY <2>2, <2>4, <2>5, <2>6, AnswerAdvances
<1>11. ~VPU_EncConfig
  BY DEF VPU_EncConfig
<1> QED
  BY <1>7, <1>8, <1>9, <1>10, <1>11 DEF Next

-----------------------------------------------------------------------------
(* Theorems. *)

\* The invariant of the encoders and their application.
THEOREM EncoderInvariant == Spec => []EncInv
<1>1. EncInv /\ [Next]_vars => EncInv'
  BY NextStep
<1> QED BY InitInv, <1>1, PTL DEF Spec

\* Every variable keeps its type: no header is given out alone twice by the i.MX6 encoder, and no
\* more pictures are read than the passes over the file have (vpu_wrapper.c, encode_stream.c).
THEOREM EncoderTypeCorrect == Spec => []TypeOK
<1>1. EncInv => TypeOK
  BY DEF EncInv
<1> QED BY EncoderInvariant, <1>1, PTL

\* No wrapper puts a picture into the stream without the header it needs, for every format, GOP
\* size, length of the file and order of forced pictures, failures and retries.
THEOREM AlwaysDecodable == Spec => []StreamDecodable
<1>1. EncInv => StreamDecodable
  BY DEF EncInv
<1> QED BY EncoderInvariant, <1>1, PTL

\* A header given out alone by the i.MX6 or the VC8000E wrapper is not repeated in front of the
\* picture it was given out for.
THEOREM NoHeaderTwice == Spec => []HeaderOnce
<1>1. EncInv => HeaderOnce
  BY DEF EncInv
<1> QED BY EncoderInvariant, <1>1, PTL

\* The application's protocol of offering a picture until nNeedInput loses none and repeats none.
THEOREM NoPictureLost == Spec => []PicturesInOrder
<1>1. EncInv => PicturesInOrder
  BY DEF EncInv
<1> QED BY EncoderInvariant, <1>1, PTL

\* VPU_ENC_CONF_ENA_SPSPPS_IDR is kept by the i.MX6 and the H1 wrapper in every IDR picture.
THEOREM EveryIdrHasHeader == Spec => HeaderInEveryIdr
<1>1. EncInv /\ [Next]_vars =>
        [opt.be # "vc8000e" =>
           \A i \in DOMAIN log' \ DOMAIN log : MarkedIdr(i) => log'[i].hdr]_vars
  BY NextStep
<1> QED BY EncoderInvariant, <1>1, PTL DEF Spec, HeaderInEveryIdr

\* VC8000E is the only wrapper that breaks the promise of vpu_wrapper.h:731.
THEOREM OthersKeepIdrPromise ==
  ASSUME "vc8000e" \notin Backends
  PROVE  Spec => AskedHeaderInEveryIdr
<1>1. TypeOK => opt.be # "vc8000e"
  BY DEF TypeOK, Options
<1>2. /\ TypeOK
      /\ [opt.be # "vc8000e" =>
            \A i \in DOMAIN log' \ DOMAIN log : MarkedIdr(i) => log'[i].hdr]_vars
      => [\A i \in DOMAIN log' \ DOMAIN log : MarkedIdr(i) => log'[i].hdr]_vars
  BY <1>1
<1> QED
  BY <1>2, EveryIdrHasHeader, EncoderTypeCorrect, PTL DEF HeaderInEveryIdr, AskedHeaderInEveryIdr

\* The loop of encode_stream runs out of work: for every length of the file, number of passes and
\* GOP size, and whatever is skipped, given out alone or failing, each of its steps makes the work
\* left smaller in a well-founded order, so it makes only finitely many.
THEOREM EncodeRunsOut == Spec => EncodeAdvances
<1>1. EncInv /\ EncInv' /\ [Next]_vars =>
        [opt.app = "encode_stream" => Decreases(5, WorkLeft', WorkLeft)]_vars
  BY StepAdvances
<1> QED BY EncoderInvariant, <1>1, PTL DEF Spec, EncodeAdvances

=============================================================================
