--------------------------- MODULE VpuDecAccounts ---------------------------
(* When no library call fails, the wrapper's frame states agree with what the *)
(* application holds and, for a firmware in order, with what the VPU may      *)
(* write: theorems of VpuDec.                                                 *)
EXTENDS VpuDecProofs, FiniteSetTheorems

USE FrameAssumption, SizeAssumption, SwitchAssumption

\* VpuGetOutput accounts for every frame it makes DISP: it offers that frame, or the frame was
\* DISP before and the output is a REPEAT of it.
AccountsFor(g, fbs) ==
  /\ \A f \in Frame : g.fbs[f] = "DISP" <=> fbs[f] = "DISP" \/ (g.state = "OUTOK" /\ f = g.disp)
  /\ g.pre \in Frame => g.fbs[g.pre] = "DISP"
  /\ "REPEAT" \in g.flags => g.disp \in Frame /\ fbs[g.disp] = "DISP" /\ g.state = "DEC"

\* The ordinary case.
LEMMA ShowOutputAccounts ==
  ASSUME NEW p \in Rectified, NEW filter \in BOOLEAN, NEW fbs \in FrameStates,
         NEW flag \in SUBSET Frame,
         pPreDisplayFrameBuf \in Frame => fbs[pPreDisplayFrameBuf] = "DISP"
  PROVE  AccountsFor(ShowOutput(p, filter, fbs, flag), fbs)
<1> DEFINE fbs1     == MarkDecoded(p, fbs)
           dis      == DisplayIndex(p)
           disorder == dis \in Frame /\ fbs1[dis] # "DEC"
           flag1    == IF disorder /\ fbs1[dis] # "DISP" THEN flag \ {dis} ELSE flag
           shown    == dis \in Frame /\ (disorder => codec = "VC1_AP")
           repeated == shown /\ Repeated(fbs1, dis)
           dropped  == \/ disorder /\ ~shown
                       \/ filter /\ p.dec = "UNDEC" /\ dis = "NODIS"
           result   == IF repeated THEN "REPEAT"
                       ELSE IF shown THEN IF filter THEN "MOSAIC_DIS" ELSE "DIS"
                       ELSE IF dis = "EOS" THEN "EOS"
                       ELSE IF dropped THEN "DROPPED" ELSE "NODIS"
           st       == OutputState(result)
           fbs2     == IF shown THEN [fbs1 EXCEPT ![dis] = "DISP"] ELSE fbs1
           disp     == IF shown THEN dis ELSE pDisplayFrameBuf
           pre      == IF shown THEN dis ELSE pPreDisplayFrameBuf
           flags    == {result} \cup (IF p.dec = "NOBUF" THEN {"NO_ENOUGH_BUF"} ELSE {})
           g        == ShowOutput(p, filter, fbs, flag)
<1>1. fbs1 \in FrameStates /\ \A f \in Frame : fbs1[f] = "DISP" <=> fbs[f] = "DISP"
  BY MarkDecodedKeeps
<1>2. g.state = st /\ g.fbs = fbs2 /\ g.disp = disp /\ g.pre = pre /\ g.flags = flags
  BY DEF ShowOutput
<1>3. dis \in Frame => dis # "EOS" /\ dis # "NODIS"
  OBVIOUS
<1> HIDE DEF g, fbs1, dis
<1>4. shown => dis \in Frame /\ (repeated <=> fbs[dis] = "DISP")
  BY <1>1 DEF Repeated
<1>5. /\ st = "OUTOK" <=> shown /\ ~repeated
      /\ result = "REPEAT" <=> repeated
      /\ repeated => st = "DEC"
  <2>1. repeated => shown
    BY DEF repeated
  <2> HIDE DEF repeated, shown
  <2> QED
    BY <2>1 DEF OutputState
<1>6. \A f \in Frame : fbs2[f] = "DISP" <=> fbs[f] = "DISP" \/ (shown /\ f = dis)
  BY <1>1 DEF FrameStates
<1>7. pre \in Frame => fbs2[pre] = "DISP"
  BY <1>1, <1>6 DEF FrameStates
<1>8. "REPEAT" \in flags => repeated
  BY <1>5
<1> HIDE DEF st, repeated, fbs2, pre, flags
<1>9. \A f \in Frame : fbs2[f] = "DISP" <=> fbs[f] = "DISP" \/ (st = "OUTOK" /\ f = disp)
  BY <1>4, <1>5, <1>6
<1>10. repeated => shown /\ disp = dis
  BY DEF repeated
<1>11. AccountsFor(g, fbs)
  BY <1>2, <1>4, <1>5, <1>7, <1>8, <1>9, <1>10 DEF AccountsFor
<1> QED
  BY <1>11 DEF g

\* Every case.
LEMMA VpuGetOutputAccounts ==
  ASSUME NEW o \in Outputs, NEW filter \in BOOLEAN, NEW fbs \in FrameStates,
         NEW flag \in SUBSET Frame,
         pPreDisplayFrameBuf \in Frame => fbs[pPreDisplayFrameBuf] = "DISP"
  PROVE  AccountsFor(VpuGetOutput(o, filter, fbs, flag), fbs)
<1> DEFINE r == RectifyRange(o)
           p == RectifyIndex(r, fbs)
           quiet == p.status = "rollback" \/ p.status = "resch"
<1>1. p \in Rectified
  BY RectifiedOutput
<1>2. (filter \/ Invisible(r)) \in BOOLEAN
  OBVIOUS
<1>3. VpuGetOutput(o, filter, fbs, flag) =
        IF quiet THEN NothingShown(p, fbs, flag)
                 ELSE ShowOutput(p, filter \/ Invisible(r), fbs, flag)
  BY DEF VpuGetOutput
<1> HIDE DEF p
<1>4. CASE quiet
  BY <1>3, <1>4 DEF NothingShown, AccountsFor
<1>5. CASE ~quiet
  BY <1>1, <1>2, <1>3, <1>5, ShowOutputAccounts
<1> QED
  BY <1>4, <1>5

-----------------------------------------------------------------------------
(* The inductive invariant, when no library call fails. *)

\* The frame displayed last is still displayed: REPEAT's second test adds nothing.
LastIsDisplayed ==
  state \in Live /\ pPreDisplayFrameBuf \in Frame => frameBufState[pPreDisplayFrameBuf] = "DISP"

\* Before the first output no frame was displayed.
NoneDisplayed == state \in Live /\ ~realWork => pPreDisplayFrameBuf \notin Frame

Accounts ==
  /\ Inv
  /\ DisplayedMeansOwned
  /\ LastIsDisplayed
  /\ NoneDisplayed
  /\ NothingToRelease
  /\ RepeatMeansHeld
\* What the application holds is displayed in an entry of VpuDecBuf, and nothing else is.
EntryAccounts(e) ==
  /\ EntryOK(e)
  /\ \A f \in Frame : e.fbs[f] = "DISP" <=> f \in held
  /\ pPreDisplayFrameBuf \in Frame => e.fbs[pPreDisplayFrameBuf] = "DISP"

\* VpuDecClearOperationEOStoDEC changes no displayed frame.
LEMMA EntriesAccount ==
  ASSUME Accounts, ~CallsFail, state \in {"DEC", "STARTFRAMEOK", "EOS"}, NEW e \in Entries
  PROVE  EntryAccounts(e)
<1> USE DEF Accounts, Live
<1>1. EntryOK(e)
  BY EntriesKeep
<1>2. \A f \in Frame : e.fbs[f] = "DISP" <=> frameBufState[f] = "DISP"
  <2>1. CASE state # "EOS"
    BY <2>1 DEF Entries
  <2>2. CASE state = "EOS"
    <3>1. e.fbs = [f \in Frame |-> IF frameBufState[f] = "DEC" THEN "FREE"
                                                             ELSE frameBufState[f]]
      BY <2>2 DEF Entries
    <3> QED BY <3>1
  <2> QED BY <2>1, <2>2
<1>3. \A f \in Frame : frameBufState[f] = "DISP" <=> f \in held
  BY DEF DisplayedMeansOwned, FramesIn, Ready
<1> QED
  BY <1>1, <1>2, <1>3 DEF EntryAccounts, LastIsDisplayed

\* A step that leaves the frames, the last displayed one and their holders as they are.
LEMMA SameFramesAccount ==
  ASSUME Accounts, Inv', ~CallsFail, UNCHANGED <<frameBufState, pPreDisplayFrameBuf, realWork, held>>,
         Ready' = Ready, dispFlag' = {} \/ dispFlag' = dispFlag,
         state' = state \/ (state \in Live /\ state' \in Live \cup {"CORRUPT"})
           \/ (state = "OPEN" /\ state' = "INITOK") \/ (state = "INITOK" /\ state' = "REGFRMOK")
           \/ (state = "REGFRMOK" /\ state' = "DEC" /\ held = {}),
         "REPEAT" \notin ret'.flags
           \/ (ret' = ret /\ pDisplayFrameBuf' = pDisplayFrameBuf)
  PROVE  Accounts'
<1> USE DEF Accounts, Live
<1>1. DisplayedMeansOwned'
  <2>1. CASE state \in Live
    BY <2>1 DEF DisplayedMeansOwned, FramesIn
  <2>2. CASE state = "REGFRMOK" /\ state' = "DEC" /\ held = {}
    <3>1. FramesIn(frameBufState, "DISP") = {}
      BY <2>2 DEF NothingToRelease, FramesIn
    <3>2. Ready' = {}
      BY <2>2 DEF Ready
    <3> QED BY <2>2, <3>1, <3>2 DEF DisplayedMeansOwned, FramesIn
  <2>3. CASE state' \notin Live
    BY <2>3 DEF DisplayedMeansOwned
  <2> QED BY <2>1, <2>2, <2>3
<1>2. LastIsDisplayed' /\ NoneDisplayed'
  BY DEF LastIsDisplayed, NoneDisplayed, NothingToRelease
<1>3. NothingToRelease'
  BY DEF NothingToRelease, FramesIn
<1>4. RepeatMeansHeld'
  BY DEF RepeatMeansHeld
<1> QED
  BY <1>1, <1>2, <1>3, <1>4

\* A call that gets no output, from entry e.
LEMMA NoOutputAccounts ==
  ASSUME Accounts, Inv', ~CallsFail, state \in {"DEC", "STARTFRAMEOK", "EOS"},
         NEW e, EntryAccounts(e), NEW b, KeepEntry(e, b),
         state' \in {"DEC", "STARTFRAMEOK", "CORRUPT"}, held' = held, "REPEAT" \notin ret'.flags
  PROVE  Accounts'
<1> USE DEF Accounts, Live
<1>1. DisplayedMeansOwned' /\ LastIsDisplayed'
  <2>1. held \subseteq Frame
    BY DEF Inv, TypeOK
  <2> QED
    BY <2>1 DEF KeepEntry, EntryAccounts, DisplayedMeansOwned, LastIsDisplayed, FramesIn, Ready
<1>2. NoneDisplayed' /\ NothingToRelease' /\ RepeatMeansHeld'
  BY DEF KeepEntry, NoneDisplayed, NothingToRelease, RepeatMeansHeld
<1> QED
  BY <1>1, <1>2

\* A call that gets output g, from entry e.
LEMMA OutputAccounts ==
  ASSUME Accounts, Inv', ~CallsFail, NEW e, EntryAccounts(e),
         NEW g \in Results, AccountsFor(g, e.fbs),
         state' = g.state, frameBufState' = g.fbs, pPreDisplayFrameBuf' = g.pre,
         pDisplayFrameBuf' = g.disp, held' = held, realWork' = TRUE,
         "REPEAT" \in ret'.flags => "REPEAT" \in g.flags
  PROVE  Accounts'
<1> USE DEF Accounts, Live, Results
<1>1. held \subseteq Frame /\ Ready' \subseteq Frame
  BY DEF Inv, TypeOK, Ready
<1>2. DisplayedMeansOwned'
  <2>1. \A f \in Frame : g.fbs[f] = "DISP" <=> f \in held \cup Ready'
    BY DEF EntryAccounts, AccountsFor, Ready
  <2> QED
    BY <1>1, <2>1 DEF DisplayedMeansOwned, FramesIn
<1>3. LastIsDisplayed' /\ NoneDisplayed' /\ NothingToRelease'
  BY DEF AccountsFor, LastIsDisplayed, NoneDisplayed, NothingToRelease
<1>4. RepeatMeansHeld'
  BY DEF AccountsFor, EntryAccounts, RepeatMeansHeld
<1> QED
  BY <1>2, <1>3, <1>4

\* A step after which no frame is registered.
LEMMA ResetAccounts ==
  ASSUME Inv', ResetFrames, state' \in {"OPEN", "INITOK", "CORRUPT"}, RepeatMeansHeld'
  PROVE  Accounts'
BY DEF ResetFrames, Accounts, Live, DisplayedMeansOwned, LastIsDisplayed, NoneDisplayed,
       NothingToRelease, FramesIn
-----------------------------------------------------------------------------
(* The calls. *)

\* VpuDecBuf, on any input from any entry.
LEMMA VpuDecBufAccounts ==
  ASSUME Accounts, Inv', ~CallsFail, state \in {"DEC", "STARTFRAMEOK", "EOS"},
         NEW in \in Inputs, NEW e, EntryAccounts(e), VpuDecBuf(in, e)
  PROVE  Accounts'
<1> DEFINE enough == VpuBitsBufIsEnough(e.bs, in)
           b      == IF enough THEN VpuFillData(e.bs, in) ELSE e.bs
           used   == IF enough THEN "INPUT_USED" ELSE "INPUT_NOT_USED"
           run    == IF e.state = "DEC" THEN "busy" ELSE vpuRun
<1>1. Inv /\ EntryOK(e)
  BY DEF Accounts, EntryAccounts
<1>2. b \in Bitstream
  BY <1>1, BitstreamTypes DEF EntryOK
<1>3. used \in {"INPUT_USED", "INPUT_NOT_USED"}
  OBVIOUS
<1>4. \/ DecodeCollect(in, e, b, used)
      \/ DecodeStartFails(e, b, used)
      \/ DecodeTimeout(e, b, run, used)
      \/ DecodeOutputFails(e, b, run, used)
      \/ \E r \in OutputResults(e, b) :
           \/ \E n \in r.remaining : DecodeOutput(in, b, used, r.got, r.pend, n)
           \/ \E k \in r.backup : DecodeResolutionChange(used, r.got, k)
           \/ DecodeReopenFails(b, used, r.got)
  BY DEF VpuDecBuf
<1> HIDE DEF b, used, run
<1>5. ASSUME \/ DecodeCollect(in, e, b, used) \/ DecodeStartFails(e, b, used)
             \/ DecodeTimeout(e, b, run, used) \/ DecodeOutputFails(e, b, run, used)
      PROVE  Accounts'
  <2>1. /\ KeepEntry(e, b) /\ state' \in {"DEC", "STARTFRAMEOK", "CORRUPT"} /\ held' = held
        /\ ret'.flags = {used}
    BY <1>5 DEF DecodeCollect, DecodeStartFails, DecodeTimeout, DecodeOutputFails, Decoded
  <2>2. "REPEAT" \notin ret'.flags
    BY <1>3, <2>1
  <2> QED BY <2>1, <2>2, NoOutputAccounts
<1>6. ASSUME NEW r \in OutputResults(e, b)
      PROVE  r.got \in Results /\ AccountsFor(r.got, e.fbs)
  <2>1. PICK o \in FirmwareOutputs(e.flag, e.pend, b), filter \in BOOLEAN :
          r = OutputResult(e, b, o, filter)
    BY DEF OutputResults
  <2>2. o \in Outputs /\ Flagged(o) \subseteq Frame
    BY DEF FirmwareOutputs, Flagged
  <2>3. e.fbs \in FrameStates /\ e.flag \cup Flagged(o) \in SUBSET Frame
    BY <1>1, <2>2 DEF EntryOK
  <2>4. AccountsFor(VpuGetOutput(o, filter, e.fbs, e.flag \cup Flagged(o)), e.fbs)
    BY <2>2, <2>3, VpuGetOutputAccounts DEF EntryAccounts
  <2> QED BY <1>1, <1>2, <2>1, <2>4, OutputResultsKeep DEF OutputResult
<1>7. ASSUME NEW r \in OutputResults(e, b), NEW n \in r.remaining,
             DecodeOutput(in, b, used, r.got, r.pend, n)
      PROVE  Accounts'
  <2>1. "REPEAT" \in ret'.flags => "REPEAT" \in r.got.flags
    BY <1>3, <1>7 DEF DecodeOutput, Decoded, InBuf
  <2>2. /\ state' = r.got.state /\ frameBufState' = r.got.fbs /\ pPreDisplayFrameBuf' = r.got.pre
        /\ pDisplayFrameBuf' = r.got.disp /\ held' = held /\ realWork' = TRUE
    BY <1>7 DEF DecodeOutput, Decoded
  <2> QED BY <1>6, <1>7, <2>1, <2>2, OutputAccounts
<1>8. ASSUME NEW r \in OutputResults(e, b), NEW k \in r.backup,
             DecodeResolutionChange(used, r.got, k)
      PROVE  Accounts'
  <2>1. ResetFrames /\ state' \in {"INITOK", "CORRUPT"} /\ held' = held
        /\ pDisplayFrameBuf' = r.got.disp
    BY <1>8 DEF DecodeResolutionChange, Decoded
  <2>2. "REPEAT" \in ret'.flags => "REPEAT" \in r.got.flags
    BY <1>3, <1>8 DEF DecodeResolutionChange, Decoded
  <2>3. RepeatMeansHeld'
    BY <1>6, <2>1, <2>2 DEF RepeatMeansHeld, AccountsFor, EntryAccounts
  <2> QED BY <2>1, <2>3, ResetAccounts
<1>9. ASSUME NEW r \in OutputResults(e, b), DecodeReopenFails(b, used, r.got)
      PROVE  FALSE
  BY <1>9 DEF DecodeReopenFails
<1> QED
  BY <1>4, <1>5, <1>7, <1>8, <1>9

\* VPU_DecDecodeBuf.
LEMMA DecodeBufAccounts ==
  ASSUME Accounts, Inv', ~CallsFail, NEW in \in Inputs, VPU_DecDecodeBuf(in)
  PROVE  Accounts'
<1>1. CASE state = "OPEN" /\ SeqInit(in)
  <2>1. "REPEAT" \notin ret'.flags
    BY <1>1 DEF SeqInit, Decoded, InBuf
  <2>2. /\ state' \in {"OPEN", "INITOK"} /\ held' = held
        /\ UNCHANGED <<frameBufState, pPreDisplayFrameBuf, pDisplayFrameBuf, realWork, dispFlag>>
    BY <1>1 DEF SeqInit, Decoded
  <2> QED BY <1>1, <2>1, <2>2, SameFramesAccount DEF Ready
<1>2. CASE WrongCall
  BY <1>2, SameFramesAccount DEF WrongCall, Returns, wrapVars, vpuVars, Ready
<1>3. CASE /\ \/ Decoded("SUCCESS", {"INPUT_NOT_USED"})
              \/ Decoded("SUCCESS", {"INPUT_USED", "NO_ENOUGH_INBUF"})
           /\ UNCHANGED <<wrapVars, vpuVars>>
  BY <1>3, SameFramesAccount DEF Decoded, wrapVars, vpuVars, Ready
<1>4. ASSUME state \in {"DEC", "STARTFRAMEOK", "EOS"}, NEW e \in Entries, DecodeNoFrames(e)
      PROVE  Accounts'
  <2>1. EntryAccounts(e)
    BY <1>4, EntriesAccount
  <2>2. state' \in {"DEC", "STARTFRAMEOK"} /\ held' = held /\ "REPEAT" \notin ret'.flags
        /\ KeepEntry(e, e.bs)
    BY <1>4, <2>1 DEF DecodeNoFrames, Decoded, EntryAccounts, EntryOK
  <2> QED BY <1>4, <2>1, <2>2, NoOutputAccounts
<1>5. ASSUME state \in {"DEC", "STARTFRAMEOK", "EOS"}, NEW e \in Entries, VpuDecBuf(in, e)
      PROVE  Accounts'
  BY <1>5, EntriesAccount, VpuDecBufAccounts
<1> QED
  BY <1>1, <1>2, <1>3, <1>4, <1>5 DEF VPU_DecDecodeBuf

\* VPU_DecFlushAll.
LEMMA FlushAllAccounts ==
  ASSUME Accounts, Inv, Inv', ~CallsFail, VPU_DecFlushAll
  PROVE  Accounts'
<1>1. UNCHANGED <<codec, pPreDisplayFrameBuf, pDisplayFrameBuf, realWork, held>>
  BY DEF VPU_DecFlushAll
<1>2. ASSUME NEW code \in RetCodes, NEW run, NEW b, NEW p, NEW flag,
             FlushFails(code, frameBufState, flag, p, b, run), state \in Live
      PROVE  Accounts'
  <2>1. "REPEAT" \notin ret'.flags /\ state' = state /\ frameBufState' = frameBufState
    BY <1>2 DEF FlushFails, Returns
  <2>2. Ready' = Ready
    BY <1>1, <2>1 DEF Ready
  <2>3. DisplayedMeansOwned' /\ LastIsDisplayed' /\ NoneDisplayed' /\ NothingToRelease' /\ RepeatMeansHeld'
    BY <1>1, <1>2, <2>1, <2>2 DEF Accounts, Live, DisplayedMeansOwned, FramesIn, LastIsDisplayed,
         NoneDisplayed, NothingToRelease, RepeatMeansHeld
  <2> QED BY <2>3 DEF Accounts
<1>3. ASSUME state \in {"DEC", "EOS"}, NEW fbs \in FrameStates, NEW flag, NEW b,
             FlushFinish(fbs, flag, b),
             \A f \in Frame : fbs[f] = "DISP" <=> frameBufState[f] = "DISP"
      PROVE  Accounts'
  <2>1. "REPEAT" \notin ret'.flags /\ state' = "EOS" /\ frameBufState' = fbs
    BY <1>3 DEF FlushFinish, Returns
  <2>2. Ready = {} /\ Ready' = {}
    BY <1>3, <2>1 DEF Ready
  <2>3. DisplayedMeansOwned' /\ LastIsDisplayed' /\ NoneDisplayed' /\ NothingToRelease' /\ RepeatMeansHeld'
    BY <1>1, <1>3, <2>1, <2>2 DEF Accounts, Live, DisplayedMeansOwned, FramesIn, LastIsDisplayed,
         NoneDisplayed, NothingToRelease, RepeatMeansHeld
  <2> QED BY <2>3 DEF Accounts
<1>4. frameBufState \in FrameStates
  BY DEF Inv, TypeOK, FrameStates
<1>5. CASE Returns("SUCCESS") /\ UNCHANGED <<state, frameBufState, dispFlag>>
  BY <1>1, <1>5, SameFramesAccount DEF Returns, Ready
<1>6. CASE Returns("FAILURE") /\ UNCHANGED <<state, frameBufState, dispFlag>>
  BY <1>1, <1>6, SameFramesAccount DEF Returns, Ready
<1>7. CASE state \in {"DEC", "EOS"} /\ FlushFinish(frameBufState, dispFlag, bs)
  BY <1>3, <1>4, <1>7
<1>8. CASE (state = "STARTFRAMEOK" \/ (state \in {"DEC", "EOS"} /\ ~realWork)) /\ FlushDrive
  <2> DEFINE ended == [StartCodeFilled EXCEPT !.end = TRUE]
  <2>1. \/ \E run : FlushFails("FAILURE_TIMEOUT", frameBufState, dispFlag, pend, ended, run)
        \/ /\ state # "STARTFRAMEOK" \/ vpuRun = "busy"
           /\ \E b, o : FlushOutput(o, b)
    BY <1>8, Zenon DEF FlushDrive
  <2> HIDE DEF ended
  <2>2. ASSUME NEW run, FlushFails("FAILURE_TIMEOUT", frameBufState, dispFlag, pend, ended, run)
        PROVE  Accounts'
    BY <1>2, <1>8, <2>2 DEF RetCodes, Live
  <2>3. ASSUME state # "STARTFRAMEOK" \/ vpuRun = "busy", NEW b, NEW o, FlushOutput(o, b)
        PROVE  Accounts'
    <3>1. state \in {"DEC", "EOS"} /\ ~realWork
      BY <1>8, <2>3 DEF Inv, StartedIsDone
    <3> DEFINE flag == dispFlag \cup Flagged(o)
               gone == IF o.status = "rollback" THEN {} ELSE {o.dis} \cap Frame
               dec  == IF o.status = "rollback" THEN {} ELSE {o.dec} \cap Frame
               fbs  == [f \in Frame |-> IF f \in gone THEN "FREE" ELSE frameBufState[f]]
    <3>2. \E S \in FlagsCleared(dec) : FlushFinish(fbs, flag \ (gone \cup S), b)
      BY <2>3 DEF FlushOutput
    <3>3. \A f \in Frame : frameBufState[f] # "DISP"
      BY <3>1 DEF Accounts, DisplayedMeansOwned, NothingBeforeOutput, Inv, Live, FramesIn, Ready
    <3>4. fbs \in FrameStates /\ \A f \in Frame : fbs[f] # "DISP"
      BY <1>4, <3>3 DEF FrameStates
    <3> HIDE DEF fbs, flag, gone, dec
    <3> QED BY <1>3, <3>1, <3>2, <3>3, <3>4
  <2> QED BY <2>1, <2>2, <2>3
<1> QED
  BY <1>5, <1>6, <1>7, <1>8 DEF VPU_DecFlushAll, vpuVars
\* VPU_DecGetInitialInfo and VPU_DecRegisterFrameBuffer.
LEMMA SetupAccounts ==
  ASSUME Accounts, Inv', ~CallsFail, VPU_DecGetInitialInfo \/ VPU_DecRegisterFrameBuffer
  PROVE  Accounts'
<1>1. /\ UNCHANGED <<frameBufState, pPreDisplayFrameBuf, pDisplayFrameBuf, realWork, dispFlag, held>>
      /\ ret'.flags = {}
  BY DEF VPU_DecGetInitialInfo, VPU_DecRegisterFrameBuffer, WrongCall, Returns, wrapVars, vpuVars
<1>2. \/ state' = state
      \/ state = "INITOK" /\ state' = "REGFRMOK"
      \/ state = "REGFRMOK" /\ state' = "DEC" /\ held = {}
  BY DEF VPU_DecGetInitialInfo, VPU_DecRegisterFrameBuffer, WrongCall, wrapVars
<1>3. Ready' = Ready
  BY <1>1, <1>2 DEF Ready
<1> QED
  BY <1>1, <1>2, <1>3, SameFramesAccount

\* VPU_DecGetOutputFrame: the offered frame is now held.
LEMMA GetOutputFrameAccounts ==
  ASSUME Accounts, Inv', ~CallsFail, VPU_DecGetOutputFrame
  PROVE  Accounts'
<1>1. CASE WrongCall
  BY <1>1, SameFramesAccount DEF WrongCall, Returns, wrapVars, vpuVars, Ready
<1>2. CASE /\ state = "OUTOK" /\ state' = "DEC"
           /\ held' = held \cup {pDisplayFrameBuf}
           /\ ret' = [code |-> "SUCCESS", flags |-> {}]
           /\ UNCHANGED <<frameBufState, pPreDisplayFrameBuf, realWork, dispFlag>>
  <2>1. (held \cup Ready)' = held \cup Ready
    BY <1>2 DEF Ready
  <2>2. "REPEAT" \notin ret'.flags
    BY <1>2
  <2> USE DEF Accounts, Live
  <2>3. DisplayedMeansOwned'
    BY <1>2, <2>1 DEF DisplayedMeansOwned, FramesIn
  <2> QED
    BY <1>2, <2>2, <2>3 DEF LastIsDisplayed, NoneDisplayed, NothingToRelease, RepeatMeansHeld
<1> QED
  BY <1>1, <1>2 DEF VPU_DecGetOutputFrame, vpuVars

\* VPU_DecOutFrameDisplayed: the released frame leaves both sides of the account.
LEMMA OutFrameDisplayedAccounts ==
  ASSUME Accounts, Inv, Inv', ~CallsFail, NEW f \in Frame, VPU_DecOutFrameDisplayed(f)
  PROVE  Accounts'
<1> USE DEF Live
<1>1. /\ f \in held /\ held' = held \ {f}
      /\ UNCHANGED <<state, codec, pDisplayFrameBuf, realWork>>
      /\ ret'.flags = {}
      /\ Ready' = Ready
  BY DEF VPU_DecOutFrameDisplayed, Returns, Ready
<1>2. f \notin Ready
  BY <1>1 DEF Inv, NotOfferedTwice
<1>3. CASE state \notin Live
  <2>1. NothingToRelease'
    BY <1>1, <1>3 DEF VPU_DecOutFrameDisplayed, Accounts, NothingToRelease, FramesIn
  <2> QED
    BY <1>1, <1>3, <2>1 DEF Accounts, DisplayedMeansOwned, LastIsDisplayed, NoneDisplayed,
         RepeatMeansHeld
<1>4. CASE state \in Live
  <2>1. frameBufState[f] = "DISP"
    BY <1>1, <1>4 DEF Inv, OwnedDisplayed
  <2>2. /\ frameBufState' = [frameBufState EXCEPT ![f] = "FREE"]
        /\ pPreDisplayFrameBuf' = IF pPreDisplayFrameBuf = f THEN NoFrame ELSE pPreDisplayFrameBuf
    BY <1>4, <2>1 DEF VPU_DecOutFrameDisplayed, ForgetLast
  <2>3. frameBufState \in FrameStates
    BY DEF Inv, TypeOK, FrameStates
  <2>4. DisplayedMeansOwned'
    BY <1>1, <1>2, <1>4, <2>2, <2>3 DEF Accounts, DisplayedMeansOwned, FramesIn, FrameStates
  <2>5. LastIsDisplayed' /\ NoneDisplayed'
    BY <1>1, <1>4, <2>2, <2>3 DEF Accounts, LastIsDisplayed, NoneDisplayed, FrameStates
  <2>6. NothingToRelease' /\ RepeatMeansHeld'
    BY <1>1, <1>4 DEF NothingToRelease, RepeatMeansHeld
  <2> QED
    BY <2>4, <2>5, <2>6 DEF Accounts
<1> QED
  BY <1>3, <1>4

-----------------------------------------------------------------------------
(* Theorems. *)

\* When no library call fails, no call leads out of Accounts.
THEOREM AccountsInvariance ==
  ASSUME ~CallsFail
  PROVE  Spec => []Accounts
<1>1. Init => Accounts
  <2> SUFFICES ASSUME Init PROVE Accounts
    OBVIOUS
  <2>1. Inv
    BY InitInv
  <2> QED
    BY <2>1 DEF Init, Accounts, Live, DisplayedMeansOwned, LastIsDisplayed, NoneDisplayed,
         NothingToRelease, RepeatMeansHeld, FramesIn
<1>2. Accounts /\ [Next]_vars => Accounts'
  <2> SUFFICES ASSUME Accounts, [Next]_vars PROVE Accounts'
    OBVIOUS
  <2>0. Inv /\ Inv'
    BY StepKeepsInv DEF Accounts
  <2>1. ASSUME NEW in \in Inputs, VPU_DecDecodeBuf(in) PROVE Accounts'
    BY <2>0, <2>1, DecodeBufAccounts
  <2>2. CASE VPU_DecGetInitialInfo \/ VPU_DecRegisterFrameBuffer
    BY <2>0, <2>2, SetupAccounts
  <2>3. CASE VPU_DecGetOutputFrame
    BY <2>0, <2>3, GetOutputFrameAccounts
  <2>4. ASSUME NEW f \in Frame, VPU_DecOutFrameDisplayed(f) PROVE Accounts'
    BY <2>0, <2>4, OutFrameDisplayedAccounts
  <2>5. CASE VPU_DecFlushAll
    BY <2>0, <2>5, FlushAllAccounts
  <2>6. CASE Reopen
    <3>1. RepeatMeansHeld'
      BY <2>6 DEF Reopen, RepeatMeansHeld
    <3> QED BY <2>0, <2>6, <3>1, ResetAccounts DEF Reopen
  <2>7. CASE UNCHANGED vars
    BY <2>0, <2>7, SameFramesAccount DEF vars, wrapVars, vpuVars, appVars, Ready
  <2> QED
    BY <2>1, <2>2, <2>3, <2>4, <2>5, <2>6, <2>7 DEF Next
<1> QED
  BY <1>1, <1>2, PTL DEF Spec

\* A frame is in state DISP exactly while it is offered to the application or held by it: no
\* REPEAT, dropped output, flush or resolution change makes both sides forget a frame.
THEOREM NoFrameLost ==
  ASSUME ~CallsFail
  PROVE  Spec => []DisplayedMeansOwned
<1>1. Accounts => DisplayedMeansOwned
  BY DEF Accounts
<1> QED
  BY <1>1, AccountsInvariance, PTL

\* REPEAT is reported only for a frame the application still has to release.
THEOREM RepeatOnlyOfHeld ==
  ASSUME ~CallsFail
  PROVE  Spec => []RepeatMeansHeld
<1>1. Accounts => RepeatMeansHeld
  BY DEF Accounts
<1> QED
  BY <1>1, AccountsInvariance, PTL

-----------------------------------------------------------------------------
(* Before frames are registered, also when calls fail. *)

\* VpuDecBuf gets to a state without registered frames only by a resolution change.
LEMMA DecBufReleases ==
  ASSUME Inv, NEW in \in Inputs, NEW e, EntryOK(e), e.state \in {"DEC", "STARTFRAMEOK"},
         VpuDecBuf(in, e)
  PROVE  \/ state' \in {"DEC", "STARTFRAMEOK", "OUTOK", "EOS", "CORRUPT"}
         \/ ResetFrames
<1> DEFINE enough == VpuBitsBufIsEnough(e.bs, in)
           b      == IF enough THEN VpuFillData(e.bs, in) ELSE e.bs
           used   == IF enough THEN "INPUT_USED" ELSE "INPUT_NOT_USED"
           run    == IF e.state = "DEC" THEN "busy" ELSE vpuRun
<1>1. b \in Bitstream
  BY BitstreamTypes DEF EntryOK
<1>2. \/ DecodeCollect(in, e, b, used)
      \/ DecodeStartFails(e, b, used)
      \/ DecodeTimeout(e, b, run, used)
      \/ DecodeOutputFails(e, b, run, used)
      \/ \E r \in OutputResults(e, b) :
           \/ \E n \in r.remaining : DecodeOutput(in, b, used, r.got, r.pend, n)
           \/ \E k \in r.backup : DecodeResolutionChange(used, r.got, k)
           \/ DecodeReopenFails(b, used, r.got)
  BY DEF VpuDecBuf
<1> HIDE DEF b, used, run
<1>3. CASE \/ DecodeCollect(in, e, b, used) \/ DecodeStartFails(e, b, used)
           \/ DecodeTimeout(e, b, run, used) \/ DecodeOutputFails(e, b, run, used)
  BY <1>3 DEF DecodeCollect, DecodeStartFails, DecodeTimeout, DecodeOutputFails
<1>4. ASSUME NEW r \in OutputResults(e, b), NEW n \in r.remaining,
             DecodeOutput(in, b, used, r.got, r.pend, n)
      PROVE  state' \in {"DEC", "OUTOK", "EOS"}
  <2>1. r.got \in Results
    BY <1>1, OutputResultsKeep
  <2> QED BY <1>4, <2>1 DEF DecodeOutput, Results
<1>5. ASSUME NEW r \in OutputResults(e, b), NEW k \in r.backup,
             DecodeResolutionChange(used, r.got, k)
      PROVE  ResetFrames
  BY <1>5 DEF DecodeResolutionChange
<1>6. ASSUME NEW r \in OutputResults(e, b), DecodeReopenFails(b, used, r.got)
      PROVE  state' = "CORRUPT"
  BY <1>6 DEF DecodeReopenFails
<1> QED
  BY <1>2, <1>3, <1>4, <1>5, <1>6

\* No call leaves a frame behind in a state without registered frames.
LEMMA NothingToReleaseStep ==
  ASSUME Inv, NothingToRelease, [Next]_vars
  PROVE  NothingToRelease'
<1> DEFINE Unregistered == {"OPEN", "INITOK", "REGFRMOK"}
<1>1. ASSUME state' \in Unregistered => state \in Unregistered,
             state' \in Unregistered => UNCHANGED <<frameBufState, dispFlag, pPreDisplayFrameBuf>>
      PROVE  NothingToRelease'
  BY <1>1 DEF NothingToRelease, FramesIn
<1>2. ASSUME ResetFrames PROVE NothingToRelease'
  BY <1>2 DEF ResetFrames, NothingToRelease, FramesIn
<1>3. ASSUME NEW in \in Inputs, VPU_DecDecodeBuf(in) PROVE NothingToRelease'
  <2>1. CASE state = "OPEN" /\ SeqInit(in)
    BY <1>1, <2>1 DEF SeqInit
  <2>2. CASE \/ WrongCall \/ UNCHANGED <<wrapVars, vpuVars>>
    BY <1>1, <2>2 DEF WrongCall, Returns, wrapVars, vpuVars
  <2>3. CASE state = "EOS" /\ UNCHANGED state
    BY <1>1, <2>3
  <2>4. ASSUME state \in {"DEC", "STARTFRAMEOK", "EOS"}, NEW e \in Entries, DecodeNoFrames(e)
        PROVE  NothingToRelease'
    <3>1. EntryOK(e)
      BY <2>4, EntriesKeep
    <3>2. state' \in {"DEC", "STARTFRAMEOK"}
      BY <2>4, <3>1 DEF DecodeNoFrames, EntryOK
    <3> QED BY <1>1, <3>2
  <2>5. ASSUME state \in {"DEC", "STARTFRAMEOK", "EOS"}, NEW e \in Entries, VpuDecBuf(in, e)
        PROVE  NothingToRelease'
    <3>1. EntryOK(e) /\ e.state \in {"DEC", "STARTFRAMEOK"}
      BY <2>5, EntriesKeep DEF EntryOK
    <3>2. \/ state' \in {"DEC", "STARTFRAMEOK", "OUTOK", "EOS", "CORRUPT"}
          \/ ResetFrames
      BY <2>5, <3>1, DecBufReleases
    <3> QED BY <1>1, <1>2, <3>2
  <2> QED BY <1>3, <2>1, <2>2, <2>3, <2>4, <2>5 DEF VPU_DecDecodeBuf
<1>4. CASE VPU_DecGetInitialInfo \/ VPU_DecRegisterFrameBuffer \/ VPU_DecGetOutputFrame
  BY <1>1, <1>4 DEF VPU_DecGetInitialInfo, VPU_DecRegisterFrameBuffer, VPU_DecGetOutputFrame,
                    WrongCall, Returns, wrapVars, vpuVars
<1>5. ASSUME NEW f \in Frame, VPU_DecOutFrameDisplayed(f) PROVE NothingToRelease'
  <2>1. state' = state
    BY <1>5 DEF VPU_DecOutFrameDisplayed
  <2>2. state \in Unregistered => frameBufState[f] = "FREE"
    BY DEF NothingToRelease, FramesIn
  <2> QED BY <1>1, <1>5, <2>1, <2>2 DEF VPU_DecOutFrameDisplayed
<1>6. CASE VPU_DecFlushAll
  <2>1. pPreDisplayFrameBuf' = pPreDisplayFrameBuf
    BY <1>6 DEF VPU_DecFlushAll
  <2>2. \/ UNCHANGED <<state, frameBufState, dispFlag>>
        \/ state' \notin Unregistered
    <3>1. CASE FlushDrive /\ state \notin Unregistered
      <4>1. state' = state \/ state' = "EOS"
        BY <3>1 DEF FlushDrive, FlushOutput, FlushFinish, FlushFails
      <4> QED BY <3>1, <4>1
    <3>2. CASE FlushFinish(frameBufState, dispFlag, bs)
      BY <3>2 DEF FlushFinish
    <3> QED BY <1>6, <3>1, <3>2 DEF VPU_DecFlushAll, vpuVars
  <2> QED BY <1>1, <2>1, <2>2 DEF NothingToRelease
<1>7. CASE Reopen
  BY <1>2, <1>7 DEF Reopen
<1>8. CASE UNCHANGED vars
  BY <1>1, <1>8 DEF vars, wrapVars, vpuVars, appVars
<1> QED
  BY <1>3, <1>4, <1>5, <1>6, <1>7, <1>8 DEF Next

\* A handle released after a resolution change finds no frame of the new sequence to free,
\* whatever the firmware answers and whichever call failed before.
THEOREM NothingLeftToRelease == Spec => []NothingToRelease
<1>1. Init => NothingToRelease
  BY DEF Init, NothingToRelease, FramesIn
<1>2. Inv /\ NothingToRelease /\ [Next]_vars => NothingToRelease'
  BY NothingToReleaseStep
<1> QED
  BY <1>1, <1>2, Invariance, PTL DEF Spec
-----------------------------------------------------------------------------
(* No free frame buffer. *)

\* If fewer frames than there are count as held by the VPU, one is displayed.
LEMMA SomeDisplayed ==
  ASSUME NEW fbs, VpuQueryVpuHoldBufNum(fbs) # Cardinality(Frame)
  PROVE  \E f \in Frame : fbs[f] = "DISP"
<1>1. FramesIn(fbs, "DISP") = {} => Frame \ FramesIn(fbs, "DISP") = Frame
  OBVIOUS
<1>2. FramesIn(fbs, "DISP") # {}
  BY <1>1 DEF VpuQueryVpuHoldBufNum
<1> QED
  BY <1>2 DEF FramesIn

\* H.264: VpuGetOutput passes on that there is no free frame buffer and nothing to show only
\* when the wrapper itself knows of a displayed frame.
LEMMA NoBufIsBelieved ==
  ASSUME codec = "AVC", NEW o \in Outputs, NEW filter, NEW fbs, NEW flag,
         {"NODIS", "NO_ENOUGH_BUF"} \subseteq VpuGetOutput(o, filter, fbs, flag).flags
  PROVE  \E f \in Frame : fbs[f] = "DISP"
<1> DEFINE r == RectifyRange(o)
           p == RectifyIndex(r, fbs)
           f2 == filter \/ Invisible(r)
           g == VpuGetOutput(o, filter, fbs, flag)
<1>1. p \in Rectified /\ r \in Rectified
  <2>1. o \in [dec : Frame \cup {"NOBUF", "UNDEC"}, dis : Frame \cup {"EOS", "NODIS", "OVER"},
               status : {"ok", "rollback", "bad", "skip", "resch", "resized"}]
    BY DEF Outputs, Statuses
  <2> QED BY <2>1, RectifiedOutput DEF RectifyRange, Rectified
<1> DEFINE fbs1     == MarkDecoded(p, fbs)
           dis      == DisplayIndex(p)
           disorder == dis \in Frame /\ fbs1[dis] # "DEC"
           shown    == dis \in Frame /\ (disorder => codec = "VC1_AP")
           repeated == shown /\ Repeated(fbs1, dis)
           dropped  == \/ disorder /\ ~shown
                       \/ f2 /\ p.dec = "UNDEC" /\ dis = "NODIS"
           result   == IF repeated THEN "REPEAT"
                       ELSE IF shown THEN IF f2 THEN "MOSAIC_DIS" ELSE "DIS"
                       ELSE IF dis = "EOS" THEN "EOS"
                       ELSE IF dropped THEN "DROPPED" ELSE "NODIS"
           flags    == {result} \cup (IF p.dec = "NOBUF" THEN {"NO_ENOUGH_BUF"} ELSE {})
<1>2. p.status # "rollback" /\ g.flags = flags
  <2>1. ShowOutput(p, f2, fbs, flag).flags = flags
    BY DEF ShowOutput
  <2>2. "NO_ENOUGH_BUF" \notin NothingShown(p, fbs, flag).flags
    BY DEF NothingShown
  <2>3. g = IF p.status = "rollback" \/ p.status = "resch"
              THEN NothingShown(p, fbs, flag) ELSE ShowOutput(p, f2, fbs, flag)
    BY DEF VpuGetOutput
  <2> HIDE DEF g, p, f2, flags
  <2> QED BY <2>1, <2>2, <2>3 DEF g
<1>3. {"NODIS", "NO_ENOUGH_BUF"} \subseteq flags
  BY <1>2
<1>4. p.dec = "NOBUF" /\ dis \notin Frame /\ dis # "EOS"
  <2>1. result \in {"REPEAT", "MOSAIC_DIS", "DIS", "EOS", "DROPPED", "NODIS"}
    <3> HIDE DEF repeated, shown, dropped, dis, f2, p
    <3> QED OBVIOUS
  <2>2. result = "NODIS" /\ p.dec = "NOBUF"
    <3> HIDE DEF result, p
    <3> QED BY <1>3, <2>1
  <2>3. ~shown /\ dis # "EOS" /\ ~dropped
    <3> HIDE DEF shown, dropped, dis, f2, p
    <3> QED BY <2>2
  <2> HIDE DEF dis, f2, p
  <2> QED BY <2>2, <2>3
<1>5. p.dis = "NODIS"
  <2> HIDE DEF p
  <2> QED BY <1>1, <1>4 DEF DisplayIndex, Rectified
<1>6. p = r /\ ~FalseNoBuf(r, fbs)
  <2> HIDE DEF r
  <2> QED BY <1>1, <1>4 DEF RectifyIndex, Rectified
<1>7. VpuQueryVpuHoldBufNum(fbs) # Cardinality(Frame)
  <2> HIDE DEF r, p
  <2> QED BY <1>2, <1>4, <1>5, <1>6 DEF FalseNoBuf
<1> QED
  BY <1>7, SomeDisplayed

\* VPU_DecDecodeBuf from an entry it decodes.
LEMMA DecodeNoBuf ==
  ASSUME Accounts, ~CallsFail, MinFrames <= Cardinality(Frame), NEW in, NEW e, EntryAccounts(e),
         IF TooFewFrames(e) THEN DecodeNoFrames(e) ELSE VpuDecBuf(in, e),
         {"NODIS", "NO_ENOUGH_BUF"} \subseteq ret'.flags,
         codec' = "AVC" \/ ret'.flags \cap {"INPUT_USED", "INPUT_NOT_USED"} = {}
  PROVE  held' # {}
<1> DEFINE enough == VpuBitsBufIsEnough(e.bs, in)
           b      == IF enough THEN VpuFillData(e.bs, in) ELSE e.bs
           used   == IF enough THEN "INPUT_USED" ELSE "INPUT_NOT_USED"
           run    == IF e.state = "DEC" THEN "busy" ELSE vpuRun
<1>1. CASE TooFewFrames(e)
  <2>1. VpuQueryVpuHoldBufNum(e.fbs) # Cardinality(Frame)
    <3>1. Cardinality(Frame) \in Nat
      BY FS_CardinalityType
    <3> QED BY <1>1, <3>1 DEF TooFewFrames
  <2> QED BY <1>1, <2>1, SomeDisplayed DEF DecodeNoFrames, Decoded, EntryAccounts
<1>2. CASE ~TooFewFrames(e)
  <2>1. used \in {"INPUT_USED", "INPUT_NOT_USED"}
    OBVIOUS
  <2>2. \/ DecodeCollect(in, e, b, used)
        \/ DecodeStartFails(e, b, used)
        \/ DecodeTimeout(e, b, run, used)
        \/ DecodeOutputFails(e, b, run, used)
        \/ \E r \in OutputResults(e, b) :
             \/ \E n \in r.remaining : DecodeOutput(in, b, used, r.got, r.pend, n)
             \/ \E k \in r.backup : DecodeResolutionChange(used, r.got, k)
             \/ DecodeReopenFails(b, used, r.got)
    BY <1>2 DEF VpuDecBuf
  <2> HIDE DEF b, used, run
  <2>3. CASE \/ DecodeCollect(in, e, b, used) \/ DecodeStartFails(e, b, used)
             \/ DecodeTimeout(e, b, run, used) \/ DecodeOutputFails(e, b, run, used)
    <3>1. ret'.flags = {used}
      BY <2>3 DEF DecodeCollect, DecodeStartFails, DecodeTimeout, DecodeOutputFails, Decoded
    <3> QED BY <2>1, <3>1
  <2>4. ASSUME NEW r \in OutputResults(e, b),
               \/ \E n \in r.remaining : DecodeOutput(in, b, used, r.got, r.pend, n)
               \/ \E k \in r.backup : DecodeResolutionChange(used, r.got, k)
        PROVE  held' # {}
    <3>1. \/ \E enough2 : ret'.flags = r.got.flags \cup InBuf(in, used, enough2)
          \/ ret'.flags = {used} \cup r.got.flags \/ ret'.flags = {used, "RESOLUTION_CHANGED"}
      BY <2>4 DEF DecodeOutput, DecodeResolutionChange, Decoded
    <3>2. \A x : InBuf(in, used, x) \subseteq {used, "NO_ENOUGH_INBUF"} /\ used \in InBuf(in, used, x)
      BY DEF InBuf
    <3>3. {"NODIS", "NO_ENOUGH_BUF"} \subseteq r.got.flags /\ codec' = "AVC"
      BY <2>1, <3>1, <3>2
    <3>4. codec' = codec /\ held' = held
      BY <2>4 DEF DecodeOutput, DecodeResolutionChange, Decoded
    <3>5. PICK o \in Outputs, filter \in BOOLEAN :
            r.got = VpuGetOutput(o, filter, e.fbs, e.flag \cup Flagged(o))
      <4>1. PICK o \in FirmwareOutputs(e.flag, e.pend, b), filter \in BOOLEAN :
              r = OutputResult(e, b, o, filter)
        BY DEF OutputResults
      <4> QED BY <4>1 DEF OutputResult, FirmwareOutputs
    <3>6. \E f \in Frame : e.fbs[f] = "DISP"
      BY <3>3, <3>4, <3>5, NoBufIsBelieved
    <3> QED BY <3>4, <3>6 DEF EntryAccounts
  <2>5. ASSUME NEW r, DecodeReopenFails(b, used, r.got) PROVE FALSE
    BY <2>5 DEF DecodeReopenFails
  <2> QED BY <2>2, <2>3, <2>4, <2>5
<1> QED
  BY <1>1, <1>2

\* Whatever is called.
LEMMA StepNoBuf ==
  ASSUME Accounts, NoBufMeansUserHolds, ~CallsFail, [Next]_vars
  PROVE  NoBufMeansUserHolds'
<1>1. CASE "NO_ENOUGH_BUF" \notin ret'.flags
  BY <1>1 DEF NoBufMeansUserHolds
<1>2. ASSUME NEW in \in Inputs, VPU_DecDecodeBuf(in) PROVE NoBufMeansUserHolds'
  <2>1. CASE state = "OPEN" /\ SeqInit(in)
    <3>1. "NO_ENOUGH_BUF" \notin ret'.flags
      BY <2>1 DEF SeqInit, Decoded, InBuf
    <3> QED BY <1>1, <3>1
  <2>2. ASSUME state \in {"DEC", "STARTFRAMEOK", "EOS"}, NEW e \in Entries,
               IF TooFewFrames(e) THEN DecodeNoFrames(e) ELSE VpuDecBuf(in, e)
        PROVE  NoBufMeansUserHolds'
    BY <2>2, EntriesAccount, DecodeNoBuf DEF NoBufMeansUserHolds
  <2> QED BY <1>1, <1>2, <2>1, <2>2 DEF VPU_DecDecodeBuf, WrongCall, Returns, Decoded
<1>3. CASE VPU_DecGetInitialInfo \/ VPU_DecRegisterFrameBuffer \/ VPU_DecGetOutputFrame
  BY <1>1, <1>3 DEF VPU_DecGetInitialInfo, VPU_DecRegisterFrameBuffer, VPU_DecGetOutputFrame,
       WrongCall, Returns
<1>4. ASSUME NEW f \in Frame, VPU_DecOutFrameDisplayed(f) PROVE NoBufMeansUserHolds'
  BY <1>1, <1>4 DEF VPU_DecOutFrameDisplayed, Returns
<1>5. CASE VPU_DecFlushAll
  <2>1. ASSUME NEW o, NEW b, FlushOutput(o, b) PROVE ret'.flags = {}
    <3>1. \/ \E code, fbs, flag, p, run : FlushFails(code, fbs, flag, p, b, run)
          \/ \E fbs, flag : FlushFinish(fbs, flag, b)
      BY <2>1, Zenon DEF FlushOutput
    <3> QED BY <3>1 DEF FlushFails, FlushFinish, Returns
  <2>2. ASSUME FlushDrive PROVE ret'.flags = {}
    <3>1. \/ \E code, fbs, flag, p, b, run : FlushFails(code, fbs, flag, p, b, run)
          \/ \E o, b : FlushOutput(o, b)
      BY <2>2, Zenon DEF FlushDrive
    <3> QED BY <2>1, <3>1 DEF FlushFails, Returns
  <2> QED BY <1>1, <1>5, <2>2 DEF VPU_DecFlushAll, FlushFinish, Returns
<1>6. CASE Reopen
  BY <1>1, <1>6 DEF Reopen
<1>7. CASE UNCHANGED vars
  BY <1>7 DEF NoBufMeansUserHolds, vars, wrapVars, appVars
<1> QED
  BY <1>2, <1>3, <1>4, <1>5, <1>6, <1>7 DEF Next

\* Told that there is no frame buffer and no output, the application has a frame it can release:
\* H.264's false report is not passed on, and RV's own check counts what is displayed.
THEOREM NoBufCanBeHelped ==
  ASSUME ~CallsFail
  PROVE  Spec => []NoBufMeansUserHolds
<1>1. Init => NoBufMeansUserHolds
  BY DEF Init, NoBufMeansUserHolds
<1>2. Accounts /\ NoBufMeansUserHolds /\ [Next]_vars => NoBufMeansUserHolds'
  BY StepNoBuf
<1> QED
  BY <1>1, <1>2, AccountsInvariance, PTL DEF Spec
-----------------------------------------------------------------------------
(* A firmware in order: the wrapper's FREE frames are those it can use. *)

\* A frame is FREE exactly when its display flag is clear, and a frame still to be shown is DEC.
Matched(fbs, flag, p) ==
  /\ \A f \in Frame : fbs[f] = "FREE" <=> f \notin flag
  /\ \A f \in p : f \in Frame /\ fbs[f] = "DEC"

Usable ==
  codec # "VC1_AP" =>
    /\ state \in Live => Matched(frameBufState, dispFlag, pend)
    /\ state \in {"OPEN", "INITOK", "REGFRMOK"} => pend = {}

\* An output recorded and shown, once the firmware has set the flags: what it decoded was FREE,
\* what it shows was decoded, now or earlier.
LEMMA ShowOutputMatches ==
  ASSUME codec # "VC1_AP", NEW p \in Rectified, p.status # "skip", NEW filter,
         NEW fbs \in FrameStates, NEW flag \in SUBSET Frame, NEW q \in SUBSET Frame,
         \A f \in Frame : fbs[f] = "FREE" <=> f \notin flag \/ f = p.dec,
         p.dec \in Frame => p.dec \in flag,
         \A f \in q \cup ({p.dis} \cap Frame) : f = p.dec \/ fbs[f] = "DEC",
         p.dis \notin q
  PROVE  Matched(ShowOutput(p, filter, fbs, flag).fbs, ShowOutput(p, filter, fbs, flag).flag, q)
<1> DEFINE fbs1     == MarkDecoded(p, fbs)
           dis      == DisplayIndex(p)
           disorder == dis \in Frame /\ fbs1[dis] # "DEC"
           flag1    == IF disorder /\ fbs1[dis] # "DISP" THEN flag \ {dis} ELSE flag
           shown    == dis \in Frame /\ (disorder => codec = "VC1_AP")
           fbs2     == IF shown THEN [fbs1 EXCEPT ![dis] = "DISP"] ELSE fbs1
           g        == ShowOutput(p, filter, fbs, flag)
<1>1. g.fbs = fbs2 /\ g.flag = flag1
  BY DEF ShowOutput
<1>2. fbs1 \in FrameStates
  BY MarkDecodedKeeps
<1>3. \A f \in Frame : fbs1[f] = IF f = p.dec THEN "DEC" ELSE fbs[f]
  BY DEF MarkDecoded, Recorded, FrameStates
<1>4. dis \in Frame => dis = p.dis /\ dis \notin q
  BY DEF DisplayIndex, Rectified
<1> HIDE DEF g, fbs1, dis
<1>5. ~disorder
  BY <1>3, <1>4
<1>6. Matched(fbs1, flag, q)
  BY <1>3 DEF Matched
<1>7. flag1 = flag
  BY <1>5
<1> HIDE DEF flag1, disorder
<1>8. Matched(fbs2, flag, q)
  BY <1>2, <1>3, <1>4, <1>5, <1>6 DEF Matched, FrameStates, disorder
<1> QED
  BY <1>1, <1>7, <1>8 DEF g

\* Every output of such a firmware.
LEMMA SaneOutputMatches ==
  ASSUME codec # "VC1_AP", Sane, NEW o \in Outputs, NEW filter, NEW fbs \in FrameStates,
         NEW flag \in SUBSET Frame, NEW pd \in SUBSET Frame, NEW b, SaneOutput(o, flag, pd, b),
         Matched(fbs, flag, pd)
  PROVE  LET g == VpuGetOutput(o, filter, fbs, flag \cup Flagged(o))
         IN Matched(g.fbs, g.flag, StillPending(o, pd))
<1> DEFINE r  == RectifyRange(o)
           p  == RectifyIndex(r, fbs)
           f2 == filter \/ Invisible(r)
           fl == flag \cup Flagged(o)
           q  == StillPending(o, pd)
           g  == VpuGetOutput(o, filter, fbs, fl)
<1>1. o \in [dec : Frame \cup {"NOBUF", "UNDEC"}, dis : Frame \cup {"EOS", "NODIS", "OVER"},
             status : {"ok", "rollback", "bad", "skip", "resch", "resized"}]
       /\ o.status # "skip"
  BY DEF Outputs, Statuses
<1>2. r = o
  BY <1>1 DEF RectifyRange, SaneOutput
<1>3. p \in Rectified
  BY RectifiedOutput
<1>4. (p = o /\ ~Invisible(o)) \/ (p = [o EXCEPT !.dec = "UNDEC"] /\ (Invisible(o) \/ o.dec = "NOBUF"))
  BY <1>2 DEF RectifyIndex, FalseNoBuf
<1>5. p.dis = o.dis /\ p.status = o.status
  BY <1>1, <1>4
<1> HIDE DEF p, r
<1>6. p.dec \in Frame => p.dec \in Flagged(o) /\ fbs[p.dec] = "FREE"
  BY <1>1, <1>4 DEF Invisible, Flagged, SaneOutput, Matched
<1>7. Flagged(o) \subseteq {p.dec} \cup pd
  BY <1>1, <1>4 DEF Invisible, Flagged, SaneOutput
<1>8. p.dis \in Frame => p.dis = p.dec \/ p.dis \in pd
  BY <1>1, <1>4 DEF Invisible, SaneOutput
<1>9. Flagged(o) \subseteq Frame
  BY DEF Flagged
<1>10. q = (pd \cup Flagged(o)) \ {o.dis}
  BY DEF StillPending
<1>11. g = IF p.status = "rollback" \/ p.status = "resch"
             THEN NothingShown(p, fbs, fl) ELSE ShowOutput(p, f2, fbs, fl)
  BY DEF VpuGetOutput, p, r
<1> HIDE DEF g, f2
<1>12. CASE p.status = "rollback" \/ p.status = "resch"
  <2>1. o.dec = "UNDEC"
    BY <1>5, <1>12 DEF SaneOutput
  <2>2. Flagged(o) \subseteq pd
    BY <1>4, <1>1, <2>1, <1>7, <1>9
  <2>3. fl = flag
    BY <2>2 DEF Matched
  <2> QED BY <1>10, <1>11, <1>12, <2>2, <2>3 DEF NothingShown, Matched, g
<1>13. CASE ~(p.status = "rollback" \/ p.status = "resch")
  <2>1. \A f \in Frame : fbs[f] = "FREE" <=> f \notin fl \/ f = p.dec
    BY <1>6, <1>7 DEF Matched
  <2>2. \A f \in q \cup ({p.dis} \cap Frame) : f = p.dec \/ fbs[f] = "DEC"
    BY <1>7, <1>8, <1>10 DEF Matched
  <2>3. /\ fl \in SUBSET Frame /\ q \in SUBSET Frame /\ p.dis \notin q
        /\ p.dec \in Frame => p.dec \in fl
    BY <1>5, <1>6, <1>9, <1>10
  <2>4. p.status # "skip"
    BY <1>1, <1>5
  <2>5. Matched(ShowOutput(p, f2, fbs, fl).fbs, ShowOutput(p, f2, fbs, fl).flag, q)
    <3> HIDE DEF fl, q
    <3> QED BY <1>3, <2>1, <2>2, <2>3, <2>4, ShowOutputMatches
  <2> QED BY <1>11, <1>13, <2>5 DEF g
<1> QED
  BY <1>12, <1>13 DEF g

\* VpuDecClearOperationEOStoDEC gives back exactly the frames it makes free.
LEMMA EntriesMatch ==
  ASSUME Inv, Usable, ~CallsFail, codec # "VC1_AP", state \in {"DEC", "STARTFRAMEOK", "EOS"},
         NEW e \in Entries
  PROVE  Matched(e.fbs, e.flag, e.pend)
<1> USE DEF Usable, Live
<1>1. CASE state # "EOS"
  BY <1>1 DEF Entries
<1>2. CASE state = "EOS"
  <2>1. /\ e.fbs = [f \in Frame |-> IF frameBufState[f] = "DEC" THEN "FREE" ELSE frameBufState[f]]
        /\ e.flag = dispFlag \ FramesIn(frameBufState, "DEC") /\ e.pend = {}
    BY <1>2 DEF Entries, FlagsCleared, ClearedAtEOS
  <2> QED BY <1>2, <2>1 DEF Matched, FramesIn, Inv, TypeOK
<1> QED
  BY <1>1, <1>2

\* VpuDecBuf, on any input from any entry.
LEMMA VpuDecBufMatches ==
  ASSUME Inv, ~CallsFail, Sane, codec # "VC1_AP", codec' # "VC1_AP", NEW in, NEW e, EntryOK(e),
         Matched(e.fbs, e.flag, e.pend), VpuDecBuf(in, e)
  PROVE  Usable'
<1> DEFINE enough == VpuBitsBufIsEnough(e.bs, in)
           b      == IF enough THEN VpuFillData(e.bs, in) ELSE e.bs
           used   == IF enough THEN "INPUT_USED" ELSE "INPUT_NOT_USED"
           run    == IF e.state = "DEC" THEN "busy" ELSE vpuRun
<1>1. \/ DecodeCollect(in, e, b, used)
      \/ DecodeStartFails(e, b, used)
      \/ DecodeTimeout(e, b, run, used)
      \/ DecodeOutputFails(e, b, run, used)
      \/ \E r \in OutputResults(e, b) :
           \/ \E n \in r.remaining : DecodeOutput(in, b, used, r.got, r.pend, n)
           \/ \E k \in r.backup : DecodeResolutionChange(used, r.got, k)
           \/ DecodeReopenFails(b, used, r.got)
  BY DEF VpuDecBuf
<1> HIDE DEF b, used, run
<1> USE DEF Usable
<1>2. CASE DecodeCollect(in, e, b, used) \/ DecodeStartFails(e, b, used)
           \/ DecodeTimeout(e, b, run, used) \/ DecodeOutputFails(e, b, run, used)
  <2>1. KeepEntry(e, b) /\ state' \in {"DEC", "STARTFRAMEOK", "CORRUPT"}
    BY <1>2 DEF DecodeCollect, DecodeStartFails, DecodeTimeout, DecodeOutputFails
  <2> QED BY <2>1 DEF KeepEntry
<1>3. ASSUME NEW r \in OutputResults(e, b), NEW n,
             DecodeOutput(in, b, used, r.got, r.pend, n)
      PROVE  Usable'
  <2>1. PICK o \in FirmwareOutputs(e.flag, e.pend, b), filter \in BOOLEAN :
          r = OutputResult(e, b, o, filter)
    BY DEF OutputResults
  <2>2. o \in Outputs /\ SaneOutput(o, e.flag, e.pend, b)
    BY DEF FirmwareOutputs
  <2>3. Matched(r.got.fbs, r.got.flag, r.pend)
    BY <2>1, <2>2, SaneOutputMatches DEF OutputResult, EntryOK
  <2>4. r.got.state \in {"DEC", "OUTOK", "EOS"}
    <3>1. o.dis \in Frame => o.dis \in Flagged(o)
      BY DEF Flagged
    <3>2. e.flag \cup Flagged(o) \in SUBSET Frame
      BY DEF Flagged, EntryOK
    <3> QED BY <2>1, <2>2, <3>1, <3>2, VpuGetOutputKeeps
              DEF OutputResult, EntryOK, Results, Inv, TypeOK
  <2> QED BY <1>3, <2>3, <2>4 DEF DecodeOutput
<1>4. ASSUME NEW g, NEW k, DecodeResolutionChange(used, g, k) PROVE Usable'
  BY <1>4 DEF DecodeResolutionChange, ResetFrames, Live
<1>5. ASSUME NEW g, DecodeReopenFails(b, used, g) PROVE FALSE
  BY <1>5 DEF DecodeReopenFails
<1> QED
  BY <1>1, <1>2, <1>3, <1>4, <1>5

\* VPU_DecDecodeBuf.
LEMMA DecodeBufMatches ==
  ASSUME Inv, Usable, ~CallsFail, Sane, codec' # "VC1_AP", NEW in \in Inputs,
         VPU_DecDecodeBuf(in)
  PROVE  Usable'
<1> USE DEF Usable
<1>1. codec' = codec
  <2>1. ASSUME NEW e, VpuDecBuf(in, e) PROVE codec' = codec
    BY <2>1 DEF VpuDecBuf, KeepEntry, DecodeCollect, DecodeStartFails, DecodeTimeout,
                DecodeOutputFails, DecodeOutput, DecodeResolutionChange, DecodeReopenFails
  <2>2. SeqInit(in) \/ WrongCall \/ (\E e : DecodeNoFrames(e) \/ KeepEntry(e, bs)) => codec' = codec
    BY DEF SeqInit, WrongCall, wrapVars, DecodeNoFrames, KeepEntry
  <2> QED BY <2>1, <2>2 DEF VPU_DecDecodeBuf, wrapVars
<1>2. CASE state = "OPEN" /\ SeqInit(in)
  BY <1>1, <1>2 DEF SeqInit, Live
<1>3. CASE UNCHANGED <<state, frameBufState, dispFlag, pend>>
  BY <1>1, <1>3
<1>4. ASSUME state \in {"DEC", "STARTFRAMEOK", "EOS"}, NEW e \in Entries
      PROVE  EntryOK(e) /\ Matched(e.fbs, e.flag, e.pend)
  BY <1>1, <1>4, EntriesKeep, EntriesMatch
<1>5. ASSUME state \in {"DEC", "STARTFRAMEOK", "EOS"}, NEW e \in Entries, DecodeNoFrames(e)
      PROVE  Usable'
  BY <1>1, <1>4, <1>5 DEF DecodeNoFrames, KeepEntry, EntryOK
<1>6. ASSUME state \in {"DEC", "STARTFRAMEOK", "EOS"}, NEW e \in Entries, VpuDecBuf(in, e)
      PROVE  Usable'
  BY <1>1, <1>4, <1>6, VpuDecBufMatches
<1> QED
  BY <1>2, <1>3, <1>5, <1>6 DEF VPU_DecDecodeBuf, WrongCall, vpuVars, wrapVars

\* VPU_DecFlushAll: what it throws away it gives back.
LEMMA FlushAllMatches ==
  ASSUME Inv, Usable, ~CallsFail, Sane, codec' # "VC1_AP", VPU_DecFlushAll
  PROVE  Usable'
<1> USE DEF Usable, Live
<1>1. codec' = codec
  BY DEF VPU_DecFlushAll
<1>2. CASE UNCHANGED <<state, frameBufState, dispFlag, pend>>
  BY <1>1, <1>2
<1>3. ASSUME NEW fbs, NEW flag, NEW b, FlushFinish(fbs, flag, b), Matched(fbs, flag, {})
      PROVE  Usable'
  BY <1>1, <1>3 DEF FlushFinish
<1>4. CASE state \in {"DEC", "EOS"} /\ FlushFinish(frameBufState, dispFlag, bs)
  BY <1>1, <1>3, <1>4 DEF Matched
<1>5. CASE (state = "STARTFRAMEOK" \/ (state \in {"DEC", "EOS"} /\ ~realWork)) /\ FlushDrive
  <2> DEFINE ended == [StartCodeFilled EXCEPT !.end = TRUE]
  <2>1. \/ \E run : FlushFails("FAILURE_TIMEOUT", frameBufState, dispFlag, pend, ended, run)
        \/ \E b : \E o \in FirmwareOutputs(dispFlag, pend, b) : FlushOutput(o, b)
    BY <1>5, Zenon DEF FlushDrive
  <2> HIDE DEF ended
  <2>2. ASSUME NEW run, FlushFails("FAILURE_TIMEOUT", frameBufState, dispFlag, pend, ended, run)
        PROVE  Usable'
    BY <1>2, <2>2 DEF FlushFails
  <2>3. ASSUME NEW b, NEW o \in FirmwareOutputs(dispFlag, pend, b), FlushOutput(o, b)
        PROVE  Usable'
    <3> DEFINE flag == dispFlag \cup Flagged(o)
               gone == IF o.status = "rollback" THEN {} ELSE {o.dis} \cap Frame
               dec  == IF o.status = "rollback" THEN {} ELSE {o.dec} \cap Frame
               fbs  == [f \in Frame |-> IF f \in gone THEN "FREE" ELSE frameBufState[f]]
    <3>1. FlushFinish(fbs, flag \ (gone \cup dec), b)
      BY <2>3 DEF FlushOutput, FlagsCleared
    <3>2. SaneOutput(o, dispFlag, pend, b)
      BY DEF FirmwareOutputs
    <3>3. Flagged(o) \subseteq gone \cup dec /\ dec \cap dispFlag = {} /\ gone \cup dec \subseteq Frame
      <4>1. o.status = "rollback" => o.dec = "UNDEC" /\ o.dis = "NODIS"
        BY <3>2 DEF SaneOutput
      <4> QED BY <3>2, <4>1 DEF SaneOutput, Flagged
    <3>4. Matched(frameBufState, dispFlag, pend)
      BY <1>1, <1>5
    <3>5. Matched(fbs, flag \ (gone \cup dec), {})
      BY <3>3, <3>4 DEF Matched
    <3> HIDE DEF flag, gone, dec, fbs
    <3> QED BY <1>3, <3>1, <3>5
  <2> QED BY <2>1, <2>2, <2>3
<1>6. CASE state \in {"OPEN", "INITOK", "REGFRMOK"} /\ UNCHANGED <<state, frameBufState, dispFlag, pend>>
  BY <1>2, <1>6
<1> QED
  BY <1>2, <1>4, <1>5, <1>6 DEF VPU_DecFlushAll, vpuVars

\* Whatever is called.
LEMMA StepMatches ==
  ASSUME Accounts, Usable, ~CallsFail, Sane, [Next]_vars
  PROVE  Usable'
<1> SUFFICES ASSUME codec' # "VC1_AP" PROVE Usable'
  BY DEF Usable
<1>0. Inv
  BY DEF Accounts
<1>1. ASSUME NEW in \in Inputs, VPU_DecDecodeBuf(in) PROVE Usable'
  BY <1>0, <1>1, DecodeBufMatches
<1>2. CASE VPU_DecFlushAll
  BY <1>0, <1>2, FlushAllMatches
<1> USE DEF Usable, Live
<1>3. CASE UNCHANGED <<state, codec, frameBufState, dispFlag, pend>>
  BY <1>3
<1>4. CASE VPU_DecGetInitialInfo
  BY <1>4 DEF VPU_DecGetInitialInfo, WrongCall, wrapVars, vpuVars
<1>5. CASE VPU_DecRegisterFrameBuffer
  <2>1. CASE state = "REGFRMOK" /\ state' = "DEC"
    BY <1>5, <2>1 DEF VPU_DecRegisterFrameBuffer, WrongCall, wrapVars, vpuVars, Accounts,
                      NothingToRelease, FramesIn, Matched
  <2> QED BY <1>3, <1>5, <2>1 DEF VPU_DecRegisterFrameBuffer, WrongCall, wrapVars, vpuVars
<1>6. CASE VPU_DecGetOutputFrame
  BY <1>6 DEF VPU_DecGetOutputFrame, WrongCall, wrapVars, vpuVars
<1>7. ASSUME NEW f \in Frame, VPU_DecOutFrameDisplayed(f) PROVE Usable'
  <2>1. state \in Live => frameBufState[f] = "DISP" /\ frameBufState \in FrameStates
    BY <1>0, <1>7 DEF VPU_DecOutFrameDisplayed, Inv, OwnedDisplayed, TypeOK, FrameStates
  <2>2. CASE state \in Live
    <3>1. /\ frameBufState' = [frameBufState EXCEPT ![f] = "FREE"] /\ dispFlag' = dispFlag \ {f}
          /\ UNCHANGED <<state, codec, pend>>
      BY <1>7, <2>1, <2>2 DEF VPU_DecOutFrameDisplayed
    <3> QED BY <2>1, <2>2, <3>1 DEF Matched, FrameStates
  <2>3. CASE state \notin Live
    BY <1>7, <2>3 DEF VPU_DecOutFrameDisplayed
  <2> QED BY <2>2, <2>3
<1>8. CASE Reopen
  BY <1>8 DEF Reopen, ResetFrames
<1>9. CASE UNCHANGED vars
  BY <1>3, <1>9 DEF vars, wrapVars, vpuVars
<1> QED
  BY <1>1, <1>2, <1>4, <1>5, <1>6, <1>7, <1>8, <1>9 DEF Next

\* With a firmware that keeps its own buffers in order, and but for VC1_AP, no flush, drain,
\* dropped picture or resolution change leaks a frame: what is FREE can be decoded into.
THEOREM NoFrameLeaks ==
  ASSUME ~CallsFail
  PROVE  Spec => []FreeMeansUsable
<1>1. Init => (Sane => Usable)
  BY DEF Init, Usable, Live
<1>2. Accounts /\ (Sane => Usable) /\ [Next]_vars => (Sane => Usable)'
  BY StepMatches
<1>3. Accounts /\ (Sane => Usable) => FreeMeansUsable
  BY DEF FreeMeansUsable, Usable, Matched, FramesIn
<1> QED
  BY <1>1, <1>2, <1>3, AccountsInvariance, PTL DEF Spec
=============================================================================
