------------------------------- MODULE DecPlay -------------------------------
(* decode_stream() of decode_stream.c driving one decoder instance: the loop   *)
(* that reads the file, the calls its return codes lead to, end of file,       *)
(* repeated play and the three counters against endless loops, two in the loop *)
(* and one in the wrapper (VpuCheckDeadLoop).  The decoder is VpuDec; its calls *)
(* are taken as they are, each with what the client does next.  A process may  *)
(* play one file after another: the wrapper's counters are static.             *)
EXTENDS VpuDec, Measure

CONSTANTS
  Files,          \* files: [units, tail], full units and bytes (VpuDec's units) after them
  UnitSize,       \* nUnitDataSize
  FrameLimits,    \* nMaxNum: frames to show
  UnitLimits,     \* nUintDataNum: nodes to use; Unlimited when it is never reached
  Unlimited,
  MaxRepeat,      \* nRepeatNum
  Surplus,        \* frames a sequence may need beyond MinFrames, with FRAME_SURPLUS
  Changes,        \* resolution changes a play may meet (bound)
  MaxNotUsed,     \* MAX_NOTUSED_LOOP
  MaxNullData,    \* MAX_NULL_LOOP
  MaxNullRun,     \* VPU_MAX_NULL_LOOP
  MaxInitLoop,    \* initDataCountThd
  MaxInitSize,    \* VPU_MAX_INIT_SIZE
  MaxDecSize      \* VPU_MAX_DEC_SIZE

ASSUME PlayAssumption ==
  /\ {UnitSize, MaxRepeat, Changes, MaxNotUsed, MaxNullData, MaxNullRun, MaxInitLoop,
      MaxInitSize, MaxDecSize} \subseteq Nat
  /\ 0 < UnitSize /\ 1..UnitSize \subseteq Sizes /\ Unlimited \notin Nat
  /\ Files \subseteq [units : Nat, tail : 0..(UnitSize - 1)]
  /\ FrameLimits \subseteq Nat \ {0} /\ Surplus \subseteq Nat
  /\ UnitLimits \subseteq (Nat \ {0}) \cup {Unlimited}

VARIABLES
  pc,        \* the call decode_stream makes next, or done
  setup,     \* what this session was started with
  play,      \* DecodeLoop's locals
  phyNum,    \* DecMemInfo.nPhyNum: memory blocks the client has to free
  dog,       \* the static counters of VpuCheckDeadLoop
  quiet,     \* calls and bytes of this session since the decoder last got anywhere (history)
  carried,   \* the session found the counters running (history)
  blamed     \* VpuCheckDeadLoop made this session fail (history)

playVars == <<vars, pc, setup, play, phyNum, dog, quiet, carried, blamed>>

Still == [calls |-> 0, bytes |-> 0]
Clear == [initSize |-> 0, initLoop |-> 0, decSize |-> 0, nullLoop |-> 0]

Setups ==
  [file : Files, capability : BOOLEAN, frames : FrameLimits, units : UnitLimits]

\* Memory blocks of the wrapper itself, allocated by MallocMemBlock before VPU_DecOpen.
OwnBlocks == 1

-----------------------------------------------------------------------------
(* DecodeLoop: state of a play. *)

\* From RepeatPlay to the loop, and the file sought to its beginning.
RepeatPlay(p, s) ==
  [p EXCEPT !.units = s.file.units, !.tail = s.file.tail, !.fileeos = FALSE,
            !.dispeos = FALSE, !.bufNull = TRUE, !.frames = s.frames, !.nodes = s.units,
            !.told = FALSE, !.met = FALSE, !.fed = 0, !.ended = FALSE]

\* readbytes, bufRetCode and the loop counters are set before RepeatPlay, once.
NoPlay ==
  [units |-> 0, tail |-> 0, fileeos |-> FALSE, dispeos |-> FALSE, bufNull |-> TRUE,
   frames |-> 0, nodes |-> 0, told |-> FALSE, met |-> FALSE, fed |-> 0, ended |-> FALSE,
   readbytes |-> 0, answered |-> FALSE, notUsed |-> 0, nullData |-> 0, repeat |-> 0,
   frmNum |-> 0, changes |-> 0, err |-> FALSE]

FirstPlay(s, n) == RepeatPlay([NoPlay EXCEPT !.repeat = n], s)

LoopGoesOn(p) == ~p.dispeos /\ p.frames # 0 /\ p.nodes # 0

Spent(n) == IF n = Unlimited THEN n ELSE n - 1

\* CHECK_DEAD_LOOP: data the decoder does not take; no data and no valid answer.
Counted(p) ==
  [p EXCEPT !.notUsed  = IF p.bufNull THEN 0 ELSE @ + 1,
            !.nullData = IF p.readbytes = 0 /\ ~p.answered THEN @ + 1 ELSE 0]

Hangs_Data(p) == p.nullData > MaxNullData
Hangs(p) == p.notUsed > MaxNotUsed \/ p.nullData > MaxNullData

\* The next node: the last one again until it is used, then the next unit of the file or, after
\* a short read, no data.  `met' says that totalDecConsumedBytes equals the size of the unit
\* read: it may once something has been reported as consumed (told).
Reads_NoWait(p) ==
  LET n == IF p.units > 0 THEN UnitSize ELSE p.tail
  IN IF p.fileeos THEN {[p EXCEPT !.readbytes = 0, !.bufNull = TRUE]}
     ELSE IF ~p.bufNull THEN {p}
     ELSE {[p EXCEPT !.units = IF p.units > 0 THEN @ - 1 ELSE 0,
                     !.tail  = IF p.units > 0 THEN @ ELSE 0,
                     !.readbytes = n, !.fileeos = n # UnitSize, !.bufNull = FALSE,
                     !.met = m] : m \in IF p.told THEN BOOLEAN ELSE {n = 0}}
Reads(p) ==
  LET n == IF p.units > 0 THEN UnitSize ELSE p.tail
  IN IF ~p.bufNull THEN {p}
     ELSE IF p.fileeos THEN {[p EXCEPT !.readbytes = 0]}
     ELSE {[p EXCEPT !.units = IF p.units > 0 THEN @ - 1 ELSE 0,
                     !.tail  = IF p.units > 0 THEN @ ELSE 0,
                     !.readbytes = n, !.fileeos = n # UnitSize, !.bufNull = FALSE,
                     !.met = m] : m \in IF p.told THEN BOOLEAN ELSE {n = 0}}

Node(p) == IF p.met THEN Eos ELSE [ptr |-> TRUE, size |-> p.readbytes]

\* What a successful VPU_DecDecodeBuf does to the locals.
Answer(p, in, flags) ==
  LET used == "INPUT_USED" \in flags
  IN [p EXCEPT !.bufNull  = used \/ @,
               !.nodes    = IF used THEN Spent(@) ELSE @,
               !.answered = flags \cap {"EOS", "DIS", "NODIS", "DROPPED"} # {},
               !.dispeos  = "EOS" \in flags,
               !.changes  = IF "RESOLUTION_CHANGED" \in flags THEN @ + 1 ELSE @,
               !.fed      = IF used /\ in.size > 0 THEN @ + in.size ELSE @,
               !.ended    = @ \/ in.size = 0]

\* VPU_DecGetConsumedFrameInfo, when the node or a frame was consumed (external figures).
Consumed(p, flags) ==
  IF ~setup.capability THEN {p}
  ELSE {[p EXCEPT !.told = TRUE, !.met = m] : m \in BOOLEAN}
         \cup IF "NO_ENOUGH_INBUF" \in flags THEN {} ELSE {p}

AfterDecode_NoMosaic(flags) ==
  IF flags \cap {"INIT_OK", "RESOLUTION_CHANGED"} # {} THEN "getinfo"
  ELSE IF "DIS" \in flags THEN "fetch" ELSE "decode"
AfterDecode(flags) ==
  IF flags \cap {"INIT_OK", "RESOLUTION_CHANGED"} # {} THEN "getinfo"
  ELSE IF flags \cap {"DIS", "MOSAIC_DIS"} # {} THEN "fetch" ELSE "decode"

\* FreeMemBlockFrame: the last blocks are the frames.
FreeMemBlockFrame_AllButOne(p, flags) ==
  IF "RESOLUTION_CHANGED" \in flags THEN phyNum - (p.frmNum - 1) ELSE phyNum
FreeMemBlockFrame(p, flags) ==
  IF "RESOLUTION_CHANGED" \in flags THEN phyNum - p.frmNum ELSE phyNum

-----------------------------------------------------------------------------
(* The wrapper's watchdog. *)

\* Sums are only compared with their limits: they stop one above.
Sum(a, b, limit) == IF a + b > limit THEN limit + 1 ELSE a + b

\* The counters after a call with node `in' that left the instance in state st.
CountLoop_NullRunStays(st, in, used) ==
  LET size == IF used THEN in.size ELSE 0
      cnt  == IF size > 0 \/ in.ptr THEN 1 ELSE 0
      null == Sum(dog.nullLoop, 1, MaxNullRun)
  IN CASE st = "OPEN" ->
            [dog EXCEPT !.initSize = Sum(@, size, MaxInitSize),
                        !.initLoop = Sum(@, cnt, MaxInitLoop), !.nullLoop = null]
       [] st \in {"DEC", "STARTFRAMEOK"} ->
            [dog EXCEPT !.decSize = Sum(@, size, MaxDecSize), !.nullLoop = null]
       [] OTHER -> [Clear EXCEPT !.nullLoop = dog.nullLoop]
CountLoop(st, in, used) ==
  LET size == IF used THEN in.size ELSE 0
      cnt  == IF size > 0 \/ in.ptr THEN 1 ELSE 0
      null == Sum(dog.nullLoop, 1, MaxNullRun)
  IN CASE st = "OPEN" ->
            [dog EXCEPT !.initSize = Sum(@, size, MaxInitSize),
                        !.initLoop = Sum(@, cnt, MaxInitLoop), !.nullLoop = null]
       [] st \in {"DEC", "STARTFRAMEOK"} ->
            [dog EXCEPT !.decSize = Sum(@, size, MaxDecSize), !.nullLoop = null]
       [] OTHER -> Clear

DeadLoop_NoNullRun(d) ==
  d.decSize > MaxDecSize \/ d.initSize > MaxInitSize \/ d.initLoop > MaxInitLoop
DeadLoop(d) ==
  \/ d.decSize > MaxDecSize \/ d.initSize > MaxInitSize
  \/ d.initLoop > MaxInitLoop \/ d.nullLoop > MaxNullRun

\* "clear 0 for all count" leaves total_null_loop as it is.
VpuCheckDeadLoop(d) == IF DeadLoop(d) THEN [Clear EXCEPT !.nullLoop = d.nullLoop] ELSE d

\* Returns from inside the switch do not reach the watchdog.
ReachesWatchdog(r) ==
  /\ r.code \notin {"FAILURE_TIMEOUT", "WRONG_CALL_SEQUENCE"}
  /\ r.flags \cap {"INPUT_USED", "INPUT_NOT_USED"} # {}

-----------------------------------------------------------------------------
(* The calls of decode_stream. *)

Goes(to) == pc' = to
Fails(p) == pc' = "close" /\ play' = [p EXCEPT !.err = TRUE]
KeepDog  == UNCHANGED <<setup, dog, quiet, carried, blamed>>

\* The loop ends, or one of the client's own counters says that the decoder hangs.
LeaveLoop ==
  /\ pc = "decode"
  /\ \/ ~LoopGoesOn(play) /\ Goes("flush") /\ UNCHANGED play
     \/ LoopGoesOn(play) /\ Hangs(Counted(play)) /\ Fails(Counted(play))
  /\ UNCHANGED <<vars, phyNum>> /\ KeepDog

\* The silence of this session; of no interest when the counters were not its own.
Quiet(r, in, used) ==
  IF carried \/ r.flags \cap {"INIT_OK", "RESOLUTION_CHANGED", "DIS", "MOSAIC_DIS", "EOS"} # {} THEN Still
  ELSE [calls |-> Sum(quiet.calls, 1, MaxNullRun),
        bytes |-> Sum(quiet.bytes, IF used THEN in.size ELSE 0, MaxDecSize)]

\* One turn of the loop up to VPU_DecDecodeBuf, and what it makes of the return code.
DecodeBuf ==
  /\ pc = "decode" /\ LoopGoesOn(play) /\ ~Hangs(Counted(play))
  /\ \E p \in Reads(Counted(play)) :
       LET in   == Node(p)
           used == "INPUT_USED" \in ret'.flags
           d    == CountLoop(state', in, used)
           dead == ReachesWatchdog(ret') /\ DeadLoop(d)
       IN /\ VPU_DecDecodeBuf(in)
          /\ "RESOLUTION_CHANGED" \in ret'.flags => play.changes < Changes
          /\ dog' = IF ReachesWatchdog(ret') THEN VpuCheckDeadLoop(d) ELSE dog
          /\ quiet' = Quiet(ret', in, used)
          /\ blamed' = dead
          /\ UNCHANGED <<setup, carried>>
          /\ IF ret'.code # "SUCCESS" \/ dead
               THEN Fails(p) /\ UNCHANGED phyNum
               ELSE /\ play' \in Consumed(Answer(p, in, ret'.flags), ret'.flags)
                    /\ phyNum' = FreeMemBlockFrame(p, ret'.flags)
                    /\ Goes(AfterDecode(ret'.flags))

\* ProcessInitInfo up to the registration: memory for some or all of the frames.
GetInitialInfo ==
  /\ pc = "getinfo" /\ VPU_DecGetInitialInfo /\ KeepDog
  /\ \E n \in {MinFrames + s : s \in Surplus} :
       \/ /\ ret'.code = "SUCCESS"
          /\ phyNum' = phyNum + n
          /\ play' = [play EXCEPT !.frmNum = n] /\ Goes("register")
       \/ /\ ret'.code # "SUCCESS" \/ CallsFail
          /\ phyNum' \in {phyNum, phyNum + n - 1}
          /\ Fails(play)

RegisterFrameBuffer ==
  /\ pc = "register" /\ VPU_DecRegisterFrameBuffer /\ KeepDog /\ UNCHANGED phyNum
  /\ IF ret'.code = "SUCCESS" THEN Goes("decode") /\ UNCHANGED play ELSE Fails(play)

GetOutputFrame ==
  /\ pc = "fetch" /\ VPU_DecGetOutputFrame /\ KeepDog /\ UNCHANGED phyNum
  /\ IF ret'.code = "SUCCESS"
       THEN Goes("display") /\ play' = [play EXCEPT !.frames = @ - 1]
       ELSE Fails(play)

OutFrameDisplayed ==
  /\ pc = "display" /\ \E f \in Frame : VPU_DecOutFrameDisplayed(f)
  /\ KeepDog /\ UNCHANGED phyNum
  /\ IF ret'.code = "SUCCESS" THEN Goes("decode") /\ UNCHANGED play ELSE Fails(play)

FlushAll ==
  /\ pc = "flush" /\ VPU_DecFlushAll /\ KeepDog /\ UNCHANGED phyNum
  /\ IF ret'.code # "SUCCESS" THEN Fails(play)
     ELSE IF play.repeat > 0
       THEN Goes("decode") /\ play' = RepeatPlay([play EXCEPT !.repeat = @ - 1], setup)
       ELSE Goes("close") /\ UNCHANGED play

\* VPU_DecReset after an error, VPU_DecClose, FreeMemBlock.  The instance of the next session
\* is as VPU_DecOpen makes it; only the static counters remain.
Close ==
  /\ pc = "close" /\ Goes("done") /\ Reopen
  /\ play' = NoPlay /\ phyNum' = 0
  /\ quiet' = Still /\ carried' = FALSE /\ blamed' = FALSE
  /\ UNCHANGED <<setup, dog>>

\* The next file.
Open ==
  /\ pc = "done" /\ Goes("decode")
  /\ setup' \in Setups
  /\ \E n \in 0..MaxRepeat : play' = FirstPlay(setup', n)
  /\ phyNum' = OwnBlocks /\ carried' = (dog # Clear)
  /\ UNCHANGED <<vars, dog, quiet, blamed>>

PlayInit ==
  /\ Init
  /\ pc = "decode"
  /\ setup \in Setups
  /\ \E n \in 0..MaxRepeat : play = FirstPlay(setup, n)
  /\ phyNum = OwnBlocks
  /\ dog = Clear /\ quiet = Still /\ carried = FALSE /\ blamed = FALSE

Step ==
  \/ LeaveLoop \/ DecodeBuf \/ GetInitialInfo \/ RegisterFrameBuffer
  \/ GetOutputFrame \/ OutFrameDisplayed \/ FlushAll \/ Close

PlayNext == Step \/ Open

\* decode_stream is one thread that waits for nothing but the call it is in, and every call
\* returns; a next file need not come.  This is WF_playVars(Step), in a form TLC evaluates
\* quickly: until `done' a Step is enabled, and only a Step can be taken.
Fairness == []<>(pc = "done") \/ []<><<pc # "done">>_playVars

PlaySpec == PlayInit /\ [][PlayNext]_playVars /\ Fairness

-----------------------------------------------------------------------------
(* Properties. *)

\* Types, and the limits of every counter: a call is made only while no limit is passed.
PlayTypeOK ==
  /\ pc \in {"decode", "getinfo", "register", "fetch", "display", "flush", "close", "done"}
  /\ setup \in Setups
  /\ play.readbytes \in 0..UnitSize /\ play.frames \in Nat
  /\ play.notUsed \in 0..(MaxNotUsed + 1) /\ play.nullData \in 0..(MaxNullData + 1)
  /\ pc \notin {"close", "done"} => ~Hangs(play) /\ ~play.err
  /\ phyNum \in Nat
  /\ dog \in [initSize : 0..MaxInitSize, initLoop : 0..MaxInitLoop, decSize : 0..MaxDecSize,
             nullLoop : 0..(MaxNullRun + 1)]
  /\ carried \in BOOLEAN /\ blamed \in BOOLEAN

\* Whatever the VPU answers, a session ends: data never taken, silence after the end of the
\* file, and answers that lead nowhere are each cut off by one of the three counters
\* (decode_stream.c:1074-1104, vpu_wrapper.c:4527).
PlayEnds == pc # "done" ~> pc = "done"

\* The client's dispatch (decode_stream.c:1215-1325) and the wrapper's state machine agree:
\* through initialisation, resolution change, end of stream, flush and repeat it makes no call
\* out of sequence.
NoCallOutOfSequence == ret.code # "WRONG_CALL_SEQUENCE"

\* While the decoder works with registered frames the client owns memory for exactly those, and
\* the wrapper's own block: FreeMemBlockFrame, which frees the last blocks of a list, takes
\* neither too many nor too few on a resolution change.
LiveFramesBacked ==
  state \in Live /\ pc # "done" /\ ~play.err => phyNum = OwnBlocks + play.frmNum

\* Without the account of consumed bytes the end of stream is given only when every byte of the
\* file has been taken, once.  (With it, decode_stream.c:1148 may end early.)
EndMeansAll ==
  play.ended /\ ~setup.capability /\ ~play.err =>
    play.fed = setup.file.units * UnitSize + setup.file.tail

\* A session that found the watchdog's counters at rest is failed by it only after it was itself
\* silent for too long: no picture, initialisation or end of stream in so many calls or bytes.
BlamedForOwnSilence ==
  blamed /\ ~carried =>
    \/ quiet.calls > MaxNullRun \/ quiet.bytes > MaxDecSize
    \/ state = "OPEN" /\ (quiet.calls > MaxInitLoop \/ quiet.bytes > MaxInitSize)

\* What a session has left: plays of the file; initialisations, frames to show and ends of stream
\* to be told of; units to read; turns in which the node may be refused; the calls that follow an
\* answer; and empty calls the watchdog bears.  Later numbers start anew when an earlier one falls.
Flag(b) == IF b THEN 1 ELSE 0

PlaysLeft == CASE pc = "done" -> 0 [] pc = "close" -> 1 [] OTHER -> 2 + play.repeat
NewsLeft ==
  Flag(state = "OPEN") + (Changes - play.changes)
    + (play.frames - Flag(pc = "fetch")) + Flag(~play.dispeos)
UnitsLeft    == IF play.fileeos THEN 0 ELSE play.units + 1
RefusalsLeft == IF play.bufNull THEN 0 ELSE 2 + MaxNotUsed - play.notUsed
CallsLeft ==
  CASE pc = "getinfo" -> 5 [] pc = "register" -> 4 [] pc = "fetch" -> 3 [] pc = "display" -> 2
    [] pc = "decode" -> 1 [] OTHER -> 0
SilenceLeft == 1 + MaxNullRun - dog.nullLoop

SessionLeft == <<PlaysLeft, NewsLeft, UnitsLeft, RefusalsLeft, CallsLeft, SilenceLeft>>

\* Whatever the decoder answers, each call takes the session nearer to its end: data refused,
\* answers that show nothing and silence after the end of the file all use up something that is
\* given back only when more important work is done (decode_stream.c:1074-1104,
\* vpu_wrapper.c:4527).  Counters a session found running are enough too.
SessionAdvances == [][pc # "done" => Decreases(6, SessionLeft', SessionLeft)]_playVars

=============================================================================
