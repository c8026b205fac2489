---------------------------- MODULE DecPlayProofs ----------------------------
(* Theorems of DecPlay, for every file, every limit and every answer of the    *)
(* decoder.                                                                    *)
EXTENDS DecPlay, VpuDecAccounts, VpuDecRefines, VpuDecCodes

Plays ==
  [units : Nat, tail : 0..(UnitSize - 1), fileeos : BOOLEAN, dispeos : BOOLEAN, bufNull : BOOLEAN,
   frames : Nat, nodes : Nat \cup {Unlimited}, told : BOOLEAN, met : BOOLEAN, fed : Nat,
   ended : BOOLEAN, readbytes : 0..UnitSize, answered : BOOLEAN, notUsed : Nat, nullData : Nat,
   repeat : Nat, frmNum : Nat, changes : Nat, err : BOOLEAN]

Dogs ==
  [initSize : 0..MaxInitSize, initLoop : 0..MaxInitLoop, decSize : 0..MaxDecSize,
   nullLoop : 0..(MaxNullRun + 1)]
Quiets == [calls : 0..(MaxNullRun + 1), bytes : 0..(MaxDecSize + 1)]

Active == pc \notin {"close", "done"}

-----------------------------------------------------------------------------
(* The inductive invariant, in parts. *)

\* Types, and the counters within their limits whenever a call is made.
Typed ==
  /\ PlayTypeOK
  /\ play \in Plays
  /\ quiet \in Quiets
  /\ pc = "fetch" => play.frames # 0
  /\ pc # "close" => ~blamed
  /\ pc = "done" => quiet = Still /\ play = NoPlay

\* Each call is made in a state it may be made in.
InSequence ==
  /\ NoCallOutOfSequence
  /\ pc \in {"decode", "flush"} => state \notin {"INITOK", "REGFRMOK", "OUTOK"}
  /\ pc = "getinfo" => state = "INITOK"
  /\ pc = "register" => state = "REGFRMOK"
  /\ pc = "fetch" => state = "OUTOK"
  /\ pc = "display" => state = "DEC"
  /\ pc = "done" => state = "OPEN"

\* The blocks the client owns: its own and the frames, but for the time between their release on
\* a resolution change and the next initialisation.
Blocks ==
  /\ pc \in {"decode", "register", "fetch", "display", "flush"} => phyNum = OwnBlocks + play.frmNum
  /\ pc = "close" /\ ~play.err => phyNum = OwnBlocks + play.frmNum
  /\ pc = "getinfo" => phyNum = OwnBlocks
  /\ Active /\ state = "OPEN" => play.frmNum = 0

Pending(p) == IF p.bufNull THEN 0 ELSE p.readbytes
FileSize == setup.file.units * UnitSize + setup.file.tail

\* The bytes of the file are taken, in the client's buffer, or still unread; the end of the file
\* is the end of all of them.
FileKept(p) ==
  /\ p.fileeos => p.units = 0 /\ p.tail = 0
  /\ p.tail < UnitSize
  /\ ~setup.capability =>
       /\ ~p.told
       /\ p.met => p.readbytes = 0
       /\ ~p.bufNull /\ p.readbytes = 0 => p.fileeos
       /\ p.fed + Pending(p) + p.units * UnitSize + p.tail = FileSize
       /\ p.ended => p.fileeos /\ Pending(p) = 0

\* Counters that started at rest count no more than the session's own silence q.
Own(d, q) ==
  /\ d.nullLoop <= q.calls /\ d.decSize <= q.bytes
  /\ d.initLoop <= q.calls \/ q.calls > MaxNullRun
  /\ d.initSize <= q.bytes \/ q.bytes > MaxDecSize

DogsOwn ==
  Active /\ ~carried =>
    /\ Own(dog, quiet)
    /\ state # "OPEN" => dog.initLoop = 0 /\ dog.initSize = 0

PlayInv ==
  /\ Typed /\ InSequence /\ Blocks /\ DogsOwn /\ BlamedForOwnSilence
  /\ pc # "done" /\ ~play.err => FileKept(play)

-----------------------------------------------------------------------------
(* The client's locals. *)

\* What the proofs need of the constants.
LEMMA Limits ==
  /\ UnitSize \in Nat /\ 0 < UnitSize /\ 1..UnitSize \subseteq Sizes /\ 0 \in 0..UnitSize
  /\ MaxNotUsed \in Nat /\ MaxNullData \in Nat /\ MaxNullRun \in Nat /\ MaxInitLoop \in Nat
  /\ MaxInitSize \in Nat /\ MaxDecSize \in Nat /\ MaxRepeat \in Nat
  /\ MinFrames \in Nat /\ Surplus \subseteq Nat /\ Unlimited \notin Nat
BY PlayAssumption, SizeAssumption

\* What a session was started with.
LEMMA SetupTypes ==
  ASSUME NEW s \in Setups
  PROVE  /\ s.file.units \in Nat /\ s.file.tail \in Nat /\ s.file.tail < UnitSize
         /\ s.frames \in Nat \ {0} /\ s.units \in Nat \cup {Unlimited} /\ s.capability \in BOOLEAN
         /\ s.file.units * UnitSize \in Nat
<1>1. s.file \in [units : Nat, tail : 0..(UnitSize - 1)]
  BY PlayAssumption DEF Setups
<1>2. s.file.units \in Nat /\ s.file.tail \in Nat /\ s.file.tail < UnitSize
  BY <1>1, Limits
<1>3. s.frames \in Nat \ {0} /\ s.units \in Nat \cup {Unlimited} /\ s.capability \in BOOLEAN
  BY PlayAssumption DEF Setups
<1>4. s.file.units * UnitSize \in Nat
  BY <1>2, Limits
<1> QED BY <1>2, <1>3, <1>4

\* A play starts with the whole file unread.
Fresh(q, s) ==
  /\ q.units = s.file.units /\ q.tail = s.file.tail /\ q.frames = s.frames
  /\ ~q.fileeos /\ q.bufNull /\ ~q.told /\ ~q.met /\ q.fed = 0 /\ ~q.ended

\* RepeatPlay keeps the loop's counters and the frames registered.
LEMMA RepeatPlayFresh ==
  ASSUME NEW p \in Plays, NEW s \in Setups
  PROVE  LET q == RepeatPlay(p, s)
         IN /\ q \in Plays /\ Fresh(q, s) /\ q.notUsed = p.notUsed /\ q.nullData = p.nullData
            /\ q.err = p.err /\ q.frmNum = p.frmNum /\ q.readbytes = p.readbytes
<1>1. /\ s.file.units \in Nat /\ s.file.tail \in Nat /\ s.file.tail < UnitSize
      /\ s.frames \in Nat \ {0} /\ s.units \in Nat \cup {Unlimited}
  BY SetupTypes
<1>2. s.file.tail \in 0..(UnitSize - 1)
  BY <1>1, Limits
<1>3. RepeatPlay(p, s) \in Plays
  BY <1>1, <1>2 DEF RepeatPlay, Plays
<1> QED
  BY <1>1, <1>3 DEF RepeatPlay, Plays, Fresh

\* A file wholly unread is accounted for.
LEMMA FreshKept ==
  ASSUME setup \in Setups, NEW q, Fresh(q, setup)
  PROVE  FileKept(q)
<1>1. /\ setup.file.units \in Nat /\ setup.file.tail \in Nat /\ setup.file.tail < UnitSize
      /\ setup.file.units * UnitSize \in Nat
  BY SetupTypes
<1> QED
  BY <1>1 DEF Fresh, FileKept, Pending, FileSize

\* The first play of a session.
LEMMA NoPlayType ==
  /\ NoPlay \in Plays
  /\ \A n \in Nat : LET p == [NoPlay EXCEPT !.repeat = n]
                    IN /\ p \in Plays /\ p.notUsed = 0 /\ p.nullData = 0
                       /\ ~p.err /\ p.frmNum = 0 /\ p.readbytes = 0
<1>1. 0 \in 0..UnitSize /\ 0 \in 0..(UnitSize - 1)
  BY Limits
<1> QED BY <1>1 DEF NoPlay, Plays

\* Counting a turn of the loop.
LEMMA CountedKeeps ==
  ASSUME NEW p \in Plays, ~Hangs(p)
  PROVE  LET q == Counted(p)
         IN /\ q \in Plays /\ q.notUsed <= MaxNotUsed + 1 /\ q.nullData <= MaxNullData + 1
            /\ q.frmNum = p.frmNum /\ q.err = p.err /\ q.frames = p.frames
            /\ q.readbytes = p.readbytes /\ q.nodes = p.nodes
            /\ FileKept(p) => FileKept(q)
<1> DEFINE q == Counted(p)
           a == IF p.bufNull THEN 0 ELSE p.notUsed + 1
           b == IF p.readbytes = 0 /\ ~p.answered THEN p.nullData + 1 ELSE 0
<1>1. q = [p EXCEPT !.notUsed = a, !.nullData = b]
  BY DEF Counted
<1>2. /\ p.notUsed \in Nat /\ p.nullData \in Nat
      /\ p.notUsed <= MaxNotUsed /\ p.nullData <= MaxNullData
  BY Limits DEF Plays, Hangs
<1>3. a \in Nat /\ a <= MaxNotUsed + 1 /\ b \in Nat /\ b <= MaxNullData + 1
  BY <1>2, Limits
<1> HIDE DEF a, b
<1>4. q \in Plays
  BY <1>1, <1>3 DEF Plays
<1>5. /\ q.notUsed = a /\ q.nullData = b
      /\ q.frmNum = p.frmNum /\ q.err = p.err /\ q.frames = p.frames
      /\ q.units = p.units /\ q.tail = p.tail /\ q.fileeos = p.fileeos
      /\ q.bufNull = p.bufNull /\ q.told = p.told /\ q.met = p.met /\ q.fed = p.fed
      /\ q.ended = p.ended /\ q.readbytes = p.readbytes /\ q.nodes = p.nodes
  BY <1>1 DEF Plays
<1> HIDE DEF q
<1>6. FileKept(p) => FileKept(q)
  BY <1>5 DEF FileKept, Pending
<1>7. /\ q \in Plays /\ q.notUsed <= MaxNotUsed + 1 /\ q.nullData <= MaxNullData + 1
      /\ q.frmNum = p.frmNum /\ q.err = p.err /\ q.frames = p.frames
      /\ q.readbytes = p.readbytes /\ q.nodes = p.nodes
      /\ FileKept(p) => FileKept(q)
  BY <1>3, <1>4, <1>5, <1>6
<1> QED
  BY <1>7 DEF q

\* The next node is the last one, no data, or the next unit of the file.
LEMMA ReadsKeep ==
  ASSUME NEW p \in Plays, setup \in Setups, NEW q \in Reads(p)
  PROVE  /\ q \in Plays /\ q.notUsed = p.notUsed /\ q.nullData = p.nullData
         /\ q.frmNum = p.frmNum /\ q.err = p.err /\ q.frames = p.frames /\ q.nodes = p.nodes
         /\ Node(q) \in Inputs
         /\ FileKept(p) =>
              /\ FileKept(q)
              /\ ~setup.capability => /\ Node(q).size = q.readbytes
                                      /\ q.readbytes = 0 => q.fileeos
                                      /\ q.bufNull => q.readbytes = 0
<1> DEFINE n == IF p.units > 0 THEN UnitSize ELSE p.tail
           Same == /\ q.notUsed = p.notUsed /\ q.nullData = p.nullData
                   /\ q.frmNum = p.frmNum /\ q.err = p.err /\ q.frames = p.frames
                   /\ q.nodes = p.nodes
           End  == ~setup.capability => /\ q.met => q.readbytes = 0
                                        /\ q.readbytes = 0 => q.fileeos
                                        /\ q.bufNull => q.readbytes = 0
           Goal == q \in Plays /\ Same /\ (FileKept(p) => FileKept(q) /\ End)
<1>1. /\ p.units \in Nat /\ p.tail \in 0..(UnitSize - 1) /\ p.fed \in Nat
      /\ p.readbytes \in 0..UnitSize
  BY DEF Plays
<1>2. ASSUME ~p.bufNull PROVE Goal
  <2>1. q = p
    BY <1>2 DEF Reads
  <2> QED BY <1>2, <2>1 DEF FileKept
<1>3. ASSUME p.bufNull, p.fileeos PROVE Goal
  <2>1. q = [p EXCEPT !.readbytes = 0]
    BY <1>3 DEF Reads
  <2>2. q \in Plays /\ Same
    BY <2>1, Limits DEF Plays
  <2>3. /\ q.units = p.units /\ q.tail = p.tail /\ q.fileeos = p.fileeos
        /\ q.bufNull = p.bufNull /\ q.told = p.told /\ q.met = p.met /\ q.fed = p.fed
        /\ q.ended = p.ended /\ q.readbytes = 0
    BY <2>1 DEF Plays
  <2>4. FileKept(p) => FileKept(q) /\ End
    BY <1>3, <2>3 DEF FileKept, Pending
  <2> QED BY <2>2, <2>4
<1>4. ASSUME p.bufNull, ~p.fileeos PROVE Goal
  <2> DEFINE u == IF p.units > 0 THEN p.units - 1 ELSE 0
             t == IF p.units > 0 THEN p.tail ELSE 0
  <2>1. PICK m \in IF p.told THEN BOOLEAN ELSE {n = 0} :
          q = [p EXCEPT !.units = u, !.tail = t, !.readbytes = n, !.fileeos = n # UnitSize,
                        !.bufNull = FALSE, !.met = m]
    BY <1>4 DEF Reads
  <2>2. m \in BOOLEAN /\ (~p.told => (m <=> n = 0))
    BY <2>1
  <2>3. u \in Nat /\ t \in 0..(UnitSize - 1)
    BY <1>1, Limits
  <2>4. n \in 0..UnitSize
    BY <1>1, Limits
  <2>5. /\ q.units = u /\ q.tail = t /\ (q.fileeos <=> n # UnitSize)
        /\ ~q.bufNull /\ q.told = p.told /\ (q.met <=> m)
        /\ q.fed = p.fed /\ q.ended = p.ended /\ q.readbytes = n /\ Same
    <3> HIDE DEF n, u, t
    <3> QED BY <2>1, <2>2 DEF Plays
  <2>6. q \in Plays
    <3> HIDE DEF n, u, t
    <3> QED BY <2>1, <2>2, <2>3, <2>4 DEF Plays
  <2>7. ASSUME FileKept(p) PROVE FileKept(q) /\ End
    <3>1. p.tail < UnitSize /\ (~setup.capability => ~p.told /\ ~p.ended)
      BY <1>4, <2>7 DEF FileKept
    <3>2. CASE p.units > 0
      <4> DEFINE v == (p.units - 1) * UnitSize
      <4>1. v \in Nat /\ p.units * UnitSize = v + UnitSize /\ q.units * UnitSize = v
        BY <1>1, <2>5, <3>2, Limits
      <4>2. n = UnitSize /\ t = p.tail
        BY <3>2
      <4>3. /\ q.readbytes = UnitSize /\ q.readbytes # 0 /\ ~q.fileeos /\ q.tail = p.tail
            /\ Pending(q) = UnitSize /\ Pending(p) = 0
            /\ ~setup.capability => ~q.told /\ ~q.met /\ ~q.ended
        BY <1>4, <2>2, <2>5, <3>1, <4>2, Limits DEF Pending
      <4> HIDE DEF v, n, u, t
      <4>4. ~setup.capability => p.fed + 0 + (v + UnitSize) + p.tail = FileSize
        BY <2>7, <4>1, <4>3 DEF FileKept
      <4>5. ~setup.capability => q.fed + Pending(q) + q.units * UnitSize + q.tail = FileSize
        BY <1>1, <2>5, <4>1, <4>3, <4>4, Limits
      <4> QED BY <2>5, <3>1, <4>3, <4>5, Limits DEF FileKept
    <3>3. CASE p.units = 0
      <4>1. n = p.tail /\ t = 0 /\ u = 0 /\ p.units * UnitSize = 0 /\ q.units * UnitSize = 0
        BY <2>5, <3>3, Limits
      <4> HIDE DEF n, u, t
      <4>2. /\ q.readbytes = p.tail /\ q.fileeos /\ q.tail = 0 /\ q.units = 0
            /\ Pending(q) = p.tail /\ Pending(p) = 0
            /\ ~setup.capability => ~q.told /\ (q.met => p.tail = 0) /\ ~q.ended
        BY <1>1, <1>4, <2>2, <2>5, <3>1, <4>1, Limits DEF Pending
      <4>3. ~setup.capability => p.fed + 0 + 0 + p.tail = FileSize
        BY <2>7, <4>1, <4>2 DEF FileKept
      <4>4. ~setup.capability => q.fed + Pending(q) + q.units * UnitSize + q.tail = FileSize
        BY <1>1, <2>5, <4>1, <4>2, <4>3, Limits
      <4> QED BY <2>5, <4>2, <4>4, Limits DEF FileKept
    <3> QED BY <1>1, <3>2, <3>3
  <2> QED BY <2>5, <2>6, <2>7
<1>5. Goal
  <2> HIDE DEF Goal
  <2> QED BY <1>2, <1>3, <1>4
<1> HIDE DEF Same
<1>6. Node(q) = IF q.met THEN Eos ELSE [ptr |-> TRUE, size |-> q.readbytes]
  BY DEF Node
<1>7. q.readbytes \in 0..UnitSize
  BY <1>5 DEF Plays
<1>8. Node(q) \in Inputs
  <2>1. CASE q.met \/ q.readbytes = 0
    BY <1>6, <2>1 DEF Inputs, Eos
  <2>2. CASE ~q.met /\ q.readbytes # 0
    <3>1. q.readbytes \in Sizes
      BY <1>7, <2>2, Limits
    <3> QED BY <1>6, <2>2, <3>1 DEF Inputs
  <2> QED BY <2>1, <2>2
<1>9. (q.met => q.readbytes = 0) => Node(q).size = q.readbytes
  BY <1>6 DEF Eos
<1> QED
  BY <1>5, <1>8, <1>9 DEF Same

\* What the answer says of the node.
LEMMA AnswerKeeps ==
  ASSUME NEW p \in Plays, NEW in, NEW flags, in.size \in Nat, p.nodes # 0
  PROVE  LET q == Answer(p, in, flags)
         IN /\ q \in Plays /\ q.notUsed = p.notUsed /\ q.nullData = p.nullData
            /\ q.frmNum = p.frmNum /\ q.err = p.err /\ q.frames = p.frames
            /\ q.readbytes = p.readbytes
            /\ FileKept(p)
               /\ (~setup.capability => /\ in.size = p.readbytes
                                        /\ p.readbytes = 0 => p.fileeos
                                        /\ p.bufNull => p.readbytes = 0)
               => FileKept(q)
<1> DEFINE used == "INPUT_USED" \in flags
           q    == Answer(p, in, flags)
           null == used \/ p.bufNull
           node == IF used THEN Spent(p.nodes) ELSE p.nodes
           ans  == flags \cap {"EOS", "DIS", "NODIS", "DROPPED"} # {}
           eos  == "EOS" \in flags
           chg  == IF "RESOLUTION_CHANGED" \in flags THEN p.changes + 1 ELSE p.changes
           fed  == IF used /\ in.size > 0 THEN p.fed + in.size ELSE p.fed
           end  == p.ended \/ in.size = 0
           Kept == /\ q.notUsed = p.notUsed /\ q.nullData = p.nullData
                   /\ q.frmNum = p.frmNum /\ q.err = p.err /\ q.frames = p.frames
                   /\ q.readbytes = p.readbytes
<1>1. q = [p EXCEPT !.bufNull = null, !.nodes = node, !.answered = ans, !.dispeos = eos,
                    !.changes = chg, !.fed = fed, !.ended = end]
  BY DEF Answer
<1>2. /\ p.units \in Nat /\ p.tail \in 0..(UnitSize - 1) /\ p.fed \in Nat
      /\ p.readbytes \in 0..UnitSize /\ p.nodes \in Nat \cup {Unlimited} /\ p.changes \in Nat
      /\ p.bufNull \in BOOLEAN /\ p.ended \in BOOLEAN
  BY DEF Plays
<1>3. node \in Nat \cup {Unlimited}
  BY <1>2, Limits DEF Spent
<1>4. chg \in Nat /\ fed \in Nat
  BY <1>2
<1>5. null \in BOOLEAN /\ ans \in BOOLEAN /\ eos \in BOOLEAN /\ end \in BOOLEAN
  BY <1>2
<1> HIDE DEF node, chg, eos, ans
<1>6. q \in Plays
  <2> HIDE DEF null, fed, end, q
  <2> DEFINE r == [p EXCEPT !.bufNull = null, !.nodes = node, !.answered = ans, !.dispeos = eos]
  <2>1. r \in Plays
    BY <1>3, <1>5 DEF Plays
  <2>2. q = [r EXCEPT !.changes = chg, !.fed = fed, !.ended = end]
    BY <1>1, <2>1 DEF Plays
  <2> HIDE DEF r
  <2> QED BY <1>4, <1>5, <2>1, <2>2 DEF Plays
<1>7. Kept
  <2> HIDE DEF null, fed, end
  <2> QED BY <1>1 DEF Plays
<1>8. /\ q.units = p.units /\ q.tail = p.tail /\ q.fileeos = p.fileeos /\ q.told = p.told
      /\ q.met = p.met /\ q.readbytes = p.readbytes
      /\ (q.bufNull <=> null) /\ q.fed = fed /\ (q.ended <=> end)
  <2> HIDE DEF null, fed, end
  <2> QED BY <1>1, <1>5 DEF Plays
<1>9. ASSUME FileKept(p),
             ~setup.capability => /\ in.size = p.readbytes
                                  /\ p.readbytes = 0 => p.fileeos
                                  /\ p.bufNull => p.readbytes = 0
      PROVE  FileKept(q)
  <2> HIDE DEF q
  <2>1. CASE setup.capability
    BY <1>8, <1>9, <2>1 DEF FileKept
  <2>2. CASE ~setup.capability
    <3> DEFINE v == p.units * UnitSize
    <3>1. /\ p.fed + Pending(p) + v + p.tail = FileSize
          /\ ~p.told /\ (p.met => p.readbytes = 0)
          /\ p.fileeos => p.units = 0 /\ p.tail = 0
          /\ p.tail < UnitSize
          /\ p.ended => p.fileeos /\ Pending(p) = 0
      BY <1>9, <2>2 DEF FileKept
    <3>2. v \in Nat /\ q.units * UnitSize = v
      BY <1>2, <1>8, Limits
    <3> HIDE DEF v
    <3>3. fed + Pending(q) = p.fed + Pending(p)
      <4>1. CASE used /\ in.size > 0
        BY <1>2, <1>8, <1>9, <2>2, <4>1 DEF Pending
      <4>2. CASE ~(used /\ in.size > 0)
        BY <1>2, <1>8, <1>9, <2>2, <4>2, Limits DEF Pending
      <4> QED BY <4>1, <4>2
    <3>4. Pending(p) \in Nat /\ Pending(q) \in Nat
      BY <1>2, <1>8, Limits DEF Pending
    <3>5. q.fed + Pending(q) + q.units * UnitSize + q.tail = FileSize
      <4> HIDE DEF fed
      <4> QED BY <1>2, <1>4, <1>8, <3>1, <3>2, <3>3, <3>4, Limits
    <3>6. q.ended => q.fileeos /\ Pending(q) = 0
      BY <1>2, <1>8, <1>9, <2>2, <3>1 DEF Pending
    <3>7. ~q.bufNull /\ q.readbytes = 0 => q.fileeos
      BY <1>8, <1>9, <2>2
    <3> HIDE DEF fed, null, end
    <3> QED BY <1>8, <2>2, <3>1, <3>5, <3>6, <3>7 DEF FileKept
  <2> QED BY <2>1, <2>2
<1> HIDE DEF q
<1>10. q \in Plays /\ Kept
  BY <1>6, <1>7
<1> QED
  BY <1>9, <1>10 DEF q

\* The account of consumed bytes touches only `told' and `met', and only when it is there.
LEMMA ConsumedKeeps ==
  ASSUME NEW p \in Plays, NEW flags, NEW q \in Consumed(p, flags)
  PROVE  /\ q \in Plays /\ q.notUsed = p.notUsed /\ q.nullData = p.nullData
         /\ q.frmNum = p.frmNum /\ q.err = p.err /\ q.frames = p.frames
         /\ q.readbytes = p.readbytes
         /\ FileKept(p) => FileKept(q)
<1>1. CASE q = p
  BY <1>1
<1>2. CASE setup.capability /\ \E m \in BOOLEAN : q = [p EXCEPT !.told = TRUE, !.met = m]
  <2>1. PICK m \in BOOLEAN : q = [p EXCEPT !.told = TRUE, !.met = m]
    BY <1>2
  <2>2. q \in Plays
    BY <2>1 DEF Plays
  <2>3. /\ q.notUsed = p.notUsed /\ q.nullData = p.nullData
        /\ q.frmNum = p.frmNum /\ q.err = p.err /\ q.frames = p.frames
        /\ q.readbytes = p.readbytes /\ q.units = p.units /\ q.tail = p.tail
        /\ q.fileeos = p.fileeos
    BY <2>1 DEF Plays
  <2> QED BY <1>2, <2>2, <2>3 DEF FileKept
<1> QED
  BY <1>1, <1>2 DEF Consumed

\* The watchdog's counters and the session's silence grow together, and reach rest together.
LEMMA SilenceKept ==
  ASSUME NEW d \in Dogs, NEW q \in Quiets, NEW n \in Nat, NEW c \in {0, 1}, Own(d, q)
  PROVE  LET q1 == [calls |-> Sum(q.calls, 1, MaxNullRun), bytes |-> Sum(q.bytes, n, MaxDecSize)]
         IN /\ q1 \in Quiets /\ Own(d, q1)
            /\ Sum(d.nullLoop, 1, MaxNullRun) <= q1.calls
            /\ Sum(d.decSize, n, MaxDecSize) <= q1.bytes
            /\ Sum(d.initLoop, c, MaxInitLoop) <= q1.calls \/ q1.calls > MaxNullRun
            /\ Sum(d.initSize, n, MaxInitSize) <= q1.bytes \/ q1.bytes > MaxDecSize
<1> DEFINE calls == Sum(q.calls, 1, MaxNullRun)
           bytes == Sum(q.bytes, n, MaxDecSize)
<1>1. /\ d.nullLoop \in 0..(MaxNullRun + 1) /\ d.decSize \in 0..MaxDecSize
      /\ d.initLoop \in 0..MaxInitLoop /\ d.initSize \in 0..MaxInitSize
      /\ q.calls \in 0..(MaxNullRun + 1) /\ q.bytes \in 0..(MaxDecSize + 1)
  BY DEF Dogs, Quiets
<1>2. calls \in 0..(MaxNullRun + 1) /\ q.calls <= calls
  BY <1>1, Limits DEF Sum
<1>3. bytes \in 0..(MaxDecSize + 1) /\ q.bytes <= bytes
  BY <1>1, Limits DEF Sum
<1>4. /\ d.nullLoop <= q.calls /\ d.decSize <= q.bytes
      /\ d.initLoop <= q.calls \/ q.calls > MaxNullRun
      /\ d.initSize <= q.bytes \/ q.bytes > MaxDecSize
  BY DEF Own
<1>5. Sum(d.nullLoop, 1, MaxNullRun) <= calls
  BY <1>1, <1>4, Limits DEF Sum
<1>6. Sum(d.decSize, n, MaxDecSize) <= bytes
  BY <1>1, <1>4, Limits DEF Sum
<1>7. Sum(d.initLoop, c, MaxInitLoop) <= calls \/ calls > MaxNullRun
  BY <1>1, <1>4, Limits DEF Sum
<1>8. Sum(d.initSize, n, MaxInitSize) <= bytes \/ bytes > MaxDecSize
  BY <1>1, <1>4, Limits DEF Sum
<1> HIDE DEF calls, bytes
<1>9. Own(d, [calls |-> calls, bytes |-> bytes])
  BY <1>1, <1>2, <1>3, <1>4, Limits DEF Own
<1>10. [calls |-> calls, bytes |-> bytes] \in Quiets
  BY <1>2, <1>3 DEF Quiets
<1> QED
  BY <1>5, <1>6, <1>7, <1>8, <1>9, <1>10 DEF calls, bytes

\* Counters after a call stay in range; past a limit they are cleared.
LEMMA CountLoopType ==
  ASSUME dog \in Dogs, NEW st, NEW in, NEW used \in BOOLEAN, in.size \in Nat
  PROVE  LET d == CountLoop(st, in, used)
         IN VpuCheckDeadLoop(d) \in Dogs /\ (~DeadLoop(d) => VpuCheckDeadLoop(d) = d)
<1> DEFINE size == IF used THEN in.size ELSE 0
           cnt  == IF size > 0 \/ in.ptr THEN 1 ELSE 0
           null == Sum(dog.nullLoop, 1, MaxNullRun)
           a    == Sum(dog.initSize, size, MaxInitSize)
           b    == Sum(dog.initLoop, cnt, MaxInitLoop)
           e    == Sum(dog.decSize, size, MaxDecSize)
           d    == CountLoop(st, in, used)
<1>1. /\ dog.nullLoop \in Nat /\ dog.decSize \in 0..MaxDecSize
      /\ dog.initLoop \in 0..MaxInitLoop /\ dog.initSize \in 0..MaxInitSize
  BY Limits DEF Dogs
<1>2. size \in Nat /\ cnt \in Nat
  OBVIOUS
<1>3. null \in 0..(MaxNullRun + 1) /\ a \in Nat /\ b \in Nat /\ e \in Nat
  <2> HIDE DEF size, cnt
  <2> QED BY <1>1, <1>2, Limits DEF Sum
<1>4. \/ d = [dog EXCEPT !.initSize = a, !.initLoop = b, !.nullLoop = null]
      \/ d = [dog EXCEPT !.decSize = e, !.nullLoop = null]
      \/ d = Clear
  BY DEF CountLoop
<1> HIDE DEF null, a, b, e, d
<1>5. d \in [initSize : Nat, initLoop : Nat, decSize : Nat, nullLoop : 0..(MaxNullRun + 1)]
  <2>1. dog \in [initSize : Nat, initLoop : Nat, decSize : Nat, nullLoop : 0..(MaxNullRun + 1)]
    BY Limits DEF Dogs
  <2>2. CASE d = [dog EXCEPT !.initSize = a, !.initLoop = b, !.nullLoop = null]
    BY <1>3, <2>1, <2>2
  <2>3. CASE d = [dog EXCEPT !.decSize = e, !.nullLoop = null]
    BY <1>3, <2>1, <2>3
  <2>4. CASE d = Clear
    BY <2>4, Limits DEF Clear
  <2> QED BY <1>4, <2>2, <2>3, <2>4
<1>6. ~DeadLoop(d) => d \in Dogs
  BY <1>5, Limits DEF DeadLoop, Dogs
<1>7. [Clear EXCEPT !.nullLoop = d.nullLoop] \in Dogs
  BY <1>5, Limits DEF Clear, Dogs
<1>8. VpuCheckDeadLoop(d) \in Dogs /\ (~DeadLoop(d) => VpuCheckDeadLoop(d) = d)
  BY <1>6, <1>7 DEF VpuCheckDeadLoop
<1> QED
  BY <1>8 DEF d

\* After a call of a session whose counters are its own, they still are; when they fail it, it
\* was silent for too long.
LEMMA WatchdogFair ==
  ASSUME dog \in Dogs, quiet \in Quiets, ~carried, Own(dog, quiet),
         state # "OPEN" => dog.initLoop = 0 /\ dog.initSize = 0,
         NEW in, in.size \in Nat, CallAgrees, ret'.code # "FAILURE_TIMEOUT"
  PROVE  LET used == "INPUT_USED" \in ret'.flags
             d    == CountLoop(state', in, used)
             q    == Quiet(ret', in, used)
         IN /\ ~ReachesWatchdog(ret') =>
                 Own(dog, q) /\ (state' # "OPEN" => dog.initLoop = 0 /\ dog.initSize = 0)
            /\ ReachesWatchdog(ret') =>
                 /\ Own(d, q) /\ (state' # "OPEN" => d.initLoop = 0 /\ d.initSize = 0)
                 /\ DeadLoop(d) =>
                      \/ q.calls > MaxNullRun \/ q.bytes > MaxDecSize
                      \/ state' = "OPEN" /\ (q.calls > MaxInitLoop \/ q.bytes > MaxInitSize)
<1> DEFINE used == "INPUT_USED" \in ret'.flags
           d    == CountLoop(state', in, used)
           q    == Quiet(ret', in, used)
           size == IF used THEN in.size ELSE 0
           cnt  == IF size > 0 \/ in.ptr THEN 1 ELSE 0
           Far  == Offers(ret'.flags) \/ Starts(ret'.flags) \/ "EOS" \in ret'.flags
           q1   == [calls |-> Sum(quiet.calls, 1, MaxNullRun),
                    bytes |-> Sum(quiet.bytes, size, MaxDecSize)]
<1>1. q = IF Far THEN Still ELSE q1
  BY DEF Quiet, Offers, Starts
<1>2. size \in Nat /\ cnt \in {0, 1}
  OBVIOUS
<1>3. /\ q1 \in Quiets /\ Own(dog, q1)
      /\ Sum(dog.nullLoop, 1, MaxNullRun) <= q1.calls
      /\ Sum(dog.decSize, size, MaxDecSize) <= q1.bytes
      /\ Sum(dog.initLoop, cnt, MaxInitLoop) <= q1.calls \/ q1.calls > MaxNullRun
      /\ Sum(dog.initSize, size, MaxInitSize) <= q1.bytes \/ q1.bytes > MaxDecSize
  <2> HIDE DEF size, cnt
  <2> QED BY <1>2, SilenceKept
<1>4. /\ Far => state' \in {"OUTOK", "INITOK", "EOS"}
      /\ Far => ret'.flags \cap {"INPUT_USED", "INPUT_NOT_USED"} # {}
      /\ state' = "OPEN" => state = "OPEN"
      /\ ret'.code \notin {"FAILURE_TIMEOUT", "WRONG_CALL_SEQUENCE"}
      /\ ret'.flags \cap {"INPUT_USED", "INPUT_NOT_USED"} = {} => (state' # "OPEN" => state # "OPEN")
  BY DEF CallAgrees
<1>5. /\ d = IF state' = "OPEN"
               THEN [dog EXCEPT !.initSize = Sum(dog.initSize, size, MaxInitSize),
                                !.initLoop = Sum(dog.initLoop, cnt, MaxInitLoop),
                                !.nullLoop = Sum(dog.nullLoop, 1, MaxNullRun)]
             ELSE IF state' \in {"DEC", "STARTFRAMEOK"}
               THEN [dog EXCEPT !.decSize = Sum(dog.decSize, size, MaxDecSize),
                                !.nullLoop = Sum(dog.nullLoop, 1, MaxNullRun)]
             ELSE Clear
  BY DEF CountLoop
<1>6. /\ dog.nullLoop \in 0..(MaxNullRun + 1) /\ dog.decSize \in 0..MaxDecSize
      /\ dog.initLoop \in 0..MaxInitLoop /\ dog.initSize \in 0..MaxInitSize
  BY DEF Dogs
<1>7. /\ q1.calls \in Nat /\ q1.bytes \in Nat
      /\ Sum(dog.nullLoop, 1, MaxNullRun) \in Nat /\ Sum(dog.decSize, size, MaxDecSize) \in Nat
      /\ Sum(dog.initLoop, cnt, MaxInitLoop) \in Nat /\ Sum(dog.initSize, size, MaxInitSize) \in Nat
  <2> HIDE DEF q1, size, cnt
  <2> QED BY <1>2, <1>3, <1>6, Limits DEF Quiets, Sum
<1> HIDE DEF q, q1, d, size, cnt, Far
<1> DEFINE Short == ~ReachesWatchdog(ret') =>
                      Own(dog, q) /\ (state' # "OPEN" => dog.initLoop = 0 /\ dog.initSize = 0)
           Kept  == Own(d, q) /\ (state' # "OPEN" => d.initLoop = 0 /\ d.initSize = 0)
           Fair  == DeadLoop(d) =>
                      \/ q.calls > MaxNullRun \/ q.bytes > MaxDecSize
                      \/ state' = "OPEN" /\ (q.calls > MaxInitLoop \/ q.bytes > MaxInitSize)
<1>8. Short
  BY <1>1, <1>3, <1>4 DEF ReachesWatchdog
<1>9. ASSUME state' \notin {"OPEN", "DEC", "STARTFRAMEOK"} PROVE Kept /\ Fair
  <2>1. d = Clear
    BY <1>5, <1>9
  <2>2. /\ d.nullLoop = 0 /\ d.decSize = 0 /\ d.initLoop = 0 /\ d.initSize = 0
        /\ q.calls \in Nat /\ q.bytes \in Nat
    BY <1>1, <1>7, <2>1 DEF Clear, Still
  <2> QED BY <2>2, Limits DEF Own, DeadLoop
<1>10. ASSUME state' \in {"DEC", "STARTFRAMEOK"} PROVE Kept /\ Fair
  <2>1. q = q1
    BY <1>1, <1>4, <1>10
  <2>2. /\ d.nullLoop = Sum(dog.nullLoop, 1, MaxNullRun)
        /\ d.decSize = Sum(dog.decSize, size, MaxDecSize)
        /\ d.initLoop = dog.initLoop /\ d.initSize = dog.initSize
    BY <1>5, <1>10 DEF Dogs
  <2>3. Own(d, q)
    BY <1>3, <2>1, <2>2 DEF Own
  <2>4. state' # "OPEN" => d.initLoop = 0 /\ d.initSize = 0
    BY <1>4, <1>8, <1>10, <2>2 DEF CallAgrees
  <2>5. DeadLoop(d) => q.calls > MaxNullRun \/ q.bytes > MaxDecSize
    BY <1>3, <1>6, <1>7, <2>1, <2>2, Limits DEF DeadLoop
  <2> QED BY <2>3, <2>4, <2>5
<1>11. ASSUME state' = "OPEN" PROVE Kept /\ Fair
  <2>1. q = q1
    BY <1>1, <1>4, <1>11
  <2>2. /\ d.nullLoop = Sum(dog.nullLoop, 1, MaxNullRun) /\ d.decSize = dog.decSize
        /\ d.initLoop = Sum(dog.initLoop, cnt, MaxInitLoop)
        /\ d.initSize = Sum(dog.initSize, size, MaxInitSize)
    BY <1>5, <1>11 DEF Dogs
  <2>3. Own(d, q)
    BY <1>3, <2>1, <2>2 DEF Own
  <2>4. Fair
    BY <1>3, <1>6, <1>7, <1>11, <2>1, <2>2, Limits DEF DeadLoop
  <2> QED BY <1>11, <2>3, <2>4
<1>12. Kept /\ Fair
  <2> HIDE DEF Kept, Fair
  <2> QED BY <1>9, <1>10, <1>11
<1> QED
  BY <1>8, <1>12 DEF d, q

-----------------------------------------------------------------------------
(* The calls. *)

\* A session that fails goes to close with what it knows of the file and the blocks.
LEMMA FailsKeeps ==
  ASSUME PlayInv, NEW p \in Plays, Fails(p), p.notUsed <= MaxNotUsed + 1,
         p.nullData <= MaxNullData + 1, setup' = setup, carried' = carried, phyNum' \in Nat,
         dog' \in Dogs, quiet' \in Quiets, blamed' \in BOOLEAN, NoCallOutOfSequence',
         BlamedForOwnSilence'
  PROVE  PlayInv'
<1>1. pc' = "close" /\ play' = [p EXCEPT !.err = TRUE]
  BY DEF Fails
<1>2. play' \in Plays
  BY <1>1 DEF Plays
<1>3. /\ play'.err /\ play'.notUsed = p.notUsed /\ play'.nullData = p.nullData
      /\ play'.notUsed \in Nat /\ play'.nullData \in Nat /\ play'.frames \in Nat
      /\ play'.readbytes \in 0..UnitSize
  BY <1>1, <1>2 DEF Plays
<1>4. PlayTypeOK'
  BY <1>1, <1>3, Limits DEF PlayInv, Typed, PlayTypeOK, Dogs
<1>5. Typed'
  BY <1>1, <1>2, <1>4 DEF Typed, Quiets
<1>6. InSequence' /\ Blocks' /\ DogsOwn'
  BY <1>1, <1>3 DEF InSequence, Blocks, DogsOwn, Active
<1> QED
  BY <1>1, <1>3, <1>5, <1>6 DEF PlayInv

\* The loop ends, or the client gives up.
LEMMA LeaveLoopKeeps ==
  ASSUME PlayInv, LeaveLoop
  PROVE  PlayInv'
<1>1. /\ pc = "decode" /\ UNCHANGED vars /\ UNCHANGED <<phyNum, setup, dog, quiet, carried, blamed>>
      /\ UNCHANGED <<state, ret>>
  BY DEF LeaveLoop, KeepDog, vars, wrapVars, appVars
<1>2. /\ play \in Plays /\ ~Hangs(play) /\ phyNum \in Nat /\ dog \in Dogs /\ quiet \in Quiets
      /\ blamed \in BOOLEAN /\ ~blamed
  BY <1>1 DEF PlayInv, Typed, PlayTypeOK, Dogs
<1>3. CASE Goes("flush") /\ UNCHANGED play
  <2>1. PlayTypeOK'
    BY <1>1, <1>3 DEF PlayInv, Typed, PlayTypeOK, Goes, Hangs
  <2>2. Typed'
    BY <1>1, <1>3, <2>1 DEF PlayInv, Typed, Goes
  <2>3. InSequence' /\ Blocks' /\ DogsOwn' /\ BlamedForOwnSilence'
    BY <1>1, <1>3 DEF PlayInv, InSequence, NoCallOutOfSequence, Blocks, DogsOwn, Active,
                      BlamedForOwnSilence, Goes
  <2>4. FileKept(play) => FileKept(play)'
    BY <1>1, <1>3 DEF FileKept, FileSize, Pending
  <2> QED BY <1>1, <1>3, <2>2, <2>3, <2>4 DEF PlayInv, Goes
<1>4. CASE Fails(Counted(play))
  <2>1. /\ Counted(play) \in Plays /\ Counted(play).notUsed <= MaxNotUsed + 1
        /\ Counted(play).nullData <= MaxNullData + 1
    BY <1>2, CountedKeeps
  <2>2. NoCallOutOfSequence' /\ BlamedForOwnSilence'
    BY <1>1, <1>2 DEF PlayInv, InSequence, NoCallOutOfSequence, BlamedForOwnSilence
  <2> QED BY <1>1, <1>2, <1>4, <2>1, <2>2, FailsKeeps
<1> QED
  BY <1>3, <1>4 DEF LeaveLoop

\* A turn of the loop.
LEMMA TurnKeeps ==
  ASSUME PlayInv, DecodeBuf
  PROVE  PlayInv' /\ \E in \in Inputs : VPU_DecDecodeBuf(in)
<1>1. PICK p \in Reads(Counted(play)) :
        LET in   == Node(p)
            used == "INPUT_USED" \in ret'.flags
            d    == CountLoop(state', in, used)
            dead == ReachesWatchdog(ret') /\ DeadLoop(d)
        IN /\ VPU_DecDecodeBuf(in)
           /\ dog' = IF ReachesWatchdog(ret') THEN VpuCheckDeadLoop(d) ELSE dog
           /\ quiet' = Quiet(ret', in, used)
           /\ blamed' = dead
           /\ UNCHANGED <<setup, carried>>
           /\ IF ret'.code # "SUCCESS" \/ dead
                THEN Fails(p) /\ UNCHANGED phyNum
                ELSE /\ play' \in Consumed(Answer(p, in, ret'.flags), ret'.flags)
                     /\ phyNum' = FreeMemBlockFrame(p, ret'.flags)
                     /\ Goes(AfterDecode(ret'.flags))
  BY DEF DecodeBuf
<1> DEFINE in   == Node(p)
           used == "INPUT_USED" \in ret'.flags
           d    == CountLoop(state', in, used)
           dead == ReachesWatchdog(ret') /\ DeadLoop(d)
           a    == Answer(p, in, ret'.flags)
<1>2. /\ pc = "decode" /\ LoopGoesOn(play) /\ ~Hangs(Counted(play))
      /\ play \in Plays /\ ~Hangs(play) /\ ~play.err /\ phyNum \in Nat /\ dog \in Dogs
      /\ quiet \in Quiets /\ carried \in BOOLEAN /\ setup \in Setups
      /\ state \notin {"INITOK", "REGFRMOK", "OUTOK"} /\ FileKept(play)
      /\ phyNum = OwnBlocks + play.frmNum /\ (state = "OPEN" => play.frmNum = 0)
  BY DEF DecodeBuf, PlayInv, Typed, PlayTypeOK, Dogs, InSequence, Blocks, Active
<1>3. /\ p \in Plays /\ p.notUsed <= MaxNotUsed + 1 /\ p.nullData <= MaxNullData + 1
      /\ ~Hangs(p) /\ ~p.err /\ p.frmNum = play.frmNum /\ p.frames # 0 /\ p.nodes # 0
      /\ in \in Inputs /\ FileKept(p)
      /\ ~setup.capability => /\ in.size = p.readbytes
                              /\ p.readbytes = 0 => p.fileeos
                              /\ p.bufNull => p.readbytes = 0
  <2> DEFINE c == Counted(play)
  <2>1. /\ c \in Plays /\ c.notUsed <= MaxNotUsed + 1 /\ c.nullData <= MaxNullData + 1
        /\ c.frmNum = play.frmNum /\ c.err = play.err /\ c.frames = play.frames
        /\ c.nodes = play.nodes /\ FileKept(c)
    BY <1>2, CountedKeeps
  <2> HIDE DEF c
  <2>2. p \in Reads(c) /\ ~Hangs(c)
    BY <1>1, <1>2 DEF c
  <2>3. /\ p \in Plays /\ p.notUsed = c.notUsed /\ p.nullData = c.nullData
        /\ p.frmNum = c.frmNum /\ p.err = c.err /\ p.frames = c.frames /\ p.nodes = c.nodes
        /\ in \in Inputs /\ FileKept(p)
        /\ ~setup.capability => /\ in.size = p.readbytes
                                /\ p.readbytes = 0 => p.fileeos
                                /\ p.bufNull => p.readbytes = 0
    BY <1>2, <2>1, <2>2, ReadsKeep
  <2> HIDE DEF in
  <2> QED BY <1>2, <2>1, <2>2, <2>3 DEF Hangs, LoopGoesOn
<1>4. /\ VPU_DecDecodeBuf(in) /\ setup' = setup /\ carried' = carried
      /\ dog' = IF ReachesWatchdog(ret') THEN VpuCheckDeadLoop(d) ELSE dog
      /\ quiet' = Quiet(ret', in, used) /\ blamed' = dead
  BY <1>1
<1>5. IF ret'.code # "SUCCESS" \/ dead
        THEN Fails(p) /\ UNCHANGED phyNum
        ELSE /\ play' \in Consumed(a, ret'.flags)
             /\ phyNum' = FreeMemBlockFrame(p, ret'.flags)
             /\ Goes(AfterDecode(ret'.flags))
  BY <1>1
<1>6. in.size \in Nat /\ used \in BOOLEAN
  BY <1>3, SizeAssumption DEF Inputs, Null, Eos
<1> HIDE DEF in
<1>7. CallAgrees
  BY <1>2, <1>4, DecodeBufAgrees
<1>8. /\ dog' \in Dogs /\ blamed' \in BOOLEAN /\ (~DeadLoop(d) => VpuCheckDeadLoop(d) = d)
  <2> HIDE DEF used
  <2> QED BY <1>2, <1>4, <1>6, CountLoopType
<1>9. quiet' \in Quiets
  <2>1. /\ quiet.calls \in Nat /\ quiet.bytes \in Nat
    BY <1>2, Limits DEF Quiets
  <2>2. Quiet(ret', in, used) \in Quiets
    BY <1>6, <2>1, Limits DEF Quiet, Quiets, Still, Sum
  <2> QED BY <1>4, <2>2
<1>10. NoCallOutOfSequence'
  BY <1>7 DEF CallAgrees, NoCallOutOfSequence
<1>11. ASSUME ~carried, ret'.code # "FAILURE_TIMEOUT"
       PROVE  /\ Own(dog', quiet') \/ (ReachesWatchdog(ret') /\ DeadLoop(d))
              /\ (state' # "OPEN" => dog'.initLoop = 0 /\ dog'.initSize = 0)
                   \/ (ReachesWatchdog(ret') /\ DeadLoop(d))
              /\ dead => \/ quiet'.calls > MaxNullRun \/ quiet'.bytes > MaxDecSize
                         \/ state' = "OPEN" /\ (quiet'.calls > MaxInitLoop \/ quiet'.bytes > MaxInitSize)
  <2>1. Own(dog, quiet) /\ (state # "OPEN" => dog.initLoop = 0 /\ dog.initSize = 0)
    BY <1>2, <1>11 DEF PlayInv, DogsOwn, Active
  <2>2. /\ ~ReachesWatchdog(ret') =>
             Own(dog, quiet') /\ (state' # "OPEN" => dog.initLoop = 0 /\ dog.initSize = 0)
        /\ ReachesWatchdog(ret') =>
             /\ Own(d, quiet') /\ (state' # "OPEN" => d.initLoop = 0 /\ d.initSize = 0)
             /\ DeadLoop(d) =>
                  \/ quiet'.calls > MaxNullRun \/ quiet'.bytes > MaxDecSize
                  \/ state' = "OPEN" /\ (quiet'.calls > MaxInitLoop \/ quiet'.bytes > MaxInitSize)
    BY <1>2, <1>4, <1>6, <1>7, <1>11, <2>1, WatchdogFair
  <2> HIDE DEF d
  <2> QED BY <1>4, <1>8, <2>2
<1>12. BlamedForOwnSilence'
  BY <1>4, <1>11 DEF BlamedForOwnSilence, ReachesWatchdog
<1>13. ASSUME ret'.code # "SUCCESS" \/ dead PROVE PlayInv'
  <2>1. Fails(p) /\ phyNum' = phyNum
    BY <1>5, <1>13
  <2> QED BY <1>2, <1>3, <1>4, <1>8, <1>9, <1>10, <1>12, <2>1, FailsKeeps
<1>14. ASSUME ret'.code = "SUCCESS", ~dead PROVE PlayInv'
  <2>1. /\ play' \in Consumed(a, ret'.flags) /\ phyNum' = FreeMemBlockFrame(p, ret'.flags)
        /\ pc' = AfterDecode(ret'.flags)
    <3> HIDE DEF dead, a
    <3> QED BY <1>5, <1>14 DEF Goes
  <2>2. /\ a \in Plays /\ a.notUsed = p.notUsed /\ a.nullData = p.nullData
        /\ a.frmNum = p.frmNum /\ a.err = p.err /\ a.frames = p.frames
        /\ a.readbytes = p.readbytes /\ FileKept(a)
    BY <1>3, <1>6, AnswerKeeps
  <2> HIDE DEF a
  <2>3. /\ play' \in Plays /\ play'.notUsed = p.notUsed /\ play'.nullData = p.nullData
        /\ play'.frmNum = play.frmNum /\ ~play'.err /\ play'.frames # 0 /\ FileKept(play')
    BY <1>3, <2>1, <2>2, ConsumedKeeps
  <2> HIDE DEF used, d
  <2>4. FileKept(play)'
    BY <1>4, <2>3 DEF FileKept, FileSize, Pending
  <2>5. \/ pc' = "getinfo" /\ Starts(ret'.flags) /\ state' = "INITOK"
        \/ pc' = "fetch" /\ Offers(ret'.flags) /\ state' = "OUTOK" /\ ~Starts(ret'.flags)
        \/ /\ pc' = "decode" /\ ~Starts(ret'.flags) /\ ~Offers(ret'.flags)
           /\ state' \notin {"INITOK", "REGFRMOK", "OUTOK"}
    BY <1>7, <1>14, <2>1 DEF AfterDecode, CallAgrees, Offers, Starts
  <2>6. phyNum' = IF Starts(ret'.flags) THEN OwnBlocks ELSE OwnBlocks + play.frmNum
    <3>1. play.frmNum \in Nat
      BY <1>2 DEF Plays
    <3>2. "INIT_OK" \in ret'.flags => play.frmNum = 0
      BY <1>2, <1>7, <1>14 DEF CallAgrees
    <3> QED BY <1>2, <1>3, <2>1, <3>1, <3>2 DEF FreeMemBlockFrame, Starts, OwnBlocks
  <2>7. phyNum' \in Nat
    BY <1>2, <2>6 DEF OwnBlocks, Plays
  <2>8. Typed'
    <3>1. /\ play'.readbytes \in 0..UnitSize /\ play'.frames \in Nat
          /\ play'.notUsed \in 0..(MaxNotUsed + 1) /\ play'.nullData \in 0..(MaxNullData + 1)
          /\ ~Hangs(play')
      BY <1>3, <2>3, Limits DEF Plays, Hangs
    <3>2. PlayTypeOK'
      BY <1>2, <1>4, <1>8, <2>3, <2>5, <2>7, <3>1 DEF PlayTypeOK, Dogs, Hangs
    <3> QED BY <1>4, <1>9, <1>14, <2>3, <2>5, <3>2 DEF Typed
  <2>9. InSequence'
    BY <1>10, <2>5 DEF InSequence
  <2>10. Blocks'
    <3>1. state' = "OPEN" => play'.frmNum = 0
      BY <1>2, <1>7, <1>14, <2>3 DEF CallAgrees
    <3> QED BY <2>3, <2>5, <2>6, <3>1 DEF Blocks
  <2>11. DogsOwn'
    <3>1. carried' = carried /\ ret'.code # "FAILURE_TIMEOUT" /\ ~dead
      BY <1>4, <1>14
    <3>2. ~carried' => Own(dog', quiet')
      BY <1>11, <3>1
    <3>3. ~carried' => (state' # "OPEN" => dog'.initLoop = 0 /\ dog'.initSize = 0)
      BY <1>11, <3>1
    <3> HIDE DEF dead
    <3> QED BY <3>2, <3>3 DEF DogsOwn, Own
  <2> QED BY <1>12, <2>4, <2>8, <2>9, <2>10, <2>11 DEF PlayInv
<1> QED
  BY <1>3, <1>4, <1>13, <1>14

\* A call that leaves the watchdog alone and the session going on.
LEMMA OtherCall ==
  ASSUME PlayInv, Active, KeepDog, phyNum' \in Nat, play' \in Plays, ~play'.err,
         play'.notUsed = play.notUsed, play'.nullData = play.nullData,
         pc' \in {"decode", "register", "display", "close"}, InSequence', Blocks',
         state' = "OPEN" <=> state = "OPEN", FileKept(play)'
  PROVE  PlayInv'
<1>1. /\ setup' = setup /\ dog' = dog /\ quiet' = quiet /\ carried' = carried /\ blamed' = blamed
  BY DEF KeepDog
<1>2. /\ ~blamed /\ ~Hangs(play) /\ PlayTypeOK /\ quiet \in Quiets
  BY DEF PlayInv, Typed, PlayTypeOK, Active
<1>3. PlayTypeOK'
  BY <1>1, <1>2 DEF PlayTypeOK, Plays, Hangs
<1>4. Typed'
  BY <1>1, <1>2, <1>3 DEF Typed
<1>5. DogsOwn'
  BY <1>1 DEF PlayInv, DogsOwn, Active
<1>6. BlamedForOwnSilence'
  BY <1>1, <1>2 DEF BlamedForOwnSilence
<1> QED
  BY <1>4, <1>5, <1>6 DEF PlayInv

\* The other calls that fail.
LEMMA OtherFails ==
  ASSUME PlayInv, Active, KeepDog, phyNum' \in Nat, Fails(play), NoCallOutOfSequence'
  PROVE  PlayInv'
<1>1. /\ setup' = setup /\ dog' = dog /\ quiet' = quiet /\ carried' = carried /\ blamed' = blamed
  BY DEF KeepDog
<1>2. /\ ~blamed /\ blamed \in BOOLEAN /\ ~Hangs(play) /\ play \in Plays /\ dog \in Dogs
      /\ quiet \in Quiets
  BY DEF PlayInv, Typed, PlayTypeOK, Active, Dogs
<1>3. play.notUsed <= MaxNotUsed + 1 /\ play.nullData <= MaxNullData + 1
  BY <1>2, Limits DEF Hangs, Plays
<1>4. BlamedForOwnSilence'
  BY <1>1, <1>2 DEF BlamedForOwnSilence
<1> QED
  BY <1>1, <1>2, <1>3, <1>4, FailsKeeps

\* Memory for the frames.
LEMMA GetInitialInfoKeeps ==
  ASSUME PlayInv, GetInitialInfo
  PROVE  PlayInv'
<1>1. /\ pc = "getinfo" /\ VPU_DecGetInitialInfo /\ KeepDog /\ Active
      /\ state = "INITOK" /\ play \in Plays /\ ~play.err /\ FileKept(play) /\ phyNum = OwnBlocks
  BY DEF GetInitialInfo, PlayInv, Typed, PlayTypeOK, InSequence, Blocks, Active
<1>2. state' = "REGFRMOK" /\ ret'.code = "SUCCESS" /\ NoCallOutOfSequence'
  BY <1>1 DEF VPU_DecGetInitialInfo, WrongCall, NoCallOutOfSequence
<1>3. PICK n \in {MinFrames + s : s \in Surplus} :
        \/ phyNum' = phyNum + n /\ play' = [play EXCEPT !.frmNum = n] /\ Goes("register")
        \/ phyNum' \in {phyNum, phyNum + n - 1} /\ Fails(play)
  BY DEF GetInitialInfo
<1>4. n \in Nat
  BY Limits
<1>5. CASE phyNum' = phyNum + n /\ play' = [play EXCEPT !.frmNum = n] /\ Goes("register")
  <2>1. play' \in Plays
    BY <1>1, <1>4, <1>5 DEF Plays
  <2>2. /\ play'.frmNum = n /\ play'.err = play.err /\ play'.notUsed = play.notUsed
        /\ play'.nullData = play.nullData /\ play'.units = play.units /\ play'.tail = play.tail
        /\ play'.fileeos = play.fileeos /\ play'.bufNull = play.bufNull
        /\ play'.told = play.told /\ play'.met = play.met /\ play'.fed = play.fed
        /\ play'.ended = play.ended /\ play'.readbytes = play.readbytes
    BY <1>1, <1>4, <1>5 DEF Plays
  <2>3. FileKept(play)'
    BY <1>1, <2>2 DEF KeepDog, FileKept, Pending, FileSize
  <2>4. phyNum' \in Nat
    BY <1>1, <1>4, <1>5 DEF OwnBlocks
  <2>5. InSequence' /\ Blocks'
    BY <1>1, <1>2, <1>5, <2>2 DEF InSequence, Blocks, Goes
  <2> QED BY <1>1, <1>2, <1>5, <2>1, <2>2, <2>3, <2>4, <2>5, OtherCall DEF Goes
<1>6. CASE phyNum' \in {phyNum, phyNum + n - 1} /\ Fails(play)
  <2>1. phyNum' \in Nat
    BY <1>1, <1>4, <1>6 DEF OwnBlocks
  <2> QED BY <1>1, <1>2, <1>6, <2>1, OtherFails
<1> QED
  BY <1>3, <1>5, <1>6

\* Registration of the frames.
LEMMA RegisterKeeps ==
  ASSUME PlayInv, RegisterFrameBuffer
  PROVE  PlayInv'
<1>1. /\ pc = "register" /\ VPU_DecRegisterFrameBuffer /\ KeepDog /\ Active /\ phyNum' = phyNum
      /\ state = "REGFRMOK" /\ play \in Plays /\ ~play.err /\ FileKept(play) /\ phyNum \in Nat
      /\ phyNum = OwnBlocks + play.frmNum
  BY DEF RegisterFrameBuffer, PlayInv, Typed, PlayTypeOK, InSequence, Blocks, Active
<1>2. /\ (ret'.code = "SUCCESS" /\ state' = "DEC") \/ ret'.code = "FAILURE"
      /\ NoCallOutOfSequence'
  BY <1>1 DEF VPU_DecRegisterFrameBuffer, WrongCall, Returns, NoCallOutOfSequence
<1>3. CASE ret'.code = "SUCCESS"
  <2>1. state' = "DEC" /\ pc' = "decode" /\ play' = play
    BY <1>2, <1>3 DEF RegisterFrameBuffer, Goes
  <2>2. FileKept(play)'
    BY <1>1, <2>1 DEF KeepDog, FileKept, Pending, FileSize
  <2>3. InSequence' /\ Blocks'
    BY <1>1, <1>2, <2>1 DEF InSequence, Blocks
  <2> QED BY <1>1, <2>1, <2>2, <2>3, OtherCall
<1>4. CASE ret'.code # "SUCCESS"
  <2>1. Fails(play)
    BY <1>4 DEF RegisterFrameBuffer
  <2> QED BY <1>1, <1>2, <2>1, OtherFails
<1> QED
  BY <1>3, <1>4

\* The fetch of the frame that is offered.
LEMMA GetOutputKeeps ==
  ASSUME PlayInv, GetOutputFrame
  PROVE  PlayInv'
<1>1. /\ pc = "fetch" /\ VPU_DecGetOutputFrame /\ KeepDog /\ Active /\ phyNum' = phyNum
      /\ state = "OUTOK" /\ play \in Plays /\ ~play.err /\ FileKept(play) /\ phyNum \in Nat
      /\ phyNum = OwnBlocks + play.frmNum /\ play.frames \in Nat \ {0}
  BY DEF GetOutputFrame, PlayInv, Typed, PlayTypeOK, InSequence, Blocks, Active
<1>2. ret'.code = "SUCCESS" /\ state' = "DEC" /\ NoCallOutOfSequence'
  BY <1>1 DEF VPU_DecGetOutputFrame, WrongCall, NoCallOutOfSequence
<1>3. pc' = "display" /\ play' = [play EXCEPT !.frames = play.frames - 1]
  BY <1>2 DEF GetOutputFrame, Goes
<1>4. play' \in Plays
  BY <1>1, <1>3 DEF Plays
<1>5. /\ play'.frmNum = play.frmNum /\ play'.err = play.err /\ play'.notUsed = play.notUsed
      /\ play'.nullData = play.nullData /\ play'.units = play.units /\ play'.tail = play.tail
      /\ play'.fileeos = play.fileeos /\ play'.bufNull = play.bufNull
      /\ play'.told = play.told /\ play'.met = play.met /\ play'.fed = play.fed
      /\ play'.ended = play.ended /\ play'.readbytes = play.readbytes
  BY <1>1, <1>3 DEF Plays
<1>6. FileKept(play)'
  BY <1>1, <1>5 DEF KeepDog, FileKept, Pending, FileSize
<1>7. InSequence' /\ Blocks'
  BY <1>1, <1>2, <1>3, <1>5 DEF InSequence, Blocks
<1> QED BY <1>1, <1>2, <1>3, <1>4, <1>5, <1>6, <1>7, OtherCall

\* The release of the frame just shown.
LEMMA DisplayedKeeps ==
  ASSUME PlayInv, OutFrameDisplayed
  PROVE  PlayInv'
<1>1. PICK f \in Frame : VPU_DecOutFrameDisplayed(f)
  BY DEF OutFrameDisplayed
<1>2. /\ pc = "display" /\ KeepDog /\ Active /\ phyNum' = phyNum
      /\ state = "DEC" /\ play \in Plays /\ ~play.err /\ FileKept(play) /\ phyNum \in Nat
      /\ phyNum = OwnBlocks + play.frmNum
  BY DEF OutFrameDisplayed, PlayInv, Typed, PlayTypeOK, InSequence, Blocks, Active
<1>3. state' = "DEC" /\ NoCallOutOfSequence'
  BY <1>1, <1>2 DEF VPU_DecOutFrameDisplayed, Returns, NoCallOutOfSequence
<1>4. CASE pc' = "decode" /\ play' = play
  <2>1. FileKept(play)'
    BY <1>2, <1>4 DEF KeepDog, FileKept, Pending, FileSize
  <2>2. InSequence' /\ Blocks'
    BY <1>2, <1>3, <1>4 DEF InSequence, Blocks
  <2> QED BY <1>2, <1>3, <1>4, <2>1, <2>2, OtherCall
<1>5. CASE Fails(play)
  BY <1>2, <1>3, <1>5, OtherFails
<1> QED
  BY <1>4, <1>5 DEF OutFrameDisplayed, Goes

\* The flush at the end of a play, and the next play.
LEMMA FlushKeeps ==
  ASSUME PlayInv, FlushAll
  PROVE  PlayInv'
<1>1. /\ pc = "flush" /\ VPU_DecFlushAll /\ KeepDog /\ Active /\ phyNum' = phyNum
      /\ state \notin {"INITOK", "REGFRMOK", "OUTOK"} /\ setup \in Setups
      /\ play \in Plays /\ ~play.err /\ FileKept(play) /\ phyNum \in Nat
      /\ phyNum = OwnBlocks + play.frmNum /\ (state = "OPEN" => play.frmNum = 0)
  BY DEF FlushAll, PlayInv, Typed, PlayTypeOK, InSequence, Blocks, Active
<1>2. /\ state' \in {state, "EOS"} /\ (state' = "OPEN" <=> state = "OPEN")
      /\ NoCallOutOfSequence'
  BY <1>1, FlushAllReturns DEF Returns, NoCallOutOfSequence, Live
<1>3. CASE ret'.code = "SUCCESS" /\ play.repeat > 0
  <2> DEFINE p == [play EXCEPT !.repeat = play.repeat - 1]
  <2>1. /\ p \in Plays /\ p.notUsed = play.notUsed /\ p.nullData = play.nullData
        /\ p.err = play.err /\ p.frmNum = play.frmNum
    BY <1>1, <1>3 DEF Plays
  <2>2. pc' = "decode" /\ play' = RepeatPlay(p, setup)
    BY <1>3 DEF FlushAll, Goes
  <2> HIDE DEF p
  <2>3. /\ play' \in Plays /\ Fresh(play', setup) /\ play'.notUsed = p.notUsed
        /\ play'.nullData = p.nullData /\ play'.err = p.err /\ play'.frmNum = p.frmNum
    BY <1>1, <2>1, <2>2, RepeatPlayFresh
  <2>4. FileKept(play)'
    <3>1. FileKept(play')
      BY <1>1, <2>3, FreshKept
    <3> QED BY <1>1, <3>1 DEF KeepDog, FileKept, Pending, FileSize
  <2>5. InSequence' /\ Blocks'
    BY <1>1, <1>2, <2>1, <2>2, <2>3 DEF InSequence, Blocks
  <2> QED BY <1>1, <1>2, <2>1, <2>2, <2>3, <2>4, <2>5, OtherCall
<1>4. CASE ret'.code = "SUCCESS" /\ ~(play.repeat > 0)
  <2>1. pc' = "close" /\ play' = play
    BY <1>4 DEF FlushAll, Goes
  <2>2. FileKept(play)'
    BY <1>1, <2>1 DEF KeepDog, FileKept, Pending, FileSize
  <2>3. InSequence' /\ Blocks'
    BY <1>1, <1>2, <2>1 DEF InSequence, Blocks, Active
  <2> QED BY <1>1, <1>2, <2>1, <2>2, <2>3, OtherCall
<1>5. CASE ret'.code # "SUCCESS"
  <2>1. Fails(play)
    BY <1>5 DEF FlushAll
  <2> QED BY <1>1, <1>2, <2>1, OtherFails
<1> QED
  BY <1>3, <1>4, <1>5

\* The end of a session, and the next.
LEMMA CloseKeeps ==
  ASSUME PlayInv, Close
  PROVE  PlayInv'
<1>1. /\ pc' = "done" /\ state' = "OPEN" /\ NoCallOutOfSequence' /\ play' = NoPlay /\ phyNum' = 0
      /\ quiet' = Still /\ ~carried' /\ ~blamed' /\ carried' \in BOOLEAN /\ blamed' \in BOOLEAN
      /\ setup' = setup /\ dog' = dog
  BY DEF Close, Goes, Reopen, NoCallOutOfSequence
<1>2. NoPlay \in Plays
  BY NoPlayType
<1>3. /\ NoPlay.readbytes \in 0..UnitSize /\ NoPlay.frames \in Nat
      /\ NoPlay.notUsed \in 0..(MaxNotUsed + 1) /\ NoPlay.nullData \in 0..(MaxNullData + 1)
  BY Limits DEF NoPlay
<1>4. PlayTypeOK'
  BY <1>1, <1>3 DEF PlayInv, Typed, PlayTypeOK
<1>5. Still \in Quiets
  BY Limits DEF Still, Quiets
<1>6. Typed'
  BY <1>1, <1>2, <1>4, <1>5 DEF Typed
<1>7. InSequence' /\ Blocks' /\ DogsOwn' /\ BlamedForOwnSilence'
  BY <1>1 DEF InSequence, Blocks, DogsOwn, BlamedForOwnSilence, Active
<1> QED
  BY <1>1, <1>6, <1>7 DEF PlayInv

\* The first play starts with the whole file unread and every counter of the client at zero.
LEMMA FirstPlayFresh ==
  ASSUME NEW s \in Setups, NEW n \in 0..MaxRepeat
  PROVE  LET p == FirstPlay(s, n)
         IN /\ p \in Plays /\ Fresh(p, s) /\ p.notUsed = 0 /\ p.nullData = 0 /\ ~p.err
            /\ p.frmNum = 0 /\ p.readbytes = 0
<1> DEFINE z == [NoPlay EXCEPT !.repeat = n]
<1>1. /\ z \in Plays /\ z.notUsed = 0 /\ z.nullData = 0 /\ ~z.err /\ z.frmNum = 0
      /\ z.readbytes = 0
  BY NoPlayType, Limits
<1> HIDE DEF z
<1>2. FirstPlay(s, n) = RepeatPlay(z, s)
  BY DEF FirstPlay, z
<1> QED
  BY <1>1, <1>2, RepeatPlayFresh

\* The next session finds the decoder as VPU_DecOpen makes it, and the counters as they were left.
LEMMA OpenKeeps ==
  ASSUME PlayInv, Open
  PROVE  PlayInv'
<1>1. PICK n \in 0..MaxRepeat : play' = FirstPlay(setup', n)
  BY DEF Open
<1>2. /\ pc = "done" /\ pc' = "decode" /\ setup' \in Setups /\ phyNum' = OwnBlocks
      /\ (carried' <=> dog # Clear) /\ carried' \in BOOLEAN
      /\ dog' = dog /\ quiet' = quiet /\ blamed' = blamed /\ state' = state /\ ret' = ret
  BY DEF Open, Goes, vars, wrapVars, appVars
<1>3. /\ state = "OPEN" /\ NoCallOutOfSequence /\ quiet = Still /\ ~blamed /\ blamed \in BOOLEAN
      /\ PlayTypeOK /\ quiet \in Quiets
  BY <1>2 DEF PlayInv, Typed, PlayTypeOK, InSequence
<1>4. /\ play' \in Plays /\ Fresh(play', setup') /\ play'.notUsed = 0 /\ play'.nullData = 0
      /\ ~play'.err /\ play'.frmNum = 0 /\ play'.readbytes = 0
  BY <1>1, <1>2, FirstPlayFresh
<1>5. FileKept(play)'
  <2>1. /\ setup'.file.units \in Nat /\ setup'.file.tail \in Nat /\ setup'.file.tail < UnitSize
        /\ setup'.file.units * UnitSize \in Nat
    BY <1>2, SetupTypes
  <2> QED BY <1>4, <2>1 DEF Fresh, FileKept, Pending, FileSize
<1>6. PlayTypeOK'
  <2>1. play'.frames \in Nat
    BY <1>4 DEF Plays
  <2> QED BY <1>2, <1>3, <1>4, <2>1, Limits DEF PlayTypeOK, Hangs, OwnBlocks
<1>7. Typed'
  BY <1>2, <1>3, <1>4, <1>6 DEF Typed
<1>8. InSequence' /\ Blocks' /\ BlamedForOwnSilence'
  BY <1>2, <1>3, <1>4 DEF InSequence, NoCallOutOfSequence, Blocks, BlamedForOwnSilence, OwnBlocks
<1>9. DogsOwn'
  <2>1. ~carried' => dog' = Clear /\ quiet' = Still
    BY <1>2, <1>3
  <2> QED BY <2>1, Limits DEF DogsOwn, Own, Clear, Still
<1> QED
  BY <1>5, <1>7, <1>8, <1>9 DEF PlayInv

-----------------------------------------------------------------------------
(* The theorems. *)

\* The invariant holds when the first session starts.
LEMMA PlayInitInv == PlayInit => PlayInv
<1> SUFFICES ASSUME PlayInit PROVE PlayInv
  OBVIOUS
<1>1. PICK n \in 0..MaxRepeat : play = FirstPlay(setup, n)
  BY DEF PlayInit
<1>2. /\ pc = "decode" /\ setup \in Setups /\ phyNum = OwnBlocks /\ dog = Clear /\ quiet = Still
      /\ carried = FALSE /\ blamed = FALSE /\ state = "OPEN" /\ NoCallOutOfSequence
  BY DEF PlayInit, Init, NoCallOutOfSequence
<1>3. /\ play \in Plays /\ Fresh(play, setup) /\ play.notUsed = 0 /\ play.nullData = 0
      /\ ~play.err /\ play.frmNum = 0 /\ play.readbytes = 0
  BY <1>1, <1>2, FirstPlayFresh
<1>4. FileKept(play)
  BY <1>2, <1>3, FreshKept
<1>5. Clear \in Dogs /\ Still \in Quiets
  BY Limits DEF Clear, Dogs, Still, Quiets
<1>6. PlayTypeOK
  <2>1. play.frames \in Nat
    BY <1>3 DEF Plays
  <2>2. ~Hangs(play) /\ 0 \in 0..(MaxNotUsed + 1) /\ 0 \in 0..(MaxNullData + 1)
    BY <1>3, Limits DEF Hangs
  <2>3. dog \in Dogs
    BY <1>2, <1>5
  <2>4. carried \in BOOLEAN /\ blamed \in BOOLEAN
    BY <1>2
  <2> QED BY <1>2, <1>3, <2>1, <2>2, <2>3, <2>4, Limits DEF PlayTypeOK, OwnBlocks, Dogs
<1>7. Typed /\ InSequence /\ Blocks /\ BlamedForOwnSilence
  BY <1>2, <1>3, <1>5, <1>6 DEF Typed, InSequence, Blocks, BlamedForOwnSilence, OwnBlocks
<1>8. DogsOwn
  BY <1>2, Limits DEF DogsOwn, Own, Clear, Still
<1> QED
  BY <1>4, <1>7, <1>8 DEF PlayInv

\* It is kept by every step.
LEMMA PlayNextInv == PlayInv /\ [PlayNext]_playVars => PlayInv'
<1> SUFFICES ASSUME PlayInv, [PlayNext]_playVars PROVE PlayInv'
  OBVIOUS
<1>1. CASE UNCHANGED playVars
  <2>1. /\ UNCHANGED <<pc, setup, play, phyNum, dog, quiet, carried, blamed>>
        /\ UNCHANGED <<state, ret>>
    BY <1>1 DEF playVars, vars, wrapVars, appVars
  <2>2. Typed'
    BY <2>1 DEF PlayInv, Typed, PlayTypeOK, Hangs
  <2>3. InSequence' /\ Blocks' /\ DogsOwn' /\ BlamedForOwnSilence'
    BY <2>1 DEF PlayInv, InSequence, NoCallOutOfSequence, Blocks, DogsOwn, Own, Active,
                BlamedForOwnSilence
  <2>4. FileKept(play) => FileKept(play)'
    BY <2>1 DEF FileKept, FileSize, Pending
  <2> QED BY <2>1, <2>2, <2>3, <2>4 DEF PlayInv
<1> QED
  BY <1>1, LeaveLoopKeeps, TurnKeeps, GetInitialInfoKeeps, RegisterKeeps, GetOutputKeeps,
     DisplayedKeeps, FlushKeeps, CloseKeeps, OpenKeeps DEF PlayNext, Step

\* The invariant holds in every session.
LEMMA PlayInvariance == PlaySpec => []PlayInv
<1> QED
  BY PlayInitInv, PlayNextInv, PTL DEF PlaySpec

\* Types; every counter of the client and of the watchdog stays within its limit for as long as
\* calls are made (decode_stream.c:1074-1104, vpu_wrapper.c:4582-4658).
THEOREM PlayTypeCorrect == PlaySpec => []PlayTypeOK
<1>1. PlayInv => PlayTypeOK
  BY DEF PlayInv, Typed
<1> QED
  BY <1>1, PlayInvariance, PTL

\* decode_stream makes no call out of sequence, whatever the VPU answers and whichever calls
\* fail.
THEOREM ClientInSequence == PlaySpec => []NoCallOutOfSequence
<1>1. PlayInv => NoCallOutOfSequence
  BY DEF PlayInv, InSequence
<1> QED
  BY <1>1, PlayInvariance, PTL

\* Through any number of resolution changes the client owns memory for exactly the frames of the
\* current sequence while the decoder may use them.
THEOREM FramesBacked == PlaySpec => []LiveFramesBacked
<1>1. PlayInv => LiveFramesBacked
  BY DEF PlayInv, Typed, PlayTypeOK, InSequence, Blocks, LiveFramesBacked, Live
<1> QED
  BY <1>1, PlayInvariance, PTL

\* The end of stream given to a decoder that does not report consumed bytes comes after every
\* byte of the file, in every play of it.
THEOREM EndOfStreamIsAll == PlaySpec => []EndMeansAll
<1>1. ASSUME PlayInv PROVE EndMeansAll
  <2>1. CASE pc = "done"
    BY <1>1, <2>1 DEF PlayInv, Typed, NoPlay, EndMeansAll
  <2>2. CASE pc # "done"
    <3> SUFFICES ASSUME play.ended, ~setup.capability, ~play.err
                 PROVE  play.fed = FileSize
      BY DEF EndMeansAll, FileSize
    <3>1. FileKept(play) /\ play.fed \in Nat
      BY <1>1, <2>2 DEF PlayInv, Typed, Plays
    <3>2. /\ play.units = 0 /\ play.tail = 0 /\ Pending(play) = 0
          /\ play.fed + Pending(play) + play.units * UnitSize + play.tail = FileSize
      BY <3>1 DEF FileKept
    <3>3. play.units * UnitSize = 0
      BY <3>2, Limits
    <3> QED BY <3>1, <3>2, <3>3
  <2> QED BY <2>1, <2>2
<1> QED
  BY <1>1, PlayInvariance, PTL

\* The wrapper's watchdog fails a session whose counters were at rest only for that session's own
\* silence.
THEOREM WatchdogBlamesOwnSilence == PlaySpec => []BlamedForOwnSilence
<1>1. PlayInv => BlamedForOwnSilence
  BY DEF PlayInv
<1> QED
  BY <1>1, PlayInvariance, PTL

\* The client is an application of VpuDec: what is proved there of the frames and of the
\* decoder's state holds of every play.
THEOREM PlayImplementsVpuDec == PlaySpec => Spec
<1>1. PlayInit => Init
  BY DEF PlayInit
<1>2. PlayInv /\ [PlayNext]_playVars => [Next]_vars
  <2> SUFFICES ASSUME PlayInv, [PlayNext]_playVars PROVE Next \/ UNCHANGED vars
    OBVIOUS
  <2>1. CASE DecodeBuf
    BY <2>1, TurnKeeps DEF Next
  <2>2. CASE GetInitialInfo \/ RegisterFrameBuffer \/ GetOutputFrame \/ OutFrameDisplayed \/ FlushAll
    BY <2>2 DEF GetInitialInfo, RegisterFrameBuffer, GetOutputFrame, OutFrameDisplayed, FlushAll, Next
  <2>3. CASE Close
    BY <2>3 DEF Close, Next
  <2>4. CASE LeaveLoop \/ Open \/ UNCHANGED playVars
    BY <2>4 DEF LeaveLoop, Open, playVars
  <2> QED BY <2>1, <2>2, <2>3, <2>4 DEF PlayNext, Step
<1> QED
  BY <1>1, <1>2, PlayInvariance, PTL DEF PlaySpec, Spec

\* Every session of decode_stream keeps the protocol of FrameOwnership, and with it its promise:
\* the client's own dispatch never makes the VPU write a frame that is on screen.
THEOREM ClientKeepsOwnership ==
  ASSUME "VC1_AP" \notin Codecs
  PROVE  PlaySpec => ImplementsOwnership /\ []Ownership!Promise
<1> QED
  BY PlayImplementsVpuDec, DecoderKeepsOwnership, PromiseKept, PTL DEF ImplementsOwnership

-----------------------------------------------------------------------------
(* The frames of this client: it gives a frame back before it decodes again. *)

NoneOut(fbs, pre) == pre = NoFrame /\ \A f \in Frame : fbs[f] # "DISP"
OneOut(fbs, pre, f) == f \in Frame /\ pre = f /\ \A h \in Frame : fbs[h] = "DISP" => h = f

\* Between two turns of the loop no frame is displayed or held; while one is fetched and shown it
\* is the only one.  A session that is told FAILURE_TIMEOUT goes to close.
OneFrame ==
  /\ pc \in {"decode", "getinfo", "register", "flush", "done"} =>
       held = {} /\ NoneOut(frameBufState, pPreDisplayFrameBuf)
  /\ pc \in {"fetch", "display"} =>
       OneOut(frameBufState, pPreDisplayFrameBuf, pDisplayFrameBuf)
  /\ pc = "fetch" => held = {}
  /\ pc = "display" => held = {pDisplayFrameBuf}
  /\ Active => state # "CORRUPT"
  /\ play.changes <= Changes

\* What a call of VPU_DecDecodeBuf that succeeds leaves, when it finds no frame out and enough
\* frames registered.
DecodedWell(in) ==
  /\ state' \in {"OPEN", "INITOK", "DEC", "STARTFRAMEOK", "OUTOK", "EOS"}
  /\ IF state' = "OUTOK" THEN OneOut(frameBufState', pPreDisplayFrameBuf', pDisplayFrameBuf')
                         ELSE NoneOut(frameBufState', pPreDisplayFrameBuf')
  /\ MinFrames <= Cardinality(Frame) + 1 => ret'.flags \cap {"INPUT_USED", "INPUT_NOT_USED"} # {}
  /\ in # Null /\ state' = "EOS" => "EOS" \in ret'.flags

\* An output that is shown when no frame is out is offered, never a REPEAT.
LEMMA LoneOutput ==
  ASSUME NEW o, NEW filter, NEW fbs \in FrameStates, NEW flag,
         NoneOut(fbs, pPreDisplayFrameBuf)
  PROVE  LET g == VpuGetOutput(o, filter, fbs, flag)
         IN IF g.state = "OUTOK" THEN OneOut(g.fbs, g.pre, g.disp) ELSE NoneOut(g.fbs, g.pre)
<1> DEFINE Alone(g) == IF g.state = "OUTOK" THEN OneOut(g.fbs, g.pre, g.disp)
                                            ELSE NoneOut(g.fbs, g.pre)
           p == RectifyIndex(RectifyRange(o), fbs)
<1>1. Alone(NothingShown(p, fbs, flag))
  BY DEF NothingShown
<1>2. ASSUME NEW fil PROVE Alone(ShowOutput(p, fil, fbs, flag))
  <2> DEFINE fbs1     == MarkDecoded(p, fbs)
             dis      == DisplayIndex(p)
             disorder == dis \in Frame /\ fbs1[dis] # "DEC"
             shown    == dis \in Frame /\ (disorder => codec = "VC1_AP")
             repeated == shown /\ Repeated(fbs1, dis)
             dropped  == \/ disorder /\ ~shown
                         \/ fil /\ p.dec = "UNDEC" /\ dis = "NODIS"
             result   == IF repeated THEN "REPEAT"
                         ELSE IF shown THEN IF fil THEN "MOSAIC_DIS" ELSE "DIS"
                         ELSE IF dis = "EOS" THEN "EOS"
                         ELSE IF dropped THEN "DROPPED" ELSE "NODIS"
             fbs2     == IF shown THEN [fbs1 EXCEPT ![dis] = "DISP"] ELSE fbs1
             g        == ShowOutput(p, fil, fbs, flag)
  <2>1. fbs1 \in FrameStates /\ \A f \in Frame : fbs1[f] # "DISP"
    BY DEF MarkDecoded, Recorded, FrameStates, NoneOut
  <2>2. /\ g.state = OutputState(result) /\ g.fbs = fbs2
        /\ g.pre = (IF shown THEN dis ELSE pPreDisplayFrameBuf)
        /\ g.disp = (IF shown THEN dis ELSE pDisplayFrameBuf)
    BY DEF ShowOutput
  <2>3. ~repeated
    <3> HIDE DEF fbs1, dis
    <3> QED BY <2>1, FrameAssumption DEF NoneOut, Repeated
  <2>4. g.state = "OUTOK" <=> shown
    <3> HIDE DEF repeated, shown, dropped, dis, g
    <3> QED BY <2>2, <2>3 DEF OutputState
  <2>5. shown => dis \in Frame /\ \A h \in Frame : fbs2[h] = "DISP" => h = dis
    <3> HIDE DEF fbs1, dis
    <3> QED BY <2>1 DEF FrameStates
  <2>6. ~shown => fbs2 = fbs1
    OBVIOUS
  <2>7. IF shown THEN OneOut(fbs2, g.pre, g.disp) ELSE NoneOut(fbs2, g.pre)
    <3> HIDE DEF g, fbs2, fbs1, shown, dis
    <3> QED BY <2>1, <2>2, <2>5, <2>6 DEF OneOut, NoneOut
  <2> HIDE DEF g, fbs2, shown
  <2>8. Alone(g)
    BY <2>2, <2>4, <2>7
  <2> QED BY <2>8 DEF g
<1> QED
  BY <1>1, <1>2 DEF VpuGetOutput

\* VpuDecBuf.
LEMMA DecBufWell ==
  ASSUME NEW in, NEW e, e.state \in {"DEC", "STARTFRAMEOK"}, e.fbs \in FrameStates,
         NoneOut(e.fbs, pPreDisplayFrameBuf), VpuDecBuf(in, e), ret'.code = "SUCCESS"
  PROVE  DecodedWell(in)
<1> DEFINE enough == VpuBitsBufIsEnough(e.bs, in)
           b      == IF enough THEN VpuFillData(e.bs, in) ELSE e.bs
           used   == IF enough THEN "INPUT_USED" ELSE "INPUT_NOT_USED"
           run    == IF e.state = "DEC" THEN "busy" ELSE vpuRun
<1>1. used \in {"INPUT_USED", "INPUT_NOT_USED"}
  OBVIOUS
<1>2. \/ DecodeCollect(in, e, b, used)
      \/ DecodeStartFails(e, b, used)
      \/ DecodeTimeout(e, b, run, used)
      \/ DecodeOutputFails(e, b, run, used)
      \/ \E r \in OutputResults(e, b) :
           \/ \E n \in r.remaining : DecodeOutput(in, b, used, r.got, r.pend, n)
           \/ \E k \in r.backup : DecodeResolutionChange(used, r.got, k)
           \/ DecodeReopenFails(b, used, r.got)
  BY DEF VpuDecBuf
<1> HIDE DEF b, used, run
<1>3. CASE DecodeCollect(in, e, b, used)
  BY <1>1, <1>3 DEF DecodeCollect, Decoded, KeepEntry, DecodedWell
<1>4. CASE \/ DecodeStartFails(e, b, used) \/ DecodeTimeout(e, b, run, used)
           \/ DecodeOutputFails(e, b, run, used)
  BY <1>4 DEF DecodeStartFails, DecodeTimeout, DecodeOutputFails, Decoded
<1>5. ASSUME NEW r \in OutputResults(e, b), NEW n \in r.remaining,
             DecodeOutput(in, b, used, r.got, r.pend, n)
      PROVE  DecodedWell(in)
  <2> DEFINE g == r.got
  <2>1. PICK o \in FirmwareOutputs(e.flag, e.pend, b), filter \in BOOLEAN :
          r = OutputResult(e, b, o, filter)
    BY DEF OutputResults
  <2>2. g = VpuGetOutput(o, filter, e.fbs, e.flag \cup Flagged(o))
    BY <2>1 DEF OutputResult
  <2>3. /\ ResultAgrees(g)
        /\ IF g.state = "OUTOK" THEN OneOut(g.fbs, g.pre, g.disp) ELSE NoneOut(g.fbs, g.pre)
    BY <2>2, ResultsAgree, LoneOutput
  <2>4. /\ state' = g.state /\ frameBufState' = g.fbs
        /\ pPreDisplayFrameBuf' = g.pre /\ pDisplayFrameBuf' = g.disp
        /\ ret'.flags = g.flags \cup InBuf(in, used, g.enough)
    BY <1>5 DEF DecodeOutput, Decoded
  <2>5. used \in ret'.flags
    BY <2>4 DEF InBuf
  <2> HIDE DEF g
  <2> QED BY <1>1, <2>3, <2>4, <2>5 DEF ResultAgrees, DecodedWell
<1>6. ASSUME NEW r \in OutputResults(e, b), NEW k \in r.backup,
             DecodeResolutionChange(used, r.got, k)
      PROVE  DecodedWell(in)
  BY <1>1, <1>6 DEF DecodeResolutionChange, ResetFrames, Decoded, DecodedWell, NoneOut
<1>7. ASSUME NEW r \in OutputResults(e, b) PROVE ~DecodeReopenFails(b, used, r.got)
  BY DEF DecodeReopenFails, Decoded
<1> QED
  BY <1>2, <1>3, <1>4, <1>5, <1>6, <1>7

\* With no frame out the VPU has them all: the RV decoder has enough to go on with.
LEMMA EnoughFrames ==
  ASSUME MinFrames <= Cardinality(Frame) + 1, NEW e, NoneOut(e.fbs, pPreDisplayFrameBuf)
  PROVE  ~TooFewFrames(e)
<1>1. Cardinality(Frame) \in Nat /\ MinFrames \in Nat
  BY FS_CardinalityType, Limits, FrameAssumption
<1>2. Frame \ FramesIn(e.fbs, "DISP") = Frame
  BY DEF NoneOut, FramesIn
<1> QED
  BY <1>1, <1>2 DEF TooFewFrames, VpuQueryVpuHoldBufNum

\* VPU_DecDecodeBuf.
LEMMA DecodeLone ==
  ASSUME frameBufState \in FrameStates, NoneOut(frameBufState, pPreDisplayFrameBuf),
         state \notin {"INITOK", "REGFRMOK", "OUTOK", "CORRUPT"},
         NEW in, VPU_DecDecodeBuf(in), ret'.code = "SUCCESS"
  PROVE  DecodedWell(in)
<1>1. CASE state = "OPEN" /\ SeqInit(in)
  <2>1. frameBufState' = frameBufState /\ pPreDisplayFrameBuf' = pPreDisplayFrameBuf
    BY <1>1 DEF SeqInit
  <2>2. \/ /\ state' = "OPEN"
           /\ \E code : \/ Decoded(code, {"INPUT_NOT_USED"})
                        \/ Decoded(code, InBuf(in, "INPUT_USED", FALSE))
        \/ state' = "INITOK" /\ Decoded("SUCCESS", {"INIT_OK", "INPUT_USED"})
    BY <1>1 DEF SeqInit
  <2>3. ret'.flags \cap {"INPUT_USED", "INPUT_NOT_USED"} # {} /\ state' \in {"OPEN", "INITOK"}
    BY <2>2 DEF Decoded, InBuf
  <2> QED BY <2>1, <2>3 DEF DecodedWell
<1>2. CASE state = "EOS" /\ in = Null /\ Decoded("SUCCESS", {"INPUT_USED", "NO_ENOUGH_INBUF"})
           /\ UNCHANGED wrapVars
  BY <1>2 DEF Decoded, wrapVars, DecodedWell
<1>3. CASE Decoded("FAILURE", {})
  BY <1>3 DEF Decoded
<1>4. ASSUME state \in {"DEC", "STARTFRAMEOK", "EOS"}, NEW e \in Entries,
             IF TooFewFrames(e) THEN DecodeNoFrames(e) ELSE VpuDecBuf(in, e)
      PROVE  DecodedWell(in)
  <2>1. /\ e.state \in {"DEC", "STARTFRAMEOK"} /\ e.fbs \in FrameStates
        /\ NoneOut(e.fbs, pPreDisplayFrameBuf)
    <3>1. CASE state # "EOS"
      BY <1>4, <3>1 DEF Entries
    <3>2. CASE state = "EOS"
      <4> DEFINE fbs == [f \in Frame |-> IF frameBufState[f] = "DEC" THEN "FREE"
                                                                   ELSE frameBufState[f]]
      <4>1. e.state = "DEC" /\ e.fbs = fbs
        BY <3>2 DEF Entries
      <4>2. fbs \in FrameStates /\ NoneOut(fbs, pPreDisplayFrameBuf)
        BY DEF FrameStates, NoneOut
      <4> QED BY <4>1, <4>2
    <3> QED BY <3>1, <3>2
  <2>2. CASE DecodeNoFrames(e)
    <3>1. TooFewFrames(e) => ~(MinFrames <= Cardinality(Frame) + 1)
      BY <2>1, EnoughFrames
    <3>2. CASE TooFewFrames(e)
      BY <2>1, <2>2, <3>1, <3>2 DEF DecodeNoFrames, KeepEntry, DecodedWell
    <3>3. CASE VpuDecBuf(in, e)
      BY <2>1, <3>3, DecBufWell
    <3> QED BY <1>4, <3>2, <3>3
  <2>3. CASE VpuDecBuf(in, e)
    BY <2>1, <2>3, DecBufWell
  <2> QED BY <1>4, <2>2, <2>3
<1> QED
  BY <1>1, <1>2, <1>3, <1>4 DEF VPU_DecDecodeBuf

\* Counting a turn starts nothing anew but the count of refusals.
LEMMA CountedFields ==
  ASSUME NEW p \in Plays
  PROVE  LET c == Counted(p)
         IN /\ c.repeat = p.repeat /\ c.changes = p.changes /\ c.frames = p.frames
            /\ c.units = p.units /\ c.fileeos = p.fileeos /\ c.bufNull = p.bufNull
            /\ c.notUsed = IF p.bufNull THEN 0 ELSE p.notUsed + 1
<1> DEFINE a == IF p.bufNull THEN 0 ELSE p.notUsed + 1
           b == IF p.readbytes = 0 /\ ~p.answered THEN p.nullData + 1 ELSE 0
           c == Counted(p)
<1>1. c = [p EXCEPT !.notUsed = a, !.nullData = b]
  BY DEF Counted
<1>2. /\ c.repeat = p.repeat /\ c.changes = p.changes /\ c.frames = p.frames
      /\ c.units = p.units /\ c.fileeos = p.fileeos /\ c.bufNull = p.bufNull
      /\ c.notUsed = a
  <2> HIDE DEF a, b, c
  <2> QED BY <1>1 DEF Plays
<1> QED
  BY <1>2

\* The node of a turn: the one refused last, no data after the end of the file, or the next unit.
LEMMA NodeOfTurn ==
  ASSUME NEW c \in Plays, NEW p \in Reads(c)
  PROVE  /\ p.repeat = c.repeat /\ p.changes = c.changes /\ p.frames = c.frames
         /\ p.notUsed = c.notUsed /\ Node(p) # Null
         /\ \/ ~c.bufNull /\ p = c
            \/ /\ c.bufNull /\ c.fileeos
               /\ p.bufNull /\ p.fileeos
            \/ /\ c.bufNull /\ ~c.fileeos
               /\ p.fileeos \/ (c.units > 0 /\ p.units = c.units - 1)
<1>1. Node(p) # Null
  BY DEF Node, Eos, Null
<1>2. CASE ~c.bufNull
  <2>1. p = c
    BY <1>2 DEF Reads
  <2> QED BY <1>1, <1>2, <2>1
<1>3. CASE c.bufNull /\ c.fileeos
  <2>1. p = [c EXCEPT !.readbytes = 0]
    BY <1>3 DEF Reads
  <2> QED BY <1>1, <1>3, <2>1 DEF Plays
<1>4. CASE c.bufNull /\ ~c.fileeos
  <2> DEFINE n == IF c.units > 0 THEN UnitSize ELSE c.tail
             u == IF c.units > 0 THEN c.units - 1 ELSE 0
             t == IF c.units > 0 THEN c.tail ELSE 0
  <2>1. PICK m : p = [c EXCEPT !.units = u, !.tail = t, !.readbytes = n, !.fileeos = n # UnitSize,
                               !.bufNull = FALSE, !.met = m]
    BY <1>4 DEF Reads
  <2>2. /\ p.units = u /\ (p.fileeos <=> n # UnitSize)
        /\ p.repeat = c.repeat /\ p.changes = c.changes /\ p.frames = c.frames
        /\ p.notUsed = c.notUsed
    <3> HIDE DEF n, u, t
    <3> QED BY <2>1 DEF Plays
  <2>3. c.tail \in 0..(UnitSize - 1)
    BY DEF Plays
  <2>4. n = UnitSize => c.units > 0
    BY <2>3, Limits
  <2> QED BY <1>1, <1>4, <2>2, <2>4
<1> QED BY <1>2, <1>3, <1>4

\* The locals after an answer.
LEMMA AnswerFields ==
  ASSUME NEW p \in Plays, NEW in, NEW flags, NEW q \in Consumed(Answer(p, in, flags), flags)
  PROVE  /\ q.repeat = p.repeat /\ q.frames = p.frames /\ q.notUsed = p.notUsed
         /\ q.units = p.units /\ q.fileeos = p.fileeos
         /\ q.bufNull <=> "INPUT_USED" \in flags \/ p.bufNull
         /\ q.dispeos <=> "EOS" \in flags
         /\ q.changes = IF "RESOLUTION_CHANGED" \in flags THEN p.changes + 1 ELSE p.changes
<1> DEFINE used == "INPUT_USED" \in flags
           a    == Answer(p, in, flags)
           null == used \/ p.bufNull
           node == IF used THEN Spent(p.nodes) ELSE p.nodes
           ans  == flags \cap {"EOS", "DIS", "NODIS", "DROPPED"} # {}
           eos  == "EOS" \in flags
           chg  == IF "RESOLUTION_CHANGED" \in flags THEN p.changes + 1 ELSE p.changes
           fed  == IF used /\ in.size > 0 THEN p.fed + in.size ELSE p.fed
           end  == p.ended \/ in.size = 0
           Fields(r) == /\ r.repeat = p.repeat /\ r.frames = p.frames /\ r.notUsed = p.notUsed
                        /\ r.units = p.units /\ r.fileeos = p.fileeos /\ r.bufNull = null
                        /\ r.dispeos = eos /\ r.changes = chg
           Names == {"units", "tail", "fileeos", "dispeos", "bufNull", "frames", "nodes", "told",
                     "met", "fed", "ended", "readbytes", "answered", "notUsed", "nullData",
                     "repeat", "frmNum", "changes", "err"}
<1>1. a = [p EXCEPT !.bufNull = null, !.nodes = node, !.answered = ans, !.dispeos = eos,
                    !.changes = chg, !.fed = fed, !.ended = end]
  BY DEF Answer
<1>2. DOMAIN p = Names
  BY DEF Plays
<1>3. DOMAIN a = Names /\ Fields(a)
  <2> HIDE DEF null, node, ans, eos, chg, fed, end, a
  <2> QED BY <1>1, <1>2
<1>4. q = a \/ \E m \in BOOLEAN : q = [a EXCEPT !.told = TRUE, !.met = m]
  BY DEF Consumed
<1>5. Fields(q)
  <2> HIDE DEF null, eos, chg, a
  <2> QED BY <1>3, <1>4
<1> QED
  BY <1>5

\* A turn of the loop after which the session goes on, with node p.
GoodTurn(p) ==
  /\ CallAgrees /\ DecodedWell(Node(p)) /\ ret'.code = "SUCCESS"
  /\ pc' = AfterDecode(ret'.flags)
  /\ "RESOLUTION_CHANGED" \in ret'.flags => play.changes < Changes
  /\ play' \in Consumed(Answer(p, Node(p), ret'.flags), ret'.flags)
  /\ LET d == CountLoop(state', Node(p), "INPUT_USED" \in ret'.flags)
     IN ReachesWatchdog(ret') => ~DeadLoop(d) /\ dog' = d

\* Otherwise it goes to close.
LEMMA TurnEnds ==
  ASSUME PlayInv, OneFrame, frameBufState \in FrameStates, DecodeBuf
  PROVE  /\ held' = {}
         /\ \E p \in Reads(Counted(play)) : Fails(p) \/ GoodTurn(p)
<1>1. PICK p \in Reads(Counted(play)) :
        LET in   == Node(p)
            used == "INPUT_USED" \in ret'.flags
            d    == CountLoop(state', in, used)
            dead == ReachesWatchdog(ret') /\ DeadLoop(d)
        IN /\ VPU_DecDecodeBuf(in)
           /\ "RESOLUTION_CHANGED" \in ret'.flags => play.changes < Changes
           /\ dog' = IF ReachesWatchdog(ret') THEN VpuCheckDeadLoop(d) ELSE dog
           /\ IF ret'.code # "SUCCESS" \/ dead
                THEN Fails(p) /\ UNCHANGED phyNum
                ELSE /\ play' \in Consumed(Answer(p, in, ret'.flags), ret'.flags)
                     /\ Goes(AfterDecode(ret'.flags))
  BY DEF DecodeBuf
<1> DEFINE in   == Node(p)
           used == "INPUT_USED" \in ret'.flags
           d    == CountLoop(state', in, used)
           dead == ReachesWatchdog(ret') /\ DeadLoop(d)
<1>2. /\ pc = "decode" /\ Active /\ state \notin {"INITOK", "REGFRMOK", "OUTOK"}
  BY DEF DecodeBuf, PlayInv, InSequence, Active
<1>3. /\ held = {} /\ NoneOut(frameBufState, pPreDisplayFrameBuf) /\ state # "CORRUPT"
  BY <1>2 DEF OneFrame
<1>4. CallAgrees
  BY <1>1, <1>2, DecodeBufAgrees
<1>5. held' = {}
  BY <1>3, <1>4 DEF CallAgrees
<1>6. CASE ret'.code # "SUCCESS" \/ dead
  BY <1>1, <1>5, <1>6
<1>7. CASE ret'.code = "SUCCESS" /\ ~dead
  <2>1. DecodedWell(in)
    BY <1>1, <1>2, <1>3, <1>7, DecodeLone
  <2>2. ReachesWatchdog(ret') => ~DeadLoop(d) /\ dog' = d
    <3> HIDE DEF d
    <3> QED BY <1>1, <1>7 DEF VpuCheckDeadLoop, d
  <2>3. /\ "RESOLUTION_CHANGED" \in ret'.flags => play.changes < Changes
        /\ play' \in Consumed(Answer(p, in, ret'.flags), ret'.flags)
        /\ pc' = AfterDecode(ret'.flags)
    BY <1>1, <1>7 DEF Goes
  <2>4. GoodTurn(p)
    BY <1>4, <1>7, <2>1, <2>2, <2>3 DEF GoodTurn
  <2> QED BY <1>5, <2>4
<1> QED
  BY <1>6, <1>7

\* A good turn keeps the frame it shows apart, and the changes within their bound.
LEMMA GoodTurnKeeps ==
  ASSUME PlayInv, OneFrame, LoopGoesOn(play), ~Hangs(play), NEW p \in Reads(Counted(play)),
         GoodTurn(p), held' = {}, pc = "decode"
  PROVE  OneFrame'
<1>1. play \in Plays /\ play.changes <= Changes /\ Changes \in Nat
  BY PlayAssumption DEF PlayInv, Typed, OneFrame, Active
<1>2. Counted(play) \in Plays /\ Counted(play).changes = play.changes
  BY <1>1, CountedKeeps, CountedFields
<1>3. p \in Plays /\ p.changes = play.changes
  BY <1>1, <1>2, NodeOfTurn, ReadsKeep DEF PlayInv, Typed, PlayTypeOK
<1>4. play'.changes <= Changes
  <2>1. play'.changes = IF "RESOLUTION_CHANGED" \in ret'.flags THEN p.changes + 1 ELSE p.changes
    BY <1>3, AnswerFields DEF GoodTurn
  <2>2. "RESOLUTION_CHANGED" \in ret'.flags => play.changes < Changes
    BY DEF GoodTurn
  <2>3. play.changes \in Nat
    BY <1>1 DEF Plays
  <2> QED BY <1>1, <1>3, <2>1, <2>2, <2>3
<1>5. /\ state' # "CORRUPT"
      /\ IF state' = "OUTOK" THEN OneOut(frameBufState', pPreDisplayFrameBuf', pDisplayFrameBuf')
                             ELSE NoneOut(frameBufState', pPreDisplayFrameBuf')
  BY DEF GoodTurn, DecodedWell
<1>6. \/ pc' \in {"getinfo", "decode"} /\ state' # "OUTOK"
      \/ pc' = "fetch" /\ state' = "OUTOK"
  BY DEF GoodTurn, CallAgrees, AfterDecode, Offers, Starts
<1> QED
  BY <1>4, <1>5, <1>6 DEF OneFrame

\* A session that fails keeps the count of changes.
LEMMA FailsCount ==
  ASSUME NEW p \in Plays, Fails(p)
  PROVE  pc' = "close" /\ play'.changes = p.changes
BY DEF Fails, Plays

\* The flush at the end of a play shows no frame.
LEMMA FlushShowsNone ==
  ASSUME VPU_DecFlushAll, frameBufState \in FrameStates,
         \A f \in Frame : frameBufState[f] # "DISP"
  PROVE  \A f \in Frame : frameBufState'[f] # "DISP"
<1> DEFINE None(fbs) == \A f \in Frame : fbs[f] # "DISP"
<1>1. ASSUME NEW fbs, NEW flag, NEW b, FlushFinish(fbs, flag, b), None(fbs)
      PROVE  None(frameBufState')
  BY <1>1 DEF FlushFinish
<1>2. ASSUME NEW code, NEW fbs, NEW flag, NEW p, NEW b, NEW run,
             FlushFails(code, fbs, flag, p, b, run), None(fbs)
      PROVE  None(frameBufState')
  BY <1>2 DEF FlushFails
<1>3. ASSUME NEW o, NEW b, FlushOutput(o, b) PROVE None(frameBufState')
  <2>1. PICK gone, fbs :
          /\ fbs = [f \in Frame |-> IF f \in gone THEN "FREE" ELSE frameBufState[f]]
          /\ \/ \E flag, p : FlushFails("FAILURE", frameBufState, flag, p, b, "idle")
             \/ \E flag, p : FlushFinish(fbs, flag, b) \/ FlushFails("FAILURE", fbs, flag, p, b, "idle")
    BY <1>3 DEF FlushOutput
  <2>2. None(fbs)
    BY <2>1
  <2> HIDE DEF None
  <2> QED BY <1>1, <1>2, <2>1, <2>2 DEF None
<1>4. ASSUME FlushDrive PROVE None(frameBufState')
  <2>1. None(frameBufState)
    OBVIOUS
  <2> HIDE DEF None
  <2> QED BY <1>2, <1>3, <1>4, <2>1 DEF FlushDrive
<1>5. None(frameBufState)
  OBVIOUS
<1>6. CASE UNCHANGED frameBufState
  BY <1>5, <1>6
<1>7. CASE FlushFinish(frameBufState, dispFlag, bs) \/ FlushDrive
  BY <1>1, <1>4, <1>5, <1>7
<1>8. UNCHANGED frameBufState \/ FlushFinish(frameBufState, dispFlag, bs) \/ FlushDrive
  BY DEF VPU_DecFlushAll
<1> QED
  BY <1>6, <1>7, <1>8

\* Every step of the client keeps it, while every step of the decoder keeps VpuDec's invariant.
LEMMA OneFrameKeeps ==
  ASSUME PlayInv, Inv, OneFrame, [PlayNext]_playVars
  PROVE  OneFrame'
<1>1. /\ frameBufState \in FrameStates /\ held \subseteq Frame
      /\ play \in Plays /\ play.changes <= Changes /\ Changes \in Nat /\ NoFrame \notin Frame
      /\ setup \in Setups
  BY PlayAssumption, FrameAssumption
     DEF Inv, TypeOK, FrameStates, PlayInv, Typed, PlayTypeOK, OneFrame
<1>2. CASE LeaveLoop
  <2>1. pc = "decode" /\ UNCHANGED vars /\ ~Hangs(play)
    BY <1>2 DEF LeaveLoop, PlayInv, Typed, PlayTypeOK
  <2>2. CASE pc' = "flush" /\ play' = play
    BY <2>1, <2>2 DEF OneFrame, Active, vars, wrapVars, appVars
  <2>3. CASE Fails(Counted(play))
    <3>1. Counted(play) \in Plays /\ Counted(play).changes = play.changes
      BY <1>1, <2>1, CountedKeeps, CountedFields
    <3> QED BY <1>1, <2>3, <3>1, FailsCount DEF OneFrame, Active
  <2> QED BY <1>2, <2>2, <2>3 DEF LeaveLoop, Goes
<1>3. CASE DecodeBuf
  <2>1. PICK p \in Reads(Counted(play)) : held' = {} /\ (Fails(p) \/ GoodTurn(p))
    BY <1>1, <1>3, TurnEnds
  <2>2. pc = "decode" /\ LoopGoesOn(play) /\ ~Hangs(play)
    BY <1>3 DEF DecodeBuf, PlayInv, Typed, PlayTypeOK
  <2>3. CASE GoodTurn(p)
    BY <2>1, <2>2, <2>3, GoodTurnKeeps
  <2>4. CASE Fails(p)
    <3>1. Counted(play) \in Plays /\ Counted(play).changes = play.changes
      BY <1>1, <2>2, CountedKeeps, CountedFields
    <3>2. p \in Plays /\ p.changes = play.changes
      BY <1>1, <3>1, NodeOfTurn, ReadsKeep
    <3> QED BY <1>1, <2>4, <3>2, FailsCount DEF OneFrame, Active
  <2> QED BY <2>1, <2>3, <2>4
<1>4. CASE GetInitialInfo
  <2>1. pc = "getinfo" /\ VPU_DecGetInitialInfo /\ state = "INITOK"
    BY <1>4 DEF GetInitialInfo, PlayInv, InSequence
  <2>2. /\ state' = "REGFRMOK" /\ held' = held
        /\ UNCHANGED <<frameBufState, pPreDisplayFrameBuf>>
    BY <2>1 DEF VPU_DecGetInitialInfo, WrongCall
  <2>3. Fails(play) \/ (pc' = "register" /\ \E n : play' = [play EXCEPT !.frmNum = n])
    BY <1>4 DEF GetInitialInfo, Goes
  <2>4. pc' \in {"close", "register"} /\ play'.changes = play.changes
    BY <1>1, <2>3, FailsCount DEF Plays
  <2> QED BY <1>1, <2>1, <2>2, <2>4 DEF OneFrame, Active
<1>5. CASE RegisterFrameBuffer
  <2>1. pc = "register" /\ VPU_DecRegisterFrameBuffer /\ state = "REGFRMOK"
    BY <1>5 DEF RegisterFrameBuffer, PlayInv, InSequence
  <2>2. /\ state' \in {"DEC", "REGFRMOK"} /\ held' = held
        /\ UNCHANGED <<frameBufState, pPreDisplayFrameBuf>>
    BY <2>1 DEF VPU_DecRegisterFrameBuffer, WrongCall, Returns, wrapVars
  <2>3. pc' \in {"close", "decode"} /\ play'.changes = play.changes
    BY <1>1, <1>5, FailsCount DEF RegisterFrameBuffer, Goes
  <2> QED BY <1>1, <2>1, <2>2, <2>3 DEF OneFrame, Active
<1>6. CASE GetOutputFrame
  <2>1. pc = "fetch" /\ VPU_DecGetOutputFrame /\ state = "OUTOK"
    BY <1>6 DEF GetOutputFrame, PlayInv, InSequence
  <2>2. /\ state' = "DEC" /\ held' = held \cup {pDisplayFrameBuf}
        /\ UNCHANGED <<frameBufState, pPreDisplayFrameBuf, pDisplayFrameBuf>>
    BY <2>1 DEF VPU_DecGetOutputFrame, WrongCall
  <2>3. Fails(play) \/ (pc' = "display" /\ play' = [play EXCEPT !.frames = play.frames - 1])
    BY <1>6 DEF GetOutputFrame, Goes
  <2>4. pc' \in {"close", "display"} /\ play'.changes = play.changes
    BY <1>1, <2>3, FailsCount DEF Plays
  <2> QED BY <1>1, <2>1, <2>2, <2>4 DEF OneFrame, Active
<1>7. CASE OutFrameDisplayed
  <2>1. PICK f \in Frame : VPU_DecOutFrameDisplayed(f)
    BY <1>7 DEF OutFrameDisplayed
  <2>2. /\ pc = "display" /\ state = "DEC" /\ held = {pDisplayFrameBuf}
        /\ OneOut(frameBufState, pPreDisplayFrameBuf, pDisplayFrameBuf)
    BY <1>7 DEF OutFrameDisplayed, PlayInv, InSequence, OneFrame
  <2>3. f = pDisplayFrameBuf /\ held' = {} /\ state' = "DEC"
    BY <2>1, <2>2 DEF VPU_DecOutFrameDisplayed
  <2>4. frameBufState[f] = "DISP"
    BY <2>2, <2>3 DEF Inv, OwnedDisplayed, Live
  <2>5. CASE ret'.code = "SUCCESS"
    <3>1. /\ frameBufState' = [frameBufState EXCEPT ![f] = "FREE"]
          /\ pPreDisplayFrameBuf' = NoFrame
      BY <2>1, <2>2, <2>3, <2>4, <2>5 DEF VPU_DecOutFrameDisplayed, Returns, ForgetLast, OneOut
    <3>2. NoneOut(frameBufState', pPreDisplayFrameBuf')
      BY <1>1, <2>2, <2>3, <3>1 DEF OneOut, NoneOut, FrameStates
    <3>3. pc' = "decode" /\ play' = play
      BY <1>7, <2>5 DEF OutFrameDisplayed, Goes
    <3> QED BY <1>1, <2>2, <2>3, <3>2, <3>3 DEF OneFrame, Active
  <2>6. CASE ret'.code # "SUCCESS"
    BY <1>1, <1>7, <2>6, FailsCount DEF OutFrameDisplayed, OneFrame, Active
  <2> QED BY <2>5, <2>6
<1>8. CASE FlushAll
  <2>1. /\ pc = "flush" /\ VPU_DecFlushAll /\ held = {} /\ state # "CORRUPT"
        /\ NoneOut(frameBufState, pPreDisplayFrameBuf) /\ play.changes <= Changes
    BY <1>8 DEF FlushAll, OneFrame, Active
  <2>2. /\ held' = {} /\ pPreDisplayFrameBuf' = NoFrame /\ state' \in {state, "EOS"}
    BY <2>1, FlushAllReturns DEF VPU_DecFlushAll, NoneOut
  <2>3. NoneOut(frameBufState', pPreDisplayFrameBuf')
    BY <1>1, <2>1, <2>2, FlushShowsNone DEF NoneOut
  <2>4. CASE pc' = "close" /\ play'.changes = play.changes
    BY <2>1, <2>4 DEF OneFrame, Active
  <2>5. CASE /\ pc' = "decode"
             /\ play' = RepeatPlay([play EXCEPT !.repeat = play.repeat - 1], setup)
    <3>1. play'.changes = play.changes
      BY <1>1, <2>5 DEF RepeatPlay, Plays
    <3> QED BY <2>1, <2>2, <2>3, <2>5, <3>1 DEF OneFrame, Active
  <2> QED BY <1>1, <1>8, <2>4, <2>5, FailsCount DEF FlushAll, Goes
<1>9. CASE Close
  BY <1>1, <1>9 DEF Close, Goes, Reopen, ResetFrames, OneFrame, NoneOut, Active, NoPlay
<1>10. CASE Open
  <2>1. PICK n \in 0..MaxRepeat : play' = FirstPlay(setup', n)
    BY <1>10 DEF Open
  <2>2. pc = "done" /\ pc' = "decode" /\ state = "OPEN" /\ UNCHANGED vars
    BY <1>10 DEF Open, Goes, PlayInv, InSequence
  <2>3. play'.changes = 0
    BY <2>1 DEF FirstPlay, RepeatPlay, NoPlay
  <2> QED BY <1>1, <2>2, <2>3 DEF OneFrame, Active, vars, wrapVars, appVars
<1>11. CASE UNCHANGED playVars
  BY <1>11 DEF OneFrame, Active, playVars, vars, wrapVars, appVars
<1> QED
  BY <1>2, <1>3, <1>4, <1>5, <1>6, <1>7, <1>8, <1>9, <1>10, <1>11 DEF PlayNext, Step

\* decode_stream never has more than one frame of the decoder, and gives it back before it
\* decodes again: it meets no REPEAT, and the RV decoder never runs short of frames.
THEOREM OneFrameAtATime == PlaySpec => []OneFrame
<1>1. PlayInit => OneFrame
  <2> SUFFICES ASSUME PlayInit PROVE OneFrame
    OBVIOUS
  <2>1. PICK n \in 0..MaxRepeat : play = FirstPlay(setup, n)
    BY DEF PlayInit
  <2>2. play.changes = 0
    BY <2>1 DEF FirstPlay, RepeatPlay, NoPlay
  <2> QED BY <2>2, PlayAssumption DEF PlayInit, Init, OneFrame, NoneOut, Active
<1>2. PlayInv /\ Inv /\ OneFrame /\ [PlayNext]_playVars => OneFrame'
  BY OneFrameKeeps
<1> QED
  BY <1>1, <1>2, PlayInvariance, PlayImplementsVpuDec, Invariance, PTL DEF PlaySpec

\* DisplayedMeansOwned of a session that goes on, whether calls fail or not.
PlayedMeansOwned ==
  Active /\ state \in Live => FramesIn(frameBufState, "DISP") = held \cup Ready

\* Failing calls lose this client no frame while its session lasts: the frame of a failed release
\* is the last it had, and the session is over with it (decode_stream.c:1313).  The decoder by
\* itself keeps the account only when no call fails (NoFrameLost).
THEOREM ClientLosesNoFrame == PlaySpec => []PlayedMeansOwned
<1>1. ASSUME PlayInv, Inv, OneFrame, Active, state \in Live
      PROVE  FramesIn(frameBufState, "DISP") = held \cup Ready
  <2>1. held \cup Ready \subseteq FramesIn(frameBufState, "DISP")
    BY <1>1 DEF Inv, TypeOK, OwnedDisplayed, FramesIn, Ready
  <2>2. pc \in {"decode", "getinfo", "register", "fetch", "display", "flush"}
    BY <1>1 DEF PlayInv, Typed, PlayTypeOK, Active
  <2>3. CASE pc \in {"decode", "getinfo", "register", "flush"}
    BY <1>1, <2>1, <2>3 DEF OneFrame, NoneOut, FramesIn
  <2>4. CASE pc \in {"fetch", "display"}
    <3>1. FramesIn(frameBufState, "DISP") \subseteq {pDisplayFrameBuf}
      BY <1>1, <2>4 DEF OneFrame, OneOut, FramesIn
    <3>2. pDisplayFrameBuf \in held \cup Ready
      BY <1>1, <2>4 DEF OneFrame, PlayInv, InSequence, Ready
    <3> QED BY <2>1, <3>1, <3>2
  <2> QED BY <2>2, <2>3, <2>4
<1>2. PlayInv /\ Inv /\ OneFrame => PlayedMeansOwned
  BY <1>1 DEF PlayedMeansOwned
<1> QED
  BY <1>2, PlayInvariance, OneFrameAtATime, PlayImplementsVpuDec, Invariance, PTL

-----------------------------------------------------------------------------
(* The end of a session. *)

\* One number of SessionLeft becomes smaller, the ones before it stay the same.
LEMMA LeftDecreases ==
  ASSUME PlayInv', OneFrame', NEW k \in 1..6, SessionLeft'[k] < SessionLeft[k],
         \A j \in 1..(k - 1) : SessionLeft'[j] = SessionLeft[j]
  PROVE  Decreases(6, SessionLeft', SessionLeft)
<1>1. /\ play' \in Plays /\ play'.notUsed <= MaxNotUsed + 1 /\ play'.changes <= Changes
      /\ dog'.nullLoop \in 0..(MaxNullRun + 1) /\ (pc' = "fetch" => play'.frames # 0)
      /\ MaxNotUsed \in Nat /\ MaxNullRun \in Nat /\ Changes \in Nat
  BY Limits, PlayAssumption DEF PlayInv, Typed, PlayTypeOK, OneFrame
<1>2. /\ play'.repeat \in Nat /\ play'.changes \in Nat /\ play'.frames \in Nat
      /\ play'.units \in Nat /\ play'.notUsed \in Nat
  BY <1>1 DEF Plays
<1>3. PlaysLeft' \in Nat /\ CallsLeft' \in Nat
  BY <1>2 DEF PlaysLeft, CallsLeft
<1>4. NewsLeft' \in Nat
  BY <1>1, <1>2 DEF NewsLeft, Flag
<1>5. UnitsLeft' \in Nat /\ RefusalsLeft' \in Nat /\ SilenceLeft' \in Nat
  BY <1>1, <1>2 DEF UnitsLeft, RefusalsLeft, SilenceLeft
<1>6. \A i \in 1..6 : SessionLeft'[i] \in Nat
  BY <1>3, <1>4, <1>5 DEF SessionLeft
<1> QED
  BY <1>6 DEF Decreases

\* A turn of the loop with an answer that shows nothing uses up a unit, a refusal or silence; one
\* that tells of something new uses that up.
LEMMA TurnAdvances ==
  ASSUME PlayInv, OneFrame, pc = "decode", LoopGoesOn(play), MinFrames <= Cardinality(Frame) + 1,
         NEW p \in Reads(Counted(play)), GoodTurn(p)
  PROVE  /\ PlaysLeft' = PlaysLeft
         /\ \/ NewsLeft' < NewsLeft
            \/ /\ NewsLeft' = NewsLeft
               /\ \/ UnitsLeft' < UnitsLeft
                  \/ /\ UnitsLeft' = UnitsLeft
                     /\ \/ RefusalsLeft' < RefusalsLeft
                        \/ /\ RefusalsLeft' = RefusalsLeft /\ CallsLeft' = CallsLeft
                           /\ SilenceLeft' < SilenceLeft
<1> DEFINE c     == Counted(play)
           in    == Node(p)
           flags == ret'.flags
           d     == CountLoop(state', in, "INPUT_USED" \in flags)
<1>1. /\ play \in Plays /\ ~Hangs(play) /\ ~play.dispeos /\ play.frames # 0 /\ setup \in Setups
      /\ play.changes <= Changes /\ dog \in Dogs
      /\ MaxNotUsed \in Nat /\ MaxNullRun \in Nat /\ Changes \in Nat
  BY Limits, PlayAssumption DEF PlayInv, Typed, PlayTypeOK, Dogs, OneFrame, LoopGoesOn
<1>2. /\ play.repeat \in Nat /\ play.changes \in Nat /\ play.frames \in Nat \ {0}
      /\ play.units \in Nat /\ play.notUsed \in Nat /\ play.notUsed <= MaxNotUsed
      /\ play.bufNull \in BOOLEAN /\ play.fileeos \in BOOLEAN
      /\ dog.nullLoop \in 0..(MaxNullRun + 1)
  BY <1>1 DEF Plays, Hangs, Dogs
<1>3. /\ c \in Plays /\ c.repeat = play.repeat /\ c.changes = play.changes
      /\ c.frames = play.frames /\ c.units = play.units /\ c.fileeos = play.fileeos
      /\ c.bufNull = play.bufNull
      /\ c.notUsed = IF play.bufNull THEN 0 ELSE play.notUsed + 1
  BY <1>1, CountedKeeps, CountedFields
<1> HIDE DEF c
<1>4. /\ p \in Plays /\ p.repeat = c.repeat /\ p.changes = c.changes /\ p.frames = c.frames
      /\ p.notUsed = c.notUsed /\ in # Null
      /\ \/ ~c.bufNull /\ p = c
         \/ c.bufNull /\ c.fileeos /\ p.bufNull /\ p.fileeos
         \/ /\ c.bufNull /\ ~c.fileeos
            /\ p.fileeos \/ (c.units > 0 /\ p.units = c.units - 1)
  BY <1>1, <1>3, NodeOfTurn, ReadsKeep DEF c
<1>5. /\ play'.repeat = p.repeat /\ play'.frames = p.frames /\ play'.notUsed = p.notUsed
      /\ play'.units = p.units /\ play'.fileeos = p.fileeos
      /\ play'.bufNull <=> "INPUT_USED" \in flags \/ p.bufNull
      /\ play'.dispeos <=> "EOS" \in flags
      /\ play'.changes = IF "RESOLUTION_CHANGED" \in flags THEN p.changes + 1 ELSE p.changes
  <2>1. play' \in Consumed(Answer(p, in, flags), flags)
    BY DEF GoodTurn
  <2> QED BY <1>4, <2>1, AnswerFields
<1>6. /\ state' # "REGFRMOK" /\ state' # "CORRUPT"
      /\ Offers(flags) <=> state' = "OUTOK"
      /\ Starts(flags) <=> state' = "INITOK"
      /\ state' = "EOS" => "EOS" \in flags
      /\ "INIT_OK" \in flags => state = "OPEN"
      /\ state' = "OPEN" <=> state = "OPEN" /\ ~Starts(flags)
      /\ flags \cap {"INPUT_USED", "INPUT_NOT_USED"} # {}
      /\ "RESOLUTION_CHANGED" \in flags => play.changes < Changes
      /\ pc' = AfterDecode(flags)
  BY <1>4 DEF GoodTurn, CallAgrees, DecodedWell
<1>7. pc' = IF Starts(flags) THEN "getinfo" ELSE IF Offers(flags) THEN "fetch" ELSE "decode"
  BY <1>6 DEF AfterDecode, Starts, Offers
<1> HIDE DEF flags
<1>8. PlaysLeft' = PlaysLeft
  BY <1>3, <1>4, <1>5, <1>7 DEF PlaysLeft
<1>9. /\ NewsLeft = Flag(state = "OPEN") + (Changes - play.changes) + play.frames + 1
      /\ NewsLeft' = Flag(state' = "OPEN") + (Changes - play'.changes)
                       + (play.frames - Flag(pc' = "fetch")) + Flag(~play'.dispeos)
  BY <1>1, <1>2, <1>3, <1>4, <1>5 DEF NewsLeft, Flag
<1>10. CASE Starts(flags)
  <2>1. /\ state' # "OPEN" /\ pc' # "fetch"
        /\ state = "OPEN" \/ play'.changes = play.changes + 1
        /\ play'.changes \in {play.changes, play.changes + 1}
    BY <1>2, <1>3, <1>4, <1>5, <1>6, <1>7, <1>10 DEF Starts
  <2>2. NewsLeft' < NewsLeft
    BY <1>1, <1>2, <1>9, <2>1 DEF Flag
  <2> QED BY <1>8, <2>2
<1>11. CASE Offers(flags) /\ ~Starts(flags)
  <2>1. /\ (state' = "OPEN") = (state = "OPEN") /\ pc' = "fetch" /\ play'.changes = play.changes
    BY <1>3, <1>4, <1>5, <1>6, <1>7, <1>11 DEF Starts
  <2>2. NewsLeft' < NewsLeft
    BY <1>1, <1>2, <1>9, <2>1 DEF Flag
  <2> QED BY <1>8, <2>2
<1>12. CASE "EOS" \in flags /\ ~Offers(flags) /\ ~Starts(flags)
  <2>1. /\ (state' = "OPEN") = (state = "OPEN") /\ pc' = "decode" /\ play'.changes = play.changes
        /\ play'.dispeos
    BY <1>3, <1>4, <1>5, <1>6, <1>7, <1>12 DEF Starts
  <2>2. NewsLeft' < NewsLeft
    BY <1>1, <1>2, <1>9, <2>1 DEF Flag
  <2> QED BY <1>8, <2>2
<1>13. CASE "EOS" \notin flags /\ ~Offers(flags) /\ ~Starts(flags)
  <2>1. /\ (state' = "OPEN") = (state = "OPEN") /\ pc' = "decode" /\ play'.changes = play.changes
        /\ ~play'.dispeos /\ state' \notin {"INITOK", "REGFRMOK", "OUTOK", "EOS", "CORRUPT"}
    BY <1>3, <1>4, <1>5, <1>6, <1>7, <1>13 DEF Starts
  <2>2. NewsLeft' = NewsLeft
    BY <1>1, <1>2, <1>9, <2>1 DEF Flag
  <2>3. CASE ~play.bufNull
    <3>1. UnitsLeft' = UnitsLeft
      BY <1>3, <1>4, <1>5, <2>3 DEF UnitsLeft
    <3>2. RefusalsLeft' < RefusalsLeft
      BY <1>1, <1>2, <1>3, <1>4, <1>5, <2>3 DEF RefusalsLeft
    <3> QED BY <1>8, <2>2, <3>1, <3>2
  <2>4. CASE play.bufNull /\ ~play.fileeos
    <3>1. UnitsLeft' < UnitsLeft
      BY <1>2, <1>3, <1>4, <1>5, <2>4 DEF UnitsLeft
    <3> QED BY <1>8, <2>2, <3>1
  <2>5. CASE play.bufNull /\ play.fileeos
    <3>1. UnitsLeft' = UnitsLeft /\ RefusalsLeft' = RefusalsLeft /\ CallsLeft' = CallsLeft
      BY <1>3, <1>4, <1>5, <2>1, <2>5 DEF UnitsLeft, RefusalsLeft, CallsLeft
    <3>2. SilenceLeft' < SilenceLeft
      <4>1. ReachesWatchdog(ret') /\ ~DeadLoop(d) /\ dog' = d
        BY <1>6 DEF GoodTurn, ReachesWatchdog, CallAgrees, flags
      <4>2. state' \in {"OPEN", "DEC", "STARTFRAMEOK"}
        BY <2>1 DEF GoodTurn, DecodedWell
      <4>3. d.nullLoop = Sum(dog.nullLoop, 1, MaxNullRun)
        BY <1>1, <4>2 DEF CountLoop, Dogs
      <4>4. d.nullLoop <= MaxNullRun
        BY <1>1, <1>2, <4>1, <4>3 DEF DeadLoop, Sum
      <4> HIDE DEF d
      <4> QED BY <1>1, <1>2, <4>1, <4>3, <4>4 DEF Sum, SilenceLeft
    <3> QED BY <1>8, <2>2, <3>1, <3>2
  <2> QED BY <1>2, <2>3, <2>4, <2>5
<1> QED
  BY <1>10, <1>11, <1>12, <1>13

\* Every step of a session makes one number smaller.
LEMMA SessionStep ==
  ASSUME PlayInv, PlayInv', Inv, OneFrame, OneFrame', MinFrames <= Cardinality(Frame) + 1, Step
  PROVE  Decreases(6, SessionLeft', SessionLeft)
<1>1. CASE PlaysLeft' < PlaysLeft
  BY <1>1, LeftDecreases, 1 \in 1..6 DEF SessionLeft
<1>2. CASE PlaysLeft' = PlaysLeft /\ NewsLeft' < NewsLeft
  BY <1>2, LeftDecreases, 2 \in 1..6 DEF SessionLeft
<1>3. CASE PlaysLeft' = PlaysLeft /\ NewsLeft' = NewsLeft /\ UnitsLeft' < UnitsLeft
  BY <1>3, LeftDecreases, 3 \in 1..6 DEF SessionLeft
<1>4. CASE /\ PlaysLeft' = PlaysLeft /\ NewsLeft' = NewsLeft /\ UnitsLeft' = UnitsLeft
           /\ RefusalsLeft' < RefusalsLeft
  BY <1>4, LeftDecreases, 4 \in 1..6 DEF SessionLeft
<1>5. CASE /\ PlaysLeft' = PlaysLeft /\ NewsLeft' = NewsLeft /\ UnitsLeft' = UnitsLeft
           /\ RefusalsLeft' = RefusalsLeft /\ CallsLeft' < CallsLeft
  BY <1>5, LeftDecreases, 5 \in 1..6 DEF SessionLeft
<1>6. CASE /\ PlaysLeft' = PlaysLeft /\ NewsLeft' = NewsLeft /\ UnitsLeft' = UnitsLeft
           /\ RefusalsLeft' = RefusalsLeft /\ CallsLeft' = CallsLeft /\ SilenceLeft' < SilenceLeft
  BY <1>6, LeftDecreases, 6 \in 1..6 DEF SessionLeft
<1>7. /\ play \in Plays /\ play.repeat \in Nat /\ play.frames \in Nat /\ setup \in Setups
      /\ play.changes \in Nat /\ Changes \in Nat
      /\ pc = "fetch" => play.frames # 0
  BY PlayAssumption DEF PlayInv, Typed, PlayTypeOK, Plays
<1>8. CASE Active /\ pc' = "close"
  <2>1. PlaysLeft' < PlaysLeft
    BY <1>7, <1>8 DEF PlaysLeft, Active
  <2> QED BY <1>1, <2>1
<1>9. CASE LeaveLoop
  <2>1. pc = "decode" /\ Active
    BY <1>9 DEF LeaveLoop, Active
  <2>2. CASE Fails(Counted(play))
    BY <1>8, <2>1, <2>2 DEF Fails
  <2>3. CASE pc' = "flush" /\ play' = play
    <3>1. state' = state /\ dog' = dog
      BY <1>9 DEF LeaveLoop, KeepDog, vars, wrapVars
    <3>2. /\ PlaysLeft' = PlaysLeft /\ NewsLeft' = NewsLeft /\ UnitsLeft' = UnitsLeft
          /\ RefusalsLeft' = RefusalsLeft /\ CallsLeft' < CallsLeft
      BY <2>1, <2>3, <3>1
         DEF PlaysLeft, NewsLeft, UnitsLeft, RefusalsLeft, CallsLeft, Flag
    <3> QED BY <1>5, <3>2
  <2> QED BY <1>9, <2>2, <2>3 DEF LeaveLoop, Goes
<1>10. CASE DecodeBuf
  <2>1. frameBufState \in FrameStates
    BY DEF Inv, TypeOK, FrameStates
  <2>2. PICK p \in Reads(Counted(play)) : Fails(p) \/ GoodTurn(p)
    BY <1>10, <2>1, TurnEnds
  <2>3. pc = "decode" /\ LoopGoesOn(play) /\ Active
    BY <1>10 DEF DecodeBuf, Active
  <2>4. CASE Fails(p)
    BY <1>8, <2>3, <2>4 DEF Fails
  <2>5. CASE GoodTurn(p)
    BY <1>2, <1>3, <1>4, <1>6, <2>3, <2>5, TurnAdvances
  <2> QED BY <2>2, <2>4, <2>5
<1>11. ASSUME pc \in {"getinfo", "register", "fetch", "display"}, CallsLeft' < CallsLeft,
              state # "OPEN", state' # "OPEN", pc' \notin {"fetch", "close", "done"},
              play'.repeat = play.repeat, play'.changes = play.changes,
              play'.frames = play.frames - Flag(pc = "fetch"),
              play'.dispeos = play.dispeos, play'.fileeos = play.fileeos,
              play'.units = play.units, play'.bufNull = play.bufNull,
              play'.notUsed = play.notUsed
       PROVE  Decreases(6, SessionLeft', SessionLeft)
  <2>1. /\ PlaysLeft' = PlaysLeft /\ UnitsLeft' = UnitsLeft /\ RefusalsLeft' = RefusalsLeft
    BY <1>11 DEF PlaysLeft, UnitsLeft, RefusalsLeft
  <2>2. NewsLeft' = NewsLeft
    BY <1>7, <1>11 DEF NewsLeft, Flag
  <2> QED BY <1>5, <1>11, <2>1, <2>2
<1>12. CASE GetInitialInfo
  <2>1. pc = "getinfo" /\ Active /\ state = "INITOK" /\ VPU_DecGetInitialInfo
    BY <1>12 DEF GetInitialInfo, Active, PlayInv, InSequence
  <2>2. state' = "REGFRMOK"
    BY <2>1 DEF VPU_DecGetInitialInfo, WrongCall
  <2>3. CASE pc' = "register" /\ \E n : play' = [play EXCEPT !.frmNum = n]
    BY <1>7, <1>11, <2>1, <2>2, <2>3 DEF CallsLeft, Plays, Flag
  <2>4. CASE Fails(play)
    BY <1>8, <2>1, <2>4 DEF Fails
  <2> QED BY <1>12, <2>3, <2>4 DEF GetInitialInfo, Goes
<1>13. CASE RegisterFrameBuffer
  <2>1. /\ pc = "register" /\ Active /\ state = "REGFRMOK" /\ VPU_DecRegisterFrameBuffer
    BY <1>13 DEF RegisterFrameBuffer, Active, PlayInv, InSequence
  <2>2. state' # "OPEN"
    BY <2>1 DEF VPU_DecRegisterFrameBuffer, WrongCall, wrapVars
  <2>3. CASE pc' = "decode" /\ play' = play
    BY <1>7, <1>11, <2>1, <2>2, <2>3 DEF CallsLeft, Flag
  <2>4. CASE Fails(play)
    BY <1>8, <2>1, <2>4 DEF Fails
  <2> QED BY <1>13, <2>3, <2>4 DEF RegisterFrameBuffer, Goes
<1>14. CASE GetOutputFrame
  <2>1. pc = "fetch" /\ Active /\ state = "OUTOK" /\ VPU_DecGetOutputFrame
    BY <1>14 DEF GetOutputFrame, Active, PlayInv, InSequence
  <2>2. state' = "DEC"
    BY <2>1 DEF VPU_DecGetOutputFrame, WrongCall
  <2>3. CASE pc' = "display" /\ play' = [play EXCEPT !.frames = play.frames - 1]
    BY <1>7, <1>11, <2>1, <2>2, <2>3 DEF CallsLeft, Plays, Flag
  <2>4. CASE Fails(play)
    BY <1>8, <2>1, <2>4 DEF Fails
  <2> QED BY <1>14, <2>3, <2>4 DEF GetOutputFrame, Goes
<1>15. CASE OutFrameDisplayed
  <2>1. pc = "display" /\ Active /\ state = "DEC" /\ state' = state
    BY <1>15 DEF OutFrameDisplayed, VPU_DecOutFrameDisplayed, Active, PlayInv, InSequence
  <2>2. CASE pc' = "decode" /\ play' = play
    BY <1>7, <1>11, <2>1, <2>2 DEF CallsLeft, Flag
  <2>3. CASE Fails(play)
    BY <1>8, <2>1, <2>3 DEF Fails
  <2> QED BY <1>15, <2>2, <2>3 DEF OutFrameDisplayed, Goes
<1>16. CASE FlushAll
  <2>1. pc = "flush" /\ Active
    BY <1>16 DEF FlushAll, Active
  <2>2. CASE pc' = "close"
    BY <1>8, <2>1, <2>2
  <2>3. CASE /\ pc' = "decode" /\ play.repeat > 0
             /\ play' = RepeatPlay([play EXCEPT !.repeat = play.repeat - 1], setup)
    <3>1. play'.repeat = play.repeat - 1
      BY <1>7, <2>3 DEF RepeatPlay, Plays
    <3>2. PlaysLeft' < PlaysLeft
      BY <1>7, <2>1, <2>3, <3>1 DEF PlaysLeft
    <3> QED BY <1>1, <3>2
  <2> QED BY <1>16, <2>2, <2>3 DEF FlushAll, Fails, Goes
<1>17. CASE Close
  <2>1. PlaysLeft' < PlaysLeft
    BY <1>17 DEF Close, Goes, PlaysLeft
  <2> QED BY <1>1, <2>1
<1> QED
  BY <1>9, <1>10, <1>12, <1>13, <1>14, <1>15, <1>16, <1>17 DEF Step

\* A session of decode_stream runs out of things to do: for every file, every answer of the
\* decoder, every failure, and whatever a session before it left in the watchdog's counters, each
\* call makes what is left smaller in a well-founded order.  The client must have registered as
\* many frames as GetInitialInfo asked for but one, as it does: with fewer the RV decoder
\* answers that it has no frame without ever reaching the watchdog (vpu_wrapper.c:5421).
THEOREM SessionRunsOut ==
  ASSUME MinFrames <= Cardinality(Frame) + 1
  PROVE  PlaySpec => SessionAdvances
<1>1. /\ PlayInv /\ PlayInv' /\ Inv /\ OneFrame /\ OneFrame' /\ [PlayNext]_playVars
      => [pc # "done" => Decreases(6, SessionLeft', SessionLeft)]_playVars
  BY SessionStep DEF PlayNext, Open
<1> QED
  BY <1>1, PlayInvariance, OneFrameAtATime, PlayImplementsVpuDec, Invariance, PTL
     DEF PlaySpec, SessionAdvances

=============================================================================
