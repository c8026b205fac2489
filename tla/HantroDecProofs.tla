--------------------------- MODULE HantroDecProofs ---------------------------
(* Theorems of HantroDec, for every set of frames, formats, modes and sizes.   *)
EXTENDS HantroDec, TLAPS

USE FrameAssumption, SizeAssumption, SwitchAssumption DEF Asks

\* The codec has decoded frames, or the application one to fetch, only between a registration
\* and the next new sequence; what it keeps is apart from what it has handed out.
CodecInOrder ==
  /\ pending \subseteq codecSet \ out
  /\ seq # "ready" => pending = {} /\ state # "OUTOK"

\* What the application has or is offered is out, or is a frame of a former sequence.
HeldOut ==
  /\ \A f \in held \cup Ready : f \in out \/ f \notin codecSet
  /\ held \cap Ready = {}

\* Nothing is left to decode once the codec was told of the end.
EndedMeansEmpty == ended => nBsBufLen = 0

IInv == TypeOK /\ CodecInOrder /\ HeldOut /\ EndedMeansEmpty /\ EosComplete /\ InputAccounted

-----------------------------------------------------------------------------
(* VPU_DecDecodeBuf. *)

\* What VPU_DecProcessInBuf leaves fits the buffer, and what was put is either accounted for or
\* a header of a format that is not.
LEMMA TakenFits ==
  ASSUME TypeOK, NEW in \in Nodes, NEW plain \in PlainHeaders,
         NEW reads \in Reads(in)
  PROVE  LET t == Taken(in, plain, reads)
         IN /\ t.len \in 0..BufSize /\ t.acc \in Int /\ t.hdr \in BOOLEAN /\ t.eos \in BOOLEAN
            /\ t.given \in Int
            /\ InputAccounted /\ ~open.secure =>
                 /\ t.given <= t.acc + t.len
                 /\ open.fmt # "VC1_AP" => t.given = t.acc + t.len
<1>1. in.size \in Nat /\ in.codecData \in Nat /\ (in.size > 0 => in \in Data)
  BY DEF Nodes, Data, Null, Eos
<1>2. in \in Data => in.size + in.codecData + 1 <= BufSize
  BY DEF Data
<1>3. plain \in {0, 1} /\ (open.fmt # "VC1_AP" => plain = 0)
  BY DEF PlainHeaders
<1>4. CountedHeader(in) \in Nat /\ CountedHeader(in) <= in.codecData
  BY <1>1 DEF CountedHeader
<1>5. /\ nBsBufLen \in 0..BufSize /\ consumed \in Int /\ given \in Int /\ seqHeader \in BOOLEAN
      /\ eosing \in BOOLEAN
  BY DEF TypeOK
<1>6. CASE TakesNode /\ in.size > 0 /\ reads
  <2>1. nBsBufLen = 0
    BY <1>6 DEF TakesNode
  <2>2. Taken(in, plain, reads) = [len |-> PutLen(in, plain), acc |-> Account(in), hdr |-> TRUE,
                            eos |-> eosing, given |-> given + in.size]
    BY <1>6 DEF Taken
  <2>3. PutLen(in, plain) = IF open.secure THEN in.size ELSE CountedHeader(in) + plain + in.size
    BY <1>1, <1>3, <1>4, <2>1 DEF PutLen
  <2> DEFINE t == Taken(in, plain, reads)
  <2>4. /\ t.len = PutLen(in, plain) /\ t.acc = consumed - CountedHeader(in)
        /\ t.given = given + in.size /\ t.hdr = TRUE /\ t.eos = eosing
    BY <2>2 DEF Account
  <2> HIDE DEF t
  <2>5. PutLen(in, plain) \in 0..BufSize
    BY <1>1, <1>2, <1>3, <1>4, <1>6, <2>3, SizeAssumption
  <2>6. InputAccounted /\ ~open.secure =>
          /\ given <= consumed
          /\ open.fmt # "VC1_AP" => given = consumed /\ plain = 0
    BY <1>3, <1>5, <2>1 DEF InputAccounted
  <2>7. InputAccounted /\ ~open.secure =>
          /\ t.given <= t.acc + t.len
          /\ open.fmt # "VC1_AP" => t.given = t.acc + t.len
    BY <1>1, <1>3, <1>4, <1>5, <2>3, <2>4, <2>6
  <2>8. t.len \in 0..BufSize /\ t.acc \in Int /\ t.given \in Int
    BY <1>1, <1>4, <1>5, <2>4, <2>5
  <2>9. t.hdr \in BOOLEAN /\ t.eos \in BOOLEAN
    BY <1>5, <2>4
  <2> QED
    BY <2>7, <2>8, <2>9 DEF t
<1>7. CASE ~(TakesNode /\ in.size > 0 /\ reads)
  BY <1>5, <1>7 DEF Taken, InputAccounted
<1> QED
  BY <1>6, <1>7

\* The outcomes of the decoding loop, with the parts of the contract the proofs rest on.
LEMMA OutcomeBounds ==
  ASSUME NEW len \in Nat, NEW eos, NEW o \in Outcomes(len, eos)
  PROVE  /\ o.left \in 0..len /\ o.new \subseteq Free /\ o.found \in BOOLEAN /\ o.exit \in Exits
         /\ o.new # {} => seq = "ready" /\ ~o.found
         /\ o.found => pending = {}
<1>1. CASE len = 0
  <2>1. o = [left |-> 0, new |-> {}, found |-> FALSE, exit |-> "all"]
    BY <1>1 DEF Outcomes
  <2> QED BY <1>1, <2>1 DEF Exits
<1>2. CASE len # 0
  BY <1>2 DEF Outcomes, Sensible
<1> QED BY <1>1, <1>2

\* A decode call returns flags, of which EOS is never one here.
LEMMA FlagsAreFlags ==
  ASSUME NEW o, NEW eos
  PROVE  Flags(o, eos) \subseteq RetFlags \ {"EOS"}
<1>1. ExitFlags(o.exit) \subseteq RetFlags \ {"EOS"}
  BY DEF ExitFlags, Announce, RetFlags
<1>2. (IF Used(o) THEN {"INPUT_USED"} ELSE {}) \subseteq RetFlags \ {"EOS"}
  BY DEF RetFlags
<1>3. (IF WantsInput(o, eos) THEN {"NO_ENOUGH_INBUF"} ELSE {}) \subseteq RetFlags \ {"EOS"}
  BY DEF RetFlags
<1> QED
  BY <1>1, <1>2, <1>3 DEF Flags

\* The parameters an instance is opened with are of the type of `open'.
LEMMA OpensType ==
  Opens \subseteq [fmt : Formats, secure : BOOLEAN, tile : BOOLEAN, noreorder : BOOLEAN]
BY DEF Opens

\* A call that returns a code alone leaves `ret' of its type.
LEMMA ReturnsType ==
  ASSUME NEW code \in RetCodes, Returns(code)
  PROVE  ret' \in [code : RetCodes, flags : SUBSET RetFlags]
BY DEF Returns

\* What has become of a node is one of two things.
LEMMA NodeAfterType ==
  ASSUME TypeOK, NEW in, NEW used
  PROVE  NodeAfter(in, used) \in {"new", "put"}
BY DEF TypeOK, NodeAfter

\* Decoding a node keeps the invariant,
LEMMA DecodePreserves ==
  ASSUME IInv, NEW in \in Nodes, VPU_DecDecodeBuf(in), Decode(in)
  PROVE  IInv'
<1>1. PICK plain \in PlainHeaders, reads \in Reads(in) :
        \E o \in Outcomes(Taken(in, plain, reads).len, Taken(in, plain, reads).eos) :
        LET t == Taken(in, plain, reads)
        IN /\ eosing' = t.eos /\ seqHeader' = t.hdr
           /\ nBsBufLen' = o.left
           /\ consumed' = t.acc + (t.len - o.left)
           /\ given' = t.given
           /\ state' = IF o.found THEN "INITOK" ELSE state
           /\ seq' = IF o.found THEN "info" ELSE seq
           /\ codecSet' = IF o.found THEN {} ELSE codecSet
           /\ pending' = pending \cup o.new
           /\ out' = out
           /\ flushing' = (pending' # {} /\ (flushing \/ o.exit \in {"pending", "pendingPart"}))
           /\ ended' = (ended \/ EndsStream(o, t.eos))
           /\ later' = IF open.secure THEN ~Used(o) ELSE later
           /\ ret' = [code |-> IF o.exit = "failed" THEN "FAILURE" ELSE "SUCCESS",
                      flags |-> Flags(o, t.eos)]
           /\ node' = NodeAfter(in, Used(o))
           /\ slot' = slot
  BY DEF Decode
<1> DEFINE t == Taken(in, plain, reads)
<1>2. /\ t.len \in 0..BufSize /\ t.acc \in Int /\ t.hdr \in BOOLEAN /\ t.eos \in BOOLEAN
      /\ t.given \in Int
      /\ ~open.secure => /\ t.given <= t.acc + t.len
                         /\ open.fmt # "VC1_AP" => t.given = t.acc + t.len
  BY TakenFits DEF IInv
<1> HIDE DEF t
<1>3. PICK o \in Outcomes(t.len, t.eos) :
           /\ eosing' = t.eos /\ seqHeader' = t.hdr
           /\ nBsBufLen' = o.left
           /\ consumed' = t.acc + (t.len - o.left)
           /\ given' = t.given
           /\ state' = IF o.found THEN "INITOK" ELSE state
           /\ seq' = IF o.found THEN "info" ELSE seq
           /\ codecSet' = IF o.found THEN {} ELSE codecSet
           /\ pending' = pending \cup o.new
           /\ out' = out
           /\ flushing' = (pending' # {} /\ (flushing \/ o.exit \in {"pending", "pendingPart"}))
           /\ ended' = (ended \/ EndsStream(o, t.eos))
           /\ later' = IF open.secure THEN ~Used(o) ELSE later
           /\ ret' = [code |-> IF o.exit = "failed" THEN "FAILURE" ELSE "SUCCESS",
                      flags |-> Flags(o, t.eos)]
           /\ node' = NodeAfter(in, Used(o))
           /\ slot' = slot
  BY <1>1 DEF t
<1>4. /\ o.left \in 0..t.len /\ o.new \subseteq Free /\ o.found \in BOOLEAN /\ o.exit \in Exits
      /\ o.new # {} => seq = "ready" /\ ~o.found
      /\ o.found => pending = {}
  BY <1>2, OutcomeBounds
<1>5. ~ended
  BY DEF Decode, MayWithhold
<1>6. Flags(o, t.eos) \subseteq RetFlags \ {"EOS"}
  BY FlagsAreFlags
<1>7. /\ UNCHANGED <<open, sized, known, held>> /\ Asks(NextDuty(ret'.code, ret'.flags))
      /\ stream' \in {"more", "end"} /\ turn' \in BOOLEAN
  BY DEF VPU_DecDecodeBuf, infoVars, IInv, TypeOK
<1>8. TypeOK'
  <2>1. ended' \in BOOLEAN /\ later' \in BOOLEAN /\ flushing' \in BOOLEAN
    BY <1>3 DEF EndsStream, Used, IInv, TypeOK
  <2>2. ret' \in [code : RetCodes, flags : SUBSET RetFlags]
    BY <1>3, <1>6 DEF RetCodes
  <2>3. duty' \in Duties
    BY <1>7 DEF NextDuty, Duties
  <2>4. node' \in {"new", "put"}
    BY <1>3, NodeAfterType DEF IInv
  <2>5. state' \in States /\ slot' \in Frame \cup {NoFrame} /\ (state' = "OUTOK" => slot' \in Frame)
    BY <1>3 DEF IInv, TypeOK, States
  <2>6. codecSet' \subseteq Frame /\ pending' \subseteq Frame /\ out' \subseteq Frame
        /\ seq' \in {"none", "info", "ready"}
    BY <1>3, <1>4 DEF IInv, TypeOK, Free
  <2>7. nBsBufLen' \in 0..BufSize /\ consumed' \in Int /\ given' \in Int
    BY <1>2, <1>3, <1>4
  <2> QED
    BY <1>2, <1>3, <1>7, <2>1, <2>2, <2>3, <2>4, <2>5, <2>6, <2>7 DEF IInv, TypeOK
<1>9. CodecInOrder'
  BY <1>3, <1>4 DEF IInv, CodecInOrder, Free
<1>10. HeldOut'
  BY <1>3, <1>7 DEF IInv, HeldOut, Ready
<1>11. EndedMeansEmpty'
  BY <1>3, <1>5 DEF EndedMeansEmpty, EndsStream
<1>12. EosComplete'
  BY <1>3, <1>6 DEF EosComplete
<1>13. InputAccounted'
  BY <1>2, <1>3, <1>4, <1>7 DEF InputAccounted
<1> QED
  BY <1>8, <1>9, <1>10, <1>11, <1>12, <1>13 DEF IInv

\* so does every case of the call,
LEMMA DecodeBufPreserves ==
  ASSUME IInv, NEW in \in Nodes, VPU_DecDecodeBuf(in)
  PROVE  IInv'
<1>1. CASE Decode(in)
  BY <1>1, DecodePreserves
<1>2. /\ UNCHANGED <<open, sized, known, held>> /\ Asks(NextDuty(ret'.code, ret'.flags))
      /\ stream' \in {"more", "end"} /\ turn' \in BOOLEAN
  BY DEF VPU_DecDecodeBuf, infoVars, IInv, TypeOK
<1>3. duty' \in Duties
  BY <1>2 DEF NextDuty, Duties
<1>4. ASSUME NEW f \in Frame, ShowFrame(f) PROVE IInv'
  <2>1. TypeOK'
    BY <1>2, <1>3, <1>4 DEF ShowFrame, inVars, IInv, TypeOK, States, RetCodes, RetFlags
  <2>2. CodecInOrder' /\ HeldOut'
    BY <1>2, <1>4 DEF ShowFrame, IInv, CodecInOrder, HeldOut, Ready
  <2>3. EndedMeansEmpty' /\ EosComplete' /\ InputAccounted'
    BY <1>2, <1>4 DEF ShowFrame, inVars, IInv, EndedMeansEmpty, EosComplete, InputAccounted
  <2> QED BY <2>1, <2>2, <2>3 DEF IInv
<1>5. CASE ShowEnd
  <2>1. TypeOK'
    BY <1>2, <1>3, <1>5 DEF ShowEnd, inVars, slotVars, codecVars, IInv, TypeOK, RetCodes, RetFlags
  <2>2. CodecInOrder' /\ HeldOut' /\ EndedMeansEmpty' /\ EosComplete' /\ InputAccounted'
    BY <1>2, <1>5 DEF ShowEnd, inVars, slotVars, codecVars, IInv, CodecInOrder, HeldOut, Ready,
                      EndedMeansEmpty, EosComplete, InputAccounted
  <2> QED BY <2>1, <2>2 DEF IInv
<1> QED
  BY <1>1, <1>4, <1>5 DEF VPU_DecDecodeBuf

-----------------------------------------------------------------------------
(* The other calls, and the invariant. *)

\* and every step.
LEMMA StepPreserves ==
  ASSUME IInv, [Next]_vars
  PROVE  IInv'
<1> USE DEF Returns
<1>1. ASSUME NEW in \in Nodes, VPU_DecDecodeBuf(in) PROVE IInv'
  BY <1>1, DecodeBufPreserves
<1>2. CASE VPU_DecConfig
  <2>1. open' \in [fmt : Formats, secure : BOOLEAN, tile : BOOLEAN, noreorder : BOOLEAN]
        /\ open'.fmt = open.fmt /\ open'.secure = open.secure /\ seqHeader' \in BOOLEAN
    BY <1>2 DEF VPU_DecConfig, IInv, TypeOK
  <2>2. UNCHANGED <<eosing, nBsBufLen, consumed, later, slotVars, infoVars, codecVars, held, duty,
                    turn, ghostVars>> /\ ret' = [code |-> "SUCCESS", flags |-> {}]
    BY <1>2 DEF VPU_DecConfig
  <2>3. TypeOK'
    BY <2>1, <2>2 DEF slotVars, infoVars, codecVars, ghostVars, IInv, TypeOK, RetCodes
  <2> QED
    BY <2>1, <2>2, <2>3 DEF slotVars, infoVars, codecVars, ghostVars, IInv, CodecInOrder, HeldOut,
                            Ready, EndedMeansEmpty, EosComplete, InputAccounted
<1>3. CASE VPU_DecGetInitialInfo
  <2>1. TypeOK'
    <3>1. sized' \in BOOLEAN /\ duty' \in Duties
      BY <1>3 DEF VPU_DecGetInitialInfo, IInv, TypeOK, Duties
    <3>2. state' \in States /\ (state' = "OUTOK" => slot \in Frame)
      BY <1>3 DEF VPU_DecGetInitialInfo, IInv, TypeOK, States
    <3>3. ret' \in [code : RetCodes, flags : SUBSET RetFlags]
      <4>1. \E c \in RetCodes : Returns(c)
        BY <1>3 DEF VPU_DecGetInitialInfo, RetCodes
      <4> QED BY <4>1, ReturnsType
    <3> QED
      BY <1>3, <3>1, <3>2, <3>3 DEF VPU_DecGetInitialInfo, inVars, codecVars, ghostVars, IInv,
                                    TypeOK
  <2> QED
    BY <1>3, <2>1 DEF VPU_DecGetInitialInfo, inVars, codecVars, ghostVars, IInv, CodecInOrder,
                      HeldOut, Ready, EndedMeansEmpty, EosComplete, InputAccounted
<1>4. CASE VPU_DecRegisterFrameBuffer
  <2>1. TypeOK'
    BY <1>4 DEF VPU_DecRegisterFrameBuffer, inVars, ghostVars, IInv, TypeOK, RetCodes, States,
                Duties
  <2> QED
    BY <1>4, <2>1 DEF VPU_DecRegisterFrameBuffer, inVars, ghostVars, IInv, CodecInOrder,
                      HeldOut, Ready, EndedMeansEmpty, EosComplete, InputAccounted
<1>5. CASE VPU_DecGetOutputFrame
  <2>1. TypeOK'
    BY <1>5 DEF VPU_DecGetOutputFrame, inVars, infoVars, codecVars, ghostVars, IInv, TypeOK,
                RetCodes, States, Duties
  <2> QED
    BY <1>5, <2>1 DEF VPU_DecGetOutputFrame, inVars, infoVars, codecVars, ghostVars, IInv,
                      CodecInOrder, HeldOut, Ready, EndedMeansEmpty, EosComplete, InputAccounted
<1>6. CASE VPU_DecGetConsumedFrameInfo
  <2>1. TypeOK'
    BY <1>6 DEF VPU_DecGetConsumedFrameInfo, slotVars, infoVars, codecVars, IInv, TypeOK, RetCodes
  <2> QED
    BY <1>6, <2>1 DEF VPU_DecGetConsumedFrameInfo, slotVars, infoVars, codecVars, IInv, TypeOK,
                      CodecInOrder, HeldOut, Ready, EndedMeansEmpty, EosComplete, InputAccounted
<1>7. ASSUME NEW f \in Frame, VPU_DecOutFrameDisplayed(f) PROVE IInv'
  <2>1. TypeOK'
    BY <1>7 DEF VPU_DecOutFrameDisplayed, inVars, slotVars, infoVars, ghostVars, IInv, TypeOK,
                RetCodes
  <2>2. f \notin pending
    BY <1>7 DEF VPU_DecOutFrameDisplayed, IInv, CodecInOrder, HeldOut
  <2> QED
    BY <1>7, <2>1, <2>2 DEF VPU_DecOutFrameDisplayed, inVars, slotVars, infoVars, ghostVars, IInv,
                      CodecInOrder, HeldOut, Ready, EndedMeansEmpty, EosComplete, InputAccounted
<1>8. CASE VPU_DecFlushAll
  <2>1. TypeOK'
    <3>1. slot' \in Frame \cup {NoFrame} /\ node' \in {"new", "put"}
      BY <1>8 DEF VPU_DecFlushAll, IInv, TypeOK
    <3>2. ret' \in [code : RetCodes, flags : SUBSET RetFlags] /\ state' \in States
      BY <1>8, ReturnsType DEF VPU_DecFlushAll, RetCodes, States
    <3>3. nBsBufLen' \in 0..BufSize
      BY <1>8, SizeAssumption DEF VPU_DecFlushAll
    <3>4. eosing' \in BOOLEAN /\ ended' \in BOOLEAN /\ flushing' \in BOOLEAN
      BY <1>8 DEF VPU_DecFlushAll, Abort
    <3>5. pending' \subseteq Frame /\ out' \subseteq Frame /\ state' # "OUTOK"
      BY <1>8 DEF VPU_DecFlushAll, FlushedOut, Abort, IInv, TypeOK
    <3>6. consumed' \in Int /\ given' \in Int /\ stream' = "more"
          /\ UNCHANGED <<open, seqHeader, later, sized, known, seq, codecSet, held, duty, turn>>
      BY <1>8 DEF VPU_DecFlushAll, Abort, infoVars
    <3> QED
      BY <3>1, <3>2, <3>3, <3>4, <3>5, <3>6 DEF IInv, TypeOK
  <2> QED
    BY <1>8, <2>1 DEF VPU_DecFlushAll, FlushedOut, Abort, infoVars, IInv, CodecInOrder, HeldOut,
                      Ready, EndedMeansEmpty, EosComplete, InputAccounted
<1>9. CASE VPU_DecReset
  <2>1. TypeOK'
    <3>1. ret' \in [code : RetCodes, flags : SUBSET RetFlags]
      BY <1>9, ReturnsType DEF VPU_DecReset, RetCodes
    <3>2. flushing' \in BOOLEAN /\ ended' \in BOOLEAN /\ pending' \subseteq Frame
      BY <1>9 DEF VPU_DecReset, Abort
    <3>3. UNCHANGED <<open, state, eosing, nBsBufLen, slot, sized, seqHeader, consumed, later, known,
                      seq, codecSet, out, held, duty, turn, stream, node, given>>
      BY <1>9 DEF VPU_DecReset, Abort, inVars, slotVars, infoVars, ghostVars
    <3> QED
      BY <3>1, <3>2, <3>3 DEF IInv, TypeOK
  <2> QED
    BY <1>9, <2>1 DEF VPU_DecReset, Abort, inVars, slotVars, infoVars, ghostVars, IInv,
                      CodecInOrder, HeldOut, Ready, EndedMeansEmpty, EosComplete, InputAccounted
<1>10. CASE Reopen
  <2>1. TypeOK'
    <3>1. ret' \in [code : RetCodes, flags : SUBSET RetFlags]
      BY <1>10, ReturnsType DEF Reopen, RetCodes
    <3>2. open' \in [fmt : Formats, secure : BOOLEAN, tile : BOOLEAN, noreorder : BOOLEAN]
      BY <1>10, OpensType DEF Reopen
    <3>3. /\ state' \in States /\ state' # "OUTOK" /\ duty' \in Duties
          /\ nBsBufLen' \in 0..BufSize /\ slot' = NoFrame
      BY <1>10, SizeAssumption DEF Reopen, States, Duties
    <3>4. /\ eosing' \in BOOLEAN /\ sized' \in BOOLEAN /\ seqHeader' \in BOOLEAN
          /\ later' \in BOOLEAN /\ flushing' \in BOOLEAN /\ ended' \in BOOLEAN
          /\ turn' \in BOOLEAN
      BY <1>10 DEF Reopen
    <3>5. /\ known' \subseteq Frame /\ codecSet' \subseteq Frame /\ pending' \subseteq Frame
          /\ out' \subseteq Frame /\ held' \subseteq Frame
      BY <1>10 DEF Reopen
    <3>6. /\ consumed' \in Int /\ given' \in Int /\ seq' \in {"none", "info", "ready"}
          /\ stream' \in {"more", "end"} /\ node' \in {"new", "put"}
      BY <1>10 DEF Reopen
    <3> QED
      BY <3>1, <3>2, <3>3, <3>4, <3>5, <3>6 DEF TypeOK
  <2> QED
    BY <1>10, <2>1 DEF Reopen, IInv, CodecInOrder, HeldOut, Ready, EndedMeansEmpty, EosComplete,
                       InputAccounted
<1>11. CASE UNCHANGED vars
  <2>1. TypeOK'
    BY <1>11 DEF vars, openVars, inVars, slotVars, infoVars, codecVars, ghostVars, IInv, TypeOK
  <2> QED
    BY <1>11, <2>1 DEF vars, openVars, inVars, slotVars, infoVars, codecVars, ghostVars, IInv,
                       CodecInOrder, HeldOut, Ready, EndedMeansEmpty, EosComplete, InputAccounted
<1> QED
  BY <1>1, <1>2, <1>3, <1>4, <1>5, <1>6, <1>7, <1>8, <1>9, <1>10, <1>11 DEF Next

\* The inductive invariant holds whatever the codec answers and the application calls.
THEOREM HantroInvariance == Spec => []IInv
<1>1. ASSUME Init PROVE IInv
  <2>1. TypeOK
    <3>1. ret \in [code : RetCodes, flags : SUBSET RetFlags]
      BY <1>1 DEF Init, RetCodes
    <3>2. open \in [fmt : Formats, secure : BOOLEAN, tile : BOOLEAN, noreorder : BOOLEAN]
      BY <1>1, OpensType DEF Init
    <3>3. /\ state \in States /\ state # "OUTOK" /\ duty \in Duties
          /\ nBsBufLen \in 0..BufSize /\ slot = NoFrame
      BY <1>1, SizeAssumption DEF Init, States, Duties
    <3>4. /\ eosing \in BOOLEAN /\ sized \in BOOLEAN /\ seqHeader \in BOOLEAN
          /\ later \in BOOLEAN /\ flushing \in BOOLEAN /\ ended \in BOOLEAN
          /\ turn \in BOOLEAN
      BY <1>1 DEF Init
    <3>5. /\ known \subseteq Frame /\ codecSet \subseteq Frame /\ pending \subseteq Frame
          /\ out \subseteq Frame /\ held \subseteq Frame
      BY <1>1 DEF Init
    <3>6. /\ consumed \in Int /\ given \in Int /\ seq \in {"none", "info", "ready"}
          /\ stream \in {"more", "end"} /\ node \in {"new", "put"}
      BY <1>1 DEF Init
    <3> QED
      BY <3>1, <3>2, <3>3, <3>4, <3>5, <3>6 DEF TypeOK
  <2> QED
    BY <1>1, <2>1 DEF Init, IInv, CodecInOrder, HeldOut, Ready, EndedMeansEmpty, EosComplete,
                      InputAccounted
<1>2. IInv /\ [Next]_vars => IInv'
  BY StepPreserves
<1> QED
  BY <1>1, <1>2, PTL DEF Spec

\* Every variable keeps its type; the buffer is filled only when empty, so no node overruns it.
THEOREM HantroTypeCorrect == Spec => []TypeOK
<1>1. IInv => TypeOK
  BY DEF IInv
<1> QED
  BY <1>1, HantroInvariance, PTL

\* The codec never gets to write a frame offered to the application or held by it.
THEOREM HantroHeldFramesProtected == Spec => []HeldProtected
<1>1. IInv => HeldProtected
  BY DEF IInv, HeldOut, HeldProtected, Free
<1> QED
  BY <1>1, HantroInvariance, PTL

\* EOS is told only when everything given was decoded and everything decoded was shown.
THEOREM NothingAfterEos == Spec => []EosComplete
<1>1. IInv => EosComplete
  BY DEF IInv
<1> QED
  BY <1>1, HantroInvariance, PTL

\* The account of consumed bytes agrees with what the application gave, in copy mode and for
\* every format whose inserted headers are taken off.
THEOREM BytesBalance == Spec => []InputAccounted
<1>1. IInv => InputAccounted
  BY DEF IInv
<1> QED
  BY <1>1, HantroInvariance, PTL

-----------------------------------------------------------------------------
(* The ownership of frames, for an application that follows the return codes. *)

\* A frame in the slot is fetched before any other call.
FetchedNext == Ready # {} => duty = "fetch"

Owned == OutMeansOwned /\ FetchedNext

\* Every step keeps the frames with their owners.
LEMMA OwnedStep ==
  ASSUME Obedient, IInv, IInv', Owned, [Next]_vars
  PROVE  Owned'
<1> USE DEF Asked, Returns
<1>1. ASSUME NEW in \in Nodes, VPU_DecDecodeBuf(in) PROVE Owned'
  <2>1. Ready = {} /\ out = held /\ held' = held /\ Asks(NextDuty(ret'.code, ret'.flags))
    BY <1>1 DEF VPU_DecDecodeBuf, Owned, OutMeansOwned, FetchedNext
  <2>2. ASSUME NEW f \in Frame, ShowFrame(f) PROVE Owned'
    <3>1. Ready' = {f} /\ out' = out \cup {f}
      BY <2>2 DEF ShowFrame, Ready
    <3>2. duty' = "fetch"
      BY <2>1, <2>2 DEF ShowFrame, NextDuty
    <3> QED BY <2>1, <3>1, <3>2 DEF Owned, OutMeansOwned, FetchedNext
  <2>3. CASE ShowEnd \/ Decode(in)
    <3>1. Ready' = {}
      BY <2>1, <2>3 DEF ShowEnd, Decode, slotVars, Ready
    <3>2. out' = out
      BY <2>3 DEF ShowEnd, Decode, codecVars
    <3> QED BY <2>1, <3>1, <3>2 DEF Owned, OutMeansOwned, FetchedNext
  <2> QED BY <1>1, <2>2, <2>3 DEF VPU_DecDecodeBuf
<1>2. CASE VPU_DecConfig
  BY <1>2 DEF VPU_DecConfig, slotVars, codecVars, Owned, OutMeansOwned, FetchedNext, Ready
<1>3. CASE VPU_DecGetInitialInfo
  BY <1>3 DEF VPU_DecGetInitialInfo, codecVars, Owned, OutMeansOwned, FetchedNext, Ready
<1>4. CASE VPU_DecRegisterFrameBuffer
  BY <1>4 DEF VPU_DecRegisterFrameBuffer, Owned, OutMeansOwned, FetchedNext, Ready
<1>5. CASE VPU_DecGetOutputFrame
  BY <1>5 DEF VPU_DecGetOutputFrame, codecVars, Owned, OutMeansOwned, FetchedNext, Ready
<1>6. CASE VPU_DecGetConsumedFrameInfo
  BY <1>6 DEF VPU_DecGetConsumedFrameInfo, slotVars, codecVars, Owned, OutMeansOwned, FetchedNext,
              Ready
<1>7. ASSUME NEW f \in Frame, VPU_DecOutFrameDisplayed(f) PROVE Owned'
  BY <1>7 DEF VPU_DecOutFrameDisplayed, slotVars, Owned, OutMeansOwned, FetchedNext, Ready, IInv,
              HeldOut
<1>8. CASE VPU_DecFlushAll
  BY <1>8 DEF VPU_DecFlushAll, FlushedOut, Owned, OutMeansOwned, FetchedNext, Ready
<1>9. CASE VPU_DecReset
  BY <1>9 DEF VPU_DecReset, slotVars, Owned, OutMeansOwned, FetchedNext, Ready
<1>10. CASE Reopen
  BY <1>10 DEF Reopen, Owned, OutMeansOwned, FetchedNext, Ready
<1>11. CASE UNCHANGED vars
  BY <1>11 DEF vars, slotVars, codecVars, Owned, OutMeansOwned, FetchedNext, Ready
<1> QED
  BY <1>1, <1>2, <1>3, <1>4, <1>5, <1>6, <1>7, <1>8, <1>9, <1>10, <1>11 DEF Next

\* With an application that fetches what it is offered no frame is ever lost to the codec.
THEOREM HantroNoFrameLost ==
  ASSUME Obedient
  PROVE  Spec => []OutMeansOwned
<1>1. Init => Owned
  BY DEF Init, Owned, OutMeansOwned, FetchedNext, Ready
<1>2. IInv /\ IInv' /\ Owned /\ [Next]_vars => Owned'
  BY OwnedStep
<1>3. Owned => OutMeansOwned
  BY DEF Owned
<1> QED
  BY <1>1, <1>2, <1>3, HantroInvariance, PTL DEF Spec

-----------------------------------------------------------------------------
(* HantroDec implements FrameOwnership, for such an application. *)

\* How a step moves the frames between the codec, the output slot and the application.
Moves ==
  \/ held' = held /\ Ready' = Ready
  \/ /\ held' = held /\ Ready = {}
     /\ \E f \in Frame \ held : Ready' = {f}
  \/ \E f \in Frame \ held : Ready = {f} /\ Ready' = {} /\ held' = held \cup {f}
  \/ \E f \in held : held' = held \ {f} /\ Ready' = Ready
  \/ held' = {} /\ Ready' = {}

\* Every step moves the frames as FrameOwnership allows.
LEMMA StepMoves ==
  ASSUME Obedient, IInv, Owned, [Next]_vars
  PROVE  Moves
<1> USE DEF Asked, Returns
<1>1. duty # "fetch" => Ready = {}
  BY DEF Owned, FetchedNext
<1>2. ASSUME NEW in \in Nodes, VPU_DecDecodeBuf(in) PROVE Moves
  <2>1. Ready = {} /\ held' = held
    BY <1>1, <1>2 DEF VPU_DecDecodeBuf
  <2>2. ASSUME NEW f \in Frame, ShowFrame(f) PROVE Moves
    <3>1. f \notin held
      BY <2>2 DEF ShowFrame, Owned, OutMeansOwned, IInv, CodecInOrder
    <3>2. Ready' = {f}
      BY <2>2 DEF ShowFrame, Ready
    <3> QED BY <2>1, <3>1, <3>2 DEF Moves
  <2>3. CASE ShowEnd
    BY <2>1, <2>3 DEF ShowEnd, slotVars, Ready, Moves
  <2>4. CASE Decode(in)
    <3>1. state' = state \/ state' = "INITOK"
      BY <2>4 DEF Decode
    <3>2. slot' = slot
      BY <2>4 DEF Decode
    <3> QED BY <2>1, <3>1, <3>2 DEF Ready, Moves
  <2> QED BY <1>2, <2>2, <2>3, <2>4 DEF VPU_DecDecodeBuf
<1>3. CASE VPU_DecConfig \/ VPU_DecGetConsumedFrameInfo
  BY <1>3 DEF VPU_DecConfig, VPU_DecGetConsumedFrameInfo, slotVars, Ready, Moves
<1>4. CASE VPU_DecGetInitialInfo \/ VPU_DecRegisterFrameBuffer
  BY <1>1, <1>4 DEF VPU_DecGetInitialInfo, VPU_DecRegisterFrameBuffer, Ready, Moves
<1>5. CASE VPU_DecGetOutputFrame
  BY <1>5 DEF VPU_DecGetOutputFrame, Ready, Moves, IInv, TypeOK, HeldOut
<1>6. ASSUME NEW f \in Frame, VPU_DecOutFrameDisplayed(f) PROVE Moves
  BY <1>6 DEF VPU_DecOutFrameDisplayed, slotVars, Ready, Moves
<1>7. CASE VPU_DecFlushAll \/ VPU_DecReset
  BY <1>1, <1>7 DEF VPU_DecFlushAll, VPU_DecReset, slotVars, Ready, Moves
<1>8. CASE Reopen
  BY <1>8 DEF Reopen, Ready, Moves
<1>9. CASE UNCHANGED vars
  BY <1>9 DEF vars, slotVars, Ready, Moves
<1> QED
  BY <1>2, <1>3, <1>4, <1>5, <1>6, <1>7, <1>8, <1>9 DEF Next

\* Moves are the steps of FrameOwnership.
LEMMA MovesAreOwnership ==
  ASSUME IInv, IInv', Moves
  PROVE  Ownership!Next
<1> USE DEF Owner
<1>1. held \subseteq Frame /\ held' \subseteq Frame /\ held \cap Ready = {} /\ held' \cap Ready' = {}
  BY DEF IInv, TypeOK, HeldOut
<1>2. Ownership!Writes(Owner')
  <2>1. Free' \subseteq Frame \ (held' \cup Ready')
    BY DEF IInv, TypeOK, HeldOut, Free
  <2> QED BY <2>1 DEF Ownership!Writes, Ownership!Owned
<1>3. CASE held' = held /\ Ready' = Ready
  BY <1>2, <1>3 DEF Ownership!Next, Ownership!Work
<1>4. ASSUME held' = held, Ready = {}, NEW f \in Frame \ held, Ready' = {f}
      PROVE  Ownership!Next
  <2>1. Ownership!Offer(f)
    BY <1>4 DEF Ownership!Offer, Ownership!Pass, Ownership!Owned
  <2> QED BY <1>2, <2>1 DEF Ownership!Next
<1>5. ASSUME NEW f \in Frame \ held, Ready = {f}, Ready' = {}, held' = held \cup {f}
      PROVE  Ownership!Next
  <2>1. Ownership!Take(f)
    BY <1>5 DEF Ownership!Take, Ownership!Pass
  <2> QED BY <1>2, <2>1 DEF Ownership!Next
<1>6. ASSUME NEW f \in held, held' = held \ {f}, Ready' = Ready
      PROVE  Ownership!Next
  <2>1. Ownership!Return(f)
    BY <1>1, <1>6 DEF Ownership!Return, Ownership!Pass
  <2> QED BY <1>1, <1>2, <2>1 DEF Ownership!Next
<1>7. CASE held' = {} /\ Ready' = {}
  BY <1>2, <1>7 DEF Ownership!Next, Ownership!Recycle
<1> QED
  BY <1>3, <1>4, <1>5, <1>6, <1>7 DEF Moves

\* The Hantro decoder keeps the promise of the i.MX6 decoder, with any codec library that
\* does not itself write frames it has handed out.
THEOREM HantroKeepsOwnership ==
  ASSUME Obedient
  PROVE  Spec => ImplementsOwnership
<1>1. Init => Ownership!Init
  BY DEF Init, Ownership!Init, Owner, Ready, Free
<1>2. Init => Owned
  BY DEF Init, Owned, OutMeansOwned, FetchedNext, Ready
<1>3. IInv /\ IInv' /\ Owned /\ [Next]_vars => Owned'
  BY OwnedStep
<1>4. IInv /\ IInv' /\ Owned /\ [Next]_vars => [Ownership!Next]_Ownership!vars
  BY StepMoves, MovesAreOwnership
<1> QED
  BY <1>1, <1>2, <1>3, <1>4, HantroInvariance, PTL DEF Spec, ImplementsOwnership, Ownership!Spec

-----------------------------------------------------------------------------
(* A codec that waits for buffers. *)

Told == {"getinfo", "register", "reopen"}

\* A tiled codec announces a sequence once, so the application must have been told for as long
\* as it waits; the mode may be changed only before a sequence is found.
Waiting ==
  /\ WaitingIsTold
  /\ open.tile /\ seq = "info" => duty \in Told
  /\ state = "OPEN" => seq = "none"

\* A call that decodes with the codec waiting afterwards says so or has nothing left to decode.
LEMMA DecodeTells ==
  ASSUME Obedient, ~CallsFail, IInv, Waiting, NEW in \in Nodes, VPU_DecDecodeBuf(in), Decode(in)
  PROVE  Waiting'
<1>1. PICK plain \in PlainHeaders, reads \in Reads(in) :
        \E o \in Outcomes(Taken(in, plain, reads).len, Taken(in, plain, reads).eos) :
        /\ nBsBufLen' = o.left
        /\ state' = IF o.found THEN "INITOK" ELSE state
        /\ seq' = IF o.found THEN "info" ELSE seq
        /\ ret' = [code |-> IF o.exit = "failed" THEN "FAILURE" ELSE "SUCCESS",
                   flags |-> Flags(o, Taken(in, plain, reads).eos)]
  BY DEF Decode
<1> DEFINE len == Taken(in, plain, reads).len
           eos == Taken(in, plain, reads).eos
<1>2. len \in 0..BufSize
  BY TakenFits DEF IInv
<1> HIDE DEF len, eos
<1>3. PICK o \in Outcomes(len, eos) :
        /\ nBsBufLen' = o.left
        /\ state' = IF o.found THEN "INITOK" ELSE state
        /\ seq' = IF o.found THEN "info" ELSE seq
        /\ ret' = [code |-> IF o.exit = "failed" THEN "FAILURE" ELSE "SUCCESS",
                   flags |-> Flags(o, eos)]
  BY <1>1 DEF len, eos
<1>4. duty = "feed" /\ open' = open /\ Asks(NextDuty(ret'.code, ret'.flags))
  BY DEF VPU_DecDecodeBuf, Asked
<1>5. seq = "info" => ~open.tile
  BY <1>4 DEF Waiting, Told
<1>6. "INIT_OK" \in Flags(o, eos) \/ "RESOLUTION_CHANGED" \in Flags(o, eos) => duty' \in Told
  BY <1>3, <1>4 DEF NextDuty, Told
<1>7. o.exit = "info" \/ (o.exit = "waiting" /\ ~open.tile) => duty' \in Told
  BY <1>6 DEF Flags, ExitFlags, Announce
<1>8. CASE len = 0
  <2>1. o.left = 0 /\ ~o.found
    BY <1>3, <1>8 DEF Outcomes
  <2> QED BY <1>3, <1>4, <1>5, <2>1 DEF Waiting, WaitingIsTold
<1>9. CASE len # 0
  <2>1. Sensible(o, len, eos) /\ o.found \in BOOLEAN /\ o.exit \in Exits /\ o.left \in 0..len
    BY <1>9 DEF Outcomes
  <2>2. CASE o.found
    <3>1. o.exit \in {"info", "waiting", "all"} /\ (o.exit = "info" <=> open.tile)
          /\ (o.exit = "all" => o.left = 0)
      BY <2>1, <2>2 DEF Sensible
    <3> QED BY <1>3, <1>4, <1>7, <2>2, <3>1 DEF Waiting, WaitingIsTold, Told
  <2>3. CASE ~o.found /\ seq = "info"
    <3>1. o.exit \in {"incomplete", "waiting"} /\ (o.exit = "incomplete" => ~WholeUnits)
      BY <2>1, <2>3 DEF Sensible, Exits
    <3> QED BY <1>3, <1>4, <1>5, <1>7, <2>3, <3>1 DEF Waiting, WaitingIsTold, Told
  <2>4. CASE ~o.found /\ seq # "info"
    BY <1>3, <2>4 DEF Waiting, WaitingIsTold
  <2> QED BY <2>1, <2>2, <2>3, <2>4
<1> QED
  BY <1>2, <1>8, <1>9

\* Every step tells.
LEMMA WaitingStep ==
  ASSUME Obedient, ~CallsFail, IInv, Waiting, [Next]_vars
  PROVE  Waiting'
<1> USE DEF Waiting, WaitingIsTold, Told
<1>1. ASSUME NEW in \in Nodes, VPU_DecDecodeBuf(in) PROVE Waiting'
  <2>1. duty = "feed" /\ open' = open
    BY <1>1 DEF VPU_DecDecodeBuf, Asked
  <2>2. ASSUME NEW f \in Frame, ShowFrame(f) PROVE Waiting'
    <3>1. seq = "ready" /\ seq' = seq /\ state' = "OUTOK"
      BY <2>2 DEF ShowFrame, IInv, TypeOK, CodecInOrder
    <3> QED BY <3>1
  <2>3. CASE ShowEnd
    <3>1. seq' = seq /\ state' = state /\ nBsBufLen' = nBsBufLen /\ nBsBufLen = 0
      BY <2>3 DEF ShowEnd, inVars, slotVars, codecVars, IInv, EndedMeansEmpty
    <3> QED BY <2>1, <3>1
  <2>4. CASE Decode(in)
    BY <1>1, <2>4, DecodeTells
  <2> QED BY <1>1, <2>2, <2>3, <2>4 DEF VPU_DecDecodeBuf
<1>2. CASE VPU_DecConfig
  <2>1. UNCHANGED <<nBsBufLen, state, seq, duty>>
    BY <1>2 DEF VPU_DecConfig, slotVars, codecVars
  <2>2. open' = open \/ state = "OPEN"
    BY <1>2 DEF VPU_DecConfig
  <2> QED BY <2>1, <2>2
<1>3. CASE VPU_DecGetInitialInfo
  <2>1. UNCHANGED <<nBsBufLen, seq, open>> /\ duty' \in Told /\ (state' = "OPEN" => state = "OPEN")
    BY <1>3 DEF VPU_DecGetInitialInfo, inVars, codecVars
  <2> QED BY <2>1
<1>4. CASE VPU_DecRegisterFrameBuffer
  <2>1. seq' = "ready" /\ state' = "DEC"
    BY <1>4 DEF VPU_DecRegisterFrameBuffer
  <2> QED BY <2>1
<1>5. CASE VPU_DecGetOutputFrame
  <2>1. UNCHANGED <<nBsBufLen, seq, open>>
    BY <1>5 DEF VPU_DecGetOutputFrame, inVars, codecVars
  <2>2. \/ state = "OUTOK" /\ state' = "DEC"
        \/ UNCHANGED <<state, duty>>
    BY <1>5 DEF VPU_DecGetOutputFrame
  <2>3. state = "OUTOK" => seq = "ready"
    BY DEF IInv, CodecInOrder
  <2> QED BY <2>1, <2>2, <2>3
<1>6. CASE Reopen
  BY <1>6 DEF Reopen
<1>7. CASE VPU_DecFlushAll
  <2>1. UNCHANGED <<seq, open, duty>> /\ state' = "EOS" /\ nBsBufLen' = 0
    BY <1>7 DEF VPU_DecFlushAll, Abort
  <2> QED BY <2>1
<1>8. CASE \/ VPU_DecGetConsumedFrameInfo \/ VPU_DecReset
           \/ (\E f \in Frame : VPU_DecOutFrameDisplayed(f)) \/ UNCHANGED vars
  <2>1. UNCHANGED <<nBsBufLen, seq, open, duty, state>>
    BY <1>8 DEF VPU_DecGetConsumedFrameInfo, VPU_DecReset, VPU_DecOutFrameDisplayed, Abort,
                inVars, slotVars, codecVars, vars
  <2> QED BY <2>1
<1> QED
  BY <1>1, <1>2, <1>3, <1>4, <1>5, <1>6, <1>7, <1>8 DEF Next

\* A codec with something to decode that waits for frame buffers has told the application so,
\* for an application that follows the return codes and as long as no codec call fails.
THEOREM WaitingCodecIsServed ==
  ASSUME Obedient, ~CallsFail
  PROVE  Spec => []WaitingIsTold
<1>1. Init => Waiting
  BY DEF Init, Waiting, WaitingIsTold
<1>2. IInv /\ Waiting /\ [Next]_vars => Waiting'
  BY WaitingStep
<1>3. Waiting => WaitingIsTold
  BY DEF Waiting
<1> QED
  BY <1>1, <1>2, <1>3, HantroInvariance, PTL DEF Spec
=============================================================================
