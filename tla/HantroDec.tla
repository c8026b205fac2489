----------------------------- MODULE HantroDec ------------------------------
(* One decoder instance of vpu_wrapper_hantro.c (i.MX8): what each call does  *)
(* with the input node, the codec library's frames and the byte accounts.     *)
(* The codec library is external.  It decodes in the call, keeps the frames   *)
(* it has decoded until getframe asks for them, and answers as `Outcomes' and *)
(* `MayWithhold' say.  Amounts of data are counted in units.                  *)
EXTENDS Integers, FiniteSets

CONSTANTS
  Frame,         \* the frame buffers an application registers
  NoFrame,       \* frameInfo before the first output
  Formats,       \* formats an instance may be opened with
  SecureModes,   \* values of nSecureMode
  TileModes,     \* values of config_tile the open parameters may lead to
  ReorderOff,    \* values of bReorderDisable
  Sizes,         \* units of one input node
  CodecData,     \* units of codec data (sCodecData.nSize) a node may carry
  BufSize,       \* units the bitstream buffer holds (VPU_BITS_BUF_SIZE)
  MaxOwed,       \* bound: units given and not yet reported as consumed, or reported too much
  WholeUnits,    \* scanframe always finds a complete unit in what it is given
  CallsFail,     \* codec calls may fail
  CountCalls,    \* for liveness: a call that changes nothing is a step too
  Obedient       \* the application makes the calls the return codes ask for

ASSUME FrameAssumption == IsFiniteSet(Frame) /\ NoFrame \notin Frame

\* The formats VPU_DecOpen has a codec for (DIVX3 has none), without RV, WEBP and MJPG.
ASSUME FormatAssumption ==
  Formats \subseteq {"AVC", "AVC_MVC", "HEVC", "MPEG2", "MPEG4", "H263", "SORENSON", "XVID",
                     "VC1", "VC1_AP", "AVS", "VP6", "VP8", "VP9"}

ASSUME SizeAssumption ==
  /\ Sizes \subseteq Nat \ {0} /\ CodecData \subseteq Nat /\ {BufSize, MaxOwed} \subseteq Nat
  /\ \A n \in Sizes, c \in CodecData : n + c + 1 <= BufSize

ASSUME SwitchAssumption ==
  /\ SecureModes \subseteq BOOLEAN /\ TileModes \subseteq BOOLEAN /\ ReorderOff \subseteq BOOLEAN
  /\ {WholeUnits, CallsFail, CountCalls, Obedient} \subseteq BOOLEAN

VARIABLES
  open,       \* CodecFormat, bSecureMode, config_tile, bReorderDisable
  state,      \* VpuDecObj.state
  eosing,     \* the end-of-stream node has been taken
  nBsBufLen,  \* data taken and not yet decoded
  slot,       \* frameInfo.pDisplayFrameBuf
  sized,      \* nFrameSize # 0: initial information has been read
  seqHeader,  \* nPrivateSeqHeaderInserted
  consumed,   \* nAccumulatedConsumedFrmBytes
  later,      \* bConsumeInputLater: acknowledge a secure node in a later call
  known,      \* frames in frameBuf[0 .. frameNum-1]
  seq,        \* codec: none; info (headers found, buffers wanted); ready
  codecSet,   \* codec: frames it was given by setframebuffer
  pending,    \* codec: frames decoded and not yet handed out
  out,        \* codec: frames handed out, and not written until pictureconsumed
  flushing,   \* codec: it wants its pending frames taken before it goes on
  ended,      \* codec: endofstream was called
  held,       \* frames the application was given and has not released
  duty,       \* what the last return codes ask the application to call
  ret,        \* code and flags of the last call
  turn,       \* alternates with VPU_DecDecodeBuf if CountCalls
  stream,     \* the application has more data, or is at its end
  node,       \* the node the application offers: new, or put (taken, not acknowledged)
  given       \* data of the application taken, less what was reported as consumed

openVars  == <<open>>
inVars    == <<eosing, nBsBufLen, seqHeader, consumed, later>>
slotVars  == <<state, slot>>
infoVars  == <<sized, known>>
codecVars == <<seq, codecSet, pending, out, flushing, ended>>
ghostVars == <<stream, node, given>>
vars == <<open, inVars, slotVars, infoVars, codecVars, held, duty, ret, turn, ghostVars>>

States   == {"OPEN", "INITOK", "REGFRMOK", "DEC", "OUTOK", "EOS"}
RetFlags == {"INPUT_USED", "NO_ENOUGH_INBUF", "INIT_OK", "RESOLUTION_CHANGED", "DIS", "EOS",
             "NO_ENOUGH_BUF", "ONE_FRM_CONSUMED"}
RetCodes == {"SUCCESS", "FAILURE", "INVALID_PARAM", "WRONG_CALL_SEQUENCE"}
Duties   == {"feed", "getinfo", "register", "fetch", "reopen"}

\* Formats for which config_tile is ever set.
TiledFormats == {"AVC", "HEVC", "VP9"}

\* Nodes: no data (NULL, 0), end of stream (0x01, 0), or data with or without codec data.
Null  == [ptr |-> FALSE, size |-> 0, codecData |-> 0]
Eos   == [ptr |-> TRUE,  size |-> 0, codecData |-> 0]
Data  == {[ptr |-> TRUE, size |-> n, codecData |-> c] : n \in Sizes, c \in CodecData}
Nodes == {Null, Eos} \cup Data

TypeOK ==
  /\ open \in [fmt : Formats, secure : BOOLEAN, tile : BOOLEAN, noreorder : BOOLEAN]
  /\ state \in States
  /\ eosing \in BOOLEAN /\ sized \in BOOLEAN /\ seqHeader \in BOOLEAN /\ later \in BOOLEAN
  /\ flushing \in BOOLEAN /\ ended \in BOOLEAN /\ turn \in BOOLEAN
  /\ nBsBufLen \in 0..BufSize
  /\ slot \in Frame \cup {NoFrame}
  /\ state = "OUTOK" => slot \in Frame
  /\ consumed \in Int
  /\ seq \in {"none", "info", "ready"}
  /\ known \subseteq Frame /\ codecSet \subseteq Frame
  /\ pending \subseteq Frame /\ out \subseteq Frame /\ held \subseteq Frame
  /\ duty \in Duties
  /\ ret \in [code : RetCodes, flags : SUBSET RetFlags]
  /\ stream \in {"more", "end"}
  /\ node \in {"new", "put"}
  /\ given \in Int

-----------------------------------------------------------------------------
(* The application. *)

NextDuty(code, flags) ==
  IF code # "SUCCESS" THEN "reopen"
  ELSE IF flags \cap {"INIT_OK", "RESOLUTION_CHANGED"} # {} THEN "getinfo"
  ELSE IF "DIS" \in flags THEN "fetch"
  ELSE "feed"

Asked(d) == ~Obedient \/ duty = d

\* An application that calls in any order has no duty, and no end of its stream, to remember.
Asks(d) == duty' = IF Obedient THEN d ELSE "feed"

Returns(code) == ret' = [code |-> code, flags |-> {}]

\* A node taken and not acknowledged is offered again; after its end of stream an obedient
\* application offers nothing else.
Offers(in) ==
  /\ node = "put" => in \in Data
  /\ Obedient /\ stream = "end" => in = Eos
  /\ nBsBufLen = 0 /\ in.size > 0 =>
       given + in.size <= MaxOwed /\ consumed - given < MaxOwed

-----------------------------------------------------------------------------
(* Taking a node: VPU_DecProcessInBuf. *)

\* Headers the wrapper puts before the data: codec data, or the sequence header made from it,
\* is taken off the consumed bytes; the frame header of a VC1_AP picture that is no NAL unit is
\* not.
CountedHeader(in) == IF seqHeader THEN 0 ELSE in.codecData
PlainHeaders      == IF open.fmt = "VC1_AP" THEN {0, 1} ELSE {0}

\* A node with the codec data of VC1_AP is not read if it is too short (under 4 bytes) to make the
\* sequence header from, though it is acknowledged.
Reads(in) ==
  IF open.fmt = "VC1_AP" /\ CountedHeader(in) > 0 THEN BOOLEAN ELSE {TRUE}

\* VPU_DecProcessInBuf is reached when everything taken before has been decoded.
TakesNode_Always == TRUE
TakesNode == nBsBufLen = 0

\* VpuPutInBuf appends; a secure node is decoded in place and replaces whatever was put before.
PutLen(in, plain) ==
  IF open.secure THEN in.size ELSE nBsBufLen + CountedHeader(in) + plain + in.size

Account_NoHeader(in) == consumed
Account(in) == consumed - CountedHeader(in)

\* What VPU_DecProcessInBuf leaves: the data to decode, the account, and the two marks.
Taken(in, plain, reads) ==
  IF TakesNode /\ in.size > 0 /\ reads
  THEN [len |-> PutLen(in, plain), acc |-> Account(in), hdr |-> TRUE,
        eos |-> eosing, given |-> given + in.size]
  ELSE [len |-> nBsBufLen, acc |-> consumed, hdr |-> seqHeader,
        eos |-> eosing \/ (TakesNode /\ in = Eos), given |-> given]

\* INPUT_USED before decoding: the node was taken, or a secure node's answer was put off.
Acknowledged == TakesNode \/ (later /\ open.secure)

-----------------------------------------------------------------------------
(* The codec library (external). *)

\* Frames the codec may decode into.
Free == codecSet \ (pending \cup out)

\* getframe may keep back decoded frames for reordering, but not when the stream has ended,
\* when it asked for a flush, or when it has no frame left to decode into.
MayWithhold == ~ended /\ (pending = {} \/ (~flushing /\ Free # {}))

\* What the decoding loop of a call comes to, over data of `len' units: what is left, the
\* frames decoded, whether a new sequence was found (CODEC_HAS_INFO), and why it ended.
Exits == {"all", "incomplete", "frame", "nobuf", "pending", "pendingPart", "info", "waiting",
          "aborted", "failed"}

\* With no data the codec is not called.  Old frames are all out before a new sequence is
\* found; a codec that waits for buffers goes no further; progress is made with each frame.
Sensible(o, len, eos) ==
  /\ Cardinality(o.new) <= len - o.left
  /\ o.new # {} => seq = "ready" /\ ~o.found
  /\ o.exit \notin {"all", "incomplete", "waiting", "aborted", "failed"} =>
       o.found \/ seq = "ready"
  /\ seq = "info" => o.exit \notin {"all"} /\ o.left = len /\ ~o.found
  /\ o.exit = "all" => o.left = 0
  /\ o.exit = "incomplete" => o.left > 0 /\ ~eos /\ ~WholeUnits
  /\ o.exit \in {"frame", "pendingPart"} => o.left < len
  /\ o.exit = "nobuf" => o.left > 0 /\ Free \subseteq o.new
  /\ o.exit \in {"pending", "pendingPart"} => pending \cup o.new # {}
  /\ o.exit \in {"aborted", "failed"} => CallsFail
  /\ o.exit = "info" <=> o.found /\ open.tile
  /\ o.exit = "waiting" => o.found \/ seq = "info"
  /\ o.found => /\ o.exit \in {"info", "waiting", "all"}
                /\ pending = {}
                /\ seq = "ready" \/ o.exit = "all" => o.left < len

Outcomes(len, eos) ==
  IF len = 0 THEN {[left |-> 0, new |-> {}, found |-> FALSE, exit |-> "all"]}
  ELSE {o \in [left : 0..len, new : SUBSET Free, found : BOOLEAN, exit : Exits] :
          Sensible(o, len, eos)}

-----------------------------------------------------------------------------
(* VPU_DecDecodeBuf. *)

Announce == IF sized THEN {"RESOLUTION_CHANGED"} ELSE {"INIT_OK"}

\* Flags a codec answer adds in VPU_DecDecode.
ExitFlags_NoWaiting(exit) ==
  IF exit = "frame" THEN {"ONE_FRM_CONSUMED"}
  ELSE IF exit = "nobuf" THEN {"NO_ENOUGH_BUF"}
  ELSE IF exit = "info" THEN Announce
  ELSE {}
ExitFlags(exit) ==
  IF exit = "frame" THEN {"ONE_FRM_CONSUMED"}
  ELSE IF exit = "nobuf" THEN {"NO_ENOUGH_BUF"}
  ELSE IF exit = "info" \/ (exit = "waiting" /\ ~open.tile) THEN Announce
  ELSE {}

\* The loop came to its end or to a break, not by a return, so that the lines after it are run.
ReachesTail(exit) == exit \in {"all", "incomplete", "frame", "nobuf", "pending", "pendingPart"}

WantsInput(o, eos) ==
  /\ ReachesTail(o.exit) /\ o.left = 0 /\ ~eos
  /\ ~(open.noreorder /\ o.exit = "frame")

EndsStream_Early(o, eos) == ReachesTail(o.exit) /\ eos
EndsStream_NoFrame(o, eos) == o.exit = "frame" /\ o.left = 0 /\ eos
EndsStream(o, eos) == ReachesTail(o.exit) /\ o.left = 0 /\ eos

\* The acknowledgement is taken back, and given in a later call: the codec still reads the
\* secure node, in place.
TakenBack(o) ==
  open.secure /\ \/ "INIT_OK" \in ExitFlags(o.exit)
                 \/ o.exit = "nobuf"
                 \/ o.exit = "pendingPart" /\ o.left > 0

Used(o) == Acknowledged /\ ~TakenBack(o)

Flags(o, eos) ==
  ExitFlags(o.exit) \cup (IF Used(o) THEN {"INPUT_USED"} ELSE {})
                    \cup (IF WantsInput(o, eos) THEN {"NO_ENOUGH_INBUF"} ELSE {})

\* What becomes of the node the application offered.
NodeAfter(in, used) ==
  IF in.size = 0 THEN node
  ELSE IF used THEN "new"
  ELSE IF TakesNode THEN "put" ELSE node

\* VPU_DecGetFrame found a frame of frameBuf: nothing else is done.
ShowFrame(f) ==
  /\ f \in pending \cap known
  /\ pending' = pending \ {f} /\ out' = out \cup {f}
  /\ slot' = f /\ state' = "OUTOK"
  /\ flushing' = (flushing /\ pending' # {})
  /\ ret' = [code |-> "SUCCESS", flags |-> {"DIS"}]
  /\ UNCHANGED <<inVars, seq, codecSet, ended, node, given>>

ShowEnd ==
  /\ ended /\ pending = {}
  /\ ret' = [code |-> "SUCCESS", flags |-> {"EOS"}]
  /\ UNCHANGED <<inVars, slotVars, codecVars, node, given>>

\* No frame: the node is taken if there is room, and the codec decodes.
Decode(in) ==
  /\ MayWithhold
  /\ \E plain \in PlainHeaders, reads \in Reads(in) :
     LET t == Taken(in, plain, reads)
     IN \E o \in Outcomes(t.len, t.eos) :
        /\ eosing' = t.eos /\ seqHeader' = t.hdr
        /\ nBsBufLen' = o.left
        /\ consumed' = t.acc + (t.len - o.left)
        /\ given' = t.given
        /\ state' = IF o.found THEN "INITOK" ELSE state
        /\ seq' = IF o.found THEN "info" ELSE seq
        /\ codecSet' = IF o.found THEN {} ELSE codecSet
        /\ pending' = pending \cup o.new
        /\ out' = out
        /\ flushing' = (pending' # {} /\ (flushing \/ o.exit \in {"pending", "pendingPart"}))
        /\ ended' = (ended \/ EndsStream(o, t.eos))
        /\ later' = IF open.secure THEN ~Used(o) ELSE later
        /\ ret' = [code |-> IF o.exit = "failed" THEN "FAILURE" ELSE "SUCCESS",
                   flags |-> Flags(o, t.eos)]
        /\ node' = NodeAfter(in, Used(o))
        /\ slot' = slot

VPU_DecDecodeBuf(in) ==
  /\ Asked("feed")
  /\ Offers(in)
  /\ \/ \E f \in Frame : ShowFrame(f)
     \/ ShowEnd
     \/ Decode(in)
  /\ Asks(NextDuty(ret'.code, ret'.flags))
  /\ stream' = IF Obedient /\ in = Eos THEN "end" ELSE stream
  /\ turn' = (CountCalls /\ ~turn)
  /\ UNCHANGED <<open, infoVars, held>>

-----------------------------------------------------------------------------
(* The other calls. *)

\* VPU_DEC_CONF_ENABLE_TILED and VPU_DEC_CONF_RESET_CODECDATA, which may set the mark as well as
\* clear it; the other settings are recorded and never read.
VPU_DecConfig ==
  /\ Asked("feed")
  /\ \/ /\ open.fmt \in TiledFormats
        /\ Obedient => state = "OPEN"
        /\ \E t \in TileModes : open' = [open EXCEPT !.tile = t]
        /\ UNCHANGED seqHeader
     \/ open' = open /\ seqHeader' \in BOOLEAN
  /\ Returns("SUCCESS")
  /\ UNCHANGED <<eosing, nBsBufLen, consumed, later, slotVars, infoVars, codecVars, held, duty,
                 turn, ghostVars>>

\* getinfo fails when the codec has seen no header.
VPU_DecGetInitialInfo ==
  /\ Asked("getinfo")
  /\ \/ /\ seq # "none"
        /\ sized' = TRUE /\ state' = "REGFRMOK"
        /\ Returns("SUCCESS") /\ Asks("register")
     \/ /\ seq = "none" \/ CallsFail
        /\ Returns("FAILURE") /\ Asks("reopen") /\ UNCHANGED <<sized, state>>
  /\ UNCHANGED <<open, inVars, slot, known, codecVars, held, turn, ghostVars>>

\* The frames of a new sequence are new buffers: those of the former one have been freed.  When
\* setframebuffer fails the codec keeps the frames it was given and the wrapper knows none.
VPU_DecRegisterFrameBuffer ==
  /\ Asked("register")
  /\ seq = "info" /\ held = {}
  /\ out' = {}
  /\ \/ /\ known' = Frame /\ codecSet' = Frame /\ seq' = "ready"
        /\ state' = "DEC"
        /\ Returns("SUCCESS") /\ Asks("feed")
     \/ /\ CallsFail
        /\ \E s \in SUBSET Frame : s # Frame /\ codecSet' = s
        /\ known' = {} /\ UNCHANGED <<seq, state>>
        /\ Returns("INVALID_PARAM") /\ Asks("reopen")
  /\ UNCHANGED <<open, inVars, slot, sized, pending, flushing, ended, held, turn, ghostVars>>

VPU_DecGetOutputFrame ==
  /\ Asked("fetch")
  /\ \/ /\ state = "OUTOK"
        /\ state' = "DEC" /\ held' = held \cup {slot}
        /\ Returns("SUCCESS") /\ Asks("feed")
     \/ /\ state # "OUTOK"
        /\ Returns("WRONG_CALL_SEQUENCE") /\ UNCHANGED <<state, held, duty>>
  /\ UNCHANGED <<open, inVars, slot, infoVars, codecVars, turn, ghostVars>>

\* VPU_DecGetConsumedFrameInfo hands over the account and clears it.
VPU_DecGetConsumedFrameInfo ==
  /\ Asked("feed")
  /\ ret.flags \cap {"ONE_FRM_CONSUMED", "NO_ENOUGH_INBUF"} # {} \/ ~Obedient
  /\ consumed' = 0 /\ given' = given - consumed
  /\ Returns("SUCCESS")
  /\ UNCHANGED <<open, eosing, nBsBufLen, seqHeader, later, slotVars, infoVars, codecVars, held,
                 duty, turn, stream, node>>

VPU_DecOutFrameDisplayed(f) ==
  /\ f \in held
  /\ held' = held \ {f} /\ out' = out \ {f}
  /\ Returns("SUCCESS")
  /\ UNCHANGED <<open, inVars, slotVars, infoVars, seq, codecSet, pending, flushing, ended, duty,
                 turn, ghostVars>>

\* The codec gives up the frames and the data it has.
Abort == pending' = {} /\ flushing' = FALSE /\ ended' = FALSE /\ UNCHANGED <<seq, codecSet>>

\* What is still out after a flush.
FlushedOut_Kept == out \cup (pending \cap known)
FlushedOut_All == {}
FlushedOut == out

\* Every frame the codec will give is taken and given back at once; the last one stays in the
\* slot, which the state EOS closes.  bConsumeInputLater is left as it is.
VPU_DecFlushAll ==
  /\ Asked("feed")
  /\ slot' \in {slot} \cup (pending \cap known)
  /\ out' = FlushedOut
  /\ Abort
  /\ nBsBufLen' = 0 /\ consumed' = 0 /\ eosing' = FALSE
  /\ state' = "EOS"
  /\ Returns("SUCCESS")
  /\ stream' = "more" /\ given' = 0
  /\ node' = IF node = "put" THEN "new" ELSE node
  /\ UNCHANGED <<open, seqHeader, later, infoVars, held, duty, turn>>

\* VPU_DecReset aborts the codec, and leaves the wrapper's own state.
VPU_DecReset ==
  /\ Asked("reopen")
  /\ Abort
  /\ Returns("SUCCESS")
  /\ UNCHANGED <<open, inVars, slotVars, infoVars, out, held, duty, turn, ghostVars>>

\* VPU_DecOpen zeroes the object; the open parameters stay.
Opens == {o \in [fmt : Formats, secure : SecureModes, tile : TileModes, noreorder : ReorderOff] :
            o.tile => o.fmt \in TiledFormats}

Init ==
  /\ open \in Opens
  /\ state = "OPEN" /\ slot = NoFrame /\ sized = FALSE /\ known = {}
  /\ eosing = FALSE /\ nBsBufLen = 0 /\ seqHeader = FALSE /\ consumed = 0 /\ later = FALSE
  /\ seq = "none" /\ codecSet = {} /\ pending = {} /\ out = {}
  /\ flushing = FALSE /\ ended = FALSE
  /\ held = {} /\ duty = "feed" /\ ret = [code |-> "SUCCESS", flags |-> {}]
  /\ turn = FALSE /\ stream = "more" /\ node = "new" /\ given = 0

\* VPU_DecClose and VPU_DecOpen, when something failed or the application wants another stream.
Reopen ==
  /\ duty = "reopen" \/ ~Obedient \/ "EOS" \in ret.flags
  /\ open' \in Opens
  /\ state' = "OPEN" /\ slot' = NoFrame /\ sized' = FALSE /\ known' = {}
  /\ eosing' = FALSE /\ nBsBufLen' = 0 /\ seqHeader' = FALSE /\ consumed' = 0 /\ later' = FALSE
  /\ seq' = "none" /\ codecSet' = {} /\ pending' = {} /\ out' = {}
  /\ flushing' = FALSE /\ ended' = FALSE
  /\ held' = {} /\ duty' = "feed" /\ Returns("SUCCESS")
  /\ turn' = FALSE /\ stream' = "more" /\ node' = "new" /\ given' = 0

Next ==
  \/ \E in \in Nodes : VPU_DecDecodeBuf(in)
  \/ VPU_DecConfig
  \/ VPU_DecGetInitialInfo
  \/ VPU_DecRegisterFrameBuffer
  \/ VPU_DecGetOutputFrame
  \/ VPU_DecGetConsumedFrameInfo
  \/ \E f \in Frame : VPU_DecOutFrameDisplayed(f)
  \/ VPU_DecFlushAll
  \/ VPU_DecReset
  \/ Reopen

Spec == Init /\ [][Next]_vars

\* An application at the end of its stream keeps calling until it is told EOS, does what the
\* return codes ask for, and gives back the frames it has shown.
Fairness ==
  /\ WF_vars(stream = "end" /\ VPU_DecDecodeBuf(Eos))
  /\ WF_vars(VPU_DecGetInitialInfo)
  /\ WF_vars(VPU_DecRegisterFrameBuffer)
  /\ WF_vars(VPU_DecGetOutputFrame)
  /\ WF_vars(\E f \in Frame : VPU_DecOutFrameDisplayed(f))

FairSpec == Spec /\ Fairness

-----------------------------------------------------------------------------
(* Properties. *)

\* The frame offered by DIS and not yet fetched.
Ready == IF state = "OUTOK" THEN {slot} ELSE {}

\* The codec may not write a frame that is offered to the application or held by it.
HeldProtected == Free \cap (held \cup Ready) = {}

\* Every frame the codec has handed out is where the application will find it: in the output
\* slot or in its hands.  A frame that is neither is never given back, and is lost to the codec.
OutMeansOwned == out = held \cup Ready

\* The bytes reported as consumed, with those still in the buffer, come to the bytes put in for
\* the application (vpu_wrapper_hantro.c:190: "it should match with the input data size") when data
\* is copied; for VC1_AP, whose frame headers are counted, never to fewer.  (A node counts as given
\* what it amounts to in the buffer: an AVCC frame may grow when it is rewritten.)
InputAccounted ==
  ~open.secure => /\ given <= consumed + nBsBufLen
                  /\ open.fmt # "VC1_AP" => given = consumed + nBsBufLen

\* A codec that has complete units to decode and waits for frame buffers has told the
\* application so.
WaitingIsTold ==
  WholeUnits /\ seq = "info" /\ nBsBufLen > 0 => duty \in {"getinfo", "register", "reopen"}

\* At EOS nothing taken from the application is undecoded and no decoded frame is unshown, even if
\* data came after the end of the stream.
EosComplete ==
  "EOS" \in ret.flags => nBsBufLen = 0 /\ pending = {}

\* A secure node is decoded where the application put it, so it must not be acknowledged before
\* it has been decoded: the application would overwrite it (decode_stream.c:1220).
SecureInputKept == open.secure /\ nBsBufLen > 0 => node # "new"

\* Once the application is at its end it gets to EOS, or starts anew by itself.
EndReached == (stream = "end") ~> ("EOS" \in ret.flags \/ stream = "more")

Owner == [f \in Frame |-> IF f \in held THEN "user" ELSE IF f \in Ready THEN "ready" ELSE "vpu"]

Ownership == INSTANCE FrameOwnership WITH owner <- Owner, writable <- Free

\* The decoder keeps the frame ownership protocol, as the i.MX6 decoder does.
ImplementsOwnership == Ownership!Spec

=============================================================================
