------------------------------ MODULE DecInput ------------------------------
(* What an i.MX6 decoder instance (vpu_wrapper.c, stream mode) does with its  *)
(* input: the ring and its inserted headers, the account of consumed bytes    *)
(* that tells the application where frames end, the backup from which a new   *)
(* resolution is started, and the filter that masks pictures until a key      *)
(* picture is shown.  The formats are those with nDecFrameRptEnabled and      *)
(* nDecResolutionChangeEnabled.  Frame buffers and return codes are VpuDec's. *)
EXTENDS BsRing

CONSTANTS
  Sizes,        \* bytes of one input node
  Schemes,      \* headers: none; config (codec data, once); vp8 (sequence and frame headers)
  HeaderLen,    \* bytes of the codec data, or of the VP8 sequence header
  FrmLen,       \* bytes of a VP8 frame header
  MinInit,      \* VPU_MIN_INIT_SIZE
  InitUnit,     \* VPU_INIT_UNIT_SIZE
  MinUint,      \* VPU_MIN_UINT_SIZE
  Delay,        \* streamBufDelaySize
  MaxDropB,     \* MAX_DROPB_CNT
  MaxConsumed,  \* MAX_CONSUMED_BYTES
  Resizes       \* whether the stream may change its resolution

ASSUME InputAssumption ==
  /\ Sizes \subseteq Nat \ {0} /\ Schemes \subseteq {"none", "config", "vp8"}
  /\ {HeaderLen, FrmLen, MaxDropB} \subseteq Nat \ {0}
  /\ {MinInit, InitUnit, MinUint, Delay, MaxConsumed} \subseteq Nat
  /\ Resizes \in BOOLEAN

VARIABLES
  state,       \* VpuDecObj.state; DEC stands for STARTFRAMEOK too, INITOK for REGFRMOK
  open,        \* how headers are inserted, and initInfo.nInterlace
  bits,        \* the ring and the account of its bytes, see Bits
  gop,         \* refCnt, dropBCnt, keyCnt
  mosaic,      \* the picture in the output slot is to be shown as mosaic
  keyShown     \* a key picture was put out since the last open, flush or resolution change

vars == <<state, open, bits, gop, mosaic, keyShown>>

States == {"OPEN", "INITOK", "DEC", "OUTOK", "EOS", "CORRUPT"}

Bits ==
  [rd       : Position,   \* read pointer of the VPU
   used     : 0..R-1,     \* bytes from there to the write pointer; R would be an empty ring
   filledEOS : BOOLEAN,
   inserted : BOOLEAN,    \* nPrivateSeqHeaderInserted
   lastEnd  : 0..R,       \* nLastFrameEndPosPhy
   consumed : Int,        \* nAccumulatedConsumedStufferBytes + ...FrmBytes
   seqBytes : Nat,        \* nAdditionalSeqBytes
   frmBytes : Nat,        \* nAdditionalFrmHeaderBytes
   past     : Nat,        \* bytes the VPU has read since the last frame reported
   owed     : Int,        \* bytes the application gave and has not been told of
   spoilt   : BOOLEAN]    \* a call the account was not made for has been made

TypeOK ==
  /\ state \in States
  /\ open \in [scheme : Schemes, interlaced : BOOLEAN]
  /\ bits \in Bits
  /\ gop \in [ref : BOOLEAN, dropB : 0..MaxDropB-1, key : BOOLEAN]
  /\ mosaic \in BOOLEAN /\ keyShown \in BOOLEAN

Null  == [ptr |-> FALSE, size |-> 0]
Eos   == [ptr |-> TRUE, size |-> 0]
Nodes == {Null, Eos} \cup {[ptr |-> TRUE, size |-> n] : n \in Sizes}

-----------------------------------------------------------------------------
(* The ring and the account. *)

Space(q)      == R - 1 - q.used
Unreported(q) == q.past + q.used
WritePos(q)   == After(q.rd, q.used)

\* A frame whose end is a whole ring away cannot be told from one right here.
Settle(q) ==
  IF q.spoilt \/ Unreported(q) > R - 1
  THEN [q EXCEPT !.spoilt = TRUE, !.past = 0, !.owed = 0] ELSE q

Opened ==
  [rd |-> 0, used |-> 0, filledEOS |-> FALSE, inserted |-> FALSE, lastEnd |-> R,
   consumed |-> 0, seqBytes |-> 0, frmBytes |-> 0, past |-> 0, owed |-> 0, spoilt |-> FALSE]

\* The bits are flushed and the account begins anew (VpuDecClearOperationEOStoDEC, and the end
\* of VPU_DecFlushAll).  Headers flushed before their frame was reported stay to be taken off.
Anew_KeepEnd(q) ==
  [q EXCEPT !.rd = 0, !.used = 0, !.consumed = 0, !.past = 0, !.owed = 0,
            !.spoilt = (q.seqBytes # 0)]
Anew(q) ==
  [q EXCEPT !.rd = 0, !.used = 0, !.lastEnd = R, !.consumed = 0, !.past = 0, !.owed = 0,
            !.spoilt = (q.seqBytes # 0)]

\* VpuFillData, of h header bytes and of a node; an end-of-stream mark is sent once.
FilledEOS(q, h, in) ==
  in = Eos \/ (q.filledEOS /\ h + in.size = 0)

\* VpuAccumulateConsumedBytes of types 0 and 1: the first size told is the one kept.
Noted(kept, n) == IF kept = 0 THEN n ELSE kept

Fill(q, h, in) ==
  Settle([q EXCEPT !.used = @ + h + in.size, !.owed = @ + in.size,
                   !.filledEOS = FilledEOS(q, h, in)])

\* The VPU reads on without a frame being reported.
Read(q, k) == Settle([q EXCEPT !.rd = After(@, k), !.used = @ - k, !.past = @ + k])

\* VpuAccumulateConsumedBytes of type 2: stuffing up to the frame, less the headers inserted
\* before the first one, and the frame less its own header.  A total that nobody fetches is
\* cleared at MAX_CONSUMED_BYTES.
Total_KeepSeq(q, start, len) == q.consumed + Gap(q.lastEnd, start) + len - q.frmBytes
Total(q, start, len) == q.consumed + Gap(q.lastEnd, start) - q.seqBytes + len - q.frmBytes

\* The frame lies from a to b bytes after the last one's end, and the VPU has read up to c.
\* A frame that ends with the ring ends at its end or at its start.
FrameStart(q, a) == After(Before(q.rd, q.past), a)
FrameEnds(q, b)  == LET e == FrameStart(q, b) IN IF e = 0 THEN {0, R} ELSE {e}

Frames(q) ==
  {f \in [a : 0..Unreported(q), b : 1..Unreported(q), c : q.past..Unreported(q)] :
     f.a < f.b /\ f.b <= f.c}

Report(q, f, e) ==
  LET total == Total(q, FrameStart(q, f.a), f.b - f.a)
      over  == total > MaxConsumed
  IN Settle([q EXCEPT !.rd = FrameStart(q, f.c), !.used = Unreported(q) - f.c,
                      !.past = f.c - f.b, !.lastEnd = e, !.seqBytes = 0,
                      !.consumed = IF over THEN 0 ELSE total,
                      !.owed = IF over THEN Unreported(q) - f.b ELSE @])

-----------------------------------------------------------------------------
(* The unclosed-GOP filter.  P pictures and those of unknown type are REF, BI and skipped      *)
(* pictures OTHER; MIN_REF_CNT and MIN_KEY_CNT are 1.                                           *)

Kinds == {"KEY", "REF", "B", "OTHER"}

NoGop == [ref |-> FALSE, dropB |-> 0, key |-> FALSE]

IsKey(kind) == kind = "KEY" \/ (open.interlaced /\ kind = "REF")

RefAfter(kind) == gop.ref \/ kind \in {"KEY", "REF"}

\* B pictures are dropped until a reference picture, but only MAX_DROPB_CNT of them.
DropsB(kind) == kind = "B" /\ ~RefAfter(kind)
LastDropB    == gop.dropB + 1 >= MaxDropB

Masked_OnlyB(kind) == DropsB(kind)
Masked(kind) == DropsB(kind) \/ (kind # "KEY" /\ ~gop.key /\ ~IsKey(kind))

Filter(kind) ==
  [ref   |-> RefAfter(kind) \/ (DropsB(kind) /\ LastDropB),
   dropB |-> IF ~DropsB(kind) THEN gop.dropB ELSE IF LastDropB THEN 0 ELSE gop.dropB + 1,
   key   |-> gop.key \/ IsKey(kind)]

-----------------------------------------------------------------------------
(* Opening, and VpuSeqInit. *)

Init ==
  /\ state = "OPEN" /\ open \in [scheme : Schemes, interlaced : {FALSE}]
  /\ bits = Opened /\ gop = NoGop /\ mosaic = FALSE /\ keyShown = FALSE

\* VPU_DecClose and VPU_DecOpen.
Reopen ==
  /\ state' = "OPEN" /\ open' \in [scheme : Schemes, interlaced : {FALSE}]
  /\ bits' = Opened /\ gop' = NoGop /\ mosaic' = FALSE /\ keyShown' = FALSE

\* Codec data, or the VP8 sequence header with the first frame's, goes before the first node.
InitHeader(in) ==
  IF open.scheme = "config" /\ ~bits.inserted THEN HeaderLen
  ELSE IF open.scheme = "vp8" /\ in.size > 0
       THEN (IF bits.inserted THEN 0 ELSE HeaderLen) + FrmLen
  ELSE 0

NoteInit(q, h) ==
  IF h = 0 THEN q
  ELSE IF q.inserted THEN [q EXCEPT !.frmBytes = Noted(@, h)]
  ELSE [q EXCEPT !.seqBytes = Noted(@, h), !.inserted = TRUE]

\* A full ring whose write pointer is low is taken for the VPU having read too far: the node is
\* written all the same, over bytes the VPU has not read, and the library refuses the update.
LooksOverread == Space(bits) < InitUnit /\ WritePos(bits) < R \div 2

FillInit(h, in) ==
  IF h + in.size <= Space(bits) THEN NoteInit(Fill(bits, h, in), h)
  ELSE NoteInit([bits EXCEPT !.spoilt = TRUE, !.past = 0, !.owed = 0,
                             !.filledEOS = FilledEOS(bits, h, in)], h)

\* vpu_DecGetInitialInfo succeeded: the header is behind, and counts as stuffing.
InfoFound(q, k) ==
  LET p == Read(q, k)
  IN [p EXCEPT !.lastEnd = p.rd, !.consumed = @ + p.rd, !.past = 0]

EnoughInit(q) == q.used + 1 >= MinInit

VpuSeqInit(in) ==
  LET h == InitHeader(in)
      q == FillInit(h, in)
  IN /\ state = "OPEN"
     /\ h + in.size <= Space(bits) \/ LooksOverread
     /\ \/ ~EnoughInit(q) /\ bits' = q /\ UNCHANGED <<state, open>>
        \/ /\ EnoughInit(q)
           /\ \E k \in 0..q.used : bits' = Read(q, k)
           /\ UNCHANGED <<state, open>>
        \/ /\ EnoughInit(q)
           /\ \E k \in 0..q.used : bits' = InfoFound(q, k)
           /\ state' = "INITOK"
           /\ \E i \in BOOLEAN : open' = [open EXCEPT !.interlaced = i]
     /\ UNCHANGED <<gop, mosaic, keyShown>>

\* VPU_DecGetInitialInfo and VPU_DecRegisterFrameBuffer.
Register ==
  /\ state = "INITOK" /\ state' = "DEC"
  /\ UNCHANGED <<open, bits, gop, mosaic, keyShown>>

-----------------------------------------------------------------------------
(* VpuDecBuf. *)

FrameHeader(in) ==
  IF open.scheme = "vp8" /\ bits.inserted /\ in.size > 0 THEN FrmLen ELSE 0

\* The node goes into the ring with its frame header, if both find room.
Taken_Full(q, in) ==
  LET h == FrameHeader(in)
  IN IF h + in.size > Space(q) + 1 THEN q ELSE Fill(q, h, in)
Taken(q, in) ==
  LET h == FrameHeader(in)
  IN IF h + in.size > Space(q) THEN q
     ELSE IF h = 0 THEN Fill(q, h, in)
     ELSE [Fill(q, h, in) EXCEPT !.frmBytes = Noted(@, h)]

TooLittle(q, in) ==
  \/ q.used + 1 < MinUint /\ ~q.filledEOS
  \/ q.used + 1 < Delay /\ in.size # 0

ShowsNothing == state' = "DEC" /\ UNCHANGED <<gop, mosaic, keyShown>>

\* An output picture passes the filter; one the application still holds or had last is REPEAT,
\* masked or not, and is not fetched.
Shows(kind) ==
  /\ gop' = Filter(kind)
  /\ keyShown' = (keyShown \/ IsKey(kind))
  /\ mosaic' = Masked(kind)
  /\ state' \in {"OUTOK", "DEC"}

Output == ShowsNothing \/ \E kind \in Kinds : Shows(kind)

\* VpuResolutionChangeProcess: what was not reported is saved, the VPU closed and opened, and
\* started with the saved bytes (and a VP8 sequence header) as raw data.
Backup(q) == Gap(q.lastEnd, WritePos(q))

BackupLen(q) == Backup(q) + (IF open.scheme = "vp8" THEN HeaderLen ELSE 0)

Restarted(q) ==
  [Opened EXCEPT !.used = BackupLen(q), !.inserted = q.inserted,
                 !.owed = IF q.spoilt THEN BackupLen(q) ELSE Unreported(q)]

ResetGop == gop' = NoGop /\ mosaic' = FALSE /\ keyShown' = FALSE

ChangeResolution(q) ==
  \/ BackupLen(q) = 0 /\ bits' = q /\ Output /\ UNCHANGED open
  \/ /\ BackupLen(q) \in 1..R-1 /\ EnoughInit(Restarted(q))
     /\ \E k \in 0..BackupLen(q) : bits' = InfoFound(Restarted(q), k)
     /\ \E i \in BOOLEAN : open' = [open EXCEPT !.interlaced = i]
     /\ state' = "INITOK" /\ ResetGop
  \/ /\ BackupLen(q) > 0
     /\ bits' = [Opened EXCEPT !.inserted = q.inserted]
     /\ state' = "CORRUPT" /\ ResetGop /\ UNCHANGED open

\* Rollback, a full set of frames, a picture not decoded: nothing is reported, and the picture's
\* bytes wait for the next report.
Unseen(q) ==
  /\ \E k \in 0..q.used : bits' = Read(q, k)
  /\ Output \/ (state' = "EOS" /\ UNCHANGED <<gop, mosaic, keyShown>>)
  /\ UNCHANGED open

\* A picture decoded, or passed over in skip mode.
Seen(q) ==
  /\ \E f \in Frames(q) : \E e \in FrameEnds(q, f.b) : bits' = Report(q, f, e)
  /\ Output /\ UNCHANGED open

\* The picture has another size, or the VPU says that the next one has: nothing is reported.
Resized(q) == Resizes /\ \E k \in 0..q.used : ChangeResolution(Read(q, k))

TimesOut(q) == bits' = q /\ state' = "CORRUPT" /\ UNCHANGED <<open, gop, mosaic, keyShown>>

VpuDecBuf(q, in) ==
  \/ TooLittle(q, in) /\ bits' = q /\ ShowsNothing /\ UNCHANGED open
  \/ ~TooLittle(q, in) /\ (Unseen(q) \/ Seen(q) \/ Resized(q) \/ TimesOut(q))

\* Data or an end-of-stream node begins anew after EOS.  In the other states the call is refused.
VPU_DecDecodeBuf(in) ==
  \/ VpuSeqInit(in)
  \/ state = "DEC" /\ VpuDecBuf(Taken(bits, in), in)
  \/ state = "EOS" /\ in # Null /\ VpuDecBuf(Taken(Anew(bits), in), in)

-----------------------------------------------------------------------------
(* The other calls. *)

VPU_DecGetOutputFrame ==
  /\ state = "OUTOK" /\ state' = "DEC"
  /\ UNCHANGED <<open, bits, gop, mosaic, keyShown>>

VPU_DecGetConsumedFrameInfo ==
  /\ bits' = [bits EXCEPT !.consumed = 0, !.owed = IF bits.spoilt THEN 0 ELSE @ - bits.consumed]
  /\ UNCHANGED <<state, open, gop, mosaic, keyShown>>

\* Before frames are registered only the bits are flushed: the account goes on, from where the
\* VPU stood in bits that are gone.
FlushEarly ==
  /\ state \in {"OPEN", "INITOK"}
  /\ bits' = [bits EXCEPT !.rd = 0, !.used = 0, !.past = 0, !.owed = 0,
                          !.spoilt = @ \/ state = "INITOK" \/ bits.seqBytes # 0]
  /\ UNCHANGED <<state, open, gop, mosaic, keyShown>>

FlushLate ==
  /\ state \in {"DEC", "EOS"}
  /\ bits' = Anew(bits) /\ state' = "EOS" /\ ResetGop
  /\ UNCHANGED open

VPU_DecFlushAll == FlushEarly \/ FlushLate

Next ==
  \/ \E in \in Nodes : VPU_DecDecodeBuf(in)
  \/ Register
  \/ VPU_DecGetOutputFrame
  \/ VPU_DecGetConsumedFrameInfo
  \/ VPU_DecFlushAll
  \/ Reopen

Spec == Init /\ [][Next]_vars

-----------------------------------------------------------------------------
(* Properties. *)

\* The bytes told to the application, those it is still to be told and those of headers cancel
\* out against what it gave: through wraps, stuffing, skipped and unreported pictures, resolution
\* changes, an end of stream and flushes, no byte is counted twice or lost.  (Not for VP8, see
\* AllBytesTold.)
Ledger ==
  open.scheme # "vp8" /\ ~bits.spoilt =>
    bits.consumed - bits.seqBytes = bits.owed - Unreported(bits)

\* "it should match with the input data size" (vpu_wrapper.c:461): once every byte given lies in
\* a frame that was reported, the total told is not short of what was given.
AllBytesTold ==
  Unreported(bits) = 0 /\ bits.seqBytes = 0 /\ ~bits.spoilt => bits.consumed >= bits.owed

\* What a resolution change would save is what the VPU has not reported: no picture is lost and
\* none decoded twice, wherever in the ring the last frame ended.
BackupIsUnreported ==
  ~bits.spoilt => Gap(bits.lastEnd, WritePos(bits)) = Unreported(bits)

\* Until a key picture (of an interlaced stream, a reference picture) is put out, and not after,
\* pictures are shown as mosaic.  The bound on dropped B pictures ("avoid freeze for closed gop",
\* vpu_wrapper.c:151) never shows one: while B pictures are dropped no key picture was seen.
MosaicUntilKey == state = "OUTOK" => (mosaic <=> ~keyShown)

=============================================================================
