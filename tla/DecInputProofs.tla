--------------------------- MODULE DecInputProofs ---------------------------
(* Proofs about BsRing and DecInput: what is filled into the ring is copied    *)
(* out again, the gap between two positions is the number of bytes that lie    *)
(* between them, and with it the invariants of the account of consumed bytes   *)
(* and of the filter.                                                          *)
EXTENDS DecInput, TLAPS

-----------------------------------------------------------------------------
(* The ring. *)

\* Moving on by n bytes stays in the ring.
LEMMA AfterType ==
  ASSUME NEW p \in Position, NEW n \in 0..R
  PROVE  After(p, n) \in Position
  BY RingAssumption, SMT DEF After, Position

\* Moving back stays in the ring.
LEMMA BeforeType ==
  ASSUME NEW p \in Position, NEW n \in 0..R
  PROVE  Before(p, n) \in Position
  BY RingAssumption, SMT DEF Before, Position

\* Two moves are one.
LEMMA AfterAfter ==
  ASSUME NEW p \in Position, NEW m \in Nat, NEW n \in Nat, m + n <= R - 1
  PROVE  After(After(p, m), n) = After(p, m + n)
  BY RingAssumption, SMT DEF After, Position

\* Moving on and back returns.
LEMMA BeforeAfter ==
  ASSUME NEW p \in Position, NEW n \in 0..R-1
  PROVE  Before(After(p, n), n) = p
  BY RingAssumption, SMT DEF After, Before, Position

\* Where a frame's end lies when the end of the ring is its start.
Origin(last) == IF last = R THEN 0 ELSE last

\* It is a position.
LEMMA OriginType ==
  ASSUME NEW l \in 0..R
  PROVE  Origin(l) \in Position
  BY RingAssumption, SMT DEF Origin, Position

\* VpuComputeValidSizeInRingBuf as VpuAccumulateConsumedBytes uses it: the bytes between two
\* positions less than a ring apart, over the wrap or not, also when the last frame ends one past
\* the end.
THEOREM GapIsDistance ==
  ASSUME NEW last \in 0..R, NEW n \in 0..R-1
  PROVE  Gap(last, After(Origin(last), n)) = n
  BY RingAssumption, SMT DEF Gap, ValidSize, After, Origin

\* Where the i-th byte read lies: in the segment it was put in.
LEMMA WherePut ==
  ASSUME NEW wr \in 0..R-1, NEW n \in Nat, n <= R - 1, NEW i \in 1..n
  PROVE  LET end   == After(wr, n)
             first == IF R < wr + n THEN R - wr ELSE n
             at    == IF wr <= end \/ i <= R - wr THEN wr + i - 1 ELSE i - 1 - (R - wr)
         IN \/ wr <= at /\ at < wr + first /\ at - wr + 1 = i
            \/ ~(wr <= at /\ at < wr + first) /\ at < n - first /\ first + at + 1 = i
<1>1. CASE wr + n < R
  BY <1>1, RingAssumption, SMT DEF After
<1>2. CASE wr + n = R
  BY <1>2, RingAssumption, SMT DEF After
<1>3. CASE wr + n > R /\ i <= R - wr
  BY <1>3, RingAssumption, SMT DEF After
<1>4. CASE wr + n > R /\ i > R - wr
  BY <1>4, RingAssumption, SMT DEF After
<1> QED BY RingAssumption, <1>1, <1>2, <1>3, <1>4, SMT

\* VpuFillData and VpuCopyValidSizeInRingBuf, both in one segment or two: the bytes a resolution
\* change saves are those that were filled in, in their order.
THEOREM CopyGivesBackFill ==
  ASSUME NEW ring, NEW wr \in Position, NEW data \in Seq(Int), Len(data) \in 0..R-1
  PROVE  Copied(Written(ring, wr, data), wr, After(wr, Len(data))) = data
<1> DEFINE n == Len(data)
           first == IF R < wr + n THEN R - wr ELSE n
           end == After(wr, n)
           filled == Written(ring, wr, data)
<1>1. n \in Nat /\ n <= R - 1 /\ wr \in 0..R-1 /\ R \in Nat
  BY RingAssumption DEF Position
<1>2. ValidSize(wr, end) - 1 = n
  BY <1>1, SMT DEF ValidSize, After
<1>3. ASSUME NEW i \in 1..n
      PROVE  filled[IF wr <= end \/ i <= R - wr THEN wr + i - 1 ELSE i - 1 - (R - wr)] = data[i]
  <2> DEFINE at == IF wr <= end \/ i <= R - wr THEN wr + i - 1 ELSE i - 1 - (R - wr)
  <2>1. at \in Position
    BY <1>1, SMT DEF After, Position
  <2>2. filled[at] = IF wr <= at /\ at < wr + first THEN data[at - wr + 1]
                     ELSE IF at < n - first THEN data[first + at + 1] ELSE ring[at]
    BY <2>1 DEF Written
  <2>3. CASE wr <= at /\ at < wr + first /\ at - wr + 1 = i
    BY <2>2, <2>3
  <2>4. CASE ~(wr <= at /\ at < wr + first) /\ at < n - first /\ first + at + 1 = i
    BY <2>2, <2>4
  <2>5. \/ wr <= at /\ at < wr + first /\ at - wr + 1 = i
        \/ ~(wr <= at /\ at < wr + first) /\ at < n - first /\ first + at + 1 = i
    <3> HIDE DEF n
    <3> QED BY <1>1, WherePut
  <2> QED BY <2>3, <2>4, <2>5
<1>4. Copied(filled, wr, end) = [i \in 1..n |-> data[i]]
  <2> HIDE DEF n, end, filled
  <2> QED BY <1>2, <1>3 DEF Copied
<1>5. data = [i \in 1..n |-> data[i]]
  OBVIOUS
<1> QED BY <1>4, <1>5

-----------------------------------------------------------------------------
(* The account. *)

\* Where the VPU stands: as far past the end of the last frame as it has read since.
Sound(q) ==
  /\ q \in Bits
  /\ q.past + q.used <= R - 1
  /\ ~q.spoilt => q.rd = After(Origin(q.lastEnd), q.past)

\* What is told, to be told and inserted adds up; only VP8 inserts a header per frame.
Balanced(q) == ~q.spoilt => q.consumed - q.seqBytes = q.owed - (q.past + q.used)

Kept(q, scheme) ==
  /\ ~q.inserted => q.seqBytes = 0
  /\ scheme # "vp8" => q.frmBytes = 0 /\ Balanced(q)

\* Nothing is reported before the sequence header was found.
Fresh(q) == q.lastEnd = R /\ q.consumed = 0

\* What is compared of two records when an operation leaves the rest of the account alone.
SameAccount(r, q) ==
  /\ r.lastEnd = q.lastEnd /\ r.inserted = q.inserted /\ r.consumed = q.consumed
  /\ r.seqBytes = q.seqBytes /\ r.frmBytes = q.frmBytes

\* The account of an instance just opened holds.
LEMMA OpenedIsSound ==
  ASSUME NEW i \in BOOLEAN, NEW scheme, NEW q, q = [Opened EXCEPT !.inserted = i]
  PROVE  Sound(q) /\ Kept(q, scheme) /\ Fresh(q)
<1>1. 0 \in 0..R-1 /\ R \in 0..R /\ 0 \in Int /\ 0 \in Nat /\ FALSE \in BOOLEAN
  BY RingAssumption, SMT
<1>a. Opened \in Bits
  BY <1>1, Zenon DEF Opened, Bits, Position
<1>b. q \in Bits
  BY <1>a, Zenon DEF Bits
<1>2. /\ q.rd = 0 /\ q.used = 0 /\ q.lastEnd = R /\ q.consumed = 0 /\ q.seqBytes = 0
      /\ q.frmBytes = 0 /\ q.past = 0 /\ q.owed = 0
  BY DEF Opened
<1>3. After(Origin(R), 0) = 0
  BY RingAssumption, SMT DEF After, Origin
<1> QED BY <1>b, <1>2, <1>3, RingAssumption, SMT DEF Sound, Kept, Balanced, Fresh

\* Settle gives up an account with a whole ring unreported, and changes no other.
LEMMA Settled ==
  ASSUME NEW q \in Bits
  PROVE  /\ Settle(q) \in Bits
         /\ Settle(q).past + Settle(q).used <= R - 1
         /\ SameAccount(Settle(q), q) /\ Settle(q).rd = q.rd /\ Settle(q).used = q.used
         /\ ~Settle(q).spoilt => ~q.spoilt /\ Settle(q).past = q.past /\ Settle(q).owed = q.owed
<1>1. CASE q.spoilt \/ Unreported(q) > R - 1
  <2> DEFINE r == [q EXCEPT !.spoilt = TRUE, !.past = 0, !.owed = 0]
  <2>1. Settle(q) = r
    BY <1>1 DEF Settle
  <2>2. r.past = 0 /\ r.spoilt /\ r.rd = q.rd /\ r.used = q.used /\ SameAccount(r, q)
    BY DEF Bits, SameAccount
  <2>4. r \in Bits
    <3>1. 0 \in Nat /\ 0 \in Int /\ TRUE \in BOOLEAN
      BY SMT
    <3> QED BY <3>1, Zenon DEF Bits
  <2>3. r.past + r.used <= R - 1
    <3> HIDE DEF r
    <3> QED BY <2>2, <2>4, RingAssumption, SMT DEF Bits
  <2> QED BY <2>1, <2>2, <2>3, <2>4
<1>2. CASE ~(q.spoilt \/ Unreported(q) > R - 1)
  <2>1. Settle(q) = q
    BY <1>2 DEF Settle
  <2>2. q.past + q.used <= R - 1
    BY <1>2, RingAssumption, SMT DEF Bits, Unreported
  <2> QED BY <2>1, <2>2 DEF SameAccount
<1> QED BY <1>1, <1>2

\* The VPU reading on.
LEMMA ReadIsSound ==
  ASSUME NEW q, NEW k \in 0..q.used, NEW scheme, Sound(q), Kept(q, scheme)
  PROVE  /\ Sound(Read(q, k)) /\ Kept(Read(q, k), scheme)
         /\ Fresh(q) => Fresh(Read(q, k))
         /\ ~Read(q, k).spoilt => ~q.spoilt /\ Unreported(Read(q, k)) = Unreported(q)
         /\ Read(q, k).inserted = q.inserted
<1> DEFINE e == [q EXCEPT !.rd = After(@, k), !.used = @ - k, !.past = @ + k]
           r == Read(q, k)
<1>1. /\ After(q.rd, k) \in Position /\ q.used - k \in 0..R-1 /\ q.past + k \in Nat
      /\ q.past \in Nat /\ q.used \in 0..R-1 /\ k \in Nat /\ q \in Bits
  BY AfterType, RingAssumption, SMT DEF Sound, Bits
<1>2. e \in Bits /\ e.rd = After(q.rd, k) /\ e.used = q.used - k /\ e.past = q.past + k
      /\ SameAccount(e, q) /\ e.owed = q.owed /\ e.spoilt = q.spoilt
  BY <1>1 DEF Bits, SameAccount
<1>3. r = Settle(e)
  BY DEF Read
<1>4. ~q.spoilt => After(q.rd, k) = After(Origin(q.lastEnd), q.past + k)
  BY <1>1, OriginType, AfterAfter, RingAssumption, SMT DEF Sound, Bits
<1> HIDE DEF e, r
<1>5. /\ r \in Bits /\ r.past + r.used <= R - 1 /\ SameAccount(r, q)
      /\ r.rd = After(q.rd, k) /\ r.used = q.used - k
      /\ ~r.spoilt => ~q.spoilt /\ r.past = q.past + k /\ r.owed = q.owed
  BY <1>2, <1>3, Settled DEF SameAccount
<1>6. Sound(r)
  BY <1>4, <1>5 DEF Sound, SameAccount
<1>7. ~r.spoilt => r.past + r.used = q.past + q.used
  BY <1>1, <1>5, SMT
<1>8. Kept(r, scheme)
  BY <1>5, <1>7 DEF Kept, Balanced, SameAccount
<1> QED BY <1>5, <1>6, <1>7, <1>8 DEF Fresh, SameAccount, r, Unreported

\* Filling in what finds room.
LEMMA FillIsSound ==
  ASSUME NEW q, NEW h \in Nat, NEW in \in Nodes, NEW scheme, Sound(q), Kept(q, scheme),
         h + in.size <= Space(q), in.size \in Nat
  PROVE  /\ Sound(Fill(q, h, in)) /\ SameAccount(Fill(q, h, in), q)
         /\ Fresh(q) => Fresh(Fill(q, h, in))
         /\ ~Fill(q, h, in).spoilt /\ scheme # "vp8" =>
              Fill(q, h, in).consumed - Fill(q, h, in).seqBytes
                = Fill(q, h, in).owed + h - (Fill(q, h, in).past + Fill(q, h, in).used)
<1> DEFINE e == [q EXCEPT !.used = @ + h + in.size, !.owed = @ + in.size,
                          !.filledEOS = FilledEOS(q, h, in)]
           r == Fill(q, h, in)
<1>1. /\ q.used + h + in.size \in 0..R-1 /\ q.owed + in.size \in Int
      /\ q.past \in Nat /\ q.used \in 0..R-1 /\ q.consumed \in Int /\ q.seqBytes \in Nat
      /\ q \in Bits /\ q.owed \in Int
  BY RingAssumption, SMT DEF Sound, Bits, Space
<1>2. FilledEOS(q, h, in) \in BOOLEAN
  BY DEF FilledEOS, Sound, Bits
<1>3. e \in Bits /\ e.rd = q.rd /\ e.used = q.used + h + in.size /\ e.past = q.past
      /\ SameAccount(e, q) /\ e.owed = q.owed + in.size /\ e.spoilt = q.spoilt
  BY <1>1, <1>2 DEF Bits, SameAccount
<1>4. r = Settle(e)
  BY DEF Fill
<1> HIDE DEF e, r
<1>5. /\ r \in Bits /\ r.past + r.used <= R - 1 /\ SameAccount(r, q)
      /\ r.rd = q.rd /\ r.used = q.used + h + in.size
      /\ ~r.spoilt => ~q.spoilt /\ r.past = q.past /\ r.owed = q.owed + in.size
  BY <1>3, <1>4, Settled DEF SameAccount
<1>6. Sound(r)
  BY <1>5 DEF Sound, SameAccount
<1>7. ~r.spoilt /\ scheme # "vp8" => r.consumed - r.seqBytes = r.owed + h - (r.past + r.used)
  BY <1>1, <1>5, SMT DEF Kept, Balanced, SameAccount
<1> QED BY <1>5, <1>6, <1>7 DEF Fresh, SameAccount, r

\* Nodes have a size.
LEMMA NodeSize ==
  ASSUME NEW in \in Nodes
  PROVE  in.size \in Nat
<1>2. CASE in = Null \/ in = Eos
  BY <1>2, SMT DEF Null, Eos
<1>3. CASE \E n \in Sizes : in = [ptr |-> TRUE, size |-> n]
  BY <1>3, InputAssumption, SMT
<1> QED BY <1>2, <1>3 DEF Nodes

\* Filling in headers and the first nodes, also over bytes the VPU has not read.
LEMMA InitHeaderType ==
  ASSUME NEW in \in Nodes
  PROVE  /\ InitHeader(in) \in Nat
         /\ open.scheme # "vp8" /\ bits.inserted => InitHeader(in) = 0
<1>1. HeaderLen \in Nat /\ FrmLen \in Nat /\ 0 \in Nat /\ HeaderLen + FrmLen \in Nat /\ 0 + FrmLen \in Nat
  BY InputAssumption, SMT
<1> QED BY <1>1 DEF InitHeader

\* The header bytes noted are a number.
LEMMA NotedType ==
  ASSUME NEW m \in Nat, NEW n \in Nat
  PROVE  Noted(m, n) \in Nat /\ (m = 0 => Noted(m, n) = n)
  BY DEF Noted

\* Noting the header keeps the account of an instance not yet initialised.
LEMMA NoteInitIsSound ==
  ASSUME NEW q, NEW h \in Nat, NEW scheme, Sound(q), Fresh(q),
         ~q.inserted => q.seqBytes = 0,
         scheme # "vp8" => q.frmBytes = 0,
         scheme # "vp8" /\ q.inserted => h = 0,
         ~q.spoilt /\ scheme # "vp8" => q.consumed - q.seqBytes = q.owed + h - (q.past + q.used)
  PROVE  Sound(NoteInit(q, h)) /\ Kept(NoteInit(q, h), scheme) /\ Fresh(NoteInit(q, h))
<1> DEFINE r == NoteInit(q, h)
<1>1. /\ q \in Bits /\ q.consumed \in Int /\ q.seqBytes \in Nat /\ q.frmBytes \in Nat
      /\ q.owed \in Int /\ q.past \in Nat /\ q.used \in Nat /\ q.inserted \in BOOLEAN
  BY RingAssumption, SMT DEF Sound, Bits
<1>2. CASE h = 0
  <2>1. r = q
    BY <1>2 DEF NoteInit
  <2>2. Kept(q, scheme)
    BY <1>1, <1>2, SMT DEF Kept, Balanced
  <2> QED BY <2>1, <2>2
<1>3. CASE h # 0 /\ q.inserted
  <2>1. r = [q EXCEPT !.frmBytes = Noted(@, h)]
    BY <1>3 DEF NoteInit
  <2>2. r \in Bits
    <3>1. Noted(q.frmBytes, h) \in Nat /\ TRUE \in BOOLEAN
      BY <1>1, NotedType
    <3> QED BY <1>1, <2>1, <3>1, Zenon DEF Bits
  <2>3. /\ r.rd = q.rd /\ r.used = q.used /\ r.past = q.past /\ r.lastEnd = q.lastEnd
        /\ r.spoilt = q.spoilt /\ r.consumed = q.consumed /\ r.inserted = q.inserted
    BY <1>1, <2>1 DEF Bits
  <2>4. scheme = "vp8"
    BY <1>3
  <2> QED BY <1>3, <2>2, <2>3, <2>4 DEF Sound, Kept, Fresh
<1>4. CASE h # 0 /\ ~q.inserted
  <2>1. r = [q EXCEPT !.seqBytes = Noted(@, h), !.inserted = TRUE]
    BY <1>4 DEF NoteInit
  <2>2. r \in Bits
    <3>1. Noted(q.seqBytes, h) \in Nat /\ TRUE \in BOOLEAN
      BY <1>1, NotedType
    <3> QED BY <1>1, <2>1, <3>1, Zenon DEF Bits
  <2>3. /\ r.rd = q.rd /\ r.used = q.used /\ r.past = q.past /\ r.lastEnd = q.lastEnd
        /\ r.consumed = q.consumed /\ r.inserted /\ r.frmBytes = q.frmBytes
        /\ r.owed = q.owed
    BY <1>1, <2>1 DEF Bits
  <2>4. r.seqBytes = h /\ q.seqBytes = 0
    BY <1>1, <1>4, <2>1, NotedType DEF Bits
  <2>5. r.spoilt = q.spoilt
    BY <1>1, <2>1 DEF Bits
  <2>6. scheme # "vp8" => Balanced(r)
    <3> HIDE DEF r
    <3> QED BY <1>1, <2>3, <2>4, <2>5, SMT DEF Balanced
  <2> QED BY <1>4, <2>2, <2>3, <2>5, <2>6 DEF Sound, Kept, Fresh
<1> QED BY <1>2, <1>3, <1>4

\* So does filling in a node.
LEMMA FillInitIsSound ==
  ASSUME NEW in \in Nodes, Sound(bits), Kept(bits, open.scheme), Fresh(bits)
  PROVE  LET r == FillInit(InitHeader(in), in)
         IN Sound(r) /\ Kept(r, open.scheme) /\ Fresh(r)
<1> DEFINE h == InitHeader(in)
<1>1. h \in Nat /\ in.size \in Nat /\ (open.scheme # "vp8" /\ bits.inserted => h = 0)
  BY InitHeaderType, NodeSize
<1>2. CASE h + in.size <= Space(bits)
  <2> DEFINE f == Fill(bits, h, in)
  <2>1. Sound(f) /\ SameAccount(f, bits) /\ Fresh(f)
        /\ (~f.spoilt /\ open.scheme # "vp8" =>
              f.consumed - f.seqBytes = f.owed + h - (f.past + f.used))
    <3> HIDE DEF h
    <3> QED BY <1>1, <1>2, FillIsSound
  <2>2. FillInit(h, in) = NoteInit(f, h)
    BY <1>2 DEF FillInit
  <2> HIDE DEF h, f
  <2>3. Sound(NoteInit(f, h)) /\ Kept(NoteInit(f, h), open.scheme) /\ Fresh(NoteInit(f, h))
    BY <1>1, <2>1, NoteInitIsSound DEF Kept, SameAccount
  <2> QED BY <2>2, <2>3 DEF h
<1>3. CASE ~(h + in.size <= Space(bits))
  <2> DEFINE f == [bits EXCEPT !.spoilt = TRUE, !.past = 0, !.owed = 0,
                             !.filledEOS = FilledEOS(bits, h, in)]
  <2>1. FillInit(h, in) = NoteInit(f, h)
    BY <1>3 DEF FillInit
  <2>2. f \in Bits
    <3>1. FilledEOS(bits, h, in) \in BOOLEAN /\ bits \in Bits
      BY DEF FilledEOS, Sound, Bits
    <3>2. 0 \in Nat /\ 0 \in Int /\ TRUE \in BOOLEAN
      BY SMT
    <3> QED BY <3>1, <3>2, Zenon DEF Bits
  <2>3. f.past = 0 /\ f.spoilt /\ f.used = bits.used /\ SameAccount(f, bits)
    BY DEF SameAccount, Sound, Bits
  <2>4. Sound(f) /\ Fresh(f)
    <3> HIDE DEF f
    <3> QED BY <2>2, <2>3, RingAssumption, SMT DEF Sound, Bits, Fresh, SameAccount
  <2> HIDE DEF h, f
  <2>5. Sound(NoteInit(f, h)) /\ Kept(NoteInit(f, h), open.scheme) /\ Fresh(NoteInit(f, h))
    BY <1>1, <2>3, <2>4, NoteInitIsSound DEF Kept, SameAccount
  <2> QED BY <2>1, <2>5 DEF h
<1> QED BY <1>2, <1>3

\* The sequence header was found: the account begins where the VPU stands.
LEMMA InfoFoundIsSound ==
  ASSUME NEW q, NEW k \in 0..q.used, NEW scheme, Sound(q), Kept(q, scheme), Fresh(q)
  PROVE  Sound(InfoFound(q, k)) /\ Kept(InfoFound(q, k), scheme)
<1> DEFINE p == Read(q, k)
           r == [p EXCEPT !.lastEnd = p.rd, !.consumed = @ + p.rd, !.past = 0]
<1>1. Sound(p) /\ Kept(p, scheme) /\ Fresh(p)
  BY ReadIsSound
<1> HIDE DEF p
<1>2. /\ p \in Bits /\ p.rd \in 0..R-1 /\ p.past \in Nat /\ p.used \in 0..R-1 /\ p.consumed \in Int
      /\ p.seqBytes \in Nat /\ p.owed \in Int /\ p.past <= R - 1 /\ p.past + p.used <= R - 1
  BY <1>1, RingAssumption, SMT DEF Sound, Bits, Position
<1>3. ~p.spoilt => p.rd = p.past
  <2>1. ~p.spoilt => p.rd = After(Origin(R), p.past)
    BY <1>1 DEF Sound, Fresh
  <2> QED BY <1>2, <2>1, RingAssumption, SMT DEF After, Origin
<1>4. r \in Bits
  <2>1. p.rd \in 0..R /\ p.consumed + p.rd \in Int /\ 0 \in Nat
    BY <1>2, RingAssumption, SMT
  <2> QED BY <1>2, <2>1, Zenon DEF Bits
<1>5. /\ r.rd = p.rd /\ r.used = p.used /\ r.past = 0 /\ r.lastEnd = p.rd /\ r.inserted = p.inserted
      /\ r.consumed = p.consumed + p.rd /\ r.seqBytes = p.seqBytes /\ r.frmBytes = p.frmBytes
      /\ r.owed = p.owed
  BY <1>2 DEF Bits
<1>6. r.spoilt = p.spoilt
  BY <1>2 DEF Bits
<1> HIDE DEF r
<1>7. Sound(r)
  <2>1. After(Origin(p.rd), 0) = p.rd
    BY <1>2, RingAssumption, SMT DEF After, Origin
  <2>2. r.past + r.used <= R - 1
    BY <1>2, <1>5, RingAssumption, SMT
  <2> QED BY <1>4, <1>5, <2>1, <2>2 DEF Sound
<1>8. Kept(r, scheme)
  <2>1. scheme # "vp8" => (~r.spoilt => r.consumed - r.seqBytes = r.owed - (r.past + r.used))
    BY <1>1, <1>2, <1>3, <1>5, <1>6, SMT DEF Kept, Balanced
  <2> QED BY <1>1, <1>5, <2>1 DEF Kept, Balanced
<1>9. InfoFound(q, k) = r
  BY DEF InfoFound, p, r
<1> QED BY <1>7, <1>8, <1>9

\* What a resolution change would save.
LEMMA BackupIsWhatIsLeft ==
  ASSUME NEW q, Sound(q)
  PROVE  ~q.spoilt => Gap(q.lastEnd, WritePos(q)) = Unreported(q)
<1>1. SUFFICES ASSUME ~q.spoilt PROVE Gap(q.lastEnd, WritePos(q)) = Unreported(q)
  OBVIOUS
<1>2. /\ q.lastEnd \in 0..R /\ q.past \in Nat /\ q.used \in Nat /\ q.past + q.used <= R - 1
      /\ q.past + q.used \in 0..R-1
  BY RingAssumption, SMT DEF Sound, Bits
<1>3. WritePos(q) = After(Origin(q.lastEnd), q.past + q.used)
  BY <1>1, <1>2, OriginType, AfterAfter DEF WritePos, Sound
<1> QED BY <1>2, <1>3, GapIsDistance DEF Unreported

\* After a resolution change the account starts anew with the bytes copied out of the ring.
LEMMA RestartedIsSound ==
  ASSUME NEW q, Sound(q), Kept(q, open.scheme), BackupLen(q) \in 1..R-1
  PROVE  Sound(Restarted(q)) /\ Kept(Restarted(q), open.scheme) /\ Fresh(Restarted(q))
<1> DEFINE n == BackupLen(q)
           o == IF q.spoilt THEN n ELSE Unreported(q)
           i == q.inserted
           p == [Opened EXCEPT !.inserted = i]
           r == [p EXCEPT !.used = n, !.owed = o]
<1>1. n \in 0..R-1 /\ n \in Int /\ i \in BOOLEAN /\ Unreported(q) \in Int
  BY RingAssumption, SMT DEF Sound, Bits, Unreported
<1>2. Sound(p) /\ Fresh(p)
  BY <1>1, OpenedIsSound
<1>3. /\ p.rd = 0 /\ p.past = 0 /\ p.lastEnd = R /\ p.consumed = 0 /\ p.seqBytes = 0
      /\ p.frmBytes = 0 /\ p \in Bits
  BY <1>2 DEF Opened, Sound
<1>4. r = Restarted(q)
  BY DEF Restarted, Opened
<1> HIDE DEF n, p
<1>5. r \in Bits
  <2>1. o \in Int
    BY <1>1
  <2> HIDE DEF o
  <2> QED BY <1>1, <1>3, <2>1, Zenon DEF Bits
<1>6. /\ r.rd = 0 /\ r.past = 0 /\ r.lastEnd = R /\ r.consumed = 0 /\ r.seqBytes = 0
      /\ r.frmBytes = 0 /\ r.used = n /\ r.owed = o
  BY <1>3 DEF Bits
<1>7. open.scheme # "vp8" => o = n
  <2>1. open.scheme # "vp8" => n = Gap(q.lastEnd, WritePos(q)) + 0
    BY DEF BackupLen, Backup, n
  <2>2. ~q.spoilt => Gap(q.lastEnd, WritePos(q)) = Unreported(q)
    BY BackupIsWhatIsLeft
  <2>3. ~q.spoilt => Unreported(q) + 0 = Unreported(q)
    BY <1>1, SMT
  <2> QED BY <2>1, <2>2, <2>3
<1> HIDE DEF r, o
<1>8. After(Origin(R), 0) = 0
  BY RingAssumption, SMT DEF After, Origin
<1>9. r.past + r.used <= R - 1
  BY <1>1, <1>6, RingAssumption, SMT
<1>10. open.scheme # "vp8" => r.consumed - r.seqBytes = r.owed - (r.past + r.used)
  BY <1>1, <1>6, <1>7, SMT
<1> QED BY <1>4, <1>5, <1>6, <1>8, <1>9, <1>10 DEF Sound, Kept, Balanced, Fresh

\* A frame reported: wherever its ends lie, they are as far from the last one's end as they are.
LEMMA FramePlace ==
  ASSUME NEW q, NEW n \in 0..Unreported(q), Sound(q)
  PROVE  /\ FrameStart(q, n) \in Position
         /\ ~q.spoilt => FrameStart(q, n) = After(Origin(q.lastEnd), n)
<1>1. /\ q.rd \in Position /\ q.past \in 0..R-1 /\ q.past \in 0..R /\ n \in 0..R
      /\ q.lastEnd \in 0..R
  BY RingAssumption, SMT DEF Sound, Bits, Unreported
<1>2. Before(q.rd, q.past) \in Position
  BY <1>1, BeforeType
<1>3. FrameStart(q, n) \in Position
  BY <1>1, <1>2, AfterType DEF FrameStart
<1>4. ~q.spoilt => Before(q.rd, q.past) = Origin(q.lastEnd)
  BY <1>1, OriginType, BeforeAfter DEF Sound
<1> QED BY <1>3, <1>4 DEF FrameStart

\* A report of a frame keeps the account.
LEMMA ReportIsSound ==
  ASSUME NEW q, NEW scheme, NEW f \in Frames(q), NEW e \in FrameEnds(q, f.b),
         Sound(q), Kept(q, scheme)
  PROVE  Sound(Report(q, f, e)) /\ Kept(Report(q, f, e), scheme)
<1> DEFINE u == Unreported(q)
           total == Total(q, FrameStart(q, f.a), f.b - f.a)
           over == total > MaxConsumed
           rd == FrameStart(q, f.c)
           told == IF over THEN 0 ELSE total
           owed == IF over THEN u - f.b ELSE q.owed
           x == [q EXCEPT !.rd = rd, !.used = u - f.c, !.past = f.c - f.b, !.lastEnd = e,
                          !.seqBytes = 0, !.consumed = told, !.owed = owed]
           r == Report(q, f, e)
<1>1. /\ q.lastEnd \in 0..R /\ q.past \in Nat /\ q.used \in Nat /\ u \in 0..R-1
      /\ q.consumed \in Int /\ q.seqBytes \in Nat /\ q.frmBytes \in Nat /\ q.owed \in Int
      /\ u = q.past + q.used /\ q \in Bits
  BY RingAssumption, SMT DEF Sound, Bits, Unreported
<1>2. /\ f.a \in 0..u /\ f.b \in 1..u /\ f.c \in q.past..u /\ f.a < f.b /\ f.b <= f.c
  BY DEF Frames
<1>3. /\ f.a \in 0..Unreported(q) /\ f.b \in 0..Unreported(q) /\ f.c \in 0..Unreported(q)
      /\ f.a \in 0..R-1 /\ f.b \in 0..R-1 /\ f.c \in Nat /\ f.a \in Nat /\ f.b \in Nat
      /\ u - f.c \in 0..R-1 /\ f.c - f.b \in Nat /\ f.c - f.b + (u - f.c) = u - f.b
      /\ u - f.b \in 0..R-1 /\ f.b + (f.c - f.b) = f.c /\ f.c <= R - 1
  BY <1>1, <1>2, RingAssumption, SMT
<1>4. /\ FrameStart(q, f.a) \in Position /\ FrameStart(q, f.b) \in Position /\ rd \in Position
      /\ ~q.spoilt => /\ FrameStart(q, f.a) = After(Origin(q.lastEnd), f.a)
                      /\ FrameStart(q, f.b) = After(Origin(q.lastEnd), f.b)
                      /\ rd = After(Origin(q.lastEnd), f.c)
  BY <1>3, FramePlace
<1>5. e \in 0..R /\ Origin(e) = FrameStart(q, f.b)
  <2>1. FrameStart(q, f.b) \in 0..R-1
    BY <1>4 DEF Position
  <2> HIDE DEF Unreported
  <2> QED BY <2>1, RingAssumption, SMT DEF FrameEnds, Origin
<1>6. Gap(q.lastEnd, FrameStart(q, f.a)) \in Int
      /\ (~q.spoilt => Gap(q.lastEnd, FrameStart(q, f.a)) = f.a)
  <2>1. Gap(q.lastEnd, FrameStart(q, f.a)) \in Int
    BY <1>1, <1>4, RingAssumption, SMT DEF Gap, ValidSize, Position
  <2> QED BY <1>1, <1>3, <1>4, <2>1, GapIsDistance
<1>7. total \in Int /\ (~q.spoilt /\ scheme # "vp8" =>
                          total = q.owed - (u - f.b))
  <2> DEFINE g == Gap(q.lastEnd, FrameStart(q, f.a))
  <2>1. total = q.consumed + g - q.seqBytes + (f.b - f.a) - q.frmBytes
    BY DEF Total
  <2>2. g \in Int /\ (~q.spoilt => g = f.a)
    BY <1>6
  <2>3. ~q.spoilt /\ scheme # "vp8" => q.consumed - q.seqBytes = q.owed - u /\ q.frmBytes = 0
    BY <1>1 DEF Kept, Balanced
  <2>4. /\ q.consumed \in Int /\ q.seqBytes \in Int /\ q.frmBytes \in Int /\ q.owed \in Int
        /\ u \in Int /\ f.a \in Int /\ f.b \in Int
    BY <1>1, <1>3, SMT
  <2> HIDE DEF g, u, total
  <2>5. total \in Int
    BY <2>1, <2>2, <2>4, SMT
  <2>6. ASSUME ~q.spoilt, scheme # "vp8"
        PROVE  total = q.owed - (u - f.b)
    <3>1. g = f.a /\ q.consumed - q.seqBytes = q.owed - u /\ q.frmBytes = 0
      BY <2>2, <2>3, <2>6
    <3>2. total = q.consumed + f.a - q.seqBytes + (f.b - f.a) - 0
      BY <2>1, <3>1
    <3> QED BY <2>4, <3>1, <3>2, SMT
  <2> QED BY <2>5, <2>6
<1>8. told \in Int /\ owed \in Int
      /\ (~q.spoilt /\ scheme # "vp8" => told - 0 = owed - (u - f.b))
  <2> HIDE DEF total, u
  <2> QED BY <1>1, <1>3, <1>7, SMT
<1> HIDE DEF total, told, owed, over, u, rd
<1>9. x \in Bits
  <2>1. 0 \in Nat
    BY SMT
  <2> QED BY <1>1, <1>3, <1>4, <1>5, <1>8, <2>1, Zenon DEF Bits
<1>10. /\ x.rd = rd /\ x.used = u - f.c /\ x.past = f.c - f.b /\ x.lastEnd = e /\ x.seqBytes = 0
       /\ x.consumed = told /\ x.owed = owed /\ x.frmBytes = q.frmBytes /\ x.inserted = q.inserted
  BY <1>1 DEF Bits
<1>11. x.spoilt = q.spoilt
  BY <1>1 DEF Bits
<1>12. r = Settle(x)
  BY DEF Report, total, told, owed, over, u, rd
<1> HIDE DEF x, r
<1>13. /\ r \in Bits /\ r.past + r.used <= R - 1 /\ SameAccount(r, x) /\ r.rd = rd
       /\ r.used = u - f.c
       /\ ~r.spoilt => ~q.spoilt /\ r.past = f.c - f.b /\ r.owed = owed
  BY <1>9, <1>10, <1>11, <1>12, Settled
<1>14. ~q.spoilt => rd = After(Origin(e), f.c - f.b)
  <2>1. Origin(q.lastEnd) \in Position
    BY <1>1, OriginType
  <2>2. f.b + (f.c - f.b) <= R - 1
    BY <1>3
  <2>3. After(After(Origin(q.lastEnd), f.b), f.c - f.b) = After(Origin(q.lastEnd), f.b + (f.c - f.b))
    BY <1>3, <2>1, <2>2, AfterAfter
  <2> QED BY <1>3, <1>4, <1>5, <2>3
<1>15. Sound(r)
  BY <1>10, <1>13, <1>14 DEF Sound, SameAccount
<1>16. Kept(r, scheme)
  <2>1. ~r.spoilt /\ scheme # "vp8" => r.consumed - r.seqBytes = r.owed - (r.past + r.used)
    BY <1>3, <1>8, <1>10, <1>13 DEF SameAccount
  <2> QED BY <1>10, <1>13, <2>1 DEF Kept, Balanced, SameAccount
<1> QED BY <1>15, <1>16 DEF r

\* The account beginning anew, after an end of stream or a flush.
LEMMA AnewIsSound ==
  ASSUME NEW q, NEW scheme, Sound(q), Kept(q, scheme)
  PROVE  Sound(Anew(q)) /\ Kept(Anew(q), scheme)
<1> DEFINE sp == (q.seqBytes # 0)
           r == [q EXCEPT !.rd = 0, !.used = 0, !.lastEnd = R, !.consumed = 0, !.past = 0,
                          !.owed = 0, !.spoilt = sp]
<1>1. q \in Bits /\ 0 \in Position /\ 0 \in 0..R-1 /\ R \in 0..R /\ 0 \in Int /\ 0 \in Nat
      /\ sp \in BOOLEAN /\ q.seqBytes \in Nat
  BY RingAssumption, SMT DEF Sound, Bits, Position
<1>2. sp <=> q.seqBytes # 0
  OBVIOUS
<1> HIDE DEF sp
<1>3. r \in Bits
  BY <1>1, Zenon DEF Bits
<1>4. /\ r.rd = 0 /\ r.used = 0 /\ r.past = 0 /\ r.lastEnd = R /\ r.consumed = 0 /\ r.owed = 0
      /\ r.seqBytes = q.seqBytes /\ r.frmBytes = q.frmBytes /\ r.inserted = q.inserted
  BY <1>1 DEF Bits
<1>5. r.spoilt = sp
  BY <1>1 DEF Bits
<1>6. Anew(q) = r
  BY DEF Anew, sp
<1> HIDE DEF r
<1>7. After(Origin(R), 0) = 0
  BY RingAssumption, SMT DEF After, Origin
<1>8. r.past + r.used <= R - 1
  BY <1>4, RingAssumption, SMT
<1>9. ~r.spoilt => r.consumed - r.seqBytes = r.owed - (r.past + r.used)
  BY <1>2, <1>4, <1>5, SMT
<1> QED BY <1>3, <1>4, <1>6, <1>7, <1>8, <1>9 DEF Sound, Kept, Balanced

\* VpuDecBuf's own filling.
LEMMA TakenIsSound ==
  ASSUME NEW q, NEW in \in Nodes, Sound(q), Kept(q, open.scheme)
  PROVE  Sound(Taken(q, in)) /\ Kept(Taken(q, in), open.scheme)
<1> DEFINE h == FrameHeader(in)
           x == Fill(q, h, in)
<1>1. h \in Nat /\ in.size \in Nat /\ (open.scheme # "vp8" => h = 0)
  BY NodeSize, InputAssumption, SMT DEF FrameHeader
<1>2. CASE h + in.size > Space(q)
  <2>1. Taken(q, in) = q
    BY <1>2 DEF Taken
  <2> QED BY <2>1
<1>3. CASE ~(h + in.size > Space(q))
  <2>1. h + in.size <= Space(q)
    BY <1>1, <1>3, RingAssumption, SMT DEF Space, Sound, Bits
  <2>2. /\ Sound(x) /\ SameAccount(x, q)
        /\ (~x.spoilt /\ open.scheme # "vp8" =>
              x.consumed - x.seqBytes = x.owed + h - (x.past + x.used))
    <3> HIDE DEF h
    <3> QED BY <1>1, <2>1, FillIsSound
  <2>3. CASE h = 0
    <3>1. Taken(q, in) = x
      BY <1>3, <2>3 DEF Taken
    <3>2. ~x.spoilt /\ open.scheme # "vp8" => x.consumed - x.seqBytes = x.owed - (x.past + x.used)
      <4>1. x.owed \in Int /\ x.past \in Int /\ x.used \in Int
        BY <2>2, RingAssumption, SMT DEF Sound, Bits
      <4> HIDE DEF x, h
      <4>2. x.owed + h - (x.past + x.used) = x.owed - (x.past + x.used)
        BY <2>3, <4>1, SMT
      <4> QED BY <2>2, <4>2
    <3> HIDE DEF x, h
    <3> QED BY <2>2, <3>1, <3>2 DEF Kept, Balanced, SameAccount
  <2>4. CASE h # 0
    <3> DEFINE r == [x EXCEPT !.frmBytes = Noted(@, h)]
    <3>1. Taken(q, in) = r
      BY <1>3, <2>4 DEF Taken
    <3> HIDE DEF x, h
    <3>2. x \in Bits /\ x.frmBytes \in Nat /\ Noted(x.frmBytes, h) \in Nat
      BY <1>1, <2>2, NotedType DEF Sound, Bits
    <3>3. r \in Bits
      BY <3>2, Zenon DEF Bits
    <3>4. /\ r.rd = x.rd /\ r.used = x.used /\ r.past = x.past /\ r.lastEnd = x.lastEnd
          /\ r.spoilt = x.spoilt /\ r.inserted = x.inserted /\ r.seqBytes = x.seqBytes
      BY <3>2 DEF Bits
    <3>5. open.scheme = "vp8"
      BY <1>1, <2>4
    <3> HIDE DEF r
    <3> QED BY <2>2, <3>1, <3>3, <3>4, <3>5 DEF Sound, Kept, SameAccount
  <2> QED BY <2>3, <2>4
<1> QED BY <1>2, <1>3

-----------------------------------------------------------------------------
(* The filter. *)

FilterInv ==
  /\ gop \in [ref : BOOLEAN, dropB : 0..MaxDropB-1, key : BOOLEAN]
  /\ mosaic \in BOOLEAN /\ keyShown \in BOOLEAN
  /\ gop.key => gop.ref
  /\ gop.key <=> keyShown

\* A picture is masked exactly while no key picture was seen, the bound on dropped B pictures
\* included: that bound is reached only before the first reference picture.
LEMMA ShowsKeepsFilter ==
  ASSUME NEW kind \in Kinds, FilterInv, Shows(kind)
  PROVE  FilterInv' /\ MosaicUntilKey'
<1>1. /\ gop' = Filter(kind) /\ keyShown' = (keyShown \/ IsKey(kind)) /\ mosaic' = Masked(kind)
  BY DEF Shows
<1>2. Filter(kind) \in [ref : BOOLEAN, dropB : 0..MaxDropB-1, key : BOOLEAN]
  <2>1. (IF ~DropsB(kind) THEN gop.dropB ELSE IF LastDropB THEN 0 ELSE gop.dropB + 1)
          \in 0..MaxDropB-1
    BY InputAssumption, SMT DEF FilterInv, LastDropB
  <2>2. (RefAfter(kind) \/ (DropsB(kind) /\ LastDropB)) \in BOOLEAN /\ (gop.key \/ IsKey(kind)) \in BOOLEAN
    OBVIOUS
  <2> QED BY <2>1, <2>2, Zenon DEF Filter
<1>3. IsKey(kind) => RefAfter(kind)
  BY DEF IsKey, RefAfter
<1>4. gop.key => RefAfter(kind)
  BY DEF FilterInv, RefAfter
<1>5. (Filter(kind).key <=> (gop.key \/ IsKey(kind))) /\ (RefAfter(kind) => Filter(kind).ref)
  BY DEF Filter
<1>6. Masked(kind) <=> ~(gop.key \/ IsKey(kind))
  BY <1>3, <1>4 DEF Masked, DropsB, Kinds, IsKey
<1>7. FilterInv'
  BY <1>1, <1>2, <1>3, <1>4, <1>5 DEF FilterInv, Masked
<1>8. MosaicUntilKey'
  BY <1>1, <1>6 DEF MosaicUntilKey, FilterInv
<1> QED BY <1>7, <1>8

\* Every output keeps the state of the unclosed GOP filter.
LEMMA OutputKeepsFilter ==
  ASSUME FilterInv, Output
  PROVE  FilterInv' /\ MosaicUntilKey'
<1>1. CASE ShowsNothing
  BY <1>1 DEF ShowsNothing, FilterInv, MosaicUntilKey
<1>2. CASE \E kind \in Kinds : Shows(kind)
  BY <1>2, ShowsKeepsFilter
<1> QED BY <1>1, <1>2 DEF Output

\* So does its reset.
LEMMA ResetKeepsFilter ==
  ASSUME ResetGop, state' # "OUTOK"
  PROVE  FilterInv' /\ MosaicUntilKey'
<1>1. NoGop \in [ref : BOOLEAN, dropB : 0..MaxDropB-1, key : BOOLEAN] /\ ~NoGop.key
  BY InputAssumption, SMT DEF NoGop
<1> QED BY <1>1 DEF ResetGop, FilterInv, MosaicUntilKey

-----------------------------------------------------------------------------
(* The invariant. *)

AccountInv ==
  /\ state \in States
  /\ open \in [scheme : Schemes, interlaced : BOOLEAN]
  /\ Sound(bits) /\ Kept(bits, open.scheme)
  /\ state = "OPEN" => Fresh(bits)

IInv == AccountInv /\ FilterInv /\ MosaicUntilKey

\* Another interlace flag keeps the scheme.
LEMMA OpenEither ==
  ASSUME open \in [scheme : Schemes, interlaced : BOOLEAN], NEW i \in BOOLEAN,
         open' = [open EXCEPT !.interlaced = i]
  PROVE  open' \in [scheme : Schemes, interlaced : BOOLEAN] /\ open'.scheme = open.scheme
  OBVIOUS

\* No output leads back to OPEN.
LEMMA OutputState ==
  ASSUME Output
  PROVE  state' \in States \ {"OPEN"}
  BY DEF Output, ShowsNothing, Shows, States

\* One lemma for each step: the initialisation,
LEMMA SeqInitKeeps ==
  ASSUME NEW in \in Nodes, IInv, VpuSeqInit(in)
  PROVE  IInv'
<1> DEFINE h == InitHeader(in)
           q == FillInit(h, in)
<1>1. Sound(q) /\ Kept(q, open.scheme) /\ Fresh(q)
  BY FillInitIsSound DEF IInv, AccountInv, VpuSeqInit
<1>2. UNCHANGED <<gop, mosaic, keyShown>> /\ state = "OPEN" /\ state' \in {"OPEN", "INITOK"}
  BY DEF VpuSeqInit
<1>3. FilterInv' /\ MosaicUntilKey'
  BY <1>2 DEF IInv, FilterInv, MosaicUntilKey
<1>4. \/ bits' = q /\ UNCHANGED <<state, open>>
      \/ (\E k \in 0..q.used : bits' = Read(q, k)) /\ UNCHANGED <<state, open>>
      \/ /\ \E k \in 0..q.used : bits' = InfoFound(q, k)
         /\ state' = "INITOK" /\ \E i \in BOOLEAN : open' = [open EXCEPT !.interlaced = i]
  BY DEF VpuSeqInit
<1> HIDE DEF q
<1>5. CASE bits' = q /\ UNCHANGED <<state, open>>
  BY <1>1, <1>3, <1>5 DEF IInv, AccountInv
<1>6. CASE (\E k \in 0..q.used : bits' = Read(q, k)) /\ UNCHANGED <<state, open>>
  <2>1. Sound(bits') /\ Kept(bits', open.scheme) /\ Fresh(bits')
    BY <1>1, <1>6, ReadIsSound
  <2> QED BY <1>3, <1>6, <2>1 DEF IInv, AccountInv
<1>7. CASE /\ \E k \in 0..q.used : bits' = InfoFound(q, k)
           /\ state' = "INITOK" /\ \E i \in BOOLEAN : open' = [open EXCEPT !.interlaced = i]
  <2>1. Sound(bits') /\ Kept(bits', open.scheme)
    BY <1>1, <1>7, InfoFoundIsSound
  <2>2. open' \in [scheme : Schemes, interlaced : BOOLEAN] /\ open'.scheme = open.scheme
    BY <1>7, OpenEither DEF IInv, AccountInv
  <2> QED BY <1>3, <1>7, <2>1, <2>2 DEF IInv, AccountInv, States
<1> QED BY <1>4, <1>5, <1>6, <1>7

\* a resolution change,
LEMMA ChangeKeeps ==
  ASSUME NEW q, Sound(q), Kept(q, open.scheme), FilterInv,
         open \in [scheme : Schemes, interlaced : BOOLEAN], ChangeResolution(q)
  PROVE  IInv'
<1>1. CASE BackupLen(q) = 0 /\ bits' = q /\ Output /\ UNCHANGED open
  BY <1>1, OutputKeepsFilter, OutputState DEF IInv, AccountInv
<1>2. CASE /\ BackupLen(q) \in 1..R-1 /\ EnoughInit(Restarted(q))
           /\ \E k \in 0..BackupLen(q) : bits' = InfoFound(Restarted(q), k)
           /\ \E i \in BOOLEAN : open' = [open EXCEPT !.interlaced = i]
           /\ state' = "INITOK" /\ ResetGop
  <2> DEFINE r == Restarted(q)
  <2>1. Sound(r) /\ Kept(r, open.scheme) /\ Fresh(r) /\ r.used = BackupLen(q)
    BY <1>2, RestartedIsSound DEF Restarted, Opened
  <2>2. PICK k \in 0..r.used : bits' = InfoFound(r, k)
    BY <1>2, <2>1
  <2> HIDE DEF r
  <2>3. Sound(bits') /\ Kept(bits', open.scheme)
    BY <2>1, <2>2, InfoFoundIsSound
  <2>4. open' \in [scheme : Schemes, interlaced : BOOLEAN] /\ open'.scheme = open.scheme
    BY <1>2, OpenEither
  <2> QED BY <1>2, <2>3, <2>4, ResetKeepsFilter DEF IInv, AccountInv, States
<1>3. CASE /\ BackupLen(q) > 0
           /\ bits' = [Opened EXCEPT !.inserted = q.inserted]
           /\ state' = "CORRUPT" /\ ResetGop /\ UNCHANGED open
  <2>1. q.inserted \in BOOLEAN
    BY DEF Sound, Bits
  <2>2. Sound(bits') /\ Kept(bits', open.scheme)
    BY <1>3, <2>1, OpenedIsSound
  <2> QED BY <1>3, <2>2, ResetKeepsFilter DEF IInv, AccountInv, States
<1> QED BY <1>1, <1>2, <1>3 DEF ChangeResolution

\* a node in the decoding states,
LEMMA DecBufKeeps ==
  ASSUME NEW q, NEW in \in Nodes, Sound(q), Kept(q, open.scheme), FilterInv,
         open \in [scheme : Schemes, interlaced : BOOLEAN], VpuDecBuf(q, in)
  PROVE  IInv'
<1>1. CASE TooLittle(q, in) /\ bits' = q /\ ShowsNothing /\ UNCHANGED open
  <2>1. Output
    BY <1>1 DEF Output
  <2> QED BY <1>1, <2>1, OutputKeepsFilter, OutputState DEF IInv, AccountInv
<1>2. CASE Unseen(q)
  <2>1. Sound(bits') /\ Kept(bits', open.scheme) /\ UNCHANGED open
    BY <1>2, ReadIsSound DEF Unseen
  <2>2. CASE Output
    BY <2>1, <2>2, OutputKeepsFilter, OutputState DEF IInv, AccountInv
  <2>3. CASE state' = "EOS" /\ UNCHANGED <<gop, mosaic, keyShown>>
    BY <2>1, <2>3 DEF IInv, AccountInv, FilterInv, MosaicUntilKey, States
  <2> QED BY <1>2, <2>2, <2>3 DEF Unseen
<1>3. CASE Seen(q)
  <2>1. Sound(bits') /\ Kept(bits', open.scheme) /\ UNCHANGED open /\ Output
    BY <1>3, ReportIsSound DEF Seen
  <2> QED BY <2>1, OutputKeepsFilter, OutputState DEF IInv, AccountInv
<1>4. CASE Resized(q)
  <2>1. PICK k \in 0..q.used : ChangeResolution(Read(q, k))
    BY <1>4 DEF Resized
  <2>2. Sound(Read(q, k)) /\ Kept(Read(q, k), open.scheme)
    BY ReadIsSound
  <2> QED BY <2>1, <2>2, ChangeKeeps
<1>5. CASE TimesOut(q)
  BY <1>5 DEF TimesOut, IInv, AccountInv, FilterInv, MosaicUntilKey, States
<1> QED BY <1>1, <1>2, <1>3, <1>4, <1>5 DEF VpuDecBuf

\* the flush,
LEMMA FlushKeeps ==
  ASSUME IInv, VPU_DecFlushAll
  PROVE  IInv'
<1>1. CASE FlushEarly
  <2> DEFINE sp == (bits.spoilt \/ state = "INITOK" \/ bits.seqBytes # 0)
             r == [bits EXCEPT !.rd = 0, !.used = 0, !.past = 0, !.owed = 0, !.spoilt = sp]
  <2>1. /\ bits \in Bits /\ 0 \in Position /\ 0 \in 0..R-1 /\ 0 \in Int /\ 0 \in Nat
        /\ sp \in BOOLEAN
    BY RingAssumption, SMT DEF IInv, AccountInv, Sound, Bits, Position
  <2>2. ~sp => state = "OPEN" /\ bits.seqBytes = 0
    BY <1>1 DEF FlushEarly
  <2>3. bits' = r
    BY <1>1 DEF FlushEarly
  <2> HIDE DEF sp
  <2>4. r \in Bits
    BY <2>1, Zenon DEF Bits
  <2>5. /\ r.rd = 0 /\ r.used = 0 /\ r.past = 0 /\ r.owed = 0 /\ SameAccount(r, bits)
    BY <2>1 DEF Bits, SameAccount
  <2>6. r.spoilt = sp
    BY <2>1 DEF Bits
  <2> HIDE DEF r
  <2>7. ~r.spoilt => Fresh(bits) /\ bits.seqBytes = 0
    BY <2>2, <2>6 DEF IInv, AccountInv
  <2>8. After(Origin(R), 0) = 0
    BY RingAssumption, SMT DEF After, Origin
  <2>9. r.past + r.used <= R - 1
    BY <2>5, RingAssumption, SMT
  <2>10. Sound(r)
    BY <2>4, <2>5, <2>7, <2>8, <2>9 DEF Sound, SameAccount, Fresh
  <2>11. ~r.spoilt => r.consumed - r.seqBytes = r.owed - (r.past + r.used)
    <3>1. ~r.spoilt => r.consumed = 0 /\ r.seqBytes = 0
      BY <2>5, <2>7 DEF SameAccount, Fresh
    <3> QED BY <2>5, <3>1, SMT
  <2>12. Kept(r, open.scheme)
    BY <2>5, <2>11 DEF IInv, AccountInv, Kept, Balanced, SameAccount
  <2>13. UNCHANGED <<state, open, gop, mosaic, keyShown>>
    BY <1>1 DEF FlushEarly
  <2> QED BY <2>3, <2>5, <2>10, <2>12, <2>13
          DEF IInv, AccountInv, FilterInv, MosaicUntilKey, Fresh, SameAccount
<1>2. CASE FlushLate
  <2>1. Sound(bits') /\ Kept(bits', open.scheme)
    BY <1>2, AnewIsSound DEF FlushLate, IInv, AccountInv
  <2> QED BY <1>2, <2>1, ResetKeepsFilter DEF FlushLate, IInv, AccountInv, States
<1> QED BY <1>1, <1>2 DEF VPU_DecFlushAll

\* the query of the consumed bytes,
LEMMA ConsumedInfoKeeps ==
  ASSUME IInv, VPU_DecGetConsumedFrameInfo
  PROVE  IInv'
<1> DEFINE o == IF bits.spoilt THEN 0 ELSE bits.owed - bits.consumed
           r == [bits EXCEPT !.consumed = 0, !.owed = o]
<1>1. /\ bits \in Bits /\ bits.owed \in Int /\ bits.consumed \in Int /\ bits.seqBytes \in Nat
      /\ bits.past \in Nat /\ bits.used \in Nat /\ 0 \in Int /\ o \in Int
  BY RingAssumption, SMT DEF IInv, AccountInv, Sound, Bits
<1>2. bits' = r /\ UNCHANGED <<state, open, gop, mosaic, keyShown>>
  BY DEF VPU_DecGetConsumedFrameInfo
<1>3. ~bits.spoilt => o = bits.owed - bits.consumed
  OBVIOUS
<1> HIDE DEF o
<1>4. r \in Bits
  BY <1>1, Zenon DEF Bits
<1>5. /\ r.rd = bits.rd /\ r.used = bits.used /\ r.past = bits.past /\ r.lastEnd = bits.lastEnd
      /\ r.spoilt = bits.spoilt /\ r.inserted = bits.inserted /\ r.seqBytes = bits.seqBytes
      /\ r.frmBytes = bits.frmBytes /\ r.consumed = 0 /\ r.owed = o
  BY <1>1 DEF Bits
<1> HIDE DEF r
<1>6. Sound(r)
  BY <1>4, <1>5 DEF Sound, IInv, AccountInv
<1>7. Balanced(bits) => Balanced(r)
  BY <1>1, <1>3, <1>5, SMT DEF Balanced
<1>8. Kept(r, open.scheme)
  BY <1>5, <1>7 DEF Kept, IInv, AccountInv
<1> QED BY <1>2, <1>5, <1>6, <1>8 DEF IInv, AccountInv, FilterInv, MosaicUntilKey, Fresh

\* and the initial states.
LEMMA InitKeeps ==
  ASSUME NEW v, v = [Opened EXCEPT !.inserted = FALSE], NEW scheme
  PROVE  v = Opened /\ Sound(v) /\ Kept(v, scheme) /\ Fresh(v)
<1>1. v = Opened
  BY DEF Opened
<1> QED BY <1>1, OpenedIsSound

\* The strengthened invariant of the module.
THEOREM InputInvariant == Spec => []IInv
<1>1. Init => IInv
  <2> SUFFICES ASSUME Init PROVE IInv
    OBVIOUS
  <2>1. Sound(bits) /\ Kept(bits, open.scheme) /\ Fresh(bits)
    BY InitKeeps DEF Init, Opened
  <2>2. NoGop \in [ref : BOOLEAN, dropB : 0..MaxDropB-1, key : BOOLEAN] /\ ~NoGop.key
    BY InputAssumption, SMT DEF NoGop
  <2> QED BY <2>1, <2>2 DEF Init, IInv, AccountInv, FilterInv, MosaicUntilKey, States
<1>2. IInv /\ [Next]_vars => IInv'
  <2> SUFFICES ASSUME IInv, [Next]_vars PROVE IInv'
    OBVIOUS
  <2>1. ASSUME NEW in \in Nodes, VPU_DecDecodeBuf(in) PROVE IInv'
    <3>1. CASE VpuSeqInit(in)
      BY <3>1, SeqInitKeeps
    <3>2. CASE state = "DEC" /\ VpuDecBuf(Taken(bits, in), in)
      <4>1. Sound(Taken(bits, in)) /\ Kept(Taken(bits, in), open.scheme)
        BY TakenIsSound DEF IInv, AccountInv
      <4> QED BY <3>2, <4>1, DecBufKeeps DEF IInv, AccountInv
    <3>3. CASE state = "EOS" /\ in # Null /\ VpuDecBuf(Taken(Anew(bits), in), in)
      <4>1. Sound(Anew(bits)) /\ Kept(Anew(bits), open.scheme)
        BY AnewIsSound DEF IInv, AccountInv
      <4>2. Sound(Taken(Anew(bits), in)) /\ Kept(Taken(Anew(bits), in), open.scheme)
        BY <4>1, TakenIsSound
      <4> QED BY <3>3, <4>2, DecBufKeeps DEF IInv, AccountInv
    <3> QED BY <2>1, <3>1, <3>2, <3>3 DEF VPU_DecDecodeBuf
  <2>2. CASE Register
    BY <2>2 DEF Register, IInv, AccountInv, FilterInv, MosaicUntilKey, States
  <2>3. CASE VPU_DecGetOutputFrame
    BY <2>3 DEF VPU_DecGetOutputFrame, IInv, AccountInv, FilterInv, MosaicUntilKey, States
  <2>4. CASE VPU_DecGetConsumedFrameInfo
    BY <2>4, ConsumedInfoKeeps
  <2>5. CASE VPU_DecFlushAll
    BY <2>5, FlushKeeps
  <2>6. CASE Reopen
    <3>1. Sound(bits') /\ Kept(bits', open'.scheme) /\ Fresh(bits')
      BY <2>6, InitKeeps DEF Reopen, Opened
    <3>2. NoGop \in [ref : BOOLEAN, dropB : 0..MaxDropB-1, key : BOOLEAN] /\ ~NoGop.key
      BY InputAssumption, SMT DEF NoGop
    <3> QED BY <2>6, <3>1, <3>2 DEF Reopen, IInv, AccountInv, FilterInv, MosaicUntilKey, States
  <2>7. CASE UNCHANGED vars
    BY <2>7 DEF vars, IInv, AccountInv, FilterInv, MosaicUntilKey
  <2> QED BY <2>1, <2>2, <2>3, <2>4, <2>5, <2>6, <2>7 DEF Next
<1> QED BY <1>1, <1>2, PTL DEF Spec

\* Types and ranges of the ring, the account and the filter.
THEOREM InputTypeOK == Spec => []TypeOK
<1>1. IInv => TypeOK
  BY DEF IInv, AccountInv, FilterInv, Sound, TypeOK
<1> QED BY <1>1, InputInvariant, PTL

\* VpuAccumulateConsumedBytes, VPU_DecGetConsumedFrameInfo and all that moves the ring: for every
\* size of the ring, of the input and of the headers no byte is counted twice or lost.
THEOREM BytesAddUp == Spec => []Ledger
<1>1. IInv => Ledger
  <2> SUFFICES ASSUME IInv, open.scheme # "vp8", ~bits.spoilt
               PROVE  bits.consumed - bits.seqBytes = bits.owed - Unreported(bits)
    BY DEF Ledger
  <2> QED BY DEF IInv, AccountInv, Kept, Balanced, Unreported
<1> QED BY <1>1, InputInvariant, PTL

\* The total told is not short of what was given, once every byte lies in a reported frame, of
\* any stream but VP8's: the frame header taken off twice is the only way to come short of what
\* "should match with the input data size" (vpu_wrapper.c:461).
THEOREM OnlyVp8ComesShort ==
  ASSUME "vp8" \notin Schemes
  PROVE  Spec => []AllBytesTold
<1>1. TypeOK /\ Ledger => AllBytesTold
  <2> SUFFICES ASSUME TypeOK, Ledger, Unreported(bits) = 0, bits.seqBytes = 0, ~bits.spoilt
               PROVE  bits.consumed >= bits.owed
    BY DEF AllBytesTold
  <2>1. open.scheme # "vp8" /\ bits.consumed \in Int /\ bits.owed \in Int
    BY DEF TypeOK, Bits
  <2> QED BY <2>1 DEF Ledger
<1> QED BY <1>1, InputTypeOK, BytesAddUp, PTL

\* VpuResolutionChangeProcess would save, at any time and for every ring, exactly the bytes of
\* the pictures that were not reported.
THEOREM BackupIsExact == Spec => []BackupIsUnreported
<1>1. IInv => BackupIsUnreported
  BY BackupIsWhatIsLeft DEF IInv, AccountInv, BackupIsUnreported
<1> QED BY <1>1, InputInvariant, PTL

\* The unclosed-GOP filter of VpuGetOutput, for every bound on dropped B pictures.
THEOREM MaskedUntilKey == Spec => []MosaicUntilKey
<1>1. IInv => MosaicUntilKey
  BY DEF IInv
<1> QED BY <1>1, InputInvariant, PTL

=============================================================================
