# Verification of imx-vpuwrap

`imx-vpuwrap` is the C library between multimedia frameworks and NXP's video processing units. One
API (`VPU_Dec...`, `VPU_Enc...`, `vpu_wrapper.h`) has several implementations, one of which is
linked: `vpu_wrapper.c` for the i.MX5/i.MX6 VPU (decoder and encoder), `vpu_wrapper_hantro.c` for
the Hantro decoder of i.MX8, `vpu_wrapper_hantro_encoder.c` for the H1 encoder and
`vpu_wrapper_hantro_VCencoder.c` for the VC8000E encoder. `decode_stream.c` and `encode_stream.c`
are the example applications, and the only place where the repository shows in which order the
calls are meant to be made. There are no tests besides them.

The library has no thread of its own: each call runs to its end, and drives the hardware inside it.
What is hard is not parallelism within it but the order of the calls an application makes, what the
firmware or the codec library may answer to each, and what is left behind when a step fails.

## 1. Inventory

| Part | State it keeps | Operations | Hard behaviour |
|---|---|---|---|
| i.MX6 decoder: state machine and frames (`vpu_wrapper.c`) | `VpuDecObj.state`, `frameBufState[]`, the frame displayed last, the output slot, `realWork` | open, decode, initial info, register, get output frame, frame displayed, flush, reset/close | Three parties have views of one frame: the VPU's display flags, the wrapper's frame states, the application's hands. Failures and time-outs between two updates; end of stream, flush, drain and resolution change |
| - unclosed GOP filter | `keyCnt`, `refCnt`, `dropBCnt` | inside the output of a frame | dropping the wrong pictures, or all of them |
| - bitstream ring, consumed bytes | ring pointers, `filledEOS`, frame-size table | fill, backup, consumed-frame info | wrap-around, inserted headers counted or not |
| - dead-loop watchdog | static counters | at each decode | counters shared by all instances |
| - header insertion, AVCC/HVCC/VC1 conversion (`utils.c`) | `nPrivateSeqHeaderInserted`, length size | inside fill | byte formats |
| Hantro decoder (`vpu_wrapper_hantro.c`) | `state`, `nBsBufLen`, `eosing`, slot, `bConsumeInputLater`, byte account | the same API, over a codec library (`scanframe`, `decode`, `getframe`, `setframebuffer`, ...) | acknowledging input that is decoded in place; reaching end of stream; a codec waiting for buffers |
| i.MX6 encoder (`vpu_wrapper.c`) | `nHeaderNeeded`, `nJustOutputOneHeader`, `nOutputHeaderCnt`, `nInsertSPSPPSToIDR` | open, config, initial info, register, encode, reset, close | which header goes where when pictures are forced, skipped, failing and retried |
| H1 and VC8000E encoders | `bStreamStarted`, `nTotalFrames`, GOP configuration | the same API | start of stream, queued pictures, headers resent |
| Decoding client (`decode_stream.c`) | node, loop counters, consumed bytes | feed, fetch, display, release, re-register | following the return codes; end of file |
| Encoding client (`encode_stream.c`) | `nNeedInput`, `nEncodedFrameNum`, `repeatNum` | read, encode, write, repeat | a picture offered again; the end of the loop |
| Memory management, rendering, timers, dumps, logs, version queries | block lists | allocate, free, show | input/output; no decisions of the wrapper |

Interactions. The application offers one input node per `VPU_DecDecodeBuf`; the returned flags tell
it what to call next (`INIT_OK` -> initial info and registration, `DIS` -> get the frame, ...). A
frame goes VPU -> output slot -> application -> `VPU_DecOutFrameDisplayed` -> VPU. The VPU must not
write a frame while its display flag is set; the wrapper sets no flag, it only clears them. The
Hantro decoder has the same circle with the codec library's `pictureconsumed` in place of the flag.
The encoders take a picture and answer whether it was used and whether there is a header or a
coded picture in the output buffer.

What makes each part correct:

- decoders: a frame offered to or held by the application is never writable to the hardware; it is
  never offered twice; no frame is lost to both sides; the state left agrees with the flags
  returned; the hardware is not left running; the application is not told to wait for itself;
- Hantro decoder besides: bytes accounted for, no node acknowledged while it is still to be read,
  EOS only at the end and at the end always;
- encoders: every picture has the header it needs, no header too many; pictures used in order,
  each once; the client's loop ends.

Every hazard found in the code, at its line and with the properties that would catch it, is listed
in `PROJECT.json`; those no property would catch say why.

## 2. Modules

| Module | What it is |
|---|---|
| `FrameOwnership` | what any decoder promises about its frames: one owner each (`vpu`, `ready`, `user`), a circle of moves, and (`Promise`) nothing writable that is not the VPU's |
| `VpuDec` | the i.MX6 decoder, stream mode |
| `MCVpuDec`, `dec_*.cfg` | its instances for TLC |
| `VpuDecProofs` | inductive invariant; frame protection for every format but VC1_AP; the VPU is not left running |
| `VpuDecAccounts` | the account of frames when no call fails; no frame leaks with a firmware in order; nothing of an old sequence left before registration |
| `VpuDecRefines` | `VpuDec` implements `FrameOwnership`, and that keeps its promise |
| `VpuDecCodes` | return codes agree with the state they leave, for any firmware and any failing call |
| `DecPlay`, `MCDecPlay`, `dec_play.cfg` | `decode_stream` driving `VpuDec`, with the loop's counters and the watchdog; several files in a row |
| `DecPlayProofs` | its invariant, that it implements `VpuDec`'s specification, the frames of this client, and that a session runs out of things to do; extends the proof modules of `VpuDec` |
| `Measure` | descent in a lexicographic order, for the loops of both clients |
| `BsRing` | positions, distances and copies in the bitstream ring |
| `DecInput`, `MCDecInput`, `dec_input*.cfg` | the decoder's input: ring, inserted headers, consumed bytes, resolution change, unclosed GOP filter |
| `DecInputProofs` | ring arithmetic and the account of bytes, for every ring and header size |
| `HantroDec`, `MCHantroDec`, `hantro_*.cfg` | the Hantro decoder |
| `HantroDecProofs` | its invariant, its accounts, and that it implements `FrameOwnership` |
| `VpuEnc`, `MCVpuEnc`, `enc_*.cfg` | the three encoders and `encode_stream` |
| `VpuEncProofs` | its safety properties, for every length of the file and GOP size |

Each API call is one action with the name of the C function, because a call is atomic for everyone
else; the answers of firmware, codec library and failing calls are the action's choices.
`PROJECT.json` "map" gives the lines of each definition.

### 2.1 VpuDec

Variables have the names of the `VpuDecObj` fields where they stand for one. `bs` is how full the
ring is (in units), `filledEOS`, and the VPU's own end mark; `vpuRun` tells whether a started frame
still awaits its interrupt (`busy`) or the interrupt was taken and the result not (`done`);
`dispFlag` are the VPU's display flags; `held` and `duty` are the application's: the frames in its
hands and the call the last flags ask for. `VPU_DecDecodeBuf` is made of `Entries` (the drain of an
EOS state on the way in), `VpuDecBuf` (fill, start, wait, output) and `VpuGetOutput` (index repairs,
then `NothingShown` or `ShowOutput`).

Constants choose the world: `Sane` - the firmware reports only what its own buffers allow, or
anything at all; `CallsFail` - any library call or allocation may fail; `Obedient` - the application
makes the call the flags ask for, or any call at any time; `FlushKeepsEnd` - whether the library's
flush leaves its end mark.

Abstracted: amounts of data are units (a header the wrapper inserts is less than one unit); the
mosaic and skip filters are a free choice `filter`; the address of a frame is the frame; range maps,
crop, interlacing and aspect ratio are left out. `ASSERT` only logs and is no guard.
`RegisterFrameBuffer` is called with no frame held, as `decode_stream.c` frees the old ones first.
Close, reset and open are one action, `Reopen`. An out-of-range display index is not modelled in
the flush. Not modelled: MJPG, file-play mode, i.MX5, and the parts listed in section 6.

### 2.2 DecPlay

`DecPlay` extends `VpuDec` and composes its actions with what `DecodeLoop` does around each call:
`pc` is the call to be made next, `setup` the options of a session, `play` the locals of the loop
(what is left of the file, the node in hand, the loop's counters, repeats), `phyNum` the memory
blocks the client has to free, `dog` the static counters of `VpuCheckDeadLoop`. `DecodeBuf` is one
turn of the loop up to and including what it makes of the return code; the watchdog's verdict is
part of it. `Close` ends a session and `Open` starts the next in the same process: the decoder is
fresh, the static counters are not. `quiet` (calls and bytes of this session since it last got
anywhere), `carried` (the session found the counters running) and `blamed` (the watchdog failed it)
are history variables.

The figures of `VPU_DecGetConsumedFrameInfo` are left open: whether the total equals the size of the
last unit is a choice once something has been told. One instance is alive at a time; `carried` is
what an earlier one does to the next. `VPU_DecConfig` is assumed not to fail. Sums that are only
compared with a limit stop one above it. The bound `Changes` limits the resolution changes of a
session: a firmware that alternates a change and a call without result for ever resets every counter
and is never cut off, in the code as in the model.

### 2.3 BsRing and DecInput

`DecInput` is the same instance as `VpuDec` seen from its input side; frame buffers and return codes
are left to `VpuDec`. `bits` holds the VPU's read pointer, how much is in the ring, `filledEOS`,
where the last reported frame ended, the sums of consumed bytes and of inserted headers; `gop` the
counters of the filter. The VPU reads any amount and reports frames at any place of what it has
read. Ghost fields: `past` (read since the last reported frame), `owed` (given by the application
and not yet told as consumed), `spoilt`, set where the code gives up the account: the whole ring
unreported (a full lap looks like an empty one), a flush between `INIT_OK` and the registration
(`nLastFrameEndPosPhy` stays from before, `vpu_wrapper.c:5826`), headers flushed before their frame
was reported, a forced fill of an initialisation that looks over-read. The length a frame is
reported with is taken as its end minus its start.

Noticed on the way and stated nowhere in the repository: the bound `MAX_DROPB_CNT` lets no picture
through, it only ends the counting (`keyCnt` masks until a key picture all the same); a VP8 sequence
header put in again after a resolution change is counted as consumed; with the frame-size capability
switched off by `VPU_DecDisCapability` the position a resolution change backs up from is stale.
Not modelled: the account of AVCC streams with short size fields (1546-1549), file mode.

### 2.4 HantroDec

The codec library is external: `Outcomes` says what the loop over `scanframe` and `decode` in
`VPU_DecDecode` may come to for given data, `Sensible` what a codec never does (decode into a frame
it does not own, find a new sequence before the old frames are out, ...), `MayWithhold` when
`getframe` may keep decoded frames. The ghost variables `node`, `given` and `stream` follow what
became of the application's input: offered, put, acknowledged, and at its end.
Abstracted: skip and drop flags, bytes (units instead; an AVCC node counts as what it amounts to
after rewriting), frame contents. That a single node fits the buffer is an assumption
(`SizeAssumption`): `VpuPutInBuf` (740-758) does not check it.

Formats are those `VPU_DecOpen` has a codec for, without RV, WEBP and MJPG; the header code for
DIVX3 (785-807) cannot be reached, because `VPU_DecOpen` refuses the format. A VC1_AP node with codec
data and fewer than four bytes is not put (854-862), and acknowledged all the same (1329): `Reads`
leaves that to choice, and such a node is not part of `given`. `VPU_DEC_CONF_RESET_CODECDATA` stores
what the application passes, so it may also mark a header as inserted that never was. In secure
mode a put-off acknowledgement goes to whichever node the next call offers (1342); the model has the
step, and no property claims that each secure node is read once.

### 2.5 VpuEnc

One API, three back ends (`opt.be`), driven by `encode_stream` or by an application `"any"` that
forces intra pictures, retries, resets and reconfigures at will. `log` is the stream: one entry per
successful call that gave something, with the picture offered, whether it was used, whether a header
and a picture came out. `FillsHeader`, `HeaderAlone`, `GivenOut` and `Filled` are the header
decisions of `VPU_EncEncodeFrame` (i.MX6), in the code's order: `nHeaderNeeded` is cleared before
the VPU is started. `vpu = "busy"` is a picture started and not awaited, after a time-out; every
later start is refused until `VPU_EncReset`.
Abstracted: sizes, bytes, AVCC rewriting, tiled input, rate control. "I" is a forced intra picture;
those the VPU inserts by itself (`gopSize`) are not told apart from "P". The H1 codec repeating the
header before an IDR picture (`prependSPSPPSToIDRFrames`, set at open) is taken from its name; a
codec that overruns the output buffer is assumed to say so. VP8 and HEVC, for which the client has
no option, are left out. A failing set-up ends `encode_stream`.

## 3. Runs

All runs finish within the five minutes; nothing is bounded but by the constants named.

| Run | World | What it shows |
|---|---|---|
| `dec_any` | any firmware, failing calls, calls in any order; AVC and VP8; 2 frames | `HeldProtected`, `NotOfferedTwice`, `NothingToRelease`, `ImplementsOwnership` |
| `dec_sane` | sane firmware, obedient application; AVC, MPEG4, VP8, RV, VC1_AP; 3 frames, ring of 3 units | `TypeOK`, `FreeMeansUsable`, `NeverLeftRunning`, `NotOfferedTwice`, `DisplayedMeansOwned`, `NoBufMeansUserHolds`, `RepeatMeansHeld`, `CodesMatchState` |
| `dec_vc1ap_skip` | VC1_AP | violation: the wrapper clears the flag of a frame it then offers |
| `dec_play` | any firmware, failing calls, the client of `decode_stream.c`; files empty, with a short last unit, without; sessions in a row | `PlayTypeOK`, `NoCallOutOfSequence`, `LiveFramesBacked`, `EndMeansAll`, `BlamedForOwnSilence`, `PlayEnds`, `SessionAdvances` |
| `dec_input` | ring of 4 bytes; streams without and with codec data; resolution changes, flushes, end of stream | `TypeOK`, `Ledger`, `BackupIsUnreported`, `MosaicUntilKey`; also that what is filled into the ring is copied out unchanged, for every place and length (an ASSUME of `MCDecInput`) |
| `dec_input_vp8` | VP8, ring of 7 bytes | violation of `AllBytesTold` |
| `hantro_obedient` | obedient application, complete units, copied and secure input, tiled or not; every call a step | `TypeOK`, `OutMeansOwned`, `WaitingIsTold`, `ImplementsOwnership`, `EndReached` |
| `hantro_any` | failing codec, calls in any order; AVC and VC1_AP, copied input | `HeldProtected`, `EosComplete`, `InputAccounted` |
| `hantro_tail` | incomplete last unit | violation of `EndReached` |
| `hantro_secure` | secure input | violation of `SecureInputKept` |
| `enc_streams` | three encoders, four formats, both applications, failing calls | `TypeOK`, `StreamDecodable`, `HeaderOnce`, `PicturesInOrder`, `HeaderInEveryIdr`, `EncodeEnds`, `EncodeAdvances` |
| `enc_idr_header` | VC8000E | violation of `AskedHeaderInEveryIdr` |

Why the bounds are enough. Two frames give one that is held and one the VPU works with, so every
mix-up of two frames happens; three give a frame decoded and not shown besides. The ring of three
units of `dec_sane` is empty, below and above the start threshold, and full; `dec_any`, whose
firmware answers anything at any filling, has a ring of one unit, empty or full. The decoder's properties
that the runs show for two frames are proved for any number (section 5). Four pictures (two passes
of two) with `nGOPSize` 2 make two IDR pictures with a picture between them, for the first, the
second and a later header; no flag of the encoder object counts further than that.
`MaxOwed` bounds what an application gives before it asks for the consumed bytes, and how far VC1_AP
headers make the account drift before it gives no more. An application that calls in any order is
asked for nothing, so `hantro_any` keeps no record of what it is asked for (`Asks`).

`dec_play` has one frame and one format: what two frames can mix up is `VpuDec`'s and is checked
there (`PlayImplementsVpuDec` carries it over), and here a frame matters only as one the client
fetches, gives back or has to free. The three files make the end of the file fall on a short unit,
on an empty one after a full one, and on the first read; one repeat makes every path into the loop a
second time; limits of one and two let each counter rest, count and pass. The limits are in the
order of the code, the client's (1000) not above the wrapper's (500000). `Surplus` 1 makes two frame
blocks to free, so that freeing all but one differs from freeing none; `FRAME_SURPLUS` is 0 in the
code and `MinFrames` larger. A ring of 4 bytes is empty, full, wrapped, with frames over the wrap
and ending one past the end, and takes two inputs of two bytes; VP8 is left out of `dec_input`
because its account drifts without bound (the finding below), and has a ring just large enough for
two headers and two units in `dec_input_vp8`. The properties of both modules are proved for every
value.

The five violations are the project's findings; `PROJECT.json` quotes the comment or document each
contradicts:

1. `dec_vc1ap_skip`: `vpu_wrapper.c` clears the display flag of a VC1_AP skip picture and offers it.
2. `dec_input_vp8`: the VP8 frame header inserted with the sequence header is taken off the consumed
   bytes twice; the total told stays one frame header short of what was given.
3. `hantro_tail`: an incomplete tail keeps the end-of-stream node from being taken; EOS never comes.
4. `hantro_secure`: a secure node is acknowledged while the codec still has to read it.
5. `enc_idr_header`: VC8000E accepts `VPU_ENC_CONF_ENA_SPSPPS_IDR` and does nothing about it.

Two things `dec_play` shows the code to do, which its properties leave room for: `total_null_loop`
is not cleared when the watchdog fires (4650-4659, although the comment says "all count"), so
sessions after such a failure may be failed at once until one of them gets to an output state
(`carried`); and with the account of consumed bytes switched on the test of `decode_stream.c:1189`
compares the bytes of all units with the size of the last, so a stream may be ended early and the
unit in hand dropped (`EndMeansAll` claims the contrary only without that account).

## 4. Fairness

`HantroDec!FairSpec`: an application at the end of its stream calls again until told EOS, does what
the flags ask for, and gives back the frames it has shown. This is the loop of `decode_stream.c`;
nothing is assumed of the codec beyond `Outcomes`: no progress except that a decode over complete
units ends for a reason the code names. `CountCalls` makes a call that changes nothing a step, so
that an endless row of such calls is a behaviour and not a stutter.

`DecPlay!Fairness`: the client, one thread that waits for nothing but the call it is in, makes its
next call until its session is done; every call returns, the wrapper's waits for the VPU being
bounded. It is weak fairness of `Step`, written so that TLC need not evaluate ENABLED: until `done` a
`Step` is always possible and nothing else is. Nothing is assumed of the firmware, and a next file
need not come. `PlayEnds` then rests on the three counters against endless loops.

`VpuEnc!FairSpec`: `encode_stream` makes its next call as long as it has one to make; every call
returns, if only because `VpuEncWaitBusy` gives up after `VPU_ENC_MAX_BUSY_CNT` waits. Nothing is
assumed of the application `"any"`.

## 5. Proofs

Checked by TLAPS for every value of the constants their assumptions allow; the assumptions are in
the modules and TLC evaluates them in every run.

i.MX6 decoder. `HeldProtected` is not inductive: a frame is protected because the wrapper clears
the flag only of frames it does not count as displayed, so the invariant must tie that count to the
application. `VpuDecProofs!Inv` adds `OwnedDisplayed` (a frame held or offered is in state DISP),
`NothingBeforeOutput` (no frame is held before the first output, on which the flush relies when it
drives the VPU) and `StartedIsDone`. The lemma on `VpuGetOutput` (`KeepsDisplayed`) holds for any
answer of the firmware; the rest is one lemma per action. From `Inv`: `TypeCorrect`,
`HeldFramesProtected`, `OfferedOnce`. Nothing is assumed of firmware, failing calls or application.
For a firmware in order, `RunInv` adds that filledEOS implies the VPU's own mark, so that whatever
is enough to start it is enough to make it answer: `StartedOnlyToAnswer`. It needs the assumption
`FlushKeepsEnd`: filledEOS survives the bit flush, and the VPU's mark has to do so as well.
`OnlyVc1apIsCleared`: what `dec_vc1ap_skip` finds violated holds of every other format.

`VpuDecAccounts` adds, when no call fails, that DISP is exactly held or offered, and that the frame
displayed last is one of these: `NoFrameLost`, `RepeatOnlyOfHeld`. With the repairs of H.264's indices
and RV's own check it gives `NoBufCanBeHelped`. `Usable` ties the wrapper's frame states to a firmware
in order - FREE exactly when the display flag is clear, DEC when the frame is still to be shown -
through every output, flush and drain: `NoFrameLeaks`. That no call fails is needed: when
`vpu_DecClrDispFlag` does (`vpu_wrapper.c:5778`) the frame is free to the wrapper and flagged in the
VPU, and a later output of it is called REPEAT although nobody holds it. `NothingLeftToRelease` holds
whatever fails: only a resolution change and a reopen lead to a state without registered frames, and
both clear all there is.

`VpuDecRefines` shows `DecoderKeepsOwnership`: for any set of formats without VC1_AP each step moves
the frames as `FrameOwnership` allows, by way of `Moves`, the few ways `held` and the slot change.
`PromiseKept` is about `FrameOwnership` alone: its steps leave at most one frame offered, and none
writable that is offered or held.

`VpuDecCodes` shows `CodesTellTheState`, with failing calls and any firmware: a successful call's
flags tell the state it leaves. `DecodeBufAgrees` and `FlushAllReturns` are the steps of it that a
client needs.

Decoding client. `DecPlayProofs!PlayInv` has five parts: `Typed` (types, and every counter within
its limit whenever a call is made), `InSequence` (the decoder's state for each value of `pc`, from
`VpuDecCodes`), `Blocks` (the blocks owned, which the registered frames need while the decoder is
live), `DogsOwn` (counters that started at rest count no more than the session's own silence) and
`FileKept` (bytes taken, in hand and unread are the file's size). From it: `PlayTypeCorrect`,
`ClientInSequence`, `FramesBacked`, `EndOfStreamIsAll`, `WatchdogBlamesOwnSilence`. Each action of
`DecPlay` being one of `VpuDec` or a stutter of it, `PlayImplementsVpuDec` gives the client all that
is proved of the decoder; `ClientKeepsOwnership` puts the chain together, from the client through
the decoder and the protocol to its promise.

That a session ends is liveness; what makes it end is not. `SessionLeft` is six numbers: repeats
left; what can still be announced or shown (a sequence header, resolution changes, frames, the end
of the display); units to read; refusals of a node the loop bears; the calls that follow an answer;
empty calls the watchdog bears. `SessionAdvances` says that every call makes the tuple smaller in
the lexicographic order (`Measure!Decreases`), whatever the decoder answers, and `SessionRunsOut`
proves it for every file, limit and number of frames. The proof needs to know what is displayed when
an answer comes back. `OneFrame` says it: this client gives a frame back before it decodes again, so
between two turns no frame is displayed, held or displayed last (`OneFrameAtATime`, for any number
of frames and with failing calls, because a session with a failed release decodes no more). So while
a session lasts DISP is exactly held or offered even when calls fail (`ClientLosesNoFrame`). With `OneFrame`
REPEAT cannot be answered, and the RV decoder's own check (`vpu_wrapper.c:5421`), which returns
without reaching the watchdog, cannot hold if as many frames are registered as
`VPU_DecGetInitialInfo` asked for but one: the hypothesis of `SessionRunsOut`. The client registers
`nMinFrameBufferCount + FRAME_SURPLUS` (`decode_stream.c:693`). The hypothesis is tight: with two
frames fewer TLC finds RV answering NO_ENOUGH_BUF for ever.

Decoder input. `GapIsDistance` says that the ring arithmetic of the code is the distance of two
positions, over the wrap and with a frame ending one past the end; `CopyGivesBackFill` that data is
copied out of the ring as it was filled in. `DecInputProofs!IInv` ties the sums to the ring: while
the account is not spoilt, what is owed is what lies between the last reported frame and the write
pointer, less the headers inserted (`AccountInv`), and the filter's counters to what was shown
(`FilterInv`). From it: `InputTypeOK`, `BytesAddUp`, `BackupIsExact`, `MaskedUntilKey`, and
`OnlyVp8ComesShort`: what `dec_input_vp8` finds violated holds of every other stream.

Hantro decoder. `HantroDecProofs!IInv` is `TypeOK`, `CodecInOrder` (handed-out and pending frames
are disjoint frames of the codec), `HeldOut` (a frame held or offered is out), `EndedMeansEmpty`,
`EosComplete` and `InputAccounted`. From it `HantroTypeCorrect` (no node overruns the buffer),
`HantroHeldFramesProtected`, `NothingAfterEos`, `BytesBalance`. For an obedient application,
`OutMeansOwned` is inductive together with `FetchedNext` (an offered frame is fetched next):
`HantroNoFrameLost`; and `HantroKeepsOwnership` is the refinement. `WaitingCodecIsServed`, when no
codec call fails: a tiled codec announces a sequence once, so `Waiting` keeps that while it waits the
application has been told and is asked for nothing else, and that nothing is found in state OPEN.

Encoders. A stream stays decodable because the object remembers what was given out; `EncInv` says
how. `StreamKnown` ties the fields to the log: the count of headers given out alone implies a
header in the log, `nHeaderNeeded` is cleared only when the format has none or one was given out,
and `nJustOutputOneHeader` (for VC8000E: a started stream with no picture) means exactly that the
last entry is a header alone. `InputKnown` ties the picture in the buffer to the last entry and
bounds the pictures of all passes. `Kinds` sums up what a call may answer, `Leaves` what that does
to the object and the log; each kind has its lemma. From `EncInv`: `EncoderTypeCorrect`,
`AlwaysDecodable`, `NoHeaderTwice`, `NoPictureLost`, and the action property `EveryIdrHasHeader`;
with VC8000E left out that is the promise `enc_idr_header` finds broken (`OthersKeepIdrPromise`).
`EncodeRunsOut` shows `EncodeAdvances`: each call of `encode_stream`, which has no counter against
endless loops, makes `WorkLeft` smaller - stages of the program, passes, pictures of the file, whether
the picture in hand is still to be used, whether a header may still be given out alone.

Only model-checked: liveness (`PlayEnds`, `EndReached`, `EncodeEnds`), and that the violations exist.
Fairness and ENABLED are out of the prover's reach, and so is the step from a descending tuple to
an end, an induction over a well-founded order whose library theorem takes an operator as a
parameter: the proofs give the descent, TLC the end. For `EndReached` no descent is stated: what
brings the application to its end there is the codec taking units, in amounts it chooses. Every
invariant and every action property of a passing run has its theorem.

## 6. Not modelled, and why

- i.MX6 decoder: MJPG, file-play mode and i.MX5 (other paths of the same functions); the skipping of
  pictures in decode order until a key picture (`iframesearch_allowed`); two instances alive at once
  sharing the watchdog's counters: nothing bounds what the other does to them, so no property of one
  instance would hold.
- Header insertion and AVCC/HVCC/VC1 conversion: when headers go in and what their bytes do to the
  account is in `DecInput`, the Hantro side in `HantroDec`, VC1_AP's header that cannot be built in
  `VpuDec`; the bytes themselves are formats, written once and best tested on streams.
- Clients: options, file and display output, the early returns of `decode_stream` before the decoder
  is open (which leak its two buffers) and of `encode_stream`.
- Codec libraries, VPU firmware and kernel: external, as described.
- Memory management beyond the number of the decoding client's blocks, rendering, timers, dumps, logs, version and table look-ups: no decisions.

## 7. Plan

Done: ownership protocol, i.MX6 decoder, its input side, its client and watchdog, Hantro decoder,
encoders, with their theorems: safety for every value of the constants, and for both clients the
descent their end rests on. What would come next:

1. The decoder's input composed with `DecPlay`, so that the consumed bytes the client adds up are
   those of the account and the early end of a stream is a run of its own.
2. MJPG and file-play mode of the i.MX6 decoder.
