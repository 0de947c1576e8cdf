# Formal models of the AECM test bench and of WebRTC

This directory is a TLA+ verification project for this repository: an offline
test bench (`main.cpp`) around WebRTC's mobile echo canceller, AECM, in a
modified form (blocks of 256 instead of 64 samples, and a floating-point path),
together with the WebRTC tree it was taken from. The modules model the code, TLC
checks them on small instances, and TLAPS proves the safety properties of seven
components for every value of their constants: the ring buffer, on which the echo
canceller rests, the AECM instance and the loop of `main.cpp` around it, the
reframing of the AECM core, the delay estimator, the way of an RTP packet through
history and pacer, threads and their message queues, and the ICE connection.

## 1. The system

The Xcode project `webrtaecmut.xcodeproj` compiles `main.cpp`, `WaveIO.cpp`,
`aecm_core.c`, `aecm_core_c.c`, `echo_control_mobile.c`, `delay_estimator.c`,
`delay_estimator_wrapper.c`, `ring_buffer.c` and the fixed-point signal
processing library. The rest of `webrtc/` is a vendored tree that this program
does not use; three of its parts whose correctness depends on the order of
concurrent events are modelled as well: threads and message queues, the way of
an RTP packet through history and pacer, and the ICE connection.

    main.cpp ----> CWavFileOp (WaveIO.cpp): near end, far end, result
       |
       |  10 ms blocks: BufferFarend(far), Process(near, delay)
       v
    AecMobile (echo_control_mobile.c) -- farendBuf: RingBuffer, 50 frames
       |  frames of 80 samples
       v
    AecmCore: ProcessFrame (aecm_core.c) -- farBuf, four RingBuffers
       |  blocks of 256 samples
       v
    AecmCore: ProcessBlock[withFloat] (aecm_core_c.c) -- far history, channel,
       |                                                VAD, gains
       v
    delay estimator (delay_estimator*.c) -- binary far and near histories

    encoder --> RTPSender -- stores --> RTPPacketHistory
                   |  ^                      ^
        InsertPacket  TimeToSendPacket       |  GetPacketAndSetSendTime
                   v  |                      |
    process thread: PacedSender (queue, budgets, prober) --> transport

    rtc::Thread <-- Post, Send --> rtc::Thread (queue, send list, wake-up event)

    P2PTransportChannel -- check, ping, prune --> Connection -- StunRequestManager
                                                      ^ pings, answers, data

### Inventory

| Component | State | Operations | What is hard | What makes it correct |
|---|---|---|---|---|
| ring buffer (`common_audio/ring_buffer.c`) | `read_pos`, `write_pos`, `rw_wrap`, memory | Create, Init, Write, Read (pointer or copy), MoveReadPtr | positions may rest at the end; partial writes, clamped seeks, rewinds; pointers into the memory | delivers the written stream in order; counters never negative; pointers stay valid as long as promised |
| AECM instance (`aecm/echo_control_mobile.c`) | far-end ring, startup state, sound card statistics, delay tracker, last frames | Create, Init, BufferFarend, Process, set_config, Init/GetEchoPath | render and capture interleave freely; underrun, overrun, stuffing; counters that must end the startup; re-initialisation | startup ends, in time and with the right backlog; far-end samples reach the core; the delay is debounced; nothing undefined is used |
| AECM core, reframing (`aecm/aecm_core.c`) | delay line `farBuf`, four rings | InitCore, ProcessFrame | 80 and 256 have no small common multiple; failing blocks; optional clean input | far, noisy and clean samples stay synchronized; constant latency |
| AECM core, block processing (`aecm_core.c`, `aecm_core_c.c`) | far history, channels, energies, VAD, gains, noise estimate | ProcessBlock, ProcessBlockwithFloat, Control, InitEchoPathCore | two far histories and an estimated delay must agree; stored/adaptive channel switching | the far-end spectrum used is the one the delay refers to |
| delay estimator (`utility/delay_estimator*.c`) | binary spectra, bit counts, histogram, candidate | Create/Init, AddFarSpectrum, Process, set_history_size, set_lookahead, soft reset | several estimators share one far end; resizing; index arithmetic | the delay is -2 or inside the history; indices stay inside the arrays |
| wave files (`WaveIO.cpp`) | header, position | ReadHeader, WriteHeader, ReadSample, WriteSample, UpdateHeader | short reads; header written twice | the header describes the data |
| RTP history and pacer (`rtp_rtcp/source/rtp_packet_history.cc`, `pacing/`, parts of `rtp_sender.cc`) | ring of stored packets; queue with four views of its contents, budgets, prober | Put, Get, Has, SetStorePacketsStatus; InsertPacket, Process, Pause, UpdateBitrate; SendToNetwork, ReSendPacket, TimeToSendPacket | three threads, two locks never held together; the pacer calls out of its critical section; the transport refuses packets; a ring that grows | what waits in the pacer is still stored and found; nothing is sent twice unasked; first sends are in order |
| threads (`base/thread.cc`, `base/messagequeue.cc`, wake-up of `base/physicalsocketserver.cc`) | posted and delayed messages, send list, event, stop flag | Post, PostDelayed, Send, Clear, Quit, Get, Dispatch | Send waits while it runs handlers of the thread it waits for; one event for all wake-ups; a handler is cleared by one thread while another has popped its message | no lost wake-up; no deadlock of two; no pointer into a frame that is gone; nothing handled twice or after it was cleared |
| ICE connection (`p2p/base/port.cc`, `stunrequest.cc`, parts of `p2ptransportchannel.cc`) | write state, receiving, unanswered pings, outstanding requests | Ping, answers, timeouts, Prune, UpdateState, deletion | late, duplicate, lost answers; pruning with pings under way | writable only on evidence; a healthy connection stays writable; a silent one goes away |
| test bench (`main.cpp`) | loop position, filter history | one loop | the order of calls; ends of the two inputs | every block is processed once |

The test bench is sequential: there are no threads and nothing is persisted
between runs, so its hazards are those of call sequences, of counters and
positions at their limits, of state that survives Init, and of progress. The
interleaving that matters is the one of the two callers of an AECM instance,
render (`BufferFarend`) and capture (`Process`), whose order the API leaves open.
In the other three parts threads, messages and time are what is hard.
`PROJECT.json` lists the hazards with the line at which each one bites.

## 2. Modules

| Module | Models | Kind |
|---|---|---|
| `StreamWindow` | what a ring buffer promises: a window over the written stream | abstract specification |
| `RingBufferOps` | the functions of `ring_buffer.c` as operators on a record | operators |
| `RingBuffer` | one buffer and every call on it; refinement mapping to `StreamWindow` | component |
| `RingBufferLemmas` | what each operator of `RingBufferOps` does to the window | proofs |
| `RingBufferProofs` | theorems about `RingBuffer` | proofs |
| `EchoControlMobile` | `AecMobile`: Init, BufferFarend, Process, delay tracker | component |
| `AecmLockstep` | `main.cpp`'s loop on an `EchoControlMobile` | composition |
| `EchoControlMobileProofs` | theorems about `EchoControlMobile` and `AecmLockstep` | proofs |
| `AecmFrame` | `WebRtcAecm_ProcessFrame` on four `RingBufferOps` buffers and `farBuf` | component |
| `AecmFrameProofs` | theorems about `AecmFrame` | proofs |
| `DelayEstimator` | the binary delay estimator, its far end and its settings | component |
| `DelayEstimatorProofs` | theorems about `DelayEstimator` | proofs |
| `PacketHistoryOps` | `RTPPacketHistory` as operators on a record | operators |
| `PacedSenderOps` | the pacer's queue, budgets and `BitrateProber` as operators | operators |
| `RtpSendPath` | the threads that use them, and `RTPSender` between them | composition |
| `RtpSendPathProofs` | theorems about `RtpSendPath` | proofs |
| `RtcThread` | `rtc::Thread`, `MessageQueue` and the wake-up event | component |
| `RtcThreadProofs` | theorems about `RtcThread` | proofs |
| `IceConnection` | `Connection`, its STUN requests, its channel's calls, the network | component |
| `IceConnectionProofs` | theorems about `IceConnection` | proofs |
| `MC...` | instances for TLC | model checking |

**RingBufferOps / RingBuffer.** A record has the fields of `struct RingBuffer`
(elements instead of bytes, so `element_size` disappears). `WriteBuffer`,
`MoveReadPtr`, `ReadData`, `ReadBuffer` are the functions' effects, `WriteCount`,
`MoveCount`, `ReadCount` their results. `RingBuffer` adds what the caller holds:
`view` tells whether `WebRtc_ReadBuffer` returned a pointer into the memory or a
copy. `delivered` and `slack` are history: what the view showed, and how many
more elements may be written before its memory is reused.

**EchoControlMobile.** The record `aecm` has the fields of `AecMobile` that the
control depends on. The far-end ring is reduced to its number of unread samples;
this is what `StreamWindow` says about it, and the refinement proof is what
justifies it. A frame of far-end samples is reduced to where it comes from
(`"far"`, `"silence"`, `"stale"`, `"garbage"`): this is all `farendOld` needs.
Every number of the code is a constant, so that small instances have the same
control. `InitInstance`, `BufferFarend`, `ProcessStartup` and `ProcessRunning`
are the handlers, `...Refused` and `NullPointer` their early returns.
`ProcessRunning` is given how many frames the core accepts. `short` counters
wrap (`Short`), `size_t` products of negative counters are huge (`SizeAtLeast`).
`waited` and `streak` are history.

**AecmLockstep** adds whose turn it is: `Begin`, then `Render` and `Capture` in
alternation with a constant delay (0 in `main.cpp`; any value here).

**AecmFrame.** A sample is its position in the input stream modulo `Period`, so
that samples which belong together are equal and a lost, repeated or displaced
sample is seen. `Zero` is what an initialized ring holds, `Garbage` what `farBuf`
holds after `InitCore`, which does not clear it. `knownDelay` of the core is
never assigned after `InitCore`, hence `FetchFarFrame` has no delay to apply.
The processing of a block is abstracted to its outcome.

**DelayEstimator.** One estimator and the far end it refers to; the variables
are the fields of `BinaryDelayEstimator` and `BinaryDelayEstimatorFarend`. A
binary spectrum is a set of bits, and which one the wrapper's thresholds
(`BinarySpectrumFix`, `BinarySpectrumFloat`) produce is left open. Arrays are
functions from 0, `Pushed` and `Moved` are the `memmove`s. `IsCandidate` and
`IsWorst` say what the search loop finds. The histogram is counted in units of
2^-14, its fraction in twentieths; the code's floats round, the model does not.
Every operation that leaves the history size alone is an action; nothing in AECM
calls `set_history_size` after Create. `since` is history.

**PacketHistoryOps / PacedSenderOps / RtpSendPath.** A stored packet is its
sequence number, its send time and whether it may be retransmitted; all packets
have one size, there is one video stream and no RTX. The pacer's priority queue is
a set, and `IsTop` says which of its elements every other one is below. Video
packets have normal priority and retransmissions high priority, so that the
comparator is a strict order here; audio packets have high priority too, and are
not modelled. A packet that `PutRTPPacket` refuses (`SendToNetworkFails`) and a
padding packet that the transport refuses only use up their numbers.
History and pacer have a lock each; a step is what a thread does under one lock,
so `SendToNetwork` and `SendToNetworkEnqueues`, `ReSendPacket` and
`ReSendPacketEnqueues`, and the parts of `Process` around the callback are
separate actions (`encoder`, `receiver`, `process` and `current` say where each
thread is). Sequence numbers wrap at `SeqRange`. `sent`, `requested`,
`resent_at`, `last_first`, `newest` and `touched` are history.

**RtcThread.** Each thread has a stack of frames: `ProcessMessages`, which is
somewhere in `Get`, at the bottom, and above it the active `OnMessage`, `Send`,
`ReceiveSends` and `Post` calls; one step is what a thread does under one lock, or
between two of them. A message is popped under the lock (`GetTakesMessage`,
`ReceiveSend`), which leaves a frame at `"Dispatch"`, and its handler is called
after the unlock (`Dispatch`); `SendPushes` and `SendSignals` are the two halves of
Send before its loop. Handlers post, send and clear as the constants `PostsTo`,
`SendsTo` and `ClearsOf` allow: each is a set of pairs of threads, so that a handler
may clear another thread's queue, as `~MessageHandler` does for one queue after the
other. `Clear` takes any set of the messages that are queued, or popped and not yet
dispatched; the popped ones stay where they are. The `select` of the threads in
`FailingWaits` may fail: `Get` then ends its loop, Send goes round once more. `Peek`,
disposal, and `Send` to the own thread (a plain call) are left out. `handled`,
`gone` (cleared or refused) and `missed` (popped when another thread cleared) are
history.

**IceConnection.** A time is kept as an age that stops just beyond the limits it
is compared with, so that behaviours are infinite and the clock needs no bound.
`pings` holds the ages of the unanswered pings, of which the code looks at the
first and the `CONNECTION_WRITE_CONNECT_FAILURES`-th only. `requests_` is the map
of `StunRequestManager` with the age of each request; a request is never resent
and its one timer deletes it. `CheckStates` and `CheckAndPing` are
`OnCheckAndPing`, `SortAndPrune` and `SortAndDestroy` are `SortConnections`, as
seen by one connection: what the channel decides because of the others is left
open. The answer to a ping is chosen when it is sent and may be delivered at any
later time, several times, or never. Reads are allowed while MSG_DELETE waits,
which the socket server only does in some orders. `early` and `proven` are
history. `state_`, nomination and roles influence nothing that is modelled.

## 3. Runs

| Run | Shows |
|---|---|
| `ring_buffer` | type, `Positions`, `ViewStable` and the refinement, for capacity 3, two elements, requests of up to 4 |
| `aecm_instance` | narrowband, scaled, two sessions, every order of calls: `DecidedInTime`, `FedIsDefined`, `StartsWithBacklog`, `KnownDelayDebounced`, and, with fairness, `EchoCancellerStarts` |
| `aecm_lockstep` | the code's numbers, delays 0..284 ms: `FedIsDefined`, `NothingLost`, `Settles` |
| `aecm_frame` | the code's lengths divided by 16, up to two failing blocks: `Synchronized`, `CleanSynchronized`, `SteadyLatency`, `BacklogBounded` |
| `delay_estimator` | two delays, two spectra, every order of calls: `CandidateExists`, `CountsMatch`, `DelayInRange`, `QualityInRange`, `RobustChangesAreSpaced` |
| `rtp_send` | encoder, NACKs and pacer interleaved: `QueueConsistent`, `PendingStored`, `FindsStored`, `SentOncePerRequest`, `MediaInOrder`, `ResendSpaced` |
| `rtc_thread` | three threads: `ReadyAlive`, `OnlyTargetReenters`, `HandledOnce`, and, with fairness, `PostsHandled` and `SendsReturn` |
| `ice_connection` | an unreliable network and a channel that prunes: `ProvenSincePrune`, `ResponseKeepsWritable`, and, with fairness, `SilentIsDeleted` |
| `aecm_replay` | violation: an underrun replays memory that was never a played frame |
| `aecm_stuff` | violation: the output is stuffed for the first three frames, not only for the first |
| `rtp_retry` | violation: a packet the transport refused is overwritten in the history while it waits to be sent again |
| `rtc_cancel` | violation: a handler cleared by another thread is called for the message that was already popped |

The components' type invariants are checked in the same runs, except the one of
`IceConnection`, which is only proved.

### Bounds

* `ring_buffer`: requests exceed the capacity by one, so that every clamp and
  every wrap occurs; with all binary patterns written, two misplaced elements
  differ in some behaviour. The theorems remove the bound.
* `aecm_instance`: frames of two samples and a far-end buffer of
  four frames; the thresholds keep their order (`LowDiff < TargetDiff <
  HighDiff`, one block smaller than the start size, the largest start size
  larger than the buffer), the delays are one below the legal range, one inside
  and the largest. `MaxInits` bounds re-initialisation, `ShortRange` the
  counters, so that they can be seen to wrap. Blocks are single frames in
  narrowband: with two frames `FedIsDefined` is false (`aecm_replay`), and the
  theorems cover both rates. Wideband blocks of two frames run in `aecm_lockstep`.
* `aecm_lockstep` and `aecm_replay` use the numbers of the code. 284 ms is the largest delay for which nothing is
  lost in wideband; from 285 ms on samples are dropped and from 490 ms on all of
  them.
* `aecm_frame`: 80, 256 and 1024 are 5, 16 and 64 times 16, and nothing in the
  reframing looks at a single sample, so the instance wraps and leaves
  remainders exactly as the code does. `Period` exceeds twice the samples that can be in
  flight. Two failures show that the backlog does not grow with them. `aecm_stuff` is
  the same instance without failures.
* `delay_estimator`: two bits, so that a far-end spectrum is silent or loud, and
  thresholds scaled with the maximum mean (8 instead of 32 << 9) in the order
  the code has them. `MaxHits` and `MaxProbability` bound two counters that grow
  with every block; both lie above every threshold they are compared with. The theorems
  remove the bounds.
* `rtp_send`, `rtp_retry`: three packets whose numbers wrap to 0, the number of an
  empty slot; a history of one slot that grows to three, so that slots are reused
  and added; a budget that makes the queue wait; one probe; two NACKs; one call
  that pauses, changes the bitrate or resets the history; two milliseconds,
  with a resend interval and a longest expected wait of one and two.
* `rtc_thread`: five messages, of which three are made while two threads run (Sends
  nested in both directions with a posted or delayed message in between) and two
  while all three run (a third thread sends to one that is inside a Send); one
  Clear, of a thread's own queue or, by the third thread, of another's; one thread that may quit
  and whose `select` may fail. `rtc_cancel` needs three messages. Only two threads
  send to each other: three that send in a ring wait for ever, since each handles
  only what its own target sends.
* `ice_connection`: the limits keep the order they have in `port.h`; two pings
  must fail instead of five. Two transaction ids, each free again once nobody
  waits for its answer and none is under way.

### Fairness

`FairSpec` assumes that both sides keep delivering blocks of a legal size (weak
fairness of `BufferFarend` and of `ProcessStartup`), nothing about their order
or about the delay reported; this is what an audio device does while a call
lasts. `AecmLockstep`'s `LSpec` assumes that the loop of `main.cpp` goes on.
`RtcThread`'s `LSpec` assumes that each thread goes on whenever it can, so that
handlers return, and that time passes. `IceConnection`'s `LSpec` assumes that time
passes, that the thread handles due timers and posted messages, that the channel
goes on checking its connections and pings those that have not timed out in turn
(`OnCheckAndPing` posts itself again; `FindNextPingableConnection` takes the one
not pinged for longest), and that the network keeps no answer for ever. It
assumes nothing about answers. A remote candidate without a password is never
pinged; the model starts when it has one.

Deadlock is not checked in `rtc_thread`, where threads may all be idle or have
exited, and in `ice_connection`, where the connection ends with its deletion.

## 4. Findings

Four comments or documented promises do not hold of the code; each has a run
whose counterexample shows it (`findings` in `PROJECT.json`):

* `aecm_replay`: `Init` clears half of `farendOld`.
* `aecm_stuff`: the comment in `ProcessFrame` that stuffing "should only happen for
  the first frame" dates from blocks of 64 samples. With 256 the first three frames
  are stuffed, which is the silence that `SteadyLatency` describes.
* `rtp_retry`: a packet refused by the transport is taken for sent by the history
  and may be lost.
* `rtc_cancel`: `AsyncInvoker` promises that calls in flight are cancelled when it is
  destructed. A call that its target thread has popped and not yet dispatched is not.

A fifth is refuted by a theorem instead of a run. `echo_control_mobile.h` (line 112)
accepts 80-sample blocks, and a comment in `Process` (line 348) says "for really bad
sound cards, don't disable echocanceller for more than 0.5 sec". With 80-sample blocks at
16 kHz `nBlocks10ms` is 0, neither condition that ends the check of the sound card
buffer can hold, and the echo canceller stays disabled for ever
(`ShortBlocksNeverStart` in `EchoControlMobileProofs`).

More observations come with the models, without a run of their own:

* From a constant delay of 490 ms on, in wideband, the far-end buffer is rewound
  by as much as is read, and no new far-end sample is accepted although every
  `BufferFarend` returns 0.
* The clean near end is synchronized with the noisy one only when
  it is passed for every frame (`CleanGiven` in `aecm_frame`) or for none.
* The latency is the whole frames below one block only if what remains divides the
  frame and the block (`UnitAssumption`), as 16 does with 80 and 256. For other
  lengths the output ring runs dry once more, later, and is stuffed again.
* A caller that changes from blocks of 20 ms to blocks of 10 ms stretches the check
  of the sound card buffer to three quarters of a second: `checkBufSizeCtr` counts
  calls, and each call takes all of them for blocks of its own size.
* A NACK for a packet that still waits in the pacer marks it as sent in the history,
  and it may then be overwritten like one the transport refused (both are `touched`
  in `PendingStored`, which claims nothing of them); it may also leave as a
  retransmission before its own turn, which `MediaInOrder` does not count. `Pause`
  does not stop a `Process` loop that is in the callback. The pacer's comparator is
  not a strict weak order.
* A Send whose target exits between the look at `fStop_` and its last look at the
  send list waits until somebody clears the target's queue (`Lost`).
* `pings_since_last_response_` survives the return from WRITE_TIMEOUT to
  WRITE_INIT when data arrives, so that the next UpdateState times the connection
  out again although it was to "start up again". A second Prune of a pruned and
  timed-out connection leaves the requests made meanwhile outstanding.

## 5. Proofs

Every theorem has the form `Spec => []P` or `Spec => P`; the assumptions on the
constants are the named `ASSUME`s of the component's module, which the code's
numbers satisfy and TLC evaluates on its instance. Where a theorem needs more,
its statement says so.

`RingBufferProofs` proves, for every `ElementCount > 0`, every set `Value` and
every `MaxRequest` (`RingBufferAssumption`):

* `TypeCorrect` and `PositionsInvariant`: `TypeOK` and `Positions`.
* `ViewStability`: `ViewStable`, which is not inductive: it does not say where in
  the stream the view lies. `ViewInWindow` does: the delivered elements are the
  elements `slack+1 ..` of the window `Written(buf)`, so a write of k elements
  moves them k places and costs k of the slack. The inductive invariant is
  `TypeOK /\ Positions /\ ViewInWindow`.
* `Refinement`: `Spec => RefinesStreamWindow`. The lemmas of `RingBufferLemmas` say
  of each operator that it keeps the buffer well formed and what it does to
  `Written` and `available_read`; every step then maps to the step of
  `StreamWindow` of the same name.

`AecmFrameProofs` proves, with the same lemmas, for all lengths that satisfy
`AecmFrameAssumption` and `UnitAssumption` (section 4) and any number of failing
blocks:

* `TypeCorrect`; `BlocksSynchronized`: `Synchronized`; `LatencyConstant`:
  `SteadyLatency`; `BacklogNeverGrows`: `BacklogBounded`.
* `CleanBlocksSynchronized`: `CleanSynchronized`, if the caller passes the clean
  near end always or never (`CleanGiven # BOOLEAN`).

What is true between calls is more than what the last call shows, so the invariant
adds: `InStep`, the far and the noisy ring are equal records, position by position;
`Backlog`, what waits is the end of the input, a whole number of units, and fits
below the latency together with the output; and without failures `Starting` (no
block yet, all input waits) and then `Steady` (input and output waiting make up
exactly the latency, and the output continues the stream). A multiple of `Unit`
below a block is at most the latency: this is why a frame can always be taken after
the first stuffing.

`EchoControlMobileProofs` proves, for all numbers of frames, thresholds and limits
(`EchoControlMobileAssumption`) and every sequence of calls:

* `TypeCorrect`: `TypeOK`, with the unread samples within the far-end buffer
  although stuffing moves the read position by a difference that may be negative.
* `StartBacklogExact`: `StartsWithBacklog`. It needs `WholeFrames`: until the echo
  canceller starts, the unread samples are whole frames, so that the surplus that is
  dropped at the start leaves the decided size exactly.
* `DelayDebounced`: `KnownDelayDebounced`. `CounterInStep` relates
  `timeForDelayChange` and the sign of `lastDelayDiff` to the history of the
  estimates.
* `CheckEndsInTime`: `DecidedInTime` for a caller that keeps to one block size of at
  least 10 ms (`SteadyCaller`). Without either half of this it is false: section 4
  and the next theorem. `CheckClock` relates the call counter to the signal
  captured, also when the `short` counter of stable blocks wraps.
* `ShortBlocksNeverStart`: with 80-sample blocks at 16 kHz the startup phase never
  ends (`StillChecking`): the counters that would end it are multiplied by zero.
* `SingleFramesDefined`: `FedIsDefined` for a caller of single frames, whose
  underruns only replay the half of `farendOld` that Init clears
  (`FirstFrameClean`). With two frames it is false: `aecm_replay`.
* `LoopLosesNothing` and `LoopFedDefined`: `NothingLost` and `FedIsDefined` for the
  loop of `main.cpp` (`LSpec`) with every constant delay that suits the far-end
  buffer (`LoopFits`): with the code's numbers any legal delay at 8 kHz and up to 279 ms at
  16 kHz. The run shows that 284 ms is the true limit; from 280 to 284 ms it is only
  model-checked. The invariant `LInv` follows the loop through its phases:
  `LCheck`, `LFill` and `LRun` say how much is unread at each turn.

`RtcThreadProofs` proves, for any threads, messages, initial queues in which no
message occurs twice, permissions to post, send and clear, and failing waits
(`RtcThreadAssumption`), with Sends nested to any depth:

* `TypeCorrect`; `ReadyFlagsAlive`: `ReadyAlive`; `NoOtherReenters`:
  `OnlyTargetReenters`; `NoneHandledTwice`: `HandledOnce`.

`ReadyAlive` relates the waiting Sends of one stack to the handlers of another and
to the send lists; the invariant adds which stacks are legal
(`Stacks`), that a message is in one place only (`Apart`) and neither handled nor
cleared while it waits (`Untouched`), and that no handler is active for a message
whose Send was told that it is over (`Sends`). A message that a thread has popped, or
is about to put into a queue, is in its hand (`InHand`) and waits as well. A frame at
`"Dispatch"` is always the top one of its stack (`DispatchOnTop`): a thread whose
handler runs has dispatched everything it has popped. That is why a Clear by the
queue's own thread is complete, and one by another thread misses at most one message.
`HandledOnce` is what `Untouched` says of the message in hand when it is dispatched.

`DelayEstimatorProofs` proves, for every history size, lookahead, set of spectra,
set of shifts and value of the thresholds, `Spec =>` always `TypeOK`,
`CandidateExists`, `CountsMatch`, `DelayInRange`, `QualityInRange`, and
`RobustChangesAreSpaced`. The assumptions are the types of the constants
(`SizesAssumption`, `ThresholdAssumption`), an initial mean below the maximum
(`MeanAssumption`) and that an update of a mean at least halves the difference
(`StepAssumption`; the code shifts by 7 to 13). The inductive invariant adds

* `SizesFixed`: without `set_history_size` both sizes are those of Create;
* `HistogramLimited`: no bin exceeds `kHistogramMax`. It needs `DelayInRange`:
  the bins near the estimate lose the difference between the estimate's mean and
  the smallest one, which is not negative because `compare_delay` is a delay of
  the history whenever such bins exist;
* `HitsAfterChange`: a candidate other than the estimate has collected all its
  hits since the estimate was made, which is what makes the changes spaced.

`CandidateExists` rests on `MeanStaysBelow`: the mean estimator rounds toward the
old mean, so a mean below the maximum never reaches it.

`IceConnectionProofs` proves, for every set of transaction ids and all time limits
that are ordered as in `port.h` where it matters (`IceConnectionAssumption`: the
connect timeout and the largest round trip do not exceed the write timeout):

* `TypeCorrect`: `Spec => []TypeOK`.
* `WritabilityProven`: `Spec => []ProvenSincePrune`. The inductive invariant adds
  `EarlyUnknown`: the answers to pings sent before the last prune are still under
  way, so that their ids are not used again, and no request waits for them.
* `ResponseSecuresWritability`: `Spec => ResponseKeepsWritable`. It rests on
  `PingsYoung`: no ping in the list of unanswered ones is older than the last
  response, because a response clears the list.

`RtpSendPathProofs` proves, for every capacity of the history, range of sequence
numbers, rate, time limit and number of packets, NACKs and calls
(`RtpSendPathAssumption`), and every interleaving of the three threads:

* `TypeCorrect`; `QueueAlwaysConsistent`: `QueueConsistent`; `PendingAlwaysStored`:
  `PendingStored`, of packets that were never marked as sent while they waited;
  `StoredAlwaysFound`: `FindsStored`; `NothingSentUnasked`: `SentOncePerRequest`;
  `FirstSendsInOrder`: `MediaInOrder`; `ResendsAlwaysSpaced`: `ResendSpaced`.

A stream may start with any number, so the numbers wrap, but it uses each number
once: `MaxPackets` is at most `SeqRange` (65536 in the code). All seven follow from
one inductive invariant, `IndInv`, because they need each other: the order and the
number of sends need a consistent queue, and the history keeps a packet only as long
as the pacer has not sent it.

* `Slots`: packets fill the slots of the history in order and no number is stored
  twice. Without it `FindSeqNum` could find an empty slot, whose number is 0, before
  the packet with the number 0.
* `Recorded`: a stored packet that a NACK found is marked as retransmitted, with a
  send time not before that NACK. This is what makes resends spaced although the
  pacer's own sending moves the send time.
* `QueueOK`: `QueueConsistent`, with the sums over a finite set of packets, no two of
  which have the same key; in terms of the packet that Process holds (`Outside`).
* `InOrder` and `Popped`: the media packets in the queue come after the last one
  sent, the comparator orders them like their numbers, and the one Process holds is
  the first of them. `Popped` is needed because packets are queued while Process is
  outside its lock, and a refused packet goes back.
* `Budgeted`: what was sent of a packet and the copies of it that are still with the
  encoder's thread, the receiver's thread or in the queue are together at most one
  more than the NACKs that found it.
* `Waits`: a packet that waits is in a slot with send time 0, which `PutRTPPacket`
  never overwrites while the history can grow, unless it was touched: found by a NACK,
  refused by the transport after it was marked (false then: `rtp_retry`), or purged. A
  NACK may
  find a packet that the encoder's thread has stored and not yet queued; the
  invariant says that it is touched then.
* `Clocks`, `Held`, `Counted`: no time is in the future; which packets the threads
  hold; `packet_counter_` is at most the packets stored and the NACKs.

`SumFunction` of the community modules is a fold, and the library's induction theorems
are out of the provers' reach (they take an operator). The facts about sums are
proved from a minimal subset that violates them (`LeastSubset`): strict inclusion of
finite sets is well founded, a theorem without such a parameter.

Only model-checked: everything about liveness (`EchoCancellerStarts`, `Settles`,
`PostsHandled`, `SendsReturn`, `SilentIsDeleted`), which is outside TLAPS's reach,
and the loop of `main.cpp` with delays from 280 to 284 ms. Every invariant and every
action property of the passing runs is stated by a theorem. The four properties of
the violation runs are false of the code in general; where a theorem states one of
them, it says for which callers it holds.

## 6. Not modelled

* The spectral arithmetic of a block (FFT, energies, Wiener filter, NLP, comfort
  noise, the float path) and the signal processing library: numerics.
* `set_config`, echo path import and export, far history, VAD and channel
  storage, the spectrum thresholds of the delay estimator, wave files, playback
  filter: see the plan.
* Memory allocation failures; `AEC_DEBUG` and `AECM_DUMP_DEBUG` code.
* `set_history_size` of the delay estimator, which AECM does not call.
* The rest of the vendored WebRTC tree: codecs, devices and signal processing are
  numerics or I/O; the voice engine, NetEq, the jitter buffer, RTCP, FEC, audio
  packets in the pacer, `ProcessThread`, sockets, PseudoTcp and the choice among
  several ICE connections are state machines of their own that are not modelled yet.

## 7. Plan

1. `AecmBlock`: far history and its alignment with the estimator's, AECM's use
   of the estimator block by block (including whether an estimate is backed by
   data), startup state, VAD and channel storage; the spectrum used is the one
   the delay names.
2. Two estimators that get the same near end, one of them with robust validation:
   the robust one leaves the initial state no later (`delay_estimator_unittest.cc`).
   The thresholds of `BinarySpectrumFix`.
3. `set_config` and the echo path in `EchoControlMobile`; the composition of
   `EchoControlMobile` with `AecmFrame` at data level.
4. `WaveFile` and `TestBench`: header bookkeeping, ends of the inputs.
5. Several `IceConnection`s under one channel: sorting, switching, nomination,
   and that the best connection is never a deleted one.
