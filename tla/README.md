# TLA+ models of dmr_monitor

`dmr_monitor` listens to a band of DMR radio channels with one RTL-SDR dongle
and prints an event for every call and position it decodes. These modules model
the parts of it in which control, concurrency or exact arithmetic matters, TLC
checks them on small instances, and TLAPS proves the safety of all of them for
every instance. Line numbers are those of `src/`.

## The system

    librtlsdr callback thread        channelizer thread                main thread
    -------------------------        -------------------------         -----------
    Capture::on_samples              channelizer_thread                start, status
      RingBuffer::write  --ring-->     RingBuffer::available/read       loop, shutdown
                                       for each of the channels:
                                       DemodChain::process
                                         ChannelFilter, FmDiscriminator
                                         TimingRecovery -> FskSlicer
                                         -> BurstSync -> SlotManager
                                         -> Layer 2 callback
                                              BPTC19696, LcParser -> emit

| component | state | operations | what makes it correct |
|---|---|---|---|
| `RingBuffer` | `head_`, `tail_`, `buf_`, `overruns_` | `write` (callback thread), `available`, `read` (channelizer), `reset` | no race on `buf_`; what is read is what was written, in order; every loss is counted; I and Q stay paired |
| `Capture` | `dev_`, `running_`, `thread_`, `bytes_captured_`, `ring_` | `start`, `stop`, destructor, reader thread, callback | handles are used only while open; nothing leaks on a failure; `stop` returns |
| `main.cpp` | `g_running`, `tick`, `prev_bursts`, threads | start-up, status loop, signal handler, shutdown, `channelizer_thread` | no thread outlives what it uses; the summaries add up; a signal ends the program |
| `BurstSync` | shift register, circular history, collection state, counters | `push_dibit` | every burst is the right slice of the dibits; no sync word is overlooked |
| `SlotManager` | state and count of two timeslots | `on_burst` | the state follows from what was heard; Layer 2 hears of every burst |
| `DemodChain` | its stages, two buffers | `process` | the stages are wired in order |
| `BPTC19696` | none | `decode` | corrects the errors the code can correct |
| `LcParser` | none | `parse_voice_lc`, `parse_gps` | the fields sent, at the ends of their ranges too |
| Layer 2 callback | none | `make_layer2_cb` | an event is what was sent |
| `ChannelFilter` | oscillator, delay line, two counters | `process` | decimation is exact over block borders |
| `FmDiscriminator` | one sample | `process` | each sample is compared with the one before, over block borders |
| `TimingRecovery` | phase, period, integrator, history | `process` | indices stay in the history, the period in its clamp |
| `FskSlicer` | two peaks | `decide` | thresholds stay ordered |
| `emit` | output mutex, socket | `emit` | every event goes to both outputs |

Stages interact by callbacks inside `push_dibit()` and `process()`, on the
channelizer thread alone. Threads interact through the ring, through `g_running`
and `running_`, through librtlsdr's cancellation, and through plain counters of
the chains, which the status loop reads without synchronisation.

What is hard here: the ring's two threads with relaxed and acquire loads and
counters that wrap; start-up, loss of the dongle and shutdown over three threads
and a library; framing with a circular history while sync words, bit errors and
back-to-back bursts overlap; stages that carry phases, delay lines and averages
from one block to the next; a product code whose first pass can make errors
worse. `PROJECT.json` lists these hazards one by one, at their lines.

## Modules

| module | models | with |
|---|---|---|
| `RingBuffer` | `ringbuffer.*` and its two callers | `LossyFifo`: the abstract queue it implements |
| `RingBufferProofs` | proofs about it, of what is lost and of the refinement last | `ModArith`: lemmas about `%` and `\div`, used by all |
| `Capture` | `capture.*` over librtlsdr | `CaptureProofs` |
| `Monitor` | `main.cpp`'s threads; EXTENDS `Capture` | `MonitorProofs` |
| `BurstSync` | `burst_sync.*` | `Framer`: the abstract framing it implements |
| `SlotManager` | `slot_manager.*` | `SlotProofs` |
| `ChannelFilter`, `TimingRecovery`, `FskSlicer` | `channel_filter.*`, `timing_recovery.*`, `fsk_slicer.*` | |
| `DemodChain` | `demod_chain.*` down to the dibits, and `fm_discriminator.*`: composes the three | `DemodProofs`, about the three as well |
| `Framing` | `demod_chain.cpp`'s wiring from the dibits on: composes `BurstSync` and `SlotManager` | `FramingProofs`, about `BurstSync` as well |
| `BPTC19696`, `LcParser` | the pure decoders, as operators | |
| `Layer2` | `make_layer2_cb` over the two decoders | `Layer2Proofs`, about the two as well |
| `MC*` | instances for TLC | |

### RingBuffer

`head` and `tail` are `head_` and `tail_`. `size_t` is a counter modulo
`SizeMod`, a multiple of `Capacity`, as 2^64 is of a power of two (the
constructor refuses other capacities). `write()` is cut into `BeginWrite` (load
`tail_`, truncate, count the overrun), one `CopyIn` per byte of the two memcpys,
and `Publish` (the release store); `read()` into `BeginRead`, `CopyOut` and
`EndRead`. `Poll` is the wait loop of `channelizer_thread`, with `available()`.
`Reset` is enabled only while neither thread is in a call (the ring's header
demands that, and `ResetWhenPaused` checks that the program keeps it).

An acquire load may return an old value: `tailView` and `headView` hold every
value the other thread has stored since the last one this thread saw, and a load
picks any. Under C++'s rules it may not go back behind a value it has seen.
`available()` loads `tail_` too, but the channelizer is the thread that stores
it, so that load is exact.

A byte is its number in the output of the device, which makes "torn", "lost",
"repeated" and "old lap" visible. The histories `offered`, `accepted`,
`consumed`, `delivered` and `resetAt` decide nothing the code does: `offered`
bounds the run, and the unwrapped counts number the values of the two views.

`LossyFifo` is what the two callers are promised: a bounded queue, a write keeps
a prefix, a shortened write is counted, a read takes a block. In the mapping a
write takes effect when it publishes (at once when nothing fits). `LossyFifo`
lets a write keep less than would fit, because a stale `tail_` does.

### Capture and Monitor

`call` is the step of `start()` or `stop()` that the calling thread has reached,
`reader` the reader thread. Device handles are numbers, so that a closed handle
differs from a new one. The ring is only the number of blocks in it: `RingBuffer`
has shown the rest. librtlsdr is external, as `capture.cpp` uses it: any
`rtlsdr_open`, rate or frequency call can fail, a read ends when cancelled or
when the dongle is lost, and a cancellation has an effect only while a read is
running.

`Capture` alone has a client that calls `start()` and `stop()` in any order. In
`Monitor` the client is `main()`: its calls are the steps of `Capture`, and the
channelizer thread, the reader thread and signals interleave with them. The
number of ticks between summaries and the channel table are constants. `SummaryRead` and
`SummaryPrint` are separate because the channelizer counts in between; the count
is not atomic, so any value stored since the last summary may be read.
`emit()` is `Puts` and `Send`, between which `main` may close the socket, if it
could be opened at all; one thread emits, so the mutex is not modelled.

### ChannelFilter, TimingRecovery, FskSlicer, DemodChain

`process()` is a sequence of steps: `Call`, one `Filter` per pair,
`Discriminate`, one `Time` per sample, `Return` (or `NothingFiltered`, for a
block too short for an output). What a float is worth is abstracted, what it is
made of is not. A mixed sample is the number of its pair and the turns of the
oscillator; a filtered sample is the delay line; a discriminated sample is the
two filtered ones it compares. `Window(n)` is the same for an uninterrupted
stream.

`TimingRecovery` keeps `mu_`, `omega_` and `v_p_` as integers, 48 to a sample,
in which the nominal 25000/4800 samples per symbol (250), the clamp (216 and
288) and half a period are exact; float rounding is left out. `interpolate()`
yields the two samples read and the fraction between them, so that `InstantOf`
can say which instant was meant. The interpolated values are inputs: any symbol
of the transmission, and mid-samples of two values.

`FskSlicer` works on integer levels; a transmission of amplitude `a` sends
`3a`, `a`, `-a` and `-3a`. Its moving average rounds, but moves towards the
symbol and not past it, which is all that its property needs.

### BurstSync, SlotManager, Framing

One action per path through `push_dibit()`: `HuntMiss`, `HuntMatch`, `Collect`,
`Complete`. The shift register is its sequence of dibits; the history and its
index are as in the code. `air`, `matchedAt` and `emitted` are histories.
`Framer` says what `burst_sync.h` promises in terms of the stream only.
Dibits before the first are the zeroes the buffers start with; a match in the
first 72 dibits of a stream takes them into the burst, in the code as well.

`SlotManager` is `on_burst()` with both timeslots. `missed` is not known to the
code; it exists to state what its state diagram says about silence. `Framing`
joins the two modules as `DemodChain` does.

### BPTC19696, LcParser, Layer2

Words of bits are the sets of the positions of their ones, so that an exclusive
or is a symmetric difference and a parity a cardinality. The encoder is written
from the drawing in `bptc19696.h`, not from the decoder, with which it shares
the parity equations (`Covers`) alone. Coordinates are integers
in the units of the air: the code's comparisons of doubles with 90.0 and 180.0
accept exactly -8388607..8388607 (0x7FFFFF * (90.0 / 0x7FFFFF) is exactly 90.0).
`extract_u8` is written as the sum of its eight bits and the two passes of the
decoder as unions over the rows and columns, which the provers can expand where
they could not follow a fold. `RowPass` and `ColPass` are the loops of `decode()`:
the words they correct are disjoint, so the order of the loops does not matter.

A state of `Layer2` is one burst: sent, flipped bit by bit by `Flip`, and handed to
the callback by `Receive`.

## Runs

| run | shows | bounds |
|---|---|---|
| `ring` | race freedom, order, loss accounting, I/Q pairing, reset, refinement of `LossyFifo`, delivery of every published block, and that `IInv` is an invariant | 8 slots, counters modulo 16, transfers of 4 and 6, blocks of 4, 28 bytes: over three laps of the buffer and more than one wrap of the counters, with full, tight and partial writes at several offsets |
| `capture` | handles, leaks, reset, `stop()` returns | 3 opens, 3 transfers, ring of 3 blocks and transfers of 2, so that the ring overruns |
| `monitor` | start-up, error paths, shutdown, summaries, event output | 2 channels, 2 bursts each, 3 transfers, a summary every second tick; one open is enough, since `main` calls `start()` once |
| `framing` | refinement of `Framer`, `NoSyncMissed`, `IsolatedBurstsArrive`; booking, slot states and events from dibits on | all streams of 15 dibits of two values; halves of 2, sync of 3, guard of 1, no bit errors; a history of exactly the 5 entries needed, so that its index wraps at every place; up to four bursts, some without a gap and with the sync word partly in the guard |
| `demod` | blocks leave no trace, symbols are read at the right instants and keep time, none is lost, a slicer that has locked stays so | the real periods, clamp and history; two pairs a sample and three taps; blocks of 1 pair (with and without an output) and 5, in any order, up to 44 pairs: four symbols, enough to reach both ends of the clamp, and more than two laps of the history; two signal strengths, between which the slicer locks, and goes deaf |
| `dmr_frames` | bursts arrive whole with the real constants, and an overrun costs those it touches only | two bursts of all type pairs, with and without a gap before them, 0, 4 and 5 bit errors in the first sync word; three bursts with 72 cuts: in each part of the first, of 1 to 150 dibits, the length of a burst and one off it included |
| `slots` | the state follows from what was heard | 3 bursts per timeslot, all types and orders: the shortest history with a call, its end and a second data burst |
| `layer2` | the event is what was sent; every pattern of up to two bit errors in the 196 bits is corrected | IDs and coordinates at 0, 1, -1 and both ends of their ranges, three FLCO values and three packet types; all 19307 error patterns on one message; that it stands for all is proved, the code being linear |

`CHECK_DEADLOCK FALSE` stands where the stream or the number of bursts is bounded
and the model ends with it. Errors of weight three are not all correctable, and
nothing promises that they are.

The remaining runs each show a disagreement between the code and what its
comments or manual say; `PROJECT.json` quotes the lines.

- `slot_timeout`: the state diagram of `slot_manager.h` has a timeout that the
  code does not have.
- `monitor_lost_cancel`: Ctrl-C during start-up can hang in `join()`, because
  `rtlsdr_cancel_async` came before `rtlsdr_read_async`. `ShutdownUnlessLost`
  in the run `monitor` shows that this is the only way not to end.
- `capture_start`: after the dongle is lost, or after the launch of the reader
  thread failed, `start()` does nothing and reports no failure.
- `layer2_gps`: link control in a data burst is reported as a position.

Seen on the way, and plain enough in the code to need no run: `running()` stays
true after the reader thread has ended on its own (`capture.h:71`);
`bytes_captured()` is never reset (`capture.h:74`); no data burst takes a timeslot
from DATA to IDLE (`slot_manager.h:21`); an LC with only one ID zero is accepted
(`lc_parser.cpp:58`); `correct_row()` cannot return false, as `bptc19696.h:83`
says it does for a double error, since the code has an entry for every syndrome;
the loop filter adds the new `v_p_` to `omega_`, not the old one of
`timing_recovery.h:38`; and `FskSlicer`, which is to compensate for the amplitude
(`fm_discriminator.h:22`), never lowers its peaks for a signal of less than 0.6 of
them, so that after a strong transmission one of less than half its level is
sliced wrongly for good. `OnceLockedAlwaysRight` shows the other side of that:
a signal once sliced rightly stays so.

## Fairness

Safety needs none. `BlocksAreDelivered` assumes that a begun `write()` ends, that a thread
that polls sees a store in the end, and that a begun `read()` ends; no write ever
needs to begin. In `Capture` and `Monitor` each program thread is weakly fair,
and librtlsdr's reaction to a cancellation is strongly fair, because transfers
may keep arriving in between. Signals, transfers, faults and the calls of a
client need not happen. `std::thread` gives no more than that, and the loops
contain only sleeps and bounded work.

## Proofs

Every safety property of the runs, but for the two scripted streams of
`dmr_frames`, is a theorem, and so are the two refinements and
`OnceLockedAlwaysRight`: for all capacities and counter widths, transfer and block
lengths, numbers of channels and bursts, filter lengths, symbol periods, gains,
histories, burst layouts, messages and bit errors that the named ASSUMEs of the
modules admit.
Those are all that is assumed. Each repeats what the code relies on:

- `RingBuffer`: the capacity is positive and the counters wrap at a multiple of
  it, at least twice (`CapacityAssumption`, `LapsAssumption`: the constructor
  wants a power of two); lengths are positive and a block fits in the ring
  (`WriteLensAssumption`, `BlockAssumption`); the bytes of a run are finitely many
  (`BoundAssumption`). `PairsAssumption`, that lengths are even, is used for
  `IQAligned` alone.
- `BurstConstants`: the history is as long as what is read back from it.
- `SyncWordsApart`: no two sync words are so near to each other that a word could be
  within the errors forgiven of both. TLC evaluates it on the real ones; only
  `IsolatedArrive` needs it.
- `TimingConstants`: the nominal period is in its clamp, the clamp is of at least
  one sample, and the history is long enough for the longest period.
- `FilterConstants`, `SlicerConstants`, `ChainConstants`, `SlotConstants`,
  `CaptureConstants`, `MonitorConstants`: the types of the constants, and the odd
  number of taps that the constructor wants.
- `Layer2Constants`: what is sent are link control messages and position reports
  whose fields have the widths `lc_parser.h` gives them, under one of the four
  sync words, and errors are among the 196 bits of the burst. Any such
  transmission may be sent, a message under the wrong kind of sync word included.

None of the theorems uses fairness.

**The ring** (`RingBufferProofs`)

    Invariance     Spec => []IInv
    TypeCorrect    Spec => []TypeOK
    RaceFree       Spec => []NoDataRace
    InOrder        Spec => []DeliveredIsPrefix
    FullBlocks     Spec => []NoShortRead
    LossAccounted  Spec => []LossIsCounted
    Paired         Spec => []IQAligned
    Flushed        Spec => []FlushedByReset
    Refinement     Spec => ImplementsFifo

`NoDataRace` is not inductive: it speaks of a copy in progress, while the reason why
two copies do not meet is what both threads may still load. `IInv` says, in
unwrapped counts, that the atomics are those counts modulo `SizeMod`
(`CountersWrap`); that what the producer copies lies within `Capacity` of every
`tail_` it may still see, the oldest included (`ProducerHasRoom`); that what the
consumer reads is behind every `head_` it may still see (`ConsumerHasData`); that
the unread bytes are in their slots (`BytesInPlace`); and that what was delivered is
what was published (`DeliveredSoFar`). Each action has a lemma. `ModArith` carries
the arithmetic: counters less than `SizeMod` apart are told apart by their
remainders, and positions less than `Capacity` apart by their slots.

What is lost is proved over `Kept`, the bytes published and those being copied:
only `BeginWrite` and `Reset` change it. A `write()` appends the start of one
transfer, so at most one gap opens, and only when an overrun is counted. Pairing
needs more than `IQAligned`, which speaks of delivered bytes: `KeptIsPaired` says
it of every kept byte, and that all the counts, the stale ones included, are even.
For the refinement each action of the ring has its image: `BeginWrite` a write of
nothing or a stutter, `Publish` a write, `EndRead` a read, `Reset` a flush. The
step needs the invariant for `EndRead`, where the block copied must be the head of
the queue.

**Capture and the program** (`CaptureProofs`, `MonitorProofs`)

    CapInvariance      CapSpec => []CapIInv
    CapTypeCorrect     CapSpec => []CapTypeOK
    HandlesAreOpen     CapSpec => []NoUseAfterClose
    NoLeak             CapSpec => []NothingLeaks
    ResetIsAlone       CapSpec => []ResetWithoutProducer
    ClientOfCapture    MonSpec => CapInit /\ [][CapNext]_capVars
    MonInvariance      MonSpec => [](CapIInv /\ MonIInv)
    MonTypeCorrect     MonSpec => []MonTypeOK
    ResetAlone         MonSpec => []ResetWhenPaused
    NobodyLeft         MonSpec => []NobodyOutlivesMain
    SummariesCorrect   MonSpec => []SummariesAddUp
    EveryEventIsSent   MonSpec => []OutputsAgree

`CapIInv` ties the set of open devices to the step of `start()` or `stop()`
(`DeviceHeld`), `running_` to the same step (`RunningBetween`), and the reader
thread to both (`ReaderInSession`). Without the last a step of the reader could
use a device that `stop()` has closed. A step of the program is a step of Capture
or leaves it alone, so `CapIInv` holds there without a second proof. `MonIInv` adds
where Capture, the channelizer and the socket are while `main` is at each of its
points, which is what makes the order of the shutdown count.

**The demodulator** (`DemodProofs`)

    LockHolds         ChainSpec => OnceLockedAlwaysRight
    ChainInvariance   ChainSpec => []ChainIInv
    ChainTypeCorrect  ChainSpec => []ChainTypeOK
    Seamless          ChainSpec => []StreamIsSeamless
    SymbolsReadRight  ChainSpec => []SymbolsReadTheStream
    SymbolsInTime     ChainSpec => []SymbolsKeepTime
    SymbolsComplete   ChainSpec => []NoSymbolLost

That blocks leave no trace holds because each stage is a function of the length
of the stream: the oscillator, the decimation counter and the delay line of the
number of pairs (`FilterExact`), the circular history of the number of samples
(`HistoryHolds`). `Handover` says that the samples between the stages add up and
that the discriminator's last sample is the one before the next. `SymbolsFill` ties
the phase to the stream: a symbol lies `mu_` before the last sample, and the sum of
the periods, each in the clamp, is what lies before it. The lock of the slicer
rests on one lemma: a moving average lies between its old value and the sample,
rounding included.

**Framing** (`SlotProofs`, `FramingProofs`)

    SlotInvariance     SlotSpec  => []SlotIInv
    SlotTypeCorrect    SlotSpec  => []SlotTypeOK
    StateIsHistory     SlotSpec  => []StateFromHistory
    SyncInvariance     SyncSpec  => []SyncIInv
    SyncTypeCorrect    SyncSpec  => []SyncTypeOK
    NothingMissed      SyncSpec  => []NoSyncMissed
    IsolatedArrive     SyncSpec  => []IsolatedBurstsArrive
    FramerImplemented  SyncSpec  => ImplementsFramer
    ChannelIsSync      FrameSpec => SyncSpec
    FrameInvariance    FrameSpec => []FrameIInv
    BookedOnce         FrameSpec => []BurstsAreBookedOnce
    StateTellsTheAir   FrameSpec => []SlotStateTellsTheAir
    LayerTwoToldTheAir FrameSpec => []EventTellsTheAir

`StateFromHistory` computes a state from the whole history; `StateSince` says the
same by a distance to the last voice burst, which a step can update. `SyncIInv` says
that the shift register and the circular history hold the last dibits of the stream
(`LastDibits`), that the burst in progress is a slice of the stream as far as it
goes (`Collecting`), and that every match is a burst or the one in progress
(`Counted`). Then the first half, read back out of the history at a match, is the
slice before the sync word, and each path of `push_dibit()` is a step of `Framer`.
`IsolatedBurstsArrive` is what a listener cares for: unless a sync word, or noise
that looks like one, ended in the 59 dibits before its own, a burst is delivered
whole and with the type it was sent with, whatever the stream was before. It follows
from `NoSyncMissed` and `SyncIInv`, once it is known that every match was at a sync
word (`MatchedSyncWords`): the match that `NoSyncMissed` finds near the sync word can
only be its own, and 59 dibits later its burst is complete. That its type survives
the bit errors `match_sync()` forgives is the triangle inequality (`Distance`,
`ForgivenWord`). An overrun splices two parts of the stream; where bursts are more
than 59 dibits apart it can therefore harm those it cuts, and besides them only one
whose sync word ends within 59 dibits after that of a burst cut or after a word that
the splice made look like one.

`Booked` says what both timeslots and the last event are, given the bursts.
`SyncIInv` and `Booked` were run through TLC on the instance of the run `framing`
before they were proved.

**Layer 2** (`Layer2Proofs`)

    TwoErrorsCorrected    decode(burst of message with two errors) = message
    L2Invariance          L2Spec => []L2Inv
    L2CorrectsErrors      L2Spec => []CorrectsErrors
    L2ReportsWhatWasSent  L2Spec => []ReportsWhatWasSent

Nobody can enumerate 2^96 messages, and nobody needs to: on a codeword with errors
each pass does to the codeword what it does to the errors alone (`RowPassLinear`,
`ColPassLinear`), because a parity of an exclusive or is the sum of the parities
(`ParityLinear`). What is left is to follow at most two errors (`TwoErrorsHarmless`),
by where they are. In different data rows the first pass corrects both. In one data
row it adds a third, as it must, since every syndrome of the rows is that of some
single error (`RowErrPosOnto`); the three are in three columns, each of which is
then corrected (`TwoInARow`). Where the rows do not look, in the parity rows, two in
one column make the column pass add a third in a data row, the only one there, which
the second row pass corrects (`TwoInAColumn`); that pass is what the theorem would
fail without. All along no row or column is given up, so `ok` holds.

Around that: the encoder makes codewords (`EncodeIsCodeword`), 13 has an inverse
modulo 196, so `deinterleave` undoes the interleaver (`InterleaveBack`), and the
fields of both messages do not overlap and are read back, two's complement included
(`VoiceLcFields`, `PositionFields`, from `Field24`: three bytes shifted out of a
number and put together again make the number modulo 2^24). `parse_voice_lc` and
`parse_gps` then accept exactly the events that `Expected` names. `L2Inv` is what
connects a report to the burst: it is the callback's answer to the burst as it is,
and no bit flips after it. The two theorems hold for every ID and coordinate of 24
bits, every FLCO and packet type, and any two of the 196 bits; the run `layer2`
checks the ends of the ranges and all patterns on one message.

**Model-checked only.** Liveness (`BlocksAreDelivered`, `StopReturns`,
`ShutdownUnlessLost`) needs ENABLED under fairness, which is out of the prover's
reach. `FramesArrive` and `OverrunCostsWhatItTouches` are about given streams with
the real sync words; what they have in common with other streams is what
`FramingProofs` proves, `IsolatedBurstsArrive` above all. The four disagreements are
counterexamples, which TLC finds.

## Not modelled

The design and the response of the filter, the accuracy of the discriminator and
the convergence of the timing loop are floating-point signal processing; the
models stop at which samples each value is computed from. A cut of the stream is
modelled at the dibits (`dmr_frames`), without the shift of the symbol phase that
the timing loop then has to undo. `ts_toggle_` is a natural
number in the model, since only its parity is used and the int holds the bursts of
more than two years of uninterrupted traffic on a channel. JSON layout, time stamps,
the inside of the UDP output (`udp_output.h` is not in the repository) and log
lines carry no state. The channelizer's `process()` is one step in `Monitor`: it
shares with other threads only the counters that the status loop reads.

## Plan

Done: all the models, and the proofs listed above. What is left:

1. Which burst an overrun of the ring touches, end to end: from the bytes that
   `LossIsCounted` speaks of, through `StreamIsSeamless`, to the dibits. This needs
   a model of the symbol phase across the gap, which the timing loop has to
   recover, and so an assumption about its convergence.
2. The accuracy of the fixed-point stand-ins for floats in `TimingRecovery` and
   `FskSlicer`, for which a theory of rounding would be needed first.
