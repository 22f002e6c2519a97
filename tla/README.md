# Collision_tes: specifications, model checking and proofs

TLA+ modules of the acquisition programs of this repository and of the USB
serial driver they run on, TLC configurations that check them on small
instances, and proofs for every instance of what matters most. `PROJECT.json`
relates every definition to the source lines it models. Paths below are relative
to `src/`, the programs being in `src/src/`, the driver in
`src/编码器开源/CH341SER_LINUX/CH341SER_LINUX/ch34x.c`.

## The system

A collision test bench: an encoder on a Modbus/RTU line (`/dev/ttyUSB0`, a CH34x
USB converter), an ADC board on a serial line with a protocol of its own
(`/dev/ttyACM0`), and programs that record both until Ctrl+C.

```
 encoder_example (main.cpp)
   encoder_thread --enc_q--> encoder_processing_thread --two atomics--> main
     Encoder/EncoderDriver/ModbusRTU        SavitzkyGolayAcc             |
   adc_thread -----adc_q---------------------------------------------> main --> CSV
     Sensor/DeviceDriver/CustomProtocol/SerialPort
 encoder_print (main_enc.cpp)
   reader thread --ring[64], head, count--> main --> OscillationDetector, print
 check_ch_enable: two commands on the ADC line.
 analyze_edges.py: speeds from edge_times.csv, offline.  plot_*.py: display.
 ch34x.c (kernel): tty calls <-- priv->lock --> completion handlers of three URBs
```

| Component | State | Operations | What is hard | Correct if |
|---|---|---|---|---|
| `BoundedQueue.h` | deque, drop count, closed flag, a mutex, a condition variable | push_drop_oldest, pop_wait, shutdown | notify outside the lock, wake-ups taken by others, timeouts, a full queue | nothing is lost but the oldest, counted; nobody sleeps on an item or through a shutdown; it behaves as an atomic queue |
| `main.cpp` | g_running, two queues, two atomics, the integration, the ports | open, calibrate, three threads, main's loop, shutdown/join/close | SIGINT anywhere, drops, one device missing, the order of the end | ports are used by one thread and never after close; frames are accounted for; it ends |
| ADC link (`CustomProtocol`, `SerialPort`, `DeviceDriver`) | bytes in the tty buffer | send_command, recv_response, read_adc, write_adc_ch_enable | late, split, lost and damaged answers, no flush, no resynchronisation | an answer is accepted once, in order, for a command of its kind |
| `check_ch_enable.cpp` | the same line | 0x01, then 0x02, then one answer | the answer to 0x01 is a 0x02 as well | what it takes is an answer to a command of its own |
| online record (same files) | bytes in the tty buffer, the phase of the receiver | start, stop, recv_online_frame | deadline anywhere, payload that looks like a header | frames in order and whole, one lost at most per failed call |
| CRC-16 | two tables | crc16, check_crc | 512 constants | equals the polynomial, sees every short burst |
| `SavitzkyGolay.h` | a ring of 7 | feed, reset, acceleration | wrap, reset, unequal gaps | second derivative of the least-squares parabola of the last seven |
| `OscillationDetector` | a ring | feed | pauses, dead band, wrap | reports exactly two reversals within the threshold |
| `main_enc.cpp` | ring of 64 without a lock, two atomics | reader thread, main's copy of four slots | the reader coming round the ring | four newest samples, whole, unless main sleeps too long |
| device stacks | open flags, a connection, a descriptor, the configuration | open, close, read | an open that fails half way | no connection is leaked; the position keeps its sign |
| `analyze_edges.py` | the rows of a CSV | edges of two sensors, pairs | rows missing at an edge | a pair is of one object |
| `ch34x.c` | a circular buffer, write_urb_in_use, line_status, line_control, three URBs | attach, open, write, set_termios, tiocmset, TIOCMIWAIT, close, three handlers | a flag cleared outside its lock, failed transfers, unplugging, close against a resubmission | bytes in order and none left behind; nothing moves after close; it keeps listening |

## Modules

| Module | Models | Variables and actions against the code |
|---|---|---|
| `DropOldestQueue` | what `BoundedQueue` promises | `log` is everything accepted, `head` how much of it is gone, `drops` drop_count(); `Push`, `Pop`, `Shutdown` are atomic |
| `BoundedQueue` | BoundedQueue.h | one action per step between two points where another thread can come in: before and after taking `mtx_`, the wait, the notification. `waiters` is the condition variable's queue; waits end by notification, timeout or spuriously. `DOQ`, `Refinement`: mapping to `DropOldestQueue` |
| `Acquisition` | main.cpp | a program counter per thread; the queues are two instances of `DropOldestQueue`; the atomics are histories of stores from which main may load any store not older than one it knows of (release/acquire) |
| `AdcLink` | recv_response and its callers | `line` are the bytes the board has sent, `arrived` those in the tty buffer, `taken` those read. `Answer`, `Fault`, `Arrive` are board and line; `Call`, `RecvHeader`, `RecvTail` the program. `client` is the driver or check_ch_enable, whose first command is `Enable` |
| `OnlineLink` | recv_online_response and its callers | `Hunt`, `Header`, `ReadTail`, `Verify` are its four phases, `Deadline` the test before each read |
| `LossyChannel` | what the ADC board's protocol promises | `log` is every message sent, `got` those received; `Put`, `Take` are atomic. `AnswerChannel` of `AdcLink` and `FrameChannel` of `OnlineLink` are the mappings to it: the answers to the commands so far, and the frames of the recording, as "data" if they are data and came through unharmed, else as "other" |
| `EncMonitor` | main_enc.cpp | every access to `ring`, `ring_head`, `ring_count` is a step, a sample being two words |
| `SavitzkyGolay` | the acceleration filter | `Feed`, `Reset`; what `acceleration` returns is a fraction |
| `OscillationDetector` | `feed` of the detector | `DetectorFeed` is the call up to the loop, `Visit` a turn of the loop, `Conclude` the return; `visited` is the loop's `i` |
| `Crc16` | crc16, check_crc | the tables as in the source, numbers as the sets of their bits; `Transfer` is a turn of crc16's loop, at the sender and at the receiver, next to a bit-by-bit reference |
| `Devices` | the two stacks' open, close, read | `DevInit`, `DevNext`; every call to libmodbus or the system may fail; `handles` counts what is held |
| `EdgePairs` | analyze_edges.py | `Tick` moves the objects and writes or drops a row; `Falls`, `Nth` (the place in its list), `Pairs` are the script |
| `Ch34xBuffer` | ch34x_buf of ch34x.c | a record of memory and two offsets; `BufPut`, `BufGet`, `BufClear` |
| `Ch34x` | the port of ch34x.c | `pc` says where each of five threads is: the program, another thread of it (ioctl), the three completion handlers. What is done under `priv->lock` is one step; `flight` are the URBs the host controller has, `killing` those close waits for |

`BoundedQueueProofs`, `DropOldestQueueProofs`, `AcquisitionProofs`,
`AdcLinkProofs`, `OnlineLinkProofs`, `Ch34xProofs`, `EncMonitorProofs` (with the
detector main_enc.cpp feeds) and `SequentialProofs` (the filter, the CRC, the
device stacks and the edge script) hold the theorems. `MC*` modules give what a
configuration cannot express: sets of records or functions, symmetry, and the
compositions of `MCSequential` (five parts that are not concurrent, each
explored while the others rest) and `MCCh34x`.
Definitions that a comment calls a mutant are plausible bugs of the definition
after them, by which the property meant for them was seen to fail; they play no
part in the specifications.

### Abstractions to know of

- `Acquisition`: time is the number of ADC cycles, a frame is its timestamp and
  accel1 is 1, so that velocity1 is the time integrated. Row values are left out.
- `AdcLink`: a byte is its place in its frame. Left out are payloads that look
  like `55 AA`, a damaged frame whose CRC is right by chance (`Crc16` says of which
  damage to the bytes it covers this is not so), and payloads longer than `rx_max`. A reading that was not
  received has the value of an uninitialised buffer; only that it counts as
  successful is kept. A read that finds less than it wants is always possible,
  which covers the timeout and a `select` broken off by a signal.
- `OnlineLink` has payloads that look like headers. The three bytes after
  `55 AA` are one unit.
- `EncMonitor`: atomics take effect in the order of the program, as on x86-64;
  the two words of a sample are copied and written one at a time, the words in
  any order by the writer.
- `SavitzkyGolay`: integers, on which the doubles are exact up to the last
  division, which is kept as a fraction.
- `EdgePairs`: a voltage is above or below its threshold, and the baseline is
  right; objects pass in single file, at most one place a tick.
- `Ch34x`: the bytes written are numbered, so that the order of the stream can be
  told; received bytes are left out but for the flag they get. Registers are
  sets of bits. termios is its rate and HUPCL. The tty layer calls close while
  another call is under way only when it hangs up an unplugged device.
- libmodbus, the tty layer, the USB core, the board and the encoder are external:
  an action of each may fail or come late.

## Runs

Deadlock is checked unless the model's inputs are bounded and end (`AdcLink`,
`OnlineLink`, `Sequential`, `Ch34x`).

| Run | Asks | Bounds, and why they are enough |
|---|---|---|
| `queue_mpmc` | Is the queue safe with several producers and consumers? | 2 producers, 2 consumers, 1 closer, capacity 2, 4 pushes: evictions, two waiters for one item, a waiter timing out under a notification. Threads and items are symmetric |
| `queue_live` | Does every call return, is no wake-up lost, is it the atomic queue? | 1 producer, 1 closer and two consumers that compete for a wake-up; 2 pushes; capacity argument 0, which is 1, so that the second push evicts |
| `acq_safety` | Are ports, frames, velocity and the atomics right? | queues of 1 and 2 so that both overflow, 3 and 4 frames, a window of 2 |
| `acq_live` | Does Ctrl+C end it, is every frame consumed? | queues of 1, 1 and 2 frames, so that adc_q overflows; either device may be missing |
| `link` | What survives late, split, lost and damaged answers? Is it still a channel? | driver or check_ch_enable; 4 commands of two kinds, one fault, frames of 3 and 4 units against headers of 2: no common divisor, as 43 bytes and 5 |
| `link_rows` | Is a successful reading a received one? (No.) | one command |
| `enc` | Are the four samples whole, the acceleration exact, is the program ended in order? | a ring of 5, which leaves the reader one sample of room; 7 samples, so that it laps main; even and uneven gaps |
| `enc_lap` | Are they the most recent, whatever the scheduling? (No.) | the same |
| `online` | What does a deadline, a false header, a damaged byte cost? Is it still a channel? | 3 frames, 3 calls, one fault |
| `sequential` | Are the parts that are not concurrent what their reference definitions say? | filter: 8 samples through its ring of 7, errors of 0, 1 and 3 counts on a resting body and one that turns. Detector: every sequence of 7 positions out of 0, 1, 3 and 6 through a ring of 5, with a dead band of 1 and a threshold of 4, so that a difference may be no movement, a movement within the range or too large, and the window moves past a turn. CRC: every damage within 16 bits in a row of the 3 bytes it covers (not of the trailer), which takes the receiver through every entry of the tables; with 17 bits `DamageDetected` fails, as it must. Device stacks: unbounded calls, 3 bits of position. Edges: two objects, 8 ticks, any rows missing |
| `ch34x` | Does the driver keep bytes in order, leave none behind, close cleanly, keep listening? | a buffer of 3 with room for 2, 3 bytes in transfers of 2, so that it wraps, fills and sends in two parts; 2 failures; two line reports, of an error with a line up and of neither, so that a clean report may overwrite the error, and reads with and without data; rates 9600 and 0. The bytes and the lines share no data and are explored separately (`uses`) |
| `ch34x_b0` | Does B0 drop the lines? (No.) | one byte, no failure |

**What they show.** The queue is right as it stands, and its drop policy, its
wake-ups and its shutdown need no help from the timeouts. encoder_example ends
in order from wherever SIGINT finds it; no frame is lost but those drop_count()
counts and those queued at the end; velocity1 stays the integral over the real
time when frames are dropped. On the ADC link no answer is accepted twice, out
of order or by a call of another kind: what is left of it, and of the online
record, when bytes are lost or damaged is a channel that loses whole messages. But an answer later than its timeout
stays in the buffer, and from then on every reading is one command old:
`LagNeverHeals` says that this age never falls again while the line is
faultless. Out of step with the frames, the receiver finds a boundary by
itself, in fewer failures than a frame has bytes (`ResyncBound`).
With every answer in time, check_ch_enable takes the one to its first command for the one to its
second (`FreshWhileTimely` says which it gets). The online receiver loses one
frame at most for a call that fails, unless a payload looks like a header. The
tables are the Modbus polynomial, byte-swapped as the firmware sends it.
analyze_edges.py is right as long as every passage of a beam left a row and so did
the clear beam between two objects, whatever other rows are missing. In the driver the flag that is cleared outside its lock
does no harm: `write_urb` has one holder in every interleaving. A line error
flags the next data and no later ones, but it waits for them in a status that
the next report overwrites (`ErrorsFlagged`).

**Findings** (the three runs that expect a violation):

- `link_rows`: `read_adc` (DeviceDriver.cpp:76) ignores the result of
  `recv_response` and succeeds with the contents of an uninitialised buffer.
- `enc_lap`: encoder_print's main copies "the 4 most recent samples"
  (main_enc.cpp:165) after a single look at `ring_head`. A main descheduled for
  about a turn of the ring (64 samples, at least 640 ms) gets a mixture of old
  and new ones; `WindowWhole` says how long it may be away.
- `ch34x_b0`: `set_termios` divides by the rate (ch34x.c:361) before it comes to
  "change control lines if we are switching to or from B0" (ch34x.c:501). B0
  is rate 0: the call dies with the lines raised.

Seen while modelling and not given a run of their own:

- The calibration loop (main.cpp:263) does not test `g_running`, although
  main.cpp:61 says every thread leaves at its next turn: Ctrl+C waits up to two
  seconds.
- `SavitzkyGolayAcc` takes dt from the span of the window, so a sample missing in
  it gives a body at constant velocity an acceleration: the condition of
  `ExactWhenUniform` is needed.
- `Sensor::read_peak` and `read_valley` always return 0 (DeviceDriver.cpp:87).
- ch34x.c: TIOCMIWAIT sleeps on `wq`, which nothing wakes (`MiSleep` is left by a
  signal only); open compares with a ktermios that was never set (line 687); a
  transfer that cannot be submitted has left the buffer and is lost (898); a read
  that ends with an unexpected error is not submitted again (1139); the error
  bits of the status share their positions with the modem inputs that
  TIOCMIWAIT compares; after an overrun every received byte is flagged, though a
  comment calls the overrun special; a line error is forgotten when a report
  without it (1071) or a read without data (1171, 1191) comes before data do, and
  one that a close leaves behind flags the first data of the next session. The
  conditions of `Listening`, `NotStranded` and `StreamInOrder` name the first of these that matter to them.

### Fairness

- `BoundedQueue`: a thread inside a call keeps running (weak) and gets the mutex
  if it is free again and again (strong; a mutex that starves a waiter for ever
  is excluded). No thread is obliged to call, no wait to time out.
- `Acquisition`: weak fairness of each thread. Every step is a bounded
  computation, a device call with a timeout, or a wait with a deadline, and
  calibration ends by the clock. SIGINT is never owed. main's draining loop
  (main.cpp:358) does not test `g_running`, but adc_thread does: after SIGINT no
  more frames come than the queue and the thread hold, and the loop ends.
- `EncMonitor`: weak fairness of both threads; modbus has a response timeout.
- Nothing is assumed of `AdcLink`, `OnlineLink`, `Ch34x` and `Sequential`, of which
  only safety is stated.

## Proofs

An inductive invariant is named under "Argument" where the property itself is
not inductive; it is stated, with its reason, before the lemma that proves its
step.

| Module | Theorem | Property | Argument |
|---|---|---|---|
| `BoundedQueueProofs` | `TypeCorrect`, `BaseCorrect` | types | `Base`: types, the holder of `mtx_` is the one thread inside a critical section (`LockOK`), which thread may be where, whoever waits is at the wait |
| | `CapacityCorrect` | `CapacityBound` (no run: the refinement says as much) | `RoomOK`: between the eviction and the append there is room |
| | `FalseReasonCorrect` | `FalseHasReason` | `FreshOK`: what a consumer tested still holds when it acts on it, because the lock is held; `ReturnOK`: results have their reasons |
| | `NoMissedShutdownCorrect` | `NoMissedShutdown` (no run: `ShutdownReleases` is checked) | `FreshOK`: one about to block has seen the queue open, and shutdown needs the lock to close it |
| | `QueueIsWindowCorrect` | `QueueIsWindow` | `WindowInv`: the deque is the part of `log` after what was popped and dropped, less the item in hand |
| | `NoStrandedItemCorrect` | `NoStrandedItem` | counting: every push adds an item and a notification to come; a consumer that goes to sleep has seen an empty deque |
| | `Implementation` | `Refinement` | initial states and steps under `Base` and `WindowInv`; the eviction is the abstract push |
| `DropOldestQueueProofs` | `WindowCorrect`, `DropsCorrect` | the atomic queue is a window of at most `Cap` items; only a full one discards, one item, never the new one | from `TypeOK` |
| `AcquisitionProofs` | `DeviceOwnedCorrect` | `DeviceOwned` | `OwnedInv`: a thread runs only between main's spawn and main's join of it, with its port open |
| | `ReadyCorrect` | `ReadyMeansComputed` | `ReadyInv`: a flag store comes after a store of a computed acceleration, and what main knows of both only grows |
| | `FramesCorrect` | `FramesAccounted` | `LogInv`, `RowsInv`: the frames pushed grow in time and rows are frames popped, in that order |
| | `VelocityCorrect` | `VelocityTelescopes` | `SumInv`: the integral so far ends where the next rectangle begins |
| | `QueuesCorrect` | no run (the frames pushed are any number, TLC's are not): `Acquisition` implements two `DropOldestQueue`s | `LogInv`: what adc_thread has in hand is a frame; every other step of every thread leaves the queues alone or is a `Push`, `Pop` or `Shutdown` |
| | `PromisesKept` | `WindowOK` and `DropsOnlyWhenFull` of both queues | `QueuesCorrect` with the theorems of `DropOldestQueueProofs`, instantiated for each queue. With `Implementation` this joins the program, the atomic queue and BoundedQueue.h |
| `AdcLinkProofs` | `AnswersCorrect` | `AnswersInOrder` (no run: `AnswerChannel` says as much) | `LineInv`: bytes on the line are ordered by answer and by place in it; `HostInv`: what is still to be read is younger than what was accepted |
| | `ChannelCorrect` | `AnswerChannel`: `AdcLink` implements `LossyChannel` | initial states and steps, under `LineInv` and `HostInv` before and after the step: the board's steps are `Put`, accepting an answer is `Take`, all others change nothing of the channel |
| | `FreshCorrect` | `FreshWhileTimely` | `CleanInv`: on a faultless line the bytes are all there, in their places; `FreshInv`: while nothing was missed, the program has read exactly the answers to the commands it waited for |
| | `LagCorrect` | `LagNeverHeals` | `LagInv`: since the last answer accepted the reads have come no more frames further than there were calls |
| | `ResyncCorrect` | `ResyncBound` | `SyncInv`: headers are read two units at a time, first at the even places of a frame and then, past its odd length, at the odd ones, so that the place bounds the failures so far. The theorem's hypothesis is that a frame is an odd number of units, the header being two: the model's form of 43 bytes and 5 having no common divisor, without which it is false |
| `OnlineLinkProofs` | `OrderCorrect` | `FramesInOrder` (no run: `FrameChannel` says as much) | `LineInv`, `CallInv`, `HostInv`: the bytes on the line are ordered, a call keeps what it took of them, and what is unread is younger than what was returned; a frame the CRC lets pass is whole (`CrcOk`) |
| | `ChannelCorrect` | `FrameChannel`: `OnlineLink` implements `LossyChannel` | the same, a frame that passes the CRC being `Take`; what has become of a frame (`Sound`) is settled when it has been sent, since faults fall on the line as it is filled (`LogGrows`) |
| | `InStepCorrect` | `StaysInStep` | `StepInv`: where each phase of the call stands in the frame it began at |
| | `LossCorrect` | `LossBounded` | `LossInv`: a faultless line is whole frames, and the frames begun to be read are at most those returned, one for each call that failed, and one for the call under way |
| `EncMonitorProofs` | `WindowCorrect` | `WindowWhole` | `RingInv`, `WindowInv`: the slots behind `ring_head` are the newest of the log, and what main has copied is intact as long as the reader is no more than `kBufSize - 4` ahead; lemmas on slots modulo the ring |
| | `AccelerationCorrect` | `AccelerationExact` | `OnCurve` and a lemma on parabolas |
| | `OutlivedCorrect` | `ReaderOutlived` | `OwnedInv` |
| | `BouncingCorrect` | `BouncingIsReported` | `DetectorType`: the ring read from `head_` is the last positions; `WalkInv`: at each turn of the loop its locals are the extremes of the places visited, the last movement among them and the number of turns that ended before |
| `SequentialProofs` | `FilterTypeCorrect`, `RingCorrect` | `TypeOK`, `RingInOrder` | `RingInv`: the `count` slots before `head` are the last `count` samples, which `RingInOrder` only says of a full ring |
| | `LeastSquaresCorrect` | `LeastSquares` | the coefficients against the normal equations, for all positions |
| | `ExactCorrect` | `ExactWhenUniform` | `RingInv` and `MeasuredInv`: a sample is the motion at its time plus its error; lemmas on seven equal steps |
| | `TablesCorrect` | `TablesMatchPolynomial` | eight shifts are linear, and so are the tables: they agree on the eight bytes of one bit (`Singles`), and the bits of each entry are sums of those of its index (`Entries`, by evaluating the 256). Then one turn of the loop is eight shifts (`StepIsShift`) |
| | `DamageCorrect` | `DamageDetected` | `DamageInv`: what the two registers differ in (`Apart`) is the disturbance, shifted. `Marked`: until the bit first hit is shifted out it is the lowest of those that differ; that leaves a one where a disturbance of 16 bits does not reach, and it cannot be undone. The hypothesis is `Burst <= 16`, without which it is false |
| | `ReleasedCorrect` | `Released` | `Held` says what is held at each place of an open under way; `Released` only of the others |
| | `ValueCorrect` | `ValueIsPosition` | both ways of filing the position decode to the same number |
| | `SpeedsCorrect` | `SpeedsAreOfObjects` | `TrackInv`: objects keep their order and never go back; `RowInv`: a row shows the beams of its tick, and an object in a beam in some row has a first such row. If every passage left a row, and the clear beam between two objects, an object has one fall per beam, and it comes after those of the objects before it, so that the object's number is the place in the list (`NthIsObject`, by a bijection) |
| `Ch34xProofs` | `GetSplits`, `PutAppends` | what the buffer's operations do to its contents, for every size and offset | arithmetic modulo the size |
| | `TypeCorrect`, `OneHolderCorrect` | types, `OneHolder` | `HolderInv`: who is where while the flag is up, also while it is cleared outside the lock |
| | `QuietCorrect` | `QuietWhenClosed` | `QuietInv`: an URB whose turn in `close` is over is at rest and cannot be submitted |
| | `NotStrandedCorrect` | `NotStranded` | `StrandInv` |
| | `StreamCorrect` | `StreamInOrder` | `StreamInv`: transfer and buffer together are increasing, and the whole of what was accepted and not sent while `intact`; on `GetSplits` and `PutAppends` |
| | `ListeningCorrect`, `LinesCorrect` | `Listening`, `LinesAsRecorded` | `ListenInv`, `LinesInv` |
| | `ErrorsCorrect` | `ErrorsFlagged` | `FlagInv`: until something has passed them, the errors recorded are all those reported since data came, not only of the same flag |

They assume the named assumptions on the constants: disjoint finite sets of
threads, a capacity that is a natural number (0 included), a ring and buffers of
at least one place or what the module's assumption says, integers as positions.
The bounds of the models (`MaxPushes`, `MaxFeeds`, `MaxEnc`, `MaxSent`,
`MaxFaults`, `MaxBytes`, ...) may be any number.

**Only model-checked:** the liveness properties (`PushReturns`,
`WaiterServed`, `ShutdownReleases`, `Termination`, `FramesConsumed`): fairness and
ENABLED are out of the prover's reach. Every invariant of a run that passes is
proved, and so are the three refinements (`Refinement`, `AnswerChannel`,
`FrameChannel`) and the use of the queues by encoder_example.

## Not modelled

- `plot_data.py`, `plot_live.py`: display only.
- In the programs: the methods that return false (DAC, PWM, DOUT), the decoding of
  payloads and voltages (`avg16` takes a sum in 16 bits; the sums are the
  firmware's), `single_turn_resolution`, EMA filters, thresholds of printing,
  console and CSV format. `adc_thread_online` is compiled out and
  `recv_all_responses` has no definition.
- In ch34x.c: `tiocmget`, `write_room`, `chars_in_buffer`, which change nothing; the
  bits of data size, parity and divisor (rates below 46 overflow the 8 bits of
  one factor, and the error of a rate that cannot be set is ignored); the branches
  for older kernels; the probe and release of the device (from kernel 2.6.32 on
  nothing frees `priv`).
- `ER1C_DEMO`: the encoder vendor's MFC dialog for Windows and the libmodbus
  headers beside it. It is not built here, and its behaviour is the Windows message
  queue's and that of a libmodbus whose source is absent.
- `build/`, recorded data, manuals.

## Plan

1. Done: everything in the table of modules, with the proofs above.
2. Open: liveness of `Ch34x` (a byte written is sent or given up) under fairness of
   the USB core, and the open of two ports at once.
