------------------------------ MODULE Acquisition ------------------------------
(***************************************************************************)
(* src/example/main.cpp: the four threads of encoder_example.              *)
(*                                                                         *)
(*   encoder_thread --enc_q--> encoder_processing_thread --atomics--> main *)
(*   adc_thread ------adc_q------------------------------------------> main*)
(*                                                                         *)
(* main opens the devices, calibrates, starts the threads, consumes until  *)
(* SIGINT clears g_running, then shuts the queues down, joins, closes.     *)
(* Each thread has a program counter; a step is one access to something    *)
(* another thread can see.  The queues are atomic here (DropOldestQueue);  *)
(* BoundedQueue shows that they may be taken as such.                      *)
(*                                                                         *)
(* Data.  A frame is its timestamp.  The time is the number of ADC cycles  *)
(* so far; an encoder frame is its number.  accel1 is 1, so that velocity1 *)
(* is the time that has been integrated.                                   *)
(*                                                                         *)
(* Atomics.  latest_acc and latest_acc_ready are histories of stores; main *)
(* may load any store not older than one it is known to have seen.  A      *)
(* release store carries what its thread had stored before it, and the     *)
(* acquire load that reads it takes that over.                             *)
(***************************************************************************)
EXTENDS Integers, Sequences

CONSTANTS
  EncCap, AdcCap,   \* capacities of enc_q and adc_q (128)
  Window,           \* points the Savitzky-Golay filter needs (7)
  MaxEnc, MaxAdc,   \* bounds of the model: encoder frames, ADC cycles
  MaxCal,           \* bound of the model: samples counted in calibration
  NoFrame           \* no frame in hand

ASSUME AcquisitionAssumption ==
  /\ {EncCap, AdcCap, Window} \subseteq Nat \ {0}
  /\ {MaxEnc, MaxAdc, MaxCal} \subseteq Nat
  /\ NoFrame \notin Nat

VARIABLES
  running,                                        \* g_running
  main, encRd, encPr, adcRd,                      \* program counters
  encOk, adcOk,                                   \* enc_ok, sensor_ok
  encOpen, adcOpen,                               \* the ports are open
  cal,                                            \* cnt of the calibration
  clock,                                          \* now_us()
  adcNew,                                         \* f of adc_thread
  encLog, encHead, encDrops, encClosed, encFrame, \* enc_q and its reader's f
  adcLog, adcHead, adcDrops, adcClosed, adcFrame, \* adc_q and main's adc_frame
  fed,                                            \* points in the filter
  accStores, readyStores,                         \* the two atomics
  accSeen, readySeen, accLoaded,                  \* main's view of them
  prevTs, velocity, rows                          \* prev_adc_ts, velocity1, the CSV

threads == <<main, encRd, encPr, adcRd>>
devices == <<encOk, adcOk, encOpen, adcOpen>>
encQ == <<encLog, encHead, encDrops, encClosed, encFrame>>
adcQ == <<adcLog, adcHead, adcDrops, adcClosed, adcFrame>>
atomics == <<accStores, readyStores>>
view == <<accSeen, readySeen, accLoaded>>
output == <<prevTs, velocity, rows>>
vars == <<running, threads, devices, cal, clock, adcNew, encQ, adcQ, fed,
          atomics, view, output>>

EncQ == INSTANCE DropOldestQueue
          WITH Items <- Nat, NoItem <- NoFrame, Cap <- EncCap, log <- encLog,
               head <- encHead, drops <- encDrops, closed <- encClosed,
               last <- encFrame

AdcQ == INSTANCE DropOldestQueue
          WITH Items <- Nat, NoItem <- NoFrame, Cap <- AdcCap, log <- adcLog,
               head <- adcHead, drops <- adcDrops, closed <- adcClosed,
               last <- adcFrame

Init ==
  /\ running = TRUE
  /\ main = "open"
  /\ encRd = "none" /\ encPr = "none" /\ adcRd = "none"
  /\ encOk = FALSE /\ adcOk = FALSE /\ encOpen = FALSE /\ adcOpen = FALSE
  /\ cal = 0
  /\ clock = 0
  /\ adcNew = NoFrame
  /\ EncQ!Init /\ AdcQ!Init
  /\ fed = 0
  /\ accStores = 0 /\ readyStores = <<>>
  /\ accSeen = 0 /\ readySeen = 0 /\ accLoaded = 0
  /\ prevTs = 0 /\ velocity = 0 /\ rows = <<>>

(* on_sigint: at any moment of the program.                                *)
Sigint ==
  /\ main # "exit"
  /\ running' = FALSE
  /\ UNCHANGED <<threads, devices, cal, clock, adcNew, encQ, adcQ, fed, atomics,
                 view, output>>
-----------------------------------------------------------------------------
(* encoder_thread                                                          *)

EncTest ==
  /\ encRd = "test"
  /\ encRd' = IF running THEN "read" ELSE "done"
  /\ UNCHANGED <<running, main, encPr, adcRd, devices, cal, clock, adcNew, encQ,
                 adcQ, fed, atomics, view, output>>

(* enc->read, then on success the push; the sleep is only time.            *)
EncRead ==
  /\ encRd = "read"
  /\ \/ Len(encLog) < MaxEnc /\ encRd' = "push"
     \/ encRd' = "test"
  /\ UNCHANGED <<running, main, encPr, adcRd, devices, cal, clock, adcNew, encQ,
                 adcQ, fed, atomics, view, output>>

EncPush ==
  /\ encRd = "push"
  /\ EncQ!Push(Len(encLog) + 1)
  /\ encRd' = "test"
  /\ UNCHANGED <<running, main, encPr, adcRd, devices, cal, clock, adcNew, adcQ,
                 fed, atomics, view, output>>

EncoderThread == EncTest \/ EncRead \/ EncPush
-----------------------------------------------------------------------------
(* encoder_processing_thread                                               *)

(* Mutant: for (;;) instead of while (g_running).                          *)
ProcForever ==
  /\ encPr = "test"
  /\ encPr' = "pop"
  /\ UNCHANGED <<running, main, encRd, adcRd, devices, cal, clock, adcNew, encQ,
                 adcQ, fed, atomics, view, output>>

ProcTest ==
  /\ encPr = "test"
  /\ encPr' = IF running THEN "pop" ELSE "done"
  /\ UNCHANGED <<running, main, encRd, adcRd, devices, cal, clock, adcNew, encQ,
                 adcQ, fed, atomics, view, output>>

(* pop_wait(500 ms): a frame, or false on an empty queue in the end.       *)
ProcPop ==
  /\ encPr = "pop"
  /\ \/ EncQ!Pop /\ encPr' = "feed"
     \/ EncQ!Held = 0 /\ encPr' = "test" /\ UNCHANGED encQ
  /\ UNCHANGED <<running, main, encRd, adcRd, devices, cal, clock, adcNew, adcQ,
                 fed, atomics, view, output>>

(* sg.feed: true from the Window-th point on.                              *)
ProcFeed ==
  /\ encPr = "feed"
  /\ fed' = IF fed < Window THEN fed + 1 ELSE fed
  /\ encPr' = IF fed' = Window THEN "storeAcc" ELSE "test"
  /\ UNCHANGED <<running, main, encRd, adcRd, devices, cal, clock, adcNew, encQ,
                 adcQ, atomics, view, output>>

(* latest_acc->store(acc, relaxed)                                         *)
StoreAcc ==
  /\ encPr = "storeAcc"
  /\ accStores' = accStores + 1
  /\ encPr' = "storeReady"
  /\ UNCHANGED <<running, main, encRd, adcRd, devices, cal, clock, adcNew, encQ,
                 adcQ, fed, readyStores, view, output>>

(* Mutant: a relaxed store.                                                *)
StoreReadyRelaxed ==
  /\ encPr = "storeReady"
  /\ readyStores' = Append(readyStores, 0)
  /\ encPr' = "test"
  /\ UNCHANGED <<running, main, encRd, adcRd, devices, cal, clock, adcNew, encQ,
                 adcQ, fed, accStores, view, output>>

(* latest_acc_ready->store(true, release): accStores travels with it.      *)
StoreReady ==
  /\ encPr = "storeReady"
  /\ readyStores' = Append(readyStores, accStores)
  /\ encPr' = "test"
  /\ UNCHANGED <<running, main, encRd, adcRd, devices, cal, clock, adcNew, encQ,
                 adcQ, fed, accStores, view, output>>

ProcessingThread == ProcTest \/ ProcPop \/ ProcFeed \/ StoreAcc \/ StoreReady
-----------------------------------------------------------------------------
(* adc_thread                                                              *)

AdcTest ==
  /\ adcRd = "test"
  /\ adcRd' = IF running THEN "read" ELSE "done"
  /\ UNCHANGED <<running, main, encRd, encPr, devices, cal, clock, adcNew, encQ,
                 adcQ, fed, atomics, view, output>>

(* sensor->read_all and, on success, the timestamp.  A failed cycle takes  *)
(* its time too.                                                           *)
AdcRead ==
  /\ adcRd = "read"
  /\ \/ /\ clock < MaxAdc
        /\ clock' = clock + 1
        /\ \/ adcRd' = "push" /\ adcNew' = clock'
           \/ adcRd' = "test" /\ UNCHANGED adcNew
     \/ clock = MaxAdc /\ adcRd' = "test" /\ UNCHANGED <<clock, adcNew>>
  /\ UNCHANGED <<running, main, encRd, encPr, devices, cal, encQ, adcQ, fed,
                 atomics, view, output>>

AdcPush ==
  /\ adcRd = "push"
  /\ AdcQ!Push(adcNew)
  /\ adcRd' = "test"
  /\ adcNew' = NoFrame
  /\ UNCHANGED <<running, main, encRd, encPr, devices, cal, clock, encQ, fed,
                 atomics, view, output>>

AdcThread == AdcTest \/ AdcRead \/ AdcPush
-----------------------------------------------------------------------------
(* main: start-up                                                          *)

(* The devices open independently; with none the program is over.          *)
Open ==
  /\ main = "open"
  /\ \E e, a \in BOOLEAN :
       /\ encOk' = e /\ encOpen' = e
       /\ adcOk' = a /\ adcOpen' = a
       /\ main' = IF a THEN "calibrate" ELSE IF e THEN "spawn" ELSE "exit"
  /\ UNCHANGED <<running, encRd, encPr, adcRd, cal, clock, adcNew, encQ, adcQ,
                 fed, atomics, view, output>>

(* One turn of the two-second calibration loop that reads a sample.        *)
CalRead ==
  /\ main = "calibrate"
  /\ cal < MaxCal
  /\ cal' = cal + 1
  /\ UNCHANGED <<running, threads, devices, clock, adcNew, encQ, adcQ, fed,
                 atomics, view, output>>

CalEnd ==
  /\ main = "calibrate"
  /\ main' = "spawn"
  /\ UNCHANGED <<running, encRd, encPr, adcRd, devices, cal, clock, adcNew, encQ,
                 adcQ, fed, atomics, view, output>>

Spawn ==
  /\ main = "spawn"
  /\ IF encOk THEN encRd' = "test" /\ encPr' = "test" ELSE UNCHANGED <<encRd, encPr>>
  /\ IF adcOk THEN adcRd' = "test" ELSE UNCHANGED adcRd
  /\ main' = "test"
  /\ UNCHANGED <<running, devices, cal, clock, adcNew, encQ, adcQ, fed, atomics,
                 view, output>>
-----------------------------------------------------------------------------
(* main: the consuming loop                                                *)

(* Mutant: consume only with both devices.                                 *)
MainTestBoth ==
  /\ main = "test"
  /\ main' = IF ~running THEN "shutEnc"
             ELSE IF adcOk /\ encOk THEN "pop" ELSE "loadReady"
  /\ UNCHANGED <<running, encRd, encPr, adcRd, devices, cal, clock, adcNew, encQ,
                 adcQ, fed, atomics, view, output>>

MainTest ==
  /\ main = "test"
  /\ main' = IF ~running THEN "shutEnc" ELSE IF adcOk THEN "pop" ELSE "loadReady"
  /\ UNCHANGED <<running, encRd, encPr, adcRd, devices, cal, clock, adcNew, encQ,
                 adcQ, fed, atomics, view, output>>

(* Mutant: the drain throws away what it pops.                             *)
MainPopDiscard ==
  /\ main \in {"pop", "drain"}
  /\ \/ AdcQ!Pop /\ main' = IF main = "pop" THEN "row" ELSE "drain"
     \/ AdcQ!Held = 0 /\ main' = "loadReady" /\ UNCHANGED adcQ
  /\ UNCHANGED <<running, encRd, encPr, adcRd, devices, cal, clock, adcNew, encQ,
                 fed, atomics, view, output>>

(* pop_wait(500 ms) at "pop", pop_wait(0 ms) at "drain".                   *)
MainPop ==
  /\ main \in {"pop", "drain"}
  /\ \/ AdcQ!Pop /\ main' = "row"
     \/ AdcQ!Held = 0 /\ main' = "loadReady" /\ UNCHANGED adcQ
  /\ UNCHANGED <<running, encRd, encPr, adcRd, devices, cal, clock, adcNew, encQ,
                 fed, atomics, view, output>>

(* Mutant: prev_adc_ts is set for the first frame only.                    *)
RowStalePrev ==
  /\ main = "row"
  /\ velocity' = IF prevTs # 0 THEN velocity + (adcFrame - prevTs) ELSE velocity
  /\ prevTs' = IF prevTs # 0 THEN prevTs ELSE adcFrame
  /\ rows' = Append(rows, adcFrame)
  /\ main' = "drain"
  /\ UNCHANGED <<running, encRd, encPr, adcRd, devices, cal, clock, adcNew, encQ,
                 adcQ, fed, atomics, view>>

(* Integrate and write the row.                                            *)
Row ==
  /\ main = "row"
  /\ velocity' = IF prevTs # 0 THEN velocity + (adcFrame - prevTs) ELSE velocity
  /\ prevTs' = adcFrame
  /\ rows' = Append(rows, adcFrame)
  /\ main' = "drain"
  /\ UNCHANGED <<running, encRd, encPr, adcRd, devices, cal, clock, adcNew, encQ,
                 adcQ, fed, atomics, view>>

(* latest_enc_acc_ready.load(acquire)                                      *)
LoadReady ==
  /\ main = "loadReady"
  /\ \E j \in readySeen..Len(readyStores) :
       /\ readySeen' = j
       /\ accSeen' = IF j > 0 /\ readyStores[j] > accSeen THEN readyStores[j]
                     ELSE accSeen
  /\ main' = "loadAcc"
  /\ UNCHANGED <<running, encRd, encPr, adcRd, devices, cal, clock, adcNew, encQ,
                 adcQ, fed, atomics, accLoaded, output>>

(* latest_enc_acc.load(relaxed); a load of store i is never followed by    *)
(* the load of an older one.                                               *)
LoadAcc ==
  /\ main = "loadAcc"
  /\ \E i \in accSeen..accStores : accLoaded' = i /\ accSeen' = i
  /\ main' = "test"
  /\ UNCHANGED <<running, encRd, encPr, adcRd, devices, cal, clock, adcNew, encQ,
                 adcQ, fed, atomics, readySeen, output>>
-----------------------------------------------------------------------------
(* main: the end                                                           *)

ShutdownEnc ==
  /\ main = "shutEnc"
  /\ EncQ!Shutdown
  /\ main' = "shutAdc"
  /\ UNCHANGED <<running, encRd, encPr, adcRd, devices, cal, clock, adcNew, adcQ,
                 fed, atomics, view, output>>

ShutdownAdc ==
  /\ main = "shutAdc"
  /\ AdcQ!Shutdown
  /\ main' = "joinEncRd"
  /\ UNCHANGED <<running, encRd, encPr, adcRd, devices, cal, clock, adcNew, encQ,
                 fed, atomics, view, output>>

(* Mutant: do not wait for the thread.                                     *)
Detach(at, thread, next) ==
  /\ main = at
  /\ main' = next
  /\ UNCHANGED <<running, encRd, encPr, adcRd, devices, cal, clock, adcNew, encQ,
                 adcQ, fed, atomics, view, output>>

(* Joining a thread that was never started is skipped (joinable).          *)
Join(at, thread, next) ==
  /\ main = at
  /\ thread \in {"none", "done"}
  /\ main' = next
  /\ UNCHANGED <<running, encRd, encPr, adcRd, devices, cal, clock, adcNew, encQ,
                 adcQ, fed, atomics, view, output>>

JoinEncRd == Join("joinEncRd", encRd, "joinEncPr")
JoinEncPr == Join("joinEncPr", encPr, "joinAdcRd")
JoinAdcRd == Join("joinAdcRd", adcRd, "closeEnc")

CloseEnc ==
  /\ main = "closeEnc"
  /\ encOpen' = FALSE
  /\ main' = "closeAdc"
  /\ UNCHANGED <<running, encRd, encPr, adcRd, encOk, adcOk, adcOpen, cal, clock,
                 adcNew, encQ, adcQ, fed, atomics, view, output>>

(* The last close, and with the return the queues and atomics are gone.    *)
CloseAdc ==
  /\ main = "closeAdc"
  /\ adcOpen' = FALSE
  /\ main' = "exit"
  /\ UNCHANGED <<running, encRd, encPr, adcRd, encOk, adcOk, encOpen, cal, clock,
                 adcNew, encQ, adcQ, fed, atomics, view, output>>

MainThread ==
  \/ Open \/ CalEnd \/ Spawn \/ MainTest \/ MainPop \/ Row \/ LoadReady \/ LoadAcc
  \/ ShutdownEnc \/ ShutdownAdc \/ JoinEncRd \/ JoinEncPr \/ JoinAdcRd
  \/ CloseEnc \/ CloseAdc
-----------------------------------------------------------------------------
(* The process is gone.                                                    *)
Exited ==
  /\ main = "exit"
  /\ UNCHANGED vars

Next ==
  \/ Sigint \/ CalRead \/ MainThread \/ EncoderThread \/ ProcessingThread
  \/ AdcThread \/ Exited

Spec == Init /\ [][Next]_vars

(* Every thread is scheduled again and again: each of its steps is a bounded *)
(* computation, a device call with a timeout or a wait with a deadline, and  *)
(* calibration ends by the clock.  SIGINT is never owed.                     *)
Fairness ==
  /\ WF_vars(MainThread)
  /\ WF_vars(EncoderThread)
  /\ WF_vars(ProcessingThread)
  /\ WF_vars(AdcThread)

FairSpec == Spec /\ Fairness
-----------------------------------------------------------------------------
(* Safety                                                                  *)

(* A port is used by one thread at a time and never after its close, and   *)
(* no thread outlives the queues on main's stack: what the join before the *)
(* close, and the calibration before the start of adc_thread, are for.     *)
DeviceOwned ==
  /\ encRd = "read" => encOpen
  /\ adcRd = "read" => adcOpen /\ main # "calibrate"
  /\ main = "exit" => {encRd, encPr, adcRd} \subseteq {"none", "done"}

(* Between adc_thread and the CSV no frame is duplicated, reordered or     *)
(* lost but for those drop_count() owns up to and those still queued.      *)
FramesAccounted ==
  /\ \A i, j \in 1..Len(rows) : i < j => rows[i] < rows[j]
  /\ \A i \in 1..Len(rows) : \E k \in 1..adcHead : rows[i] = adcLog[k]
  /\ adcHead = Len(rows) + adcDrops + (IF main = "row" THEN 1 ELSE 0)

(* The rectangles of the integration tile the time from the first row to   *)
(* the last, also across failed cycles and dropped frames.                 *)
VelocityTelescopes ==
  rows # <<>> => /\ prevTs = rows[Len(rows)]
                 /\ velocity = prevTs - rows[1]

(* Once main has seen latest_acc_ready, the acceleration it loads was      *)
(* computed from a full window, not the initial 0.0, and is not older than *)
(* the store that the flag announced.                                      *)
ReadyMeansComputed ==
  readySeen > 0 /\ main # "loadAcc" =>
    /\ accLoaded > 0
    /\ accLoaded >= readyStores[readySeen]
    /\ fed = Window
-----------------------------------------------------------------------------
(* Liveness                                                                *)

(* Ctrl+C ends the program, from every state: while the devices open or    *)
(* calibrate, with a full queue, with one device missing.                  *)
Termination == ~running ~> main = "exit"

(* No frame stays in its queue for good while the program runs, also when  *)
(* the other device failed to open (main.cpp:215).                         *)
FramesConsumed ==
  /\ \A n \in 1..MaxEnc :
       (encHead < n /\ n <= Len(encLog)) ~> (n <= encHead \/ ~running)
  /\ \A n \in 1..MaxAdc :
       (adcHead < n /\ n <= Len(adcLog)) ~> (n <= adcHead \/ ~running)
=============================================================================
