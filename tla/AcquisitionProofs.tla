--------------------------- MODULE AcquisitionProofs ---------------------------
(***************************************************************************)
(* Proofs about Acquisition: the safety properties of encoder_example for  *)
(* queues of every capacity, every window of the filter and runs of any    *)
(* length.                                                                 *)
(***************************************************************************)
EXTENDS Acquisition, TLAPS

EncQProofs == INSTANCE DropOldestQueueProofs
                WITH Items <- Nat, NoItem <- NoFrame, Cap <- EncCap, log <- encLog,
                     head <- encHead, drops <- encDrops, closed <- encClosed,
                     last <- encFrame

AdcQProofs == INSTANCE DropOldestQueueProofs
                WITH Items <- Nat, NoItem <- NoFrame, Cap <- AdcCap, log <- adcLog,
                     head <- adcHead, drops <- adcDrops, closed <- adcClosed,
                     last <- adcFrame

(* What each thread leaves alone.                                          *)
LEMMA EncoderFrame ==
  ASSUME EncoderThread
  PROVE  /\ encRd \notin {"none", "done"}
         /\ encRd = "test" \/ encRd' # "read"
         /\ UNCHANGED <<running, main, encPr, adcRd, devices, cal, clock, adcNew, adcQ,
                        fed, atomics, view, output>>
BY DEF EncoderThread, EncTest, EncRead, EncPush

LEMMA ProcessingFrame ==
  ASSUME ProcessingThread
  PROVE  /\ encPr \notin {"none", "done"}
         /\ UNCHANGED <<running, main, encRd, adcRd, devices, cal, clock, adcNew, adcQ,
                        view, output>>
BY DEF ProcessingThread, ProcTest, ProcPop, ProcFeed, StoreAcc, StoreReady

LEMMA AdcFrame ==
  ASSUME AdcThread
  PROVE  /\ adcRd \notin {"none", "done"}
         /\ UNCHANGED <<running, main, encRd, encPr, devices, cal, encQ, fed, atomics,
                        view, output>>
BY DEF AdcThread, AdcTest, AdcRead, AdcPush

(* The steps that take main from one place to another and do nothing else  *)
(* to the queues, the rows, the filter or the atomics.                     *)
LEMMA MainFrame ==
  ASSUME MainThread
  PROVE  \/ MainPop \/ Row \/ LoadReady \/ LoadAcc
         \/ /\ main \notin {"pop", "row", "drain", "loadReady", "loadAcc"}
            /\ main' \notin {"row", "drain", "loadAcc"}
            /\ UNCHANGED <<running, clock, adcNew, adcLog, adcHead, adcDrops, adcFrame,
                           fed, atomics, view, output>>
BY DEF MainThread, Open, CalEnd, Spawn, MainTest, ShutdownEnc, ShutdownAdc, Join,
       JoinEncRd, JoinEncPr, JoinAdcRd, CloseEnc, CloseAdc, adcQ, AdcQ!Shutdown
-----------------------------------------------------------------------------
(* The threads run between main's spawn and main's joins, with their port  *)
(* open.                                                                   *)
OwnedInv ==
  /\ main \in {"open", "calibrate", "spawn"} =>
       encRd = "none" /\ encPr = "none" /\ adcRd = "none"
  /\ main \in {"calibrate", "spawn"} => encOpen = encOk /\ adcOpen = adcOk
  /\ encRd \notin {"none", "done"} =>
       encOpen /\ main \notin {"joinEncPr", "joinAdcRd", "closeEnc", "closeAdc", "exit"}
  /\ encPr \notin {"none", "done"} =>
       main \notin {"joinAdcRd", "closeEnc", "closeAdc", "exit"}
  /\ adcRd \notin {"none", "done"} =>
       adcOpen /\ main \notin {"closeEnc", "closeAdc", "exit"}

LEMMA OwnedStep == OwnedInv /\ [Next]_vars => OwnedInv'
<1> SUFFICES ASSUME OwnedInv, [Next]_vars PROVE OwnedInv'
  OBVIOUS
<1> USE DEF OwnedInv, devices
<1>1. CASE Sigint \/ CalRead \/ Exited \/ UNCHANGED vars
  BY <1>1 DEF Sigint, CalRead, Exited, vars, threads
<1>2. CASE EncoderThread
  BY <1>2, EncoderFrame
<1>3. CASE ProcessingThread
  BY <1>3, ProcessingFrame
<1>4. CASE AdcThread
  BY <1>4, AdcFrame
<1>5. CASE Open \/ CalEnd \/ Spawn
  BY <1>5 DEF Open, CalEnd, Spawn
<1>6. CASE MainTest \/ MainPop \/ Row \/ LoadReady \/ LoadAcc
  BY <1>6 DEF MainTest, MainPop, Row, LoadReady, LoadAcc
<1>7. CASE ShutdownEnc \/ ShutdownAdc \/ JoinEncRd \/ JoinEncPr \/ JoinAdcRd
  BY <1>7 DEF ShutdownEnc, ShutdownAdc, JoinEncRd, JoinEncPr, JoinAdcRd, Join
<1>8. CASE CloseEnc \/ CloseAdc
  BY <1>8 DEF CloseEnc, CloseAdc
<1> QED
  BY <1>1, <1>2, <1>3, <1>4, <1>5, <1>6, <1>7, <1>8 DEF Next, MainThread

(* A port is read only while it is open and by one thread, and every       *)
(* thread has ended when main returns (main.cpp:372-380).                  *)
THEOREM DeviceOwnedCorrect == Spec => []DeviceOwned
<1>1. Init => OwnedInv
  BY DEF Init, OwnedInv
<1>2. OwnedInv => DeviceOwned
  BY DEF OwnedInv, DeviceOwned
<1> QED
  BY <1>1, <1>2, OwnedStep, PTL DEF Spec
-----------------------------------------------------------------------------
(* What latest_acc_ready announces, main's acquire load has taken over.    *)
ReadyInv ==
  /\ fed \in Nat /\ accStores \in Nat /\ readyStores \in Seq(Nat)
  /\ accSeen \in 0..accStores /\ accLoaded \in Nat
  /\ readySeen \in 0..Len(readyStores)
  /\ \A j \in 1..Len(readyStores) : readyStores[j] > 0 /\ readyStores[j] <= accStores
  /\ encPr \in {"storeAcc", "storeReady"} \/ readyStores # <<>> => fed = Window
  /\ encPr = "storeReady" => accStores > 0
  /\ readySeen > 0 => accSeen >= readyStores[readySeen]
  /\ readySeen > 0 /\ main # "loadAcc" => accLoaded >= readyStores[readySeen]

LEMMA ReadyStep == ReadyInv /\ [Next]_vars => ReadyInv'
<1> SUFFICES ASSUME ReadyInv, [Next]_vars PROVE ReadyInv'
  OBVIOUS
<1> USE AcquisitionAssumption DEF atomics, view
<1>1. CASE /\ UNCHANGED <<fed, atomics, view>>
           /\ encPr' \in {"storeAcc", "storeReady"} => encPr' = encPr
           /\ main # "loadAcc" \/ main' = "loadAcc"
  BY <1>1 DEF ReadyInv
<1>2. CASE ProcFeed
  BY <1>2 DEF ProcFeed, ReadyInv
<1>3. CASE StoreAcc
  BY <1>3 DEF StoreAcc, ReadyInv
<1>4. CASE StoreReady
  <2>1. /\ encPr = "storeReady" /\ encPr' = "test"
        /\ readyStores' = Append(readyStores, accStores)
        /\ UNCHANGED <<main, fed, accStores, accSeen, readySeen, accLoaded>>
    BY <1>4 DEF StoreReady
  <2>2. /\ readyStores' \in Seq(Nat) /\ Len(readyStores') = Len(readyStores) + 1
        /\ readyStores'[Len(readyStores) + 1] = accStores
        /\ \A j \in 1..Len(readyStores) : readyStores'[j] = readyStores[j]
        /\ Len(readyStores) \in Nat
    BY <2>1 DEF ReadyInv
  <2>3. \A j \in 1..Len(readyStores') : readyStores'[j] > 0 /\ readyStores'[j] <= accStores
    BY <2>1, <2>2 DEF ReadyInv
  <2>4. readySeen > 0 => readySeen \in 1..Len(readyStores)
    BY DEF ReadyInv
  <2> QED
    BY <2>1, <2>2, <2>3, <2>4 DEF ReadyInv
<1>5. CASE LoadReady
  <2>1. PICK j \in readySeen..Len(readyStores) :
          /\ readySeen' = j
          /\ accSeen' = IF j > 0 /\ readyStores[j] > accSeen THEN readyStores[j] ELSE accSeen
    BY <1>5 DEF LoadReady
  <2>2. main' = "loadAcc" /\ UNCHANGED <<encPr, fed, accStores, readyStores, accLoaded>>
    BY <1>5 DEF LoadReady
  <2>3. j \in 0..Len(readyStores)
    BY <2>1 DEF ReadyInv
  <2>4. j > 0 => readyStores[j] \in 0..accStores
    BY <2>3, SMTT(40) DEF ReadyInv
  <2>5. accSeen' \in 0..accStores /\ (j > 0 => accSeen' >= readyStores[j])
    BY <2>1, <2>4, SMTT(40) DEF ReadyInv
  <2> QED
    BY <2>1, <2>2, <2>3, <2>5 DEF ReadyInv
<1>6. CASE LoadAcc
  BY <1>6, SMTT(40) DEF LoadAcc, ReadyInv
<1>7. CASE Sigint \/ CalRead \/ Exited \/ UNCHANGED vars
  BY <1>1, <1>7 DEF Sigint, CalRead, Exited, vars, threads
<1>8. CASE EncoderThread \/ AdcThread
  BY <1>1, <1>8, EncoderFrame, AdcFrame
<1>9. CASE ProcTest \/ ProcPop
  BY <1>1, <1>9 DEF ProcTest, ProcPop
<1>10. CASE MainThread /\ ~LoadReady /\ ~LoadAcc
  <2>1. encPr' \in {encPr, "test"} /\ (main' = "loadAcc" \/ main # "loadAcc")
        /\ UNCHANGED <<fed, atomics, view>>
    BY <1>10 DEF MainThread, Open, CalEnd, Spawn, MainTest, MainPop, Row, ShutdownEnc,
         ShutdownAdc, Join, JoinEncRd, JoinEncPr, JoinAdcRd, CloseEnc, CloseAdc
  <2> QED
    BY <1>1, <2>1
<1> QED
  BY <1>1, <1>2, <1>3, <1>4, <1>5, <1>6, <1>7, <1>8, <1>9, <1>10
     DEF Next, ProcessingThread

(* The acceleration main loads after it has seen the flag is one computed  *)
(* from a full window and no older than the flag (main.cpp:364-365).       *)
THEOREM ReadyCorrect == Spec => []ReadyMeansComputed
<1>1. Init => ReadyInv
  BY DEF Init, ReadyInv
<1>2. ReadyInv => ReadyMeansComputed
  BY DEF ReadyInv, ReadyMeansComputed
<1> QED
  BY <1>1, <1>2, ReadyStep, PTL DEF Spec
-----------------------------------------------------------------------------
(* The frames on their way from adc_thread to the CSV: what was pushed is  *)
(* a rising sequence of times already past, what was popped or written     *)
(* comes from the part of it that has left the queue.                      *)
LogInv ==
  /\ clock \in Nat /\ adcLog \in Seq(Nat)
  /\ \A i, j \in 1..Len(adcLog) : i < j => adcLog[i] < adcLog[j]
  /\ \A i \in 1..Len(adcLog) : adcLog[i] > 0 /\ adcLog[i] <= clock
  /\ adcRd = "push" => /\ adcNew \in Nat /\ adcNew > 0 /\ adcNew <= clock
                       /\ \A i \in 1..Len(adcLog) : adcLog[i] < adcNew

LEMMA LogStep == LogInv /\ [Next]_vars => LogInv'
<1> SUFFICES ASSUME LogInv, [Next]_vars PROVE LogInv'
  OBVIOUS
<1> USE DEF adcQ
<1>1. CASE UNCHANGED <<clock, adcLog, adcNew>> /\ (adcRd' = "push" => adcRd = "push")
  BY <1>1 DEF LogInv
<1>2. CASE AdcRead
  BY <1>2 DEF AdcRead, LogInv
<1>3. CASE AdcPush
  <2>1. /\ adcRd = "push" /\ adcRd' = "test" /\ UNCHANGED clock
        /\ adcLog' = Append(adcLog, adcNew)
    BY <1>3 DEF AdcPush, AdcQ!Push
  <2>2. adcNew \in Nat /\ adcLog \in Seq(Nat) /\ Len(adcLog) \in Nat
    BY <2>1 DEF LogInv
  <2>3. /\ adcLog' \in Seq(Nat) /\ Len(adcLog') = Len(adcLog) + 1
        /\ adcLog'[Len(adcLog) + 1] = adcNew
        /\ \A i \in 1..Len(adcLog) : adcLog'[i] = adcLog[i]
    BY <2>1, <2>2
  <2>4. \A i \in 1..Len(adcLog') : i \in 1..Len(adcLog) \/ i = Len(adcLog) + 1
    BY <2>2, <2>3
  <2>5. \A i, j \in 1..Len(adcLog') : i < j => adcLog'[i] < adcLog'[j]
    <3> SUFFICES ASSUME NEW i \in 1..Len(adcLog'), NEW j \in 1..Len(adcLog'), i < j
                 PROVE  adcLog'[i] < adcLog'[j]
      OBVIOUS
    <3>1. i \in 1..Len(adcLog)
      BY <2>2, <2>3
    <3>2. CASE j = Len(adcLog) + 1
      BY <2>1, <2>3, <3>1, <3>2 DEF LogInv
    <3>3. CASE j \in 1..Len(adcLog)
      BY <2>3, <3>1, <3>3 DEF LogInv
    <3> QED
      BY <2>4, <3>2, <3>3
  <2>6. \A i \in 1..Len(adcLog') : adcLog'[i] > 0 /\ adcLog'[i] <= clock
    BY <2>1, <2>3, <2>4 DEF LogInv
  <2> QED
    BY <2>1, <2>3, <2>5, <2>6 DEF LogInv
<1>4. CASE Sigint \/ CalRead \/ Exited \/ UNCHANGED vars
  BY <1>1, <1>4 DEF Sigint, CalRead, Exited, vars, threads
<1>5. CASE EncoderThread \/ ProcessingThread
  BY <1>1, <1>5, EncoderFrame, ProcessingFrame
<1>6. CASE AdcTest
  BY <1>1, <1>6 DEF AdcTest
<1>7. CASE MainThread
  <2>1. adcRd' \in {adcRd, "test"} /\ UNCHANGED <<clock, adcNew>>
    BY <1>7 DEF MainThread, Open, CalEnd, Spawn, MainTest, MainPop, Row, LoadReady, LoadAcc,
         ShutdownEnc, ShutdownAdc, Join, JoinEncRd, JoinEncPr, JoinAdcRd, CloseEnc, CloseAdc
  <2>2. UNCHANGED adcLog
    BY <1>7, MainFrame DEF MainPop, AdcQ!Pop, Row, LoadReady, LoadAcc
  <2> QED
    BY <1>1, <2>1, <2>2
<1> QED
  BY <1>2, <1>3, <1>4, <1>5, <1>6, <1>7 DEF Next, AdcThread

InHand == IF main = "row" THEN 1 ELSE 0

Gone(f) == \E k \in 1..adcHead : f = adcLog[k]

RowsInv ==
  /\ adcHead \in 0..Len(adcLog) /\ adcDrops \in Nat /\ rows \in Seq(Nat)
  /\ adcHead = Len(rows) + adcDrops + InHand
  /\ \A i, j \in 1..Len(rows) : i < j => rows[i] < rows[j]
  /\ \A i \in 1..Len(rows) : Gone(rows[i])
  /\ main = "row" => /\ adcFrame \in Nat /\ Gone(adcFrame)
                     /\ \A i \in 1..Len(rows) : rows[i] < adcFrame

(* Frames that are gone stay so.                                           *)
LEMMA GoneStep ==
  ASSUME NEW f, Gone(f), adcHead \in 0..Len(adcLog), Len(adcLog) \in Nat,
         adcHead' \in Nat, adcHead' >= adcHead,
         \A k \in 1..Len(adcLog) : adcLog'[k] = adcLog[k]
  PROVE  \E k \in 1..adcHead' : f = adcLog'[k]
<1>1. PICK k \in 1..adcHead : f = adcLog[k]
  BY DEF Gone
<1>2. k \in 1..Len(adcLog) /\ k \in 1..adcHead'
  OBVIOUS
<1> QED
  BY <1>1, <1>2

LEMMA RowsStep == LogInv /\ RowsInv /\ [Next]_vars => RowsInv'
<1> SUFFICES ASSUME LogInv, RowsInv, [Next]_vars PROVE RowsInv'
  OBVIOUS
<1> USE DEF adcQ, output
<1>k. Len(adcLog) \in Nat /\ adcLog \in Seq(Nat) /\ Len(rows) \in Nat /\ rows \in Seq(Nat)
  BY DEF LogInv, RowsInv
<1>1. CASE /\ UNCHANGED <<adcLog, adcHead, adcDrops, adcFrame, rows>>
           /\ main = "row" <=> main' = "row"
  BY <1>1 DEF RowsInv, InHand, Gone
<1>2. CASE AdcPush
  <2>1. /\ UNCHANGED <<main, adcFrame, rows>>
        /\ adcLog' = Append(adcLog, adcNew) /\ adcNew \in Nat
        /\ \/ adcHead' = adcHead + 1 /\ adcDrops' = adcDrops + 1
           \/ UNCHANGED <<adcHead, adcDrops>>
    BY <1>2 DEF AdcPush, AdcQ!Push, LogInv
  <2>2. Len(adcLog') = Len(adcLog) + 1 /\ \A k \in 1..Len(adcLog) : adcLog'[k] = adcLog[k]
    BY <1>k, <2>1
  <2>3. adcHead' \in 0..Len(adcLog') /\ adcHead' >= adcHead
    BY <1>k, <2>1, <2>2 DEF RowsInv
  <2>4. adcDrops' \in Nat /\ adcHead' = Len(rows') + adcDrops' + InHand'
    <3>1. Len(rows') = Len(rows) /\ InHand' = InHand /\ InHand \in 0..1
      BY <2>1 DEF InHand
    <3>2. /\ adcHead = Len(rows) + adcDrops + InHand
          /\ adcHead \in 0..Len(adcLog) /\ adcDrops \in Nat
      BY DEF RowsInv
    <3> QED
      BY <1>k, <2>1, <3>1, <3>2
  <2>5. \A f : Gone(f) => Gone(f)'
    BY <1>k, <2>2, <2>3, GoneStep DEF RowsInv, Gone
  <2> QED
    BY <2>1, <2>3, <2>4, <2>5 DEF RowsInv
<1>3. CASE MainPop
  <2>1. CASE AdcQ!Pop /\ main' = "row"
    <3>1. /\ AdcQ!Held > 0 /\ adcHead' = adcHead + 1 /\ adcFrame' = adcLog[adcHead + 1]
          /\ UNCHANGED <<adcLog, adcDrops, rows>> /\ main # "row"
      BY <1>3, <2>1 DEF MainPop, AdcQ!Pop
    <3>2. adcHead \in Nat /\ adcHead + 1 \in 1..Len(adcLog) /\ adcHead' \in 0..Len(adcLog')
      BY <1>k, <3>1 DEF RowsInv, AdcQ!Held
    <3>3. \A f : Gone(f) => Gone(f)'
      BY <1>k, <3>1, <3>2 DEF RowsInv, Gone
    <3>4. adcFrame' \in Nat /\ Gone(adcFrame)'
      BY <1>k, <3>1, <3>2 DEF Gone
    <3>5. ASSUME NEW i \in 1..Len(rows) PROVE rows[i] < adcFrame'
      <4>1. PICK k \in 1..adcHead : rows[i] = adcLog[k]
        BY DEF RowsInv, Gone
      <4>2. k \in 1..Len(adcLog) /\ k < adcHead + 1
        BY <3>2, <4>1
      <4> QED
        BY <3>1, <3>2, <4>1, <4>2 DEF LogInv
    <3>6. adcHead' = Len(rows') + adcDrops' + InHand'
      BY <1>k, <2>1, <3>1 DEF RowsInv, InHand
    <3> QED
      BY <3>1, <3>2, <3>3, <3>4, <3>5, <3>6 DEF RowsInv
  <2>2. CASE main' = "loadReady" /\ UNCHANGED adcQ
    BY <1>1, <1>3, <2>2 DEF MainPop
  <2> QED
    BY <1>3, <2>1, <2>2 DEF MainPop
<1>4. CASE Row
  <2>1. /\ main = "row" /\ main' = "drain" /\ rows' = Append(rows, adcFrame)
        /\ UNCHANGED <<adcLog, adcHead, adcDrops, adcFrame>>
    BY <1>4 DEF Row
  <2>2. /\ adcFrame \in Nat /\ Gone(adcFrame)
        /\ \A i \in 1..Len(rows) : rows[i] < adcFrame
    BY <2>1 DEF RowsInv
  <2>3. /\ rows' \in Seq(Nat) /\ Len(rows') = Len(rows) + 1
        /\ rows'[Len(rows) + 1] = adcFrame
        /\ \A i \in 1..Len(rows) : rows'[i] = rows[i]
    BY <1>k, <2>1, <2>2
  <2>4. \A i \in 1..Len(rows') : i \in 1..Len(rows) \/ i = Len(rows) + 1
    BY <1>k, <2>3
  <2>5. \A i, j \in 1..Len(rows') : i < j => rows'[i] < rows'[j]
    <3> SUFFICES ASSUME NEW i \in 1..Len(rows'), NEW j \in 1..Len(rows'), i < j
                 PROVE  rows'[i] < rows'[j]
      OBVIOUS
    <3>1. i \in 1..Len(rows)
      BY <1>k, <2>3
    <3>2. CASE j = Len(rows) + 1
      BY <2>2, <2>3, <3>1, <3>2
    <3>3. CASE j \in 1..Len(rows)
      BY <2>3, <3>1, <3>3 DEF RowsInv
    <3> QED
      BY <2>4, <3>2, <3>3
  <2>6. \A i \in 1..Len(rows') : Gone(rows'[i])
    BY <2>2, <2>3, <2>4 DEF RowsInv
  <2>7. \A i \in 1..Len(rows') : Gone(rows[i])'
    BY <2>1, <2>6 DEF Gone
  <2>8. adcHead' = Len(rows') + adcDrops' + InHand'
    BY <1>k, <2>1, <2>3 DEF RowsInv, InHand
  <2> QED
    BY <2>1, <2>3, <2>5, <2>7, <2>8 DEF RowsInv
<1>5. CASE Sigint \/ CalRead \/ Exited \/ UNCHANGED vars
  BY <1>1, <1>5 DEF Sigint, CalRead, Exited, vars, threads
<1>6. CASE EncoderThread \/ ProcessingThread \/ AdcTest \/ AdcRead
  BY <1>1, <1>6, EncoderFrame, ProcessingFrame DEF AdcTest, AdcRead
<1>7. CASE LoadReady \/ LoadAcc
  BY <1>1, <1>7 DEF LoadReady, LoadAcc
<1>8. CASE MainThread
  BY <1>1, <1>3, <1>4, <1>7, <1>8, MainFrame
<1> QED
  BY <1>2, <1>5, <1>6, <1>8 DEF Next, AdcThread

(* Both together, of every behaviour.                                      *)
LEMMA RowsInvariant == Spec => [](LogInv /\ RowsInv)
<1>1. Init => LogInv /\ RowsInv
  BY DEF Init, AdcQ!Init, LogInv, RowsInv, InHand
<1>2. LogInv /\ RowsInv /\ [Next]_vars => LogInv' /\ RowsInv'
  BY LogStep, RowsStep
<1> QED
  BY <1>1, <1>2, PTL DEF Spec

(* Every ADC frame taken from the queue is a row, in order and once, or    *)
(* counted by drop_count() (main.cpp:327-358, BoundedQueue.h:42-58).       *)
THEOREM FramesCorrect == Spec => []FramesAccounted
<1>1. RowsInv => FramesAccounted
  BY DEF RowsInv, FramesAccounted, InHand, Gone
<1> QED
  BY <1>1, RowsInvariant, PTL
-----------------------------------------------------------------------------
(* The integration: the sum of the gaps is the gap of the ends.            *)
SumInv ==
  /\ rows = <<>> => prevTs = 0 /\ velocity = 0
  /\ rows # <<>> => prevTs = rows[Len(rows)] /\ velocity = prevTs - rows[1]

LEMMA SumStep == LogInv /\ RowsInv /\ SumInv /\ [Next]_vars => SumInv'
<1> SUFFICES ASSUME LogInv, RowsInv, SumInv, [Next]_vars PROVE SumInv'
  OBVIOUS
<1> USE DEF output
<1>1. CASE UNCHANGED output
  BY <1>1 DEF SumInv
<1>2. CASE Row
  <2>1. /\ main = "row" /\ rows' = Append(rows, adcFrame) /\ prevTs' = adcFrame
        /\ velocity' = IF prevTs # 0 THEN velocity + (adcFrame - prevTs) ELSE velocity
    BY <1>2 DEF Row
  <2>2. rows \in Seq(Nat) /\ Len(rows) \in Nat /\ adcFrame \in Nat
    BY <2>1 DEF RowsInv
  <2>3. /\ rows' # <<>> /\ Len(rows') = Len(rows) + 1 /\ rows'[Len(rows')] = adcFrame
        /\ rows # <<>> => Len(rows) \in 1..Len(rows) /\ 1 \in 1..Len(rows) /\ rows'[1] = rows[1]
    BY <2>1, <2>2
  <2>4. CASE rows = <<>>
    <3>1. rows'[1] = adcFrame /\ velocity' = 0
      BY <2>1, <2>2, <2>3, <2>4 DEF SumInv
    <3> QED
      BY <2>1, <2>2, <2>3, <3>1 DEF SumInv
  <2>5. CASE rows # <<>>
    <3>1. PICK k \in 1..adcHead : rows[Len(rows)] = adcLog[k]
      BY <2>3, <2>5 DEF RowsInv, Gone
    <3>2. k \in 1..Len(adcLog)
      BY <3>1 DEF RowsInv, LogInv
    <3>3. prevTs # 0 /\ prevTs \in Nat /\ rows[1] \in Nat
      BY <2>2, <2>3, <2>5, <3>1, <3>2 DEF SumInv, LogInv
    <3>4. velocity' = adcFrame - rows[1]
      BY <2>1, <2>2, <2>5, <3>3 DEF SumInv
    <3> QED
      BY <2>1, <2>3, <2>5, <3>4 DEF SumInv
  <2> QED
    BY <2>4, <2>5
<1>3. CASE Sigint \/ CalRead \/ Exited \/ UNCHANGED vars
  BY <1>1, <1>3 DEF Sigint, CalRead, Exited, vars
<1>4. CASE EncoderThread \/ ProcessingThread \/ AdcThread
  BY <1>1, <1>4, EncoderFrame, ProcessingFrame, AdcFrame
<1>5. CASE MainPop \/ LoadReady \/ LoadAcc
  BY <1>1, <1>5 DEF MainPop, LoadReady, LoadAcc
<1>6. CASE MainThread
  BY <1>1, <1>2, <1>5, <1>6, MainFrame
<1> QED
  BY <1>3, <1>4, <1>6 DEF Next

(* The velocity in the CSV is that of the time from the first row to the   *)
(* last, whatever was lost in between (main.cpp:345-349).                  *)
THEOREM VelocityCorrect == Spec => []VelocityTelescopes
<1>1. Init => SumInv
  BY DEF Init, SumInv
<1>2. SumInv => VelocityTelescopes
  BY DEF SumInv, VelocityTelescopes
<1> QED
  BY <1>1, <1>2, SumStep, RowsInvariant, PTL DEF Spec
-----------------------------------------------------------------------------
(* The queues.  What is pushed is a frame, and whatever else a thread does *)
(* leaves them as they are.                                                *)
EncLogInv == encLog \in Seq(Nat)

LEMMA EncQueueStep == EncLogInv /\ [Next]_vars => EncLogInv' /\ [EncQ!Next]_(EncQ!vars)
<1> SUFFICES ASSUME EncLogInv, [Next]_vars PROVE EncLogInv' /\ [EncQ!Next]_(EncQ!vars)
  OBVIOUS
<1> USE DEF EncLogInv, EncQ!Next, EncQ!vars
<1>1. CASE UNCHANGED encQ
  BY <1>1 DEF encQ
<1>2. CASE EncPush
  <2>1. EncQ!Push(Len(encLog) + 1) /\ Len(encLog) + 1 \in Nat
    BY <1>2 DEF EncPush
  <2>2. encLog' = Append(encLog, Len(encLog) + 1)
    BY <2>1 DEF EncQ!Push
  <2> QED
    BY <2>1, <2>2
<1>3. CASE ProcPop
  <2>1. EncQ!Pop \/ UNCHANGED encQ
    BY <1>3 DEF ProcPop
  <2>2. EncQ!Pop => EncLogInv'
    BY DEF EncQ!Pop
  <2> QED
    BY <1>1, <2>1, <2>2
<1>4. CASE ShutdownEnc
  BY <1>4 DEF ShutdownEnc, EncQ!Shutdown
<1>5. CASE EncTest \/ EncRead \/ ProcTest \/ ProcFeed \/ StoreAcc \/ StoreReady
  BY <1>1, <1>5 DEF EncTest, EncRead, ProcTest, ProcFeed, StoreAcc, StoreReady
<1>6. CASE AdcThread
  BY <1>1, <1>6, AdcFrame
<1>7. CASE Sigint \/ CalRead \/ Exited \/ UNCHANGED vars
  BY <1>1, <1>7 DEF Sigint, CalRead, Exited, vars
<1>8. CASE MainThread
  BY <1>1, <1>4, <1>8 DEF MainThread, Open, CalEnd, Spawn, MainTest, MainPop, Row, LoadReady,
       LoadAcc, ShutdownAdc, Join, JoinEncRd, JoinEncPr, JoinAdcRd, CloseEnc, CloseAdc
<1> QED
  BY <1>2, <1>3, <1>5, <1>6, <1>7, <1>8 DEF Next, EncoderThread, ProcessingThread

LEMMA AdcQueueStep == LogInv /\ [Next]_vars => [AdcQ!Next]_(AdcQ!vars)
<1> SUFFICES ASSUME LogInv, [Next]_vars PROVE [AdcQ!Next]_(AdcQ!vars)
  OBVIOUS
<1> USE DEF AdcQ!Next, AdcQ!vars
<1>1. CASE UNCHANGED adcQ
  BY <1>1 DEF adcQ
<1>2. CASE AdcPush
  BY <1>2 DEF AdcPush, LogInv
<1>3. CASE MainPop
  BY <1>1, <1>3 DEF MainPop
<1>4. CASE ShutdownAdc
  BY <1>4 DEF ShutdownAdc
<1>5. CASE AdcTest \/ AdcRead
  BY <1>1, <1>5 DEF AdcTest, AdcRead
<1>6. CASE EncoderThread \/ ProcessingThread
  BY <1>1, <1>6, EncoderFrame, ProcessingFrame
<1>7. CASE Sigint \/ CalRead \/ Exited \/ UNCHANGED vars
  BY <1>1, <1>7 DEF Sigint, CalRead, Exited, vars
<1>8. CASE MainThread
  BY <1>1, <1>3, <1>4, <1>8 DEF MainThread, Open, CalEnd, Spawn, MainTest, Row, LoadReady,
       LoadAcc, ShutdownEnc, Join, JoinEncRd, JoinEncPr, JoinAdcRd, CloseEnc, CloseAdc
<1> QED
  BY <1>2, <1>5, <1>6, <1>7, <1>8 DEF Next, AdcThread

(* What the threads do to each queue is a behaviour of the atomic queue:   *)
(* they use it through its interface, and push nothing but frames          *)
(* (main.cpp:81-101, 173-180, 327-373).                                    *)
THEOREM QueuesCorrect == Spec => EncQ!Spec /\ AdcQ!Spec
<1>1. Init => EncLogInv /\ EncQ!Init /\ AdcQ!Init
  BY DEF Init, EncLogInv, EncQ!Init
<1>2. LogInv /\ EncLogInv /\ [Next]_vars =>
        EncLogInv' /\ [EncQ!Next]_(EncQ!vars) /\ [AdcQ!Next]_(AdcQ!vars)
  BY EncQueueStep, AdcQueueStep
<1> QED
  BY <1>1, <1>2, RowsInvariant, PTL DEF Spec, EncQ!Spec, AdcQ!Spec

(* So each queue keeps what the atomic queue promises, whatever the        *)
(* threads, SIGINT and the devices do: it never holds more than its        *)
(* capacity, and drop_count() grows by the one frame that a push into a    *)
(* full queue costs, never the new one (BoundedQueue.h:25-36).             *)
THEOREM PromisesKept ==
  Spec => /\ []EncQ!WindowOK /\ EncQ!DropsOnlyWhenFull
          /\ []AdcQ!WindowOK /\ AdcQ!DropsOnlyWhenFull
<1>1. EncQ!Spec => []EncQ!WindowOK /\ EncQ!DropsOnlyWhenFull
  <2>1. EncQProofs!QueueAssumption
    BY AcquisitionAssumption DEF EncQProofs!QueueAssumption
  <2>2. EncQProofs!Spec => []EncQProofs!WindowOK
    BY <2>1, EncQProofs!WindowCorrect
  <2>3. EncQProofs!Spec => EncQProofs!DropsOnlyWhenFull
    BY <2>1, EncQProofs!DropsCorrect
  <2>4. EncQ!Init => EncQProofs!Init
    BY DEF EncQ!Init, EncQProofs!Init
  <2>5. [EncQ!Next]_(EncQ!vars) => [EncQProofs!Next]_(EncQProofs!vars)
    BY DEF EncQ!Next, EncQProofs!Next, EncQ!vars, EncQProofs!vars, EncQ!Push, EncQProofs!Push, EncQ!Pop, EncQProofs!Pop,
           EncQ!Shutdown, EncQProofs!Shutdown, EncQ!Held, EncQProofs!Held
  <2>6. EncQProofs!WindowOK => EncQ!WindowOK
    BY DEF EncQ!WindowOK, EncQProofs!WindowOK, EncQ!Held, EncQProofs!Held
  <2>7. EncQProofs!DropsOnlyWhenFull => EncQ!DropsOnlyWhenFull
    <3>1. [encDrops' # encDrops => /\ encDrops' = encDrops + 1 /\ EncQProofs!Held = EncCap
                                   /\ EncQProofs!Held' = EncCap /\ encHead' < Len(encLog')]_(EncQProofs!vars)
          => [encDrops' # encDrops => /\ encDrops' = encDrops + 1 /\ EncQ!Held = EncCap
                                      /\ EncQ!Held' = EncCap /\ encHead' < Len(encLog')]_(EncQ!vars)
      BY DEF EncQProofs!Held, EncQ!Held, EncQProofs!vars, EncQ!vars
    <3> QED
      BY <3>1, PTL DEF EncQProofs!DropsOnlyWhenFull, EncQ!DropsOnlyWhenFull
  <2> QED
    BY <2>2, <2>3, <2>4, <2>5, <2>6, <2>7, PTL DEF EncQ!Spec, EncQProofs!Spec
<1>2. AdcQ!Spec => []AdcQ!WindowOK /\ AdcQ!DropsOnlyWhenFull
  <2>1. AdcQProofs!QueueAssumption
    BY AcquisitionAssumption DEF AdcQProofs!QueueAssumption
  <2>2. AdcQProofs!Spec => []AdcQProofs!WindowOK
    BY <2>1, AdcQProofs!WindowCorrect
  <2>3. AdcQProofs!Spec => AdcQProofs!DropsOnlyWhenFull
    BY <2>1, AdcQProofs!DropsCorrect
  <2>4. AdcQ!Init => AdcQProofs!Init
    BY DEF AdcQ!Init, AdcQProofs!Init
  <2>5. [AdcQ!Next]_(AdcQ!vars) => [AdcQProofs!Next]_(AdcQProofs!vars)
    BY DEF AdcQ!Next, AdcQProofs!Next, AdcQ!vars, AdcQProofs!vars, AdcQ!Push, AdcQProofs!Push, AdcQ!Pop, AdcQProofs!Pop,
           AdcQ!Shutdown, AdcQProofs!Shutdown, AdcQ!Held, AdcQProofs!Held
  <2>6. AdcQProofs!WindowOK => AdcQ!WindowOK
    BY DEF AdcQ!WindowOK, AdcQProofs!WindowOK, AdcQ!Held, AdcQProofs!Held
  <2>7. AdcQProofs!DropsOnlyWhenFull => AdcQ!DropsOnlyWhenFull
    <3>1. [adcDrops' # adcDrops => /\ adcDrops' = adcDrops + 1 /\ AdcQProofs!Held = AdcCap
                                   /\ AdcQProofs!Held' = AdcCap /\ adcHead' < Len(adcLog')]_(AdcQProofs!vars)
          => [adcDrops' # adcDrops => /\ adcDrops' = adcDrops + 1 /\ AdcQ!Held = AdcCap
                                      /\ AdcQ!Held' = AdcCap /\ adcHead' < Len(adcLog')]_(AdcQ!vars)
      BY DEF AdcQProofs!Held, AdcQ!Held, AdcQProofs!vars, AdcQ!vars
    <3> QED
      BY <3>1, PTL DEF AdcQProofs!DropsOnlyWhenFull, AdcQ!DropsOnlyWhenFull
  <2> QED
    BY <2>2, <2>3, <2>4, <2>5, <2>6, <2>7, PTL DEF AdcQ!Spec, AdcQProofs!Spec
<1> QED
  BY <1>1, <1>2, QueuesCorrect, PTL
=============================================================================
