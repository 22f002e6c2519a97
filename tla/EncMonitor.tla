------------------------------- MODULE EncMonitor -------------------------------
(***************************************************************************)
(* encoder_print (main_enc.cpp): a reader thread writes encoder samples    *)
(* into a ring, main reads the four newest and takes the acceleration from *)
(* them.  There is no lock: main learns of a sample from ring_head and     *)
(* ring_count, and nothing keeps the reader from coming round the ring     *)
(* while main is copying.                                                  *)
(*                                                                         *)
(* A sample is two words, written and copied one at a time, in either      *)
(* order by the writer.  Atomic operations take effect one after another,  *)
(* as on the x86-64 the program is built for.  Left out: the velocity, the *)
(* low-pass filters and the printing.  The body the encoder is on moves    *)
(* along a parabola.                                                       *)
(***************************************************************************)
EXTENDS Integers, Sequences

CONSTANTS
  kBufSize,    \* the ring, 64
  Gaps,        \* times between samples, in milliseconds; the guard is one
  Curve,       \* position at time t: Curve * t * t
  MaxSamples   \* bound of the model: samples

ASSUME MonitorAssumption ==
  /\ kBufSize \in Nat /\ kBufSize > 4
  /\ Gaps \subseteq Nat \ {0}
  /\ Curve \in Int
  /\ MaxSamples \in Nat

VARIABLES
  g_running,
  pcR, todo,             \* the reader: place, words of ring[h] still to write
  ring, ring_head, ring_count,
  pcM, head, copied, s,  \* main: place, locals, words copied so far
  acc,                   \* latest_acc, as a fraction
  device,                \* the encoder: closed or open
  log,                   \* history: the samples read from the encoder
  published              \* history: how many the head main has loaded covers

reader == <<pcR, todo, log>>
main == <<pcM, head, copied, s, acc, device, published>>
shared == <<ring, ring_head, ring_count>>
vars == <<g_running, reader, main, shared>>

Slots == 0..(kBufSize - 1)
None == [pos |-> 0, ts |-> 0]

Init ==
  /\ g_running = TRUE
  /\ pcR = "none" /\ todo = {}
  /\ ring = [i \in Slots |-> None] /\ ring_head = 0 /\ ring_count = 0
  /\ pcM = "open" /\ head = 0 /\ copied = 0
  /\ s = [i \in 0..3 |-> None]
  /\ acc = [num |-> 0, den |-> 1]
  /\ device = "closed"
  /\ log = <<>> /\ published = 0

Sigint == g_running /\ g_running' = FALSE /\ UNCHANGED <<reader, main, shared>>
-----------------------------------------------------------------------------
(* The reader thread.                                                      *)

ReaderTest ==
  /\ pcR = "test"
  /\ pcR' = IF g_running THEN "read" ELSE "done"
  /\ UNCHANGED <<g_running, todo, log, main, shared>>

Newest == IF log = <<>> THEN None ELSE log[Len(log)]

(* A read that fails leaves no sample.                                     *)
EncRead ==
  /\ pcR = "read"
  /\ \/ /\ pcR' = "test"
        /\ UNCHANGED <<todo, log>>
     \/ /\ Len(log) < MaxSamples
        /\ \E g \in Gaps :
             LET t == Newest.ts + g IN
             log' = Append(log, [pos |-> Curve * (t * t), ts |-> t])
        /\ todo' = {"pos", "ts"}
        /\ pcR' = "write"
  /\ UNCHANGED <<g_running, main, shared>>

WriteWord ==
  /\ pcR = "write"
  /\ \E f \in todo :
       /\ ring' = [ring EXCEPT ![ring_head][f] = Newest[f]]
       /\ todo' = todo \ {f}
  /\ pcR' = IF todo' = {} THEN "head" ELSE "write"
  /\ UNCHANGED <<g_running, ring_head, ring_count, log, main>>

StoreHead ==
  /\ pcR = "head"
  /\ ring_head' = (ring_head + 1) % kBufSize
  /\ pcR' = "count"
  /\ UNCHANGED <<g_running, ring, ring_count, todo, log, main>>

StoreCount ==
  /\ pcR = "count"
  /\ ring_count' = IF ring_count < kBufSize THEN ring_count + 1 ELSE ring_count
  /\ pcR' = "test"
  /\ UNCHANGED <<g_running, ring, ring_head, todo, log, main>>

ReaderThread == ReaderTest \/ EncRead \/ WriteWord \/ StoreHead \/ StoreCount
-----------------------------------------------------------------------------
(* main.                                                                   *)

(* No encoder: main returns.  Otherwise the reader thread starts.          *)
Open ==
  /\ pcM = "open"
  /\ \/ pcM' = "done" /\ UNCHANGED <<pcR, device>>
     \/ pcM' = "test" /\ pcR' = "test" /\ device' = "open"
  /\ UNCHANGED <<g_running, todo, log, head, copied, s, acc, published, shared>>

MainTest ==
  /\ pcM = "test"
  /\ pcM' = IF g_running THEN "count" ELSE "join"
  /\ UNCHANGED <<g_running, reader, head, copied, s, acc, device, published, shared>>

(* Mutants: three samples will do; no look at g_running while waiting.     *)
LoadCountSpin ==
  /\ pcM = "count"
  /\ pcM' = IF ring_count < 4 THEN "count" ELSE "head"
  /\ UNCHANGED <<g_running, reader, head, copied, s, acc, device, published, shared>>

LoadCountThree ==
  /\ pcM = "count"
  /\ pcM' = IF ring_count < 3 THEN "test" ELSE "head"
  /\ UNCHANGED <<g_running, reader, head, copied, s, acc, device, published, shared>>

LoadCount ==
  /\ pcM = "count"
  /\ pcM' = IF ring_count < 4 THEN "test" ELSE "head"
  /\ UNCHANGED <<g_running, reader, head, copied, s, acc, device, published, shared>>

LoadHead ==
  /\ pcM = "head"
  /\ head' = ring_head
  /\ published' = IF pcR \in {"write", "head"} THEN Len(log) - 1 ELSE Len(log)
  /\ copied' = 0
  /\ pcM' = "copy"
  /\ UNCHANGED <<g_running, reader, s, acc, device, shared>>

(* idx(-4) for the oldest to idx(-1) for the newest.                       *)
Idx(i) == (head + kBufSize - 4 + i) % kBufSize

(* Word by word, s0 to s3.                                                 *)
CopyWord ==
  /\ pcM = "copy"
  /\ LET i == copied \div 2
         f == IF copied % 2 = 0 THEN "pos" ELSE "ts" IN
       s' = [s EXCEPT ![i][f] = ring[Idx(i)][f]]
  /\ copied' = copied + 1
  /\ pcM' = IF copied = 7 THEN "compute" ELSE "copy"
  /\ UNCHANGED <<g_running, reader, head, acc, device, published, shared>>

(* Mutant: the change of velocity spread over the last gap only.           *)
AccelerationLastGap ==
  LET d2 == s[2].ts - s[1].ts
      d3 == s[3].ts - s[2].ts IN
  IF d2 > 1 /\ d3 > 1
  THEN [num |-> (s[3].pos - s[2].pos) * d2 - (s[2].pos - s[1].pos) * d3,
        den |-> d2 * d3 * d3]
  ELSE [num |-> 0, den |-> 1]

(* (vel3 - vel2) / dt_a, with dt_a the mean of the two gaps; gaps of a     *)
(* millisecond or less give no velocity.                                   *)
Acceleration ==
  LET d2 == s[2].ts - s[1].ts
      d3 == s[3].ts - s[2].ts IN
  IF d2 > 1 /\ d3 > 1
  THEN [num |-> 2 * ((s[3].pos - s[2].pos) * d2 - (s[2].pos - s[1].pos) * d3),
        den |-> d2 * d3 * (d2 + d3)]
  ELSE [num |-> 0, den |-> 1]

Compute ==
  /\ pcM = "compute"
  /\ acc' = Acceleration
  /\ pcM' = "test"
  /\ UNCHANGED <<g_running, reader, head, copied, s, device, published, shared>>

(* Mutant: the encoder closed without waiting for the reader.              *)
JoinNot ==
  /\ pcM = "join"
  /\ pcM' = "close"
  /\ UNCHANGED <<g_running, reader, head, copied, s, acc, device, published, shared>>

Join ==
  /\ pcM = "join"
  /\ pcR = "done"
  /\ pcM' = "close"
  /\ UNCHANGED <<g_running, reader, head, copied, s, acc, device, published, shared>>

Close ==
  /\ pcM = "close"
  /\ device' = "closed"
  /\ pcM' = "done"
  /\ UNCHANGED <<g_running, reader, head, copied, s, acc, published, shared>>

MainThread ==
  \/ Open \/ MainTest \/ LoadCount \/ LoadHead \/ CopyWord \/ Compute
  \/ Join \/ Close
-----------------------------------------------------------------------------
(* The process ends when main returns.                                     *)
Exited == pcM = "done" /\ UNCHANGED vars

Next == Sigint \/ ReaderThread \/ MainThread \/ Exited

Spec == Init /\ [][Next]_vars

(* Both threads are scheduled; every call to the encoder returns (modbus   *)
(* has a response timeout of its own).                                     *)
FairSpec == Spec /\ WF_vars(ReaderThread) /\ WF_vars(MainThread)
-----------------------------------------------------------------------------
(* Properties                                                              *)

(* Without a lock, and with nothing to stop the reader at a full ring:     *)
(* provided the reader has begun no more than kBufSize - 4 samples beyond  *)
(* the head main loaded, main's copies are the four newest of that head -  *)
(* consecutive, whole, and none of them an unwritten place of the ring.    *)
WindowWhole ==
  pcM = "compute" /\ Len(log) - published <= kBufSize - 4 =>
    /\ published >= 4
    /\ \A i \in 0..3 : s[i] = log[published - 3 + i]

(* "Read the 4 most recent samples from the ring (chronological order)"    *)
(* (main_enc.cpp:165): main works on the four newest samples of the head   *)
(* it loaded.                                                              *)
MostRecent ==
  pcM = "compute" => \A i \in 0..3 : s[i] = log[published - 3 + i]

(* "using actual timestamps" (main_enc.cpp:9-10): for a body of constant   *)
(* acceleration, twice Curve, the result is exact whatever the gaps are,   *)
(* those of lost samples included.                                         *)
AccelerationExact ==
  pcM = "compute" /\ Len(log) - published <= kBufSize - 4
    /\ (\A i \in 2..3 : s[i].ts - s[i - 1].ts > 1)
  => Acceleration.num = 2 * Curve * Acceleration.den

(* The encoder is not closed, and main does not return, under a reader     *)
(* that may still use it.                                                  *)
ReaderOutlived ==
  pcR \notin {"none", "done"} => device = "open" /\ pcM # "done"

(* SIGINT ends the program.                                                *)
Termination == ~g_running ~> pcM = "done"
=============================================================================
