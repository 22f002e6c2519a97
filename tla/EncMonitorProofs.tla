---------------------------- MODULE EncMonitorProofs ----------------------------
(***************************************************************************)
(* Proofs about EncMonitor: what main copies from the ring without a lock, *)
(* and the end of the program, for every size of the ring, all gaps and    *)
(* any number of samples.  And about OscillationDetector, which main feeds *)
(* with them: what its loop over a ring of any size concludes.             *)
(***************************************************************************)
EXTENDS EncMonitor, OscillationDetector, FiniteSetTheorems, TLAPS

(* No multiple of k but 0 lies between -k and k.                            *)
LEMMA Multiple ==
  ASSUME NEW k \in Nat \ {0}, NEW d \in Int, -k < k * d, k * d < k
  PROVE  d = 0
<1>1. CASE d >= 1
  <2>1. k * (d - 1) >= 0
    BY <1>1
  <2>2. k * (d - 1) = k * d - k
    OBVIOUS
  <2> QED
    BY <2>1, <2>2
<1>2. CASE d <= -1
  <2>1. k * (-d - 1) >= 0
    BY <1>2
  <2>2. k * (-d - 1) = -(k * d) - k
    OBVIOUS
  <2> QED
    BY <2>1, <2>2
<1> QED
  BY <1>1, <1>2

LEMMA Division ==
  ASSUME NEW k \in Nat \ {0}, NEW a \in Nat
  PROVE  a % k \in 0..(k - 1) /\ \E q \in Int : a = k * q + (a % k)
<1>1. a % k \in 0..(k - 1)
  OBVIOUS
<1>2. a \div k \in Int /\ a = k * (a \div k) + (a % k)
  OBVIOUS
<1> QED
  BY <1>1, <1>2

LEMMA Remainder ==
  ASSUME NEW k \in Nat \ {0}, NEW a \in Nat, NEW q \in Int, NEW r \in 0..(k - 1), a = k * q + r
  PROVE  a % k = r
<1>1. PICK p \in Int : a = k * p + (a % k)
  BY Division
<1>2. a % k \in 0..(k - 1)
  BY Division
<1>3. k * (p - q) = k * p - k * q
  OBVIOUS
<1> DEFINE u == (a % k)
<1>4. u \in 0..(k - 1) /\ k * p - k * q = r - u
  BY <1>1, <1>2
<1> HIDE DEF u
<1>5. -k < k * (p - q) /\ k * (p - q) < k /\ p - q \in Int
  BY <1>3, <1>4
<1>6. p - q = 0
  BY <1>5, Multiple
<1>7. k * (p - q) = 0
  BY <1>6
<1> QED
  BY <1>3, <1>4, <1>7 DEF u

(* The slots of a ring of k places, taken in turn.                         *)
LEMMA NextSlot ==
  ASSUME NEW k \in Nat \ {0}, NEW a \in Nat
  PROVE  ((a % k) + 1) % k = (a + 1) % k
<1>1. PICK q \in Int : a = k * q + (a % k)
  BY Division
<1> DEFINE u == (a % k)
<1>2. u \in 0..(k - 1) /\ a = k * q + u
  BY <1>1, Division
<1> HIDE DEF u
<1>3. CASE u + 1 < k
  <2>1. u + 1 \in 0..(k - 1) /\ a + 1 = k * q + (u + 1) /\ u + 1 = k * 0 + (u + 1)
    BY <1>2, <1>3
  <2>2. (a + 1) % k = u + 1 /\ (u + 1) % k = u + 1
    BY <1>2, <2>1, Remainder
  <2> QED
    BY <2>2 DEF u
<1>4. CASE u + 1 = k
  <2>1. k * (q + 1) = k * q + k /\ q + 1 \in Int
    OBVIOUS
  <2>2. a + 1 = k * (q + 1) + 0 /\ u + 1 = k * 1 + 0 /\ 0 \in 0..(k - 1)
    BY <1>2, <1>4, <2>1
  <2>3. (a + 1) % k = 0 /\ (u + 1) % k = 0
    BY <1>2, <2>1, <2>2, Remainder
  <2> QED
    BY <2>3 DEF u
<1> QED
  BY <1>2, <1>3, <1>4

(* Fewer than k turns do not come back to the same slot.                   *)
LEMMA SlotsDiffer ==
  ASSUME NEW k \in Nat \ {0}, NEW a \in Nat, NEW b \in Nat, a < b, b < a + k
  PROVE  a % k # b % k
<1> SUFFICES ASSUME a % k = b % k PROVE FALSE
  OBVIOUS
<1>1. PICK p \in Int : a = k * p + (a % k)
  BY Division
<1>2. PICK q \in Int : b = k * q + (a % k)
  BY Division
<1> DEFINE u == (a % k)
<1>3. u \in 0..(k - 1) /\ a = k * p + u /\ b = k * q + u
  BY <1>1, <1>2, Division
<1> HIDE DEF u
<1>4. k * (q - p) = k * q - k * p /\ q - p \in Int
  OBVIOUS
<1>5. k * (q - p) = b - a
  BY <1>3, <1>4
<1>6. q - p = 0
  BY <1>4, <1>5, Multiple
<1>7. k * (q - p) = 0
  BY <1>6
<1> QED
  BY <1>5, <1>7

(* The four slots behind one (main_enc.cpp:168).                           *)
LEMMA BackSlot ==
  ASSUME NEW k \in Nat \ {0}, k > 4, NEW p \in Nat, p >= 4, NEW i \in 0..3
  PROVE  ((p % k) + k - 4 + i) % k = (p - 4 + i) % k
<1> DEFINE u == p % k
           m == p - 4 + i
           v == m % k
           a == u + k - 4 + i
<1>1. m \in Nat
  OBVIOUS
<1>2. PICK q \in Int : p = k * q + u
  BY Division
<1>3. u \in 0..(k - 1)
  BY Division
<1> HIDE DEF m
<1>4. PICK t \in Int : m = k * t + v
  BY <1>1, Division
<1>5. v \in 0..(k - 1)
  BY <1>1, Division
<1> HIDE DEF u, v
<1>6. k * (t - q + 1) = k * t - k * q + k /\ t - q + 1 \in Int
  OBVIOUS
<1>7. a \in Nat /\ a = m + k - (p - u)
  BY <1>3 DEF m
<1>8. a = k * (t - q + 1) + v
  <2> DEFINE x == k * t
             y == k * q
             z == k * (t - q + 1)
  <2>1. x \in Int /\ y \in Int /\ z \in Int
    BY <1>6
  <2>2. z = x - y + k /\ m = x + v /\ p = y + u
    BY <1>2, <1>4, <1>6
  <2> HIDE DEF x, y, z, a
  <2>3. a = z + v
    BY <1>1, <1>3, <1>5, <1>7, <2>1, <2>2
  <2> QED
    BY <2>3 DEF z
<1> HIDE DEF a
<1>9. a % k = v
  BY <1>5, <1>6, <1>7, <1>8, Remainder, ZenonT(60)
<1> QED
  BY <1>9 DEF a, u, v, m
-----------------------------------------------------------------------------
Words == [pos : Int, ts : Nat]
Parts == {"pos", "ts"}

TypeOK ==
  /\ pcR \in {"none", "test", "read", "write", "head", "count", "done"}
  /\ pcM \in {"open", "test", "count", "head", "copy", "compute", "join", "close", "done"}
  /\ todo \subseteq Parts
  /\ log \in Seq(Words) /\ (pcR \in {"write", "head"} => log # <<>>)
  /\ ring \in [Slots -> Words] /\ ring_head \in Slots /\ ring_count \in Nat
  /\ s \in [0..3 -> Words] /\ head \in Slots /\ copied \in 0..8
  /\ pcM = "copy" => copied \in 0..7
  /\ published \in Nat

LEMMA NewestType ==
  ASSUME TypeOK
  PROVE  Newest \in Words
<1>1. CASE log = <<>>
  BY <1>1 DEF Newest, None, Words
<1>2. CASE log # <<>>
  <2>1. log \in Seq(Words) /\ Len(log) \in 1..Len(log)
    BY <1>2 DEF TypeOK
  <2> QED
    BY <1>2, <2>1 DEF Newest
<1> QED
  BY <1>1, <1>2

LEMMA TypeStep == TypeOK /\ [Next]_vars => TypeOK'
<1> SUFFICES ASSUME TypeOK, [Next]_vars PROVE TypeOK'
  OBVIOUS
<1> USE MonitorAssumption DEF shared, reader, main
<1>1. CASE Sigint \/ Exited \/ UNCHANGED vars
  BY <1>1 DEF Sigint, Exited, vars, TypeOK
<1>2. CASE ReaderTest
  BY <1>2 DEF ReaderTest, TypeOK
<1>3. CASE EncRead
  <2>1. CASE pcR' = "test" /\ UNCHANGED <<todo, log>>
    BY <1>3, <2>1 DEF EncRead, TypeOK
  <2>2. ASSUME NEW g \in Gaps, log' = Append(log, [pos |-> Curve * ((Newest.ts + g) * (Newest.ts + g)),
                                                   ts |-> Newest.ts + g]),
               todo' = Parts, pcR' = "write"
        PROVE  TypeOK'
    <3>1. Newest.ts \in Nat /\ g \in Nat
      BY NewestType DEF Words
    <3>2. Curve * ((Newest.ts + g) * (Newest.ts + g)) \in Int
      BY <3>1
    <3> DEFINE w == [pos |-> Curve * ((Newest.ts + g) * (Newest.ts + g)), ts |-> Newest.ts + g]
    <3>3. w \in Words
      BY <3>1, <3>2 DEF Words
    <3>5. log' = Append(log, w)
      BY <2>2
    <3> HIDE DEF w
    <3>4. log' \in Seq(Words) /\ log' # <<>>
      BY <3>3, <3>5 DEF TypeOK
    <3> QED
      BY <1>3, <2>2, <3>4 DEF EncRead, TypeOK
  <2> QED
    BY <1>3, <2>1, <2>2 DEF EncRead, Parts
<1>4. CASE WriteWord
  <2>1. PICK f \in todo : /\ ring' = [ring EXCEPT ![ring_head][f] = Newest[f]]
                          /\ todo' = todo \ {f}
    BY <1>4 DEF WriteWord
  <2>2. ring' \in [Slots -> Words]
    <3>1. f \in Parts /\ Newest \in Words /\ ring[ring_head] \in Words
      BY NewestType DEF TypeOK
    <3>2. [ring[ring_head] EXCEPT ![f] = Newest[f]] \in Words
      BY <3>1 DEF Words, Parts
    <3> QED
      BY <2>1, <3>2 DEF TypeOK
  <2> QED
    BY <1>4, <2>1, <2>2 DEF WriteWord, TypeOK
<1>5. CASE StoreHead
  <2>1. ring_head' \in Slots
    BY <1>5 DEF StoreHead, TypeOK, Slots
  <2> QED
    BY <1>5, <2>1 DEF StoreHead, TypeOK
<1>6. CASE StoreCount
  BY <1>6 DEF StoreCount, TypeOK
<1>7. CASE Open \/ MainTest \/ LoadCount \/ Compute \/ Join \/ Close
  BY <1>7 DEF Open, MainTest, LoadCount, Compute, Join, Close, TypeOK
<1>8. CASE LoadHead
  <2>1. published' \in Nat
    BY <1>8 DEF LoadHead, TypeOK
  <2> QED
    BY <1>8, <2>1 DEF LoadHead, TypeOK
<1>9. CASE CopyWord
  <2>1. s' \in [0..3 -> Words]
    <3> DEFINE i == copied \div 2
               f == IF copied % 2 = 0 THEN "pos" ELSE "ts"
    <3>1. s' = [s EXCEPT ![i][f] = ring[Idx(i)][f]]
      BY <1>9 DEF CopyWord
    <3>2. i \in 0..3 /\ f \in Parts
      BY <1>9 DEF CopyWord, TypeOK, Parts
    <3> HIDE DEF i, f
    <3>3. Idx(i) \in Slots
      BY <3>2 DEF Idx, TypeOK, Slots
    <3>4. [s[i] EXCEPT ![f] = ring[Idx(i)][f]] \in Words
      BY <3>2, <3>3 DEF TypeOK, Words, Parts
    <3> QED
      BY <3>1, <3>2, <3>4 DEF TypeOK
  <2>2. copied' \in 0..8 /\ (pcM' = "copy" => copied' \in 0..7)
    BY <1>9 DEF CopyWord, TypeOK
  <2> QED
    BY <1>9, <2>1, <2>2 DEF CopyWord, TypeOK
<1> QED
  BY <1>1, <1>2, <1>3, <1>4, <1>5, <1>6, <1>7, <1>8, <1>9
     DEF Next, ReaderThread, MainThread
-----------------------------------------------------------------------------
(* The reader runs only between main's open and its join.                  *)
OwnedInv ==
  /\ pcM = "open" => pcR = "none"
  /\ pcR \notin {"none", "done"} => device = "open" /\ pcM \notin {"open", "close", "done"}

LEMMA OwnedStep == OwnedInv /\ [Next]_vars => OwnedInv'
<1> SUFFICES ASSUME OwnedInv, [Next]_vars PROVE OwnedInv'
  OBVIOUS
<1> USE DEF OwnedInv, shared, reader, main
<1>1. CASE Sigint \/ Exited \/ UNCHANGED vars
  BY <1>1 DEF Sigint, Exited, vars
<1>2. CASE ReaderThread
  <2>1. pcR \notin {"none", "done"} /\ UNCHANGED <<pcM, device>>
    BY <1>2 DEF ReaderThread, ReaderTest, EncRead, WriteWord, StoreHead, StoreCount
  <2> QED
    BY <2>1
<1>3. CASE MainThread
  BY <1>3 DEF MainThread, Open, MainTest, LoadCount, LoadHead, CopyWord, Compute, Join, Close
<1> QED
  BY <1>1, <1>2, <1>3 DEF Next

(* The encoder outlives the thread that reads it (main_enc.cpp:233-234).    *)
THEOREM OutlivedCorrect == Spec => []ReaderOutlived
<1>1. Init => OwnedInv
  BY DEF Init, OwnedInv
<1>2. OwnedInv => ReaderOutlived
  BY DEF OwnedInv, ReaderOutlived
<1> QED
  BY <1>1, <1>2, OwnedStep, PTL DEF Spec
-----------------------------------------------------------------------------
(* How many samples are in the ring and published, and whether part f of   *)
(* sample n has been written.                                              *)
Stored == IF pcR \in {"write", "head"} THEN Len(log) - 1 ELSE Len(log)

Written(n, f) == n # Len(log) \/ pcR # "write" \/ f \notin todo

(* The ring holds the last kBufSize samples, the one being written as far  *)
(* as it is written.                                                       *)
RingInv ==
  /\ Stored \in Nat /\ ring_head = Stored % kBufSize
  /\ ring_count <= Stored /\ (pcR = "count" => ring_count < Stored)
  /\ \A n \in 1..Len(log), f \in Parts :
       n > Len(log) - kBufSize /\ Written(n, f) => ring[(n - 1) % kBufSize][f] = log[n][f]

LEMMA RingStep == TypeOK /\ OwnedInv /\ RingInv /\ [Next]_vars => RingInv'
<1> SUFFICES ASSUME TypeOK, OwnedInv, RingInv, [Next]_vars PROVE RingInv'
  OBVIOUS
<1> USE DEF shared, reader, main
<1>k. kBufSize \in Nat \ {0} /\ Len(log) \in Nat
  BY MonitorAssumption DEF TypeOK
<1>1. CASE UNCHANGED <<reader, shared>>
  BY <1>1 DEF RingInv, Stored, Written
<1>2. CASE ReaderTest
  BY <1>2 DEF ReaderTest, RingInv, Stored, Written
<1>3. CASE EncRead
  <2>1. CASE pcR' = "test" /\ UNCHANGED <<todo, log>>
    BY <1>3, <2>1 DEF EncRead, RingInv, Stored, Written
  <2>2. ASSUME NEW w, log' = Append(log, w), todo' = Parts, pcR' = "write"
        PROVE  RingInv'
    <3>1. pcR = "read" /\ UNCHANGED shared
      BY <1>3 DEF EncRead
    <3>2. /\ Len(log') = Len(log) + 1
          /\ \A n \in 1..Len(log) : log'[n] = log[n]
      BY <2>2 DEF TypeOK
    <3>3. Stored = Len(log) /\ Stored' = Len(log)
      BY <1>k, <2>2, <3>1, <3>2 DEF Stored
    <3>4. ASSUME NEW n \in 1..Len(log'), NEW f \in Parts, n > Len(log') - kBufSize,
                 Written(n, f)'
          PROVE  ring'[(n - 1) % kBufSize][f] = log'[n][f]
      <4>1. n # Len(log')
        BY <2>2, <3>4 DEF Written
      <4>2. n \in 1..Len(log) /\ n > Len(log) - kBufSize /\ Written(n, f)
        BY <1>k, <3>1, <3>2, <3>4, <4>1 DEF Written
      <4> QED
        BY <3>1, <3>2, <4>2 DEF RingInv
    <3> QED
      BY <2>2, <3>1, <3>3, <3>4 DEF RingInv
  <2> QED
    BY <1>3, <2>1, <2>2 DEF EncRead, Parts
<1>4. CASE WriteWord
  <2>1. PICK g \in todo : /\ ring' = [ring EXCEPT ![ring_head][g] = Newest[g]]
                          /\ todo' = todo \ {g}
    BY <1>4 DEF WriteWord
  <2>2. /\ pcR = "write" /\ pcR' = IF todo' = {} THEN "head" ELSE "write"
        /\ UNCHANGED <<ring_head, ring_count, log>>
    BY <1>4 DEF WriteWord
  <2>3. Stored = Len(log) - 1 /\ Stored' = Stored /\ Len(log) \in Nat \ {0}
    BY <1>k, <2>2 DEF Stored, TypeOK
  <2>4. Newest = log[Len(log)] /\ ring_head = (Len(log) - 1) % kBufSize
    BY <2>2, <2>3 DEF Newest, TypeOK, RingInv
  <2>5. ASSUME NEW n \in 1..Len(log), NEW f \in Parts, n > Len(log) - kBufSize,
               Written(n, f)'
        PROVE  ring'[(n - 1) % kBufSize][f] = log[n][f]
    <3>1. CASE n = Len(log)
      <4>1. CASE f = g
        BY <2>1, <2>4, <3>1, <4>1 DEF TypeOK, Words, Parts
      <4>2. CASE f # g
        <5>1. Written(n, f)
          BY <2>1, <2>2, <2>5, <3>1, <4>2 DEF Written
        <5>2. ring'[(n - 1) % kBufSize][f] = ring[(n - 1) % kBufSize][f]
          BY <2>1, <2>4, <3>1, <4>2 DEF TypeOK, Words, Parts
        <5> QED
          BY <2>5, <5>1, <5>2 DEF RingInv
      <4> QED
        BY <4>1, <4>2
    <3>2. CASE n # Len(log)
      <4>1. (n - 1) % kBufSize # (Len(log) - 1) % kBufSize
        <5>1. n - 1 \in Nat /\ Len(log) - 1 \in Nat /\ n - 1 < Len(log) - 1
              /\ Len(log) - 1 < (n - 1) + kBufSize
          BY <1>k, <2>3, <2>5, <3>2
        <5> QED
          BY <1>k, <5>1, SlotsDiffer
      <4>2. ring'[(n - 1) % kBufSize] = ring[(n - 1) % kBufSize]
        <5>1. (n - 1) % kBufSize \in Slots
          BY <1>k DEF Slots
        <5> QED
          BY <2>1, <2>4, <4>1, <5>1 DEF TypeOK
      <4>3. Written(n, f)
        BY <3>2 DEF Written
      <4> QED
        BY <2>5, <4>2, <4>3 DEF RingInv
    <3> QED
      BY <3>1, <3>2
  <2>6. pcR' # "count"
    BY <2>2
  <2> QED
    BY <2>2, <2>3, <2>5, <2>6 DEF RingInv
<1>5. CASE StoreHead
  <2>1. /\ pcR = "head" /\ pcR' = "count" /\ UNCHANGED <<ring, ring_count, todo, log>>
        /\ ring_head' = (ring_head + 1) % kBufSize
    BY <1>5 DEF StoreHead
  <2>2. Stored = Len(log) - 1 /\ Stored' = Stored + 1 /\ Stored \in Nat
    BY <1>k, <2>1 DEF Stored, RingInv
  <2>3. ring_head' = Stored' % kBufSize
    BY <1>k, <2>1, <2>2, NextSlot DEF RingInv
  <2>4. \A n \in 1..Len(log), f \in Parts : Written(n, f)
    BY <2>1 DEF Written
  <2>5. ring_count' < Stored'
    BY <2>1, <2>2 DEF RingInv, TypeOK
  <2> QED
    BY <2>1, <2>2, <2>3, <2>4, <2>5 DEF RingInv, TypeOK
<1>6. CASE StoreCount
  <2>1. /\ pcR = "count" /\ pcR' = "test" /\ UNCHANGED <<ring, ring_head, todo, log>>
        /\ ring_count' \in {ring_count, ring_count + 1}
    BY <1>6 DEF StoreCount
  <2>2. Stored' = Stored /\ \A n \in 1..Len(log), f \in Parts : Written(n, f)
    BY <2>1 DEF Stored, Written
  <2>3. ring_count' <= Stored'
    BY <2>1, <2>2 DEF RingInv, TypeOK
  <2> QED
    BY <2>1, <2>2, <2>3 DEF RingInv
<1>7. CASE Open
  BY <1>7 DEF Open, OwnedInv, RingInv, Stored, Written
<1> QED
  BY <1>1, <1>2, <1>3, <1>4, <1>5, <1>6, <1>7
     DEF Next, ReaderThread, MainThread, Sigint, Exited, MainTest, LoadCount, LoadHead,
         CopyWord, Compute, Join, Close, vars
-----------------------------------------------------------------------------
(* How far main has copied: part f of its i-th sample.                     *)
Copied(i, f) == 2 * i + (IF f = "ts" THEN 1 ELSE 0) < copied

(* While the reader has not come round to it, what main has copied are the *)
(* samples of the head it loaded.                                          *)
WindowInv ==
  /\ pcM = "head" => Stored >= 4
  /\ pcM = "compute" => copied = 8
  /\ pcM \in {"copy", "compute"} =>
       /\ published >= 4 /\ published <= Stored /\ head = published % kBufSize
       /\ Len(log) - published <= kBufSize - 4 =>
            \A i \in 0..3, f \in Parts : Copied(i, f) => s[i][f] = log[published - 3 + i][f]

LEMMA WindowStep ==
  ASSUME TypeOK, OwnedInv, RingInv, WindowInv, [Next]_vars
  PROVE  WindowInv'
<1> USE DEF shared, reader, main
<1>k. /\ kBufSize \in Nat \ {0} /\ kBufSize > 4 /\ Len(log) \in Nat /\ Stored \in Nat
      /\ Stored <= Len(log) /\ published \in Nat
  BY MonitorAssumption DEF TypeOK, Stored, RingInv
<1>1. CASE ReaderThread
  <2>1. UNCHANGED main
    BY <1>1 DEF ReaderThread, ReaderTest, EncRead, WriteWord, StoreHead, StoreCount
  <2>2. /\ Len(log') \in Nat /\ Len(log') >= Len(log) /\ Stored' >= Stored
        /\ \A n \in 1..Len(log) : log'[n] = log[n]
    <3>1. CASE UNCHANGED log /\ Stored' >= Stored
      BY <1>k, <3>1
    <3>2. CASE EncRead
      <4>1. CASE pcR' = "test" /\ log' = log
        BY <1>k, <3>2, <4>1 DEF EncRead, Stored
      <4>2. ASSUME NEW w, log' = Append(log, w), pcR' = "write"
            PROVE  /\ Len(log') \in Nat /\ Len(log') >= Len(log) /\ Stored' >= Stored
                   /\ \A n \in 1..Len(log) : log'[n] = log[n]
        <5>1. Len(log') = Len(log) + 1 /\ \A n \in 1..Len(log) : log'[n] = log[n]
          BY <4>2 DEF TypeOK
        <5>2. Stored' = Len(log)
          BY <1>k, <4>2, <5>1 DEF Stored
        <5> QED
          BY <1>k, <5>1, <5>2
      <4> QED
        BY <3>2, <4>1, <4>2 DEF EncRead
    <3>3. CASE ReaderTest \/ WriteWord \/ StoreHead \/ StoreCount
      BY <1>k, <3>1, <3>3 DEF ReaderTest, WriteWord, StoreHead, StoreCount, Stored
    <3> QED
      BY <1>1, <3>2, <3>3 DEF ReaderThread
  <2>3. Stored' \in Nat
    BY <1>k, <2>2 DEF Stored
  <2>4. ASSUME pcM \in {"copy", "compute"}, Len(log') - published <= kBufSize - 4,
               NEW i \in 0..3, NEW f \in Parts, Copied(i, f)
        PROVE  s[i][f] = log'[published - 3 + i][f]
    <3>1. published >= 4 /\ published <= Stored /\ Len(log) - published <= kBufSize - 4
      BY <1>k, <2>2, <2>4 DEF WindowInv
    <3>2. published - 3 + i \in 1..Len(log)
      BY <1>k, <3>1
    <3>3. s[i][f] = log[published - 3 + i][f]
      BY <2>4, <3>1 DEF WindowInv
    <3> QED
      BY <2>2, <3>2, <3>3
  <2> QED
    BY <1>k, <2>1, <2>2, <2>3, <2>4 DEF WindowInv, Copied
<1>2. CASE Open
  BY <1>2 DEF Open, WindowInv
<1>3. CASE MainTest \/ Join \/ Close \/ Compute
  BY <1>3 DEF MainTest, Join, Close, Compute, WindowInv
<1>4. CASE LoadCount
  BY <1>k, <1>4 DEF LoadCount, WindowInv, RingInv, Stored, TypeOK
<1>5. CASE LoadHead
  <2>1. /\ pcM = "head" /\ pcM' = "copy" /\ head' = ring_head /\ copied' = 0
        /\ published' = Stored /\ UNCHANGED <<reader, shared>>
    BY <1>5 DEF LoadHead, Stored
  <2>2. Stored' = Stored
    BY <2>1 DEF Stored
  <2> QED
    BY <1>k, <2>1, <2>2 DEF WindowInv, Copied, RingInv
<1>6. CASE CopyWord
  <2> DEFINE i == copied \div 2
             f == IF copied % 2 = 0 THEN "pos" ELSE "ts"
             n == published - 3 + i
  <2>1. /\ pcM = "copy" /\ s' = [s EXCEPT ![i][f] = ring[Idx(i)][f]]
        /\ copied' = copied + 1 /\ pcM' = IF copied = 7 THEN "compute" ELSE "copy"
        /\ UNCHANGED <<reader, head, published, shared>>
    BY <1>6 DEF CopyWord
  <2>2. /\ i \in 0..3 /\ f \in Parts /\ copied \in 0..7
        /\ copied = 2 * i + (IF f = "ts" THEN 1 ELSE 0)
    BY <2>1 DEF TypeOK, Parts
  <2> HIDE DEF i, f
  <2>3. Stored' = Stored
    BY <2>1 DEF Stored
  <2>4. published >= 4 /\ published <= Stored /\ head = published % kBufSize
    BY <2>1 DEF WindowInv
  <2>5. ASSUME Len(log) - published <= kBufSize - 4
        PROVE  ring[Idx(i)][f] = log[n][f]
    <3>1. n \in 1..Len(log) /\ n > Len(log) - kBufSize /\ n <= published
      BY <1>k, <2>2, <2>4, <2>5
    <3>2. Written(n, f)
      BY <1>k, <2>4, <3>1 DEF Written, Stored
    <3>3. ring[(n - 1) % kBufSize][f] = log[n][f]
      BY <2>2, <3>1, <3>2 DEF RingInv
    <3>4. Idx(i) = (published - 4 + i) % kBufSize
      BY <1>k, <2>2, <2>4, BackSlot DEF Idx
    <3>5. published - 4 + i = n - 1
      BY <1>k, <2>2
    <3> QED
      BY <3>3, <3>4, <3>5
  <2>6. ASSUME Len(log) - published <= kBufSize - 4,
               NEW j \in 0..3, NEW g \in Parts, Copied(j, g)'
        PROVE  s'[j][g] = log[published - 3 + j][g]
    <3>1. CASE j = i /\ g = f
      <4>1. s'[i][f] = ring[Idx(i)][f]
        BY <2>1, <2>2 DEF TypeOK, Words, Parts
      <4> QED
        BY <2>5, <2>6, <3>1, <4>1
    <3>2. CASE ~(j = i /\ g = f)
      <4>1. Copied(j, g)
        BY <2>1, <2>2, <2>6, <3>2 DEF Copied, Parts
      <4>2. s'[j][g] = s[j][g]
        BY <2>1, <2>2, <3>2 DEF TypeOK, Words, Parts
      <4>3. s[j][g] = log[published - 3 + j][g]
        BY <2>1, <2>6, <4>1 DEF WindowInv
      <4> QED
        BY <4>2, <4>3
    <3> QED
      BY <3>1, <3>2
  <2> QED
    BY <2>1, <2>2, <2>3, <2>4, <2>6 DEF WindowInv
<1>7. CASE Sigint \/ Exited \/ UNCHANGED vars
  BY <1>7 DEF Sigint, Exited, vars, WindowInv, Stored, Copied
<1> QED
  BY <1>1, <1>2, <1>3, <1>4, <1>5, <1>6, <1>7 DEF Next, MainThread

(* Everything above holds together.                                        *)
LEMMA Invariants == Spec => [](TypeOK /\ RingInv /\ WindowInv)
<1>1. Init => TypeOK /\ OwnedInv /\ RingInv /\ WindowInv
  <2>1. Init => TypeOK
    BY MonitorAssumption DEF Init, TypeOK, Slots, None, Words
  <2>2. Init => OwnedInv /\ WindowInv
    BY DEF Init, OwnedInv, WindowInv
  <2>3. Init => RingInv
    BY MonitorAssumption DEF Init, RingInv, Stored
  <2> QED
    BY <2>1, <2>2, <2>3
<1>2. TypeOK /\ OwnedInv /\ RingInv /\ WindowInv /\ [Next]_vars
      => TypeOK' /\ OwnedInv' /\ RingInv' /\ WindowInv'
  BY TypeStep, OwnedStep, RingStep, WindowStep
<1> QED
  BY <1>1, <1>2, PTL DEF Spec

(* What main computes from are four whole consecutive samples as long as   *)
(* the reader is no more than kBufSize - 4 samples ahead of the head main  *)
(* loaded (main_enc.cpp:131-142 and 157-174).                              *)
THEOREM WindowCorrect == Spec => []WindowWhole
<1>1. TypeOK /\ WindowInv => WindowWhole
  <2> SUFFICES ASSUME TypeOK, WindowInv, pcM = "compute",
                      Len(log) - published <= kBufSize - 4
               PROVE  published >= 4 /\ \A i \in 0..3 : s[i] = log[published - 3 + i]
    BY DEF WindowWhole
  <2>1. published >= 4 /\ published <= Stored /\ published \in Nat /\ Len(log) \in Nat
    BY DEF WindowInv, TypeOK
  <2>2. ASSUME NEW i \in 0..3 PROVE s[i] = log[published - 3 + i]
    <3>1. published - 3 + i \in 1..Len(log)
      BY <2>1 DEF Stored
    <3>2. \A f \in Parts : s[i][f] = log[published - 3 + i][f]
      BY DEF WindowInv, Copied
    <3>3. s[i] \in Words /\ log[published - 3 + i] \in Words
      BY <3>1 DEF TypeOK
    <3> QED
      BY <3>2, <3>3 DEF Words, Parts
  <2> QED
    BY <2>1, <2>2
<1> QED
  BY <1>1, Invariants, PTL
-----------------------------------------------------------------------------
(* Every sample lies on the parabola the encoder moves along.              *)
OnCurve == \A n \in 1..Len(log) : log[n].pos = Curve * (log[n].ts * log[n].ts)

LEMMA OnCurveStep == TypeOK /\ OnCurve /\ [Next]_vars => OnCurve'
<1> SUFFICES ASSUME TypeOK, OnCurve, [Next]_vars PROVE OnCurve'
  OBVIOUS
<1> USE DEF shared, reader, main
<1>1. CASE log' = log
  BY <1>1 DEF OnCurve
<1>2. ASSUME NEW t, log' = Append(log, [pos |-> Curve * (t * t), ts |-> t])
      PROVE  OnCurve'
  <2> DEFINE w == [pos |-> Curve * (t * t), ts |-> t]
  <2>1. w.pos = Curve * (w.ts * w.ts) /\ log' = Append(log, w)
    BY <1>2
  <2> HIDE DEF w
  <2>2. /\ Len(log') = Len(log) + 1 /\ log'[Len(log) + 1] = w
        /\ \A n \in 1..Len(log) : log'[n] = log[n]
    BY <2>1 DEF TypeOK
  <2>3. Len(log) \in Nat
    BY DEF TypeOK
  <2> QED
    BY <2>1, <2>2, <2>3 DEF OnCurve
<1>3. CASE EncRead
  BY <1>1, <1>2, <1>3 DEF EncRead
<1> QED
  BY <1>1, <1>3
     DEF Next, ReaderThread, ReaderTest, WriteWord, StoreHead, StoreCount,
         MainThread, Open, MainTest, LoadCount, LoadHead, CopyWord, Compute, Join, Close,
         Sigint, Exited, vars

(* The difference of two slopes of a parabola over half the sum of their   *)
(* spans is its second derivative.                                         *)
LEMMA Parabola ==
  ASSUME NEW c \in Int, NEW t \in Int, NEW d \in Int, NEW e \in Int
  PROVE  LET p1 == c * (t * t)
             p2 == c * ((t + d) * (t + d))
             p3 == c * ((t + d + e) * (t + d + e)) IN
         2 * ((p3 - p2) * d - (p2 - p1) * e) = 2 * c * (d * e * (d + e))
<1>1. (t + d) * (t + d) = t * t + 2 * (t * d) + d * d
  OBVIOUS
<1>2. (t + d + e) * (t + d + e) = (t + d) * (t + d) + 2 * (t * e) + 2 * (d * e) + e * e
  OBVIOUS
<1> QED
  BY <1>1, <1>2

(* Whatever the times between the samples: the acceleration of a body that *)
(* has a constant one (main_enc.cpp:175-190).                              *)
THEOREM AccelerationCorrect == Spec => []AccelerationExact
<1>1. Init => OnCurve
  BY DEF Init, OnCurve
<1>2. TypeOK /\ WindowInv /\ OnCurve /\ WindowWhole => AccelerationExact
  <2> SUFFICES ASSUME TypeOK, WindowInv, OnCurve, WindowWhole, pcM = "compute",
                      Len(log) - published <= kBufSize - 4,
                      \A i \in 2..3 : s[i].ts - s[i - 1].ts > 1
               PROVE  Acceleration.num = 2 * Curve * Acceleration.den
    BY DEF AccelerationExact
  <2> DEFINE t == s[1].ts
             d == s[2].ts - s[1].ts
             e == s[3].ts - s[2].ts
  <2>1. \A i \in 0..3 : s[i].ts \in Nat
    BY DEF TypeOK, Words
  <2>2. d > 1 /\ e > 1
    <3>1. s[2].ts - s[2 - 1].ts > 1 /\ s[3].ts - s[3 - 1].ts > 1
      OBVIOUS
    <3> QED
      BY <3>1
  <2>3. t \in Int /\ d \in Int /\ e \in Int
    BY <2>1
  <2>4. s[2].ts = t + d /\ s[3].ts = t + d + e
    BY <2>1
  <2>5. ASSUME NEW i \in 0..3 PROVE s[i].pos = Curve * (s[i].ts * s[i].ts)
    <3>1. published - 3 + i \in 1..Len(log) /\ s[i] = log[published - 3 + i]
      BY DEF WindowInv, WindowWhole, Stored, TypeOK
    <3> QED
      BY <3>1 DEF OnCurve
  <2>6. Acceleration = [num |-> 2 * ((s[3].pos - s[2].pos) * d - (s[2].pos - s[1].pos) * e),
                        den |-> d * e * (d + e)]
    BY <2>2 DEF Acceleration
  <2>7. /\ s[1].pos = Curve * (t * t)
        /\ s[2].pos = Curve * ((t + d) * (t + d))
        /\ s[3].pos = Curve * ((t + d + e) * (t + d + e))
    BY <2>4, <2>5
  <2> HIDE DEF t, d, e
  <2>8. Curve \in Int
    BY MonitorAssumption
  <2>9. 2 * ((s[3].pos - s[2].pos) * d - (s[2].pos - s[1].pos) * e)
        = 2 * Curve * (d * e * (d + e))
    BY <2>3, <2>7, <2>8, Parabola
  <2> QED
    BY <2>6, <2>9
<1> QED
  BY <1>1, <1>2, OnCurveStep, WindowCorrect, Invariants, PTL DEF Spec
-----------------------------------------------------------------------------
(* OscillationDetector.                                                    *)

(* The ring holds the last positions; a call is judged once it has gone    *)
(* round.                                                                  *)
DetectorType ==
  /\ WindowSize \in Nat \ {0} /\ positions \in Seq(Int)
  /\ buf_ \in [0..(WindowSize - 1) -> Int]
  /\ head_ = Len(positions) % WindowSize
  /\ count_ \in Nat /\ count_ <= WindowSize
  /\ count_ < WindowSize => count_ = Len(positions)
  /\ count_ >= WindowSize => Len(positions) >= WindowSize
  /\ visited \in 0..WindowSize /\ bouncing \in BOOLEAN
  /\ visited # 0 => Len(positions) > WindowSize
  /\ \A n \in 1..Len(positions) :
       n + WindowSize > Len(positions) => buf_[(n - 1) % WindowSize] = positions[n]

WindowRead ==
  /\ \A k \in 0..(WindowSize - 1) : buf_[Slot(k)] = Window(k + 1)
  /\ \A i \in 1..WindowSize : Window(i) \in Int
  /\ Slot(0) = head_

(* The slots from one on.                                                  *)
LEMMA OnSlot ==
  ASSUME NEW k \in Nat \ {0}, NEW p \in Nat, p >= k, NEW i \in 0..(k - 1)
  PROVE  ((p % k) + i) % k = (p - k + i) % k
<1> DEFINE u == p % k
           m == p - k + i
           v == m % k
<1>1. m \in Nat /\ p = m + k - i
  OBVIOUS
<1>2. PICK q \in Int : p = k * q + u
  BY Division
<1>3. u \in 0..(k - 1)
  BY Division
<1> HIDE DEF m
<1>4. PICK t \in Int : m = k * t + v
  BY <1>1, Division
<1>5. v \in 0..(k - 1)
  BY <1>1, Division
<1> HIDE DEF u, v
<1>6. k * (t - q + 1) = k * t - k * q + k /\ t - q + 1 \in Int
  OBVIOUS
<1>7. u + i \in Nat
  BY <1>3
<1>8. u + i = k * (t - q + 1) + v
  <2> DEFINE x == k * t
             y == k * q
             z == k * (t - q + 1)
  <2>1. x \in Int /\ y \in Int /\ z \in Int
    BY <1>6
  <2>2. z = x - y + k /\ m = x + v /\ p = y + u
    BY <1>2, <1>4, <1>6
  <2> HIDE DEF x, y, z
  <2>3. u + i = z + v
    BY <1>1, <1>3, <1>5, <2>1, <2>2
  <2> QED
    BY <2>3 DEF z
<1>9. (u + i) % k = v
  BY <1>5, <1>6, <1>7, <1>8, Remainder
<1> QED
  BY <1>9 DEF u, v, m

Full == Len(positions) > WindowSize

LEMMA ReadsWindow == DetectorType /\ Full => WindowRead
<1> SUFFICES ASSUME DetectorType, Full PROVE WindowRead
  OBVIOUS
<1>1. PICK u \in Nat : u = Len(positions)
  BY DEF DetectorType
<1>2. PICK w \in Nat \ {0} : w = WindowSize
  BY DEF DetectorType
<1>3. u > w /\ head_ = u % w /\ u % w \in 0..(w - 1)
  <2>1. u % w \in 0..(w - 1)
    BY Division
  <2> QED
    BY <1>1, <1>2, <2>1 DEF DetectorType, Full
<1>4. ASSUME NEW k \in 0..(w - 1) PROVE buf_[Slot(k)] = Window(k + 1)
  <2>1. Slot(k) = (u - w + k) % w
    <3>1. u >= w
      BY <1>3
    <3>2. ((u % w) + k) % w = (u - w + k) % w
      BY <3>1, OnSlot
    <3>3. Slot(k) = ((u % w) + k) % w
      BY <1>2, <1>3 DEF Slot
    <3> QED
      BY <3>2, <3>3
  <2> DEFINE n == u - w + k + 1
  <2>2. n \in 1..u /\ n + w > u /\ n - 1 = u - w + k /\ n = u - w + (k + 1)
    BY <1>3
  <2> HIDE DEF n
  <2>3. buf_[(n - 1) % w] = positions[n]
    BY <1>1, <1>2, <2>2 DEF DetectorType
  <2>4. Window(k + 1) = positions[n]
    BY <1>1, <1>2, <2>2 DEF Window
  <2> QED
    BY <2>1, <2>2, <2>3, <2>4
<1>5. ASSUME NEW i \in 1..w PROVE Window(i) \in Int
  <2>1. u - w + i \in 1..u
    BY <1>3
  <2>2. positions[u - w + i] \in Int
    BY <1>1, <2>1 DEF DetectorType
  <2> QED
    BY <1>1, <1>2, <2>2 DEF Window
<1>6. Slot(0) = head_
  <2>1. (u % w) + 0 = u % w /\ u % w = w * 0 + (u % w) /\ 0 \in Int /\ u % w \in Nat
    BY <1>3
  <2>2. (u % w) % w = u % w
    BY <1>3, <2>1, Remainder
  <2> QED
    BY <1>2, <1>3, <2>1, <2>2 DEF Slot
<1> QED
  BY <1>2, <1>4, <1>5, <1>6 DEF WindowRead

LEMMA ReadsWindowNext == DetectorType' /\ Full' => WindowRead'
BY ReadsWindow, PTL

LEMMA DetectorTypeInit == DetectorInit => DetectorType
<1> SUFFICES ASSUME DetectorInit PROVE DetectorType
  OBVIOUS
<1>1. WindowSize \in Nat \ {0}
  BY DetectorAssumption DEF DetectorAssumption
<1>2. positions \in Seq(Int) /\ Len(positions) = 0 /\ 0 % WindowSize = 0
  <2>1. 0 = WindowSize * 0 + 0 /\ 0 \in 0..(WindowSize - 1)
    BY <1>1
  <2> QED
    BY <1>1, <2>1, Remainder DEF DetectorInit
<1> QED
  BY <1>1, <1>2 DEF DetectorInit, DetectorType

LEMMA DetectorTypeStep == DetectorType /\ [DetectorNext]_detectorVars => DetectorType'
<1> SUFFICES ASSUME DetectorType, [DetectorNext]_detectorVars PROVE DetectorType'
  OBVIOUS
<1>1. PICK u \in Nat : u = Len(positions)
  BY DEF DetectorType
<1>2. PICK w \in Nat \ {0} : w = WindowSize
  BY DEF DetectorType
<1>3. ASSUME NEW x \in Positions, DetectorFeed(x) PROVE DetectorType'
  <2>1. x \in Int
    BY DetectorAssumption DEF DetectorAssumption
  <2>2. /\ positions' \in Seq(Int) /\ Len(positions') = u + 1 /\ positions'[u + 1] = x
        /\ \A n \in 1..u : positions'[n] = positions[n]
    BY <1>1, <1>3, <2>1 DEF DetectorFeed, DetectorType
  <2>3. head_ = u % w /\ u % w \in 0..(w - 1)
    <3>1. u % w \in 0..(w - 1)
      BY Division
    <3> QED
      BY <1>1, <1>2, <3>1 DEF DetectorType
  <2>4. head_' = (u + 1) % w
    BY <1>2, <1>3, <2>3, NextSlot DEF DetectorFeed
  <2>5. /\ buf_' \in [0..(w - 1) -> Int] /\ buf_'[u % w] = x
        /\ \A k \in 0..(w - 1) : k # u % w => buf_'[k] = buf_[k]
    BY <1>2, <1>3, <2>1, <2>3 DEF DetectorFeed, DetectorType
  <2>6. ASSUME NEW n \in 1..(u + 1), n + w > u + 1
        PROVE  buf_'[(n - 1) % w] = positions'[n]
    <3>1. CASE n = u + 1
      <4>1. n - 1 = u
        BY <3>1
      <4> QED
        BY <2>2, <2>5, <3>1, <4>1
    <3>2. CASE n \in 1..u
      <4>1. n - 1 \in Nat /\ n - 1 < u /\ u < (n - 1) + w /\ n + w > u
        BY <2>6, <3>2
      <4>2. (n - 1) % w # u % w
        BY <4>1, SlotsDiffer
      <4>3. (n - 1) % w \in 0..(w - 1)
        BY <4>1, Division
      <4>4. buf_[(n - 1) % w] = positions[n]
        BY <1>1, <1>2, <3>2, <4>1 DEF DetectorType
      <4> QED
        BY <2>2, <2>5, <3>2, <4>2, <4>3, <4>4
    <3> QED
      BY <3>1, <3>2
  <2>7. CASE /\ count_ < WindowSize
             /\ count_' = count_ + 1 /\ bouncing' = FALSE
             /\ UNCHANGED walk
    <3>1. visited' = 0
      BY <1>3, <2>7 DEF DetectorFeed, walk
    <3>2. /\ count_' \in Nat /\ count_' <= w /\ (count_' < w => count_' = u + 1)
          /\ count_' >= w => u + 1 >= w
      BY <1>1, <1>2, <2>7 DEF DetectorType
    <3>3. bouncing' \in BOOLEAN
      BY <2>7
    <3>4. visited' \in 0..w /\ ~(visited' # 0)
      BY <3>1
    <3> HIDE <2>7
    <3> QED
      BY <1>2, <2>2, <2>4, <2>5, <2>6, <3>2, <3>3, <3>4 DEF DetectorType
  <2>8. CASE /\ count_ >= WindowSize
             /\ visited' = 1
             /\ UNCHANGED <<count_, bouncing>>
    <3>1. u >= w /\ u + 1 > w /\ count_ \in Nat /\ count_ <= w /\ ~(count_ < w)
      BY <1>1, <1>2, <2>8 DEF DetectorType
    <3>2. bouncing \in BOOLEAN
      BY DEF DetectorType
    <3> QED
      BY <1>2, <2>2, <2>4, <2>5, <2>6, <2>8, <3>1, <3>2 DEF DetectorType
  <2> QED
    BY <1>3, <2>7, <2>8 DEF DetectorFeed
<1>4. CASE Visit
  <2>1. visited' \in 0..WindowSize /\ visited # 0
    BY <1>2, <1>4 DEF Visit
  <2> QED
    BY <1>4, <2>1 DEF Visit, DetectorType
<1>5. CASE Conclude
  <2>1. visited' = 0 /\ bouncing' \in BOOLEAN /\ UNCHANGED <<buf_, head_, count_, positions>>
    BY <1>5 DEF Conclude
  <2> QED
    BY <2>1 DEF DetectorType
<1>6. CASE UNCHANGED detectorVars
  BY <1>6 DEF detectorVars, walk, DetectorType
<1> QED
  BY <1>3, <1>4, <1>5, <1>6 DEF DetectorNext

(* The loop has seen the first places of the window: their extremes, the   *)
(* last movement among them, the turns that end before here.               *)
TurnsTo(n) == {p \in Turns : p[2] < n}

WalkInv ==
  visited # 0 =>
    /\ min \in Int /\ max \in Int
    /\ \E a \in 1..visited : min = Window(a)
    /\ \E a \in 1..visited : max = Window(a)
    /\ \A a \in 1..visited : min <= Window(a) /\ Window(a) <= max
    /\ \/ prev_sign = 0 /\ \A k \in 1..(WindowSize - 1) : k < visited => Move(k) = 0
       \/ /\ prev_sign # 0
          /\ \E l \in 1..(WindowSize - 1) :
               /\ l < visited /\ Move(l) = prev_sign
               /\ \A k \in 1..(WindowSize - 1) : l < k /\ k < visited => Move(k) = 0
    /\ IsFiniteSet(TurnsTo(visited)) /\ reversals = Cardinality(TurnsTo(visited))

LEMMA WalkFeed ==
  ASSUME DetectorType', NEW x, DetectorFeed(x), visited' # 0
  PROVE  WalkInv'
<1>1. /\ visited' = 1 /\ min' = buf_'[head_'] /\ max' = buf_'[head_']
      /\ reversals' = 0 /\ prev_sign' = 0
  BY DEF DetectorFeed, walk
<1>2. WindowRead'
  BY ReadsWindowNext DEF DetectorType, Full
<1>3. WindowSize \in Nat \ {0}
  BY DEF DetectorType
<1>4. buf_'[head_'] = Window(1)' /\ Window(1)' \in Int
  <2>1. 0 \in 0..(WindowSize - 1) /\ 0 + 1 = 1 /\ 1 \in 1..WindowSize
    BY <1>3
  <2>2. buf_'[Slot(0)'] = Window(0 + 1)' /\ Slot(0)' = head_' /\ Window(1)' \in Int
    BY <1>2, <2>1 DEF WindowRead
  <2> QED
    BY <2>1, <2>2
<1>5. TurnsTo(1)' = {}
  BY DEF TurnsTo, Turns
<1>6. IsFiniteSet({}) /\ Cardinality({}) = 0
  BY FS_EmptySet
<1>7. \A a \in 1..1 : a = 1
  OBVIOUS
<1>8. \A k \in 1..(WindowSize - 1) : ~(k < 1)
  BY <1>3
<1>9. TurnsTo(visited)' = {}
  BY <1>1, <1>5 DEF TurnsTo
<1> QED
  BY <1>1, <1>4, <1>6, <1>7, <1>8, <1>9 DEF WalkInv

LEMMA SignRange == \A d : Sign(d) \in {-1, 0, 1}
BY DEF Sign

(* One place more: a turn ends here if the movement goes against the last. *)
LEMMA TurnsNext ==
  ASSUME DetectorType, WalkInv, NEW v \in 1..(WindowSize - 1), v = visited
  PROVE  /\ IsFiniteSet(TurnsTo(v + 1))
         /\ Cardinality(TurnsTo(v + 1)) =
              reversals + IF Move(v) # 0 /\ Move(v) # prev_sign /\ prev_sign # 0 THEN 1 ELSE 0
<1>1. /\ IsFiniteSet(TurnsTo(v)) /\ reversals = Cardinality(TurnsTo(v)) /\ reversals \in Nat
  BY FS_CardinalityType DEF WalkInv
<1>2. ASSUME NEW p \in Turns
      PROVE  /\ p[1] \in 1..(WindowSize - 1) /\ p[2] \in 1..(WindowSize - 1)
             /\ p = <<p[1], p[2]>>
             /\ p[1] < p[2] /\ Move(p[1]) # 0 /\ Move(p[2]) = -Move(p[1])
             /\ \A k \in 1..(WindowSize - 1) : p[1] < k /\ k < p[2] => Move(k) = 0
  BY DEF Turns
<1>3. \A k : Move(k) \in {-1, 0, 1}
  BY SignRange DEF Move
<1>4. CASE Move(v) # 0 /\ Move(v) # prev_sign /\ prev_sign # 0
  <2>1. PICK l \in 1..(WindowSize - 1) :
               /\ l < v /\ Move(l) = prev_sign
               /\ \A k \in 1..(WindowSize - 1) : l < k /\ k < v => Move(k) = 0
    BY <1>4 DEF WalkInv
  <2>2. Move(v) = -Move(l) /\ Move(l) # 0
    BY <1>3, <1>4, <2>1
  <2>3. <<l, v>> \in Turns
    BY <2>1, <2>2 DEF Turns
  <2>4. ASSUME NEW p \in Turns, p[2] = v PROVE p = <<l, v>>
    <3>1. ~(p[1] < l)
      BY <1>2, <2>1, <2>2, <2>4
    <3>2. ~(l < p[1])
      BY <1>2, <2>1, <2>4
    <3>3. p[1] = l
      BY <1>2, <3>1, <3>2
    <3> QED
      BY <1>2, <2>4, <3>3
  <2>5. TurnsTo(v + 1) = TurnsTo(v) \cup {<<l, v>>}
    <3>1. ASSUME NEW p \in TurnsTo(v + 1) PROVE p \in TurnsTo(v) \cup {<<l, v>>}
      <4>1. p \in Turns /\ p[2] < v + 1 /\ p[2] \in Int
        BY <1>2 DEF TurnsTo
      <4>2. CASE p[2] < v
        BY <4>1, <4>2 DEF TurnsTo
      <4>3. CASE p[2] = v
        BY <2>4, <4>1, <4>3
      <4> QED
        BY <4>1, <4>2, <4>3
    <3>2. ASSUME NEW p \in TurnsTo(v) PROVE p \in TurnsTo(v + 1)
      <4>1. p \in Turns /\ p[2] < v /\ p[2] \in Int
        BY <1>2 DEF TurnsTo
      <4>2. p[2] < v + 1
        BY <4>1
      <4> QED
        BY <4>1, <4>2 DEF TurnsTo
    <3>3. <<l, v>> \in TurnsTo(v + 1)
      BY <2>3 DEF TurnsTo
    <3> QED
      BY <3>1, <3>2, <3>3
  <2>6. <<l, v>> \notin TurnsTo(v)
    BY DEF TurnsTo
  <2>7. /\ IsFiniteSet(TurnsTo(v) \cup {<<l, v>>})
        /\ Cardinality(TurnsTo(v) \cup {<<l, v>>}) = Cardinality(TurnsTo(v)) + 1
    BY <1>1, <2>6, FS_AddElement
  <2> QED
    BY <1>1, <1>4, <2>5, <2>7
<1>5. CASE ~(Move(v) # 0 /\ Move(v) # prev_sign /\ prev_sign # 0)
  <2>1. ASSUME NEW p \in Turns, p[2] = v PROVE FALSE
    <3>1. /\ p[1] \in 1..(WindowSize - 1) /\ p[1] < v /\ Move(p[1]) # 0 /\ Move(v) # 0
          /\ Move(v) # Move(p[1])
          /\ \A k \in 1..(WindowSize - 1) : p[1] < k /\ k < v => Move(k) = 0
      BY <1>2, <1>3, <2>1
    <3>2. prev_sign # 0
      BY <3>1 DEF WalkInv
    <3>3. PICK l \in 1..(WindowSize - 1) :
                 /\ l < v /\ Move(l) = prev_sign
                 /\ \A k \in 1..(WindowSize - 1) : l < k /\ k < v => Move(k) = 0
      BY <3>2 DEF WalkInv
    <3>4. p[1] = l
      BY <3>1, <3>2, <3>3
    <3> QED
      BY <1>5, <3>1, <3>2, <3>3, <3>4
  <2>2. TurnsTo(v + 1) = TurnsTo(v)
    <3>1. ASSUME NEW p \in Turns PROVE p[2] < v + 1 <=> p[2] < v
      <4>1. p[2] \in Int /\ p[2] # v
        BY <1>2, <2>1
      <4> QED
        BY <4>1
    <3> QED
      BY <3>1 DEF TurnsTo
  <2> QED
    BY <1>1, <1>5, <2>2
<1> QED
  BY <1>4, <1>5

LEMMA WalkVisit ==
  ASSUME DetectorType, WalkInv, Visit
  PROVE  WalkInv'
<1>1. PICK v \in 1..(WindowSize - 1) : v = visited
  BY DEF Visit
<1>2. /\ visited' = v + 1 /\ UNCHANGED <<buf_, head_, positions>>
  BY <1>1 DEF Visit
<1>3. WindowRead
  BY <1>1, ReadsWindow DEF DetectorType, Full
<1>4. WindowSize \in Nat \ {0}
  BY DEF DetectorType
<1>5. /\ buf_[Slot(visited)] = Window(v + 1) /\ buf_[Slot(visited - 1)] = Window(v)
      /\ Window(v + 1) \in Int /\ Window(v) \in Int
  <2>1. v \in 0..(WindowSize - 1) /\ v - 1 \in 0..(WindowSize - 1) /\ (v - 1) + 1 = v
        /\ v \in 1..WindowSize /\ v + 1 \in 1..WindowSize
    BY <1>4
  <2> QED
    BY <1>1, <1>3, <2>1 DEF WindowRead
<1> DEFINE x == Window(v + 1)
<1>6. Move(v) = Sign(x - Window(v))
  BY DEF Move
<1>7. /\ min' = IF x < min THEN x ELSE min
      /\ max' = IF x > max THEN x ELSE max
      /\ reversals' = reversals + IF Move(v) # 0 /\ Move(v) # prev_sign /\ prev_sign # 0
                                  THEN 1 ELSE 0
      /\ prev_sign' = IF Move(v) # 0 THEN Move(v) ELSE prev_sign
  BY <1>5, <1>6 DEF Visit
<1>8. (\A a : Window(a)' = Window(a)) /\ (\A a : Move(a)' = Move(a))
  BY <1>2 DEF Window, Move
<1>9. TurnsTo(visited)' = TurnsTo(v + 1)
  BY <1>2 DEF TurnsTo, Turns, Move, Window
<1>10. /\ min \in Int /\ max \in Int
       /\ \E a \in 1..v : min = Window(a)
       /\ \E a \in 1..v : max = Window(a)
       /\ \A a \in 1..v : min <= Window(a) /\ Window(a) <= max
  BY <1>1 DEF WalkInv
<1>11. /\ min' \in Int /\ max' \in Int
       /\ \E a \in 1..(v + 1) : min' = Window(a)
       /\ \E a \in 1..(v + 1) : max' = Window(a)
       /\ \A a \in 1..(v + 1) : min' <= Window(a) /\ Window(a) <= max'
  <2>1. x \in Int /\ v + 1 \in 1..(v + 1) /\ \A a \in 1..v : a \in 1..(v + 1)
    BY <1>5
  <2> HIDE DEF x
  <2>2. min' \in Int /\ max' \in Int /\ min' <= min /\ max <= max' /\ min' <= x /\ x <= max'
        /\ min' \in {x, min} /\ max' \in {x, max}
    BY <1>7, <1>10, <2>1
  <2>3. ASSUME NEW a \in 1..(v + 1) PROVE min' <= Window(a) /\ Window(a) <= max'
    <3>1. CASE a \in 1..v
      <4>1. Window(a) \in Int
        BY <1>3, <3>1, <1>4 DEF WindowRead
      <4> QED
        BY <1>10, <2>2, <3>1, <4>1
    <3>2. CASE a = v + 1
      BY <2>2, <3>2 DEF x
    <3> QED
      BY <3>1, <3>2
  <2>4. \E a \in 1..(v + 1) : min' = Window(a)
    BY <1>10, <2>1, <2>2 DEF x
  <2>5. \E a \in 1..(v + 1) : max' = Window(a)
    BY <1>10, <2>1, <2>2 DEF x
  <2> QED
    BY <2>2, <2>3, <2>4, <2>5
<1>12. \/ prev_sign' = 0 /\ \A k \in 1..(WindowSize - 1) : k < v + 1 => Move(k) = 0
       \/ /\ prev_sign' # 0
          /\ \E l \in 1..(WindowSize - 1) :
               /\ l < v + 1 /\ Move(l) = prev_sign'
               /\ \A k \in 1..(WindowSize - 1) : l < k /\ k < v + 1 => Move(k) = 0
  <2>1. CASE Move(v) # 0
    <3>1. \A k \in 1..(WindowSize - 1) : ~(v < k /\ k < v + 1)
      OBVIOUS
    <3> QED
      BY <1>7, <2>1, <3>1
  <2>2. CASE Move(v) = 0
    <3>1. prev_sign' = prev_sign
      BY <1>7, <2>2
    <3>2. \A k \in 1..(WindowSize - 1) : k < v + 1 => k < v \/ k = v
      OBVIOUS
    <3>3. CASE prev_sign = 0
      BY <1>1, <2>2, <3>1, <3>2, <3>3 DEF WalkInv
    <3>4. CASE prev_sign # 0
      <4>1. PICK l \in 1..(WindowSize - 1) :
                   /\ l < v /\ Move(l) = prev_sign
                   /\ \A k \in 1..(WindowSize - 1) : l < k /\ k < v => Move(k) = 0
        BY <1>1, <3>4 DEF WalkInv
      <4>2. l < v + 1
        BY <4>1
      <4> QED
        BY <2>2, <3>1, <3>2, <3>4, <4>1, <4>2
    <3> QED
      BY <3>3, <3>4
  <2> QED
    BY <2>1, <2>2
<1>13. /\ IsFiniteSet(TurnsTo(v + 1))
       /\ reversals' = Cardinality(TurnsTo(v + 1))
  BY <1>1, <1>7, TurnsNext
<1> QED
  BY <1>2, <1>8, <1>9, <1>11, <1>12, <1>13 DEF WalkInv

LEMMA ConcludeStep ==
  ASSUME DetectorType, WalkInv, Conclude
  PROVE  BouncingIsReported'
<1>1. /\ visited = WindowSize /\ visited' = 0 /\ UNCHANGED positions
      /\ bouncing' = (max - min <= Threshold /\ reversals >= 2)
  BY DEF Conclude
<1>2. WindowSize \in Nat \ {0} /\ Len(positions) > WindowSize
  BY <1>1 DEF DetectorType
<1>3. \A i \in 1..WindowSize : Window(i) \in Int
  BY <1>2, ReadsWindow DEF WindowRead, Full
<1>4. /\ min \in Int /\ max \in Int
      /\ \E a \in 1..WindowSize : min = Window(a)
      /\ \E a \in 1..WindowSize : max = Window(a)
      /\ \A a \in 1..WindowSize : min <= Window(a) /\ Window(a) <= max
      /\ reversals = Cardinality(TurnsTo(WindowSize))
  BY <1>1, <1>2 DEF WalkInv
<1>5. max - min <= Threshold <=> \A i, j \in 1..WindowSize : Window(i) - Window(j) <= Threshold
  <2>0. Threshold \in Int
    BY DetectorAssumption DEF DetectorAssumption
  <2>1. ASSUME max - min <= Threshold, NEW i \in 1..WindowSize, NEW j \in 1..WindowSize
        PROVE  Window(i) - Window(j) <= Threshold
    <3>1. Window(i) \in Int /\ Window(j) \in Int /\ Window(i) <= max /\ min <= Window(j)
      BY <1>3, <1>4
    <3> QED
      BY <1>4, <2>0, <2>1, <3>1
  <2>2. ASSUME \A i, j \in 1..WindowSize : Window(i) - Window(j) <= Threshold
        PROVE  max - min <= Threshold
    BY <1>4, <2>2
  <2> QED
    BY <2>1, <2>2
<1>6. TurnsTo(WindowSize) = Turns
  <2>1. ASSUME NEW p \in Turns PROVE p[2] < WindowSize
    BY <1>2 DEF Turns
  <2> QED
    BY <2>1 DEF TurnsTo
<1>7. (\A i : Window(i)' = Window(i)) /\ Turns' = Turns
  BY <1>1 DEF Window, Turns, Move
<1> QED
  BY <1>1, <1>2, <1>4, <1>5, <1>6, <1>7 DEF BouncingIsReported

(* feed returns true exactly if the last WindowSize positions lie within   *)
(* the threshold of each other and turned twice, for every window,         *)
(* threshold and dead band (OscillationDetector::feed, main_enc.cpp:60).   *)
THEOREM BouncingCorrect == DetectorSpec => []BouncingIsReported
<1>1. DetectorInit => DetectorType /\ WalkInv /\ BouncingIsReported
  <2>1. DetectorInit => WalkInv /\ BouncingIsReported
    BY DetectorAssumption DEF DetectorAssumption, DetectorInit, WalkInv, BouncingIsReported
  <2> QED
    BY <2>1, DetectorTypeInit
<1>2. DetectorType /\ WalkInv /\ BouncingIsReported /\ [DetectorNext]_detectorVars
        => (DetectorType /\ WalkInv /\ BouncingIsReported)'
  <2> SUFFICES ASSUME DetectorType, WalkInv, BouncingIsReported,
                      [DetectorNext]_detectorVars
               PROVE  DetectorType' /\ WalkInv' /\ BouncingIsReported'
    OBVIOUS
  <2>1. DetectorType'
    BY DetectorTypeStep
  <2>2. ASSUME NEW x \in Positions, DetectorFeed(x) PROVE WalkInv' /\ BouncingIsReported'
    <3>1. CASE visited' # 0
      BY <2>1, <2>2, <3>1, WalkFeed DEF BouncingIsReported
    <3>2. CASE visited' = 0
      <4>1. count_ < WindowSize /\ bouncing' = FALSE
        BY <2>2, <3>2 DEF DetectorFeed
      <4>2. Len(positions') <= WindowSize
        <5>1. Len(positions) = count_ /\ Len(positions') = Len(positions) + 1
              /\ count_ \in Nat /\ WindowSize \in Nat
          BY <2>2, <4>1 DEF DetectorFeed, DetectorType
        <5> QED
          BY <4>1, <5>1
      <4>3. Len(positions') \in Nat /\ WindowSize \in Nat
        BY <2>1 DEF DetectorType
      <4> QED
        BY <3>2, <4>1, <4>2, <4>3 DEF WalkInv, BouncingIsReported
    <3> QED
      BY <3>1, <3>2
  <2>3. CASE Visit
    <3>1. visited' # 0
      BY <2>3 DEF Visit
    <3> QED
      BY <2>1, <2>3, <3>1, WalkVisit DEF BouncingIsReported
  <2>4. CASE Conclude
    <3>1. visited' = 0
      BY <2>4 DEF Conclude
    <3>2. WalkInv'
      BY <3>1 DEF WalkInv
    <3> QED
      BY <2>1, <2>4, <3>2, ConcludeStep
  <2>5. CASE UNCHANGED detectorVars
    <3>1. UNCHANGED <<visited, min, max, reversals, prev_sign, bouncing, positions>>
      BY <2>5 DEF detectorVars, walk
    <3>2. (\A i : Window(i)' = Window(i)) /\ (\A k : Move(k)' = Move(k)) /\ Turns' = Turns
      BY <3>1 DEF Window, Turns, Move
    <3>3. \A n : TurnsTo(n)' = TurnsTo(n)
      BY <3>2 DEF TurnsTo
    <3>4. WalkInv'
      BY <3>1, <3>2, <3>3 DEF WalkInv
    <3>5. BouncingIsReported'
      BY <3>1, <3>2 DEF BouncingIsReported
    <3> QED
      BY <2>1, <3>4, <3>5
  <2> QED
    BY <2>1, <2>2, <2>3, <2>4, <2>5 DEF DetectorNext
<1> QED
  BY <1>1, <1>2, PTL DEF DetectorSpec
=============================================================================
