-------------------------- MODULE BoundedQueueProofs --------------------------
(***************************************************************************)
(* Proofs about BoundedQueue, for every set of threads, every capacity and *)
(* every number of calls.                                                  *)
(***************************************************************************)
EXTENDS BoundedQueue, FiniteSetTheorems, SequenceTheorems, TLAPS

(* mtx_ protects every access to the deque and to closed_.                 *)
Inside == {"evict", "append", "test", "block", "take", "close"}

LockOK == \A t \in Threads : pc[t] \in Inside => mtx = t

(* Each thread is in a call of its own kind.                               *)
RolesOK ==
  /\ \A p \in Producers : pc[p] \in {"idle", "pushLock", "evict", "append", "notify"}
  /\ \A c \in Consumers : pc[c] \in {"idle", "popLock", "test", "block", "wait", "take"}
  /\ \A k \in Closers : pc[k] \in {"idle", "closeLock", "close", "notifyAll"}

ItemOK ==
  \A p \in Producers : pc[p] \in {"pushLock", "evict", "append"} => item[p] \in Items

WaitOK == \A c \in waiters : pc[c] = "wait"

Base == TypeOK /\ LockOK /\ RolesOK /\ ItemOK /\ WaitOK
-----------------------------------------------------------------------------
LEMMA BaseInit == Init => Base
<1> SUFFICES ASSUME Init PROVE Base
  OBVIOUS
<1> USE DEF Init, Threads
<1>1. TypeOK
  <2>1. q \in Seq(Items) /\ log \in Seq(Items)
    BY EmptySeq
  <2>2. expired \in [Consumers -> BOOLEAN] /\ closed \in BOOLEAN
    OBVIOUS
  <2>3. item \in [Producers -> Items \cup {NoItem}]
    OBVIOUS
  <2>4. pc \in [Threads -> {"idle"}] /\ ret \in [Consumers -> {"none"}]
    OBVIOUS
  <2> QED
    BY <2>1, <2>2, <2>3, <2>4 DEF TypeOK, Labels
<1>2. LockOK /\ RolesOK /\ ItemOK /\ WaitOK
  BY DEF LockOK, RolesOK, ItemOK, WaitOK, Inside
<1> QED
  BY <1>1, <1>2 DEF Base

LEMMA BaseStep == Base /\ [Next]_vars => Base'
<1> SUFFICES ASSUME Base, [Next]_vars PROVE Base'
  OBVIOUS
<1> USE ThreadAssumption, BoundAssumption
    DEF Base, TypeOK, LockOK, RolesOK, ItemOK, WaitOK, Inside, Labels,
        Threads, Goto, Acquire, Release, history
<1>1. ASSUME NEW p \in Producers, PushCall(p) PROVE Base'
  BY <1>1 DEF PushCall
<1>2. ASSUME NEW p \in Producers, PushLock(p) PROVE Base'
  BY <1>2 DEF PushLock
<1>3. ASSUME NEW p \in Producers, PushEvict(p) PROVE Base'
  <2>1. CASE Len(q) >= cap
    <3>1. q # <<>> /\ Tail(q) \in Seq(Items)
      BY <2>1, EmptySeq, HeadTailProperties, BoundAssumption DEF cap
    <3>2. Append(log, item[p]) \in Seq(Items)
      BY <1>3 DEF PushEvict
    <3>3. q' \in Seq(Items) /\ drops' \in Nat /\ log' \in Seq(Items)
      <4>1. q' = Tail(q) /\ drops' = drops + 1 /\ log' = Append(log, item[p])
        BY <1>3, <2>1 DEF PushEvict
      <4> QED
        BY <3>1, <3>2, <4>1
    <3>4. /\ pc[p] = "evict" /\ pc' = [pc EXCEPT ![p] = "append"]
          /\ UNCHANGED <<mtx, closed, waiters, item, expired, ret, calls, popped, last>>
      BY <1>3 DEF PushEvict
    <3> QED
      BY <3>3, <3>4
  <2>2. CASE ~(Len(q) >= cap)
    BY <1>3, <2>2 DEF PushEvict
  <2> QED
    BY <2>1, <2>2
<1>4. ASSUME NEW p \in Producers, PushAppend(p) PROVE Base'
  BY <1>4 DEF PushAppend
<1>5. ASSUME NEW p \in Producers, NotifyOne(p) PROVE Base'
  <2>1. CASE waiters = {} /\ Resume(p, {})
    BY <1>5, <2>1 DEF NotifyOne, Resume
  <2>2. CASE \E w \in waiters : Resume(p, {w})
    BY <1>5, <2>2 DEF NotifyOne, Resume
  <2> QED
    BY <1>5, <2>1, <2>2 DEF NotifyOne
<1>6. ASSUME NEW c \in Consumers, PopCall(c) PROVE Base'
  BY <1>6 DEF PopCall
<1>7. ASSUME NEW c \in Consumers, PopLock(c) PROVE Base'
  BY <1>7 DEF PopLock
<1>8. ASSUME NEW c \in Consumers, PopTest(c) PROVE Base'
  BY <1>8 DEF PopTest
<1>9. ASSUME NEW c \in Consumers, PopBlock(c) PROVE Base'
  BY <1>9 DEF PopBlock
<1>10. ASSUME NEW c \in Consumers, PopTimeout(c) \/ PopSpurious(c) PROVE Base'
  BY <1>10, ZenonT(60) DEF PopTimeout, PopSpurious
<1>11. ASSUME NEW c \in Consumers, PopTake(c) PROVE Base'
  <2>1. CASE q = <<>>
    BY <1>11, <2>1 DEF PopTake
  <2>2. CASE q # <<>>
    <3>1. Tail(q) \in Seq(Items) /\ Head(q) \in Items
      BY <2>2, HeadTailProperties
    <3>2. /\ q' \in Seq(Items) /\ popped' \in Nat /\ last' \in Items
          /\ ret' = [ret EXCEPT ![c] = "item"]
      <4>1. /\ q' = Tail(q) /\ popped' = popped + 1 /\ last' = Head(q)
            /\ ret' = [ret EXCEPT ![c] = "item"]
        BY <1>11, <2>2 DEF PopTake
      <4> QED
        BY <3>1, <4>1
    <3>3. /\ pc[c] = "take" /\ pc' = [pc EXCEPT ![c] = "idle"]
          /\ mtx' = NoThread
          /\ UNCHANGED <<drops, closed, waiters, item, expired, calls, log>>
      BY <1>11 DEF PopTake
    <3> QED
      BY <3>2, <3>3
  <2> QED
    BY <2>1, <2>2
<1>12. ASSUME NEW k \in Closers, Shutdown(k) PROVE Base'
  <2>1. CASE CloseCall(k)
    BY <2>1 DEF CloseCall
  <2>2. CASE CloseLock(k)
    BY <2>2 DEF CloseLock
  <2>3. CASE CloseSet(k)
    BY <2>3 DEF CloseSet
  <2>4. CASE NotifyAll(k)
    BY <2>4 DEF NotifyAll, Resume
  <2> QED
    BY <1>12, <2>1, <2>2, <2>3, <2>4 DEF Shutdown
<1>13. CASE UNCHANGED vars
  BY <1>13 DEF vars
<1> QED
  BY <1>1, <1>2, <1>3, <1>4, <1>5, <1>6, <1>7, <1>8, <1>9, <1>10, <1>11, <1>12, <1>13
  DEF Next, Push, PopWait

(* pop_wait's `out', the counters and the deque are as their types say.    *)
THEOREM TypeCorrect == Spec => []TypeOK
<1>1. Base => TypeOK
  BY DEF Base
<1> QED
  BY BaseInit, BaseStep, <1>1, PTL DEF Spec

THEOREM BaseCorrect == Spec => []Base
BY BaseInit, BaseStep, PTL DEF Spec
-----------------------------------------------------------------------------
(* Two threads are never inside at the same time.                          *)
LEMMA Exclusion ==
  ASSUME Base, NEW t \in Threads, NEW u \in Threads,
         pc[t] \in Inside, pc[u] \in Inside
  PROVE  t = u
BY DEF Base, LockOK

(* Between its eviction and its append a push has a free place.            *)
RoomOK ==
  /\ CapacityBound
  /\ \A p \in Producers : pc[p] = "append" => Len(q) < cap

LEMMA CapType == cap \in Nat \ {0}
BY BoundAssumption DEF cap

LEMMA RoomInit == Init => RoomOK
BY CapType DEF Init, RoomOK, CapacityBound, Threads

LEMMA RoomStep == Base /\ RoomOK /\ [Next]_vars => RoomOK'
<1> SUFFICES ASSUME Base, RoomOK, [Next]_vars PROVE RoomOK'
  OBVIOUS
<1> USE CapType DEF Goto, Acquire, Release, history
<1>t. /\ q \in Seq(Items) /\ Len(q) \in Nat
      /\ pc \in [Threads -> Labels] /\ waiters \subseteq Consumers
      /\ \A p \in Producers : p \in Threads /\ p \notin Consumers /\ p \notin Closers
  BY LenProperties, ThreadAssumption DEF Base, TypeOK, Threads
(* Steps that leave the deque alone and put no producer at "append".       *)
<1>k. ASSUME q' = q, \A p \in Producers : pc'[p] = "append" => pc[p] = "append"
      PROVE  RoomOK'
  BY <1>k DEF RoomOK, CapacityBound
<1>1. ASSUME NEW p \in Producers, PushCall(p) \/ PushLock(p) PROVE RoomOK'
  BY <1>1, <1>k, <1>t DEF PushCall, PushLock
<1>2. ASSUME NEW p \in Producers, PushEvict(p) PROVE RoomOK'
  <2>1. CASE Len(q) >= cap
    <3>1. q # <<>> /\ Len(Tail(q)) = Len(q) - 1
      BY <2>1, <1>t, EmptySeq, HeadTailProperties
    <3>2. q' = Tail(q)
      BY <1>2, <2>1 DEF PushEvict
    <3>3. Len(q') < cap
      BY <3>1, <3>2, <1>t DEF RoomOK, CapacityBound
    <3> QED
      BY <3>3, <3>1, <3>2, <1>t DEF RoomOK, CapacityBound
  <2>2. CASE ~(Len(q) >= cap)
    BY <1>2, <2>2, <1>t DEF PushEvict, RoomOK, CapacityBound
  <2> QED
    BY <2>1, <2>2
<1>3. ASSUME NEW p \in Producers, PushAppend(p) PROVE RoomOK'
  <2>1. Len(q) < cap /\ q' = Append(q, item[p]) /\ pc' = [pc EXCEPT ![p] = "notify"]
    BY <1>3 DEF PushAppend, RoomOK
  <2>2. Len(q') = Len(q) + 1
    BY <2>1, <1>t
  <2>3. ASSUME NEW r \in Producers PROVE pc'[r] # "append"
    BY <1>3, <2>1, <1>t, Exclusion DEF Inside, PushAppend
  <2> QED
    BY <2>1, <2>2, <2>3, <1>t DEF RoomOK, CapacityBound
<1>4. ASSUME NEW p \in Producers, NotifyOne(p) PROVE RoomOK'
  <2>1. q' = q /\ \A r \in Producers : r # p => pc'[r] = pc[r]
    <3>1. CASE Resume(p, {})
      BY <1>4, <3>1, <1>t DEF NotifyOne, Resume
    <3>2. ASSUME NEW w \in waiters, Resume(p, {w})
          PROVE  q' = q /\ \A r \in Producers : r # p => pc'[r] = pc[r]
      BY <1>4, <3>2, <1>t DEF NotifyOne, Resume
    <3> QED
      BY <1>4, <3>1, <3>2 DEF NotifyOne
  <2>2. pc'[p] = "idle"
    BY <1>4, <1>t DEF NotifyOne, Resume
  <2> QED
    BY <2>1, <2>2, <1>k
<1>5. ASSUME NEW c \in Consumers, PopTake(c) PROVE RoomOK'
  <2>1. CASE q = <<>>
    BY <1>5, <2>1, <1>k, <1>t DEF PopTake
  <2>2. CASE q # <<>>
    <3>1. Len(Tail(q)) = Len(q) - 1
      BY <2>2, <1>t, HeadTailProperties
    <3>2. q' = Tail(q) /\ pc' = [pc EXCEPT ![c] = "idle"]
      BY <1>5, <2>2 DEF PopTake
    <3> QED
      BY <3>1, <3>2, <1>t DEF RoomOK, CapacityBound
  <2> QED
    BY <2>1, <2>2
<1>6. ASSUME NEW c \in Consumers,
             \/ PopCall(c) \/ PopLock(c) \/ PopTest(c) \/ PopBlock(c)
             \/ PopTimeout(c) \/ PopSpurious(c)
      PROVE  RoomOK'
  BY <1>6, <1>k, <1>t
  DEF PopCall, PopLock, PopTest, PopBlock, PopTimeout, PopSpurious
<1>7. ASSUME NEW k \in Closers, Shutdown(k) PROVE RoomOK'
  <2>1. ASSUME NotifyAll(k) PROVE RoomOK'
    <3>1. \A r \in Producers : pc'[r] = pc[r]
      BY <2>1, <1>t DEF NotifyAll, Resume
    <3> QED
      BY <2>1, <3>1, <1>k DEF NotifyAll
  <2> QED
    BY <1>7, <2>1, <1>k, <1>t
    DEF Shutdown, CloseCall, CloseLock, CloseSet
<1>8. CASE UNCHANGED vars
  BY <1>8, <1>k DEF vars
<1> QED
  BY <1>1, <1>2, <1>3, <1>4, <1>5, <1>6, <1>7, <1>8 DEF Next, Push, PopWait

(* The deque never holds more than cap_ items, in any interleaving of any  *)
(* number of producers: eviction and push_back are one critical section.   *)
THEOREM CapacityCorrect == Spec => []CapacityBound
<1>1. RoomOK => CapacityBound
  BY DEF RoomOK
<1> QED
  BY BaseCorrect, RoomInit, RoomStep, <1>1, PTL DEF Spec
-----------------------------------------------------------------------------
(* What a consumer learnt about the deque and closed_ under the lock is    *)
(* still so when it acts on it.                                            *)
FreshOK ==
  \A c \in Consumers :
    /\ pc[c] = "take" => Ready
    /\ pc[c] = "block" => ~Ready

LEMMA FreshStep == Base /\ FreshOK /\ [Next]_vars => FreshOK'
<1> SUFFICES ASSUME Base, FreshOK, [Next]_vars PROVE FreshOK'
  OBVIOUS
<1> USE DEF Goto, Acquire, Release, history
<1>t. /\ pc \in [Threads -> Labels] /\ waiters \subseteq Consumers
      /\ \A c \in Consumers : c \in Threads /\ c \notin Producers /\ c \notin Closers
      /\ Producers \subseteq Threads /\ Closers \subseteq Threads
  BY ThreadAssumption DEF Base, TypeOK, Threads
(* No other consumer is past its test while a thread is inside ...         *)
<1>x. ASSUME NEW t \in Threads, pc[t] \in Inside, NEW c \in Consumers, c # t
      PROVE  pc[c] # "take" /\ pc[c] # "block"
  BY <1>x, <1>t, Exclusion DEF Inside
(* ... and the other steps leave what it tested alone.                     *)
<1>k. ASSUME UNCHANGED <<q, closed>>,
             \A c \in Consumers : pc'[c] \in {"take", "block"} => pc'[c] = pc[c]
      PROVE  FreshOK'
  BY <1>k DEF FreshOK, Ready
<1>1. ASSUME NEW p \in Producers, PushCall(p) \/ PushLock(p) PROVE FreshOK'
  BY <1>1, <1>k, <1>t DEF PushCall, PushLock
<1>2. ASSUME NEW p \in Producers, PushEvict(p) \/ PushAppend(p) PROVE FreshOK'
  <2>1. pc[p] \in Inside /\ \A c \in Consumers : c # p /\ pc'[c] = pc[c]
    BY <1>2, <1>t DEF PushEvict, PushAppend, Inside
  <2> QED
    BY <2>1, <1>x, <1>t DEF FreshOK
<1>3. ASSUME NEW p \in Producers, NotifyOne(p) PROVE FreshOK'
  <2>1. ASSUME NEW W, W \subseteq Consumers, Resume(p, W)
        PROVE  \A c \in Consumers : pc'[c] \in {"take", "block"} => pc'[c] = pc[c]
    BY <2>1, <1>t DEF Resume
  <2> QED
    BY <1>3, <2>1, <1>k, <1>t DEF NotifyOne
<1>4. ASSUME NEW c \in Consumers, PopTest(c) PROVE FreshOK'
  <2>1. pc[c] \in Inside
    BY <1>4 DEF PopTest, Inside
  <2>2. \A d \in Consumers : d # c => pc'[d] = pc[d]
    BY <1>4, <1>t DEF PopTest
  <2>3. /\ pc'[c] = "take" => Ready'
        /\ pc'[c] = "block" => ~Ready'
    BY <1>4, <1>t DEF PopTest, Ready
  <2> QED
    BY <2>1, <2>2, <2>3, <1>x, <1>t DEF FreshOK
<1>5. ASSUME NEW c \in Consumers, PopTake(c) PROVE FreshOK'
  <2>1. pc[c] \in Inside /\ pc'[c] = "idle"
    BY <1>5, <1>t DEF PopTake, Inside
  <2>2. \A d \in Consumers : d # c => pc'[d] = pc[d]
    BY <1>5, <1>t DEF PopTake
  <2> QED
    BY <2>1, <2>2, <1>x, <1>t DEF FreshOK
<1>6. ASSUME NEW c \in Consumers,
             PopCall(c) \/ PopLock(c) \/ PopBlock(c) \/ PopTimeout(c) \/ PopSpurious(c)
      PROVE  FreshOK'
  BY <1>6, <1>k, <1>t DEF PopCall, PopLock, PopBlock, PopTimeout, PopSpurious
<1>7. ASSUME NEW k \in Closers, CloseSet(k) PROVE FreshOK'
  <2>1. pc[k] \in Inside /\ \A c \in Consumers : c # k /\ pc'[c] = pc[c]
    BY <1>7, <1>t DEF CloseSet, Inside
  <2> QED
    BY <2>1, <1>x, <1>t DEF FreshOK
<1>8. ASSUME NEW k \in Closers, CloseCall(k) \/ CloseLock(k) PROVE FreshOK'
  BY <1>8, <1>k, <1>t DEF CloseCall, CloseLock
<1>9. ASSUME NEW k \in Closers, NotifyAll(k) PROVE FreshOK'
  <2>1. \A c \in Consumers : pc'[c] \in {"take", "block"} => pc'[c] = pc[c]
    BY <1>9, <1>t DEF NotifyAll, Resume
  <2> QED
    BY <1>9, <2>1, <1>k DEF NotifyAll
<1>10. CASE UNCHANGED vars
  BY <1>10, <1>k DEF vars
<1> QED
  BY <1>1, <1>2, <1>3, <1>4, <1>5, <1>6, <1>7, <1>8, <1>9, <1>10
  DEF Next, Push, PopWait, Shutdown

LEMMA FreshCorrect == Spec => []FreshOK
<1>1. Init => FreshOK
  BY DEF Init, FreshOK, Threads
<1> QED
  BY BaseCorrect, FreshStep, <1>1, PTL DEF Spec
-----------------------------------------------------------------------------
ReturnOK ==
  \A c \in Consumers :
    /\ ret[c] = "shutdown" => closed
    /\ ret[c] = "timeout" => expired[c]

LEMMA ReturnStep == Base /\ FreshOK /\ ReturnOK /\ [Next]_vars => ReturnOK'
<1> SUFFICES ASSUME Base, FreshOK, ReturnOK, [Next]_vars PROVE ReturnOK'
  OBVIOUS
<1> USE DEF Goto, Acquire, Release, history
<1>t. /\ closed \in BOOLEAN /\ expired \in [Consumers -> BOOLEAN]
      /\ ret \in [Consumers -> {"none", "item", "timeout", "shutdown"}]
  BY DEF Base, TypeOK
<1>k. ASSUME UNCHANGED <<ret, expired>>, closed => closed'
      PROVE  ReturnOK'
  BY <1>k DEF ReturnOK
<1>1. ASSUME NEW p \in Producers, Push(p) PROVE ReturnOK'
  BY <1>1, <1>k
  DEF Push, PushCall, PushLock, PushEvict, PushAppend, NotifyOne
<1>2. ASSUME NEW c \in Consumers, PopCall(c) PROVE ReturnOK'
  BY <1>2, <1>t DEF PopCall, ReturnOK
<1>3. ASSUME NEW c \in Consumers, PopTest(c) PROVE ReturnOK'
  <2>1. UNCHANGED <<closed, expired>>
    BY <1>3 DEF PopTest
  <2>2. ret' = ret \/ (expired[c] /\ ret' = [ret EXCEPT ![c] = "timeout"])
    BY <1>3 DEF PopTest
  <2> QED
    BY <2>1, <2>2, <1>t DEF ReturnOK
<1>4. ASSUME NEW c \in Consumers, PopTimeout(c) PROVE ReturnOK'
  <2>1. UNCHANGED <<closed, ret>> /\ \A d \in Consumers : expired[d] => expired'[d]
    BY <1>4, <1>t DEF PopTimeout
  <2> QED
    BY <2>1 DEF ReturnOK
<1>5. ASSUME NEW c \in Consumers, PopTake(c) PROVE ReturnOK'
  BY <1>5, <1>t DEF PopTake, ReturnOK, FreshOK, Ready
<1>6. ASSUME NEW c \in Consumers, PopLock(c) \/ PopBlock(c) \/ PopSpurious(c)
      PROVE  ReturnOK'
  BY <1>6, <1>k DEF PopLock, PopBlock, PopSpurious
<1>7. ASSUME NEW k \in Closers, Shutdown(k) PROVE ReturnOK'
  BY <1>7, <1>k DEF Shutdown, CloseCall, CloseLock, CloseSet, NotifyAll
<1>8. CASE UNCHANGED vars
  BY <1>8, <1>k DEF vars
<1> QED
  BY <1>1, <1>2, <1>3, <1>4, <1>5, <1>6, <1>7, <1>8 DEF Next, PopWait

(* pop_wait returns false on timeout or shutdown only, for any number of   *)
(* consumers racing for one item.                                          *)
THEOREM FalseReasonCorrect == Spec => []FalseHasReason
<1>1. Init => ReturnOK
  BY DEF Init, ReturnOK
<1>2. FreshOK /\ ReturnOK => FalseHasReason
  BY DEF FreshOK, ReturnOK, FalseHasReason
<1> QED
  BY BaseCorrect, FreshCorrect, ReturnStep, <1>1, <1>2, PTL DEF Spec
-----------------------------------------------------------------------------
LEMMA MissedStep ==
  Base /\ FreshOK /\ NoMissedShutdown /\ [Next]_vars => NoMissedShutdown'
<1> SUFFICES ASSUME Base, FreshOK, NoMissedShutdown, [Next]_vars
             PROVE  NoMissedShutdown'
  OBVIOUS
<1> USE DEF Goto, Acquire, Release, history
<1>t. /\ pc \in [Threads -> Labels] /\ waiters \subseteq Consumers
      /\ \A k \in Closers : k \in Threads /\ k \notin Producers /\ k \notin Consumers
  BY ThreadAssumption DEF Base, TypeOK, Threads
<1>k. ASSUME closed' = closed, waiters' \subseteq waiters,
             \A k \in Closers : pc[k] = "notifyAll" => pc'[k] = "notifyAll"
      PROVE  NoMissedShutdown'
  BY <1>k DEF NoMissedShutdown
<1>1. ASSUME NEW p \in Producers,
             PushCall(p) \/ PushLock(p) \/ PushEvict(p) \/ PushAppend(p)
      PROVE  NoMissedShutdown'
  BY <1>1, <1>k, <1>t DEF PushCall, PushLock, PushEvict, PushAppend
<1>2. ASSUME NEW p \in Producers, NotifyOne(p) PROVE NoMissedShutdown'
  <2>1. ASSUME NEW W, W \subseteq Consumers, Resume(p, W)
        PROVE  /\ waiters' \subseteq waiters
               /\ \A k \in Closers : pc'[k] = pc[k]
    BY <1>2, <2>1, <1>t DEF Resume
  <2> QED
    BY <1>2, <2>1, <1>k, <1>t DEF NotifyOne
(* A consumer goes to sleep only on an open queue.                         *)
<1>3. ASSUME NEW c \in Consumers, PopBlock(c) PROVE NoMissedShutdown'
  <2>1. ~closed /\ closed' = closed
    BY <1>3 DEF PopBlock, FreshOK, Ready
  <2> QED
    BY <2>1 DEF NoMissedShutdown
<1>4. ASSUME NEW c \in Consumers,
             \/ PopCall(c) \/ PopLock(c) \/ PopTest(c) \/ PopTimeout(c)
             \/ PopSpurious(c) \/ PopTake(c)
      PROVE  NoMissedShutdown'
  BY <1>4, <1>k, <1>t
  DEF PopCall, PopLock, PopTest, PopTimeout, PopSpurious, PopTake
<1>5. ASSUME NEW k \in Closers, CloseSet(k) PROVE NoMissedShutdown'
  BY <1>5, <1>t DEF CloseSet, NoMissedShutdown
<1>6. ASSUME NEW k \in Closers, NotifyAll(k) PROVE NoMissedShutdown'
  BY <1>6 DEF NotifyAll, Resume, NoMissedShutdown
<1>7. ASSUME NEW k \in Closers, CloseCall(k) \/ CloseLock(k) PROVE NoMissedShutdown'
  BY <1>7, <1>k, <1>t DEF CloseCall, CloseLock
<1>8. CASE UNCHANGED vars
  BY <1>8, <1>k DEF vars
<1> QED
  BY <1>1, <1>2, <1>3, <1>4, <1>5, <1>6, <1>7, <1>8
  DEF Next, Push, PopWait, Shutdown

(* No consumer falls asleep in the window between its test of closed_ and  *)
(* its entry into cv_ and so misses the only notify_all.                   *)
THEOREM NoMissedShutdownCorrect == Spec => []NoMissedShutdown
<1>1. Init => NoMissedShutdown
  BY DEF Init, NoMissedShutdown
<1> QED
  BY BaseCorrect, FreshCorrect, MissedStep, <1>1, PTL DEF Spec
-----------------------------------------------------------------------------
(* The deque, element by element, against the log: head <- popped + drops. *)
InHand == \E p \in Producers : pc[p] = "append"

WindowInv ==
  /\ Len(log) = popped + drops + Len(q) + (IF InHand THEN 1 ELSE 0)
  /\ \A i \in 1..Len(q) : q[i] = log[popped + drops + i]
  /\ \A p \in Producers : pc[p] = "append" => item[p] = log[Len(log)]

LEMMA Types ==
  ASSUME Base
  PROVE  /\ q \in Seq(Items) /\ Len(q) \in Nat
         /\ log \in Seq(Items) /\ Len(log) \in Nat
         /\ popped \in Nat /\ drops \in Nat
         /\ pc \in [Threads -> Labels] /\ waiters \subseteq Consumers
BY LenProperties DEF Base, TypeOK

LEMMA Disjoint ==
  /\ \A p \in Producers : p \in Threads /\ p \notin Consumers /\ p \notin Closers
  /\ \A c \in Consumers : c \in Threads /\ c \notin Closers
  /\ \A k \in Closers : k \in Threads
BY ThreadAssumption DEF Threads

(* Taking the front of the deque moves the window up by one.               *)
LEMMA TailOfWindow ==
  ASSUME Base, WindowInv, q # <<>>
  PROVE  /\ Tail(q) \in Seq(Items)
         /\ Len(Tail(q)) = Len(q) - 1
         /\ Head(q) = log[popped + drops + 1]
         /\ \A i \in 1..(Len(q) - 1) : Tail(q)[i] = log[(popped + drops + 1) + i]
<1>1. /\ Tail(q) \in Seq(Items) /\ Len(Tail(q)) = Len(q) - 1
      /\ Len(q) # 0 /\ Head(q) = q[1]
      /\ \A i \in 1..(Len(q) - 1) : Tail(q)[i] = q[i + 1]
  BY Types, HeadTailProperties, EmptySeq
<1>2. ASSUME NEW i \in 1..(Len(q) - 1)
      PROVE  Tail(q)[i] = log[(popped + drops + 1) + i]
  <2>1. i + 1 \in 1..Len(q) /\ popped + drops + (i + 1) = (popped + drops + 1) + i
    BY Types
  <2> QED
    BY <1>1, <2>1 DEF WindowInv
<1>3. Head(q) = log[popped + drops + 1]
  BY <1>1, Types DEF WindowInv
<1> QED
  BY <1>1, <1>2, <1>3

LEMMA WindowStep == Base /\ WindowInv /\ [Next]_vars => WindowInv'
<1> SUFFICES ASSUME Base, WindowInv, [Next]_vars PROVE WindowInv'
  OBVIOUS
<1> USE Types, Disjoint DEF Goto, Acquire, Release, history
<1>k. ASSUME UNCHANGED <<q, log, popped, drops, item>>,
             \A p \in Producers : pc'[p] = "append" <=> pc[p] = "append"
      PROVE  WindowInv'
  BY <1>k DEF WindowInv, InHand
<1>1. ASSUME NEW p \in Producers, PushCall(p) PROVE WindowInv'
  <2>1. \A r \in Producers : pc'[r] = "append" <=> pc[r] = "append"
    BY <1>1 DEF PushCall
  <2>2. \A r \in Producers : pc'[r] = "append" => item'[r] = item[r]
    BY <1>1 DEF PushCall, Base, TypeOK
  <2>3. UNCHANGED <<q, log, popped, drops>>
    BY <1>1 DEF PushCall
  <2> QED
    BY <2>1, <2>2, <2>3 DEF WindowInv, InHand
<1>2. ASSUME NEW p \in Producers, PushLock(p) PROVE WindowInv'
  BY <1>2, <1>k DEF PushLock
<1>3. ASSUME NEW p \in Producers, PushEvict(p) PROVE WindowInv'
  <2>1. \A r \in Producers : pc[r] # "append"
    BY <1>3, Exclusion DEF PushEvict, Inside
  <2>2. pc' = [pc EXCEPT ![p] = "append"] /\ log' = Append(log, item[p])
        /\ item' = item /\ popped' = popped /\ item[p] \in Items
    BY <1>3 DEF PushEvict, Base, ItemOK
  <2>3. InHand' /\ \A r \in Producers : pc'[r] = "append" => r = p
    BY <2>1, <2>2 DEF InHand
  <2>4. /\ Len(log') = Len(log) + 1 /\ log'[Len(log')] = item[p]
        /\ \A i \in 1..Len(log) : log'[i] = log[i]
    BY <2>2
  <2>5. Len(log) = popped + drops + Len(q)
    BY <2>1 DEF WindowInv, InHand
  <2>6. CASE Len(q) >= cap
    <3>1. q # <<>> /\ q' = Tail(q) /\ drops' = drops + 1
      BY <1>3, <2>6, CapType, EmptySeq DEF PushEvict
    <3>2. ASSUME NEW i \in 1..Len(q') PROVE q'[i] = log'[popped' + drops' + i]
      <4>1. i \in 1..(Len(q) - 1) /\ q'[i] = log[(popped + drops + 1) + i]
        BY <3>1, TailOfWindow
      <4>2. /\ (popped + drops + 1) + i \in 1..Len(log)
            /\ popped' + drops' + i = (popped + drops + 1) + i
        BY <4>1, <3>1, <2>2, <2>5, SMTT(40)
      <4> QED
        BY <4>1, <4>2, <2>4
    <3>3. Len(log') = popped' + drops' + Len(q') + 1
      BY <3>1, <2>2, <2>4, <2>5, TailOfWindow
    <3> QED
      BY <3>2, <3>3, <2>2, <2>3, <2>4 DEF WindowInv
  <2>7. CASE ~(Len(q) >= cap)
    <3>1. UNCHANGED <<q, drops>>
      BY <1>3, <2>7 DEF PushEvict
    <3>2. ASSUME NEW i \in 1..Len(q') PROVE q'[i] = log'[popped' + drops' + i]
      BY <3>1, <2>2, <2>4, <2>5 DEF WindowInv
    <3>3. Len(log') = popped' + drops' + Len(q') + 1
      BY <3>1, <2>2, <2>4, <2>5
    <3> QED
      BY <3>2, <3>3, <2>2, <2>3, <2>4 DEF WindowInv
  <2> QED
    BY <2>6, <2>7
<1>4. ASSUME NEW p \in Producers, PushAppend(p) PROVE WindowInv'
  <2>1. /\ pc[p] = "append" /\ pc' = [pc EXCEPT ![p] = "notify"]
        /\ q' = Append(q, item[p]) /\ UNCHANGED <<log, popped, drops>>
        /\ item[p] \in Items
    BY <1>4 DEF PushAppend, Base, ItemOK
  <2>2. InHand /\ ~InHand' /\ \A r \in Producers : pc'[r] # "append"
    BY <2>1, Exclusion DEF InHand, Inside
  <2>3. /\ Len(log) = popped + drops + Len(q) + 1
        /\ item[p] = log[Len(log)]
        /\ \A i \in 1..Len(q) : q[i] = log[popped + drops + i]
    BY <2>1, <2>2 DEF WindowInv
  <2>4. Len(q') = Len(q) + 1 /\ q'[Len(q) + 1] = item[p]
        /\ \A i \in 1..Len(q) : q'[i] = q[i]
    BY <2>1
  <2>5. ASSUME NEW i \in 1..Len(q') PROVE q'[i] = log'[popped' + drops' + i]
    <3>1. CASE i = Len(q) + 1
      BY <3>1, <2>1, <2>3, <2>4
    <3>2. CASE i \in 1..Len(q)
      BY <3>2, <2>1, <2>3, <2>4
    <3> QED
      BY <3>1, <3>2, <2>4
  <2> QED
    BY <2>1, <2>2, <2>3, <2>4, <2>5 DEF WindowInv
<1>5. ASSUME NEW p \in Producers, NotifyOne(p) PROVE WindowInv'
  <2>1. ASSUME NEW W, W \subseteq Consumers, Resume(p, W)
        PROVE  \A r \in Producers : pc'[r] = "append" <=> pc[r] = "append"
    BY <1>5, <2>1 DEF Resume, NotifyOne
  <2> QED
    BY <1>5, <2>1, <1>k DEF NotifyOne
<1>6. ASSUME NEW c \in Consumers, PopTake(c) PROVE WindowInv'
  <2>1. /\ UNCHANGED <<drops, log, item>>
        /\ \A r \in Producers : pc'[r] = pc[r]
    BY <1>6 DEF PopTake
  <2>2. CASE q = <<>>
    BY <1>6, <2>1, <2>2, <1>k DEF PopTake
  <2>3. CASE q # <<>>
    <3>1. q' = Tail(q) /\ popped' = popped + 1
      BY <1>6, <2>3 DEF PopTake
    <3>2. Len(q') = Len(q) - 1
          /\ \A i \in 1..(Len(q) - 1) : q'[i] = log[(popped + drops + 1) + i]
      BY <2>3, <3>1, TailOfWindow
    <3>3. popped' + drops' = popped + drops + 1
      BY <2>1, <3>1
    <3>4. InHand' <=> InHand
      BY <2>1 DEF InHand
    <3>5. Len(log') = popped' + drops' + Len(q') + (IF InHand' THEN 1 ELSE 0)
      <4>1. Len(log) = popped + drops + Len(q) + (IF InHand THEN 1 ELSE 0)
        BY DEF WindowInv
      <4>2. Len(log') = Len(log) /\ Len(q') = Len(q) - 1
        BY <2>1, <3>2
      <4> QED
        BY <3>3, <3>4, <4>1, <4>2
    <3>6. \A i \in 1..Len(q') : q'[i] = log'[popped' + drops' + i]
      BY <2>1, <3>2, <3>3
    <3>7. \A r \in Producers : pc'[r] = "append" => item'[r] = log'[Len(log')]
      BY <2>1 DEF WindowInv
    <3> QED
      BY <3>5, <3>6, <3>7 DEF WindowInv
  <2> QED
    BY <2>2, <2>3
<1>7. ASSUME NEW c \in Consumers,
             \/ PopCall(c) \/ PopLock(c) \/ PopTest(c) \/ PopBlock(c)
             \/ PopTimeout(c) \/ PopSpurious(c)
      PROVE  WindowInv'
  BY <1>7, <1>k
  DEF PopCall, PopLock, PopTest, PopBlock, PopTimeout, PopSpurious
<1>8. ASSUME NEW k \in Closers, CloseCall(k) \/ CloseLock(k) \/ CloseSet(k)
      PROVE  WindowInv'
  BY <1>8, <1>k DEF CloseCall, CloseLock, CloseSet
<1>9. ASSUME NEW k \in Closers, NotifyAll(k) PROVE WindowInv'
  <2>1. \A r \in Producers : pc'[r] = pc[r]
    BY <1>9 DEF NotifyAll, Resume
  <2> QED
    BY <1>9, <2>1, <1>k DEF NotifyAll
<1>10. CASE UNCHANGED vars
  BY <1>10, <1>k DEF vars
<1> QED
  BY <1>1, <1>2, <1>3, <1>4, <1>5, <1>6, <1>7, <1>8, <1>9, <1>10
  DEF Next, Push, PopWait, Shutdown

LEMMA WindowCorrect == Spec => []WindowInv
<1>1. Init => WindowInv
  BY DEF Init, WindowInv, InHand, Threads
<1> QED
  BY BaseCorrect, WindowStep, <1>1, PTL DEF Spec

(* The deque is exactly the newest accepted items, in order of acceptance: *)
(* nothing is lost, duplicated or reordered but what drops_ counts.        *)
THEOREM QueueIsWindowCorrect == Spec => []QueueIsWindow
<1>1. ASSUME Base, WindowInv PROVE QueueIsWindow
  <2> USE Types, <1>1
  <2> DEFINE h == popped + drops
  <2>1. /\ Window \in Seq(Items)
        /\ Len(Window) = IF h + 1 <= Len(log) THEN Len(log) - h ELSE 0
        /\ \A i \in 1..(Len(log) - h) : Window[i] = log[h + i]
    <3>1. \A i \in (h + 1)..Len(log) : log[i] \in Items
      BY ElementOfSeq
    <3>2. /\ SubSeq(log, h + 1, Len(log)) \in Seq(Items)
          /\ Len(SubSeq(log, h + 1, Len(log)))
               = IF h + 1 <= Len(log) THEN Len(log) - (h + 1) + 1 ELSE 0
          /\ \A i \in 1..(Len(log) - (h + 1) + 1) :
               SubSeq(log, h + 1, Len(log))[i] = log[(h + 1) + i - 1]
      BY <3>1, SubSeqProperties, SMTT(40)
    <3> QED
      BY <3>2 DEF Window
  <2>2. ASSUME ~InHand PROVE q = Window
    BY <2>1, <2>2, SeqEqual DEF WindowInv
  <2>3. ASSUME NEW p \in Producers, pc[p] = "append"
        PROVE  Append(q, item[p]) = Window
    <3>1. /\ item[p] \in Items /\ item[p] = log[Len(log)]
          /\ Len(log) = h + Len(q) + 1
          /\ \A i \in 1..Len(q) : q[i] = log[h + i]
      BY <2>3 DEF WindowInv, InHand, Base, ItemOK
    <3>2. /\ Append(q, item[p]) \in Seq(Items)
          /\ Len(Append(q, item[p])) = Len(q) + 1
          /\ \A i \in 1..(Len(q) + 1) :
               Append(q, item[p])[i] = IF i = Len(q) + 1 THEN item[p] ELSE q[i]
      BY <3>1
    <3>3. Len(Window) = Len(q) + 1
      BY <2>1, <3>1
    <3>4. ASSUME NEW i \in 1..(Len(q) + 1) PROVE Append(q, item[p])[i] = Window[i]
      BY <2>1, <3>1, <3>2, SMTT(40)
    <3> QED
      BY <2>1, <3>2, <3>3, <3>4, SeqEqual
  <2> QED
    BY <2>2, <2>3 DEF QueueIsWindow, InHand
<1> QED
  BY BaseCorrect, WindowCorrect, <1>1, PTL
-----------------------------------------------------------------------------
(* Implementation.  The push takes its atomic step at PushEvict, the pop   *)
(* at PopTake, shutdown at CloseSet; every other step stutters.            *)
LEMMA ImplInit == Init => DOQ!Init
BY DEF Init, DOQ!Init

LEMMA ImplStep == Base /\ WindowInv /\ [Next]_vars => [DOQ!Next]_DOQ!vars
<1> SUFFICES ASSUME Base, WindowInv, [Next]_vars PROVE [DOQ!Next]_DOQ!vars
  OBVIOUS
<1> USE Types, Disjoint DEF Goto, Acquire, Release, history
<1>k. ASSUME UNCHANGED <<log, popped, drops, closed, last>>
      PROVE  [DOQ!Next]_DOQ!vars
  BY <1>k DEF DOQ!vars
<1>1. ASSUME NEW p \in Producers, PushEvict(p) PROVE DOQ!Next
  <2>1. /\ item[p] \in Items /\ log' = Append(log, item[p])
        /\ UNCHANGED <<popped, closed, last>>
    BY <1>1 DEF PushEvict, Base, ItemOK
  <2>2. DOQ!Held = Len(q)
    <3>1. ~InHand
      BY <1>1, Exclusion DEF PushEvict, InHand, Inside
    <3> QED
      BY <3>1 DEF WindowInv, DOQ!Held
  <2>3. IF Len(q) >= cap THEN drops' = drops + 1 ELSE drops' = drops
    BY <1>1 DEF PushEvict
  <2>4. DOQ!Push(item[p])
    BY <2>1, <2>2, <2>3 DEF DOQ!Push
  <2> QED
    BY <2>1, <2>4 DEF DOQ!Next
<1>2. ASSUME NEW c \in Consumers, PopTake(c) PROVE [DOQ!Next]_DOQ!vars
  <2>1. CASE q = <<>>
    BY <1>2, <2>1, <1>k DEF PopTake
  <2>2. CASE q # <<>>
    <3>1. /\ popped' = popped + 1 /\ last' = Head(q)
          /\ UNCHANGED <<log, drops, closed>>
      BY <1>2, <2>2 DEF PopTake
    <3>2. DOQ!Held > 0
      BY <2>2, EmptySeq DEF WindowInv, DOQ!Held
    <3>3. DOQ!Pop
      BY <3>1, <3>2, <2>2, TailOfWindow DEF DOQ!Pop
    <3> QED
      BY <3>3 DEF DOQ!Next
  <2> QED
    BY <2>1, <2>2
<1>3. ASSUME NEW k \in Closers, CloseSet(k) PROVE DOQ!Next
  BY <1>3 DEF CloseSet, DOQ!Next, DOQ!Shutdown
<1>4. ASSUME NEW p \in Producers,
             PushCall(p) \/ PushLock(p) \/ PushAppend(p) \/ NotifyOne(p)
      PROVE  [DOQ!Next]_DOQ!vars
  BY <1>4, <1>k DEF PushCall, PushLock, PushAppend, NotifyOne
<1>5. ASSUME NEW c \in Consumers,
             \/ PopCall(c) \/ PopLock(c) \/ PopTest(c) \/ PopBlock(c)
             \/ PopTimeout(c) \/ PopSpurious(c)
      PROVE  [DOQ!Next]_DOQ!vars
  BY <1>5, <1>k
  DEF PopCall, PopLock, PopTest, PopBlock, PopTimeout, PopSpurious
<1>6. ASSUME NEW k \in Closers, CloseCall(k) \/ CloseLock(k) \/ NotifyAll(k)
      PROVE  [DOQ!Next]_DOQ!vars
  BY <1>6, <1>k DEF CloseCall, CloseLock, NotifyAll
<1>7. CASE UNCHANGED vars
  BY <1>7, <1>k DEF vars
<1> QED
  BY <1>1, <1>2, <1>3, <1>4, <1>5, <1>6, <1>7
  DEF Next, Push, PopWait, Shutdown

(* The mutex makes every call of BoundedQueue atomic: the threads see the  *)
(* queue of DropOldestQueue.                                               *)
THEOREM Implementation == Spec => Refinement
BY BaseCorrect, WindowCorrect, ImplInit, ImplStep, PTL
DEF Spec, Refinement, DOQ!Spec
-----------------------------------------------------------------------------
LEMMA TokenSets ==
  /\ IsFiniteSet(Notifying) /\ Cardinality(Notifying) \in Nat
  /\ IsFiniteSet(Awake) /\ Cardinality(Awake) \in Nat
<1>1. Notifying \subseteq Producers /\ Awake \subseteq Consumers
  BY DEF Notifying, Awake
<1> QED
  BY <1>1, ThreadAssumption, FS_Subset, FS_CardinalityType

LEMMA TokenSetsNext ==
  /\ IsFiniteSet(Notifying') /\ Cardinality(Notifying') \in Nat
  /\ IsFiniteSet(Awake') /\ Cardinality(Awake') \in Nat
<1>1. Notifying' \subseteq Producers /\ Awake' \subseteq Consumers
  BY DEF Notifying, Awake
<1> QED
  BY <1>1, ThreadAssumption, FS_Subset, FS_CardinalityType

LEMMA StrandedStep ==
  Base /\ FreshOK /\ NoStrandedItem /\ [Next]_vars => NoStrandedItem'
<1> SUFFICES ASSUME Base, FreshOK, NoStrandedItem, [Next]_vars
             PROVE  NoStrandedItem'
  OBVIOUS
<1> USE Types, Disjoint, TokenSets, TokenSetsNext DEF Goto, Acquire, Release, history
<1>s. Len(q) \in Nat /\ (q = <<>> => Len(q) = 0)
  BY EmptySeq
(* Steps that add no item and no waiter, and take no token away.           *)
<1>k. ASSUME Len(q') \in Nat, Len(q') <= Len(q), waiters' \subseteq waiters,
             Cardinality(Notifying') >= Cardinality(Notifying),
             Cardinality(Awake') >= Cardinality(Awake)
      PROVE  NoStrandedItem'
  BY <1>k, <1>s DEF NoStrandedItem, Tokens
<1>1. ASSUME NEW p \in Producers, PushCall(p) \/ PushLock(p)
      PROVE  NoStrandedItem'
  <2>1. Notifying' = Notifying /\ Awake' = Awake
    BY <1>1 DEF PushCall, PushLock, Notifying, Awake
  <2>2. q' = q /\ waiters' = waiters
    BY <1>1 DEF PushCall, PushLock
  <2> QED
    BY <2>1, <2>2, <1>k
<1>2. ASSUME NEW p \in Producers, PushEvict(p) PROVE NoStrandedItem'
  <2>1. Notifying' = Notifying /\ Awake' = Awake
    BY <1>2 DEF PushEvict, Notifying, Awake
  <2>2. waiters' = waiters /\ Len(q') \in Nat /\ Len(q') <= Len(q)
    <3>1. CASE Len(q) >= cap
      <4>1. q # <<>> /\ q' = Tail(q)
        BY <1>2, <3>1, CapType, EmptySeq DEF PushEvict
      <4> QED
        BY <1>2, <4>1, HeadTailProperties DEF PushEvict
    <3>2. CASE ~(Len(q) >= cap)
      BY <1>2, <3>2 DEF PushEvict
    <3> QED
      BY <3>1, <3>2
  <2> QED
    BY <2>1, <2>2, <1>k
(* The item that arrives brings its own notify_one.                        *)
<1>3. ASSUME NEW p \in Producers, PushAppend(p) PROVE NoStrandedItem'
  <2>1. Notifying' = Notifying \cup {p} /\ p \notin Notifying /\ Awake' = Awake
    BY <1>3 DEF PushAppend, Notifying, Awake
  <2>2. Cardinality(Notifying') = Cardinality(Notifying) + 1
    BY <2>1, FS_AddElement
  <2>3. Len(q') = Len(q) + 1 /\ waiters' = waiters
    BY <1>3 DEF PushAppend
  <2> QED
    BY <2>1, <2>2, <2>3 DEF NoStrandedItem, Tokens
(* notify_one turns into an awake consumer, or finds nobody asleep.        *)
<1>4. ASSUME NEW p \in Producers, NotifyOne(p) PROVE NoStrandedItem'
  <2>1. CASE waiters = {} /\ Resume(p, {})
    BY <2>1 DEF Resume, NoStrandedItem
  <2>2. ASSUME NEW w \in waiters, Resume(p, {w}) PROVE NoStrandedItem'
    <3>1. pc[w] = "wait" /\ pc[p] = "notify" /\ q' = q
      BY <1>4 DEF NotifyOne, Base, WaitOK
    <3>2. Notifying' = Notifying \ {p} /\ p \in Notifying
      BY <2>2, <3>1 DEF Resume, Notifying
    <3>3. Awake' = Awake \cup {w} /\ w \notin Awake
      BY <2>2, <3>1 DEF Resume, Awake
    <3>4. /\ Cardinality(Notifying') = Cardinality(Notifying) - 1
          /\ Cardinality(Awake') = Cardinality(Awake) + 1
      BY <3>2, <3>3, FS_AddElement, FS_RemoveElement
    <3> QED
      BY <3>1, <3>4 DEF NoStrandedItem, Tokens
  <2> QED
    BY <1>4, <2>1, <2>2 DEF NotifyOne
<1>5. ASSUME NEW c \in Consumers,
             PopCall(c) \/ PopTimeout(c) \/ PopSpurious(c)
      PROVE  NoStrandedItem'
  <2>1. Awake' = Awake \cup {c} /\ Notifying' = Notifying
    BY <1>5 DEF PopCall, PopTimeout, PopSpurious, Awake, Notifying
  <2>2. c \notin Awake
    BY <1>5 DEF PopCall, PopTimeout, PopSpurious, Awake
  <2>3. Cardinality(Awake') = Cardinality(Awake) + 1
    BY <2>1, <2>2, FS_AddElement
  <2>4. q' = q /\ waiters' \subseteq waiters
    BY <1>5 DEF PopCall, PopTimeout, PopSpurious
  <2> QED
    BY <2>1, <2>3, <2>4, <1>k
<1>6. ASSUME NEW c \in Consumers, PopLock(c) PROVE NoStrandedItem'
  <2>1. Awake' = Awake /\ Notifying' = Notifying
    BY <1>6 DEF PopLock, Awake, Notifying
  <2> QED
    BY <1>6, <2>1, <1>k DEF PopLock
(* A token is given up only on an empty deque ...                          *)
<1>7. ASSUME NEW c \in Consumers, PopTest(c) PROVE NoStrandedItem'
  <2>1. CASE Ready
    <3>1. Awake' = Awake /\ Notifying' = Notifying
      BY <1>7, <2>1 DEF PopTest, Awake, Notifying
    <3> QED
      BY <1>7, <3>1, <1>k DEF PopTest
  <2>2. CASE ~Ready
    BY <1>7, <2>2, <1>s DEF PopTest, Ready, NoStrandedItem, Tokens
  <2> QED
    BY <2>1, <2>2
<1>8. ASSUME NEW c \in Consumers, PopBlock(c) PROVE NoStrandedItem'
  BY <1>8, <1>s DEF PopBlock, FreshOK, Ready, NoStrandedItem, Tokens
(* ... or together with the item it is for.                                *)
<1>9. ASSUME NEW c \in Consumers, PopTake(c) PROVE NoStrandedItem'
  <2>1. Awake' = Awake \ {c} /\ c \in Awake /\ Notifying' = Notifying
    BY <1>9 DEF PopTake, Awake, Notifying
  <2>2. Cardinality(Awake') = Cardinality(Awake) - 1
    BY <2>1, FS_RemoveElement
  <2>3. CASE q = <<>>
    BY <1>9, <2>3, <1>s DEF PopTake, NoStrandedItem, Tokens
  <2>4. CASE q # <<>>
    <3>1. Len(q') = Len(q) - 1 /\ waiters' = waiters
      BY <1>9, <2>4, HeadTailProperties DEF PopTake
    <3> QED
      BY <3>1, <2>1, <2>2 DEF NoStrandedItem, Tokens
  <2> QED
    BY <2>3, <2>4
<1>10. ASSUME NEW k \in Closers, CloseCall(k) \/ CloseLock(k) \/ CloseSet(k)
       PROVE  NoStrandedItem'
  <2>1. Awake' = Awake /\ Notifying' = Notifying
    BY <1>10 DEF CloseCall, CloseLock, CloseSet, Awake, Notifying
  <2> QED
    BY <1>10, <2>1, <1>k DEF CloseCall, CloseLock, CloseSet
<1>11. ASSUME NEW k \in Closers, NotifyAll(k) PROVE NoStrandedItem'
  BY <1>11 DEF NotifyAll, Resume, NoStrandedItem
<1>12. CASE UNCHANGED vars
  BY <1>12, <1>k DEF vars, Awake, Notifying
<1> QED
  BY <1>1, <1>2, <1>3, <1>4, <1>5, <1>6, <1>7, <1>8, <1>9, <1>10, <1>11, <1>12
  DEF Next, Push, PopWait, Shutdown

(* No lost wake-up: whatever the number of producers and consumers, no     *)
(* consumer sleeps on an item that nobody is on the way to take.           *)
THEOREM NoStrandedItemCorrect == Spec => []NoStrandedItem
<1>1. Init => NoStrandedItem
  BY DEF Init, NoStrandedItem
<1> QED
  BY BaseCorrect, FreshCorrect, StrandedStep, <1>1, PTL DEF Spec
=============================================================================
