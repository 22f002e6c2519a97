----------------------------- MODULE BoundedQueue -----------------------------
(***************************************************************************)
(* src/example/BoundedQueue.h: the drop-oldest FIFO between the threads of *)
(* encoder_example, at the grain of its mutex and condition variable.      *)
(*                                                                         *)
(* A thread of Producers calls push_drop_oldest, one of Consumers calls    *)
(* pop_wait, one of Closers calls shutdown, each again and again.  A step  *)
(* is one acquisition of mtx_, one access to the shared deque under it, or *)
(* one call on cv_; pc[t] is where thread t stands inside its call.        *)
(*                                                                         *)
(* The condition variable is its wait set.  notify_one takes one waiter    *)
(* out of it (or is lost when there is none), notify_all takes them all;   *)
(* a waiter may also leave by timeout or spuriously, as the C++ standard   *)
(* allows.  Whoever leaves takes mtx_ again before it looks at the deque.  *)
(* A timeout may strike at any moment, so one model serves the 500 ms and  *)
(* the 0 ms waits of main.cpp.                                             *)
(***************************************************************************)
EXTENDS Integers, Sequences, FiniteSets

CONSTANTS
  Producers, Consumers, Closers,  \* the threads, by the call they make
  Items, NoItem,
  NoThread,                       \* "mtx_ is free"
  Capacity,                       \* the constructor's argument
  MaxPushes                       \* bound of the model: calls of push

Threads == Producers \cup Consumers \cup Closers

ASSUME ThreadAssumption ==
  /\ Producers \cap Consumers = {}
  /\ Producers \cap Closers = {}
  /\ Consumers \cap Closers = {}
  /\ NoThread \notin Threads
  /\ IsFiniteSet(Producers) /\ IsFiniteSet(Consumers)

ASSUME BoundAssumption ==
  /\ NoItem \notin Items
  /\ Capacity \in Nat
  /\ MaxPushes \in Nat

VARIABLES
  mtx,      \* the thread that holds mtx_, or NoThread
  q,        \* q_
  drops,    \* drops_
  closed,   \* closed_
  waiters,  \* the threads blocked in cv_
  pc,       \* [Threads -> where the thread is in its call]
  item,     \* [Producers -> the by-value argument of push_drop_oldest]
  expired,  \* [Consumers -> the wait of this call has timed out]
  ret,      \* [Consumers -> how the last pop_wait returned]
  calls,    \* calls of push so far (model bound)
  log,      \* history: the items accepted, in the order of mtx_
  popped,   \* history: how many items pop_wait has delivered
  last      \* history: the last item moved into `out'

vars == <<mtx, q, drops, closed, waiters, pc, item, expired, ret,
          calls, log, popped, last>>

history == <<log, popped, last>>

(* The constructor turns a capacity of 0 into 1.                           *)
cap == IF Capacity = 0 THEN 1 ELSE Capacity

Init ==
  /\ mtx = NoThread
  /\ q = <<>>
  /\ drops = 0
  /\ closed = FALSE
  /\ waiters = {}
  /\ pc = [t \in Threads |-> "idle"]
  /\ item = [p \in Producers |-> NoItem]
  /\ expired = [c \in Consumers |-> FALSE]
  /\ ret = [c \in Consumers |-> "none"]
  /\ calls = 0
  /\ log = <<>>
  /\ popped = 0
  /\ last = NoItem

Goto(t, from, to) == pc[t] = from /\ pc' = [pc EXCEPT ![t] = to]

Acquire(t, from, to) == Goto(t, from, to) /\ mtx = NoThread /\ mtx' = t

Release == mtx' = NoThread
-----------------------------------------------------------------------------
(* push_drop_oldest                                                        *)

PushCall(p) ==
  /\ calls < MaxPushes
  /\ Goto(p, "idle", "pushLock")
  /\ \E v \in Items : item' = [item EXCEPT ![p] = v]
  /\ calls' = calls + 1
  /\ UNCHANGED <<mtx, q, drops, closed, waiters, expired, ret, history>>

(* Mutant: a push that waits for room.                                     *)
PushLockWait(p) ==
  /\ Len(q) < cap
  /\ Acquire(p, "pushLock", "evict")
  /\ UNCHANGED <<q, drops, closed, waiters, item, expired, ret, calls, history>>

PushLock(p) ==
  /\ Acquire(p, "pushLock", "evict")
  /\ UNCHANGED <<q, drops, closed, waiters, item, expired, ret, calls, history>>

(* Mutants: evict the newest item; do not count.                           *)
EvictWith(p, full, rest, count) ==
  /\ Goto(p, "evict", "append")
  /\ IF full THEN q' = rest /\ drops' = drops + count ELSE UNCHANGED <<q, drops>>
  /\ log' = Append(log, item[p])
  /\ UNCHANGED <<mtx, closed, waiters, item, expired, ret, calls, popped, last>>

PushEvictNewest(p) == EvictWith(p, Len(q) >= cap, SubSeq(q, 1, Len(q) - 1), 1)
PushEvictUncounted(p) == EvictWith(p, Len(q) >= cap, Tail(q), 0)

(* Make room.  The push takes effect for everyone else when mtx_ is        *)
(* released, so the item counts as accepted from here.                     *)
PushEvict(p) ==
  /\ Goto(p, "evict", "append")
  /\ IF Len(q) >= cap
       THEN q' = Tail(q) /\ drops' = drops + 1
       ELSE UNCHANGED <<q, drops>>
  /\ log' = Append(log, item[p])
  /\ UNCHANGED <<mtx, closed, waiters, item, expired, ret, calls, popped, last>>

PushAppend(p) ==
  /\ Goto(p, "append", "notify")
  /\ q' = Append(q, item[p])
  /\ item' = [item EXCEPT ![p] = NoItem]
  /\ Release
  /\ UNCHANGED <<drops, closed, waiters, expired, ret, calls, history>>

(* Thread t is done with its call; the threads of W leave the wait set and *)
(* go for mtx_.                                                            *)
Resume(t, W) ==
  /\ waiters' = waiters \ W
  /\ pc' = [u \in Threads |-> IF u = t THEN "idle"
                              ELSE IF u \in W THEN "popLock" ELSE pc[u]]

(* Mutants: notify only on the way from empty to non-empty; notify nobody. *)
NotifyOnEmpty(p) ==
  /\ pc[p] = "notify"
  /\ \/ (waiters = {} \/ Len(q) > 1) /\ Resume(p, {})
     \/ Len(q) <= 1 /\ \E w \in waiters : Resume(p, {w})
  /\ UNCHANGED <<mtx, q, drops, closed, item, expired, ret, calls, history>>

NotifyNobody(p) ==
  /\ pc[p] = "notify"
  /\ Resume(p, {})
  /\ UNCHANGED <<mtx, q, drops, closed, item, expired, ret, calls, history>>

NotifyOne(p) ==
  /\ pc[p] = "notify"
  /\ \/ waiters = {} /\ Resume(p, {})
     \/ \E w \in waiters : Resume(p, {w})
  /\ UNCHANGED <<mtx, q, drops, closed, item, expired, ret, calls, history>>
-----------------------------------------------------------------------------
(* pop_wait                                                                *)

PopCall(c) ==
  /\ Goto(c, "idle", "popLock")
  /\ expired' = [expired EXCEPT ![c] = FALSE]
  /\ ret' = [ret EXCEPT ![c] = "none"]
  /\ UNCHANGED <<mtx, q, drops, closed, waiters, item, calls, history>>

(* The first lock of the call, and the one wait_for takes on wake-up.      *)
PopLock(c) ==
  /\ Acquire(c, "popLock", "test")
  /\ UNCHANGED <<q, drops, closed, waiters, item, expired, ret, calls, history>>

(* Mutant: wait for an item only.                                          *)
ReadyIfItem == q # <<>>

Ready == q # <<>> \/ closed

(* Mutant: the lock is given back between the test and the pop.            *)
PopTestUnlock(c) ==
  /\ \/ /\ Ready
        /\ Goto(c, "test", "take")
        /\ UNCHANGED ret
     \/ /\ ~Ready /\ expired[c]
        /\ Goto(c, "test", "idle")
        /\ ret' = [ret EXCEPT ![c] = "timeout"]
     \/ /\ ~Ready /\ ~expired[c]
        /\ Goto(c, "test", "block")
        /\ UNCHANGED ret
  /\ Release
  /\ UNCHANGED <<q, drops, closed, waiters, item, expired, calls, history>>

(* The predicate of wait_for, under the lock: go on when it holds, return  *)
(* false when it does not and the time is up, else wait (again).           *)
PopTest(c) ==
  /\ \/ /\ Ready
        /\ Goto(c, "test", "take")
        /\ UNCHANGED <<mtx, ret>>
     \/ /\ ~Ready /\ expired[c]
        /\ Goto(c, "test", "idle")
        /\ ret' = [ret EXCEPT ![c] = "timeout"]
        /\ Release
     \/ /\ ~Ready /\ ~expired[c]
        /\ Goto(c, "test", "block")
        /\ UNCHANGED <<mtx, ret>>
  /\ UNCHANGED <<q, drops, closed, waiters, item, expired, calls, history>>

(* Entering cv_ gives the lock back in the same atomic step.               *)
PopBlock(c) ==
  /\ Goto(c, "block", "wait")
  /\ waiters' = waiters \cup {c}
  /\ Release
  /\ UNCHANGED <<q, drops, closed, item, expired, ret, calls, history>>

PopTimeout(c) ==
  /\ Goto(c, "wait", "popLock")
  /\ waiters' = waiters \ {c}
  /\ expired' = [expired EXCEPT ![c] = TRUE]
  /\ UNCHANGED <<mtx, q, drops, closed, item, ret, calls, history>>

PopSpurious(c) ==
  /\ Goto(c, "wait", "popLock")
  /\ waiters' = waiters \ {c}
  /\ UNCHANGED <<mtx, q, drops, closed, item, expired, ret, calls, history>>

(* After the wait: false on an empty queue (shutdown), else the oldest.    *)
PopTake(c) ==
  /\ Goto(c, "take", "idle")
  /\ Release
  /\ IF q = <<>>
       THEN /\ ret' = [ret EXCEPT ![c] = "shutdown"]
            /\ UNCHANGED <<q, popped, last>>
       ELSE /\ ret' = [ret EXCEPT ![c] = "item"]
            /\ q' = Tail(q)
            /\ popped' = popped + 1
            /\ last' = Head(q)
  /\ UNCHANGED <<drops, closed, waiters, item, expired, calls, log>>
-----------------------------------------------------------------------------
(* shutdown                                                                *)

CloseCall(k) ==
  /\ Goto(k, "idle", "closeLock")
  /\ UNCHANGED <<mtx, q, drops, closed, waiters, item, expired, ret, calls, history>>

CloseLock(k) ==
  /\ Acquire(k, "closeLock", "close")
  /\ UNCHANGED <<q, drops, closed, waiters, item, expired, ret, calls, history>>

CloseSet(k) ==
  /\ Goto(k, "close", "notifyAll")
  /\ closed' = TRUE
  /\ Release
  /\ UNCHANGED <<q, drops, waiters, item, expired, ret, calls, history>>

NotifyAll(k) ==
  /\ pc[k] = "notifyAll"
  /\ Resume(k, waiters)
  /\ UNCHANGED <<mtx, q, drops, closed, item, expired, ret, calls, history>>
-----------------------------------------------------------------------------
Push(p) == PushCall(p) \/ PushLock(p) \/ PushEvict(p) \/ PushAppend(p) \/ NotifyOne(p)

PopWait(c) ==
  \/ PopCall(c) \/ PopLock(c) \/ PopTest(c) \/ PopBlock(c)
  \/ PopTimeout(c) \/ PopSpurious(c) \/ PopTake(c)

Shutdown(k) == CloseCall(k) \/ CloseLock(k) \/ CloseSet(k) \/ NotifyAll(k)

Next ==
  \/ \E p \in Producers : Push(p)
  \/ \E c \in Consumers : PopWait(c)
  \/ \E k \in Closers : Shutdown(k)

Spec == Init /\ [][Next]_vars

(* A thread inside a call keeps running, and a thread that finds mtx_ free *)
(* again and again gets it.  Nobody is obliged to call, and no wait is     *)
(* obliged to time out or to wake up by itself: what is shown to happen    *)
(* happens by notification alone.                                          *)
Fairness ==
  /\ \A p \in Producers :
       /\ SF_vars(PushLock(p))
       /\ WF_vars(PushEvict(p) \/ PushAppend(p) \/ NotifyOne(p))
  /\ \A c \in Consumers :
       /\ SF_vars(PopLock(c))
       /\ WF_vars(PopTest(c) \/ PopBlock(c) \/ PopTake(c))
  /\ \A k \in Closers :
       /\ SF_vars(CloseLock(k))
       /\ WF_vars(CloseSet(k) \/ NotifyAll(k))

FairSpec == Spec /\ Fairness
-----------------------------------------------------------------------------
(* Safety                                                                  *)

Labels ==
  {"idle", "pushLock", "evict", "append", "notify", "popLock", "test", "block",
   "wait", "take", "closeLock", "close", "notifyAll"}

TypeOK ==
  /\ mtx \in Threads \cup {NoThread}
  /\ q \in Seq(Items)
  /\ drops \in Nat
  /\ closed \in BOOLEAN
  /\ waiters \subseteq Consumers
  /\ pc \in [Threads -> Labels]
  /\ item \in [Producers -> Items \cup {NoItem}]
  /\ expired \in [Consumers -> BOOLEAN]
  /\ ret \in [Consumers -> {"none", "item", "timeout", "shutdown"}]
  /\ calls \in Nat
  /\ log \in Seq(Items)
  /\ popped \in Nat
  /\ last \in Items \cup {NoItem}

(* q_.size() never exceeds capacity(), whatever the producers interleave:  *)
(* the test-and-evict and the push_back of one push are one critical       *)
(* section.                                                                *)
CapacityBound == Len(q) <= cap

(* An accepted item is delivered, counted as dropped, or still in the      *)
(* deque, and the deque is exactly the newest accepted items in order of   *)
(* acceptance (the push under way still has its own item to append).       *)
Window == SubSeq(log, popped + drops + 1, Len(log))

QueueIsWindow ==
  /\ (\A p \in Producers : pc[p] # "append") => q = Window
  /\ \A p \in Producers : pc[p] = "append" => Append(q, item[p]) = Window

(* No consumer sleeps on an item: while somebody waits, every item in the  *)
(* deque is matched by a notify_one still to come or by a consumer that is *)
(* awake and will test the predicate - including items pushed while a      *)
(* waiter was timing out, and with several consumers.                      *)
Notifying == {p \in Producers : pc[p] = "notify"}
Awake == {c \in Consumers : pc[c] \in {"popLock", "test", "take"}}

Tokens == Cardinality(Notifying) + Cardinality(Awake)

NoStrandedItem == waiters # {} => Len(q) <= Tokens

(* shutdown() misses nobody: a consumer still asleep after closed_ is set  *)
(* has a notify_all ahead of it.                                           *)
NoMissedShutdown ==
  closed /\ waiters # {} => \E k \in Closers : pc[k] = "notifyAll"

(* pop_wait returns false on timeout or on shutdown only (BoundedQueue.h:39): *)
(* the predicate that let a consumer past wait_for still holds when it     *)
(* takes the item, although other consumers were waiting for the same one. *)
FalseHasReason ==
  \A c \in Consumers :
    /\ pc[c] = "take" => Ready
    /\ ret[c] = "shutdown" => closed
    /\ ret[c] = "timeout" => expired[c]

(* Every step of the code is a step of the atomic queue, or none.          *)
DOQ == INSTANCE DropOldestQueue WITH head <- popped + drops, Cap <- cap

Refinement == DOQ!Spec
-----------------------------------------------------------------------------
(* Liveness                                                                *)

(* "Never blocks" (BoundedQueue.h:24): a push returns even if no consumer  *)
(* ever comes back for an item.                                            *)
PushReturns ==
  \A p \in Producers : pc[p] = "pushLock" ~> pc[p] = "idle"

(* A consumer asleep on a non-empty queue is woken, or others take the     *)
(* items, without the help of its timeout.                                 *)
WaiterServed ==
  \A c \in Consumers : (c \in waiters /\ q # <<>>) ~> (c \notin waiters \/ q = <<>>)

(* "Wake every waiting consumer so they can exit" (BoundedQueue.h:53).     *)
ShutdownReleases ==
  \A c \in Consumers : (closed /\ pc[c] # "idle") ~> pc[c] = "idle"
=============================================================================
