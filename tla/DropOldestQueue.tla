--------------------------- MODULE DropOldestQueue ---------------------------
(***************************************************************************)
(* What src/example/BoundedQueue.h promises its users, with every          *)
(* operation one atomic step.                                              *)
(*                                                                         *)
(* The queue is a window on the log of everything ever accepted: log[1],   *)
(* log[2], ... in the order of acceptance, of which the first `head' items *)
(* are gone - delivered to a consumer or discarded by the drop-oldest      *)
(* policy - and the others are held.  A push never blocks and never loses  *)
(* the new item; it costs the oldest held one, counted in `drops', when    *)
(* the window is full.  A pop delivers the oldest held item.               *)
(*                                                                         *)
(* BoundedQueue refines this module; Acquisition instantiates it twice,    *)
(* for the encoder queue and for the ADC queue.                            *)
(***************************************************************************)
EXTENDS Integers, Sequences

CONSTANTS
  Items,     \* what may be pushed
  NoItem,    \* "nothing delivered yet"
  Cap        \* most items held at a time (cap_)

(* What the theorems assume of the constants; the module is only used      *)
(* through INSTANCE, with a capacity that satisfies it.                    *)
QueueAssumption ==
  /\ NoItem \notin Items
  /\ Cap \in Nat \ {0}

VARIABLES
  log,     \* every accepted item, in order of acceptance
  head,    \* how many of them the queue no longer holds
  drops,   \* how many it discarded (drops_)
  closed,  \* shutdown() was called (closed_)
  last     \* the item delivered last, NoItem before the first

vars == <<log, head, drops, closed, last>>

Held == Len(log) - head
-----------------------------------------------------------------------------
Init ==
  /\ log = <<>>
  /\ head = 0
  /\ drops = 0
  /\ closed = FALSE
  /\ last = NoItem

(* push_drop_oldest: the item is accepted in every state, closed or not.   *)
Push(v) ==
  /\ log' = Append(log, v)
  /\ IF Held >= Cap
       THEN head' = head + 1 /\ drops' = drops + 1
       ELSE UNCHANGED <<head, drops>>
  /\ UNCHANGED <<closed, last>>

(* pop_wait returning true.                                                *)
Pop ==
  /\ Held > 0
  /\ head' = head + 1
  /\ last' = log[head + 1]
  /\ UNCHANGED <<log, drops, closed>>

Shutdown ==
  /\ closed' = TRUE
  /\ UNCHANGED <<log, head, drops, last>>

Next ==
  \/ \E v \in Items : Push(v)
  \/ Pop
  \/ Shutdown

Spec == Init /\ [][Next]_vars
-----------------------------------------------------------------------------
TypeOK ==
  /\ log \in Seq(Items)
  /\ head \in Nat
  /\ drops \in Nat
  /\ closed \in BOOLEAN
  /\ last \in Items \cup {NoItem}

(* The window stays within the log and within the capacity, and no item    *)
(* is counted as dropped that was not discarded: push_drop_oldest keeps    *)
(* size() <= capacity() and drop_count() honest.                           *)
WindowOK ==
  /\ head <= Len(log)
  /\ Held <= Cap
  /\ drops <= head

(* A push that discards discards exactly one item, from a full queue, and  *)
(* what it discards is never the item pushed: the newest item is held      *)
(* after every push.                                                       *)
DropsOnlyWhenFull ==
  [][drops' # drops =>
       /\ drops' = drops + 1
       /\ Held = Cap
       /\ Held' = Cap
       /\ head' < Len(log')]_vars
=============================================================================
