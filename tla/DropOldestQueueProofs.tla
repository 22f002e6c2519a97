------------------------ MODULE DropOldestQueueProofs ------------------------
(***************************************************************************)
(* The atomic queue keeps its promises for every capacity and every number *)
(* of pushes; through BoundedQueueProofs!Implementation so does the code.  *)
(***************************************************************************)
EXTENDS DropOldestQueue, SequenceTheorems, TLAPS

(* The push of an item, step by step: what it costs.                       *)
LEMMA PushCost ==
  ASSUME QueueAssumption, TypeOK, WindowOK, NEW v \in Items, Push(v)
  PROVE  /\ Len(log') = Len(log) + 1
         /\ \/ Held = Cap /\ head' = head + 1 /\ drops' = drops + 1
            \/ Held < Cap /\ head' = head /\ drops' = drops
<1>1. Len(log) \in Nat
  BY LenProperties DEF TypeOK
<1>2. log' = Append(log, v)
  BY DEF Push
<1>3. Len(log') = Len(log) + 1
  BY <1>2 DEF TypeOK
<1> QED
  BY <1>1, <1>3 DEF QueueAssumption, Push, WindowOK, TypeOK, Held

LEMMA TypeStep == TypeOK /\ [Next]_vars => TypeOK'
<1> SUFFICES ASSUME TypeOK, [Next]_vars PROVE TypeOK'
  OBVIOUS
<1>1. ASSUME NEW v \in Items, Push(v) PROVE TypeOK'
  BY <1>1 DEF Push, TypeOK
<1>2. CASE Pop
  <2>1. log[head + 1] \in Items
    BY <1>2, ElementOfSeq, LenProperties DEF Pop, Held, TypeOK
  <2> QED
    BY <1>2, <2>1 DEF Pop, TypeOK
<1>3. CASE Shutdown
  BY <1>3 DEF Shutdown, TypeOK
<1>4. CASE UNCHANGED vars
  BY <1>4 DEF vars, TypeOK
<1> QED
  BY <1>1, <1>2, <1>3, <1>4 DEF Next

THEOREM QueueTypeCorrect == Spec => []TypeOK
<1>1. ASSUME Init PROVE TypeOK
  <2>1. log \in Seq(Items) /\ closed \in BOOLEAN
    BY <1>1, EmptySeq DEF Init
  <2> QED
    BY <1>1, <2>1 DEF Init, TypeOK
<1> QED
  BY <1>1, TypeStep, PTL DEF Spec

LEMMA WindowStep ==
  QueueAssumption /\ TypeOK /\ WindowOK /\ [Next]_vars => WindowOK'
<1> SUFFICES ASSUME QueueAssumption, TypeOK, WindowOK, [Next]_vars PROVE WindowOK'
  OBVIOUS
<1>t. Len(log) \in Nat
  BY LenProperties DEF TypeOK
<1>1. ASSUME NEW v \in Items, Push(v) PROVE WindowOK'
  <2>1. /\ Len(log') = Len(log) + 1
        /\ \/ Held = Cap /\ head' = head + 1 /\ drops' = drops + 1
           \/ Held < Cap /\ head' = head /\ drops' = drops
    BY <1>1, PushCost
  <2> QED
    BY <1>t, <2>1 DEF QueueAssumption, WindowOK, TypeOK, Held
<1>2. CASE Pop
  BY <1>2, <1>t DEF QueueAssumption, Pop, WindowOK, TypeOK, Held
<1>3. CASE Shutdown
  BY <1>3 DEF Shutdown, WindowOK, Held
<1>4. CASE UNCHANGED vars
  BY <1>4 DEF vars, WindowOK, Held
<1> QED
  BY <1>1, <1>2, <1>3, <1>4 DEF Next

(* The held items are a window of at most Cap items at the end of the log, *)
(* and drop_count() never exceeds the items that are gone.                 *)
THEOREM WindowCorrect == ASSUME QueueAssumption PROVE Spec => []WindowOK
<1>1. Init => WindowOK
  BY DEF QueueAssumption, Init, WindowOK, Held
<1>2. TypeOK /\ WindowOK /\ [Next]_vars => WindowOK'
  BY WindowStep
<1> QED
  BY <1>1, <1>2, QueueTypeCorrect, PTL DEF Spec

(* Only a push on a full queue discards, one item, never the new one.      *)
THEOREM DropsCorrect == ASSUME QueueAssumption PROVE Spec => DropsOnlyWhenFull
<1> DEFINE OK == drops' # drops =>
                   /\ drops' = drops + 1
                   /\ Held = Cap
                   /\ Held' = Cap
                   /\ head' < Len(log')
<1>1. TypeOK /\ WindowOK /\ [Next]_vars => [OK]_vars
  <2> SUFFICES ASSUME TypeOK, WindowOK, [Next]_vars, drops' # drops PROVE OK
    OBVIOUS
  <2>t. Len(log) \in Nat
    BY LenProperties DEF TypeOK
  <2>1. PICK v \in Items : Push(v)
    BY DEF Next, Pop, Shutdown, vars
  <2>2. /\ Len(log') = Len(log) + 1
        /\ Held = Cap /\ head' = head + 1 /\ drops' = drops + 1
    BY <2>1, PushCost
  <2> QED
    BY <2>t, <2>2 DEF QueueAssumption, TypeOK, WindowOK, Held
<1>2. Spec => []WindowOK
  BY WindowCorrect
<1> QED
  BY <1>1, <1>2, QueueTypeCorrect, PTL DEF Spec, DropsOnlyWhenFull
=============================================================================
