-------------------------- MODULE OscillationDetector --------------------------
(***************************************************************************)
(* OscillationDetector::feed of main_enc.cpp: over a ring of the last      *)
(* window_size_ positions, is the shaft swinging - at least two reversals  *)
(* within a range of at most threshold_deg_?                               *)
(*                                                                         *)
(* Every turn of the loop is a step.  Positions are in units of which      *)
(* DeadBand makes the 0.001 degrees below which a difference is no         *)
(* movement.                                                               *)
(***************************************************************************)
EXTENDS Integers, Sequences, FiniteSets

CONSTANTS
  WindowSize,   \* window_size_, from 1 to the 64 places of buf_
  Threshold,    \* threshold_deg_
  DeadBand,     \* 0.001 degrees
  Positions,    \* the positions fed
  MaxPositions  \* bound of the model: positions fed

ASSUME DetectorAssumption ==
  /\ WindowSize \in 1..64
  /\ {Threshold, DeadBand, MaxPositions} \subseteq Nat
  /\ Positions \subseteq Int

VARIABLES
  buf_, head_, count_,
  visited,                        \* 0 outside of feed; i of its loop
  min, max, reversals, prev_sign, \* its locals
  bouncing,                       \* what feed returned last
  positions                       \* history: every position fed

walk == <<visited, min, max, reversals, prev_sign>>
detectorVars == <<buf_, head_, count_, walk, bouncing, positions>>

DetectorInit ==
  /\ buf_ = [k \in 0..(WindowSize - 1) |-> 0]
  /\ head_ = 0 /\ count_ = 0
  /\ visited = 0 /\ min = 0 /\ max = 0 /\ reversals = 0 /\ prev_sign = 0
  /\ bouncing = FALSE
  /\ positions = <<>>
-----------------------------------------------------------------------------
(* A call of feed.  The sample that fills the window is not judged yet.    *)
DetectorFeed(x) ==
  /\ visited = 0 /\ Len(positions) < MaxPositions
  /\ buf_' = [buf_ EXCEPT ![head_] = x]
  /\ head_' = (head_ + 1) % WindowSize
  /\ positions' = Append(positions, x)
  /\ \/ /\ count_ < WindowSize
        /\ count_' = count_ + 1 /\ bouncing' = FALSE
        /\ UNCHANGED walk
     \/ /\ count_ >= WindowSize
        /\ visited' = 1
        /\ min' = buf_'[head_'] /\ max' = buf_'[head_']
        /\ reversals' = 0 /\ prev_sign' = 0
        /\ UNCHANGED <<count_, bouncing>>

Sign(d) == IF d > DeadBand THEN 1 ELSE IF d < -DeadBand THEN -1 ELSE 0

(* The places of the ring from the oldest on: extremes, reversals, and the *)
(* direction of the last movement.                                         *)
Slot(k) == (head_ + k) % WindowSize

(* Mutant: standing still forgets the direction.                           *)
VisitForgetful ==
  LET x == buf_[Slot(visited)]
      sign == Sign(x - buf_[Slot(visited - 1)]) IN
  /\ visited \in 1..(WindowSize - 1)
  /\ visited' = visited + 1
  /\ min' = IF x < min THEN x ELSE min
  /\ max' = IF x > max THEN x ELSE max
  /\ reversals' = reversals + IF sign # 0 /\ sign # prev_sign /\ prev_sign # 0 THEN 1 ELSE 0
  /\ prev_sign' = sign
  /\ UNCHANGED <<buf_, head_, count_, bouncing, positions>>

Visit ==
  LET x == buf_[Slot(visited)]
      sign == Sign(x - buf_[Slot(visited - 1)]) IN
  /\ visited \in 1..(WindowSize - 1)
  /\ visited' = visited + 1
  /\ min' = IF x < min THEN x ELSE min
  /\ max' = IF x > max THEN x ELSE max
  /\ reversals' = reversals + IF sign # 0 /\ sign # prev_sign /\ prev_sign # 0 THEN 1 ELSE 0
  /\ prev_sign' = IF sign # 0 THEN sign ELSE prev_sign
  /\ UNCHANGED <<buf_, head_, count_, bouncing, positions>>

Conclude ==
  /\ visited = WindowSize
  /\ visited' = 0
  /\ bouncing' = (max - min <= Threshold /\ reversals >= 2)
  /\ UNCHANGED <<buf_, head_, count_, min, max, reversals, prev_sign, positions>>

DetectorNext == (\E x \in Positions : DetectorFeed(x)) \/ Visit \/ Conclude

DetectorSpec == DetectorInit /\ [][DetectorNext]_detectorVars
-----------------------------------------------------------------------------
(* Properties                                                              *)

(* The reference: the last positions fed, the movements from each to the   *)
(* next, and the pairs of movements in opposite directions that have       *)
(* nothing between them but pauses.                                        *)
Window(i) == positions[Len(positions) - WindowSize + i]

Move(i) == Sign(Window(i + 1) - Window(i))

Turns ==
  {p \in (1..(WindowSize - 1)) \X (1..(WindowSize - 1)) :
     /\ p[1] < p[2] /\ Move(p[1]) # 0 /\ Move(p[2]) = -Move(p[1])
     /\ \A k \in 1..(WindowSize - 1) : p[1] < k /\ k < p[2] => Move(k) = 0}

(* "checks if position is bouncing within a bounded range"                 *)
(* (main_enc.cpp:53): from the sample after the window has filled on, feed *)
(* returns true exactly if all the last positions lie within the threshold *)
(* of each other and the movement among them changed direction twice,      *)
(* pauses between the turns notwithstanding.                               *)
BouncingIsReported ==
  visited = 0 =>
    (bouncing <=>
       /\ Len(positions) > WindowSize
       /\ \A i, j \in 1..WindowSize : Window(i) - Window(j) <= Threshold
       /\ Cardinality(Turns) >= 2)
=============================================================================
