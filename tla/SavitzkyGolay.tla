----------------------------- MODULE SavitzkyGolay -----------------------------
(***************************************************************************)
(* SavitzkyGolayAcc: the second derivative at the centre of the last seven *)
(* samples, over a ring of seven (position, time stamp) pairs.             *)
(*                                                                         *)
(* Positions and time stamps are integers, as the encoder's counts and     *)
(* now_us() are; the doubles of the code are exact on them as far as the   *)
(* last division, which is modelled as a numerator and a denominator.      *)
(*                                                                         *)
(* The samples are external: a body moves along a parabola and is measured *)
(* with an error from Noise, the steady clock advancing by a gap from Gaps *)
(* between two samples that reach the filter.  A sample the encoder did    *)
(* not deliver, or the queue dropped, makes a gap longer.                  *)
(***************************************************************************)
EXTENDS Integers, Sequences

CONSTANTS
  Motions,   \* parabolas [a, b, c], position a*t^2 + b*t + c
  Noise,     \* measurement errors
  Gaps,      \* times between samples
  MaxFeeds   \* bound of the model: samples

ASSUME FilterAssumption ==
  /\ Motions \subseteq [a : Int, b : Int, c : Int]
  /\ Noise \subseteq Int
  /\ Gaps \subseteq Nat
  /\ MaxFeeds \in Nat

VARIABLES
  buf_pos, buf_ts, head, count,
  result,      \* what feed returned last
  motion, now, fed,   \* the body, the clock, samples so far (model bound)
  seen         \* history: the samples since the last reset

ring == <<buf_pos, buf_ts, head, count>>
vars == <<ring, result, motion, now, fed, seen>>

kWindow == 7
Slots == 0..(kWindow - 1)

(* Mutant: the coefficients of the first derivative.                       *)
cSlope == [i \in Slots |-> 2 * (i - 3)]

(* The coefficients, times 42.                                             *)
c == [i \in Slots |-> <<5, 0, -3, -4, -3, 0, 5>>[i + 1]]

Position(t) == motion.a * (t * t) + motion.b * t + motion.c

Init ==
  /\ buf_pos = [i \in Slots |-> 0] /\ buf_ts = [i \in Slots |-> 0]
  /\ head = 0 /\ count = 0
  /\ result = FALSE
  /\ motion \in Motions /\ now = 0 /\ fed = 0
  /\ seen = <<>>
-----------------------------------------------------------------------------
(* The new sample goes to head; count stops at the window's length.        *)
Feed ==
  /\ fed < MaxFeeds
  /\ fed' = fed + 1
  /\ \E g \in Gaps, e \in Noise :
       LET p == Position(now + g) + e IN
       /\ now' = now + g
       /\ buf_pos' = [buf_pos EXCEPT ![head] = p]
       /\ buf_ts' = [buf_ts EXCEPT ![head] = now + g]
       /\ seen' = Append(seen, [pos |-> p, ts |-> now + g, err |-> e])
  /\ head' = (head + 1) % kWindow
  /\ count' = IF count < kWindow THEN count + 1 ELSE count
  /\ result' = (count' = kWindow)
  /\ UNCHANGED motion

(* Mutant: forget where to write, but not that the window is full.         *)
ResetHead ==
  /\ head' = 0
  /\ seen' = <<>>
  /\ UNCHANGED <<buf_pos, buf_ts, count, result, motion, now, fed>>

Reset ==
  /\ head' = 0 /\ count' = 0
  /\ seen' = <<>>
  /\ UNCHANGED <<buf_pos, buf_ts, result, motion, now, fed>>

Next == Feed \/ Reset

Spec == Init /\ [][Next]_vars
-----------------------------------------------------------------------------
(* acceleration and centre_ts_us.                                          *)

(* The slot of the i-th sample of the window, the oldest first.            *)
Chron(i) == (head + i) % kWindow

Sum7(f) == f[0] + f[1] + f[2] + f[3] + f[4] + f[5] + f[6]

Sum == Sum7([i \in Slots |-> c[i] * buf_pos[Chron(i)]])

Span == buf_ts[Chron(kWindow - 1)] - buf_ts[head]

(* Mutant: the span divided into seven intervals.                          *)
AccelerationBySeven ==
  IF count < kWindow \/ Span <= 0
  THEN [num |-> 0, den |-> 1]
  ELSE [num |-> Sum * (kWindow * kWindow), den |-> 42 * (Span * Span)]

(* (sum / 42) / dt^2, with dt a sixth of the span of the time stamps.      *)
Acceleration ==
  IF count < kWindow \/ Span <= 0
  THEN [num |-> 0, den |-> 1]
  ELSE [num |-> Sum * ((kWindow - 1) * (kWindow - 1)), den |-> 42 * (Span * Span)]

CentreTs == IF count < kWindow THEN 0 ELSE buf_ts[Chron(kWindow \div 2)]
-----------------------------------------------------------------------------
(* Properties                                                              *)

Samples == [pos : Int, ts : Nat, err : Noise]

TypeOK ==
  /\ buf_pos \in [Slots -> Int] /\ buf_ts \in [Slots -> Nat]
  /\ head \in Slots /\ count \in 0..kWindow
  /\ result \in BOOLEAN
  /\ motion \in Motions /\ now \in Nat /\ fed \in 0..MaxFeeds
  /\ seen \in Seq(Samples)

(* The i-th of the last seven samples fed.                                 *)
Last(i) == seen[Len(seen) - kWindow + 1 + i]

(* Once the window is full, and not before seven samples have come since   *)
(* the last reset, the ring read from head is the last seven samples fed,  *)
(* in order: none from before a reset, none overwritten too soon.          *)
RingInOrder ==
  count = kWindow =>
    /\ Len(seen) >= kWindow
    /\ \A i \in Slots : /\ buf_pos[Chron(i)] = Last(i).pos
                        /\ buf_ts[Chron(i)] = Last(i).ts

(* The reference.  The parabola a + b*i + c*i^2 of least squares through   *)
(* seven points y[i], i from -3 to 3, has, by the normal equations,        *)
(* c = (7*S2 - 28*S0) / 588, where S0 = sum of y[i], S2 = sum of i^2*y[i]. *)
S0 == Sum7([i \in Slots |-> Last(i).pos])
S2 == Sum7([i \in Slots |-> ((i - 3) * (i - 3)) * Last(i).pos])

(* "Savitzky-Golay 2nd-order polynomial second-derivative estimator"       *)
(* (SavitzkyGolay.h:7): whatever was measured, sum / 42 is the second      *)
(* derivative of the least-squares parabola through the last seven         *)
(* positions fed.                                                          *)
LeastSquares ==
  count = kWindow => 588 * Sum = 42 * (2 * (7 * S2 - 28 * S0))

Exact == \A i \in Slots : Last(i).err = 0
Uniform ==
  /\ Last(1).ts > Last(0).ts
  /\ \A i \in 1..(kWindow - 1) : Last(i).ts - Last(i - 1).ts = Last(1).ts - Last(0).ts

(* On a parabola sampled without error at equal gaps, from the seventh     *)
(* sample after a reset on, the result is the body's acceleration and its  *)
(* time stamp that of the sample three back - "corresponds to the sample   *)
(* that is (window/2) frames in the past" (SavitzkyGolay.h:17-18).         *)
ExactWhenUniform ==
  Len(seen) >= kWindow /\ Exact /\ Uniform =>
    /\ result
    /\ Acceleration.num = 2 * motion.a * Acceleration.den
    /\ CentreTs = seen[Len(seen) - 3].ts
=============================================================================
