--------------------------- MODULE SequentialProofs ---------------------------
(***************************************************************************)
(* The parts that are not concurrent, each by itself.                      *)
(*                                                                         *)
(* That the ring of SavitzkyGolayAcc holds the last seven samples, and     *)
(* that what it computes from them is the second derivative of the least-  *)
(* squares parabola, for every motion, noise, timing and length of run.    *)
(*                                                                         *)
(* What the two device stacks hold and what Encoder::read returns, for     *)
(* every width of the position and every sequence of calls.                *)
(*                                                                         *)
(* That the tables of crc16 are the Modbus polynomial and check_crc lets   *)
(* no damage within 16 bits of what the CRC covers pass, for every length. *)
(*                                                                         *)
(* That analyze_edges.py pairs the edges of one object, for any number of  *)
(* objects and any rows missing as long as each passage, and the clear     *)
(* beam between two, left a row.                                           *)
(***************************************************************************)
EXTENDS SavitzkyGolay, Crc16, Devices, EdgePairs, SequenceTheorems, FiniteSetTheorems, TLAPS

(* The slot written k samples ago.                                         *)
Back(k) == (head + kWindow - k) % kWindow

(* RingInOrder is about a full window only; on the way there the samples   *)
(* since the reset lie behind head one by one.                             *)
RingInv ==
  /\ count <= Len(seen)
  /\ count < kWindow => count = Len(seen)
  /\ \A k \in 1..count : /\ buf_pos[Back(k)] = seen[Len(seen) - k + 1].pos
                         /\ buf_ts[Back(k)] = seen[Len(seen) - k + 1].ts

(* Every variable keeps its type: head and count never leave the ring.     *)
THEOREM FilterTypeCorrect == Spec => []TypeOK
<1>1. Init => TypeOK
  <2> SUFFICES ASSUME Init PROVE TypeOK
    OBVIOUS
  <2>1. seen \in Seq(Samples) /\ fed \in 0..MaxFeeds
    BY FilterAssumption DEF Init
  <2> QED  BY <2>1 DEF Init, TypeOK, Slots, kWindow
<1>2. TypeOK /\ [Next]_vars => TypeOK'
  <2> SUFFICES ASSUME TypeOK, [Next]_vars PROVE TypeOK'
    OBVIOUS
  <2>1. CASE Feed
    <3>1. PICK g \in Gaps, e \in Noise :
            /\ now' = now + g
            /\ buf_pos' = [buf_pos EXCEPT ![head] = Position(now + g) + e]
            /\ buf_ts' = [buf_ts EXCEPT ![head] = now + g]
            /\ seen' = Append(seen, [pos |-> Position(now + g) + e,
                                     ts |-> now + g, err |-> e])
      BY <2>1 DEF Feed
    <3>2. g \in Nat /\ e \in Int /\ now + g \in Nat
      BY FilterAssumption DEF TypeOK
    <3>3. Position(now + g) + e \in Int
      <4>1. motion.a \in Int /\ motion.b \in Int /\ motion.c \in Int
        BY FilterAssumption DEF TypeOK
      <4>2. ASSUME NEW t \in Nat PROVE t * t \in Int /\ motion.b * t \in Int
        BY <4>1, <4>2
      <4>3. ASSUME NEW t \in Nat PROVE motion.a * (t * t) \in Int
        BY <4>1, <4>2, <4>3
      <4> QED  BY <3>2, <4>1, <4>2, <4>3 DEF Position
    <3>4. head' \in Slots /\ count' \in 0..kWindow /\ result' \in BOOLEAN
      <4>1. head \in 0..6 /\ count \in 0..7
        BY DEF TypeOK, Slots, kWindow
      <4>2. head' = (head + 1) % 7 /\ count' = IF count < 7 THEN count + 1 ELSE count
        BY <2>1 DEF Feed, kWindow
      <4>3. result' \in BOOLEAN
        BY <2>1 DEF Feed
      <4> QED  BY <4>1, <4>2, <4>3 DEF Slots, kWindow
    <3>5. seen' \in Seq(Samples)
      <4>1. [pos |-> Position(now + g) + e, ts |-> now + g, err |-> e] \in Samples
        BY <3>2, <3>3 DEF Samples
      <4> QED  BY <3>1, <4>1 DEF TypeOK
    <3>6. buf_pos' \in [Slots -> Int] /\ buf_ts' \in [Slots -> Nat]
      BY <3>1, <3>2, <3>3 DEF TypeOK
    <3>7. now' \in Nat /\ fed' \in 0..MaxFeeds /\ motion' \in Motions
      BY <2>1, <3>1, <3>2, FilterAssumption DEF Feed, TypeOK
    <3> QED
      BY <3>4, <3>5, <3>6, <3>7 DEF TypeOK
  <2>2. CASE Reset
    BY <2>2 DEF Reset, TypeOK, Slots, kWindow
  <2>3. CASE UNCHANGED vars
    BY <2>3 DEF vars, ring, TypeOK
  <2> QED  BY <2>1, <2>2, <2>3 DEF Next
<1> QED  BY <1>1, <1>2, PTL DEF Spec

LEMMA RingStep == TypeOK /\ RingInv /\ [Next]_vars => RingInv'
<1> SUFFICES ASSUME TypeOK, RingInv, [Next]_vars PROVE RingInv'
  OBVIOUS
<1>1. CASE Feed
  <2>1. PICK p, t, e : /\ buf_pos' = [buf_pos EXCEPT ![head] = p]
                       /\ buf_ts' = [buf_ts EXCEPT ![head] = t]
                       /\ seen' = Append(seen, [pos |-> p, ts |-> t, err |-> e])
    BY <1>1 DEF Feed
  <2> DEFINE x == [pos |-> p, ts |-> t, err |-> e]
  <2>2. /\ head \in 0..6 /\ head' = (head + 1) % 7
        /\ count \in 0..7 /\ count' = IF count < 7 THEN count + 1 ELSE count
        /\ seen \in Seq(Samples) /\ Len(seen) \in Nat
    BY <1>1 DEF Feed, TypeOK, Slots, kWindow
  <2>3. /\ Len(seen') = Len(seen) + 1
        /\ seen'[Len(seen) + 1] = x
        /\ \A n \in 1..Len(seen) : seen'[n] = seen[n]
    BY <2>1, <2>2
  <2>4. ASSUME NEW k \in 1..count'
        PROVE /\ buf_pos'[Back(k)'] = seen'[Len(seen') - k + 1].pos
              /\ buf_ts'[Back(k)'] = seen'[Len(seen') - k + 1].ts
    <3>1. CASE k = 1
      <4>1. Back(k)' = head
        BY <2>2, <3>1 DEF Back, kWindow
      <4>2. buf_pos'[head] = p /\ buf_ts'[head] = t
        BY <2>1, <2>2 DEF TypeOK, Slots, kWindow
      <4>3. seen'[Len(seen') - k + 1] = x
        BY <2>2, <2>3, <3>1
      <4> QED  BY <4>1, <4>2, <4>3
    <3>2. CASE k # 1
      <4>1. k - 1 \in 1..count /\ k \in 2..7
        BY <2>2, <3>2
      <4>2. Back(k)' = Back(k - 1) /\ Back(k)' # head /\ Back(k)' \in 0..6
        BY <2>2, <4>1 DEF Back, kWindow
      <4>3. /\ buf_pos'[Back(k)'] = buf_pos[Back(k - 1)]
            /\ buf_ts'[Back(k)'] = buf_ts[Back(k - 1)]
        BY <2>1, <4>2 DEF TypeOK, Slots, kWindow
      <4>4. /\ Len(seen') - k + 1 = Len(seen) - (k - 1) + 1
            /\ Len(seen) - (k - 1) + 1 \in 1..Len(seen)
        BY <2>2, <2>3, <4>1 DEF RingInv
      <4> QED  BY <2>3, <4>1, <4>3, <4>4 DEF RingInv
    <3> QED  BY <3>1, <3>2
  <2>5. count' <= Len(seen') /\ (count' < 7 => count' = Len(seen'))
    BY <2>2, <2>3 DEF RingInv, kWindow
  <2> QED  BY <2>4, <2>5 DEF RingInv, kWindow
<1>2. CASE Reset
  BY <1>2 DEF Reset, RingInv, kWindow
<1>3. CASE UNCHANGED vars
  BY <1>3 DEF vars, ring, RingInv, Back
<1> QED  BY <1>1, <1>2, <1>3 DEF Next

LEMMA RingInvGivesOrder == TypeOK /\ RingInv => RingInOrder
<1> SUFFICES ASSUME TypeOK, RingInv, count = 7
             PROVE  /\ Len(seen) >= 7
                    /\ \A i \in Slots : /\ buf_pos[Chron(i)] = Last(i).pos
                                        /\ buf_ts[Chron(i)] = Last(i).ts
  BY DEF RingInOrder, kWindow
<1>1. Len(seen) >= 7 /\ Len(seen) \in Nat
  BY DEF RingInv, TypeOK
<1>2. ASSUME NEW i \in Slots
      PROVE  buf_pos[Chron(i)] = Last(i).pos /\ buf_ts[Chron(i)] = Last(i).ts
  <2>1. 7 - i \in 1..count /\ head \in 0..6 /\ i \in 0..6
    BY DEF Slots, kWindow, TypeOK
  <2>2. Chron(i) = Back(7 - i)
    BY <2>1 DEF Chron, Back, kWindow
  <2>3. Len(seen) - (7 - i) + 1 = Len(seen) - 7 + 1 + i
    BY <1>1, <2>1
  <2> QED  BY <2>1, <2>2, <2>3 DEF RingInv, Last, kWindow
<1> QED  BY <1>1, <1>2

(* Whatever is fed and whenever it is reset, a full ring read from head is *)
(* the last seven samples, in order.                                       *)
THEOREM RingCorrect == Spec => []RingInOrder
<1>1. Init => RingInv
  BY DEF Init, RingInv, kWindow
<1> QED  BY <1>1, RingStep, RingInvGivesOrder, FilterTypeCorrect, PTL DEF Spec

(* The coefficients are those of least squares: for any seven positions    *)
(* the weighted sum is 42 times the second derivative of the parabola.     *)
THEOREM LeastSquaresCorrect == Spec => []LeastSquares
<1>1. TypeOK /\ RingInOrder => LeastSquares
  <2> SUFFICES ASSUME TypeOK, RingInOrder, count = 7
               PROVE  588 * Sum = 42 * (2 * (7 * S2 - 28 * S0))
    BY DEF LeastSquares, kWindow
  <2> DEFINE y(i) == buf_pos[Chron(i)]
  <2>1. ASSUME NEW i \in 0..6 PROVE y(i) \in Int
    <3>1. head \in 0..6 /\ buf_pos \in [0..6 -> Int]
      BY DEF TypeOK, Slots, kWindow
    <3>2. Chron(i) \in 0..6
      BY <3>1 DEF Chron, kWindow
    <3> QED  BY <3>1, <3>2
  <2>2. /\ y(0) = Last(0).pos /\ y(1) = Last(1).pos /\ y(2) = Last(2).pos
        /\ y(3) = Last(3).pos /\ y(4) = Last(4).pos /\ y(5) = Last(5).pos
        /\ y(6) = Last(6).pos
    BY DEF RingInOrder, Slots, kWindow
  <2>3. Sum = 5 * y(0) + 0 * y(1) + (-3) * y(2) + (-4) * y(3) + (-3) * y(4)
              + 0 * y(5) + 5 * y(6)
    BY DEF Sum, Sum7, c, Slots, kWindow
  <2>4. S0 = y(0) + y(1) + y(2) + y(3) + y(4) + y(5) + y(6)
    BY <2>2 DEF S0, Sum7, Slots, kWindow
  <2>5. S2 = 9 * y(0) + 4 * y(1) + 1 * y(2) + 0 * y(3) + 1 * y(4) + 4 * y(5) + 9 * y(6)
    BY <2>2 DEF S2, Sum7, Slots, kWindow
  <2> HIDE DEF y
  <2> QED  BY <2>1, <2>3, <2>4, <2>5
<1> QED  BY <1>1, RingCorrect, FilterTypeCorrect, PTL
-----------------------------------------------------------------------------
(* The samples are measurements of the motion, and feed's last answer says *)
(* whether the window is full.                                             *)
MeasuredInv ==
  /\ \A n \in 1..Len(seen) : seen[n].pos = Position(seen[n].ts) + seen[n].err
  /\ seen # <<>> => result = (count = kWindow)

LEMMA MeasuredStep == TypeOK /\ MeasuredInv /\ [Next]_vars => MeasuredInv'
<1> SUFFICES ASSUME TypeOK, MeasuredInv, [Next]_vars PROVE MeasuredInv'
  OBVIOUS
<1>1. CASE Feed
  <2>1. PICK p, t, e : /\ p = Position(t) + e
                       /\ seen' = Append(seen, [pos |-> p, ts |-> t, err |-> e])
    BY <1>1 DEF Feed
  <2> DEFINE x == [pos |-> p, ts |-> t, err |-> e]
  <2>2. x.pos = Position(x.ts) + x.err /\ seen' = Append(seen, x)
    BY <2>1
  <2> HIDE DEF x
  <2>3. /\ Len(seen) \in Nat /\ Len(seen') = Len(seen) + 1
        /\ seen'[Len(seen) + 1] = x
        /\ \A n \in 1..Len(seen) : seen'[n] = seen[n]
    BY <2>2 DEF TypeOK
  <2>4. motion' = motion /\ result' = (count' = kWindow)
    BY <1>1 DEF Feed
  <2> QED
    BY <2>2, <2>3, <2>4 DEF MeasuredInv, Position
<1>2. CASE Reset
  BY <1>2 DEF Reset, MeasuredInv
<1>3. CASE UNCHANGED vars
  BY <1>3 DEF vars, ring, MeasuredInv, Position
<1> QED
  BY <1>1, <1>2, <1>3 DEF Next

(* The weights against a parabola at seven equal steps d about u.          *)
Parabola(m, t) == m.a * (t * t) + m.b * t + m.c

LEMMA WeightsOfParabola ==
  ASSUME NEW m, m.a \in Int, m.b \in Int, m.c \in Int, NEW u \in Int, NEW d \in Int
  PROVE  5 * Parabola(m, u - 3 * d) + (-3) * Parabola(m, u - d) + (-4) * Parabola(m, u)
         + (-3) * Parabola(m, u + d) + 5 * Parabola(m, u + 3 * d)
         = 84 * (m.a * (d * d))
BY DEF Parabola

LEMMA ParabolaType ==
  ASSUME NEW m, m.a \in Int, m.b \in Int, m.c \in Int, NEW t \in Nat
  PROVE  Parabola(m, t) \in Int
<1>1. t * t \in Int /\ m.b * t \in Int
  OBVIOUS
<1>2. m.a * (t * t) \in Int
  BY <1>1
<1> QED
  BY <1>1, <1>2 DEF Parabola

LEMMA EqualSteps ==
  ASSUME NEW T \in [0..6 -> Nat], T[1] > T[0],
         \A i \in 1..6 : T[i] - T[i - 1] = T[1] - T[0],
         NEW d, d = T[1] - T[0]
  PROVE  /\ d \in Nat \ {0} /\ T[6] - T[0] = 6 * d
         /\ T[0] = T[3] - 3 * d /\ T[2] = T[3] - d
         /\ T[4] = T[3] + d /\ T[6] = T[3] + 3 * d
<1>1. /\ T[0] \in Nat /\ T[1] \in Nat /\ T[2] \in Nat /\ T[3] \in Nat
      /\ T[4] \in Nat /\ T[5] \in Nat /\ T[6] \in Nat
  OBVIOUS
<1>2. /\ T[1] - T[0] = d /\ T[2] - T[1] = d /\ T[3] - T[2] = d
      /\ T[4] - T[3] = d /\ T[5] - T[4] = d /\ T[6] - T[5] = d
  <2>1. T[2] - T[2 - 1] = d /\ T[3] - T[3 - 1] = d /\ T[4] - T[4 - 1] = d
        /\ T[5] - T[5 - 1] = d /\ T[6] - T[6 - 1] = d
    OBVIOUS
  <2> QED
    BY <2>1
<1>3. d \in Nat \ {0}
  BY <1>1
<1> QED
  BY <1>1, <1>2, <1>3

(* Positions on a parabola at seven equal steps, and the filter on them.   *)
Sampled(m, T, Y) ==
  /\ m.a \in Int /\ m.b \in Int /\ m.c \in Int
  /\ T \in [0..6 -> Nat] /\ Y \in [0..6 -> Int]
  /\ T[1] > T[0] /\ \A i \in 1..6 : T[i] - T[i - 1] = T[1] - T[0]
  /\ \A i \in 0..6 : Y[i] = Parabola(m, T[i])

Weighted(Y) == 5 * Y[0] + 0 * Y[1] + (-3) * Y[2] + (-4) * Y[3] + (-3) * Y[4] + 0 * Y[5]
               + 5 * Y[6]

LEMMA SevenSteps ==
  ASSUME NEW m, NEW T, NEW Y, Sampled(m, T, Y), NEW d, d = T[1] - T[0]
  PROVE  Weighted(Y) = 84 * (m.a * (d * d))
<1> USE DEF Sampled
<1> DEFINE u == T[3]
<1>1. u \in Int /\ d \in Int
  BY EqualSteps
<1>2. T[0] = u - 3 * d /\ T[2] = u - d /\ T[4] = u + d /\ T[6] = u + 3 * d
  BY EqualSteps
<1>3. /\ Y[0] = Parabola(m, u - 3 * d) /\ Y[2] = Parabola(m, u - d)
      /\ Y[3] = Parabola(m, u) /\ Y[4] = Parabola(m, u + d)
      /\ Y[6] = Parabola(m, u + 3 * d)
  <2>1. /\ Y[0] = Parabola(m, T[0]) /\ Y[2] = Parabola(m, T[2]) /\ Y[3] = Parabola(m, T[3])
        /\ Y[4] = Parabola(m, T[4]) /\ Y[6] = Parabola(m, T[6])
    OBVIOUS
  <2> QED
    BY <1>2, <2>1
<1> HIDE DEF u
<1>4. 5 * Parabola(m, u - 3 * d) + (-3) * Parabola(m, u - d) + (-4) * Parabola(m, u)
      + (-3) * Parabola(m, u + d) + 5 * Parabola(m, u + 3 * d) = 84 * (m.a * (d * d))
  BY <1>1, WeightsOfParabola, ZenonT(60)
<1>5. 5 * Y[0] + (-3) * Y[2] + (-4) * Y[3] + (-3) * Y[4] + 5 * Y[6] = 84 * (m.a * (d * d))
  BY <1>3, <1>4
<1>6. /\ Y[0] \in Int /\ Y[1] \in Int /\ Y[2] \in Int /\ Y[3] \in Int
      /\ Y[4] \in Int /\ Y[5] \in Int /\ Y[6] \in Int
  OBVIOUS
<1>7. 5 * Y[0] + 0 * Y[1] + (-3) * Y[2] + (-4) * Y[3] + (-3) * Y[4] + 0 * Y[5] + 5 * Y[6]
      = 5 * Y[0] + (-3) * Y[2] + (-4) * Y[3] + (-3) * Y[4] + 5 * Y[6]
  BY <1>6
<1> QED
  BY <1>5, <1>7 DEF Weighted

(* The acceleration of a body that has a constant one, whenever the filter *)
(* was reset, and the time it is for (SavitzkyGolay.h:17-18 and 46-72).    *)
THEOREM ExactCorrect == Spec => []ExactWhenUniform
<1>1. Init => RingInv /\ MeasuredInv
  BY DEF Init, RingInv, MeasuredInv, kWindow
<1>2. TypeOK /\ RingInv /\ MeasuredInv => ExactWhenUniform
  <2> SUFFICES ASSUME TypeOK, RingInv, MeasuredInv, Len(seen) >= 7, Exact, Uniform
               PROVE  /\ result
                      /\ Acceleration.num = 2 * motion.a * Acceleration.den
                      /\ CentreTs = seen[Len(seen) - 3].ts
    BY DEF ExactWhenUniform, kWindow
  <2>1. count = 7 /\ seen # <<>> /\ Len(seen) \in Nat
    BY DEF RingInv, TypeOK, kWindow
  <2>2. result
    BY <2>1 DEF MeasuredInv, kWindow
  <2>3. \A i \in 0..6 : buf_pos[Chron(i)] = Last(i).pos /\ buf_ts[Chron(i)] = Last(i).ts
    BY <2>1, RingInvGivesOrder DEF RingInOrder, Slots, kWindow
  <2>4. motion.a \in Int /\ motion.b \in Int /\ motion.c \in Int
    BY FilterAssumption DEF TypeOK
  <2>5. ASSUME NEW i \in 0..6
        PROVE  /\ Last(i).ts \in Nat /\ Last(i).pos \in Int
               /\ Last(i).pos = Position(Last(i).ts)
    <3>1. Last(i) \in Samples
      BY <2>1 DEF Last, TypeOK, kWindow
    <3>2. Last(i).pos = Position(Last(i).ts) + Last(i).err
      BY <2>1 DEF Last, MeasuredInv, kWindow
    <3>3. Last(i).err = 0 /\ Last(i).ts \in Nat /\ Last(i).pos \in Int
      BY <3>1 DEF Exact, Slots, kWindow, Samples
    <3>4. Position(Last(i).ts) \in Int
      BY <2>4, <3>3, ParabolaType DEF Position, Parabola
    <3> QED
      BY <3>2, <3>3, <3>4
  <2> DEFINE T == [i \in 0..6 |-> Last(i).ts]
             Y == [i \in 0..6 |-> Last(i).pos]
             d == T[1] - T[0]
  <2>6. T \in [0..6 -> Nat] /\ Y \in [0..6 -> Int]
    BY <2>5
  <2>7. T[1] > T[0] /\ \A i \in 1..6 : T[i] - T[i - 1] = T[1] - T[0]
    BY DEF Uniform, kWindow
  <2>8. \A i \in 0..6 : Y[i] = Parabola(motion, T[i])
    BY <2>5 DEF Position, Parabola
  <2>9. Sum = Weighted(Y)
    BY <2>3 DEF Sum, Sum7, Weighted, c, Slots, kWindow
  <2>10. Span = T[6] - T[0]
    <3>1. head \in 0..6
      BY DEF TypeOK, Slots, kWindow
    <3>2. head = Chron(0)
      BY <3>1 DEF Chron, kWindow
    <3> QED
      BY <2>3, <3>2 DEF Span, kWindow
  <2>11. d = T[1] - T[0]
    OBVIOUS
  <2> HIDE DEF T, Y, d
  <2>12. d \in Nat \ {0} /\ Span = 6 * d /\ Sum = 84 * (motion.a * (d * d))
    <3>1. d \in Nat \ {0} /\ T[6] - T[0] = 6 * d
      BY <2>6, <2>7, <2>11, EqualSteps
    <3>2. Sampled(motion, T, Y)
      BY <2>4, <2>6, <2>7, <2>8 DEF Sampled
    <3>3. Weighted(Y) = 84 * (motion.a * (d * d))
      BY <2>11, <3>2, SevenSteps
    <3> QED
      BY <2>9, <2>10, <3>1, <3>3
  <2>13. Acceleration = [num |-> (84 * (motion.a * (d * d))) * (6 * 6),
                         den |-> 42 * ((6 * d) * (6 * d))]
    BY <2>1, <2>12 DEF Acceleration, kWindow
  <2>14. (84 * (motion.a * (d * d))) * (6 * 6) = 2 * motion.a * (42 * ((6 * d) * (6 * d)))
    BY <2>4, <2>12
  <2>15. CentreTs = seen[Len(seen) - 3].ts
    <3>1. kWindow \div 2 = 3 /\ Len(seen) - 7 + 1 + 3 = Len(seen) - 3
      BY <2>1 DEF kWindow
    <3> QED
      BY <2>1, <2>3, <3>1 DEF CentreTs, Last, kWindow
  <2> QED
    BY <2>2, <2>13, <2>14, <2>15
<1> QED
  BY <1>1, <1>2, RingStep, MeasuredStep, FilterTypeCorrect, PTL DEF Spec
-----------------------------------------------------------------------------
(* The device stacks.                                                      *)

(* Where open() stands and what the stack holds by then.  Released says it *)
(* of the places where no open is under way; it is not inductive without   *)
(* the others.                                                             *)
EncHeld ==
  \/ /\ pcE = "idle" /\ enc_open = TRUE
     /\ modbus = "connected" /\ handles["encoder"] = 1
  \/ /\ pcE = "idle" /\ enc_open = FALSE
     /\ modbus = "null" /\ handles["encoder"] = 0
  \/ /\ pcE = "connect" /\ enc_open = FALSE
     /\ modbus = "context" /\ handles["encoder"] = 0
  \/ /\ pcE = "init" /\ enc_open = FALSE
     /\ modbus = "connected" /\ handles["encoder"] = 1

AdcHeld ==
  \/ pcA = "idle" /\ adc_open = TRUE /\ port = "fd" /\ handles["sensor"] = 1
  \/ pcA = "idle" /\ adc_open = FALSE /\ port = "null" /\ handles["sensor"] = 0
  \/ pcA = "attributes" /\ adc_open = FALSE /\ port = "fd" /\ handles["sensor"] = 1

Held ==
  /\ DOMAIN handles = Stacks
  /\ handles = [d \in Stacks |-> handles[d]]
  /\ EncHeld
  /\ AdcHeld

LEMMA HeldInit == DevInit => Held
BY DEF DevInit, Held, EncHeld, AdcHeld, Stacks

(* Holding and releasing change the count of one stack only.               *)
LEMMA HandlesStep ==
  ASSUME handles = [d \in Stacks |-> handles[d]]
  PROVE  /\ Hold("encoder") => /\ handles' = [d \in Stacks |-> handles'[d]]
                               /\ handles'["encoder"] = handles["encoder"] + 1
                               /\ handles'["sensor"] = handles["sensor"]
         /\ Hold("sensor") => /\ handles' = [d \in Stacks |-> handles'[d]]
                              /\ handles'["sensor"] = handles["sensor"] + 1
                              /\ handles'["encoder"] = handles["encoder"]
         /\ Release("encoder") => /\ handles' = [d \in Stacks |-> handles'[d]]
                                  /\ handles'["encoder"] = handles["encoder"] - 1
                                  /\ handles'["sensor"] = handles["sensor"]
         /\ Release("sensor") => /\ handles' = [d \in Stacks |-> handles'[d]]
                                 /\ handles'["sensor"] = handles["sensor"] - 1
                                 /\ handles'["encoder"] = handles["encoder"]
BY DEF Hold, Release, Stacks

LEMMA HeldStep == Held /\ [DevNext]_devVars => Held'
<1> SUFFICES ASSUME Held, [DevNext]_devVars PROVE Held'
  OBVIOUS
<1>h. handles = [d \in Stacks |-> handles[d]]
  BY DEF Held
<1>k. ASSUME UNCHANGED <<enc_open, modbus, pcE, sensor, handles>> PROVE Held'
  BY <1>k DEF Held, EncHeld, AdcHeld, sensor
<1>1. CASE Turn \/ Reconfigure \/ EncRead \/ UNCHANGED devVars
  BY <1>1, <1>k DEF Turn, Reconfigure, EncRead, devVars, encoder
<1>2. CASE EncOpen
  BY <1>2 DEF EncOpen, Held, EncHeld, AdcHeld, sensor
<1>3. CASE EncConnect
  <2>1. CASE Hold("encoder") /\ modbus' = "connected" /\ pcE' = "init"
    BY <1>3, <1>h, <2>1, HandlesStep DEF EncConnect, Held, EncHeld, AdcHeld, sensor
  <2>2. CASE ModbusReset /\ pcE' = "idle"
    BY <1>3, <2>2 DEF EncConnect, ModbusReset, Held, EncHeld, AdcHeld, sensor
  <2> QED
    BY <1>3, <2>1, <2>2 DEF EncConnect
<1>4. CASE EncInit
  <2>1. CASE enc_open' = TRUE /\ UNCHANGED <<modbus, handles>>
    BY <1>4, <2>1 DEF EncInit, Held, EncHeld, AdcHeld, sensor
  <2>2. CASE ModbusReset /\ UNCHANGED enc_open
    BY <1>4, <1>h, <2>2, HandlesStep
    DEF EncInit, ModbusReset, Held, EncHeld, AdcHeld, sensor
  <2> QED
    BY <1>4, <2>1, <2>2 DEF EncInit
<1>5. CASE EncClose
  BY <1>5, <1>h, HandlesStep DEF EncClose, ModbusReset, Held, EncHeld, AdcHeld, sensor
<1>6. CASE AdcOpen
  <2>1. CASE UNCHANGED <<pcA, port, handles>>
    BY <1>6, <2>1 DEF AdcOpen, Held, EncHeld, AdcHeld, encoder
  <2>2. CASE ~adc_open /\ port' = "fd" /\ Hold("sensor") /\ pcA' = "attributes"
    BY <1>6, <1>h, <2>2, HandlesStep DEF AdcOpen, Held, EncHeld, AdcHeld, encoder
  <2> QED
    BY <1>6, <2>1, <2>2 DEF AdcOpen
<1>7. CASE AdcAttributes
  <2>1. CASE adc_open' = TRUE /\ UNCHANGED <<port, handles>>
    BY <1>7, <2>1 DEF AdcAttributes, Held, EncHeld, AdcHeld, encoder
  <2>2. CASE port' = "null" /\ Release("sensor") /\ UNCHANGED adc_open
    BY <1>7, <1>h, <2>2, HandlesStep DEF AdcAttributes, Held, EncHeld, AdcHeld, encoder
  <2> QED
    BY <1>7, <2>1, <2>2 DEF AdcAttributes
<1>8. CASE AdcClose
  BY <1>8, <1>h, HandlesStep DEF AdcClose, Held, EncHeld, AdcHeld, encoder
<1> QED
  BY <1>1, <1>2, <1>3, <1>4, <1>5, <1>6, <1>7, <1>8 DEF DevNext

(* A closed stack holds nothing of the system, an open one exactly its one *)
(* connection, whatever failed before.                                     *)
THEOREM ReleasedCorrect == DevSpec => []Released
<1>1. Held => Released
  BY DEF Held, EncHeld, AdcHeld, Released
<1> QED
  BY <1>1, HeldInit, HeldStep, PTL DEF DevSpec

(* Both ways of filing the position give the same signed number.           *)
LEMMA DecodeIsSigned == ASSUME NEW raw PROVE Decode(raw) = Signed(raw)
BY DEF Decode

(* Encoder::read returns the raw position as a signed number, whatever the *)
(* configuration the driver has seen and however old it is.                *)
THEOREM ValueCorrect == DevSpec => []ValueIsPosition
<1>1. DevInit => ValueIsPosition
  BY DEF DevInit, ValueIsPosition
<1>2. ValueIsPosition /\ [DevNext]_devVars => ValueIsPosition'
  <2> SUFFICES ASSUME ValueIsPosition, [DevNext]_devVars PROVE ValueIsPosition'
    OBVIOUS
  <2>1. CASE EncRead
    BY <2>1, DecodeIsSigned DEF EncRead, ValueIsPosition, Signed
  <2>2. CASE UNCHANGED value
    BY <2>2 DEF ValueIsPosition, Signed
  <2> QED
    BY <2>1, <2>2 DEF DevNext, Turn, Reconfigure, EncOpen, EncConnect, EncInit, EncClose,
       AdcOpen, AdcAttributes, AdcClose, devVars, encoder
<1> QED
  BY <1>1, <1>2, PTL DEF DevSpec
-----------------------------------------------------------------------------
(* analyze_edges.py.                                                       *)

(* Objects keep their order, skip no place and do not turn back.           *)
TrackInv ==
  /\ tick \in Nat \ {0}
  /\ was \in Seq([Track -> 1..5]) /\ Len(was) = tick /\ at = was[tick]
  /\ \A s, t \in 1..tick, o \in Track : s <= t => was[s][o] <= was[t][o]
  /\ \A t \in 1..tick, o, p \in Track :
       p < o => /\ was[t][o] <= was[t][p]
                /\ was[t][o] = was[t][p] => Places[was[t][o]] \notin Beams
  /\ \A t \in 1..tick, o \in Track :
       \A k \in 1..was[t][o] : \E s \in 1..t : was[s][o] = k

Row == [ts : Nat, CH2 : BOOLEAN, CH3 : BOOLEAN]

(* The recording begins with both beams clear.  An object that is in a     *)
(* beam in some row has a first such row.                                  *)
RowInv ==
  /\ rows \in Seq(Row) /\ Len(rows) >= 1
  /\ rows[1].CH2 /\ rows[1].CH3
  /\ \A i \in 1..Len(rows) :
       /\ rows[i].ts \in 1..tick
       /\ \A ch \in Beams : rows[i][ch] = Clear(was[rows[i].ts], ch)
  /\ \A i, j \in 1..Len(rows) : i < j => rows[i].ts < rows[j].ts
  /\ \A i \in 1..Len(rows), ch \in Beams, o \in Track :
       In(o, ch, rows[i].ts) =>
         \E h, j \in 1..i : /\ j = h + 1
                            /\ In(o, ch, rows[j].ts) /\ ~In(o, ch, rows[h].ts)

Place(ch) == IF ch = "CH2" THEN 2 ELSE 4

LEMMA PlaceOf ==
  ASSUME NEW k \in 1..5, NEW ch \in Beams
  PROVE  Places[k] = ch <=> k = Place(ch)
BY DEF Places, Beams, Place

(* The tick in numbers.                                                    *)
LEMMA InPlace ==
  ASSUME TrackInv, NEW t \in 1..tick, NEW o \in Track, NEW ch \in Beams
  PROVE  was[t][o] \in 1..5 /\ (In(o, ch, t) <=> was[t][o] = Place(ch))
<1>1. was[t] \in [Track -> 1..5]
  BY DEF TrackInv
<1> QED
  BY <1>1, PlaceOf DEF In

LEMMA TrackInit == EdgeInit => TrackInv
<1> SUFFICES ASSUME EdgeInit PROVE TrackInv
  OBVIOUS
<1> DEFINE a == [o \in Track |-> 1]
<1>1. a \in [Track -> 1..5] /\ \A o \in Track : a[o] = 1
  OBVIOUS
<1>2. was = <<a>> /\ at = a /\ tick = 1
  BY DEF EdgeInit
<1> HIDE DEF a
<1>3. was \in Seq([Track -> 1..5]) /\ Len(was) = 1 /\ was[1] = a
  BY <1>1, <1>2
<1>4. \A t \in 1..tick : t = 1
  BY <1>2
<1>5. Places[1] \notin Beams
  BY DEF Places, Beams
<1>6. ASSUME NEW o \in Track, NEW k \in 1..was[1][o] PROVE \E s \in 1..1 : was[s][o] = k
  BY <1>1, <1>3
<1> QED
  BY <1>1, <1>2, <1>3, <1>4, <1>5, <1>6 DEF TrackInv

LEMMA RowInit == EdgeInit => RowInv
<1> SUFFICES ASSUME EdgeInit PROVE RowInv
  OBVIOUS
<1> DEFINE r == [ts |-> 1, CH2 |-> TRUE, CH3 |-> TRUE]
<1>1. r \in Row /\ r.ts = 1 /\ r.CH2 /\ r.CH3
  BY DEF Row
<1>2. rows = <<r>> /\ tick = 1 /\ was = <<[o \in Track |-> 1]>>
  BY DEF EdgeInit
<1> HIDE DEF r
<1>3. rows \in Seq(Row) /\ Len(rows) = 1 /\ rows[1] = r
  BY <1>1, <1>2
<1>4. \A o \in Track : was[1][o] = 1
  BY <1>2
<1>5. ASSUME NEW ch \in Beams, NEW o \in Track PROVE ~In(o, ch, 1)
  BY <1>4 DEF In, Places, Beams
<1>6. ASSUME NEW ch \in Beams PROVE rows[1][ch] = TRUE /\ Clear(was[1], ch)
  <2>1. Clear(was[1], ch)
    BY <1>5 DEF Clear, In
  <2>2. rows[1][ch] = TRUE
    BY <1>2, <1>3 DEF Beams, r
  <2> QED
    BY <2>1, <2>2
<1>7. \A i \in 1..Len(rows) : i = 1
  BY <1>3
<1>8. rows[1].ts = 1 /\ rows[1].CH2 /\ rows[1].CH3
  BY <1>1, <1>3
<1>9. \A i \in 1..Len(rows), ch \in Beams : rows[i][ch] = Clear(was[rows[i].ts], ch)
  BY <1>6, <1>7, <1>8
<1>10. \A i \in 1..Len(rows) : rows[i].ts \in 1..tick
  BY <1>2, <1>7, <1>8
<1>11. \A i, j \in 1..Len(rows) : ~(i < j)
  BY <1>3
<1>12. \A i \in 1..Len(rows), ch \in Beams, o \in Track : ~In(o, ch, rows[i].ts)
  BY <1>5, <1>7, <1>8
<1>13. Len(rows) >= 1
  BY <1>3
<1> QED
  BY <1>3, <1>8, <1>9, <1>10, <1>11, <1>12, <1>13 DEF RowInv

LEMMA TickFacts ==
  ASSUME TrackInv, Tick
  PROVE  /\ tick' = tick + 1 /\ tick' \in Nat \ {0}
         /\ was' \in Seq([Track -> 1..5]) /\ Len(was') = tick'
         /\ \A t \in 1..tick : was'[t] = was[t]
         /\ was'[tick'] = at' /\ at' \in [Track -> 1..5]
         /\ \A o \in Track : at'[o] = was[tick][o] \/ at'[o] = was[tick][o] + 1
<1>1. /\ tick \in Nat \ {0} /\ was \in Seq([Track -> 1..5]) /\ Len(was) = tick
      /\ at = was[tick]
  BY DEF TrackInv
<1>2. /\ tick' = tick + 1 /\ at' \in [Track -> 1..5] /\ was' = Append(was, at')
      /\ \A o \in Track : at'[o] \in {at[o], at[o] + 1}
  BY DEF Tick
<1>3. /\ was' \in Seq([Track -> 1..5]) /\ Len(was') = tick + 1
      /\ was'[tick + 1] = at' /\ \A t \in 1..tick : was'[t] = was[t]
  BY <1>1, <1>2, AppendProperties
<1> QED
  BY <1>1, <1>2, <1>3

LEMMA TrackStep ==
  ASSUME TrackInv, Tick
  PROVE  TrackInv'
<1>1. /\ tick \in Nat \ {0} /\ tick' = tick + 1 /\ tick' \in Nat \ {0}
      /\ was' \in Seq([Track -> 1..5]) /\ Len(was') = tick'
      /\ \A t \in 1..tick : was'[t] = was[t]
      /\ was'[tick'] = at' /\ at' \in [Track -> 1..5]
      /\ \A o \in Track : at'[o] = was[tick][o] \/ at'[o] = was[tick][o] + 1
  BY TickFacts DEF TrackInv
<1>2. ASSUME NEW t \in 1..tick'
      PROVE  (t \in 1..tick /\ was'[t] = was[t]) \/ (t = tick' /\ was'[t] = at')
  BY <1>1
<1>3. \A t \in 1..tick, o \in Track : was[t][o] \in 1..5
  BY DEF TrackInv
<1>4. ASSUME NEW s \in 1..tick', NEW t \in 1..tick', NEW o \in Track, s <= t
      PROVE  was'[s][o] <= was'[t][o]
  <2>1. CASE t \in 1..tick
    <3>1. s \in 1..tick
      BY <1>1, <1>4, <2>1
    <3> QED
      BY <1>1, <1>4, <2>1, <3>1 DEF TrackInv
  <2>2. CASE t = tick' /\ s \in 1..tick
    <3>1. was[s][o] <= was[tick][o] /\ tick \in 1..tick
      BY <1>1, <2>2 DEF TrackInv
    <3>2. was[tick][o] <= at'[o]
      BY <1>1, <1>3, <3>1
    <3>3. was[s][o] \in Int /\ was[tick][o] \in Int
      BY <1>3, <2>2, <3>1
    <3>4. at'[o] \in Int
      BY <1>1
    <3>5. was[s][o] <= at'[o]
      BY <3>1, <3>2, <3>3, <3>4
    <3>6. was'[s] = was[s] /\ was'[t] = at'
      BY <1>1, <2>2
    <3> QED
      BY <3>5, <3>6
  <2>3. CASE t = tick' /\ s = tick'
    BY <1>1, <2>3
  <2> QED
    BY <1>2, <2>1, <2>2, <2>3
<1>5. ASSUME NEW t \in 1..tick', NEW o \in Track, NEW p \in Track, p < o
      PROVE  /\ was'[t][o] <= was'[t][p]
             /\ was'[t][o] = was'[t][p] => Places[was'[t][o]] \notin Beams
  <2>1. CASE t \in 1..tick /\ was'[t] = was[t]
    BY <1>5, <2>1 DEF TrackInv
  <2>2. CASE t = tick' /\ was'[t] = at'
    BY <1>5, <2>2 DEF Tick
  <2> QED
    BY <1>2, <2>1, <2>2
<1>6. ASSUME NEW t \in 1..tick', NEW o \in Track, NEW k \in 1..was'[t][o]
      PROVE  \E s \in 1..t : was'[s][o] = k
  <2>1. CASE t \in 1..tick
    <3>0. k \in 1..was[t][o]
      BY <1>1, <2>1
    <3>1. PICK s \in 1..t : was[s][o] = k
      BY <2>1, <3>0 DEF TrackInv
    <3>2. s \in 1..tick
      BY <1>1, <2>1
    <3> QED
      BY <1>1, <3>1, <3>2
  <2>2. CASE t = tick'
    <3>1. CASE k <= was[tick][o]
      <4>1. tick \in 1..tick /\ k \in 1..was[tick][o]
        BY <1>1, <1>3, <2>2, <3>1
      <4>2. PICK s \in 1..tick : was[s][o] = k
        BY <4>1 DEF TrackInv
      <4>3. s \in 1..t
        BY <1>1, <2>2
      <4> QED
        BY <1>1, <4>2, <4>3
    <3>2. CASE k > was[tick][o]
      <4>1. was[tick][o] \in 1..5 /\ at'[o] \in 1..5
        BY <1>1, <1>3
      <4>2. k = at'[o]
        BY <1>1, <2>2, <3>2, <4>1
      <4>3. t \in 1..t
        BY <1>1, <2>2
      <4> QED
        BY <1>1, <2>2, <4>2, <4>3
    <3>3. tick \in 1..tick
      BY <1>1
    <3> QED
      BY <1>1, <1>3, <3>1, <3>2, <3>3
  <2> QED
    BY <1>2, <2>1, <2>2
<1> QED
  BY <1>1, <1>4, <1>5, <1>6 DEF TrackInv

LEMMA RowStep ==
  ASSUME TrackInv, RowInv, Tick
  PROVE  RowInv'
<1> DEFINE r == [ts |-> tick + 1, CH2 |-> Clear(at', "CH2"), CH3 |-> Clear(at', "CH3")]
<1>0. PICK n \in Nat : n = Len(rows)
  BY DEF RowInv
<1>1. /\ tick \in Nat \ {0} /\ tick' = tick + 1
      /\ \A t \in 1..tick : was'[t] = was[t]
      /\ was'[tick + 1] = at'
  BY TickFacts DEF TrackInv
<1>2. /\ rows \in Seq(Row) /\ n >= 1 /\ rows[1].CH2 /\ rows[1].CH3
  BY <1>0 DEF RowInv
<1>3. ASSUME NEW i \in 1..n
      PROVE  /\ rows[i].ts \in 1..tick /\ rows[i].ts \in 1..(tick + 1)
             /\ was'[rows[i].ts] = was[rows[i].ts]
             /\ \A ch \in Beams : rows[i][ch] = Clear(was'[rows[i].ts], ch)
  <2>1. rows[i].ts \in 1..tick /\ \A ch \in Beams : rows[i][ch] = Clear(was[rows[i].ts], ch)
    BY <1>0 DEF RowInv
  <2>2. was'[rows[i].ts] = was[rows[i].ts]
    BY <1>1, <2>1
  <2>3. rows[i].ts \in 1..(tick + 1)
    BY <1>1, <2>1
  <2> QED
    BY <2>1, <2>2, <2>3
<1>9. ASSUME NEW i \in 1..n, NEW ch, NEW o
      PROVE  Places[was'[rows[i].ts][o]] = ch <=> In(o, ch, rows[i].ts)
  BY <1>3 DEF In
<1>4. ASSUME NEW i \in 1..n, NEW ch \in Beams, NEW o \in Track, In(o, ch, rows[i].ts)
      PROVE  \E h, j \in 1..i : /\ j = h + 1
                                /\ In(o, ch, rows[j].ts) /\ ~In(o, ch, rows[h].ts)
  BY <1>0, <1>4 DEF RowInv
<1>5. \A i, j \in 1..n : i < j => rows[i].ts < rows[j].ts
  BY <1>0 DEF RowInv
<1>6. CASE UNCHANGED rows
  <2>1. ASSUME NEW i \in 1..n, NEW ch \in Beams, NEW o \in Track,
               Places[was'[rows[i].ts][o]] = ch
        PROVE  \E h, j \in 1..i : /\ j = h + 1
                                  /\ Places[was'[rows[j].ts][o]] = ch
                                  /\ ~(Places[was'[rows[h].ts][o]] = ch)
    <3>0. In(o, ch, rows[i].ts)
      BY <1>9, <2>1
    <3>1. PICK h, j \in 1..i : /\ j = h + 1
                               /\ In(o, ch, rows[j].ts) /\ ~In(o, ch, rows[h].ts)
      BY <1>4, <3>0
    <3>2. j \in 1..n /\ h \in 1..n
      OBVIOUS
    <3>3. Places[was'[rows[j].ts][o]] = ch /\ ~(Places[was'[rows[h].ts][o]] = ch)
      <4>1. Places[was'[rows[j].ts][o]] = ch <=> In(o, ch, rows[j].ts)
        BY <1>9, <3>2
      <4>2. Places[was'[rows[h].ts][o]] = ch <=> In(o, ch, rows[h].ts)
        BY <1>9, <3>2
      <4> QED
        BY <3>1, <4>1, <4>2
    <3> QED
      BY <3>1, <3>3
  <2> QED
    BY <1>0, <1>1, <1>2, <1>3, <1>5, <1>6, <2>1 DEF RowInv, In
<1>7. CASE rows' = Append(rows, r)
  <2>1. /\ r \in Row /\ r.ts = tick + 1 /\ \A ch \in Beams : r[ch] = Clear(at', ch)
    BY <1>1 DEF Row, Clear, Beams
  <2> HIDE DEF r
  <2>2. /\ rows' \in Seq(Row) /\ Len(rows') = n + 1 /\ rows'[n + 1] = r
        /\ \A i \in 1..n : rows'[i] = rows[i]
    BY <1>0, <1>2, <1>7, <2>1, AppendProperties
  <2>3. ASSUME NEW i \in 1..(n + 1) PROVE i \in 1..n \/ i = n + 1
    OBVIOUS
  <2>4. rows'[1].CH2 /\ rows'[1].CH3 /\ n + 1 >= 1
    BY <1>2, <2>2
  <2>5. ASSUME NEW i \in 1..(n + 1)
        PROVE  /\ rows'[i].ts \in 1..(tick + 1)
               /\ \A ch \in Beams : rows'[i][ch] = Clear(was'[rows'[i].ts], ch)
    <3>1. CASE i \in 1..n
      BY <1>3, <2>2, <3>1
    <3>2. CASE i = n + 1
      BY <1>1, <2>1, <2>2, <3>2
    <3> QED
      BY <3>1, <3>2
  <2>6. ASSUME NEW i \in 1..(n + 1), NEW j \in 1..(n + 1), i < j
        PROVE  rows'[i].ts < rows'[j].ts
    <3>1. i \in 1..n
      BY <2>6
    <3>2. CASE j \in 1..n
      BY <1>5, <2>2, <2>6, <3>1, <3>2
    <3>3. CASE j = n + 1
      <4>1. rows[i].ts \in 1..tick
        BY <1>3, <3>1
      <4> QED
        BY <1>1, <2>1, <2>2, <3>1, <3>3, <4>1
    <3> QED
      BY <3>2, <3>3
  <2>7. ASSUME NEW i \in 1..(n + 1), NEW ch \in Beams, NEW o \in Track,
               Places[was'[rows'[i].ts][o]] = ch
        PROVE  \E h, j \in 1..i : /\ j = h + 1
                                  /\ Places[was'[rows'[j].ts][o]] = ch
                                  /\ ~(Places[was'[rows'[h].ts][o]] = ch)
    <3>1. ASSUME NEW m \in 1..n, In(o, ch, rows[m].ts)
          PROVE  \E h, j \in 1..m : /\ j = h + 1
                                    /\ Places[was'[rows'[j].ts][o]] = ch
                                    /\ ~(Places[was'[rows'[h].ts][o]] = ch)
      <4>1. PICK h, j \in 1..m : /\ j = h + 1
                                 /\ In(o, ch, rows[j].ts) /\ ~In(o, ch, rows[h].ts)
        BY <1>4, <3>1
      <4>2. j \in 1..n /\ h \in 1..n
        OBVIOUS
      <4>3. Places[was'[rows[j].ts][o]] = ch /\ ~(Places[was'[rows[h].ts][o]] = ch)
        <5>1. Places[was'[rows[j].ts][o]] = ch <=> In(o, ch, rows[j].ts)
          BY <1>9, <4>2
        <5>2. Places[was'[rows[h].ts][o]] = ch <=> In(o, ch, rows[h].ts)
          BY <1>9, <4>2
        <5> QED
          BY <4>1, <5>1, <5>2
      <4>4. rows'[j] = rows[j] /\ rows'[h] = rows[h]
        BY <2>2, <4>2
      <4> QED
        BY <4>1, <4>3, <4>4
    <3>2. CASE i \in 1..n
      <4>1. rows'[i] = rows[i]
        BY <2>2, <3>2
      <4>2. In(o, ch, rows[i].ts)
        BY <1>9, <2>7, <3>2, <4>1
      <4> QED
        BY <3>1, <3>2, <4>2
    <3>3. CASE i = n + 1 /\ In(o, ch, rows[n].ts)
      <4>1. n \in 1..n /\ \A j \in 1..n : j \in 1..i
        BY <1>2, <3>3
      <4> QED
        BY <3>1, <3>3, <4>1
    <3>4. CASE i = n + 1 /\ ~In(o, ch, rows[n].ts)
      <4>1. n \in 1..n /\ n \in 1..i /\ i \in 1..i /\ i = n + 1
        BY <1>2, <3>4
      <4>2. ~(Places[was'[rows'[n].ts][o]] = ch)
        <5>1. rows'[n] = rows[n]
          BY <2>2, <4>1
        <5> QED
          BY <1>9, <3>4, <4>1, <5>1
      <4> QED
        BY <2>7, <4>1, <4>2
    <3> QED
      BY <3>2, <3>3, <3>4
  <2> QED
    BY <1>1, <2>2, <2>4, <2>5, <2>6, <2>7 DEF RowInv, In
<1> QED
  BY <1>1, <1>6, <1>7 DEF Tick

LEMMA RowInvariant == EdgeSpec => [](TrackInv /\ RowInv)
<1>1. EdgeInit => TrackInv /\ RowInv
  BY TrackInit, RowInit
<1>2. TrackInv /\ RowInv /\ [EdgeNext]_edgeVars => (TrackInv /\ RowInv)'
  <2>1. ASSUME TrackInv, RowInv, Tick PROVE TrackInv' /\ RowInv'
    BY <2>1, TrackStep, RowStep
  <2>2. ASSUME TrackInv, RowInv, UNCHANGED edgeVars PROVE TrackInv' /\ RowInv'
    <3>1. at' = at /\ tick' = tick /\ rows' = rows /\ was' = was
      BY <2>2 DEF edgeVars
    <3>2. TrackInv'
      BY <2>2, <3>1 DEF TrackInv
    <3>3. RowInv'
      BY <2>2, <3>1 DEF RowInv, In
    <3> QED
      BY <3>2, <3>3
  <2> QED
    BY <2>1, <2>2 DEF EdgeNext
<1> QED
  BY <1>1, <1>2, PTL DEF EdgeSpec

(* A beam holds one object at a time.                                      *)
LEMMA OneInBeam ==
  ASSUME TrackInv, NEW t \in 1..tick, NEW ch \in Beams, NEW o \in Track, NEW p \in Track,
         In(o, ch, t), In(p, ch, t)
  PROVE  o = p
<1>1. was[t][o] = was[t][p] /\ Places[was[t][o]] \in Beams /\ Places[was[t][p]] \in Beams
  BY InPlace DEF In
<1>2. o \in Int /\ p \in Int
  BY DEF Track
<1>3. CASE o < p
  BY <1>1, <1>3 DEF TrackInv
<1>4. CASE p < o
  BY <1>1, <1>4 DEF TrackInv
<1> QED
  BY <1>2, <1>3, <1>4

(* It holds an object without a break.                                     *)
LEMMA NoBreak ==
  ASSUME TrackInv, NEW s \in 1..tick, NEW t \in 1..tick, NEW u \in 1..tick,
         s <= t, t <= u, NEW ch \in Beams, NEW o \in Track, In(o, ch, s), In(o, ch, u)
  PROVE  In(o, ch, t)
<1>1. was[s][o] <= was[t][o] /\ was[t][o] <= was[u][o]
  BY DEF TrackInv
<1>2. was[t][o] \in 1..5 /\ was[s][o] = Place(ch) /\ was[u][o] = Place(ch)
  BY InPlace
<1>3. was[t][o] = Place(ch)
  BY <1>1, <1>2 DEF Place
<1> QED
  BY <1>3, InPlace

(* Objects are in a beam in their order.                                   *)
LEMMA InOrder ==
  ASSUME TrackInv, NEW s \in 1..tick, NEW t \in 1..tick, NEW ch \in Beams,
         NEW o \in Track, NEW p \in Track, p < o, In(p, ch, s), In(o, ch, t)
  PROVE  s < t
<1> SUFFICES ASSUME t <= s PROVE FALSE
  OBVIOUS
<1>1. was[t][o] <= was[s][o] /\ was[s][o] <= was[s][p]
  BY DEF TrackInv
<1>2. was[s][o] \in 1..5 /\ was[t][o] = Place(ch) /\ was[s][p] = Place(ch)
  BY InPlace
<1>3. was[s][o] = Place(ch)
  BY <1>1, <1>2 DEF Place
<1>4. In(o, ch, s) /\ o \in Int /\ p \in Int
  BY <1>3, InPlace DEF Track
<1> QED
  BY <1>4, OneInBeam

(* Those before an object in the beam have been there.                     *)
LEMMA BeenThere ==
  ASSUME TrackInv, NEW t \in 1..tick, NEW ch \in Beams, NEW o \in Track, NEW p \in Track,
         p <= o, In(o, ch, t)
  PROVE  \E s \in 1..tick : In(p, ch, s)
<1>1. CASE p = o
  BY <1>1
<1>2. CASE p < o
  <2>1. was[t][o] <= was[t][p]
    BY <1>2 DEF TrackInv
  <2>2. was[t][p] \in 1..5 /\ was[t][o] \in 1..5 /\ was[t][o] = Place(ch)
    BY InPlace
  <2>3. Place(ch) \in 1..was[t][p]
    BY <2>1, <2>2
  <2>4. PICK s \in 1..t : was[s][p] = Place(ch)
    BY <2>3 DEF TrackInv
  <2>5. s \in 1..tick
    BY DEF TrackInv
  <2> QED
    BY <2>4, <2>5, InPlace
<1> QED
  BY <1>1, <1>2 DEF Track

LEMMA RowFacts ==
  ASSUME TrackInv, RowInv, NEW i \in 1..Len(rows), NEW ch \in Beams
  PROVE  /\ rows[i].ts \in 1..tick
         /\ rows[i][ch] <=> \A o \in Track : ~In(o, ch, rows[i].ts)
         /\ \A j \in 1..Len(rows) : (i < j <=> rows[i].ts < rows[j].ts)
<1>1. rows[i].ts \in 1..tick /\ rows[i][ch] = Clear(was[rows[i].ts], ch)
  BY DEF RowInv
<1>2. ASSUME NEW j \in 1..Len(rows) PROVE i < j <=> rows[i].ts < rows[j].ts
  <2>1. rows[i].ts \in Int /\ rows[j].ts \in Int
    BY DEF RowInv
  <2>2. i < j => rows[i].ts < rows[j].ts
    BY DEF RowInv
  <2>3. j < i => rows[j].ts < rows[i].ts
    BY DEF RowInv
  <2> QED
    BY <2>1, <2>2, <2>3
<1>3. Clear(was[rows[i].ts], ch) <=> \A o \in Track : ~In(o, ch, rows[i].ts)
  BY DEF Clear, In
<1> QED
  BY <1>1, <1>2, <1>3

(* A row of Falls, its predecessor and the object it shows.                *)
LEMMA FallFacts ==
  ASSUME TrackInv, RowInv, NEW ch \in Beams, NEW i \in Falls(ch)
  PROVE  /\ i \in 1..Len(rows)
         /\ \E o \in Track : In(o, ch, rows[i].ts)
         /\ \E h \in 1..Len(rows) : i = h + 1 /\ \A o \in Track : ~In(o, ch, rows[h].ts)
<1>1. i \in 2..Len(rows) /\ rows[i - 1][ch] /\ ~rows[i][ch]
  BY DEF Falls
<1>2. PICK n \in Nat : n = Len(rows)
  BY DEF RowInv
<1>3. i \in 1..Len(rows) /\ i - 1 \in 1..Len(rows) /\ i = (i - 1) + 1
  BY <1>1, <1>2
<1>4. \A o \in Track : ~In(o, ch, rows[i - 1].ts)
  BY <1>1, <1>3, RowFacts
<1>5. \E o \in Track : In(o, ch, rows[i].ts)
  BY <1>1, <1>3, RowFacts
<1> QED
  BY <1>3, <1>4, <1>5

(* An object is the object of one row of Falls at most.                    *)
LEMMA FallUnique ==
  ASSUME TrackInv, RowInv, NEW ch \in Beams, NEW o \in Track,
         NEW i \in Falls(ch), NEW j \in Falls(ch),
         In(o, ch, rows[i].ts), In(o, ch, rows[j].ts)
  PROVE  i = j
<1>1. ASSUME NEW k \in Falls(ch), NEW m \in Falls(ch), k < m,
             In(o, ch, rows[k].ts), In(o, ch, rows[m].ts)
      PROVE  FALSE
  <2>1. PICK h \in 1..Len(rows) : m = h + 1 /\ \A p \in Track : ~In(p, ch, rows[h].ts)
    BY FallFacts
  <2>2. k \in 1..Len(rows) /\ m \in 1..Len(rows)
    BY FallFacts
  <2>3. h < m /\ (k = h \/ k < h)
    BY <1>1, <2>1, <2>2
  <2>4. rows[h].ts \in 1..tick /\ rows[k].ts \in 1..tick /\ rows[m].ts \in 1..tick
    BY <2>2, RowFacts
  <2>5. rows[h].ts < rows[m].ts /\ (k = h \/ rows[k].ts < rows[h].ts)
    BY <2>2, <2>3, RowFacts
  <2>6. rows[k].ts <= rows[h].ts /\ rows[h].ts <= rows[m].ts
    BY <2>4, <2>5
  <2>7. In(o, ch, rows[h].ts)
    BY <1>1, <2>4, <2>6, NoBreak
  <2> QED
    BY <2>1, <2>7
<1>2. i \in Int /\ j \in Int
  BY DEF Falls
<1> QED
  BY <1>1, <1>2

(* If every passage is recorded, every object that has been in the beam    *)
(* has a row of Falls: the first that shows it.  The row before shows no   *)
(* other object either, for the beam was seen clear after its predecessor. *)
LEMMA FirstFall ==
  ASSUME TrackInv, RowInv, AllRecorded, NEW ch \in Beams, NEW o \in Track,
         NEW t \in 1..tick, In(o, ch, t)
  PROVE  \E j \in Falls(ch) : In(o, ch, rows[j].ts)
<1>1. PICK i \in 1..Len(rows) : In(o, ch, rows[i].ts)
  <2>1. DOMAIN rows = 1..Len(rows)
    BY DEF RowInv
  <2> QED
    BY <2>1 DEF AllRecorded
<1>2. PICK h \in 1..i, j \in 1..i : /\ j = h + 1
                                   /\ In(o, ch, rows[j].ts) /\ ~In(o, ch, rows[h].ts)
  BY <1>1 DEF RowInv
<1>3. PICK n \in Nat : n = Len(rows)
  BY DEF RowInv
<1>4. h \in 1..Len(rows) /\ j \in 1..Len(rows) /\ j \in 2..Len(rows) /\ j - 1 = h /\ h < j
  BY <1>2, <1>3
<1>5. rows[h].ts \in 1..tick /\ rows[j].ts \in 1..tick /\ rows[h].ts < rows[j].ts
  BY <1>4, RowFacts
<1>6. ASSUME NEW p \in Track, In(p, ch, rows[h].ts) PROVE FALSE
  <2>1. p \in Int /\ o \in Int /\ p # o
    BY <1>2, <1>6 DEF Track
  <2>2. CASE o < p
    <3>1. rows[j].ts < rows[h].ts
      BY <1>2, <1>5, <1>6, <2>2, InOrder
    <3> QED
      BY <1>5, <3>1
  <2>3. CASE p < o
    <3>1. o > 1 /\ o - 1 \in Track /\ p <= o - 1 /\ o - 1 < o /\ o - 1 <= o
      BY <2>3, EdgeAssumption DEF Track, EdgeAssumption
    <3>2. DOMAIN rows = 1..Len(rows)
      BY DEF RowInv
    <3>3. PICK k \in 1..Len(rows) :
                 /\ rows[k][ch]
                 /\ \A s \in 1..tick : In(o, ch, s) => rows[k].ts < s
                 /\ \A s \in 1..tick : In(o - 1, ch, s) => s < rows[k].ts
      BY <3>1, <3>2 DEF AllRecorded
    <3>4. PICK s \in 1..tick : In(o - 1, ch, s)
      BY <3>1, BeenThere
    <3>5. s < rows[k].ts /\ rows[k].ts < rows[j].ts /\ rows[k].ts \in 1..tick
      BY <1>2, <1>5, <3>3, <3>4, RowFacts
    <3>6. rows[h].ts < rows[k].ts
      <4>1. CASE p = o - 1
        BY <1>5, <1>6, <3>3, <4>1
      <4>2. CASE p < o - 1
        <5>1. rows[h].ts < s
          BY <1>5, <1>6, <3>1, <3>4, <4>2, InOrder
        <5> QED
          BY <1>5, <3>5, <5>1
      <4> QED
        BY <2>1, <3>1, <4>1, <4>2
    <3>7. h < k /\ k < j
      BY <1>4, <3>5, <3>6, RowFacts
    <3> QED
      BY <1>2, <3>7
  <2> QED
    BY <2>1, <2>2, <2>3
<1>7. rows[h][ch] /\ ~rows[j][ch]
  BY <1>2, <1>4, <1>6, RowFacts
<1>8. j \in Falls(ch)
  BY <1>4, <1>7 DEF Falls
<1> QED
  BY <1>2, <1>8

(* The i-th row of Falls shows the i-th object.                            *)
LEMMA NthIsObject ==
  ASSUME TrackInv, RowInv, AllRecorded, NEW ch \in Beams, NEW i \in Falls(ch),
         NEW o \in Track, In(o, ch, rows[i].ts)
  PROVE  Nth(ch, i) = o
<1> DEFINE S == {j \in Falls(ch) : j <= i}
           f == [p \in 1..o |-> CHOOSE j \in Falls(ch) : In(p, ch, rows[j].ts)]
<1>1. /\ \A j \in Falls(ch) : j \in 1..Len(rows) /\ rows[j].ts \in 1..tick
      /\ \A j, k \in Falls(ch) : (j < k <=> rows[j].ts < rows[k].ts)
  BY FallFacts, RowFacts
<1>2. o \in Nat /\ i \in Int /\ \A p \in 1..o : p \in Track /\ p \in Int /\ p <= o
  BY <1>1, EdgeAssumption DEF Track, EdgeAssumption
<1>3. ASSUME NEW p \in 1..o
      PROVE  f[p] \in Falls(ch) /\ In(p, ch, rows[f[p]].ts)
  <2>1. \E s \in 1..tick : In(p, ch, s)
    BY <1>1, <1>2, BeenThere
  <2>2. \E j \in Falls(ch) : In(p, ch, rows[j].ts)
    BY <1>2, <2>1, FirstFall
  <2> QED
    BY <2>2
<1> HIDE DEF f
<1>4. f \in [1..o -> S]
  <2>1. ASSUME NEW p \in 1..o PROVE f[p] <= i
    <3>1. CASE p = o
      <4>1. f[p] = i
        BY <1>3, <3>1, FallUnique
      <4> QED
        BY <1>2, <4>1
    <3>2. CASE p < o
      <4>1. rows[f[p]].ts < rows[i].ts
        BY <1>1, <1>2, <1>3, <3>2, InOrder
      <4>2. f[p] < i /\ f[p] \in Int
        BY <1>1, <1>3, <4>1
      <4> QED
        BY <1>2, <4>2
    <3> QED
      BY <1>2, <3>1, <3>2
  <2>2. f = [p \in 1..o |-> f[p]]
    BY DEF f
  <2> QED
    BY <1>3, <2>1, <2>2
<1>5. ASSUME NEW p \in 1..o, NEW q \in 1..o, f[p] = f[q] PROVE p = q
  <2>1. rows[f[p]].ts \in 1..tick
    BY <1>1, <1>3
  <2> QED
    BY <1>2, <1>3, <1>5, <2>1, OneInBeam
<1>6. ASSUME NEW j \in S PROVE \E p \in 1..o : f[p] = j
  <2>1. PICK q \in Track : In(q, ch, rows[j].ts)
    BY FallFacts
  <2>2. j \in Int /\ j <= i /\ rows[j].ts \in 1..tick /\ rows[i].ts \in 1..tick
    BY <1>1
  <2>3. q \in Nat /\ q >= 1
    BY EdgeAssumption DEF Track, EdgeAssumption
  <2>4. ~(o < q)
    <3> SUFFICES ASSUME o < q PROVE FALSE
      OBVIOUS
    <3>1. rows[i].ts < rows[j].ts
      BY <2>1, <2>2, InOrder
    <3>2. i < j
      BY <1>1, <3>1
    <3> QED
      BY <1>2, <2>2, <3>2
  <2>5. q \in 1..o
    BY <1>2, <2>3, <2>4
  <2>6. f[q] = j
    BY <1>3, <2>1, <2>5, FallUnique
  <2> QED
    BY <2>5, <2>6
<1>7. ExistsBijection(1..o, S)
  <2>1. f \in Bijection(1..o, S)
    BY <1>4, <1>5, <1>6 DEF Bijection, Injection, Surjection, IsInjective
  <2> QED
    BY <2>1 DEF ExistsBijection
<1>8. Cardinality(S) = o
  BY <1>2, <1>7, FS_CountingElements
<1> QED
  BY <1>8 DEF Nth

(* If the recording shows every passage of a beam, and the clear beam      *)
(* between two objects, by a row at least, every speed the script prints   *)
(* is the speed of one object: the i-th fall of either beam is the fall of *)
(* object i.                                                               *)
THEOREM SpeedsCorrect == EdgeSpec => []SpeedsAreOfObjects
<1>1. ASSUME TrackInv, RowInv PROVE SpeedsAreOfObjects
  <2> SUFFICES ASSUME AllRecorded, NEW p \in Pairs PROVE OfOneObject(p)
    BY DEF SpeedsAreOfObjects
  <2>1. /\ p[1] \in Falls("CH2") /\ p[2] \in Falls("CH3")
        /\ Nth("CH2", p[1]) = Nth("CH3", p[2])
    BY DEF Pairs
  <2>2. "CH2" \in Beams /\ "CH3" \in Beams
    BY DEF Beams
  <2>3. PICK o \in Track : In(o, "CH2", rows[p[1]].ts)
    BY <2>1, <2>2, <1>1, FallFacts
  <2>4. PICK q \in Track : In(q, "CH3", rows[p[2]].ts)
    BY <2>1, <2>2, <1>1, FallFacts
  <2>5. Nth("CH2", p[1]) = o
    BY <1>1, <2>1, <2>2, <2>3, NthIsObject
  <2>6. Nth("CH3", p[2]) = q
    BY <1>1, <2>1, <2>2, <2>4, NthIsObject
  <2>7. o = q
    BY <2>1, <2>5, <2>6
  <2> QED
    BY <2>3, <2>4, <2>7 DEF OfOneObject
<1> QED
  BY <1>1, RowInvariant, PTL
-----------------------------------------------------------------------------
(* The CRC.  The tables are evaluated once, over the bits of their index   *)
(* (Entries); the rest is that shifting is linear.                         *)

(* The powers of two the prover need not compute twice.                    *)
LEMMA Powers ==
  2^0 = 1 /\ 2^1 = 2 /\ 2^2 = 4 /\ 2^3 = 8 /\ 2^4 = 16 /\ 2^5 = 32 /\ 2^6 = 64 /\ 2^7 = 128
  OBVIOUS

Bit == {0, 1}

Digit(b, k) == IF k \in b THEN 1 ELSE 0

(* The bits of a byte after eight shifts.                                  *)
Image(b) ==
  LET most == Digit(b, 0) + Digit(b, 1) + Digit(b, 2) + Digit(b, 3) + Digit(b, 4) + Digit(b, 5)
              + Digit(b, 6)
  IN << (most + Digit(b, 7)) % 2, 0, 0, 0, 0, 0,
        Digit(b, 0), (Digit(b, 0) + Digit(b, 1)) % 2, (Digit(b, 1) + Digit(b, 2)) % 2,
        (Digit(b, 2) + Digit(b, 3)) % 2, (Digit(b, 3) + Digit(b, 4)) % 2, (Digit(b, 4) + Digit(b, 5)) % 2,
        (Digit(b, 5) + Digit(b, 6)) % 2, (Digit(b, 6) + Digit(b, 7)) % 2,
        most % 2, (most + Digit(b, 7)) % 2 >>

(* The number of eight bits.                                               *)
Sum8(x) ==
  x[0] + 2 * x[1] + 4 * x[2] + 8 * x[3] + 16 * x[4] + 32 * x[5] + 64 * x[6] + 128 * x[7]

LEMMA ImageBits == ASSUME NEW b PROVE \A i \in 1..16 : Image(b)[i] \in Bit
  BY DEF Image, Digit, Bit

(* The tables, from the bits of the index to those of the entry.           *)
LEMMA Entries ==
  ASSUME NEW b \in Octets
  PROVE  /\ kCrcTableH[Number(b) + 1] = Sum8([k \in 0..7 |-> Image(b)[k + 1]])
         /\ kCrcTableL[Number(b) + 1] = Sum8([k \in 0..7 |-> Image(b)[k + 9]])
<1>1. PICK a0, a1, a2, a3, a4, a5, a6, a7 :
         /\ a0 = Digit(b, 0) /\ a1 = Digit(b, 1) /\ a2 = Digit(b, 2) /\ a3 = Digit(b, 3)
         /\ a4 = Digit(b, 4) /\ a5 = Digit(b, 5) /\ a6 = Digit(b, 6) /\ a7 = Digit(b, 7)
  OBVIOUS
<1>2. /\ a0 \in {0, 1} /\ a1 \in {0, 1} /\ a2 \in {0, 1} /\ a3 \in {0, 1}
      /\ a4 \in {0, 1} /\ a5 \in {0, 1} /\ a6 \in {0, 1} /\ a7 \in {0, 1}
  BY <1>1 DEF Digit
<1>3. Number(b) + 1 = a0 + 2 * a1 + 4 * a2 + 8 * a3 + 16 * a4 + 32 * a5 + 64 * a6 + 128 * a7 + 1
  BY <1>1, Powers DEF Number, One, Digit
<1>4. kCrcTableH[a0 + 2 * a1 + 4 * a2 + 8 * a3 + 16 * a4 + 32 * a5 + 64 * a6 + 128 * a7 + 1] =
         ((a0 + a1 + a2 + a3 + a4 + a5 + a6 + a7) % 2) + 64 * a0 + 128 * ((a0 + a1) % 2)
  BY <1>2, SMTT(60) DEF kCrcTableH
<1>5. kCrcTableL[a0 + 2 * a1 + 4 * a2 + 8 * a3 + 16 * a4 + 32 * a5 + 64 * a6 + 128 * a7 + 1] =
         ((a1 + a2) % 2) + 2 * ((a2 + a3) % 2) + 4 * ((a3 + a4) % 2)
         + 8 * ((a4 + a5) % 2) + 16 * ((a5 + a6) % 2) + 32 * ((a6 + a7) % 2)
         + 64 * ((a0 + a1 + a2 + a3 + a4 + a5 + a6) % 2)
         + 128 * ((a0 + a1 + a2 + a3 + a4 + a5 + a6 + a7) % 2)
  BY <1>2, SMTT(60) DEF kCrcTableL
<1>6. Sum8([k \in 0..7 |-> Image(b)[k + 1]]) =
         ((a0 + a1 + a2 + a3 + a4 + a5 + a6 + a7) % 2) + 64 * a0 + 128 * ((a0 + a1) % 2)
  BY <1>1, <1>2 DEF Sum8, Image
<1>7. Sum8([k \in 0..7 |-> Image(b)[k + 9]]) =
         ((a1 + a2) % 2) + 2 * ((a2 + a3) % 2) + 4 * ((a3 + a4) % 2)
         + 8 * ((a4 + a5) % 2) + 16 * ((a5 + a6) % 2) + 32 * ((a6 + a7) % 2)
         + 64 * ((a0 + a1 + a2 + a3 + a4 + a5 + a6) % 2)
         + 128 * ((a0 + a1 + a2 + a3 + a4 + a5 + a6 + a7) % 2)
  BY <1>1, <1>2 DEF Sum8, Image
<1> QED
  BY <1>3, <1>4, <1>5, <1>6, <1>7

LEMMA BitsOfSum ==
  ASSUME NEW x \in [0..7 -> Bit]
  PROVE  \A k \in 0..7 : k \in Bits(Sum8(x)) <=> x[k] = 1
<1> DEFINE n == Sum8(x)
<1>1. /\ (n \div 1) % 2 = x[0] /\ (n \div 2) % 2 = x[1] /\ (n \div 4) % 2 = x[2]
      /\ (n \div 8) % 2 = x[3] /\ (n \div 16) % 2 = x[4] /\ (n \div 32) % 2 = x[5]
      /\ (n \div 64) % 2 = x[6] /\ (n \div 128) % 2 = x[7]
  BY DEF Bit, Sum8
<1> HIDE DEF n
<1>2. \A k \in 0..7 : k \in Bits(n) <=> (n \div 2 ^ k) % 2 = 1
  BY DEF Bits
<1>3. /\ (n \div 2 ^ 0) % 2 = x[0] /\ (n \div 2 ^ 1) % 2 = x[1] /\ (n \div 2 ^ 2) % 2 = x[2]
      /\ (n \div 2 ^ 3) % 2 = x[3] /\ (n \div 2 ^ 4) % 2 = x[4] /\ (n \div 2 ^ 5) % 2 = x[5]
      /\ (n \div 2 ^ 6) % 2 = x[6] /\ (n \div 2 ^ 7) % 2 = x[7]
  BY <1>1, Powers
<1>4. \A k \in 0..7 : k = 0 \/ k = 1 \/ k = 2 \/ k = 3 \/ k = 4 \/ k = 5 \/ k = 6 \/ k = 7
  OBVIOUS
<1>5. \A k \in 0..7 : (n \div 2 ^ k) % 2 = x[k]
  BY <1>3, <1>4
<1> QED
  BY <1>2, <1>5 DEF n

LEMMA OctetsAreWords == \A o \in Octets : o \in Words
<1>1. \A k \in 0..7 : k \in 0..15
  OBVIOUS
<1> QED
  BY <1>1 DEF Octets, Words

(* Shifting is linear.                                                     *)
LEMMA ShiftLinear ==
  ASSUME NEW x \in Words, NEW y \in Words
  PROVE  /\ Xor(x, y) \in Words /\ Shift(x) \in Words
         /\ Shift(Xor(x, y)) = Xor(Shift(x), Shift(y))
<1>1. ASSUME NEW r, r \in Words
      PROVE  /\ Shift(r) \in Words
             /\ \A k \in 0..15 : k \in Shift(r) <=>
                  \/ k + 1 \in r /\ ~(0 \in r /\ k \in {0, 13, 15})
                  \/ k + 1 \notin r /\ 0 \in r /\ k \in {0, 13, 15}
  <2>1. Halved(r) \in Words /\ \A k \in 0..15 : k \in Halved(r) <=> k + 1 \in r
    BY DEF Halved, Words
  <2>2. CASE 0 \in r
    <3>1. Shift(r) = Xor(Halved(r), {0, 13, 15})
      BY <2>2 DEF Shift
    <3>2. \A k : k \in Shift(r) <=>
             \/ k \in Halved(r) /\ k \notin {0, 13, 15}
             \/ k \notin Halved(r) /\ k \in {0, 13, 15}
      BY <3>1 DEF Xor
    <3>3. Shift(r) \in Words
      BY <2>1, <3>2 DEF Words
    <3> QED
      BY <2>1, <2>2, <3>2, <3>3
  <2>3. CASE 0 \notin r
    BY <2>1, <2>3 DEF Shift
  <2> QED
    BY <2>2, <2>3
<1>2. Xor(x, y) \in Words /\ \A k : k \in Xor(x, y) <=> ((k \in x /\ k \notin y) \/ (k \notin x /\ k \in y))
  BY DEF Xor, Words
<1>3. Shift(x) \in Words /\ Shift(y) \in Words /\ Shift(Xor(x, y)) \in Words
  BY <1>1, <1>2
<1>4. ASSUME NEW k \in 0..15 PROVE k \in Shift(Xor(x, y)) <=> k \in Xor(Shift(x), Shift(y))
  <2>1. k \in Xor(Shift(x), Shift(y)) <=>
          
          \/ k \in Shift(x) /\ k \notin Shift(y)
          \/ k \notin Shift(x) /\ k \in Shift(y)
    BY DEF Xor
  <2> QED
    BY <1>1, <1>2, <2>1
<1>5. Xor(Shift(x), Shift(y)) \in Words
  BY <1>3 DEF Xor, Words
<1> QED
  BY <1>2, <1>3, <1>4, <1>5 DEF Words

LEMMA Shift8Linear ==
  ASSUME NEW x \in Words, NEW y \in Words
  PROVE  Shift8(x) \in Words /\ Shift8(Xor(x, y)) = Xor(Shift8(x), Shift8(y))
  BY ShiftLinear DEF Shift8

LEMMA Singles ==
  /\ Shift8({0}) = {0, 6, 7, 14, 15}  /\ Shift8({1}) = {0, 7, 8, 14, 15}
  /\ Shift8({2}) = {0, 8, 9, 14, 15}  /\ Shift8({3}) = {0, 9, 10, 14, 15}
  /\ Shift8({4}) = {0, 10, 11, 14, 15} /\ Shift8({5}) = {0, 11, 12, 14, 15}
  /\ Shift8({6}) = {0, 12, 13, 14, 15} /\ Shift8({7}) = {0, 13, 15}
  /\ Shift8({}) = {}
<1>1. /\ Shift({1}) = {0} /\ Shift({2}) = {1} /\ Shift({3}) = {2} /\ Shift({4}) = {3}
      /\ Shift({5}) = {4} /\ Shift({6}) = {5} /\ Shift({7}) = {6}
  BY DEF Shift, Halved
<1>2. Shift({}) = {}
  BY DEF Shift, Halved
<1> DEFINE r1 == {0, 13, 15}
           r2 == {0, 12, 13, 14, 15}
           r3 == {0, 11, 12, 14, 15}
           r4 == {0, 10, 11, 14, 15}
           r5 == {0, 9, 10, 14, 15}
           r6 == {0, 8, 9, 14, 15}
           r7 == {0, 7, 8, 14, 15}
           r8 == {0, 6, 7, 14, 15}
<1>3. Shift({0}) = r1
  <2>1. Halved({0}) = {}
    BY DEF Halved
  <2>2. Xor({}, {0, 13, 15}) = {0, 13, 15}
    BY SMTT(30) DEF Xor
  <2> QED
    BY <2>1, <2>2 DEF Shift
<1>4. Shift(r1) = r2
  <2>1. Halved({0, 13, 15}) = {12, 14}
    BY DEF Halved
  <2>2. Xor({12, 14}, {0, 13, 15}) = {0, 12, 13, 14, 15}
    BY SMTT(30) DEF Xor
  <2> QED
    BY <2>1, <2>2 DEF Shift
<1>5. Shift(r2) = r3
  <2>1. Halved({0, 12, 13, 14, 15}) = {11, 12, 13, 14}
    BY DEF Halved
  <2>2. Xor({11, 12, 13, 14}, {0, 13, 15}) = {0, 11, 12, 14, 15}
    BY SMTT(30) DEF Xor
  <2> QED
    BY <2>1, <2>2 DEF Shift
<1>6. Shift(r3) = r4
  <2>1. Halved({0, 11, 12, 14, 15}) = {10, 11, 13, 14}
    BY DEF Halved
  <2>2. Xor({10, 11, 13, 14}, {0, 13, 15}) = {0, 10, 11, 14, 15}
    BY SMTT(30) DEF Xor
  <2> QED
    BY <2>1, <2>2 DEF Shift
<1>7. Shift(r4) = r5
  <2>1. Halved({0, 10, 11, 14, 15}) = {9, 10, 13, 14}
    BY DEF Halved
  <2>2. Xor({9, 10, 13, 14}, {0, 13, 15}) = {0, 9, 10, 14, 15}
    BY SMTT(30) DEF Xor
  <2> QED
    BY <2>1, <2>2 DEF Shift
<1>8. Shift(r5) = r6
  <2>1. Halved({0, 9, 10, 14, 15}) = {8, 9, 13, 14}
    BY DEF Halved
  <2>2. Xor({8, 9, 13, 14}, {0, 13, 15}) = {0, 8, 9, 14, 15}
    BY SMTT(30) DEF Xor
  <2> QED
    BY <2>1, <2>2 DEF Shift
<1>9. Shift(r6) = r7
  <2>1. Halved({0, 8, 9, 14, 15}) = {7, 8, 13, 14}
    BY DEF Halved
  <2>2. Xor({7, 8, 13, 14}, {0, 13, 15}) = {0, 7, 8, 14, 15}
    BY SMTT(30) DEF Xor
  <2> QED
    BY <2>1, <2>2 DEF Shift
<1>10. Shift(r7) = r8
  <2>1. Halved({0, 7, 8, 14, 15}) = {6, 7, 13, 14}
    BY DEF Halved
  <2>2. Xor({6, 7, 13, 14}, {0, 13, 15}) = {0, 6, 7, 14, 15}
    BY SMTT(30) DEF Xor
  <2> QED
    BY <2>1, <2>2 DEF Shift
<1> HIDE DEF r1, r2, r3, r4, r5, r6, r7, r8
<1>11. /\ Shift8({0}) = r8 /\ Shift8({1}) = r7 /\ Shift8({2}) = r6 /\ Shift8({3}) = r5
       /\ Shift8({4}) = r4 /\ Shift8({5}) = r3 /\ Shift8({6}) = r2 /\ Shift8({7}) = r1
       /\ Shift8({}) = {}
  <2> DEFINE none == {}
             z0 == {0}
             z1 == {1}
             z2 == {2}
             z3 == {3}
             z4 == {4}
             z5 == {5}
             z6 == {6}
             z7 == {7}
  <2>1. /\ Shift(z1) = z0 /\ Shift(z2) = z1 /\ Shift(z3) = z2 /\ Shift(z4) = z3
        /\ Shift(z5) = z4 /\ Shift(z6) = z5 /\ Shift(z7) = z6 /\ Shift(none) = none
        /\ Shift(z0) = r1 /\ Shift(r1) = r2 /\ Shift(r2) = r3 /\ Shift(r3) = r4
        /\ Shift(r4) = r5 /\ Shift(r5) = r6 /\ Shift(r6) = r7 /\ Shift(r7) = r8
    BY <1>1, <1>2, <1>3, <1>4, <1>5, <1>6, <1>7, <1>8, <1>9, <1>10
  <2> HIDE DEF none, z0, z1, z2, z3, z4, z5, z6, z7
  <2>2. /\ Shift8(z0) = r8 /\ Shift8(z1) = r7 /\ Shift8(z2) = r6 /\ Shift8(z3) = r5
        /\ Shift8(z4) = r4 /\ Shift8(z5) = r3 /\ Shift8(z6) = r2 /\ Shift8(z7) = r1
        /\ Shift8(none) = none
    BY <2>1 DEF Shift8
  <2> QED
    BY <2>2 DEF none, z0, z1, z2, z3, z4, z5, z6, z7
<1> QED
  BY <1>11 DEF r1, r2, r3, r4, r5, r6, r7, r8

(* The bits of a byte shifted eight times.                                 *)
LEMMA ByteShifted ==
  ASSUME NEW b \in Octets
  PROVE  /\ Shift8(b) \in Words
         /\ \A k \in 0..15 : k \in Shift8(b) <=> Image(b)[k + 1] = 1
<1> DEFINE Only(k) == IF k \in b THEN {k} ELSE {}
           r6 == Xor(Only(6), Only(7))
           r5 == Xor(Only(5), r6)
           r4 == Xor(Only(4), r5)
           r3 == Xor(Only(3), r4)
           r2 == Xor(Only(2), r3)
           r1 == Xor(Only(1), r2)
           r0 == Xor(Only(0), r1)
<1>1. \A k \in 0..7 : Only(k) \in Words
  BY DEF Words
<1>2. b = r0
  <2>1. r6 = b \cap {6, 7}  BY DEF Xor
  <2> HIDE DEF r6
  <2>2. r5 = b \cap {5, 6, 7}  BY <2>1 DEF Xor
  <2> HIDE DEF r5
  <2>3. r4 = b \cap {4, 5, 6, 7}  BY <2>2 DEF Xor
  <2> HIDE DEF r4
  <2>4. r3 = b \cap {3, 4, 5, 6, 7}  BY <2>3 DEF Xor
  <2> HIDE DEF r3
  <2>5. r2 = b \cap {2, 3, 4, 5, 6, 7}  BY <2>4 DEF Xor
  <2> HIDE DEF r2
  <2>6. r1 = b \cap {1, 2, 3, 4, 5, 6, 7}  BY <2>5 DEF Xor
  <2> HIDE DEF r1
  <2>7. r0 = b \cap {0, 1, 2, 3, 4, 5, 6, 7}  BY <2>6 DEF Xor
  <2> HIDE DEF r0
  <2>8. 0..7 = {0, 1, 2, 3, 4, 5, 6, 7}
    OBVIOUS
  <2> QED
    BY <2>7, <2>8 DEF Octets
<1>3. /\ r6 \in Words /\ r5 \in Words /\ r4 \in Words /\ r3 \in Words
      /\ r2 \in Words /\ r1 \in Words /\ r0 \in Words
  <2>1. \A x, y \in Words : Xor(x, y) \in Words
    BY ShiftLinear
  <2> HIDE DEF Only
  <2>2. r6 \in Words  BY <1>1, <2>1
  <2> HIDE DEF r6
  <2>3. r5 \in Words  BY <1>1, <2>1, <2>2
  <2> HIDE DEF r5
  <2>4. r4 \in Words  BY <1>1, <2>1, <2>3
  <2> HIDE DEF r4
  <2>5. r3 \in Words  BY <1>1, <2>1, <2>4
  <2> HIDE DEF r3
  <2>6. r2 \in Words  BY <1>1, <2>1, <2>5
  <2> HIDE DEF r2
  <2>7. r1 \in Words  BY <1>1, <2>1, <2>6
  <2> HIDE DEF r1
  <2>8. r0 \in Words  BY <1>1, <2>1, <2>7
  <2> QED
    BY <2>2, <2>3, <2>4, <2>5, <2>6, <2>7, <2>8
<1> DEFINE Moved(k) == Shift8(Only(k))
<1>4. Shift8(b) = Xor(Moved(0), Xor(Moved(1), Xor(Moved(2), Xor(Moved(3), Xor(Moved(4),
                    Xor(Moved(5), Xor(Moved(6), Moved(7))))))))
  <2>1. Shift8(r6) = Xor(Moved(6), Moved(7))
    <3> HIDE DEF Only
    <3> QED  BY <1>1, Shift8Linear
  <2>2. /\ Shift8(r5) = Xor(Moved(5), Shift8(r6)) /\ Shift8(r4) = Xor(Moved(4), Shift8(r5))
        /\ Shift8(r3) = Xor(Moved(3), Shift8(r4)) /\ Shift8(r2) = Xor(Moved(2), Shift8(r3))
        /\ Shift8(r1) = Xor(Moved(1), Shift8(r2)) /\ Shift8(r0) = Xor(Moved(0), Shift8(r1))
    <3>1. \A x, y \in Words : Shift8(Xor(x, y)) = Xor(Shift8(x), Shift8(y))
      BY Shift8Linear
    <3> HIDE DEF Only
    <3> QED  BY <1>1, <1>3, <3>1
  <2> HIDE DEF Only, r0, r1, r2, r3, r4, r5, r6
  <2> QED
    BY <1>2, <2>1, <2>2
<1>5. /\ Moved(0) = (IF 0 \in b THEN {0, 6, 7, 14, 15} ELSE {})
      /\ Moved(1) = (IF 1 \in b THEN {0, 7, 8, 14, 15} ELSE {})
      /\ Moved(2) = (IF 2 \in b THEN {0, 8, 9, 14, 15} ELSE {})
      /\ Moved(3) = (IF 3 \in b THEN {0, 9, 10, 14, 15} ELSE {})
      /\ Moved(4) = (IF 4 \in b THEN {0, 10, 11, 14, 15} ELSE {})
      /\ Moved(5) = (IF 5 \in b THEN {0, 11, 12, 14, 15} ELSE {})
      /\ Moved(6) = (IF 6 \in b THEN {0, 12, 13, 14, 15} ELSE {})
      /\ Moved(7) = (IF 7 \in b THEN {0, 13, 15} ELSE {})
  BY Singles
<1> HIDE DEF Moved
<1>6. \A k \in 0..15 : k \in Shift8(b) <=> Image(b)[k + 1] = 1
  BY <1>4, <1>5, SMTT(60) DEF Xor, Image, Digit
<1>7. Shift8(b) \in Words
  BY Shift8Linear, OctetsAreWords
<1> QED
  BY <1>6, <1>7

LEMMA TableBits ==
  ASSUME NEW b \in Octets
  PROVE  /\ TableH[b] \in Octets /\ TableL[b] \in Octets
         /\ \A k \in 0..7 : k \in TableH[b] <=> Image(b)[k + 1] = 1
         /\ \A k \in 0..7 : k \in TableL[b] <=> Image(b)[k + 9] = 1
<1>1. TableH[b] = Bits(kCrcTableH[Number(b) + 1]) /\ TableL[b] = Bits(kCrcTableL[Number(b) + 1])
  BY DEF TableH, TableL
<1>2. TableH[b] \in Octets /\ TableL[b] \in Octets
  BY <1>1 DEF Bits, Octets
<1> DEFINE low == [k \in 0..7 |-> Image(b)[k + 1]]
           high == [k \in 0..7 |-> Image(b)[k + 9]]
<1>3. low \in [0..7 -> Bit] /\ high \in [0..7 -> Bit]
  <2>1. \A k \in 0..7 : k + 1 \in 1..16 /\ k + 9 \in 1..16
    OBVIOUS
  <2> QED
    BY <2>1, ImageBits
<1>4. TableH[b] = Bits(Sum8(low)) /\ TableL[b] = Bits(Sum8(high))
  BY <1>1, Entries
<1>5. \A k \in 0..7 : low[k] = Image(b)[k + 1] /\ high[k] = Image(b)[k + 9]
  OBVIOUS
<1> HIDE DEF low, high
<1> QED
  BY <1>2, <1>3, <1>4, <1>5, BitsOfSum

(* The entries of the tables are what shifting makes of their index.       *)
LEMMA TablesRight ==
  ASSUME NEW b \in Octets
  PROVE  /\ TableH[b] \in Octets /\ TableL[b] \in Octets
         /\ Shift8(b) = Word(TableL[b], TableH[b])
<1>1. /\ TableH[b] \in Octets /\ TableL[b] \in Octets
      /\ \A k \in 0..7 : k \in TableH[b] <=> Image(b)[k + 1] = 1
      /\ \A k \in 0..7 : k \in TableL[b] <=> Image(b)[k + 9] = 1
  BY TableBits
<1>2. /\ Shift8(b) \in Words
      /\ \A k \in 0..15 : k \in Shift8(b) <=> Image(b)[k + 1] = 1
  BY ByteShifted
<1>3. ASSUME NEW k \in 0..15 PROVE k \in Shift8(b) <=> k \in Word(TableL[b], TableH[b])
  <2>1. CASE k \in 0..7
    BY <1>1, <1>2, <2>1 DEF Word, Octets
  <2>2. CASE k \in 8..15
    <3>1. k - 8 \in 0..7 /\ (k - 8) + 9 = k + 1
      BY <2>2
    <3>2. k \in Word(TableL[b], TableH[b]) <=> k - 8 \in TableL[b]
      BY <1>1, <2>2 DEF Word, Octets
    <3> QED
      BY <1>1, <1>2, <3>1, <3>2
  <2> QED
    BY <2>1, <2>2
<1>4. \A k \in Word(TableL[b], TableH[b]) : k \in 0..15
  BY <1>1 DEF Word, Octets
<1>5. \A k \in Shift8(b) : k \in 0..15
  BY <1>2 DEF Words
<1> QED
  BY <1>1, <1>3, <1>4, <1>5

(* The reflected register holds crcL above crcH.                           *)
LEMMA StepIsShift ==
  ASSUME NEW crc \in [H : Octets, L : Octets], NEW b \in Octets
  PROVE  /\ Step(crc, b) \in [H : Octets, L : Octets]
         /\ Shift8(Xor(Word(crc.L, crc.H), b)) = Word(Step(crc, b).L, Step(crc, b).H)
<1> DEFINE idx == Xor(crc.H, b)
           high == {k \in 8..15 : k - 8 \in crc.L}
<1>1. idx \in Octets /\ idx \in Words /\ high \in Words
  <2>1. idx \in Octets
    BY DEF Octets, Xor
  <2>2. high \in Words
    BY DEF Words
  <2> QED
    BY <2>1, <2>2, OctetsAreWords
<1>2. Xor(Word(crc.L, crc.H), b) = Xor(idx, high)
  BY DEF Octets, Xor, Word
<1>3. Shift8(high) = crc.L
  <2>1. ASSUME NEW r \in Words, NEW m \in 1..8, \A k \in r : k >= m
        PROVE  Shift(r) = {k \in 0..15 : k + 1 \in r} /\ Shift(r) \in Words
               /\ \A k \in Shift(r) : k >= m - 1
    BY <2>1 DEF Words, Shift, Halved
  <2> DEFINE At(m) == {k \in 0..15 : k >= m /\ k <= m + 7 /\ k - m \in crc.L}
  <2>2. ASSUME NEW m \in 1..8 PROVE Shift(At(m)) = At(m - 1)
    <3>1. At(m) \in Words /\ \A k \in At(m) : k >= m
      BY DEF Words
    <3>2. Shift(At(m)) = {k \in 0..15 : k + 1 \in At(m)}
      BY <2>1, <3>1
    <3>3. ASSUME NEW k \in 0..15 PROVE k + 1 \in At(m) <=> k \in At(m - 1)
      BY DEF Octets
    <3> HIDE DEF At
    <3>4. At(m - 1) \subseteq 0..15
      BY DEF At
    <3> QED
      BY <3>2, <3>3, <3>4
  <2>3. high = At(8) /\ crc.L = At(0)
    BY DEF Octets
  <2>4. /\ Shift(At(8)) = At(7) /\ Shift(At(7)) = At(6) /\ Shift(At(6)) = At(5)
        /\ Shift(At(5)) = At(4) /\ Shift(At(4)) = At(3) /\ Shift(At(3)) = At(2)
        /\ Shift(At(2)) = At(1) /\ Shift(At(1)) = At(0)
    <3> HIDE DEF At
    <3>1. /\ 8 - 1 = 7 /\ 7 - 1 = 6 /\ 6 - 1 = 5 /\ 5 - 1 = 4 /\ 4 - 1 = 3 /\ 3 - 1 = 2
          /\ 2 - 1 = 1 /\ 1 - 1 = 0
      OBVIOUS
    <3> QED
      BY <2>2, <3>1
  <2> HIDE DEF At, high
  <2> QED
    BY <2>3, <2>4 DEF Shift8
<1>4. Shift8(Xor(idx, high)) = Xor(Shift8(idx), Shift8(high))
  <2> HIDE DEF idx, high
  <2> QED  BY <1>1, Shift8Linear
<1>5. /\ TableH[idx] \in Octets /\ TableL[idx] \in Octets
      /\ Shift8(idx) = Word(TableL[idx], TableH[idx])
  <2> HIDE DEF idx
  <2> QED  BY <1>1, TablesRight
<1>6. Step(crc, b) = [H |-> Xor(crc.L, TableH[idx]), L |-> TableL[idx]]
  BY DEF Step
<1> HIDE DEF idx, high
<1>7. Xor(Word(TableL[idx], TableH[idx]), crc.L) = Word(TableL[idx], Xor(crc.L, TableH[idx]))
  BY <1>5 DEF Octets, Xor, Word
<1>8. Xor(crc.L, TableH[idx]) \in Octets
  BY <1>5 DEF Octets, Xor
<1> QED
  BY <1>2, <1>3, <1>4, <1>5, <1>6, <1>7, <1>8

Crcs == [H : Octets, L : Octets]

CrcType ==
  /\ tx \in Crcs /\ rx \in Crcs
  /\ len \in Nat /\ hit \in Nat

LEMMA XorOctets ==
  ASSUME NEW x \in Octets, NEW y \in Octets PROVE Xor(x, y) \in Octets
  BY DEF Octets, Xor

LEMMA LowestBit ==
  ASSUME NEW e \in Octets, e # {}
  PROVE  Lowest(e) \in e /\ \A i \in e : Lowest(e) <= i
<1>1. \A k \in e : k \in 0..7
  BY DEF Octets
<1>2. \E k \in 0..7 : k \in e /\ \A i \in 0..7 : i \in e => k <= i
  <2>1. 0 \in e \/ 1 \in e \/ 2 \in e \/ 3 \in e \/ 4 \in e \/ 5 \in e \/ 6 \in e \/ 7 \in e
    BY <1>1
  <2> QED
    BY <2>1
<1>3. \E k \in e : \A i \in e : k <= i
  BY <1>1, <1>2
<1> QED
  BY <1>3 DEF Lowest

LEMMA CrcTyped == CrcInit => CrcType /\ TablesMatchPolynomial
<1> SUFFICES ASSUME CrcInit PROVE CrcType /\ TablesMatchPolynomial
  OBVIOUS
<1>1. Start \in Crcs
  BY DEF Start, Crcs, Octets
<1>2. Word(Start.L, Start.H) = 0..15
  BY DEF Start, Word
<1> QED
  BY <1>1, <1>2 DEF CrcInit, CrcType, TablesMatchPolynomial

LEMMA CrcTypeStep ==
  CrcType /\ TablesMatchPolynomial /\ [CrcNext]_crcVars => CrcType' /\ TablesMatchPolynomial'
<1> SUFFICES ASSUME CrcType, TablesMatchPolynomial, [CrcNext]_crcVars
             PROVE  CrcType' /\ TablesMatchPolynomial'
  OBVIOUS
<1>1. CASE Transfer
  <2>1. PICK b \in Bytes, e \in Errors :
          /\ hit' = IF hit = 0 /\ e # {} THEN 8 * len + Lowest(e) + 1 ELSE hit
          /\ tx' = Step(tx, b)
          /\ rx' = Step(rx, Xor(b, e))
          /\ ref' = Shift8(Xor(ref, Xor(b, e)))
    BY <1>1 DEF Transfer
  <2>2. b \in Octets /\ Xor(b, e) \in Octets
    BY CrcAssumption, XorOctets
  <2>3. tx' \in Crcs /\ rx' \in Crcs
    BY <2>1, <2>2, StepIsShift DEF CrcType, Crcs
  <2>4. len' \in Nat /\ hit' \in Nat
    <3>1. e # {} => Lowest(e) \in 0..7
      BY CrcAssumption, LowestBit DEF Octets
    <3> QED
      BY <1>1, <2>1, <3>1 DEF Transfer, CrcType
  <2>5. ref' = Word(rx'.L, rx'.H)
    BY <2>1, <2>2, StepIsShift DEF CrcType, Crcs, TablesMatchPolynomial
  <2> QED
    BY <2>3, <2>4, <2>5 DEF CrcType, TablesMatchPolynomial
<1>2. CASE UNCHANGED crcVars
  BY <1>2 DEF crcVars, CrcType, TablesMatchPolynomial
<1> QED
  BY <1>1, <1>2 DEF CrcNext

(* The tables of 256 compute the CRC-16 of Modbus, over frames of any      *)
(* length and content (TablesMatchPolynomial).                             *)
THEOREM TablesCorrect == CrcSpec => []TablesMatchPolynomial
<1> QED
  BY CrcTyped, CrcTypeStep, PTL DEF CrcSpec

(* What a disturbance has made of the register and can no longer undo.     *)
(* m is the first place, from the register's lowest bit, that it does not  *)
(* reach.  Until the bit first hit is shifted out, that one is the lowest  *)
(* of those changed; from then on one at m or above is.                    *)
Marked(r, m) ==
  IF m >= 16 THEN m - 16 \in r /\ \A k \in r : k >= m - 16
  ELSE \E k \in r : k >= m

LEMMA MarkStays ==
  ASSUME NEW r \in Words, NEW m \in Int, Marked(r, m)
  PROVE  Marked(Shift(r), m - 1)
<1>1. CASE 0 \in r
  <2>1. 15 \in Shift(r)
    <3>1. 16 \notin r
      BY DEF Words
    <3>2. 15 \notin Halved(r) /\ 15 \in {0, 13, 15}
      BY <3>1 DEF Halved
    <3> QED
      BY <1>1, <3>2 DEF Shift, Xor
  <2>2. m <= 16
    <3>1. m >= 16 => 0 >= m - 16
      BY <1>1 DEF Marked
    <3> QED
      BY <3>1
  <2>3. 15 >= m - 1 /\ ~(m - 1 >= 16)
    BY <2>2
  <2> QED
    BY <2>1, <2>3 DEF Marked
<1>2. CASE 0 \notin r
  <2>1. Shift(r) = Halved(r)
    BY <1>2 DEF Shift
  <2>2. CASE m >= 16
    <3>1. m - 16 \in r /\ m - 16 \in 1..15 /\ \A k \in r : k >= m - 16
      BY <1>2, <2>2 DEF Marked, Words
    <3>2. m - 17 \in Halved(r) /\ \A k \in Halved(r) : k >= m - 17
      <4>1. m - 17 \in 0..15 /\ (m - 17) + 1 = m - 16
        BY <3>1
      <4>2. m - 17 \in Halved(r)
        BY <3>1, <4>1 DEF Halved
      <4>3. ASSUME NEW k \in Halved(r) PROVE k >= m - 17
        <5>1. k \in 0..15 /\ k + 1 >= m - 16
          BY <3>1 DEF Halved
        <5> QED
          BY <5>1
      <4> QED
        BY <4>2, <4>3
    <3>3. CASE m = 16
      <4>1. 0 \in r
        BY <3>1, <3>3
      <4> QED
        BY <1>2, <4>1
    <3>4. CASE m > 16
      <4>1. m - 1 >= 16 /\ (m - 1) - 16 = m - 17
        BY <3>4
      <4> QED
        BY <2>1, <3>2, <4>1 DEF Marked
    <3> QED
      BY <2>2, <3>3, <3>4
  <2>3. CASE ~(m >= 16)
    <3>1. PICK k \in r : k >= m
      BY <2>3 DEF Marked
    <3>2. k \in 1..15
      BY <1>2 DEF Words
    <3>3. k - 1 \in 0..15 /\ (k - 1) + 1 = k /\ k - 1 >= m - 1 /\ ~(m - 1 >= 16)
      BY <2>3, <3>1, <3>2
    <3>4. k - 1 \in Halved(r)
      BY <3>3 DEF Halved
    <3> QED
      BY <2>1, <3>3, <3>4 DEF Marked
  <2> QED
    BY <2>2, <2>3
<1> QED
  BY <1>1, <1>2

LEMMA MarkStays8 ==
  ASSUME NEW r \in Words, NEW m \in Int, Marked(r, m)
  PROVE  Marked(Shift8(r), m - 8)
<1> DEFINE r1 == Shift(r)
           r2 == Shift(r1)
           r3 == Shift(r2)
           r4 == Shift(r3)
           r5 == Shift(r4)
           r6 == Shift(r5)
           r7 == Shift(r6)
           r8 == Shift(r7)
<1>1. \A x \in Words : Shift(x) \in Words
  BY ShiftLinear
<1>2. \A x \in Words : \A n \in Int : Marked(x, n) => Marked(Shift(x), n - 1)
  BY MarkStays
<1>3. Shift8(r) = r8
  BY DEF Shift8
<1>4. r1 \in Words /\ Marked(r1, m - 1)
  BY <1>1, <1>2
<1> HIDE DEF r1
<1>5. r2 \in Words /\ Marked(r2, m - 2)
  <2>1. m - 1 \in Int /\ (m - 1) - 1 = m - 2  OBVIOUS
  <2> QED  BY <1>1, <1>2, <1>4, <2>1
<1> HIDE DEF r2
<1>6. r3 \in Words /\ Marked(r3, m - 3)
  <2>1. m - 2 \in Int /\ (m - 2) - 1 = m - 3  OBVIOUS
  <2> QED  BY <1>1, <1>2, <1>5, <2>1
<1> HIDE DEF r3
<1>7. r4 \in Words /\ Marked(r4, m - 4)
  <2>1. m - 3 \in Int /\ (m - 3) - 1 = m - 4  OBVIOUS
  <2> QED  BY <1>1, <1>2, <1>6, <2>1
<1> HIDE DEF r4
<1>8. r5 \in Words /\ Marked(r5, m - 5)
  <2>1. m - 4 \in Int /\ (m - 4) - 1 = m - 5  OBVIOUS
  <2> QED  BY <1>1, <1>2, <1>7, <2>1
<1> HIDE DEF r5
<1>9. r6 \in Words /\ Marked(r6, m - 6)
  <2>1. m - 5 \in Int /\ (m - 5) - 1 = m - 6  OBVIOUS
  <2> QED  BY <1>1, <1>2, <1>8, <2>1
<1> HIDE DEF r6
<1>10. r7 \in Words /\ Marked(r7, m - 7)
  <2>1. m - 6 \in Int /\ (m - 6) - 1 = m - 7  OBVIOUS
  <2> QED  BY <1>1, <1>2, <1>9, <2>1
<1> HIDE DEF r7
<1>11. Marked(r8, m - 8)
  <2>1. m - 7 \in Int /\ (m - 7) - 1 = m - 8  OBVIOUS
  <2> QED  BY <1>1, <1>2, <1>10, <2>1
<1> QED
  BY <1>3, <1>11

(* By how much the two registers differ.                                   *)
Apart == Xor(Word(rx.L, rx.H), Word(tx.L, tx.H))

(* DamageDetected says that they do once the frame is damaged; what may    *)
(* still be damaged is too little to make up for it.                       *)
DamageInv ==
  /\ hit <= 8 * len
  /\ hit = 0 => rx = tx
  /\ hit > 0 => Marked(Apart, hit + 15 - 8 * len)

(* Which bytes make a word can be told from it.                            *)
LEMMA WordBytes ==
  ASSUME NEW g \in Octets, NEW h \in Octets, NEW x \in Octets, NEW y \in Octets,
         Word(g, h) = Word(x, y)
  PROVE  g = x /\ h = y
<1>1. ASSUME NEW k \in 0..7 PROVE (k \in h <=> k \in y) /\ (k \in g <=> k \in x)
  <2>1. k \in Word(g, h) <=> k \in h
    BY DEF Word
  <2>2. k \in Word(x, y) <=> k \in y
    BY DEF Word
  <2>3. k + 8 \in 8..15 /\ k + 8 \notin 0..7 /\ (k + 8) - 8 = k
    OBVIOUS
  <2>4. k + 8 \in Word(g, h) <=> k \in g
    BY <2>3 DEF Word, Octets
  <2>5. k + 8 \in Word(x, y) <=> k \in x
    BY <2>3 DEF Word, Octets
  <2> QED
    BY <2>1, <2>2, <2>4, <2>5
<1> QED
  BY <1>1 DEF Octets

LEMMA WordIn ==
  ASSUME NEW g \in Octets, NEW h \in Octets PROVE Word(g, h) \in Words
<1>1. h \in Words
  BY OctetsAreWords
<1>2. {k \in 8..15 : k - 8 \in g} \in Words
  BY DEF Words
<1> QED
  BY <1>1, <1>2 DEF Word, Words

LEMMA DamageStep ==
  ASSUME Burst <= 16
  PROVE  CrcType /\ DamageInv /\ [CrcNext]_crcVars => DamageInv'
<1> SUFFICES ASSUME CrcType, DamageInv, [CrcNext]_crcVars PROVE DamageInv'
  OBVIOUS
<1>1. CASE Transfer
  <2>1. PICK b \in Bytes, e \in Errors :
          /\ hit' = IF hit = 0 /\ e # {} THEN 8 * len + Lowest(e) + 1 ELSE hit
          /\ \A k \in e : 8 * len + k + 1 < hit' + Burst
          /\ tx' = Step(tx, b)
          /\ rx' = Step(rx, Xor(b, e))
    BY <1>1 DEF Transfer
  <2>2. b \in Octets /\ e \in Octets /\ Xor(b, e) \in Octets /\ e \in Words /\ b \in Words
    BY CrcAssumption, XorOctets, OctetsAreWords
  <2>3. len' = len + 1 /\ len \in Nat /\ hit \in Nat /\ Burst \in Nat /\ tx \in Crcs /\ rx \in Crcs
    BY <1>1, CrcAssumption DEF Transfer, CrcType
  <2> DEFINE x == Word(rx.L, rx.H)
             y == Word(tx.L, tx.H)
  <2>4. x \in Words /\ y \in Words /\ Apart = Xor(x, y)
    BY <2>3, WordIn DEF Crcs, Apart
  <2>5. Apart' = Shift8(Xor(Apart, e)) /\ Xor(Apart, e) \in Words
    <3>1. /\ Word(rx'.L, rx'.H) = Shift8(Xor(x, Xor(b, e)))
          /\ Word(tx'.L, tx'.H) = Shift8(Xor(y, b))
      BY <2>1, <2>2, <2>3, StepIsShift DEF Crcs
    <3> HIDE DEF x, y
    <3>2. Xor(x, Xor(b, e)) \in Words /\ Xor(y, b) \in Words /\ Xor(x, y) \in Words
      BY <2>2, <2>4, OctetsAreWords, ShiftLinear
    <3>3. Xor(Xor(x, Xor(b, e)), Xor(y, b)) = Xor(Xor(x, y), e)
      BY DEF Xor
    <3>4. Shift8(Xor(Xor(x, Xor(b, e)), Xor(y, b))) = Apart'
      BY <3>1, <3>2, Shift8Linear DEF Apart
    <3>5. Xor(Xor(x, y), e) \in Words
      BY <2>2, <3>2, ShiftLinear
    <3> QED
      BY <2>4, <3>3, <3>4, <3>5
  <2>6. CASE hit = 0 /\ e = {}
    <3>1. Xor(b, e) = b
      BY <2>6 DEF Xor
    <3> QED
      BY <2>1, <2>3, <2>6, <3>1 DEF DamageInv
  <2>7. CASE hit = 0 /\ e # {}
    <3>1. Lowest(e) \in e /\ \A i \in e : Lowest(e) <= i
      BY <2>2, <2>7, LowestBit
    <3>2. Lowest(e) \in 0..7
      BY <2>2, <3>1 DEF Octets
    <3>3. hit' = 8 * len + Lowest(e) + 1 /\ hit' > 0 /\ hit' <= 8 * len'
      BY <2>1, <2>3, <2>7, <3>2
    <3>4. Xor(Apart, e) = e
      <4>1. Apart = {}
        BY <2>7 DEF DamageInv, Apart, Xor
      <4> QED
        BY <4>1 DEF Xor
    <3>5. Marked(e, Lowest(e) + 16)
      <4>1. Lowest(e) + 16 >= 16 /\ (Lowest(e) + 16) - 16 = Lowest(e)
        BY <3>2
      <4>2. \A k \in e : k >= Lowest(e)
        <5>1. \A k \in e : k \in 0..7
          BY <2>2 DEF Octets
        <5> QED
          BY <3>1, <3>2, <5>1
      <4> QED
        BY <3>1, <4>1, <4>2 DEF Marked
    <3>6. Marked(Apart', (Lowest(e) + 16) - 8)
      <4>1. Lowest(e) + 16 \in Int
        BY <3>2
      <4> QED
        BY <2>2, <2>5, <3>4, <3>5, <4>1, MarkStays8
    <3>7. hit' + 15 - 8 * len' = (Lowest(e) + 16) - 8
      BY <2>3, <3>2, <3>3
    <3> QED
      BY <3>3, <3>6, <3>7 DEF DamageInv
  <2>8. CASE hit > 0
    <3> DEFINE m == hit + 15 - 8 * len
    <3>1. m \in Int /\ ~(m >= 16) /\ hit' = hit /\ Marked(Apart, m)
      BY <2>1, <2>3, <2>8 DEF DamageInv
    <3>2. PICK k \in Apart : k >= m
      BY <3>1 DEF Marked
    <3>3. k \in 0..15
      BY <2>4, ShiftLinear DEF Words
    <3>4. k \notin e
      <4>1. k \in e => 8 * len + k + 1 < hit + Burst
        BY <2>1, <3>1
      <4> QED
        BY <2>3, <3>2, <3>3, <4>1
    <3>5. k \in Xor(Apart, e)
      BY <3>4 DEF Xor
    <3> HIDE DEF m
    <3>6. Marked(Xor(Apart, e), m)
      BY <3>1, <3>2, <3>5 DEF Marked
    <3>7. Marked(Apart', m - 8)
      BY <2>5, <3>1, <3>6, MarkStays8
    <3>8. m - 8 = hit' + 15 - 8 * len' /\ hit' <= 8 * len' /\ hit' # 0
      BY <2>3, <2>8, <3>1 DEF DamageInv, m
    <3> QED
      BY <3>7, <3>8 DEF DamageInv
  <2> QED
    BY <2>3, <2>6, <2>7, <2>8
<1>2. CASE UNCHANGED crcVars
  BY <1>2 DEF crcVars, DamageInv, Apart
<1> QED
  BY <1>1, <1>2 DEF CrcNext

(* No damage within 16 bits of the bytes the CRC covers passes check_crc,  *)
(* whatever their number, and no sound frame is refused (DamageDetected).  *)
(* With 17 the property fails: the polynomial itself is such a damage.     *)
THEOREM DamageCorrect == Burst <= 16 => (CrcSpec => []DamageDetected)
<1> SUFFICES ASSUME Burst <= 16 PROVE CrcSpec => []DamageDetected
  OBVIOUS
<1>1. CrcInit => DamageInv
  BY DEF CrcInit, DamageInv
<1>2. CrcType /\ DamageInv => DamageDetected
  <2> SUFFICES ASSUME CrcType, DamageInv PROVE DamageDetected
    OBVIOUS
  <2>1. /\ rx.H \in Octets /\ rx.L \in Octets /\ tx.H \in Octets /\ tx.L \in Octets
        /\ len \in Nat /\ hit \in Nat
    BY DEF CrcType, Crcs
  <2>2. CASE hit = 0
    BY <2>2 DEF DamageInv, DamageDetected, CheckCrc
  <2>3. CASE hit > 0
    <3>1. ~(hit + 15 - 8 * len >= 16)
      BY <2>1 DEF DamageInv
    <3>2. Apart # {}
      BY <2>3, <3>1 DEF DamageInv, Marked
    <3>3. CheckCrc => Apart = {}
      <4> SUFFICES ASSUME CheckCrc PROVE Apart = {}
        OBVIOUS
      <4>1. rx.H = tx.H /\ rx.L = tx.L
        BY <2>1, WordBytes DEF CheckCrc, Value
      <4> QED
        BY <4>1 DEF Apart, Xor
    <3> QED
      BY <2>3, <3>2, <3>3 DEF DamageDetected
  <2> QED
    BY <2>1, <2>2, <2>3
<1> QED
  BY <1>1, <1>2, CrcTyped, CrcTypeStep, DamageStep, PTL DEF CrcSpec
=============================================================================
