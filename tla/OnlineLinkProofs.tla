--------------------------- MODULE OnlineLinkProofs ---------------------------
(***************************************************************************)
(* What recv_online_frame returns, and what a call of it can cost, for     *)
(* payloads of any length and content, any number of frames and calls, any *)
(* damage to the line and deadlines anywhere.                              *)
(***************************************************************************)
EXTENDS OnlineLink, SequenceTheorems, FiniteSetTheorems, TLAPS

Units == [seq : Nat, pos : Nat, val : Values \cup {"header"}, ok : BOOLEAN]

(* An unharmed unit of the header has the value that belongs there, and    *)
(* nothing else has that of cmdId and frameLen.                            *)
Legible(u) ==
  /\ u.val = "header" => u.pos = 3
  /\ u.ok => /\ u.pos = 1 => u.val = "55"
             /\ u.pos = 2 => u.val = "AA"
             /\ u.pos = 3 => u.val = "header"

(* Units of the n-th frame, in their order.                                *)
PartOf(n, units) ==
  /\ units \in Seq(Units)
  /\ \A i \in 1..Len(units) :
       units[i].seq = n /\ units[i].pos \in 1..FrameLen /\ Legible(units[i])
  /\ \A i, j \in 1..Len(units) : i < j => units[i].pos < units[j].pos

(* The n-th frame as it is sent.                                           *)
WholeFrame(n, f) ==
  /\ f \in Seq(Units) /\ Len(f) = FrameLen
  /\ \A p \in 1..FrameLen : /\ f[p].seq = n /\ f[p].pos = p /\ f[p].ok
                            /\ f[p].val = "header" => p = 3
                            /\ p = 1 => f[p].val = "55"
                            /\ p = 2 => f[p].val = "AA"
                            /\ p = 3 => f[p].val = "header"

(* The line carries what is left of the frames, one after another.         *)
LineInv ==
  /\ frames \in Seq({"data", "ack"})
  /\ line \in Seq(Units)
  /\ taken \in 0..Len(line)
  /\ \A i \in 1..Len(line) : /\ line[i].seq \in 1..Len(frames)
                             /\ line[i].pos \in 1..FrameLen
                             /\ Legible(line[i])
  /\ \A i, j \in 1..Len(line) :
       i < j => \/ line[i].seq < line[j].seq
                \/ line[i].seq = line[j].seq /\ line[i].pos < line[j].pos

LastSeq == IF accepted = <<>> THEN 0 ELSE accepted[Len(accepted)]

(* Where the call under way is in the stream.                              *)
CallInv ==
  /\ start \in 0..taken /\ sync \in Nat
  /\ pc \in {"idle", "hunt", "header", "tail"}
  /\ pc = "hunt" => /\ state \in {0, 1}
                    /\ state = 1 => sync = taken /\ sync > start /\ line[sync].val = "55"
  /\ pc = "header" => /\ sync > start /\ taken = sync + 1
                      /\ line[sync].val = "55" /\ line[sync + 1].val = "AA"
  /\ pc = "tail" => /\ sync > start
                    /\ hdr.len \in Nat /\ pos \in 0..hdr.len
                    /\ taken = sync + 2 + pos
                    /\ hdr.cmd # "none" => hdr.cmd = frames[line[sync + 2].seq]

(* All that this call has read, and all that is still to be read, is of    *)
(* frames younger than the last one returned.                              *)
HostInv ==
  /\ accepted \in Seq(Nat \ {0})
  /\ \A i \in 1..Len(accepted) :
       \E k \in 1..taken : /\ k + FrameLen - 1 <= taken /\ FrameAt(k)
                            /\ line[k].seq = accepted[i] /\ frames[accepted[i]] = "data"
  /\ \A i, j \in 1..Len(accepted) : i < j => accepted[i] < accepted[j]
  /\ \A j \in 1..Len(line) :
       j > (IF pc = "idle" THEN taken ELSE start) => line[j].seq > LastSeq

(* What the call has read is the beginning of a frame, and nothing else.   *)
InStep ==
  \A p \in 1..FrameLen :
    start + p <= taken =>
      LET u == line[start + p] IN u.ok /\ u.pos = p /\ u.seq = line[start + 1].seq

(* Then the phase of the call is that of the place in the frame.           *)
StepInv ==
  InStep =>
    /\ pc = "hunt" => \/ taken = start /\ state = 0
                      \/ taken = start + 1 /\ state = 1 /\ sync = start + 1
    /\ pc = "header" => taken = start + 2 /\ sync = start + 1
    /\ pc = "tail" => /\ sync = start + 1
                      /\ hdr = [cmd |-> frames[line[start + 1].seq], len |-> FrameLen - 3]
    /\ pc = "idle" /\ calls > 0 /\ (taken > start => frames[line[start + 1].seq] = "data")
       => \/ result = "deadline"
          \/ /\ result = "frame" /\ taken > start /\ accepted # <<>>
             /\ LastSeq = line[start + 1].seq

(* A faultless line is whole frames, all of them.                          *)
WholeLine ==
  /\ \A i \in 1..Len(line) : line[i].ok /\ (line[i].pos = 1 => FrameAt(i))
  /\ line # <<>> => line[1].seq = 1 /\ line[1].pos = 1
  /\ \A i, j \in 1..Len(line) :
       j = i + 1 => \/ line[j].seq = line[i].seq
                    \/ line[j].seq = line[i].seq + 1 /\ line[j].pos = 1
  /\ IF line = <<>> THEN frames = <<>>
     ELSE line[Len(line)].seq = Len(frames)

(* The frames of which something has been read when t units have.          *)
Begun(t) == IF t = 0 THEN 0 ELSE line[t].seq

(* Each call begins one frame at most.                                     *)
BegunInv ==
  /\ pc = "idle" => Begun(taken) <= failed + Len(accepted)
  /\ pc # "idle" => /\ Begun(start) <= failed + Len(accepted)
                    /\ Begun(taken) <= Begun(start) + 1
  /\ pc = "hunt" /\ Begun(taken) = Begun(start) + 1 => line[taken].pos = 1 /\ state = 1
  /\ pc \in {"header", "tail"} => line[sync].pos = 1
  /\ pc = "tail" => hdr.len = FrameLen - 3

LossInv ==
  /\ faults \in Nat /\ failed \in Nat
  /\ faults = 0 => WholeLine
  /\ faults = 0 /\ ~Imitated => BegunInv
-----------------------------------------------------------------------------
LEMMA TailLen ==
  /\ FrameLen \in Nat /\ FrameLen >= 3
  /\ \A t \in Tails : t \in Seq(Values) /\ Len(t) = FrameLen - 3
<1> DEFINE t0 == CHOOSE t \in Tails : TRUE
<1>1. t0 \in Tails
  BY OnlineAssumption
<1>2. FrameLen = 3 + Len(t0)
  BY DEF FrameLen
<1> HIDE DEF t0
<1>3. \A t \in Tails : t \in Seq(Values) /\ Len(t) = Len(t0)
  BY <1>1, OnlineAssumption
<1>4. Len(t0) \in Nat
  BY <1>1, <1>3
<1> QED
  BY <1>2, <1>3, <1>4

LEMMA FrameUnits ==
  ASSUME NEW t \in Tails, NEW n \in Nat
  PROVE  WholeFrame(n, Frame(t, n))
<1> DEFINE head == <<"55", "AA", "header">>
           values == head \o t
           f == Frame(t, n)
           V == Values \cup {"header"}
<1>1. FrameLen \in Nat /\ FrameLen >= 3 /\ t \in Seq(Values) /\ Len(t) = FrameLen - 3
  BY TailLen
<1>2. /\ head \in Seq(V) /\ Len(head) = 3
      /\ head[1] = "55" /\ head[2] = "AA" /\ head[3] = "header"
  BY DEF Values
<1> HIDE DEF head
<1>3. t \in Seq(V) /\ \A i \in 1..(FrameLen - 3) : t[i] \in Values
  BY <1>1
<1>4. \A i \in 1..(Len(head) + Len(t)) :
        values[i] = IF i <= Len(head) THEN head[i] ELSE t[i - Len(head)]
  BY <1>2, <1>3, ConcatProperties
<1> HIDE DEF values
<1>5. ASSUME NEW p \in 1..FrameLen
      PROVE  values[p] = IF p <= 3 THEN head[p] ELSE t[p - 3]
  BY <1>1, <1>2, <1>4
<1>6. ASSUME NEW p \in 1..FrameLen, p > 3
      PROVE  values[p] \in Values
  <2>1. p - 3 \in 1..(FrameLen - 3)
    BY <1>1, <1>6
  <2> QED
    BY <1>3, <1>5, <1>6, <2>1
<1>7. ASSUME NEW p \in 1..FrameLen
      PROVE  /\ values[p] \in V
             /\ values[p] = "header" => p = 3
             /\ p = 1 => values[p] = "55"
             /\ p = 2 => values[p] = "AA"
             /\ p = 3 => values[p] = "header"
  <2>1. CASE p > 3
    BY <1>6, <2>1 DEF Values
  <2>2. CASE p = 1 \/ p = 2 \/ p = 3
    BY <1>2, <1>5, <2>2 DEF Values
  <2> QED
    BY <1>1, <2>1, <2>2
<1>8. f = [p \in 1..FrameLen |-> [seq |-> n, pos |-> p, val |-> values[p], ok |-> TRUE]]
  BY DEF Frame, values, head
<1> HIDE DEF f
<1>9. f \in [1..FrameLen -> Units]
  BY <1>1, <1>7, <1>8 DEF Units
<1>10. f \in Seq(Units) /\ Len(f) = FrameLen
  BY <1>1, <1>9
<1>11. \A p \in 1..FrameLen :
         f[p].seq = n /\ f[p].pos = p /\ f[p].ok /\ f[p].val = values[p]
  BY <1>8
<1> QED
  BY <1>7, <1>10, <1>11 DEF f, WholeFrame

(* What PushFaulty puts on the line.                                       *)
LEMMA FrameParts ==
  ASSUME NEW n \in Nat, NEW f, WholeFrame(n, f)
  PROVE  /\ PartOf(n, f)
         /\ \A p \in 1..FrameLen :
              /\ PartOf(n, SubSeq(f, 1, p - 1) \o SubSeq(f, p + 1, FrameLen))
              /\ \A v \in IF p = 3 THEN {"header"} ELSE (Values \ {f[p].val}) \cup {"other"} :
                   PartOf(n, [f EXCEPT ![p].ok = FALSE, ![p].val = v])
<1> DEFINE k == FrameLen
<1>1. k \in Nat /\ k >= 3
  BY TailLen
<1>2. f \in Seq(Units) /\ Len(f) = k
  BY DEF WholeFrame
<1>3. ASSUME NEW p \in 1..k PROVE f[p].seq = n /\ f[p].pos = p /\ Legible(f[p])
  <2>1. /\ f[p].seq = n /\ f[p].pos = p
        /\ f[p].val = "header" => p = 3
        /\ p = 1 => f[p].val = "55"
        /\ p = 2 => f[p].val = "AA"
        /\ p = 3 => f[p].val = "header"
    BY DEF WholeFrame, k
  <2> QED
    BY <2>1 DEF Legible
<1> HIDE DEF k
<1>m. ASSUME NEW i \in 1..k PROVE f[i] \in Units
  BY <1>2
<1>4. PartOf(n, f)
  BY <1>1, <1>2, <1>3 DEF PartOf, k
<1>5. ASSUME NEW p \in 1..k
      PROVE  PartOf(n, SubSeq(f, 1, p - 1) \o SubSeq(f, p + 1, k))
  <2> DEFINE a == SubSeq(f, 1, p - 1)
             b == SubSeq(f, p + 1, k)
             g == a \o b
  <2>1. a \in Seq(Units) /\ Len(a) = p - 1 /\ \A i \in 1..(p - 1) : a[i] = f[i]
    <3>1. 1 \in Int /\ p - 1 \in Int /\ \A i \in 1..(p - 1) : f[i] \in Units
      BY <1>1, <1>m
    <3>2. /\ SubSeq(f, 1, p - 1) \in Seq(Units)
          /\ Len(SubSeq(f, 1, p - 1)) = IF 1 <= p - 1 THEN (p - 1) - 1 + 1 ELSE 0
          /\ \A i \in 1..((p - 1) - 1 + 1) : SubSeq(f, 1, p - 1)[i] = f[1 + i - 1]
      BY <3>1, SubSeqProperties
    <3> QED
      BY <1>1, <3>2
  <2>2. b \in Seq(Units) /\ Len(b) = k - p /\ \A i \in 1..(k - p) : b[i] = f[p + i]
    <3>1. p + 1 \in Int /\ k \in Int /\ \A i \in (p + 1)..k : f[i] \in Units
      BY <1>1, <1>m
    <3>2. /\ SubSeq(f, p + 1, k) \in Seq(Units)
          /\ Len(SubSeq(f, p + 1, k)) = IF p + 1 <= k THEN k - (p + 1) + 1 ELSE 0
          /\ \A i \in 1..(k - (p + 1) + 1) : SubSeq(f, p + 1, k)[i] = f[(p + 1) + i - 1]
      BY <3>1, SubSeqProperties
    <3> QED
      BY <1>1, <3>2
  <2> HIDE DEF a, b
  <2>3. /\ g \in Seq(Units) /\ Len(g) = k - 1
        /\ \A i \in 1..(k - 1) : g[i] = IF i < p THEN f[i] ELSE f[i + 1]
    <3>1. /\ g \in Seq(Units) /\ Len(g) = Len(a) + Len(b)
          /\ \A i \in 1..(Len(a) + Len(b)) : g[i] = IF i <= Len(a) THEN a[i] ELSE b[i - Len(a)]
      BY <2>1, <2>2, ConcatProperties
    <3> HIDE DEF g
    <3>2. ASSUME NEW i \in 1..(k - 1) PROVE g[i] = IF i < p THEN f[i] ELSE f[i + 1]
      <4>1. CASE i < p
        BY <1>1, <2>1, <2>2, <3>1, <4>1
      <4>2. CASE i >= p
        <5>1. g[i] = b[i - (p - 1)] /\ i - (p - 1) \in 1..(k - p) /\ p + (i - (p - 1)) = i + 1
          BY <1>1, <2>1, <2>2, <3>1, <4>2
        <5> QED
          BY <1>1, <2>2, <4>2, <5>1
      <4> QED
        BY <1>1, <4>1, <4>2
    <3> QED
      BY SMTT(40), <1>1, <2>1, <2>2, <3>1, <3>2
  <2> HIDE DEF g
  <2>4. ASSUME NEW i \in 1..(k - 1)
        PROVE  g[i].seq = n /\ g[i].pos = (IF i < p THEN i ELSE i + 1) /\ Legible(g[i])
    <3>1. i \in 1..k /\ i + 1 \in 1..k
      BY <1>1
    <3> QED
      BY <1>3, <2>3, <3>1
  <2>5. PartOf(n, g)
    BY <1>1, <2>3, <2>4 DEF PartOf, k
  <2> QED
    BY <2>5 DEF g, a, b
<1>6. ASSUME NEW p \in 1..k,
             NEW v \in IF p = 3 THEN {"header"} ELSE (Values \ {f[p].val}) \cup {"other"}
      PROVE  PartOf(n, [f EXCEPT ![p].ok = FALSE, ![p].val = v])
  <2> DEFINE g == [f EXCEPT ![p].ok = FALSE, ![p].val = v]
             x == [f[p] EXCEPT !.ok = FALSE, !.val = v]
  <2>v. v \in Values \cup {"header"} /\ (v = "header" => p = 3)
    BY DEF Values
  <2>1. x \in Units /\ p \in 1..Len(f) /\ x.seq = f[p].seq /\ x.pos = f[p].pos
        /\ x.ok = FALSE /\ x.val = v
    BY <1>2, <1>m, <2>v DEF Units
  <2>2. g = [f EXCEPT ![p] = x]
    BY <1>2
  <2> HIDE DEF g, x
  <2>3. /\ g \in Seq(Units) /\ Len(g) = k
        /\ \A i \in 1..k : g[i] = IF i = p THEN x ELSE f[i]
    BY <1>2, <2>1, <2>2, ExceptSeq
  <2>4. ASSUME NEW i \in 1..k PROVE g[i].seq = n /\ g[i].pos = i /\ Legible(g[i])
    <3>1. CASE i = p
      BY <1>3, <2>v, <2>1, <2>3, <3>1 DEF Legible
    <3>2. CASE i # p
      BY <1>3, <2>3, <3>2
    <3> QED
      BY <3>1, <3>2
  <2>5. PartOf(n, g)
    BY <1>1, <2>3, <2>4 DEF PartOf, k
  <2> QED
    BY <2>5 DEF g
<1> QED
  BY <1>4, <1>5, <1>6 DEF k
-----------------------------------------------------------------------------
(* A frame, or what is left of it, is put behind the others.               *)
LEMMA Extended ==
  ASSUME LineInv, NEW n \in Nat, n = Len(frames) + 1, NEW cmd, cmd \in {"data", "ack"},
         NEW units, PartOf(n, units), Send(cmd, units)
  PROVE  /\ frames' \in Seq({"data", "ack"}) /\ Len(frames') = n
         /\ \A i \in 1..Len(frames) : frames'[i] = frames[i]
         /\ line' \in Seq(Units) /\ Len(line') = Len(line) + Len(units)
         /\ \A i \in 1..Len(line) : line'[i] = line[i]
         /\ \A i \in 1..Len(line') :
              i > Len(line) => /\ i - Len(line) \in 1..Len(units)
                               /\ line'[i] = units[i - Len(line)] /\ line'[i].seq = n
         /\ Len(line) \in Nat /\ Len(units) \in Nat /\ Len(frames) \in Nat
         /\ UNCHANGED <<taken, call, account>>
<1>1. /\ frames \in Seq({"data", "ack"}) /\ line \in Seq(Units) /\ units \in Seq(Units)
  BY DEF LineInv, PartOf
<1>2. frames' = Append(frames, cmd) /\ line' = line \o units /\ UNCHANGED <<taken, call, account>>
  BY DEF Send
<1>3. /\ frames' \in Seq({"data", "ack"}) /\ Len(frames') = Len(frames) + 1
      /\ \A i \in 1..Len(frames) : frames'[i] = frames[i]
  BY <1>1, <1>2, AppendProperties
<1>4. /\ line' \in Seq(Units) /\ Len(line') = Len(line) + Len(units)
      /\ \A i \in 1..(Len(line) + Len(units)) :
           line'[i] = IF i <= Len(line) THEN line[i] ELSE units[i - Len(line)]
  BY <1>1, <1>2, ConcatProperties
<1>5. Len(line) \in Nat /\ Len(units) \in Nat /\ Len(frames) \in Nat
  BY <1>1
<1>6. \A i \in 1..Len(line) : line'[i] = line[i]
  BY <1>4, <1>5
<1>7. ASSUME NEW i \in 1..Len(line'), i > Len(line)
      PROVE  /\ i - Len(line) \in 1..Len(units)
             /\ line'[i] = units[i - Len(line)] /\ line'[i].seq = n
  <2>1. i - Len(line) \in 1..Len(units) /\ line'[i] = units[i - Len(line)]
    BY <1>4, <1>5, <1>7
  <2> QED
    BY <2>1 DEF PartOf
<1> QED
  BY <1>2, <1>3, <1>4, <1>5, <1>6, <1>7

LEMMA FrameAtStays ==
  ASSUME LineInv, NEW i \in Nat \ {0}, FrameAt(i), Len(line') \in Nat, Len(line') >= Len(line),
         \A j \in 1..Len(line) : line'[j] = line[j]
  PROVE  FrameAt(i)' /\ line'[i].seq = line[i].seq /\ i \in 1..Len(line)
<1>1. FrameLen \in Nat /\ FrameLen >= 3 /\ Len(line) \in Nat
  BY TailLen DEF LineInv
<1>2. i + FrameLen - 1 <= Len(line)
  BY DEF FrameAt
<1>3. \A p \in 1..FrameLen : i + p - 1 \in 1..Len(line) /\ line'[i + p - 1] = line[i + p - 1]
  BY <1>1, <1>2
<1>4. i \in 1..Len(line) /\ line'[i] = line[i] /\ i + FrameLen - 1 <= Len(line')
  BY <1>1, <1>2
<1> QED
  BY <1>3, <1>4 DEF FrameAt

LEMMA LastSeqType ==
  ASSUME LineInv, CallInv, HostInv
  PROVE  LastSeq \in 0..Len(frames) /\ \A i \in 1..Len(accepted) : accepted[i] \in 1..Len(frames)
<1>1. FrameLen \in Nat /\ FrameLen >= 3 /\ taken \in 0..Len(line) /\ Len(line) \in Nat
      /\ Len(frames) \in Nat
  BY TailLen DEF LineInv
<1>2. ASSUME NEW i \in 1..Len(accepted) PROVE accepted[i] \in 1..Len(frames)
  <2>1. PICK k \in 1..taken : line[k].seq = accepted[i]
    BY DEF HostInv
  <2>2. k \in 1..Len(line)
    BY <1>1, <2>1
  <2> QED
    BY <2>1, <2>2 DEF LineInv
<1>3. accepted # <<>> => Len(accepted) \in 1..Len(accepted)
  BY DEF HostInv
<1> QED
  BY <1>1, <1>2, <1>3 DEF LastSeq

LEMMA SendLine ==
  ASSUME LineInv, NEW n \in Nat, n = Len(frames) + 1, NEW cmd, cmd \in {"data", "ack"},
         NEW units, PartOf(n, units), Send(cmd, units)
  PROVE  LineInv'
<1> DEFINE u == Len(line)
<1>1. /\ frames' \in Seq({"data", "ack"}) /\ Len(frames') = n
      /\ line' \in Seq(Units) /\ Len(line') = u + Len(units)
      /\ \A i \in 1..u : line'[i] = line[i]
      /\ \A i \in 1..Len(line') :
           i > u => i - u \in 1..Len(units) /\ line'[i] = units[i - u] /\ line'[i].seq = n
      /\ u \in Nat /\ Len(units) \in Nat /\ Len(frames) \in Nat
      /\ taken' = taken
  BY Extended
<1>2. \A i \in 1..u : line[i].seq \in 1..Len(frames) /\ line[i].pos \in 1..FrameLen
                      /\ Legible(line[i])
  BY DEF LineInv, u
<1> HIDE DEF u
<1>3. ASSUME NEW i \in 1..Len(line')
      PROVE  /\ line'[i].seq \in 1..n /\ line'[i].pos \in 1..FrameLen /\ Legible(line'[i])
             /\ i <= u => line'[i].seq < n
  <2>1. CASE i <= u
    <3>1. i \in 1..u
      BY <1>1, <2>1
    <3>2. line'[i] = line[i] /\ line[i].seq \in 1..Len(frames)
          /\ line[i].pos \in 1..FrameLen /\ Legible(line[i])
      BY <1>1, <1>2, <3>1
    <3> QED
      BY <1>1, <3>2
  <2>2. CASE i > u
    <3>1. i - u \in 1..Len(units) /\ line'[i] = units[i - u] /\ line'[i].seq = n
      BY <1>1, <2>2
    <3>2. units[i - u].pos \in 1..FrameLen /\ Legible(units[i - u])
      BY <3>1 DEF PartOf
    <3>3. n \in 1..n
      BY <1>1
    <3> QED
      BY <2>2, <3>1, <3>2, <3>3, <1>1
  <2> QED
    BY <1>1, <2>1, <2>2
<1>4. ASSUME NEW i \in 1..Len(line'), NEW j \in 1..Len(line'), i < j
      PROVE  \/ line'[i].seq < line'[j].seq
             \/ line'[i].seq = line'[j].seq /\ line'[i].pos < line'[j].pos
  <2>1. CASE j <= u
    <3>1. i \in 1..u /\ j \in 1..u
      BY <1>1, <1>4, <2>1
    <3>2. \/ line[i].seq < line[j].seq
          \/ line[i].seq = line[j].seq /\ line[i].pos < line[j].pos
      BY <1>4, <3>1 DEF LineInv, u
    <3> QED
      BY <1>1, <3>1, <3>2
  <2>2. CASE j > u /\ i <= u
    BY <1>1, <1>3, <2>2
  <2>3. CASE j > u /\ i > u
    <3>1. /\ i - u \in 1..Len(units) /\ line'[i] = units[i - u] /\ line'[i].seq = n
          /\ j - u \in 1..Len(units) /\ line'[j] = units[j - u] /\ line'[j].seq = n
      BY <1>1, <2>3
    <3>2. i - u < j - u
      BY <1>1, <1>4
    <3>3. units[i - u].pos < units[j - u].pos
      BY <3>1, <3>2 DEF PartOf
    <3> QED
      BY <3>1, <3>3
  <2> QED
    BY <1>1, <2>1, <2>2, <2>3
<1>5. taken' \in 0..Len(line')
  BY <1>1 DEF LineInv, u
<1> QED
  BY <1>1, <1>3, <1>4, <1>5 DEF LineInv

LEMMA SendHost ==
  ASSUME LineInv, CallInv, HostInv, StepInv,
         NEW n \in Nat, n = Len(frames) + 1, NEW cmd, cmd \in {"data", "ack"},
         NEW units, PartOf(n, units), Send(cmd, units)
  PROVE  CallInv' /\ HostInv' /\ StepInv'
<1> DEFINE u == Len(line)
<1>1. /\ Len(frames') = n /\ \A i \in 1..Len(frames) : frames'[i] = frames[i]
      /\ Len(line') \in Nat /\ Len(line') >= u
      /\ \A i \in 1..u : line'[i] = line[i]
      /\ \A i \in 1..Len(line') : i > u => line'[i].seq = n
      /\ u \in Nat /\ Len(frames) \in Nat
      /\ taken' = taken /\ UNCHANGED <<call, account>>
  <2>1. /\ Len(frames') = n /\ \A i \in 1..Len(frames) : frames'[i] = frames[i]
        /\ Len(line') = Len(line) + Len(units)
        /\ \A i \in 1..Len(line) : line'[i] = line[i]
        /\ \A i \in 1..Len(line') : i > Len(line) => line'[i].seq = n
        /\ Len(line) \in Nat /\ Len(units) \in Nat /\ Len(frames) \in Nat
        /\ UNCHANGED <<taken, call, account>>
    BY Extended
  <2> QED
    BY <2>1
<1>2. UNCHANGED <<pc, state, sync, hdr, pos, start, result, accepted, calls, failed>>
  BY <1>1 DEF call, account
<1>3. taken \in 0..u /\ start \in 0..taken
  BY DEF LineInv, CallInv, u
<1>4. \A i \in 1..u : line[i].seq \in 1..Len(frames)
  BY DEF LineInv, u
<1>5. FrameLen \in Nat /\ FrameLen >= 3
  BY TailLen
<1>6. \A i \in 1..u : line'[i] = line[i] /\ frames'[line[i].seq] = frames[line[i].seq]
  BY <1>1, <1>4
<1>7. CallInv'
  <2>1. CASE pc = "hunt"
    BY <1>2, <1>1, <1>3, <1>6, <2>1 DEF CallInv
  <2>2. CASE pc = "header"
    <3>1. sync \in 1..u /\ sync + 1 \in 1..u
      BY <1>1, <1>3, <2>2 DEF CallInv
    <3> QED
      BY <1>2, <1>1, <1>6, <2>2, <3>1 DEF CallInv
  <2>3. CASE pc = "tail"
    <3>1. sync + 2 \in 1..u
      BY <1>1, <1>3, <2>3 DEF CallInv
    <3> QED
      BY <1>2, <1>1, <1>6, <2>3, <3>1 DEF CallInv
  <2>4. CASE pc = "idle"
    BY <1>2, <1>1, <2>4 DEF CallInv
  <2> QED
    BY <2>1, <2>2, <2>3, <2>4 DEF CallInv
<1>8. HostInv'
  <2>1. ASSUME NEW i \in 1..Len(accepted)
        PROVE  \E k \in 1..taken :
                 /\ k + FrameLen - 1 <= taken /\ FrameAt(k)'
                 /\ line'[k].seq = accepted[i] /\ frames'[accepted[i]] = "data"
    <3>1. PICK k \in 1..taken :
            /\ k + FrameLen - 1 <= taken /\ FrameAt(k)
            /\ line[k].seq = accepted[i] /\ frames[accepted[i]] = "data"
      BY DEF HostInv
    <3>2. k \in Nat \ {0}
      BY <1>3, <1>5
    <3>3. FrameAt(k)' /\ line'[k].seq = line[k].seq /\ k \in 1..u
      BY <1>1, <3>1, <3>2, FrameAtStays
    <3>4. frames'[accepted[i]] = frames[accepted[i]]
      BY <1>6, <3>1, <3>3
    <3> QED
      BY <3>1, <3>3, <3>4
  <2>2. ASSUME NEW j \in 1..Len(line'), j > (IF pc = "idle" THEN taken ELSE start)
        PROVE  line'[j].seq > LastSeq
    <3>1. CASE j <= u
      <4>1. j \in 1..u
        BY <1>1, <3>1
      <4>2. line[j].seq > LastSeq
        BY <2>2, <4>1 DEF HostInv, u
      <4> QED
        BY <1>6, <4>1, <4>2
    <3>2. CASE j > u
      <4>1. LastSeq \in 0..Len(frames)
        BY LastSeqType
      <4> QED
        BY <1>1, <3>2, <4>1
    <3> QED
      BY <1>1, <3>1, <3>2
  <2>3. LastSeq' = LastSeq
    BY <1>2 DEF LastSeq
  <2> QED
    BY <1>1, <1>2, <2>1, <2>2, <2>3 DEF HostInv
<1>9. StepInv'
  <2>1. InStep' = InStep
    <3>1. ASSUME NEW p \in 1..FrameLen, start + p <= taken
          PROVE  line'[start + p] = line[start + p] /\ line'[start + 1] = line[start + 1]
      <4>1. start + p \in 1..u /\ start + 1 \in 1..u
        BY <1>1, <1>3, <1>5, <3>1
      <4> QED
        BY <1>6, <4>1
    <3> QED
      BY SMTT(40), <1>1, <1>2, <3>1 DEF InStep
  <2>2. LastSeq' = LastSeq
    BY <1>2 DEF LastSeq
  <2>3. taken > start => start + 1 \in 1..u
    BY <1>1, <1>3
  <2>4. pc = "tail" => taken > start
    BY <1>3 DEF CallInv
  <2>5. taken > start => /\ line'[start + 1] = line[start + 1]
                         /\ frames'[line'[start + 1].seq] = frames[line[start + 1].seq]
    BY <1>6, <2>3
  <2> QED
    BY <1>1, <1>2, <2>1, <2>2, <2>4, <2>5 DEF StepInv
<1> QED
  BY <1>7, <1>8, <1>9
-----------------------------------------------------------------------------
(* The call reads on, or ends without a frame.                             *)
LEMMA ReadOn ==
  ASSUME LineInv, CallInv, HostInv, pc # "idle",
         taken' \in taken..Len(line), UNCHANGED <<frames, line, start, accepted>>
  PROVE  LineInv' /\ HostInv' /\ start' \in 0..taken'
<1>1. taken \in Nat /\ Len(line) \in Nat /\ start \in 0..taken /\ FrameLen \in Nat
  BY TailLen DEF LineInv, CallInv
<1>2. taken' \in 0..Len(line) /\ taken' >= taken
  BY <1>1
<1>3. LineInv'
  BY <1>2 DEF LineInv
<1>4. \A k : FrameAt(k)' = FrameAt(k)
  BY DEF FrameAt
<1>5. ASSUME NEW k \in 1..taken, k + FrameLen - 1 <= taken
      PROVE  k \in 1..taken' /\ k + FrameLen - 1 <= taken'
  BY <1>1, <1>2, <1>5
<1>6. LastSeq' = LastSeq
  BY DEF LastSeq
<1>7. \A j \in 1..Len(line) : j > (IF pc = "idle" THEN taken ELSE start)' => line[j].seq > LastSeq
  BY <1>1, <1>2 DEF HostInv
<1>8. HostInv'
  BY <1>4, <1>5, <1>6, <1>7 DEF HostInv
<1> QED
  BY <1>1, <1>2, <1>3, <1>8

LEMMA InStepBefore ==
  ASSUME LineInv, CallInv, taken' \in taken..Len(line), UNCHANGED <<line, start>>, InStep'
  PROVE  /\ InStep
         /\ \A p \in 1..FrameLen : start + p <= taken' =>
              /\ line[start + p] \in Units /\ line[start + p].ok
              /\ line[start + p].pos = p /\ Legible(line[start + p])
              /\ line[start + p].seq = line[start + 1].seq
<1>1. taken \in Nat /\ Len(line) \in Nat /\ start \in Nat /\ FrameLen \in Nat
  BY TailLen DEF LineInv, CallInv
<1>2. taken' \in Nat /\ taken' >= taken /\ taken' <= Len(line)
  BY <1>1
<1>3. ASSUME NEW p \in 1..FrameLen, start + p <= taken'
      PROVE  /\ line[start + p] \in Units /\ line[start + p].ok
             /\ line[start + p].pos = p /\ Legible(line[start + p])
             /\ line[start + p].seq = line[start + 1].seq
  <2>1. start + p \in 1..Len(line)
    BY <1>1, <1>2, <1>3
  <2>2. line[start + p] \in Units /\ Legible(line[start + p])
    BY <2>1 DEF LineInv
  <2> QED
    BY <1>3, <2>2 DEF InStep
<1>4. ASSUME NEW p \in 1..FrameLen, start + p <= taken PROVE start + p <= taken'
  BY <1>1, <1>2, <1>4
<1>5. InStep
  BY <1>3, <1>4 DEF InStep
<1> QED
  BY <1>3, <1>5

LEMMA CallStep ==
  ASSUME LineInv, CallInv, HostInv, Call
  PROVE  LineInv' /\ CallInv' /\ HostInv' /\ StepInv'
<1>1. /\ pc = "idle" /\ pc' = "hunt" /\ state' = 0 /\ start' = taken
      /\ UNCHANGED <<frames, line, taken, sync, accepted>>
  BY DEF Call
<1>2. taken \in Nat
  BY DEF LineInv
<1>3. LineInv'
  BY <1>1 DEF LineInv
<1>4. CallInv'
  BY <1>1, <1>2 DEF CallInv
<1>5. \A k : FrameAt(k)' = FrameAt(k)
  BY <1>1 DEF FrameAt
<1>6. HostInv'
  BY <1>1, <1>5 DEF HostInv, LastSeq
<1>7. StepInv'
  BY <1>1 DEF StepInv
<1> QED
  BY <1>3, <1>4, <1>6, <1>7

LEMMA DeadlineStep ==
  ASSUME LineInv, CallInv, HostInv, Deadline
  PROVE  LineInv' /\ CallInv' /\ HostInv' /\ StepInv'
<1>1. /\ pc # "idle" /\ pc' = "idle" /\ result' = "deadline"
      /\ UNCHANGED <<frames, line, taken, sync, start, accepted>>
  BY DEF Deadline, Fail
<1>2. taken' \in taken..Len(line)
  BY <1>1 DEF LineInv
<1>3. LineInv' /\ HostInv' /\ start' \in 0..taken'
  BY <1>1, <1>2, ReadOn
<1>4. CallInv'
  BY <1>1, <1>3 DEF CallInv
<1>5. StepInv'
  BY <1>1 DEF StepInv
<1> QED
  BY <1>3, <1>4, <1>5

LEMMA HuntStep ==
  ASSUME LineInv, CallInv, HostInv, StepInv, Hunt
  PROVE  LineInv' /\ CallInv' /\ HostInv' /\ StepInv'
<1> DEFINE b == line[taken + 1].val
<1>1. /\ pc = "hunt" /\ taken < Len(line) /\ taken' = taken + 1
      /\ state' = (IF b = "55" THEN 1 ELSE 0)
      /\ sync' = (IF b = "55" THEN taken + 1 ELSE sync)
      /\ pc' = (IF state = 1 /\ b = "AA" THEN "header" ELSE "hunt")
      /\ UNCHANGED <<frames, line, hdr, start, result, accepted, calls>>
  BY DEF Hunt, account
<1>2. taken \in Nat /\ Len(line) \in Nat /\ start \in 0..taken
  BY DEF LineInv, CallInv
<1>3. taken' \in taken..Len(line)
  BY <1>1, <1>2
<1>4. LineInv' /\ HostInv' /\ start' \in 0..taken'
  BY <1>1, <1>3, ReadOn
<1>5. state \in {0, 1} /\ sync \in Nat
      /\ (state = 1 => sync = taken /\ sync > start /\ line[sync].val = "55")
  BY <1>1 DEF CallInv
<1>6. CallInv'
  <2>1. CASE b = "55"
    <3>1. pc' = "hunt" /\ state' = 1 /\ sync' = taken + 1 /\ line'[sync'].val = "55"
      BY <1>1, <2>1
    <3> QED
      BY <1>1, <1>2, <1>4, <3>1 DEF CallInv
  <2>2. CASE b # "55"
    BY <1>1, <1>2, <1>4, <1>5, <2>2 DEF CallInv
  <2> QED
    BY <2>1, <2>2
<1>7. StepInv'
  <2> SUFFICES ASSUME InStep' PROVE StepInv'
    BY DEF StepInv
  <2>1. /\ InStep
        /\ \A p \in 1..FrameLen : start + p <= taken' =>
             /\ line[start + p].ok /\ line[start + p].pos = p /\ Legible(line[start + p])
    BY <1>1, <1>3, InStepBefore
  <2>2. 1 \in 1..FrameLen /\ 2 \in 1..FrameLen
    BY TailLen
  <2>3. CASE taken = start /\ state = 0
    <3>1. line[start + 1].ok /\ line[start + 1].pos = 1 /\ Legible(line[start + 1])
      BY <1>1, <1>2, <2>1, <2>2, <2>3
    <3>2. b = "55"
      BY <2>3, <3>1 DEF Legible
    <3> QED
      BY <1>1, <2>3, <3>2 DEF StepInv
  <2>4. CASE taken = start + 1 /\ state = 1 /\ sync = start + 1
    <3>1. line[start + 2].ok /\ line[start + 2].pos = 2 /\ Legible(line[start + 2])
      BY <1>1, <1>2, <2>1, <2>2, <2>4
    <3>2. b = "AA"
      <4>1. taken + 1 = start + 2
        BY <1>2, <2>4
      <4> QED
        BY <3>1, <4>1 DEF Legible
    <3> QED
      BY <1>1, <1>2, <2>4, <3>2 DEF StepInv
  <2> QED
    BY <1>1, <2>1, <2>3, <2>4 DEF StepInv
<1> QED
  BY <1>4, <1>6, <1>7

LEMMA HeaderStep ==
  ASSUME LineInv, CallInv, HostInv, StepInv, Header
  PROVE  LineInv' /\ CallInv' /\ HostInv' /\ StepInv'
<1> DEFINE u == line[taken + 1]
<1>1. /\ pc = "header" /\ taken < Len(line) /\ taken' = taken + 1 /\ pos' = 0
      /\ UNCHANGED <<frames, line, sync, start, accepted>>
  BY DEF Header, account, Fail
<1>2. taken \in Nat /\ Len(line) \in Nat /\ start \in 0..taken /\ taken = sync + 1
      /\ sync > start /\ sync \in Nat
  BY <1>1 DEF LineInv, CallInv
<1>3. taken' \in taken..Len(line)
  BY <1>1, <1>2
<1>4. LineInv' /\ HostInv' /\ start' \in 0..taken'
  BY <1>1, <1>3, ReadOn
<1>5. \/ /\ u.val = "header" /\ u.ok /\ pc' = "tail"
         /\ hdr' = [cmd |-> frames[u.seq], len |-> FrameLen - 3]
      \/ /\ u.val # "header" \/ ~u.ok
         /\ pc' = "tail" /\ \E len \in 1..MaxTail : hdr' = [cmd |-> "none", len |-> len]
      \/ (u.val # "header" \/ ~u.ok) /\ pc' = "idle"
  BY DEF Header, Fail
<1>6. CallInv'
  <2>1. CASE /\ u.val = "header" /\ u.ok /\ pc' = "tail"
             /\ hdr' = [cmd |-> frames[u.seq], len |-> FrameLen - 3]
    <3>1. hdr'.len \in Nat /\ hdr'.cmd = frames[line[sync + 2].seq]
      BY <1>2, <2>1, TailLen
    <3> QED
      BY <1>1, <1>2, <1>4, <2>1, <3>1 DEF CallInv
  <2>2. CASE pc' = "tail" /\ \E len \in 1..MaxTail : hdr' = [cmd |-> "none", len |-> len]
    <3>1. hdr'.len \in Nat /\ hdr'.cmd = "none"
      BY <2>2
    <3> QED
      BY <1>1, <1>2, <1>4, <2>2, <3>1 DEF CallInv
  <2>3. CASE pc' = "idle"
    BY <1>1, <1>2, <1>4, <2>3 DEF CallInv
  <2> QED
    BY <1>5, <2>1, <2>2, <2>3
<1>7. StepInv'
  <2> SUFFICES ASSUME InStep' PROVE StepInv'
    BY DEF StepInv
  <2>1. /\ InStep
        /\ \A p \in 1..FrameLen : start + p <= taken' =>
             /\ line[start + p].ok /\ line[start + p].pos = p /\ Legible(line[start + p])
             /\ line[start + p].seq = line[start + 1].seq
    BY <1>1, <1>3, InStepBefore
  <2>2. taken = start + 2 /\ sync = start + 1
    BY <1>1, <2>1 DEF StepInv
  <2>3. 3 \in 1..FrameLen /\ start + 3 <= taken' /\ taken + 1 = start + 3
    BY <1>1, <1>2, <2>2, TailLen
  <2>4. u.ok /\ u.pos = 3 /\ Legible(u) /\ u.seq = line[start + 1].seq
    BY <2>1, <2>3
  <2>5. u.val = "header"
    BY <2>4 DEF Legible
  <2>6. pc' = "tail" /\ hdr' = [cmd |-> frames[line[start + 1].seq], len |-> FrameLen - 3]
    BY <1>5, <2>4, <2>5
  <2> QED
    BY <1>1, <2>2, <2>6 DEF StepInv
<1> QED
  BY <1>4, <1>6, <1>7

LEMMA ReadTailStep ==
  ASSUME LineInv, CallInv, HostInv, StepInv, ReadTail
  PROVE  LineInv' /\ CallInv' /\ HostInv' /\ StepInv'
<1>1. PICK n \in 1..(hdr.len - pos) :
        /\ taken + n <= Len(line) /\ taken' = taken + n /\ pos' = pos + n
  BY DEF ReadTail
<1>2. /\ pc = "tail" /\ UNCHANGED <<frames, line, pc, sync, hdr, start, result, accepted, calls>>
  BY DEF ReadTail, account
<1>3. taken \in Nat /\ Len(line) \in Nat /\ hdr.len \in Nat /\ pos \in 0..hdr.len /\ n \in Nat
      /\ taken = sync + 2 + pos /\ sync \in Nat
  BY <1>2 DEF LineInv, CallInv
<1>4. taken' \in taken..Len(line)
  BY <1>1, <1>3
<1>5. LineInv' /\ HostInv' /\ start' \in 0..taken'
  BY <1>2, <1>4, ReadOn
<1>6. CallInv'
  <2>1. pos' \in 0..hdr.len /\ taken' = sync + 2 + pos'
    BY <1>1, <1>3
  <2> QED
    BY <1>2, <1>5, <2>1 DEF CallInv
<1>7. StepInv'
  <2> SUFFICES ASSUME InStep' PROVE StepInv'
    BY DEF StepInv
  <2>1. InStep
    BY <1>2, <1>4, InStepBefore
  <2> QED
    BY <1>2, <2>1 DEF StepInv
<1> QED
  BY <1>5, <1>6, <1>7

(* A frame passes the CRC: it is younger than those returned before, and   *)
(* nothing of it is left.                                                  *)
LEMMA CrcStep ==
  ASSUME LineInv, CallInv, HostInv, pc = "tail", CrcOk, hdr.cmd = "data"
  PROVE  LET b == line[sync].seq IN
         /\ sync \in 1..taken /\ sync + FrameLen - 1 <= taken /\ FrameAt(sync)
         /\ b \in Nat \ {0} /\ frames[b] = "data" /\ b > LastSeq
         /\ \A j \in 1..Len(line) : j > taken => line[j].seq > b
<1> DEFINE b == line[sync].seq
<1>1. FrameLen \in Nat /\ FrameLen >= 3 /\ taken \in 0..Len(line) /\ Len(line) \in Nat
      /\ start \in 0..taken /\ sync \in Nat /\ sync > start /\ Len(frames) \in Nat
  BY TailLen DEF LineInv, CallInv
<1>2. taken = sync + FrameLen - 1 /\ FrameAt(sync)
  BY DEF CrcOk
<1>3. /\ sync \in 1..taken /\ sync \in 1..Len(line) /\ taken \in 1..Len(line)
      /\ sync + FrameLen - 1 <= taken
  BY <1>1, <1>2
<1>4. 3 \in 1..FrameLen /\ FrameLen \in 1..FrameLen
  BY <1>1
<1>5. line[sync + 3 - 1].seq = b /\ line[sync + FrameLen - 1].seq = b
      /\ line[sync + FrameLen - 1].pos = FrameLen
  BY <1>2, <1>4 DEF FrameAt
<1>6. sync + 3 - 1 = sync + 2
  BY <1>1
<1>7. frames[b] = "data"
  BY <1>5, <1>6 DEF CallInv
<1>8. b \in 1..Len(frames) /\ b > LastSeq
  BY <1>1, <1>3 DEF LineInv, HostInv
<1>9. ASSUME NEW j \in 1..Len(line), j > taken PROVE line[j].seq > b
  <2>1. line[taken].seq = b /\ line[taken].pos = FrameLen
    BY <1>2, <1>5
  <2>2. \/ line[taken].seq < line[j].seq
        \/ line[taken].seq = line[j].seq /\ line[taken].pos < line[j].pos
    BY <1>3, <1>9 DEF LineInv
  <2>3. line[j].pos \in 1..FrameLen /\ line[j].seq \in 1..Len(frames)
    BY DEF LineInv
  <2> HIDE DEF b
  <2> QED
    BY <1>1, <1>8, <2>1, <2>2, <2>3
<1> QED
  BY <1>1, <1>2, <1>3, <1>7, <1>8, <1>9

LEMMA VerifyStep ==
  ASSUME LineInv, CallInv, HostInv, StepInv, Verify
  PROVE  LineInv' /\ CallInv' /\ HostInv' /\ StepInv'
<1>1. /\ pc = "tail" /\ pos = hdr.len /\ pc' = "idle"
      /\ UNCHANGED <<frames, line, taken, sync, start, hdr>>
  BY DEF Verify, Fail
<1>2. CallInv'
  BY <1>1 DEF CallInv
<1>3. LineInv'
  BY <1>1 DEF LineInv
<1>4. CASE /\ CrcOk /\ hdr.cmd = "data" /\ result' = "frame"
           /\ accepted' = Append(accepted, line[sync].seq)
  <2> DEFINE b == line[sync].seq
  <2>1. /\ sync \in 1..taken /\ sync + FrameLen - 1 <= taken /\ FrameAt(sync)
        /\ b \in Nat \ {0} /\ frames[b] = "data" /\ b > LastSeq
        /\ \A j \in 1..Len(line) : j > taken => line[j].seq > b
    BY <1>1, <1>4, CrcStep
  <2> HIDE DEF b
  <2>2. accepted \in Seq(Nat \ {0}) /\ Len(accepted) \in Nat
    BY DEF HostInv
  <2>3. /\ accepted' \in Seq(Nat \ {0}) /\ accepted' # <<>>
        /\ Len(accepted') = Len(accepted) + 1
        /\ accepted'[Len(accepted) + 1] = b
        /\ \A i \in 1..Len(accepted) : accepted'[i] = accepted[i]
    BY <1>4, <2>1, <2>2, AppendProperties DEF b
  <2>4. LastSeq' = b
    BY <2>3 DEF LastSeq
  <2>5. \A k : FrameAt(k)' = FrameAt(k)
    BY <1>1 DEF FrameAt
  <2>6. ASSUME NEW i \in 1..Len(accepted')
        PROVE  \E k \in 1..taken : /\ k + FrameLen - 1 <= taken /\ FrameAt(k)
                                   /\ line[k].seq = accepted'[i]
                                   /\ frames[accepted'[i]] = "data"
    <3>1. CASE i \in 1..Len(accepted)
      BY <2>3, <3>1 DEF HostInv
    <3>2. CASE i = Len(accepted) + 1
      BY <2>1, <2>3, <3>2 DEF b
    <3> QED
      BY <2>2, <2>3, <3>1, <3>2
  <2>7. ASSUME NEW i \in 1..Len(accepted'), NEW j \in 1..Len(accepted'), i < j
        PROVE  accepted'[i] < accepted'[j]
    <3>1. i \in 1..Len(accepted)
      BY <2>2, <2>3, <2>7
    <3>2. CASE j \in 1..Len(accepted)
      BY <2>3, <2>7, <3>1, <3>2 DEF HostInv
    <3>3. CASE j = Len(accepted) + 1
      <4>1. Len(accepted) \in 1..Len(accepted) /\ accepted # <<>>
        BY <2>2, <3>1
      <4>2. LastSeq = accepted[Len(accepted)]
        BY <4>1 DEF LastSeq
      <4>3. accepted[i] <= LastSeq
        <5>1. accepted[i] \in Nat
          BY <2>2, <3>1
        <5>2. CASE i = Len(accepted)
          BY <4>2, <5>1, <5>2
        <5>3. CASE i # Len(accepted)
          <6>1. i < Len(accepted)
            BY <2>2, <3>1, <5>3
          <6>2. accepted[i] < accepted[Len(accepted)]
            BY <3>1, <4>1, <6>1 DEF HostInv
          <6>3. accepted[Len(accepted)] \in Nat
            BY <2>2, <4>1
          <6> QED
            BY <4>2, <5>1, <6>2, <6>3
        <5> QED
          BY <5>2, <5>3
      <4>4. LastSeq \in Nat /\ accepted[i] \in Nat
        BY <2>2, <3>1, <4>1, <4>2
      <4> QED
        BY <2>1, <2>3, <3>1, <3>3, <4>3, <4>4
    <3> QED
      BY <2>2, <2>3, <3>2, <3>3
  <2>8. HostInv'
    BY <1>1, <2>1, <2>3, <2>4, <2>5, <2>6, <2>7 DEF HostInv
  <2>9. StepInv'
    <3> SUFFICES ASSUME InStep' PROVE StepInv'
      BY DEF StepInv
    <3>1. InStep
      BY <1>1 DEF InStep
    <3>2. sync = start + 1 /\ sync > start /\ start \in 0..taken /\ taken \in Nat
      BY <1>1, <3>1 DEF StepInv, CallInv, LineInv
    <3>3. LastSeq' = line[start + 1].seq
      BY <2>4, <3>2 DEF b
    <3>4. taken > start
      BY <2>1, <3>2
    <3> QED
      BY <1>1, <1>4, <2>3, <3>3, <3>4 DEF StepInv
  <2> QED
    BY <1>2, <1>3, <2>8, <2>9
<1>5. CASE ~(CrcOk /\ hdr.cmd = "data") /\ UNCHANGED accepted
  <2>1. taken' \in taken..Len(line)
    BY <1>1 DEF LineInv
  <2>2. HostInv'
    BY <1>1, <1>5, <2>1, ReadOn
  <2>3. StepInv'
    <3> SUFFICES ASSUME InStep' PROVE StepInv'
      BY DEF StepInv
    <3>1. InStep
      BY <1>1 DEF InStep
    <3>2. sync = start + 1 /\ hdr = [cmd |-> frames[line[start + 1].seq], len |-> FrameLen - 3]
      BY <1>1, <3>1 DEF StepInv
    <3>3. /\ taken = sync + 2 + pos /\ pos = FrameLen - 3 /\ FrameLen \in Nat
          /\ taken \in 0..Len(line) /\ start \in Nat /\ Len(line) \in Nat
      BY <1>1, <3>2, TailLen DEF CallInv, LineInv
    <3>4. taken = sync + FrameLen - 1 /\ sync + FrameLen - 1 <= Len(line) /\ taken > start
      BY <3>2, <3>3, TailLen
    <3>5. ASSUME NEW p \in 1..FrameLen
          PROVE  start + p <= taken /\ sync + p - 1 = start + p
      BY <3>2, <3>3, <3>4
    <3>6. FrameAt(sync)
      BY <3>1, <3>2, <3>4, <3>5 DEF InStep, FrameAt
    <3>7. frames[line[start + 1].seq] # "data"
      BY <1>5, <3>2, <3>4, <3>6 DEF CrcOk
    <3> QED
      BY <1>1, <3>4, <3>7 DEF StepInv
  <2> QED
    BY <1>2, <1>3, <2>2, <2>3
<1> QED
  BY <1>4, <1>5 DEF Verify, Fail

StreamInv == LineInv /\ CallInv /\ HostInv /\ StepInv

LEMMA StreamInit == Init => StreamInv
<1> SUFFICES ASSUME Init PROVE StreamInv
  OBVIOUS
<1>1. /\ frames = <<>> /\ line = <<>> /\ taken = 0 /\ pc = "idle" /\ sync = 0
      /\ start = 0 /\ accepted = <<>> /\ calls = 0
  BY DEF Init
<1> QED
  BY <1>1 DEF StreamInv, LineInv, CallInv, HostInv, StepInv

(* Whatever the board and the line do, they append what is left of a frame.*)
LEMMA BoardStep ==
  ASSUME StreamInv, Push \/ PushFaulty \/ StartRecord
  PROVE  \E units : \E cmd \in {"data", "ack"} :
           /\ PartOf(Len(frames) + 1, units) /\ Send(cmd, units)
           /\ \/ faults' = faults /\ WholeFrame(Len(frames) + 1, units)
              \/ faults' = faults + 1
<1> DEFINE n == Len(frames) + 1
<1>1. n \in Nat
  BY DEF StreamInv, LineInv
<1> HIDE DEF n
<1>2. \A t \in Tails : WholeFrame(n, Frame(t, n)) /\ PartOf(n, Frame(t, n))
  BY <1>1, FrameUnits, FrameParts
<1>3. CASE Push
  <2>1. PICK t \in Tails : Send("data", Frame(t, n)) /\ faults' = faults
    BY <1>3 DEF Push, n
  <2> QED
    BY <1>2, <2>1 DEF n
<1>4. CASE StartRecord
  <2>1. PICK t \in Tails : Send("ack", Frame(t, n)) /\ faults' = faults
    BY <1>4 DEF StartRecord, n
  <2> QED
    BY <1>2, <2>1 DEF n
<1>5. CASE PushFaulty
  <2>1. PICK t \in Tails, p \in 1..FrameLen :
          LET f == Frame(t, n) IN
          \/ Send("data", SubSeq(f, 1, p - 1) \o SubSeq(f, p + 1, FrameLen))
          \/ \E v \in IF p = 3 THEN {"header"} ELSE (Values \ {f[p].val}) \cup {"other"} :
               Send("data", [f EXCEPT ![p].ok = FALSE, ![p].val = v])
    BY <1>5 DEF PushFaulty, n
  <2> DEFINE f == Frame(t, n)
  <2>2. /\ PartOf(n, SubSeq(f, 1, p - 1) \o SubSeq(f, p + 1, FrameLen))
        /\ \A v \in IF p = 3 THEN {"header"} ELSE (Values \ {f[p].val}) \cup {"other"} :
             PartOf(n, [f EXCEPT ![p].ok = FALSE, ![p].val = v])
    <3>1. WholeFrame(n, f)
      BY <1>2
    <3> HIDE DEF f
    <3> QED
      BY <1>1, <3>1, FrameParts
  <2>3. faults' = faults + 1
    BY <1>5 DEF PushFaulty
  <2> HIDE DEF f
  <2>4. PICK units : PartOf(n, units) /\ Send("data", units)
    BY <2>1, <2>2 DEF f
  <2> QED
    BY <2>3, <2>4 DEF n
<1> QED
  BY <1>3, <1>4, <1>5

LEMMA StreamStep == StreamInv /\ [Next]_vars => StreamInv'
<1> SUFFICES ASSUME StreamInv, [Next]_vars PROVE StreamInv'
  OBVIOUS
<1> USE DEF StreamInv
<1>1. CASE Push \/ PushFaulty \/ StartRecord
  <2>1. PICK units : \E cmd \in {"data", "ack"} :
                       PartOf(Len(frames) + 1, units) /\ Send(cmd, units)
    BY <1>1, BoardStep
  <2>2. Len(frames) + 1 \in Nat
    BY DEF LineInv
  <2> QED
    BY <2>1, <2>2, SendLine, SendHost
<1>2. CASE StopRecord \/ UNCHANGED vars
  <2>1. UNCHANGED <<frames, line, taken, pc, state, sync, hdr, pos, start, result,
                    accepted, calls>>
    BY <1>2 DEF StopRecord, vars, call, account
  <2> QED
    BY <2>1 DEF LineInv, CallInv, HostInv, StepInv, LastSeq, InStep, FrameAt
<1>3. CASE Call
  BY <1>3, CallStep
<1>4. CASE Deadline
  BY <1>4, DeadlineStep
<1>5. CASE Hunt
  BY <1>5, HuntStep
<1>6. CASE Header
  BY <1>6, HeaderStep
<1>7. CASE ReadTail
  BY <1>7, ReadTailStep
<1>8. CASE Verify
  BY <1>8, VerifyStep
<1> QED
  BY <1>1, <1>2, <1>3, <1>4, <1>5, <1>6, <1>7, <1>8 DEF Next

LEMMA ReturnedPassed ==
  ASSUME StreamInv
  PROVE  Returned \subseteq {n \in Passed : frames[n] = "data"}
<1>1. taken \in Nat /\ FrameLen \in Nat
  BY TailLen DEF StreamInv, LineInv
<1>2. ASSUME NEW i \in 1..Len(accepted)
      PROVE  accepted[i] \in Passed /\ frames[accepted[i]] = "data"
  <2>1. PICK k \in 1..taken : /\ k + FrameLen - 1 <= taken /\ FrameAt(k)
                              /\ line[k].seq = accepted[i] /\ frames[accepted[i]] = "data"
    BY DEF StreamInv, HostInv
  <2>2. k \in 1..(taken - FrameLen + 1)
    BY <1>1, <2>1
  <2> QED
    BY <2>1, <2>2 DEF Passed
<1>3. DOMAIN accepted = 1..Len(accepted)
  BY DEF StreamInv, HostInv
<1> QED
  BY <1>2, <1>3 DEF Returned

(* What recv_online_frame returns is a data frame as the board sent it,    *)
(* and it comes in order and once, whatever the hunt takes for a header    *)
(* (recv_online_response, CustomProtocol.cpp:210-328).                     *)
THEOREM OrderCorrect == Spec => []FramesInOrder
<1>1. StreamInv => FramesInOrder
  <2> SUFFICES ASSUME StreamInv PROVE FramesInOrder
    OBVIOUS
  <2>1. Returned \subseteq {n \in Passed : frames[n] = "data"}
    BY ReturnedPassed
  <2>2. ASSUME NEW i \in 2..Len(accepted) PROVE accepted[i - 1] < accepted[i]
    <3>1. Len(accepted) \in Nat
      BY DEF StreamInv, HostInv
    <3>2. i - 1 \in 1..Len(accepted) /\ i \in 1..Len(accepted) /\ i - 1 < i
      BY <3>1
    <3> QED
      BY <3>2 DEF StreamInv, HostInv
  <2> QED
    BY <2>1, <2>2 DEF FramesInOrder
<1> QED
  BY <1>1, StreamInit, StreamStep, PTL DEF Spec

-----------------------------------------------------------------------------
(* The frames as a channel.                                                *)

GotOf(a) == [i \in DOMAIN a |-> [seq |-> a[i], msg |-> "data"]]

(* Of one frame more, all that was returned before is kept.                *)
LEMMA GotGrows ==
  ASSUME NEW a, a \in Seq(Nat), NEW b, b \in Seq(Nat),
         NEW l \in Nat, Len(a) = l, Len(b) = l + 1,
         \A i \in 1..l : b[i] = a[i]
  PROVE  /\ GotOf(b) = Append(GotOf(a), [seq |-> b[l + 1], msg |-> "data"])
         /\ IF GotOf(a) = <<>> THEN l = 0
            ELSE l > 0 /\ GotOf(a)[Len(GotOf(a))].seq = a[l]
<1> DEFINE M == [seq : Nat, msg : {"data"}]
           e == [seq |-> b[l + 1], msg |-> "data"]
<1>1. (\A i \in 1..l : a[i] \in Nat) /\ (\A i \in 1..(l + 1) : b[i] \in Nat)
  OBVIOUS
<1>2. DOMAIN a = 1..l /\ DOMAIN b = 1..(l + 1) /\ l + 1 \in Nat
  OBVIOUS
<1>3. GotOf(a) \in [1..l -> M] /\ GotOf(b) \in [1..(l + 1) -> M] /\ e \in M
  BY <1>1, <1>2 DEF GotOf
<1>4. GotOf(a) \in Seq(M) /\ Len(GotOf(a)) = l /\ GotOf(b) \in Seq(M) /\ Len(GotOf(b)) = l + 1
  <2> HIDE DEF M, e
  <2>1. \A m \in Nat : \A f \in [1..m -> M] : f \in Seq(M) /\ Len(f) = m
    OBVIOUS
  <2> QED
    BY <1>2, <1>3, <2>1
<1>5. /\ Append(GotOf(a), e) \in Seq(M) /\ Len(Append(GotOf(a), e)) = l + 1
      /\ \A i \in 1..l : Append(GotOf(a), e)[i] = GotOf(a)[i]
      /\ Append(GotOf(a), e)[l + 1] = e
  <2> HIDE DEF M, e
  <2> QED
    BY <1>3, <1>4, AppendProperties
<1>6. ASSUME NEW i \in 1..(l + 1) PROVE GotOf(b)[i] = Append(GotOf(a), e)[i]
  <2>1. CASE i = l + 1
    BY <1>2, <1>5, <2>1 DEF GotOf
  <2>2. CASE i \in 1..l
    <3>1. a[i] = b[i]
      BY <2>2
    <3>2. GotOf(a)[i] = [seq |-> a[i], msg |-> "data"]
      BY <1>2, <2>2 DEF GotOf
    <3>3. GotOf(b)[i] = [seq |-> b[i], msg |-> "data"]
      BY <1>2 DEF GotOf
    <3>4. Append(GotOf(a), e)[i] = GotOf(a)[i]
      BY <1>5, <2>2
    <3> QED
      BY <3>1, <3>2, <3>3, <3>4
  <2>3. i = l + 1 \/ i \in 1..l
    OBVIOUS
  <2> QED
    BY <2>1, <2>2, <2>3
<1>7. GotOf(b) = Append(GotOf(a), e)
  <2> HIDE DEF M, e
  <2> QED
    BY <1>4, <1>5, <1>6, SeqEqual
<1>8. CASE GotOf(a) = <<>>
  BY <1>4, <1>7, <1>8
<1>9. CASE GotOf(a) # <<>>
  <2>1. l > 0
    BY <1>4, <1>9
  <2>2. l \in 1..l
    BY <2>1
  <2> QED
    BY <1>2, <1>4, <1>7, <1>9, <2>1, <2>2 DEF GotOf
<1> QED
  BY <1>8, <1>9

Log == [n \in DOMAIN frames |-> IF Sound(n) THEN "data" ELSE "other"]

(* What has become of a frame is settled when it has been sent.            *)
LEMMA LogGrows ==
  ASSUME StreamInv, NEW n \in Nat, n = Len(frames) + 1, NEW cmd, cmd \in {"data", "ack"},
         NEW units, PartOf(n, units), Send(cmd, units)
  PROVE  \E m \in {"data", "other"} : Log' = Append(Log, m)
<1> DEFINE M == {"data", "other"}
           k == Len(frames)
<1>0. LineInv
  BY DEF StreamInv
<1>1. /\ frames' \in Seq({"data", "ack"}) /\ Len(frames') = n
      /\ \A i \in 1..k : frames'[i] = frames[i]
      /\ Len(line') \in Nat /\ Len(line') >= Len(line) /\ Len(line) \in Nat
      /\ \A i \in 1..Len(line) : line'[i] = line[i]
      /\ \A i \in 1..Len(line') : i > Len(line) => line'[i].seq = n
  <2>1. /\ frames' \in Seq({"data", "ack"}) /\ Len(frames') = n
        /\ \A i \in 1..Len(frames) : frames'[i] = frames[i]
        /\ Len(line') = Len(line) + Len(units)
        /\ \A i \in 1..Len(line) : line'[i] = line[i]
        /\ \A i \in 1..Len(line') : i > Len(line) => line'[i].seq = n
        /\ Len(line) \in Nat /\ Len(units) \in Nat
    BY <1>0, Extended
  <2> QED
    BY <2>1
<1>2. frames \in Seq({"data", "ack"}) /\ k \in Nat /\ n = k + 1
  BY <1>0 DEF LineInv
<1>3. FrameLen \in Nat /\ FrameLen >= 3
  BY TailLen
<1> HIDE DEF k
<1>4. ASSUME NEW j \in 1..k PROVE Sound(j)' <=> Sound(j)
  <2>0. j \in 1..n /\ frames'[j] = frames[j]
    BY <1>1, <1>2 DEF k
  <2>1. ASSUME Sound(j) PROVE Sound(j)'
    <3>1. PICK i \in 1..(Len(line) - FrameLen + 1) : line[i].seq = j /\ FrameAt(i)
      BY <2>1 DEF Sound
    <3>2. i \in Nat \ {0} /\ i \in 1..(Len(line') - FrameLen + 1)
      BY <1>1, <1>3
    <3>3. FrameAt(i)' /\ line'[i].seq = line[i].seq
      BY <1>0, <1>1, <3>1, <3>2, FrameAtStays
    <3> QED
      BY <2>0, <2>1, <3>1, <3>2, <3>3 DEF Sound
  <2>2. ASSUME Sound(j)' PROVE Sound(j)
    <3>1. PICK i \in 1..(Len(line') - FrameLen + 1) : line'[i].seq = j /\ FrameAt(i)'
      BY <2>2 DEF Sound
    <3>2. /\ i + FrameLen - 1 <= Len(line')
          /\ \A p \in 1..FrameLen : /\ line'[i + p - 1].ok /\ line'[i + p - 1].pos = p
                                    /\ line'[i + p - 1].seq = j
      BY <3>1 DEF FrameAt
    <3>3. ASSUME NEW p \in 1..FrameLen PROVE i + p - 1 \in 1..Len(line)
      <4>1. i + p - 1 \in 1..Len(line')
        BY <1>1, <1>3, <3>2
      <4>2. line'[i + p - 1].seq # n
        BY <1>2, <3>2
      <4> QED
        BY <1>1, <4>1, <4>2
    <3>4. i + FrameLen - 1 \in 1..Len(line) /\ i \in 1..Len(line)
      <4>1. FrameLen \in 1..FrameLen /\ 1 \in 1..FrameLen /\ i + 1 - 1 = i
        BY <1>3
      <4> QED
        BY <3>3, <4>1
    <3>5. \A p \in 1..FrameLen : line'[i + p - 1] = line[i + p - 1]
      BY <1>1, <3>3
    <3>6. i + FrameLen - 1 <= Len(line) /\ line[i].seq = j
      BY <1>1, <3>1, <3>4
    <3>7. FrameAt(i)
      BY <3>2, <3>5, <3>6 DEF FrameAt
    <3>8. i \in 1..(Len(line) - FrameLen + 1)
      BY <1>1, <1>3, <3>4
    <3> QED
      BY <2>0, <2>2, <3>6, <3>7, <3>8 DEF Sound
  <2> QED
    BY <2>1, <2>2
<1>5. \A i \in 1..k : Log'[i] = Log[i]
  BY <1>1, <1>2, <1>4 DEF Log, k
<1>6. Log \in Seq(M) /\ Len(Log) = k /\ Log' \in Seq(M) /\ Len(Log') = n
  <2>1. DOMAIN frames = 1..k /\ DOMAIN frames' = 1..n /\ n \in Nat
    BY <1>1, <1>2 DEF k
  <2>2. Log \in [1..k -> M] /\ Log' \in [1..n -> M]
    BY <2>1 DEF Log
  <2>3. \A l \in Nat : \A f \in [1..l -> M] : f \in Seq(M) /\ Len(f) = l
    OBVIOUS
  <2> HIDE DEF M
  <2> QED
    BY <1>2, <2>1, <2>2, <2>3
<1> HIDE DEF M
<1>7. PICK m \in M : m = Log'[n]
  <2>1. n \in 1..Len(Log')
    BY <1>2, <1>6
  <2> QED
    BY <1>6, <2>1
<1>8. /\ Append(Log, m) \in Seq(M) /\ Len(Append(Log, m)) = n
      /\ \A i \in 1..k : Append(Log, m)[i] = Log[i]
      /\ Append(Log, m)[n] = m
  BY <1>2, <1>6, AppendProperties
<1>9. \A i \in 1..n : Log'[i] = Append(Log, m)[i]
  <2>1. \A i \in 1..n : i = n \/ i \in 1..k
    BY <1>2
  <2> QED
    BY <1>5, <1>7, <1>8, <2>1
<1>10. Log' = Append(Log, m)
  BY <1>6, <1>8, <1>9, SeqEqual
<1> QED
  BY <1>10 DEF M

LEMMA RecordingStep ==
  StreamInv /\ StreamInv' /\ [Next]_vars => [Recording!Next]_Recording!vars
<1> SUFFICES ASSUME StreamInv, StreamInv', [Next]_vars
             PROVE  [Recording!Next]_Recording!vars
  OBVIOUS
<1>1. /\ accepted \in Seq(Nat) /\ Len(accepted) \in Nat /\ Len(frames) \in Nat
      /\ accepted' \in Seq(Nat)
  BY DEF StreamInv, LineInv, HostInv
<1>2. ASSUME UNCHANGED <<frames, line>> PROVE Log' = Log
  BY <1>2 DEF Log, Sound, FrameAt
<1>3. ASSUME UNCHANGED <<frames, line, accepted>> PROVE UNCHANGED Recording!vars
  BY <1>2, <1>3 DEF Recording!vars, Log
<1>4. ASSUME NEW n, accepted' = Append(accepted, n), UNCHANGED <<line, frames, taken>>
      PROVE  Recording!Take
  <2>1. PICK l \in Nat : l = Len(accepted)
    BY <1>1
  <2>2. Len(accepted') = l + 1 /\ accepted'[l + 1] = n /\ \A i \in 1..l : accepted'[i] = accepted[i]
    BY <1>1, <1>4, <2>1
  <2>3. l + 1 \in 1..Len(accepted')
    BY <2>2
  <2>4. n \in 1..Len(frames) /\ Sound(n)
    <3>1. HostInv' /\ LineInv'
      BY DEF StreamInv
    <3>2. PICK k \in 1..taken' : /\ FrameAt(k)' /\ line'[k].seq = accepted'[l + 1]
                                 /\ frames'[accepted'[l + 1]] = "data"
      BY <2>3, <3>1 DEF HostInv
    <3>3. k \in 1..Len(line')
      BY <3>1 DEF LineInv
    <3>4. line'[k].seq \in 1..Len(frames')
      BY <3>1, <3>3 DEF LineInv
    <3>5. FrameAt(k)
      BY <1>4, <3>2 DEF FrameAt
    <3>6. k \in 1..(Len(line) - FrameLen + 1)
      <4>1. FrameLen \in Nat /\ Len(line') \in Nat /\ k + FrameLen - 1 <= Len(line)
        BY <3>1, <3>5, TailLen DEF LineInv, FrameAt
      <4> QED
        BY <1>4, <3>3, <4>1
    <3> QED
      BY <1>4, <2>2, <3>2, <3>4, <3>5, <3>6 DEF Sound
  <2>5. Log[n] = "data" /\ Len(Log) = Len(frames)
    <3>1. Log[n] = "data"
      BY <1>1, <2>4 DEF Log
    <3>2. DOMAIN Log = 1..Len(frames)
      BY <1>1 DEF Log
    <3> QED
      BY <1>1, <3>1, <3>2
  <2>6. l > 0 => accepted[l] < n /\ accepted[l] \in Nat
    <3> SUFFICES ASSUME l > 0 PROVE accepted[l] < n /\ accepted[l] \in Nat
      OBVIOUS
    <3>1. l \in 1..l /\ l \in 1..Len(accepted') /\ l < l + 1
      BY <2>2
    <3>2. accepted'[l] < accepted'[l + 1]
      BY <2>3, <3>1 DEF StreamInv, HostInv
    <3> QED
      BY <1>1, <2>1, <2>2, <3>1, <3>2
  <2>7. /\ GotOf(accepted') = Append(GotOf(accepted), [seq |-> accepted'[l + 1], msg |-> "data"])
        /\ IF GotOf(accepted) = <<>> THEN l = 0
           ELSE l > 0 /\ GotOf(accepted)[Len(GotOf(accepted))].seq = accepted[l]
    <3>1. accepted \in Seq(Nat) /\ Len(accepted) = l /\ accepted' \in Seq(Nat)
      BY <1>1, <2>1
    <3>2. Len(accepted') = l + 1 /\ \A i \in 1..l : accepted'[i] = accepted[i]
      BY <2>2
    <3>3. PICK a, b : a = accepted /\ b = accepted'
      OBVIOUS
    <3>4. a \in Seq(Nat) /\ Len(a) = l /\ b \in Seq(Nat) /\ Len(b) = l + 1
      BY <3>1, <3>2, <3>3
    <3>5. \A i \in 1..l : b[i] = a[i]
      BY <3>2, <3>3
    <3>6. /\ GotOf(b) = Append(GotOf(a), [seq |-> b[l + 1], msg |-> "data"])
          /\ IF GotOf(a) = <<>> THEN l = 0
             ELSE l > 0 /\ GotOf(a)[Len(GotOf(a))].seq = a[l]
      BY <3>4, <3>5, GotGrows
    <3> QED
      BY <3>3, <3>6
  <2>8. n \in (Recording!Newest + 1)..Len(Log)
    <3>1. CASE GotOf(accepted) = <<>>
      <4>1. Recording!Newest = 0
        BY <3>1 DEF Recording!Newest, GotOf
      <4> QED
        BY <1>1, <2>4, <2>5, <4>1
    <3>2. CASE GotOf(accepted) # <<>>
      <4>1. l > 0 /\ GotOf(accepted)[Len(GotOf(accepted))].seq = accepted[l]
        BY <2>7, <3>2
      <4>2. Recording!Newest = accepted[l]
        BY <3>2, <4>1 DEF Recording!Newest, GotOf
      <4> QED
        BY <1>1, <2>4, <2>5, <2>6, <4>1, <4>2
    <3> QED
      BY <3>1, <3>2
  <2>9. GotOf(accepted') = Append(GotOf(accepted), [seq |-> n, msg |-> Log[n]])
    BY <2>2, <2>5, <2>7
  <2>10. \E k \in (Recording!Newest + 1)..Len(Log) :
           GotOf(accepted') = Append(GotOf(accepted), [seq |-> k, msg |-> Log[k]])
    BY <2>8, <2>9
  <2>11. Log' = Log
    BY <1>2, <1>4
  <2> QED
    BY <2>10, <2>11 DEF Recording!Take, GotOf, Log
<1>5. CASE Push \/ PushFaulty \/ StartRecord
  <2>1. PICK units : \E cmd \in {"data", "ack"} :
                       PartOf(Len(frames) + 1, units) /\ Send(cmd, units)
    BY <1>5, BoardStep
  <2>2. Len(frames) + 1 \in Nat
    BY <1>1
  <2>3. PICK m \in {"data", "other"} : Log' = Append(Log, m)
    BY <2>1, <2>2, LogGrows
  <2>4. accepted' = accepted
    BY <2>1 DEF Send, account
  <2>5. Recording!Put(m)
    BY <2>3, <2>4 DEF Recording!Put, Log
  <2> QED
    BY <2>5 DEF Recording!Next
<1>6. CASE StopRecord \/ Call \/ Deadline \/ Hunt \/ Header \/ ReadTail
  <2>1. UNCHANGED <<frames, line, accepted>>
    BY <1>6 DEF StopRecord, Call, Deadline, Hunt, Header, ReadTail, Fail, account
  <2> QED
    BY <1>3, <2>1
<1>7. CASE Verify
  <2>1. UNCHANGED <<line, frames, taken>>
    BY <1>7 DEF Verify
  <2>2. accepted' = accepted \/ \E n : accepted' = Append(accepted, n)
    BY <1>7 DEF Verify, Fail
  <2> QED
    BY <1>3, <1>4, <2>1, <2>2 DEF Recording!Next
<1>8. CASE UNCHANGED vars
  BY <1>3, <1>8 DEF vars, account
<1> QED
  BY <1>5, <1>6, <1>7, <1>8 DEF Next

(* Whatever becomes of the bytes and wherever the deadlines                *)
(* fall, the frames are those of a channel that loses messages and does    *)
(* nothing worse (recv_online_response, CustomProtocol.cpp:210-328).       *)
THEOREM ChannelCorrect == Spec => FrameChannel
<1>1. Init => Recording!Init
  <2> SUFFICES ASSUME Init PROVE Recording!Init
    OBVIOUS
  <2>1. frames = <<>> /\ accepted = <<>>
    BY DEF Init
  <2>2. [i \in DOMAIN <<>> |-> [seq |-> accepted[i], msg |-> "data"]] = <<>>
    OBVIOUS
  <2>3. [n \in DOMAIN <<>> |-> IF Sound(n) THEN "data" ELSE "other"] = <<>>
    OBVIOUS
  <2> QED
    BY <2>1, <2>2, <2>3 DEF Recording!Init
<1> QED
  BY <1>1, RecordingStep, StreamInit, StreamStep, PTL DEF Spec, FrameChannel, Recording!Spec
-----------------------------------------------------------------------------
(* A call that begins at the first byte of a data frame returns that frame *)
(* or runs out of time, whatever the payload (recv_online_response).       *)
THEOREM InStepCorrect == Spec => []StaysInStep
<1>1. StreamInv => StaysInStep
  <2> SUFFICES ASSUME StreamInv, pc = "idle", calls > 0, FrameAt(start + 1),
                      frames[line[start + 1].seq] = "data"
               PROVE  \/ result = "deadline"
                      \/ result = "frame" /\ accepted[Len(accepted)] = line[start + 1].seq
    BY DEF StaysInStep
  <2>1. start \in Nat /\ FrameLen \in Nat
    BY TailLen DEF StreamInv, LineInv, CallInv
  <2>2. ASSUME NEW p \in 1..FrameLen PROVE (start + 1) + p - 1 = start + p
    BY <2>1
  <2>3. InStep
    BY <2>2 DEF FrameAt, InStep
  <2> QED
    BY <2>3 DEF StreamInv, StepInv, LastSeq
<1> QED
  BY <1>1, StreamInit, StreamStep, PTL DEF Spec
-----------------------------------------------------------------------------
LEMMA BegunType ==
  ASSUME LineInv, NEW t \in 0..Len(line)
  PROVE  Begun(t) \in Nat
<1>1. t # 0 => t \in 1..Len(line)
  BY DEF LineInv
<1> QED
  BY <1>1 DEF Begun, LineInv

LEMMA WholeSend ==
  ASSUME StreamInv, WholeLine, NEW n \in Nat, n = Len(frames) + 1,
         NEW cmd, cmd \in {"data", "ack"}, NEW units, PartOf(n, units),
         WholeFrame(n, units), Send(cmd, units)
  PROVE  WholeLine'
<1>0. LineInv
  BY DEF StreamInv
<1>u. PICK u \in Nat : u = Len(line)
  BY SMTT(40), <1>0 DEF LineInv
<1>1. /\ Len(frames') = n /\ Len(line') = u + FrameLen
      /\ \A i \in 1..u : line'[i] = line[i]
      /\ \A i \in 1..Len(line') :
           i > u => i - u \in 1..FrameLen /\ line'[i] = units[i - u] /\ line'[i].seq = n
      /\ u \in Nat /\ Len(frames) \in Nat /\ frames' # <<>> /\ FrameLen \in Nat /\ FrameLen >= 3
  <2>1. Len(units) = FrameLen
    BY DEF WholeFrame
  <2>2. /\ Len(frames') = n /\ Len(line') = u + Len(units)
        /\ \A i \in 1..u : line'[i] = line[i]
        /\ \A i \in 1..Len(line') :
             i > u => i - u \in 1..Len(units) /\ line'[i] = units[i - u] /\ line'[i].seq = n
        /\ u \in Nat /\ Len(frames) \in Nat
    <3>1. /\ Len(frames') = n /\ Len(line') = Len(line) + Len(units)
          /\ \A i \in 1..Len(line) : line'[i] = line[i]
          /\ \A i \in 1..Len(line') :
               i > Len(line) => /\ i - Len(line) \in 1..Len(units)
                                /\ line'[i] = units[i - Len(line)] /\ line'[i].seq = n
          /\ Len(frames) \in Nat
      BY <1>0, Extended
    <3> QED
      BY <1>u, <3>1
  <2>3. frames' # <<>>
    BY <2>2
  <2> QED
    BY <1>u, <2>1, <2>2, <2>3, TailLen
<1>2. \A p \in 1..FrameLen : units[p].ok /\ units[p].pos = p
  BY DEF WholeFrame
<1>3. line = <<>> <=> u = 0
  BY <1>0, <1>u DEF LineInv
<1>4. \A i \in 1..u : line[i].ok /\ (line[i].pos = 1 => FrameAt(i))
  BY <1>u DEF WholeLine
<1>5. u # 0 => line[1].seq = 1 /\ line[1].pos = 1 /\ line[u].seq = Len(frames)
  BY <1>u, <1>3 DEF WholeLine
<1>6. u = 0 => n = 1
  BY <1>3 DEF WholeLine
<1>7. \A i, j \in 1..u : j = i + 1 => \/ line[j].seq = line[i].seq
                                      \/ line[j].seq = line[i].seq + 1 /\ line[j].pos = 1
  BY <1>u DEF WholeLine
<1>8. \A i \in Nat \ {0} : FrameAt(i) => FrameAt(i)'
  <2>1. Len(line') \in Nat /\ Len(line') >= Len(line)
    BY <1>u, <1>1
  <2> QED
    BY <1>u, <1>0, <1>1, <2>1, FrameAtStays
<1>9. ASSUME NEW p \in 1..FrameLen
      PROVE  /\ u + p \in 1..Len(line') /\ line'[u + p] = units[p]
             /\ line'[u + p].seq = n /\ line'[u + p].ok /\ line'[u + p].pos = p
  <2>1. u + p \in 1..(u + FrameLen) /\ u + p > u /\ (u + p) - u = p
    BY <1>1
  <2> QED
    BY <1>1, <1>2, <2>1
<1>10. FrameAt(u + 1)'
  <2>1. (u + 1) + FrameLen - 1 <= Len(line')
    BY <1>1
  <2>2. ASSUME NEW p \in 1..FrameLen PROVE (u + 1) + p - 1 = u + p
    BY <1>1
  <2>3. 1 \in 1..FrameLen
    BY <1>1
  <2>4. line'[u + 1].seq = n
    BY <1>9, <2>3
  <2> QED
    BY <1>9, <2>1, <2>2, <2>4 DEF FrameAt
<1>11. ASSUME NEW i \in 1..Len(line')
       PROVE  line'[i].ok /\ (line'[i].pos = 1 => FrameAt(i)')
  <2>1. CASE i <= u
    <3>1. i \in 1..u /\ i \in Nat \ {0}
      BY <1>1, <2>1
    <3> QED
      BY <1>1, <1>4, <1>8, <3>1
  <2>2. CASE i > u
    <3>1. i - u \in 1..FrameLen /\ line'[i] = units[i - u]
      BY <1>1, <2>2
    <3>2. i - u = 1 => i = u + 1
      BY <1>1
    <3>3. units[i - u].ok /\ units[i - u].pos = i - u
      BY <1>2, <3>1
    <3>4. line'[i].pos = 1 => i = u + 1
      BY <3>1, <3>2, <3>3
    <3> QED
      BY <1>10, <3>1, <3>3, <3>4
  <2> QED
    BY <1>1, <2>1, <2>2
<1>12. line'[1].seq = 1 /\ line'[1].pos = 1
  <2>1. CASE u = 0
    <3>1. 1 \in 1..FrameLen /\ u + 1 = 1
      BY <1>1, <2>1
    <3> QED
      BY <1>6, <1>9, <2>1, <3>1
  <2>2. CASE u # 0
    <3>1. 1 \in 1..u
      BY <1>1, <2>2
    <3> QED
      BY <1>1, <1>5, <2>2, <3>1
  <2> QED
    BY <2>1, <2>2
<1>13. ASSUME NEW i \in 1..Len(line'), NEW j \in 1..Len(line'), j = i + 1
       PROVE  \/ line'[j].seq = line'[i].seq
              \/ line'[j].seq = line'[i].seq + 1 /\ line'[j].pos = 1
  <2>1. CASE j <= u
    <3>1. i \in 1..u /\ j \in 1..u
      BY <1>1, <1>13, <2>1
    <3> QED
      BY <1>1, <1>7, <1>13, <3>1
  <2>2. CASE i = u
    <3>1. u \in 1..u /\ u # 0 /\ 1 \in 1..FrameLen /\ j = u + 1
      BY <1>1, <1>13, <2>2
    <3>2. line'[i].seq = Len(frames) /\ line'[j].seq = n /\ line'[j].pos = 1
      BY <1>1, <1>5, <1>9, <2>2, <3>1
    <3> QED
      BY <3>2
  <2>3. CASE i > u
    <3>1. j > u
      BY <1>1, <1>13, <2>3
    <3> QED
      BY <1>1, <2>3, <3>1
  <2> QED
    BY <1>1, <1>13, <2>1, <2>2, <2>3
<1>14. line' # <<>> /\ line'[Len(line')].seq = Len(frames')
  <2>1. FrameLen \in 1..FrameLen
    BY <1>1
  <2>2. line'[u + FrameLen].seq = n
    BY <1>9, <2>1
  <2>3. Len(line') # 0
    BY <1>1
  <2>4. line' # <<>>
    BY <2>3
  <2> QED
    BY <1>1, <2>2, <2>4
<1> QED
  BY <1>11, <1>12, <1>13, <1>14 DEF WholeLine

LEMMA LossSend ==
  ASSUME StreamInv, LossInv, NEW n \in Nat, n = Len(frames) + 1,
         NEW cmd, cmd \in {"data", "ack"}, NEW units, PartOf(n, units), Send(cmd, units),
         \/ faults' = faults /\ WholeFrame(n, units)
         \/ faults' = faults + 1
  PROVE  LossInv'
<1>0. LineInv /\ CallInv
  BY DEF StreamInv
<1>1. /\ Len(line') = Len(line) + Len(units)
      /\ \A i \in 1..Len(line) : line'[i] = line[i]
      /\ Len(line) \in Nat /\ Len(units) \in Nat
      /\ UNCHANGED <<taken, call, account>>
  BY <1>0, Extended
<1>2. faults' \in Nat /\ failed' \in Nat
  BY <1>1 DEF LossInv, account
<1>3. ASSUME faults' = 0 PROVE faults = 0 /\ WholeFrame(n, units)
  BY <1>3 DEF LossInv
<1>4. faults' = 0 => WholeLine'
  BY <1>3, WholeSend DEF LossInv
<1>5. Imitated => Imitated'
  <2> SUFFICES ASSUME Imitated PROVE Imitated'
    OBVIOUS
  <2>1. PICK i \in 1..(Len(line) - 1) :
          line[i].val = "55" /\ line[i + 1].val = "AA" /\ line[i].pos # 1
    BY DEF Imitated
  <2>2. /\ i \in 1..Len(line) /\ i + 1 \in 1..Len(line)
        /\ i \in 1..(Len(line) + Len(units) - 1)
    BY <1>1
  <2>3. line'[i] = line[i] /\ line'[i + 1] = line[i + 1]
    BY <1>1, <2>2
  <2> QED
    BY <1>1, <2>1, <2>2, <2>3 DEF Imitated
<1>6. ASSUME faults' = 0, ~Imitated' PROVE BegunInv'
  <2>1. BegunInv
    BY <1>3, <1>5, <1>6 DEF LossInv
  <2>2. /\ taken' = taken
        /\ UNCHANGED <<pc, state, sync, hdr, start, accepted, failed>>
    BY <1>1 DEF call, account
  <2>3. taken \in 0..Len(line) /\ start \in 0..taken
    BY <1>0 DEF LineInv, CallInv
  <2>4. ASSUME NEW t \in 0..Len(line) PROVE Begun(t)' = Begun(t)
    <3>1. t # 0 => t \in 1..Len(line)
      BY <1>1
    <3> QED
      BY <1>1, <3>1 DEF Begun
  <2>5. Begun(taken)' = Begun(taken) /\ Begun(start)' = Begun(start)
    <3>1. start \in 0..Len(line)
      BY <1>1, <2>3
    <3> QED
      BY <2>2, <2>3, <2>4, <3>1 DEF Begun
  <2>6. taken # 0 => line'[taken] = line[taken]
    BY <1>1, <2>3
  <2>7. pc \in {"header", "tail"} => line'[sync] = line[sync]
    <3>1. pc \in {"header", "tail"} => sync \in 1..Len(line)
      BY <1>0, <1>1, <2>3 DEF CallInv
    <3> QED
      BY <1>1, <3>1
  <2>8. pc = "hunt" /\ Begun(taken) = Begun(start) + 1 => taken # 0
    <3>1. Begun(start) \in Nat
      BY SMTT(40), <1>0, <1>1, <2>3, BegunType
    <3> QED
      BY <3>1 DEF Begun
  <2> QED
    BY <2>1, <2>2, <2>5, <2>6, <2>7, <2>8 DEF BegunInv
<1> QED
  BY <1>2, <1>4, <1>6 DEF LossInv

(* The program leaves the line as it is.                                   *)
LEMMA LossHost ==
  ASSUME StreamInv, LossInv, UNCHANGED <<frames, line, faults>>,
         failed' = failed \/ failed' = failed + 1,
         faults = 0 /\ ~Imitated => BegunInv'
  PROVE  LossInv'
<1>1. Imitated' = Imitated /\ WholeLine' = WholeLine
  BY DEF Imitated, WholeLine, FrameAt
<1>2. failed' \in Nat
  BY DEF LossInv
<1> QED
  BY <1>1, <1>2 DEF LossInv

LEMMA BegunTypes ==
  ASSUME StreamInv, LossInv
  PROVE  /\ Begun(taken) \in Nat /\ Begun(start) \in Nat
         /\ failed \in Nat /\ Len(accepted) \in Nat
         /\ taken \in Nat /\ start \in Nat /\ Len(line) \in Nat /\ taken <= Len(line)
<1>1. taken \in 0..Len(line) /\ start \in 0..taken /\ Len(line) \in Nat
  BY DEF StreamInv, LineInv, CallInv
<1>2. start \in 0..Len(line)
  BY <1>1
<1>3. Begun(taken) \in Nat /\ Begun(start) \in Nat
  BY <1>1, <1>2, BegunType DEF StreamInv
<1>4. failed \in Nat /\ Len(accepted) \in Nat
  BY DEF LossInv, StreamInv, HostInv
<1> QED
  BY <1>1, <1>3, <1>4

LEMMA BegunCall ==
  ASSUME StreamInv, LossInv, BegunInv, Call
  PROVE  BegunInv'
<1>1. /\ pc = "idle" /\ pc' = "hunt" /\ start' = taken
      /\ UNCHANGED <<line, taken, accepted, failed>>
  BY DEF Call
<1>2. Begun(taken)' = Begun(taken) /\ Begun(start)' = Begun(taken)
  BY <1>1 DEF Begun
<1>3. Begun(taken) \in Nat
  BY BegunTypes
<1> QED
  BY <1>1, <1>2, <1>3 DEF BegunInv

(* A call that ends where it is.                                           *)
LEMMA BegunEnd ==
  ASSUME StreamInv, LossInv, BegunInv, pc # "idle", pc' = "idle", UNCHANGED <<line, taken>>,
         \/ failed' = failed + 1 /\ accepted' = accepted
         \/ failed' = failed /\ accepted' = Append(accepted, line[sync].seq)
            /\ line[sync].seq \in Nat \ {0}
  PROVE  BegunInv'
<1>1. Begun(taken)' = Begun(taken)
  BY DEF Begun
<1>2. /\ Begun(taken) \in Nat /\ Begun(start) \in Nat
      /\ failed \in Nat /\ Len(accepted) \in Nat
  BY BegunTypes
<1>3. Begun(taken) <= failed + Len(accepted) + 1
  BY <1>2 DEF BegunInv
<1>4. failed' + Len(accepted') = failed + Len(accepted) + 1
  <2>1. CASE failed' = failed + 1 /\ accepted' = accepted
    BY <1>2, <2>1
  <2>2. CASE failed' = failed /\ accepted' = Append(accepted, line[sync].seq)
             /\ line[sync].seq \in Nat \ {0}
    <3>1. accepted \in Seq(Nat \ {0})
      BY DEF StreamInv, HostInv
    <3>2. Len(accepted') = Len(accepted) + 1
      BY <2>2, <3>1, AppendProperties
    <3> QED
      BY <1>2, <2>2, <3>2
  <2> QED
    BY <2>1, <2>2
<1>5. (failed + Len(accepted))' = failed + Len(accepted) + 1
  BY <1>4
<1> QED
  BY <1>1, <1>3, <1>5 DEF BegunInv

LEMMA BegunHunt ==
  ASSUME StreamInv, LossInv, WholeLine, ~Imitated, BegunInv, Hunt
  PROVE  BegunInv'
<1> DEFINE u == line[taken + 1]
<1>1. /\ pc = "hunt" /\ taken < Len(line) /\ taken' = taken + 1
      /\ state' = (IF u.val = "55" THEN 1 ELSE 0)
      /\ sync' = (IF u.val = "55" THEN taken + 1 ELSE sync)
      /\ pc' = (IF state = 1 /\ u.val = "AA" THEN "header" ELSE "hunt")
      /\ UNCHANGED <<line, start, accepted, failed>>
  BY DEF Hunt, account
<1>2. /\ Begun(taken) \in Nat /\ Begun(start) \in Nat
      /\ taken \in Nat /\ Len(line) \in Nat
  BY BegunTypes
<1>3. taken + 1 \in 1..Len(line) /\ taken + 1 # 0
  BY <1>1, <1>2
<1>4. u.seq \in Nat /\ u.ok /\ Legible(u)
  BY <1>3 DEF StreamInv, LineInv, WholeLine
<1>5. Begun(taken') = u.seq /\ Begun(taken)' = u.seq /\ Begun(start)' = Begun(start)
  BY <1>1, <1>3 DEF Begun
<1>6. u.seq = Begun(taken) \/ (u.seq = Begun(taken) + 1 /\ u.pos = 1)
  <2>1. CASE taken = 0
    <3>1. line # <<>>
      BY <1>3
    <3>2. line[1].seq = 1 /\ line[1].pos = 1
      BY <3>1 DEF WholeLine
    <3> QED
      BY <2>1, <3>2 DEF Begun
  <2>2. CASE taken # 0
    <3>1. taken \in 1..Len(line)
      BY <1>2, <1>3, <2>2
    <3> QED
      BY <1>3, <2>2, <3>1 DEF Begun, WholeLine
  <2> QED
    BY <2>1, <2>2
<1>7. state = 1 => sync = taken /\ taken # 0 /\ taken \in 1..Len(line) /\ line[taken].val = "55"
  <2>1. state = 1 => sync = taken /\ sync > start /\ line[sync].val = "55" /\ start \in Nat
    BY <1>1, BegunTypes DEF StreamInv, CallInv
  <2> QED
    BY <1>2, <1>3, <2>1
<1> HIDE DEF u
<1>8. Begun(start)' <= (failed + Len(accepted))'
  <2>1. Begun(start) <= failed + Len(accepted)
    BY <1>1 DEF BegunInv
  <2> QED
    BY <1>1, <1>5, <2>1
<1>9. CASE Begun(taken) = Begun(start) + 1
  <2>1. line[taken].pos = 1 /\ state = 1
    BY <1>1, <1>9 DEF BegunInv
  <2>2. FrameAt(taken)
    BY <1>7, <2>1 DEF WholeLine
  <2>3. 2 \in 1..FrameLen /\ taken + 2 - 1 = taken + 1
    BY <1>2, TailLen
  <2>4. u.pos = 2 /\ u.seq = line[taken].seq
    BY <2>2, <2>3 DEF FrameAt, u
  <2>5. u.val = "AA"
    BY <1>4, <2>4 DEF Legible
  <2>6. pc' = "header" /\ sync' = taken /\ u.seq = Begun(taken)
    BY <1>1, <1>7, <2>1, <2>4, <2>5 DEF Begun, u
  <2>7. u.seq <= Begun(start) + 1
    BY <1>2, <1>9, <2>6
  <2> QED
    BY <1>1, <1>5, <1>8, <2>1, <2>6, <2>7 DEF BegunInv
<1>10. CASE Begun(taken) # Begun(start) + 1
  <2>1. Begun(taken) <= Begun(start)
    <3>1. Begun(taken) <= Begun(start) + 1
      BY <1>1 DEF BegunInv
    <3> QED
      BY <1>2, <1>10, <3>1
  <2>2. u.seq <= Begun(start) + 1
    BY <1>2, <1>6, <2>1
  <2>3. u.seq = Begun(start) + 1 => u.pos = 1 /\ state' = 1
    <3>1. u.seq = Begun(start) + 1 => u.pos = 1
      BY <1>2, <1>6, <2>1
    <3>2. u.pos = 1 => u.val = "55"
      BY <1>4 DEF Legible
    <3> QED
      BY <1>1, <3>1, <3>2 DEF u
  <2>4. pc' = "header" => line[sync'].pos = 1
    <3> SUFFICES ASSUME pc' = "header" PROVE line[sync'].pos = 1
      OBVIOUS
    <3>1. state = 1 /\ u.val = "AA"
      BY <1>1 DEF u
    <3>2. sync' = taken
      BY <1>1, <1>7, <3>1 DEF u
    <3>3. taken \in 1..(Len(line) - 1) /\ line[taken].val = "55"
      BY <1>2, <1>3, <1>7, <3>1
    <3>4. line[taken].pos = 1
      BY <3>1, <3>3 DEF Imitated, u
    <3> QED
      BY <3>2, <3>4
  <2>5. line'[taken'] = u
    BY <1>1 DEF u
  <2>6. pc' \in {"hunt", "header"}
    BY <1>1
  <2> QED
    BY <1>1, <1>5, <1>8, <2>2, <2>3, <2>4, <2>5, <2>6 DEF BegunInv
<1> QED
  BY <1>9, <1>10

(* On such a line what follows 55 AA is a header, and then its tail.       *)
LEMMA BegunHeader ==
  ASSUME StreamInv, LossInv, WholeLine, BegunInv, Header
  PROVE  BegunInv'
<1> DEFINE u == line[taken + 1]
<1>1. /\ pc = "header" /\ taken < Len(line) /\ taken' = taken + 1
      /\ UNCHANGED <<line, sync, start>>
  BY DEF Header
<1>2. /\ Begun(taken) \in Nat /\ Begun(start) \in Nat
      /\ taken \in Nat /\ Len(line) \in Nat
  BY BegunTypes
<1>3. sync \in Nat \ {0} /\ taken = sync + 1 /\ sync \in 1..Len(line)
  <2>1. sync \in Nat /\ sync > start /\ taken = sync + 1 /\ start \in Nat
    BY <1>1, BegunTypes DEF StreamInv, CallInv
  <2> QED
    BY <1>1, <1>2, <2>1
<1>4. line[sync].pos = 1 /\ FrameAt(sync)
  BY <1>1, <1>3 DEF BegunInv, WholeLine
<1>5. 2 \in 1..FrameLen /\ 3 \in 1..FrameLen /\ sync + 2 - 1 = taken /\ sync + 3 - 1 = taken + 1
  BY <1>2, <1>3, TailLen
<1>6. u.ok /\ u.pos = 3 /\ u.seq = line[sync].seq /\ line[taken].seq = line[sync].seq
  BY <1>4, <1>5 DEF FrameAt
<1>7. u.val = "header"
  <2>1. taken + 1 \in 1..Len(line)
    BY <1>1, <1>2
  <2>2. Legible(u)
    BY <2>1 DEF StreamInv, LineInv
  <2> QED
    BY <1>6, <2>2 DEF Legible
<1>8. /\ hdr' = [cmd |-> frames[u.seq], len |-> FrameLen - 3] /\ pc' = "tail"
      /\ UNCHANGED <<failed, accepted>>
  BY <1>6, <1>7 DEF Header, account
<1>9. Begun(taken)' = Begun(taken) /\ Begun(start)' = Begun(start)
  BY <1>1, <1>2, <1>3, <1>6 DEF Begun
<1> QED
  BY <1>1, <1>4, <1>8, <1>9 DEF BegunInv

LEMMA BegunReadTail ==
  ASSUME StreamInv, LossInv, WholeLine, BegunInv, ReadTail
  PROVE  BegunInv'
<1>1. PICK n \in 1..(hdr.len - pos) : taken' = taken + n /\ taken + n <= Len(line)
  BY DEF ReadTail
<1>2. /\ pc = "tail" /\ UNCHANGED <<line, pc, sync, hdr, start, failed, accepted>>
  BY DEF ReadTail, account
<1>3. /\ sync \in Nat \ {0} /\ sync \in 1..Len(line) /\ taken = sync + 2 + pos
      /\ hdr.len \in Nat /\ pos \in 0..hdr.len
  <2>1. /\ sync \in Nat /\ sync > start /\ taken = sync + 2 + pos /\ start \in Nat
        /\ hdr.len \in Nat /\ pos \in 0..hdr.len /\ taken <= Len(line) /\ Len(line) \in Nat
    BY <1>2, BegunTypes DEF StreamInv, CallInv
  <2> QED
    BY <2>1
<1>4. line[sync].pos = 1 /\ FrameAt(sync) /\ hdr.len = FrameLen - 3
  BY <1>2, <1>3 DEF BegunInv, WholeLine
<1>5. /\ 3 + pos \in 1..FrameLen /\ 3 + pos + n \in 1..FrameLen
      /\ sync + (3 + pos) - 1 = taken /\ sync + (3 + pos + n) - 1 = taken + n
  BY <1>3, <1>4, TailLen
<1>6. line[taken].seq = line[sync].seq /\ line[taken + n].seq = line[sync].seq
  BY <1>4, <1>5 DEF FrameAt
<1>7. taken # 0 /\ taken + n # 0
  BY <1>3
<1>8. Begun(taken)' = Begun(taken) /\ Begun(start)' = Begun(start)
  BY <1>1, <1>2, <1>6, <1>7 DEF Begun
<1> QED
  BY <1>2, <1>8 DEF BegunInv

LEMMA LossStep == StreamInv /\ LossInv /\ [Next]_vars => LossInv'
<1> SUFFICES ASSUME StreamInv, LossInv, [Next]_vars PROVE LossInv'
  OBVIOUS
<1>1. CASE Push \/ PushFaulty \/ StartRecord
  <2>1. PICK units : \E cmd \in {"data", "ack"} :
          /\ PartOf(Len(frames) + 1, units) /\ Send(cmd, units)
          /\ \/ faults' = faults /\ WholeFrame(Len(frames) + 1, units)
             \/ faults' = faults + 1
    BY <1>1, BoardStep
  <2>2. Len(frames) + 1 \in Nat
    BY DEF StreamInv, LineInv
  <2> QED
    BY <2>1, <2>2, LossSend
<1>2. CASE StopRecord \/ UNCHANGED vars
  <2>1. UNCHANGED <<frames, line, taken, faults, pc, state, sync, hdr, pos, start,
                    accepted, failed>>
    BY <1>2 DEF StopRecord, vars, call, account
  <2> QED
    BY <2>1 DEF LossInv, WholeLine, BegunInv, Begun, Imitated, FrameAt
<1>3. faults = 0 /\ ~Imitated => WholeLine /\ BegunInv
  BY DEF LossInv
<1>4. CASE Call
  BY <1>3, <1>4, BegunCall, LossHost DEF Call
<1>5. CASE Deadline
  <2>1. /\ pc # "idle" /\ pc' = "idle" /\ UNCHANGED <<frames, line, faults, taken, accepted>>
        /\ failed' = failed + 1
    BY <1>5 DEF Deadline, Fail
  <2> QED
    BY <1>3, <2>1, BegunEnd, LossHost
<1>6. CASE Hunt
  BY <1>3, <1>6, BegunHunt, LossHost DEF Hunt, account
<1>7. CASE Header
  <2>1. UNCHANGED <<frames, line, faults>> /\ (failed' = failed \/ failed' = failed + 1)
    BY <1>7 DEF Header, Fail, account
  <2> QED
    BY <1>3, <1>7, <2>1, BegunHeader, LossHost
<1>8. CASE ReadTail
  BY <1>3, <1>8, BegunReadTail, LossHost DEF ReadTail, account
<1>9. CASE Verify
  <2>1. /\ pc = "tail" /\ pc' = "idle" /\ UNCHANGED <<frames, line, faults, taken>>
        /\ \/ failed' = failed + 1 /\ accepted' = accepted
           \/ /\ failed' = failed /\ accepted' = Append(accepted, line[sync].seq)
              /\ CrcOk /\ hdr.cmd = "data"
    BY <1>9 DEF Verify, Fail
  <2>2. CrcOk /\ hdr.cmd = "data" => line[sync].seq \in Nat \ {0}
    BY <2>1, CrcStep DEF StreamInv
  <2> QED
    BY <1>3, <2>1, <2>2, BegunEnd, LossHost
<1> QED
  BY <1>1, <1>2, <1>4, <1>5, <1>6, <1>7, <1>8, <1>9 DEF Next

LEMMA LossInit == Init => LossInv
<1> SUFFICES ASSUME Init PROVE LossInv
  OBVIOUS
<1>1. /\ faults = 0 /\ failed = 0 /\ frames = <<>> /\ line = <<>> /\ taken = 0 /\ pc = "idle"
      /\ accepted = <<>>
  BY DEF Init
<1> QED
  BY <1>1 DEF LossInv, WholeLine, BegunInv, Begun

(* The number of frames returned.                                          *)
LEMMA ReturnedCount ==
  ASSUME StreamInv
  PROVE  IsFiniteSet(Returned) /\ Cardinality(Returned) = Len(accepted)
<1> DEFINE D == 1..Len(accepted)
<1>1. accepted \in [D -> Nat \ {0}] /\ Len(accepted) \in Nat /\ DOMAIN accepted = D
  BY DEF StreamInv, HostInv
<1>2. ASSUME NEW i \in D, NEW j \in D, accepted[i] = accepted[j] PROVE i = j
  <2>1. i < j => accepted[i] < accepted[j]
    BY DEF StreamInv, HostInv
  <2>2. j < i => accepted[j] < accepted[i]
    BY DEF StreamInv, HostInv
  <2>3. accepted[i] \in Nat /\ accepted[j] \in Nat /\ i \in Int /\ j \in Int
    BY <1>1
  <2> QED
    BY <1>2, <2>1, <2>2, <2>3
<1>3. Returned = {accepted[i] : i \in D}
  BY <1>1 DEF Returned
<1>4. IsFiniteSet(D) /\ Cardinality(D) = Len(accepted)
  <2>1. /\ IsFiniteSet(1..Len(accepted))
        /\ Cardinality(1..Len(accepted)) = IF 1 > Len(accepted) THEN 0 ELSE Len(accepted) - 1 + 1
    <3>1. 1 \in Int /\ Len(accepted) \in Int
      BY <1>1
    <3> QED
      BY <3>1, FS_Interval
  <2> QED
    BY <1>1, <2>1
<1> HIDE DEF D
<1>5. accepted \in [D -> Returned]
  BY <1>1, <1>3
<1>6. accepted \in Injection(D, Returned)
  BY <1>2, <1>5 DEF Injection, IsInjective
<1>7. accepted \in Surjection(D, Returned)
  BY <1>3, <1>5 DEF Surjection
<1>8. IsFiniteSet(Returned) /\ Cardinality(Returned) = Cardinality(D)
  BY <1>4, <1>6, <1>7, FS_Surjection
<1> QED
  BY <1>4, <1>8

(* "recovers from desync" (CustomProtocol.h:38): on a faultless line and   *)
(* as long as no payload looks like 55 AA, each call that fails costs one  *)
(* frame at most, however long the frames are and wherever the deadlines   *)
(* fall.                                                                   *)
THEOREM LossCorrect == Spec => []LossBounded
<1>1. StreamInv /\ LossInv => LossBounded
  <2> SUFFICES ASSUME StreamInv, LossInv, pc = "idle", faults = 0, ~Imitated
               PROVE  Cardinality(Passed \ Returned) <= failed
    BY DEF LossBounded
  <2> DEFINE T == Begun(taken)
             A == 1..T
  <2>1. T <= failed + Len(accepted)
    BY DEF LossInv, BegunInv
  <2>2. /\ T \in Nat /\ failed \in Nat /\ Len(accepted) \in Nat
        /\ taken \in Nat /\ Len(line) \in Nat /\ taken <= Len(line)
    BY BegunTypes
  <2>3. ASSUME NEW i \in 1..(taken - FrameLen + 1) PROVE line[i].seq \in 1..T
    <3>1. i \in 1..Len(line) /\ taken \in 1..Len(line) /\ i <= taken /\ taken # 0
      BY <2>2, TailLen
    <3>2. line[i].seq \in 1..Len(frames) /\ line[taken].seq \in 1..Len(frames)
      BY <3>1 DEF StreamInv, LineInv
    <3>3. i < taken => line[i].seq <= line[taken].seq
      <4>1. i < taken => \/ line[i].seq < line[taken].seq
                         \/ line[i].seq = line[taken].seq
        BY <3>1 DEF StreamInv, LineInv
      <4> QED
        BY <3>2, <4>1
    <3>4. T = line[taken].seq
      BY <3>1 DEF Begun
    <3> HIDE DEF T
    <3> QED
      BY <2>2, <3>1, <3>2, <3>3, <3>4
  <2>4. Passed \subseteq A
    BY <2>3 DEF Passed
  <2>5. Returned \subseteq A
    BY <2>4, ReturnedPassed
  <2>6. IsFiniteSet(A) /\ Cardinality(A) = T
    <3> HIDE DEF T
    <3>1. 1 \in Int /\ T \in Int
      BY <2>2
    <3>2. IsFiniteSet(1..T) /\ Cardinality(1..T) = IF 1 > T THEN 0 ELSE T - 1 + 1
      BY <3>1, FS_Interval, Zenon
    <3> QED
      BY <2>2, <3>2
  <2> HIDE DEF T, A
  <2>7. A \cap Returned = Returned /\ Passed \ Returned \in SUBSET (A \ Returned)
    BY <2>4, <2>5
  <2>8. IsFiniteSet(A \ Returned) /\ Cardinality(A \ Returned) = T - Len(accepted)
    <3>1. /\ IsFiniteSet(A \ Returned)
          /\ Cardinality(A \ Returned) = Cardinality(A) - Cardinality(A \cap Returned)
      BY <2>6, FS_Difference
    <3>2. Cardinality(A \cap Returned) = Len(accepted)
      BY <2>7, ReturnedCount
    <3> QED
      BY <2>6, <3>1, <3>2
  <2>9. /\ IsFiniteSet(Passed \ Returned)
        /\ Cardinality(Passed \ Returned) <= Cardinality(A \ Returned)
    BY <2>7, <2>8, FS_Subset
  <2>10. Cardinality(Passed \ Returned) \in Nat
    BY <2>9, FS_CardinalityType
  <2> QED
    BY <2>1, <2>2, <2>8, <2>9, <2>10
<1> QED
  BY <1>1, StreamInit, StreamStep, LossInit, LossStep, PTL DEF Spec
=============================================================================
