----------------------------- MODULE AdcLinkProofs -----------------------------
(***************************************************************************)
(* That no answer is accepted twice, out of order or by a call of another  *)
(* kind, whatever the line loses, garbles or delays; whose answer a call   *)
(* gets while all are in time, and that a delay is never made up for; and  *)
(* that the receiver, out of step, finds a frame again.  For any number of *)
(* commands and faults and frames of any length.                           *)
(***************************************************************************)
EXTENDS AdcLink, SequenceTheorems, TLAPS

Units == [seq : Nat, pos : Nat, ok : BOOLEAN]

FrameLen(n) == HeaderLen + BodyLen[sent[n]]

(* Bytes of the n-th answer, in their order.                               *)
PartOf(n, bytes) ==
  /\ bytes \in Seq(Units)
  /\ \A i \in 1..Len(bytes) : bytes[i].seq = n /\ bytes[i].pos \in 1..FrameLen(n)
  /\ \A i, j \in 1..Len(bytes) : i < j => bytes[i].pos < bytes[j].pos

(* The line carries the answers one after another.                         *)
LineInv ==
  /\ sent \in Seq(Kinds) /\ answered \in 0..Len(sent)
  /\ line \in Seq(Units)
  /\ arrived \in 0..Len(line) /\ taken \in 0..arrived
  /\ \A i \in 1..Len(line) : /\ line[i].seq \in 1..answered
                             /\ line[i].pos \in 1..FrameLen(line[i].seq)
  /\ \A i, j \in 1..Len(line) :
       i < j => \/ line[i].seq < line[j].seq
                \/ line[i].seq = line[j].seq /\ line[i].pos < line[j].pos

LastSeq == IF accepted = <<>> THEN 0 ELSE accepted[Len(accepted)].seq

Accepted == [seq : Nat, call : Kinds, at : Nat]

(* All that is still to be read is of answers younger than the last one    *)
(* accepted; a sound header tells the length of the frame it announces.    *)
HostInv ==
  /\ want \in Kinds
  /\ pc = "tail" => /\ hdr.need \in Nat
                    /\ hdr.sound => hdr.cmd \in Kinds /\ hdr.need = BodyLen[hdr.cmd]
  /\ accepted \in Seq(Accepted)
  /\ \A i \in 1..Len(accepted) : /\ accepted[i].seq \in 1..answered
                                 /\ accepted[i].seq <= accepted[i].at
                                 /\ sent[accepted[i].seq] = accepted[i].call
  /\ \A i \in 1..Len(accepted) : i > 1 => accepted[i - 1].seq < accepted[i].seq
  /\ \A j \in 1..Len(line) : j > taken => line[j].seq > LastSeq
-----------------------------------------------------------------------------
LEMMA FrameParts ==
  ASSUME NEW n \in Nat, FrameLen(n) \in Nat
  PROVE  LET f == Frame(n) IN
         /\ PartOf(n, f) /\ PartOf(n, <<>>)
         /\ \A p \in DOMAIN f :
              /\ PartOf(n, SubSeq(f, 1, p - 1) \o SubSeq(f, p + 1, Len(f)))
              /\ PartOf(n, [f EXCEPT ![p].ok = FALSE])
<1> DEFINE f == Frame(n)
           k == FrameLen(n)
<1>1. f = [p \in 1..k |-> [seq |-> n, pos |-> p, ok |-> TRUE]]
  BY DEF Frame, FrameLen
<1>2. k \in Nat
  OBVIOUS
<1> HIDE DEF k
<1>u. f \in [1..k -> Units]
  BY <1>1, <1>2 DEF Units
<1>4. f \in Seq(Units) /\ Len(f) = k /\ DOMAIN f = 1..k
  BY <1>2, <1>u
<1>3. \A p \in 1..k : f[p].seq = n /\ f[p].pos = p
  BY <1>1
<1> HIDE DEF f
<1>m. ASSUME NEW i \in 1..k PROVE f[i] \in Units
  BY <1>u
<1>5. PartOf(n, f)
  BY <1>2, <1>3, <1>4 DEF PartOf, k
<1>6. PartOf(n, <<>>)
  BY DEF PartOf
<1>7. ASSUME NEW p \in 1..k
      PROVE  PartOf(n, SubSeq(f, 1, p - 1) \o SubSeq(f, p + 1, Len(f)))
  <2> DEFINE a == SubSeq(f, 1, p - 1)
             b == SubSeq(f, p + 1, k)
             g == a \o b
  <2>1. a \in Seq(Units) /\ Len(a) = p - 1 /\ \A i \in 1..(p - 1) : a[i] = f[i]
    <3>1. 1 \in Int /\ p - 1 \in Int /\ \A i \in 1..(p - 1) : f[i] \in Units
      BY <1>2, <1>m
    <3>2. /\ SubSeq(f, 1, p - 1) \in Seq(Units)
          /\ Len(SubSeq(f, 1, p - 1)) = IF 1 <= p - 1 THEN (p - 1) - 1 + 1 ELSE 0
          /\ \A i \in 1..((p - 1) - 1 + 1) : SubSeq(f, 1, p - 1)[i] = f[1 + i - 1]
      BY <3>1, SubSeqProperties
    <3> QED
      BY <1>2, <3>2
  <2>2. b \in Seq(Units) /\ Len(b) = k - p /\ \A i \in 1..(k - p) : b[i] = f[p + i]
    <3>1. p + 1 \in Int /\ k \in Int /\ \A i \in (p + 1)..k : f[i] \in Units
      BY <1>2, <1>m
    <3>2. /\ SubSeq(f, p + 1, k) \in Seq(Units)
          /\ Len(SubSeq(f, p + 1, k)) = IF p + 1 <= k THEN k - (p + 1) + 1 ELSE 0
          /\ \A i \in 1..(k - (p + 1) + 1) : SubSeq(f, p + 1, k)[i] = f[(p + 1) + i - 1]
      BY <3>1, SubSeqProperties
    <3> QED
      BY <1>2, <3>2
  <2> HIDE DEF a, b
  <2>3. /\ g \in Seq(Units) /\ Len(g) = k - 1
        /\ \A i \in 1..(k - 1) : g[i] = IF i < p THEN f[i] ELSE f[i + 1]
    <3>1. /\ g \in Seq(Units) /\ Len(g) = Len(a) + Len(b)
          /\ \A i \in 1..(Len(a) + Len(b)) : g[i] = IF i <= Len(a) THEN a[i] ELSE b[i - Len(a)]
      BY <2>1, <2>2, ConcatProperties
    <3> HIDE DEF g
    <3>2. ASSUME NEW i \in 1..(k - 1) PROVE g[i] = IF i < p THEN f[i] ELSE f[i + 1]
      BY <1>2, <2>1, <2>2, <3>1
    <3> QED
      BY <1>2, <2>1, <2>2, <3>1, <3>2
  <2> HIDE DEF g
  <2>4. ASSUME NEW i \in 1..(k - 1)
        PROVE  g[i].seq = n /\ g[i].pos = IF i < p THEN i ELSE i + 1
    <3>1. i \in 1..k /\ i + 1 \in 1..k
      BY <1>2
    <3> QED
      BY <1>3, <2>3, <3>1
  <2>5. PartOf(n, g)
    BY <1>2, <2>3, <2>4 DEF PartOf, k
  <2> QED
    BY <1>4, <2>5 DEF g, a, b
<1>8. ASSUME NEW p \in 1..k PROVE PartOf(n, [f EXCEPT ![p].ok = FALSE])
  <2> DEFINE g == [f EXCEPT ![p].ok = FALSE]
             x == [f[p] EXCEPT !.ok = FALSE]
  <2>1. x \in Units /\ p \in 1..Len(f) /\ x.seq = f[p].seq /\ x.pos = f[p].pos
    BY <1>4, <1>m DEF Units
  <2>2. g = [f EXCEPT ![p] = x]
    OBVIOUS
  <2> HIDE DEF g, x
  <2>3. /\ g \in Seq(Units) /\ Len(g) = k
        /\ \A i \in 1..k : g[i] = IF i = p THEN x ELSE f[i]
    BY <1>4, <2>1, <2>2, ExceptSeq
  <2>4. \A i \in 1..k : g[i].seq = n /\ g[i].pos = i
    BY <1>3, <2>1, <2>3
  <2>5. PartOf(n, g)
    BY <1>2, <2>3, <2>4 DEF PartOf, k
  <2> QED
    BY <2>5 DEF g
<1> QED
  BY <1>4, <1>5, <1>6, <1>7, <1>8 DEF f
(* An answer, or what is left of it, is put behind the others.             *)
LEMMA DeliverStep ==
  ASSUME LineInv, HostInv, NEW bytes, PartOf(answered + 1, bytes), Deliver(bytes)
  PROVE  LineInv' /\ HostInv'
<1> DEFINE n == answered + 1
           u == Len(line)
<1>1. /\ answered < Len(sent) /\ answered' = answered + 1 /\ line' = line \o bytes
      /\ UNCHANGED <<sent, arrived, taken, pc, want, hdr, accepted>>
  BY DEF Deliver, host
<1>2. /\ line \in Seq(Units) /\ bytes \in Seq(Units)
      /\ u \in Nat /\ Len(bytes) \in Nat /\ answered \in Nat /\ n \in Nat
  BY DEF LineInv, PartOf
<1>3. /\ line' \in Seq(Units) /\ Len(line') = u + Len(bytes)
      /\ \A i \in 1..(u + Len(bytes)) :
           line'[i] = IF i <= u THEN line[i] ELSE bytes[i - u]
  BY <1>1, <1>2, ConcatProperties
<1> HIDE DEF n, u
<1>4. ASSUME NEW i \in 1..Len(line')
      PROVE  \/ i \in 1..u /\ line'[i] = line[i]
             \/ i > u /\ i - u \in 1..Len(bytes) /\ line'[i] = bytes[i - u]
  BY <1>2, <1>3
<1>5. \A i \in 1..u : line[i].seq < n /\ line[i].seq \in 1..answered
                      /\ line[i].pos \in 1..FrameLen(line[i].seq)
  BY <1>2 DEF LineInv, n, u
<1>6. \A i \in 1..Len(bytes) : bytes[i].seq = n /\ bytes[i].pos \in 1..FrameLen(n)
  BY DEF PartOf, n
<1>7. \A i : FrameLen(i)' = FrameLen(i)
  BY <1>1 DEF FrameLen
<1>8. ASSUME NEW i \in 1..Len(line')
      PROVE  line'[i].seq \in 1..answered' /\ line'[i].pos \in 1..FrameLen(line'[i].seq)
  <2>1. CASE i \in 1..u /\ line'[i] = line[i]
    <3>1. line[i].seq \in 1..answered /\ line[i].pos \in 1..FrameLen(line[i].seq)
      BY <1>5, <2>1
    <3> QED
      BY <1>1, <1>2, <2>1, <3>1
  <2>2. CASE i > u /\ i - u \in 1..Len(bytes) /\ line'[i] = bytes[i - u]
    <3>1. line'[i].seq = n /\ line'[i].pos \in 1..FrameLen(n)
      BY <1>6, <2>2
    <3> QED
      BY <1>1, <1>2, <3>1 DEF n
  <2> QED
    BY <1>4, <2>1, <2>2
<1>9. ASSUME NEW i \in 1..Len(line'), NEW j \in 1..Len(line'), i < j
      PROVE  \/ line'[i].seq < line'[j].seq
             \/ line'[i].seq = line'[j].seq /\ line'[i].pos < line'[j].pos
  <2>1. CASE j \in 1..u /\ line'[j] = line[j]
    <3>1. i \in 1..u /\ line'[i] = line[i]
      BY <1>2, <1>4, <1>9, <2>1
    <3> QED
      BY <1>9, <2>1, <3>1 DEF LineInv, u
  <2>2. CASE j > u /\ j - u \in 1..Len(bytes) /\ line'[j] = bytes[j - u]
    <3>1. CASE i \in 1..u /\ line'[i] = line[i]
      BY <1>5, <1>6, <2>2, <3>1
    <3>2. CASE i > u /\ i - u \in 1..Len(bytes) /\ line'[i] = bytes[i - u]
      <4>1. i - u < j - u
        BY <1>2, <1>9, <2>2, <3>2
      <4>2. bytes[i - u].pos < bytes[j - u].pos
        BY <2>2, <3>2, <4>1 DEF PartOf
      <4> QED
        BY <1>6, <2>2, <3>2, <4>2
    <3> QED
      BY <1>4, <3>1, <3>2
  <2> QED
    BY <1>4, <2>1, <2>2
<1>10. ASSUME NEW j \in 1..Len(line'), j > taken'
       PROVE  line'[j].seq > LastSeq'
  <2>1. LastSeq' = LastSeq /\ LastSeq \in 0..answered
    BY <1>1, <1>2 DEF LastSeq, HostInv
  <2>2. CASE j \in 1..u /\ line'[j] = line[j]
    BY <1>1, <1>10, <2>1, <2>2 DEF HostInv, u
  <2>3. CASE j > u /\ j - u \in 1..Len(bytes) /\ line'[j] = bytes[j - u]
    <3>1. line'[j].seq = answered + 1
      BY <1>6, <2>3 DEF n
    <3> QED
      BY <1>2, <2>1, <3>1
  <2> QED
    BY <1>4, <2>2, <2>3
<1>11. LineInv'
  <2>1. arrived' \in 0..Len(line') /\ taken' \in 0..arrived' /\ answered' \in 0..Len(sent')
    BY <1>1, <1>2, <1>3 DEF LineInv, u
  <2>2. sent' \in Seq(Kinds)
    BY <1>1 DEF LineInv
  <2> QED
    BY <1>3, <1>7, <1>8, <1>9, <2>1, <2>2 DEF LineInv
<1>12. HostInv'
  <2>1. ASSUME NEW i \in 1..Len(accepted)
        PROVE  /\ accepted[i].seq \in 1..answered' /\ accepted[i].seq <= accepted[i].at
               /\ sent[accepted[i].seq] = accepted[i].call
    BY <1>1, <1>2 DEF HostInv
  <2> QED
    BY <1>1, <1>10, <2>1 DEF HostInv
<1> QED
  BY <1>11, <1>12
(* A command more to be answered.                                          *)
LEMMA SendStep ==
  ASSUME LineInv, HostInv, NEW k \in Kinds, sent' = Append(sent, k) \/ sent' = sent,
         UNCHANGED <<answered, line, arrived, taken, hdr, accepted>>,
         want' \in Kinds, pc' # "tail"
  PROVE  LineInv' /\ HostInv'
<1>1. sent \in Seq(Kinds) /\ Len(sent) \in Nat /\ answered \in 0..Len(sent)
  BY DEF LineInv
<1>2. /\ sent' \in Seq(Kinds) /\ Len(sent') >= Len(sent) /\ Len(sent') \in Nat
      /\ \A n \in 1..Len(sent) : sent'[n] = sent[n]
  BY <1>1
<1>3. \A n \in 1..answered : sent'[n] = sent[n] /\ FrameLen(n)' = FrameLen(n)
  BY <1>1, <1>2 DEF FrameLen
<1>4. LineInv'
  <2>1. \A i \in 1..Len(line) : line[i].seq \in 1..answered
                                /\ line[i].pos \in 1..FrameLen(line[i].seq)'
    BY <1>3 DEF LineInv
  <2> QED
    BY <1>1, <1>2, <2>1 DEF LineInv
<1>5. HostInv'
  BY <1>3 DEF HostInv, LastSeq
<1> QED
  BY <1>4, <1>5

(* A read, and a call that ends without an answer.                         *)
LEMMA ReadType ==
  ASSUME LineInv, NEW len \in Nat
  PROVE  /\ ReadLen(len) \in Nat /\ ReadLen(len) <= len
         /\ taken + ReadLen(len) \in 0..arrived
         /\ ReadLen(len) = len => taken + len <= Len(line)
BY DEF LineInv, ReadLen, Avail

LEMMA TakeStep ==
  ASSUME LineInv, HostInv, NEW len \in Nat, taken' = taken + ReadLen(len),
         UNCHANGED <<sent, answered, line, arrived, want, accepted>>,
         pc' = "tail" => /\ hdr'.need \in Nat
                         /\ hdr'.sound => hdr'.cmd \in Kinds /\ hdr'.need = BodyLen[hdr'.cmd]
  PROVE  LineInv' /\ HostInv'
<1>1. taken' \in 0..arrived /\ taken' >= taken /\ taken \in Nat
  BY ReadType, SMTT(40) DEF LineInv
<1>2. LineInv'
  BY <1>1 DEF LineInv, FrameLen
<1>3. \A j \in 1..Len(line) : j > taken' => line[j].seq > LastSeq
  BY <1>1 DEF HostInv, LineInv
<1> QED
  BY <1>2, <1>3 DEF HostInv, LastSeq

LEMMA HeaderStep ==
  ASSUME LineInv, HostInv, RecvHeader
  PROVE  LineInv' /\ HostInv'
<1>1. /\ taken' = taken + ReadLen(HeaderLen) /\ HeaderLen \in Nat /\ HeaderLen = 2
      /\ UNCHANGED <<sent, answered, line, arrived, want>>
  BY DEF RecvHeader, HeaderLen
<1>2. CASE ShortHeader \/ BadHeader \/ BadLength
  <2>1. accepted' = accepted /\ pc' # "tail"
    BY <1>2 DEF ShortHeader, BadHeader, BadLength, Return
  <2> QED
    BY <1>1, <2>1, TakeStep
<1>3. CASE GoodHeader
  <2> DEFINE h == line[taken + 1]
             l == line[taken + 2]
             whole == l.pos = 2 /\ l.ok
  <2>1. PICK need \in IF whole THEN {BodyLen[sent[l.seq]]} ELSE 1..MaxTail :
          hdr' = [cmd |-> IF h.ok THEN sent[h.seq] ELSE "none", need |-> need,
                  sound |-> h.ok /\ whole /\ sent[h.seq] = sent[l.seq]]
    BY <1>3 DEF GoodHeader
  <2>2. accepted' = accepted /\ ReadLen(HeaderLen) = HeaderLen
    BY <1>3 DEF GoodHeader
  <2>3. taken \in Nat /\ taken + 2 <= Len(line)
    BY <1>1, <2>2, ReadType DEF LineInv
  <2>4. h.seq \in 1..Len(sent) /\ l.seq \in 1..Len(sent)
    <3>1. taken + 1 \in 1..Len(line) /\ taken + 2 \in 1..Len(line)
      BY <2>3
    <3> QED
      BY <3>1 DEF LineInv
  <2>5. sent[h.seq] \in Kinds /\ sent[l.seq] \in Kinds
    BY <2>4, SMTT(40) DEF LineInv
  <2> HIDE DEF h, l
  <2>6. need \in Nat
    BY <2>1, <2>5, LinkAssumption
  <2>7. /\ hdr'.need = need
        /\ hdr'.sound => whole /\ hdr'.cmd = sent[h.seq] /\ sent[h.seq] = sent[l.seq]
    BY <2>1
  <2>8. hdr'.sound => hdr'.cmd \in Kinds /\ hdr'.need = BodyLen[hdr'.cmd]
    BY <2>1, <2>5, <2>7
  <2> QED
    BY <1>1, <2>2, <2>6, <2>7, <2>8, TakeStep
<1> QED
  BY <1>2, <1>3 DEF RecvHeader

(* A tail that is accepted: the whole rest of a frame, of a later answer   *)
(* than the last, and nothing of it is left to be read.                    *)
LEMMA AcceptedTail ==
  ASSUME LineInv, HostInv, pc = "tail", ReadLen(hdr.need) = hdr.need, CrcOk
  PROVE  LET b == Body[1].seq IN
         /\ b \in 1..answered /\ b > LastSeq /\ sent[b] = hdr.cmd
         /\ \A j \in 1..Len(line) : j > taken + hdr.need => line[j].seq > b
<1> DEFINE m == hdr.need
           b == Body[1].seq
<1>1. m \in Nat \ {0} /\ hdr.cmd \in Kinds /\ m = BodyLen[hdr.cmd]
  <2>1. hdr.sound
    BY DEF CrcOk
  <2>2. hdr.cmd \in Kinds /\ m = BodyLen[hdr.cmd]
    BY <2>1 DEF HostInv
  <2> QED
    BY <2>2, LinkAssumption
<1>2. taken \in Nat /\ taken + m <= Len(line) /\ Len(line) \in Nat
  <2>1. taken \in Nat /\ Len(line) \in Nat
    BY DEF LineInv
  <2>2. hdr.need \in Nat
    BY <1>1
  <2>3. taken + hdr.need <= Len(line)
    BY <2>2, ReadType
  <2> QED
    BY <2>1, <2>3
<1>3. \A i \in 1..m : Body[i] = line[taken + i]
  <2>1. taken + 1 \in Int /\ taken + m \in Int
    BY <1>1, <1>2
  <2>2. ASSUME NEW i \in (taken + 1)..(taken + m) PROVE line[i] \in Units
    <3>1. i \in 1..Len(line)
      BY <1>1, <1>2
    <3> QED
      BY <3>1 DEF LineInv
  <2>3. \A i \in 1..((taken + m) - (taken + 1) + 1) : Body[i] = line[(taken + 1) + i - 1]
    BY <2>1, <2>2, SubSeqProperties DEF Body
  <2>4. ASSUME NEW i \in 1..m PROVE Body[i] = line[taken + i]
    <3>1. i \in 1..((taken + m) - (taken + 1) + 1) /\ (taken + 1) + i - 1 = taken + i
      BY <1>1, <1>2
    <3> QED
      BY <2>3, <3>1
  <2> QED
    BY <2>4
<1>4. \A i \in 1..m : Body[i].pos = HeaderLen + i /\ Body[i].seq = b
  BY DEF CrcOk
<1>5. sent[b] = hdr.cmd
  BY DEF CrcOk
<1> HIDE DEF m, b
<1>6. line[taken + 1].seq = b /\ line[taken + m].seq = b /\ line[taken + m].pos = HeaderLen + m
  <2>1. 1 \in 1..m /\ m \in 1..m
    BY <1>1
  <2> QED
    BY <1>3, <1>4, <2>1
<1>7. taken + 1 \in 1..Len(line) /\ taken + m \in 1..Len(line)
  BY <1>1, <1>2
<1>8. b \in 1..answered /\ b > LastSeq
  <2>1. line[taken + 1].seq \in 1..answered
    BY <1>7 DEF LineInv
  <2>2. line[taken + 1].seq > LastSeq
    BY <1>2, <1>7 DEF HostInv
  <2> QED
    BY <1>6, <2>1, <2>2
<1>9. FrameLen(b) = HeaderLen + m
  BY <1>1, <1>5 DEF FrameLen
<1>10. ASSUME NEW j \in 1..Len(line), j > taken + m PROVE line[j].seq > b
  <2>1. \/ line[taken + m].seq < line[j].seq
        \/ line[taken + m].seq = line[j].seq /\ line[taken + m].pos < line[j].pos
    BY <1>7, <1>10 DEF LineInv
  <2>2. line[j].seq \in 1..answered /\ line[j].pos \in 1..FrameLen(line[j].seq)
    BY DEF LineInv
  <2>3. answered \in Nat
    BY DEF LineInv
  <2>4. CASE line[j].seq = b
    <3>1. line[j].pos \in 1..(HeaderLen + m) /\ HeaderLen + m < line[j].pos
      BY <1>6, <1>9, <2>1, <2>2, <2>4, <1>8, <2>3
    <3> QED
      BY <1>1, <3>1 DEF HeaderLen
  <2> QED
    BY <1>6, <1>8, <2>1, <2>2, <2>3, <2>4
<1> QED
  BY <1>5, <1>8, <1>10 DEF m, b

LEMMA TailStep ==
  ASSUME LineInv, HostInv, RecvTail
  PROVE  LineInv' /\ HostInv'
<1>1. /\ pc = "tail" /\ taken' = taken + ReadLen(hdr.need) /\ hdr.need \in Nat
      /\ UNCHANGED <<sent, answered, line, arrived, want, hdr>> /\ pc' # "tail"
  BY DEF RecvTail, HostInv, Return
<1>2. CASE accepted' = accepted
  BY <1>1, <1>2, TakeStep
<1>3. CASE accepted' # accepted
  <2> DEFINE b == Body[1].seq
             x == [seq |-> b, call |-> want, at |-> Len(sent)]
  <2>1. /\ ReadLen(hdr.need) = hdr.need /\ CrcOk /\ hdr.cmd = want
        /\ accepted' = Append(accepted, x)
    BY <1>3 DEF RecvTail, Return
  <2>2. /\ b \in 1..answered /\ b > LastSeq /\ sent[b] = want
        /\ \A j \in 1..Len(line) : j > taken' => line[j].seq > b
    BY <1>1, <2>1, AcceptedTail
  <2>3. answered \in Nat /\ answered <= Len(sent) /\ Len(sent) \in Nat /\ want \in Kinds
    BY DEF LineInv, HostInv
  <2> HIDE DEF b
  <2>4. x \in Accepted /\ x.seq = b /\ x.call = want /\ x.at = Len(sent)
    BY <2>2, <2>3 DEF Accepted
  <2> HIDE DEF x
  <2>5. accepted \in Seq(Accepted) /\ Len(accepted) \in Nat
    BY DEF HostInv
  <2>6. /\ accepted' \in Seq(Accepted) /\ accepted' # <<>>
        /\ Len(accepted') = Len(accepted) + 1
        /\ accepted'[Len(accepted) + 1] = x
        /\ \A i \in 1..Len(accepted) : accepted'[i] = accepted[i]
    BY <2>1, <2>4, <2>5, AppendProperties
  <2>7. LastSeq' = b
    BY <2>4, <2>6 DEF LastSeq
  <2>8. taken' \in 0..arrived
    BY <1>1, ReadType
  <2>9. LineInv'
    BY <1>1, <2>8 DEF LineInv, FrameLen
  <2>10. ASSUME NEW i \in 1..Len(accepted')
         PROVE  /\ accepted'[i].seq \in 1..answered
                /\ accepted'[i].seq <= accepted'[i].at
                /\ sent[accepted'[i].seq] = accepted'[i].call
                /\ i > 1 => accepted'[i - 1].seq < accepted'[i].seq
    <3>1. CASE i \in 1..Len(accepted)
      <4>1. /\ accepted[i].seq \in 1..answered
            /\ accepted[i].seq <= accepted[i].at
            /\ sent[accepted[i].seq] = accepted[i].call
            /\ i > 1 => accepted[i - 1].seq < accepted[i].seq
        BY <3>1 DEF HostInv
      <4>2. i > 1 => i - 1 \in 1..Len(accepted)
        BY <2>5, <3>1
      <4> QED
        BY <2>6, <3>1, <4>1, <4>2
    <3>2. CASE i = Len(accepted) + 1
      <4>1. b <= Len(sent)
        BY <2>2, <2>3
      <4>2. i > 1 => i - 1 = Len(accepted) /\ Len(accepted) \in 1..Len(accepted)
        BY <2>5, <3>2
      <4>3. i > 1 => accepted'[i - 1].seq < b
        <5>1. i > 1 => LastSeq = accepted[Len(accepted)].seq
          BY <4>2 DEF LastSeq
        <5> QED
          BY <2>2, <2>6, <4>2, <5>1
      <4> QED
        BY <2>2, <2>4, <2>6, <3>2, <4>1, <4>3
    <3> QED
      BY <2>5, <2>6, <3>1, <3>2
  <2>11. HostInv'
    BY <1>1, <2>2, <2>3, <2>6, <2>7, <2>10 DEF HostInv
  <2> QED
    BY <2>9, <2>11
<1> QED
  BY <1>2, <1>3

LEMMA LinkStep == LineInv /\ HostInv /\ [Next]_vars => LineInv' /\ HostInv'
<1> SUFFICES ASSUME LineInv, HostInv, [Next]_vars PROVE LineInv' /\ HostInv'
  OBVIOUS
<1>1. CASE Answer \/ Fault
  <2>1. PICK bytes : Deliver(bytes) /\ PartOf(answered + 1, bytes)
    <3> DEFINE n == answered + 1
    <3>1. answered < Len(sent)
      BY <1>1 DEF Answer, Fault, Deliver
    <3>2. n \in Nat /\ FrameLen(n) \in Nat
      <4>1. n \in Nat /\ n \in 1..Len(sent) /\ sent \in Seq(Kinds)
        BY <3>1 DEF LineInv
      <4> HIDE DEF n
      <4> QED
        BY <4>1, LinkAssumption DEF FrameLen, HeaderLen
    <3> HIDE DEF n
    <3>3. /\ PartOf(n, Frame(n)) /\ PartOf(n, <<>>)
          /\ \A p \in DOMAIN Frame(n) :
               /\ PartOf(n, SubSeq(Frame(n), 1, p - 1)
                            \o SubSeq(Frame(n), p + 1, Len(Frame(n))))
               /\ PartOf(n, [Frame(n) EXCEPT ![p].ok = FALSE])
      BY <3>2, FrameParts
    <3>4. CASE Answer
      BY <3>3, <3>4 DEF Answer, n
    <3>5. CASE Fault
      BY <3>3, <3>5 DEF Fault, n
    <3> QED
      BY <1>1, <3>4, <3>5
  <2> QED
    BY <2>1, DeliverStep
<1>2. CASE Arrive
  BY <1>2 DEF Arrive, host, LineInv, HostInv, FrameLen, LastSeq
<1>3. CASE Enable
  <2>1. /\ sent' = Append(sent, "params") \/ sent' = sent
        /\ UNCHANGED <<answered, line, arrived, taken, hdr, accepted, want>> /\ pc' # "tail"
    BY <1>3 DEF Enable
  <2>2. "params" \in Kinds /\ want' \in Kinds
    BY <2>1, LinkAssumption DEF HostInv
  <2> QED
    BY <2>1, <2>2, SendStep
<1>4. ASSUME NEW k \in Kinds, Call(k) PROVE LineInv' /\ HostInv'
  <2>1. /\ sent' = Append(sent, k) \/ sent' = sent
        /\ UNCHANGED <<answered, line, arrived, taken, hdr, accepted>>
        /\ want' = k /\ pc' # "tail"
    BY <1>4 DEF Call
  <2> QED
    BY <2>1, SendStep
<1>5. CASE RecvHeader
  BY <1>5, HeaderStep
<1>6. CASE RecvTail
  BY <1>6, TailStep
<1>7. CASE UNCHANGED vars
  BY <1>7 DEF vars, host, LineInv, HostInv, FrameLen, LastSeq
<1> QED
  BY <1>1, <1>2, <1>3, <1>4, <1>5, <1>6, <1>7 DEF Next

(* Whatever is lost, garbled or late: answers are accepted once, in order, *)
(* after their command and by a call of its kind (recv_response,           *)
(* CustomProtocol.cpp:136-208; its callers, DeviceDriver.cpp:76, 106, 241). *)
THEOREM AnswersCorrect == Spec => []AnswersInOrder
<1>1. Init => LineInv /\ HostInv
  BY LinkAssumption DEF Init, LineInv, HostInv, LastSeq
<1>2. HostInv => AnswersInOrder
  BY DEF HostInv, AnswersInOrder
<1> QED
  BY <1>1, <1>2, LinkStep, PTL DEF Spec
-----------------------------------------------------------------------------
(* The answers as a channel.                                               *)

LEMMA Prefix ==
  ASSUME NEW S, NEW s \in Seq(S), NEW n \in Nat, n <= Len(s)
  PROVE  /\ SubSeq(s, 1, n) \in Seq(S) /\ Len(SubSeq(s, 1, n)) = n
         /\ \A i \in 1..n : SubSeq(s, 1, n)[i] = s[i]
<1>1. \A i \in 1..n : s[i] \in S
  OBVIOUS
<1> QED
  BY <1>1, SubSeqProperties

GotOf(a) == [i \in DOMAIN a |-> [seq |-> a[i].seq, msg |-> a[i].call]]

(* Of one answer more, all that was received before is kept.               *)
LEMMA GotGrows ==
  ASSUME NEW a, a \in Seq(Accepted), NEW b, b \in Seq(Accepted),
         NEW l \in Nat, Len(a) = l, Len(b) = l + 1,
         \A i \in 1..l : b[i] = a[i]
  PROVE  /\ GotOf(b) = Append(GotOf(a), [seq |-> b[l + 1].seq, msg |-> b[l + 1].call])
         /\ IF GotOf(a) = <<>> THEN l = 0
            ELSE l > 0 /\ GotOf(a)[Len(GotOf(a))].seq = a[l].seq
<1> DEFINE M == [seq : Nat, msg : Kinds]
           e == [seq |-> b[l + 1].seq, msg |-> b[l + 1].call]
<1>1. /\ \A i \in 1..l : a[i].seq \in Nat /\ a[i].call \in Kinds
      /\ \A i \in 1..(l + 1) : b[i].seq \in Nat /\ b[i].call \in Kinds
  <2>1. (\A i \in 1..l : a[i] \in Accepted) /\ (\A i \in 1..(l + 1) : b[i] \in Accepted)
    OBVIOUS
  <2> QED
    BY <2>1 DEF Accepted
<1>2. DOMAIN a = 1..l /\ DOMAIN b = 1..(l + 1)
  OBVIOUS
<1>3. GotOf(a) \in [1..l -> M] /\ GotOf(b) \in [1..(l + 1) -> M] /\ e \in M
  BY <1>1, <1>2 DEF GotOf
<1>4. GotOf(a) \in Seq(M) /\ Len(GotOf(a)) = l /\ GotOf(b) \in Seq(M) /\ Len(GotOf(b)) = l + 1
  <2> HIDE DEF M, e
  <2>1. \A m \in Nat : \A f \in [1..m -> M] : f \in Seq(M) /\ Len(f) = m
    OBVIOUS
  <2>2. l + 1 \in Nat
    OBVIOUS
  <2> QED
    BY <1>3, <2>1, <2>2
<1>5. /\ Append(GotOf(a), e) \in Seq(M) /\ Len(Append(GotOf(a), e)) = l + 1
      /\ \A i \in 1..l : Append(GotOf(a), e)[i] = GotOf(a)[i]
      /\ Append(GotOf(a), e)[l + 1] = e
  <2> HIDE DEF M, e
  <2> QED
    BY <1>3, <1>4, AppendProperties
<1>6. ASSUME NEW i \in 1..(l + 1) PROVE GotOf(b)[i] = Append(GotOf(a), e)[i]
  <2>1. CASE i = l + 1
    BY <1>2, <1>5, <2>1 DEF GotOf
  <2>2. CASE i \in 1..l
    <3>1. a[i] = b[i]
      BY <2>2
    <3>2. GotOf(a)[i] = [seq |-> a[i].seq, msg |-> a[i].call]
      BY <1>2, <2>2 DEF GotOf
    <3>3. GotOf(b)[i] = [seq |-> b[i].seq, msg |-> b[i].call]
      BY <1>2 DEF GotOf
    <3>4. Append(GotOf(a), e)[i] = GotOf(a)[i]
      BY <1>5, <2>2
    <3> QED
      BY <3>1, <3>2, <3>3, <3>4
  <2>3. i = l + 1 \/ i \in 1..l
    OBVIOUS
  <2> QED
    BY <2>1, <2>2, <2>3
<1>7. GotOf(b) = Append(GotOf(a), e)
  <2> HIDE DEF M, e
  <2> QED
    BY <1>4, <1>5, <1>6, SeqEqual
<1>8. CASE GotOf(a) = <<>>
  BY <1>4, <1>7, <1>8
<1>9. CASE GotOf(a) # <<>>
  <2>1. l > 0
    BY <1>4, <1>9
  <2>2. l \in 1..l
    BY <2>1
  <2> QED
    BY <1>2, <1>4, <1>7, <1>9, <2>1, <2>2 DEF GotOf
<1> QED
  BY <1>8, <1>9

LEMMA AnswerStep ==
  LineInv /\ HostInv /\ HostInv' /\ [Next]_vars => [Answers!Next]_Answers!vars
<1> SUFFICES ASSUME LineInv, HostInv, HostInv', [Next]_vars
             PROVE  [Answers!Next]_Answers!vars
  OBVIOUS
<1> DEFINE given == SubSeq(sent, 1, answered)
<1>1. /\ sent \in Seq(Kinds) /\ answered \in Nat /\ answered <= Len(sent)
      /\ Len(sent) \in Nat /\ accepted \in Seq(Accepted) /\ Len(accepted) \in Nat
  BY DEF LineInv, HostInv
<1>2. /\ given \in Seq(Kinds) /\ Len(given) = answered
      /\ \A i \in 1..answered : given[i] = sent[i]
  BY <1>1, Prefix
<1>3. ASSUME NEW k \in Kinds, sent' = Append(sent, k), answered' = answered
      PROVE  given' = given
  <2>1. sent' \in Seq(Kinds) /\ Len(sent') = Len(sent) + 1
        /\ \A i \in 1..Len(sent) : sent'[i] = sent[i]
    BY <1>1, <1>3
  <2>2. /\ given' \in Seq(Kinds) /\ Len(given') = answered
        /\ \A i \in 1..answered : given'[i] = sent'[i]
    BY <1>1, <1>3, <2>1, Prefix
  <2>3. ASSUME NEW i \in 1..answered PROVE given'[i] = given[i]
    <3>1. i \in 1..Len(sent)
      BY <1>1
    <3> HIDE DEF given
    <3> QED
      BY <1>2, <2>1, <2>2, <3>1
  <2> QED
    BY <1>2, <2>2, <2>3, SeqEqual
<1>4. ASSUME answered < Len(sent), answered' = answered + 1, sent' = sent,
             accepted' = accepted
      PROVE  Answers!Put(sent[answered + 1])
  <2> DEFINE m == sent[answered + 1]
  <2>1. m \in Kinds
    BY <1>1, <1>4
  <2>2. /\ given' \in Seq(Kinds) /\ Len(given') = answered + 1
        /\ \A i \in 1..(answered + 1) : given'[i] = sent[i]
    BY <1>1, <1>4, Prefix
  <2>3. /\ Append(given, m) \in Seq(Kinds) /\ Len(Append(given, m)) = answered + 1
        /\ \A i \in 1..(answered + 1) : Append(given, m)[i] = sent[i]
    BY <1>1, <1>2, <2>1
  <2>4. given' = Append(given, m)
    BY <2>2, <2>3, SeqEqual
  <2> QED
    BY <1>4, <2>4 DEF Answers!Put
<1>5. ASSUME NEW e, accepted' = Append(accepted, e), UNCHANGED <<sent, answered>>
      PROVE  Answers!Take
  <2>1. PICK l \in Nat : l = Len(accepted)
    BY <1>1
  <2>2. accepted' \in Seq(Accepted)
    BY DEF HostInv
  <2>3. Len(accepted') = l + 1 /\ \A i \in 1..l : accepted'[i] = accepted[i]
    BY <1>1, <1>5, <2>1
  <2>4. l + 1 \in 1..Len(accepted') /\ (l + 1) - 1 = l /\ (l > 0 => l + 1 > 1)
    BY <2>3
  <2>5. PICK n : n = accepted'[l + 1].seq
    OBVIOUS
  <2>6. /\ n \in 1..answered /\ sent[n] = accepted'[l + 1].call
        /\ l > 0 => accepted'[l].seq < n
    BY <1>5, <2>4, <2>5 DEF HostInv
  <2>7. given' = given /\ given[n] = accepted'[l + 1].call
    BY <1>2, <1>5, <2>6
  <2>g. /\ GotOf(accepted') = Append(GotOf(accepted), [seq |-> accepted'[l + 1].seq,
                                                      msg |-> accepted'[l + 1].call])
        /\ IF GotOf(accepted) = <<>> THEN l = 0
           ELSE l > 0 /\ GotOf(accepted)[Len(GotOf(accepted))].seq = accepted[l].seq
    <3>1. accepted \in Seq(Accepted) /\ Len(accepted) = l
      BY <1>1, <2>1
    <3>2. Len(accepted') = l + 1 /\ \A i \in 1..l : accepted'[i] = accepted[i]
      BY <2>3
    <3> QED
      BY <2>2, <3>1, <3>2, GotGrows
  <2>8. GotOf(accepted') = Append(GotOf(accepted), [seq |-> n, msg |-> given[n]])
    BY <2>5, <2>7, <2>g
  <2>9. n \in (Answers!Newest + 1)..Len(given)
    <3>1. CASE GotOf(accepted) = <<>>
      <4>1. Answers!Newest = 0
        BY <3>1 DEF Answers!Newest, GotOf
      <4> QED
        BY <1>1, <1>2, <2>6, <4>1
    <3>2. CASE GotOf(accepted) # <<>>
      <4>1. l > 0 /\ GotOf(accepted)[Len(GotOf(accepted))].seq = accepted[l].seq
        BY <2>g, <3>2
      <4>2. Answers!Newest = accepted[l].seq
        BY <3>2, <4>1 DEF Answers!Newest, GotOf
      <4>3. l \in 1..l
        BY <4>1
      <4>4. accepted[l].seq < n /\ accepted[l].seq \in Nat
        <5>1. accepted[l] \in Accepted /\ accepted'[l] = accepted[l]
          BY <1>1, <2>1, <2>3, <4>3
        <5> QED
          BY <2>6, <4>1, <5>1 DEF Accepted
      <4> QED
        BY <1>1, <1>2, <2>6, <4>2, <4>4
    <3> QED
      BY <3>1, <3>2
  <2> HIDE DEF given
  <2>10. \E k \in (Answers!Newest + 1)..Len(given) :
           GotOf(accepted') = Append(GotOf(accepted), [seq |-> k, msg |-> given[k]])
    BY <2>8, <2>9
  <2> USE DEF given
  <2> QED
    BY <2>7, <2>10 DEF Answers!Take, GotOf
<1>6. ASSUME UNCHANGED <<sent, answered, accepted>> PROVE UNCHANGED Answers!vars
  BY <1>6 DEF Answers!vars
<1>7. CASE Answer \/ Fault
  <2>1. /\ answered < Len(sent) /\ answered' = answered + 1 /\ sent' = sent
        /\ accepted' = accepted
    BY <1>7 DEF Answer, Fault, Deliver, host
  <2>2. sent[answered + 1] \in Kinds
    BY <1>1, <2>1
  <2> QED
    BY <1>4, <2>1, <2>2 DEF Answers!Next
<1>8. CASE Arrive
  BY <1>6, <1>8 DEF Arrive, host
<1>9. CASE Enable
  <2>1. UNCHANGED <<answered, accepted>> /\ (sent' = sent \/ sent' = Append(sent, "params"))
    BY <1>9 DEF Enable
  <2>2. "params" \in Kinds
    BY LinkAssumption
  <2> QED
    BY <1>3, <1>6, <2>1, <2>2 DEF Answers!vars
<1>10. ASSUME NEW k \in Kinds, Call(k) PROVE UNCHANGED Answers!vars
  <2>1. UNCHANGED <<answered, accepted>> /\ (sent' = sent \/ sent' = Append(sent, k))
    BY <1>10 DEF Call
  <2> QED
    BY <1>3, <1>6, <2>1 DEF Answers!vars
<1>11. CASE RecvHeader
  <2>1. UNCHANGED <<sent, answered, accepted>>
    BY <1>11 DEF RecvHeader, ShortHeader, BadHeader, BadLength, GoodHeader, Return
  <2> QED
    BY <1>6, <2>1
<1>12. CASE RecvTail
  <2>1. UNCHANGED <<sent, answered>>
    BY <1>12 DEF RecvTail
  <2>2. accepted' = accepted \/ \E e : accepted' = Append(accepted, e)
    BY <1>12 DEF RecvTail, Return
  <2> QED
    BY <1>5, <1>6, <2>1, <2>2 DEF Answers!Next
<1>13. CASE UNCHANGED vars
  BY <1>6, <1>13 DEF vars, host
<1> QED
  BY <1>7, <1>8, <1>9, <1>10, <1>11, <1>12, <1>13 DEF Next

(* Whatever becomes of the bytes, the answers received are those of a      *)
(* channel that loses messages and does nothing worse (recv_response,      *)
(* CustomProtocol.cpp:136-208).                                            *)
THEOREM ChannelCorrect == Spec => AnswerChannel
<1>1. Init => LineInv /\ HostInv
  BY LinkAssumption DEF Init, LineInv, HostInv, LastSeq
<1>2. Init => Answers!Init
  <2> SUFFICES ASSUME Init PROVE Answers!Init
    OBVIOUS
  <2>1. sent = <<>> /\ answered = 0 /\ accepted = <<>>
    BY DEF Init
  <2>2. SubSeq(<<>>, 1, 0) = <<>>
    OBVIOUS
  <2>3. [i \in DOMAIN <<>> |-> [seq |-> accepted[i].seq, msg |-> accepted[i].call]] = <<>>
    OBVIOUS
  <2> QED
    BY <2>1, <2>2, <2>3 DEF Answers!Init
<1> QED
  BY <1>1, <1>2, AnswerStep, LinkStep, PTL DEF Spec, AnswerChannel, Answers!Spec
-----------------------------------------------------------------------------
(* A line without faults.                                                  *)

(* The answers are whole and follow one another: any place of the frame of *)
(* byte i is as far from i on the line as it is in the frame.              *)
CleanLine ==
  /\ Len(line) = 0 => answered = 0
  /\ \A i \in 1..Len(line) :
       /\ i = 1 => line[i].seq = 1 /\ line[i].pos = 1
       /\ i = Len(line) => line[i].seq = answered /\ line[i].pos = FrameLen(answered)
       /\ \A p \in 1..FrameLen(line[i].seq) : \E j \in 1..Len(line) :
            /\ j + line[i].pos = i + p
            /\ line[j] = [seq |-> line[i].seq, pos |-> p, ok |-> TRUE]
       /\ \A j \in 1..Len(line) :
            j = i + 1 /\ line[i].pos = FrameLen(line[i].seq) =>
              line[j].seq = line[i].seq + 1 /\ line[j].pos = 1

(* A header read off it is a whole one and announces the tail that follows. *)
CleanTail ==
  /\ taken >= 1 /\ line[taken].pos = 2
  /\ hdr = [cmd |-> sent[line[taken].seq], need |-> BodyLen[sent[line[taken].seq]],
            sound |-> TRUE]

CleanInv ==
  /\ faults \in Nat /\ (~missed => faults = 0)
  /\ faults = 0 => CleanLine /\ (pc = "tail" => CleanTail)

(* The frame the reads have come to, and whether they are at its end.      *)
Reach(t) == IF t = 0 THEN 0 ELSE line[t].seq
AtEnd(t) == t = 0 \/ line[t].pos = FrameLen(line[t].seq)

LEMMA UnitFacts ==
  ASSUME LineInv, NEW i \in 1..Len(line)
  PROVE  /\ line[i].seq \in Nat \ {0} /\ line[i].seq <= answered /\ answered \in Nat
         /\ line[i].seq \in 1..Len(sent) /\ sent[line[i].seq] \in Kinds
         /\ BodyLen[sent[line[i].seq]] \in Nat \ {0}
         /\ FrameLen(line[i].seq) \in Nat /\ FrameLen(line[i].seq) >= 3
         /\ FrameLen(line[i].seq) = 2 + BodyLen[sent[line[i].seq]]
         /\ line[i].pos \in 1..FrameLen(line[i].seq)
<1> DEFINE n == line[i].seq
<1>1. n \in 1..answered /\ line[i].pos \in 1..FrameLen(n) /\ answered \in 0..Len(sent)
      /\ sent \in Seq(Kinds)
  BY DEF LineInv
<1> HIDE DEF n
<1>2. n \in 1..Len(sent)
  BY <1>1
<1>3. sent[n] \in Kinds
  BY <1>1, <1>2
<1>4. BodyLen[sent[n]] \in Nat \ {0}
  BY <1>3, LinkAssumption
<1>5. FrameLen(n) = 2 + BodyLen[sent[n]]
  BY DEF FrameLen, HeaderLen
<1> QED
  BY SMTT(40), <1>1, <1>2, <1>3, <1>4, <1>5 DEF n

(* What byte follows the t-th.                                             *)
LEMMA NextUnit ==
  ASSUME LineInv, CleanLine, NEW t \in 0..Len(line), NEW i \in 1..Len(line), i = t + 1
  PROVE  /\ line[i].ok
         /\ IF AtEnd(t) THEN line[i].seq = Reach(t) + 1 /\ line[i].pos = 1
            ELSE line[i].seq = Reach(t) /\ line[i].pos = line[t].pos + 1
<1>1. line[i].ok
  <2>1. PICK j \in 1..Len(line) :
               /\ j + line[i].pos = i + line[i].pos
               /\ line[j] = [seq |-> line[i].seq, pos |-> line[i].pos, ok |-> TRUE]
    BY UnitFacts DEF CleanLine
  <2>2. j = i
    BY SMTT(40), <2>1, UnitFacts
  <2> QED
    BY <2>1, <2>2
<1>2. CASE t = 0
  BY <1>1, <1>2 DEF CleanLine, AtEnd, Reach
<1>3. CASE t # 0 /\ AtEnd(t)
  <2>1. t \in 1..Len(line) /\ line[t].pos = FrameLen(line[t].seq)
    BY <1>3 DEF AtEnd
  <2> QED
    BY <1>1, <1>3, <2>1 DEF CleanLine, Reach
<1>4. CASE ~AtEnd(t)
  <2>1. t \in 1..Len(line) /\ line[t].pos # FrameLen(line[t].seq)
    BY <1>4 DEF AtEnd
  <2>2. line[t].pos + 1 \in 1..FrameLen(line[t].seq) /\ line[t].pos \in Nat
    BY SMTT(40), <2>1, UnitFacts
  <2>3. PICK j \in 1..Len(line) :
               /\ j + line[t].pos = t + (line[t].pos + 1)
               /\ line[j] = [seq |-> line[t].seq, pos |-> line[t].pos + 1, ok |-> TRUE]
    BY <2>1, <2>2 DEF CleanLine
  <2>4. j = i
    BY <2>1, <2>2, <2>3
  <2> QED
    BY <1>1, <1>4, <2>1, <2>3, <2>4 DEF Reach
<1> QED
  BY <1>2, <1>3, <1>4

(* The two units of a header.                                              *)
LEMMA HeaderUnits ==
  ASSUME LineInv, CleanLine, NEW t \in 0..Len(line), t + 2 <= Len(line)
  PROVE  /\ t + 1 \in 1..Len(line) /\ t + 2 \in 1..Len(line)
         /\ line[t + 1].ok /\ line[t + 2].ok
         /\ line[t + 1].pos = 1 <=> AtEnd(t)
         /\ AtEnd(t) => /\ line[t + 1].seq = Reach(t) + 1
                        /\ line[t + 2].seq = Reach(t) + 1 /\ line[t + 2].pos = 2
         /\ Reach(t) \in Nat /\ Reach(t + 1) \in Nat /\ Reach(t + 2) \in Nat
         /\ Reach(t + 1) <= Reach(t) + 1 /\ Reach(t + 2) <= Reach(t) + 1
<1> DEFINE h == t + 1
           l == t + 2
<1>1. h \in 1..Len(line) /\ l \in 1..Len(line) /\ h \in 0..Len(line) /\ l = h + 1 /\ h = t + 1
      /\ h # 0 /\ l # 0
  <2>1. Len(line) \in Nat
    BY DEF LineInv
  <2> QED
    BY <2>1
<1> HIDE DEF h, l
<1>2. /\ line[h].ok
      /\ IF AtEnd(t) THEN line[h].seq = Reach(t) + 1 /\ line[h].pos = 1
         ELSE line[h].seq = Reach(t) /\ line[h].pos = line[t].pos + 1
  BY <1>1, NextUnit
<1>3. /\ line[l].ok
      /\ IF AtEnd(h) THEN line[l].seq = Reach(h) + 1 /\ line[l].pos = 1
         ELSE line[l].seq = Reach(h) /\ line[l].pos = line[h].pos + 1
  BY <1>1, NextUnit
<1>4. Reach(h) = line[h].seq /\ Reach(l) = line[l].seq
  BY <1>1 DEF Reach
<1>5. AtEnd(h) <=> line[h].pos = FrameLen(line[h].seq)
  BY <1>1 DEF AtEnd
<1>6. line[h].seq \in Nat /\ line[l].seq \in Nat /\ FrameLen(line[h].seq) \in Nat
      /\ FrameLen(line[h].seq) >= 3
  BY <1>1, UnitFacts
<1>7. Reach(t) \in Nat /\ (~AtEnd(t) => line[t].pos \in Nat \ {0})
  <2>1. CASE t = 0
    BY <2>1 DEF Reach, AtEnd
  <2>2. CASE t # 0
    <3>1. t \in 1..Len(line)
      BY <2>2
    <3> QED
      BY <2>2, <3>1, UnitFacts DEF Reach
  <2> QED
    BY <2>1, <2>2
<1>8. AtEnd(t) => /\ line[h].seq = Reach(t) + 1 /\ line[h].pos = 1
                  /\ line[l].seq = Reach(t) + 1 /\ line[l].pos = 2
  BY <1>2, <1>3, <1>4, <1>5, <1>6
<1>9. ~AtEnd(t) => line[h].pos # 1
  BY <1>2, <1>7
<1>10. Reach(h) <= Reach(t) + 1 /\ Reach(l) <= Reach(t) + 1
  <2>1. CASE AtEnd(t)
    BY <1>4, <1>7, <1>8, <2>1
  <2>2. CASE ~AtEnd(t)
    <3>1. Reach(h) = Reach(t)
      BY <1>2, <1>4, <2>2
    <3>2. Reach(l) = Reach(h) + 1 \/ Reach(l) = Reach(h)
      BY <1>3, <1>4
    <3> QED
      BY <1>7, <3>1, <3>2
  <2> QED
    BY <2>1, <2>2
<1> QED
  BY <1>1, <1>2, <1>3, <1>4, <1>6, <1>7, <1>8, <1>9, <1>10 DEF h, l

(* The tail behind a header.                                               *)
LEMMA TailUnits ==
  ASSUME LineInv, CleanLine, CleanTail, NEW i \in 1..hdr.need, taken + i <= Len(line)
  PROVE  /\ taken + i \in 1..Len(line)
         /\ line[taken + i] = [seq |-> line[taken].seq, pos |-> 2 + i, ok |-> TRUE]
<1>1. taken \in 1..Len(line) /\ line[taken].pos = 2 /\ Len(line) \in Nat
      /\ hdr.need = BodyLen[sent[line[taken].seq]]
  BY DEF LineInv, CleanTail
<1>2. 2 + i \in 1..FrameLen(line[taken].seq)
  BY SMTT(40), <1>1, UnitFacts
<1>3. PICK j \in 1..Len(line) :
             /\ j + line[taken].pos = taken + (2 + i)
             /\ line[j] = [seq |-> line[taken].seq, pos |-> 2 + i, ok |-> TRUE]
  BY <1>1, <1>2 DEF CleanLine
<1>4. j = taken + i
  <2>1. j + 2 = taken + (2 + i) /\ j \in Int /\ taken \in Int /\ i \in Int
    BY <1>1, <1>3
  <2> QED
    BY <2>1
<1> QED
  BY <1>3, <1>4

(* The line and the commands sent only grow.                               *)
LEMMA CleanKept ==
  ASSUME LineInv, CleanLine, sent' = sent \/ \E k \in Kinds : sent' = Append(sent, k),
         UNCHANGED <<answered, line>>
  PROVE  /\ CleanLine'
         /\ \A i \in 1..Len(line) : /\ sent'[line[i].seq] = sent[line[i].seq]
                                    /\ FrameLen(line[i].seq)' = FrameLen(line[i].seq)
<1>1. \A n \in 1..Len(sent) : sent'[n] = sent[n] /\ FrameLen(n)' = FrameLen(n)
  <2>1. \A n \in 1..Len(sent) : sent'[n] = sent[n]
    BY DEF LineInv
  <2> QED
    BY <2>1 DEF FrameLen
<1>2. \A i \in 1..Len(line) : line[i].seq \in 1..Len(sent)
  BY UnitFacts
<1>3. \A i \in 1..Len(line) : FrameLen(line[i].seq)' = FrameLen(line[i].seq)
  BY <1>1, <1>2
<1>4. answered = 0 \/ answered \in 1..Len(sent)
  BY DEF LineInv
<1>5. \A i \in 1..Len(line) : i = Len(line) => FrameLen(answered)' = FrameLen(answered)
  BY <1>1, <1>2 DEF CleanLine
<1>6. CleanLine'
  BY <1>3, <1>5 DEF CleanLine
<1> QED
  BY <1>1, <1>2, <1>3, <1>6

LEMMA CleanAnswer ==
  ASSUME LineInv, CleanLine, Answer
  PROVE  CleanLine' /\ (taken >= 1 => line'[taken] = line[taken])
<1> DEFINE n == answered + 1
           f == Frame(n)
<1>0. PICK u \in Nat : u = Len(line)
  BY DEF LineInv
<1>1. /\ answered \in Nat /\ answered' = n /\ n \in 1..Len(sent) /\ n = answered + 1
      /\ line' = line \o f /\ sent' = sent /\ line \in Seq(Units) /\ sent \in Seq(Kinds)
      /\ taken \in Nat /\ taken <= u
  BY <1>0 DEF Answer, Deliver, LineInv
<1>t. f = [p \in 1..FrameLen(n) |-> [seq |-> n, pos |-> p, ok |-> TRUE]]
  BY DEF Frame, FrameLen
<1> HIDE DEF n, f
<1>2. PICK k \in Nat : k = FrameLen(n) /\ k >= 3
  <2>1. sent[n] \in Kinds
    BY <1>1
  <2>2. BodyLen[sent[n]] \in Nat \ {0}
    BY <2>1, LinkAssumption
  <2> QED
    BY <2>2 DEF FrameLen, HeaderLen
<1>3. f = [p \in 1..k |-> [seq |-> n, pos |-> p, ok |-> TRUE]]
  BY <1>t, <1>2
<1>4. f \in Seq(Units) /\ Len(f) = k /\ \A p \in 1..k : f[p] = [seq |-> n, pos |-> p, ok |-> TRUE]
  <2>1. f \in [1..k -> Units]
    BY <1>1, <1>3 DEF Units
  <2> QED
    BY <1>3, <2>1
<1>5. /\ line' \in Seq(Units) /\ Len(line') = u + k
      /\ \A i \in 1..(u + k) : line'[i] = IF i <= u THEN line[i] ELSE f[i - u]
  BY <1>0, <1>1, <1>4, ConcatProperties
<1>6. \A i \in 1..u : line'[i] = line[i] /\ i \in 1..(u + k)
  BY <1>5
<1>7. ASSUME NEW p \in 1..k
      PROVE  u + p \in 1..(u + k) /\ line'[u + p] = [seq |-> n, pos |-> p, ok |-> TRUE]
  <2>1. u + p \in 1..(u + k) /\ ~(u + p <= u) /\ (u + p) - u = p
    OBVIOUS
  <2> QED
    BY <1>4, <1>5, <2>1
<1>8. \A m : FrameLen(m)' = FrameLen(m)
  BY <1>1 DEF FrameLen
<1>9. u = 0 => n = 1
  BY <1>0, <1>1 DEF CleanLine
<1>10. u # 0 => u \in 1..u /\ line[u].seq = answered
  BY <1>0 DEF CleanLine
<1>11. ASSUME NEW i \in 1..(u + k)
       PROVE  /\ i = 1 => line'[i].seq = 1 /\ line'[i].pos = 1
              /\ i = u + k => line'[i].seq = n /\ line'[i].pos = FrameLen(n)
              /\ \A p \in 1..FrameLen(line'[i].seq) : \E j \in 1..(u + k) :
                   /\ j + line'[i].pos = i + p
                   /\ line'[j] = [seq |-> line'[i].seq, pos |-> p, ok |-> TRUE]
              /\ \A j \in 1..(u + k) :
                   j = i + 1 /\ line'[i].pos = FrameLen(line'[i].seq) =>
                     line'[j].seq = line'[i].seq + 1 /\ line'[j].pos = 1
  <2>1. CASE i \in 1..u
    <3>1. line'[i] = line[i]
      BY <1>6, <2>1
    <3>2. i = 1 => line[i].seq = 1 /\ line[i].pos = 1
      BY <1>0, <2>1 DEF CleanLine
    <3>3. i # u + k
      BY <1>2, <2>1
    <3>4. ASSUME NEW p \in 1..FrameLen(line[i].seq)
          PROVE  \E j \in 1..(u + k) :
                   /\ j + line[i].pos = i + p
                   /\ line'[j] = [seq |-> line[i].seq, pos |-> p, ok |-> TRUE]
      <4>1. PICK j \in 1..u : /\ j + line[i].pos = i + p
                              /\ line[j] = [seq |-> line[i].seq, pos |-> p, ok |-> TRUE]
        BY <1>0, <2>1 DEF CleanLine
      <4> QED
        BY <1>6, <4>1
    <3>5. ASSUME NEW j \in 1..(u + k), j = i + 1, line[i].pos = FrameLen(line[i].seq)
          PROVE  line'[j].seq = line[i].seq + 1 /\ line'[j].pos = 1
      <4>1. CASE j \in 1..u
        BY <1>0, <1>6, <2>1, <3>5, <4>1 DEF CleanLine
      <4>2. CASE j = u + 1
        <5>1. i = u /\ line[i].seq = answered
          BY <1>10, <2>1, <3>5, <4>2
        <5>2. 1 \in 1..k
          BY <1>2
        <5>3. line'[j] = [seq |-> n, pos |-> 1, ok |-> TRUE]
          BY <1>7, <4>2, <5>2
        <5> QED
          BY <1>1, <5>1, <5>3
      <4> QED
        BY <2>1, <3>5, <4>1, <4>2
    <3> QED
      BY <3>1, <3>2, <3>3, <3>4, <3>5
  <2>2. CASE i \notin 1..u
    <3>1. PICK m \in 1..k : i = u + m
      <4>1. i - u \in 1..k /\ i = u + (i - u)
        BY <2>2
      <4> QED
        BY <4>1
    <3>2. line'[i] = [seq |-> n, pos |-> m, ok |-> TRUE]
      BY <1>7, <3>1
    <3>3. i = 1 => n = 1 /\ m = 1
      BY <1>9, <3>1
    <3>4. i = u + k => m = k
      BY <3>1
    <3>5. ASSUME NEW p \in 1..k
          PROVE  \E j \in 1..(u + k) : /\ j + m = i + p
                                       /\ line'[j] = [seq |-> n, pos |-> p, ok |-> TRUE]
      <4>1. u + p \in 1..(u + k) /\ (u + p) + m = i + p
        BY <3>1
      <4> QED
        BY <1>7, <4>1
    <3>6. \A j \in 1..(u + k) : ~(j = i + 1 /\ m = k)
      BY <3>1
    <3> QED
      BY <1>2, <3>2, <3>3, <3>4, <3>5, <3>6
  <2> QED
    BY <2>1, <2>2
<1>12. Len(line') # 0
  BY <1>2, <1>5
<1>13. CleanLine'
  <2>1. answered' = n /\ FrameLen(answered)' = FrameLen(n)
    BY <1>1 DEF FrameLen
  <2>2. ASSUME NEW i \in 1..Len(line')
        PROVE  /\ i = 1 => line'[i].seq = 1 /\ line'[i].pos = 1
               /\ i = Len(line') => /\ line'[i].seq = answered'
                                    /\ line'[i].pos = FrameLen(answered)'
               /\ \A p \in 1..FrameLen(line[i].seq)' : \E j \in 1..Len(line') :
                    /\ j + line'[i].pos = i + p
                    /\ line'[j] = [seq |-> line'[i].seq, pos |-> p, ok |-> TRUE]
               /\ \A j \in 1..Len(line') :
                    j = i + 1 /\ line'[i].pos = FrameLen(line[i].seq)' =>
                      line'[j].seq = line'[i].seq + 1 /\ line'[j].pos = 1
    <3>1. i \in 1..(u + k) /\ Len(line') = u + k
      BY <1>5
    <3>2. FrameLen(line[i].seq)' = FrameLen(line'[i].seq)
      BY <1>1 DEF FrameLen
    <3> QED
      BY <1>11, <2>1, <3>1, <3>2
  <2> QED
    BY <1>12, <2>2 DEF CleanLine
<1>14. taken >= 1 => line'[taken] = line[taken]
  <2>1. taken >= 1 => taken \in 1..u
    BY <1>1
  <2> QED
    BY <1>6, <2>1
<1> QED
  BY <1>13, <1>14

LEMMA CleanHeader ==
  ASSUME LineInv, CleanLine, RecvHeader, pc' = "tail"
  PROVE  /\ CleanTail' /\ taken' = taken + 2 /\ AtEnd(taken)
         /\ Reach(taken + 2) = Reach(taken) + 1 /\ taken + 2 <= Len(line)
<1> DEFINE h == line[taken + 1]
           l == line[taken + 2]
           whole == l.pos = 2 /\ l.ok
<1>1. GoodHeader /\ taken' = taken + ReadLen(HeaderLen) /\ sent' = sent /\ line' = line
  BY DEF RecvHeader, ShortHeader, BadHeader, BadLength, Return
<1>2. ReadLen(HeaderLen) = 2 /\ HeaderLen = 2 /\ HeaderLen \in Nat
  BY <1>1 DEF GoodHeader, HeaderLen
<1>3. taken' = taken + 2 /\ taken + 2 <= Len(line) /\ taken \in 0..Len(line) /\ taken \in Nat
  BY <1>1, <1>2, ReadType DEF LineInv
<1>4. h.pos = 1
  BY <1>1 DEF GoodHeader
<1>5. AtEnd(taken) /\ h.ok /\ whole /\ h.seq = l.seq /\ l.seq = Reach(taken) + 1
  BY <1>3, <1>4, HeaderUnits
<1>6. hdr' = [cmd |-> sent[h.seq], need |-> BodyLen[sent[l.seq]],
              sound |-> h.ok /\ whole /\ sent[h.seq] = sent[l.seq]]
  BY <1>1, <1>5 DEF GoodHeader
<1>7. hdr' = [cmd |-> sent[l.seq], need |-> BodyLen[sent[l.seq]], sound |-> TRUE]
  <2>1. (h.ok /\ whole /\ sent[h.seq] = sent[l.seq]) = TRUE
    BY <1>5
  <2> QED
    BY <1>5, <1>6, <2>1
<1>8. line'[taken'] = l /\ taken' >= 1
  BY <1>1, <1>3
<1>9. CleanTail'
  BY <1>1, <1>5, <1>7, <1>8 DEF CleanTail
<1>10. Reach(taken + 2) = Reach(taken) + 1
  <2>1. taken + 2 # 0
    BY <1>3
  <2> QED
    BY <1>5, <2>1 DEF Reach
<1> QED
  BY <1>3, <1>5, <1>9, <1>10

LEMMA CleanStep ==
  ASSUME LineInv, HostInv, CleanInv, [Next]_vars
  PROVE  CleanInv'
<1>0. faults \in Nat /\ (~missed => faults = 0)
  BY DEF CleanInv
<1>1. CASE Answer
  <2>1. faults' = faults /\ missed' = missed /\ pc' = pc /\ sent' = sent /\ hdr' = hdr
        /\ taken' = taken
    BY <1>1 DEF Answer, Deliver, host
  <2>2. ASSUME faults = 0 PROVE CleanLine' /\ (pc = "tail" => CleanTail')
    <3>1. CleanLine /\ (pc = "tail" => CleanTail)
      BY <2>2 DEF CleanInv
    <3>2. CleanLine' /\ (taken >= 1 => line'[taken] = line[taken])
      BY <1>1, <3>1, CleanAnswer
    <3> QED
      BY <2>1, <3>1, <3>2 DEF CleanTail
  <2> QED
    BY <1>0, <2>1, <2>2 DEF CleanInv
<1>2. CASE Fault
  BY <1>0, <1>2 DEF Fault, CleanInv
<1>3. ASSUME sent' = sent \/ \E k \in Kinds : sent' = Append(sent, k),
             UNCHANGED <<answered, line, faults, missed>>,
             pc' # "tail" \/ UNCHANGED <<pc, taken, hdr>>
      PROVE  CleanInv'
  <2>1. ASSUME faults = 0 PROVE CleanLine' /\ (pc' = "tail" => CleanTail')
    <3>1. CleanLine /\ (pc = "tail" => CleanTail)
      BY <2>1 DEF CleanInv
    <3>2. /\ CleanLine'
          /\ \A i \in 1..Len(line) : sent'[line[i].seq] = sent[line[i].seq]
      BY <1>3, <3>1, CleanKept
    <3>3. CASE pc' # "tail"
      BY <3>2, <3>3
    <3>4. CASE UNCHANGED <<pc, taken, hdr>>
      <4>1. taken >= 1 => taken \in 1..Len(line)
        BY DEF LineInv
      <4> QED
        BY <1>3, <3>1, <3>2, <3>4, <4>1 DEF CleanTail
    <3> QED
      BY <1>3, <3>3, <3>4
  <2> QED
    BY <1>0, <1>3, <2>1 DEF CleanInv
<1>4. CASE Arrive
  BY <1>3, <1>4 DEF Arrive, host
<1>5. CASE Enable
  BY <1>3, <1>5, LinkAssumption DEF Enable
<1>6. ASSUME NEW k \in Kinds, Call(k) PROVE CleanInv'
  BY <1>3, <1>6 DEF Call
<1>7. CASE RecvHeader \/ RecvTail
  <2>1. UNCHANGED <<sent, answered, line, faults>> /\ (missed' = missed \/ missed' = TRUE)
    BY <1>7 DEF RecvHeader, ShortHeader, BadHeader, BadLength, GoodHeader, RecvTail
  <2>2. ASSUME faults = 0 PROVE CleanLine' /\ (pc' = "tail" => CleanTail')
    <3>1. CleanLine
      BY <2>2 DEF CleanInv
    <3>2. CleanLine'
      BY <2>1, <3>1, CleanKept
    <3>3. RecvTail => pc' # "tail"
      BY DEF RecvTail, Return
    <3> QED
      BY <1>7, <3>1, <3>2, <3>3, CleanHeader
  <2> QED
    BY <1>0, <2>1, <2>2 DEF CleanInv
<1>8. CASE UNCHANGED vars
  BY <1>3, <1>8 DEF vars, host
<1> QED
  BY <1>1, <1>2, <1>4, <1>5, <1>6, <1>7, <1>8 DEF Next
(* The rest of a frame whose header has been read.                         *)
LEMMA TailRead ==
  ASSUME LineInv, CleanLine, CleanTail
  PROVE  /\ hdr.need \in Nat \ {0} /\ taken \in Nat \ {0}
         /\ Reach(taken) \in 1..Len(sent) /\ hdr.cmd = sent[Reach(taken)]
         /\ Reach(taken + ReadLen(hdr.need)) = Reach(taken)
         /\ ReadLen(hdr.need) = hdr.need =>
              /\ CrcOk /\ Body[1].seq = Reach(taken)
              /\ AtEnd(taken + hdr.need)
<1> DEFINE m == hdr.need
           n == Reach(taken)
<1>1. taken \in 1..Len(line) /\ taken \in Nat \ {0} /\ Len(line) \in Nat /\ n = line[taken].seq
  BY DEF LineInv, CleanTail, Reach
<1>2. /\ m \in Nat \ {0} /\ m = BodyLen[sent[n]] /\ hdr.cmd = sent[n] /\ hdr.sound
      /\ n \in 1..Len(sent) /\ FrameLen(n) = 2 + m
  BY <1>1, UnitFacts DEF CleanTail
<1>3. ReadLen(m) \in Nat /\ ReadLen(m) <= m /\ taken + ReadLen(m) <= Len(line)
  <2>1. hdr.need \in Nat
    BY <1>2
  <2>2. /\ ReadLen(hdr.need) \in Nat /\ ReadLen(hdr.need) <= hdr.need
        /\ taken + ReadLen(hdr.need) \in 0..arrived
    BY <2>1, ReadType
  <2>3. arrived \in 0..Len(line)
    BY DEF LineInv
  <2> QED
    BY <1>1, <2>2, <2>3
<1> HIDE DEF n, m
<1>4. ASSUME NEW i \in 1..m, taken + i <= Len(line)
      PROVE  /\ taken + i \in 1..Len(line)
             /\ line[taken + i] = [seq |-> n, pos |-> 2 + i, ok |-> TRUE]
  BY <1>1, <1>4, TailUnits DEF CleanTail, m
<1>5. Reach(taken + ReadLen(m)) = n
  <2>1. CASE ReadLen(m) = 0
    BY <1>1, <2>1 DEF n
  <2>2. CASE ReadLen(m) # 0
    <3>0. PICK r \in Nat : r = ReadLen(m)
      BY <1>3
    <3>1. r \in 1..m /\ taken + r # 0 /\ taken + r <= Len(line)
      BY <1>1, <1>2, <1>3, <2>2, <3>0
    <3>2. line[taken + r] = [seq |-> n, pos |-> 2 + r, ok |-> TRUE]
      BY <1>4, <3>1
    <3>3. line[taken + r].seq = n
      BY <3>2
    <3> QED
      BY <3>0, <3>1, <3>3 DEF Reach
  <2> QED
    BY <2>1, <2>2
<1>6. ASSUME ReadLen(m) = m
      PROVE  CrcOk /\ Body[1].seq = n /\ AtEnd(taken + m)
  <2>1. taken + m <= Len(line)
    BY <1>3, <1>6
  <2>2. \A i \in 1..m : line[taken + i] = [seq |-> n, pos |-> 2 + i, ok |-> TRUE]
    <3>1. ASSUME NEW i \in 1..m PROVE taken + i <= Len(line)
      BY SMTT(40), <1>1, <1>2, <2>1
    <3> QED
      BY <1>4, <3>1
  <2>3. ASSUME NEW i \in 1..m PROVE Body[i] = line[taken + i]
    <3>1. taken + 1 \in Int /\ taken + m \in Int
      BY <1>1, <1>2
    <3>2. ASSUME NEW j \in (taken + 1)..(taken + m) PROVE line[j] \in Units
      <4>1. j \in 1..Len(line)
        BY SMTT(40), <1>1, <1>2, <2>1
      <4> QED
        BY <4>1 DEF LineInv
    <3>3. \A j \in 1..((taken + m) - (taken + 1) + 1) : Body[j] = line[(taken + 1) + j - 1]
      BY <3>1, <3>2, SubSeqProperties DEF Body, m
    <3>4. i \in 1..((taken + m) - (taken + 1) + 1) /\ (taken + 1) + i - 1 = taken + i
      BY SMTT(40), <1>1, <1>2
    <3> QED
      BY <3>3, <3>4
  <2>4. ASSUME NEW i \in 1..m
        PROVE  Body[i].ok /\ Body[i].pos = HeaderLen + i /\ Body[i].seq = n
    <3>1. Body[i] = [seq |-> n, pos |-> 2 + i, ok |-> TRUE]
      BY <2>2, <2>3
    <3> QED
      BY <3>1 DEF HeaderLen
  <2>5. 1 \in 1..m /\ m \in 1..m
    BY <1>2
  <2>6. CrcOk /\ Body[1].seq = n
    BY <1>2, <2>4, <2>5 DEF CrcOk, m
  <2>7. line[taken + m].pos = 2 + m /\ line[taken + m].seq = n
    <3>1. line[taken + m] = [seq |-> n, pos |-> 2 + m, ok |-> TRUE]
      BY <2>2, <2>5
    <3> QED
      BY <3>1
  <2> QED
    BY <1>2, <2>6, <2>7 DEF AtEnd
<1> QED
  BY <1>1, <1>2, <1>5, <1>6 DEF n, m

(* What a step other than a read leaves as it was.                         *)
LEMMA ReachKept ==
  ASSUME LineInv, CleanLine, taken' = taken,
         \/ Answer
         \/ /\ sent' = sent \/ \E k \in Kinds : sent' = Append(sent, k)
            /\ UNCHANGED <<answered, line>>
  PROVE  /\ taken' = taken /\ Reach(taken)' = Reach(taken) /\ (AtEnd(taken)' <=> AtEnd(taken))
         /\ taken # 0 => line'[taken].pos = line[taken].pos
<1>1. taken # 0 => taken >= 1 /\ taken \in 1..Len(line)
  BY DEF LineInv
<1>2. CASE Answer
  <2>1. taken # 0 => line'[taken] = line[taken]
    BY <1>1, <1>2, CleanAnswer
  <2>2. sent' = sent
    BY <1>2 DEF Answer, Deliver
  <2> QED
    BY <2>1, <2>2 DEF Reach, AtEnd, FrameLen
<1>3. CASE /\ sent' = sent \/ \E k \in Kinds : sent' = Append(sent, k)
           /\ UNCHANGED <<answered, line>>
  <2>1. taken # 0 => FrameLen(line[taken].seq)' = FrameLen(line[taken].seq)
    BY <1>1, <1>3, CleanKept
  <2> QED
    BY <1>3, <2>1 DEF Reach, AtEnd
<1> QED
  BY <1>2, <1>3
-----------------------------------------------------------------------------
(* In time.                                                                *)

(* The reads go from frame to frame in step with the calls.                *)
FreshInv ==
  /\ client \in {"driver", "check"} /\ skipped \in {0, 1}
  /\ client = "driver" => skipped = 0 /\ pc \in {"idle", "header", "tail"}
  /\ client = "check" => /\ \A n \in 1..Len(sent) : sent[n] = "params"
                         /\ pc \in {"header", "tail"} => want = "params"
                         /\ pc # "idle"
  /\ pc = "enable" => skipped = 0 /\ accepted = <<>>
  /\ ~missed =>
       /\ \A i \in 1..Len(accepted) : accepted[i].seq = i /\ accepted[i].at = i + skipped
       /\ IF pc \in {"header", "tail"}
          THEN Len(sent) = Len(accepted) + skipped + 1 /\ want = sent[Len(sent)]
          ELSE Len(sent) = Len(accepted) + skipped
       /\ IF pc = "tail" THEN Reach(taken) = Len(accepted) + 1
          ELSE AtEnd(taken) /\ Reach(taken) = Len(accepted)

LEMMA FreshInit == Init => FreshInv
BY DEF Init, FreshInv, Reach, AtEnd

(* A command that is sent, or is not, outside of a call.                   *)
LEMMA FreshSend ==
  ASSUME LineInv, HostInv, CleanInv, FreshInv, Enable \/ \E k \in Kinds : Call(k)
  PROVE  FreshInv'
<1>1. sent \in Seq(Kinds) /\ Len(sent) \in Nat /\ Len(accepted) \in Nat
  BY DEF LineInv, HostInv
<1>2. ASSUME NEW k \in Kinds, sent' = Append(sent, k)
      PROVE  /\ Len(sent') = Len(sent) + 1 /\ sent'[Len(sent')] = k
             /\ \A n \in 1..Len(sent') :
                  (n \in 1..Len(sent) /\ sent'[n] = sent[n]) \/ sent'[n] = k
  <2>1. /\ Len(sent') = Len(sent) + 1 /\ sent'[Len(sent) + 1] = k
        /\ \A n \in 1..Len(sent) : sent'[n] = sent[n]
    BY <1>1, <1>2, AppendProperties
  <2> QED
    BY <1>1, <2>1
<1>3. /\ UNCHANGED <<answered, line, taken, client, accepted, missed>>
      /\ sent' = sent \/ \E k \in Kinds : sent' = Append(sent, k)
  BY LinkAssumption DEF Enable, Call, user
<1>4. ~missed => Reach(taken)' = Reach(taken) /\ (AtEnd(taken)' <=> AtEnd(taken))
  BY <1>3, ReachKept DEF CleanInv
<1>5. CASE Enable
  <2>1. /\ pc = "enable" /\ client = "check" /\ skipped = 0 /\ accepted = <<>> /\ want' = want
        /\ accepted' = accepted
    BY <1>5 DEF Enable, FreshInv
  <2>2. CASE sent' = Append(sent, "params") /\ skipped' = 1 /\ pc' = "readback"
    <3>1. /\ Len(sent') = Len(sent) + 1 /\ \A n \in 1..Len(sent') : sent'[n] = "params"
      BY <1>2, <2>1, <2>2, LinkAssumption DEF FreshInv
    <3>2. ~missed => Len(sent') = Len(accepted) + 1
      BY <1>1, <2>1, <3>1 DEF FreshInv
    <3> QED
      BY <1>1, <1>3, <1>4, <2>1, <2>2, <3>1, <3>2 DEF FreshInv
  <2>3. CASE UNCHANGED <<sent, skipped>> /\ pc' = "done"
    BY <1>3, <1>4, <2>1, <2>3 DEF FreshInv
  <2> QED
    BY <1>5, <2>2, <2>3 DEF Enable
<1>6. ASSUME NEW k \in Kinds, Call(k) PROVE FreshInv'
  <2>1. /\ want' = k /\ skipped' = skipped /\ pc \notin {"header", "tail", "enable"}
        /\ client = "check" => k = "params"
        /\ client = "driver" => pc = "idle"
    BY <1>6 DEF Call, Due, user, FreshInv
  <2>2. CASE sent' = Append(sent, k) /\ pc' = "header"
    <3>1. /\ Len(sent') = Len(sent) + 1 /\ sent'[Len(sent')] = k
          /\ client = "check" => \A n \in 1..Len(sent') : sent'[n] = "params"
      BY <1>2, <2>1, <2>2 DEF FreshInv
    <3>2. ~missed => Len(sent') = Len(accepted) + skipped + 1
      BY <1>1, <2>1, <3>1 DEF FreshInv
    <3> QED
      BY <1>1, <1>3, <1>4, <2>1, <2>2, <3>1, <3>2 DEF FreshInv
  <2>3. CASE sent' = sent /\ pc' = IF client = "driver" THEN "idle" ELSE "done"
    BY <1>3, <1>4, <2>1, <2>3 DEF FreshInv
  <2> QED
    BY <1>6, <2>2, <2>3 DEF Call
<1> QED
  BY <1>5, <1>6

LEMMA FreshHeader ==
  ASSUME LineInv, HostInv, CleanInv, FreshInv, RecvHeader
  PROVE  FreshInv'
<1>1. /\ pc = "header" /\ UNCHANGED <<sent, line, client, skipped, want>>
      /\ taken' = taken + ReadLen(HeaderLen)
  BY DEF RecvHeader, user
<1>2. accepted' = accepted
  BY DEF RecvHeader, ShortHeader, BadHeader, BadLength, GoodHeader, Return
<1>3. pc' = "tail" \/ pc' = IF client = "driver" THEN "idle" ELSE "done"
  BY DEF RecvHeader, ShortHeader, BadHeader, BadLength, GoodHeader, Return
<1>4. CASE ShortHeader
  <2>1. missed'
    BY <1>4 DEF ShortHeader
  <2> QED
    BY <1>1, <1>2, <1>3, <2>1 DEF FreshInv
<1>5. CASE ~ShortHeader
  <2>1. BadHeader \/ BadLength \/ GoodHeader
    BY <1>5 DEF RecvHeader
  <2>2. missed' = missed /\ ReadLen(HeaderLen) = 2
    BY <2>1 DEF BadHeader, BadLength, GoodHeader, HeaderLen
  <2>3. ASSUME ~missed PROVE pc' = "tail" /\ Reach(taken)' = Len(accepted) + 1
    <3>1. CleanLine /\ AtEnd(taken) /\ Reach(taken) = Len(accepted)
      BY <1>1, <2>3 DEF CleanInv, FreshInv
    <3>2. taken \in 0..Len(line) /\ taken + 2 <= Len(line)
      BY <2>2, ReadType DEF LineInv, HeaderLen
    <3>3. GoodHeader
      BY <2>1, <3>1, <3>2, HeaderUnits DEF BadHeader, BadLength
    <3>4. pc' = "tail"
      BY <3>3 DEF GoodHeader
    <3>5. taken' = taken + 2 /\ Reach(taken + 2) = Reach(taken) + 1
      BY <3>1, <3>4, CleanHeader
    <3>6. Reach(taken)' = Reach(taken + 2)
      BY <1>1, <3>5 DEF Reach
    <3> QED
      BY <3>1, <3>4, <3>5, <3>6
  <2> QED
    BY <1>1, <1>2, <1>3, <2>2, <2>3 DEF FreshInv
<1> QED
  BY <1>4, <1>5

LEMMA FreshTail ==
  ASSUME LineInv, HostInv, CleanInv, FreshInv, RecvTail
  PROVE  FreshInv'
<1>1. /\ pc = "tail" /\ UNCHANGED <<sent, line, client, skipped, want>>
      /\ taken' = taken + ReadLen(hdr.need)
      /\ pc' = IF client = "driver" THEN "idle" ELSE "done"
  BY DEF RecvTail, user, Return
<1>2. CASE missed'
  BY <1>1, <1>2 DEF FreshInv
<1>3. CASE ~missed'
  <2>1. /\ missed' = missed /\ ReadLen(hdr.need) = hdr.need
        /\ Return(IF CrcOk /\ hdr.cmd = want THEN Body[1].seq ELSE 0)
    BY <1>3 DEF RecvTail
  <2>2. CleanLine /\ CleanTail
    BY <1>1, <1>3, <2>1 DEF CleanInv
  <2>3. /\ Reach(taken) \in 1..Len(sent) /\ hdr.cmd = sent[Reach(taken)]
        /\ CrcOk /\ Body[1].seq = Reach(taken) /\ AtEnd(taken + hdr.need)
        /\ Reach(taken + hdr.need) = Reach(taken)
    BY <2>1, <2>2, TailRead
  <2>4. /\ Reach(taken) = Len(accepted) + 1 /\ want = sent[Len(sent)]
        /\ Len(sent) = Len(accepted) + skipped + 1
        /\ \A i \in 1..Len(accepted) : accepted[i].seq = i /\ accepted[i].at = i + skipped
    BY <1>1, <1>3, <2>1 DEF FreshInv
  <2>5. Len(sent) \in Nat /\ Len(accepted) \in Nat /\ accepted \in Seq(Accepted) /\ want \in Kinds
    BY DEF LineInv, HostInv
  <2>6. hdr.cmd = want
    <3>1. CASE client = "driver"
      <4>1. Reach(taken) = Len(sent)
        BY <2>4, <2>5, <3>1 DEF FreshInv
      <4> QED
        BY <2>3, <2>4, <4>1
    <3>2. CASE client = "check"
      BY <1>1, <2>3, <3>2 DEF FreshInv
    <3> QED
      BY <3>1, <3>2 DEF FreshInv
  <2> DEFINE x == [seq |-> Reach(taken), call |-> want, at |-> Len(sent)]
  <2>7. accepted' = Append(accepted, x)
    BY <2>1, <2>3, <2>6 DEF Return
  <2>8. x \in Accepted /\ x.seq = Len(accepted) + 1 /\ x.at = Len(accepted) + 1 + skipped
    BY <2>3, <2>4, <2>5 DEF Accepted, FreshInv
  <2> HIDE DEF x
  <2>9. /\ Len(accepted') = Len(accepted) + 1 /\ accepted'[Len(accepted) + 1] = x
        /\ \A i \in 1..Len(accepted) : accepted'[i] = accepted[i]
    BY <2>5, <2>7, <2>8, AppendProperties
  <2>10. ASSUME NEW i \in 1..(Len(accepted) + 1)
         PROVE  accepted'[i].seq = i /\ accepted'[i].at = i + skipped
    <3>1. CASE i \in 1..Len(accepted)
      BY <2>4, <2>9, <3>1
    <3>2. CASE i = Len(accepted) + 1
      BY <2>8, <2>9, <3>2
    <3> QED
      BY <2>5, <3>1, <3>2
  <2>11. AtEnd(taken)' /\ Reach(taken)' = Len(accepted) + 1
    <3>1. AtEnd(taken)' <=> AtEnd(taken + hdr.need)
      BY <1>1, <2>1 DEF AtEnd, FrameLen
    <3>2. Reach(taken)' = Reach(taken + hdr.need)
      BY <1>1, <2>1 DEF Reach
    <3> QED
      BY <2>3, <2>4, <3>1, <3>2
  <2>12. Len(sent) = (Len(accepted) + 1) + skipped
    BY <2>4, <2>5 DEF FreshInv
  <2> QED
    BY <1>1, <2>9, <2>10, <2>11, <2>12 DEF FreshInv
<1> QED
  BY <1>2, <1>3

LEMMA FreshStep ==
  ASSUME LineInv, HostInv, CleanInv, FreshInv, [Next]_vars
  PROVE  FreshInv'
<1>1. CASE Answer \/ Arrive \/ UNCHANGED vars
  <2>1. /\ UNCHANGED <<sent, taken, client, skipped, pc, want, accepted, missed>>
        /\ Answer \/ UNCHANGED <<answered, line>>
    BY <1>1 DEF Answer, Arrive, Deliver, vars, user, host
  <2>2. ~missed => Reach(taken)' = Reach(taken) /\ (AtEnd(taken)' <=> AtEnd(taken))
    BY <2>1, ReachKept DEF CleanInv
  <2> QED
    BY <2>1, <2>2 DEF FreshInv
<1>2. CASE Fault
  <2>1. UNCHANGED <<sent, taken, client, skipped, pc, want, accepted>> /\ missed'
    BY <1>2 DEF Fault, Deliver, user, host
  <2> QED
    BY <2>1 DEF FreshInv
<1> QED
  BY <1>1, <1>2, FreshSend, FreshHeader, FreshTail DEF Next

LEMMA CleanInit == Init => LineInv /\ HostInv /\ CleanInv
BY LinkAssumption DEF Init, LineInv, HostInv, LastSeq, CleanInv, CleanLine

LEMMA CleanAlways == Spec => [](LineInv /\ HostInv /\ CleanInv)
BY CleanInit, LinkStep, CleanStep, PTL DEF Spec

(* As long as no read comes up short on a line without faults, every call  *)
(* of the driver gets the answer to its own command, and check_ch_enable   *)
(* the answer to the one before (recv_response, CustomProtocol.cpp:136-208; *)
(* check_ch_enable.cpp, which leaves the answer to its enable unread).     *)
THEOREM FreshCorrect == Spec => []FreshWhileTimely
<1>1. FreshInv => FreshWhileTimely
  BY DEF FreshInv, FreshWhileTimely
<1>2. LineInv /\ HostInv /\ CleanInv /\ FreshInv /\ [Next]_vars => FreshInv'
  BY FreshStep
<1> QED
  BY <1>1, <1>2, FreshInit, CleanAlways, PTL DEF Spec
-----------------------------------------------------------------------------
(* Late.                                                                   *)

LastAt == IF accepted = <<>> THEN 0 ELSE accepted[Len(accepted)].at

(* From one answer accepted to the next the reads advance by no more       *)
(* frames than there are calls.                                            *)
LagInv ==
  faults = 0 =>
    /\ \A i, j \in 1..Len(accepted) :
         j = i + 1 => accepted[i].at + accepted[j].seq <= accepted[j].at + accepted[i].seq
    /\ accepted # <<>> =>
         IF pc = "header" THEN Reach(taken) + 1 + LastAt <= Len(sent) + LastSeq
         ELSE Reach(taken) + LastAt <= Len(sent) + LastSeq

LEMMA LagTypes ==
  ASSUME LineInv, HostInv
  PROVE  /\ Len(sent) \in Nat /\ Len(accepted) \in Nat /\ accepted \in Seq(Accepted)
         /\ Reach(taken) \in Nat /\ LastSeq \in Nat /\ LastAt \in Nat
         /\ \A i \in 1..Len(accepted) : accepted[i].seq \in Nat /\ accepted[i].at \in Nat
<1>1. /\ Len(sent) \in Nat /\ Len(accepted) \in Nat /\ accepted \in Seq(Accepted)
      /\ taken \in 0..Len(line)
  BY DEF LineInv, HostInv
<1>2. Reach(taken) \in Nat
  <2>1. CASE taken = 0
    BY <2>1 DEF Reach
  <2>2. CASE taken # 0
    <3>1. taken \in 1..Len(line)
      BY <1>1, <2>2
    <3> QED
      BY <2>2, <3>1, UnitFacts DEF Reach
  <2> QED
    BY <2>1, <2>2
<1>3. ASSUME NEW i \in 1..Len(accepted) PROVE accepted[i].seq \in Nat /\ accepted[i].at \in Nat
  <2>1. accepted[i] \in Accepted
    BY <1>1
  <2> QED
    BY <2>1 DEF Accepted
<1>4. accepted # <<>> => Len(accepted) \in 1..Len(accepted)
  BY <1>1
<1> QED
  BY <1>1, <1>2, <1>3, <1>4 DEF LastSeq, LastAt

(* Outside of a call, and when one begins.                                 *)
LEMMA LagKept ==
  ASSUME LineInv, HostInv, CleanInv, LagInv, UNCHANGED <<taken, accepted>>, faults' = faults,
         \/ Answer /\ UNCHANGED <<sent, pc>>
         \/ /\ UNCHANGED <<answered, line>>
            /\ \/ UNCHANGED <<sent, pc>>
               \/ /\ pc # "header"
                  /\ \/ sent' = sent /\ pc' # "header"
                     \/ \E k \in Kinds : sent' = Append(sent, k)
  PROVE  LagInv'
<1> SUFFICES ASSUME faults = 0 PROVE LagInv'
  BY DEF LagInv
<1>1. /\ Len(sent) \in Nat /\ Reach(taken) \in Nat /\ LastSeq \in Nat /\ LastAt \in Nat
  BY LagTypes
<1>2. Reach(taken)' = Reach(taken)
  <2>1. CleanLine
    BY DEF CleanInv
  <2>2. \/ Answer
        \/ /\ sent' = sent \/ \E k \in Kinds : sent' = Append(sent, k)
           /\ UNCHANGED <<answered, line>>
    OBVIOUS
  <2> QED
    BY <2>1, <2>2, ReachKept
<1>3. LastSeq' = LastSeq /\ LastAt' = LastAt
  BY DEF LastSeq, LastAt
<1>4. CASE sent' = sent
  BY <1>1, <1>2, <1>3, <1>4 DEF LagInv
<1>5. CASE pc # "header" /\ \E k \in Kinds : sent' = Append(sent, k)
  <2>1. Len(sent') = Len(sent) + 1
    BY <1>5 DEF LineInv
  <2> QED
    BY <1>1, <1>2, <1>3, <1>5, <2>1 DEF LagInv
<1> QED
  BY <1>4, <1>5

LEMMA LagHeader ==
  ASSUME LineInv, HostInv, CleanInv, LagInv, RecvHeader, faults = 0
  PROVE  LagInv'
<1>1. /\ pc = "header" /\ UNCHANGED <<sent, line, faults>>
      /\ taken' = taken + ReadLen(HeaderLen)
  BY DEF RecvHeader
<1>2. accepted' = accepted /\ pc' # "header"
  BY DEF RecvHeader, ShortHeader, BadHeader, BadLength, GoodHeader, Return
<1>3. /\ Len(sent) \in Nat /\ Reach(taken) \in Nat /\ LastSeq \in Nat /\ LastAt \in Nat
  BY LagTypes
<1>4. CleanLine /\ taken \in 0..Len(line) /\ Len(line) \in Nat
  BY DEF CleanInv, LineInv
<1>5. PICK r \in 0..2 : r = ReadLen(HeaderLen) /\ taken + r <= Len(line)
  <2>1. HeaderLen \in Nat /\ HeaderLen = 2
    BY DEF HeaderLen
  <2>2. ReadLen(HeaderLen) \in Nat /\ ReadLen(HeaderLen) <= HeaderLen
        /\ taken + ReadLen(HeaderLen) \in 0..arrived
    BY <2>1, ReadType
  <2>3. arrived \in 0..Len(line)
    BY DEF LineInv
  <2>4. ReadLen(HeaderLen) \in 0..2 /\ taken + ReadLen(HeaderLen) <= Len(line)
    BY <1>4, <2>1, <2>2, <2>3
  <2> QED
    BY <2>4
<1>6. Reach(taken + r) \in Nat /\ Reach(taken + r) <= Reach(taken) + 1
  <2>1. CASE r = 0
    BY <1>3, <1>4, <2>1
  <2>2. CASE r = 2
    BY <1>4, <1>5, <2>2, HeaderUnits
  <2>3. CASE r = 1
    <3>1. PICK i \in 1..Len(line) : i = taken + 1
      BY <1>4, <1>5, <2>3
    <3>2. line[i].seq = Reach(taken) \/ line[i].seq = Reach(taken) + 1
      BY <1>4, <3>1, NextUnit
    <3>3. Reach(taken + r) = line[i].seq
      BY <2>3, <3>1 DEF Reach
    <3> QED
      BY <1>3, <3>2, <3>3
  <2> QED
    BY <2>1, <2>2, <2>3
<1>7. Reach(taken)' = Reach(taken + r)
  BY <1>1, <1>5 DEF Reach
<1>8. LastSeq' = LastSeq /\ LastAt' = LastAt
  BY <1>2 DEF LastSeq, LastAt
<1>9. accepted # <<>> => Reach(taken + r) + LastAt <= Len(sent) + LastSeq
  <2>1. accepted # <<>> => Reach(taken) + 1 + LastAt <= Len(sent) + LastSeq
    BY <1>1 DEF LagInv
  <2> QED
    BY <1>3, <1>6, <2>1
<1> QED
  BY <1>1, <1>2, <1>7, <1>8, <1>9 DEF LagInv

LEMMA LagTail ==
  ASSUME LineInv, HostInv, CleanInv, LagInv, RecvTail, faults = 0
  PROVE  LagInv'
<1>1. /\ pc = "tail" /\ UNCHANGED <<sent, line, faults, want>>
      /\ taken' = taken + ReadLen(hdr.need) /\ pc' # "header"
  BY DEF RecvTail, Return
<1>2. CleanLine /\ CleanTail
  BY <1>1 DEF CleanInv
<1>3. Reach(taken)' = Reach(taken)
  <2>1. Reach(taken + ReadLen(hdr.need)) = Reach(taken)
    BY <1>2, TailRead
  <2> QED
    BY <1>1, <2>1 DEF Reach
<1>4. /\ Len(sent) \in Nat /\ Len(accepted) \in Nat /\ accepted \in Seq(Accepted)
      /\ Reach(taken) \in Nat /\ LastSeq \in Nat /\ LastAt \in Nat
      /\ \A i \in 1..Len(accepted) : accepted[i].seq \in Nat /\ accepted[i].at \in Nat
  BY LagTypes
<1>5. CASE accepted' = accepted
  <2>1. LastSeq' = LastSeq /\ LastAt' = LastAt
    BY <1>5 DEF LastSeq, LastAt
  <2> QED
    BY <1>1, <1>3, <1>5, <2>1 DEF LagInv
<1>6. CASE accepted' # accepted
  <2> DEFINE b == Body[1].seq
             x == [seq |-> b, call |-> want, at |-> Len(sent)]
  <2>1. ReadLen(hdr.need) = hdr.need /\ accepted' = Append(accepted, x)
    BY <1>6 DEF RecvTail, Return
  <2>2. b = Reach(taken) /\ want \in Kinds
    BY <1>2, <2>1, TailRead DEF HostInv
  <2> HIDE DEF b
  <2>3. x \in Accepted /\ x.seq = Reach(taken) /\ x.at = Len(sent)
    BY <1>4, <2>2 DEF Accepted
  <2> HIDE DEF x
  <2>4. /\ Len(accepted') = Len(accepted) + 1 /\ accepted'[Len(accepted) + 1] = x
        /\ accepted' # <<>> /\ \A i \in 1..Len(accepted) : accepted'[i] = accepted[i]
    BY <1>4, <2>1, <2>3, AppendProperties
  <2>5. LastSeq' = Reach(taken) /\ LastAt' = Len(sent)
    BY <2>3, <2>4 DEF LastSeq, LastAt
  <2>6. ASSUME NEW i \in 1..(Len(accepted) + 1), NEW j \in 1..(Len(accepted) + 1), j = i + 1
        PROVE  accepted'[i].at + accepted'[j].seq <= accepted'[j].at + accepted'[i].seq
    <3>1. i \in 1..Len(accepted) /\ accepted'[i] = accepted[i]
      BY <1>4, <2>4, <2>6
    <3>2. CASE j \in 1..Len(accepted)
      BY <2>4, <2>6, <3>1, <3>2 DEF LagInv
    <3>3. CASE j = Len(accepted) + 1
      <4>1. i = Len(accepted) /\ accepted # <<>>
        BY <1>4, <2>6, <3>1, <3>3
      <4>2. accepted[i].at = LastAt /\ accepted[i].seq = LastSeq
        BY <4>1 DEF LastAt, LastSeq
      <4>3. Reach(taken) + LastAt <= Len(sent) + LastSeq
        BY <1>1, <4>1 DEF LagInv
      <4>4. LastAt + Reach(taken) <= Len(sent) + LastSeq
        BY <1>4, <4>3
      <4> QED
        BY <2>3, <2>4, <3>1, <3>3, <4>2, <4>4
    <3> QED
      BY <1>4, <3>2, <3>3
  <2>7. Reach(taken) + Len(sent) <= Len(sent) + Reach(taken)
    BY <1>4
  <2> QED
    BY <1>1, <1>3, <2>4, <2>5, <2>6, <2>7 DEF LagInv
<1> QED
  BY <1>5, <1>6

LEMMA LagStep ==
  ASSUME LineInv, HostInv, CleanInv, LagInv, [Next]_vars
  PROVE  LagInv'
<1>1. CASE Answer
  BY <1>1, LagKept DEF Answer, Deliver, host
<1>2. CASE Fault
  <2>1. faults' # 0
    BY <1>2 DEF Fault, CleanInv
  <2> QED
    BY <2>1 DEF LagInv
<1>3. CASE Arrive \/ UNCHANGED vars
  BY <1>3, LagKept DEF Arrive, vars, host
<1>4. CASE Enable
  BY <1>4, LagKept, LinkAssumption DEF Enable
<1>5. ASSUME NEW k \in Kinds, Call(k) PROVE LagInv'
  BY <1>5, LagKept DEF Call, Due
<1>6. CASE RecvHeader \/ RecvTail
  <2>1. CASE faults = 0
    BY <1>6, <2>1, LagHeader, LagTail
  <2>2. CASE faults # 0
    BY <1>6, <2>2 DEF RecvHeader, RecvTail, LagInv
  <2> QED
    BY <2>1, <2>2
<1> QED
  BY <1>1, <1>2, <1>3, <1>4, <1>5, <1>6 DEF Next

(* On a line without faults an answer is never younger, counted in calls,  *)
(* than the one accepted before it: nothing flushes the port, so what a    *)
(* delay has left in it stays ahead of every later answer (recv_response,  *)
(* CustomProtocol.cpp:136-208, SerialPort::read).                          *)
THEOREM LagCorrect == Spec => []LagNeverHeals
<1>1. LineInv /\ HostInv /\ LagInv => LagNeverHeals
  <2> SUFFICES ASSUME LineInv, HostInv, LagInv, faults = 0, NEW j \in 2..Len(accepted)
               PROVE  Age(j) >= Age(j - 1)
    BY DEF LagNeverHeals
  <2>1. PICK i \in 1..Len(accepted) : j = i + 1 /\ j - 1 = i /\ j \in 1..Len(accepted)
    <3>1. Len(accepted) \in Nat
      BY LagTypes
    <3>2. j - 1 \in 1..Len(accepted) /\ j = (j - 1) + 1 /\ j \in 1..Len(accepted)
      BY <3>1
    <3> QED
      BY <3>2
  <2>2. accepted[i].at + accepted[j].seq <= accepted[j].at + accepted[i].seq
    BY <2>1 DEF LagInv
  <2>3. /\ accepted[i].seq \in Nat /\ accepted[i].at \in Nat
        /\ accepted[j].seq \in Nat /\ accepted[j].at \in Nat
    BY <2>1, LagTypes
  <2>4. accepted[j].at - accepted[j].seq >= accepted[i].at - accepted[i].seq
    BY SMTT(40), <2>2, <2>3
  <2> QED
    BY <2>1, <2>4 DEF Age
<1>2. Init => LagInv
  BY DEF Init, LagInv
<1>3. LineInv /\ HostInv /\ CleanInv /\ LagInv /\ [Next]_vars => LagInv'
  BY LagStep
<1> QED
  BY <1>1, <1>2, <1>3, CleanAlways, PTL DEF Spec
-----------------------------------------------------------------------------
(* Out of step.                                                            *)

AdcFrame == HeaderLen + BodyLen["adc"]

Place(t) == IF t = 0 THEN AdcFrame ELSE line[t].pos

(* Headers are read two units at a time: first those at the even places of *)
(* the frame, then, once past its odd length, those at the odd ones.       *)
SyncInv ==
  faults = 0 /\ sent \in Seq({"adc"}) =>
    /\ badHeads \in Nat
    /\ pc = "tail" => badHeads = 0
    /\ \A k, q \in 0..AdcFrame : AdcFrame = 2 * k + 1 =>
         /\ Place(taken) = 2 * q => badHeads + 1 <= q
         /\ Place(taken) = 2 * q + 1 => badHeads <= k + q

LEMMA AdcFrameLen ==
  ASSUME LineInv, sent \in Seq({"adc"})
  PROVE  /\ AdcFrame \in Nat /\ AdcFrame >= 3 /\ Place(taken) \in 1..AdcFrame
         /\ \A i \in 1..Len(line) : FrameLen(line[i].seq) = AdcFrame
<1>1. AdcFrame \in Nat /\ AdcFrame >= 3
  <2>1. BodyLen["adc"] \in Nat \ {0}
    BY LinkAssumption
  <2> QED
    BY <2>1 DEF AdcFrame, HeaderLen
<1>2. ASSUME NEW i \in 1..Len(line) PROVE FrameLen(line[i].seq) = AdcFrame
  <2>1. line[i].seq \in 1..Len(sent)
    BY UnitFacts
  <2>2. sent[line[i].seq] = "adc"
    BY <2>1
  <2> QED
    BY <2>2 DEF FrameLen, AdcFrame
<1>3. Place(taken) \in 1..AdcFrame
  <2>1. CASE taken = 0
    BY <1>1, <2>1 DEF Place
  <2>2. CASE taken # 0
    <3>1. taken \in 1..Len(line)
      BY <2>2 DEF LineInv
    <3>2. line[taken].pos \in 1..AdcFrame
      BY <1>2, <3>1, UnitFacts
    <3> QED
      BY <2>2, <3>2 DEF Place
  <2> QED
    BY <2>1, <2>2
<1> QED
  BY <1>1, <1>2, <1>3

AllAdc == sent \in Seq({"adc"})
InFrame == Place(taken) \in 1..AdcFrame

LEMMA AdcPlace == LineInv /\ AllAdc => InFrame
BY AdcFrameLen DEF AllAdc, InFrame

LEMMA AdcPlaceNext == LineInv' /\ AllAdc' => InFrame'
BY AdcPlace, PTL

(* No failures, nothing to bound.                                          *)
LEMMA SyncReset ==
  ASSUME LineInv', badHeads' = 0
  PROVE  SyncInv'
<1> SUFFICES ASSUME sent' \in Seq({"adc"}) PROVE SyncInv'
  BY DEF SyncInv
<1>2. Place(taken)' \in 1..AdcFrame
  BY AdcPlaceNext DEF AllAdc, InFrame, AdcFrame
<1>3. PICK m \in 1..AdcFrame : m = Place(taken)'
  BY <1>2
<1>4. ASSUME NEW k \in 0..AdcFrame, NEW q \in 0..AdcFrame
      PROVE  /\ m = 2 * q => 0 + 1 <= q
             /\ m = 2 * q + 1 => 0 <= k + q
  OBVIOUS
<1> QED
  BY <1>3, <1>4 DEF SyncInv

(* A bad header: two places on, perhaps into the next frame.               *)
LEMMA SyncBad ==
  ASSUME LineInv, LineInv', CleanInv, SyncInv, RecvHeader, BadHeader, faults = 0,
         sent \in Seq({"adc"}), NEW k \in 0..AdcFrame, NEW q \in 0..AdcFrame,
         AdcFrame = 2 * k + 1
  PROVE  /\ Place(taken + 2) = 2 * q => badHeads + 2 <= q
         /\ Place(taken + 2) = 2 * q + 1 => badHeads + 1 <= k + q
<1>1. /\ CleanLine /\ taken \in 0..Len(line) /\ Len(line) \in Nat
      /\ AdcFrame \in Nat /\ AdcFrame >= 3 /\ Place(taken) \in 1..AdcFrame
      /\ \A i \in 1..Len(line) : FrameLen(line[i].seq) = AdcFrame
  <2>1. CleanLine /\ taken \in 0..Len(line) /\ Len(line) \in Nat
    BY DEF CleanInv, LineInv
  <2>2. /\ AdcFrame \in Nat /\ AdcFrame >= 3 /\ Place(taken) \in 1..AdcFrame
        /\ \A i \in 1..Len(line) : FrameLen(line[i].seq) = AdcFrame
    BY AdcFrameLen
  <2> QED
    BY <2>1, <2>2
<1>2. taken + 2 <= Len(line)
  <2>1. ReadLen(HeaderLen) = 2 /\ HeaderLen = 2 /\ HeaderLen \in Nat
    BY DEF BadHeader, HeaderLen
  <2> QED
    BY <2>1, ReadType
<1>3. PICK h \in 1..Len(line), l \in 1..Len(line) : h = taken + 1 /\ l = taken + 2
  BY <1>1, <1>2
<1>4. ~AtEnd(taken) /\ taken # 0 /\ taken \in 1..Len(line)
  <2>1. ~AtEnd(taken)
    BY <1>1, <1>2, HeaderUnits DEF BadHeader
  <2> QED
    BY <1>1, <2>1 DEF AtEnd
<1>5. Place(taken) = line[taken].pos /\ Place(taken) # AdcFrame
  BY <1>1, <1>4 DEF Place, AtEnd
<1>6. line[h].pos = Place(taken) + 1
  BY <1>1, <1>3, <1>4, <1>5, NextUnit
<1>7. line[l].pos = IF line[h].pos = AdcFrame THEN 1 ELSE line[h].pos + 1
  <2>1. h \in 0..Len(line) /\ l = h + 1 /\ h # 0
    BY <1>1, <1>3
  <2>2. AtEnd(h) <=> line[h].pos = AdcFrame
    BY <1>1, <2>1 DEF AtEnd
  <2> QED
    BY <1>1, <2>1, <2>2, NextUnit
<1>8. Place(taken + 2) = line[l].pos
  BY <1>1, <1>3 DEF Place
<1>9. PICK m \in 1..AdcFrame : m = Place(taken)
  BY <1>1
<1>10. /\ badHeads \in Nat
       /\ \A u \in 0..AdcFrame : /\ m = 2 * u => badHeads + 1 <= u
                                 /\ m = 2 * u + 1 => badHeads <= k + u
  BY <1>9 DEF SyncInv
<1>11. Place(taken + 2) = IF m + 1 = AdcFrame THEN 1 ELSE m + 2
  BY <1>1, <1>5, <1>6, <1>7, <1>8, <1>9
<1>12. CASE m + 1 = AdcFrame
  <2>1. m = 2 * k
    BY <1>1, <1>12
  <2>2. badHeads + 1 <= k
    BY <1>10, <2>1
  <2> QED
    BY <1>10, <1>11, <1>12, <2>2
<1>13. CASE m + 1 # AdcFrame
  <2>1. Place(taken + 2) = m + 2
    BY <1>11, <1>13
  <2>2. ASSUME m + 2 = 2 * q PROVE badHeads + 2 <= q
    <3>1. PICK u \in 0..AdcFrame : u = q - 1 /\ m = 2 * u
      <4>1. q - 1 \in 0..AdcFrame /\ m = 2 * (q - 1)
        BY <1>1, <2>2
      <4> QED
        BY <4>1
    <3>2. badHeads + 1 <= u
      BY <1>10, <3>1
    <3> QED
      BY <1>10, <3>1, <3>2
  <2>3. ASSUME m + 2 = 2 * q + 1 PROVE badHeads + 1 <= k + q
    <3>1. PICK u \in 0..AdcFrame : u = q - 1 /\ m = 2 * u + 1
      <4>1. q - 1 \in 0..AdcFrame /\ m = 2 * (q - 1) + 1
        BY <1>1, <2>3
      <4> QED
        BY <4>1
    <3>2. badHeads <= k + u
      BY <1>10, <3>1
    <3> QED
      BY <1>10, <3>1, <3>2
  <2> QED
    BY <2>1, <2>2, <2>3
<1> QED
  BY <1>12, <1>13

LEMMA SyncStep ==
  ASSUME LineInv, LineInv', HostInv, CleanInv, SyncInv, [Next]_vars
  PROVE  SyncInv'
<1> SUFFICES ASSUME faults' = 0, sent' \in Seq({"adc"}) PROVE SyncInv'
  BY DEF SyncInv
<1>1. CASE Fault
  BY <1>1 DEF Fault, CleanInv
<1>2. CASE Answer \/ Arrive \/ Enable \/ (\E k \in Kinds : Call(k)) \/ UNCHANGED vars
  <2>1. /\ UNCHANGED <<taken, badHeads>> /\ faults' = faults
        /\ pc' = "tail" => pc = "tail"
        /\ sent' = sent \/ \E k \in Kinds : sent' = Append(sent, k)
        /\ Answer \/ UNCHANGED <<answered, line>>
    BY <1>2, LinkAssumption
       DEF Answer, Arrive, Enable, Call, Deliver, vars, user, host
  <2>2. sent \in Seq({"adc"})
    <3>1. /\ sent \in Seq(Kinds) /\ Len(sent) \in Nat /\ Len(sent) <= Len(sent')
          /\ \A n \in 1..Len(sent) : sent'[n] = sent[n]
      BY <2>1 DEF LineInv
    <3>2. ASSUME NEW n \in 1..Len(sent) PROVE sent[n] \in {"adc"}
      <4>1. n \in 1..Len(sent')
        BY <3>1
      <4>2. sent'[n] \in {"adc"}
        BY <4>1
      <4> QED
        BY <3>1, <4>2
    <3> QED
      BY <3>1, <3>2
  <2>3. CleanLine
    BY <2>1 DEF CleanInv
  <2>4. Place(taken)' = Place(taken)
    <3>1. taken # 0 => line'[taken].pos = line[taken].pos
      BY <2>1, <2>3, ReachKept
    <3> QED
      BY <2>1, <3>1 DEF Place
  <2> QED
    BY <2>1, <2>2, <2>4 DEF SyncInv
<1>3. CASE RecvHeader
  <2>1. UNCHANGED <<sent, line, faults>>
    BY <1>3 DEF RecvHeader
  <2>2. CASE BadHeader
    <3>1. badHeads' = badHeads + 1 /\ pc' # "tail"
      BY <2>2 DEF BadHeader, Return
    <3>2. badHeads \in Nat
      BY <2>1 DEF SyncInv
    <3>3. Place(taken)' = Place(taken + 2)
      <4>1. taken' = taken + 2
        BY <1>3, <2>2 DEF RecvHeader, BadHeader, HeaderLen
      <4> QED
        BY <2>1, <4>1 DEF Place
    <3>4. ASSUME NEW k \in 0..AdcFrame, NEW q \in 0..AdcFrame, AdcFrame = 2 * k + 1
          PROVE  /\ Place(taken)' = 2 * q => badHeads' + 1 <= q
                 /\ Place(taken)' = 2 * q + 1 => badHeads' <= k + q
      <4>1. /\ Place(taken + 2) = 2 * q => badHeads + 2 <= q
            /\ Place(taken + 2) = 2 * q + 1 => badHeads + 1 <= k + q
        BY <1>3, <2>1, <2>2, <3>4, SyncBad
      <4>2. badHeads' + 1 = badHeads + 2
        BY <3>1, <3>2
      <4> QED
        BY <3>1, <3>3, <4>1, <4>2
    <3>5. badHeads' \in Nat
      BY <3>1, <3>2
    <3> QED
      BY <3>1, <3>4, <3>5 DEF SyncInv
  <2>3. CASE ~BadHeader
    <3>1. badHeads' = 0
      BY <1>3, <2>3 DEF RecvHeader, ShortHeader, BadLength, GoodHeader
    <3> QED
      BY <3>1, SyncReset
  <2> QED
    BY <2>2, <2>3
<1>4. CASE RecvTail
  <2>1. pc = "tail" /\ UNCHANGED <<sent, faults, badHeads>>
    BY <1>4 DEF RecvTail
  <2>2. badHeads' = 0
    BY <2>1 DEF SyncInv
  <2> QED
    BY <2>2, SyncReset
<1> QED
  BY <1>1, <1>2, <1>3, <1>4 DEF Next

(* A frame and a header have no common divisor, 43 bytes and 5, here an    *)
(* odd number of units and two: out of step with the readings of a line    *)
(* without faults, recv_response fails fewer times in a row than a frame   *)
(* has units before it meets the beginning of one (CustomProtocol.cpp:146- *)
(* 154, which drops the five bytes it has read).                           *)
THEOREM ResyncCorrect ==
  ASSUME NEW k \in Nat, HeaderLen + BodyLen["adc"] = 2 * k + 1
  PROVE  Spec => []ResyncBound
<1>1. ASSUME LineInv, SyncInv PROVE ResyncBound
  <2> SUFFICES ASSUME faults = 0, sent \in Seq({"adc"}) PROVE badHeads < AdcFrame
    BY DEF ResyncBound, AdcFrame
  <2>1. AdcFrame \in Nat /\ Place(taken) \in 1..AdcFrame /\ AdcFrame = 2 * k + 1
    BY <1>1, AdcFrameLen DEF AdcFrame
  <2>2. k \in 0..AdcFrame /\ badHeads \in Nat
    BY <1>1, <2>1 DEF SyncInv
  <2>3. PICK m \in 1..AdcFrame : m = Place(taken)
    BY <2>1
  <2>4. \E q \in 0..AdcFrame : m = 2 * q \/ m = 2 * q + 1
    <3>1. /\ m \div 2 \in 0..AdcFrame
          /\ m = 2 * (m \div 2) \/ m = 2 * (m \div 2) + 1
      BY <2>1
    <3> QED
      BY <3>1
  <2>5. PICK q \in 0..AdcFrame : m = 2 * q \/ m = 2 * q + 1
    BY <2>4
  <2>6. CASE m = 2 * q
    <3>1. badHeads + 1 <= q
      BY <1>1, <2>1, <2>2, <2>3, <2>6 DEF SyncInv
    <3> QED
      BY <2>1, <2>2, <2>6, <3>1
  <2>7. CASE m = 2 * q + 1
    <3>1. badHeads <= k + q
      BY <1>1, <2>1, <2>2, <2>3, <2>7 DEF SyncInv
    <3> QED
      BY <2>1, <2>2, <2>7, <3>1
  <2> QED
    BY <2>5, <2>6, <2>7
<1>2. Init => SyncInv
  <2>1. Init => badHeads = 0 /\ LineInv
    BY CleanInit DEF Init
  <2> QED
    BY <2>1, AdcFrameLen DEF SyncInv
<1>3. LineInv /\ LineInv' /\ HostInv /\ CleanInv /\ SyncInv /\ [Next]_vars => SyncInv'
  BY SyncStep
<1> QED
  BY <1>1, <1>2, <1>3, CleanAlways, PTL DEF Spec
=============================================================================
