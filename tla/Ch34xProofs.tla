------------------------------ MODULE Ch34xProofs ------------------------------
(***************************************************************************)
(* Proofs about Ch34x, for every size of the buffer and of a transfer, all *)
(* rates and reports, and any number of bytes and failures.                *)
(***************************************************************************)
EXTENDS Ch34x, SequenceTheorems, TLAPS

(***************************************************************************)
(* What the functions of ch34x_buf do to the contents of the buffer, for   *)
(* every size, wherever the offsets are.                                   *)
(***************************************************************************)

LEMMA ModLemma ==
  ASSUME NEW b \in Nat \ {0}, NEW a \in 0..(b - 1)
  PROVE  a % b = a /\ (b + a) % b = a
OBVIOUS

(* The two computations modulo the size: how much there is, and room for. *)
LEMMA Avail ==
  ASSUME NEW pb \in Buffers
  PROVE  /\ DataAvail(pb) = IF pb.buf_put >= pb.buf_get THEN pb.buf_put - pb.buf_get
                            ELSE BufSize + pb.buf_put - pb.buf_get
         /\ DataAvail(pb) \in 0..(BufSize - 1)
         /\ SpaceAvail(pb) = BufSize - 1 - DataAvail(pb)
<1> DEFINE g == pb.buf_get
           p == pb.buf_put
<1>1. g \in 0..(BufSize - 1) /\ p \in 0..(BufSize - 1) /\ BufSize \in Nat \ {0}
  BY BufferAssumption DEF Buffers
<1>2. DataAvail(pb) = (BufSize + p - g) % BufSize
      /\ SpaceAvail(pb) = (BufSize + g - p - 1) % BufSize
  BY DEF DataAvail, SpaceAvail
<1> HIDE DEF g, p
<1>3. CASE p >= g
  <2>1. p - g \in 0..(BufSize - 1) /\ BufSize + p - g = BufSize + (p - g)
    BY <1>1, <1>3
  <2>2. BufSize + g - p - 1 \in 0..(BufSize - 1)
    BY <1>1, <1>3
  <2>3. (BufSize + p - g) % BufSize = p - g /\ (BufSize + g - p - 1) % BufSize = BufSize + g - p - 1
    BY <1>1, <2>1, <2>2, ModLemma
  <2> QED
    BY <1>1, <1>2, <1>3, <2>3 DEF g, p
<1>4. CASE p < g
  <2>1. BufSize + p - g \in 0..(BufSize - 1)
    BY <1>1, <1>4
  <2>2. g - p - 1 \in 0..(BufSize - 1) /\ BufSize + g - p - 1 = BufSize + (g - p - 1)
    BY <1>1, <1>4
  <2>3. (BufSize + p - g) % BufSize = BufSize + p - g /\ (BufSize + g - p - 1) % BufSize = g - p - 1
    BY <1>1, <2>1, <2>2, ModLemma
  <2> QED
    BY <1>1, <1>2, <1>4, <2>3 DEF g, p
<1> QED
  BY <1>1, <1>3, <1>4
-----------------------------------------------------------------------------
LEMMA AdvanceRange ==
  ASSUME NEW p \in 0..(BufSize - 1), NEW n \in 0..BufSize
  PROVE  Advance(p, n) \in 0..(BufSize - 1)
BY BufferAssumption DEF Advance

LEMMA ContentType ==
  ASSUME NEW pb \in Buffers
  PROVE  Content(pb) \in Seq(Bytes) /\ Len(Content(pb)) = DataAvail(pb)
<1>1. DataAvail(pb) \in Nat /\ DataAvail(pb) \in 0..BufSize
  BY Avail, BufferAssumption
<1>2. \A i \in 1..DataAvail(pb) : pb.buf_buf[Advance(pb.buf_get, i - 1)] \in Bytes
  <2> TAKE i \in 1..DataAvail(pb)
  <2>1. pb.buf_get \in 0..(BufSize - 1) /\ i - 1 \in 0..BufSize
    BY <1>1, BufferAssumption DEF Buffers
  <2>2. Advance(pb.buf_get, i - 1) \in 0..(BufSize - 1)
    BY <2>1, AdvanceRange
  <2> QED
    BY <2>2 DEF Buffers
<1>3. Content(pb) \in [1..DataAvail(pb) -> Bytes]
  BY <1>2 DEF Content
<1> QED
  BY <1>1, <1>3

-----------------------------------------------------------------------------
(* ch34x_buf_get (ch34x.c:253) takes the oldest bytes, and leaves the      *)
(* others in their order, also when it wraps.                              *)
THEOREM GetSplits ==
  ASSUME NEW pb \in Buffers, NEW count \in Nat
  PROVE  LET n == AtMost(count, DataAvail(pb)) IN
           /\ n \in 0..DataAvail(pb)
           /\ BufGet(pb, count) \in Buffers
           /\ BufTaken(pb, count) = SubSeq(Content(pb), 1, n)
           /\ DataAvail(BufGet(pb, count)) = DataAvail(pb) - n
           /\ Content(BufGet(pb, count)) = SubSeq(Content(pb), n + 1, DataAvail(pb))
<1> DEFINE n == AtMost(count, DataAvail(pb))
           g == pb.buf_get
           p == pb.buf_put
           qb == BufGet(pb, count)
<1>1. g \in 0..(BufSize - 1) /\ p \in 0..(BufSize - 1) /\ BufSize \in Nat \ {0}
  BY BufferAssumption DEF Buffers
<1>2. /\ DataAvail(pb) = IF p >= g THEN p - g ELSE BufSize + p - g
      /\ DataAvail(pb) \in 0..(BufSize - 1)
  BY Avail
<1>3. n \in 0..DataAvail(pb) /\ n \in 0..BufSize
  BY <1>1, <1>2 DEF AtMost
<1>4. /\ qb = [pb EXCEPT !.buf_get = Advance(g, n)]
      /\ qb \in Buffers /\ qb.buf_get = Advance(g, n) /\ qb.buf_put = p
      /\ qb.buf_buf = pb.buf_buf
  <2>1. Advance(g, n) \in 0..(BufSize - 1)
    BY <1>1, <1>3, AdvanceRange
  <2>2. qb = [pb EXCEPT !.buf_get = Advance(g, n)]
    BY DEF BufGet
  <2> QED
    BY <2>1, <2>2 DEF Buffers
<1>5. DataAvail(qb) = DataAvail(pb) - n
  <2>1. DataAvail(qb) = IF p >= Advance(g, n) THEN p - Advance(g, n)
                        ELSE BufSize + p - Advance(g, n)
    BY <1>4, Avail
  <2> HIDE DEF n, g, p, qb
  <2> QED
    BY <1>1, <1>2, <1>3, <2>1 DEF Advance
<1>6. Content(qb) = SubSeq(Content(pb), n + 1, DataAvail(pb))
  <2>1. /\ Content(pb) \in Seq(Bytes) /\ Len(Content(pb)) = DataAvail(pb)
        /\ Content(qb) \in Seq(Bytes) /\ Len(Content(qb)) = DataAvail(pb) - n
    BY <1>4, <1>5, ContentType
  <2>2. /\ SubSeq(Content(pb), n + 1, DataAvail(pb)) \in Seq(Bytes)
        /\ Len(SubSeq(Content(pb), n + 1, DataAvail(pb))) = DataAvail(pb) - n
        /\ \A i \in 1..(DataAvail(pb) - n) :
             SubSeq(Content(pb), n + 1, DataAvail(pb))[i] = Content(pb)[n + i]
    <3> HIDE DEF n
    <3>1. \A i \in (n + 1)..DataAvail(pb) : Content(pb)[i] \in Bytes
      BY <1>2, <1>3, <2>1, ElementOfSeq
    <3> QED
      BY <1>2, <1>3, <3>1, SubSeqProperties
  <2>3. \A i \in 1..(DataAvail(pb) - n) : Content(qb)[i] = Content(pb)[n + i]
    <3> TAKE i \in 1..(DataAvail(pb) - n)
    <3>1. Content(qb)[i] = pb.buf_buf[Advance(Advance(g, n), i - 1)]
      BY <1>4, <1>5 DEF Content
    <3>2. Content(pb)[n + i] = pb.buf_buf[Advance(g, n + i - 1)]
      BY <1>2, <1>3 DEF Content
    <3>3. Advance(Advance(g, n), i - 1) = Advance(g, n + i - 1)
      <4> HIDE DEF n, g, p, qb
      <4> QED
        BY <1>1, <1>2, <1>3 DEF Advance
    <3> QED
      BY <3>1, <3>2, <3>3
  <2> HIDE DEF n, qb
  <2> QED
    BY <2>1, <2>2, <2>3, SeqEqual
<1>7. BufTaken(pb, count) = SubSeq(Content(pb), 1, n)
  BY DEF BufTaken
<1> QED
  BY <1>3, <1>4, <1>5, <1>6, <1>7

-----------------------------------------------------------------------------
(* ch34x_buf_put (ch34x.c:218) adds bytes behind those that are there, as  *)
(* many as there is room for, and overwrites none, also when it wraps.     *)
THEOREM PutAppends ==
  ASSUME NEW pb \in Buffers, NEW s \in Seq(Bytes)
  PROVE  LET n == PutCount(pb, s) IN
           /\ n \in 0..Len(s)
           /\ BufPut(pb, s) \in Buffers
           /\ DataAvail(BufPut(pb, s)) = DataAvail(pb) + n
           /\ Content(BufPut(pb, s)) = Content(pb) \o SubSeq(s, 1, n)
<1> DEFINE n == PutCount(pb, s)
           d == DataAvail(pb)
           g == pb.buf_get
           p == pb.buf_put
           Back(i) == IF i >= p THEN i - p ELSE i - p + BufSize
           mem == [i \in 0..(BufSize - 1) |->
                     IF Back(i) < n THEN s[Back(i) + 1] ELSE pb.buf_buf[i]]
           qb == BufPut(pb, s)
<1>1. g \in 0..(BufSize - 1) /\ p \in 0..(BufSize - 1) /\ BufSize \in Nat \ {0}
  BY BufferAssumption DEF Buffers
<1>2. /\ d = IF p >= g THEN p - g ELSE BufSize + p - g
      /\ d \in 0..(BufSize - 1) /\ SpaceAvail(pb) = BufSize - 1 - d
  BY Avail
<1>3. n \in 0..Len(s) /\ n \in 0..(BufSize - 1 - d) /\ Len(s) \in Nat
  <2>1. Len(s) \in Nat
    OBVIOUS
  <2> HIDE DEF d
  <2> QED
    BY <1>1, <1>2, <2>1 DEF PutCount, AtMost
<1> HIDE DEF n, d
<1>4. qb = [pb EXCEPT !.buf_buf = mem, !.buf_put = Advance(p, n)]
  BY DEF BufPut, n
<1>5. Advance(p, n) \in 0..(BufSize - 1)
  <2>1. n \in 0..BufSize
    BY <1>1, <1>2, <1>3
  <2> QED
    BY <1>1, <2>1, AdvanceRange
<1>6. mem \in [0..(BufSize - 1) -> Bytes]
  <2> SUFFICES ASSUME NEW i \in 0..(BufSize - 1)
               PROVE  (IF Back(i) < n THEN s[Back(i) + 1] ELSE pb.buf_buf[i]) \in Bytes
    OBVIOUS
  <2>1. pb.buf_buf[i] \in Bytes
    BY DEF Buffers
  <2>2. Back(i) \in Nat
    BY <1>1
  <2>3. Back(i) < n => Back(i) + 1 \in 1..Len(s)
    BY <1>3, <2>2
  <2>4. Back(i) < n => s[Back(i) + 1] \in Bytes
    <3> HIDE DEF Back
    <3> QED
      BY <2>3, ElementOfSeq
  <2> QED
    BY <2>1, <2>4, Zenon
<1>7. /\ qb \in Buffers /\ qb.buf_get = g /\ qb.buf_put = Advance(p, n)
      /\ qb.buf_buf = mem
  <2> HIDE DEF mem
  <2> QED
    BY <1>4, <1>5, <1>6 DEF Buffers
<1>8. DataAvail(qb) = d + n
  <2>1. DataAvail(qb) = IF Advance(p, n) >= g THEN Advance(p, n) - g
                        ELSE BufSize + Advance(p, n) - g
    BY <1>7, Avail
  <2> HIDE DEF g, p, qb
  <2> QED
    BY <1>1, <1>2, <1>3, <2>1 DEF Advance
<1>9. Content(qb) = Content(pb) \o SubSeq(s, 1, n)
  <2> DEFINE old == Content(pb)
             new == SubSeq(s, 1, n)
  <2> HIDE DEF qb, mem
  <2>1. /\ Content(pb) \in Seq(Bytes) /\ Len(Content(pb)) = d
        /\ Content(qb) \in Seq(Bytes) /\ Len(Content(qb)) = d + n
    BY <1>7, <1>8, ContentType DEF d
  <2>2. /\ SubSeq(s, 1, n) \in Seq(Bytes) /\ Len(SubSeq(s, 1, n)) = n
        /\ \A i \in 1..n : SubSeq(s, 1, n)[i] = s[i]
    <3>1. \A i \in 1..n : s[i] \in Bytes
      BY <1>3, ElementOfSeq
    <3> QED
      BY <1>3, <3>1, SubSeqProperties
  <2>3. /\ old \o new \in Seq(Bytes) /\ Len(old \o new) = d + n
        /\ \A i \in 1..(d + n) :
             (old \o new)[i] = IF i <= d THEN old[i] ELSE new[i - d]
    <3> HIDE DEF old, new
    <3> QED
      BY <2>1, <2>2, ConcatProperties DEF old, new
  <2>4. ASSUME NEW i \in 1..(d + n)
        PROVE  Content(qb)[i] = (old \o new)[i]
    <3>1. /\ Content(qb)[i] = mem[Advance(g, i - 1)]
          /\ i <= d => Content(pb)[i] = pb.buf_buf[Advance(g, i - 1)]
      BY <1>2, <1>7, <1>8 DEF Content, d
    <3>2. Advance(g, i - 1) \in 0..(BufSize - 1)
      <4>1. i - 1 \in 0..BufSize
        BY <1>1, <1>2, <1>3
      <4> QED
        BY <1>1, <4>1, AdvanceRange
    <3>3. IF i <= d THEN ~(Back(Advance(g, i - 1)) < n)
                    ELSE Back(Advance(g, i - 1)) = i - d - 1
      <4> HIDE DEF g, p
      <4> QED
        BY <1>1, <1>2, <1>3 DEF Advance
    <3>4. CASE i <= d
      <4>1. mem[Advance(g, i - 1)] = pb.buf_buf[Advance(g, i - 1)]
        <5> HIDE DEF Back
        <5> QED
          BY <3>2, <3>3, <3>4 DEF mem
      <4> QED
        BY <2>3, <3>1, <3>4, <4>1
    <3>5. CASE ~(i <= d)
      <4>1. i - d - 1 < n /\ i - d \in 1..n
        BY <1>2, <1>3, <3>5
      <4>2. mem[Advance(g, i - 1)] = s[Back(Advance(g, i - 1)) + 1]
        <5> HIDE DEF Back
        <5> QED
          BY <3>2, <3>3, <3>5, <4>1 DEF mem
      <4>3. Back(Advance(g, i - 1)) + 1 = i - d
        BY <1>2, <1>3, <3>3, <3>5
      <4> HIDE DEF Back
      <4> QED
        BY <2>2, <2>3, <3>1, <3>5, <4>1, <4>2, <4>3
    <3> QED
      BY <3>4, <3>5
  <2> HIDE DEF old, new
  <2> QED
    BY <1>2, <1>3, <2>1, <2>3, <2>4, SeqEqual DEF old, new
<1> QED
  BY <1>3, <1>7, <1>8, <1>9 DEF n, d

-----------------------------------------------------------------------------
LEMMA ClearEmpties ==
  ASSUME NEW pb \in Buffers
  PROVE  BufClear(pb) \in Buffers /\ DataAvail(BufClear(pb)) = 0
<1>1. BufClear(pb) \in Buffers /\ BufClear(pb).buf_get = BufClear(pb).buf_put
  BY DEF BufClear, Buffers
<1> QED
  BY <1>1, Avail DEF Buffers

LEMMA AllocatedEmpty ==
  Allocated \in Buffers /\ DataAvail(Allocated) = 0
<1>1. Allocated \in Buffers /\ Allocated.buf_get = 0 /\ Allocated.buf_put = 0
  BY BufferAssumption DEF Allocated, Buffers
<1> QED
  BY <1>1, Avail

-----------------------------------------------------------------------------

AtUser == {"detached", "closed", "open_read", "open_int", "ready", "send", "submit",
           "lines", "oops", "close", "kill", "drop"}
AtIoctl == {"idle", "lines", "wait", "asleep", "check"}
AtWrite == {"idle", "send", "submit"} \cup Ended
AtRead == {"idle"} \cup Ended

TypeOK ==
  /\ pc \in [Threads -> AtUser \cup AtIoctl \cup AtWrite]
  /\ pc["user"] \in AtUser /\ pc["ioctl"] \in AtIoctl
  /\ pc["write"] \in AtWrite /\ pc["read"] \in AtRead /\ pc["int"] \in AtRead
  /\ write_urb_in_use \in BOOLEAN /\ stalled \in BOOLEAN /\ plugged \in BOOLEAN
  /\ flight \subseteq Urbs

(* What the handlers of the two URBs that read do.                         *)
Listener == ReadDone \/ IntDone \/ \E u \in Urbs, s \in Ended : Complete(u, s)
-----------------------------------------------------------------------------
(* The other thread and those handlers leave the way of the bytes alone.   *)
LEMMA IoctlFrame ==
  ASSUME TypeOK, IoctlThread
  PROVE  /\ UNCHANGED <<write_vars, rate, flight, killing, plugged, deaf>>
         /\ pc' = [pc EXCEPT !["ioctl"] = pc'["ioctl"]]
         /\ pc'["ioctl"] \in AtIoctl
<1> USE DEF Goto, AtIoctl, TypeOK, Threads, write_vars, urb_vars, line_vars
<1>1. ASSUME NEW set \in SUBSET Outputs, NEW clear \in SUBSET Outputs, TiocmSet(set, clear)
      PROVE  /\ UNCHANGED <<write_vars, rate, flight, killing, plugged, deaf>>
             /\ pc' = [pc EXCEPT !["ioctl"] = "lines"]
  BY <1>1 DEF TiocmSet
<1>2. ASSUME SetControlLines("ioctl")
      PROVE  /\ UNCHANGED <<write_vars, rate, flight, killing, plugged, deaf>>
             /\ pc' = [pc EXCEPT !["ioctl"] = "idle"]
  BY <1>2 DEF SetControlLines
<1>3. ASSUME MiWait \/ MiSleep \/ MiTake \/ MiSignal
      PROVE  /\ UNCHANGED <<write_vars, rate, flight, killing, plugged, deaf>>
             /\ \E l \in AtIoctl : pc' = [pc EXCEPT !["ioctl"] = l]
  BY <1>3 DEF MiWait, MiSleep, MiTake, MiSignal
<1>4. ASSUME NEW mask \in SUBSET {1, 2, 4, 8}, MiCheck(mask)
      PROVE  /\ UNCHANGED <<write_vars, rate, flight, killing, plugged, deaf>>
             /\ \E l \in AtIoctl : pc' = [pc EXCEPT !["ioctl"] = l]
  BY <1>4 DEF MiCheck
<1>5. /\ UNCHANGED <<write_vars, rate, flight, killing, plugged, deaf>>
      /\ \E l \in AtIoctl : pc' = [pc EXCEPT !["ioctl"] = l]
  BY <1>1, <1>2, <1>3, <1>4 DEF IoctlThread
<1> QED
  BY <1>5

LEMMA ListenerFrame ==
  ASSUME TypeOK, Listener
  PROVE  /\ UNCHANGED <<write_vars, killing, plugged>>
         /\ \E u \in {"read", "int"}, l \in AtRead :
              /\ pc[u] # l /\ pc' = [pc EXCEPT ![u] = l]
              /\ pc[u] = "idle" => u \in flight
              /\ flight' \subseteq Urbs /\ flight' \ {u} = flight \ {u}
<1> USE DEF Goto, AtRead, TypeOK, Threads, Urbs, write_vars
<1>1. CASE ReadDone
  <2>1. UNCHANGED <<write_vars, killing, plugged>>
    BY <1>1 DEF ReadDone
  <2>2. pc["read"] \in Ended /\ pc' = [pc EXCEPT !["read"] = "idle"]
    BY <1>1 DEF ReadDone
  <2>3. flight' = flight \/ flight' = flight \cup {"read"}
    BY <1>1 DEF ReadDone, Again, Submit, Refused
  <2> QED
    BY <2>1, <2>2, <2>3 DEF Ended
<1>2. CASE IntDone
  <2>1. UNCHANGED <<write_vars, killing, plugged>>
    BY <1>2 DEF IntDone
  <2>2. pc["int"] \in Ended /\ pc' = [pc EXCEPT !["int"] = "idle"]
    BY <1>2 DEF IntDone
  <2>3. flight' = flight \/ flight' = flight \cup {"int"}
    BY <1>2 DEF IntDone, Again, Submit, Refused
  <2> QED
    BY <2>1, <2>2, <2>3 DEF Ended
<1>3. ASSUME NEW u \in Urbs, NEW s \in Ended, Complete(u, s)
      PROVE  /\ UNCHANGED <<write_vars, killing, plugged>>
             /\ u \in {"read", "int"} /\ u \in flight /\ pc[u] = "idle"
             /\ flight' = flight \ {u} /\ pc' = [pc EXCEPT ![u] = s]
  BY <1>3 DEF Complete, EndsWith
<1>4. ASSUME NEW u \in Urbs, NEW s \in Ended, Complete(u, s)
      PROVE  /\ UNCHANGED <<write_vars, killing, plugged>>
             /\ u \in {"read", "int"} /\ s \in AtRead
             /\ pc[u] # s /\ pc' = [pc EXCEPT ![u] = s]
             /\ pc[u] = "idle" => u \in flight
             /\ flight' \subseteq Urbs /\ flight' \ {u} = flight \ {u}
  BY <1>3, <1>4 DEF Ended
<1> QED
  BY <1>1, <1>2, <1>4 DEF Listener

(* What the user's thread does without a look at bytes or URBs.            *)
Settle == Attach \/ Open \/ (\E r \in Rates : SetTermios(r)) \/ SetControlLines("user") \/ Close

SettleMoves == {<<"detached", "closed">>, <<"closed", "open_read">>, <<"ready", "oops">>,
                <<"ready", "ready">>, <<"ready", "lines">>, <<"lines", "ready">>,
                <<"ready", "close">>}

LEMMA SettleFrame ==
  ASSUME TypeOK, Settle
  PROVE  /\ UNCHANGED <<write_vars, flight, killing, plugged, deaf>>
         /\ \E l \in AtUser : /\ pc' = [pc EXCEPT !["user"] = l]
                             /\ <<pc["user"], l>> \in SettleMoves
<1> USE DEF Goto, TypeOK, SettleMoves, AtUser, write_vars, line_vars, urb_vars
<1>1. ASSUME Attach \/ Close
      PROVE  /\ UNCHANGED <<write_vars, flight, killing, plugged, deaf>>
             /\ \E l \in AtUser : /\ pc' = [pc EXCEPT !["user"] = l]
                                 /\ <<pc["user"], l>> \in SettleMoves
  BY <1>1 DEF Attach, Close
<1>2. ASSUME Open
      PROVE  /\ UNCHANGED <<write_vars, flight, killing, plugged, deaf>>
             /\ pc["user"] = "closed" /\ pc' = [pc EXCEPT !["user"] = "open_read"]
  BY <1>2 DEF Open
<1>3. ASSUME NEW r \in Rates, SetTermios(r)
      PROVE  /\ UNCHANGED <<write_vars, flight, killing, plugged, deaf>>
             /\ pc["user"] = "ready"
             /\ \E l \in {"oops", "ready", "lines"} : pc' = [pc EXCEPT !["user"] = l]
  BY <1>3 DEF SetTermios
<1>4. ASSUME SetControlLines("user")
      PROVE  /\ UNCHANGED <<write_vars, flight, killing, plugged, deaf>>
             /\ pc["user"] = "lines" /\ pc' = [pc EXCEPT !["user"] = "ready"]
  BY <1>4 DEF SetControlLines
<1> QED
  BY <1>1, <1>2, <1>3, <1>4 DEF Settle

(* The submissions of open.                                                *)
LEMMA OpenFrame ==
  ASSUME TypeOK, NEW u \in Urbs, NEW here, NEW next, OpenSubmit(u, here, next)
  PROVE  /\ UNCHANGED <<write_vars, killing, plugged, deaf>>
         /\ pc["user"] = here
         /\ \/ /\ pc' = [pc EXCEPT !["user"] = next]
               /\ flight' = flight \cup {u}
            \/ /\ pc' = [pc EXCEPT !["user"] = "close"]
               /\ flight' = flight
BY DEF OpenSubmit, Submit, Refused, Goto, line_vars

(* The kills of close.                                                     *)
LEMMA KillFrame ==
  ASSUME TypeOK, NEW u \in Urbs, NEW next, CloseKill(u, next)
  PROVE  /\ UNCHANGED <<write_vars, flight, plugged, deaf>>
         /\ pc["user"] = "kill" /\ killing = {u} /\ AtRest(u) /\ killing' = next
         /\ pc' = [pc EXCEPT !["user"] = IF next = {} THEN "drop" ELSE "kill"]
BY DEF CloseKill, Goto

(* The end of a transfer of bytes.                                         *)
LEMMA WriteFrame ==
  ASSUME TypeOK, WriteDone
  PROVE  /\ UNCHANGED <<buf, accepted, wire, intact, stalled, killing, plugged, deaf>>
         /\ \/ /\ pc["write"] = "ok" /\ pc' = [pc EXCEPT !["write"] = "send"]
               /\ ~write_urb_in_use' /\ xfer' = <<>> /\ flight' = flight
            \/ /\ pc["write"] = "gone" /\ pc' = [pc EXCEPT !["write"] = "idle"]
               /\ ~write_urb_in_use' /\ xfer' = <<>> /\ flight' = flight
            \/ /\ pc["write"] \in {"proto", "error"} /\ pc' = [pc EXCEPT !["write"] = "idle"]
               /\ write_urb_in_use' = write_urb_in_use /\ xfer' = SubSeq(xfer, 1, 1)
               /\ "write" \notin flight /\ flight' = flight \cup {"write"}
            \/ /\ pc["write"] \in {"proto", "error"} /\ pc' = [pc EXCEPT !["write"] = "send"]
               /\ ~write_urb_in_use' /\ xfer' = <<>> /\ flight' = flight
BY DEF WriteDone, WriteAgain, WriteFreed, Submit, Refused, Goto, line_vars
-----------------------------------------------------------------------------
LEMMA TypeInit == Init => TypeOK
BY DEF Init, TypeOK, Threads, Urbs, AtUser, AtIoctl, AtWrite, AtRead

LEMMA TypeStep == TypeOK /\ [Next]_vars => TypeOK'
<1> SUFFICES ASSUME TypeOK, [Next]_vars PROVE TypeOK'
  OBVIOUS
<1> USE DEF Threads, Urbs, AtUser, AtIoctl, AtWrite, AtRead, write_vars
<1>1. CASE IoctlThread
  <2>1. /\ UNCHANGED <<write_vars, flight, plugged>>
        /\ \E l \in AtIoctl : pc' = [pc EXCEPT !["ioctl"] = l]
    BY <1>1, IoctlFrame
  <2> QED
    BY <2>1 DEF TypeOK
<1>2. CASE Listener
  <2>1. UNCHANGED <<write_vars, plugged>>
    BY <1>2, ListenerFrame
  <2>2. PICK u \in {"read", "int"}, l \in AtRead :
          pc' = [pc EXCEPT ![u] = l] /\ flight' \subseteq Urbs
    BY <1>2, ListenerFrame
  <2> QED
    BY <2>1, <2>2 DEF TypeOK
<1>3. CASE Settle
  <2>1. /\ UNCHANGED <<write_vars, flight, plugged>>
        /\ \E l \in AtUser : pc' = [pc EXCEPT !["user"] = l]
    BY <1>3, SettleFrame
  <2> QED
    BY <2>1 DEF TypeOK
<1>4. ASSUME NEW u \in Urbs, NEW here \in AtUser, NEW next \in AtUser,
             OpenSubmit(u, here, next)
      PROVE  TypeOK'
  <2>1. /\ UNCHANGED <<write_vars, plugged>> /\ flight' \subseteq flight \cup {u}
        /\ \E l \in AtUser : pc' = [pc EXCEPT !["user"] = l]
    BY <1>4, OpenFrame
  <2> QED
    BY <2>1 DEF TypeOK
<1>5. CASE CloseClear
  BY <1>5 DEF CloseClear, Goto, TypeOK
<1>6. ASSUME NEW n \in Bytes, Write(n) PROVE TypeOK'
  BY <1>6 DEF Write, Goto, TypeOK, urb_vars
<1>7. ASSUME NEW t \in {"user", "write"}, Send(t) PROVE TypeOK'
  BY <1>7, ZenonT(60) DEF Send, TakeTransfer, Return, Goto, TypeOK, urb_vars
<1>8. ASSUME NEW t \in {"user", "write"}, SendSubmit(t) PROVE TypeOK'
  <2>1. \E l \in {"ready", "idle"} :
          /\ pc' = [pc EXCEPT ![t] = l] /\ l = IF t = "user" THEN "ready" ELSE "idle"
    BY <1>8 DEF SendSubmit, Return, Goto
  <2>2. /\ flight' \subseteq flight \cup {"write"} /\ plugged' = plugged
        /\ write_urb_in_use' \in {write_urb_in_use, FALSE} /\ stalled' \in {stalled, TRUE}
    BY <1>8 DEF SendSubmit, Submit, Refused
  <2> QED
    BY <2>1, <2>2, ZenonT(60) DEF TypeOK
<1>9. ASSUME NEW u \in Urbs, NEW next \in SUBSET Urbs, CloseKill(u, next) PROVE TypeOK'
  <2>1. /\ UNCHANGED <<write_vars, flight, plugged>>
        /\ \E l \in AtUser : pc' = [pc EXCEPT !["user"] = l]
    BY <1>9, KillFrame
  <2> QED
    BY <2>1 DEF TypeOK
<1>10. CASE CloseDrop
  BY <1>10 DEF CloseDrop, Goto, TypeOK
<1>11. CASE WriteDone
  <2>1. /\ UNCHANGED <<stalled, plugged>> /\ flight' \subseteq flight \cup {"write"}
        /\ write_urb_in_use' = write_urb_in_use \/ ~write_urb_in_use'
        /\ \E l \in AtWrite : pc' = [pc EXCEPT !["write"] = l]
    BY <1>11, WriteFrame
  <2>2. write_urb_in_use' \in BOOLEAN
    BY <1>11 DEF WriteDone, WriteFreed, WriteAgain, TypeOK
  <2> QED
    BY <2>1, <2>2 DEF TypeOK
<1>12. ASSUME NEW s \in Ended, CompleteWrite(s) PROVE TypeOK'
  BY <1>12 DEF CompleteWrite, EndsWith, Goto, TypeOK
<1>13. CASE Unplug \/ UNCHANGED vars
  BY <1>13 DEF Unplug, vars, TypeOK, urb_vars
<1> QED
  BY <1>1, <1>2, <1>3, <1>4, <1>5, <1>6, <1>7, <1>8, <1>9, <1>10, <1>11, <1>12, <1>13
     DEF Next, UserThread, Handlers, External, Listener, Settle

(* The driver's threads, flags and URBs have their types throughout        *)
(* (ch34x.c).                                                              *)
THEOREM TypeCorrect == Spec => []TypeOK
BY TypeInit, TypeStep, PTL DEF Spec
-----------------------------------------------------------------------------
(* Who has write_urb.                                                      *)
HolderInv ==
  /\ write_urb_in_use <=>
       \/ "write" \in flight \/ pc["write"] \in Ended
       \/ pc["user"] = "submit" \/ pc["write"] = "submit"
  /\ "write" \in flight =>
       pc["write"] \notin Ended \cup {"submit"} /\ pc["user"] # "submit"
  /\ pc["user"] = "submit" => pc["write"] \notin Ended \cup {"submit"}

LEMMA HolderInit == Init => HolderInv
BY DEF Init, HolderInv, Threads, Urbs, Ended

LEMMA HolderStep == TypeOK /\ HolderInv /\ [Next]_vars => HolderInv'
<1> SUFFICES ASSUME TypeOK, HolderInv, [Next]_vars PROVE HolderInv'
  OBVIOUS
<1> USE DEF Threads, Urbs, Ended
<1>1. CASE IoctlThread
  <2>1. /\ UNCHANGED <<write_vars, flight>>
        /\ pc' = [pc EXCEPT !["ioctl"] = pc'["ioctl"]]
    BY <1>1, IoctlFrame
  <2> QED
    BY <2>1 DEF TypeOK, HolderInv, write_vars
<1>2. CASE Listener
  <2>1. UNCHANGED write_vars
    BY <1>2, ListenerFrame
  <2>2. PICK u \in {"read", "int"}, l \in AtRead :
          pc' = [pc EXCEPT ![u] = l] /\ flight' \ {u} = flight \ {u}
    BY <1>2, ListenerFrame
  <2>3. "write" \in flight' <=> "write" \in flight
    BY <2>2
  <2> QED
    BY <2>1, <2>2, <2>3 DEF TypeOK, HolderInv, write_vars
<1>3. CASE Settle
  <2>1. /\ UNCHANGED <<write_vars, flight>>
        /\ \E l \in AtUser : /\ pc' = [pc EXCEPT !["user"] = l]
                            /\ <<pc["user"], l>> \in SettleMoves
    BY <1>3, SettleFrame
  <2> QED
    BY <2>1 DEF TypeOK, HolderInv, write_vars, SettleMoves
<1>4. ASSUME NEW u \in {"read", "int"}, NEW here \in {"open_read", "open_int"},
             NEW next \in {"open_int", "ready"}, OpenSubmit(u, here, next)
      PROVE  HolderInv'
  <2>1. /\ UNCHANGED write_vars /\ flight' \ {u} = flight \ {u}
        /\ pc["user"] = here
        /\ \E l \in {"open_int", "ready", "close"} : pc' = [pc EXCEPT !["user"] = l]
    BY <1>4, OpenFrame
  <2>2. "write" \in flight' <=> "write" \in flight
    BY <2>1
  <2> QED
    BY <2>1, <2>2 DEF TypeOK, HolderInv, write_vars
<1>5. CASE CloseClear
  BY <1>5 DEF CloseClear, Goto, TypeOK, HolderInv
<1>6. ASSUME NEW n \in Bytes, Write(n) PROVE HolderInv'
  BY <1>6 DEF Write, Goto, TypeOK, HolderInv, urb_vars
<1>7. ASSUME NEW t \in {"user", "write"}, Send(t) PROVE HolderInv'
  <2>1. /\ pc[t] = "send" /\ flight' = flight
        /\ \/ /\ pc' = [pc EXCEPT ![t] = IF t = "user" THEN "ready" ELSE "idle"]
              /\ write_urb_in_use' = write_urb_in_use
           \/ /\ pc' = [pc EXCEPT ![t] = "submit"]
              /\ ~write_urb_in_use /\ write_urb_in_use'
    BY <1>7 DEF Send, TakeTransfer, Return, Goto, urb_vars, write_vars
  <2> QED
    BY <2>1 DEF TypeOK, HolderInv
<1>8. ASSUME NEW t \in {"user", "write"}, SendSubmit(t) PROVE HolderInv'
  <2>1. /\ pc[t] = "submit"
        /\ pc' = [pc EXCEPT ![t] = IF t = "user" THEN "ready" ELSE "idle"]
        /\ \/ flight' = flight \cup {"write"} /\ write_urb_in_use' = write_urb_in_use
           \/ flight' = flight /\ ~write_urb_in_use'
    BY <1>8 DEF SendSubmit, Return, Goto, Submit, Refused
  <2> QED
    BY <2>1 DEF TypeOK, HolderInv
<1>9. ASSUME NEW u \in Urbs, NEW next \in SUBSET Urbs, CloseKill(u, next) PROVE HolderInv'
  <2>1. /\ UNCHANGED <<write_vars, flight>> /\ pc["user"] = "kill"
        /\ \E l \in {"drop", "kill"} : pc' = [pc EXCEPT !["user"] = l]
    BY <1>9, KillFrame
  <2> QED
    BY <2>1 DEF TypeOK, HolderInv, write_vars
<1>10. CASE CloseDrop
  BY <1>10 DEF CloseDrop, Goto, TypeOK, HolderInv
<1>11. CASE WriteDone
  <2>1. \/ /\ pc["write"] \in Ended /\ ~write_urb_in_use' /\ flight' = flight
           /\ \E l \in {"send", "idle"} : pc' = [pc EXCEPT !["write"] = l]
        \/ /\ pc["write"] \in Ended /\ write_urb_in_use' = write_urb_in_use
           /\ flight' = flight \cup {"write"}
           /\ pc' = [pc EXCEPT !["write"] = "idle"]
    BY <1>11, WriteFrame
  <2> QED
    BY <2>1 DEF TypeOK, HolderInv
<1>12. ASSUME NEW s \in Ended, CompleteWrite(s) PROVE HolderInv'
  BY <1>12 DEF CompleteWrite, EndsWith, Goto, TypeOK, HolderInv
<1>13. CASE Unplug \/ UNCHANGED vars
  BY <1>13 DEF Unplug, vars, HolderInv, urb_vars, write_vars
<1> QED
  BY <1>1, <1>2, <1>3, <1>4, <1>5, <1>6, <1>7, <1>8, <1>9, <1>10, <1>11, <1>12, <1>13
     DEF Next, UserThread, Handlers, External, Listener, Settle

LEMMA HolderMeans == TypeOK /\ HolderInv => OneHolder
<1> SUFFICES ASSUME TypeOK, HolderInv PROVE OneHolder
  OBVIOUS
<1> USE DEF TypeOK, HolderInv, Holders, Ended
<1>1. CASE ~write_urb_in_use
  BY <1>1 DEF OneHolder
<1>2. CASE "write" \in flight
  <2>1. write_urb_in_use /\ Holders = {"flight"}
    BY <1>2
  <2> QED
    BY <2>1 DEF OneHolder
<1>3. CASE pc["write"] \in Ended
  <2>1. write_urb_in_use /\ Holders = {pc["write"]}
    BY <1>3
  <2> QED
    BY <2>1 DEF OneHolder
<1>4. CASE pc["user"] = "submit"
  <2>1. write_urb_in_use /\ Holders = {"user"}
    BY <1>4
  <2> QED
    BY <2>1 DEF OneHolder
<1>5. CASE pc["write"] = "submit"
  <2>1. write_urb_in_use /\ Holders = {"write"}
    BY <1>5
  <2> QED
    BY <2>1 DEF OneHolder
<1> QED
  BY <1>1, <1>2, <1>3, <1>4, <1>5

(* write_urb has one holder, though its flag is cleared outside the lock   *)
(* (ch34x.c:901, 1254, 1271).                                              *)
THEOREM OneHolderCorrect == Spec => []OneHolder
BY HolderInit, TypeInit, TypeStep, HolderStep, HolderMeans, PTL DEF Spec
-----------------------------------------------------------------------------
(* A function on 1..n is a sequence of length n.                           *)
LEMMA FunctionIsSeq ==
  ASSUME NEW n \in Nat, NEW S, NEW f \in [1..n -> S]
  PROVE  f \in Seq(S) /\ Len(f) = n
OBVIOUS

(* What a write does to the buffer.                                        *)
BufferInv == buf \in Buffers /\ accepted \in 0..MaxBytes

LEMMA WriteAppends ==
  ASSUME BufferInv, NEW n \in Bytes, Write(n)
  PROVE  \E k \in 0..n :
           /\ BufferInv' /\ accepted' = accepted + k
           /\ DataAvail(buf') = DataAvail(buf) + k
           /\ Content(buf') = Content(buf) \o [i \in 1..k |-> accepted + i]
<1> DEFINE s == [i \in 1..n |-> accepted + i]
           k == PutCount(buf, s)
<1>1. n \in Nat /\ accepted \in Nat /\ accepted + n <= MaxBytes /\ MaxBytes \in Nat
  BY DriverAssumption DEF BufferInv, Write
<1>2. s \in Seq(Bytes) /\ Len(s) = n
  <2>1. s \in [1..n -> Bytes]
    BY <1>1, DriverAssumption
  <2> QED
    BY <1>1, <2>1
<1>3. buf' = BufPut(buf, s) /\ accepted' = accepted + k
  BY DEF Write
<1>4. /\ k \in 0..n /\ BufPut(buf, s) \in Buffers
      /\ DataAvail(BufPut(buf, s)) = DataAvail(buf) + k
      /\ Content(BufPut(buf, s)) = Content(buf) \o SubSeq(s, 1, k)
  <2> HIDE DEF s
  <2> QED
    BY <1>2, PutAppends DEF BufferInv
<1>5. SubSeq(s, 1, k) = [i \in 1..k |-> accepted + i]
  <2> HIDE DEF k
  <2>1. \A i \in 1..k : s[i] \in Bytes /\ s[i] = accepted + i
    BY <1>1, <1>4, DriverAssumption
  <2>2. /\ SubSeq(s, 1, k) \in Seq(Bytes) /\ Len(SubSeq(s, 1, k)) = k
        /\ \A i \in 1..k : SubSeq(s, 1, k)[i] = s[i]
    <3> HIDE DEF s
    <3> QED
      BY <1>1, <1>4, <2>1, SubSeqProperties
  <2>3. [i \in 1..k |-> accepted + i] \in [1..k -> Bytes]
    BY <1>1, <1>4, DriverAssumption
  <2>4. [i \in 1..k |-> accepted + i] \in Seq(Bytes) /\ Len([i \in 1..k |-> accepted + i]) = k
    <3>1. k \in Nat
      BY <1>1, <1>4
    <3> HIDE DEF s
    <3> QED
      BY <3>1, <2>3, FunctionIsSeq
  <2> HIDE DEF s
  <2> QED
    BY <2>1, <2>2, <2>4, SeqEqual
<1> HIDE DEF s, k
<1>6. BufferInv'
  BY <1>1, <1>3, <1>4 DEF BufferInv
<1> QED
  BY <1>3, <1>4, <1>5, <1>6

(* What a send takes out of it.                                            *)
LEMMA SendTakes ==
  ASSUME BufferInv, NEW t \in {"user", "write"}, Send(t)
  PROVE  /\ pc[t] = "send" /\ UNCHANGED <<accepted, wire, intact, line_vars, urb_vars>>
         /\ \/ /\ UNCHANGED write_vars
               /\ write_urb_in_use \/ DataAvail(buf) = 0
               /\ pc' = [pc EXCEPT ![t] = IF t = "user" THEN "ready" ELSE "idle"]
            \/ /\ ~write_urb_in_use /\ DataAvail(buf) # 0
               /\ write_urb_in_use' /\ ~stalled'
               /\ pc' = [pc EXCEPT ![t] = "submit"]
               /\ \E n \in 1..DataAvail(buf) :
                    /\ xfer' = SubSeq(Content(buf), 1, n)
                    /\ Content(buf') = SubSeq(Content(buf), n + 1, DataAvail(buf))
               /\ buf' \in Buffers
<1>1. CASE write_urb_in_use \/ DataAvail(buf) = 0
  BY <1>1 DEF Send, Return, Goto, write_vars
<1>2. CASE ~(write_urb_in_use \/ DataAvail(buf) = 0)
  <2>1. /\ TakeTransfer(t) /\ pc[t] = "send" /\ UNCHANGED <<line_vars, urb_vars>>
    BY <1>2 DEF Send
  <2>2. /\ xfer' = BufTaken(buf, BulkOut) /\ buf' = BufGet(buf, BulkOut)
        /\ write_urb_in_use' = TRUE /\ stalled' = FALSE
        /\ pc' = [pc EXCEPT ![t] = "submit"] /\ UNCHANGED <<accepted, wire, intact>>
    BY <2>1 DEF TakeTransfer, Goto
  <2> DEFINE n == AtMost(BulkOut, DataAvail(buf))
  <2>3. DataAvail(buf) \in Nat
    BY Avail, BufferAssumption DEF BufferInv
  <2>4. n \in 1..DataAvail(buf)
    BY <1>2, <2>3, DriverAssumption DEF AtMost
  <2>5. /\ BufGet(buf, BulkOut) \in Buffers
        /\ BufTaken(buf, BulkOut) = SubSeq(Content(buf), 1, n)
        /\ Content(BufGet(buf, BulkOut)) = SubSeq(Content(buf), n + 1, DataAvail(buf))
    BY GetSplits, DriverAssumption DEF BufferInv
  <2> HIDE DEF n
  <2> QED
    BY <1>2, <2>1, <2>2, <2>4, <2>5
<1> QED
  BY <1>1, <1>2

(* The end of a session.  AtRest holds of the URBs that have been killed,  *)
(* or not yet submitted.                                                   *)
Shut == {"drop", "closed", "detached", "open_read", "open_int"}

QuietInv ==
  /\ BufferInv
  /\ killing \in {{}, {"int"}, {"read"}, {"write"}}
  /\ killing = {} <=> pc["user"] # "kill"
  /\ pc["user"] \in Shut \cup {"kill"} => DataAvail(buf) = 0
  /\ pc["user"] \in Shut => AtRest("write")
  /\ pc["user"] \in Shut \ {"open_int"} \/ killing = {"write"} => AtRest("read")
  /\ pc["user"] \in Shut \/ killing \in {{"read"}, {"write"}} => AtRest("int")

LEMMA QuietInit == Init => QuietInv
BY AllocatedEmpty, DriverAssumption
   DEF Init, QuietInv, BufferInv, Shut, AtRest, Threads, Urbs

LEMMA QuietStep == TypeOK /\ QuietInv /\ [Next]_vars => QuietInv'
<1> SUFFICES ASSUME TypeOK, QuietInv, [Next]_vars PROVE QuietInv'
  OBVIOUS
<1> USE DEF Threads, Urbs, Ended, AtRest, Shut
<1>1. CASE IoctlThread
  <2>1. /\ UNCHANGED <<write_vars, flight, killing>>
        /\ pc' = [pc EXCEPT !["ioctl"] = pc'["ioctl"]]
    BY <1>1, IoctlFrame
  <2> QED
    BY <2>1 DEF TypeOK, QuietInv, BufferInv, write_vars
<1>2. CASE Listener
  <2>1. UNCHANGED <<write_vars, killing>>
    BY <1>2, ListenerFrame
  <2>2. PICK u \in {"read", "int"}, l \in AtRead :
          /\ pc' = [pc EXCEPT ![u] = l] /\ flight' \ {u} = flight \ {u}
          /\ pc[u] = "idle" => u \in flight
    BY <1>2, ListenerFrame
  <2>3. /\ ~AtRest(u) /\ pc'["user"] = pc["user"]
        /\ \A x \in Urbs \ {u} : AtRest(x)' <=> AtRest(x)
    BY <2>2 DEF TypeOK
  <2> HIDE DEF AtRest
  <2> QED
    BY <2>1, <2>3 DEF QuietInv, BufferInv, write_vars
<1>3. CASE Settle
  <2>1. /\ UNCHANGED <<write_vars, flight, killing>>
        /\ \E l \in AtUser : /\ pc' = [pc EXCEPT !["user"] = l]
                            /\ <<pc["user"], l>> \in SettleMoves
    BY <1>3, SettleFrame
  <2> QED
    BY <2>1 DEF TypeOK, QuietInv, BufferInv, write_vars, SettleMoves
<1>4. CASE OpenSubmit("read", "open_read", "open_int")
  <2>1. /\ UNCHANGED <<write_vars, killing>> /\ pc["user"] = "open_read"
        /\ flight' \in {flight, flight \cup {"read"}}
        /\ \E l \in {"open_int", "close"} : pc' = [pc EXCEPT !["user"] = l]
    BY <1>4, OpenFrame
  <2> QED
    BY <2>1 DEF TypeOK, QuietInv, BufferInv, write_vars
<1>5. CASE OpenSubmit("int", "open_int", "ready")
  <2>1. /\ UNCHANGED <<write_vars, killing>> /\ pc["user"] = "open_int"
        /\ \E l \in {"ready", "close"} : pc' = [pc EXCEPT !["user"] = l]
    BY <1>5, OpenFrame
  <2> QED
    BY <2>1 DEF TypeOK, QuietInv, BufferInv, write_vars
<1>6. CASE CloseClear
  <2>1. /\ buf' = BufClear(buf) /\ killing' = {"int"} /\ accepted' = accepted
        /\ pc' = [pc EXCEPT !["user"] = "kill"] /\ flight' = flight
    BY <1>6 DEF CloseClear, Goto
  <2>2. buf' \in Buffers /\ DataAvail(buf') = 0
    BY <2>1, ClearEmpties DEF QuietInv, BufferInv
  <2> QED
    BY <2>1, <2>2 DEF TypeOK, QuietInv, BufferInv
<1>7. ASSUME NEW n \in Bytes, Write(n) PROVE QuietInv'
  <2>1. BufferInv'
    BY <1>7, WriteAppends DEF QuietInv
  <2>2. /\ pc["user"] = "ready" /\ pc' = [pc EXCEPT !["user"] = "send"]
        /\ UNCHANGED <<killing, flight>>
    BY <1>7 DEF Write, Goto, urb_vars
  <2> QED
    BY <2>1, <2>2 DEF TypeOK, QuietInv
<1>8. ASSUME NEW t \in {"user", "write"}, Send(t) PROVE QuietInv'
  <2>0. BufferInv
    BY DEF QuietInv
  <2>1. /\ pc[t] = "send" /\ UNCHANGED <<accepted, killing, flight>>
        /\ \/ buf' = buf
           \/ buf' \in Buffers /\ DataAvail(buf) # 0
        /\ \E l \in {"ready", "idle", "submit"} :
             pc' = [pc EXCEPT ![t] = l] /\ (t = "user" => l # "idle")
    <3>1. /\ pc[t] = "send" /\ UNCHANGED <<accepted, killing, flight>>
      BY <1>8, <2>0, SendTakes DEF urb_vars
    <3>2. \/ /\ UNCHANGED write_vars
             /\ pc' = [pc EXCEPT ![t] = IF t = "user" THEN "ready" ELSE "idle"]
          \/ /\ DataAvail(buf) # 0 /\ buf' \in Buffers
             /\ pc' = [pc EXCEPT ![t] = "submit"]
      BY <1>8, <2>0, SendTakes
    <3> HIDE DEF AtRest, Shut
    <3> QED
      BY <3>1, <3>2 DEF write_vars
  <2> QED
    BY <2>1 DEF TypeOK, QuietInv, BufferInv
<1>9. ASSUME NEW t \in {"user", "write"}, SendSubmit(t) PROVE QuietInv'
  <2>1. /\ pc[t] = "submit" /\ UNCHANGED <<buf, accepted, killing>>
        /\ pc' = [pc EXCEPT ![t] = IF t = "user" THEN "ready" ELSE "idle"]
        /\ flight' \in {flight, flight \cup {"write"}}
    BY <1>9 DEF SendSubmit, Return, Goto, Submit, Refused
  <2> QED
    BY <2>1 DEF TypeOK, QuietInv, BufferInv
<1>10. CASE CloseKill("int", {"read"})
  <2>1. /\ UNCHANGED <<write_vars, flight>> /\ pc["user"] = "kill" /\ AtRest("int")
        /\ killing' = {"read"} /\ pc' = [pc EXCEPT !["user"] = "kill"]
    BY <1>10, KillFrame
  <2> QED
    BY <2>1 DEF TypeOK, QuietInv, BufferInv, write_vars
<1>11. CASE CloseKill("read", {"write"})
  <2>1. /\ UNCHANGED <<write_vars, flight>> /\ pc["user"] = "kill" /\ AtRest("read")
        /\ killing = {"read"}
        /\ killing' = {"write"} /\ pc' = [pc EXCEPT !["user"] = "kill"]
    BY <1>11, KillFrame
  <2> QED
    BY <2>1 DEF TypeOK, QuietInv, BufferInv, write_vars
<1>12. CASE CloseKill("write", {})
  <2>1. /\ UNCHANGED <<write_vars, flight>> /\ pc["user"] = "kill" /\ AtRest("write")
        /\ killing = {"write"}
        /\ killing' = {} /\ pc' = [pc EXCEPT !["user"] = "drop"]
    BY <1>12, KillFrame
  <2> QED
    BY <2>1 DEF TypeOK, QuietInv, BufferInv, write_vars
<1>13. CASE CloseDrop
  <2>1. /\ pc["user"] = "drop" /\ pc' = [pc EXCEPT !["user"] = "closed"]
        /\ UNCHANGED <<buf, accepted, flight, killing>>
    BY <1>13 DEF CloseDrop, Goto
  <2> QED
    BY <2>1 DEF TypeOK, QuietInv, BufferInv
<1>14. CASE WriteDone
  <2>1. /\ UNCHANGED <<buf, accepted, killing>>
        /\ pc["write"] \in Ended /\ flight' \in {flight, flight \cup {"write"}}
        /\ \E l \in {"send", "idle"} : pc' = [pc EXCEPT !["write"] = l]
    BY <1>14, WriteFrame
  <2> QED
    BY <2>1 DEF TypeOK, QuietInv, BufferInv
<1>15. ASSUME NEW s \in Ended, CompleteWrite(s) PROVE QuietInv'
  <2>1. /\ UNCHANGED <<buf, accepted, killing>> /\ "write" \in flight
        /\ flight' = flight \ {"write"} /\ pc' = [pc EXCEPT !["write"] = s]
    BY <1>15 DEF CompleteWrite, EndsWith, Goto
  <2> QED
    BY <2>1 DEF TypeOK, QuietInv, BufferInv
<1>16. CASE Unplug \/ UNCHANGED vars
  <2>1. UNCHANGED <<buf, accepted, killing, flight, pc>>
    BY <1>16 DEF Unplug, vars, urb_vars, write_vars
  <2> QED
    BY <2>1 DEF QuietInv, BufferInv
<1> QED
  BY <1>1, <1>2, <1>3, <1>4, <1>5, <1>6, <1>7, <1>8, <1>9, <1>10, <1>11, <1>12, <1>13,
     <1>14, <1>15, <1>16 DEF Next, UserThread, Handlers, External, Listener, Settle

(* Once close has returned nothing moves, and the next open finds the port *)
(* free (ch34x.c:618-635).                                                 *)
THEOREM QuietCorrect == Spec => []QuietWhenClosed
<1>1. TypeOK /\ HolderInv /\ QuietInv => QuietWhenClosed
  <2> SUFFICES ASSUME TypeOK, HolderInv, QuietInv, pc["user"] \in {"closed", "drop"}
               PROVE  (\A u \in Urbs : AtRest(u)) /\ killing = {}
                      /\ ~write_urb_in_use /\ DataAvail(buf) = 0
    BY DEF QuietWhenClosed
  <2>1. AtRest("write") /\ AtRest("read") /\ AtRest("int") /\ killing = {} /\ DataAvail(buf) = 0
    BY DEF QuietInv, Shut
  <2>2. ~write_urb_in_use
    BY <2>1 DEF HolderInv, AtRest, Ended
  <2> QED
    BY <2>1, <2>2 DEF Urbs
<1> QED
  BY <1>1, HolderInit, QuietInit, TypeInit, TypeStep, HolderStep, QuietStep, PTL DEF Spec
-----------------------------------------------------------------------------
(* What leaves the bytes, and the way they take, alone.                    *)
Elsewhere ==
  \/ IoctlThread \/ Listener \/ Settle
  \/ OpenSubmit("read", "open_read", "open_int") \/ OpenSubmit("int", "open_int", "ready")
  \/ CloseKill("int", {"read"}) \/ CloseKill("read", {"write"}) \/ CloseKill("write", {})
  \/ Unplug \/ UNCHANGED vars

LEMMA ElsewhereFrame ==
  ASSUME TypeOK, Elsewhere
  PROVE  /\ UNCHANGED write_vars /\ (plugged' => plugged)
         /\ pc'["write"] = pc["write"] /\ ("write" \in flight' <=> "write" \in flight)
         /\ \/ pc'["user"] = pc["user"]
            \/ pc["user"] \notin {"send", "submit", "close"} /\ pc'["user"] # "submit"
         /\ pc["write"] # "idle" /\ killing = {"write"} => killing' = killing
<1> USE DEF Threads, Urbs
<1>1. CASE IoctlThread
  <2>1. /\ UNCHANGED <<write_vars, flight, plugged, killing>>
        /\ pc' = [pc EXCEPT !["ioctl"] = pc'["ioctl"]]
    BY <1>1, IoctlFrame
  <2> QED
    BY <2>1 DEF TypeOK
<1>2. CASE Listener
  <2>1. UNCHANGED <<write_vars, plugged, killing>>
    BY <1>2, ListenerFrame
  <2>2. PICK u \in {"read", "int"}, l \in AtRead :
          pc' = [pc EXCEPT ![u] = l] /\ flight' \ {u} = flight \ {u}
    BY <1>2, ListenerFrame
  <2>3. "write" \in flight' <=> "write" \in flight
    BY <2>2
  <2> QED
    BY <2>1, <2>2, <2>3 DEF TypeOK
<1>3. CASE Settle
  <2>1. /\ UNCHANGED <<write_vars, flight, plugged, killing>>
        /\ \E l \in AtUser : /\ pc' = [pc EXCEPT !["user"] = l]
                            /\ <<pc["user"], l>> \in SettleMoves
    BY <1>3, SettleFrame
  <2> QED
    BY <2>1 DEF TypeOK, SettleMoves
<1>4. ASSUME NEW u \in {"read", "int"}, NEW here \in {"open_read", "open_int"},
             NEW next \in {"open_int", "ready"}, OpenSubmit(u, here, next)
      PROVE  /\ UNCHANGED <<write_vars, plugged, killing>>
             /\ pc'["write"] = pc["write"] /\ ("write" \in flight' <=> "write" \in flight)
             /\ pc["user"] \notin {"send", "submit", "close"} /\ pc'["user"] # "submit"
  <2>1. /\ UNCHANGED <<write_vars, plugged, killing>> /\ flight' \ {u} = flight \ {u}
        /\ pc["user"] = here
        /\ \E l \in {"open_int", "ready", "close"} : pc' = [pc EXCEPT !["user"] = l]
    BY <1>4, OpenFrame
  <2>2. "write" \in flight' <=> "write" \in flight
    BY <2>1
  <2> QED
    BY <2>1, <2>2 DEF TypeOK
<1>5. ASSUME NEW u \in Urbs, NEW next \in SUBSET Urbs, CloseKill(u, next)
      PROVE  /\ UNCHANGED <<write_vars, flight, plugged>> /\ pc'["write"] = pc["write"]
             /\ pc["user"] = "kill" /\ pc'["user"] # "submit"
             /\ pc["write"] # "idle" => killing # {"write"}
  <2>1. /\ UNCHANGED <<write_vars, flight, plugged>> /\ pc["user"] = "kill"
        /\ killing = {u} /\ AtRest(u)
        /\ \E l \in {"drop", "kill"} : pc' = [pc EXCEPT !["user"] = l]
    BY <1>5, KillFrame
  <2> QED
    BY <2>1 DEF TypeOK, AtRest
<1>6. CASE Unplug \/ UNCHANGED vars
  BY <1>6 DEF Unplug, vars, urb_vars
<1> QED
  BY <1>1, <1>2, <1>3, <1>4, <1>5, <1>6 DEF Elsewhere

(* A transfer of bytes ends with "gone" when it is killed or unplugged.    *)
StrandInv ==
  /\ NotStranded
  /\ pc["write"] = "gone" => ~plugged \/ killing = {"write"}

LEMMA StrandStep ==
  ASSUME TypeOK, HolderInv, QuietInv, QuietInv', StrandInv, [Next]_vars
  PROVE  StrandInv'
<1> USE DEF Threads, Urbs, Ended
<1>0. /\ pc["user"] \in {"closed", "drop", "kill"} => DataAvail(buf) = 0
      /\ pc'["user"] \in {"closed", "drop", "kill"} => DataAvail(buf') = 0
      /\ killing \in {{}, {"int"}, {"read"}, {"write"}}
      /\ killing = {} <=> pc["user"] # "kill"
      /\ BufferInv
  BY DEF QuietInv, Shut
<1>1. CASE Elsewhere
  <2>1. /\ UNCHANGED <<buf, write_urb_in_use, stalled>> /\ (plugged' => plugged)
        /\ pc'["write"] = pc["write"]
        /\ pc'["user"] = pc["user"] \/ pc["user"] \notin {"send", "submit", "close"}
        /\ pc["write"] # "idle" /\ killing = {"write"} => killing' = killing
    BY <1>1, ElsewhereFrame DEF write_vars
  <2>2. NotStranded'
    BY <2>1 DEF TypeOK, StrandInv, NotStranded
  <2>3. pc'["write"] = "gone" => ~plugged' \/ killing' = {"write"}
    BY <2>1 DEF TypeOK, StrandInv
  <2> QED
    BY <2>2, <2>3 DEF StrandInv
<1>2. CASE CloseClear
  <2>1. /\ pc["user"] = "close" /\ pc' = [pc EXCEPT !["user"] = "kill"]
        /\ UNCHANGED <<plugged>>
    BY <1>2 DEF CloseClear, Goto
  <2> QED
    BY <1>0, <2>1 DEF TypeOK, StrandInv, NotStranded
<1>3. ASSUME NEW n \in Bytes, Write(n) PROVE StrandInv'
  <2>1. pc' = [pc EXCEPT !["user"] = "send"] /\ UNCHANGED <<plugged, killing>>
    BY <1>3 DEF Write, Goto, urb_vars
  <2> QED
    BY <2>1 DEF TypeOK, StrandInv, NotStranded
<1>4. ASSUME NEW t \in {"user", "write"}, Send(t) PROVE StrandInv'
  <2>1. /\ pc[t] = "send" /\ UNCHANGED <<killing, plugged>>
    BY <1>0, <1>4, SendTakes DEF urb_vars
  <2>2. \/ /\ UNCHANGED write_vars /\ (write_urb_in_use \/ DataAvail(buf) = 0)
           /\ pc' = [pc EXCEPT ![t] = IF t = "user" THEN "ready" ELSE "idle"]
        \/ write_urb_in_use' /\ pc' = [pc EXCEPT ![t] = "submit"]
    BY <1>0, <1>4, SendTakes
  <2> QED
    BY <2>1, <2>2 DEF TypeOK, StrandInv, NotStranded, write_vars
<1>5. ASSUME NEW t \in {"user", "write"}, SendSubmit(t) PROVE StrandInv'
  <2>1. /\ pc[t] = "submit" /\ UNCHANGED <<buf, killing, plugged>>
        /\ pc' = [pc EXCEPT ![t] = IF t = "user" THEN "ready" ELSE "idle"]
        /\ write_urb_in_use' = write_urb_in_use \/ stalled'
    BY <1>5 DEF SendSubmit, Return, Goto
  <2> QED
    BY <2>1 DEF TypeOK, HolderInv, StrandInv, NotStranded
<1>6. CASE CloseDrop
  <2>1. pc' = [pc EXCEPT !["user"] = "closed"] /\ UNCHANGED <<killing, plugged>>
    BY <1>6 DEF CloseDrop, Goto
  <2> QED
    BY <1>0, <2>1 DEF TypeOK, StrandInv, NotStranded
<1>7. CASE WriteDone
  <2>1. /\ UNCHANGED <<buf, stalled, killing, plugged>> /\ pc["write"] \in Ended
        /\ \/ pc' = [pc EXCEPT !["write"] = "send"]
           \/ pc["write"] = "gone" /\ pc' = [pc EXCEPT !["write"] = "idle"]
           \/ /\ write_urb_in_use' = write_urb_in_use
              /\ pc' = [pc EXCEPT !["write"] = "idle"]
    BY <1>7, WriteFrame
  <2> QED
    BY <1>0, <2>1 DEF TypeOK, HolderInv, StrandInv, NotStranded
<1>8. ASSUME NEW s \in Ended, CompleteWrite(s) PROVE StrandInv'
  <2>1. /\ UNCHANGED <<buf, write_urb_in_use, stalled, killing, plugged>>
        /\ "write" \in flight /\ pc' = [pc EXCEPT !["write"] = s]
        /\ s = "gone" => "write" \in killing \/ ~plugged
    BY <1>8 DEF CompleteWrite, EndsWith, Goto
  <2>2. "write" \in killing => killing = {"write"}
    BY <1>0
  <2> QED
    BY <2>1, <2>2 DEF TypeOK, HolderInv, StrandInv, NotStranded
<1> QED
  BY <1>1, <1>2, <1>3, <1>4, <1>5, <1>6, <1>7, <1>8
     DEF Next, UserThread, Handlers, External, Listener, Settle, Elsewhere

(* No byte waits in the buffer without somebody to send it: ch34x_send     *)
(* looks at write_urb_in_use, and the handler calls it when the transfer   *)
(* is done (ch34x.c:871-906, 1271-1274).                                   *)
THEOREM NotStrandedCorrect == Spec => []NotStranded
<1>1. Init => StrandInv
  <2> SUFFICES ASSUME Init PROVE StrandInv
    OBVIOUS
  <2>1. DataAvail(buf) = 0 /\ pc["write"] = "idle"
    BY AllocatedEmpty DEF Init, Threads, Urbs
  <2> QED
    BY <2>1 DEF StrandInv, NotStranded
<1>2. StrandInv => NotStranded
  BY DEF StrandInv
<1> QED
  BY <1>1, <1>2, HolderInit, QuietInit, TypeInit, TypeStep, HolderStep, QuietStep,
     StrandStep, PTL DEF Spec
-----------------------------------------------------------------------------
(* A transfer x of m bytes and a buffer h of n, when the bytes up to w are *)
(* sent and those up to a accepted: each byte is later than those before,  *)
(* and while nothing has befallen them, there is no gap.                   *)
Ordered(x, m, h, n, w, a) ==
  /\ \A i, j \in 1..m : i < j => x[i] < x[j]
  /\ \A i, j \in 1..n : i < j => h[i] < h[j]
  /\ \A i \in 1..m, j \in 1..n : x[i] < h[j]
  /\ \A i \in 1..m : x[i] <= a
  /\ \A j \in 1..n : w < h[j] /\ h[j] <= a

Whole(x, m, h, n, w, a) ==
  /\ m + n = a - w
  /\ \A i \in 1..m : x[i] = w + i
  /\ \A j \in 1..n : h[j] = w + m + j

(* ch34x_buf_put of k bytes.                                               *)
LEMMA AppendOrdered ==
  ASSUME NEW m \in Nat, NEW n \in Nat, NEW x \in [1..m -> Nat], NEW h \in [1..n -> Nat],
         NEW w \in Nat, NEW a \in Nat, w <= a, NEW k \in Nat, NEW g \in [1..(n + k) -> Nat],
         \A j \in 1..n : g[j] = h[j], \A j \in 1..k : g[n + j] = a + j
  PROVE  /\ Ordered(x, m, h, n, w, a) => Ordered(x, m, g, n + k, w, a + k)
         /\ Whole(x, m, h, n, w, a) => Whole(x, m, g, n + k, w, a + k)
<1>1. \A j \in 1..(n + k) : \/ j \in 1..n /\ g[j] = h[j]
                            \/ j \in (n + 1)..(n + k) /\ g[j] = a + (j - n)
  <2> TAKE j \in 1..(n + k)
  <2>1. CASE j <= n
    BY <2>1
  <2>2. CASE n < j
    <3>1. j - n \in 1..k /\ n + (j - n) = j
      BY <2>2
    <3>2. g[n + (j - n)] = a + (j - n)
      BY <3>1
    <3> QED
      BY <2>2, <3>1, <3>2
  <2> QED
    BY <2>1, <2>2
<1>2. ASSUME Ordered(x, m, h, n, w, a) PROVE Ordered(x, m, g, n + k, w, a + k)
  <2>1. ASSUME NEW i \in 1..(n + k), NEW j \in 1..(n + k), i < j PROVE g[i] < g[j]
    <3>1. CASE j <= n
      <4>1. i \in 1..n /\ j \in 1..n /\ h[i] < h[j]
        BY <3>1, <2>1, <1>2 DEF Ordered
      <4> QED
        BY <4>1
    <3>2. CASE i <= n /\ n < j
      <4>1. i \in 1..n /\ g[i] = h[i] /\ h[i] <= a /\ h[i] \in Nat
        BY <3>2, <1>2 DEF Ordered
      <4>2. g[j] = a + (j - n)
        BY <3>2, <1>1
      <4> QED
        BY <3>2, <4>1, <4>2
    <3>3. CASE n < i
      <4>1. g[i] = a + (i - n) /\ g[j] = a + (j - n)
        BY <3>3, <2>1, <1>1
      <4> QED
        BY <2>1, <4>1
    <3> QED
      BY <2>1, <3>1, <3>2, <3>3
  <2>2. \A i \in 1..m, j \in 1..(n + k) : x[i] < g[j]
    BY <1>1, <1>2 DEF Ordered
  <2>3. \A i \in 1..m : x[i] <= a + k
    BY <1>2 DEF Ordered
  <2>4. ASSUME NEW j \in 1..(n + k) PROVE w < g[j] /\ g[j] <= a + k
    <3>1. CASE j \in 1..n /\ g[j] = h[j]
      <4>1. w < h[j] /\ h[j] <= a /\ h[j] \in Nat
        BY <3>1, <1>2 DEF Ordered
      <4> QED
        BY <3>1, <4>1
    <3>2. CASE j \in (n + 1)..(n + k) /\ g[j] = a + (j - n)
      BY <3>2
    <3> QED
      BY <1>1, <3>1, <3>2
  <2> QED
    BY <1>2, <2>1, <2>2, <2>3, <2>4 DEF Ordered
<1>3. ASSUME Whole(x, m, h, n, w, a) PROVE Whole(x, m, g, n + k, w, a + k)
  <2>1. a = w + m + n /\ m + (n + k) = (a + k) - w
    BY <1>3 DEF Whole
  <2>2. \A j \in 1..n : h[j] = w + m + j
    BY <1>3 DEF Whole
  <2>3. \A j \in 1..(n + k) : g[j] = w + m + j
    <3> TAKE j \in 1..(n + k)
    <3>1. CASE j <= n
      <4>1. j \in 1..n
        BY <3>1
      <4> QED
        BY <4>1, <2>2
    <3>2. CASE n < j
      <4>1. g[j] = a + (j - n)
        BY <3>2, <1>1
      <4> QED
        BY <4>1, <2>1
    <3> QED
      BY <3>1, <3>2
  <2> QED
    BY <1>3, <2>1, <2>3 DEF Whole
<1> QED
  BY <1>2, <1>3

(* ch34x_buf_get of m bytes into an empty transfer.                        *)
LEMMA TakeOrdered ==
  ASSUME NEW m \in Nat, NEW n \in Nat, m <= n, NEW e, NEW h \in [1..n -> Nat],
         NEW w \in Nat, NEW a \in Nat, NEW x \in [1..m -> Nat], NEW g \in [1..(n - m) -> Nat],
         \A i \in 1..m : x[i] = h[i], \A j \in 1..(n - m) : g[j] = h[m + j]
  PROVE  /\ Ordered(e, 0, h, n, w, a) => Ordered(x, m, g, n - m, w, a)
         /\ Whole(e, 0, h, n, w, a) => Whole(x, m, g, n - m, w, a)
<1>1. \A j \in 1..(n - m) : m + j \in 1..n
  OBVIOUS
<1>2. \A i \in 1..m : i \in 1..n
  OBVIOUS
<1>3. ASSUME Ordered(e, 0, h, n, w, a) PROVE Ordered(x, m, g, n - m, w, a)
  <2>1. /\ \A i, j \in 1..n : i < j => h[i] < h[j]
        /\ \A j \in 1..n : w < h[j] /\ h[j] <= a
    BY <1>3 DEF Ordered
  <2>2. /\ \A i, j \in 1..m : i < j => x[i] < x[j]
        /\ \A i \in 1..m : x[i] <= a
    BY <1>2, <2>1
  <2>3. /\ \A i, j \in 1..(n - m) : i < j => g[i] < g[j]
        /\ \A j \in 1..(n - m) : w < g[j] /\ g[j] <= a
    <3>1. \A i, j \in 1..(n - m) : i < j => m + i < m + j
      OBVIOUS
    <3> QED
      BY <1>1, <2>1, <3>1
  <2>4. \A i \in 1..m, j \in 1..(n - m) : x[i] < g[j]
    <3>1. \A i \in 1..m, j \in 1..(n - m) : i < m + j
      OBVIOUS
    <3> QED
      BY <1>1, <1>2, <2>1, <3>1
  <2> QED
    BY <2>2, <2>3, <2>4 DEF Ordered
<1>4. ASSUME Whole(e, 0, h, n, w, a) PROVE Whole(x, m, g, n - m, w, a)
  <2>1. n = a - w /\ \A j \in 1..n : h[j] = w + j
    BY <1>4 DEF Whole
  <2>2. \A j \in 1..(n - m) : g[j] = w + m + j
    BY <1>1, <2>1
  <2>3. \A i \in 1..m : x[i] = w + i
    BY <1>2, <2>1
  <2> QED
    BY <2>1, <2>2, <2>3 DEF Whole
<1> QED
  BY <1>3, <1>4

(* A transfer is over, l of its bytes being sent.                          *)
LEMMA SentOrdered ==
  ASSUME NEW m \in Nat, NEW n \in Nat, NEW x \in [1..m -> Nat], NEW h \in [1..n -> Nat],
         NEW w \in Nat, NEW a \in Nat, w <= a, NEW l \in 0..m,
         NEW v, v = IF l = 0 \/ x[l] < w THEN w ELSE x[l],
         Ordered(x, m, h, n, w, a)
  PROVE  /\ v \in Nat /\ v <= a /\ Ordered(x, m, h, n, v, a)
         /\ Whole(x, m, h, n, w, a) /\ l = m => \A e : Whole(e, 0, h, n, v, a)
<1>1. CASE v = w
  <2>1. v \in Nat /\ v <= a /\ Ordered(x, m, h, n, v, a)
    BY <1>1
  <2>2. ASSUME Whole(x, m, h, n, w, a), l = m PROVE m = 0
    <3>1. CASE m # 0
      <4>1. m \in 1..m /\ x[m] = w + m
        BY <3>1, <2>2 DEF Whole
      <4> QED
        BY <4>1, <3>1, <1>1, <2>2
    <3> QED
      BY <3>1
  <2>3. ASSUME Whole(x, m, h, n, w, a), l = m PROVE \A e : Whole(e, 0, h, n, v, a)
    BY <1>1, <2>2, <2>3 DEF Whole
  <2> QED
    BY <2>1, <2>3
<1>2. CASE l \in 1..m /\ v = x[l]
  <2>1. v \in Nat /\ v <= a
    BY <1>2 DEF Ordered
  <2>2. Ordered(x, m, h, n, v, a)
    BY <1>2 DEF Ordered
  <2>3. ASSUME Whole(x, m, h, n, w, a), l = m PROVE \A e : Whole(e, 0, h, n, v, a)
    <3>1. v = w + m /\ v \in Nat
      BY <1>2, <2>1, <2>3 DEF Whole
    <3>2. m + n = a - w /\ \A j \in 1..n : h[j] = w + m + j
      BY <2>3 DEF Whole
    <3>3. 0 + n = a - v
      <4>1. v \in Nat /\ v = w + m /\ m + n = a - w
        BY <3>1, <3>2
      <4>2. a = w + m + n
        BY <4>1
      <4> QED
        BY <4>1, <4>2, SMTT(40)
    <3>4. ASSUME NEW j \in 1..n PROVE h[j] = v + 0 + j
      BY <3>1, <3>2, SMTT(40)
    <3> QED
      BY <3>3, <3>4 DEF Whole
  <2> QED
    BY <2>1, <2>2, <2>3
<1> QED
  BY <1>1, <1>2

LEMMA EmptyOrdered ==
  ASSUME NEW x, NEW m \in Nat, NEW h, NEW n \in Nat, NEW w, NEW a, NEW e,
         Ordered(x, m, h, n, w, a)
  PROVE  Ordered(e, 0, h, n, w, a) /\ Ordered(x, m, e, 0, w, a)
BY DEF Ordered

LEMMA FirstOrdered ==
  ASSUME NEW m \in Nat \ {0}, NEW n \in Nat, NEW x \in [1..m -> Nat], NEW h, NEW w, NEW a,
         NEW y, y[1] = x[1], Ordered(x, m, h, n, w, a)
  PROVE  Ordered(y, 1, h, n, w, a)
<1>1. 1 \in 1..m /\ \A i \in 1..1 : i = 1
  OBVIOUS
<1> QED
  BY <1>1 DEF Ordered

(* The bytes on their way.  A transfer that has ended with an error is not *)
(* empty, and one that ended well has been sent.                           *)
BytesInv ==
  /\ xfer \in Seq(Bytes) /\ wire \in 0..accepted
  /\ Ordered(xfer, Len(xfer), Content(buf), DataAvail(buf), wire, accepted)
  /\ intact => Whole(xfer, Len(xfer), Content(buf), DataAvail(buf), wire, accepted)

TransferInv ==
  /\ intact \in BOOLEAN
  /\ ~write_urb_in_use \/ pc["write"] = "ok" => xfer = <<>>
  /\ ("write" \in flight \/ pc["user"] = "submit" \/ pc["write"] \in {"proto", "error", "submit"})
       => xfer # <<>>
  /\ pc["write"] \in {"gone", "proto", "error"} => ~intact

StreamInv == BytesInv /\ TransferInv

LEMMA StreamTypes ==
  ASSUME BufferInv, StreamInv
  PROVE  /\ Len(xfer) \in Nat /\ xfer \in [1..Len(xfer) -> Nat]
         /\ DataAvail(buf) \in Nat /\ Content(buf) \in [1..DataAvail(buf) -> Nat]
         /\ wire \in Nat /\ accepted \in Nat /\ wire <= accepted
         /\ Content(buf) \in Seq(Bytes) /\ Len(Content(buf)) = DataAvail(buf)
<1>1. Bytes \subseteq Nat /\ MaxBytes \in Nat
  BY DriverAssumption
<1>2. Content(buf) \in Seq(Bytes) /\ Len(Content(buf)) = DataAvail(buf)
  BY ContentType DEF BufferInv
<1>3. wire \in Nat /\ accepted \in Nat /\ wire <= accepted
  BY <1>1 DEF BufferInv, StreamInv, BytesInv, TransferInv
<1>4. ASSUME NEW q \in Seq(Bytes) PROVE Len(q) \in Nat /\ q \in [1..Len(q) -> Nat]
  <2>1. Len(q) \in Nat /\ q \in [1..Len(q) -> Bytes]
    OBVIOUS
  <2> QED
    BY <1>1, <2>1
<1>5. xfer \in Seq(Bytes)
  BY DEF StreamInv, BytesInv, TransferInv
<1> QED
  BY <1>2, <1>3, <1>4, <1>5

LEMMA StreamMeans ==
  ASSUME BufferInv, StreamInv
  PROVE  StreamInOrder
<1> DEFINE x == xfer
           m == Len(xfer)
           h == Content(buf)
           n == DataAvail(buf)
           s == x \o h
<1>1. /\ m \in Nat /\ x \in [1..m -> Nat] /\ n \in Nat /\ h \in [1..n -> Nat]
      /\ wire \in Nat /\ accepted \in Nat /\ wire <= accepted
      /\ Ordered(x, m, h, n, wire, accepted)
      /\ intact => Whole(x, m, h, n, wire, accepted)
  BY StreamTypes DEF StreamInv, BytesInv, TransferInv
<1>2. /\ x \in Seq(Bytes) /\ h \in Seq(Bytes) /\ Len(x) = m /\ Len(h) = n
  BY StreamTypes DEF StreamInv, BytesInv, TransferInv
<1>3. /\ Len(s) = m + n
      /\ \A i \in 1..m : s[i] = x[i]
      /\ \A i \in (m + 1)..(m + n) : s[i] = h[i - m]
      /\ s \in Seq(Bytes)
  <2> HIDE DEF x, h, m, n
  <2>1. /\ s \in Seq(Bytes) /\ Len(s) = m + n
        /\ \A i \in 1..(m + n) : s[i] = IF i <= m THEN x[i] ELSE h[i - m]
    BY <1>2, ConcatProperties
  <2>2. /\ \A i \in 1..m : i \in 1..(m + n) /\ i <= m
        /\ \A i \in (m + 1)..(m + n) : i \in 1..(m + n) /\ ~(i <= m)
    BY <1>1
  <2> QED
    BY <2>1, <2>2
<1> HIDE DEF x, h, m, n, s
<1>4. \A i \in (m + 1)..(m + n) : i - m \in 1..n
  BY <1>1
<1>5. ASSUME NEW i \in 1..Len(s) PROVE s[i] <= accepted /\ (i > 1 => s[i - 1] < s[i])
  <2>1. CASE i <= m
    <3>1. i \in 1..m /\ (i > 1 => i - 1 \in 1..m)
      BY <2>1, <1>1, <1>3
    <3> QED
      BY <3>1, <1>1, <1>3 DEF Ordered
  <2>2. CASE i = m + 1
    <3>1. i \in (m + 1)..(m + n) /\ i - m = 1 /\ 1 \in 1..n /\ (i > 1 => i - 1 \in 1..m)
      BY <2>2, <1>1, <1>3
    <3> QED
      BY <3>1, <1>1, <1>3 DEF Ordered
  <2>3. CASE i > m + 1
    <3>1. /\ i \in (m + 1)..(m + n) /\ i - 1 \in (m + 1)..(m + n)
          /\ i - m \in 1..n /\ (i - 1) - m \in 1..n /\ (i - 1) - m < i - m
      BY <2>3, <1>1, <1>3
    <3>2. s[i] = h[i - m] /\ s[i - 1] = h[(i - 1) - m]
      BY <3>1, <1>3
    <3> QED
      BY <3>1, <3>2, <1>1 DEF Ordered
  <2> QED
    BY <1>1, <1>3, <2>1, <2>2, <2>3
<1>6. \A j \in 1..Len(h) : wire < h[j]
  BY <1>1, <1>2 DEF Ordered
<1>7. ASSUME intact PROVE s = [i \in 1..(accepted - wire) |-> wire + i]
  <2>1. /\ m + n = accepted - wire
        /\ \A i \in 1..m : x[i] = wire + i
        /\ \A j \in 1..n : h[j] = wire + m + j
    BY <1>1, <1>7 DEF Whole
  <2>2. ASSUME NEW i \in 1..(m + n) PROVE s[i] = wire + i
    <3>1. CASE i <= m
      <4>1. i \in 1..m
        BY <3>1, <1>1
      <4> QED
        BY <4>1, <1>3, <2>1
    <3>2. CASE i > m
      <4>1. i \in (m + 1)..(m + n) /\ i - m \in 1..n /\ m + (i - m) = i
        BY <3>2, <1>1
      <4>2. s[i] = wire + m + (i - m)
        BY <4>1, <1>3, <2>1
      <4> QED
        BY <4>1, <4>2, <1>1
    <3> QED
      BY <3>1, <3>2, <1>1
  <2>3. s \in [1..(m + n) -> Bytes]
    BY <1>3
  <2>4. s = [i \in 1..(m + n) |-> s[i]]
    BY <2>3
  <2> QED
    BY <2>1, <2>2, <2>4
<1> QED
  BY <1>5, <1>6, <1>7 DEF StreamInOrder, s, x, h

LEMMA StreamStep ==
  ASSUME TypeOK, HolderInv, QuietInv, QuietInv', StreamInv, [Next]_vars
  PROVE  StreamInv'
<1> USE DEF Threads, Urbs, Ended
<1> DEFINE m == Len(xfer)
           h == Content(buf)
           n == DataAvail(buf)
<1>0. /\ BufferInv /\ BufferInv'
      /\ pc["user"] = "drop" => n = 0 /\ AtRest("write")
      /\ pc'["user"] = "kill" => DataAvail(buf') = 0
  BY DEF QuietInv, Shut
<1>f. /\ m \in Nat /\ xfer \in [1..m -> Nat] /\ n \in Nat /\ h \in [1..n -> Nat]
      /\ wire \in Nat /\ accepted \in Nat /\ wire <= accepted
      /\ h \in Seq(Bytes) /\ Len(h) = n
      /\ Ordered(xfer, m, h, n, wire, accepted)
      /\ intact => Whole(xfer, m, h, n, wire, accepted)
      /\ xfer = <<>> => m = 0
  BY <1>0, StreamTypes DEF StreamInv, BytesInv, TransferInv
<1>e. <<>> \in Seq(Bytes) /\ Len(<<>>) = 0
  OBVIOUS
<1>1. CASE Elsewhere
  <2>1. /\ UNCHANGED <<buf, write_urb_in_use, xfer, accepted, wire, intact>>
        /\ pc'["write"] = pc["write"] /\ ("write" \in flight' <=> "write" \in flight)
        /\ pc'["user"] = pc["user"] \/ pc'["user"] # "submit"
    BY <1>1, ElsewhereFrame DEF write_vars
  <2>2. BytesInv'
    BY <2>1 DEF StreamInv, BytesInv
  <2>3. TransferInv'
    BY <2>1 DEF TypeOK, StreamInv, TransferInv
  <2> QED
    BY <2>2, <2>3 DEF StreamInv
<1>2. CASE CloseClear
  <2>1. /\ pc["user"] = "close" /\ pc' = [pc EXCEPT !["user"] = "kill"]
        /\ UNCHANGED <<write_urb_in_use, xfer, accepted, wire, flight>>
        /\ intact' = (intact /\ n = 0)
    BY <1>2 DEF CloseClear, Goto
  <2>2. DataAvail(buf') = 0
    BY <1>0, <2>1 DEF TypeOK
  <2>3. Ordered(xfer, m, Content(buf'), 0, wire, accepted)
    BY <1>f, EmptyOrdered
  <2>4. ASSUME intact' PROVE Whole(xfer, m, Content(buf'), 0, wire, accepted)
    <3>1. n = 0 /\ Whole(xfer, m, h, n, wire, accepted)
      BY <1>f, <2>1, <2>4
    <3> HIDE DEF m, n, h
    <3> QED
      BY <3>1 DEF Whole
  <2>5. BytesInv'
    BY <2>1, <2>2, <2>3, <2>4 DEF StreamInv, BytesInv
  <2>6. TransferInv'
    BY <2>1 DEF TypeOK, StreamInv, TransferInv
  <2> QED
    BY <2>5, <2>6 DEF StreamInv
<1>3. ASSUME NEW l \in Bytes, Write(l) PROVE StreamInv'
  <2>1. /\ pc' = [pc EXCEPT !["user"] = "send"]
        /\ UNCHANGED <<write_urb_in_use, xfer, wire, intact, flight>>
    BY <1>3 DEF Write, Goto, urb_vars
  <2>2. l \in Nat
    BY DriverAssumption
  <2>3. PICK k \in 0..l :
          /\ accepted' = accepted + k /\ DataAvail(buf') = n + k
          /\ Content(buf') = h \o [i \in 1..k |-> accepted + i]
    BY <1>0, <1>3, WriteAppends
  <2>4. k \in Nat
    BY <2>2
  <2> DEFINE g == Content(buf')
  <2>5. g \in Seq(Bytes) /\ Len(g) = n + k
    BY <1>0, <2>3, ContentType DEF BufferInv
  <2>6. Bytes \subseteq Nat
    BY DriverAssumption
  <2>7. g \in [1..(n + k) -> Nat]
    <3>1. g \in [1..Len(g) -> Bytes]
      BY <2>5
    <3> QED
      BY <2>5, <2>6, <3>1
  <2>8. (\A j \in 1..n : g[j] = h[j]) /\ (\A j \in 1..k : g[n + j] = accepted + j)
    <3> DEFINE t == [i \in 1..k |-> accepted + i]
    <3>1. t \in Seq(Nat) /\ Len(t) = k
      <4>1. t \in [1..k -> Nat]
        BY <1>f, <2>4
      <4> HIDE DEF t
      <4> QED
        BY <4>1, <2>4, FunctionIsSeq
    <3>2. h \in Seq(Nat)
      BY <1>f, <2>6
    <3>3. \A i \in 1..(n + k) : g[i] = IF i <= n THEN h[i] ELSE t[i - n]
      <4>1. g = h \o t
        BY <2>3
      <4> HIDE DEF g, t, h, n
      <4> QED
        BY <1>f, <3>1, <3>2, <4>1, ConcatProperties
    <3>4. \A j \in 1..n : j \in 1..(n + k) /\ j <= n
      BY <1>f, <2>4
    <3>5. ASSUME NEW j \in 1..k PROVE g[n + j] = accepted + j
      <4>1. n + j \in 1..(n + k) /\ ~(n + j <= n) /\ (n + j) - n = j
        BY <1>f, <2>4
      <4>2. g[n + j] = t[(n + j) - n]
        BY <3>3, <4>1
      <4> QED
        BY <4>1, <4>2
    <3> QED
      BY <3>3, <3>4, <3>5
  <2> HIDE DEF g, h, n, m
  <2>9. /\ Ordered(xfer, m, g, n + k, wire, accepted + k)
        /\ intact => Whole(xfer, m, g, n + k, wire, accepted + k)
    BY <1>f, <2>4, <2>7, <2>8, AppendOrdered
  <2>10. wire \in 0..accepted'
    BY <1>f, <2>3, <2>4
  <2>11. BytesInv'
    BY <2>1, <2>3, <2>9, <2>10 DEF StreamInv, BytesInv, m, g
  <2>12. TransferInv'
    BY <2>1 DEF TypeOK, StreamInv, TransferInv
  <2> QED
    BY <2>11, <2>12 DEF StreamInv
<1>4. ASSUME NEW t \in {"user", "write"}, Send(t) PROVE StreamInv'
  <2>1. /\ pc[t] = "send" /\ UNCHANGED <<accepted, wire, intact, flight>>
    BY <1>0, <1>4, SendTakes DEF urb_vars
  <2>2. CASE /\ UNCHANGED write_vars
             /\ pc' = [pc EXCEPT ![t] = IF t = "user" THEN "ready" ELSE "idle"]
    <3>1. UNCHANGED <<buf, write_urb_in_use, xfer>>
      BY <2>2 DEF write_vars
    <3>2. BytesInv'
      BY <2>1, <3>1 DEF StreamInv, BytesInv
    <3>3. TransferInv'
      BY <2>1, <2>2, <3>1 DEF TypeOK, StreamInv, TransferInv
    <3> QED
      BY <3>2, <3>3 DEF StreamInv
  <2>3. CASE /\ ~write_urb_in_use /\ write_urb_in_use'
             /\ pc' = [pc EXCEPT ![t] = "submit"]
             /\ \E k \in 1..n : /\ xfer' = SubSeq(h, 1, k)
                               /\ Content(buf') = SubSeq(h, k + 1, n)
    <3>1. PICK k \in 1..n : /\ xfer' = SubSeq(h, 1, k)
                            /\ Content(buf') = SubSeq(h, k + 1, n)
      BY <2>3
    <3>2. k \in Nat \ {0} /\ k <= n /\ n - k \in Nat
      BY <1>f
    <3> DEFINE x == xfer'
               g == Content(buf')
    <3>3. /\ x \in Seq(Bytes) /\ Len(x) = k /\ \A i \in 1..k : x[i] = h[i]
          /\ g \in Seq(Bytes) /\ Len(g) = n - k /\ \A i \in 1..(n - k) : g[i] = h[k + i]
      <4> HIDE DEF h, n
      <4>1. /\ SubSeq(h, 1, k) \in Seq(Bytes) /\ Len(SubSeq(h, 1, k)) = k
            /\ \A i \in 1..k : SubSeq(h, 1, k)[i] = h[i]
        BY <1>f, <3>2, SubSeqProperties
      <4>2. /\ SubSeq(h, k + 1, n) \in Seq(Bytes) /\ Len(SubSeq(h, k + 1, n)) = n - k
            /\ \A i \in 1..(n - k) : SubSeq(h, k + 1, n)[i] = h[k + i]
        BY <1>f, <3>2, SubSeqProperties
      <4> QED
        BY <3>1, <4>1, <4>2
    <3>4. Bytes \subseteq Nat
      BY DriverAssumption
    <3>5. x \in [1..k -> Nat] /\ g \in [1..(n - k) -> Nat]
      <4> HIDE DEF x, g, n, h
      <4>1. x \in [1..Len(x) -> Bytes] /\ g \in [1..Len(g) -> Bytes]
        BY <3>3
      <4> QED
        BY <3>3, <3>4, <4>1
    <3>6. DataAvail(buf') = n - k
      BY <1>0, <3>3, ContentType DEF BufferInv
    <3>7. xfer = <<>> /\ m = 0
      BY <1>f, <2>3 DEF StreamInv, BytesInv, TransferInv
    <3>8. /\ Ordered(xfer, 0, h, n, wire, accepted)
          /\ intact => Whole(xfer, 0, h, n, wire, accepted)
      BY <1>f, <3>7
    <3> HIDE DEF x, g, h, n, m
    <3>9. /\ Ordered(x, k, g, n - k, wire, accepted)
          /\ intact => Whole(x, k, g, n - k, wire, accepted)
      BY <1>f, <3>2, <3>3, <3>5, <3>8, TakeOrdered
    <3>10. x # <<>>
      BY <3>2, <3>3, <1>e
    <3>11. BytesInv'
      BY <2>1, <3>3, <3>6, <3>9 DEF StreamInv, BytesInv, x, g
    <3>12. TransferInv'
      BY <2>1, <2>3, <3>10 DEF TypeOK, HolderInv, StreamInv, TransferInv, x
    <3> QED
      BY <3>11, <3>12 DEF StreamInv
  <2> QED
    BY <1>0, <1>4, <2>2, <2>3, SendTakes
<1>5. ASSUME NEW t \in {"user", "write"}, SendSubmit(t) PROVE StreamInv'
  <2>1. /\ pc[t] = "submit" /\ UNCHANGED <<buf, accepted, wire>>
        /\ pc' = [pc EXCEPT ![t] = IF t = "user" THEN "ready" ELSE "idle"]
        /\ \/ UNCHANGED <<write_urb_in_use, xfer, intact>>
           \/ xfer' = <<>> /\ intact' = FALSE /\ ~write_urb_in_use' /\ flight' = flight
    BY <1>5 DEF SendSubmit, Return, Goto, Submit, Refused
  <2>2. write_urb_in_use /\ "write" \notin flight /\ xfer # <<>>
        /\ pc["write"] \notin Ended /\ (pc["user"] = "submit" => pc["write"] # "submit")
    BY <2>1 DEF HolderInv, StreamInv, BytesInv, TransferInv
  <2>3. CASE UNCHANGED <<write_urb_in_use, xfer, intact>>
    <3>1. BytesInv'
      BY <2>1, <2>3 DEF StreamInv, BytesInv
    <3>2. TransferInv'
      BY <2>1, <2>2, <2>3 DEF TypeOK, StreamInv, TransferInv
    <3> QED
      BY <3>1, <3>2 DEF StreamInv
  <2>4. CASE xfer' = <<>> /\ intact' = FALSE /\ ~write_urb_in_use' /\ flight' = flight
    <3>1. Ordered(<<>>, 0, h, n, wire, accepted)
      BY <1>f, EmptyOrdered
    <3>2. /\ "write" \notin flight' /\ pc'["user"] # "submit"
          /\ pc'["write"] \notin {"proto", "error", "submit"}
      BY <2>1, <2>2, <2>4 DEF TypeOK
    <3>3. BytesInv'
      BY <2>1, <2>4, <3>1, <1>e DEF StreamInv, BytesInv
    <3>4. TransferInv'
      BY <2>1, <2>2, <2>4, <3>2 DEF TypeOK, StreamInv, TransferInv
    <3> QED
      BY <3>3, <3>4 DEF StreamInv
  <2> QED
    BY <2>1, <2>3, <2>4
<1>6. CASE CloseDrop
  <2>1. /\ pc["user"] = "drop" /\ pc' = [pc EXCEPT !["user"] = "closed"]
        /\ UNCHANGED <<buf, write_urb_in_use, xfer, accepted, flight>>
        /\ wire' = accepted /\ intact' = TRUE
    BY <1>6 DEF CloseDrop, Goto
  <2>2. n = 0 /\ ~write_urb_in_use
    BY <1>0, <2>1 DEF HolderInv, AtRest
  <2>3. xfer = <<>> /\ m = 0
    BY <1>f, <2>2 DEF StreamInv, BytesInv, TransferInv
  <2>4. Ordered(xfer, 0, h, 0, accepted, accepted) /\ Whole(xfer, 0, h, 0, accepted, accepted)
    BY <1>f, <2>2, <2>3 DEF Ordered, Whole
  <2>5. accepted \in 0..accepted
    BY <1>f
  <2>6. pc'["write"] = "idle"
    BY <1>0, <2>1 DEF TypeOK, AtRest
  <2>7. BytesInv'
    BY <2>1, <2>2, <2>3, <2>4, <2>5 DEF StreamInv, BytesInv
  <2>8. TransferInv'
    BY <1>0, <2>1, <2>2, <2>3, <2>6 DEF TypeOK, AtRest, TransferInv
  <2> QED
    BY <2>7, <2>8 DEF StreamInv
<1>7. CASE WriteDone
  <2>1. UNCHANGED <<buf, accepted, wire, intact>>
    BY <1>7, WriteFrame
  <2>2. pc["write"] \in Ended /\ write_urb_in_use /\ "write" \notin flight
        /\ pc["user"] # "submit"
    BY <1>7, WriteFrame DEF HolderInv
  <2>3. CASE /\ xfer' = <<>> /\ flight' = flight
             /\ \E l \in {"send", "idle"} : pc' = [pc EXCEPT !["write"] = l]
    <3>1. Ordered(<<>>, 0, h, n, wire, accepted)
      BY <1>f, EmptyOrdered
    <3>2. pc["write"] = "ok" => xfer = <<>> /\ m = 0
      BY <1>f DEF StreamInv, BytesInv, TransferInv
    <3>3. intact => Whole(<<>>, 0, h, n, wire, accepted)
      BY <1>f, <2>2, <3>2 DEF StreamInv, BytesInv, TransferInv
    <3>4. BytesInv'
      BY <1>e, <2>1, <2>3, <3>1, <3>3 DEF StreamInv, BytesInv
    <3>5. TransferInv'
      BY <2>1, <2>2, <2>3 DEF TypeOK, StreamInv, TransferInv
    <3> QED
      BY <3>4, <3>5 DEF StreamInv
  <2>4. CASE /\ pc["write"] \in {"proto", "error"} /\ xfer' = SubSeq(xfer, 1, 1)
             /\ write_urb_in_use' = write_urb_in_use
             /\ pc' = [pc EXCEPT !["write"] = "idle"]
    <3>1. xfer # <<>> /\ ~intact /\ xfer \in Seq(Bytes)
      BY <2>4 DEF StreamInv, BytesInv, TransferInv
    <3>2. m \in Nat \ {0}
      BY <3>1
    <3>3. /\ SubSeq(xfer, 1, 1) \in Seq(Bytes) /\ Len(SubSeq(xfer, 1, 1)) = 1
          /\ SubSeq(xfer, 1, 1)[1] = xfer[1]
      BY <3>1, <3>2, SubSeqProperties
    <3>4. Ordered(SubSeq(xfer, 1, 1), 1, h, n, wire, accepted)
      <4> DEFINE y == SubSeq(xfer, 1, 1)
      <4>1. y[1] = xfer[1]
        BY <3>3
      <4> HIDE DEF m, n, h, y
      <4>2. Ordered(y, 1, h, n, wire, accepted)
        BY <1>f, <3>2, <4>1, FirstOrdered
      <4> QED
        BY <4>2 DEF y
    <3>5. SubSeq(xfer, 1, 1) # <<>>
      <4> DEFINE y == SubSeq(xfer, 1, 1)
      <4>1. Len(y) = 1
        BY <3>3
      <4> HIDE DEF y
      <4>2. y # <<>>
        BY <4>1, <1>e
      <4> QED
        BY <4>2 DEF y
    <3>6. BytesInv'
      BY <2>1, <2>4, <3>1, <3>3, <3>4 DEF StreamInv, BytesInv
    <3>7. TransferInv'
      BY <2>1, <2>2, <2>4, <3>1, <3>5 DEF TypeOK, StreamInv, TransferInv
    <3> QED
      BY <3>6, <3>7 DEF StreamInv
  <2> QED
    BY <1>7, WriteFrame, <2>3, <2>4
<1>8. ASSUME NEW s \in Ended, CompleteWrite(s) PROVE StreamInv'
  <2>1. /\ UNCHANGED <<buf, write_urb_in_use, accepted>>
        /\ "write" \in flight /\ flight' = flight \ {"write"}
        /\ pc' = [pc EXCEPT !["write"] = s]
        /\ xfer' = IF s = "ok" THEN <<>> ELSE xfer
        /\ intact' = (intact /\ s = "ok")
    BY <1>8 DEF CompleteWrite, EndsWith, Goto
  <2>2. PICK l \in IF s = "ok" THEN {m} ELSE 0..m :
          wire' = IF l = 0 \/ xfer[l] < wire THEN wire ELSE xfer[l]
    BY <1>8 DEF CompleteWrite
  <2>3. l \in 0..m /\ (s = "ok" => l = m)
    BY <1>f, <2>2
  <2>4. /\ wire' \in Nat /\ wire' <= accepted /\ Ordered(xfer, m, h, n, wire', accepted)
        /\ Whole(xfer, m, h, n, wire, accepted) /\ l = m
             => Whole(<<>>, 0, h, n, wire', accepted)
    <3> HIDE DEF m, n, h
    <3> QED
      BY <1>f, <2>2, <2>3, SentOrdered
  <2>5. wire' \in 0..accepted'
    BY <1>f, <2>1, <2>4
  <2>6. write_urb_in_use /\ xfer # <<>> /\ pc["user"] # "submit" /\ xfer \in Seq(Bytes)
    BY <2>1 DEF HolderInv, StreamInv, BytesInv, TransferInv
  <2>7. CASE s = "ok"
    <3>1. Ordered(<<>>, 0, h, n, wire', accepted)
      BY <1>f, <2>4, EmptyOrdered
    <3>2. intact' => Whole(<<>>, 0, h, n, wire', accepted)
      BY <1>f, <2>1, <2>3, <2>4, <2>7
    <3>3. xfer' = <<>>
      BY <2>1, <2>7
    <3>4. BytesInv'
      BY <1>e, <2>1, <2>5, <3>1, <3>2, <3>3 DEF StreamInv, BytesInv
    <3>5. TransferInv'
      BY <2>1, <2>6, <2>7, <3>3 DEF TypeOK, StreamInv, TransferInv
    <3> QED
      BY <3>4, <3>5 DEF StreamInv
  <2>8. CASE s # "ok"
    <3>1. xfer' = xfer /\ ~intact'
      BY <2>1, <2>8
    <3>2. BytesInv'
      BY <2>1, <2>4, <2>5, <2>6, <3>1 DEF StreamInv, BytesInv
    <3>3. TransferInv'
      BY <2>1, <2>6, <2>8, <3>1 DEF TypeOK, StreamInv, TransferInv
    <3> QED
      BY <3>2, <3>3 DEF StreamInv
  <2> QED
    BY <2>7, <2>8
<1> QED
  BY <1>1, <1>2, <1>3, <1>4, <1>5, <1>6, <1>7, <1>8
     DEF Next, UserThread, Handlers, External, Listener, Settle, Elsewhere

(* The bytes leave in the order they were accepted, none twice unless      *)
(* after an error, and none of a session in a later one, however the calls *)
(* of the program and the handler of write_urb interleave (ch34x.c:871-935, *)
(* 1234-1275).                                                             *)
THEOREM StreamCorrect == Spec => []StreamInOrder
<1>1. Init => StreamInv
  <2> SUFFICES ASSUME Init PROVE StreamInv
    OBVIOUS
  <2>1. /\ DataAvail(buf) = 0 /\ accepted = 0 /\ wire = 0 /\ xfer = <<>> /\ intact = TRUE
        /\ pc["write"] = "idle" /\ pc["user"] = "detached" /\ flight = {}
    BY AllocatedEmpty DEF Init, Threads, Urbs
  <2>2. <<>> \in Seq(Bytes) /\ Len(<<>>) = 0 /\ 0 \in 0..0
    OBVIOUS
  <2>3. Ordered(<<>>, 0, Content(buf), 0, 0, 0) /\ Whole(<<>>, 0, Content(buf), 0, 0, 0)
    BY DEF Ordered, Whole
  <2> QED
    BY <2>1, <2>2, <2>3 DEF StreamInv, BytesInv, TransferInv
<1>2. QuietInv /\ StreamInv => StreamInOrder
  BY StreamMeans DEF QuietInv
<1> QED
  BY <1>1, <1>2, HolderInit, QuietInit, TypeInit, TypeStep, HolderStep, QuietStep,
     StreamStep, PTL DEF Spec
-----------------------------------------------------------------------------
(* What has ended with an error that puts it out of use is out of use.     *)
ListenInv ==
  /\ pc["read"] \in {"error", "gone"} => "read" \in deaf
  /\ pc["int"] = "gone" => "int" \in deaf
  /\ pc["user"] = "open_int" /\ plugged /\ "read" \notin deaf => ~AtRest("read")
  /\ Listening

(* What leaves the URBs that read alone.                                   *)
Unheard ==
  /\ pc'["read"] = pc["read"] /\ pc'["int"] = pc["int"]
  /\ \A u \in {"read", "int"} : u \in flight' <=> u \in flight
  /\ deaf \subseteq deaf' /\ (plugged' => plugged)
  /\ pc'["user"] = "open_int" => pc["user"] = "open_int"
  /\ InUse' => InUse

LEMMA UnheardStep == ListenInv /\ Unheard => ListenInv'
BY DEF ListenInv, Unheard, Listening, AtRest

LEMMA ListenStep ==
  ASSUME TypeOK, QuietInv, ListenInv, [Next]_vars
  PROVE  ListenInv'
<1> USE DEF Threads, Urbs
<1>1. CASE IoctlThread
  <2>1. /\ UNCHANGED <<flight, plugged, deaf>>
        /\ pc' = [pc EXCEPT !["ioctl"] = pc'["ioctl"]]
    BY <1>1, IoctlFrame
  <2>2. Unheard
    BY <2>1 DEF TypeOK, Unheard, InUse
  <2> QED
    BY <2>2, UnheardStep
<1>2. CASE ReadDone
  <2>1. /\ pc' = [pc EXCEPT !["read"] = "idle"] /\ pc["read"] \in Ended
        /\ plugged' = plugged
    BY <1>2 DEF ReadDone, Goto
  <2>2. \/ flight' = flight \cup {"read"} /\ deaf' = deaf
        \/ flight' = flight /\ deaf' = deaf \cup {"read"}
        \/ flight' = flight /\ deaf' = deaf /\ pc["read"] \in {"gone", "error"}
    BY <1>2 DEF ReadDone, Again, Submit, Refused, Retry, Ended
  <2>3. "read" \in deaf' \/ "read" \in flight'
    BY <2>2 DEF ListenInv
  <2>4. /\ pc'["int"] = pc["int"] /\ pc'["read"] = "idle" /\ pc'["user"] = pc["user"]
        /\ deaf \subseteq deaf' /\ ("int" \in flight' <=> "int" \in flight)
    BY <2>1, <2>2 DEF TypeOK
  <2> QED
    BY <2>1, <2>3, <2>4 DEF ListenInv, Listening, AtRest, InUse
<1>3. CASE IntDone
  <2>1. /\ pc' = [pc EXCEPT !["int"] = "idle"] /\ plugged' = plugged
    BY <1>3 DEF IntDone, Goto
  <2>2. \/ flight' = flight \cup {"int"} /\ deaf' = deaf
        \/ flight' = flight /\ deaf' = deaf \cup {"int"}
        \/ flight' = flight /\ deaf' = deaf /\ pc["int"] = "gone"
    BY <1>3 DEF IntDone, Again, Submit, Refused
  <2>3. "int" \in deaf' \/ "int" \in flight'
    BY <2>2 DEF ListenInv
  <2>4. /\ pc'["read"] = pc["read"] /\ pc'["int"] = "idle" /\ pc'["user"] = pc["user"]
        /\ deaf \subseteq deaf' /\ ("read" \in flight' <=> "read" \in flight)
    BY <2>1, <2>2 DEF TypeOK
  <2> QED
    BY <2>1, <2>3, <2>4 DEF ListenInv, Listening, AtRest, InUse
<1>4. ASSUME NEW u \in Urbs, NEW s \in Ended, EndsWith(u, s) PROVE ListenInv'
  <2>1. /\ pc' = [pc EXCEPT ![u] = s] /\ flight' = flight \ {u} /\ plugged' = plugged
        /\ deaf' = IF s = "gone" \/ (s = "error" /\ u = "read") THEN deaf \cup {u} ELSE deaf
    BY <1>4 DEF EndsWith, Goto, line_vars
  <2>2. CASE u = "write"
    <3>1. Unheard
      BY <2>1, <2>2 DEF TypeOK, Unheard, InUse
    <3> QED
      BY <3>1, UnheardStep
  <2>3. CASE u \in {"read", "int"}
    <3>1. /\ pc'[u] = s /\ s # "idle" /\ deaf \subseteq deaf' /\ pc'["user"] = pc["user"]
          /\ \A x \in {"read", "int"} \ {u} :
               pc'[x] = pc[x] /\ (x \in flight' <=> x \in flight)
          /\ s = "gone" \/ (s = "error" /\ u = "read") => u \in deaf'
      BY <2>1, <2>3 DEF TypeOK, Ended
    <3> QED
      BY <2>1, <2>3, <3>1 DEF ListenInv, Listening, AtRest, InUse
  <2> QED
    BY <2>2, <2>3
<1>5. CASE Settle
  <2>1. /\ UNCHANGED <<flight, plugged, deaf>>
        /\ \E l \in AtUser : /\ pc' = [pc EXCEPT !["user"] = l]
                            /\ <<pc["user"], l>> \in SettleMoves
    BY <1>5, SettleFrame
  <2>2. Unheard
    BY <2>1 DEF TypeOK, Unheard, InUse, SettleMoves
  <2> QED
    BY <2>2, UnheardStep
<1>6. CASE OpenSubmit("read", "open_read", "open_int")
  <2>1. /\ UNCHANGED <<plugged, deaf>>
        /\ \/ pc' = [pc EXCEPT !["user"] = "open_int"] /\ flight' = flight \cup {"read"}
           \/ pc' = [pc EXCEPT !["user"] = "close"] /\ flight' = flight
    BY <1>6, OpenFrame
  <2> QED
    BY <2>1 DEF TypeOK, ListenInv, Listening, AtRest, InUse
<1>7. CASE OpenSubmit("int", "open_int", "ready")
  <2>1. /\ UNCHANGED <<plugged, deaf>> /\ pc["user"] = "open_int"
        /\ \/ pc' = [pc EXCEPT !["user"] = "ready"] /\ flight' = flight \cup {"int"}
           \/ pc' = [pc EXCEPT !["user"] = "close"] /\ flight' = flight
    BY <1>7, OpenFrame
  <2> QED
    BY <2>1 DEF TypeOK, ListenInv, Listening, AtRest, InUse
<1>8. CASE CloseClear
  <2>1. /\ pc' = [pc EXCEPT !["user"] = "kill"] /\ UNCHANGED <<flight, plugged, deaf>>
    BY <1>8 DEF CloseClear, Goto
  <2>2. Unheard
    BY <2>1 DEF TypeOK, Unheard, InUse
  <2> QED
    BY <2>2, UnheardStep
<1>9. ASSUME NEW u \in Urbs, NEW next \in SUBSET Urbs, CloseKill(u, next) PROVE ListenInv'
  <2>1. /\ UNCHANGED <<flight, plugged, deaf>>
        /\ \E l \in {"drop", "kill"} : pc' = [pc EXCEPT !["user"] = l]
    BY <1>9, KillFrame
  <2>2. Unheard
    BY <2>1 DEF TypeOK, Unheard, InUse
  <2> QED
    BY <2>2, UnheardStep
<1>10. ASSUME NEW n \in Bytes, Write(n) PROVE ListenInv'
  <2>1. /\ pc["user"] = "ready" /\ pc' = [pc EXCEPT !["user"] = "send"]
        /\ UNCHANGED <<flight, plugged, deaf>>
    BY <1>10 DEF Write, Goto, urb_vars
  <2>2. Unheard
    BY <2>1 DEF TypeOK, Unheard, InUse
  <2> QED
    BY <2>2, UnheardStep
<1>11. ASSUME NEW t \in {"user", "write"}, Send(t) \/ SendSubmit(t) PROVE ListenInv'
  <2>1. CASE Send(t)
    <3>1. /\ pc[t] = "send" /\ UNCHANGED <<flight, plugged, deaf>>
          /\ \E l \in {"ready", "idle", "submit"} :
               pc' = [pc EXCEPT ![t] = l] /\ (t = "user" => l # "idle")
      BY <2>1 DEF Send, TakeTransfer, Return, Goto, urb_vars
    <3>2. Unheard
      BY <3>1 DEF TypeOK, Unheard, InUse
    <3> QED
      BY <3>2, UnheardStep
  <2>2. CASE SendSubmit(t)
    <3>1. /\ pc[t] = "submit" /\ UNCHANGED <<plugged, deaf>>
          /\ flight' \in {flight, flight \cup {"write"}}
          /\ pc' = [pc EXCEPT ![t] = IF t = "user" THEN "ready" ELSE "idle"]
      BY <2>2 DEF SendSubmit, Return, Goto, Submit, Refused
    <3>2. Unheard
      BY <3>1 DEF TypeOK, Unheard, InUse
    <3> QED
      BY <3>2, UnheardStep
  <2> QED
    BY <1>11, <2>1, <2>2
<1>12. CASE CloseDrop
  <2>1. /\ pc["user"] = "drop" /\ pc' = [pc EXCEPT !["user"] = "closed"]
        /\ UNCHANGED <<flight, plugged>>
    BY <1>12 DEF CloseDrop, Goto
  <2>2. pc["read"] = "idle" /\ pc["int"] = "idle"
    BY <2>1 DEF QuietInv, Shut, AtRest
  <2> QED
    BY <2>1, <2>2 DEF TypeOK, ListenInv, Listening, InUse
<1>13. CASE WriteDone
  <2>1. /\ UNCHANGED <<plugged, deaf>> /\ flight' \in {flight, flight \cup {"write"}}
        /\ \E l \in {"send", "idle"} : pc' = [pc EXCEPT !["write"] = l]
    BY <1>13, WriteFrame
  <2>2. Unheard
    BY <2>1 DEF TypeOK, Unheard, InUse
  <2> QED
    BY <2>2, UnheardStep
<1>14. CASE Unplug \/ UNCHANGED vars
  <2>1. UNCHANGED <<flight, deaf, pc>> /\ (plugged' => plugged)
    BY <1>14 DEF Unplug, vars, urb_vars
  <2>2. Unheard
    BY <2>1 DEF Unheard, InUse
  <2> QED
    BY <2>2, UnheardStep
<1> QED
  BY <1>1, <1>2, <1>3, <1>4, <1>5, <1>6, <1>7, <1>8, <1>9, <1>10, <1>11, <1>12, <1>13, <1>14
     DEF Next, UserThread, Handlers, External, Settle, Complete, CompleteWrite

(* An open port listens: the handlers of the two URBs that read submit     *)
(* them again whatever came, but after an error (ch34x.c:1114-1118,        *)
(* 1136-1152, 1217-1228).                                                  *)
THEOREM ListeningCorrect == Spec => []Listening
<1>1. Init => ListenInv
  BY DEF Init, ListenInv, Listening, InUse, Threads, Urbs
<1>2. ListenInv => Listening
  BY DEF ListenInv
<1> QED
  BY <1>1, <1>2, QuietInit, TypeInit, TypeStep, QuietStep, ListenStep, PTL DEF Spec
-----------------------------------------------------------------------------
(* The errors recorded are of those reported since data came, and unless a *)
(* report or an empty read has passed them they are all of them, so that   *)
(* the next data will get their flag.                                      *)
FlagInv ==
  /\ unflagged \subseteq Transient
  /\ line_status \cap Transient \subseteq unflagged
  /\ ~overtaken => line_status \cap Transient = unflagged

LEMMA FlagStep == FlagInv /\ [Next]_vars => FlagInv'
<1> SUFFICES ASSUME FlagInv, [Next]_vars PROVE FlagInv'
  OBVIOUS
<1>1. CASE UNCHANGED <<line_status, unflagged, overtaken>>
  BY <1>1 DEF FlagInv
<1>2. CASE ReadDone
  <2>1. CASE UNCHANGED <<line_status, errors>>
    BY <1>1, <2>1 DEF errors
  <2>2. CASE /\ line_status' = line_status \ Transient
             /\ unflagged' = {} /\ overtaken' = FALSE
    BY <2>2 DEF FlagInv
  <2>3. CASE /\ line_status' = line_status \ Transient
             /\ UNCHANGED unflagged /\ overtaken' = (overtaken \/ unflagged # {})
    BY <2>3 DEF FlagInv
  <2> QED
    BY <1>2, <2>1, <2>2, <2>3 DEF ReadDone, StatusRead
<1>3. CASE IntDone
  <2>1. CASE UNCHANGED <<line_status, errors>>
    BY <1>1, <2>1 DEF errors
  <2>2. ASSUME NEW r \in Reports, line_status' = r.status,
               unflagged' = unflagged \cup (r.status \cap Transient),
               overtaken' = (overtaken \/ ~(unflagged \subseteq r.status))
        PROVE  FlagInv'
    <3>1. ~overtaken' => ~overtaken /\ unflagged \subseteq r.status
      BY <2>2
    <3>2. unflagged \subseteq r.status => unflagged' = r.status \cap Transient
      BY <2>2 DEF FlagInv
    <3> QED
      BY <2>2, <3>1, <3>2 DEF FlagInv
  <2> QED
    BY <1>3, <2>1, <2>2 DEF IntDone, UpdateLineStatus
<1> USE DEF line_vars, errors
<1>4. CASE IoctlThread
  <2>1. ASSUME NEW set \in SUBSET Outputs, NEW clear \in SUBSET Outputs, TiocmSet(set, clear)
        PROVE  UNCHANGED <<line_status, unflagged, overtaken>>
    BY <2>1 DEF TiocmSet
  <2>2. ASSUME NEW mask \in SUBSET {1, 2, 4, 8}, MiCheck(mask)
        PROVE  UNCHANGED <<line_status, unflagged, overtaken>>
    BY <2>2 DEF MiCheck
  <2>3. CASE SetControlLines("ioctl") \/ MiWait \/ MiSleep \/ MiTake \/ MiSignal
    BY <1>1, <2>3 DEF SetControlLines, MiWait, MiSleep, MiTake, MiSignal
  <2> QED
    BY <1>1, <1>4, <2>1, <2>2, <2>3 DEF IoctlThread
<1>5. CASE UserThread
  <2>1. ASSUME NEW r \in Rates, SetTermios(r) PROVE UNCHANGED <<line_status, unflagged, overtaken>>
    BY <2>1 DEF SetTermios
  <2>2. ASSUME NEW n \in Bytes, Write(n) PROVE UNCHANGED <<line_status, unflagged, overtaken>>
    BY <2>2 DEF Write
  <2>3. CASE Attach \/ Open \/ SetControlLines("user")
    BY <1>1, <2>3 DEF Attach, Open, SetControlLines
  <2>4. CASE \/ OpenSubmit("read", "open_read", "open_int")
             \/ OpenSubmit("int", "open_int", "ready")
    BY <1>1, <2>4 DEF OpenSubmit
  <2>5. CASE Send("user") \/ SendSubmit("user")
    BY <1>1, <2>5 DEF Send, SendSubmit
  <2>6. CASE \/ Close \/ CloseClear \/ CloseDrop
             \/ CloseKill("int", {"read"}) \/ CloseKill("read", {"write"})
             \/ CloseKill("write", {})
    BY <1>1, <2>6 DEF Close, CloseClear, CloseKill, CloseDrop
  <2> QED
    BY <1>1, <1>5, <2>1, <2>2, <2>3, <2>4, <2>5, <2>6 DEF UserThread
<1>6. CASE WriteDone \/ Send("write") \/ SendSubmit("write") \/ Unplug \/ UNCHANGED vars
  BY <1>1, <1>6 DEF WriteDone, Send, SendSubmit, Unplug, vars
<1>7. ASSUME NEW u \in Urbs, NEW s \in Ended, EndsWith(u, s) PROVE FlagInv'
  BY <1>1, <1>7 DEF EndsWith
<1> QED
  BY <1>2, <1>3, <1>4, <1>5, <1>6, <1>7
     DEF Next, Handlers, External, Complete, CompleteWrite, Urbs

(* A line error is flagged to the next data and once, or lost to a later   *)
(* report or an empty read before data came (ch34x.c:1059-1076, 1169-1197). *)
THEOREM ErrorsCorrect == Spec => []ErrorsFlagged
<1>1. Init => FlagInv
  BY DEF Init, FlagInv
<1>2. FlagInv => ErrorsFlagged
  <2>1. \A x : TtyFlag(x) = TtyFlag(x \cap Transient)
    BY DEF TtyFlag, Transient
  <2> QED
    BY <2>1 DEF FlagInv, ErrorsFlagged
<1> QED
  BY <1>1, <1>2, FlagStep, PTL DEF Spec
-----------------------------------------------------------------------------
(* A thread about to tell the chip the lines has read what is recorded,    *)
(* unless the device was unplugged and the other thread has closed the     *)
(* port meanwhile.                                                         *)
Told(t) == control[t] \cap Outputs = line_control \cap Outputs

HungUp == ~plugged /\ line_control \cap Outputs = {} /\ chip.lines = {} /\ pc["user"] = "closed"

LinesInv ==
  /\ control = [t \in {"user", "ioctl"} |-> control[t]]
  /\ chip = [rate |-> chip.rate, lines |-> chip.lines]
  /\ muddled \in BOOLEAN
  /\ pc["ioctl"] = "lines" => InUse \/ ~plugged
  /\ ~muddled =>
       /\ ~(pc["user"] = "lines" /\ pc["ioctl"] = "lines")
       /\ pc["user"] = "lines" => Told("user")
       /\ pc["ioctl"] = "lines" => Told("ioctl") \/ HungUp
       /\ LinesAsRecorded

(* What tells the chip nothing.                                            *)
Untold ==
  /\ UNCHANGED <<line_control, control, chip, muddled>> /\ (plugged' => plugged)
  /\ pc["ioctl"] = "lines" <=> pc'["ioctl"] = "lines"
  /\ pc["user"] = "lines" <=> pc'["user"] = "lines"
  /\ pc["ioctl"] = "lines" /\ plugged => (InUse => InUse')
  /\ pc["user"] = "closed" => pc'["user"] = "closed" \/ plugged

LEMMA UntoldStep == LinesInv /\ Untold => LinesInv'
<1> SUFFICES ASSUME LinesInv, Untold PROVE LinesInv'
  OBVIOUS
<1>1. /\ control' = [t \in {"user", "ioctl"} |-> control'[t]]
      /\ chip' = [rate |-> chip'.rate, lines |-> chip'.lines]
      /\ muddled' \in BOOLEAN /\ muddled' = muddled
  BY DEF LinesInv, Untold
<1>2. pc'["ioctl"] = "lines" => InUse' \/ ~plugged'
  BY DEF LinesInv, Untold
<1>3. /\ Told("user")' <=> Told("user")
      /\ Told("ioctl")' <=> Told("ioctl")
      /\ HungUp => HungUp'
      /\ LinesAsRecorded => LinesAsRecorded'
  BY DEF Untold, Told, HungUp, LinesAsRecorded
<1> QED
  BY <1>1, <1>2, <1>3 DEF LinesInv, Untold

LEMMA LinesStep ==
  ASSUME TypeOK, LinesInv, [Next]_vars
  PROVE  LinesInv'
<1> USE DEF Threads, Urbs
<1>1. CASE Listener
  <2>1. PICK u \in {"read", "int"}, l \in AtRead : pc' = [pc EXCEPT ![u] = l]
    BY <1>1, ListenerFrame
  <2>2. plugged' = plugged /\ UNCHANGED <<control, chip>>
        /\ (UNCHANGED <<line_control, muddled>> \/ muddled' = TRUE)
    BY <1>1 DEF Listener, ReadDone, IntDone, UpdateLineStatus, Complete, EndsWith, line_vars
  <2>3. CASE UNCHANGED <<line_control, muddled>>
    <3>1. Untold
      BY <2>1, <2>2, <2>3 DEF TypeOK, Untold, InUse
    <3> QED
      BY <3>1, UntoldStep
  <2>4. CASE muddled' = TRUE
    BY <2>1, <2>2, <2>4 DEF TypeOK, LinesInv, InUse
  <2> QED
    BY <2>2, <2>3, <2>4
<1>2. ASSUME NEW set \in SUBSET Outputs, NEW clear \in SUBSET Outputs, TiocmSet(set, clear)
      PROVE  LinesInv'
  <2>1. /\ InUse /\ plugged /\ UNCHANGED <<chip, plugged>>
        /\ control' = [control EXCEPT !["ioctl"] = line_control']
        /\ muddled' = (muddled \/ pc["user"] = "lines")
        /\ pc' = [pc EXCEPT !["ioctl"] = "lines"]
    BY <1>2 DEF TiocmSet, Goto, urb_vars
  <2>2. pc'["user"] = pc["user"] /\ pc'["ioctl"] = "lines"
    BY <2>1 DEF TypeOK
  <2>3. control' = [t \in {"user", "ioctl"} |-> control'[t]] /\ control'["ioctl"] = line_control'
    BY <2>1 DEF LinesInv
  <2> QED
    BY <2>1, <2>2, <2>3 DEF LinesInv, LinesAsRecorded, Told, InUse
<1>3. ASSUME NEW t \in {"user", "ioctl"}, SetControlLines(t) PROVE LinesInv'
  <2>1. /\ pc[t] = "lines" /\ UNCHANGED <<line_control, plugged>>
        /\ muddled' = (muddled \/ chip'.lines # control[t] \cap Outputs)
        /\ pc' = [pc EXCEPT ![t] = IF t = "user" THEN "ready" ELSE "idle"]
        /\ control' = [control EXCEPT ![t] = {}]
    BY <1>3 DEF SetControlLines, Goto
  <2>2. \/ plugged /\ chip' = [chip EXCEPT !.lines = control[t] \cap Outputs]
        \/ chip' = chip
    BY <1>3 DEF SetControlLines, Tell
  <2>3. /\ chip' = [rate |-> chip'.rate, lines |-> chip'.lines]
        /\ ~plugged => chip' = chip
    <3>1. CASE chip' = chip
      BY <3>1 DEF LinesInv
    <3>2. CASE plugged /\ chip' = [chip EXCEPT !.lines = control[t] \cap Outputs]
      BY <3>2 DEF LinesInv
    <3> QED
      BY <2>2, <3>1, <3>2
  <2>4. control' = [x \in {"user", "ioctl"} |-> control'[x]]
    BY <2>1 DEF LinesInv
  <2>5. pc'["ioctl"] = "lines" => InUse' \/ ~plugged'
    BY <2>1 DEF TypeOK, LinesInv, InUse
  <2>6. ASSUME ~muddled'
        PROVE  /\ "lines" \notin {pc'["user"], pc'["ioctl"]}
               /\ chip'.lines = line_control' \cap Outputs
    <3>1. ~muddled /\ chip'.lines = control[t] \cap Outputs
      BY <2>1, <2>6 DEF LinesInv
    <3>2. "lines" \notin {pc'["user"], pc'["ioctl"]}
      BY <2>1, <3>1 DEF TypeOK, LinesInv
    <3>3. CASE Told(t)
      BY <2>1, <3>1, <3>2, <3>3 DEF Told
    <3>4. CASE HungUp
      BY <2>1, <2>3, <3>1, <3>2, <3>4 DEF HungUp
    <3> QED
      BY <2>1, <3>1, <3>3, <3>4 DEF LinesInv
  <2>7. muddled' \in BOOLEAN
    BY <2>1 DEF LinesInv
  <2> QED
    BY <2>3, <2>4, <2>5, <2>6, <2>7 DEF LinesInv, LinesAsRecorded
<1>4. ASSUME NEW mask \in SUBSET {1, 2, 4, 8}, MiCheck(mask) PROVE LinesInv'
  <2>1. Untold
    BY <1>4 DEF MiCheck, Goto, TypeOK, Untold, InUse, urb_vars
  <2> QED
    BY <2>1, UntoldStep
<1>5. CASE MiWait \/ MiSleep \/ MiTake \/ MiSignal
  <2>1. /\ UNCHANGED <<line_control, control, chip, muddled, plugged>>
        /\ pc["ioctl"] # "lines"
        /\ \E l \in {"idle", "wait", "asleep", "check"} : pc' = [pc EXCEPT !["ioctl"] = l]
    BY <1>5 DEF MiWait, MiSleep, MiTake, MiSignal, Goto, urb_vars, line_vars
  <2>2. Untold
    BY <2>1 DEF TypeOK, Untold, InUse
  <2> QED
    BY <2>2, UntoldStep
<1>6. CASE Open
  <2>1. /\ pc["user"] = "closed" /\ plugged /\ UNCHANGED <<control, plugged>>
        /\ pc' = [pc EXCEPT !["user"] = "open_read"]
    BY <1>6 DEF Open, Goto
  <2>2. pc["ioctl"] # "lines"
    BY <2>1 DEF LinesInv, InUse
  <2>3. pc'["user"] = "open_read" /\ pc'["ioctl"] # "lines"
    BY <2>1, <2>2 DEF TypeOK
  <2>4. CASE UNCHANGED <<line_control, chip, faults, muddled>>
    BY <2>1, <2>2, <2>3, <2>4 DEF LinesInv, LinesAsRecorded
  <2>5. CASE LET c == [rate |-> rate, lines |-> LinesFor(rate) \cap Outputs] IN
               /\ line_control' = LinesFor(rate)
               /\ Tell(c)
               /\ muddled' = (muddled \/ chip' # c)
    <3> DEFINE c == [rate |-> rate, lines |-> LinesFor(rate) \cap Outputs]
    <3>1. chip' = c \/ chip' = chip
      BY <2>5 DEF Tell
    <3>2. chip' = [rate |-> chip'.rate, lines |-> chip'.lines]
      BY <3>1 DEF LinesInv
    <3>3. muddled' \in BOOLEAN /\ (~muddled' => chip' = c)
      BY <2>5 DEF LinesInv
    <3>4. ~muddled' => chip'.lines = line_control' \cap Outputs
      BY <2>5, <3>3
    <3> QED
      BY <2>1, <2>3, <3>2, <3>3, <3>4 DEF LinesInv, LinesAsRecorded
  <2> QED
    BY <1>6, <2>4, <2>5 DEF Open
<1>7. ASSUME NEW r \in Rates, SetTermios(r) PROVE LinesInv'
  <2>1. pc["user"] = "ready" /\ plugged' = plugged
    BY <1>7 DEF SetTermios
  <2>2. CASE r = 0
    <3>1. Untold
      BY <1>7, <2>1, <2>2 DEF SetTermios, Goto, TypeOK, Untold, InUse
    <3> QED
      BY <3>1, UntoldStep
  <2>3. CASE r # 0
    <3>1. /\ Tell([chip EXCEPT !.rate = r]) /\ line_control' = LinesFor(r)
      BY <1>7, <2>3 DEF SetTermios
    <3>2. /\ chip'.lines = chip.lines
          /\ chip' = [rate |-> chip'.rate, lines |-> chip'.lines]
      <4>1. chip' = [chip EXCEPT !.rate = r] \/ chip' = chip
        BY <3>1 DEF Tell
      <4> QED
        BY <4>1 DEF LinesInv
    <3>3. CASE LinesFor(r) = line_control
      <4>1. /\ UNCHANGED <<control, muddled, line_control>>
            /\ pc' = [pc EXCEPT !["user"] = "ready"]
        BY <1>7, <2>3, <3>1, <3>3 DEF SetTermios, Goto
      <4>2. pc'["user"] = "ready" /\ pc'["ioctl"] = pc["ioctl"]
        BY <4>1 DEF TypeOK
      <4>3. muddled \in BOOLEAN /\ InUse'
        BY <4>2 DEF LinesInv, InUse
      <4>4. ASSUME ~muddled'
            PROVE  /\ pc'["ioctl"] = "lines" => Told("ioctl")'
                   /\ LinesAsRecorded'
        BY <2>1, <3>2, <4>1, <4>2, <4>4 DEF LinesInv, LinesAsRecorded, Told, HungUp
      <4> QED
        BY <3>2, <4>1, <4>2, <4>3, <4>4 DEF LinesInv
    <3>4. CASE LinesFor(r) # line_control
      <4>1. /\ control' = [control EXCEPT !["user"] = line_control']
            /\ muddled' = (muddled \/ pc["ioctl"] = "lines")
            /\ pc' = [pc EXCEPT !["user"] = "lines"]
        BY <1>7, <2>3, <3>1, <3>4 DEF SetTermios, Goto
      <4>2. pc'["user"] = "lines" /\ pc'["ioctl"] = pc["ioctl"]
        BY <4>1 DEF TypeOK
      <4>3. /\ control' = [x \in {"user", "ioctl"} |-> control'[x]]
            /\ control'["user"] = line_control'
        BY <4>1 DEF LinesInv
      <4> QED
        BY <3>2, <4>1, <4>2, <4>3 DEF LinesInv, LinesAsRecorded, Told, InUse
    <3> QED
      BY <3>3, <3>4
  <2> QED
    BY <2>2, <2>3
<1>8. CASE CloseDrop
  <2>1. /\ pc["user"] = "drop" /\ UNCHANGED <<control, plugged>>
        /\ pc' = [pc EXCEPT !["user"] = "closed"]
    BY <1>8 DEF CloseDrop, Goto
  <2>2. pc'["user"] = "closed" /\ pc'["ioctl"] = pc["ioctl"]
        /\ (pc["ioctl"] = "lines" => ~plugged)
    BY <2>1 DEF TypeOK, LinesInv, InUse
  <2>3. CASE UNCHANGED <<line_control, chip, faults, muddled>>
    BY <2>1, <2>2, <2>3 DEF LinesInv, LinesAsRecorded, Told, HungUp
  <2>4. CASE /\ line_control' = {}
             /\ Tell([chip EXCEPT !.lines = {}])
             /\ muddled' = (muddled \/ chip'.lines # {})
    <3>1. chip' = [chip EXCEPT !.lines = {}] \/ chip' = chip
      BY <2>4 DEF Tell
    <3>2. chip' = [rate |-> chip'.rate, lines |-> chip'.lines]
      BY <3>1 DEF LinesInv
    <3>3. muddled' \in BOOLEAN /\ (~muddled' => chip'.lines = {})
      BY <2>4 DEF LinesInv
    <3>4. line_control' \cap Outputs = {}
      BY <2>4
    <3> QED
      BY <2>1, <2>2, <3>2, <3>3, <3>4 DEF LinesInv, LinesAsRecorded, HungUp
  <2> QED
    BY <1>8, <2>3, <2>4 DEF CloseDrop
<1>9. CASE Attach \/ Close \/ CloseClear
  <2>1. /\ UNCHANGED <<line_control, control, chip, muddled, plugged>>
        /\ \/ pc["user"] = "detached" /\ pc' = [pc EXCEPT !["user"] = "closed"]
           \/ /\ pc["user"] = "ready" /\ (pc["ioctl"] = "idle" \/ ~plugged)
              /\ pc' = [pc EXCEPT !["user"] = "close"]
           \/ pc["user"] = "close" /\ pc' = [pc EXCEPT !["user"] = "kill"]
    BY <1>9 DEF Attach, Close, CloseClear, Goto, line_vars, urb_vars
  <2>2. Untold
    BY <2>1 DEF TypeOK, Untold, InUse
  <2> QED
    BY <2>2, UntoldStep
<1>10. ASSUME NEW u \in Urbs, NEW here \in {"open_read", "open_int"},
              NEW next \in {"open_int", "ready"}, OpenSubmit(u, here, next)
       PROVE  LinesInv'
  <2>1. /\ UNCHANGED <<line_control, control, chip, muddled, plugged>> /\ pc["user"] = here
        /\ \E l \in {"open_int", "ready", "close"} : pc' = [pc EXCEPT !["user"] = l]
    BY <1>10 DEF OpenSubmit, Goto, line_vars
  <2>2. Untold
    BY <2>1 DEF TypeOK, Untold, InUse
  <2> QED
    BY <2>2, UntoldStep
<1>11. ASSUME NEW u \in Urbs, NEW next \in SUBSET Urbs, CloseKill(u, next) PROVE LinesInv'
  <2>1. /\ UNCHANGED <<line_control, control, chip, muddled, plugged>> /\ pc["user"] = "kill"
        /\ \E l \in {"drop", "kill"} : pc' = [pc EXCEPT !["user"] = l]
    BY <1>11 DEF CloseKill, Goto, line_vars
  <2>2. Untold
    BY <2>1 DEF TypeOK, Untold, InUse
  <2> QED
    BY <2>2, UntoldStep
<1>12. ASSUME NEW n \in Bytes, Write(n) PROVE LinesInv'
  <2>1. Untold
    BY <1>12 DEF Write, Goto, TypeOK, Untold, InUse, urb_vars, line_vars
  <2> QED
    BY <2>1, UntoldStep
<1>13. ASSUME NEW t \in {"user", "write"}, Send(t) \/ SendSubmit(t) PROVE LinesInv'
  <2>1. /\ UNCHANGED <<line_control, control, chip, muddled, plugged>>
        /\ pc[t] \in {"send", "submit"}
        /\ \E l \in {"ready", "idle", "submit"} :
             pc' = [pc EXCEPT ![t] = l] /\ (t = "user" => l # "idle")
    BY <1>13 DEF Send, TakeTransfer, SendSubmit, Return, Goto, urb_vars, line_vars
  <2>2. Untold
    BY <2>1 DEF TypeOK, Untold, InUse
  <2> QED
    BY <2>2, UntoldStep
<1>14. CASE WriteDone
  <2>1. /\ plugged' = plugged
        /\ \E l \in {"send", "idle"} : pc' = [pc EXCEPT !["write"] = l]
    BY <1>14, WriteFrame
  <2>2. UNCHANGED <<line_control, control, chip, muddled>>
    BY <1>14 DEF WriteDone, line_vars
  <2>3. Untold
    BY <2>1, <2>2 DEF TypeOK, Untold, InUse
  <2> QED
    BY <2>3, UntoldStep
<1>15. ASSUME NEW s \in Ended, CompleteWrite(s) PROVE LinesInv'
  <2>1. Untold
    BY <1>15 DEF CompleteWrite, EndsWith, Goto, TypeOK, Untold, InUse, line_vars
  <2> QED
    BY <2>1, UntoldStep
<1>16. CASE Unplug \/ UNCHANGED vars
  <2>1. UNCHANGED <<line_control, control, chip, muddled, pc>> /\ (plugged' => plugged)
    BY <1>16 DEF Unplug, vars, urb_vars, line_vars
  <2>2. Untold
    BY <2>1 DEF Untold, InUse
  <2> QED
    BY <2>2, UntoldStep
<1> QED
  BY <1>1, <1>2, <1>3, <1>4, <1>5, <1>6, <1>7, <1>8, <1>9, <1>10, <1>11, <1>12, <1>13,
     <1>14, <1>15, <1>16
     DEF Next, UserThread, IoctlThread, Handlers, External, Listener

(* While no report of the chip, no failing message and no two calls at once *)
(* come between, line_control is what the chip was told: the value sent is *)
(* read under the lock with the change (ch34x.c:501-515, 760-772).         *)
THEOREM LinesCorrect == Spec => []LinesAsRecorded
<1>1. Init => LinesInv
  <2> SUFFICES ASSUME Init PROVE LinesInv
    OBVIOUS
  <2>1. control = [t \in {"user", "ioctl"} |-> {}]
    BY DEF Init
  <2>2. \A t \in {"user", "ioctl"} : control[t] = {}
    BY <2>1
  <2>3. control = [t \in {"user", "ioctl"} |-> control[t]]
    BY <2>1, <2>2
  <2>4. chip.lines = {} /\ chip = [rate |-> chip.rate, lines |-> chip.lines]
    BY DEF Init
  <2>5. pc["user"] = "detached" /\ pc["ioctl"] = "idle" /\ line_control = {} /\ ~muddled
        /\ muddled \in BOOLEAN
    BY DEF Init, Threads
  <2> QED
    BY <2>3, <2>4, <2>5 DEF LinesInv, LinesAsRecorded
<1>2. LinesInv => LinesAsRecorded
  BY DEF LinesInv, LinesAsRecorded
<1> QED
  BY <1>1, <1>2, TypeInit, TypeStep, LinesStep, PTL DEF Spec
=============================================================================
