------------------------------- MODULE OnlineLink -------------------------------
(***************************************************************************)
(* Online-record mode: the board pushes frames without being asked, and    *)
(* CustomProtocol::recv_online_response finds them in the byte stream,     *)
(* under DeviceDriver::recv_online_frame.                                  *)
(*                                                                         *)
(* One deadline covers a whole call.  Wherever in a frame it falls, what   *)
(* has been read of the frame is gone and the next call begins its hunt    *)
(* for 55 AA in the middle of it - where a reading may look like 55 AA.    *)
(*                                                                         *)
(* The board and the line are external.  A byte is known by its frame, its *)
(* place there, its value as far as the hunt tells values apart, and       *)
(* whether it came through unharmed; cmdId with frameLen is one unit, the  *)
(* CRC another, and no damaged frame has the right CRC by chance.  Which   *)
(* bytes have arrived is not kept apart from which the program has read:   *)
(* it may find any of those sent, or its deadline may pass first.          *)
(***************************************************************************)
EXTENDS Integers, Sequences, FiniteSets

CONSTANTS
  Tails,      \* what may follow the header of a frame, all of one length
  MaxTail,    \* bound of the model: the longest tail a false length asks for
  MaxFrames,  \* bound of the model: frames the board sends
  MaxFaults,  \* bound of the model: lost or garbled bytes
  MaxCalls    \* bound of the model: calls of recv_online_frame

Values == {"55", "AA", "other"}

ASSUME OnlineAssumption ==
  /\ Tails # {} /\ Tails \subseteq Seq(Values)
  /\ \A t1, t2 \in Tails : Len(t1) = Len(t2)
  /\ {MaxTail, MaxFrames, MaxFaults, MaxCalls} \subseteq Nat

VARIABLES
  recording,  \* start_online_record has been sent, and not stopped since
  frames,     \* the cmdIds of the frames sent
  line,       \* their bytes
  taken,      \* how many of them the program has read
  faults,     \* faults so far (model bound)
  pc,         \* the phase of recv_online_response
  state,      \* Phase 1: 1 after a 55
  sync,       \* history: where it found the last 55
  hdr,        \* remain_hdr, parsed: cmdId, and units after the header
  pos,        \* units of them read
  result,     \* how the last call ended
  start,      \* history: how much had been read when it began
  accepted,   \* history: the frames returned, in order
  calls, failed   \* history: calls begun, calls that returned nothing

call == <<pc, state, sync, hdr, pos, start>>
account == <<result, accepted, calls, failed>>
vars == <<recording, frames, line, taken, faults, call, account>>

Init ==
  /\ recording = FALSE
  /\ frames = <<>> /\ line = <<>> /\ taken = 0 /\ faults = 0
  /\ pc = "idle" /\ state = 0 /\ sync = 0
  /\ hdr = [cmd |-> "none", len |-> 0] /\ pos = 0
  /\ result = "none" /\ start = 0
  /\ accepted = <<>> /\ calls = 0 /\ failed = 0
-----------------------------------------------------------------------------
(* The board and the line (external).                                      *)

FrameLen == 3 + Len(CHOOSE t \in Tails : TRUE)

Frame(tail, n) ==
  LET values == <<"55", "AA", "header">> \o tail IN
  [p \in 1..FrameLen |-> [seq |-> n, pos |-> p, val |-> values[p], ok |-> TRUE]]

Send(cmd, units) ==
  /\ Len(frames) < MaxFrames
  /\ frames' = Append(frames, cmd)
  /\ line' = line \o units
  /\ UNCHANGED <<taken, call, account>>

Push ==
  /\ recording
  /\ \E t \in Tails : Send("data", Frame(t, Len(frames) + 1))
  /\ UNCHANGED <<recording, faults>>

(* A byte lost, or turned into another.                                    *)
PushFaulty ==
  /\ recording
  /\ faults < MaxFaults
  /\ faults' = faults + 1
  /\ \E t \in Tails, p \in 1..FrameLen :
       LET f == Frame(t, Len(frames) + 1) IN
       \/ Send("data", SubSeq(f, 1, p - 1) \o SubSeq(f, p + 1, FrameLen))
       \/ \E v \in IF p = 3 THEN {"header"}
                   ELSE (Values \ {f[p].val}) \cup {"other"} :
            Send("data", [f EXCEPT ![p].ok = FALSE, ![p].val = v])
  /\ UNCHANGED recording

(* start_online_record and stop_online_record send a command and read      *)
(* nothing.  The board acknowledges a start in the stream of the frames.   *)
StartRecord ==
  /\ ~recording
  /\ recording' = TRUE
  /\ \E t \in Tails : Send("ack", Frame(t, Len(frames) + 1))
  /\ UNCHANGED faults

StopRecord ==
  /\ recording
  /\ recording' = FALSE
  /\ UNCHANGED <<frames, line, taken, faults, call, account>>
-----------------------------------------------------------------------------
(* recv_online_frame and recv_online_response.                             *)

Call ==
  /\ pc = "idle"
  /\ calls < MaxCalls
  /\ calls' = calls + 1
  /\ pc' = "hunt" /\ state' = 0
  /\ start' = taken
  /\ UNCHANGED <<recording, frames, line, taken, faults, sync, hdr, pos,
                 result, accepted, failed>>

Fail(why) ==
  /\ pc' = "idle"
  /\ result' = why
  /\ failed' = failed + 1
  /\ UNCHANGED <<accepted, calls>>

(* The deadline, looked at before every read.                              *)
Deadline ==
  /\ pc \in {"hunt", "header"} \/ (pc = "tail" /\ pos < hdr.len)
  /\ Fail("deadline")
  /\ UNCHANGED <<recording, frames, line, taken, faults, state, sync, hdr, pos, start>>

(* Mutant: after a 55, a second one does not count.                        *)
HuntForgetful ==
  /\ pc = "hunt"
  /\ taken < Len(line)
  /\ taken' = taken + 1
  /\ LET b == line[taken + 1].val IN
       /\ state' = IF state = 0 /\ b = "55" THEN 1 ELSE 0
       /\ sync' = IF b = "55" THEN taken + 1 ELSE sync
       /\ pc' = IF state = 1 /\ b = "AA" THEN "header" ELSE "hunt"
  /\ UNCHANGED <<recording, frames, line, faults, hdr, pos, start, account>>

(* Phase 1, a byte.                                                        *)
Hunt ==
  /\ pc = "hunt"
  /\ taken < Len(line)
  /\ taken' = taken + 1
  /\ LET b == line[taken + 1].val IN
       /\ state' = IF b = "55" THEN 1 ELSE 0
       /\ sync' = IF b = "55" THEN taken + 1 ELSE sync
       /\ pc' = IF state = 1 /\ b = "AA" THEN "header" ELSE "hunt"
  /\ UNCHANGED <<recording, frames, line, faults, hdr, pos, start, account>>

(* Mutant: pos not set back for the tail.                                  *)
HeaderKeepPos ==
  /\ pc = "header"
  /\ taken < Len(line)
  /\ taken' = taken + 1
  /\ LET u == line[taken + 1] IN
       /\ u.val = "header" /\ u.ok
       /\ hdr' = [cmd |-> frames[u.seq], len |-> FrameLen - 3]
       /\ pc' = "tail"
  /\ UNCHANGED <<recording, frames, line, faults, state, sync, pos, start, account>>

(* Phase 2.  What is not a sound header is any cmdId with any length, one  *)
(* too small for a frame included.                                         *)
Header ==
  /\ pc = "header"
  /\ taken < Len(line)
  /\ taken' = taken + 1
  /\ pos' = 0
  /\ LET u == line[taken + 1] IN
       \/ /\ u.val = "header" /\ u.ok
          /\ hdr' = [cmd |-> frames[u.seq], len |-> FrameLen - 3]
          /\ pc' = "tail"
          /\ UNCHANGED account
       \/ /\ u.val # "header" \/ ~u.ok
          /\ \/ /\ \E len \in 1..MaxTail : hdr' = [cmd |-> "none", len |-> len]
                /\ pc' = "tail"
                /\ UNCHANGED account
             \/ Fail("bad") /\ UNCHANGED hdr
  /\ UNCHANGED <<recording, frames, line, faults, state, sync, start>>

(* Phase 3, as much of the tail as is there.                               *)
ReadTail ==
  /\ pc = "tail"
  /\ pos < hdr.len
  /\ \E n \in 1..(hdr.len - pos) :
       /\ taken + n <= Len(line)
       /\ taken' = taken + n
       /\ pos' = pos + n
  /\ UNCHANGED <<recording, frames, line, faults, pc, state, sync, hdr, start, account>>

(* The units from i on are a frame as it was sent.                         *)
FrameAt(i) ==
  /\ i + FrameLen - 1 <= Len(line)
  /\ \A p \in 1..FrameLen :
       LET u == line[i + p - 1] IN u.ok /\ u.pos = p /\ u.seq = line[i].seq

(* Mutant: a frame of the right length will do.                            *)
CrcOkByLength == taken = sync + FrameLen - 1

CrcOk == taken = sync + FrameLen - 1 /\ FrameAt(sync)

(* Phase 4: CRC and cmdId.                                                 *)
Verify ==
  /\ pc = "tail"
  /\ pos = hdr.len
  /\ \/ /\ CrcOk /\ hdr.cmd = "data"
        /\ accepted' = Append(accepted, line[sync].seq)
        /\ result' = "frame"
        /\ pc' = "idle"
        /\ UNCHANGED <<calls, failed>>
     \/ ~(CrcOk /\ hdr.cmd = "data") /\ Fail("bad")
  /\ UNCHANGED <<recording, frames, line, taken, faults, state, sync, hdr, pos, start>>
-----------------------------------------------------------------------------
Next ==
  \/ Push \/ PushFaulty \/ StartRecord \/ StopRecord
  \/ Call \/ Deadline \/ Hunt \/ Header \/ ReadTail \/ Verify

Spec == Init /\ [][Next]_vars
-----------------------------------------------------------------------------
(* Properties                                                              *)

(* The frames that came through unharmed and have been read past.          *)
Passed ==
  {line[i].seq : i \in {i \in 1..(taken - FrameLen + 1) : FrameAt(i)}}

Returned == {accepted[i] : i \in DOMAIN accepted}

(* Whatever the hunt takes for a frame, what is returned is a data frame   *)
(* as the board sent it; no frame comes twice, none out of order.          *)
FramesInOrder ==
  pc = "idle" =>
    /\ Returned \subseteq {n \in Passed : frames[n] = "data"}
    /\ \A i \in 2..Len(accepted) : accepted[i - 1] < accepted[i]

(* A data frame that has come through unharmed.                            *)
Sound(n) ==
  /\ frames[n] = "data"
  /\ \E i \in 1..(Len(line) - FrameLen + 1) : line[i].seq = n /\ FrameAt(i)

(* The recording as a channel: what there is to receive, and what was.     *)
Recording ==
  INSTANCE LossyChannel WITH
    Msgs <- {"data", "other"},
    log  <- [n \in DOMAIN frames |-> IF Sound(n) THEN "data" ELSE "other"],
    got  <- [i \in DOMAIN accepted |-> [seq |-> accepted[i], msg |-> "data"]]

(* Whatever the hunt takes for a frame: a frame is returned in one step,   *)
(* after all returned before it, and only if it is data and came through   *)
(* unharmed; acknowledgements and harmed frames are passed over; and what  *)
(* was returned is never taken back.                                       *)
FrameChannel == Recording!Spec

(* A call that begins at a frame's first byte returns that frame or times  *)
(* out, whatever bytes the payload consists of: only the deadline, damage  *)
(* and foreign frames bring the program out of step.                       *)
StaysInStep ==
  pc = "idle" /\ calls > 0 /\ FrameAt(start + 1) /\ frames[line[start + 1].seq] = "data"
  => \/ result = "deadline"
     \/ result = "frame" /\ accepted[Len(accepted)] = line[start + 1].seq

(* "recovers from desync" (CustomProtocol.h:38): on a faultless line, and  *)
(* unless a payload looks like a header, a call that fails costs one frame *)
(* at most, the acknowledgement of the start among them.                   *)
Imitated ==
  \E i \in 1..(Len(line) - 1) :
    line[i].val = "55" /\ line[i + 1].val = "AA" /\ line[i].pos # 1

LossBounded ==
  pc = "idle" /\ faults = 0 /\ ~Imitated => Cardinality(Passed \ Returned) <= failed
=============================================================================
