-------------------------------- MODULE AdcLink --------------------------------
(***************************************************************************)
(* The request-response link to the ADC board: SerialPort::read under      *)
(* CustomProtocol::recv_response under DeviceDriver::read_adc, read_status *)
(* and write_adc_ch_enable, or under the program check_ch_enable.          *)
(*                                                                         *)
(* A call sends one command and makes two reads, the header and the tail,  *)
(* each with a timeout of its own.  What the reads take from the port is   *)
(* gone, whatever becomes of the call; nothing flushes or resynchronises.  *)
(*                                                                         *)
(* The board and the line are external: the board answers the commands in  *)
(* order, when it likes, and the bytes arrive in order, some at a time.    *)
(* A fault is an answer that never comes, or that loses or garbles a byte. *)
(*                                                                         *)
(* Data.  A byte is where it belongs: which frame, which place in it, and  *)
(* whether it came through unharmed.  The header is two units, head with   *)
(* cmdId and frameLen; a tail of BodyLen[k] units ends in the CRC.  That   *)
(* a payload imitates a header or a damaged frame has the right CRC by     *)
(* chance is left out, as is a payload longer than rx_max.                 *)
(***************************************************************************)
EXTENDS Integers, Sequences

CONSTANTS
  Kinds,      \* the commands: "adc" (0x08), "params" (0x01/0x02), "status" (0x30)
  BodyLen,    \* [Kinds -> length of the tail of the answer]
  MaxTail,    \* bound of the model: the longest tail a garbled length asks for
  MaxSent,    \* bound of the model: commands sent
  MaxFaults   \* bound of the model: faults of board and line

ASSUME LinkAssumption ==
  /\ {"adc", "params"} \subseteq Kinds
  /\ BodyLen \in [Kinds -> Nat \ {0}]
  /\ {MaxTail, MaxSent, MaxFaults} \subseteq Nat

VARIABLES
  sent,      \* the commands sent, by kind; the n-th answer is to the n-th
  answered,  \* how many of them the board has dealt with
  line,      \* the bytes of the answers, those lost on the way taken out
  arrived,   \* how many of them the tty buffer has received ...
  taken,     \* ... and how many the program has read
  faults,    \* faults so far (model bound)
  client,    \* who has the port: "driver" or "check", check_ch_enable
  skipped,   \* commands sent by a client that did not read their answer
  pc, want,  \* the call under way and the answer it waits for
  hdr,       \* hdr of recv_response, parsed
  outcome,   \* the last call: its kind, its result, the answer it accepted
  accepted,  \* history: the answers accepted, with the call that took them
  missed,    \* history: a fault, or a read that came up short
  badHeads   \* history: bad headers in a row, no short read in between

user == <<client, skipped>>
host == <<pc, want, hdr, outcome, accepted>>
vars == <<sent, answered, line, arrived, taken, faults, user, host, missed, badHeads>>

HeaderLen == 2

Avail == arrived - taken

Init ==
  /\ sent = <<>> /\ answered = 0
  /\ line = <<>> /\ arrived = 0 /\ taken = 0
  /\ faults = 0
  /\ client \in {"driver", "check"} /\ skipped = 0
  /\ pc = IF client = "driver" THEN "idle" ELSE "enable"
  /\ want = "adc"
  /\ hdr = [cmd |-> "none", need |-> 0, sound |-> FALSE]
  /\ outcome = [call |-> "none", ret |-> FALSE, seq |-> 0]
  /\ accepted = <<>>
  /\ missed = FALSE /\ badHeads = 0
-----------------------------------------------------------------------------
(* The board and the line (external).                                      *)

Frame(n) ==
  [p \in 1..(HeaderLen + BodyLen[sent[n]]) |-> [seq |-> n, pos |-> p, ok |-> TRUE]]

Deliver(bytes) ==
  /\ answered < Len(sent)
  /\ answered' = answered + 1
  /\ line' = line \o bytes
  /\ UNCHANGED <<sent, arrived, taken, user, host, badHeads>>

Answer ==
  /\ Deliver(Frame(answered + 1))
  /\ UNCHANGED <<faults, missed>>

(* Silence, a lost byte, a garbled byte.                                   *)
Fault ==
  /\ faults < MaxFaults
  /\ faults' = faults + 1
  /\ missed' = TRUE
  /\ answered < Len(sent)
  /\ LET f == Frame(answered + 1) IN
       \/ Deliver(<<>>)
       \/ \E p \in DOMAIN f :
            \/ Deliver(SubSeq(f, 1, p - 1) \o SubSeq(f, p + 1, Len(f)))
            \/ Deliver([f EXCEPT ![p].ok = FALSE])

Arrive ==
  /\ \E n \in (arrived + 1)..Len(line) : arrived' = n
  /\ UNCHANGED <<sent, answered, line, taken, faults, user, host, missed, badHeads>>
-----------------------------------------------------------------------------
(* DeviceDriver.  read_adc does not look at what recv_response returned    *)
(* and decodes whatever its buffer holds; the others want an answer, and   *)
(* write_adc_ch_enable the bitmap it asked for in it.                      *)

Return(seq) ==
  /\ pc' = IF client = "driver" THEN "idle" ELSE "done"
  /\ \E r \in IF want = "adc" THEN {TRUE}
              ELSE IF seq = 0 THEN {FALSE}
              ELSE IF want = "params" THEN BOOLEAN ELSE {TRUE} :
       outcome' = [call |-> want, ret |-> r, seq |-> seq]
  /\ accepted' = IF seq = 0 THEN accepted
                 ELSE Append(accepted, [seq |-> seq, call |-> want, at |-> Len(sent)])

(* Who may send what now: the driver any command, check_ch_enable the      *)
(* reading of the parameters, and it is over when that could not be sent.  *)
Due(k) ==
  \/ pc = "idle" /\ Len(sent) < MaxSent
  \/ pc = "readback" /\ k = "params"

(* Mutant: throw away the input before each command.                       *)
CallFlush(k) ==
  /\ Due(k)
  /\ want' = k
  /\ sent' = Append(sent, k)
  /\ pc' = "header"
  /\ taken' = arrived
  /\ UNCHANGED <<answered, line, arrived, faults, user, hdr, outcome, accepted, missed,
                 badHeads>>

(* send_command; a write that fails or is short reaches nobody.            *)
Call(k) ==
  /\ Due(k)
  /\ want' = k
  /\ \/ /\ sent' = Append(sent, k)
        /\ pc' = "header"
        /\ UNCHANGED outcome
     \/ /\ outcome' = [call |-> k, ret |-> FALSE, seq |-> 0]
        /\ pc' = IF client = "driver" THEN "idle" ELSE "done"
        /\ UNCHANGED sent
  /\ UNCHANGED <<answered, line, arrived, taken, faults, user, hdr, accepted, missed,
                 badHeads>>

(* The first step of check_ch_enable: the command that enables the         *)
(* channels, whose answer it does not wait for.                            *)
Enable ==
  /\ pc = "enable"
  /\ \/ sent' = Append(sent, "params") /\ skipped' = 1 /\ pc' = "readback"
     \/ UNCHANGED <<sent, skipped>> /\ pc' = "done"
  /\ UNCHANGED <<answered, line, arrived, taken, faults, client, want, hdr, outcome,
                 accepted, missed, badHeads>>
-----------------------------------------------------------------------------
(* SerialPort::read, once select has returned: up to len bytes of those    *)
(* that are there.  None there is the timeout, or a signal that broke off  *)
(* the select: the bytes may always be on the way still.                   *)
ReadLen(len) == IF Avail < len THEN Avail ELSE len

(* The first half of recv_response.  A garbled head is a bad head or a     *)
(* wrong cmdId; a frameLen that is not one asks for any tail, or for one   *)
(* out of range.                                                           *)

ShortHeader ==
  /\ ReadLen(HeaderLen) < HeaderLen
  /\ Return(0)
  /\ missed' = TRUE /\ badHeads' = 0
  /\ UNCHANGED hdr

BadHeader ==
  LET h == line[taken + 1] IN
  /\ ReadLen(HeaderLen) = HeaderLen
  /\ h.pos # 1 \/ ~h.ok
  /\ Return(0)
  /\ badHeads' = badHeads + 1
  /\ UNCHANGED <<hdr, missed>>

BadLength ==
  LET h == line[taken + 1]
      l == line[taken + 2] IN
  /\ ReadLen(HeaderLen) = HeaderLen
  /\ h.pos = 1
  /\ l.pos # 2 \/ ~l.ok
  /\ Return(0)
  /\ badHeads' = 0
  /\ UNCHANGED <<hdr, missed>>

GoodHeader ==
  LET h == line[taken + 1]
      l == line[taken + 2]
      whole == l.pos = 2 /\ l.ok IN
  /\ ReadLen(HeaderLen) = HeaderLen
  /\ h.pos = 1
  /\ \E need \in IF whole THEN {BodyLen[sent[l.seq]]} ELSE 1..MaxTail :
       hdr' = [cmd |-> IF h.ok THEN sent[h.seq] ELSE "none",
               need |-> need,
               sound |-> h.ok /\ whole /\ sent[h.seq] = sent[l.seq]]
  /\ pc' = "tail"
  /\ badHeads' = 0
  /\ UNCHANGED <<outcome, accepted, missed>>

(* Mutant: leave a bad header in the port.                                 *)
RecvHeaderPeek ==
  /\ pc = "header"
  /\ \/ ShortHeader /\ taken' = arrived
     \/ BadHeader /\ taken' = taken
     \/ (BadLength \/ GoodHeader) /\ taken' = taken + HeaderLen
  /\ UNCHANGED <<sent, answered, line, arrived, faults, user, want>>

RecvHeader ==
  /\ pc = "header"
  /\ taken' = taken + ReadLen(HeaderLen)
  /\ ShortHeader \/ BadHeader \/ BadLength \/ GoodHeader
  /\ UNCHANGED <<sent, answered, line, arrived, faults, user, want>>

(* The second half: the tail, its CRC, its cmdId.                          *)
Body == SubSeq(line, taken + 1, taken + hdr.need)

CrcOk ==
  /\ hdr.sound
  /\ \A i \in 1..hdr.need :
       LET b == Body[i] IN
       b.ok /\ b.pos = HeaderLen + i /\ b.seq = Body[1].seq
  /\ sent[Body[1].seq] = hdr.cmd

(* Mutants: take an answer of any kind; leave the last of the tail behind. *)
RecvTailAnyCmd ==
  /\ pc = "tail"
  /\ taken' = taken + ReadLen(hdr.need)
  /\ \/ ReadLen(hdr.need) < hdr.need /\ Return(0) /\ missed' = TRUE
     \/ /\ ReadLen(hdr.need) = hdr.need
        /\ Return(IF CrcOk THEN Body[1].seq ELSE 0)
        /\ UNCHANGED missed
  /\ UNCHANGED <<sent, answered, line, arrived, faults, user, want, hdr, badHeads>>

RecvTailLeaveCrc ==
  /\ pc = "tail"
  /\ ReadLen(hdr.need) = hdr.need
  /\ taken' = taken + hdr.need - 1
  /\ Return(IF CrcOk /\ hdr.cmd = want THEN Body[1].seq ELSE 0)
  /\ UNCHANGED <<sent, answered, line, arrived, faults, user, want, hdr, missed,
                 badHeads>>

RecvTail ==
  /\ pc = "tail"
  /\ taken' = taken + ReadLen(hdr.need)
  /\ \/ ReadLen(hdr.need) < hdr.need /\ Return(0) /\ missed' = TRUE
     \/ /\ ReadLen(hdr.need) = hdr.need
        /\ Return(IF CrcOk /\ hdr.cmd = want THEN Body[1].seq ELSE 0)
        /\ UNCHANGED missed
  /\ UNCHANGED <<sent, answered, line, arrived, faults, user, want, hdr, badHeads>>
-----------------------------------------------------------------------------
Next ==
  \/ Answer \/ Fault \/ Arrive
  \/ Enable
  \/ \E k \in Kinds : Call(k)
  \/ RecvHeader \/ RecvTail

Spec == Init /\ [][Next]_vars
-----------------------------------------------------------------------------
(* Properties                                                              *)

(* Whatever is lost, garbled or late: an answer is accepted at most once,  *)
(* answers are accepted in the order of their commands, never before the   *)
(* command, and never by a call of another kind - the late answer to the   *)
(* channel enable does not pass for a reading.                             *)
AnswersInOrder ==
  \A i \in 1..Len(accepted) :
    /\ accepted[i].seq <= accepted[i].at
    /\ sent[accepted[i].seq] = accepted[i].call
    /\ i > 1 => accepted[i - 1].seq < accepted[i].seq

(* The link as a channel: the answers there have been, by their kinds, and *)
(* those received, as what they were taken for.                            *)
Answers ==
  INSTANCE LossyChannel WITH
    Msgs <- Kinds,
    log  <- SubSeq(sent, 1, answered),
    got  <- [i \in DOMAIN accepted |-> [seq |-> accepted[i].seq, msg |-> accepted[i].call]]

(* Whatever is lost, garbled or late: an answer is received in one step,   *)
(* once it has been given, after all received before it, by a call of the  *)
(* kind it is for; and what was received is never taken back.              *)
AnswerChannel == Answers!Spec

(* As long as no read has come up short and the line is faultless, every   *)
(* call of the driver gets the answer to its own command.  check_ch_enable *)
(* gets the answer to the one before, which it sent to enable the channels. *)
FreshWhileTimely ==
  ~missed /\ pc \in {"idle", "done"} =>
    /\ Len(accepted) + skipped = Len(sent)
    /\ \A i \in 1..Len(accepted) :
         accepted[i].seq = i /\ accepted[i].at = i + skipped

(* On a faultless line a delay is never made up for: once a reading is so  *)
(* many commands old, every later one is at least as old.                  *)
Age(i) == accepted[i].at - accepted[i].seq

LagNeverHeals ==
  faults = 0 => \A i \in 2..Len(accepted) : Age(i) >= Age(i - 1)

(* Out of step with the readings of a faultless line, recv_response hits on *)
(* a boundary again by itself: frame and header have no common divisor, so *)
(* it fails fewer times in a row than a frame has bytes.                   *)
ResyncBound ==
  faults = 0 /\ sent \in Seq({"adc"}) => badHeads < HeaderLen + BodyLen["adc"]

(* data_output.csv has "one row per frame" (README.md:31): a reading that  *)
(* counts as successful was received.                                      *)
RowPerFrame ==
  outcome.call = "adc" /\ outcome.ret => outcome.seq > 0
=============================================================================
