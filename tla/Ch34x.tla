--------------------------------- MODULE Ch34x ---------------------------------
(***************************************************************************)
(* ch34x.c, the kernel driver of the USB serial converter: one port.       *)
(*                                                                         *)
(* Threads.  "user" has the port open: open, set_termios, write, close.    *)
(* "ioctl" is another thread of that program: tiocmset and TIOCMIWAIT.     *)
(* "write", "read", "int" are the completion handlers of the three URBs,   *)
(* named like these.  What a handler or a call does under priv->lock is    *)
(* one step, and what it does after it with nobody to notice belongs to it. *)
(*                                                                         *)
(* USB core, tty layer and chip are external: an URB is given to the host  *)
(* controller (flight), ends there with a status, and its handler runs;    *)
(* usb_kill_urb makes it end, refuses that it is submitted again, and      *)
(* waits for the handler.  The tty layer does not call close while a call  *)
(* of the program is under way, unless it hangs up an unplugged device.    *)
(*                                                                         *)
(* Data.  The bytes written are numbered.  Registers are sets: of the bits *)
(* of a line status, of the lines raised.  Received bytes are left out but *)
(* for their flag, termios but for the rate and HUPCL, which may be set.   *)
(***************************************************************************)
EXTENDS Ch34xBuffer

CONSTANTS
  BulkOut,    \* bulk_out_size
  Rates,      \* the rates the program may set, 0 is B0
  Standard,   \* the rate of a port opened for the first time (lines 408-414)
  Reports,    \* [status, control]: what an interrupt transfer may say
  MaxBytes,   \* bound of the model: bytes written
  MaxFaults   \* bound of the model: failures of transfers and messages

ASSUME DriverAssumption ==
  /\ BulkOut \in Nat \ {0} /\ MaxBytes \in Nat \ {0} /\ MaxFaults \in Nat
  /\ Bytes = 1..MaxBytes
  /\ Rates \subseteq Nat /\ Standard \in Nat \ {0}
  /\ \A r \in Reports : r.status \subseteq Nat /\ r.control \subseteq STRING

Urbs == {"write", "read", "int"}
Threads == {"user", "ioctl"} \cup Urbs
Outputs == {"DTR", "RTS"}
Ended == {"ok", "gone", "proto", "error"}  \* how a transfer may end
Transient == {1, 2, 4}    \* UART_STATE_TRANSIENT_MASK

VARIABLES
  buf,          \* priv->buf
  write_urb_in_use,
  xfer,         \* what write_urb carries
  line_status, line_control, wait_flag,
  rate,         \* the rate in the termios
  pc,           \* where each thread is
  control,      \* local variable of set_termios and tiocmset
  prevstatus,   \* local variable of wait_modem_info
  flight, killing,          \* URBs submitted, and being killed
  plugged, chip,            \* the device: rate and lines as programmed
  faults,       \* failures so far (model bound)
  accepted,     \* history: bytes the driver has accepted from the program
  wire,         \* history: the last one sent, or given up by a close
  intact,       \* history: nothing has befallen the bytes of this session
  stalled,      \* history: the last send could not be submitted
  deaf,         \* history: URBs that an error has put out of use
  unflagged,    \* history: line errors reported since data last came
  overtaken,    \* history: a report or a read without data has passed them
  muddled       \* history: why line_control may not be what the chip was told

write_vars == <<buf, write_urb_in_use, xfer, accepted, wire, intact, stalled>>
errors == <<unflagged, overtaken>>
line_vars == <<line_status, line_control, wait_flag, rate, control, prevstatus,
               chip, errors, muddled>>
urb_vars == <<flight, killing, plugged, faults, deaf>>
vars == <<write_vars, line_vars, urb_vars, pc>>

Goto(t, l) == pc' = [pc EXCEPT ![t] = l]

Init ==
  /\ buf = Allocated /\ write_urb_in_use = FALSE /\ xfer = <<>>
  /\ line_status = {} /\ line_control = {} /\ wait_flag = FALSE
  /\ rate = Standard
  /\ pc = [t \in Threads |-> IF t = "user" THEN "detached" ELSE "idle"]
  /\ control = [t \in {"user", "ioctl"} |-> {}] /\ prevstatus = {}
  /\ flight = {} /\ killing = {}
  /\ plugged = TRUE /\ chip = [rate |-> 0, lines |-> {}]
  /\ faults = 0
  /\ accepted = 0 /\ wire = 0 /\ intact = TRUE /\ stalled = FALSE
  /\ deaf = {} /\ unflagged = {} /\ overtaken = FALSE /\ muddled = FALSE

(* One more failure; or the device is gone and everything fails.           *)
Fault == IF plugged THEN faults < MaxFaults /\ faults' = faults + 1
                    ELSE UNCHANGED faults
-----------------------------------------------------------------------------
(* The USB core (external).                                                *)

(* usb_submit_urb.                                                         *)
Submit(u) ==
  /\ plugged /\ u \notin killing /\ u \notin flight
  /\ flight' = flight \cup {u}
  /\ UNCHANGED faults

Refused(u) ==
  /\ IF u \in killing THEN UNCHANGED faults ELSE Fault
  /\ UNCHANGED flight

(* "gone" is -ENOENT, -ECONNRESET or -ESHUTDOWN.                           *)
EndsWith(u, s) ==
  /\ u \in flight /\ pc[u] = "idle"
  /\ \/ s = "ok" /\ plugged /\ UNCHANGED faults
     \/ s = "gone" /\ (u \in killing \/ ~plugged) /\ UNCHANGED faults
     \/ s \in {"proto", "error"} /\ plugged /\ Fault
  /\ flight' = flight \ {u}
  /\ Goto(u, s)
  /\ deaf' = IF s = "gone" \/ (s = "error" /\ u = "read") THEN deaf \cup {u} ELSE deaf
  /\ UNCHANGED <<line_vars, killing, plugged>>

Complete(u, s) == u # "write" /\ EndsWith(u, s) /\ UNCHANGED write_vars

(* Of a transfer that does not end well any number of bytes may be out.    *)
CompleteWrite(s) ==
  /\ EndsWith("write", s)
  /\ \E n \in IF s = "ok" THEN {Len(xfer)} ELSE 0..Len(xfer) :
       wire' = IF n = 0 \/ xfer[n] < wire THEN wire ELSE xfer[n]
  /\ xfer' = IF s = "ok" THEN <<>> ELSE xfer
  /\ intact' = (intact /\ s = "ok")
  /\ UNCHANGED <<buf, write_urb_in_use, accepted, stalled>>

Unplug ==
  /\ plugged /\ plugged' = FALSE
  /\ UNCHANGED <<write_vars, line_vars, flight, killing, faults, deaf, pc>>

(* A control message, whose result the driver does not look at.            *)
Tell(c) ==
  \/ plugged /\ chip' = c /\ UNCHANGED faults
  \/ Fault /\ UNCHANGED chip
-----------------------------------------------------------------------------
(* ch34x_attach; when an allocation fails it leaves nothing behind.        *)
Attach ==
  /\ pc["user"] = "detached" /\ plugged
  /\ Goto("user", "closed")
  /\ UNCHANGED <<write_vars, line_vars, urb_vars>>

(* The lines for a rate, in ch34x_set_termios.                             *)
LinesFor(r) == IF r = 0 THEN line_control \ Outputs ELSE line_control \cup Outputs

(* ch34x_open calls ch34x_set_termios with tmp_termios for the old ones,   *)
(* which is never set: by chance nothing seems to change and nothing is    *)
(* programmed.  The termios are those of the last session, after the first *)
(* open those of Init.  Nobody else can use the port yet.                  *)
Open ==
  /\ pc["user"] = "closed" /\ plugged
  /\ Goto("user", "open_read")
  /\ \/ UNCHANGED <<line_control, chip, faults, muddled>>
     \/ LET c == [rate |-> rate, lines |-> LinesFor(rate) \cap Outputs] IN
        /\ line_control' = LinesFor(rate)
        /\ Tell(c)
        /\ muddled' = (muddled \/ chip' # c)
  /\ UNCHANGED <<write_vars, line_status, wait_flag, rate, control, prevstatus,
                 errors, flight, killing, plugged, deaf>>

OpenSubmit(u, here, next) ==
  /\ pc["user"] = here
  /\ \/ Submit(u) /\ Goto("user", next)
     \/ Refused(u) /\ Goto("user", "close")
  /\ UNCHANGED <<write_vars, line_vars, killing, plugged, deaf>>

(* ch34x_set_termios with something new in the termios, the rate or another *)
(* setting of the hardware.  ch34x_get_baud_rate divides by the rate.      *)
SetTermios(r) ==
  /\ pc["user"] = "ready"
  /\ rate' = r
  /\ IF r = 0
     THEN /\ Goto("user", "oops")
          /\ UNCHANGED <<line_control, control, chip, faults, muddled>>
     ELSE /\ Tell([chip EXCEPT !.rate = r])
          /\ line_control' = LinesFor(r)
          /\ IF LinesFor(r) = line_control
             THEN Goto("user", "ready") /\ UNCHANGED <<control, muddled>>
             ELSE /\ Goto("user", "lines")
                  /\ control' = [control EXCEPT !["user"] = LinesFor(r)]
                  /\ muddled' = (muddled \/ pc["ioctl"] = "lines")
  /\ UNCHANGED <<write_vars, line_status, wait_flag, prevstatus, errors, flight,
                 killing, plugged, deaf>>

(* set_control_lines, after the lock, with the value it was read to.       *)
SetControlLines(t) ==
  /\ pc[t] = "lines"
  /\ Tell([chip EXCEPT !.lines = control[t] \cap Outputs])
  /\ muddled' = (muddled \/ chip'.lines # control[t] \cap Outputs)
  /\ Goto(t, IF t = "user" THEN "ready" ELSE "idle")
  /\ control' = [control EXCEPT ![t] = {}]
  /\ UNCHANGED <<write_vars, line_status, line_control, wait_flag, rate,
                 prevstatus, errors, flight, killing, plugged, deaf>>
-----------------------------------------------------------------------------
(* ch34x_write: as many of n bytes as there is room for.                   *)
Write(n) ==
  /\ pc["user"] = "ready" /\ accepted + n <= MaxBytes
  /\ LET s == [i \in 1..n |-> accepted + i] IN
       /\ buf' = BufPut(buf, s)
       /\ accepted' = accepted + PutCount(buf, s)
  /\ Goto("user", "send")
  /\ UNCHANGED <<write_urb_in_use, xfer, wire, intact, stalled, line_vars,
                 urb_vars>>

Return(t) == Goto(t, IF t = "user" THEN "ready" ELSE "idle")

(* The next transfer is taken out of the buffer.                           *)
TakeTransfer(t) ==
  /\ xfer' = BufTaken(buf, BulkOut)
  /\ buf' = BufGet(buf, BulkOut)
  /\ write_urb_in_use' = TRUE
  /\ stalled' = FALSE
  /\ Goto(t, "submit")
  /\ UNCHANGED <<accepted, wire, intact>>

(* Mutant: without a look at write_urb_in_use.                             *)
SendAlways(t) ==
  /\ pc[t] = "send"
  /\ IF DataAvail(buf) = 0
     THEN Return(t) /\ UNCHANGED write_vars
     ELSE TakeTransfer(t)
  /\ UNCHANGED <<line_vars, urb_vars>>

(* ch34x_send, called by ch34x_write and by the handler: under the lock,   *)
Send(t) ==
  /\ pc[t] = "send"
  /\ IF write_urb_in_use \/ DataAvail(buf) = 0
     THEN Return(t) /\ UNCHANGED write_vars
     ELSE TakeTransfer(t)
  /\ UNCHANGED <<line_vars, urb_vars>>

(* and after it.  "reschedule ch34x_send", it says (line 902), and does not. *)
SendSubmit(t) ==
  /\ pc[t] = "submit"
  /\ Return(t)
  /\ \/ Submit("write") /\ UNCHANGED <<write_urb_in_use, xfer, intact, stalled>>
     \/ /\ Refused("write")
        /\ write_urb_in_use' = FALSE
        /\ xfer' = <<>> /\ intact' = FALSE /\ stalled' = TRUE
  /\ UNCHANGED <<buf, accepted, wire, line_vars, killing, plugged, deaf>>

(* ch34x_write_bulk_callback: done, terminated, or an error, after which   *)
(* the first byte is sent again and the others of the transfer are not.    *)
WriteFreed(next) == write_urb_in_use' = FALSE /\ Goto("write", next)

WriteAgain ==
  /\ pc["write"] \in {"proto", "error"}
  /\ \/ /\ Submit("write")
        /\ xfer' = SubSeq(xfer, 1, 1)
        /\ Goto("write", "idle")
        /\ UNCHANGED write_urb_in_use
     \/ /\ Refused("write")
        /\ xfer' = <<>>
        /\ WriteFreed("send")

(* Mutant: what is in the buffer waits for the next write.                 *)
WriteDoneIdle ==
  /\ \/ /\ pc["write"] \in {"ok", "gone"}
        /\ WriteFreed("idle")
        /\ xfer' = <<>>
        /\ UNCHANGED <<flight, faults>>
     \/ WriteAgain
  /\ UNCHANGED <<buf, accepted, wire, intact, stalled, line_vars, killing, plugged,
                 deaf>>

WriteDone ==
  /\ \/ /\ pc["write"] \in {"ok", "gone"}
        /\ WriteFreed(IF pc["write"] = "ok" THEN "send" ELSE "idle")
        /\ xfer' = <<>>
        /\ UNCHANGED <<flight, faults>>
     \/ WriteAgain
  /\ UNCHANGED <<buf, accepted, wire, intact, stalled, line_vars, killing, plugged,
                 deaf>>
-----------------------------------------------------------------------------
(* usb_submit_urb at the end of a handler.                                 *)
Again(u) ==
  \/ Submit(u) /\ UNCHANGED deaf
  \/ Refused(u) /\ deaf' = deaf \cup {u}

(* Mutant: the errors stay.                                                *)
StatusReadKept == line_status

StatusRead == line_status \ Transient

(* Mutant: no second chance.                                               *)
NoRetry == {"ok"}

Retry == {"ok", "proto"}

(* ch34x_read_bulk_callback: the data goes to the tty with the flag of the *)
(* errors recorded, which are cleared also if there is no data or no tty.  *)
(* Of the errors of a transfer only -EPROTO makes it try again.            *)
ReadDone ==
  /\ pc["read"] \in Ended
  /\ Goto("read", "idle")
  /\ IF pc["read"] = "ok"
     THEN /\ line_status' = StatusRead /\ wait_flag' = TRUE
          /\ \/ unflagged' = {} /\ overtaken' = FALSE
             \/ UNCHANGED unflagged /\ overtaken' = (overtaken \/ unflagged # {})
     ELSE UNCHANGED <<line_status, wait_flag, errors>>
  /\ IF pc["read"] \in Retry
     THEN Again("read")
     ELSE UNCHANGED <<flight, faults, deaf>>
  /\ UNCHANGED <<write_vars, line_control, rate, control, prevstatus, chip, muddled,
                 killing, plugged>>

(* The flag of the data of that transfer, from the status as it was.       *)
TtyFlag(status) == CASE 2 \in status -> "parity"
                     [] 1 \in status -> "overrun"
                     [] 4 \in status -> "frame"
                     [] OTHER        -> "normal"

(* ch34x_update_line_status: a report of four bytes or nothing.  The       *)
(* status of the inputs overwrites what is recorded of the outputs, and    *)
(* the errors of this report those of the last one, flagged or not.        *)
UpdateLineStatus ==
  \/ UNCHANGED <<line_status, line_control, wait_flag, errors, muddled>>
  \/ \E r \in Reports :
       /\ line_status' = r.status /\ line_control' = r.control
       /\ wait_flag' = TRUE
       /\ unflagged' = unflagged \cup (r.status \cap Transient)
       /\ overtaken' = (overtaken \/ ~(unflagged \subseteq r.status))
       /\ muddled' = TRUE

(* ch34x_read_int_callback.                                                *)
IntDone ==
  /\ pc["int"] \in Ended
  /\ Goto("int", "idle")
  /\ IF pc["int"] = "ok"
     THEN UpdateLineStatus
     ELSE UNCHANGED <<line_status, line_control, wait_flag, errors, muddled>>
  /\ IF pc["int"] = "gone"
     THEN UNCHANGED <<flight, faults, deaf>>
     ELSE Again("int")
  /\ UNCHANGED <<write_vars, rate, control, prevstatus, chip, killing, plugged>>
-----------------------------------------------------------------------------
(* The other thread.  The port is open.                                    *)
InUse == pc["user"] \in {"ready", "send", "submit", "lines", "oops"}

(* Mutant: what is sent was read before the change.                        *)
TiocmSetStale(set, clear) ==
  /\ pc["ioctl"] = "idle" /\ InUse /\ plugged
  /\ line_control' = (line_control \cup set) \ clear
  /\ control' = [control EXCEPT !["ioctl"] = line_control]
  /\ muddled' = (muddled \/ pc["user"] = "lines")
  /\ Goto("ioctl", "lines")
  /\ UNCHANGED <<write_vars, line_status, wait_flag, rate, prevstatus, chip, errors,
                 urb_vars>>

(* ch34x_tiocmset.                                                         *)
TiocmSet(set, clear) ==
  /\ pc["ioctl"] = "idle" /\ InUse /\ plugged
  /\ line_control' = (line_control \cup set) \ clear
  /\ control' = [control EXCEPT !["ioctl"] = line_control']
  /\ muddled' = (muddled \/ pc["user"] = "lines")
  /\ Goto("ioctl", "lines")
  /\ UNCHANGED <<write_vars, line_status, wait_flag, rate, prevstatus, chip, errors,
                 urb_vars>>

(* wait_modem_info.  It sleeps on wq, which nothing ever wakes up, so that *)
(* one that finds wait_flag down sleeps until a signal comes.              *)
MiWait ==
  /\ pc["ioctl"] = "idle" /\ InUse
  /\ prevstatus' = line_status
  /\ Goto("ioctl", "wait")
  /\ UNCHANGED <<write_vars, line_status, line_control, wait_flag, rate, control, chip,
                 errors, muddled, urb_vars>>

MiSleep ==
  /\ pc["ioctl"] = "wait" /\ ~wait_flag
  /\ Goto("ioctl", "asleep")
  /\ UNCHANGED <<write_vars, line_vars, urb_vars>>

MiTake ==
  /\ pc["ioctl"] = "wait" /\ wait_flag
  /\ wait_flag' = FALSE
  /\ Goto("ioctl", "check")
  /\ UNCHANGED <<write_vars, line_status, line_control, rate, control, prevstatus, chip,
                 errors, muddled, urb_vars>>

(* It compares the inputs with bits of the line status, where 1, 2 and 4   *)
(* are errors.                                                             *)
MiCheck(mask) ==
  /\ pc["ioctl"] = "check"
  /\ LET changed == (prevstatus \ line_status) \cup (line_status \ prevstatus) IN
       IF changed \cap mask # {}
       THEN Goto("ioctl", "idle") /\ prevstatus' = {}
       ELSE Goto("ioctl", "wait") /\ prevstatus' = line_status
  /\ UNCHANGED <<write_vars, line_status, line_control, wait_flag, rate, control, chip,
                 errors, muddled, urb_vars>>

MiSignal ==
  /\ pc["ioctl"] \in {"wait", "asleep"}
  /\ wait_flag' = FALSE /\ prevstatus' = {}
  /\ Goto("ioctl", "idle")
  /\ UNCHANGED <<write_vars, line_status, line_control, rate, control, chip, errors,
                 muddled, urb_vars>>
-----------------------------------------------------------------------------
(* ch34x_close, also of an open that fails half way.                       *)
Close ==
  /\ pc["user"] = "ready" /\ (pc["ioctl"] = "idle" \/ ~plugged)
  /\ Goto("user", "close")
  /\ UNCHANGED <<write_vars, line_vars, urb_vars>>

CloseClear ==
  /\ pc["user"] = "close"
  /\ buf' = BufClear(buf)
  /\ intact' = (intact /\ DataAvail(buf) = 0)
  /\ killing' = {"int"}
  /\ Goto("user", "kill")
  /\ UNCHANGED <<write_urb_in_use, xfer, accepted, wire, stalled, line_vars, flight,
                 plugged, faults, deaf>>

(* usb_kill_urb of each in turn, which returns when it has come to rest.   *)
AtRest(u) == u \notin flight /\ pc[u] = "idle"

(* Mutant: usb_unlink_urb, which does not wait.                            *)
CloseUnlink(u, next) ==
  /\ pc["user"] = "kill" /\ killing = {u}
  /\ killing' = next
  /\ Goto("user", IF next = {} THEN "drop" ELSE "kill")
  /\ UNCHANGED <<write_vars, line_vars, flight, plugged, faults, deaf>>

CloseKill(u, next) ==
  /\ pc["user"] = "kill" /\ killing = {u} /\ AtRest(u)
  /\ killing' = next
  /\ Goto("user", IF next = {} THEN "drop" ELSE "kill")
  /\ UNCHANGED <<write_vars, line_vars, flight, plugged, faults, deaf>>

(* With HUPCL the lines are dropped.  The session is over: what was not    *)
(* sent is given up.                                                       *)
CloseDrop ==
  /\ pc["user"] = "drop"
  /\ \/ UNCHANGED <<line_control, chip, faults, muddled>>
     \/ /\ line_control' = {}
        /\ Tell([chip EXCEPT !.lines = {}])
        /\ muddled' = (muddled \/ chip'.lines # {})
  /\ Goto("user", "closed")
  /\ wire' = accepted /\ intact' = TRUE /\ stalled' = FALSE /\ deaf' = {}
  /\ UNCHANGED <<buf, write_urb_in_use, xfer, accepted, line_status, wait_flag, rate,
                 control, prevstatus, errors, flight, killing, plugged>>
-----------------------------------------------------------------------------
UserThread ==
  \/ Attach \/ Open
  \/ OpenSubmit("read", "open_read", "open_int")
  \/ OpenSubmit("int", "open_int", "ready")
  \/ \E r \in Rates : SetTermios(r)
  \/ SetControlLines("user")
  \/ \E n \in Bytes : Write(n)
  \/ Send("user") \/ SendSubmit("user")
  \/ Close \/ CloseClear
  \/ CloseKill("int", {"read"}) \/ CloseKill("read", {"write"})
  \/ CloseKill("write", {})
  \/ CloseDrop

IoctlThread ==
  \/ \E set, clear \in SUBSET Outputs : TiocmSet(set, clear)
  \/ SetControlLines("ioctl")
  \/ MiWait \/ MiSleep \/ MiTake \/ MiSignal
  \/ \E mask \in SUBSET {1, 2, 4, 8} : MiCheck(mask)

Handlers == WriteDone \/ Send("write") \/ SendSubmit("write") \/ ReadDone \/ IntDone

External ==
  \/ Unplug
  \/ \E s \in Ended :
       CompleteWrite(s) \/ \E u \in Urbs : Complete(u, s)

Next == UserThread \/ IoctlThread \/ Handlers \/ External

Spec == Init /\ [][Next]_vars
-----------------------------------------------------------------------------
(* Properties                                                              *)

(* The flag write_urb_in_use stands for the one that has write_urb: the    *)
(* host controller, its handler, or a send under way, never two of them;   *)
(* the flag is cleared outside the lock.                                   *)
Holders == {t \in {"user", "write"} : pc[t] = "submit"}
           \cup {h \in Ended : pc["write"] = h}
           \cup {h \in {"flight"} : "write" \in flight}

OneHolder ==
  IF write_urb_in_use THEN \E h \in Holders : Holders = {h} ELSE Holders = {}

(* Bytes leave in the order they were accepted, none twice unless after an *)
(* error; none is lost from a session but by an error or a failure; none   *)
(* of a session is sent in a later one.                                    *)
StreamInOrder ==
  LET held == Content(buf)
      s == xfer \o held IN
  /\ \A i \in 1..Len(s) : s[i] <= accepted /\ (i > 1 => s[i - 1] < s[i])
  /\ \A i \in 1..Len(held) : wire < held[i]
  /\ intact => s = [i \in 1..(accepted - wire) |-> wire + i]

(* No byte waits in the buffer without somebody to send it, unless its     *)
(* send could not be submitted or the device is gone.                      *)
NotStranded ==
  DataAvail(buf) # 0 /\ plugged /\ ~stalled =>
    write_urb_in_use \/ pc["user"] \in {"send", "close"} \/ pc["write"] = "send"

(* Once close has returned, nothing of the port moves any more, and the    *)
(* next open finds it free.                                                *)
QuietWhenClosed ==
  pc["user"] \in {"closed", "drop"} =>
    /\ \A u \in Urbs : AtRest(u)
    /\ killing = {} /\ ~write_urb_in_use /\ DataAvail(buf) = 0

(* An open port listens: to data unless a read has failed, to the status   *)
(* of the lines unless it could not be asked for again.                    *)
Listening ==
  InUse /\ plugged =>
    \A u \in {"read", "int"} \ deaf : ~AtRest(u)

(* A line error is flagged to the next data and to none after that, also   *)
(* across close and open; what is not flagged was never reported.  It is   *)
(* lost only to a report without it, or to a read that had no data, before *)
(* data came: otherwise the flag is that of all the errors reported since. *)
ErrorsFlagged ==
  /\ line_status \cap Transient \subseteq unflagged
  /\ ~overtaken => TtyFlag(line_status) = TtyFlag(unflagged)

(* Until a report of the chip overwrites it, a message fails, or two calls *)
(* overlap, line_control is what the chip was told.                        *)
LinesAsRecorded ==
  ~muddled /\ "lines" \notin {pc["user"], pc["ioctl"]} =>
    chip.lines = line_control \cap Outputs

(* "change control lines if we are switching to or from B0" (ch34x.c:501). *)
B0DropsLines == rate = 0 => line_control \cap Outputs = {}
=============================================================================
