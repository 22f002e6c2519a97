------------------------------ MODULE LossyChannel ------------------------------
(***************************************************************************)
(* What the protocol of the ADC board promises its users, whichever of its *)
(* two modes they use and whatever becomes of single bytes: a channel that *)
(* may lose messages.  A message is received whole or not at all, once, as *)
(* what it was sent as, and never after one that was sent later.           *)
(*                                                                         *)
(* AdcLink refines this module with the answers to its commands, OnlineLink *)
(* with the frames of a recording.                                         *)
(***************************************************************************)
EXTENDS Integers, Sequences

CONSTANT Msgs   \* what may be sent

VARIABLES
  log,  \* every message the board has sent
  got   \* those received: which of the log, and as what it was taken

vars == <<log, got>>

(* The last message received; those before it will not be received again,  *)
(* nor those that were passed over.                                        *)
Newest == IF got = <<>> THEN 0 ELSE got[Len(got)].seq
-----------------------------------------------------------------------------
Init ==
  /\ log = <<>>
  /\ got = <<>>

Put(m) ==
  /\ log' = Append(log, m)
  /\ UNCHANGED got

Take ==
  /\ \E n \in (Newest + 1)..Len(log) :
       got' = Append(got, [seq |-> n, msg |-> log[n]])
  /\ UNCHANGED log

Next == (\E m \in Msgs : Put(m)) \/ Take

Spec == Init /\ [][Next]_vars
=============================================================================
