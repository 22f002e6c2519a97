-------------------------------- MODULE MCCh34x --------------------------------
(* Ch34x for TLC.  The two halves of the driver, the bytes on one side, the *)
(* lines and their status on the other, share the USB core, open and close *)
(* but no data: each is explored with the other one unused.                *)
EXTENDS Ch34x

(* An error and, on another report, none.                                  *)
MCReports == {[status |-> {4}, control |-> {"DTR"}], [status |-> {}, control |-> {}]}

VARIABLE uses   \* which half the program uses

MCInit == Init /\ uses \in {"bytes", "lines"}

MCNext ==
  /\ Next
  /\ uses = "bytes" =>
       line_status' = line_status /\ rate' = rate /\ pc'["ioctl"] = pc["ioctl"]
  /\ uses = "lines" => accepted' = accepted
  /\ uses' = uses

MCSpec == MCInit /\ [][MCNext]_<<vars, uses>>
=============================================================================
