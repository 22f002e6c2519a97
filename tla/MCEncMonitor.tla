------------------------------ MODULE MCEncMonitor ------------------------------
(* EncMonitor for TLC: a ring of five, so that the reader comes round it;  *)
(* gaps even and uneven.                                                   *)
EXTENDS EncMonitor

MCGaps == {2, 3}
MCOneGap == {2}
=============================================================================
