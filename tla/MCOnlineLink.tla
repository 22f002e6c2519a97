------------------------------ MODULE MCOnlineLink ------------------------------
(* OnlineLink for TLC.  A tail is two units of payload and the CRC.        *)
EXTENDS OnlineLink

(* The CRC may end in 55; a payload may look like 55 AA.                   *)
MCTails == {<<"other", "other", "55">>, <<"55", "AA", "other">>}
=============================================================================
