------------------------------- MODULE MCAdcLink -------------------------------
(* AdcLink for TLC.  Frames of three and four units against headers of two: *)
(* as 43 bytes against 5, a reading has no divisor in common with a header. *)
EXTENDS AdcLink

MCBodyLen == [k \in Kinds |-> IF k = "adc" THEN 1 ELSE 2]
=============================================================================
