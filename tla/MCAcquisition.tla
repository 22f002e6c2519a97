----------------------------- MODULE MCAcquisition -----------------------------
(* Acquisition for TLC: small queues and a window of two points.           *)
EXTENDS Acquisition
=============================================================================
