----------------------------- MODULE MCSequential -----------------------------
(***************************************************************************)
(* The parts of the code that are not concurrent, for TLC: each is explored *)
(* by itself while the others rest, since they share nothing.              *)
(*                                                                         *)
(* SavitzkyGolay is fed with a resting body and one that slows down and    *)
(* turns, measured with errors; OscillationDetector with positions that    *)
(* differ by less than its dead band, by more, and by more than its        *)
(* threshold.                                                              *)
(***************************************************************************)
EXTENDS SavitzkyGolay, OscillationDetector, Crc16, Devices, EdgePairs

VARIABLE part  \* the one explored

MCMotions == {[a |-> 0, b |-> 0, c |-> 4], [a |-> 2, b |-> -3, c |-> 5]}
MCNoise == {0, 1, 3}
MCUniform == {1}
MCPositions == {0, 1, 3, 6}

(* What is received takes the CRC through every entry of the tables.       *)
MCBytes == {{0, 2, 4, 6}}
MCErrors == SUBSET (0..7)

SeqInit ==
  /\ part \in {"filter", "detector", "crc", "devices", "edges"}
  /\ Init /\ DetectorInit /\ CrcInit /\ DevInit /\ EdgeInit
  /\ part # "filter" => motion.a = 0
  /\ part # "devices" => position = 0 /\ registers = config

Estimate ==
  /\ part = "filter" /\ Next
  /\ UNCHANGED <<part, detectorVars, crcVars, devVars, edgeVars>>

Detect ==
  /\ part = "detector" /\ DetectorNext
  /\ UNCHANGED <<part, vars, crcVars, devVars, edgeVars>>

Check ==
  /\ part = "crc" /\ CrcNext
  /\ UNCHANGED <<part, vars, detectorVars, devVars, edgeVars>>

UseDevices ==
  /\ part = "devices" /\ DevNext
  /\ UNCHANGED <<part, vars, detectorVars, crcVars, edgeVars>>

PassBy ==
  /\ part = "edges" /\ EdgeNext
  /\ UNCHANGED <<part, vars, detectorVars, crcVars, devVars>>

SeqNext == Estimate \/ Detect \/ Check \/ UseDevices \/ PassBy

SeqSpec ==
  SeqInit /\ [][SeqNext]_<<part, vars, detectorVars, crcVars, devVars, edgeVars>>
=============================================================================
