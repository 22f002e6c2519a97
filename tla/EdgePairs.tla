------------------------------- MODULE EdgePairs -------------------------------
(***************************************************************************)
(* analyze_edges.py: from the rows of edge_times.csv, the moments at which *)
(* objects begin to block the light beams CH2 and CH3, and from the i-th   *)
(* of each the speed of an object.                                         *)
(*                                                                         *)
(* The track is external: objects pass CH2 and then CH3 in single file,    *)
(* and at every tick encoder_example records whether the beams are blocked *)
(* - or fails to, having dropped the frame.  A voltage is above or below   *)
(* its threshold, nothing more; the baseline is taken to be right.         *)
(***************************************************************************)
EXTENDS Integers, Sequences, FiniteSets

CONSTANTS
  Objects,   \* how many objects pass
  MaxTicks   \* bound of the model: ticks of the ADC

ASSUME EdgeAssumption == Objects \in Nat /\ MaxTicks \in Nat

VARIABLES
  at,    \* where each object is
  tick,  \* the time
  rows,  \* edge_times.csv: ts, and whether CH2 and CH3 are clear
  was    \* history: at each tick, where each object was

edgeVars == <<at, tick, rows, was>>

Track == 1..Objects
Places == <<"before", "CH2", "between", "CH3", "past">>
Beams == {"CH2", "CH3"}

Clear(places, ch) == \A o \in Track : Places[places[o]] # ch

EdgeInit ==
  /\ at = [o \in Track |-> 1]
  /\ tick = 1
  /\ rows = <<[ts |-> 1, CH2 |-> TRUE, CH3 |-> TRUE]>>
  /\ was = <<at>>

(* An object moves one place at most; a beam is blocked by one at a time.  *)
Tick ==
  /\ tick < MaxTicks
  /\ tick' = tick + 1
  /\ at' \in {a \in [Track -> 1..5] :
                /\ \A o \in Track : a[o] \in {at[o], at[o] + 1}
                /\ \A o, p \in Track :
                     p < o => /\ a[o] <= a[p]
                              /\ a[o] = a[p] => Places[a[o]] \notin Beams}
  /\ was' = Append(was, at')
  /\ \/ rows' = Append(rows, [ts |-> tick', CH2 |-> Clear(at', "CH2"),
                              CH3 |-> Clear(at', "CH3")])
     \/ UNCHANGED rows

EdgeNext == Tick

EdgeSpec == EdgeInit /\ [][EdgeNext]_edgeVars
-----------------------------------------------------------------------------
(* The script.                                                             *)

(* Mutant: rising edges.                                                   *)
RisesOf(ch) == {i \in 2..Len(rows) : ~rows[i - 1][ch] /\ rows[i][ch]}

(* ch2_falls and ch3_falls, the rows of them: was clear in the row before, *)
(* and is not.                                                             *)
Falls(ch) == {i \in 2..Len(rows) : rows[i - 1][ch] /\ ~rows[i][ch]}

(* The place of row i in that list.                                        *)
Nth(ch, i) == Cardinality({j \in Falls(ch) : j <= i})

(* The i-th with the i-th, as long as there are both; a pair in the wrong  *)
(* order is skipped.                                                       *)
Pairs ==
  {p \in Falls("CH2") \X Falls("CH3") :
     Nth("CH2", p[1]) = Nth("CH3", p[2]) /\ rows[p[2]].ts > rows[p[1]].ts}
-----------------------------------------------------------------------------
(* Properties                                                              *)

In(o, ch, t) == Places[was[t][o]] = ch

(* A pair is of object o if o was in CH2 at the one time and in CH3 at the *)
(* other.                                                                  *)
OfOneObject(p) ==
  \E o \in Track : In(o, "CH2", rows[p[1]].ts) /\ In(o, "CH3", rows[p[2]].ts)

(* No object passed a beam unrecorded, and none followed another into a    *)
(* beam without a row in between that shows it clear.                      *)
AllRecorded ==
  \A ch \in Beams, o \in Track :
    (\E t \in 1..tick : In(o, ch, t)) =>
      /\ \E i \in DOMAIN rows : In(o, ch, rows[i].ts)
      /\ o > 1 => \E i \in DOMAIN rows :
                    /\ rows[i][ch]
                    /\ \A t \in 1..tick : In(o, ch, t) => rows[i].ts < t
                    /\ \A t \in 1..tick : In(o - 1, ch, t) => t < rows[i].ts

(* If the recording shows every passage of a beam, by at least one row of  *)
(* it and one of the clear beam before the next, every speed the script    *)
(* prints is the speed of one object, whatever rows are missing otherwise. *)
SpeedsAreOfObjects == AllRecorded => \A p \in Pairs : OfOneObject(p)
=============================================================================
