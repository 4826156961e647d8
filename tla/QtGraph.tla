------------------------------ MODULE QtGraph ------------------------------
(***************************************************************************)
(* The diagram of smbtamonitor-qt (src/monitor-qt/graph.cpp): the window   *)
(* of the curve that is shown, which the wheel of the mouse makes smaller  *)
(* and larger, the scale that fits the largest point of the window into    *)
(* the frame, and the polygon that is computed at every tick of the timer  *)
(* and painted with whatever the window is by then.                        *)
(*                                                                         *)
(* A point is the sum of what was read and written: the upper curve.       *)
(* i_dp_start is 0 for ever (g_get_dp_offset), so that i_dp_end is         *)
(* i_dp_number.  The sums per minute and all that is painted besides the   *)
(* polygon and the labels of the axis are left out; floats are exact.      *)
(***************************************************************************)
EXTENDS Naturals, Sequences, FiniteSets

CONSTANTS MaxIndex,   \* the points of a curve, 86400 in the code
          DpMin,      \* i_dp_min, 10 in the code
          DpMax,      \* i_dp_max, 86400 in the code
          DpInitial,  \* i_dp_number of a new Graph, 300 in the code
          Points,     \* what a point may be
          MaxPeaks    \* bound: points of a curve that are not 0

ASSUME GraphAssumption ==
  /\ MaxIndex \in Nat /\ DpMax \in Nat
  /\ DpMax <= MaxIndex
  /\ DpMin \in Nat /\ DpMin >= 4
  /\ DpInitial \in DpMin .. DpMax
  /\ Points \subseteq Nat /\ 0 \in Points
  /\ MaxPeaks \in Nat

\* The labels of a new Graph end with "125 kb".
FirstLabels == 10 * 125 * 1024

VARIABLES
  curve,        \* the points, the newest first (DPoint)
  i_dp_number,  \* the size of the window
  scale,        \* the top of the frame, 400 * f_scalefactor, in tenths of a byte
  labels,       \* the label at the top of the frame, in tenths of a byte
  drawn,        \* the size of the window the polygon was computed for
  over,         \* the points of the polygon above the frame
  up            \* the program runs

window == <<i_dp_number>>
polygon == <<scale, labels, drawn, over>>
vars == <<curve, window, polygon, up>>

Init ==
  /\ curve = [i \in 1 .. MaxIndex |-> 0]
  /\ i_dp_number = DpInitial
  /\ scale = 4000
  /\ labels = FirstLabels
  /\ drawn = 0
  /\ over = {}
  /\ up = TRUE

----------------------------------------------------------------------------
(* wheelEvent, g_change_dp_num *)

\* How many points a turn of the wheel takes away or adds.
Offset(n) ==
  IF n < 20 THEN 4 ELSE
  IF n < 60 THEN 8 ELSE
  IF n < 300 THEN 20 ELSE
  IF n < 600 THEN 40 ELSE
  IF n < 1800 THEN 200 ELSE
  IF n < 5400 THEN 800 ELSE 2400

\* Mutant: the smallest window is not tested for.
ZoomInAlways ==
  /\ up
  /\ i_dp_number >= Offset(i_dp_number)
  /\ i_dp_number' = i_dp_number - Offset(i_dp_number)
  /\ UNCHANGED <<curve, polygon, up>>

ZoomIn ==
  /\ up
  /\ i_dp_number > DpMin
  /\ i_dp_number' = i_dp_number - Offset(i_dp_number)
  /\ UNCHANGED <<curve, polygon, up>>

ZoomOut ==
  /\ up
  /\ i_dp_number < DpMax
  /\ i_dp_number' = i_dp_number + Offset(i_dp_number)
  /\ UNCHANGED <<curve, polygon, up>>

----------------------------------------------------------------------------
(* g_receivelist, g_interpolate, g_create_path *)

\* The lists of the tick before, or, after i_stepsize ticks, with a new point
\* (external: QtTraffic's WithPoint).
Received ==
  {curve} \cup {[i \in 1 .. MaxIndex |-> IF i = 1 THEN p ELSE curve[i - 1]] : p \in Points}

\* What is read at the indexes 0 to n: behind the end of the list, whatever is
\* in the memory there.
Reads(list, n) ==
  {[i \in 0 .. n |-> IF i < MaxIndex THEN list[i + 1] ELSE r[i]] :
     r \in [MaxIndex .. n -> Points]}

\* Mutant: the oldest point of the window is not looked at.
LargestButOne(r, n, m) ==
  /\ \A i \in 0 .. n - 2 : r[i] <= m
  /\ \E i \in 0 .. n - 1 : r[i] = m

\* m is l_max: the largest point before i_dp_end.
Largest(r, n, m) ==
  /\ \A i \in 0 .. n - 1 : r[i] <= m
  /\ \E i \in 0 .. n - 1 : r[i] = m

LabelsOf(m) == IF m > 1024 THEN 11 * m ELSE labels

ScaleOf(m) == IF m > 1 THEN 11 * m ELSE scale

\* A point is as high as the frame if it is 400 * f_scalefactor.
CreatePath(r, n, s) ==
  /\ drawn' = n
  /\ over' = {i \in 0 .. n : 10 * r[i] > s}

\* A tick of the timer.
ReceiveList ==
  /\ up
  /\ \E list \in Received :
       /\ Cardinality({i \in 1 .. MaxIndex : list[i] # 0}) <= MaxPeaks
       /\ curve' = list
       /\ \E r \in Reads(list, i_dp_number), m \in Points :
            /\ Largest(r, i_dp_number, m)
            /\ scale' = ScaleOf(m)
            /\ labels' = LabelsOf(m)
            /\ CreatePath(r, i_dp_number, ScaleOf(m))
  /\ UNCHANGED <<window, up>>

\* What is behind the end of the list may not be there at all: the polygon is
\* drawn to index i_dp_end (line 297).
ReadNothing ==
  /\ up
  /\ i_dp_number >= MaxIndex
  /\ up' = FALSE
  /\ UNCHANGED <<curve, window, polygon>>
----------------------------------------------------------------------------
Next == ZoomIn \/ ZoomOut \/ ReceiveList \/ ReadNothing

Spec == Init /\ [][Next]_vars
----------------------------------------------------------------------------
TypeOK ==
  /\ curve \in [1 .. MaxIndex -> Points]
  /\ i_dp_number \in Nat
  /\ scale \in Nat
  /\ labels \in Nat
  /\ drawn \in Nat
  /\ over \subseteq 0 .. drawn
  /\ up \in BOOLEAN

(***************************************************************************)
(* No sequence of turns of the wheel makes the window empty: f_zoomfactor  *)
(* (graph.cpp line 171) is never a division by 0, and i_dp_end is always   *)
(* behind i_dp_start.                                                      *)
(***************************************************************************)
WindowIsNeverEmpty == i_dp_number > 0

(***************************************************************************)
(* Whatever was shown before and however long the scale is kept (it stays  *)
(* while nothing larger than 1 is in the window), every point of the       *)
(* polygon lies inside the frame, except the one at i_dp_end, which is     *)
(* drawn (line 297) and was not looked at for the largest (line 221).  And *)
(* the axis, whose labels are not made again for 1024 bytes and less, may  *)
(* claim more than the frame shows, but never less.                        *)
(***************************************************************************)
CurveFits == over \subseteq {drawn} /\ labels >= scale
============================================================================
