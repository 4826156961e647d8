----------------------------- MODULE QtTraffic -----------------------------
(***************************************************************************)
(* How smbtamonitor-qt (src/monitor-qt) turns the lines of its             *)
(* smbtamonitor-gen into the two curves it draws: readfromsocket adds the  *)
(* values of the lines to l_readstack and l_writestack; at every tick of   *)
(* the timer sendtopoints hands both to DPoint, which adds up StepSize     *)
(* ticks to one point of a curve and keeps the last MaxIndex points.       *)
(*                                                                         *)
(* Both are handlers of one event loop.  A sum is modelled by how often    *)
(* each line went into it, so that a line can be followed through the      *)
(* sums; the number a line carries is left out.                            *)
(***************************************************************************)
EXTENDS Naturals, Sequences

CONSTANTS StepSize,  \* i_stepsize: ticks per point, 5 in the code
          MaxIndex,  \* i_max_index: points of a curve, 86400 in the code
          MaxLines   \* bound: the lines smbtamonitor-gen writes

ASSUME TrafficAssumption ==
  /\ StepSize \in Nat \ {0}
  /\ MaxIndex \in Nat \ {0}
  /\ MaxLines \in Nat

Tag == {"R", "W"}
Lines == 1 .. MaxLines
Indices == 1 .. MaxIndex
Sums == [Lines -> Nat]

Nothing == [i \in Lines |-> 0]
Plus(s, u) == [i \in Lines |-> s[i] + u[i]]

VARIABLES
  written,    \* the letters of the lines smbtamonitor-gen wrote
  taken,      \* how many of them have been read to their end
  cut,        \* the beginning of the next one has been read
  stack,      \* l_readstack and l_writestack
  sum,        \* l_read_end and l_write_end of DPoint
  i_s_count,  \* ticks in them
  curve       \* readlist and writelist of DPoint, the newest point first

socket == <<written, taken, cut>>
points == <<sum, i_s_count, curve>>
trafficVars == <<socket, stack, points>>

TrafficInit ==
  /\ written = <<>>
  /\ taken = 0
  /\ cut = FALSE
  /\ stack = [t \in Tag |-> Nothing]
  /\ sum = [t \in Tag |-> Nothing]
  /\ i_s_count = 0
  /\ curve = [t \in Tag |-> [k \in Indices |-> Nothing]]

----------------------------------------------------------------------------
\* smbtamonitor-gen sends a line (external: MonitorGen's SendClient).
Write ==
  /\ Len(written) < MaxLines
  /\ \E t \in Tag : written' = Append(written, t)
  /\ UNCHANGED <<taken, cut, stack, points>>

----------------------------------------------------------------------------
(* readfromsocket *)

\* What is added to the sum t for the lines of a read.
Added(t, lines) == [i \in Lines |-> IF i \in lines /\ written[i] = t THEN 1 ELSE 0]

\* The lines that are whole in what readAll returns: all it has the end of,
\* without the one whose beginning the read before took and dropped.
Whole(n) == (IF cut THEN taken + 2 ELSE taken + 1) .. n

\* readAll returns whatever has arrived: n is the last line it has the end
\* of, part says whether it has the beginning of the next.  The piece after
\* the last '#' is never looked at, and the rest of a line whose beginning
\* has gone starts with neither letter.
ReadFromSocket ==
  \E n \in taken .. Len(written), part \in BOOLEAN :
    /\ n > taken \/ (part /\ ~cut)
    /\ part => n < Len(written)
    /\ taken' = n
    /\ cut' = part
    /\ stack' = [t \in Tag |-> Plus(stack[t], Added(t, Whole(n)))]
    /\ UNCHANGED <<written, points>>

----------------------------------------------------------------------------
(* dp_receivenumbers, sendtopoints *)

\* The first branch: the tick is added to the sum.
Ticked == [t \in Tag |-> Plus(sum[t], stack[t])]

\* Mutant: the new point is appended.
WithPointLast(list, p) == [k \in Indices |-> IF k = MaxIndex THEN p ELSE list[k + 1]]

\* prepend, and removeLast when the list has become too long.
WithPoint(list, p) == [k \in Indices |-> IF k = 1 THEN p ELSE list[k - 1]]

\* The second branch, when the step is full: the tick is added once more,
\* and the sum becomes a point.
Filled == [t \in Tag |-> Plus(Ticked[t], stack[t])]

\* Mutant: the branch of a full step is an `else': its tick is forgotten.
ReceiveNumbersElse ==
  \/ /\ i_s_count < StepSize
     /\ sum' = Ticked
     /\ i_s_count' = i_s_count + 1
     /\ UNCHANGED curve
  \/ /\ i_s_count = StepSize
     /\ curve' = [t \in Tag |-> WithPoint(curve[t], sum[t])]
     /\ sum' = [t \in Tag |-> Nothing]
     /\ i_s_count' = 0

\* Mutant: the point is never taken over.
ReceiveNumbersNever ==
  /\ sum' = Ticked
  /\ i_s_count' = (i_s_count + 1) % StepSize
  /\ UNCHANGED curve

ReceiveNumbers ==
  \/ /\ i_s_count + 1 < StepSize
     /\ sum' = Ticked
     /\ i_s_count' = i_s_count + 1
     /\ UNCHANGED curve
  \/ /\ i_s_count + 1 = StepSize
     /\ curve' = [t \in Tag |-> WithPoint(curve[t], Filled[t])]
     /\ sum' = [t \in Tag |-> Nothing]
     /\ i_s_count' = 0

\* A tick of the timer.
SendToPoints ==
  /\ ReceiveNumbers
  /\ stack' = [t \in Tag |-> Nothing]
  /\ UNCHANGED socket
----------------------------------------------------------------------------
TrafficNext == Write \/ ReadFromSocket \/ SendToPoints

TrafficSpec == TrafficInit /\ [][TrafficNext]_trafficVars

\* The timer keeps ticking.
FairTrafficSpec == TrafficSpec /\ WF_trafficVars(SendToPoints)
----------------------------------------------------------------------------
TrafficTypeOK ==
  /\ written \in Seq(Tag) /\ Len(written) <= MaxLines
  /\ taken \in 0 .. Len(written)
  /\ cut \in BOOLEAN /\ (cut => taken < Len(written))
  /\ stack \in [Tag -> Sums]
  /\ sum \in [Tag -> Sums]
  /\ i_s_count \in 0 .. StepSize - 1
  /\ curve \in [Tag -> [Indices -> Sums]]

\* Everything a line can be in, from the newest to the oldest.
Place(t, p) == CASE p = 0 -> stack[t]
                 [] p = 1 -> sum[t]
                 [] OTHER -> curve[t][p - 1]
LinesOf(s) == {i \in Lines : s[i] > 0}
InHand(t) == LinesOf(stack[t]) \cup LinesOf(sum[t])
Had(t) == InHand(t) \cup UNION {LinesOf(curve[t][k]) : k \in Indices}

(***************************************************************************)
(* A line is added to the curve of its own letter, to one point only, and  *)
(* the points are in the order of the lines: whatever ticks come between   *)
(* two reads, nothing is drawn for two steps or under the other colour.    *)
(***************************************************************************)
PointsInOrder ==
  \A t \in Tag :
    /\ \A i \in Had(t) : i <= taken /\ written[i] = t
    /\ \A p, q \in 0 .. MaxIndex + 1 :
         p < q => \A i \in LinesOf(Place(t, p)), j \in LinesOf(Place(t, q)) : i > j

(***************************************************************************)
(* A line whose end is read is added to a sum, unless the socket had cut   *)
(* it, however many lines and pieces arrive together; and what was added   *)
(* stays in a sum or a point until its point is the oldest of a full       *)
(* curve: neither the reset of the two stacks after a tick nor that of the *)
(* sums after a step loses anything.                                       *)
(***************************************************************************)
Arrived(t) == {i \in taken + 1 .. taken' : written[i] = t /\ ~(cut /\ i = taken + 1)}

LeavesAsOldest ==
  [][\A t \in Tag :
       Had(t) \cup Arrived(t) \subseteq Had(t)' \cup LinesOf(curve[t][MaxIndex])]_trafficVars

(***************************************************************************)
(* A line that has been added is drawn in the end, as long as the timer    *)
(* ticks: no reset of the stacks or of the sums puts it off for ever.      *)
(***************************************************************************)
EventuallyDrawn ==
  \A t \in Tag, i \in Lines : i \in InHand(t) ~> i \notin InHand(t)
=============================================================================
