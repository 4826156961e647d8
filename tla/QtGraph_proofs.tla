--------------------------- MODULE QtGraph_proofs ---------------------------
(***************************************************************************)
(* The window, the frame and the axis of the diagram, for every length of  *)
(* the curve, every limit of the window and every traffic: with the        *)
(* numbers of the code, a curve of 86400 points.                           *)
(***************************************************************************)
EXTENDS QtGraph, TLAPS

(* The window *)

WindowInv == i_dp_number \in Nat \ {0}

\* A turn of the wheel takes less than there is, and adds something.
LEMMA OffsetIsSmall ==
  ASSUME NEW n \in Nat
  PROVE  /\ Offset(n) \in Nat \ {0}
         /\ n > 4 => n - Offset(n) \in Nat \ {0}
BY DEF Offset

LEMMA WindowInit == Init => WindowInv
BY GraphAssumption DEF Init, WindowInv

LEMMA WindowNext == WindowInv /\ [Next]_vars => WindowInv'
<1> SUFFICES ASSUME WindowInv, [Next]_vars PROVE WindowInv'
  OBVIOUS
<1> USE DEF WindowInv
<1>1. CASE ZoomIn
  <2>1. i_dp_number > DpMin /\ i_dp_number' = i_dp_number - Offset(i_dp_number)
    BY <1>1 DEF ZoomIn
  <2>2. i_dp_number > 4
    BY <2>1, GraphAssumption
  <2> QED BY <2>1, <2>2, OffsetIsSmall
<1>2. CASE ZoomOut
  <2>1. i_dp_number' = i_dp_number + Offset(i_dp_number)
    BY <1>2 DEF ZoomOut
  <2>2. Offset(i_dp_number) \in Nat \ {0}
    BY OffsetIsSmall
  <2> QED BY <2>1, <2>2
<1>3. CASE ReceiveList
  BY <1>3 DEF ReceiveList, window
<1>4. CASE ReadNothing
  BY <1>4 DEF ReadNothing, window
<1>5. CASE UNCHANGED vars
  BY <1>5 DEF vars, window
<1> QED BY <1>1, <1>2, <1>3, <1>4, <1>5 DEF Next

LEMMA WindowAlways == Spec => []WindowInv
BY WindowInit, WindowNext, PTL DEF Spec

\* The window is never empty, however the wheel is turned (g_change_dp_num).
THEOREM WindowStaysOpen == Spec => []WindowIsNeverEmpty
<1>1. WindowInv => WindowIsNeverEmpty
  BY DEF WindowInv, WindowIsNeverEmpty
<1> QED BY <1>1, WindowAlways, PTL

-----------------------------------------------------------------------------
(* The points *)

CurveInv == curve \in [1 .. MaxIndex -> Points]

\* A tick keeps the length of the curve.
LEMMA ReceivedIsACurve ==
  ASSUME CurveInv, NEW list \in Received
  PROVE  list \in [1 .. MaxIndex -> Points]
<1>1. CASE list = curve
  BY <1>1 DEF CurveInv
<1>2. ASSUME NEW p \in Points,
             list = [i \in 1 .. MaxIndex |-> IF i = 1 THEN p ELSE curve[i - 1]]
      PROVE  list \in [1 .. MaxIndex -> Points]
  <2>1. ASSUME NEW i \in 1 .. MaxIndex, i # 1 PROVE curve[i - 1] \in Points
    <3>1. i - 1 \in 1 .. MaxIndex
      BY <2>1, GraphAssumption
    <3> QED BY <3>1 DEF CurveInv
  <2> QED BY <1>2, <2>1
<1> QED BY <1>1, <1>2 DEF Received

\* Whatever is behind the end of the list, it is read as numbers.
LEMMA ReadsArePoints ==
  ASSUME NEW list \in [1 .. MaxIndex -> Points], NEW n \in Nat,
         NEW r \in Reads(list, n), NEW i \in 0 .. n
  PROVE  r[i] \in Points
<1>1. PICK g \in [MaxIndex .. n -> Points] :
        r = [j \in 0 .. n |-> IF j < MaxIndex THEN list[j + 1] ELSE g[j]]
  BY DEF Reads
<1>2. r[i] = IF i < MaxIndex THEN list[i + 1] ELSE g[i]
  BY <1>1
<1>3. CASE i < MaxIndex
  <2>1. i + 1 \in 1 .. MaxIndex
    BY <1>3, GraphAssumption
  <2> QED BY <1>2, <1>3, <2>1
<1>4. CASE ~ i < MaxIndex
  <2>1. i \in MaxIndex .. n
    BY <1>4, GraphAssumption
  <2> QED BY <1>1, <1>2, <1>4, <2>1
<1> QED BY <1>3, <1>4

LEMMA CurveInit == Init => CurveInv
BY GraphAssumption DEF Init, CurveInv

LEMMA CurveNext == CurveInv /\ [Next]_vars => CurveInv'
<1> SUFFICES ASSUME CurveInv, [Next]_vars PROVE CurveInv'
  OBVIOUS
<1>1. CASE ReceiveList
  <2>1. curve' \in Received
    BY <1>1 DEF ReceiveList
  <2>2. curve' \in [1 .. MaxIndex -> Points]
    BY <2>1, ReceivedIsACurve
  <2> QED BY <2>2 DEF CurveInv
<1>2. CASE ZoomIn \/ ZoomOut \/ ReadNothing \/ UNCHANGED vars
  BY <1>2 DEF ZoomIn, ZoomOut, ReadNothing, vars, CurveInv
<1> QED BY <1>1, <1>2 DEF Next

LEMMA CurveAlways == Spec => []CurveInv
BY CurveInit, CurveNext, PTL DEF Spec

-----------------------------------------------------------------------------
(* The frame and the axis *)

\* The scale is never so small that a point of 1 leaves the frame, and the
\* labels are never made for less than 1024 bytes.
FrameInv ==
  /\ scale \in Nat /\ scale >= 10
  /\ labels \in Nat /\ labels >= 11 * 1024
  /\ labels >= scale
  /\ drawn \in Nat
  /\ over \subseteq {drawn}

LEMMA FrameInit == Init => FrameInv
BY DEF Init, FrameInv, FirstLabels

\* The scale and the labels after a tick whose largest point is m.
LEMMA ScaleAndLabels ==
  ASSUME FrameInv, NEW m \in Nat
  PROVE  /\ ScaleOf(m) \in Nat /\ ScaleOf(m) >= 10 * m /\ ScaleOf(m) >= 10
         /\ LabelsOf(m) \in Nat /\ LabelsOf(m) >= 11 * 1024
         /\ LabelsOf(m) >= ScaleOf(m)
<1>1. 11 * m >= 10 * m /\ 11 * m \in Nat
  OBVIOUS
<1>2. CASE m > 1024
  <2>0. m > 1
    BY <1>2
  <2>1. ScaleOf(m) = 11 * m /\ LabelsOf(m) = 11 * m
    BY <1>2, <2>0, Zenon DEF ScaleOf, LabelsOf
  <2>2. 11 * m >= 10 /\ 11 * m >= 11 * 1024
    BY <1>2
  <2> QED BY <1>1, <2>1, <2>2
<1>3. CASE m > 1 /\ m <= 1024
  <2>1. ScaleOf(m) = 11 * m /\ LabelsOf(m) = labels
    BY <1>3 DEF ScaleOf, LabelsOf
  <2>2. 11 * m >= 10 /\ 11 * 1024 >= 11 * m
    BY <1>3
  <2> QED BY <1>1, <2>1, <2>2 DEF FrameInv
<1>4. CASE m <= 1
  <2>1. ScaleOf(m) = scale /\ LabelsOf(m) = labels
    BY <1>4 DEF ScaleOf, LabelsOf
  <2>2. 10 >= 10 * m
    BY <1>4
  <2> QED BY <2>1, <2>2 DEF FrameInv
<1> QED BY <1>2, <1>3, <1>4

LEMMA FrameNext == WindowInv /\ CurveInv /\ FrameInv /\ [Next]_vars => FrameInv'
<1> SUFFICES ASSUME WindowInv, CurveInv, FrameInv, [Next]_vars PROVE FrameInv'
  OBVIOUS
<1>1. CASE ReceiveList
  <2> DEFINE n == i_dp_number
  <2>0. PICK list \in Received : \E r \in Reads(list, n), m \in Points :
          /\ Largest(r, n, m)
          /\ scale' = ScaleOf(m)
          /\ labels' = LabelsOf(m)
          /\ CreatePath(r, n, ScaleOf(m))
    BY <1>1 DEF ReceiveList
  <2>1. PICK r \in Reads(list, n), m \in Points :
          /\ Largest(r, n, m)
          /\ scale' = ScaleOf(m)
          /\ labels' = LabelsOf(m)
          /\ CreatePath(r, n, ScaleOf(m))
    BY <2>0
  <2>2. m \in Nat /\ n \in Nat
    BY GraphAssumption DEF WindowInv
  <2>3. /\ scale' \in Nat /\ scale' >= 10 * m /\ scale' >= 10
        /\ labels' \in Nat /\ labels' >= 11 * 1024 /\ labels' >= scale'
    BY <2>1, <2>2, ScaleAndLabels
  <2>4. drawn' = n /\ over' = {i \in 0 .. n : 10 * r[i] > scale'}
    BY <2>1 DEF CreatePath
  <2>5. ASSUME NEW i \in 0 .. n - 1 PROVE i \notin over'
    <3>1. r[i] \in Nat
      <4>1. list \in [1 .. MaxIndex -> Points]
        BY <2>1, ReceivedIsACurve
      <4>2. i \in 0 .. n
        BY <2>2
      <4> QED BY <2>1, <2>2, <4>1, <4>2, ReadsArePoints, GraphAssumption
    <3>2. r[i] <= m
      BY <2>1 DEF Largest
    <3> QED BY <2>2, <2>3, <2>4, <3>1, <3>2
  <2>6. over' \subseteq {n}
    BY <2>2, <2>4, <2>5
  <2> QED BY <2>2, <2>3, <2>4, <2>6 DEF FrameInv
<1>2. CASE ZoomIn \/ ZoomOut \/ ReadNothing \/ UNCHANGED vars
  <2>1. UNCHANGED polygon
    BY <1>2 DEF ZoomIn, ZoomOut, ReadNothing, vars
  <2>2. scale' = scale /\ labels' = labels /\ drawn' = drawn /\ over' = over
    BY <2>1 DEF polygon
  <2> QED BY <2>2 DEF FrameInv
<1> QED BY <1>1, <1>2 DEF Next

LEMMA FrameAlways == Spec => []FrameInv
BY FrameInit, FrameNext, WindowAlways, CurveAlways, PTL DEF Spec

\* Every point but the one at i_dp_end is inside the frame, and the label at
\* the top is never smaller than the top is (g_create_path).
THEOREM PointsInsideTheFrame == Spec => []CurveFits
<1>1. FrameInv => CurveFits
  BY DEF FrameInv, CurveFits
<1> QED BY <1>1, FrameAlways, PTL
=============================================================================
