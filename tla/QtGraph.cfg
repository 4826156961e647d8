\* The wheel between the ticks, a curve of 20 points with at most two that are
\* not 0: one that is too small for a scale of its own, one that is too small
\* for labels and one that has both.  The window takes the sizes 8, 12, 16 and 20,
\* which ends one point behind the curve.
SPECIFICATION Spec
CONSTANTS
  MaxIndex = 20
  DpMin = 10
  DpMax = 20
  DpInitial = 12
  Points = {0, 1, 800, 2000}
  MaxPeaks = 2
INVARIANT WindowIsNeverEmpty
INVARIANT CurveFits
CHECK_DEADLOCK FALSE
