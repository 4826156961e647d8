SPECIFICATION MCSpec
CONSTANTS
  Process = {p1, p2}
  Browsers = {b1, b2}
  User = {u1, u2}
  Nobody = Nobody
  Function = {f, System}
  System = System
  Gap = Gap
  MaxRow = 2
INVARIANTS
  AloneIsOwn
  NothingIsLeft
  ClosedStaysClosed
  LogOutForgets
  
SYMMETRY Symmetry
CHECK_DEADLOCK FALSE
