CONSTANTS
  Browser = {b1, b2}
  MaxId = 3
SPECIFICATION Spec
PROPERTIES
  LastGoesByAStranger
  AdminRemains
  FirstIsAdmin
SYMMETRY Symmetry
CHECK_DEADLOCK FALSE
