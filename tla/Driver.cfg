SPECIFICATION Spec
CONSTANTS
  small = small
  large = large
  Procs = {p1, p2}
  Packages <- MCPackages
  Size <- MCSize
  Hole = hole
INVARIANTS
  DriverTypeOK
  FreshBinary
PROPERTY Terminates
CHECK_DEADLOCK FALSE
