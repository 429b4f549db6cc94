\* Four runs on a database that is new or has up to two employees.
CONSTANTS
  e1 = e1
  e2 = e2
  e3 = e3
  e4 = e4
  Proc <- MCProc
  MaxRows = 2
SPECIFICATION Spec
SYMMETRY Symmetry
\* Every run ends.
CHECK_DEADLOCK FALSE
INVARIANTS
  NumbersAreConsecutive
  RefusedByAnother
