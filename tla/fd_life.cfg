\* Two instances, three descriptors (a pipe and one more), two paths.
CONSTANTS
  Fds = {f1, f2}
  Numbers = {d1, d2, d3}
  Names = {n1, n2}
  Nobody = nobody
SPECIFICATION Spec
SYMMETRY Symmetry
CHECK_DEADLOCK FALSE
INVARIANTS TypeOK NumbersOwned EventsFindOwner PathsMatch
