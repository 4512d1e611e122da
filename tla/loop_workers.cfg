\* Two tasks with a file each, two workers, rings of one entry; a signal may end
\* any wait.
CONSTANTS
  t1 = t1  t2 = t2  h1 = h1  h2 = h2  w1 = w1  w2 = w2  none = none
  Workers = {w1, w2}
  Headers = {h1, h2}
  Tasks = {t1, t2}
  NoHeader = none
  NoTask = none
  Cap = 1
  HeaderOf <- OwnFile
  TaskOps <- ReadYield
  MaxOps = 2
  Delays = {}
  TicksPerMs = 1
  DequeueMax = 1
  Interrupts = TRUE
  Tries = 0
SPECIFICATION Spec
SYMMETRY Symmetry
CHECK_DEADLOCK FALSE
INVARIANTS TypeOK OneHome PopFindsCompletion PendingAccurate ExitSeesAllCompletions
