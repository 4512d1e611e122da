\* Two tasks that sleep, yield or read a file of their own, three clock ticks per
\* millisecond.
CONSTANTS
  t1 = t1  t2 = t2  h1 = h1  h2 = h2  w1 = w1  w2 = w2  none = none
  Workers = {w1}
  Headers = {h1, h2}
  Tasks = {t1, t2}
  NoHeader = none
  NoTask = none
  Cap = 1
  HeaderOf <- OwnFile
  TaskOps <- AnyOp
  MaxOps = 1
  Delays = {0, 1, 2}
  TicksPerMs = 3
  DequeueMax = 1
  Interrupts = FALSE
  Tries = 0
SPECIFICATION FairSpec
CHECK_DEADLOCK FALSE
INVARIANT TimeoutFindsDue
PROPERTIES TimersInOrder SleepersFinish
