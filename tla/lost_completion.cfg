\* One task that reads twice, one worker.
CONSTANTS
  t1 = t1  t2 = t2  h1 = h1  h2 = h2  w1 = w1  w2 = w2  none = none
  Workers = {w1}
  Headers = {h1}
  Tasks = {t1}
  NoHeader = none
  NoTask = none
  Cap = 2
  HeaderOf <- OneFile
  TaskOps <- Read
  MaxOps = 2
  Delays = {}
  TicksPerMs = 1
  DequeueMax = 2
  Interrupts = FALSE
  Tries = 0
SPECIFICATION Spec
CHECK_DEADLOCK FALSE
INVARIANT CompletionsAreResumed
