\* Four routines and a function on a pool of three entries, so that entries are
\* used again while others wait.
CONSTANTS
  Routines = {r1, r2, r3, r4}
  Callbacks = {c1}
  PoolSize = 3
  Unset = unset
  MaxTurns = 2
  Spinners = {r4}
  Interrupts = TRUE
  Throws = TRUE
SPECIFICATION FairSpec
CHECK_DEADLOCK FALSE
INVARIANTS TypeOK FramesHomed ResumesFrames DestroysOnce
PROPERTIES ReadyAreResumed
