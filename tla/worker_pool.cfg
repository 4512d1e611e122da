\* Two workers and queues of two entries, more requests than a queue holds; every
\* call may fail.
CONSTANTS
  Workers = {w1, w2}
  Headers = {h1, h2, h3}
  NoHeader = none
  Cap = 2
  WorkerNums <- SomeNumbers
  Tries = 1
  MaxPosts = 1
SPECIFICATION FairSpec
CHECK_DEADLOCK FALSE
INVARIANTS TypeOK InitMeansRunning PartsAccounted CountedLeaveFirst
PROPERTIES WorkersLeave
