\* Two tasks, a connected and a listening socket, buffers of up to three bytes
\* and lengths whose lower half counts to two.
CONSTANTS
  Tasks = {t1, t2}
  Streams = {s1}
  Listeners = {l1}
  Async = async
  MaxOps = 2
  MaxLen = 3
  Word = 3
  Uppers = {0, 1}
SPECIFICATION Spec
CHECK_DEADLOCK FALSE
SYMMETRY Symmetry
INVARIANTS RequestHomed TaskHomed NoPhantomPending StreamInBuffer
