\* Pages of two fragments, at most two of them.
CONSTANTS
  PageSize = 2
  MaxPages = 2
  Null = null
  ChkSum = chksum
SPECIFICATION Spec
CHECK_DEADLOCK FALSE
INVARIANTS TypeOK Circular NoneLeaked
PROPERTY IsEntryQueue
