\* One thread of two boards, one of them from before the ledger; two
\* responses on the wire at once; one mark may fail to reach the disk.
CONSTANTS
  Boards = {fresh, old}
  Legacy = {old}
  Cap <- MCCap
  Calls = {c1, c2}
  MaxFaults = 1
SPECIFICATION Spec
INVARIANTS TypeOK HoldExclusive NothingLost RemarksNeverLost OwedPaidOnce
PROPERTY KeepsPromise
SYMMETRY CallSymmetry
\* Every round may be answered and every call closed: the thread may stop.
CHECK_DEADLOCK FALSE
