CONSTANTS
  Boards = {fresh}
  Legacy = {}
  Cap <- MCCap
  Calls = {c1, c2}
  MaxFaults = 0
SPECIFICATION Spec
INVARIANT EveryAnswerCarried
CHECK_DEADLOCK FALSE
