CONSTANTS
  Boards = {fresh, old}
  Legacy = {old}
  Cap <- MCCap
  Calls = {c1, c2}
  MaxFaults = 0
SPECIFICATION Spec
INVARIANT AdoptionComplete
CHECK_DEADLOCK FALSE
