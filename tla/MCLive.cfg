\* Delivery: one board, two responses that compete for its rounds.  Rounds:
\* one ask, its socket dying and its deadline moving without end, the clock
\* running past the last instant at which any ask may end.  Stream: one tab
\* and one loss, no pushes and no edges.
CONSTANTS
  Boards = {fresh}
  Legacy = {}
  Cap <- MCCap
  Calls = {c1, c2}
  MaxFaults = 0
  AskCalls = {c1}
  Question = {q1}
  Page = {p1}
  Note = {n1}
  Plain = {p1}
  MaxRound = 2
  LastPost = 1
  Horizon = 6
  Timeout = 2
  MinMove = 1
  Ceiling = 3
  Grace = 1
  Tab = {t1}
  MaxPushes = 0
  MaxEdges = 0
  MaxLosses = 1
SPECIFICATION LiveSpec
PROPERTIES OwedReachesAgent RemarkReachesAgent EveryAskReturns TabsFollowed
\* Every round may be answered and every call closed; the clocks are bounded.
CHECK_DEADLOCK FALSE
