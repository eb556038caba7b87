\* Two rounds, nothing written on them, two troubles.
CONSTANTS
  MaxRounds = 2
  MaxText = 1
  MaxTroubles = 2
  MaxSends = 1
  MaxReads = 2
  Asks = {2}
  Pages = {1}
  Comment = {c1}
  NoDraft = NoDraft
SPECIFICATION PageSpec
PROPERTY CatchUpRepairs
CHECK_DEADLOCK FALSE
