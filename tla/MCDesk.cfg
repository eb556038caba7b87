\* Page: two rounds with one amend, the second a question and the first a
\* page round; one comment, one Send in the air, two catch-ups, one trouble.
\* Stream: one tab, one push, one edge, one loss.  Pomodoro: a clock of
\* four minutes and its steps, four hitches.  Watch: two missions, three
\* moves.  Cache: two boards, four stores, three instants.
CONSTANTS
  MaxRounds = 2
  MaxText = 1
  MaxTroubles = 1
  MaxSends = 1
  MaxReads = 2
  Asks = {2}
  Pages = {1}
  Comment = {n1}
  NoDraft = NoDraft
  Tab = {t1}
  MaxPushes = 1
  MaxEdges = 1
  MaxLosses = 1
  Length <- MCLength
  LongEvery = 2
  MaxArm = 1
  Late = 1
  ExpiryGrace = 2
  Retry = 3
  MaxForward = 4
  Jumps <- MCJumps
  MaxHitches = 4
  Watched = {k1, k2}
  Unread = Unread
  MaxMoves = 3
  Stored = {w1, w2}
  NoCache = NoCache
  MaxClock = 3
  MaxStores = 4
SPECIFICATION Spec
INVARIANTS
  TypesOK
  CommentsKept
  AttendanceSettles PushesReachTab
  RunningIsArmed
  BatchSpeaksTrue
  RowsAreTrue
PROPERTIES NoStaleAnswer CatchUpNeverReverts IntervalsRunTheirTime
\* Rounds, pushes, clocks and moves are bounded.
CHECK_DEADLOCK FALSE
