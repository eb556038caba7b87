\* One board, two asks at once: the shim's question and another client's
\* page, which joins the open question or follows it as a round of its own.
\* A wait is two ticks, so that it lapses while posts still come; the
\* ceiling is one more, so that a moving wait reaches it.
CONSTANTS
  AskCalls = {c1, c2}
  Question = {q1}
  Page = {p1}
  Note = {n1}
  Plain = {p1}
  MaxRound = 2
  LastPost = 2
  Horizon = 6
  Timeout = 2
  MinMove = 1
  Ceiling = 3
  Grace = 1
SPECIFICATION RoundsSpec
INVARIANTS RoundsTypeOK TimedOutIsOver ShimOutlastsDaemon
PROPERTIES KeepsWaits AskIsAwaited
SYMMETRY CallSymmetry
\* The clock is bounded and every round may be answered.
CHECK_DEADLOCK FALSE
