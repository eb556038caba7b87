\* Two rounds, one amend each, one tab, every level; one spell of refused
\* writes and one restart.
CONSTANTS
  Tabs = {t1}
  Levels = {"off", "no-board", "this-board", "always"}
  NoRecord = NoRecord
  MaxRound = 2
  MaxEdits = 1
  MaxBanners = 3
  MaxBreaks = 1
  MaxRestarts = 1
SPECIFICATION StrandedSpec
INVARIANTS StrandedTypeOK OncePerVersion OneOnScreen BannerIsWanted NotForgotten
PROPERTY OnePerAbsence
\* Rounds, banners, breaks and restarts are bounded.
CHECK_DEADLOCK FALSE
