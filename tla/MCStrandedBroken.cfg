\* Two rounds, one tab, one spell of refused writes, no restart.
CONSTANTS
  Tabs = {t1}
  Levels = {"this-board"}
  NoRecord = NoRecord
  MaxRound = 2
  MaxEdits = 0
  MaxBanners = 3
  MaxBreaks = 1
  MaxRestarts = 0
SPECIFICATION StrandedSpec
INVARIANT OnceOnBrokenStore
CHECK_DEADLOCK FALSE
