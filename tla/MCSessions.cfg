\* Shim: two calls of two contents, two boards, two boundaries, one board
\* pruned.  Missions: two, two session ids in three processes, room for one
\* that works and one that lives, two surprises, one mission named by half.
CONSTANTS
  c1 = c1
  c2 = c2
  con1 = con1
  con2 = con2
  Calls = {c1, c2}
  Content = {con1, con2}
  None = None
  MaxBoards = 2
  MaxBoundaries = 2
  MaxGone = 1
  p1 = p1
  p2 = p2
  p3 = p3
  id1 = id1
  id2 = id2
  m1 = m1
  m2 = m2
  Mission = {m1, m2}
  Proc = {p1, p2, p3}
  Id = {id1, id2}
  Pid <- MCPid
  NoId = NoId
  NoProc = NoProc
  Unborn = Unborn
  Dead = Dead
  MaxWorking = 1
  MaxAlive = 1
  MaxVague = 1
  MaxSurprises = 2
SPECIFICATION Spec
INVARIANTS
  TypesOK
  OneBoard FreshSparesConcurrent ParkedIsClosed NotIntoThePast RetryIsSafe
  JoinsKeepOneMission
PROPERTIES NeverDisplaced EndedStaysOut
SYMMETRY Symmetry
