SPECIFICATION ShimSpec
CONSTANTS
    Calls = {c1, c2}
    Content = {x, y}
    None = None
    MaxBoards = 2
    MaxBoundaries = 1
    MaxGone = 0
SYMMETRY Symmetry
INVARIANTS BoundaryStartsBoard
