SPECIFICATION ShimSpec
CONSTANTS
    Calls = {c1, c2}
    Content = {x, y}
    None = None
    MaxBoards = 2
    MaxBoundaries = 0
    MaxGone = 1
SYMMETRY Symmetry
INVARIANTS ForgetsOnlyTheDead
