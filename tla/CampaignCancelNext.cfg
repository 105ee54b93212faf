SPECIFICATION Spec
CONSTANTS
    Process = {p1, p2}
    None = None
    NumWorlds = 1
    NumConditions = 1
SYMMETRY Symmetry
INVARIANT CancelPreventsNextRequest
