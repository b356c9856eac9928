SPECIFICATION Spec
CONSTANTS
    Requests = {r1, r2}
    Categories <- TwoCategories
    StepsEach = 2
    MaxAttempts = 3
    None = None
INVARIANTS NeverEmptied LastWord
