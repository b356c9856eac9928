SPECIFICATION FairSpec
CONSTANTS
    Names = {x, y, z}
    Lists <- MCLists
    MaxAsync = 2
    MaxTurns = 2
    MaxAttempts = 2
    MaxCalls = 1
    None = None
    Nothing = Nothing
    Elsewhere = Elsewhere
    x = x
    y = y
    z = z
INVARIANT AnswersAlone
INVARIANT NoneMissing
PROPERTY Finishes
