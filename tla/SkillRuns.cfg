SPECIFICATION Spec
CONSTANTS
    Names <- MCNames
    Inputs <- MCInputs
    System = {sys, know, reg}
    Shared = {util}
    WithParams = {sys, util, reg}
    Queries = {know}
    None = None
    A = A
    B = B
    C = C
    D = D
    sys = sys
    know = know
    util = util
    reg = reg
    x = x
    y = y
    ToTry <- MCToTry
    MaxDepth = 4
    MaxItems = 2
    MaxCalls = 1
    MaxComing = 1
    MaxHookDepth = 2
INVARIANT NoNesting
INVARIANT RefsAnswered
INVARIANT ParamsResolve
INVARIANT GivenOffered
INVARIANT HooksWarned
