SPECIFICATION Spec
CONSTANTS
  Execs = {e1, e2}
  Strategies = {"skip"}
  MaxParallel = 2
  NoExec = NoExec
INVARIANTS SkipGuarantee
