SPECIFICATION FairSpec
CONSTANTS
  f0 = f0
  f1 = f1
  f2 = f2
  f3 = f3
  Functions = {f0, f1, f2, f3}
  Tools <- AllTools
  MaxInvocations = 2
INVARIANTS TypeOK NeedsMet QuestionsSurface NeedsAnswered
PROPERTIES Settles
