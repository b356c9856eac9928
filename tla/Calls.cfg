SPECIFICATION Spec
CONSTANTS
  Calls = {c1, c2, c3, c4}
  Inputs = {x1, x2}
  Functions <- AllFunctions
  NoInput = NoInput
  NoCall = NoCall
SYMMETRY Symmetry
INVARIANTS TypeOK RecordedAtMostOnce NoneLost ParentFirst CacheHonest RuleKept Consented OneTimeConsent
