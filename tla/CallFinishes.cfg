SPECIFICATION FairSpec
CONSTANTS
  Calls = {c1, c2}
  Inputs = {x1}
  Functions <- LivelyFunctions
  NoInput = NoInput
  NoCall = NoCall
PROPERTIES Finishes
