SPECIFICATION FairSpec
CONSTANTS
  Execs = {e1, e2, e3}
  Strategies <- AllStrategies
  MaxParallel = 2
  NoExec = NoExec
INVARIANTS TypeOK RegistryLive HiddenWasCancelled SerialBound
PROPERTIES CancelsOldest SerialSkip FiringSettles
