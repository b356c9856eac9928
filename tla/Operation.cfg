SPECIFICATION Spec
CONSTANTS
  Operations <- AllOperations
  MaxItems = 3
  MaxItemRetries = 1
  MaxAuthRetries = 1
  Main = Main
  Workers = {w1, w2}
  NoResult = NoResult
INVARIANT NotRepeated
INVARIANT NothingLeftOut
INVARIANT ResultsInOrder
PROPERTY Ends
