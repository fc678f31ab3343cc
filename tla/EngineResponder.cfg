CONSTANTS
  SeqHalf = 4
  WindowSize = 2
  MaxRetries = 1
  A = A
  B = B
  Nodes = {A, B}
  MaxConnId = 2
  MaxChunks = 2
  Settings <- ResponderSettings
SPECIFICATION Spec
CHECK_DEADLOCK FALSE
INVARIANTS ResponderDelivery
