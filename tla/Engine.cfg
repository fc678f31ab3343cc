CONSTANTS
  SeqHalf = 4
  WindowSize = 2
  MaxRetries = 1
  A = A
  B = B
  Nodes = {A, B}
  MaxConnId = 2
  MaxChunks = 2
  Settings <- EngineSettings
SPECIFICATION FairSpec
CHECK_DEADLOCK FALSE
INVARIANTS EndReported InitiatorServed 
PROPERTIES NoLinger
