SPECIFICATION CodeSpec
CONSTANTS
  PipeCapacity = 1
  MaxChunks = 1
PROPERTY TurnReturns
