SPECIFICATION CodeSpec
CONSTANTS
  PipeCapacity = 1
  MaxChunks = 2
INVARIANTS
  TypeOK
  ReplyIsWhole
  ChildIsGone
PROPERTY OnlyToolsHoldTurns
