SPECIFICATION FairSpec
CONSTANTS
  a = a
  b = b
  p = p
  Agents = {a, b}
  People = {p}
  System = System
  None = None
  Conversations <- Chats
  Formats <- Versions
  Slots = {1, 2, 3, 4}
  MaxPosts = 2
INVARIANTS TypeOK AnswersWhereAsked
PROPERTY Settles
CHECK_DEADLOCK FALSE
