SPECIFICATION FairSpec
CONSTANTS
  c1 = c1  w1 = w1  w2 = w2
  Conn = {c1}
  Worker = {w1, w2}
  User = {"u", "v"}
  Cut <- Streams
  NotGzip <- Junk
  Quoted <- Quotes
  Tiny <- Tinies
  Short <- Shorts
  OldRows <- Rows
  LongName = {"v"}
  None = None
  Piece <- SomePieces
  Messages <- SomeMessages
  MaxSent = 2
INVARIANTS
  MessagesWhole
  RowKept
PROPERTIES
  GetSeesPut
  
\* Clients need not send, and a process that has died takes no step.
CHECK_DEADLOCK FALSE
