\* Either end may hang up or time out, and one of the messages is too big for the
\* line.  MaxWrote is reached only when bytes are sent again after a failed write.
CONSTANTS
  Base = 2
  WordSize = 2
  IntLimit = 16
  Capacity = 7
  Messages <- ShortMessages
  MaxSends = 2
  MaxWrote = 7
  Failures = {2, 5}
  Timeouts = {"in", "out"}
  HangUps = {"in", "out"}
SPECIFICATION FairSpec
INVARIANTS UntornInOrder FittingIsSent BufferRoundTrip
PROPERTIES ReadCompletes SendReturns
\* Everything is sent and read, or one end waits for a call of the other.
CHECK_DEADLOCK FALSE
