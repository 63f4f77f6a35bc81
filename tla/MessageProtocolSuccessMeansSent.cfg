\* One message is too big for the line; nobody hangs up or times out.
CONSTANTS
  Base = 2
  WordSize = 2
  IntLimit = 16
  Capacity = 7
  Messages <- ShortMessages
  MaxSends = 1
  MaxWrote = 8
  Failures = {2, 5}
  Timeouts = {}
  HangUps = {}
SPECIFICATION Spec
INVARIANT SuccessMeansSent
CHECK_DEADLOCK FALSE
