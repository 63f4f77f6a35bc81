\* One reader and one writer under FairSpec; a ring of 2 bytes, so that both ends
\* wait often; one byte value.
CONSTANTS
  Size = 3
  Byte = {0}
  Zero = 0
  Readers = {r1}
  Writers = {w1}
  MaxLen = 3
SPECIFICATION FairSpec
PROPERTIES TimedReadReturns NextReadFreesWriter CallsAfterHangupReturn SleeperLearnsOfHangup
\* Both lines may be closed, or both ends wait for a call the other never makes.
CHECK_DEADLOCK FALSE
