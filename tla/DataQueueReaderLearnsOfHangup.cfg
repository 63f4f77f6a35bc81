\* One reader and one writer under FairSpec; a ring of 1 byte is enough to show
\* it; one byte value.
CONSTANTS
  Size = 2
  Byte = {0}
  Zero = 0
  Readers = {r1}
  Writers = {w1}
  MaxLen = 2
SPECIFICATION FairSpec
PROPERTY ReaderLearnsOfHangup
\* Both lines may be closed, or both ends wait for a call the other never makes.
CHECK_DEADLOCK FALSE
