\* One reader and one writer; a ring of 2 bytes that wraps; two byte values, so
\* that loss, repetition and reordering show; buffers up to the refused length.
CONSTANTS
  Size = 3
  Byte = {0, 1}
  Zero = 0
  Readers = {r1}
  Writers = {w1}
  MaxLen = 3
SPECIFICATION Spec
INVARIANTS QueueInv NoStrandedReader NoMutualSleep
PROPERTY ImplementsByteStream
\* Both lines may be closed, or both ends wait for a call the other never makes.
CHECK_DEADLOCK FALSE
