\* A ring of 5 slots (4 usable bytes): every pair of pointers is reachable, and
\* buffers of up to 5 bytes wrap, fill and overfill it from each of them.
CONSTANTS
  Size = 5
  Byte = {0, 1}
  Zero = 0
  MaxLen = 5
SPECIFICATION RingSpec
INVARIANTS RingTypeOK TwoActivations SizesAreExact
PROPERTY ImplementsFifo
