\* Files of up to two numbers, read to their end.
SPECIFICATION TraceSpec
CONSTANTS
  Block = {5, 9}
  MaxRefs = 2
  Cutlines <- NoCutline
INVARIANT NoExtraReference
\* The reader ends.
CHECK_DEADLOCK FALSE
