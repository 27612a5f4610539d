\* Files of up to six numbers over four blocks, block 0 (the reader's initial
\* value) among them, in one, two and three frames.  Three dots, so that there
\* are shorter and longer traces.
SPECIFICATION RivalSpec
CONSTANTS
  Block = {0, 5, 7, 9}
  MaxRefs = 6
  Cutlines <- SomeCutlines
  MemSizes = {1, 2, 3}
  DOTS = 3
INVARIANTS TraceFaithful FewestFaults
PROPERTY EndsUnlessShort
\* The program ends.
CHECK_DEADLOCK FALSE
