\* Programs of three instructions, a tick after each, counters of two bits
\* and one.
CONSTANTS
  Instruction <- SmallPrograms
  LowSize = 4
  HighSize = 2
  INTERLEAVE = 1
  Answer = {3}
  MaxAhead = 4
  MaxInsns = 3
SPECIFICATION Spec
INVARIANTS
  ChecksPass
  RegistersAgree
