\* The same program with interrupts enabled at some point.
CONSTANTS
  DEBUG_SIZE = 4
  Pc = {p0, p1}
  Result = {r0}
  State = {s0}
  NoRd = NoRd
  Garbage = Garbage
  Interrupts = TRUE
SPECIFICATION Spec
INVARIANT FirstFindsArchPc
