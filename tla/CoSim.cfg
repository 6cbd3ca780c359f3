\* A ring of four entries, programs that never enable interrupts.
CONSTANTS
  DEBUG_SIZE = 4
  Pc = {p0, p1}
  Result = {r0}
  State = {s0}
  NoRd = NoRd
  Garbage = Garbage
  Interrupts = FALSE
SPECIFICATION Spec
INVARIANT FirstFindsArchPc
PROPERTY ImplementsLockstep
