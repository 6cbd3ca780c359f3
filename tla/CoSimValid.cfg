\* The valid bit that pop clears, and the refill that follows.
CONSTANTS
  DEBUG_SIZE = 4
  Pc = {p0, p1}
  Result = {r0}
  State = {s0}
  NoRd = NoRd
  Garbage = Garbage
  Interrupts = FALSE
SPECIFICATION Spec
INVARIANT PoppedEntryInvalid
