\* A ring of four entries, programs that enable interrupts at any time. Which
\* instruction an entry holds does not matter here: one program counter is enough.
CONSTANTS
  DEBUG_SIZE = 4
  Pc = {p0}
  Result = {r0}
  State = {s0}
  NoRd = NoRd
  Garbage = Garbage
  Interrupts = TRUE
SPECIFICATION FairSpec
INVARIANTS
  TypeOK
  ActiveIsWindow
  LookaheadKept
PROPERTY CheckComesBack
