\* The functional simulator's MMU: two pages that share one TLB entry.
CONSTANTS
  NumVpn = 2
  NumPpn = 2
  Pte <- MCPte
  TLB_ENTRIES = 1
  ICACHE_ENTRIES = 1
  Word = {w0, w1}
  Traced = {"store"}
  Port = "isa"
SPECIFICATION Spec
INVARIANTS
  TypeOK
  TranslationsCurrent
  InstructionsCurrent
PROPERTY ImplementsAddressSpace
