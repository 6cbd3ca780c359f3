\* The MMU of s_dpi under the DPI calls of the RTL.
CONSTANTS
  NumVpn = 2
  NumPpn = 2
  Pte <- MCPte
  TLB_ENTRIES = 1
  ICACHE_ENTRIES = 1
  Word = {w0, w1}
  Traced = {"store"}
  Port = "dpi"
SPECIFICATION Spec
INVARIANT TranslationsCurrent
