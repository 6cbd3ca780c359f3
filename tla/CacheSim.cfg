\* Every sequence of five fetches, loads and stores.
CONSTANTS
  Config <- SmallConfig
  Addresses <- FewAddresses
  Bytes = 4
  Empirical = 1
  MaxAccesses = 5
SPECIFICATION Spec
INVARIANTS
  TypeOK
  DirtyIffUnsaved
  OneWayPerLine
  StatisticsAgree
