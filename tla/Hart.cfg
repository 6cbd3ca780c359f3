\* Registers of two bits, a counter of three, slices of up to three.
CONSTANTS
  LowSize = 4
  HighSize = 2
  MaxSlice = 3
  StatusWrites <- Writes
SPECIFICATION FairSpec
INVARIANTS
  TypeOK
  TimerSound
PROPERTIES
  TimerPunctual
  LineKept
  InterruptTaken
  TimerArrives
  CoreProgresses
