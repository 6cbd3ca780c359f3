\* Two cores, turns of two instructions, two requests each and an exit.
CONSTANTS
  NumCores = 2
  INTERLEAVE = 2
  Skip = 3
  MaxRequests = 2
SPECIFICATION FairSpec
INVARIANTS
  TypeOK
  InterruptIffAnswer
  TickIsServed
PROPERTIES
  ImplementsMailbox
  EveryCoreScheduled
  RequestAnswered
  SimulationEnds
