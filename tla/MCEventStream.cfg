SPECIFICATION FairSpec
CONSTANTS
  Songs <- SongSet
  FOR_NEST = 2
  Fraction = 5
  PerBeat = 8
  Numerator = 4
  Calls = {"start", "stop", "resume", "branch"}
  MaxCalls = 5
INVARIANTS
  Aligned
  PlaysUnrolled
  MeterExact
PROPERTIES
  SongEnds
CHECK_DEADLOCK FALSE
