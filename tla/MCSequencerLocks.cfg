SPECIFICATION Spec
CONSTANTS
  b1 = b1
  b2 = b2
  b3 = b3
  Null = Null
  Free = Free
  NSEQS = 1
  NUM_CHANS = 3
  MAX_NOTES = 2
  Blocks <- OneBlock
  Notes <- OneNote
  Durations <- Short
  Events <- LockEvents
  Calls <- LockCalls
  CountMod = 8
  ActiveMod = 4
  ByteMod = 2
INVARIANTS
  LocksConsistent
  CountNeverOver
PROPERTIES
  LockKept
CHECK_DEADLOCK FALSE
