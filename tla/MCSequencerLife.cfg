SPECIFICATION Spec
CONSTANTS
  b1 = b1
  b2 = b2
  b3 = b3
  Null = Null
  Free = Free
  NSEQS = 2
  NUM_CHANS = 1
  MAX_NOTES = 1
  Blocks <- ThreeBlocks
  Notes <- OneNote
  Durations <- Short
  Events <- AllEvents
  Calls <- AllCalls
  CountMod = 8
  ActiveMod = 4
  ByteMod = 2
INVARIANTS
  HandlesConsistent
  EventOnLive
CHECK_DEADLOCK FALSE
