SPECIFICATION FairSpec
CONSTANTS
  b1 = b1
  b2 = b2
  b3 = b3
  Null = Null
  Free = Free
  NSEQS = 1
  NUM_CHANS = 2
  MAX_NOTES = 3
  Blocks <- OneBlock
  Notes <- TwoNotes
  Durations <- Short
  Events <- SongEvents
  Calls <- SongCalls
  CountMod = 8
  ActiveMod = 4
  ByteMod = 2
INVARIANTS
  NoStuckNote
  CountsExact
PROPERTIES
  NotesEnd
CHECK_DEADLOCK FALSE
