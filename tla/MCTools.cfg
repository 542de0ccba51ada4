SPECIFICATION Spec
CONSTANTS
  QLEN = 3
  Unwritten = Unwritten
  Radix = 2
  Logfiles <- MCLogfiles
  Stray = {0, 144}
  MAX_VALS = 12
  MAX_LVAL = 4
  MAX_SPECS = 3
  Syntax = Syntax
  Files <- MCFiles
  RecMessages <- MCRecMessages
  TopDelta = 2
  SBUF = 2
  RecBytes = 5
  MaxTime = 3
  EchoMessages <- MCEchoMessages
  GTL <- MCGTL
  Partials <- MCPartials
  CacheSize = 2
  driver_vol = 80
  init_prg <- MCinit_prg
  SYSEX = 4
  EchoBytes = 6
  mode = "do"
  part <- MCpart
  base <- MCbase
  VlnBase = 2
  ntrks = 2
  Chans = {9}
  Rhythm = 9
  NoteNums = {60, 61}
  Patches = {3}
  Banks = {2}
  RhythmBank = 127
  Marks = {5}
  Deltas = {0, 3}
  Ticks = {2}
  Tick = 1
  q_int = 2
  ULong = 1000
  MAX_NOTES = 2
  MAX_RBRN = 1
  MAX_TIMB = 2
  MaxEvents = 4
  Null = Null
INVARIANTS
  RecordedAsPlayed
  EventsTranslated
  EchoFaithful
  TimbresAccounted
  PlaysAsWritten
  NoDrift
  TimbresExact
CHECK_DEADLOCK FALSE
