SPECIFICATION FairSpec
CONSTANTS
  Null = Null
  Lines <- MCLines
  MaxLines = 5
  LibFiles <- MCLibFiles
  BinFiles <- MCBinFiles
  MtbFiles <- MCMtbFiles
  BnkFiles <- MCBnkFiles
  MaxTimbres = 3
  PatchCount = 2
  Files <- MCFiles
  MaxTracks = 4
  MAX_TIMBS = 2
  cache_size = 30
  WAV_MAX_SAMPLES = 12
  Chunk = 3
  spt = 2
  Samples = 2
  Slack = 1
  PlayedLines = 3
INVARIANTS
  LibraryReadsBack
  MemorySound
  SongPlaysCatalog
PROPERTIES
  PlaybackEnds
CHECK_DEADLOCK FALSE
