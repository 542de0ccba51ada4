SPECIFICATION FairSpec
CONSTANTS
  MAX_TIMBS = 3
  cache_size = 3
  Banks <- MCBanks
  Programs <- MCPrograms
  Melodic <- MCMelodic
  Drums <- MCDrums
  Length <- MCLength
  Chans = {c1}
  Slots <- MCSlots
  Half = 2
  Null = Null
INVARIANTS
  CacheConsistent
  ResidentPlays
PROPERTIES
  ProtectedStays
  InstallEnds
CHECK_DEADLOCK FALSE
