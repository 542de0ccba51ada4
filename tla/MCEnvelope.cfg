SPECIFICATION FairSpec
CONSTANTS
  LEVELS = 64
  OFF_BAND = 8
  SL_UNIT = 8
  TOP = 2
  CLOCK = 8
  Patches <- MCPatches
  KeyScales <- MCKeyScales
PROPERTIES
  NoWrap
  EnvelopeEnds
