SPECIFICATION ChipSpec
CONSTANTS
  NUM_SLOTS = 3
  NUM_VOICES = 3
  NUM_PAIRS = 1
  op4_voice <- MCop4_voice
  Span = 1
  Chans = {0}
  Keys = {60, 61}
  ByteMod = 8
  Timbres <- AgreeingTimbres
  Free = Free
INVARIANTS
  VoiceOwnership
  ChannelsAccounted
  HardwareMatches
  ChipFollows
PROPERTIES
  NoVoiceIdle
  ImplementsPool
