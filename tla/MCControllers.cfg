SPECIFICATION FairSpec
CONSTANTS
  NUM_CHANS = 2
  NCTRLS = 3
  SUSTAIN = 2
  ctrl_default <- MCctrl_default
  Values <- MCValues
  ctrl_ptr <- MCctrl_ptr
  Volumes = {100, 101}
  Grads = {0, 2}
  Watched = {0}
  Unit = 2
  QuantStep = 3
INVARIANTS
  VolumeFollows
PROPERTIES
  VolumeSettles
