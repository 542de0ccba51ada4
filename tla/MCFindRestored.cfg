SPECIFICATION Spec
CONSTANTS
  NUM_CHANS = 16
  NCTRLS = 9
  SUSTAIN = 4
  ctrl_default <- Nine_default
  Values <- NineValues
  ctrl_ptr <- MCctrl_ptr
  Volumes = {100, 101}
  Grads = {0, 2}
  Watched <- Nine
  Unit = 2
  QuantStep = 3
PROPERTIES
  ControlsRestored
