CONSTANTS
  fx_max = 4
  Lg = {0, 1}
  SAFETY = 2
  STROBE = 3
  MAX_SHIFT = 2
  BRIGHT_SHIFT = 1
  SAFETY_SHIFT = 2
  BEAT_SHIFT = 1
SPECIFICATION EffectsFairSpec
INVARIANTS EffectsTypeOK PatternIsWhole
PROPERTIES LowBatteryIsShown BrightnessIsLimited BeatFollowsCeiling
