SPECIFICATION Spec
CONSTANTS
  ByteSize = 6
  MaxContrast = 4
  DefaultContrast = 3
  MinBrightness = 2
  MaxBrightness = 3
PROPERTIES
  ContrastIsApplied
  BrightnessSettles
