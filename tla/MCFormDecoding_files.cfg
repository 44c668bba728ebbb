\* Forms of two files are enough; the property is expected to fail.
SPECIFICATION Spec
CONSTANTS
  MaxParts = 2
  Bodies <- MCBodies
CHECK_DEADLOCK FALSE
INVARIANT EveryFileIsUploaded
