\* Three files: two of the right name and one between, before or after them.
SPECIFICATION Spec
CONSTANTS
  MaxParts = 3
  Bodies <- MCBodies
CHECK_DEADLOCK FALSE
INVARIANT UploadReadsAFileOfTheForm
PROPERTY FilesGivenBack
