CONSTANTS
  Slots = {s1}
  Images = {a, b, c}
  None = None
  Keep = 2
  WriteFails = TRUE
SPECIFICATION ArtSpec
INVARIANTS
  FilesAreNeeded
