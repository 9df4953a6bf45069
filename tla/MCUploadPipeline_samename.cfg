SPECIFICATION Spec
CONSTANTS
  Names = {"a", "b", "c"}
  Forms <- SameNameForms
  SniffChunks = 2
  MaxChunks = 3
  MaxFiles = 2
INVARIANT
  PublishedFilesAreStored
CHECK_DEADLOCK FALSE
