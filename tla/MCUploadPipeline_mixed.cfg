SPECIFICATION FairSpec
CONSTANTS
  Names = {"a", "b", "c"}
  Forms <- MixedForms
  SniffChunks = 2
  MaxChunks = 3
  MaxFiles = 2
INVARIANTS
  TypeOK
  PublishedFilesAreStored
  PublishedIsWithinLimits
  OnlyLateVerdictsSlip
PROPERTY
  EveryUploadIsAnswered
CHECK_DEADLOCK FALSE
