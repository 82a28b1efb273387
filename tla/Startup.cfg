SPECIFICATION Spec
CONSTANTS
  Files <- MCFiles
  ChunkSize <- MCChunkSize
  Configs <- MCConfigs
  MaxText <- MCMaxText
INVARIANTS LoadedWhole AlignedNeverParsed SelfReferenceNeverStarts ExpandedAtOnce
PROPERTIES UnalignedIsParsed TameIsStarted
CHECK_DEADLOCK FALSE
