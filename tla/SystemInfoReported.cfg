SPECIFICATION Safety
CONSTANTS
  Names <- MCNames
  SystemBundles <- MCSystemBundles
  ProcessBundles <- MCProcessBundles
  Conditions <- MCConditions
  PreambleLines = 2
  MaxRestarts = 2
  MaxInstalled = 2
PROPERTY
  SystemInfoReported
