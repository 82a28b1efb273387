SPECIFICATION Spec
CONSTANTS
  Names <- MCNames
  SystemBundles <- MCSystemBundles
  ProcessBundles <- MCProcessBundles
  Conditions <- MCConditions
  PreambleLines = 2
  MaxRestarts = 2
  MaxInstalled = 2
INVARIANTS
  TypeOK
  OnePicture
PROPERTIES
  OnlyConfiguredStarted
  TableIsMended
  OutageLeadsToStart
  ImplementsCycle
