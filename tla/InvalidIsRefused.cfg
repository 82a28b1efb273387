SPECIFICATION Spec
CONSTANT Uris <- MCUris
INVARIANT InvalidIsRefused
CHECK_DEADLOCK FALSE
