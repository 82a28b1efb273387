SPECIFICATION Spec
CONSTANT Uris <- MCUris
INVARIANTS OpenedIsInside ValidIsDecoded TypeFitsName
CHECK_DEADLOCK FALSE
