SPECIFICATION Spec
CONSTANTS
    MaxFails = 2
INVARIANTS
    CompletePicture
CHECK_DEADLOCK FALSE
