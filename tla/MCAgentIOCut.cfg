\* A program that writes and exits.
SPECIFICATION Spec
CONSTANTS
    NumIn = 0
    Cap = 1
    NumOut = 2
    PipeCap = 1
    MayFail = FALSE
INVARIANT OutputComplete
CHECK_DEADLOCK FALSE
