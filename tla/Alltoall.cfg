CONSTANTS
    N = 5
    Rounds = 3
    Sendsize = 14
    Recvsize = 20
    Datasize = 2
    MaxCrashes = 2

SPECIFICATION Spec

INVARIANT TypeOK
INVARIANT TransposeUnlessCrash
INVARIANT StagingFreed
PROPERTY AllFinish

\* The all-to-all is finite: once every caller has closed, nothing is left.
CHECK_DEADLOCK FALSE
