CONSTANTS
    N = 5
    Rounds = 3
    Recvsize = 14
    Datasize = 2
    MaxCrashes = 2

SPECIFICATION Spec

INVARIANT TypeOK
INVARIANT AgreeUnlessCrash
PROPERTY AllFinish

\* The all-gather is finite: once every caller has closed, nothing is left.
CHECK_DEADLOCK FALSE
