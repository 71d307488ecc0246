CONSTANTS
    N = 3
    Rounds = 2
    Recvsize = 4
    Datasize = 1
    MaxCrashes = 1

SPECIFICATION Spec

INVARIANT AllGatherAgrees

\* The all-gather is finite: once every caller has closed, nothing is left.
CHECK_DEADLOCK FALSE
