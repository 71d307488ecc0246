CONSTANTS
    N = 4
    Rounds = 3
    Recvsize = 10
    Datasize = 2
    MaxCrashes = 1
    ShortSends = TRUE

SPECIFICATION Spec

INVARIANT TypeOK
INVARIANT GatherAssembles
INVARIANT NoSpuriousFailure

\* The gather is finite: once every caller has closed, nothing is left to do.
CHECK_DEADLOCK FALSE
