CONSTANTS
    N = 4
    Msgs = 5
    MaxCrashes = 2

SPECIFICATION Spec

INVARIANT TypeOK
PROPERTY AllPeersEnd
PROPERTY ImplementsDealer

\* The stream is finite: once every peer has seen EOS nothing is left to do.
CHECK_DEADLOCK FALSE
