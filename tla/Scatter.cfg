CONSTANTS
    N = 4
    Rounds = 2
    Sizes = {12, 14}
    Datasize = 2
    RootCaps = {2, 4}
    Caps = {2, 4}
    MaxCrashes = 1

SPECIFICATION Spec

INVARIANT ScatterDelivers
INVARIANT EOSOnlyAfterAll
PROPERTY PeersUnblock

\* The scatter is finite: once the root has closed and every peer has seen
\* EOS, nothing is left to do.
CHECK_DEADLOCK FALSE
