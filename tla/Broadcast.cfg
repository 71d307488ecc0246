CONSTANTS
    N = 4
    Rounds = 2
    Sizes = {1, 2}
    Caps = {1, 2}
    MaxCrashes = 2

SPECIFICATION Spec

INVARIANT DeliveredInOrder
PROPERTY ImplementsFailFast
PROPERTY PeersUnblock

\* The broadcast is finite: once the root has closed and every peer has
\* seen EOS, nothing is left to do.
CHECK_DEADLOCK FALSE
