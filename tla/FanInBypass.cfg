CONSTANTS
    N = 3
    Msgs = 2
    MaxCrashes = 0

SPECIFICATION Spec

INVARIANT BoundedBypass

\* The stream is finite: once the root has seen EOS nothing is left to do.
CHECK_DEADLOCK FALSE
