CONSTANTS
    N = 3
    Msgs = 1
    MaxCrashes = 0

SPECIFICATION Spec

INVARIANT WouldBlockAfterFullPass

\* The stream is finite: once the root has seen EOS nothing is left to do.
CHECK_DEADLOCK FALSE
