CONSTANTS
    N = 3
    Msgs = 1
    MaxCrashes = 1

SPECIFICATION Spec

INVARIANT EOSOnlyWhenAllDone

\* The stream is finite: once the root has seen EOS nothing is left to do.
CHECK_DEADLOCK FALSE
