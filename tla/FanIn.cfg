CONSTANTS
    N = 4
    Msgs = 2
    MaxCrashes = 1

SPECIFICATION Spec

INVARIANT TypeOK
PROPERTY RootDrains
PROPERTY ImplementsMerge

\* The stream is finite: once the root has seen EOS nothing is left to do.
CHECK_DEADLOCK FALSE
