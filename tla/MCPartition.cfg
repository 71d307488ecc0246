CONSTANTS
    MaxBytes = 12
    MaxDatasize = 3
    MaxN = 5

SPECIFICATION Spec

INVARIANT RootAndPeersAgree
INVARIANT PartitionIsReference
