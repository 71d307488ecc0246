---------------------------- MODULE MCPartition ----------------------------
(***************************************************************************)
(* Checks the five partition computations of collectiveImpl.hpp against   *)
(* one another and against the reference partition, over every buffer     *)
(* size up to MaxBytes, element size up to MaxDatasize and team size up to *)
(* MaxN.  Each state is one input; Next moves to any other, so TLC visits  *)
(* them all.  Only sizes divisible by datasize are inputs: the collectives *)
(* reject the others with EINVAL before they compute a partition.          *)
(***************************************************************************)
EXTENDS Partition

CONSTANTS MaxBytes, MaxDatasize, MaxN

ASSUME MaxBytes \in Nat /\ MaxDatasize \in Nat \ {0} /\ MaxN \in Nat \ {0}

VARIABLES size, datasize, n
vars == <<size, datasize, n>>

Inputs == { <<s, d, k>> \in (0..MaxBytes) \X (1..MaxDatasize) \X (1..MaxN) :
                s % d = 0 }

Init == \E in \in Inputs : size = in[1] /\ datasize = in[2] /\ n = in[3]

\* Pick the next input to check.
Pick == \E in \in Inputs : /\ in # vars
                           /\ size' = in[1] /\ datasize' = in[2] /\ n' = in[3]

Next == Pick

Spec == Init /\ [][Next]_vars

Ranks == 0..n - 1

-----------------------------------------------------------------------------
(* RootAndPeersAgree: for every rank, the byte count the root of a Gather  *)
(* (and AllGather) expects from participants.at(rank-1) equals the count   *)
(* that rank computes and sends itself, and the root's Alltoall loop sends *)
(* each rank exactly the selfrecvcount that rank checks its recvsize       *)
(* against.  Root and non-root compute these independently, with          *)
(* differently shaped conditions; a disagreement makes receiveFromHandle  *)
(* fail with ENOMEM or leave part of the root's buffer unwritten.          *)
RootAndPeersAgree ==
    /\ GatherRootSelfCount(size, datasize, n) = GatherPeerCount(size, datasize, n, 0)
    /\ \A i \in 0..n - 2 :
          GatherRootPeerCount(size, datasize, n, i) = GatherPeerCount(size, datasize, n, i + 1)
    /\ \A r \in Ranks :
          AlltoallCounts(size, datasize, n)[r + 1] * n = AlltoallSelfRecvCount(size, datasize, n, r)

(* PartitionIsReference: the Scatter root hands rank r exactly the         *)
(* reference chunk, starting at the reference displacement, so that its    *)
(* shares tile the send buffer exactly (spec section 8, properties 1, 2    *)
(* and 4: Gather, whose shares are GatherPeerCount, inverts Scatter); and  *)
(* getTeamPartitionSize reports the same share in elements.                *)
PartitionIsReference ==
    LET sc == ScatterCounts(size, datasize, n)
    IN  /\ Len(sc) = n
        /\ \A r \in Ranks :
              /\ sc[r + 1] = Chunk(size, datasize, n, r)
              /\ sc[r + 1] = GatherPeerCount(size, datasize, n, r)
              /\ FoldLeft(+, 0, SubSeq(sc, 1, r)) = Displ(size, datasize, n, r)
              /\ TeamPartitionSize(size \div datasize, n, r) * datasize = sc[r + 1]
        /\ FoldLeft(+, 0, sc) = size
=============================================================================
