----------------------------- MODULE Partition -----------------------------
(***************************************************************************)
(* The buffer-partition arithmetic of collectiveImpl.hpp.  Every rooted    *)
(* data collective splits a buffer of `size` bytes, holding elements of    *)
(* `datasize` bytes, among `n` participants.  The code computes the split  *)
(* in five places and in three different shapes: the root's loops in       *)
(* Scatter and Alltoall decrement a remainder counter, Gather's root tests *)
(* the participant index against the remainder, and every non-root (and    *)
(* getTeamPartitionSize) tests its own rank.  The collectives only work if *)
(* these shapes agree.  All counts are in bytes unless named otherwise.    *)
(***************************************************************************)
EXTENDS Naturals, Sequences, SequencesExt

\* CollectiveImpl::getTeamPartitionSize: the number of ELEMENTS of a
\* buffcount-element buffer that rank `rank` of an n-member team holds.
TeamPartitionSize(buffcount, n, rank) ==
    LET partition == buffcount \div n
        r         == buffcount % n
    IN  IF r # 0 /\ rank < r THEN partition + 1 ELSE partition

\* The root's hand-out loop of Scatter and Alltoall: a base share for each
\* of the n ranks, one extra element to each while the remainder counter
\* `rcount` is positive, decrementing it each time.  Result: the byte count
\* for rank 0 (the root's own share), 1, ..., n-1, in that order.
RECURSIVE RemainderLoop(_, _, _, _)
RemainderLoop(k, rcount, base, datasize) ==
    IF k = 0 THEN <<>>
    ELSE << IF rcount > 0 THEN base + datasize ELSE base >>
         \o RemainderLoop(k - 1, IF rcount > 0 THEN rcount - 1 ELSE 0, base, datasize)

\* Faulty variant of ScatterCounts: the root takes its extra element
\* without decrementing rcount.
ScatterCountsNoDecrement(sendsize, datasize, n) ==
    LET datacount == sendsize \div datasize
        base      == (datacount \div n) * datasize
    IN  << IF datacount % n > 0 THEN base + datasize ELSE base >>
        \o RemainderLoop(n - 1, datacount % n, base, datasize)

\* ScatterGeneric::sendrecv, root: selfsendcount and the chunksize sent to
\* each participants.at(i), i.e. to rank i+1.
ScatterCounts(sendsize, datasize, n) ==
    LET datacount == sendsize \div datasize
    IN  RemainderLoop(n, datacount % n, (datacount \div n) * datasize, datasize)

\* GatherGeneric::sendrecv: the root's own share (selfrecvcount).
GatherRootSelfCount(recvsize, datasize, n) ==
    LET datacount == recvsize \div datasize
        recvcount == (datacount \div n) * datasize
    IN  IF datacount % n > 0 THEN recvcount + datasize ELSE recvcount

\* Faulty variant of GatherRootPeerCount: <= for <, off by one.
GatherRootPeerCountOffByOne(recvsize, datasize, n, i) ==
    LET datacount == recvsize \div datasize
        recvcount == (datacount \div n) * datasize
        rcount    == datacount % n
    IN  IF rcount # 0 /\ (i + 1) <= rcount THEN recvcount + datasize ELSE recvcount

\* GatherGeneric::sendrecv: the chunksize the root expects from
\* participants.at(i), i in 0..n-2 (rank i+1).
GatherRootPeerCount(recvsize, datasize, n, i) ==
    LET datacount == recvsize \div datasize
        recvcount == (datacount \div n) * datasize
        rcount    == datacount % n
    IN  IF rcount # 0 /\ (i + 1) < rcount THEN recvcount + datasize ELSE recvcount

\* GatherGeneric::sendrecv: the chunksize a non-root of rank `rank` sends.
GatherPeerCount(recvsize, datasize, n, rank) ==
    LET datacount == recvsize \div datasize
        recvcount == (datacount \div n) * datasize
        rcount    == datacount % n
    IN  IF rcount # 0 /\ rank < rcount THEN recvcount + datasize ELSE recvcount

\* AlltoallGeneric::sendrecv: selfrecvcount, the bytes rank `rank` expects
\* to receive, and that it checks recvsize against.
AlltoallSelfRecvCount(sendsize, datasize, n, rank) ==
    LET datacount == sendsize \div datasize
        sendcount == (datacount \div n) * datasize
        rcount    == datacount % n
    IN  (sendcount + (IF rcount # 0 /\ rank < rcount THEN datasize ELSE 0)) * n

\* AlltoallGeneric::sendrecv, root: the chunksize of destination rank i, for
\* i in 0..n-1; rank i is sent chunksize * n bytes.
AlltoallCounts(sendsize, datasize, n) ==
    LET datacount == sendsize \div datasize
    IN  RemainderLoop(n, datacount % n, (datacount \div n) * datasize, datasize)

-----------------------------------------------------------------------------
(* The reference partition of the specification (section 4.2): the first  *)
(* `count % n` ranks carry one extra element; displacement of rank r is    *)
(* the sum of the chunks of the ranks before it.                           *)
Chunk(total, datasize, n, r) ==
    LET count == total \div datasize
    IN  (count \div n) * datasize + (IF r < count % n THEN datasize ELSE 0)

Displ(total, datasize, n, r) ==
    FoldLeft(+, 0, [i \in 1..r |-> Chunk(total, datasize, n, i - 1)])
=============================================================================
