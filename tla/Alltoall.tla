------------------------------ MODULE Alltoall ------------------------------
(***************************************************************************)
(* AlltoallGeneric: every rank holds a Sendsize-byte send buffer of        *)
(* Datasize-byte elements, split among the N ranks as Scatter splits it;   *)
(* rank d must end with slice d of every rank's buffer, in rank order.     *)
(* The root (rank 0) receives every peer's whole buffer into a staging     *)
(* buffer allsendbuff, in participant order, then for each destination     *)
(* builds its chunk (the root's slice first, then each peer's) and sends   *)
(* it; the chunk of rank 0 is built in the root's own receive buffer.  A   *)
(* peer sends its buffer and blocks receiving its chunk.  Each caller runs *)
(* Rounds calls and then closes; a caller whose call returned <= 0 closes  *)
(* at once.  Up to MaxCrashes peers crash.  A byte is <<rank, round, j>>:  *)
(* byte j of that rank's send buffer in that round.  `live` counts the     *)
(* root's heap buffers (allsendbuff and the chunkbuffs) not yet deleted.   *)
(***************************************************************************)
EXTENDS Handle, Partition, FiniteSets

CONSTANTS N, Rounds, Sendsize, Recvsize, Datasize, MaxCrashes

ASSUME /\ N \in Nat \ {0, 1} /\ Rounds \in Nat /\ MaxCrashes \in Nat
       /\ Datasize \in Nat \ {0} /\ Sendsize \in Nat /\ Recvsize \in Nat

Root  == 0
Peers == 1..N - 1
Ranks == 0..N - 1
RootH(p) == <<Root, p>>
PeerH(p) == <<p, Root>>
Handles == {RootH(p) : p \in Peers} \cup {PeerH(p) : p \in Peers}
Participants == [i \in 0..N - 2 |-> RootH(i + 1)]

SendBuf(r, k) == [j \in 1..Sendsize |-> <<r, k, j>>]
Unset == <<-1, 0, 0>>

WriteAt(buf, d, data) ==
    [b \in DOMAIN buf |-> IF d < b /\ b <= d + Len(data) THEN data[b - d] ELSE buf[b]]

VARIABLES
    net,
    pc,        \* pc[r]: "idle" (between calls), "gather" (root's receive
               \* loop), "recv" (peer awaiting its chunk), "closed"
    round,     \* round[r]: the sendrecv calls rank r has started
    res,       \* res[r]: what rank r's last sendrecv returned
    recvbuf,   \* recvbuf[r]: rank r's receive buffer
    i,         \* the root's receive-loop index
    staged,    \* allsendbuff: staged[j] holds participants.at(j)'s buffer
    live,      \* the root's heap buffers allocated and not deleted
    crashed

vars == <<net, pc, round, res, recvbuf, i, staged, live, crashed>>

Init == /\ net = InitNet(Handles)
        /\ pc = [r \in Ranks |-> "idle"]
        /\ round = [r \in Ranks |-> 0]
        /\ res = [r \in Ranks |-> 0]
        /\ recvbuf = [r \in Ranks |-> [b \in 1..Recvsize |-> Unset]]
        /\ i = 0
        /\ staged = [j \in 0..N - 2 |-> <<>>]
        /\ live = 0
        /\ crashed = {}

-----------------------------------------------------------------------------
\* The argument checks of sendrecv at rank r: the send size is a whole
\* number of elements and the receive buffer holds selfrecvcount bytes.
ArgsOK(r) == /\ Sendsize % Datasize = 0
             /\ Recvsize >= AlltoallSelfRecvCount(Sendsize, Datasize, N, r)

\* Bytes [d, d + c) of buf: one memcpy of the root's assembly.
Slice(buf, d, c) == SubSeq(buf, d + 1, d + c)

\* Faulty variant of Assemble: the root's own slice placed after the peers'.
AssembleOwnLast(own, stage, d, c) ==
    FoldLeft(LAMBDA acc, b : acc \o Slice(b, d, c), <<>>, stage) \o Slice(own, d, c)

\* The chunk of the destination whose slice is [d, d + c): the root's own
\* slice, then each participant's, in participant order.
Assemble(own, stage, d, c) ==
    Slice(own, d, c) \o FoldLeft(LAMBDA acc, b : acc \o Slice(b, d, c), <<>>, stage)

\* The code's chunksize and displ for destination rank r.
ChunkOf(r) == AlltoallCounts(Sendsize, Datasize, N)[r + 1]
DisplOf(r) == FoldLeft(+, 0, SubSeq(AlltoallCounts(Sendsize, Datasize, N), 1, r))

\* Faulty variant of Distribute: a chunkbuff is not deleted after its send.
RECURSIVE DistributeNoDelete(_, _, _, _)
DistributeNoDelete(n, r, chunks, nlive) ==
    IF r = N THEN [res |-> 0, net |-> n, live |-> nlive]
    ELSE LET o == Send(n, RootH(r), chunks[r])
         IN  IF o.res < 0 THEN [res |-> -1, net |-> o.net, live |-> nlive + 1]
             ELSE DistributeNoDelete(o.net, r + 1, chunks, nlive + 1)

\* The distribution loop from destination r on: a new chunkbuff is sent to
\* participants.at(r - 1) and deleted; the first failed send returns -1
\* (ECONNRESET) with that chunkbuff still allocated.
RECURSIVE Distribute(_, _, _, _)
Distribute(n, r, chunks, nlive) ==
    IF r = N THEN [res |-> 0, net |-> n, live |-> nlive]
    ELSE LET o == Send(n, RootH(r), chunks[r])
         IN  IF o.res < 0 THEN [res |-> -1, net |-> o.net, live |-> nlive + 1]
             ELSE Distribute(o.net, r + 1, chunks, nlive)

\* Faulty variant of LiveOnReturn: allsendbuff is not deleted.
LiveOnReturnNoDelete(dres, dlive) == dlive

\* The heap buffers left when the root returns from the distribution:
\* after the last send it deletes allsendbuff; a failed send returns first.
LiveOnReturn(dres, dlive) == IF dres < 0 THEN dlive ELSE dlive - 1

\* AlltoallGeneric::sendrecv at the root, up to its receive loop: the
\* argument checks, then allsendbuff = new char[...].
RootStart ==
    /\ pc[Root] = "idle" /\ round[Root] < Rounds /\ (round[Root] = 0 \/ res[Root] > 0)
    /\ round' = [round EXCEPT ![Root] = @ + 1]
    /\ IF ArgsOK(Root)
       THEN /\ live' = live + 1
            /\ i' = 0
            /\ pc' = [pc EXCEPT ![Root] = "gather"]
            /\ UNCHANGED res
       ELSE /\ res' = [res EXCEPT ![Root] = -1]
            /\ UNCHANGED <<live, i, pc>>
    /\ UNCHANGED <<net, recvbuf, staged, crashed>>

\* One iteration of the receive loop: participants.at(i)'s whole buffer
\* into allsendbuff; a result <= 0 returns it, allsendbuff not deleted.
\* After the last one the root assembles and sends every chunk, keeps
\* chunk 0 in its receive buffer, deletes allsendbuff and returns
\* selfrecvcount.
RootReceive ==
    /\ pc[Root] = "gather"
    /\ \E o \in ReceiveFromHandle(net, Participants[i], Sendsize) :
         IF o.res <= 0
         THEN /\ net' = o.net
              /\ res' = [res EXCEPT ![Root] = o.res]
              /\ pc' = [pc EXCEPT ![Root] = "idle"]
              /\ UNCHANGED <<recvbuf, i, staged, live>>
         ELSE LET stage  == [staged EXCEPT ![i] = o.data]
                  own    == SendBuf(Root, round[Root])
                  chunks == [r \in Ranks |-> Assemble(own, stage, DisplOf(r), ChunkOf(r))]
                  d      == Distribute(o.net, 1, chunks, live)
              IN  /\ staged' = stage
                  /\ i' = i + 1
                  /\ IF i + 1 < N - 1
                     THEN /\ net' = o.net
                          /\ UNCHANGED <<res, pc, recvbuf, live>>
                     ELSE /\ recvbuf' = [recvbuf EXCEPT ![Root] = WriteAt(@, 0, chunks[Root])]
                          /\ net' = d.net
                          /\ res' = [res EXCEPT ![Root] = IF d.res < 0 THEN -1
                                       ELSE AlltoallSelfRecvCount(Sendsize, Datasize, N, Root)]
                          /\ live' = LiveOnReturn(d.res, d.live)
                          /\ pc' = [pc EXCEPT ![Root] = "idle"]
    /\ UNCHANGED <<round, crashed>>

\* AlltoallGeneric::sendrecv at peer p, first part: the argument checks,
\* then send its whole buffer to the root; a failed send returns -1.
PeerSend(p) ==
    /\ p \notin crashed
    /\ pc[p] = "idle" /\ round[p] < Rounds /\ (round[p] = 0 \/ res[p] > 0)
    /\ round' = [round EXCEPT ![p] = @ + 1]
    /\ IF ~ArgsOK(p)
       THEN /\ res' = [res EXCEPT ![p] = -1]
            /\ UNCHANGED <<net, pc>>
       ELSE LET o == Send(net, PeerH(p), SendBuf(p, round[p] + 1))
            IN  /\ net' = o.net
                /\ IF o.res < 0
                   THEN /\ res' = [res EXCEPT ![p] = -1]
                        /\ UNCHANGED pc
                   ELSE /\ pc' = [pc EXCEPT ![p] = "recv"]
                        /\ UNCHANGED res
    /\ UNCHANGED <<recvbuf, i, staged, live, crashed>>

\* Second part: receive its chunk from the root; on EOS write-close the
\* handle.  The call returns selfrecvcount whatever the receive gave.
PeerReceive(p) ==
    /\ p \notin crashed
    /\ pc[p] = "recv"
    /\ \E o \in ReceiveFromHandle(net, PeerH(p), Recvsize) :
          /\ net' = IF o.res = 0 THEN Close(o.net, PeerH(p), TRUE, FALSE) ELSE o.net
          /\ recvbuf' = [recvbuf EXCEPT ![p] = WriteAt(@, 0, o.data)]
    /\ res' = [res EXCEPT ![p] = AlltoallSelfRecvCount(Sendsize, Datasize, N, p)]
    /\ pc' = [pc EXCEPT ![p] = "idle"]
    /\ UNCHANGED <<round, i, staged, live, crashed>>

\* AlltoallGeneric::close, called by rank r's caller after its last round
\* or after a call that returned <= 0: write-close every participant.
OwnHandles(r) == IF r = Root THEN Participants ELSE <<PeerH(r)>>

\* Faulty variant of CloseRank: close() that closes nothing.
CloseRankNoop(r) ==
    /\ r \notin crashed
    /\ pc[r] = "idle" /\ (round[r] = Rounds \/ (round[r] > 0 /\ res[r] <= 0))
    /\ pc' = [pc EXCEPT ![r] = "closed"]
    /\ UNCHANGED <<net, round, res, recvbuf, i, staged, live, crashed>>

CloseRank(r) ==
    /\ r \notin crashed
    /\ pc[r] = "idle" /\ (round[r] = Rounds \/ (round[r] > 0 /\ res[r] <= 0))
    /\ net' = FoldLeft(LAMBDA m, h : Close(m, h, TRUE, FALSE), net, OwnHandles(r))
    /\ pc' = [pc EXCEPT ![r] = "closed"]
    /\ UNCHANGED <<round, res, recvbuf, i, staged, live, crashed>>

PeerCrash(p) ==
    /\ p \notin crashed
    /\ Cardinality(crashed) < MaxCrashes
    /\ crashed' = crashed \cup {p}
    /\ net' = Crash(net, PeerH(p))
    /\ UNCHANGED <<pc, round, res, recvbuf, i, staged, live>>

Next == \/ RootStart \/ RootReceive
        \/ \E p \in Peers : PeerSend(p) \/ PeerReceive(p) \/ PeerCrash(p)
        \/ \E r \in Ranks : CloseRank(r)

\* The ranks are OS processes; crashes are not bound to happen.
Fairness == /\ WF_vars(RootStart) /\ WF_vars(RootReceive)
            /\ \A p \in Peers : WF_vars(PeerSend(p)) /\ WF_vars(PeerReceive(p))
            /\ \A r \in Ranks : WF_vars(CloseRank(r))

Spec == Init /\ [][Next]_vars /\ Fairness

-----------------------------------------------------------------------------
Byte == ({-1} \cup Ranks) \X (0..Rounds) \X (0..Sendsize)

TypeOK ==
    /\ net \in NetType(Handles, Byte)
    /\ pc \in [Ranks -> {"idle", "gather", "recv", "closed"}]
    /\ round \in [Ranks -> 0..Rounds]
    /\ res \in [Ranks -> -1..Recvsize]
    /\ recvbuf \in [Ranks -> [1..Recvsize -> Byte]]
    /\ i \in 0..N - 1
    /\ staged \in [0..N - 2 -> Seq(Byte)]
    /\ live \in 0..2
    /\ crashed \subseteq Peers

\* What rank d must hold after round k (spec section 4.2): slice d of the
\* reference partition of every rank's round-k buffer, in rank order.
Transposed(d, k) ==
    FlattenSeq([s \in 1..N |-> Slice(SendBuf(s - 1, k), Displ(Sendsize, Datasize, N, d),
                                     Chunk(Sendsize, Datasize, N, d))])

(* AlltoallTransposes: every rank whose sendrecv returned success holds,   *)
(* at the front of its receive buffer, slice `rank` of every rank's buffer *)
(* of that same round, in rank order: the root's decrementing hand-out of  *)
(* the remainder, its assembly order and each peer's own selfrecvcount all *)
(* agree with the reference partition, whatever the interleaving.          *)
AlltoallTransposes ==
    \A r \in Ranks \ crashed :
        pc[r] \in {"idle", "closed"} /\ round[r] > 0 /\ res[r] > 0 =>
            LET t == Transposed(r, round[r])
            IN  SubSeq(recvbuf[r], 1, Len(t)) = t

(* TransposeUnlessCrash: while no peer has crashed, AlltoallTransposes     *)
(* holds (after a crash a peer that received EOS still reports success,    *)
(* as in AllGather; see finding allgather_peer_eos).                       *)
TransposeUnlessCrash == crashed = {} => AlltoallTransposes

(* StagingFreed: the root's heap buffers are live only while its sendrecv *)
(* runs or after a call that failed: a successful call has deleted        *)
(* allsendbuff and every chunkbuff.  The failure paths (lines 797 and 831) *)
(* return without deleting them; the caller then closes the group.        *)
StagingFreed ==
    live > 0 => pc[Root] = "gather" \/ res[Root] <= 0

(* AllFinish: every live rank's caller gets to close: a peer blocked on   *)
(* its chunk is released by the chunk or, when the root gave up, by the   *)
(* root's close.                                                          *)
AllFinish == <>(\A r \in Ranks \ crashed : pc[r] = "closed")
=============================================================================
