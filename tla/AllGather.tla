----------------------------- MODULE AllGather -----------------------------
(***************************************************************************)
(* AllGatherGeneric: a Gather at the root followed by sending the whole    *)
(* assembled Recvsize-byte buffer back to every participant, in order.     *)
(* A non-root sends its share and then blocks receiving the whole buffer.  *)
(* Every caller runs Rounds sendrecv calls on one receive buffer and then  *)
(* closes; a caller whose call returned <= 0 closes at once (spec section  *)
(* 5: the group state is then undefined).  Up to MaxCrashes peers crash.   *)
(* A byte is <<rank, round, index>>, as in module Gather.                  *)
(***************************************************************************)
EXTENDS Handle, Partition, FiniteSets

CONSTANTS N, Rounds, Recvsize, Datasize, MaxCrashes

ASSUME /\ N \in Nat \ {0, 1} /\ Rounds \in Nat /\ MaxCrashes \in Nat
       /\ Datasize \in Nat \ {0} /\ Recvsize \in Nat /\ Recvsize % Datasize = 0

Root  == 0
Peers == 1..N - 1
Ranks == 0..N - 1
RootH(p) == <<Root, p>>
PeerH(p) == <<p, Root>>
Handles == {RootH(p) : p \in Peers} \cup {PeerH(p) : p \in Peers}
Participants == [i \in 0..N - 2 |-> RootH(i + 1)]

SendBuf(r, k, c) == [j \in 1..c |-> <<r, k, j>>]
Unset == <<-1, 0, 0>>

WriteAt(buf, d, data) ==
    [b \in DOMAIN buf |-> IF d < b /\ b <= d + Len(data) THEN data[b - d] ELSE buf[b]]

VARIABLES
    net,
    pc,        \* pc[r]: "idle" (between calls), "gather" (root's receive
               \* loop), "recv" (non-root awaiting the buffer), "closed"
    round,     \* round[r]: the sendrecv calls rank r has started
    res,       \* res[r]: what rank r's last sendrecv returned
    recvbuf,   \* recvbuf[r]: rank r's receive buffer
    i, displ,  \* the root's receive-loop index and displacement
    crashed

vars == <<net, pc, round, res, recvbuf, i, displ, crashed>>

Init == /\ net = InitNet(Handles)
        /\ pc = [r \in Ranks |-> "idle"]
        /\ round = [r \in Ranks |-> 0]
        /\ res = [r \in Ranks |-> 0]
        /\ recvbuf = [r \in Ranks |-> [b \in 1..Recvsize |-> Unset]]
        /\ i = 0 /\ displ = 0
        /\ crashed = {}

-----------------------------------------------------------------------------
\* Faulty variant of SendAll: the loop stops before the last participant.
RECURSIVE SendAllButLast(_, _, _)
SendAllButLast(n, hs, buf) ==
    IF Len(hs) <= 1 THEN Out(Len(buf), "", 0, EOS, n)
    ELSE LET o == Send(n, Head(hs), buf)
         IN  IF o.res < 0 THEN Out(-1, "ECONNRESET", 0, EOS, o.net)
             ELSE SendAllButLast(o.net, Tail(hs), buf)

\* The root's final loop: send the assembled buffer to each handle of hs in
\* order; give up with ECONNRESET at the first send that fails.
RECURSIVE SendAll(_, _, _)
SendAll(n, hs, buf) ==
    IF hs = <<>> THEN Out(Len(buf), "", 0, EOS, n)
    ELSE LET o == Send(n, Head(hs), buf)
         IN  IF o.res < 0 THEN Out(-1, "ECONNRESET", 0, EOS, o.net)
             ELSE SendAll(o.net, Tail(hs), buf)

\* Root, up to its receive loop: copy its own share to the front.
RootStart ==
    /\ pc[Root] = "idle" /\ round[Root] < Rounds /\ (round[Root] = 0 \/ res[Root] > 0)
    /\ LET self == GatherRootSelfCount(Recvsize, Datasize, N)
       IN  /\ recvbuf' = [recvbuf EXCEPT ![Root] =
                             WriteAt(@, 0, SendBuf(Root, round[Root] + 1, self))]
           /\ displ' = self
    /\ round' = [round EXCEPT ![Root] = @ + 1]
    /\ i' = 0
    /\ pc' = [pc EXCEPT ![Root] = "gather"]
    /\ UNCHANGED <<net, res, crashed>>

\* One iteration of the root's receive loop; a result <= 0 ends the call
\* with that result.  After the last one the root sends the whole buffer
\* to every participant in order, failing with -1 at the first failed send.
RootReceive ==
    /\ pc[Root] = "gather"
    /\ LET chunksize == GatherRootPeerCount(Recvsize, Datasize, N, i)
           self == GatherRootSelfCount(Recvsize, Datasize, N)
       IN  \E o \in ReceiveFromHandle(net, Participants[i], chunksize) :
             IF o.res <= 0
             THEN /\ net' = o.net
                  /\ res' = [res EXCEPT ![Root] = o.res]
                  /\ pc' = [pc EXCEPT ![Root] = "idle"]
                  /\ UNCHANGED <<recvbuf, i, displ>>
             ELSE LET buf == WriteAt(recvbuf[Root], displ, o.data)
                      last == i + 1 = N - 1
                      s == SendAll(o.net, [j \in 1..N - 1 |-> RootH(j)], buf)
                  IN  /\ recvbuf' = [recvbuf EXCEPT ![Root] = buf]
                      /\ displ' = displ + chunksize
                      /\ i' = i + 1
                      /\ net' = IF last THEN s.net ELSE o.net
                      /\ res' = IF last
                                THEN [res EXCEPT ![Root] = IF s.res < 0 THEN -1 ELSE self]
                                ELSE res
                      /\ pc' = IF last THEN [pc EXCEPT ![Root] = "idle"] ELSE pc
    /\ UNCHANGED <<round, crashed>>

\* AllGatherGeneric::sendrecv at peer p, first part: send exactly its share
\* to the root; a failed send ends the call with -1.
PeerSend(p) ==
    /\ p \notin crashed
    /\ pc[p] = "idle" /\ round[p] < Rounds /\ (round[p] = 0 \/ res[p] > 0)
    /\ LET o == Send(net, PeerH(p),
                     SendBuf(p, round[p] + 1, GatherPeerCount(Recvsize, Datasize, N, p)))
       IN  /\ net' = o.net
           /\ IF o.res < 0
              THEN /\ res' = [res EXCEPT ![p] = -1]
                   /\ UNCHANGED pc
              ELSE /\ pc' = [pc EXCEPT ![p] = "recv"]
                   /\ UNCHANGED res
    /\ round' = [round EXCEPT ![p] = @ + 1]
    /\ UNCHANGED <<recvbuf, i, displ, crashed>>

\* Second part: receive the whole buffer from the root; on EOS write-close
\* the handle.  The call returns the share's size whatever the receive gave.
PeerReceive(p) ==
    /\ p \notin crashed
    /\ pc[p] = "recv"
    /\ \E o \in ReceiveFromHandle(net, PeerH(p), Recvsize) :
          /\ net' = IF o.res = 0 THEN Close(o.net, PeerH(p), TRUE, FALSE) ELSE o.net
          /\ recvbuf' = [recvbuf EXCEPT ![p] = WriteAt(@, 0, o.data)]
    /\ res' = [res EXCEPT ![p] = GatherPeerCount(Recvsize, Datasize, N, p)]
    /\ pc' = [pc EXCEPT ![p] = "idle"]
    /\ UNCHANGED <<round, i, displ, crashed>>

\* AllGatherGeneric::close, called by rank r's caller after its last round
\* or after a call that returned <= 0: write-close every handle it owns.
OwnHandles(r) == IF r = Root THEN [j \in 1..N - 1 |-> RootH(j)] ELSE <<PeerH(r)>>

\* Faulty variant of CloseRank: close() that closes nothing.
CloseRankNoop(r) ==
    /\ r \notin crashed
    /\ pc[r] = "idle" /\ (round[r] = Rounds \/ (round[r] > 0 /\ res[r] <= 0))
    /\ pc' = [pc EXCEPT ![r] = "closed"]
    /\ UNCHANGED <<net, round, res, recvbuf, i, displ, crashed>>

CloseRank(r) ==
    /\ r \notin crashed
    /\ pc[r] = "idle" /\ (round[r] = Rounds \/ (round[r] > 0 /\ res[r] <= 0))
    /\ net' = FoldLeft(LAMBDA m, h : Close(m, h, TRUE, FALSE), net, OwnHandles(r))
    /\ pc' = [pc EXCEPT ![r] = "closed"]
    /\ UNCHANGED <<round, res, recvbuf, i, displ, crashed>>

PeerCrash(p) ==
    /\ p \notin crashed
    /\ Cardinality(crashed) < MaxCrashes
    /\ crashed' = crashed \cup {p}
    /\ net' = Crash(net, PeerH(p))
    /\ UNCHANGED <<pc, round, res, recvbuf, i, displ>>

Next == \/ RootStart \/ RootReceive
        \/ \E p \in Peers : PeerSend(p) \/ PeerReceive(p) \/ PeerCrash(p)
        \/ \E r \in Ranks : CloseRank(r)

Fairness == /\ WF_vars(RootStart) /\ WF_vars(RootReceive)
            /\ \A p \in Peers : WF_vars(PeerSend(p)) /\ WF_vars(PeerReceive(p))
            /\ \A r \in Ranks : WF_vars(CloseRank(r))

Spec == Init /\ [][Next]_vars /\ Fairness

-----------------------------------------------------------------------------
Byte == ({-1} \cup Ranks) \X (0..Rounds) \X (0..Recvsize)

TypeOK ==
    /\ net \in NetType(Handles, Byte)
    /\ pc \in [Ranks -> {"idle", "gather", "recv", "closed"}]
    /\ round \in [Ranks -> 0..Rounds]
    /\ res \in [Ranks -> -1..Recvsize]
    /\ recvbuf \in [Ranks -> [1..Recvsize -> Byte]]
    /\ i \in 0..N - 1 /\ displ \in 0..Recvsize
    /\ crashed \subseteq Peers

Gathered(k) ==
    FlattenSeq([r \in 1..N |-> SendBuf(r - 1, k, GatherPeerCount(Recvsize, Datasize, N, r - 1))])

(* AllGatherAgrees: every participant whose sendrecv returned success     *)
(* holds in its receive buffer the concatenation of every rank's share of *)
(* that round (spec section 8, property 5), and so all such participants  *)
(* agree.  Spec section 7: an EOS is reported as 0, never as success.     *)
AllGatherAgrees ==
    \A r \in Ranks \ crashed :
        pc[r] = "idle" /\ round[r] > 0 /\ res[r] > 0 => recvbuf[r] = Gathered(round[r])

(* AgreeUnlessCrash: while no peer has crashed, AllGatherAgrees holds: a   *)
(* failure can only come from a crash, so without one every call succeeds  *)
(* with the full concatenation on every rank, however the ranks interleave.*)
AgreeUnlessCrash == crashed = {} => AllGatherAgrees

(* AllFinish: every live participant's caller gets to close: a non-root   *)
(* blocked on the root's buffer is released by the buffer or, when the    *)
(* root gave up, by the root's close.                                     *)
AllFinish == <>(\A r \in Ranks \ crashed : pc[r] = "closed")
=============================================================================
