------------------------------- MODULE Gather -------------------------------
(***************************************************************************)
(* GatherGeneric: every rank contributes its share of a Recvsize-byte      *)
(* buffer (elements of Datasize bytes); the root copies its own share and  *)
(* then receives participants.at(0), .at(1), ... in order, each at its     *)
(* displacement.  The root blocks on each receive, so its sendrecv is a    *)
(* loop of steps that interleave with the peers.  Each caller runs Rounds  *)
(* sendrecv calls on the same receive buffer and then closes; the root's   *)
(* caller also closes after a failed call.  A peer's caller passes a send  *)
(* buffer of its share or, when ShortSends, possibly one element short;    *)
(* an EINVAL does not stop it (spec section 7: invalid use is non-fatal).  *)
(* Up to MaxCrashes peers crash.                                           *)
(* A byte is <<rank, round, index>>: where in whose send buffer it was.    *)
(***************************************************************************)
EXTENDS Handle, Partition, FiniteSets

CONSTANTS N, Rounds, Recvsize, Datasize, MaxCrashes, ShortSends

ASSUME /\ N \in Nat \ {0, 1} /\ Rounds \in Nat /\ MaxCrashes \in Nat
       /\ Datasize \in Nat \ {0} /\ Recvsize \in Nat /\ Recvsize % Datasize = 0
       /\ ShortSends \in BOOLEAN

Root  == 0
Peers == 1..N - 1
Ranks == 0..N - 1
RootH(p) == <<Root, p>>
PeerH(p) == <<p, Root>>
Handles == {RootH(p) : p \in Peers} \cup {PeerH(p) : p \in Peers}
Participants == [i \in 0..N - 2 |-> RootH(i + 1)]

\* The first c bytes of rank r's send buffer in round k.
SendBuf(r, k, c) == [j \in 1..c |-> <<r, k, j>>]

\* What no rank sent: the initial content of the receive buffer.
Unset == <<-1, 0, 0>>

VARIABLES
    net,
    rootPc,     \* "idle" (between calls), "recv" (in the receive loop),
                \* "failed" (a call returned <= 0) or "closed"
    rootRound,  \* the root's sendrecv calls started
    i,          \* the loop index of the root's receive loop
    displ,      \* the displacement the next chunk is received at
    recvbuf,    \* the root's receive buffer, byte by byte
    peerRound,  \* peerRound[p]: peer p's sendrecv calls made
    peerDone,   \* peer p's caller has closed (all rounds sent, or a failure)
    crashed,
    sent        \* history: sent[p] is the rounds whose share peer p sent

vars == <<net, rootPc, rootRound, i, displ, recvbuf, peerRound, peerDone, crashed, sent>>

Init == /\ net = InitNet(Handles)
        /\ rootPc = "idle" /\ rootRound = 0 /\ i = 0 /\ displ = 0
        /\ recvbuf = [b \in 1..Recvsize |-> Unset]
        /\ peerRound = [p \in Peers |-> 0]
        /\ peerDone = [p \in Peers |-> FALSE]
        /\ crashed = {}
        /\ sent = [p \in Peers |-> <<>>]

-----------------------------------------------------------------------------
\* recvbuf with `data` written from displacement d on.
WriteAt(buf, d, data) ==
    [b \in DOMAIN buf |-> IF d < b /\ b <= d + Len(data) THEN data[b - d] ELSE buf[b]]

\* GatherGeneric::sendrecv at the root, up to the loop: check the sizes,
\* copy its own share to the front of recvbuff.  The root's caller passes
\* a send buffer exactly as large as its share.
RootStart ==
    /\ rootPc = "idle"
    /\ rootRound < Rounds
    /\ LET self == GatherRootSelfCount(Recvsize, Datasize, N)
       IN  /\ recvbuf' = WriteAt(recvbuf, 0, SendBuf(Root, rootRound + 1, self))
           /\ displ' = self
    /\ rootRound' = rootRound + 1
    /\ i' = 0
    /\ rootPc' = "recv"
    /\ UNCHANGED <<net, peerRound, peerDone, crashed, sent>>

\* One iteration of the root's loop: receive participants.at(i)'s chunk at
\* displ; a result <= 0 ends the call with that result.
RootReceive ==
    /\ rootPc = "recv"
    /\ LET chunksize == GatherRootPeerCount(Recvsize, Datasize, N, i)
       IN  \E o \in ReceiveFromHandle(net, Participants[i], chunksize) :
              /\ net' = o.net
              /\ IF o.res <= 0
                 THEN /\ rootPc' = "failed"
                      /\ UNCHANGED <<recvbuf, displ, i>>
                 ELSE /\ recvbuf' = WriteAt(recvbuf, displ, o.data)
                      /\ displ' = displ + chunksize
                      /\ i' = i + 1
                      /\ rootPc' = IF i + 1 = N - 1 THEN "idle" ELSE "recv"
    /\ UNCHANGED <<rootRound, peerRound, peerDone, crashed, sent>>

\* GatherGeneric::close: write-close every handle.
CloseAll(n, hs) == FoldLeft(LAMBDA m, h : Close(m, h, TRUE, FALSE), n, hs)

RootClose ==
    /\ \/ rootPc = "failed"
       \/ rootPc = "idle" /\ rootRound = Rounds
    /\ net' = CloseAll(net, Participants)
    /\ rootPc' = "closed"
    /\ UNCHANGED <<rootRound, i, displ, recvbuf, peerRound, peerDone, crashed, sent>>

\* GatherGeneric::sendrecv at peer p: send exactly its share to the root,
\* refusing (EINVAL, no I/O) a send buffer smaller than the share.  The
\* caller closes after its last round or a failed send.
PeerSendrecv(p) ==
    /\ p \notin crashed /\ ~peerDone[p]
    /\ peerRound[p] < Rounds
    /\ LET chunksize == GatherPeerCount(Recvsize, Datasize, N, p)
       IN  \E sendsize \in {chunksize} \cup
                           (IF ShortSends /\ chunksize >= Datasize
                            THEN {chunksize - Datasize} ELSE {}) :
              IF chunksize > sendsize
              THEN UNCHANGED <<net, peerDone, sent>>
              ELSE LET o == Send(net, PeerH(p), SendBuf(p, peerRound[p] + 1, chunksize))
                   IN  /\ net' = o.net
                       /\ peerDone' = [peerDone EXCEPT ![p] = (o.res < 0)]
                       /\ sent' = IF o.res < 0 THEN sent
                                  ELSE [sent EXCEPT ![p] = Append(@, peerRound[p] + 1)]
    /\ peerRound' = [peerRound EXCEPT ![p] = @ + 1]
    /\ UNCHANGED <<rootPc, rootRound, i, displ, recvbuf, crashed>>

PeerClose(p) ==
    /\ p \notin crashed /\ ~peerDone[p]
    /\ peerRound[p] = Rounds
    /\ net' = Close(net, PeerH(p), TRUE, FALSE)
    /\ peerDone' = [peerDone EXCEPT ![p] = TRUE]
    /\ UNCHANGED <<rootPc, rootRound, i, displ, recvbuf, peerRound, crashed, sent>>

PeerCrash(p) ==
    /\ p \notin crashed
    /\ Cardinality(crashed) < MaxCrashes
    /\ crashed' = crashed \cup {p}
    /\ net' = Crash(net, PeerH(p))
    /\ UNCHANGED <<rootPc, rootRound, i, displ, recvbuf, peerRound, peerDone, sent>>

Next == \/ RootStart \/ RootReceive \/ RootClose
        \/ \E p \in Peers : PeerSendrecv(p) \/ PeerClose(p) \/ PeerCrash(p)

Fairness == /\ WF_vars(RootStart) /\ WF_vars(RootReceive) /\ WF_vars(RootClose)
            /\ \A p \in Peers : WF_vars(PeerSendrecv(p)) /\ WF_vars(PeerClose(p))

Spec == Init /\ [][Next]_vars /\ Fairness

-----------------------------------------------------------------------------
Byte == ({-1} \cup Ranks) \X (0..Rounds) \X (0..Recvsize)

TypeOK ==
    /\ net \in NetType(Handles, Byte)
    /\ rootPc \in {"idle", "recv", "failed", "closed"}
    /\ rootRound \in 0..Rounds /\ i \in 0..N - 1 /\ displ \in 0..Recvsize
    /\ recvbuf \in [1..Recvsize -> Byte]
    /\ peerRound \in [Peers -> 0..Rounds] /\ peerDone \in [Peers -> BOOLEAN]
    /\ crashed \subseteq Peers
    /\ sent \in [Peers -> Seq(1..Rounds)]

\* What the root's k-th call must assemble: its own round-k share, then
\* each peer's k-th frame, which is its share of the k-th round it sent.
Assembled(k) ==
    FlattenSeq([r \in 1..N |->
        IF r = 1 THEN SendBuf(Root, k, GatherPeerCount(Recvsize, Datasize, N, Root))
        ELSE SendBuf(r - 1, sent[r - 1][k], GatherPeerCount(Recvsize, Datasize, N, r - 1))])

(* GatherAssembles: whenever the root's sendrecv has returned success, its *)
(* receive buffer holds exactly its own share of that call followed by    *)
(* each peer's share of the call's number in that peer's sends, at the    *)
(* reference displacements (spec section 8, property 4): no chunk at a    *)
(* wrong displacement, no byte left over from an earlier round, however   *)
(* the peers ran ahead.  A peer's EINVAL sends nothing, so from then on    *)
(* the root files that peer's next round under this one: the rounds are   *)
(* shifted, not mixed up or torn.                                         *)
GatherAssembles ==
    rootPc = "idle" /\ rootRound > 0 =>
        /\ \A p \in Peers : Len(sent[p]) >= rootRound
        /\ recvbuf = Assembled(rootRound)

(* EmptyShare: some rank's share of Recvsize is zero elements (fewer      *)
(* elements than ranks); its 0-byte frame reads as EOS at the root.       *)
EmptyShare == \E r \in 0..N - 1 : GatherPeerCount(Recvsize, Datasize, N, r) = 0

(* NoSpuriousFailure: the root's sendrecv fails only when a peer crashed, *)
(* a peer sent fewer shares than the root has called for (an EINVAL left  *)
(* it behind and its close then reads as EOS), or some share is empty (a  *)
(* 0-byte frame is EOS, lines 71-73): every non-empty share that was sent *)
(* arrives as one frame the root accepts.  Gather.cfg's sizes give every  *)
(* rank a share, so there it is the first two causes that are checked.    *)
NoSpuriousFailure ==
    rootPc = "failed" =>
        \/ crashed # {}
        \/ \E p \in Peers : Len(sent[p]) < rootRound
        \/ EmptyShare
=============================================================================
