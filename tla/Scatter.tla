------------------------------ MODULE Scatter ------------------------------
(***************************************************************************)
(* ScatterGeneric: the root (rank 0) splits a buffer of Datasize-byte      *)
(* elements among ranks 0..N-1: it copies its own share into its receive   *)
(* buffer and sends each peer its share, in participant order.  The root's *)
(* caller makes Rounds sendrecv calls, each with a send buffer of a size   *)
(* in Sizes and a receive buffer of a size in RootCaps, and then closes;   *)
(* after a failed send it closes at once; an EINVAL (receive buffer too    *)
(* small) does no I/O and the caller goes on (spec section 7).  Each peer's *)
(* caller calls sendrecv until it sees EOS, with a receive buffer of a     *)
(* size in Caps and, after an ENOMEM, the largest.  Up to MaxCrashes peers *)
(* crash.  Byte j of the root's k-th send buffer is <<k, j>>.              *)
(***************************************************************************)
EXTENDS Handle, Partition, FiniteSets

CONSTANTS N, Rounds, Sizes, Datasize, RootCaps, Caps, MaxCrashes

ASSUME /\ N \in Nat \ {0, 1} /\ Rounds \in Nat /\ MaxCrashes \in Nat
       /\ Datasize \in Nat \ {0}
       /\ Sizes \subseteq Nat /\ \A s \in Sizes : s % Datasize = 0
       /\ RootCaps \subseteq Nat /\ Caps \subseteq Nat \ {0}

Root  == 0
Peers == 1..N - 1
RootH(p) == <<Root, p>>
PeerH(p) == <<p, Root>>
Handles == {RootH(p) : p \in Peers} \cup {PeerH(p) : p \in Peers}
Participants == [i \in 1..N - 1 |-> RootH(i)]

\* The root's k-th send buffer, of s bytes.
SendBuf(k, s) == [j \in 1..s |-> <<k, j>>]

Slice(buf, d, c) == SubSeq(buf, d + 1, d + c)

VARIABLES
    net,
    sizes,      \* the sizes of the root's calls that passed the checks
    calls,      \* the root's sendrecv calls made
    rootState,  \* "run", "failed" (a send failed) or "closed"
    own,        \* the root's receive buffer: its own share of its last call
    got,        \* got[p]: what peer p's successful sendrecv calls returned
    eos,        \* eos[p]: peer p's sendrecv returned 0
    retry,      \* retry[p]: peer p's last sendrecv failed with ENOMEM
    crashed

vars == <<net, sizes, calls, rootState, own, got, eos, retry, crashed>>

Init == /\ net = InitNet(Handles)
        /\ sizes = <<>> /\ calls = 0 /\ rootState = "run" /\ own = <<>>
        /\ got = [p \in Peers |-> <<>>]
        /\ eos = [p \in Peers |-> FALSE]
        /\ retry = [p \in Peers |-> FALSE]
        /\ crashed = {}

-----------------------------------------------------------------------------
\* Faulty variant of SendChunks: the send pointer is not advanced.
RECURSIVE SendChunksNoAdvance(_, _, _, _, _)
SendChunksNoAdvance(n, i, buf, d, counts) ==
    IF i = N THEN Out(0, "", 0, EOS, n)
    ELSE LET o == Send(n, Participants[i], Slice(buf, d, counts[i + 1]))
         IN  IF o.res < 0 THEN Out(-1, "ECONNRESET", 0, EOS, o.net)
             ELSE SendChunksNoAdvance(o.net, i + 1, buf, d, counts)

\* Faulty variant of SendChunks: the loop stops before the last participant.
RECURSIVE SendChunksButLast(_, _, _, _, _)
SendChunksButLast(n, i, buf, d, counts) ==
    IF i >= N - 1 THEN Out(0, "", 0, EOS, n)
    ELSE LET o == Send(n, Participants[i], Slice(buf, d, counts[i + 1]))
         IN  IF o.res < 0 THEN Out(-1, "ECONNRESET", 0, EOS, o.net)
             ELSE SendChunksButLast(o.net, i + 1, buf, d + counts[i + 1], counts)

\* The root's loop from participants.at(i - 1) on: send chunksize bytes
\* from the send pointer d, advance it; the first failed send returns -1
\* with ECONNRESET.  counts[i + 1] is the chunksize of rank i.
RECURSIVE SendChunks(_, _, _, _, _)
SendChunks(n, i, buf, d, counts) ==
    IF i = N THEN Out(0, "", 0, EOS, n)
    ELSE LET o == Send(n, Participants[i], Slice(buf, d, counts[i + 1]))
         IN  IF o.res < 0 THEN Out(-1, "ECONNRESET", 0, EOS, o.net)
             ELSE SendChunks(o.net, i + 1, buf, d + counts[i + 1], counts)

\* ScatterGeneric::sendrecv at the root: selfsendcount against recvsize
\* (EINVAL, no I/O), the copy of its own share, then the send loop.
RootSendrecv ==
    /\ rootState = "run" /\ calls < Rounds
    /\ calls' = calls + 1
    /\ \E s \in Sizes, cap \in RootCaps :
          LET counts == ScatterCounts(s, Datasize, N)
              buf    == SendBuf(Len(sizes) + 1, s)
              o      == SendChunks(net, 1, buf, counts[1], counts)
          IN  IF cap < counts[1]
              THEN UNCHANGED <<net, sizes, rootState, own>>
              ELSE /\ net' = o.net
                   /\ sizes' = Append(sizes, s)
                   /\ own' = Slice(buf, 0, counts[1])
                   /\ rootState' = IF o.res < 0 THEN "failed" ELSE "run"
    /\ UNCHANGED <<got, eos, retry, crashed>>

\* Faulty variant of RootClose: close() that closes nothing.
RootCloseNoop ==
    /\ rootState = "failed" \/ (rootState = "run" /\ calls = Rounds)
    /\ rootState' = "closed"
    /\ UNCHANGED <<net, sizes, calls, own, got, eos, retry, crashed>>

\* ScatterGeneric::close at the root: write-close every participant.  A
\* non-root's close does nothing, so it is no action.
RootClose ==
    /\ rootState = "failed" \/ (rootState = "run" /\ calls = Rounds)
    /\ net' = FoldLeft(LAMBDA m, h : Close(m, h, TRUE, FALSE), net, Participants)
    /\ rootState' = "closed"
    /\ UNCHANGED <<sizes, calls, own, got, eos, retry, crashed>>

\* ScatterGeneric::sendrecv at peer p: receive one frame from the root into
\* a buffer of cap bytes; on EOS write-close the handle; return the result.
PeerSendrecv(p) ==
    /\ p \notin crashed /\ ~eos[p]
    /\ \E cap \in IF retry[p] THEN {Max(Caps)} ELSE Caps :
       \E o \in ReceiveFromHandle(net, PeerH(p), cap) :
          /\ net' = IF o.res = 0 THEN Close(o.net, PeerH(p), TRUE, FALSE) ELSE o.net
          /\ got' = IF o.res > 0 THEN [got EXCEPT ![p] = Append(@, o.data)] ELSE got
          /\ eos' = [eos EXCEPT ![p] = (o.res = 0)]
          /\ retry' = [retry EXCEPT ![p] = (o.res < 0)]
    /\ UNCHANGED <<sizes, calls, rootState, own, crashed>>

PeerCrash(p) ==
    /\ p \notin crashed
    /\ Cardinality(crashed) < MaxCrashes
    /\ crashed' = crashed \cup {p}
    /\ net' = Crash(net, PeerH(p))
    /\ UNCHANGED <<sizes, calls, rootState, own, got, eos, retry>>

Next == \/ RootSendrecv \/ RootClose
        \/ \E p \in Peers : PeerSendrecv(p) \/ PeerCrash(p)

\* The ranks are OS processes; crashes are not bound to happen.
Fairness == /\ WF_vars(RootSendrecv) /\ WF_vars(RootClose)
            /\ \A p \in Peers : WF_vars(PeerSendrecv(p))

Spec == Init /\ [][Next]_vars /\ Fairness

-----------------------------------------------------------------------------
\* Rank r's share of the root's k-th buffer by the reference partition.
Share(k, r) == Slice(SendBuf(k, sizes[k]), Displ(sizes[k], Datasize, N, r),
                     Chunk(sizes[k], Datasize, N, r))

(* ScatterDelivers: what each peer's sendrecv calls return is a prefix of  *)
(* its reference shares of the root's calls that did I/O, in order, and    *)
(* the root keeps its own reference share: the root's decrementing         *)
(* remainder, its moving send pointer and the framing agree with spec      *)
(* section 4.2 across buffers of different sizes, ENOMEM retries, root     *)
(* EINVALs and a send loop cut short by a crash.  Under Scatter.cfg a      *)
(* 14-byte buffer leaves a remainder of 3 that reaches peers 1 and 2, and  *)
(* their 4-byte shares overflow a 2-byte peer buffer (ENOMEM, retry).      *)
ScatterDelivers ==
    /\ \A p \in Peers : IsPrefix(got[p], [k \in DOMAIN sizes |-> Share(k, p)])
    /\ sizes # <<>> => own = Share(Len(sizes), Root)

(* EOSOnlyAfterAll: while no peer has crashed, a peer sees EOS only after *)
(* it has received its share of every root call that did I/O: the root's  *)
(* loop reaches every participant and its close cannot overtake a share.  *)
EOSOnlyAfterAll ==
    crashed = {} => \A p \in Peers : eos[p] => Len(got[p]) = Len(sizes)

(* PeersUnblock: every live peer's blocking sendrecv eventually returns    *)
(* EOS: the root's close is the only way to end a peer's loop, and the     *)
(* root closes after its last call or after a failed send.                 *)
PeersUnblock == <>(\A p \in Peers : eos[p] \/ p \in crashed)
=============================================================================
