----------------------------- MODULE Broadcast -----------------------------
(***************************************************************************)
(* BroadcastGeneric: a root (rank 0) and peers 1..N-1, each pair joined by *)
(* a Handle.  The root's caller broadcasts Rounds messages, one sendrecv   *)
(* each, and then closes; after a failed sendrecv it closes at once (the   *)
(* group state is undefined, spec section 5).  Each peer's caller calls    *)
(* sendrecv until it sees EOS; it passes a buffer of any size in Caps and, *)
(* after an ENOMEM, retries with the largest (spec section 7).  Any rank,  *)
(* the root included, may crash, up to MaxCrashes of them: its process     *)
(* stops and its connections die.                                          *)
(***************************************************************************)
EXTENDS Handle, SequencesExt

CONSTANTS N, Rounds, Sizes, Caps, MaxCrashes

ASSUME /\ N \in Nat \ {0, 1}
       /\ Rounds \in Nat
       /\ Sizes \subseteq Nat \ {0} /\ Caps \subseteq Nat \ {0}
       /\ MaxCrashes \in Nat

Root  == 0
Peers == 1..N - 1
RootH(p) == <<Root, p>>
PeerH(p) == <<p, Root>>
Handles == {RootH(p) : p \in Peers} \cup {PeerH(p) : p \in Peers}

\* The root's participants vector: one handle per peer, in rank order.
Participants == [i \in 1..N - 1 |-> RootH(i)]

\* The payload of the k-th broadcast, of s bytes.
Frame(k, s) == [i \in 1..s |-> k]

VARIABLES
    net,         \* the handles (module Handle)
    msgs,        \* the frames the root's sendrecv calls were given, in order
    rootState,   \* "run", "failed" (last sendrecv returned -1), "closed"
                 \* or "crashed"
    got,         \* got[p]: the frames peer p's sendrecv calls returned
    eos,         \* eos[p]: peer p's sendrecv returned 0
    retry,       \* retry[p]: peer p's last sendrecv failed with ENOMEM
    crashed      \* the peers that crashed

vars == <<net, msgs, rootState, got, eos, retry, crashed>>

Init == /\ net = InitNet(Handles)
        /\ msgs = <<>>
        /\ rootState = "run"
        /\ got = [p \in Peers |-> <<>>]
        /\ eos = [p \in Peers |-> FALSE]
        /\ retry = [p \in Peers |-> FALSE]
        /\ crashed = {}

\* The ranks that crashed.
Crashes == Cardinality(crashed) + IF rootState = "crashed" THEN 1 ELSE 0

-----------------------------------------------------------------------------
\* Faulty variant of SendAll: a failed send is remembered and the loop goes
\* on to the remaining participants.
RECURSIVE SendAllNoStop(_, _, _)
SendAllNoStop(n, hs, frame) ==
    IF hs = <<>> THEN Out(Len(frame), "", 0, EOS, n)
    ELSE LET o == Send(n, Head(hs), frame)
             r == SendAllNoStop(o.net, Tail(hs), frame)
         IN  IF o.res < 0 THEN Out(-1, "ECONNRESET", 0, EOS, r.net) ELSE r

\* The root's loop over participants: send to each in order and give up with
\* ECONNRESET at the first send that fails.
RECURSIVE SendAll(_, _, _)
SendAll(n, hs, frame) ==
    IF hs = <<>> THEN Out(Len(frame), "", 0, EOS, n)
    ELSE LET o == Send(n, Head(hs), frame)
         IN  IF o.res < 0 THEN Out(-1, "ECONNRESET", 0, EOS, o.net)
             ELSE SendAll(o.net, Tail(hs), frame)

\* BroadcastGeneric::sendrecv at the root (the copy into recvbuff is local).
RootSendrecv ==
    /\ rootState = "run"
    /\ Len(msgs) < Rounds
    /\ \E s \in Sizes :
          LET f == Frame(Len(msgs) + 1, s)
              o == SendAll(net, Participants, f)
          IN  /\ net' = o.net
              /\ msgs' = Append(msgs, f)
              /\ rootState' = IF o.res < 0 THEN "failed" ELSE "run"
    /\ UNCHANGED <<got, eos, retry, crashed>>

\* Faulty variant of RootClose: close() without the root's loop.
RootCloseNoop ==
    /\ \/ rootState = "failed"
       \/ rootState = "run" /\ Len(msgs) = Rounds
    /\ rootState' = "closed"
    /\ UNCHANGED <<net, msgs, got, eos, retry, crashed>>

\* BroadcastGeneric::close at the root: write-close every participant,
\* called once all rounds are sent or a sendrecv failed.
RootClose ==
    /\ \/ rootState = "failed"
       \/ rootState = "run" /\ Len(msgs) = Rounds
    /\ net' = FoldLeft(LAMBDA n, h : Close(n, h, TRUE, FALSE), net, Participants)
    /\ rootState' = "closed"
    /\ UNCHANGED <<msgs, got, eos, retry, crashed>>

\* BroadcastGeneric::sendrecv at peer p: receive one frame from the root
\* into a buffer of cap bytes; on EOS write-close the handle.
PeerSendrecv(p) ==
    /\ p \notin crashed
    /\ ~eos[p]
    /\ \E cap \in IF retry[p] THEN {Max(Caps)} ELSE Caps :
       \E o \in ReceiveFromHandle(net, PeerH(p), cap) :
          /\ net' = IF o.res = 0 THEN Close(o.net, PeerH(p), TRUE, FALSE) ELSE o.net
          /\ got' = IF o.res > 0 THEN [got EXCEPT ![p] = Append(@, o.data)] ELSE got
          /\ eos' = [eos EXCEPT ![p] = (o.res = 0)]
          /\ retry' = [retry EXCEPT ![p] = (o.res < 0)]
    /\ UNCHANGED <<msgs, rootState, crashed>>

\* Peer p crashes: it stops, and its connection to the root dies.
PeerCrash(p) ==
    /\ p \notin crashed
    /\ Crashes < MaxCrashes
    /\ crashed' = crashed \cup {p}
    /\ net' = Crash(net, PeerH(p))
    /\ UNCHANGED <<msgs, rootState, got, eos, retry>>

\* The root crashes: between two calls, or inside a sendrecv after its
\* loop has sent the frame to the first k participants.  All of its
\* connections die; what it already sent stays readable.
CrashAll(n) == FoldLeft(LAMBDA m, h : Crash(m, h), n, Participants)

RootCrash ==
    /\ rootState \in {"run", "failed"}
    /\ Crashes < MaxCrashes
    /\ \/ /\ net' = CrashAll(net)
          /\ UNCHANGED msgs
       \/ /\ rootState = "run" /\ Len(msgs) < Rounds
          /\ \E s \in Sizes, k \in 1..N - 2 :
                LET f == Frame(Len(msgs) + 1, s)
                IN  /\ msgs' = Append(msgs, f)
                    /\ net' = CrashAll(SendAll(net, SubSeq(Participants, 1, k), f).net)
    /\ rootState' = "crashed"
    /\ UNCHANGED <<got, eos, retry, crashed>>

Next == \/ RootSendrecv
        \/ RootClose
        \/ RootCrash
        \/ \E p \in Peers : PeerSendrecv(p)
        \/ \E p \in Peers : PeerCrash(p)

\* The root and the peers are processes the OS keeps scheduling; crashes
\* are not bound to happen.
Fairness == /\ WF_vars(RootSendrecv) /\ WF_vars(RootClose)
            /\ \A p \in Peers : WF_vars(PeerSendrecv(p))

Spec == Init /\ [][Next]_vars /\ Fairness

-----------------------------------------------------------------------------
(* DeliveredInOrder: what each peer's sendrecv calls return is a prefix of *)
(* what the root broadcast: no frame lost, duplicated, reordered or cut,   *)
(* also across ENOMEM retries (receiveFromHandle must leave a too-large    *)
(* frame pending) and after the root stops at a failing peer mid-loop.     *)
DeliveredInOrder == \A p \in Peers : IsPrefix(got[p], msgs)

(* Refinement: Broadcast implements the fail-fast contract of            *)
(* BroadcastFailFast.  A peer's inbox is the wire of its handle (frames    *)
(* and the EOS of the root's close); a peer has ended once its sendrecv    *)
(* returned 0.  Probes and ENOMEM refusals leave the inbox as it is, so    *)
(* they are stuttering steps of the contract.  A root that crashed leaves  *)
(* no EOS behind: its peers end on the reset once their wire is drained.   *)
Contract == INSTANCE BroadcastFailFast
               WITH Payloads <- LAMBDA k : {Frame(k, s) : s \in Sizes},
                    state <- rootState,
                    inbox <- [p \in Peers |-> net.wire[PeerH(p)]],
                    ended <- {p \in Peers : eos[p]},
                    dead <- crashed

(* ImplementsFailFast: the root's loop fails fast at the first peer whose  *)
(* connection is gone, the peers before it keep the frame, no later peer   *)
(* gets it, the root's call fails exactly then, and its close puts an EOS  *)
(* behind every live peer's frames: spec section 5's "fail-fast at the     *)
(* first peer that errors; do not roll back bytes already sent", checked   *)
(* over crashes at any point of the loop and ENOMEM retries.               *)
ImplementsFailFast == Contract!ASpec

(* PeersUnblock: every live peer's blocking sendrecv eventually returns    *)
(* EOS: the root's close (or a dead connection) is the only way to unwind  *)
(* it, and the root closes after the last round or after a failure.        *)
PeersUnblock == <>(\A p \in Peers : eos[p] \/ p \in crashed)
=============================================================================
