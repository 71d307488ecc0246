------------------------------ MODULE FanOut ------------------------------
(***************************************************************************)
(* FanOutGeneric: the root (rank 0) deals messages round-robin to peers    *)
(* 1..N-1.  The root's caller sends Msgs one-byte messages, one send call  *)
(* each, and then closes; a failed send does not stop it (each send is on  *)
(* its own).  Each peer's caller loops: probe (blocking or not), then      *)
(* receive a message of the probed size; it stops at EOS or at an error.   *)
(* Up to MaxCrashes peers crash.  Message k is the one-byte frame <<k>>.   *)
(***************************************************************************)
EXTENDS Handle, SequencesExt

CONSTANTS N, Msgs, MaxCrashes

ASSUME /\ N \in Nat \ {0, 1} /\ Msgs \in Nat /\ MaxCrashes \in Nat

Root  == 0
Peers == 1..N - 1
RootH(p) == <<Root, p>>
PeerH(p) == <<p, Root>>
Handles == {RootH(p) : p \in Peers} \cup {PeerH(p) : p \in Peers}

\* The root's participants vector: one handle per peer, in rank order.
Participants == [i \in 1..N - 1 |-> RootH(i)]

Msg(k) == <<k>>

VARIABLES
    net,
    current,     \* the root's cursor into participants (from 0)
    nsent,       \* the root's send calls so far
    rootClosed,  \* the root's caller has closed
    hasRoot,     \* hasRoot[p]: peer p's participants still holds its handle
    ppc,         \* peer p's caller: "idle", "probed", "eos" or "failed"
    psize,       \* psize[p]: the size peer p's last probe returned
    got,         \* got[p]: the frames peer p's receive calls returned
    crashed

vars == <<net, current, nsent, rootClosed, hasRoot, ppc, psize, got, crashed>>

Init == /\ net = InitNet(Handles)
        /\ current = 0 /\ nsent = 0 /\ rootClosed = FALSE
        /\ hasRoot = [p \in Peers |-> TRUE]
        /\ ppc = [p \in Peers |-> "idle"]
        /\ psize = [p \in Peers |-> 0]
        /\ got = [p \in Peers |-> <<>>]
        /\ crashed = {}

-----------------------------------------------------------------------------
\* Faulty variants of the cursor update: advanced before the send picks the
\* handle; advanced without the wrap.
SendTargetLate(cur, count) == (cur + 1) % count

AdvanceNoWrap(cur, count) == cur + 1

\* participants.at(current): the handle a send goes to.
SendTarget(cur, count) == cur

\* ++current %= count, whether the send succeeded or not.
Advance(cur, count) == (cur + 1) % count

\* FanOutGeneric::send at the root: send to participants.at(current) and
\* move the cursor on.
RootSend ==
    /\ ~rootClosed
    /\ nsent < Msgs
    /\ LET count == N - 1
           o     == Send(net, Participants[SendTarget(current, count) + 1], Msg(nsent + 1))
       IN  /\ net' = o.net
           /\ current' = Advance(current, count)
    /\ nsent' = nsent + 1
    /\ UNCHANGED <<rootClosed, hasRoot, ppc, psize, got, crashed>>

\* Faulty variant of RootClose: close() that does nothing at the root.
RootCloseNoop ==
    /\ ~rootClosed
    /\ nsent = Msgs
    /\ rootClosed' = TRUE
    /\ UNCHANGED <<net, current, nsent, hasRoot, ppc, psize, got, crashed>>

\* FanOutGeneric::close at the root: write-close every participant.
RootClose ==
    /\ ~rootClosed
    /\ nsent = Msgs
    /\ net' = FoldLeft(LAMBDA n, h : Close(n, h, TRUE, FALSE), net, Participants)
    /\ rootClosed' = TRUE
    /\ UNCHANGED <<current, nsent, hasRoot, ppc, psize, got, crashed>>

\* FanOutGeneric::probe at peer p: ECONNRESET once its handle is gone;
\* otherwise Handle::probe on participants.at(0).  An EOS header pops the
\* handle (pop_back: its only one) and closes it; any header is then cached
\* as probed.  The caller receives after a message, stops at EOS, at 0 or at
\* an error, and probes again after would-block.
PeerProbe(p, blocking) ==
    /\ p \notin crashed
    /\ ppc[p] = "idle"
    /\ IF ~hasRoot[p]
       THEN /\ ppc' = [ppc EXCEPT ![p] = "failed"]
            /\ UNCHANGED <<net, hasRoot, psize>>
       ELSE \E o \in RawProbe(net, PeerH(p), blocking) :
            LET isEOS == o.res > 0 /\ o.size = 0
                n1    == IF isEOS THEN Close(o.net, PeerH(p), TRUE, TRUE) ELSE o.net
            IN  /\ net' = IF o.res > 0
                          THEN [n1 EXCEPT !.probed[PeerH(p)] = [pending |-> TRUE, size |-> o.size]]
                          ELSE n1
                /\ hasRoot' = [hasRoot EXCEPT ![p] = ~isEOS]
                /\ psize' = [psize EXCEPT ![p] = o.size]
                /\ ppc' = [ppc EXCEPT ![p] =
                              CASE isEOS                      -> "eos"
                                [] o.res > 0                  -> "probed"
                                [] o.errno = "EWOULDBLOCK"    -> "idle"
                                [] o.res = 0                  -> "eos"
                                [] OTHER                      -> "failed"]
    /\ UNCHANGED <<current, nsent, rootClosed, got, crashed>>

\* FanOutGeneric::receive at peer p with the size its probe returned:
\* Handle::receive on participants.at(0), then clear its probed state.
PeerReceive(p) ==
    /\ p \notin crashed
    /\ ppc[p] = "probed"
    /\ LET o == RawReceive(net, PeerH(p), psize[p])
       IN  /\ net' = [o.net EXCEPT !.probed[PeerH(p)] = NoProbe]
           /\ got' = [got EXCEPT ![p] = Append(@, o.data)]
    /\ ppc' = [ppc EXCEPT ![p] = "idle"]
    /\ UNCHANGED <<current, nsent, rootClosed, hasRoot, psize, crashed>>

\* Peer p crashes: it stops, and its connection to the root dies.
PeerCrash(p) ==
    /\ p \notin crashed
    /\ Cardinality(crashed) < MaxCrashes
    /\ crashed' = crashed \cup {p}
    /\ net' = Crash(net, PeerH(p))
    /\ UNCHANGED <<current, nsent, rootClosed, hasRoot, ppc, psize, got>>

Next == \/ RootSend
        \/ RootClose
        \/ \E p \in Peers : \E b \in BOOLEAN : PeerProbe(p, b)
        \/ \E p \in Peers : PeerReceive(p) \/ PeerCrash(p)

\* The processes keep being scheduled; crashes are not bound to happen.
Fairness == /\ WF_vars(RootSend) /\ WF_vars(RootClose)
            /\ \A p \in Peers : /\ WF_vars(\E b \in BOOLEAN : PeerProbe(p, b))
                                /\ WF_vars(PeerReceive(p))

Spec == Init /\ [][Next]_vars /\ Fairness

-----------------------------------------------------------------------------
TypeOK ==
    /\ net \in NetType(Handles, 1..Msgs)
    /\ current \in 0..N - 2 /\ nsent \in 0..Msgs /\ rootClosed \in BOOLEAN
    /\ hasRoot \in [Peers -> BOOLEAN]
    /\ ppc \in [Peers -> {"idle", "probed", "eos", "failed"}]
    /\ psize \in [Peers -> Nat]
    /\ got \in [Peers -> Seq(Seq(1..Msgs))]
    /\ crashed \subseteq Peers

(* AllPeersEnd: every live peer's probe/receive loop eventually ends at    *)
(* EOS: the root's close reaches every participant.                        *)
AllPeersEnd == <>(\A p \in Peers \ crashed : ppc[p] = "eos")

-----------------------------------------------------------------------------
(* Refinement: FanOut implements the dealer of FanOutDealer.  A message    *)
(* dealt and not yet taken is a frame on the peer's wire (the probe leaves *)
(* it there until the receive); a peer has ended when its probe saw EOS.   *)
Dealer == INSTANCE FanOutDealer
            WITH dealt  <- nsent,
                 queue  <- [p \in Peers |-> SelectSeq(net.wire[PeerH(p)], LAMBDA f : f # EOS)],
                 taken  <- got,
                 closed <- rootClosed,
                 ended  <- {p \in Peers : ppc[p] = "eos"},
                 dead   <- crashed

(* ImplementsDealer: every FanOut behaviour, with the mapping above, is a  *)
(* behaviour of the dealer: the cursor deals round-robin, a failed send    *)
(* loses only that message, receives take in order, EOS ends a drained     *)
(* peer, and a live peer with a message dealt to it eventually takes it.   *)
ImplementsDealer == Dealer!ASpec

=============================================================================
