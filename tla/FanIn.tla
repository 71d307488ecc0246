------------------------------- MODULE FanIn -------------------------------
(***************************************************************************)
(* FanInGeneric: peers 1..N-1 stream messages to the root (rank 0).  Each  *)
(* peer's caller sends Msgs one-byte messages and then closes, which sends *)
(* EOS.  The root's caller loops: probe (blocking or not, its choice),     *)
(* then receive the probed message; it stops when a probe returns 0 or the *)
(* synthetic group EOS.  The root's probe is a loop of non-blocking        *)
(* Handle::probe calls over `participants`, one step per iteration, so     *)
(* peers act between iterations.  Up to MaxCrashes peers crash.            *)
(* A message is <<p, k>>: the k-th message of peer p.                      *)
(***************************************************************************)
EXTENDS Handle, SequencesExt

CONSTANTS N, Msgs, MaxCrashes

ASSUME /\ N \in Nat \ {0, 1} /\ Msgs \in Nat /\ MaxCrashes \in Nat

Root  == 0
Peers == 1..N - 1
RootH(p) == <<Root, p>>
PeerH(p) == <<p, Root>>
Handles == {RootH(p) : p \in Peers} \cup {PeerH(p) : p \in Peers}

Msg(p, k) == <<<<p, k>>>>

VARIABLES
    net,
    participants, \* the root's participants, as the peers they lead to
    rpc,          \* the root: "idle" (between calls), "scan" (in probe),
                  \* "probed" (probe returned a message), "wouldblock",
                  \* "eos" (probe returned 0) or "groupEOS" (synthetic EOS)
    iter,         \* the probe loop's iterator, an index into participants
    blocking,     \* the current probe's blocking argument
    probedIdx,    \* probed_idx + 1 (0 stands for -1)
    psize,        \* the size the last probe returned
    sent,         \* sent[p]: messages peer p has sent
    rcvd,         \* rcvd[p]: messages of p the root has received
    scanned,      \* the peers the current probe call has probed so far
    overtaken,    \* overtaken[p]: messages the root received from other
                  \* peers while a message of p was waiting
    crashed

vars == <<net, participants, rpc, iter, blocking, probedIdx, psize, sent,
          rcvd, scanned, overtaken, crashed>>

Init == /\ net = InitNet(Handles)
        /\ participants = [i \in 1..N - 1 |-> i]
        /\ rpc = "idle" /\ iter = 1 /\ blocking = TRUE
        /\ probedIdx = 0 /\ psize = 0
        /\ sent = [p \in Peers |-> 0]
        /\ rcvd = [p \in Peers |-> 0]
        /\ scanned = {}
        /\ overtaken = [p \in Peers |-> 0]
        /\ crashed = {}

\* A message of p is waiting for the root: the next frame from p is not EOS.
Waiting(p) == net.wire[RootH(p)] # <<>> /\ Head(net.wire[RootH(p)]) # EOS
-----------------------------------------------------------------------------
\* FanInGeneric::probe, entry: the scan starts at participants.begin(); with
\* no participants the loop does not run and the call returns group EOS.
RootProbe(b) ==
    /\ rpc \in {"idle", "wouldblock"}
    /\ rpc' = IF participants = <<>> THEN "groupEOS" ELSE "scan"
    /\ iter' = 1
    /\ blocking' = b
    /\ scanned' = {}
    /\ UNCHANGED <<net, participants, probedIdx, psize, sent, rcvd, overtaken, crashed>>

\* Faulty variants of the probe loop's parts: the EOS branch forgets
\* `res = -1`; it forgets the erase; probed_idx is taken after iter++; the
\* EOS branch lacks its end() check, so iter++ runs past the end.
ProbeResultNoReset(o) == o.res

EraseNoop(ps, i) == ps

NextIterNoEndCheck(isEOS, it, len) == it + 1

\* The loop's res after one Handle::probe: an EOS (a header of size 0) is
\* absorbed and the scan goes on.
ProbeResult(o) == IF o.res > 0 /\ o.size = 0 THEN -1 ELSE o.res

\* participants.erase(iter).
Erase(ps, i) == RemoveAt(ps, i)

\* probed_idx = iter - participants.begin(), taken before iter++.
ProbedIndex(it, nxt) == it

\* Where the iterator is after the iteration's iter++: after an erase that
\* left it at end() the code skips iter++ (it wraps or breaks at once).
NextIter(isEOS, it, len) == IF isEOS /\ it = len + 1 THEN it ELSE it + 1

\* What the root's caller makes of probe's (res, size): a header of size 0
\* is the group EOS, a header of size > 0 a message to receive, 0 an EOS,
\* -1 (would block) a reason to probe again.
Outcome(res, size) ==
    CASE res > 0 /\ size = 0 -> "groupEOS"
      [] res > 0             -> "probed"
      [] res = 0             -> "eos"
      [] OTHER               -> "wouldblock"

\* One iteration of FanInGeneric::probe's loop: a non-blocking probe of
\* participants[iter].  An EOS erases the handle (the iterator then points
\* at the next one, and the iter++ below still runs), closes it with
\* close(true, true) and goes on; a message records probed_idx and ends the
\* loop, as does a probe result of 0; otherwise iter++.  At the end a
\* blocking probe wraps to begin(), a non-blocking one breaks.  Once the
\* vector is empty the call returns the synthetic group EOS.
ProbeStep ==
    /\ rpc = "scan"
    /\ LET p == participants[iter]
       IN  \E o \in RawProbe(net, RootH(p), FALSE) :
           LET isEOS == o.res > 0 /\ o.size = 0
               res   == ProbeResult(o)
               ps    == IF isEOS THEN Erase(participants, iter) ELSE participants
               nxt   == NextIter(isEOS, iter, Len(ps))
               atEnd == nxt = Len(ps) + 1
               done  == res # -1 \/ ps = <<>> \/ (atEnd /\ ~blocking)
           IN  /\ net' = IF isEOS THEN Close(o.net, RootH(p), TRUE, TRUE) ELSE o.net
               /\ participants' = ps
               /\ iter' = IF atEnd THEN 1 ELSE nxt
               /\ rpc' = CASE ~done     -> "scan"
                           [] ps = <<>> -> "groupEOS"
                           [] OTHER     -> Outcome(res, o.size)
               /\ probedIdx' = IF res > 0 THEN ProbedIndex(iter, nxt) ELSE probedIdx
               /\ psize' = o.size
               /\ scanned' = scanned \cup {p}
    /\ UNCHANGED <<blocking, sent, rcvd, overtaken, crashed>>

\* FanInGeneric::receive(buff, size) with the size the probe returned:
\* receive from participants.at(probed_idx), clear its probed state and
\* probed_idx.
RootReceive ==
    /\ rpc = "probed"
    /\ LET p == participants[probedIdx]
           o == RawReceive(net, RootH(p), psize)
       IN  /\ net' = [o.net EXCEPT !.probed[RootH(p)] = NoProbe]
           /\ rcvd' = [rcvd EXCEPT ![p] = @ + 1]
           /\ overtaken' = [q \in Peers |->
                              IF q # p /\ Waiting(q) THEN overtaken[q] + 1 ELSE 0]
    /\ rpc' = "idle"
    /\ probedIdx' = 0
    /\ UNCHANGED <<participants, iter, blocking, psize, sent, scanned, crashed>>

\* FanInGeneric::send at peer p: send to its only handle, the root's.
PeerSend(p) ==
    /\ p \notin crashed
    /\ sent[p] < Msgs
    /\ net' = Send(net, PeerH(p), Msg(p, sent[p] + 1)).net
    /\ sent' = [sent EXCEPT ![p] = @ + 1]
    /\ UNCHANGED <<participants, rpc, iter, blocking, probedIdx, psize, rcvd,
                   scanned, overtaken, crashed>>

\* FanInGeneric::close at peer p: write-close participants.at(0).
PeerClose(p) ==
    /\ p \notin crashed
    /\ sent[p] = Msgs
    /\ ~net.closedWr[PeerH(p)]
    /\ net' = Close(net, PeerH(p), TRUE, FALSE)
    /\ UNCHANGED <<participants, rpc, iter, blocking, probedIdx, psize, sent,
                   rcvd, scanned, overtaken, crashed>>

\* Peer p crashes: it stops, and its connection to the root dies.
PeerCrash(p) ==
    /\ p \notin crashed
    /\ Cardinality(crashed) < MaxCrashes
    /\ crashed' = crashed \cup {p}
    /\ net' = Crash(net, PeerH(p))
    /\ UNCHANGED <<participants, rpc, iter, blocking, probedIdx, psize, sent,
                   rcvd, scanned, overtaken>>

Next == \/ \E b \in BOOLEAN : RootProbe(b)
        \/ ProbeStep
        \/ RootReceive
        \/ \E p \in Peers : PeerSend(p) \/ PeerClose(p) \/ PeerCrash(p)

\* The processes keep being scheduled; crashes are not bound to happen.
Fairness == /\ WF_vars(\E b \in BOOLEAN : RootProbe(b))
            /\ WF_vars(ProbeStep) /\ WF_vars(RootReceive)
            /\ \A p \in Peers : WF_vars(PeerSend(p)) /\ WF_vars(PeerClose(p))

Spec == Init /\ [][Next]_vars /\ Fairness

-----------------------------------------------------------------------------
TypeOK ==
    /\ net \in NetType(Handles, {<<p, k>> : p \in Peers, k \in 1..Msgs})
    /\ participants \in Seq(Peers) /\ Len(participants) <= N - 1
    /\ rpc \in {"idle", "scan", "probed", "wouldblock", "eos", "groupEOS"}
    /\ iter \in 1..N - 1 /\ blocking \in BOOLEAN
    /\ probedIdx \in 0..N - 1 /\ psize \in Nat
    /\ sent \in [Peers -> 0..Msgs] /\ rcvd \in [Peers -> 0..Msgs]
    /\ scanned \subseteq Peers /\ overtaken \in [Peers -> Nat]
    /\ crashed \subseteq Peers

(* RootDrains: when no peer crashes, every peer sends its messages and     *)
(* closes, and the root's probe/receive loop eventually sees the group     *)
(* EOS: no handle is left in participants after its EOS, and the busy scan *)
(* does not stall.                                                         *)
RootDrains == [](crashed = {}) => <>(rpc = "groupEOS")

(* WouldBlockAfterFullPass: spec 4.8, a non-blocking probe answers         *)
(* would-block only after one full pass over the participants without a    *)
(* message: no remaining participant with a message waiting went unprobed  *)
(* in this call.                                                           *)
WouldBlockAfterFullPass ==
    rpc = "wouldblock" => \A p \in Range(participants) : p \in scanned \/ ~Waiting(p)

(* BoundedBypass: spec 4.8 and 5, the scan moves a cursor round-robin "to  *)
(* promote fairness": while a message of p waits, the root receives at     *)
(* most one message from each other participant before p's.               *)
BoundedBypass == \A p \in Peers : overtaken[p] <= N - 2

(* EOSOnlyWhenAllDone: spec 7, in FanIn one peer's end of stream is        *)
(* absorbed; the caller sees EOS (0, or the group EOS) only once every     *)
(* live peer's messages have all been received.                            *)
EOSOnlyWhenAllDone ==
    rpc \in {"eos", "groupEOS"} => \A p \in Peers \ crashed : rcvd[p] = Msgs

-----------------------------------------------------------------------------
(* Refinement: FanIn implements the any-source merge of FanInMerge.  A     *)
(* message not yet delivered is a frame on the root's end of the peer's    *)
(* connection (a probe leaves it there until the receive); a peer has      *)
(* closed once its write side is closed.  A probe that returns 0 is not    *)
(* mapped to the group EOS: EOSOnlyWhenAllDone is about that outcome.      *)
Merge == INSTANCE FanInMerge
           WITH sent   <- sent,
                queue  <- [p \in Peers |-> SelectSeq(net.wire[RootH(p)], LAMBDA f : f # EOS)],
                rcvd   <- rcvd,
                closed <- {p \in Peers : net.closedWr[PeerH(p)]},
                eos    <- (rpc = "groupEOS"),
                dead   <- crashed

(* ImplementsMerge: every FanIn behaviour, with the mapping above, is a    *)
(* behaviour of the merge: each receive delivers the oldest pending        *)
(* message of one peer, nothing is delivered twice or out of order, and    *)
(* the group EOS comes only once all peers closed and all was delivered.   *)
ImplementsMerge == Merge!MSpec

=============================================================================
