----------------------------- MODULE FanInMerge -----------------------------
(***************************************************************************)
(* What fan-in promises (spec 4.8, 5, 7 and 8.7), with no handles, scan or *)
(* indices: each peer sends up to Msgs messages and closes; the root       *)
(* delivers the oldest undelivered message of any peer; once every peer    *)
(* has closed and every message is delivered, the root sees the group EOS. *)
(* A crashed peer sends nothing more; what it sent is still delivered.     *)
(***************************************************************************)
EXTENDS Naturals, Sequences

CONSTANTS N, Msgs

Peers == 1..N - 1

VARIABLES
    sent,    \* sent[p]: messages p has sent
    queue,   \* queue[p]: p's messages not yet delivered, oldest first
    rcvd,    \* rcvd[p]: p's messages delivered to the root
    closed,  \* the peers that have closed
    eos,     \* the root has seen the group EOS
    dead     \* the peers that crashed

mvars == <<sent, queue, rcvd, closed, eos, dead>>

MInit == /\ sent = [p \in Peers |-> 0]
         /\ queue = [p \in Peers |-> <<>>]
         /\ rcvd = [p \in Peers |-> 0]
         /\ closed = {} /\ eos = FALSE /\ dead = {}

PeerSends(p) ==
    /\ p \notin dead \cup closed /\ sent[p] < Msgs
    /\ sent' = [sent EXCEPT ![p] = @ + 1]
    /\ queue' = [queue EXCEPT ![p] = Append(@, <<<<p, sent[p] + 1>>>>)]
    /\ UNCHANGED <<rcvd, closed, eos, dead>>

PeerCloses(p) ==
    /\ p \notin dead \cup closed
    /\ closed' = closed \cup {p}
    /\ UNCHANGED <<sent, queue, rcvd, eos, dead>>

\* The root receives the oldest pending message of p; which p is free.
Deliver(p) ==
    /\ ~eos /\ queue[p] # <<>>
    /\ rcvd' = [rcvd EXCEPT ![p] = @ + 1]
    /\ queue' = [queue EXCEPT ![p] = Tail(@)]
    /\ UNCHANGED <<sent, closed, eos, dead>>

GroupEOS ==
    /\ ~eos /\ closed = Peers /\ \A p \in Peers : queue[p] = <<>>
    /\ eos' = TRUE
    /\ UNCHANGED <<sent, queue, rcvd, closed, dead>>

PeerDies(p) ==
    /\ p \notin dead /\ dead' = dead \cup {p}
    /\ UNCHANGED <<sent, queue, rcvd, closed, eos>>

MNext == \/ GroupEOS
         \/ \E p \in Peers : PeerSends(p) \/ PeerCloses(p) \/ Deliver(p) \/ PeerDies(p)

MSpec == MInit /\ [][MNext]_mvars
=============================================================================
