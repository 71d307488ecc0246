---------------------------- MODULE FanOutDealer ----------------------------
(***************************************************************************)
(* What fan-out promises (spec 4.9 and 5), with no handles, probes or      *)
(* cursor: the root deals messages 1, 2, ... round-robin over peers        *)
(* 1..N-1; each peer takes the messages dealt to it, in order; a peer that *)
(* crashed gets nothing more; after the root closes, a peer that has taken *)
(* all of its messages ends.                                               *)
(***************************************************************************)
EXTENDS Naturals, Sequences

CONSTANTS N, Msgs

Peers == 1..N - 1

\* The peer message k is dealt to.
Owner(k) == ((k - 1) % (N - 1)) + 1

VARIABLES
    dealt,   \* messages dealt so far
    queue,   \* queue[p]: messages dealt to p and not yet taken
    taken,   \* taken[p]: the messages p has taken, in order
    closed,  \* the root has closed
    ended,   \* the peers that have ended
    dead     \* the peers that crashed

avars == <<dealt, queue, taken, closed, ended, dead>>

AInit == /\ dealt = 0
         /\ queue = [p \in Peers |-> <<>>]
         /\ taken = [p \in Peers |-> <<>>]
         /\ closed = FALSE
         /\ ended = {}
         /\ dead = {}

\* Deal the next message; it is lost if its peer crashed.
Deal == /\ ~closed /\ dealt < Msgs
        /\ dealt' = dealt + 1
        /\ queue' = IF Owner(dealt + 1) \in dead THEN queue
                    ELSE [queue EXCEPT ![Owner(dealt + 1)] = Append(@, <<dealt + 1>>)]
        /\ UNCHANGED <<taken, closed, ended, dead>>

Close == /\ ~closed /\ closed' = TRUE
         /\ UNCHANGED <<dealt, queue, taken, ended, dead>>

Take(p) == /\ p \notin dead /\ queue[p] # <<>>
           /\ taken' = [taken EXCEPT ![p] = Append(@, Head(queue[p]))]
           /\ queue' = [queue EXCEPT ![p] = Tail(@)]
           /\ UNCHANGED <<dealt, closed, ended, dead>>

End(p) == /\ p \notin dead \cup ended /\ closed /\ queue[p] = <<>>
          /\ ended' = ended \cup {p}
          /\ UNCHANGED <<dealt, queue, taken, closed, dead>>

Crash(p) == /\ p \notin dead /\ dead' = dead \cup {p}
            /\ UNCHANGED <<dealt, queue, taken, closed, ended>>

ANext == \/ Deal \/ Close
         \/ \E p \in Peers : Take(p) \/ End(p) \/ Crash(p)

\* A live peer with something to take, or a closed and drained stream,
\* makes progress.
ASpec == /\ AInit /\ [][ANext]_avars
         /\ \A p \in Peers : WF_avars(Take(p)) /\ WF_avars(End(p))
=============================================================================
