-------------------------- MODULE BroadcastFailFast --------------------------
(***************************************************************************)
(* What broadcast promises (spec 4.1 and 5), with no handles, probes or    *)
(* send loop: each round the root hands one message to the peers in rank   *)
(* order and fails fast at the first peer whose connection is gone: the    *)
(* peers before it keep the message (nothing is rolled back), no later     *)
(* peer gets it, and the root's call fails.  The root's close queues an    *)
(* end-of-stream behind the messages of every live peer.  Each peer takes  *)
(* its messages in order and ends at the end-of-stream.  The root may      *)
(* crash, between calls or inside one after its message reached the peers  *)
(* before some rank; its peers then end once they have taken what reached  *)
(* them (a reset reads as end-of-stream, spec section 3).                  *)
(***************************************************************************)
EXTENDS Naturals, Sequences, FiniteSets

CONSTANTS N, Rounds,
          Payloads(_)   \* the messages round k may carry

Peers == 1..N - 1

\* The end-of-stream marker behind a peer's messages.
Fin == <<>>

VARIABLES
    msgs,    \* the messages broadcast so far
    state,   \* the root: "run", "failed", "closed" or "crashed"
    inbox,   \* inbox[p]: what was handed to p and not yet taken
    got,     \* got[p]: the messages p has taken, in order
    ended,   \* the peers that have taken the end-of-stream
    dead     \* the peers that crashed

avars == <<msgs, state, inbox, got, ended, dead>>

AInit == /\ msgs = <<>>
         /\ state = "run"
         /\ inbox = [p \in Peers |-> <<>>]
         /\ got = [p \in Peers |-> <<>>]
         /\ ended = {}
         /\ dead = {}

\* The rank the root's loop stops at: the first dead peer, or N.
StopAt == IF dead = {} THEN N ELSE CHOOSE p \in dead : \A q \in dead : p <= q

ABroadcast ==
    /\ state = "run" /\ Len(msgs) < Rounds
    /\ \E m \in Payloads(Len(msgs) + 1) :
          /\ msgs' = Append(msgs, m)
          /\ inbox' = [p \in Peers |-> IF p < StopAt THEN Append(inbox[p], m)
                                                     ELSE inbox[p]]
    /\ state' = IF StopAt < N THEN "failed" ELSE "run"
    /\ UNCHANGED <<got, ended, dead>>

AClose ==
    /\ state = "failed" \/ (state = "run" /\ Len(msgs) = Rounds)
    /\ state' = "closed"
    /\ inbox' = [p \in Peers |-> IF p \in dead THEN inbox[p] ELSE Append(inbox[p], Fin)]
    /\ UNCHANGED <<msgs, got, ended, dead>>

ARootCrash ==
    /\ state \in {"run", "failed"}
    /\ \/ UNCHANGED <<msgs, inbox>>
       \/ /\ state = "run" /\ Len(msgs) < Rounds
          /\ \E m \in Payloads(Len(msgs) + 1), k \in 2..N - 1 :
                /\ msgs' = Append(msgs, m)
                /\ inbox' = [p \in Peers |-> IF p < k /\ p < StopAt
                                              THEN Append(inbox[p], m)
                                              ELSE inbox[p]]
    /\ state' = "crashed"
    /\ UNCHANGED <<got, ended, dead>>

Take(p) ==
    /\ p \notin dead \cup ended
    /\ inbox[p] # <<>> /\ Head(inbox[p]) # Fin
    /\ got' = [got EXCEPT ![p] = Append(@, Head(inbox[p]))]
    /\ inbox' = [inbox EXCEPT ![p] = Tail(@)]
    /\ UNCHANGED <<msgs, state, ended, dead>>

End(p) ==
    /\ p \notin dead \cup ended
    /\ \/ inbox[p] # <<>> /\ Head(inbox[p]) = Fin
          /\ inbox' = [inbox EXCEPT ![p] = Tail(@)]
       \/ inbox[p] = <<>> /\ state = "crashed"
          /\ UNCHANGED inbox
    /\ ended' = ended \cup {p}
    /\ UNCHANGED <<msgs, state, got, dead>>

ACrash(p) ==
    /\ p \notin dead
    /\ dead' = dead \cup {p}
    /\ UNCHANGED <<msgs, state, inbox, got, ended>>

ANext == \/ ABroadcast \/ AClose \/ ARootCrash
         \/ \E p \in Peers : Take(p) \/ End(p) \/ ACrash(p)

\* A live peer with a message or the end-of-stream queued takes it, and
\* one whose root crashed ends once it has taken what reached it.
ASpec == /\ AInit /\ [][ANext]_avars
         /\ \A p \in Peers : WF_avars(Take(p)) /\ WF_avars(End(p))
=============================================================================
