------------------------------- MODULE Handle -------------------------------
(***************************************************************************)
(* The point-to-point Handles the generic collectives are built on, and    *)
(* the framing helper CollectiveImpl::probeHandle / receiveFromHandle.     *)
(*                                                                         *)
(* Handle itself lives in handle.hpp, outside src/: its operations are     *)
(* modelled from the contract of spec sections 3 and 6.  A handle is named *)
(* <<owner, peer>>: the end that process `owner` holds of its connection   *)
(* to `peer`.  All handles of a group live in one record `net`:            *)
(*   wire[h]     the frames sent to h by the other end, oldest first; a    *)
(*               frame is the sequence of its payload bytes, and the empty *)
(*               frame is the EOS that a write-close sends;                *)
(*   probed[h]   the (pending, size) cache of the source: pending means    *)
(*               the header of Head(wire[h]) has been consumed;            *)
(*   closedRd[h], closedWr[h]  the half-close flags;                       *)
(*   dead        the connections (as sets {a, b}) whose peer crashed or    *)
(*               reset: sends on them fail and, once what was already      *)
(*               delivered is read, a probe returns 0 or ECONNRESET.       *)
(* The operators return the outcome of a call as a record                 *)
(* [res, errno, size, data, net], or the SET of outcomes the transport     *)
(* may produce; an empty set means the call blocks.                        *)
(***************************************************************************)
EXTENDS Integers, Sequences

\* sizeof(size_t): what a probe that consumed a header returns.
HeaderBytes == 8

EOS == <<>>

NoProbe == [pending |-> FALSE, size |-> 0]

Other(h) == <<h[2], h[1]>>

Conn(h) == {h[1], h[2]}

Alive(net, h) == Conn(h) \notin net.dead

Out(res, errno, size, data, net) ==
    [res |-> res, errno |-> errno, size |-> size, data |-> data, net |-> net]

-----------------------------------------------------------------------------
\* Handle::send: frame and deliver `frame` atomically to the other end.
Send(net, h, frame) ==
    IF Alive(net, h) /\ ~net.closedWr[h]
    THEN Out(Len(frame), "", 0, EOS,
             [net EXCEPT !.wire[Other(h)] = Append(@, frame)])
    ELSE Out(-1, "ECONNRESET", 0, EOS, net)

\* Handle::close(wr, rd): idempotent half-close; closing the write side
\* sends EOS to the other end.
Close(net, h, wr, rd) ==
    LET eos == wr /\ ~net.closedWr[h] /\ Alive(net, h)
    IN  [net EXCEPT !.wire[Other(h)] = IF eos THEN Append(@, EOS) ELSE @,
                    !.closedWr[h]    = @ \/ wr,
                    !.closedRd[h]    = @ \/ rd]

\* Handle::probe(size, blocking): idempotent while a header is pending;
\* otherwise consumes the next header.  An EOS header is consumed whole.
RawProbe(net, h, blocking) ==
    LET w == net.wire[h]
    IN  IF net.probed[h].pending
        THEN {Out(HeaderBytes, "", net.probed[h].size, EOS, net)}
        ELSE IF w # <<>>
        THEN IF Head(w) = EOS
             THEN {Out(HeaderBytes, "", 0, EOS, [net EXCEPT !.wire[h] = Tail(w)])}
             ELSE {Out(HeaderBytes, "", Len(Head(w)), EOS,
                       [net EXCEPT !.probed[h] = [pending |-> TRUE, size |-> Len(Head(w))]])}
        ELSE IF ~Alive(net, h)
        THEN {Out(0, "", 0, EOS, net), Out(-1, "ECONNRESET", 0, EOS, net)}
        ELSE IF blocking THEN {}
        ELSE {Out(-1, "EWOULDBLOCK", 0, EOS, net)}

\* Handle::receive(buff, cap): the payload of the frame whose header was
\* consumed, cut to cap bytes.
RawReceive(net, h, cap) ==
    LET f    == Head(net.wire[h])
        data == SubSeq(f, 1, IF cap < Len(f) THEN cap ELSE Len(f))
    IN  Out(Len(data), "", 0, data, [net EXCEPT !.wire[h] = Tail(@)])

-----------------------------------------------------------------------------
\* CollectiveImpl::probeHandle: a cached probe answers from the cache, 0 if
\* it was an EOS; a read-closed handle answers EOS; a transport EOS, close
\* or reset read-closes the handle and answers 0; would-block is passed up.
ProbeHandle(net, h, blocking) ==
    IF net.probed[h].pending
    THEN {Out(IF net.probed[h].size > 0 THEN HeaderBytes ELSE 0, "",
              net.probed[h].size, EOS, net)}
    ELSE IF net.closedRd[h]
    THEN {Out(0, "", 0, EOS, net)}
    ELSE { CASE o.res = 0 \/ o.errno = "ECONNRESET"
                   -> Out(0, "", 0, EOS, Close(o.net, h, TRUE, TRUE))
              [] o.res < 0
                   -> o
              [] o.size = 0
                   -> Out(0, "", 0, EOS,
                          Close([o.net EXCEPT !.probed[h] = [pending |-> TRUE, size |-> 0]],
                                h, FALSE, TRUE))
              [] OTHER
                   -> [o EXCEPT !.net.probed[h] = [pending |-> TRUE, size |-> o.size]]
           : o \in RawProbe(net, h, blocking) }

\* Faulty variants of ReceiveProbed: one receives without the size check,
\* cutting a large frame to the buffer; one refuses a frame that fits
\* the buffer exactly.
ReceiveProbedNoCheck(net, h, cap) ==
    RawReceive([net EXCEPT !.probed[h] = NoProbe], h, cap)

ReceiveProbedOffByOne(net, h, cap) ==
    IF net.probed[h].size >= cap
    THEN Out(-1, "ENOMEM", 0, EOS, net)
    ELSE RawReceive([net EXCEPT !.probed[h] = NoProbe], h, net.probed[h].size)

\* The tail of receiveFromHandle once a header is pending: refuse a frame
\* larger than the buffer without consuming it, otherwise clear the cache
\* and receive the payload.
ReceiveProbed(net, h, cap) ==
    IF net.probed[h].size > cap
    THEN Out(-1, "ENOMEM", 0, EOS, net)
    ELSE RawReceive([net EXCEPT !.probed[h] = NoProbe], h,
                    IF net.probed[h].size < cap THEN net.probed[h].size ELSE cap)

\* CollectiveImpl::receiveFromHandle(h, buff, cap): blocking receive of one
\* whole frame into a buffer of cap bytes; 0 on EOS.
ReceiveFromHandle(net, h, cap) ==
    IF ~net.probed[h].pending
    THEN { IF p.res <= 0 THEN p ELSE ReceiveProbed(p.net, h, cap)
           : p \in ProbeHandle(net, h, TRUE) }
    ELSE IF net.closedRd[h]
    THEN {Out(0, "", 0, EOS, net)}
    ELSE {ReceiveProbed(net, h, cap)}

-----------------------------------------------------------------------------
\* The initial state of the handles H: nothing sent, nothing closed.
InitNet(H) ==
    [wire     |-> [h \in H |-> <<>>],
     probed   |-> [h \in H |-> NoProbe],
     closedRd |-> [h \in H |-> FALSE],
     closedWr |-> [h \in H |-> FALSE],
     dead     |-> {}]

\* A peer crashes or its connection is reset.
Crash(net, h) == [net EXCEPT !.dead = @ \cup {Conn(h)}]

NetType(H, Byte) ==
    [wire: [H -> Seq(Seq(Byte))],
     probed: [H -> [pending: BOOLEAN, size: Nat]],
     closedRd: [H -> BOOLEAN],
     closedWr: [H -> BOOLEAN],
     dead: SUBSET {Conn(h) : h \in H}]
=============================================================================
