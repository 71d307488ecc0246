# TLA+ models of MTCL's generic collectives

This directory models `src/include/collectives/collectiveImpl.hpp`, the generic
collectives of MTCL. These are broadcast, scatter, gather, all-gather,
all-to-all, fan-in and fan-out, built on point-to-point Handles. The models
are checked with TLC. `spec.md` is the natural-language specification of the
same code.

## 1. Inventory

### Components, their state and operations

| Component | Source | State | Operations |
|---|---|---|---|
| Handle (handle.hpp, **not in src/**) | spec §3, §6 | inbound frames, `probed` (pending, size), `closed_rd`, `closed_wr` | `probe`, `receive`, `send`, `close`, `peek` |
| Framing helper | `CollectiveImpl::probeHandle` (38-76), `receiveFromHandle` (78-101) | the Handle's `probed` and `closed_rd` | probe one header; receive one whole frame, or ENOMEM without consuming it |
| Partition arithmetic | `getTeamPartitionSize` (133-140) and the share code in each `sendrecv` | none (pure) | share of rank r; the remainder hand-out loops |
| BroadcastGeneric | 162-219 | `participants`, `root` | `sendrecv`, `close`; probe/send/receive only return EINVAL |
| ScatterGeneric | 229-334 | same | `sendrecv`, `close` |
| FanInGeneric | 336-422 | `participants` (shrinks), `probed_idx`, `root` | `probe`, `receive`, `send`, `close` |
| FanOutGeneric | 425-480 | `participants`, `current` cursor, `root` | `probe`, `send`, `receive`, `close` |
| GatherGeneric | 483-602 | `participants`, `root` | `sendrecv`, `close` |
| AllGatherGeneric | 604-733 | same | `sendrecv`, `close` |
| AlltoallGeneric | 735-867 | same | `sendrecv`, `close` |

### How the components interact

Each process holds one strategy object for a group. The root holds one Handle
per peer, in rank order. A non-root holds one Handle, connected to the root.
Processes talk only through messages on these Handles. Every message is one
frame, and frames on a Handle keep their order. A frame with size 0 is EOS:
closing the write side of a Handle sends one. Every receive in the strategies
goes through the framing helper. The exceptions are FanIn and FanOut, which
call `Handle::probe` and `Handle::receive` themselves. Every rooted
`sendrecv` uses the partition arithmetic.

### What is hard

- **Interleaving across processes.** The root's loops block on one peer at a
  time. Peers that only send never block, so they can run rounds ahead of the
  root.
- **Partial failure.** The loops stop at the first peer that fails. They do
  not undo what was already sent or received. The spec says the group state is
  then undefined and the caller should close.
- **EOS and resets.** `probeHandle` turns a closed or reset connection into a
  graceful EOS. The only thing that releases a blocked receive is the other
  end closing.
- **Arithmetic at the edges.** The share of each rank is computed in five
  places, in three different shapes. Zero shares and remainders are the edge
  cases.
- **FanIn's scan.** Non-blocking probes over a vector that shrinks as peers
  send EOS, with an index kept between `probe` and `receive`.

### What makes each component correct

- **Framing helper.** A frame is received whole, exactly once, in order. A
  frame too large for the buffer stays pending for a retry. EOS is final.
- **Partition.** All computations agree with each other and with spec §4.2.
  The shares tile the buffer.
- **Broadcast.** Each peer receives a prefix of the root's messages. A round
  reaches exactly the peers before the first dead one, and the root then
  fails (spec §7: fail fast, no roll-back). With no failure every peer
  receives all of them before EOS. Blocked peers are always released, also
  when the root itself crashes.
- **Gather / AllGather.** A successful call yields exactly that round's
  shares, concatenated. In Gather a peer's EINVAL shifts that peer's later
  rounds, and the root files each share by the order of the peer's sends.
  Failures are reported as failures. Every participant
  gets to close.
- **Scatter / Alltoall.** Each rank gets the slice of that round at its own
  displacement.
- **FanIn.** Every message of every peer is received exactly once. Group EOS
  comes after all peers' EOS. No peer is starved.
- **FanOut.** Messages go round-robin. EOS removes the right Handle.

The hazards, each tied to a source line, are listed in `PROJECT.json`.

## 2. Plan

Modules, in the order they are built. The most used behaviour comes first.

1. `Handle`: Handle operations (from the spec) and the framing helper
   (from the code). These are operators over one record `net` that holds every
   Handle of a group. The collective modules all EXTEND it. **Done.**
2. `Partition` + `MCPartition`: the pure arithmetic, checked against the
   spec's reference partition on every input up to a bound. **Done.**
3. `Broadcast`: many rounds, ENOMEM retries, crashes of peers and of the
   root (also inside its send loop). **Done.**
4. `Gather`: the root's blocking receive loop, with peers running ahead.
   **Done.**
5. `AllGather`: Gather plus the reflect loop. **Done.**
6. `FanIn`: the scan of non-blocking probes with EOS removal, one step per
   iteration. **Done.**
7. `FanOut`: the root's cursor, and the non-roots' probe with the pop_back.
   **Done.**
8. `Scatter`: the root's own copy, the send loop with its moving send
   pointer, and the peers' receive with ENOMEM retry. **Done.**
9. `Alltoall`: the root's staging receive loop, the per-destination
   assembly and the heap buffers it allocates and deletes. **Done.**
10. Abstract specifications and refinement. `FanInMerge` (a set of per-peer
    queues, any one may be delivered, EOS when all are drained and closed)
    is refined by FanIn, `FanOutDealer` (messages dealt round-robin to
    per-peer queues) by FanOut, and `BroadcastFailFast` (a round handed to
    the peers before the first dead one) by Broadcast, each with
    INSTANCE ... WITH. **Done for FanIn, FanOut and Broadcast.** An abstract one-round `Collective` spec refined by
    Gather, AllGather and Alltoall is *later*.
11. Composition: Scatter followed by Gather returns the root's buffer (spec
    §8.4). *Later.* Gather's peers send a buffer the model fixes, and a
    CONSTANT operator cannot be instantiated with a state expression, so
    this needs Gather's send buffer to become a variable first. Today the
    property follows from two checked facts: Scatter hands rank r the
    reference share (`ScatterDelivers`), and Gather places rank r's share
    at the reference displacement (`GatherAssembles` with
    `PartitionIsReference`).

The runs are capped at twelve, and twelve are in use. The zero-share
violation run of an earlier version gave its slot to Scatter and Alltoall,
and its hazard stays listed in `PROJECT.json`. Gather's EINVAL now runs in
the passing gather run (see `Gather.tla`).

## 3. What is modelled

### Handle.tla

`net` is a record of functions from handle names `<<owner, peer>>` to state.
Its fields:

- `wire[h]`: the frames sent to `h`. A frame is the sequence of its bytes,
  and `<<>>` is EOS.
- `probed[h]`: the source's `probed` pair, as a record `[pending, size]`.
- `closedRd[h]` and `closedWr[h]`: the half-close flags.
- `dead`: the set of connections whose peer crashed or was reset.

A call returns a record `[res, errno, size, data, net]`. When the transport can
answer in more than one way, the call returns the set of possible answers, and
an empty set means the call blocks.

The Handle operations (`Send`, `Close`, `RawProbe`, `RawReceive`) follow the
contract in spec §6, because handle.hpp is not under `src/`:

- A probe consumes the next header. It is idempotent while a header is
  pending.
- An EOS header is consumed whole.
- On a dead connection, once the frames already delivered have been read, a
  probe returns 0 or -1 with ECONNRESET. Both answers are possible.

`ProbeHandle`, `ReceiveProbed` and `ReceiveFromHandle` translate the helper
line by line. That includes the order of its checks and the ENOMEM exit, which
leaves the frame pending.

### Partition.tla, MCPartition.tla

The partition code comes in three shapes, each written as an operator:

- The remainder hand-out loop, `RemainderLoop`, is RECURSIVE. It is used by
  Scatter and Alltoall.
- Gather's root tests the participant index, in `GatherRootPeerCount`.
- The non-roots test their own rank, in `GatherPeerCount`,
  `AlltoallSelfRecvCount` and `TeamPartitionSize`.

`Chunk` and `Displ` are the reference from spec §4.2. In `MCPartition` each
state is one input `(size, datasize, n)`, and `Next` moves to any other input.

### Broadcast.tla

The processes are the root (rank 0) and peers 1..N-1.

- `RootSendrecv` is the whole root call. Sends never block in this model, so
  the loop over participants is one step (`SendAll`). It stops at the first
  failure.
- `RootClose` is `BroadcastGeneric::close`.
- `PeerSendrecv(p)` is the non-root call.
- `PeerCrash(p)` is the environment: the peer stops and its connection dies.
- `RootCrash` is the root's process dying, between two calls or inside a
  sendrecv after its loop has sent the frame to the first k participants.
  All of its connections die. `Crashes` counts the root with the peers
  against `MaxCrashes`.

The callers are modelled as well:

- The root's caller sends `Rounds` messages, then closes. It closes at once
  after a failure.
- A peer's caller passes any capacity in `Caps`. After an ENOMEM it retries
  with the largest capacity. It stops at EOS.

### Gather.tla

The root's call has two actions:

- `RootStart` does the checks and copies the root's own share.
- `RootReceive` is one iteration of the receive loop. The loop blocks, so
  its iterations interleave with the peers.

`recvbuf` is kept byte by byte. A byte is `<<rank, round, index>>`, so a byte
in the wrong place or from the wrong round can be seen.

`PeerSendrecv` includes the EINVAL check. When `ShortSends` is TRUE, as in
the gather run, a peer's caller may pass a send buffer one element short.
It gets EINVAL, no I/O is done, and the caller goes on to its next round,
as spec §7 allows for invalid use. The history variable `sent[p]` records
the rounds whose share peer p actually sent. It is not program state, and
only the properties read it:

- `GatherAssembles` says the root's k-th successful call holds its own
  round-k share and each peer's share of that peer's k-th sent round. With
  no EINVAL this is exactly round k. After an EINVAL the root files the
  peer's next round under this one, and the rounds are shifted, not torn.
  The round-k form of the property is violated in this configuration: a
  peer's EINVAL in round 1 puts its round-2 share into the root's round 1.
- `NoSpuriousFailure` says the root fails only when a peer crashed, sent
  fewer shares than the root asked for, or has an empty share. A peer that
  fell behind closes after its last round, and the root reads that close
  as EOS. An empty share (`EmptyShare`, fewer elements than ranks) is sent
  as a 0-byte frame, which is also EOS (lines 71-73). Gather.cfg gives
  every rank a share, so the run checks the first two causes. With
  Recvsize=6 and N=4, the property without the third cause is violated:
  the root fails with no crash and no lag.

### AllGather.tla

This is the Gather loop. Its last iteration also runs the reflect loop
(`SendAll`), which is one step. A non-root has two actions: `PeerSend`, then
the blocking `PeerReceive`. `PeerReceive` returns the share's size whatever
the receive gave, as the code does.

### FanIn.tla

The root's `probe` is a loop, and each iteration is one `ProbeStep`. The
state carried between iterations is the iterator `iter`, the `blocking`
argument and `participants`, which shrinks. Peers send and close between
iterations. The parts of an iteration are small operators:

- `ProbeResult`: the EOS branch resets `res` to -1.
- `Erase`.
- `NextIter`: the erase leaves the iterator on the next handle, and the
  `iter++` that follows skips it.
- `ProbedIndex`.
- `Outcome`: what the caller makes of `(res, size)`.

`RootReceive` is `FanInGeneric::receive`.

The root's caller probes, blocking or not, receives what the probe reported,
and stops at EOS. Each peer sends `Msgs` messages and closes. Two ghost
variables feed the properties:

- `scanned`: the peers probed during the current call.
- `overtaken`: how often a waiting peer was passed over.

### Scatter.tla

- `RootSendrecv` is the whole root call. It checks `recvsize` against
  `selfsendcount` (EINVAL, no I/O), copies its own share into `own` and runs
  the send loop `SendChunks`, which advances the send pointer by each
  chunksize and stops at the first failed send. The caller picks the buffer
  size from `Sizes` and its receive capacity from `RootCaps`.
- `RootClose` write-closes every participant. A non-root's `close` does
  nothing, so it is no action.
- `PeerSendrecv(p)` is the non-root call, as in Broadcast. It returns the
  helper's result.

`sizes` records the buffer sizes of the root calls that did I/O. The
properties compare with `Share(k, r)`, the reference partition of
`Partition.tla`, not with the code's loop.

### Alltoall.tla

- `RootStart` runs the argument checks (`ArgsOK`) and allocates
  `allsendbuff`.
- `RootReceive` is one iteration of the staging loop. The last iteration
  also assembles every destination's chunk (`Assemble`: the root's slice,
  then each participant's) and sends them (`Distribute`). Chunk 0 goes to
  the root's own receive buffer. Then it deletes `allsendbuff`
  (`LiveOnReturn`).
- `PeerSend` and `PeerReceive` are the non-root call. It returns
  `selfrecvcount` whatever the receive gave.
- `CloseRank` is `AlltoallGeneric::close`.

`live` counts the root's heap buffers not yet deleted. The failure returns
(lines 798 and 833) leave them allocated, as the code does.

### FanInMerge.tla and the refinement of FanIn

`FanInMerge` is what fan-in promises, with no handles, scan or indices. It
has per-peer queues, and any non-empty queue may be delivered from. The
group EOS comes when every peer has closed and every queue is empty. FanIn
maps onto it as follows:

- a queue is the peer's wire, EOS frames removed (a probe leaves the frame
  on the wire until the receive);
- `closed` is the set of write-closed peer handles;
- `eos` is the root's caller having seen the group EOS.

`ImplementsMerge` is checked as a PROPERTY of the fanin run. It is a safety
refinement only, since FanIn's scan has no fairness to offer (see
`BoundedBypass`).

### BroadcastFailFast.tla and the refinement of Broadcast

`BroadcastFailFast` is the contract of spec §4.1 and §7, with no handles or
loop. Each round appends the message to the inbox of every peer before
`StopAt`, the first dead peer. The root fails when such a peer exists.
`AClose` queues an end-of-stream behind every live peer's messages, and
`ARootCrash` lets a round reach only a prefix of the peers. A peer takes
its messages in order. It ends at the end-of-stream, or once its inbox is
empty after the root crashed. Broadcast maps onto it as follows:

- a peer's inbox is its handle's wire, EOS frames included. A probe leaves
  a frame on the wire, and an ENOMEM leaves it there too, so both are
  stuttering steps;
- `state` is the root's state, and `dead` is the set of crashed peers;
- `ended` is the set of peers whose sendrecv returned 0.

`ImplementsFailFast` replaces the earlier `EOSOnlyAfterAll`, which it
implies. It also catches a loop that records a failed send and goes on
to the later peers, which the prefix and EOS invariants cannot see.

### FanOutDealer.tla and the refinement of FanOut

`FanOutDealer` deals messages 1, 2, ... round-robin to per-peer queues. A
live peer takes from its queue in order. A peer ends once the root has
closed and its queue is empty. FanOut maps onto it as follows:

- `dealt` is the root's send count;
- a queue is the peer's wire, EOS frames removed;
- `taken` is what the peer received;
- `ended` is the set of peers whose probe saw EOS.

`ImplementsDealer` includes the dealer's weak fairness, so it also says
that a live peer takes every message dealt to it.

### FanOut.tla

- `RootSend` is `FanOutGeneric::send`: `SendTarget` is `participants.at(current)`
  and `Advance` is `++current %= count`, taken even when the send fails.
- `RootClose` write-closes every participant.
- `PeerProbe` is the non-root probe, with the EOS `pop_back`. A probe after
  the EOS finds no handle and fails with ECONNRESET (line 432). Spec §3
  makes EOS terminal. The modelled caller stops at EOS and never takes
  this branch, so it is a hazard in `PROJECT.json` without a run.
- `PeerReceive` is the non-root receive.

The refinement compares what each peer receives with the dealer's
`Owner(k)`, the round-robin dealing of spec §4.9. `Owner` is computed from
the message index alone, not from the code's cursor.

## 4. Runs

| Run | Config | Expect | What it shows |
|---|---|---|---|
| partition | MCPartition.cfg | pass | All share computations agree with each other and with the reference. Bounds: sizes up to 12, datasize up to 3, teams up to 5. That is 125 inputs, and every remainder case is among them. |
| broadcast | Broadcast.cfg | pass | N=4, 2 rounds, sizes and capacities {1,2} (so ENOMEM and retry happen), up to 2 crashes, the root's included. Peers receive a prefix of the broadcasts (`DeliveredInOrder`). Broadcast implements `BroadcastFailFast` (`ImplementsFailFast`): a round reaches exactly the peers before the first dead one, the root fails exactly then, and EOS follows every frame. Every live peer is released (`PeersUnblock`). |
| gather | Gather.cfg | pass | N=4, Recvsize=10 in 2-byte elements (shares 4,2,2,2 bytes), 3 rounds, 1 crash, and peers whose callers may pass a send buffer one element short. The root's successful calls hold each rank's share of the call's number in that rank's own sends (`GatherAssembles`). The root fails only when a peer crashed, fell behind or has an empty share, and no share is empty under these sizes (`NoSpuriousFailure`). |
| allgather | AllGather.cfg | pass | N=5, Recvsize=14 in 2-byte elements, 3 rounds, up to 2 crashes. While no peer has crashed, every successful call on every rank holds the same concatenation. Every live rank gets to close. |
| allgather_peer_eos | AllGatherPeerEOS.cfg | violation | A non-root that receives EOS instead of the buffer reports success. |
| fanin | FanIn.cfg | pass | 3 peers, 2 messages each, 1 crash; the root probes blocking or not. FanIn implements `FanInMerge` (`ImplementsMerge`): every message is delivered once, in per-peer order, and group EOS comes only after all of them. Without a crash, group EOS always comes (`RootDrains`). |
| fanin_bypass | FanInBypass.cfg | violation | The scan restarts at `begin()`, so peer 1 is served twice while peer 2's message waits. |
| fanin_skip | FanInSkip.cfg | violation | After an erase, `iter++` skips a handle. A non-blocking probe then says would-block while that handle holds a message. |
| fanin_reset_eos | FanInResetEOS.cfg | violation | A crashed peer makes `Handle::probe` return 0. The scan ends, and the caller sees EOS with another peer's message undelivered. |
| fanout | FanOut.cfg | pass | 5 messages to 3 peers, up to 2 crashes. FanOut implements `FanOutDealer` (`ImplementsDealer`): each peer gets exactly its round-robin share, in order, and takes every message dealt to it. Every live peer sees EOS (`AllPeersEnd`). |
| scatter | Scatter.cfg | pass | N=4, two root calls of 12 or 14 bytes in 2-byte elements (shares 4,4,2,2 and 4,4,4,2 bytes), buffers of 2 or 4 bytes, 1 crash. Root EINVAL, the remainder reaching peers, peer ENOMEM and retry on a 4-byte share, and a send loop cut short all happen. Peers receive exactly their reference shares, in order (`ScatterDelivers`). Without a crash, EOS comes after all of them (`EOSOnlyAfterAll`). Every live peer is released (`PeersUnblock`). |
| alltoall | Alltoall.cfg | pass | N=5, 14-byte send buffers in 2-byte elements (slices 4,4,2,2,2 bytes), 3 rounds, up to 2 crashes. Without a crash, every rank that returns success holds its slice of every rank's buffer, in rank order (`TransposeUnlessCrash`). The root's heap buffers outlive only a failed call (`StagingFreed`). Every live rank gets to close (`AllFinish`). |

Two rounds are enough to show state carried from one round into the next:
the reused receive buffer, frames left pending, and peers running ahead.
Three rounds (Gather, AllGather, Alltoall) also let a peer run two rounds
ahead of the root. In Gather, they let an EINVAL in round 1 shift both
later rounds. One crash reaches every failure branch. Two crashes add
a second failure behind the first, and in Broadcast a root crash after a
peer crash. Every run whose collective partitions a buffer uses 2-byte
elements. A displacement or a count taken in elements where the code
takes bytes, or the other way round, would then misplace data, which
1-byte elements hide. N=5 with 14 bytes (AllGather, Alltoall) puts the
remainder on the root and on rank 1, with uneven shares. N=4 with 10 bytes
(Gather) puts it on the root alone. The EINVAL choice multiplies Gather's
states, so its run keeps N=4 and one crash. In FanIn, three peers let an erase in the middle of
the vector shift the index of the handle after it, and two messages per
peer let one peer overtake another twice. In FanOut, five messages to
three peers make the cursor wrap and split the messages unevenly. In
Scatter, 12 and 14 bytes give remainders of 2 and 3, so the extra
element reaches peer 1, and with 14 bytes also peer 2. Their 4-byte shares
overflow a 2-byte peer buffer (ENOMEM). The root's 4-byte share overflows
a 2-byte root buffer (EINVAL). Every run finishes in under
a minute. Gather (about 290,000 states) and FanIn (about 210,000) are the
largest.

### Findings

- **AllGather non-root reports success on EOS (code bug).** See line 717, and
  the same at line 851 in Alltoall. Suppose a peer crashes. The root's gather
  fails, so the root closes. The other non-roots then receive EOS instead of
  the buffer. Their `sendrecv` still returns `chunksize`, with `recvbuf`
  never filled. Spec §7 says EOS is reported as 0.
- **FanIn keeps no cursor (divergence, line 346).** Every probe starts at
  `participants.begin()`. A peer early in the vector that always has a
  message is served every time, so a later peer waits without bound. Spec §4.8
  and §5 promise a cursor that advances for fairness.
- **FanIn skips a handle after an erase (code bug, line 368).** `erase`
  returns an iterator to the next handle, and the unconditional `iter++` then
  passes over it. A non-blocking probe can report would-block after a pass
  that was not full.
- **FanIn returns a lost peer's 0 as EOS (divergence, line 349).** FanIn calls
  `Handle::probe` directly, not `probeHandle`. A 0 from a dead connection ends
  the scan, and `probe` returns 0. The caller sees EOS although the other
  peers still have data.
- **Gather's EINVAL shifts the rounds (line 576).** Spec §7 calls invalid
  use "non-fatal to the group". A non-root's EINVAL sends nothing. If its
  caller goes on, the root's next successful call holds that peer's
  next-round share, and the root's last call fails on the peer's EOS. The
  gather run checks exactly this consequence (`GatherAssembles`,
  `NoSpuriousFailure`). The round-k reading of spec §8.4 does not hold
  once an EINVAL has happened.
- **Empty shares read as EOS (lines 304, 584, 712).** A zero share is a
  zero-byte frame, which the framing reads as EOS. `NoSpuriousFailure`
  names it as a cause of a root failure. No run has sizes with an empty
  share, because every Gather call would then fail.
- **Alltoall leaks on failure (line 797, 831).** The root returns without
  deleting `allsendbuff` and the current chunk buffer. `StagingFreed` checks
  that only a failed call leaves them. The caller then closes the group, so
  the leak is at most two buffers per group.

## 5. Fairness

Every process action is weakly fair: the root's, and each peer's sendrecv and
close. The processes are OS processes. A step that stays enabled is
eventually taken. Crashes are never forced. Nothing needs strong fairness.
A blocked receive is disabled, not intermittently enabled, until its frame
arrives, and after that it stays enabled.

The collectives run a finite number of rounds. The runs therefore say
`CHECK_DEADLOCK FALSE`. The liveness properties (`PeersUnblock`, `AllFinish`)
check what deadlock checking would: that nobody is left blocked. A root
crash releases a blocked peer only through the reset of its drained
connection, which `receiveFromHandle` reads as EOS. `ImplementsFailFast`
carries `BroadcastFailFast`'s weak fairness on each peer's `Take` and
`End`, which Broadcast's weak fairness on each peer's sendrecv implies.
It has none on the root's steps, so it adds no claim about the root's
progress beyond `PeersUnblock`. `ImplementsDealer` carries `FanOutDealer`'s weak fairness on
`Take` and `End`. FanOut's weak fairness on each peer's probe and receive
implies it. `ImplementsMerge` has no fairness. FanIn's
`RootDrains` assumes no crash. With a crashed peer, Handle::probe may answer
ECONNRESET on every call, and FanIn's scan then spins.

## 6. Not modelled

- `peek()` is a hint and changes no state.
- `finalize`, the constructors' parameter passing and `uniqtag` are
  uninterpreted.
- The unsupported operations change no state. They only set EINVAL.
- The null-pointer checks are not modelled: the model's buffers always exist.
- Three EINVAL checks on exact sizes are left out. The model's callers
  always pass the exact size, so these checks never fire. They are the
  Gather root's (534-538), the AllGather root's (661-665) and the
  AllGather peer's (704-708). `RootStart` and `PeerSend` have no branch
  for them.
- Handle's own internals are not modelled, because handle.hpp is not in
  `src/`.
- Message contents are abstracted to labelled bytes.
- The composition of Scatter and Gather (see the plan).
- A Scatter non-root's `close` does nothing, so it is no action.
- Two operations are not modelled because their collective's callers never
  use them: FanIn's root `send` and non-root `probe`/`receive`, and FanOut's
  root `probe`/`receive`.
- FanOut's `int` result is not modelled: message sizes are a few abstract
  bytes.
- The receive capacity in FanIn and FanOut is always the probed size. A
  smaller one would need the partial-read behaviour of `Handle::receive`,
  which is not in `src/`.
