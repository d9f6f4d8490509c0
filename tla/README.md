# A TLA+ model of mojo-rs

mojo-rs is a Rust implementation of the Mojo IPC core and of the ipcz protocol below it. This
directory holds TLA+ modules that model the parts of it where the difficulty is in the order of
steps (threads behind mutexes that call back outside of them, lock-free words in memory that two
processes share, waits, two-phase operations, moving portals), and the two binary formats, where it
is in what the bytes of a peer can do to a decoder; TLC configurations that check them on small
instances; and TLAPS proofs of the properties that matter most.

Paths below are relative to `crates/mojo-rs-core/src/` (core),
`crates/mojo-rs-interop/src/ipcz/` (ipcz) and `crates/mojo-rs-wire/src/` (wire).

## Inventory

### Core: objects of one process

| component | state | operations | interacts with |
|---|---|---|---|
| handle table, `handle.rs` | entries, persistent generations and free list, one mutex | `add`, `get`, `close_slot`, `duplicate` | calls `Dispatcher::on_closed` with the mutex released |
| signals, `signal.rs` | none | `is_satisfied`, `is_unsatisfiable` | everything that watches |
| dispatcher trait, `dispatcher.rs` | none | contracts of `on_closed`, `start_watch`, `cancel_watch` | implemented by pipes and traps |
| message pipe, `pipe.rs` | two endpoints: queue, closed flags, watchers; one mutex | `write`, `read`, `close`, `register_watch`, `cancel_registered_watch` | makes the callbacks of watchers after the mutex is released |
| trap, `trap.rs` | triggers, `armed`; a mutex of its own | `add_trigger`, `remove_trigger`, `arm`, `close`, `on_watch` | watches dispatchers; calls the client |
| waiter, `wait.rs` | `woken` and a condition variable | `wait` and its watch callback | watches a dispatcher |
| ring buffer, `ring_buffer.rs` | a range over a mapping | write, read, extend, discard, direct spans | memory shared by two views |
| data pipe, `data_pipe.rs` | two ring views, queues of byte counts, two-phase operations, new-data latch | one-phase and two-phase read and write, `query_signals`, `close` | control messages to the peer, watchers |
| shared buffer, `shared_buffer.rs` | a mapping table | map, unmap, duplicate | not modelled yet |

What is hard here: callbacks that are collected under a mutex and made after it; lookups of stale
values; check-then-park; counts that the other side has not been told of yet. What makes it
correct: no handle value names the wrong object; no change goes unheard;
an armed trap loses no event; a wait returns; bytes arrive in order and are never overwritten;
signals tell the truth.

### ipcz: nodes that share memory and exchange messages

| component | state | operations | interacts with |
|---|---|---|---|
| router link state, `link_memory.rs`, used by `routing.rs` | the status word and the allowed bypass source of a central link | compare-exchange loops: mark stable, try lock, unlock, reset waiting bit | the peer process, `FlushRouter` messages |
| block allocator, `link_memory.rs` | a free list threaded through shared blocks | `pop_block`, `free_block` | the peer process; users overwrite headers |
| link memory, `link_memory.rs`, used by `routing.rs` | buffers with their pools, reference counts of link states, a counter of buffer ids shared by both sides; capacity requests and parcels that wait for a buffer | allocate, free, resolve, reference, release, add and register a buffer | the peer process, `AddBlockBuffer`, `RequestMemory`, `ProvideMemory` |
| parcel queues, edges, routers, `router.rs` | sequenced queues, primary and decaying links | push, pop, final length, decay | the routing node |
| routing node, `routing.rs` | routers, sublink owners, early and deferred parcels, pending introductions | put, close, serialize, flush, proxy, bypass, closure, memory requests; bridges are not modelled yet | peers, over FIFO channels and shared link states |
| channel, `channel.rs`, over `socket.rs` of the platform crate | receive buffer, marks of the descriptors read | `send`, `recv_available`, `try_assemble`, `recv` | a stream socket that takes and gives as many bytes as it likes, descriptors beside them |
| messages, `messages.rs`, `wire.rs` | none | an encoder and a branch of `decode_message` per kind, arrays, driver objects | the channel below, the routing node above |
| acceptor, `acceptor.rs` | routers, early parcels, halves of split parcels, reply due | `connect`, `exchange`, `dispatch` and its handlers, `send_reply` | a broker, over a channel and link memory |

What is hard here: two processes race on one word with weak exchanges; a side sleeps on a bit and
relies on the other to wake it; a free list is read while its blocks are being reused; portals move
while their parcels are on the way, the chain of proxies they leave behind is replaced link by link,
and three nodes must agree on where each old link ends. What makes it correct: locks are exclusive
and wakeups are not lost; a block has one user; a route delivers in order and loses nothing whoever
moves; a closure is told truthfully, and in the end; proxies go; a message arrives whole, with its
own descriptors, and decodes to what was encoded; whatever a frame says, the decoder stays in it; the
references to a block that two nodes and their messages hold are counted exactly.

### The Mojo wire format

| component | state | operations | interacts with |
|---|---|---|---|
| layout, `pack.rs`, `layout.rs` | none | where the fields of a struct lie, in each version | encoder and decoder compute it each |
| encoder, `value.rs` | buffer, handles, depth | `encode_message` and one encoder per type | appends objects and patches pointers |
| decoder, `value.rs`, `message.rs`, `validate.rs`, `pointer.rs` | frontier of claimed bytes, next handle, depth | `validate_message`, one decoder per type | takes bytes from a peer, perhaps of another version |

What is hard here: first-fit packing with bits for booleans, pointers relative to their own place,
and two schemas of different versions that must find the same fields. What makes it correct: a
value arrives as it was sent; no byte belongs to two objects; damage is refused.

The other crates (platform wrappers, typed system API, casefiles, harness binaries, scaffolded
crates) hold pure functions, system calls or forwarding code; `PROJECT.json` lists them
with the reason they are left out.

## Plan

Order of work: the parts where the interleaving decides come first.

1. Done: `RouterLinkState`, `BlockAllocator` (with its abstract `BlockPool`), `HandleTable`,
   `MessagePipe` with `Trap` and `Waiter` on top of it, `RingBuffer` with `DataPipe`, `Router` with
   `ProxyBypass` (and the abstract `Route`); `LinkMemory`; `Channel`, `NodeMessages`, `MessageDecoder` and
   `Acceptor`, composed in `MessageStream`; `PackedStruct`, `WireEncoder` and `WireDecoder`, composed in `WireValues`;
   proofs of the link state, the handle table, the data pipe, the block allocator, traps, waits,
   the message stream, and that `ProxyBypass` implements `Route`.
2. Left to prove: the invariants of `LinkMemory`, with the exceptions they now state; the other
   invariants of `ProxyBypass`, which need to know how far the two ends of
   each decaying link agree on its length (`OnlyLateParcelsFail`, `ClosureIsTrue`,
   `OneBypassPerLink`), and what holds at rest.
3. Left to model: routers with a local peer (`serialize_router_with_local_peer`, bridges and their
   bypass, `StopProxyingToLocalPeer`, `BypassPeerWithLink`); `SharedBuffer` and its mapping table.

## Modules and how they correspond to the code

`PROJECT.json` maps every definition to its lines. Conventions: one action per critical section
(mutex) or per memory access (lock-free code); what a thread does between two of them is in a
per-thread variable (`pc`, `calls`, `events`, ...). Variables commented "history" do not exist in
the code and only serve properties. Definitions commented "Mutant" are plausible bugs; each is the
mutated form of one mapped definition, and breaks one property when it takes its place. No
specification uses them.

**RouterLinkState.** `status` is the shared word, as the sets of sides whose stable, waiting and
locked bits are set. A side runs `router_flush`: `pc` says at which loop it is, `expected` and
`mode` are the loop's variables. Each iteration of a `compare_exchange_weak` loop is a step, which
may fail spuriously; `Goto` starts the next loop with the `expected` value the code starts it with.
`Flush` begins a flush (spontaneous, after a decay, by `close_route`, by a `FlushRouter` message);
`SerializeRouter` is the lock attempt of `serialize_router`; when the lock is refused,
`begin_proxying` follows in the same handler, and `BeginProxying` is its write to the word: if its
router's edges are stable it marks side A, whichever side it has itself, and wakes nobody
(`AfterRefusal`). So the word may call a side stable that still decays, and `NoLostWakeup` is stated
by what the other side has still to do, not by its bit. `chan` holds the link messages on
their way. `proxy` says which side's router a serialization has turned into a proxy, and `outcome`
what became of the link. A bridge that has locked its link may find its other link locked by
someone else, or may find the block pool exhausted: in the first case it gives its lock up
(`unlocked`), in the second the bypass is deferred and the lock is kept, as the code does
(`WriteAllowedSource`). Abstracted: which parcels make a flush happen, and what becomes of a link
after its lock was used (`gone`).

**BlockAllocator, BlockPool.** `front` is the header of block 0, `next[b]` the `next` field in the
first bytes of block `b`, which user data overwrites (`WriteData`, with the values `Garbage`).
`PopStart`, `PopRead`, `PopCas`, `FreeStart`, `FreeWrite`, `FreeCas` are the memory accesses of
`pop_block` and `free_block`. Relative links are kept, with the code's base. `read_block_header`
copies four aligned bytes, which is one load in every build, so a header is read in one step. The
version wraps modulo `VersionMod`; `UpdateFront` bounds by how many exchanges a call may be
overtaken (fewer than `VersionMod`, 65536 in the code): beyond that the version protects nothing.
`BlockPool` is the promise: a set of free blocks, atomic allocate and free. Regions are independent
of each other, so one region is modelled; the search for a region with a free block is in
`LinkMemory`.

**LinkMemory.** A block is a link, a buffer, a block size and an index; `free` holds the lists of the
regions (a call on one is atomic here), `contents` what was written to a block last: the data of a
parcel, or the reference count of a link state, which lies in the same word as the size of the data.
`known` are the buffers a side has entered (`extra` and `extra_order`), `held` its links with a state.
`try_allocate_fragment` chooses the least block size that will do and the newest buffer of that size
with a free block (`Allocatable`); data that find none travel in the message, a link state that finds
none asks for capacity. The node is the code: it answers a message with a whole handler
(`process_accept_parcel`, `AcceptLink`, `AcceptBuffer`, `on_provide_memory`), gives up with `error`,
and shares a buffer in one step and initialises it in the next (`ShareBuffer`,
`register_block_buffer`), between which its peers run. A buffer that comes over any link is entered
into the memory of the broker link, as in `dispatch` (`Table`); `misfiled` remembers which those were,
and `early` the buffers that a peer adopted before the node had initialised them. Registering a buffer
whose name is in the table already replaces the mapping and leaves the name twice in the order
(`InPlaceOf`). Data that are not the parcel's may have any size, so reading them may fail (`ReadAll`).
Each link has a peer of its own. The peer is
the reference implementation as the node relies on it: it gives fragments back when it has read
them, releases what it adopts, and may announce a buffer after messages that already use it.
`OfferLink` stands for every way in which a new central link comes about, each of which allocates a
state, takes a second reference and sends it; `ReleaseLink` for `finish_decays` and `remove_router`,
`CloseLink` for closure and disconnection. `lost` is history: the references that the node dropped
with a link it closed or a bypass it ignored, so that `StatesCounted` can be exact. The fixed states of initial portals are not counted in
the code and not in the model.

**HandleTable.** `entries`, `generations`, `length` (the vector's length) and `free` are the table.
`Encode` truncates the generation to the bits a value has for it. `CloseSlot` is the drop of any
`Handle`, stale clones included; it notifies the dispatcher in a second step. `duplicate` is two
critical sections, `DuplicateGet` and `DuplicateAdd`.

**Signals, MessagePipe.** `MessagePipe` has the endpoints, their queues and watchers and, per
thread, `calls`: the callbacks it has collected and not yet made, each with the signal state of the
moment it was collected. It is no complete specification: what a callback does is up to the watcher.
`Trap` and `Waiter` complete it, each with its own callback. A registration that was cancelled is
removed from `watchers` (the code marks it and never looks at it again). A read with a buffer that
is too small puts the message back within its critical section and changes nothing. `quota` signals
are as constant as in the code. `Keep`, which filters the watchers, is a recursive function and not
`SelectSeq`, so that the proofs can say what it keeps.

**Trap.** `triggers` and `armed` are the trap; `arming`, `position` and `immediate` the progress of
`arm`, which holds the trap's mutex over several queries; `adding` the trigger between
`start_watch` and the push; `cancelling` the watches that `remove_trigger` or `close` still has to
cancel; `events` the client callbacks to make. `OnWatch` is a pipe callback entering the trap.
Clients use a context again once the CANCELLED event of its last trigger has come (`UsedContexts`).

**Waiter.** `pc` follows `wait`; parking releases the mutex and is one step with the test of
`woken`; the callback sets `woken` under the mutex and notifies after it (two steps). The condition
variable may wake spuriously. `Object` says which `Waiter` object each thread uses: they may be
clones of one. A waiting thread has one registration at a time, so the identities of registrations
are the waiting threads (`Waiting == Watches`).

**RingBuffer, DataPipe.** A view is the offset and size of the data range; operators give the view
after each operation, and the bytes after a write in two chunks. `DataPipe` has both views over one
memory, the sums of the byte counts queued at each end (a flush takes all, zero counts are never
sent), the spans of open two-phase operations and the new-data latch. Bytes are numbered as they
are produced, so that the memory can be compared with the stream. `collected` names the endpoints
whose watchers the last call went through.

**Router, ProxyBypass, Route.** `Router` has the data of `router.rs` as operators: the sequenced
queue (`SequenceLength`, `Push`, `PopTo`, final lengths), the edge with its primary and decaying
link, and what a flush collects, delivers and finishes. `ProxyBypass` has a route between two
portals, each of which may move to another node. `routers` maps the routers there are to their
state; a router is named by its end and by how often the portal had moved, and has a node of its
own. A link is its kind and the routers at its sides A and B, which stands for the node link and
sublink of the code. `owners` is the table of the nodes, `words` the link states of central links
(here each call on one is a step; `RouterLinkState` has the steps inside), `chan` the FIFO channels,
`deferred` the parcels that wait for a buffer, `early` those that came before their router,
`bypass` how far the bypass a descriptor asked for has come. A node is one thread, so an action is
a whole call or message handler, with every flush it makes: handlers compute an effect (router,
link states, messages, parcels for the portal) that `Commit` applies. A handler that returns an
error sets `error`, and nothing happens after that. The nondeterminism is in what the environment
may do: which portal sends, closes or moves, which channel is read, whether a parcel's buffer is
there, whether near knows far's node, whether the broker introduces it, whether a block is free.
The parcel that carries a moving portal travels on another route, so the descriptor is a message of
its own to the new node. `keep` is `process_accept_parcel_keep_queued`. `Route` is the promise to
the two portals: each receives a prefix of what the other has sent.

**NodeMessages, MessageDecoder.** A payload is a sequence of 32-bit words. `NodeMessages` has the
fields of every message struct, in the order and at the offsets at which its `encode_*` function
writes them, the arrays and driver objects behind them (`append_array`, `append_driver_objects`) and
the sequence number; `Encode` dispatches on the kind. A word of all ones is
-1, which is less than any offset or size: the checks of `ArrayOk` have the lower bounds that a `u32`
has by itself. For kinds that this code only receives, the
layout stands for the peer's encoder. `MessageDecoder` has, kind by kind and separately as in the
code, the least size and the offset at which `decode_message` reads each field, then `read_array`,
the driver objects and the router descriptors with their checks. An access that the checks before it
do not rule out would be the result "Panic". What the layouts agree on is thus found by the checker
and not written into the model.

**Channel, MessageStream.** `Channel` is one direction: a writer that sends frames in pieces, with
the descriptors beside the first byte, and may fail or close anywhere; a socket; a reader with
`recv_buf` and `fd_marks`, which reads exactly what completes the header or the message, assembles,
and ends with an error, at the end of the stream or after its timeout. The kernel's rules (a read
returns the descriptors of the bytes it takes, at most as many as the control buffer holds, and does
not go on past bytes that bring some) are external. `MessageStream` composes it with the messages:
`send_link_message` and its sequence numbers on one side, the receive loop with `decode_message` on
the other; in some of the initial states one word of a frame is damaged.

**Acceptor.** The acceptor's state is a record, its handlers are operators from one record to the
next, with `failed` for every error. `MessageStream` runs it: with an acceptor as the receiver,
`Decode` hands the first message to `connect` and the others to `dispatch`, and `Reply` is the point
of `exchange` where the drain finds nothing more to read and a reply is due. Link memory is reduced
to whether a descriptor resolves; a reply may fail for want of a block. `BootstrapAnswered` is about
the messages handled, and not about the acceptor's own account of them: `HelloHalves` are the pairs
(data, objects) among them that make up the broker's parcel, on any sublink of the route.

**PackedStruct, WireEncoder, WireDecoder, WireValues.** Bytes are numbers 0..255, types and values
are records. `PackedStruct` is the layout; `WireEncoder` has an operator for each encoder of
`value.rs`, over a record of buffer, handles and depth; `WireDecoder` one for each decoder, which
returns a value and the claims made so far, or refuses; the parse and the checks of the message
header are there too. Integers of equal width share a type, 64-bit numbers are small, and "a number
beyond the message" is one value, `Huge`, except that pointers wrap: a number close to 2^64 is the
negative one, so that a target may lie before its pointer, before the message, or (a negative number)
at the end of the address space (`Target`). What the decoder then adds to it without a check is a panic in
a build with overflow checks and a refusal in one without (`Overflows`, `OutOfRange`). `WireValues` is the
message on its way: encoded by the sender's schema, damaged (a byte, or a pointer) or cut, validated against
the receiver's by a build of either kind (`build`). Types and values are trees, so
the encoder and the decoder are RECURSIVE operators, and these modules are only model-checked.

## Runs

Passing runs:

| run | instance | what it shows |
|---|---|---|
| `link_state` | a bridge and a portal's router, fair | the lock is exclusive and only its owner clears it; no lost wakeup; the bypass source is intact when the bypass arrives; a closed route gives its link up |
| `block_pool` | 2 users, 3 blocks, version mod 3, two kinds of garbage, fair | the free list stays whole; the calls implement `BlockPool`; some call always returns |
| `handle_table` | 2 threads, 2 slots, 3 generations per value, 6 handles | no aliasing, no resurrection, exact free list, past the exhaustion of generations |
| `trap_safety` | 2 threads, 2 triggers, 2 contexts that may be used again, 1 message per direction (1,617,144 states) | no lost event; CANCELLED at most once, and only when due unless an earlier trigger had the context; a closed endpoint cancels its triggers |
| `waiter` | 1 wait with deadline, 2 threads, 2 messages, fair | no lost wakeup, no leaked watch; the wait returns when its condition holds or its deadline has passed |
| `data_pipe` | capacity 6, elements of 2 bytes, 12 bytes | views agree, stream intact, signals truthful, changes are heard |
| `portal_moves` | 2 parcels, 2 moves, from either end, 1 deferred parcel at a time | the route implements `Route`; no protocol error but the late parcel for a closed portal; closures are true; one bypass per link; at rest every parcel and closure has arrived and bypassed proxies are gone |
| `link_memory` | 2 links, regions of 64 and 128 byte blocks with 1 usable block, 1 more buffer per link from either side, of 2 blocks, 1 parcel, fair (427,532 states) | link states are counted exactly and freed once; parcels are read as they were put, those that overtake their buffer too; buffer ids do not collide and answers find their requests; only an overtaking link state makes the node give up; all but for misfiled and early buffers |
| `message_stream` | every kind of message alone; sequences of 3 in pieces, with 0 to 3 descriptors where a read takes 2; each word of a sample of messages damaged; the acceptor with sequences of up to 3 messages of a broker behind the greeting; fair reader (135,033 states) | messages keep their order, bytes and descriptors; decoding inverts encoding for every kind but `BypassPeer`; no damage leads the decoder out of the payload or hands out a descriptor twice; the end of the stream is judged rightly; a frame sent whole is decoded; the acceptor answers its broker's message once it is complete, in one piece or in halves, and on the link named last, but for two losses |
| `wire_values` | every type constructor, all structs of 2 or 3 fields of 8 types, 400 pairs of schemas that differ by a version, in both directions; 8 messages with each byte damaged, each pointer redirected and each cut, in both kinds of build (19,518 states) | a value arrives exactly if `Carried` holds of it, across versions too; a cut message is never accepted; accepted objects share no byte; the validator panics in two named cases at most |

Runs that TLC refutes, each a disagreement of the code with a sentence of its documentation or a
test (the quotations are in `PROJECT.json`, "findings"):

| run | what happens |
|---|---|
| `trap_use_after_cancel` | an event follows the CANCELLED event of its trigger |
| `side_marks` | a router that has side B of its link marks side A stable when its portal moves, while the router of side A still decays its old link |

Observations that the models show and that no run is spent on (most are hazards in `PROJECT.json`):
`pop_block` may read the header of a block that was allocated meanwhile, find nonsense and return
`None` though the list was never empty; `on_closed` runs at the first close of a handle though a
duplicate of it is still live; a callback collected before `cancel_watch` may be made after it
returned; a late callback of an old watch, whose endpoint was closed, cancels a new trigger that has
the same context (without its second alternative `CancelledOnce` fails); `create_pair` accepts a capacity that is no multiple of the element size, and a
partial write may then end within an element; an endpoint closed inside `add_trigger` leaves a
trigger that never hears of it (`CloseReachesSettled` without `settled`);
clones of a `Waiter` in two threads take each other's wakeups (set `Object` so that two waits share
one); a parcel on its way to a portal that has closed is an error of the node that reads it; with
three moves the wrong stability mark of `side_marks` leads to a `StopProxying` in the wrong state; a
proxy that has passed on a closure is never removed; the node leaves the fragment of a parcel it has
read allocated, which nobody else frees; a bypass that it ignores leaves its reference behind.

And four that contradict a comment or lose something, to be seen in the module named; each is
stated as an exception by the properties it would break:

- `encode` keeps 12 bits of a slot's generation and `get` compares all 32: from the 4096th reuse of a
  slot on, a new handle does not resolve (in `HandleTable`: a live handle whose generation is at least
  `GenMod`). Such slots are never vacated, so the properties of the table hold all the same.
- `on_provide_memory` shares a buffer before `register_block_buffer` initialises it, and the peer runs
  meanwhile: a block that it took in between is put back on the list and used twice. A comment
  (`link_memory.rs:230`) says that the sender initialises first. `StatesCounted`, `PayloadIntact` and
  `OnlyOvertakingFails` except such buffers (`early`); without that, TLC finds the first two violated.
- `AddBlockBuffer` is entered into the memory of the broker link (`routing.rs:2386`) whichever link it
  came over, while parcels wait by link and each link numbers its buffers from 1. So a parcel may wait
  for ever, two links may name a buffer alike, which is refused as a duplicate, and a descriptor may be
  resolved in a buffer of another link. All four properties of `link_memory` except names of which this
  has happened (`Misfiled`), on the two links concerned.
- Closure and disconnection drop a link without releasing its state (`routing.rs:4294`, `4476`;
  `WORKLOG.md:1021` says that closure decrements), so the block is never freed. `StatesCounted` counts
  these references (`lost`) among those that keep a state: it says that no block goes back too early or
  twice, not that each goes back.

What the two formats do not carry, found as the exceptions that `MessagesRoundTrip` and
`ValuesRoundTrip` need to be equivalences:

- `encode_bypass_peer` writes the target's sublink at offset 32, `decode_message` reads it at 24,
  which is the second half of the target's name. Encoders and decoders of all other kinds agree.
- A frame with more than 32 descriptors cannot be received; the sending side does not know the limit.
- A nullable boolean that is present loses its value: only the flag is written.
- A struct field that is not nullable is written in place, header and all, but the layout gives it 8
  bytes: it overwrites what follows, unless it is empty or the last thing in its message. The same
  goes for such a member of a union.
- A struct value of an older version than the sender's schema is not encoded with that version's
  size; a negative enum arrives as a large positive number; a string with a NUL is refused; null in an
  inlined union or in an array whose elements are not nullable is not carried.
- Values nested deeper than the decoder's 32 levels are encoded (up to 64) and then refused.
- `MessageHeader::parse` reads the fields of a header of version 1 or more before it knows the
  message to be long enough, and panics on one that ends within its header; and the sums `target + 8` and
  `target + 24` of `value.rs` (981, 1205, 1276, 1322, 1429) overflow for a pointer to the last bytes of
  the address space, which is a panic in builds with overflow checks. `lib.rs:8` promises checked
  arithmetic and no panics. `ValueDamageContained` allows a panic in these two cases and requires it in
  none; without either exception TLC finds it violated.

And what the acceptor does not do, of which `BootstrapAnswered` excepts the first two (`MayBeLost`):
it does not require the losses, so that it would hold of an acceptor that kept its comments' word. A parcel that comes on the
sublink of a bypass is queued as early and stays there, because the router stays under its old
sublink (a comment says "deliver when the sublink is adopted"); an objects half that comes before
its data half is overwritten by it (a comment says "keep them for the pending data half"); a split
parcel whose data lie in a fragment is delivered without them, and refused.

### Bounds and why they are enough

Two actors meet at every shared object (two processes at a link, two threads at a mutex), and every
hazard listed needs two. Two watches, triggers or slots are the fewest at which one can be mistaken
for another; three blocks give a list whose first and second block can be swapped under a stalled
call; two messages can be misordered. Capacity 6 with 12 bytes lets elements wrap around the end
twice. The handle table uses 3 generations so that they run out. Two moves of a route are one portal
that moves on while its first proxy is bypassed, or both portals on the move at once; two parcels
are two on different links in one direction, or one in each. `MaxMessages`, `MaxObjects`,
`MaxIssued`, `MaxBytes`, `MaxParcels`, `MaxMoves`, `MaxDeferred`, `Watches` and `Contexts` bound
what is ever done, and a link ends when it is given up; runs with such an end do not check deadlock
(`block_pool` does: its users can always go on). Symmetry is used only in runs without liveness.

In `link_memory` there are two links, the broker's and another, which is what it takes for a buffer to
come to the wrong table and for two names to meet. Primary regions have one usable block, so that pools run
dry at once and a block that was freed is the next one taken; an added buffer has two. One buffer is added
on each link, by the peer, or by the node on the broker's link (`Requesters`): between them the counters of the
two links give the same name. One parcel in all and one link state at a time on a link bring a parcel and
the states of either link into the same blocks one after the other. `MaxInFlight` is 1: a second message waits until the first
one is read, but for those that a handler sends and those about memory, and each side of a link has a channel of its own. Data sizes are 40
and 100 bytes, for blocks of 64 and of 128. Fresh memory is zero, and each block of a zeroed region points
to its successor.

In `message_stream` the limit `MaxFdsPerRecv` is 2 instead of 32, with messages below, at and above
it. `PieceEnds` cuts a frame within the channel header, right behind it, within the payload and one
word short of the end: each side of every comparison in `recv_available` and `try_assemble`. The
broker of the acceptor sends 3 messages out of those that move the route, in every order, and 2 out
of all kinds; `MAX_INITIAL_PORTALS` is 3 instead of 12, which is the bootstrap pipe between an
internal and a surplus portal. Faults are not combined: a damaged frame is sent whole. A damaged
word takes the values of `DamagedWords`, its own value plus or minus 8, and in the channel header
one beyond the size limit, so that every bound of the decoder is met from both sides. In
`wire_values` the depths are 6 and 3 instead of 64 and 32; a damaged byte becomes 0, 1, 8 or 255,
each at every place; three fields are the fewest for which a gap is left by the first two and filled
by the third, and twelve booleans cross a byte. Each aligned word of eight bytes is made a pointer to
each of `DamagedTargets`, which lie before the message, in it, and at the end of the address space on both sides
of the sums that overflow.

### Fairness

- Link state: nodes run their handlers to completion and read their messages in order; a weak
  exchange neither fails spuriously nor loses against the peer forever (`LeavesLoop`, strong);
  decays finish. Nothing makes a side flush, close or serialize.
- Blocks: a thread inside a call keeps running; an exchange that can succeed again and again does.
- Trap and waiter: a thread inside a call goes on with it. Nobody has to use the pipe; deadlines and
  spurious wakeups need not happen.
- Link memory: the node finishes `on_provide_memory`, both sides read what arrives, and a peer that
  has added a buffer announces it (all weak). Nobody has to send, release or ask.
- Message stream: the reader is in its receive loop and goes on with what is there to read, to decode
  or to answer (weak). Nothing obliges the writer to send, and the timeout of `recv` may come whenever
  there is nothing to read.

`ClosureCompletes` excuses two cases, in which the code promises nothing: a side whose link was
unlocked because the other link of the bridge could not be locked (a lock refused meanwhile leaves
no waiting bit, and `unlock_link_state` wakes nobody), and a bypass deferred for want of a free
block, which keeps its lock. The code documents no retry for either; both are listed as hazards.

### At rest instead of eventually

What must have happened to a route in the end is stated as invariants of the states in which the
nodes have nothing left to do (`AtRest`): no message, buffer or introduction is outstanding. Every
handler runs to its end, each message is read once and leads to finitely many others, and the bounds
end the calls of the portals, so every run of the model that keeps reading gets there: the
invariants say what fairness of the nodes would give. `ParcelsArrive`, `ProxiesGo` and
`ClosureArrives` name the cases in which the code gives up: an introduction that was refused, no
block for the new link state, a lock refused when the portal moved (it is not tried again, and a
closure does not pass the proxy), and a side that waits on the initial link, whose late mark wakes
nobody. A portal whose parcels are kept for the move it is about to make is not at rest.

## Proofs

All theorems hold for every value of the constants, under the named assumptions of the modules.
Those say that bounds are numbers, that an element fits into its data pipe, that a
message to send has the fields of its struct, each of its width, and no more objects than a `u16` counts,
that `NoThread`, `NoObject` and `NoContext` are no threads, objects or contexts, and nothing that
narrows the code. One theorem has a hypothesis more, which is part of its statement and named
below (`OwnWaiters`).

- **RouterLinkStateProofs**: `TypeCorrect`, `LockIsExclusive`, `LockReleased`, `BypassIsAuthorised`,
  `SleepersAreWoken`. The lock bits alone are
  not inductive: an exchange writes `expected` with one bit changed, so the invariant `IInv` adds
  `Ownership`: a side past its lock attempt owns the lock, and the `expected` of a side in a lock
  loop has no lock bit. While a bypass is on its way, its sender has given the link up and its
  lock is kept, so nobody can write a source any more. For the wakeups, the invariant `WakeInv`
  goes with the loops of a flush: a side that sleeps has its waiting bit set until the message that
  wakes it is sent, and if the link is stable, then the flush that made it so has yet to reach its tail,
  or a message is on its way, or the sleeper is itself about to look again, or the other side keeps
  the lock for good.
- **HandleTableProofs**: `ValuesDoNotAlias`, `ClosedStaysClosed`, `SlotsAccounted`. The invariant
  relates generations to issued handles: a slot's counter is at least every generation issued for
  it, equal values are equal handles unless the generation has run out, and a slot whose generation
  cannot be expressed is never vacated, hence never reused: the counter stops at `GenMod` and
  never wraps.
- **DataPipeProofs**: `ViewsStayInStep`, `StreamStaysIntact`, `SignalsAreTruthful`, `ChangesAreHeard`.
  The inductive
  invariant is `TypeOK`, `ViewsAgree` and `StreamIntact` together; lemmas reduce the modulo
  arithmetic of wrapped offsets to one subtraction, show where the unread bytes lie after an extend,
  a discard or a two-chunk write, and then go through the actions. The signals need one fact more:
  the new-data latch is set only while more is unread than an open reader's span. That changes are
  heard is an action property: a step that makes a watch fire brings news to its endpoint (a byte
  more, room, the new-data latch, a closed peer: `News`), and each call that does so goes through the
  watchers of that endpoint.
- **BlockAllocatorProofs**: `ListStaysIntact`, `RefinesPool`. The invariant names the list, as a
  function from places to blocks that the `next` fields follow through exactly the blocks that nobody
  holds. A call that is about to exchange knows of the list only what it read some time ago; the
  invariant says that `version` is the one it read plus the number of exchanges since (`age`), and
  that what it read is still true while `age` is 0. As `age` stays below `VersionMod`, equal versions
  mean `age` 0: this is where the bound on overtaking is needed, and without it the code is wrong.
  An exchange that succeeds is then the allocation or the free of `BlockPool`, any other step
  changes nothing there. `FreeListIntact` walks the list; that the walk ends is the pigeonhole
  principle, and that it is the list, an induction by way of a least counterexample.
- **MessagePipeProofs**, of pipes, waits and traps. First come the lemmas that waits and traps need: what
  `Keep` and the callbacks that a call collects contain, which endpoints a step can make fire, and that
  no registration appears from nowhere.
  Waits: `WatchesAreCancelled`, `WakeupsAreNotLost`. A registration of a
  wait exists only between `start_watch` and the return; when the condition holds and the wait is
  registered, `woken` is set or a callback will set it, or a notification is still to come. The second
  theorem has the hypothesis `OwnWaiters`, that no two waits share a `Waiter`: whoever leaves the
  condition variable clears `woken` for all (see the observations). The first has none.
  Traps: `EventsAreNotLost`, `ClosureReachesTriggers`, `CancelledOnlyWhenDue`. The heart of the invariant is that the CANCELLED event of a
  watch is in one place only: with its trigger, which is being added, in the list or taken out of it,
  among the events to deliver, or delivered (`OnePlace`). With it go: every armed trigger that `arm`
  has passed and that fires is still registered and has a callback on its way; a trigger of a
  closed endpoint has its Cancelled callback on its way. Contexts are used again: of the watches that
  have one context, all but one have had their CANCELLED event (`ContextsApart`), so a trigger that
  `on_watch` takes away is that of the callback, or the callback's own trigger was cancelled before.
- **MessageStreamProofs**: `DescriptorsStay`, `CleanClose`, `DamageContained`. That messages keep their
  descriptors is about places in a stream that no variable holds: the words of all frames one after the
  other. The invariant `StreamInv` lays it out with `start`, the place where each frame begins (a
  function that exists in every state, as frames never change), and says that the socket is the stretch
  between what was received and what was sent (`SocketInv`), the buffer a beginning of one frame and never
  of two (`BufferInv`, where READ-SIZING comes in), that descriptors are in flight at the starts of
  exactly those frames that have some and are not yet read (`RightsInv`), and that descriptors that were
  read are those of the frame in the buffer, as far as the control buffer took them (`MarksInv`); what
  was received is then the frames, one by one (`ReceivedInv`). It needs of a frame only that it is as
  long as its header says: `EncodeType` goes through the encoder of every kind and finds words, of a
  header at least. `CleanClose` adds that the writer is closed when the reader takes the stream for ended
  (`EndInv`). `DamageContained` needs no more of a payload than that it is words and no more of the
  receiver than that each decoding is one of a message received: the lemmas `FieldsWithin`, `ArrayWithin`
  and `ParcelWithin` follow the bounds checks of `decode_message`, and `SharedOut` those of
  `read_driver_objects`, an induction along the objects. It holds of any word, those that are less
  than 0 among them, which stand for a word of all ones.
- **ProxyBypassProofs**: `RouteKept`, that `ProxyBypass` implements `Route`, however often portals
  move. The invariant `Inv(place)` is about where the portals are (`place`, of which some exists in every state,
  `IInv`). Each link leads one way only: a central link, or the link a router has to the proxy it replaced, to
  the other end (`OutLink`), the link of a proxy to the next router inwards (`Inner`). So the parcels
  in a message, in a queue or kept for later are of the stream that its link leads from, and a parcel of a
  stream has its number and its place in common (`Valid`): however parcels overtake each other on
  the old and the new link, sequencing puts them in order. What a portal has been given is as many as the
  inbound queue has passed; a portal with a link has no parcel queued outward, and has counted those it sent,
  which is what its descriptor says when it leaves (`RouterOk`, `DescriptorOk`); one descriptor at most
  is on its way to a router, and that router is not there yet (`Once`). A router that waits for an
  introduction still has the link to its proxy, or it would answer with a link to nowhere (`Waits`): the only thing
  that could take the link from it is a closure, and the proxy, which has left its inward link, sends none
  (`Quiet`). A step of a node is an effect on its router, its messages and its portal (`EffectOk`), and the
  lemmas go along the handlers: what a flush does to an effect that is in order (`FlushOk`), what each
  handler has changed before it flushes, and what committing the effect does to everybody else (`TurnKeeps`).
  Recursive functions over queues and channels are treated by a least counterexample. Errors and
  refused introductions are steps like others: they may end a route, never garble it.

Type correctness (`TypeOK`, `TypeInv` of the message stream) is part of each of the inductive invariants, and so proved; TLC
need not repeat it.

Only model-checked: the properties of `LinkMemory`; the invariants of `ProxyBypass`, of which those about closures and bypasses need more
than the one above and those at rest are liveness in disguise; of the message stream, that messages are
decoded as they were encoded (`MessagesRoundTrip`; that a sublink read from the middle of a name is
*wrong* is not true of every name) and what the acceptor does (`BootstrapAnswered`); the wire
format, whose recursive operators are beyond the proof system; and all liveness (fairness and
ENABLED are too): `ClosureCompletes`, `LockFree`, `WaitReturns`, `SentIsDecoded`,
and `ParcelsArrive` of the link memory.

## Not modelled, and why

In link memory: a broker that refuses memory, sublink ids, and the two capacity queries that have no
caller. Poisoned mutexes (a panic inside a critical section) and the error returns they cause; parameter
checks that return before any state is read; the contents of messages and the handles they carry;
the transfer of data pipe endpoints (`serialize`, `deserialize`); two routers of a route on one node
(the bypass to a local target is an error in the code, `BypassPeerWithNewLocalLink`), loss of a node
(nothing in this code sends `RouteDisconnected`, though it answers one); the scripted scenarios of
`routing.rs` that replay a recorded session; the errors of the decoders as they differ from each
other; text that is not UTF-8; the parts listed as left in the plan above. The platform crate, the
typed API, casefiles and harness binaries wrap system calls, forward calls or compare recorded
files.
