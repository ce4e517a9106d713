# A TLA+ model of xdp-rs

xdp-rs is a Rust library for AF_XDP sockets (`xdp-socket`), with helpers for
routing, netlink, packet headers and XDP programs (`xdp-util`) and test programs
(`xdp-tests`). This directory holds TLA+ modules that model them, the TLC
configurations that check them on small instances, and proofs checked by TLAPS.
`PROJECT.json` lists the components, the runs, the theorems, the source lines
behind each definition, the hazards and the findings.

## 1. The system

### Inventory

| Component | State | Operations | Talks to |
|---|---|---|---|
| Ring (`ring.rs`) | shared `producer`, `consumer`, `flags` (free-running `u32`), descriptor array, `mod_mask` | load/store of an index, `desc_at`, `mut_desc_at`, `fill`, `mut_bytes_at` | memory shared with the kernel |
| TX socket (`socket.rs`, `seek.rs`, `peek.rs`, `commit.rs`, `kick.rs`, `poll.rs`, `send.rs`) | `available`, cached `producer` of the TX ring, cached `consumer` of the Completion ring | `seek`, `seek_n`, `peek`, `peek_at`, `seek_and_peek`, `commit`, `commit_n`, `commit_and_kick`, `kick`, `poll_wait`, `send`, `send_blocking` | kernel, through TX ring, Completion ring, `sendto`, `poll` |
| RX socket (same files) | `available`, cached `producer` of the Fill ring, cached `consumer` of the RX ring | the same without `send` | kernel, through RX ring, Fill ring, `poll` |
| Creation and release (`create.rs`, `mmap.rs`, `Inner` in `socket.rs`) | descriptor, UMEM, ring mappings, `Arc<Inner>` | `create_socket` and its three wrappers, drops | kernel system calls; gives the sockets their rings |
| Router (`router.rs`) | cached routes (prefix map) and neighbours | `refresh`, `route` | netlink |
| Netlink dumps (`netlink.rs`) | none between calls | `get_neighbors`, `get_ipv4_routes`, `get_ipv4_address`, `get_links`, `find_default_gateway` | kernel |
| Packet headers (`packet.rs`) | none | `write_udp_header_for`, `HdrWrite` | - |
| XDP program (`xdp_prog.rs`) | libbpf object and link | `xdp_attach_program`, drop | libbpf |
| MAC lookup (`mac_by_ifindex.rs`) | none between calls | two ioctls | kernel |
| Test harness (`xdp-tests`: `command.rs`, `vethpair.rs`, `runner.rs`) | a veth pair that outlives the process, capabilities, an environment variable | `setup` with restart, `check_pair`, `setup_pair`, `teardown_pair`, `run_test_with_pair` | `sudo ip`, `setcap`, `execvp`, netlink |
| Ping-pong test (`pingpong_test.rs`, `udp_pingpong.rs`, `xdp_pinger.rs`) | the attached program, two blocking tasks | attach, spawn, await | harness, XDP program, packet headers, router, TX socket |

An application thread owns a socket (`&mut self`); the concurrency is between
that thread and the kernel, which moves the other index of every ring, and
between the TX and RX halves of a pair, which share the descriptor and the UMEM.
The kernel also changes its tables under the router, and the test harness meets
what an earlier, failed launch of the program has left.

### What is hard

* A frame of the UMEM is always somewhere: behind an available descriptor, queued
  for the kernel, in flight, or in the Completion ring. Four counters that wrap
  and two descriptor arrays encode that, and no single call sees them all. What the
  kernel sees of them may lag behind what the application has stored.
* `seek_` loops over completions with a producer index it has read before.
* `commit_` publishes, `kick` looks at a flag, and the kernel goes to sleep in
  between.
* `poll_wait` has no way out but its event, also when poll fails or the interface
  is gone.
* `create_socket` can fail at any of about a dozen system calls; the two sockets
  may be dropped on two threads.
* A refresh of the router is two dumps, each of which can fail, be refused, or be
  longer than the one datagram the code receives; the MAC lookup is two ioctls,
  the second by a name.
* A launch of the test may fail at each of a dozen commands and calls, and the
  next one finds a pair it takes for complete; two tasks on other threads
  depend on a program that a local variable keeps attached.

### What makes each component correct

* TX: one owner per frame; a buffer lent to the application is not the
  kernel's; committed descriptors are not touched; calls return; what was kicked
  is sent; frames come back.
* RX: a descriptor is not overwritten before it has been read; the socket does
  not count what has not been received; a frame is either with the kernel or
  holds a packet; the two directions keep to their halves.
* Creation: nothing leaks on failure, nothing is released early or twice.
* Router and netlink: a refresh reflects the kernel's tables or leaves the caches
  alone; the next hop belongs to the longest matching prefix.
* Test harness and programs: the pass program is attached while the pinger sends,
  whatever fails or panics nothing is left running, and a served test ends.

## 2. Modules

| Module | Models | State and actions |
|---|---|---|
| `Ring` | `ring.rs` | operators only: `WrappingAdd`, `WrappingSub`, `Slot` (index & mod_mask), `FillDesc`, `FillAddr`, `MutBytesAsserts`; the UMEM address of a descriptor is abstracted to its frame number |
| `TxSocket` | `Socket<_TX>` and the kernel's transmit side | one action per call; `pc` links the steps of calls that touch shared memory more than once: `SeekEntry` / `Reclaim` (a turn of the loop), `KickTest` / `SendToWakes` / `SendToFails`, `PollReturns` / `PollAgain`. The kernel: `KernelTakes`, `KernelCompletes`, `KernelSleeps`, `KernelPolled`, `InterfaceGone`; the memory: `StoreDrains` |
| `RxSocket` | `Socket<_RX>` and the kernel's receive side | the same; `commit_` is two steps, one per store: `CommitCall`, `PublishFill` |
| `FramePool` | - | the abstract specification of a sender's frames: `free`, `queue`, `sending`, `done`; actions `PoolCommit`, `PoolTake`, `PoolComplete`, `PoolReclaim` |
| `TxFramePool` | - | the refinement mapping from `TxSocket` to `FramePool` |
| `CreateSocket` | `create_socket`, `OwnedMmap::mmap`, drops | one action per system call with its failure, `Unwind` for dropped locals, `DropSocket` / `Release` for the fields of a socket |
| `Netlink` | `netlink.rs` | operators only: what one receive sees of a table (`Received`), the closures (`RouteOf`, `NeighborOf`, `AddressOf`), the dump functions, `find_default_gateway` as a fold |
| `Router` | `router.rs`, `mac_by_ifindex.rs`, the look-up in `try_netlink.rs` | `RefreshRoutes` / `RefreshNeighbors` / `RefreshFails`, `RouteTo`, `DefaultGateway`, `IoctlName` / `IoctlHwAddr` / `IoctlFails`, and `KernelChanges` |
| `Harness` | `command.rs`, `vethpair.rs`, `runner.rs` | one action per command or decision of a launch |
| `XdpProg` | `xdp_prog.rs` | one action per call of libbpf, its failure, the drop |
| `HdrWrite` | `packet.rs` | `Write(n)` of a writer that keeps the first `HdrLen` bytes |
| `PingPong` | `pingpong_test.rs`, `udp_pingpong.rs`, `xdp_pinger.rs` | composes `Harness`, `XdpProg` and `HdrWrite`: the main thread, the ponger and the pinger; `TestEnds` after both joins, `JoinFails` when a task has panicked, `Shutdown` for the end of main |
| `MCTxSocket`, `MCRxSocket`, `MCCreateSocket`, `MCRouter`, `MCPingPong` | - | the modules TLC runs, with the tables of the router's instance and the statements of the documentation that the violation runs refute |
| `SequenceFacts`, `RingProofs` | - | lemmas about sequences, induction and wrapping indices |
| `TxSocketProofs`, `TxFramePoolProofs`, `RxSocketProofs`, `CreateSocketProofs`, `RouterProofs`, `PingPongProofs` | - | the theorems about each component, with its inductive invariant |

`RingLen`, `IndexMod`, `FrameCount` and `FrameSize` are constants, so that the
theorems hold for the code's 4096, 2^32, 4096 and 2048 (or 2048 for `RingLen` in a
pair). A `u32` index is a number below `IndexMod`; `RingAssumption` says that the
ring length divides it, which is what the assertion `is_power_of_two` is for.

**TxSocket.** `owed` and `lent` have no counterpart in the code: `owed` says that
something was committed since `kick` last found or made the kernel running, `lent`
is the frame whose `&mut [u8]` the application still holds. `len`, `seen` and
`count` are locals of the calls. Header and payload of `send` are a length.
`PeekWrites` stores the length before `mut_bytes_at` checks it, as the code does,
so that a panic leaves it stored.

**The kernel** is external code: it takes a descriptor only when its completion
will find room, completes in any order, raises `NEED_WAKEUP` when it finds the ring
empty and clears it when it is woken up by `sendto` or `poll`. `sendto` may fail;
an error of `poll`, or an event outside its mask, sends `poll_wait` round its loop
again (`PollAgain`). With `InterfaceMayGo` the interface can be removed at any time;
from then on (`gone`) the kernel leaves the rings alone, and `poll` reports no
`POLLOUT`.

**The memory.** The application stores two shared indices, the TX ring's producer
(`commit_`) and the Completion ring's consumer (`seek_`), both with `Release`.
`StoreBuffer` is how many of these stores may wait while the application's later
loads go ahead; `stores` holds, oldest first, what the kernel will read after each
of them. They reach the kernel one by one, in their order, and a system call waits
for all of them. The memory model allows this for a `Release` store followed by a
load of another location. With `StoreBuffer = 0` every store is visible at once.

**RxSocket.** `Patient` is an assumption about the application: it makes no call
that reaches a descriptor before its packet has been delivered. The code does not
enforce it: `Socket::new` starts `available` at the ring's length although nothing
has been received (`socket.rs:120`), and `seek_` looks at the RX ring only when
that count is too small. So a `commit` on a new receiver, without a `seek` before
it or after one that answered from the count, is accepted; it reads descriptors the
kernel has not written, which are zero, and puts frame 0, which in a pair belongs to
the transmit side, into the Fill ring. `Patient = TRUE` in both receive runs leaves
this out. `synced` is history: has a `seek` ever looked at the RX ring. The kernel asks for a wake-up
of the receive side in the flags of the Fill ring; `kick` looks at those of
the RX ring, so that on the receive side it never calls `sendto`. `KernelPosts`
keeps at most `RingLen` frames posted.

**CreateSocket.** `open` is what the process holds. The rings' numbers of entries
in the kernel (`size`) decide whether a mapping is accepted; `blame` records why
creation failed. The kernel compares page-rounded bytes, here entries: for the
code's 4096 entries of 8 bytes against one entry the outcome is the same.
`need_wakeup` is `TxSocket`'s constant `NeedWakeup`; `zero_copy` only selects a
flag of `bind`.

**FramePool.** A frame is free, queued, being sent or done, in this order and
round again; frames are sent first in, first out, and come back in the order in
which they were done. `TxFramePool` reads the queue off the TX ring between the
kernel's consumer index and the cached producer index, and the done frames off
the Completion ring between the cached consumer index and the kernel's producer
index; free are the frames behind the available descriptors. A commit of a count
is one step of the pool, a turn of `seek_`'s loop another.

**Netlink and Router.** A table of the kernel is the sequence of messages a dump
sends; attributes are fields of a record, `NoAttr` when absent. `DatagramLen` is
how many messages fit one datagram: `Received` is the first datagram, as the code
calls `recv_from_full` once. A dump is one step, since its first datagram is
composed by the kernel in one go; `KernelChanges` can happen between the two dumps
of `refresh` and the two ioctls. `last`, `asked` and `refused` are history: the
tables the last successful refresh has looked at (the routing table is remembered
in `asked` between its two dumps), and whether the kernel answered one of
them with an error message, which the closures skip (`_ => Ok(None)`). `KernelRefuses` allows such answers. Addresses are `AddrBits`
wide; the prefix map is a function on nets, its longest match a `CHOOSE`.

**Harness and PingPong.** `configured` counts the commands of `setup_pair` the pair
has seen, and survives the process. `check_pair` asks for the first end of the
pair only. A missing `ip` binary has the error kind of a missing pair, hence
the unguarded way from `CheckPair` to `setup_pair`; there `ip link add` fails if the
pair exists. Launches end before the next begins. `Host::new` looks for its address
in the dump of all interfaces: `OtherAddrs` is what the machine's other interfaces
may have before the pair's in the dump, the pair's own addresses included, so
that a test can start on a foreign interface. A task returns, with or without an
error, or panics. The results of tasks that return are not looked at; the join of
a panicked one is an error, and the `?` behind it ends the closure: the program is
detached and the pair stays, also while the ponger still listens. The end of main
then waits for the blocking tasks (`Shutdown`). The pinger's socket is represented
by the descriptors it has left, as `send` takes one and never seeks; the details of
`send` are `TxSocket`'s. The veth pair may lose any packet; whether a packet that is
not lost gets through to a host whose end is down, or whose address is another
interface's, is left open, that is, allowed. `HdrWrite` numbers the bytes of the packet, and the builder cuts it
anywhere, which covers whatever the external builder does.

## 3. Runs

All runs of the sockets use `RingLen = 2`, `IndexMod = 4`: the indices wrap after
two rounds of the ring, so that every alignment of index, slot and wrap is met,
and a ring can be empty, half full and full. `FrameSize = 2` with lengths 1, 2, 3
gives the sender a buffer that is shorter than, exactly, and longer than a frame;
received packets have two lengths in `RxSafety`, so that an overwritten descriptor
shows even when it gets the same frame again.
`MaxCommit = 5` (and `Counts` up to 5) exceeds `IndexMod`, so that the cast to
`u32` matters.

| Run | Result | What it shows |
|---|---|---|
| `TxSafety` | holds | `TypeOK`, `FrameOwnership`, `LentIsOurs`, `KernelViews`, `DescriptorsStable`, and that `TxSocket` implements `FramePool` (`ImplementsFramePool`), for an application that seeks one descriptor at a time, with up to two waiting stores |
| `TxProgress` | holds | `ReclaimBounded`, `NoLostWakeup`, `CallsReturn`, `KickedIsSent`, `FramesComeBack`, for an application that seeks up to three descriptors at a time, on an interface that may be removed, without waiting stores |
| `TxBatchSeek` | violated | `seek_n(2)`: `FrameOwnership` |
| `TxRelaxedFlag` | violated | with waiting stores: `NoLostWakeup` |
| `TxBlocking` | violated | `send_blocking` returns before its packet was taken |
| `RxSafety` | holds | `TypeOK`, `SplitKept`, `AvailableReceived`, `UnreadStable` for a patient application |
| `RxOneOwner` | violated | the kernel gets a frame that holds an unread packet, patient application |
| `CreateDrop` | holds | `TypeOK`, `LiveIsBacked`, `ReleasedOnce`, `NothingLeaks` |
| `CreateRx` | violated | a receive-only socket maps more of the Fill ring than it asked the kernel for |
| `RouterCache` | holds | `TypeOK`; `CachesAreSound`: nothing in the caches but what one successful refresh saw; `HopIsKernels`: a single longest match with a known gateway is followed; `GatewayIsBest` |
| `RouterWholeDump` | violated | `CachesAreComplete`: a refresh that returned `Ok` has left out a route that came in the second datagram |
| `PingPong` | holds | `TypeOK`, `PassProgramCovers`, `NothingLeft`, `HeaderSent`, `RemovedLast`, and under fairness `SetupEnds` and `ServedEnds` |

`TxProgress` asks `seek_n` for up to three descriptors, one more than the ring
has, so that the reclaim loop takes a second turn, ends because it has enough or
because it has met the producer index it had read, and meets completions that have
arrived since. `FrameOwnership` and what depends on it do not hold for such an
application (`TxBatchSeek`) and are the business of `TxSafety`. Two waiting stores
in `TxSafety` can be of either ring, in either order.

`RouterCache` has addresses of two bits, so that nets of length 0, 1 and 2 nest,
two interfaces, and five routing tables: empty; a default route beside a longer
prefix; two default routes of two interfaces with a connected subnet; two equal
default routes; and four routes where a datagram holds three, the multipath one
(no output interface) among them. The neighbour tables hold a resolved, an
unresolved and an ill-sized entry, and one of the other interface; the link
tables exchange the two names, or lose the interface. Every table can follow every
other at any time.

`PingPong` launches the program three times, so that a launch can meet what a failed
one has left and be followed by one that succeeds. `HdrLen = 3` and `DataLen = 2`
give every way to cut a packet, across the end of the header too. Three
descriptors stand for the ring of the pinger: one packet can be lost or
sent before the ponger listens, one arrive, and one be sent after that. The other
interfaces of the machine have no address, a foreign one, host 1's own, or two
foreign ones, with which the dump no longer fits a datagram.

The receive, creation and ping-pong runs do not check for deadlock: a receiver may wait for
a packet for ever, a process ends when its sockets are dropped, and the test
program ends, or hangs on a ponger that nothing reaches. The transmit and router
runs do.

**Fairness** (`TxProgress`). Weak fairness of the steps inside a call: their code
has no wait but `poll`, and a thread that is in a call is scheduled. Weak
fairness of `StoreDrains` and of the kernel's transmit steps: a kernel that has
been woken up works through the ring, and the card finishes what it was given;
there is no fairness on the kernel's going to sleep or on `sendto` succeeding.
A removed interface disables all of the kernel's steps: `CallsReturn` names the
`poll_wait` that then never returns, and the other two promise nothing any more.
`FramesComeBack` assumes in addition, in its own statement (`AppFairness`), an
application that calls `kick` and `seek` again and again and a `sendto` that does
not fail for ever.

`PingPong` assumes weak fairness of the main thread, the ponger and the pinger
outside of their failures and panics: each of their calls returns, except `recv_from`, which is
enabled only when a message has arrived. Nobody has to launch the program. So
`ServedEnds` starts from a message that has arrived; from a ponger that merely
listens the end does not follow, as every PING may be lost.

**Findings.** The code bugs:

1. `seek.rs:65`: a reclaimed frame is written to the slot of the producer index,
   whether descriptors are available there or not (`TxBatchSeek`). In the
   counterexample one of two descriptors is committed, sent and completed, and
   `seek_n(2)` writes its frame over the descriptor that is still available: the
   frame of that one is lost, and the reclaimed frame is behind both.
2. `socket.rs:121` with `create.rs:118`: a receiver's first `commit` takes back the
   Fill ring's producer index (`RxOneOwner`). In the counterexample two frames are
   received, one is committed, and the kernel, whose consumer index has passed the
   published one, takes the frame of the other from the stale entry.
3. `create.rs:85`: the Fill ring has the size of the TX ring (`CreateRx`).

The other violation runs are divergences from the documentation, quoted in
`PROJECT.json`. Seen in the code while modelling and not given a run: `seek`'s
fast path returns its argument, not the total the documentation promises
(`seek.rs:52`); `seek_n` may return `Ok` with fewer descriptors than asked for
(`seek.rs:68`, `socket.rs:148`); a buffer of exactly a frame passes `peek_` and
panics in `mut_bytes_at` (`ring.rs:229`); a count of 2^32 + n commits n
(`commit.rs:55`); `poll_wait` ignores its timeout (`poll.rs:85`); with
`huge_page: None` one free huge page is enough to choose huge pages although the
UMEM takes four (`mmap.rs:65`).

The same of `xdp-util` and `xdp-tests`:

* `netlink.rs:120` receives one datagram; the comment above it promises a loop
  "until all parts of the kernel's response have been read" (`netlink.rs:101`).
  `RouterWholeDump` refutes it: the default route of a table of two datagrams is
  missing after a refresh that returned `Ok`.
* An error reply is taken for an empty table (`netlink.rs:184`, `:236`), so that a
  refused dump empties a cache. `RouterWholeDump` sets `KernelRefuses = FALSE` to keep
  the two causes apart.
* Routes without a gateway are not cached (`router.rs:101`), so that a destination
  on a connected subnet is sent to the gateway of a shorter prefix when there is
  one with a known neighbour; of several routes of one prefix the last one wins,
  which need not be the one of the lowest metric (`router.rs:102`). `HopIsKernels` is
  about the destinations whose longest match is one route with a gateway.
* A neighbour the kernel has not resolved is a next hop with the MAC address
  00:00:00:00:00:00 (`netlink.rs:161`).
* `mac_by_ifindex` can return another interface's address when a name changes hands
  between its two ioctls: `IoctlName`, `KernelChanges`, `IoctlHwAddr` in the model.
* The ping-pong test does not look at the results of its tasks: it passes when
  both have failed, and it hangs when no PING arrives (`pingpong_test.rs:79`). The
  pinger ends only because it never seeks and so runs out of frames. If the pinger
  panics, the program is detached under a ponger that listens for ever.
* A launch that failed inside `setup_pair` makes later ones panic on a missing
  address, or, when only the last commands are missing, run on an end that is
  down; if another interface has the missing address, the test runs on that one.
* A new receiver calls a ring's length of descriptors available (`socket.rs:120`);
  see `Patient` above.

## 4. Proofs

`RingProofs` has the arithmetic of wrapping indices: `SubAddLeft` and `SubAddRight`
(a difference of indices moves by one with either of them, across a wrap),
`SlotPeriod` and `SlotInjective` (a wrap does not change the slot, and fewer than
`RingLen + 1` consecutive indices have distinct slots).

`TxSocketProofs` proves, for every value of the constants that `RingAssumption` and
`TxAssumption` allow:

* `TxTypeCorrect`: `Spec => []TypeOK`.
* `TxReclaimBounded` and `TxKernelViews`: for every application, whatever counts it
  passes to `seek_n`, and for every number of waiting stores.
* `TxFrameOwnership`, `TxLentIsOurs`, `TxDescriptorsStable`, from `MaxSeek <= 1`,
  for every number of waiting stores. The assumption is the one the code needs:
  `TxBatchSeek` refutes `FrameOwnership` for `MaxSeek = 2`.
* `TxNoLostWakeup`, from `StoreBuffer = 0`; `TxRelaxedFlag` refutes it otherwise.

There are two inductive invariants. `Counts` is about numbers only, and holds for
every application: `TypeOK`, `Accounting` (queued, available, in flight and
completed add up to the ring), `ReclaimBounded`, and `StoresInOrder`, which says of
the views the kernel will have as the waiting stores reach it that each publishes
and claims at least as much as the one before, that the last one is the
application's own, and that the completions the kernel owes fit even in
the oldest. Without the order the kernel could see an index go back; without the
last part its next completion could overwrite one that was not reclaimed.

`Inv` adds to `Counts` what is about frames: `FrameOwnership`, `OneAtATime` and
`LentAvailable`. `FrameOwnership` alone is not inductive: a turn of `seek_`'s loop
writes the slot of the producer index, which is the slot behind the window of
queued and available descriptors only if nothing is available (`OneAtATime`) and
there is a completion to reclaim (`ReclaimBounded`). The proof has one lemma per
step that moves an index (`CommitMoves`, `ReclaimOwns`, `KernelTakesOwns`,
`KernelCompletesOwns`), and one for all the others (`SameWindow`).

`WakeInv` for the wake-up adds to `NoLostWakeup` that no store waits and that the
published producer index is the cached one.

`TxFramePoolProofs` proves `TxImplementsFramePool`: `Spec => FramePool's
specification` under the mapping of `TxFramePool`, from `MaxSeek <= 1`. `PoolStarts`
is the initial state. Under `Inv` each of the four steps that move an index is one
step of the pool (`CommitIsPoolCommit`, `TakeIsPoolTake`, `CompleteIsPoolComplete`,
`ReclaimIsPoolReclaim`) and all the others leave its four places alone
(`PoolStutters`). A commit of n descriptors is the lemma with an argument of its
own: the queue grows by n frames that have been read off slots which may wrap.

`RxSocketProofs` proves `RxTypeCorrect` and `RxUnreadStable` for every application,
`RxSplitKept` and `RxAvailableReceived` for a patient one: what an impatient one
commits early makes the distance of the indices wrap, so that a large number of
"received" packets would mean nothing. `Inv` has, besides the types, that
the kernel reads the socket's own consumer index (`ConsumerPublished`), that a count
refreshed by `seek` is not ahead of that distance (`SeekCounted`), and that a
patient application leaves at most a ring's length behind and keeps to its half of
the frames (`PatientBounded`); without the first the kernel could deliver into a slot
that has not been committed, without the last the distance of the indices would say
nothing about the slots. `RxUnreadStable` needs neither `Patient` nor
`PatientBounded`: the kernel looks for room with the same difference of indices that
says what is unread. `OneOwner` is not a theorem: `RxOneOwner` refutes it.

`CreateSocketProofs` proves `CreateTypeCorrect`, `LiveSocketsBacked`,
`DropsReleaseOnce` and `CreateLeaksNothing`, for every number of frames and huge pages.
The properties speak of the end of a call or of one socket; `Inv` says what is
open at each call of `create_socket` (`Held`), that the reference count is the
number of sockets that have not begun to drop (`Counted`), that what a socket
has still to release is disjoint from what the other has (`DropsOK`), and that what is
open is exactly what somebody owns (`OpenIsOwned`). Equality is needed: one
inclusion gives "nothing leaks", the other "nothing is released early".

`RouterProofs` proves the four invariants of `RouterCache` for every address width,
datagram length, set of tables and every table length: `RouterTypeCorrect`,
`RouterCachesSound`, `RouterHopIsKernels`, `DefaultGatewayIsBest`. It also proves
`RouterCachesComplete`: `CachesAreComplete`, which `RouterWholeDump` refutes in general,
holds if the kernel refuses no dump and none of its tables is longer than a
datagram, so that these are the only ways to lose an entry. The caches are not told
by the tables step by step, so `Inv` says of what replies they are made: `Dumping`
for the local `routes` between the two dumps, `Cached` for the caches, `HopCurrent`
for the answer of `route` until the caches change. What is in a map made from a reply is then a matter of lemmas about the
operators: `ReceivedFrom` (the first datagram), `DumpedRoutes` and
`DumpedNeighbors` (the closures, flattened), `PrefixMapEntries` and
`NeighborMapEntries` (the last entry of a key wins). `RouterHopIsKernels` does not
look into `Covers`: it holds for any way of matching an address with a net.
`DefaultGatewayIsBest` is about the fold: `GatewaySteps` takes it apart,
`GatewayOfDump` goes through the datagram with "best of the first k messages".

`PingPongProofs` proves `PingPongTypeCorrect`, `ProgramCoversPinger`,
`LaunchLeavesNothing`, `HeaderIsWhole` and `PairRemovedLast`, for every number of
launches and of descriptors, for all addresses of other interfaces and for all
lengths of header, payload and datagram. `Inv` has one part per module: `SetupInv` (the
counter of `setup_pair` starts from zero), `MainInv`, `ProgInv` (what
`OwnedXdpProg` holds at each call, and that it lives exactly as long as the
closure), `TaskInv` (the pinger runs only while the closure waits for it, the ponger
also while the end of main does) and `HdrInv` (the buffer is the start of the packet
followed by zeros). The program covers the pinger and not both tasks: the join of a
panicked pinger detaches it while the ponger may be listening.

`SequenceFacts` has what these proofs share. The provers cannot instantiate the
library's induction theorems, which take an operator; `InductionTo` states
induction for the members of a set instead, and follows from the
well-foundedness of `<` on `Nat`. With it `FlattenEntries` shows what
`FlattenSeq` returns (its recursive function exists, and its partial results are
the concatenations), and `RouterProofs` the same for `FoldLeft`.

**Assumptions.** The theorems use the named assumptions of the modules, which TLC
evaluates on each run: the ring length divides the index range and the frames
fit the rings (`RingAssumption`, `TxAssumption`, the receive side's and the
creation's), tables are sequences of messages of their types and `NoAttr`, which
stands for `Option::None`, is none of the values it is compared with
(`NetlinkAssumption`, `RouterAssumption`), lengths and counts are natural numbers.
The other hypotheses are in the theorems themselves: `MaxSeek <= 1`,
`StoreBuffer = 0`, `Patient`, and those of `RouterCachesComplete`.

**Only model-checked.** Liveness under fairness: `CallsReturn`, `KickedIsSent`,
`FramesComeBack`, `SetupEnds`, `ServedEnds`. All other properties of the passing
runs, invariants, action properties and the refinement, are theorems.

## 5. Plan

Done: the modules and runs above; a theorem for every property of a passing run
that is not a liveness property.

The order was: the transmit side first, since its frames and wake-ups are the core of
the library, then its abstract specification, the receive side, creation and
release, the router with netlink, and the test programs.

Left, for the proofs:

1. Facts about `FramePool` by itself, carried over to `TxSocket` by the
   refinement: a frame is in one place, and frames come back in the order in which
   they were done.
2. The part of the receive side that holds although `OneOwner` does not: from which
   commit on, and under which condition on the application, a frame has one owner.
3. Strengthening `RouterHopIsKernels` to several routes of one prefix, where the
   last one of the dump is taken.

## 6. Not modelled

The feature `no_safety_checks`, which leaves the checks to the caller;
`Socket::default()` with null rings; pointer arithmetic and the layout of the
mappings; the kernel dropping invalid descriptors; the parsing of `/proc/meminfo`;
logging. `Ring::set`, `Ring::increment` and `Ring::flags` have no caller.

Of `xdp-util`: `get_links`, whose closure has the shape of the others and whose
only caller prints; `xdp_features`, a query without state; the bytes of netlink
messages and of packet headers, which are external crates'.

Of `xdp-tests`: `run_pinger` on a UDP socket, which has no caller; `ponger.rs`, the
printing tests and the example, which call what is modelled by hand on a live
interface; the build script and the embedded object code.
