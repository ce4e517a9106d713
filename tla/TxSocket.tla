------------------------------ MODULE TxSocket ------------------------------
(***************************************************************************)
(* The transmit half of xdp-socket: a TxSocket used by one application     *)
(* thread (the API takes &mut self) against a kernel that consumes the TX  *)
(* ring and produces the Completion ring concurrently.                     *)
(*                                                                         *)
(* A call of the API is one action when it touches the shared memory at    *)
(* most once, and a chain of actions linked by pc when the kernel can move *)
(* between two of its accesses: the reclaim loop of seek_, the flag test   *)
(* and the sendto of kick, the poll loop of poll_wait.                     *)
(*                                                                         *)
(* The kernel (the actions named Kernel...) is external: it is modelled    *)
(* from how the code uses the rings, the NEED_WAKEUP flag, sendto and poll.*)
(***************************************************************************)
EXTENDS Ring, SequencesExt

CONSTANTS
  Lens,         \* the buffer lengths the application asks for
  MaxSeek,      \* the largest count the application passes to seek_n
  MaxCommit,    \* the largest count the application passes to commit_n
  NeedWakeup,   \* XdpConfig::need_wakeup
  InterfaceMayGo, \* may the interface be removed while the socket is open?
  StoreBuffer   \* how many stores of the application may wait for memory
                \* while its later loads go ahead; 0 if none may

ASSUME TxAssumption ==
  /\ Lens \subseteq Nat
  /\ MaxSeek \in Nat
  /\ MaxCommit \in Nat
  /\ NeedWakeup \in BOOLEAN
  /\ InterfaceMayGo \in BOOLEAN
  /\ StoreBuffer \in Nat

VARIABLES
  \* Fields of Socket<_TX>.
  available,    \* descriptors the application may peek at and commit
  producer,     \* cached producer index of the TX ring
  consumer,     \* cached consumer index of the Completion ring
  \* The TX ring, in memory shared with the kernel.
  tx_desc, tx_producer, tx_consumer,
  tx_wakeup,    \* XDP_RING_NEED_WAKEUP in the ring's flags: the kernel has
                \* stopped processing the ring until it is woken up
  \* The Completion ring, in memory shared with the kernel.
  c_desc, c_producer, c_consumer,
  \* The application thread inside a call.
  pc,           \* where it is: "idle" between two calls
  next,         \* where it goes after seek_ or kick: "idle", "peek" or "poll"
  call,         \* the API call it is in, "none" between two calls
  count,        \* seek_'s argument in its loop
  seen,         \* seek_'s local c_producer
  len,          \* seek_and_peek's argument
  ret,          \* what it returned, "none" before that
  lent,         \* the frame whose bytes the application holds a &mut to
  \* The memory system.
  stores,       \* the stores of the two shared indices that are not visible to
                \* the kernel yet, oldest first: what it will read after each
  \* The kernel.
  inflight,     \* frames taken from the TX ring and not completed yet, in the
                \* order they were taken
  gone,         \* the interface was removed, the socket is bound to nothing
  \* History: was anything committed and the kernel not notified since?
  owed

socket == <<available, producer, consumer>>
txRing == <<tx_desc, tx_producer, tx_consumer>>
cRing  == <<c_desc, c_producer, c_consumer>>
thread == <<pc, next, call, count, seen, len, ret, lent>>
kernel == <<inflight, gone>>
vars   == <<socket, txRing, tx_wakeup, cRing, thread, stores, kernel, owed>>

-----------------------------------------------------------------------------
(* What the rings hold. *)

\* Committed descriptors the kernel has not taken yet, published or not.
Queued == WrappingSub(producer, tx_consumer)

\* The slot of the i-th descriptor from the kernel's consumer index on:
\* first the queued ones, then the available ones.
WindowSlot(i) == Slot(tx_consumer + i)

QueuedFrames ==
  {tx_desc[WindowSlot(i)].frame : i \in 0 .. Queued - 1}

AvailableFrames ==
  {tx_desc[WindowSlot(i)].frame : i \in Queued .. Queued + available - 1}

\* Completions the application has not reclaimed yet.
Completed == WrappingSub(c_producer, consumer)

CompletedFrames ==
  {c_desc[Slot(consumer + i)] : i \in 0 .. Completed - 1}

\* The frames the application must not touch.
KernelFrames == QueuedFrames \cup ToSet(inflight) \cup CompletedFrames

\* What the kernel sees of this: the descriptors it may take, and the slots of
\* the Completion ring it must not write to.
Published == WrappingSub(tx_producer, tx_consumer)
Unclaimed == WrappingSub(c_producer, c_consumer)

-----------------------------------------------------------------------------
(* create_socket and Socket::new for a socket that sends: all frames up to *)
(* RingLen are behind the descriptors of the TX ring, all available.       *)

Init ==
  /\ available = RingLen
  /\ producer = 0
  /\ consumer = 0
  /\ tx_desc = FillDesc(0)
  /\ tx_producer = 0
  /\ tx_consumer = 0
  /\ tx_wakeup = NeedWakeup
  /\ c_desc = [i \in Slots |-> 0]
  /\ c_producer = 0
  /\ c_consumer = 0
  /\ pc = "idle"
  /\ next = "idle"
  /\ call = "none"
  /\ count = 0
  /\ seen = 0
  /\ len = 0
  /\ ret = [res |-> "Ok", n |-> 0]
  /\ lent = {}
  /\ stores = << >>
  /\ inflight = << >>
  /\ gone = FALSE
  /\ owed = FALSE

-----------------------------------------------------------------------------
(* Fragments shared by the calls. *)

Return(res, n) ==
  /\ pc' = "idle"
  /\ next' = "idle"
  /\ call' = "none"
  /\ count' = 0
  /\ seen' = 0
  /\ len' = 0
  /\ ret' = [res |-> res, n |-> n]

\* The call op goes on: at p, and after that at q, with n, s and l to remember.
Continue(op, p, q, n, s, l) ==
  /\ pc' = p
  /\ next' = q
  /\ call' = op
  /\ count' = n
  /\ seen' = s
  /\ len' = l
  /\ ret' = [res |-> "none", n |-> 0]

\* The values of the two indices the application stores.
SharedIndices == [producer : Index, consumer : Index]

\* The shared indices as they will be when every store has become visible.
Stored ==
  IF stores = << >> THEN [producer |-> tx_producer, consumer |-> c_consumer]
                    ELSE Last(stores)

\* A Release store that leaves the shared indices at this.  It becomes visible
\* after the stores before it, at once or later.
Store(indices) ==
  \/ /\ StoreBuffer = 0
     /\ tx_producer' = indices.producer
     /\ c_consumer' = indices.consumer
     /\ UNCHANGED stores
  \/ /\ Len(stores) < StoreBuffer
     /\ stores' = Append(stores, indices)
     /\ UNCHANGED <<tx_producer, c_consumer>>

\* Ring::update_producer of the TX ring, Ring::update_consumer of the
\* Completion ring.
UpdateProducer(p) == Store([producer |-> p, consumer |-> Stored.consumer])
UpdateConsumer(c) == Store([producer |-> Stored.producer, consumer |-> c])

\* A system call: the kernel reads what the application has stored.
AllStored ==
  /\ tx_producer' = Stored.producer
  /\ c_consumer' = Stored.consumer
  /\ stores' = << >>

-----------------------------------------------------------------------------
(* seek_ for _TX (seek.rs). *)

\* From the entry of seek_(n) to its first return or to its loop, which the
\* thread leaves for q, where it needs the length l.  A buffer returned by an
\* earlier peek borrows the socket, so it is dead once a call starts.
SeekEntry(op, n, q, l) ==
  /\ pc = "idle"
  /\ lent' = {}
  /\ UNCHANGED <<socket, txRing, tx_wakeup, cRing, stores, kernel, owed>>
  /\ \/ /\ available >= n
        /\ IF q = "idle" THEN Return("Ok", n) ELSE Continue(op, q, "idle", 0, 0, l)
     \/ /\ available < n
        /\ c_producer = consumer
        /\ Return("RingFull", 0)
     \/ /\ available < n
        /\ c_producer # consumer
        /\ Continue(op, "reclaim", q, n, c_producer, l)

\* Mutant: one slot too far.
ReclaimSlotAfter == Slot(WrappingAdd(producer, 1))

\* The slot the reclaimed frame is written to.
ReclaimSlot == Slot(producer)

\* Mutant: the test is made before the index has moved on.
ReclaimDoneLate == available' >= count \/ seen = consumer

\* Does seek_'s loop end after this turn?
ReclaimDone == available' >= count \/ seen = consumer'

\* Mutants: everything seen is given back with the first turn, or nothing is.
ReclaimStoredSeen == seen
ReclaimStoredNever == Stored.consumer

\* The consumer index that a turn gives back to the kernel.
ReclaimStored == WrappingAdd(consumer, 1)

\* One turn of seek_'s loop.  The completion is read before its slot is given
\* back, and the TX slot is not the kernel's, so the turn is one step.
Reclaim ==
  /\ pc = "reclaim"
  /\ consumer' = WrappingAdd(consumer, 1)
  /\ UpdateConsumer(ReclaimStored)
  /\ tx_desc' = [tx_desc EXCEPT ![ReclaimSlot] =
                   [frame |-> c_desc[Slot(consumer)], len |-> 0]]
  /\ available' = available + 1
  /\ IF ReclaimDone
       THEN IF next = "idle" THEN Return("Ok", available')
                             ELSE Continue(call, next, "idle", 0, 0, len)
       ELSE UNCHANGED <<pc, next, call, count, seen, len, ret>>
  /\ UNCHANGED <<producer, tx_consumer, tx_wakeup, c_desc, c_producer, lent,
                 kernel, owed>>

\* seek and seek_n
Seek(n) == SeekEntry("seek", n, "idle", 0)

-----------------------------------------------------------------------------
(* peek_ for _TX (peek.rs). *)

\* Mutant: indices count from the start of the ring.
PeekSlotFromZero(index) == Slot(index)

\* The slot of the index-th available descriptor.
PeekSlot(index) == Slot(WrappingAdd(producer, index))

\* Mutant: off by one in the index check.
PeekChecksOffByOne(index, l) ==
  IF index > available THEN "InvalidIndex"
  ELSE IF l > FrameSize THEN "InvalidLength" ELSE "Ok"

\* The checks of peek_: what it returns instead of a buffer, or "Ok".
PeekChecks(index, l) ==
  IF index >= available THEN "InvalidIndex"
  ELSE IF l > FrameSize THEN "InvalidLength" ELSE "Ok"

\* How peek_ ends: its checks, then the assertions of mut_bytes_at.
PeekResult(index, l) ==
  IF PeekChecks(index, l) = "Ok"
       /\ ~MutBytesAsserts(PeekSlot(index), tx_desc[PeekSlot(index)], l)
    THEN "Panic"
    ELSE PeekChecks(index, l)

\* What peek_ writes: the descriptor's length, before mut_bytes_at checks it.
PeekWrites(index, l) ==
  tx_desc' = IF PeekChecks(index, l) = "Ok"
               THEN [tx_desc EXCEPT ![PeekSlot(index)].len = l]
               ELSE tx_desc

\* The body of peek_.
PeekBody(index, l) ==
  /\ PeekWrites(index, l)
  /\ Return(PeekResult(index, l), 0)
  /\ lent' = IF PeekResult(index, l) = "Ok"
               THEN {tx_desc[PeekSlot(index)].frame}
               ELSE {}
  /\ UNCHANGED <<socket, tx_producer, tx_consumer, tx_wakeup, cRing, stores,
                 kernel, owed>>

\* peek and peek_at
Peek(index, l) ==
  /\ pc = "idle"
  /\ PeekBody(index, l)

\* seek_and_peek: seek_(1), then peek_(0, l).
SeekAndPeek(l) == SeekEntry("seek_and_peek", 1, "peek", l)

PeekAfterSeek ==
  /\ pc = "peek"
  /\ PeekBody(0, len)

-----------------------------------------------------------------------------
(* commit_ for _TX (commit.rs). *)

\* Mutant: the check compiled out.
CommitNeverRefused(n) == FALSE

\* The check of commit_, on the count cast to u32.
CommitRefused(n) == available < U32(n)

\* The stores of commit_ once its check has passed.
CommitBody(n) ==
  /\ available' = available - U32(n)
  /\ producer' = WrappingAdd(producer, U32(n))
  /\ UpdateProducer(producer')
  /\ owed' = (owed \/ U32(n) > 0)

\* commit, commit_n and, going on with kick, commit_and_kick.
CommitCall(op, n, q) ==
  /\ pc = "idle"
  /\ lent' = {}
  /\ UNCHANGED <<consumer, tx_desc, tx_consumer, tx_wakeup, c_desc, c_producer,
                 kernel>>
  /\ \/ /\ CommitRefused(n)
        /\ Return("NotAvailable", 0)
        /\ UNCHANGED <<available, producer, tx_producer, c_consumer, stores, owed>>
     \/ /\ ~CommitRefused(n)
        /\ CommitBody(n)
        /\ IF q = "idle" THEN Return("Ok", 0) ELSE Continue(op, q, "idle", 0, 0, 0)

Commit(n) == CommitCall("commit", n, "idle")

CommitAndKick(n) == CommitCall("commit_and_kick", n, "kick")

-----------------------------------------------------------------------------
(* send and send_blocking (send.rs): peek, copy the packet into the frame, *)
(* commit one descriptor; send_blocking goes on with poll_wait.            *)

SendCall(op, l, q) ==
  /\ pc = "idle"
  /\ PeekWrites(0, l)
  /\ lent' = {}
  /\ UNCHANGED <<consumer, tx_consumer, tx_wakeup, c_desc, c_producer, kernel>>
  /\ \/ /\ PeekResult(0, l) = "Ok"
        /\ CommitBody(1)
        /\ IF q = "idle" THEN Return("Ok", 0) ELSE Continue(op, "kick", q, 0, 0, 0)
     \/ /\ PeekResult(0, l) # "Ok"
        /\ Return(PeekResult(0, l), 0)
        /\ UNCHANGED <<available, producer, tx_producer, c_consumer, stores, owed>>

Send(l) == SendCall("send", l, "idle")

SendBlocking(l) == SendCall("send_blocking", l, "poll")

-----------------------------------------------------------------------------
(* kick (kick.rs) and poll_wait (poll.rs). *)

\* kick, and poll_wait, which starts with it.
KickCall(op, q) ==
  /\ pc = "idle"
  /\ Continue(op, "kick", q, 0, 0, 0)
  /\ lent' = {}
  /\ UNCHANGED <<socket, txRing, tx_wakeup, cRing, stores, kernel, owed>>

Kick == KickCall("kick", "idle")

PollWait == KickCall("poll_wait", "poll")

\* What follows kick in the call the thread is in.
AfterKick ==
  IF next = "idle" THEN Return("Ok", 0) ELSE Continue(call, next, "idle", 0, 0, 0)

\* Mutant: the test of the flag inverted.
KickTestInverted ==
  /\ pc = "kick"
  /\ \/ /\ ~tx_wakeup
        /\ Continue(call, "sendto", next, 0, 0, 0)
        /\ UNCHANGED owed
     \/ /\ tx_wakeup
        /\ AfterKick
        /\ owed' = FALSE
  /\ UNCHANGED <<socket, txRing, tx_wakeup, cRing, lent, stores,
                 kernel>>

\* kick's load of the ring flags, a relaxed load.  A kernel that has not
\* raised the flag is processing the ring and needs no call.
KickTest ==
  /\ pc = "kick"
  /\ \/ /\ tx_wakeup
        /\ Continue(call, "sendto", next, 0, 0, 0)
        /\ UNCHANGED owed
     \/ /\ ~tx_wakeup
        /\ AfterKick
        /\ owed' = FALSE
  /\ UNCHANGED <<socket, txRing, tx_wakeup, cRing, lent, stores,
                 kernel>>

\* sendto succeeds: the kernel processes the ring.
SendToWakes ==
  /\ pc = "sendto"
  /\ ~gone
  /\ tx_wakeup' = FALSE
  /\ AllStored
  /\ owed' = FALSE
  /\ AfterKick
  /\ UNCHANGED <<socket, tx_desc, tx_consumer, c_desc, c_producer, lent,
                 kernel>>

\* sendto fails: EBUSY, ENOBUFS, EAGAIN and ENETDOWN are reported as success,
\* any other error is returned.
SendToFails ==
  /\ pc = "sendto"
  /\ AllStored
  /\ AfterKick \/ Return("Io", 0)
  /\ UNCHANGED <<socket, tx_desc, tx_consumer, tx_wakeup, c_desc, c_producer,
                 lent, kernel, owed>>

\* POLLOUT: the TX ring has room for another descriptor.
Writable == Published < RingLen

\* Mutant: the loop waits for an event a sending socket never has.
PollReturnsNever ==
  /\ pc = "poll"
  /\ FALSE
  /\ Return("Ok", 0)
  /\ UNCHANGED <<socket, txRing, tx_wakeup, cRing, lent, stores,
                 kernel, owed>>

\* poll_wait's loop ends when poll reports POLLOUT, which it does not do for a
\* socket that has lost its interface.
PollReturns ==
  /\ pc = "poll"
  /\ Writable
  /\ ~gone
  /\ Return("Ok", 0)
  /\ UNCHANGED <<socket, txRing, tx_wakeup, cRing, lent, stores,
                 kernel, owed>>

\* poll fails (EINTR) or reports an event outside the mask (POLLERR, POLLHUP):
\* the loop starts again.
PollAgain ==
  /\ pc = "poll"
  /\ UNCHANGED vars

-----------------------------------------------------------------------------
(* The kernel and the memory system: external. *)

\* The oldest store becomes visible.
StoreDrains ==
  /\ stores # << >>
  /\ tx_producer' = Head(stores).producer
  /\ c_consumer' = Head(stores).consumer
  /\ stores' = Tail(stores)
  /\ UNCHANGED <<socket, tx_desc, tx_consumer, tx_wakeup, c_desc, c_producer,
                 thread, kernel, owed>>

\* A thread in poll also gets the kernel to process the TX ring.
KernelPolled ==
  /\ pc = "poll"
  /\ tx_wakeup
  /\ ~gone
  /\ tx_wakeup' = FALSE
  /\ AllStored
  /\ owed' = FALSE
  /\ UNCHANGED <<socket, tx_desc, tx_consumer, c_desc, c_producer, thread, kernel>>

\* The kernel takes the next published descriptor, having made sure that
\* its completion will find room.
KernelTakes ==
  /\ ~tx_wakeup
  /\ ~gone
  /\ tx_consumer # tx_producer
  /\ Len(inflight) + Unclaimed < RingLen
  /\ inflight' = Append(inflight, tx_desc[Slot(tx_consumer)].frame)
  /\ tx_consumer' = WrappingAdd(tx_consumer, 1)
  /\ UNCHANGED <<socket, tx_desc, tx_producer, tx_wakeup, cRing, thread, stores,
                 gone, owed>>

\* Frames are completed in any order.
KernelCompletes(f) ==
  /\ ~gone
  /\ \E i \in DOMAIN inflight :
       /\ inflight[i] = f
       /\ inflight' = RemoveAt(inflight, i)
  /\ c_desc' = [c_desc EXCEPT ![Slot(c_producer)] = f]
  /\ c_producer' = WrappingAdd(c_producer, 1)
  /\ UNCHANGED <<socket, txRing, tx_wakeup, c_consumer, thread, stores, gone, owed>>

\* A kernel that finds the ring empty stops, and asks to be woken up.
KernelSleeps ==
  /\ NeedWakeup
  /\ ~tx_wakeup
  /\ ~gone
  /\ tx_consumer = tx_producer
  /\ tx_wakeup' = TRUE
  /\ UNCHANGED <<socket, txRing, cRing, thread, stores, kernel, owed>>

\* The interface is removed: the kernel leaves the rings alone for ever.
InterfaceGone ==
  /\ InterfaceMayGo
  /\ ~gone
  /\ gone' = TRUE
  /\ UNCHANGED <<socket, txRing, tx_wakeup, cRing, thread, stores, inflight, owed>>

-----------------------------------------------------------------------------
\* The calls an application can make.
Calls ==
  \/ \E n \in 0 .. MaxSeek : Seek(n)
  \/ \E index \in 0 .. RingLen, l \in Lens : Peek(index, l)
  \/ \E l \in Lens : SeekAndPeek(l)
  \/ \E n \in 0 .. MaxCommit : Commit(n)
  \/ \E n \in 0 .. MaxCommit : CommitAndKick(n)
  \/ \E l \in Lens : Send(l)
  \/ \E l \in Lens : SendBlocking(l)
  \/ Kick
  \/ PollWait

\* The steps of a call that has been started.
CallSteps ==
  \/ Reclaim
  \/ PeekAfterSeek
  \/ KickTest
  \/ SendToWakes
  \/ SendToFails
  \/ PollReturns
  \/ PollAgain

Kernel ==
  \/ StoreDrains
  \/ KernelPolled
  \/ KernelTakes
  \/ \E f \in Frames : KernelCompletes(f)
  \/ KernelSleeps
  \/ InterfaceGone

Next == Calls \/ CallSteps \/ Kernel

Spec == Init /\ [][Next]_vars

(***************************************************************************)
(* Fairness.  A thread inside a call keeps running: the code of a call has *)
(* no wait but poll.  A kernel that has been woken up goes on processing   *)
(* the ring, and the network card finishes the frames it was given.        *)
(***************************************************************************)
Fairness ==
  /\ WF_vars(CallSteps)
  /\ WF_vars(StoreDrains)
  /\ WF_vars(KernelPolled)
  /\ WF_vars(KernelTakes)
  /\ \A f \in Frames : WF_vars(KernelCompletes(f))

FairSpec == Spec /\ Fairness

(***************************************************************************)
(* An application that again and again kicks and seeks, as the examples'   *)
(* send loops do, on a system where sendto does not fail for ever.         *)
(***************************************************************************)
AppFairness ==
  /\ SF_vars(Kick)
  /\ SF_vars(Seek(1))
  /\ SF_vars(SendToWakes)

-----------------------------------------------------------------------------
(* Safety. *)

\* RingError's variants that a TxSocket returns, success, a panic, and "none"
\* while the call is running.
Results ==
  {"none", "Ok", "RingFull", "InvalidIndex", "InvalidLength", "NotAvailable",
   "Io", "Panic"}

\* Every variable has its type: indices are u32 values, a ring's slots hold
\* descriptors of UMEM frames, the thread is at a point of the API's calls.
TypeOK ==
  /\ available \in Nat
  /\ producer \in Index
  /\ consumer \in Index
  /\ tx_desc \in [Slots -> XdpDesc]
  /\ tx_producer \in Index
  /\ tx_consumer \in Index
  /\ tx_wakeup \in BOOLEAN
  /\ c_desc \in [Slots -> Frames]
  /\ c_producer \in Index
  /\ c_consumer \in Index
  /\ pc \in {"idle", "reclaim", "peek", "kick", "sendto", "poll"}
  /\ next \in {"idle", "peek", "poll"}
  /\ call \in {"none", "seek", "seek_and_peek", "commit_and_kick",
               "send_blocking", "kick", "poll_wait"}
  /\ count \in Nat
  /\ seen \in Index
  /\ len \in Nat
  /\ ret \in [res : Results, n : Nat]
  /\ lent \in SUBSET Frames
  /\ stores \in Seq(SharedIndices)
  /\ Len(stores) <= StoreBuffer
  /\ inflight \in Seq(Frames)
  /\ gone \in BOOLEAN
  /\ owed \in BOOLEAN

\* Queued, available, in flight and completed add up to the ring: no call
\* and no wrap of an index loses a descriptor or invents one.
Accounting ==
  Queued + available + Len(inflight) + Completed = RingLen

\* No two descriptors from the kernel's consumer index to the last available
\* one point to the same frame.
WindowDistinct ==
  \A i, j \in 0 .. Queued + available - 1 :
    tx_desc[WindowSlot(i)].frame = tx_desc[WindowSlot(j)].frame => i = j

\* No frame is completed twice without being sent again.
CompletedDistinct ==
  \A i, j \in 0 .. Completed - 1 :
    c_desc[Slot(consumer + i)] = c_desc[Slot(consumer + j)] => i = j

\* No frame is being sent twice.
InflightDistinct == IsInjective(inflight)

\* A frame that is in the TX ring's window, in flight or completed is in one
\* of these places only.
PlacesDisjoint ==
  /\ ToSet(inflight) \cap CompletedFrames = {}
  /\ \A i \in 0 .. Queued + available - 1 :
       tx_desc[WindowSlot(i)].frame \notin ToSet(inflight) \cup CompletedFrames

\* Every frame has exactly one owner.  seek_ moves frames from the Completion
\* ring to the TX ring, commit_ hands them to the kernel: a frame that shows
\* up twice would be overwritten while the kernel sends it, a frame that shows
\* up nowhere would never be used again.
FrameOwnership ==
  /\ Accounting
  /\ WindowDistinct
  /\ CompletedDistinct
  /\ InflightDistinct
  /\ PlacesDisjoint

\* The buffer peek returned, which the application may write to at any time
\* until its next call, is never a frame the kernel still owns.
LentIsOurs == lent \cap KernelFrames = {}

\* A descriptor the application has committed is not changed until the kernel
\* has taken it, and one it may still peek at keeps its frame: seek_ only
\* writes to slots beyond the available ones, peek_ never to committed ones.
DescriptorsStable ==
  [][/\ \A i \in 0 .. Queued - 1 :
          tx_desc'[WindowSlot(i)] = tx_desc[WindowSlot(i)]
     /\ \A i \in Queued .. Queued + available - 1 :
          tx_desc'[WindowSlot(i)].frame = tx_desc[WindowSlot(i)].frame]_vars

\* In the loop of seek_, however many turns it takes, the cached c_producer
\* lies between the application's consumer index and the kernel's producer
\* index, which moves on meanwhile: every turn finds a completion, and the
\* equality that ends the loop is not jumped over.
ReclaimBounded ==
  pc = "reclaim" =>
    /\ WrappingSub(seen, consumer) \in 1 .. Completed
    /\ available < count

\* What the kernel reads from the shared indices, whichever stores have reached
\* it: it never sees a descriptor that was not committed, nor takes the slot of
\* a completion that was not reclaimed for a free one, and the completions it
\* owes fit into the slots it counts as free.  Once the stores have reached it,
\* it sees all of what was committed and reclaimed.
KernelViews ==
  /\ Published <= Queued
  /\ Completed <= Unclaimed
  /\ Len(inflight) + Unclaimed <= RingLen
  /\ stores = << >> => Published = Queued /\ Unclaimed = Completed

\* Once the application has committed and its kick has told it that the
\* kernel is running or has been woken up, the kernel does not sleep on a
\* ring that still holds descriptors.
NoLostWakeup == Queued > 0 /\ ~owed => ~tx_wakeup

-----------------------------------------------------------------------------
(* Liveness. *)

\* Every call returns: the reclaim loop ends, and poll_wait is not left
\* waiting on a ring that the kernel has drained.  Only poll_wait's loop, which
\* ignores errors, does not survive the loss of the interface.
CallsReturn == pc # "idle" ~> pc = "idle" \/ (gone /\ pc = "poll")

\* A frame that was committed, and for which a kick has returned success after
\* reaching the kernel, is sent and completed, whatever the application does
\* from then on; in particular without another kick.
KickedIsSent ==
  \A f \in Frames :
    (f \in QueuedFrames /\ ~owed) ~> (f \in CompletedFrames \/ gone)

\* An application that keeps kicking and seeking does not starve: when it has
\* used up its frames, seek_ gets one back.
FramesComeBack == AppFairness => (available = 0 ~> available > 0 \/ gone)
=============================================================================
