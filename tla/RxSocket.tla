------------------------------ MODULE RxSocket ------------------------------
(***************************************************************************)
(* The receive half of xdp-socket: an RxSocket used by one application     *)
(* thread against a kernel that consumes the Fill ring and produces the RX *)
(* ring concurrently.  The layout follows TxSocket: a call is one action   *)
(* unless the kernel can move between two of its stores or loads.          *)
(*                                                                         *)
(* The kernel (the actions named Kernel...) is external: it is modelled    *)
(* from how the code uses the rings and poll.  It asks for a wake-up of    *)
(* the receive side in the flags of the Fill ring; kick looks at those of  *)
(* the RX ring, so that it never calls sendto here.                        *)
(***************************************************************************)
EXTENDS Ring, Sequences

CONSTANTS
  StartFrame,   \* the first frame of the receive side: tx_ring_size
  Lens,         \* the packet lengths
  Counts,       \* the counts the application passes to seek_n and commit_n
  Patient       \* does the application touch received packets only?

ASSUME RxAssumption ==
  /\ StartFrame \in Nat
  /\ StartFrame + RingLen <= FrameCount
  /\ Lens \subseteq 0 .. FrameSize - 1
  /\ Counts \subseteq Nat
  /\ Patient \in BOOLEAN

VARIABLES
  \* Fields of Socket<_RX>.
  available,    \* descriptors the application may peek at and commit
  producer,     \* cached producer index of the Fill ring
  consumer,     \* cached consumer index of the RX ring
  \* The RX ring and the Fill ring, in memory shared with the kernel.
  rx_desc, rx_producer, rx_consumer,
  f_desc, f_producer, f_consumer,
  \* The application thread.
  pc,           \* "idle" between two calls, or where it is inside one
  call,         \* the API call it is in, or the last one it made
  count,        \* its count argument, 0 if it has none
  ret,          \* what it returned, "none" before that
  lent,         \* the frame whose bytes the application holds a & to
  \* The kernel: frames taken from the Fill ring for packets to come.
  posted,
  \* History: has a seek ever looked at the RX ring?
  synced

socket == <<available, producer, consumer>>
rxRing == <<rx_desc, rx_producer, rx_consumer>>
fRing  == <<f_desc, f_producer, f_consumer>>
vars   == <<socket, rxRing, fRing, pc, call, count, ret, lent, posted, synced>>

-----------------------------------------------------------------------------
(* What the rings hold. *)

\* Packets the kernel has delivered and the application has not committed.
Received == WrappingSub(rx_producer, consumer)

ReceivedSlot(i) == Slot(consumer + i)

\* The frames of the receive side.
RxFrames == StartFrame .. StartFrame + RingLen - 1

-----------------------------------------------------------------------------
(* create_socket and Socket::new for a socket that receives: the Fill ring *)
(* is filled and published, and the socket starts with all descriptors of  *)
(* the RX ring available and both of its indices at 0.                     *)

\* Mutant: the Fill ring is filled from the first frame of the UMEM.
FillFromZero == FillAddr(0)

\* The addresses create_socket puts into the Fill ring.
InitialFill == FillAddr(StartFrame)

Init ==
  /\ available = RingLen
  /\ producer = 0
  /\ consumer = 0
  /\ rx_desc = [i \in Slots |-> [frame |-> 0, len |-> 0]]
  /\ rx_producer = 0
  /\ rx_consumer = 0
  /\ f_desc = InitialFill
  /\ f_producer = U32(RingLen)
  /\ f_consumer = 0
  /\ pc = "idle"
  /\ call = "new"
  /\ count = 0
  /\ ret = [res |-> "Ok", n |-> 0]
  /\ lent = {}
  /\ posted = <<>>
  /\ synced = FALSE

-----------------------------------------------------------------------------
(* Fragments shared by the calls. *)

Enter(op, n) ==
  /\ pc = "idle"
  /\ call' = op
  /\ count' = n

Return(res, n) ==
  /\ pc' = "idle"
  /\ ret' = [res |-> res, n |-> n]

Continue(p) ==
  /\ pc' = p
  /\ ret' = [res |-> "none", n |-> 0]

\* A patient application makes no call that reaches a descriptor before its
\* packet has been received; poll_wait is how it can wait for one.
MayTouch(n) == Patient => n <= Received

-----------------------------------------------------------------------------
(* seek_ for _RX (seek.rs). *)

\* Mutant: a refresh counts from the kernel's consumer index of the Fill ring.
RefreshFromFill == WrappingSub(rx_producer, f_consumer)

\* The number of received packets that seek_ computes.
Refresh == WrappingSub(rx_producer, consumer)

\* What seek_(n) leaves in available, and how it ends.
SeekAvailable(n) ==
  IF available >= n \/ rx_producer = consumer THEN available ELSE Refresh

SeekResult(n) ==
  IF available >= n \/ rx_producer # consumer THEN "Ok" ELSE "RingEmpty"

\* What seek_(n) returns with "Ok".
SeekCount(n) ==
  IF available >= n \/ U32(n) <= SeekAvailable(n) THEN U32(n) ELSE SeekAvailable(n)

SeekBody(n) ==
  /\ available' = SeekAvailable(n)
  /\ synced' = (synced \/ (available < n /\ rx_producer # consumer))
  /\ UNCHANGED <<producer, consumer, rx_producer, rx_consumer, fRing, posted>>

\* seek and seek_n
Seek(n) ==
  /\ Enter("seek", n)
  /\ SeekBody(n)
  /\ Return(SeekResult(n), IF SeekResult(n) = "Ok" THEN SeekCount(n) ELSE 0)
  /\ lent' = {}
  /\ UNCHANGED rx_desc

-----------------------------------------------------------------------------
(* peek_ for _RX (peek.rs): the slice has the length the kernel stored,    *)
(* which mut_bytes_at stores again.                                        *)

PeekBody(index, avail) ==
  LET slot == Slot(WrappingAdd(consumer, U32(index)))
      desc == rx_desc[slot]
      ok   == index < avail /\ MutBytesAsserts(slot, desc, desc.len)
  IN  /\ Return(IF ok THEN "Ok"
                ELSE IF index < avail THEN "Panic" ELSE "InvalidIndex", 0)
      /\ lent' = IF ok THEN {desc.frame} ELSE {}
      /\ UNCHANGED rx_desc

\* peek and peek_at
Peek(index) ==
  /\ Enter("peek", 0)
  /\ index < available => MayTouch(index + 1)
  /\ PeekBody(index, available)
  /\ UNCHANGED <<socket, rx_producer, rx_consumer, fRing, posted, synced>>

\* seek_and_peek: seek_(1), then peek_(0) unless that failed.
SeekAndPeek ==
  /\ Enter("seek_and_peek", 1)
  /\ SeekBody(1)
  /\ \/ /\ SeekResult(1) = "Ok"
        /\ MayTouch(1)
        /\ PeekBody(0, SeekAvailable(1))
     \/ /\ SeekResult(1) # "Ok"
        /\ Return(SeekResult(1), 0)
        /\ lent' = {}
        /\ UNCHANGED rx_desc

-----------------------------------------------------------------------------
(* commit_ for _RX (commit.rs). *)

\* Mutant: the check compiled out.
CommitNeverRefused(n) == FALSE

\* The check of commit_, on the count cast to u32.
CommitRefused(n) == available < U32(n)

\* The loop of commit_: the addresses of the oldest n descriptors of the RX
\* ring go to the next n slots of the Fill ring.
Refilled(n) ==
  [s \in Slots |->
     LET given == {i \in 0 .. U32(n) - 1 : Slot(producer + i) = s}
     IN  IF given = {} THEN f_desc[s]
         ELSE rx_desc[Slot(consumer +
                           (CHOOSE i \in given : \A j \in given : j <= i))].frame]

\* Mutant: one slot more than was copied is given back to the kernel.
ConsumerTooFar == WrappingAdd(consumer', 1)

\* The consumer index commit_ stores into the RX ring.
ConsumerStored == consumer'

\* commit_ up to its first store, the one into the RX ring.
CommitCall(op, n) ==
  /\ Enter(op, n)
  /\ lent' = {}
  /\ \/ /\ CommitRefused(n)
        /\ Return("NotAvailable", 0)
        /\ UNCHANGED <<socket, rxRing, fRing>>
     \/ /\ ~CommitRefused(n)
        /\ MayTouch(U32(n))
        /\ f_desc' = Refilled(n)
        /\ consumer' = WrappingAdd(consumer, U32(n))
        /\ producer' = WrappingAdd(producer, U32(n))
        /\ available' = available - U32(n)
        /\ rx_consumer' = ConsumerStored
        /\ Continue("publish")
        /\ UNCHANGED <<rx_desc, rx_producer, f_producer, f_consumer>>
  /\ UNCHANGED <<posted, synced>>

Commit(n) == CommitCall("commit", n)

\* commit_and_kick: its kick finds no flag to act on.
CommitAndKick(n) == CommitCall("commit_and_kick", n)

\* The second store of commit_, into the Fill ring.
PublishFill ==
  /\ pc = "publish"
  /\ f_producer' = producer
  /\ Return("Ok", 0)
  /\ UNCHANGED <<socket, rxRing, f_desc, f_consumer, call, count, lent, posted,
                 synced>>

-----------------------------------------------------------------------------
(* kick (kick.rs) and poll_wait (poll.rs). *)

Kick ==
  /\ Enter("kick", 0)
  /\ Return("Ok", 0)
  /\ lent' = {}
  /\ UNCHANGED <<socket, rxRing, fRing, posted, synced>>

\* poll_wait, whose timeout argument is not used.
PollWait ==
  /\ Enter("poll_wait", 0)
  /\ Continue("poll")
  /\ lent' = {}
  /\ UNCHANGED <<socket, rxRing, fRing, posted, synced>>

\* POLLIN: the RX ring holds a packet.
Readable == rx_producer # rx_consumer

\* The loop of poll_wait ends when poll reports the socket readable.
PollReturns ==
  /\ pc = "poll"
  /\ Readable
  /\ Return("Ok", 0)
  /\ UNCHANGED <<socket, rxRing, fRing, call, count, lent, posted, synced>>

-----------------------------------------------------------------------------
(* The kernel: external. *)

\* The kernel takes the next address from the Fill ring.
KernelPosts ==
  /\ f_consumer # f_producer
  /\ Len(posted) < RingLen
  /\ posted' = Append(posted, f_desc[Slot(f_consumer)])
  /\ f_consumer' = WrappingAdd(f_consumer, 1)
  /\ UNCHANGED <<socket, rxRing, f_desc, f_producer, pc, call, count, ret, lent,
                 synced>>

\* A packet arrives, and there is a frame and a descriptor for it.
KernelReceives(l) ==
  /\ posted # <<>>
  /\ WrappingSub(rx_producer, rx_consumer) < RingLen
  /\ rx_desc' = [rx_desc EXCEPT ![Slot(rx_producer)] =
                   [frame |-> Head(posted), len |-> l]]
  /\ rx_producer' = WrappingAdd(rx_producer, 1)
  /\ posted' = Tail(posted)
  /\ UNCHANGED <<socket, rx_consumer, fRing, pc, call, count, ret, lent, synced>>

-----------------------------------------------------------------------------
Calls ==
  \/ \E n \in Counts : Seek(n)
  \/ \E index \in 0 .. RingLen : Peek(index)
  \/ SeekAndPeek
  \/ \E n \in Counts : Commit(n)
  \/ \E n \in Counts : CommitAndKick(n)
  \/ Kick
  \/ PollWait

CallSteps ==
  \/ PublishFill
  \/ PollReturns

Kernel ==
  \/ KernelPosts
  \/ \E l \in Lens : KernelReceives(l)

Next == Calls \/ CallSteps \/ Kernel

Spec == Init /\ [][Next]_vars

-----------------------------------------------------------------------------
(* Properties. *)

\* Every variable has its type; a panic is no result, since the lengths the
\* kernel stores are shorter than a frame.
TypeOK ==
  /\ available \in Index
  /\ producer \in Index
  /\ consumer \in Index
  /\ rx_desc \in [Slots -> XdpDesc]
  /\ rx_producer \in Index
  /\ rx_consumer \in Index
  /\ f_desc \in [Slots -> Frames]
  /\ f_producer \in Index
  /\ f_consumer \in Index
  /\ pc \in {"idle", "publish", "poll"}
  /\ call \in {"new", "seek", "peek", "seek_and_peek", "commit",
               "commit_and_kick", "kick", "poll_wait"}
  /\ count \in Nat
  /\ ret \in [res : {"none", "Ok", "RingEmpty", "InvalidIndex", "NotAvailable"},
              n : Nat]
  /\ lent \in SUBSET Frames
  /\ posted \in Seq(Frames)
  /\ synced \in BOOLEAN

\* Whatever the application does, the descriptor of a packet is not changed
\* between its delivery and its commit: commit_ gives back slots only once they
\* have been copied to the Fill ring, and never more than it copied.
UnreadStable ==
  [][\A i \in 0 .. Received - 1 :
       rx_desc'[ReceivedSlot(i)] = rx_desc[ReceivedSlot(i)]]_vars

\* For a patient application the receive side never gives the kernel a frame
\* of the transmit side, nor gets one: the split of the UMEM that create_socket
\* makes for Direction::Both lasts.
SplitKept ==
  /\ \A s \in Slots : f_desc[s] \in RxFrames
  /\ \A i \in 1 .. Len(posted) : posted[i] \in RxFrames
  /\ \A i \in 0 .. Received - 1 : rx_desc[ReceivedSlot(i)].frame \in RxFrames

\* For a patient application, once a seek has looked at the RX ring, what the
\* socket calls available are packets that wait in the ring: the cached count
\* is not ahead of the kernel's index, and no commit has carried the socket's
\* consumer index past it, which would make the distance of the two wrap.
AvailableReceived ==
  synced => available <= Received /\ Received <= RingLen
=============================================================================
