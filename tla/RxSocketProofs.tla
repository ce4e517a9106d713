--------------------------- MODULE RxSocketProofs ---------------------------
(***************************************************************************)
(* Proofs about RxSocket, for every ring length, index width and UMEM that *)
(* RingAssumption and RxAssumption allow.                                  *)
(***************************************************************************)
EXTENDS RxSocket, RingProofs, SequenceFacts

-----------------------------------------------------------------------------
(* The loop of commit_. *)

\* What a commit of n leaves in a slot of the Fill ring: what was there, or the
\* address of one of the n oldest descriptors of the RX ring.
LEMMA RefilledFrom ==
  ASSUME NEW n \in Nat, NEW s \in Slots
  PROVE  \/ Refilled(n)[s] = f_desc[s]
         \/ \E i \in 0 .. U32(n) - 1 :
              Refilled(n)[s] = rx_desc[Slot(consumer + i)].frame
<1> DEFINE given == {i \in 0 .. U32(n) - 1 : Slot(producer + i) = s}
           k == CHOOSE i \in given : \A j \in given : j <= i
<1>1. Refilled(n)[s] = IF given = {} THEN f_desc[s]
                       ELSE rx_desc[Slot(consumer + k)].frame
  BY DEF Refilled
<1>2. ASSUME given # {} PROVE k \in given
  <2>1. U32(n) \in Nat
    BY IndexType
  <2>2. given \in SUBSET (0 .. U32(n) - 1)
    OBVIOUS
  <2>. HIDE DEF given
  <2>3. \E i \in given : \A j \in given : j <= i
    BY <1>2, <2>1, <2>2, LargestExists
  <2>. QED BY <2>3
<1>3. given \subseteq 0 .. U32(n) - 1
  OBVIOUS
<1>. HIDE DEF given, k
<1>. QED BY <1>1, <1>2, <1>3

-----------------------------------------------------------------------------
(* Type correctness. *)

\* The lengths that the kernel stores are shorter than a frame: without that
\* the assertions of mut_bytes_at would not hold, and TypeOK has no panic.
TypeInv ==
  /\ TypeOK
  /\ \A s \in Slots : rx_desc[s].len < FrameSize

\* The frames of the receive side lie in the UMEM.
LEMMA RxFrameTypes ==
  /\ RingLen \in Nat \ {0} /\ FrameCount \in Nat /\ FrameSize \in Nat \ {0}
  /\ RingLen \in Index /\ RingLen < IndexMod
  /\ 0 \in Frames
  /\ RxFrames \subseteq Frames
  /\ \A i \in Slots : i + StartFrame \in RxFrames /\ i < FrameCount
BY RingAssumption, RxAssumption DEF Index, Frames, RxFrames, Slots

\* The end of a packet lies in the frame that holds it, and that in the UMEM.
LEMMA InUmem ==
  ASSUME NEW slot \in Slots, NEW desc \in XdpDesc, desc.len < FrameSize
  PROVE  MutBytesAsserts(slot, desc, desc.len)
<1>1. /\ slot < FrameCount /\ FrameCount \in Nat /\ FrameSize \in Nat
      /\ desc.frame \in Nat /\ desc.frame <= FrameCount - 1 /\ desc.len \in Nat
  BY RxFrameTypes DEF XdpDesc, Frames
<1>2. \A a, b, c \in Nat : a <= b - 1 => c * b >= a * c + c
  <2> TAKE a, b, c \in Nat
  <2> HAVE a <= b - 1
  <2>1. b - (a + 1) \in Nat
    OBVIOUS
  <2>2. c * (b - (a + 1)) >= 0
    BY <2>1
  <2>3. c * (b - (a + 1)) = c * b - (a * c + c)
    OBVIOUS
  <2>4. c * b \in Int /\ a * c + c \in Int
    OBVIOUS
  <2>. QED BY <2>2, <2>3, <2>4
<1>3. FrameSize * FrameCount >= desc.frame * FrameSize + FrameSize
  BY <1>1, <1>2
<1>4. FrameSize * FrameCount \in Int /\ desc.frame * FrameSize \in Int
  BY <1>1
<1>5. FrameSize * FrameCount > desc.frame * FrameSize + desc.len
  BY <1>1, <1>3, <1>4
<1>. QED BY <1>1, <1>5 DEF MutBytesAsserts

\* A socket as create_socket makes it is well typed.
LEMMA InitType ==
  Init => TypeInv
<1> SUFFICES ASSUME Init PROVE TypeInv
  OBVIOUS
<1>1. rx_desc \in [Slots -> XdpDesc] /\ \A s \in Slots : rx_desc[s].len < FrameSize
  BY RxFrameTypes DEF Init, XdpDesc
<1>2. f_desc \in [Slots -> Frames]
  BY RxFrameTypes DEF Init, InitialFill, FillAddr
<1>3. /\ available \in Index /\ producer \in Index /\ consumer \in Index
      /\ rx_producer \in Index /\ rx_consumer \in Index
      /\ f_producer \in Index /\ f_consumer \in Index
  BY RxFrameTypes, IndexType DEF Init
<1>4. posted \in Seq(Frames) /\ lent \in SUBSET Frames
  BY DEF Init
<1>. QED BY <1>1, <1>2, <1>3, <1>4 DEF Init, TypeInv, TypeOK

\* The number of received packets is an index, as is every index of a slot.
LEMMA CountTypes ==
  ASSUME TypeOK
  PROVE  /\ Received \in Index /\ Received \in Nat
         /\ consumer \in Nat /\ rx_producer \in Nat /\ available \in Nat
         /\ \A i \in Int : ReceivedSlot(i) \in Slots
         /\ \A n \in Nat : SeekAvailable(n) \in Index /\ SeekCount(n) \in Nat
<1>1. /\ consumer \in Index /\ rx_producer \in Index /\ available \in Index
      /\ consumer \in Int /\ rx_producer \in Int
      /\ consumer \in Nat /\ rx_producer \in Nat /\ available \in Nat
  BY RingAssumption DEF TypeOK, Index
<1>2. Received \in Index /\ Received \in Nat /\ Refresh = Received
  BY <1>1, IndexType DEF Received, Refresh
<1>3. ASSUME NEW n \in Nat PROVE SeekAvailable(n) \in Index /\ SeekCount(n) \in Nat
  <2>1. U32(n) \in Nat
    BY IndexType
  <2>2. SeekAvailable(n) \in Index
    BY <1>1, <1>2 DEF SeekAvailable
  <2>3. SeekAvailable(n) \in Nat
    BY <2>2, IndexType
  <2>. QED BY <2>1, <2>2, <2>3 DEF SeekCount
<1>4. ASSUME NEW i \in Int PROVE ReceivedSlot(i) \in Slots
  <2>1. consumer + i \in Int
    BY <1>1
  <2>. QED BY <2>1, SlotType DEF ReceivedSlot
<1>. QED BY <1>1, <1>2, <1>3, <1>4

\* A peek returns and lends a frame; it does not panic.
LEMMA PeekType ==
  ASSUME TypeInv, NEW index \in Nat, NEW avail \in Nat, PeekBody(index, avail)
  PROVE  /\ pc' = "idle" /\ rx_desc' = rx_desc /\ lent' \in SUBSET Frames
         /\ ret' \in [res : {"Ok", "InvalidIndex"}, n : {0}]
<1> DEFINE slot == Slot(WrappingAdd(consumer, U32(index)))
           desc == rx_desc[slot]
<1>1. slot \in Slots
  <2>1. consumer \in Int /\ U32(index) \in Int
    BY IndexType, RingAssumption DEF TypeInv, TypeOK, Index
  <2>2. WrappingAdd(consumer, U32(index)) \in Index
    BY <2>1, IndexType
  <2>3. WrappingAdd(consumer, U32(index)) \in Int
    BY <2>2, RingAssumption DEF Index
  <2>. QED BY <2>3, SlotType
<1>2. desc \in XdpDesc /\ desc.len < FrameSize
  BY <1>1 DEF TypeInv, TypeOK
<1>3. desc.frame \in Frames
  BY <1>2 DEF XdpDesc
<1>4. MutBytesAsserts(slot, desc, desc.len)
  BY <1>1, <1>2, InUmem
<1>. HIDE DEF slot, desc
<1>5. /\ Return(IF index < avail THEN "Ok" ELSE "InvalidIndex", 0)
      /\ lent' = (IF index < avail THEN {desc.frame} ELSE {})
      /\ rx_desc' = rx_desc
  BY <1>4 DEF PeekBody, slot, desc
<1>. QED BY <1>3, <1>5 DEF Return

\* A commit leaves addresses in the Fill ring and indices in the socket.
LEMMA CommitType ==
  ASSUME TypeOK, NEW n \in Nat, ~CommitRefused(n)
  PROVE  /\ Refilled(n) \in [Slots -> Frames]
         /\ U32(n) \in Index /\ U32(n) \in Nat
         /\ WrappingAdd(consumer, U32(n)) \in Index
         /\ WrappingAdd(producer, U32(n)) \in Index
         /\ available - U32(n) \in Index
<1>1. U32(n) \in Index /\ U32(n) \in Nat
  BY IndexType
<1>2. /\ consumer \in Int /\ producer \in Int /\ U32(n) \in Int
      /\ available \in Index /\ ~(available < U32(n))
  BY <1>1, RingAssumption DEF TypeOK, Index, CommitRefused
<1>3. /\ WrappingAdd(consumer, U32(n)) \in Index
      /\ WrappingAdd(producer, U32(n)) \in Index
  BY <1>2, IndexType
<1>4. available - U32(n) \in Index
  BY <1>1, <1>2, RingAssumption DEF Index
<1>5. ASSUME NEW s \in Slots PROVE Refilled(n)[s] \in Frames
  <2>1. CASE Refilled(n)[s] = f_desc[s]
    BY <2>1 DEF TypeOK
  <2>2. ASSUME NEW i \in 0 .. U32(n) - 1,
               Refilled(n)[s] = rx_desc[Slot(consumer + i)].frame
        PROVE  Refilled(n)[s] \in Frames
    <3>1. consumer + i \in Int
      BY <1>1, <1>2
    <3>2. Slot(consumer + i) \in Slots
      BY <3>1, SlotType
    <3>3. rx_desc[Slot(consumer + i)] \in XdpDesc
      BY <3>2 DEF TypeOK
    <3>. QED BY <2>2, <3>3 DEF XdpDesc
  <2>. QED BY <2>1, <2>2, RefilledFrom
<1>6. Refilled(n) = [s \in Slots |-> Refilled(n)[s]]
  BY DEF Refilled
<1>7. Refilled(n) \in [Slots -> Frames]
  BY <1>5, <1>6
<1>. QED BY <1>1, <1>3, <1>4, <1>7

\* Every step keeps the types.
LEMMA NextType ==
  ASSUME TypeInv, [Next]_vars
  PROVE  TypeInv'
<1>. USE DEF socket, rxRing, fRing
<1>t. TypeOK /\ \A s \in Slots : rx_desc[s].len < FrameSize
  BY DEF TypeInv
<1>1. ASSUME NEW n \in Nat, Seek(n) PROVE TypeInv'
  <2>1. SeekAvailable(n) \in Index /\ SeekCount(n) \in Nat
    BY <1>t, CountTypes
  <2>2. synced' \in BOOLEAN
    BY <1>1 DEF Seek, SeekBody
  <2>3. /\ available' = SeekAvailable(n) /\ pc' = "idle" /\ call' = "seek"
        /\ count' = n /\ lent' = {}
        /\ ret' = [res |-> SeekResult(n),
                   n |-> IF SeekResult(n) = "Ok" THEN SeekCount(n) ELSE 0]
        /\ UNCHANGED <<producer, consumer, rx_desc, rx_producer, rx_consumer,
                       f_desc, f_producer, f_consumer, posted>>
    BY <1>1 DEF Seek, SeekBody, Enter, Return
  <2>4. SeekResult(n) \in {"Ok", "RingEmpty"}
    BY DEF SeekResult
  <2>5. ret' \in [res : {"none", "Ok", "RingEmpty", "InvalidIndex", "NotAvailable"},
                  n : Nat]
    BY <2>1, <2>3, <2>4
  <2>. QED BY <1>t, <2>1, <2>2, <2>3, <2>5 DEF TypeInv, TypeOK
<1>2. ASSUME NEW index \in 0 .. RingLen, Peek(index) PROVE TypeInv'
  <2>1. index \in Nat /\ available \in Nat /\ PeekBody(index, available)
    BY <1>t, <1>2, CountTypes, RxFrameTypes DEF Peek
  <2>2. /\ pc' = "idle" /\ rx_desc' = rx_desc /\ lent' \in SUBSET Frames
        /\ ret' \in [res : {"Ok", "InvalidIndex"}, n : {0}]
    BY <2>1, PeekType
  <2>3. /\ call' = "peek" /\ count' = 0
        /\ UNCHANGED <<available, producer, consumer, rx_producer, rx_consumer,
                       f_desc, f_producer, f_consumer, posted, synced>>
    BY <1>2 DEF Peek, Enter
  <2>. QED BY <1>t, <2>2, <2>3 DEF TypeInv, TypeOK
<1>3. CASE SeekAndPeek
  <2>1. SeekAvailable(1) \in Index /\ SeekAvailable(1) \in Nat
    BY <1>t, CountTypes, IndexType
  <2>2. synced' \in BOOLEAN
    BY <1>3 DEF SeekAndPeek, SeekBody
  <2>3. /\ available' = SeekAvailable(1)
        /\ call' = "seek_and_peek" /\ count' = 1
        /\ UNCHANGED <<producer, consumer, rx_producer, rx_consumer,
                       f_desc, f_producer, f_consumer, posted>>
    BY <1>3 DEF SeekAndPeek, SeekBody, Enter
  <2>4. /\ pc' = "idle" /\ rx_desc' = rx_desc /\ lent' \in SUBSET Frames
        /\ ret' \in [res : {"Ok", "InvalidIndex", "RingEmpty"}, n : {0}]
    <3>1. CASE SeekResult(1) = "Ok"
      BY <1>3, <2>1, <3>1, PeekType DEF SeekAndPeek
    <3>2. CASE SeekResult(1) # "Ok"
      BY <1>3, <3>2 DEF SeekAndPeek, SeekResult, Return
    <3>. QED BY <3>1, <3>2
  <2>. QED BY <1>t, <2>1, <2>2, <2>3, <2>4 DEF TypeInv, TypeOK
<1>4. ASSUME NEW n \in Nat, NEW op \in {"commit", "commit_and_kick"},
             CommitCall(op, n)
      PROVE  TypeInv'
  <2>1. CASE CommitRefused(n)
    BY <1>t, <1>4, <2>1 DEF CommitCall, Enter, Return, TypeInv, TypeOK
  <2>2. CASE ~CommitRefused(n)
    <3>1. /\ Refilled(n) \in [Slots -> Frames]
          /\ WrappingAdd(consumer, U32(n)) \in Index
          /\ WrappingAdd(producer, U32(n)) \in Index
          /\ available - U32(n) \in Index
      BY <1>t, <2>2, CommitType
    <3>. QED BY <1>t, <1>4, <2>2, <3>1
             DEF CommitCall, Enter, Continue, ConsumerStored, TypeInv, TypeOK
  <2>. QED BY <2>1, <2>2
<1>5. CASE PublishFill
  BY <1>t, <1>5 DEF PublishFill, Return, TypeInv, TypeOK
<1>6. CASE Kick \/ PollWait
  BY <1>t, <1>6 DEF Kick, PollWait, Enter, Return, Continue, TypeInv, TypeOK
<1>7. CASE PollReturns
  BY <1>t, <1>7 DEF PollReturns, Return, TypeInv, TypeOK
<1>8. CASE KernelPosts
  <2>1. f_consumer' \in Index
    BY <1>t, <1>8, IndexType, RingAssumption DEF KernelPosts, TypeOK, Index
  <2>2. posted' \in Seq(Frames)
    <3>1. f_consumer \in Int
      BY <1>t, RingAssumption DEF TypeOK, Index
    <3>2. f_desc[Slot(f_consumer)] \in Frames /\ posted \in Seq(Frames)
      BY <1>t, <3>1, SlotType DEF TypeOK
    <3>. QED BY <1>8, <3>2 DEF KernelPosts
  <2>. QED BY <1>t, <1>8, <2>1, <2>2 DEF KernelPosts, TypeInv, TypeOK
<1>9. ASSUME NEW l \in Lens, KernelReceives(l) PROVE TypeInv'
  <2>1. /\ rx_producer \in Int /\ 1 \in Int
        /\ l \in Nat /\ l < FrameSize
    BY <1>t, RingAssumption, RxAssumption DEF TypeOK, Index
  <2>2. rx_producer' \in Index /\ Slot(rx_producer) \in Slots
    BY <1>9, <2>1, IndexType, SlotType DEF KernelReceives
  <2>3. Head(posted) \in Frames /\ posted' \in Seq(Frames)
    BY <1>t, <1>9, HeadTailProperties DEF KernelReceives, TypeOK
  <2> DEFINE d == [frame |-> Head(posted), len |-> l]
  <2>4. d \in XdpDesc /\ d.len < FrameSize
    BY <2>1, <2>3 DEF XdpDesc
  <2>5. rx_desc' = [rx_desc EXCEPT ![Slot(rx_producer)] = d]
    BY <1>9 DEF KernelReceives
  <2>. HIDE DEF d
  <2>6. rx_desc' \in [Slots -> XdpDesc] /\ \A s \in Slots : rx_desc'[s].len < FrameSize
    BY <1>t, <2>2, <2>4, <2>5 DEF TypeOK
  <2>. QED BY <1>t, <1>9, <2>2, <2>3, <2>6 DEF KernelReceives, TypeInv, TypeOK
<1>10. CASE UNCHANGED vars
  BY <1>t, <1>10 DEF vars, TypeInv, TypeOK
<1>11. \A n \in Counts : n \in Nat
  BY RxAssumption
<1>12. CASE Calls
  BY <1>1, <1>2, <1>3, <1>4, <1>6, <1>11, <1>12 DEF Calls, Commit, CommitAndKick
<1>13. CASE CallSteps
  BY <1>5, <1>7, <1>13 DEF CallSteps
<1>14. CASE Kernel
  BY <1>8, <1>9, <1>14 DEF Kernel
<1>. QED BY <1>10, <1>12, <1>13, <1>14 DEF Next

\* Every variable keeps its type: the u32 indices stay in range through every
\* wrap, commit_'s subtraction never underflows, no slot of the RX and Fill
\* rings ever holds an address outside the UMEM, and peek_ does not panic.
\* This holds for every application, patient or not, and for every count.
THEOREM RxTypeCorrect ==
  Spec => []TypeOK
<1>1. TypeInv => TypeOK
  BY DEF TypeInv
<1>2. TypeInv /\ [Next]_vars => TypeInv'
  BY NextType
<1>. QED BY <1>1, <1>2, InitType, PTL DEF Spec

-----------------------------------------------------------------------------
(* The inductive invariant. *)

\* The kernel's view of the RX ring's consumer index is never behind the
\* socket's: commit_ stores it in the same call that advances it.
ConsumerPublished == rx_consumer = consumer

\* A count that a seek has refreshed is not ahead of the distance of the two
\* indices it was computed from.
SeekCounted == synced => available <= Received

\* A patient application leaves no more in the RX ring than that holds; what
\* an impatient one commits early makes the distance wrap.
PatientBounded == Patient => Received <= RingLen /\ SplitKept

Inv ==
  /\ TypeInv
  /\ ConsumerPublished
  /\ SeekCounted
  /\ PatientBounded

\* A new socket has received nothing and has its own frames in the Fill ring.
LEMMA InvInit ==
  Init => Inv
<1> SUFFICES ASSUME Init PROVE Inv
  OBVIOUS
<1>1. TypeInv
  BY InitType
<1>2. Received = 0
  <2>1. 0 \in Index /\ rx_producer = 0 /\ consumer = 0
    BY IndexType DEF Init
  <2>. QED BY <2>1, SubZero DEF Received
<1>3. \A s \in Slots : f_desc[s] \in RxFrames
  BY RxFrameTypes DEF Init, InitialFill, FillAddr
<1>4. SplitKept
  <2>1. Len(posted) = 0
    BY DEF Init
  <2>. QED BY <1>2, <1>3, <2>1 DEF SplitKept
<1>5. Received <= RingLen
  BY <1>2, RxFrameTypes
<1>. QED BY <1>1, <1>4, <1>5 DEF Init, Inv, ConsumerPublished, SeekCounted,
                                PatientBounded

\* A step that leaves the rings and the socket's consumer index alone.
LEMMA QuietStep ==
  ASSUME Inv, TypeInv', synced' => available' <= Received,
         UNCHANGED <<consumer, rx_desc, rx_producer, rx_consumer, f_desc, posted>>
  PROVE  Inv'
<1>1. /\ Received' = Received /\ \A i : ReceivedSlot(i)' = ReceivedSlot(i)
      /\ RxFrames' = RxFrames
  BY DEF Received, ReceivedSlot, RxFrames
<1>2. SplitKept <=> SplitKept'
  BY <1>1 DEF SplitKept
<1>. QED BY <1>1, <1>2 DEF Inv, ConsumerPublished, SeekCounted, PatientBounded

\* What a seek calls available has been received, if it looked.
LEMMA SeekSynced ==
  ASSUME Inv, NEW n \in Nat, SeekBody(n)
  PROVE  synced' => available' <= Received
<1>1. /\ Received \in Nat /\ available \in Nat
      /\ synced => available <= Received
  BY CountTypes DEF Inv, TypeInv, SeekCounted
<1>2. CASE available >= n \/ rx_producer = consumer
  <2>1. ~(available < n /\ rx_producer # consumer) /\ available' = available
    BY <1>1, <1>2 DEF SeekBody, SeekAvailable
  <2>2. synced' => synced
    BY <2>1, Zenon DEF SeekBody
  <2>. QED BY <1>1, <2>1, <2>2
<1>3. CASE ~(available >= n \/ rx_producer = consumer)
  <2>1. available' = Received
    BY <1>3 DEF SeekBody, SeekAvailable, Refresh, Received
  <2>. QED BY <1>1, <2>1
<1>. QED BY <1>2, <1>3

\* The packets that are left after the oldest n have been committed.
LEMMA ReceivedAfterCommit ==
  ASSUME TypeOK, NEW n \in Index, n <= Received,
         rx_producer' = rx_producer, consumer' = WrappingAdd(consumer, n)
  PROVE  /\ Received' = Received - n
         /\ \A i \in Int : ReceivedSlot(i)' = ReceivedSlot(n + i)
<1>1. consumer \in Index /\ rx_producer \in Index
  BY DEF TypeOK
<1>2. Received' = Received - n
  BY <1>1, SubAdvance DEF Received
<1>3. \A i \in Int : ReceivedSlot(i)' = ReceivedSlot(n + i)
  BY <1>1, SlotAdd DEF ReceivedSlot
<1>. QED BY <1>2, <1>3

\* A commit copies received addresses only, if the application is patient, and
\* takes as much off what is available as off what has been received.
LEMMA CommitStep ==
  ASSUME Inv, TypeInv', NEW n \in Nat, NEW op, CommitCall(op, n), ~CommitRefused(n)
  PROVE  Inv'
<1> DEFINE m == U32(n)
<1>1. /\ MayTouch(m) /\ f_desc' = Refilled(n) /\ consumer' = WrappingAdd(consumer, m)
      /\ available' = available - m /\ rx_consumer' = consumer'
      /\ UNCHANGED <<rx_desc, rx_producer, posted, synced>>
  BY DEF CommitCall, ConsumerStored
<1>2. /\ m \in Index /\ m \in Nat /\ ~(available < m)
      /\ Received \in Nat /\ available \in Nat
  BY IndexType, CountTypes DEF Inv, TypeInv, CommitRefused
<1>. HIDE DEF m
<1>3. ASSUME m <= Received
      PROVE  /\ Received' = Received - m
             /\ \A i \in Int : ReceivedSlot(i)' = ReceivedSlot(m + i)
  BY <1>1, <1>2, <1>3, ReceivedAfterCommit DEF Inv, TypeInv
<1>4. SeekCounted'
  <2> SUFFICES ASSUME synced' PROVE available' <= Received'
    BY DEF SeekCounted
  <2>1. available <= Received
    BY <1>1 DEF Inv, SeekCounted
  <2>2. m <= Received
    BY <1>2, <2>1
  <2>. QED BY <1>1, <1>2, <1>3, <2>1, <2>2
<1>5. ASSUME Patient PROVE Received' <= RingLen /\ SplitKept'
  <2>1. m <= Received /\ Received <= RingLen /\ SplitKept
    BY <1>1, <1>5 DEF MayTouch, Inv, PatientBounded
  <2>2. Received' = Received - m /\ \A i \in Int : ReceivedSlot(i)' = ReceivedSlot(m + i)
    BY <1>3, <2>1
  <2>3. Received' <= RingLen
    BY <1>2, <2>1, <2>2, RxFrameTypes
  <2>4. ASSUME NEW i \in 0 .. Received' - 1
        PROVE  rx_desc'[ReceivedSlot(i)'].frame \in RxFrames
    <3>1. m + i \in 0 .. Received - 1 /\ i \in Int
      BY <1>2, <2>2
    <3>. QED BY <1>1, <2>1, <2>2, <3>1 DEF SplitKept
  <2>5. ASSUME NEW s \in Slots PROVE f_desc'[s] \in RxFrames
    <3>1. CASE Refilled(n)[s] = f_desc[s]
      BY <1>1, <2>1, <3>1 DEF SplitKept
    <3>2. ASSUME NEW i \in 0 .. m - 1,
                 Refilled(n)[s] = rx_desc[Slot(consumer + i)].frame
          PROVE  f_desc'[s] \in RxFrames
      <4>1. i \in 0 .. Received - 1
        BY <1>2, <2>1
      <4>. QED BY <1>1, <2>1, <3>2, <4>1 DEF SplitKept, ReceivedSlot
    <3>. QED BY <3>1, <3>2, RefilledFrom DEF m
  <2>6. RxFrames' = RxFrames
    BY DEF RxFrames
  <2>7. SplitKept'
    BY <1>1, <2>1, <2>4, <2>5, <2>6 DEF SplitKept
  <2>. QED BY <2>3, <2>7
<1>. QED BY <1>1, <1>4, <1>5 DEF Inv, ConsumerPublished, PatientBounded

\* What KernelReceives does to the RX ring: one packet more, in a slot that
\* none of the received ones has.
LEMMA ReceivesIntoFreeSlot ==
  ASSUME TypeOK, ConsumerPublished, NEW l, KernelReceives(l)
  PROVE  /\ Received < RingLen /\ Received' = Received + 1
         /\ Slot(rx_producer) = ReceivedSlot(Received)
         /\ \A i \in 0 .. Received - 1 : ReceivedSlot(i) # ReceivedSlot(Received)
<1>1. /\ consumer \in Index /\ rx_producer \in Index /\ consumer \in Int
      /\ rx_producer \in Int /\ 1 \in Index /\ Received \in Nat
  BY CountTypes, IndexType DEF TypeOK
<1>2. Received < RingLen /\ RingLen < IndexMod /\ RingLen \in Nat /\ IndexMod \in Nat
  BY RxFrameTypes, RingAssumption DEF KernelReceives, Received, ConsumerPublished
<1>3. /\ rx_producer' = WrappingAdd(rx_producer, 1) /\ consumer' = consumer
  BY DEF KernelReceives, socket
<1>4. Received' = Received + 1
  <2>1. WrappingSub(rx_producer, consumer) + 1 < IndexMod
    BY <1>1, <1>2 DEF Received
  <2>. QED BY <1>1, <1>3, <2>1, SubAddLeft DEF Received
<1>5. Slot(rx_producer) = ReceivedSlot(Received)
  <2>1. Slot(consumer + (WrappingSub(rx_producer, consumer) + 0)) = Slot(rx_producer + 0)
    BY <1>1, SlotSub
  <2>2. WrappingSub(rx_producer, consumer) + 0 = Received /\ rx_producer + 0 = rx_producer
    BY <1>1 DEF Received
  <2>. QED BY <2>1, <2>2 DEF ReceivedSlot
<1>6. ASSUME NEW i \in 0 .. Received - 1 PROVE ReceivedSlot(i) # ReceivedSlot(Received)
  <2> SUFFICES ASSUME Slot(consumer + i) = Slot(consumer + Received) PROVE FALSE
    BY DEF ReceivedSlot
  <2>1. /\ consumer + i \in Int /\ consumer + Received \in Int
        /\ (consumer + i) - (consumer + Received) < RingLen
        /\ (consumer + Received) - (consumer + i) < RingLen
    BY <1>1, <1>2
  <2>2. consumer + i = consumer + Received
    BY <2>1, SlotInjective
  <2>. QED BY <1>1, <2>2
<1>. QED BY <1>2, <1>4, <1>5, <1>6

\* A packet is received into a frame that the kernel was given.
LEMMA ReceivesStep ==
  ASSUME Inv, TypeInv', NEW l, KernelReceives(l)
  PROVE  Inv'
<1>1. /\ Received < RingLen /\ Received' = Received + 1
      /\ Slot(rx_producer) = ReceivedSlot(Received)
  BY ReceivesIntoFreeSlot DEF Inv, TypeInv
<1>2. /\ Received \in Nat /\ available \in Nat /\ RingLen \in Nat
      /\ rx_desc \in [Slots -> XdpDesc] /\ posted \in Seq(Frames)
      /\ \A i \in Int : ReceivedSlot(i) \in Slots
  BY CountTypes, RxFrameTypes DEF Inv, TypeInv, TypeOK
<1>3. /\ posted # << >> /\ posted' = Tail(posted)
      /\ rx_desc' = [rx_desc EXCEPT ![Slot(rx_producer)] =
                       [frame |-> Head(posted), len |-> l]]
      /\ UNCHANGED <<available, consumer, rx_consumer, f_desc, synced>>
  BY DEF KernelReceives, socket, fRing
<1>4. SeekCounted' /\ ConsumerPublished'
  BY <1>1, <1>2, <1>3 DEF Inv, SeekCounted, ConsumerPublished
<1>5. ASSUME SplitKept PROVE SplitKept'
  <2>1. /\ Head(posted) = posted[1] /\ Len(posted) \in Nat \ {0}
        /\ Len(Tail(posted)) = Len(posted) - 1
        /\ \A i \in 1 .. Len(Tail(posted)) : Tail(posted)[i] = posted[i + 1]
    BY <1>2, <1>3, HeadTailProperties, EmptySeq, LenProperties
  <2>2. Head(posted) \in RxFrames
    BY <1>5, <2>1 DEF SplitKept
  <2>3. \A i \in 1 .. Len(posted') : posted'[i] \in RxFrames
    <3> TAKE i \in 1 .. Len(posted')
    <3>1. i + 1 \in 1 .. Len(posted) /\ posted'[i] = posted[i + 1]
      BY <1>3, <2>1
    <3>. QED BY <1>5, <3>1 DEF SplitKept
  <2>4. ASSUME NEW i \in 0 .. Received' - 1
        PROVE  rx_desc'[ReceivedSlot(i)'].frame \in RxFrames
    <3>1. ReceivedSlot(i)' = ReceivedSlot(i) /\ i \in Int
      BY <1>1, <1>2, <1>3 DEF ReceivedSlot
    <3>2. CASE ReceivedSlot(i) = Slot(rx_producer)
      BY <1>2, <1>3, <2>2, <3>1, <3>2
    <3>3. CASE ReceivedSlot(i) # Slot(rx_producer)
      <4>1. rx_desc'[ReceivedSlot(i)] = rx_desc[ReceivedSlot(i)]
        BY <1>2, <1>3, <3>1, <3>3
      <4>2. i # Received
        BY <1>1, <3>3
      <4>3. i \in 0 .. Received - 1
        BY <1>1, <1>2, <4>2
      <4>. QED BY <1>5, <3>1, <4>1, <4>3 DEF SplitKept
    <3>. QED BY <3>2, <3>3
  <2>5. RxFrames' = RxFrames
    BY DEF RxFrames
  <2>. QED BY <1>3, <1>5, <2>3, <2>4, <2>5 DEF SplitKept
<1>6. Received' <= RingLen
  BY <1>1, <1>2
<1>. QED BY <1>4, <1>5, <1>6 DEF Inv, PatientBounded

\* The kernel takes an address of the receive side.
LEMMA PostsStep ==
  ASSUME Inv, TypeInv', KernelPosts
  PROVE  Inv'
<1>1. /\ posted' = Append(posted, f_desc[Slot(f_consumer)])
      /\ UNCHANGED <<available, consumer, rx_desc, rx_producer, rx_consumer,
                     f_desc, synced>>
  BY DEF KernelPosts, socket, rxRing
<1>2. /\ Received' = Received /\ \A i : ReceivedSlot(i)' = ReceivedSlot(i)
      /\ RxFrames' = RxFrames
  BY <1>1 DEF Received, ReceivedSlot, RxFrames
<1>3. ASSUME SplitKept PROVE SplitKept'
  <2>1. f_consumer \in Int /\ f_desc \in [Slots -> Frames] /\ posted \in Seq(Frames)
    BY RingAssumption DEF Inv, TypeInv, TypeOK, Index
  <2>2. Slot(f_consumer) \in Slots
    BY <2>1, SlotType
  <2>3. f_desc[Slot(f_consumer)] \in RxFrames /\ f_desc[Slot(f_consumer)] \in Frames
    BY <1>3, <2>1, <2>2 DEF SplitKept
  <2>4. /\ Len(posted') = Len(posted) + 1 /\ Len(posted) \in Nat
        /\ \A i \in 1 .. Len(posted) : posted'[i] = posted[i]
        /\ posted'[Len(posted) + 1] = f_desc[Slot(f_consumer)]
    BY <1>1, <2>1, <2>3, AppendProperties, LenProperties
  <2>5. \A i \in 1 .. Len(posted') : posted'[i] \in RxFrames
    <3> TAKE i \in 1 .. Len(posted')
    <3>1. i \in 1 .. Len(posted) \/ i = Len(posted) + 1
      BY <2>4
    <3>. QED BY <1>3, <2>3, <2>4, <3>1 DEF SplitKept
  <2>. QED BY <1>1, <1>2, <1>3, <2>5 DEF SplitKept
<1>. QED BY <1>1, <1>2, <1>3 DEF Inv, ConsumerPublished, SeekCounted,
                                PatientBounded

\* The invariant is inductive.
LEMMA Invariance ==
  Spec => []Inv
<1>1. ASSUME Inv, [Next]_vars PROVE Inv'
  <2>. USE DEF socket, rxRing, fRing
  <2>t. TypeInv'
    BY <1>1, NextType DEF Inv
  <2>s. synced => available <= Received
    BY <1>1 DEF Inv, SeekCounted
  <2>1. ASSUME NEW n \in Nat, Seek(n) PROVE Inv'
    BY <1>1, <2>t, <2>1, SeekSynced, QuietStep DEF Seek, SeekBody
  <2>2. ASSUME NEW index, Peek(index) PROVE Inv'
    BY <1>1, <2>t, <2>s, <2>2, QuietStep DEF Peek, PeekBody
  <2>3. CASE SeekAndPeek
    BY <1>1, <2>t, <2>3, SeekSynced, QuietStep DEF SeekAndPeek, SeekBody, PeekBody
  <2>4. ASSUME NEW n \in Nat, NEW op, CommitCall(op, n) PROVE Inv'
    <3>1. CASE CommitRefused(n)
      BY <1>1, <2>t, <2>s, <2>4, <3>1, QuietStep DEF CommitCall
    <3>2. CASE ~CommitRefused(n)
      BY <1>1, <2>t, <2>4, <3>2, CommitStep
    <3>. QED BY <3>1, <3>2
  <2>5. CASE PublishFill \/ Kick \/ PollWait \/ PollReturns
    BY <1>1, <2>t, <2>s, <2>5, QuietStep DEF PublishFill, Kick, PollWait, PollReturns
  <2>6. CASE KernelPosts
    BY <1>1, <2>t, <2>6, PostsStep
  <2>7. ASSUME NEW l, KernelReceives(l) PROVE Inv'
    BY <1>1, <2>t, <2>7, ReceivesStep
  <2>8. CASE UNCHANGED vars
    BY <1>1, <2>t, <2>s, <2>8, QuietStep DEF vars
  <2>9. \A n \in Counts : n \in Nat
    BY RxAssumption
  <2>10. CASE Calls
    BY <2>1, <2>2, <2>3, <2>4, <2>5, <2>9, <2>10 DEF Calls, Commit, CommitAndKick
  <2>11. CASE CallSteps \/ Kernel
    BY <2>5, <2>6, <2>7, <2>11 DEF CallSteps, Kernel
  <2>. QED BY <1>1, <2>8, <2>10, <2>11 DEF Next
<1>. QED BY <1>1, InvInit, PTL DEF Spec

-----------------------------------------------------------------------------
(* The theorems. *)

\* What a socket calls available once a seek_ has looked at the RX ring are
\* packets in the ring, as long as commit_ is called for received packets only:
\* for every ring length and index width, and however often the indices wrap.
THEOREM RxAvailableReceived ==
  ASSUME Patient
  PROVE  Spec => []AvailableReceived
<1>1. Inv => AvailableReceived
  BY DEF Inv, SeekCounted, PatientBounded, AvailableReceived
<1>. QED BY <1>1, Invariance, PTL

\* The split of the UMEM that create_socket makes lasts as long as commit_ is
\* called for received packets only.
THEOREM RxSplitKept ==
  ASSUME Patient
  PROVE  Spec => []SplitKept
<1>1. Inv => SplitKept
  BY DEF Inv, PatientBounded
<1>. QED BY <1>1, Invariance, PTL

\* The kernel does not write the descriptor of a packet between its delivery
\* and its commit: the consumer index commit_ stores is the socket's own.
THEOREM RxUnreadStable ==
  Spec => UnreadStable
<1>1. ASSUME Inv, [Next]_vars, NEW i \in 0 .. Received - 1
      PROVE  rx_desc'[ReceivedSlot(i)] = rx_desc[ReceivedSlot(i)]
  <2>. USE DEF socket, rxRing, fRing
  <2>1. ASSUME NEW l, KernelReceives(l)
        PROVE  rx_desc'[ReceivedSlot(i)] = rx_desc[ReceivedSlot(i)]
    <3>1. ReceivedSlot(i) # Slot(rx_producer)
      BY <1>1, <2>1, ReceivesIntoFreeSlot DEF Inv, TypeInv
    <3>2. Received \in Nat /\ \A j \in Int : ReceivedSlot(j) \in Slots
      BY <1>1, CountTypes DEF Inv, TypeInv
    <3>3. rx_desc \in [Slots -> XdpDesc] /\ ReceivedSlot(i) \in Slots
      BY <1>1, <3>2 DEF Inv, TypeInv, TypeOK
    <3>. QED BY <2>1, <3>1, <3>3 DEF KernelReceives
  <2>2. CASE UNCHANGED rx_desc
    BY <2>2
  <2>3. UNCHANGED rx_desc \/ \E l \in Lens : KernelReceives(l)
    BY <1>1 DEF Next, Calls, CallSteps, Kernel, Seek, Peek, PeekBody, SeekAndPeek,
                Commit, CommitAndKick, CommitCall, Kick, PollWait, PublishFill,
                PollReturns, KernelPosts, vars
  <2>. QED BY <2>1, <2>2, <2>3
<1>2. Inv /\ [Next]_vars =>
        [\A i \in 0 .. Received - 1 :
           rx_desc'[ReceivedSlot(i)] = rx_desc[ReceivedSlot(i)]]_vars
  BY <1>1
<1>. QED BY <1>2, Invariance, PTL DEF Spec, UnreadStable
=============================================================================
