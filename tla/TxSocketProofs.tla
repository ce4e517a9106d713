--------------------------- MODULE TxSocketProofs ---------------------------
(***************************************************************************)
(* Proofs about TxSocket, for every ring length, index width and UMEM that *)
(* RingAssumption allows.                                                  *)
(***************************************************************************)
EXTENDS TxSocket, RingProofs, SequenceFacts

-----------------------------------------------------------------------------
(* Type correctness. *)

\* A ring has a slot, and the UMEM a frame for each of them.
LEMMA SlotsNonempty ==
  /\ RingLen \in Nat \ {0}
  /\ Slots \subseteq Frames
  /\ 0 \in Frames
BY RingAssumption DEF Slots, Frames

\* A socket as create_socket makes it is well typed.
LEMMA InitType ==
  Init => TypeOK
<1> SUFFICES ASSUME Init PROVE TypeOK
  OBVIOUS
<1>1. tx_desc \in [Slots -> XdpDesc]
  <2>1. \A i \in Slots : i + 0 \in Frames
    BY SlotsNonempty DEF Slots
  <2>. QED BY <2>1 DEF Init, FillDesc, XdpDesc
<1>2. c_desc \in [Slots -> Frames]
  BY SlotsNonempty DEF Init
<1>3. stores \in Seq(SharedIndices) /\ Len(stores) <= StoreBuffer
      /\ inflight \in Seq(Frames)
  BY EmptySeq, TxAssumption DEF Init
<1>. QED BY <1>1, <1>2, <1>3, SlotsNonempty, IndexType, TxAssumption
         DEF Init, TypeOK, Results

\* What the two ways out of a step do to the thread's variables.
LEMMA ReturnType ==
  ASSUME NEW res \in Results, NEW n \in Nat, Return(res, n)
  PROVE  /\ pc' = "idle" /\ next' = "idle" /\ call' = "none" /\ count' = 0
         /\ seen' \in Index /\ len' \in Nat /\ ret' \in [res : Results, n : Nat]
BY IndexType DEF Return

\* What the stores that wait will leave in the shared indices.
LEMMA StoredType ==
  ASSUME TypeOK
  PROVE  Stored \in SharedIndices
<1>1. CASE stores = << >>
  BY <1>1 DEF Stored, SharedIndices, TypeOK
<1>2. CASE stores # << >>
  <2>1. stores \in Seq(SharedIndices) /\ Len(stores) \in 1 .. Len(stores)
    BY <1>2, LenProperties, EmptySeq DEF TypeOK
  <2>2. Last(stores) = stores[Len(stores)] /\ stores[Len(stores)] \in SharedIndices
    BY <2>1, ElementOfSeq DEF Last
  <2>. QED BY <1>2, <2>2 DEF Stored
<1>. QED BY <1>1, <1>2

\* A store leaves indices, wherever it waits.
LEMMA StoreType ==
  ASSUME TypeOK, NEW ix \in SharedIndices, Store(ix)
  PROVE  /\ tx_producer' \in Index /\ c_consumer' \in Index
         /\ stores' \in Seq(SharedIndices) /\ Len(stores') <= StoreBuffer
<1>1. CASE UNCHANGED stores /\ tx_producer' = ix.producer /\ c_consumer' = ix.consumer
  BY <1>1 DEF SharedIndices, TypeOK
<1>2. CASE /\ Len(stores) < StoreBuffer /\ stores' = Append(stores, ix)
           /\ UNCHANGED <<tx_producer, c_consumer>>
  <2>1. /\ Append(stores, ix) \in Seq(SharedIndices)
        /\ Len(Append(stores, ix)) = Len(stores) + 1 /\ Len(stores) \in Nat
    BY AppendProperties, LenProperties DEF TypeOK
  <2>2. Len(stores) + 1 <= StoreBuffer
    BY <1>2, <2>1, TxAssumption
  <2>. QED BY <1>2, <2>1, <2>2 DEF TypeOK
<1>. QED BY <1>1, <1>2 DEF Store

\* So do a system call and the memory system.
LEMMA DrainType ==
  ASSUME TypeOK, AllStored \/ StoreDrains
  PROVE  /\ tx_producer' \in Index /\ c_consumer' \in Index
         /\ stores' \in Seq(SharedIndices) /\ Len(stores') <= StoreBuffer
<1>1. CASE AllStored
  <2>1. Stored.producer \in Index /\ Stored.consumer \in Index
    BY StoredType DEF SharedIndices
  <2>2. << >> \in Seq(SharedIndices) /\ Len(<< >>) = 0
    BY EmptySeq
  <2>. QED BY <1>1, <2>1, <2>2, TxAssumption DEF AllStored
<1>2. CASE StoreDrains
  <2>1. stores \in Seq(SharedIndices) /\ stores # << >>
    BY <1>2 DEF StoreDrains, TypeOK
  <2>2. /\ Head(stores) \in SharedIndices /\ Tail(stores) \in Seq(SharedIndices)
        /\ Len(Tail(stores)) = Len(stores) - 1 /\ Len(stores) \in Nat
    BY <2>1, HeadTailProperties, LenProperties
  <2>3. Len(stores) - 1 <= StoreBuffer
    BY <2>2, TxAssumption DEF TypeOK
  <2>. QED BY <1>2, <2>2, <2>3 DEF StoreDrains, SharedIndices
<1>. QED BY <1>1, <1>2

\* What peek_ writes is a descriptor, and what it lends is a frame.
LEMMA PeekType ==
  ASSUME TypeOK, NEW index \in Nat, NEW l \in Nat
  PROVE  /\ PeekSlot(index) \in Slots
         /\ PeekResult(index, l) \in {"Ok", "InvalidIndex", "InvalidLength", "Panic"}
         /\ PeekWrites(index, l) => tx_desc' \in [Slots -> XdpDesc]
         /\ PeekWrites(index, l) =>
              \A s \in Slots : /\ tx_desc'[s].frame = tx_desc[s].frame
                               /\ s # PeekSlot(index) => tx_desc'[s] = tx_desc[s]
<1>1. PeekSlot(index) \in Slots
  <2>1. WrappingAdd(producer, index) \in Int
    BY IndexType DEF TypeOK, Index
  <2>. QED BY <2>1, SlotType DEF PeekSlot
<1>2. PeekResult(index, l) \in {"Ok", "InvalidIndex", "InvalidLength", "Panic"}
  BY DEF PeekResult, PeekChecks
<1>3. PeekWrites(index, l) =>
        /\ tx_desc' \in [Slots -> XdpDesc]
        /\ \A s \in Slots : /\ tx_desc'[s].frame = tx_desc[s].frame
                            /\ s # PeekSlot(index) => tx_desc'[s] = tx_desc[s]
  <2> SUFFICES ASSUME PeekWrites(index, l)
               PROVE  /\ tx_desc' \in [Slots -> XdpDesc]
                      /\ \A s \in Slots :
                           /\ tx_desc'[s].frame = tx_desc[s].frame
                           /\ s # PeekSlot(index) => tx_desc'[s] = tx_desc[s]
    OBVIOUS
  <2>1. CASE PeekChecks(index, l) = "Ok"
    <3>1. tx_desc' = [tx_desc EXCEPT ![PeekSlot(index)].len = l]
      BY <2>1 DEF PeekWrites
    <3>2. tx_desc \in [Slots -> XdpDesc]
      BY DEF TypeOK
    <3>. HIDE DEF PeekSlot
    <3>. QED BY <1>1, <3>1, <3>2 DEF XdpDesc
  <2>2. CASE PeekChecks(index, l) # "Ok"
    BY <2>2 DEF PeekWrites, TypeOK
  <2>. QED BY <2>1, <2>2
<1>. QED BY <1>1, <1>2, <1>3

\* commit_ leaves indices, and no less than zero descriptors available.
LEMMA CommitType ==
  ASSUME TypeOK, NEW n \in Nat, ~CommitRefused(n), CommitBody(n)
  PROVE  /\ available' \in Nat /\ producer' \in Index /\ owed' \in BOOLEAN
         /\ tx_producer' \in Index /\ c_consumer' \in Index
         /\ stores' \in Seq(SharedIndices) /\ Len(stores') <= StoreBuffer
<1>1. U32(n) \in Index
  BY IndexType
<1>2. U32(n) \in Nat /\ producer \in Int
  BY <1>1, RingAssumption DEF TypeOK, Index
<1>3. available' \in Nat
  BY <1>2 DEF CommitRefused, CommitBody, TypeOK
<1>4. producer' \in Index
  <2>1. U32(n) \in Int
    BY <1>2
  <2>. QED BY <1>2, <2>1, IndexType DEF CommitBody
<1>5. /\ tx_producer' \in Index /\ c_consumer' \in Index
      /\ stores' \in Seq(SharedIndices) /\ Len(stores') <= StoreBuffer
  <2>1. [producer |-> producer', consumer |-> Stored.consumer] \in SharedIndices
    BY <1>4, StoredType DEF SharedIndices
  <2>. QED BY <2>1, StoreType DEF CommitBody, UpdateProducer
<1>. QED BY <1>3, <1>4, <1>5 DEF CommitBody

\* Every step keeps the types.
LEMMA NextType ==
  TypeOK /\ [Next]_vars => TypeOK'
<1> SUFFICES ASSUME TypeOK, [Next]_vars PROVE TypeOK'
  OBVIOUS
<1>. USE DEF TypeOK, Results, socket, txRing, cRing, thread, kernel
<1>1. ASSUME NEW n \in 0 .. MaxSeek, Seek(n) PROVE TypeOK'
  BY <1>1, IndexType, TxAssumption DEF Seek, SeekEntry, Return, Continue
<1>2. ASSUME NEW index \in 0 .. RingLen, NEW l \in Lens, Peek(index, l)
      PROVE TypeOK'
  <2>1. index \in Nat /\ l \in Nat
    BY SlotsNonempty, TxAssumption
  <2>2. PeekWrites(index, l) /\ Return(PeekResult(index, l), 0)
    BY <1>2 DEF Peek, PeekBody
  <2>3. tx_desc' \in [Slots -> XdpDesc]
    BY <2>1, <2>2, PeekType
  <2>4. PeekSlot(index) \in Slots
        /\ PeekResult(index, l) \in {"Ok", "InvalidIndex", "InvalidLength", "Panic"}
    BY <2>1, PeekType
  <2>5. lent' \in SUBSET Frames
    <3>1. tx_desc[PeekSlot(index)].frame \in Frames
      BY <2>4 DEF XdpDesc
    <3>. QED BY <1>2, <3>1 DEF Peek, PeekBody
  <2>6. UNCHANGED <<available, producer, consumer, tx_producer, tx_consumer,
                    tx_wakeup, c_desc, c_producer, c_consumer, stores, inflight,
                    gone, owed>>
    BY <1>2 DEF Peek, PeekBody
  <2>7. pc' = "idle" /\ next' = "idle" /\ call' = "none" /\ count' = 0
        /\ seen' \in Index /\ len' \in Nat /\ ret' \in [res : Results, n : Nat]
    BY <2>2, <2>4, ReturnType
  <2>. QED BY <2>3, <2>5, <2>6, <2>7
<1>3. ASSUME NEW l \in Lens, SeekAndPeek(l) PROVE TypeOK'
  BY <1>3, IndexType, TxAssumption
     DEF SeekAndPeek, SeekEntry, Return, Continue
<1>4. ASSUME NEW n \in 0 .. MaxCommit, NEW op \in {"commit", "commit_and_kick"},
             NEW q \in {"idle", "kick"}, q = "idle" \/ op = "commit_and_kick",
             CommitCall(op, n, q)
      PROVE  TypeOK'
  <2>1. n \in Nat
    BY TxAssumption
  <2>2. CASE CommitRefused(n)
    BY <1>4, <2>1, <2>2, IndexType DEF CommitCall, Return
  <2>3. CASE ~CommitRefused(n)
    <3>1. CommitBody(n)
      BY <1>4, <2>3 DEF CommitCall
    <3>2. /\ available' \in Nat /\ producer' \in Index /\ owed' \in BOOLEAN
          /\ tx_producer' \in Index /\ c_consumer' \in Index
          /\ stores' \in Seq(SharedIndices) /\ Len(stores') <= StoreBuffer
      BY <2>1, <2>3, <3>1, CommitType
    <3>. QED BY <1>4, <2>1, <2>3, <3>2, IndexType
             DEF CommitCall, Return, Continue
  <2>. QED BY <2>2, <2>3
<1>5. ASSUME NEW l \in Lens, NEW op \in {"send", "send_blocking"},
             NEW q \in {"idle", "poll"}, q = "idle" \/ op = "send_blocking",
             SendCall(op, l, q)
      PROVE  TypeOK'
  <2>1. l \in Nat /\ 0 \in Nat
    BY TxAssumption
  <2>2. tx_desc' \in [Slots -> XdpDesc]
    BY <1>5, <2>1, PeekType DEF SendCall
  <2>3. PeekResult(0, l) \in {"Ok", "InvalidIndex", "InvalidLength", "Panic"}
    BY <2>1, PeekType
  <2>4. CASE PeekResult(0, l) = "Ok"
    <3>1. CommitBody(1) /\ ~CommitRefused(1)
      <4>1. 0 < available
        BY <2>4 DEF PeekResult, PeekChecks
      <4>2. U32(1) = 1
        BY ModUnique, RingAssumption DEF U32
      <4>. QED BY <1>5, <2>4, <4>1, <4>2 DEF SendCall, CommitRefused
    <3>2. /\ available' \in Nat /\ producer' \in Index /\ owed' \in BOOLEAN
          /\ tx_producer' \in Index /\ c_consumer' \in Index
          /\ stores' \in Seq(SharedIndices) /\ Len(stores') <= StoreBuffer
      BY <3>1, CommitType
    <3>. QED BY <1>5, <2>2, <2>4, <3>2, IndexType
             DEF SendCall, Return, Continue
  <2>5. CASE PeekResult(0, l) # "Ok"
    BY <1>5, <2>2, <2>3, <2>5, IndexType DEF SendCall, Return
  <2>. QED BY <2>4, <2>5
<1>6. ASSUME NEW op \in {"kick", "poll_wait"}, NEW q \in {"idle", "poll"},
             KickCall(op, q)
      PROVE  TypeOK'
  BY <1>6, IndexType DEF KickCall, Continue
<1>7. CASE Reclaim
  <2>1. consumer' \in Index
    BY <1>7, IndexType DEF Reclaim
  <2>2. tx_desc' \in [Slots -> XdpDesc]
    <3>1. Slot(consumer) \in Slots
      BY SlotType, IndexType
    <3>2. [frame |-> c_desc[Slot(consumer)], len |-> 0] \in XdpDesc
      BY <3>1 DEF XdpDesc
    <3>. QED BY <1>7, <3>2 DEF Reclaim
  <2>3. available' \in Nat
    BY <1>7 DEF Reclaim
  <2>4. pc' \in {"idle", "peek", "poll", "reclaim"} /\ next' \in {"idle", "peek", "poll"}
        /\ call' \in {"none", call} /\ count' \in Nat
        /\ seen' \in Index /\ len' \in Nat /\ ret' \in [res : Results, n : Nat]
    BY <1>7, <2>3, IndexType DEF Reclaim, Return, Continue
  <2>5. /\ tx_producer' \in Index /\ c_consumer' \in Index
        /\ stores' \in Seq(SharedIndices) /\ Len(stores') <= StoreBuffer
    <3>1. [producer |-> Stored.producer, consumer |-> ReclaimStored] \in SharedIndices
      BY StoredType, IndexType DEF SharedIndices, ReclaimStored
    <3>. QED BY <1>7, <3>1, StoreType DEF Reclaim, UpdateConsumer
  <2>6. UNCHANGED <<producer, tx_consumer, tx_wakeup, c_desc, c_producer, lent,
                    inflight, gone, owed>>
    BY <1>7 DEF Reclaim
  <2>. QED BY <2>1, <2>2, <2>3, <2>4, <2>5, <2>6
<1>8. CASE PeekAfterSeek
  <2>1. PeekWrites(0, len) /\ Return(PeekResult(0, len), 0)
    BY <1>8 DEF PeekAfterSeek, PeekBody
  <2>2. tx_desc' \in [Slots -> XdpDesc]
    BY <2>1, PeekType
  <2>3. PeekSlot(0) \in Slots
        /\ PeekResult(0, len) \in {"Ok", "InvalidIndex", "InvalidLength", "Panic"}
    BY PeekType
  <2>4. lent' \in SUBSET Frames
    <3>1. tx_desc[PeekSlot(0)].frame \in Frames
      BY <2>3 DEF XdpDesc
    <3>. QED BY <1>8, <3>1 DEF PeekAfterSeek, PeekBody
  <2>5. pc' = "idle" /\ next' = "idle" /\ call' = "none" /\ count' = 0
        /\ seen' \in Index /\ len' \in Nat /\ ret' \in [res : Results, n : Nat]
    BY <2>1, <2>3, ReturnType
  <2>6. UNCHANGED <<available, producer, consumer, tx_producer, tx_consumer,
                    tx_wakeup, c_desc, c_producer, c_consumer, stores, inflight,
                    gone, owed>>
    BY <1>8 DEF PeekAfterSeek, PeekBody
  <2>. QED BY <2>2, <2>4, <2>5, <2>6
<1>9. CASE KickTest
  <2>1. owed' \in BOOLEAN
    BY <1>9 DEF KickTest
  <2>2. pc' \in {"idle", "sendto", "peek", "poll"} /\ next' \in {"idle", "peek", "poll"}
        /\ call' \in {"none", call} /\ count' \in Nat
        /\ seen' \in Index /\ len' \in Nat /\ ret' \in [res : Results, n : Nat]
    BY <1>9, IndexType DEF KickTest, AfterKick, Return, Continue
  <2>. QED BY <1>9, <2>1, <2>2 DEF KickTest
<1>10. CASE SendToWakes \/ SendToFails
  <2>1. owed' \in BOOLEAN /\ tx_wakeup' \in BOOLEAN
    BY <1>10 DEF SendToWakes, SendToFails
  <2>2. pc' \in {"idle", "peek", "poll"} /\ next' \in {"idle", "peek", "poll"}
        /\ call' \in {"none", call} /\ count' \in Nat
        /\ seen' \in Index /\ len' \in Nat /\ ret' \in [res : Results, n : Nat]
    BY <1>10, IndexType DEF SendToWakes, SendToFails, AfterKick, Return, Continue
  <2>3. /\ tx_producer' \in Index /\ c_consumer' \in Index
        /\ stores' \in Seq(SharedIndices) /\ Len(stores') <= StoreBuffer
    BY <1>10, DrainType DEF SendToWakes, SendToFails
  <2>4. UNCHANGED <<available, producer, consumer, tx_desc, tx_consumer, c_desc,
                    c_producer, lent, inflight, gone>>
    BY <1>10 DEF SendToWakes, SendToFails
  <2>. QED BY <2>1, <2>2, <2>3, <2>4
<1>12. CASE PollReturns
  BY <1>12, IndexType DEF PollReturns, Return
<1>13. CASE StoreDrains
  <2>1. /\ tx_producer' \in Index /\ c_consumer' \in Index
        /\ stores' \in Seq(SharedIndices) /\ Len(stores') <= StoreBuffer
    BY <1>13, DrainType
  <2>2. UNCHANGED <<socket, tx_desc, tx_consumer, tx_wakeup, c_desc, c_producer,
                    thread, kernel, owed>>
    BY <1>13 DEF StoreDrains
  <2>. QED BY <2>1, <2>2
<1>14. CASE KernelPolled
  <2>1. /\ tx_producer' \in Index /\ c_consumer' \in Index
        /\ stores' \in Seq(SharedIndices) /\ Len(stores') <= StoreBuffer
    BY <1>14, DrainType DEF KernelPolled
  <2>2. /\ tx_wakeup' = FALSE /\ owed' = FALSE
        /\ UNCHANGED <<socket, tx_desc, tx_consumer, c_desc, c_producer, thread, kernel>>
    BY <1>14 DEF KernelPolled
  <2>. QED BY <2>1, <2>2
<1>15. CASE KernelTakes
  <2>1. tx_consumer' \in Index
    BY <1>15, IndexType DEF KernelTakes
  <2>2. inflight' \in Seq(Frames)
    <3>1. Slot(tx_consumer) \in Slots
      BY SlotType, IndexType
    <3>2. tx_desc[Slot(tx_consumer)].frame \in Frames
      BY <3>1 DEF XdpDesc
    <3>. QED BY <1>15, <3>2, AppendProperties DEF KernelTakes
  <2>3. UNCHANGED <<socket, tx_desc, tx_producer, tx_wakeup, cRing, thread, stores,
                    gone, owed>>
    BY <1>15 DEF KernelTakes
  <2>. QED BY <2>1, <2>2, <2>3
<1>16. ASSUME NEW f \in Frames, KernelCompletes(f) PROVE TypeOK'
  <2>1. c_producer' \in Index
    BY <1>16, IndexType DEF KernelCompletes
  <2>2. c_desc' \in [Slots -> Frames]
    BY <1>16 DEF KernelCompletes
  <2>3. inflight' \in Seq(Frames)
    <3>1. PICK i \in DOMAIN inflight : inflight' = RemoveAt(inflight, i)
      BY <1>16 DEF KernelCompletes
    <3>2. i \in 1 .. Len(inflight)
      BY <3>1, LenProperties
    <3>. QED BY <3>1, <3>2, RemoveAtValues
  <2>4. UNCHANGED <<socket, txRing, tx_wakeup, c_consumer, thread, stores, gone, owed>>
    BY <1>16 DEF KernelCompletes
  <2>. QED BY <2>1, <2>2, <2>3, <2>4
<1>17. CASE KernelSleeps \/ InterfaceGone
  <2>1. tx_wakeup' \in BOOLEAN /\ gone' \in BOOLEAN
    BY <1>17 DEF KernelSleeps, InterfaceGone
  <2>2. UNCHANGED <<socket, txRing, cRing, thread, stores, inflight, owed>>
    BY <1>17 DEF KernelSleeps, InterfaceGone
  <2>. QED BY <2>1, <2>2
<1>18. CASE UNCHANGED vars
  BY <1>18 DEF vars
<1>19. CASE Calls
  BY <1>19, <1>1, <1>2, <1>3, <1>4, <1>5, <1>6
     DEF Calls, Commit, CommitAndKick, Send, SendBlocking, Kick, PollWait
<1>20. CASE CallSteps
  BY <1>20, <1>7, <1>8, <1>9, <1>10, <1>12, <1>18 DEF CallSteps, PollAgain
<1>21. CASE Kernel
  BY <1>21, <1>13, <1>14, <1>15, <1>16, <1>17 DEF Kernel
<1>. QED BY <1>18, <1>19, <1>20, <1>21 DEF Next

\* Every variable keeps its type: the u32 indices stay in range through every
\* wrap, commit_'s subtraction never underflows, and no slot of the TX and
\* Completion rings ever holds an address outside the UMEM.  This holds for
\* every MaxSeek, also for the batches that corrupt the ring.
THEOREM TxTypeCorrect ==
  Spec => []TypeOK
BY InitType, NextType, PTL DEF Spec

-----------------------------------------------------------------------------
(* Counts and stores, for every application. *)

\* The counts behind the properties are natural numbers.
LEMMA CountTypes ==
  ASSUME TypeOK
  PROVE  /\ Queued \in Index /\ Completed \in Index
         /\ Queued \in Nat /\ Completed \in Nat
         /\ Len(inflight) \in Nat
<1>1. Queued \in Index /\ Completed \in Index
  <2>1. {producer, tx_consumer, c_producer, consumer} \subseteq Int
    BY RingAssumption DEF TypeOK, Index
  <2>. QED BY <2>1, IndexType DEF Queued, Completed
<1>2. Queued \in Nat /\ Completed \in Nat
  BY <1>1, RingAssumption DEF Index
<1>3. Len(inflight) \in Nat
  BY LenProperties DEF TypeOK
<1>. QED BY <1>1, <1>2, <1>3

\* The shared indices as the kernel sees them now, and as it will see them when
\* i stores have become visible.
View(i) ==
  IF i = 0 THEN [producer |-> tx_producer, consumer |-> c_consumer] ELSE stores[i]

\* What the kernel will count then.
PublishedAt(i) == WrappingSub(View(i).producer, tx_consumer)
UnclaimedAt(i) == WrappingSub(c_producer, View(i).consumer)

\* The last store leaves the socket's own indices; every store publishes more
\* or claims more than the ones before it, none takes anything back.
StoresInOrder ==
  /\ View(Len(stores)) = [producer |-> producer, consumer |-> consumer]
  /\ \A i, j \in 0 .. Len(stores) :
       i <= j => /\ PublishedAt(i) <= PublishedAt(j)
                 /\ UnclaimedAt(j) <= UnclaimedAt(i)
  /\ Len(inflight) + UnclaimedAt(0) <= RingLen

\* The views are indices, and the counts natural numbers.
LEMMA ViewType ==
  ASSUME TypeOK
  PROVE  /\ Len(stores) \in Nat
         /\ \A i \in 0 .. Len(stores) :
              /\ View(i) \in SharedIndices
              /\ PublishedAt(i) \in Index /\ PublishedAt(i) \in Nat
              /\ UnclaimedAt(i) \in Index /\ UnclaimedAt(i) \in Nat
         /\ Stored = View(Len(stores))
<1>1. Len(stores) \in Nat
  BY LenProperties DEF TypeOK
<1>2. ASSUME NEW i \in 0 .. Len(stores) PROVE View(i) \in SharedIndices
  <2>1. CASE i = 0
    BY <2>1 DEF View, SharedIndices, TypeOK
  <2>2. CASE i # 0
    <3>1. i \in 1 .. Len(stores)
      BY <1>1, <2>2
    <3>. QED BY <2>2, <3>1, ElementOfSeq DEF View, TypeOK
  <2>. QED BY <2>1, <2>2
<1>3. ASSUME NEW i \in 0 .. Len(stores)
      PROVE  /\ PublishedAt(i) \in Index /\ PublishedAt(i) \in Nat
             /\ UnclaimedAt(i) \in Index /\ UnclaimedAt(i) \in Nat
  <2>1. {View(i).producer, View(i).consumer, tx_consumer, c_producer} \subseteq Int
    <3>1. View(i).producer \in Index /\ View(i).consumer \in Index
      BY <1>2 DEF SharedIndices
    <3>. HIDE DEF View
    <3>. QED BY <3>1, RingAssumption DEF TypeOK, Index
  <2>. QED BY <2>1, IndexType DEF PublishedAt, UnclaimedAt
<1>4. Stored = View(Len(stores))
  <2>1. stores = << >> <=> Len(stores) = 0
    BY EmptySeq DEF TypeOK
  <2>. QED BY <2>1 DEF Stored, View, Last
<1>. QED BY <1>1, <1>2, <1>3, <1>4

\* What the order of the stores says of the counts: no view sees more than was
\* committed, nor less than is left to reclaim.
LEMMA ViewBounds ==
  ASSUME TypeOK, StoresInOrder
  PROVE  /\ PublishedAt(Len(stores)) = Queued /\ UnclaimedAt(Len(stores)) = Completed
         /\ \A i \in 0 .. Len(stores) :
              /\ PublishedAt(0) <= PublishedAt(i) /\ PublishedAt(i) <= Queued
              /\ Completed <= UnclaimedAt(i) /\ UnclaimedAt(i) <= UnclaimedAt(0)
         /\ PublishedAt(0) = Published /\ UnclaimedAt(0) = Unclaimed
<1>1. PublishedAt(Len(stores)) = Queued /\ UnclaimedAt(Len(stores)) = Completed
  BY DEF StoresInOrder, PublishedAt, UnclaimedAt, Queued, Completed
<1>2. Len(stores) \in Nat
  BY ViewType
<1>3. ASSUME NEW i \in 0 .. Len(stores)
      PROVE  /\ PublishedAt(0) <= PublishedAt(i) /\ PublishedAt(i) <= PublishedAt(Len(stores))
             /\ UnclaimedAt(Len(stores)) <= UnclaimedAt(i) /\ UnclaimedAt(i) <= UnclaimedAt(0)
  <2>1. /\ 0 \in 0 .. Len(stores) /\ Len(stores) \in 0 .. Len(stores)
        /\ 0 <= i /\ i <= Len(stores)
    BY <1>2
  <2>. QED BY <2>1 DEF StoresInOrder
<1>4. PublishedAt(0) = Published /\ UnclaimedAt(0) = Unclaimed
  BY DEF PublishedAt, UnclaimedAt, View, Published, Unclaimed
<1>. QED BY <1>1, <1>3, <1>4

\* The memory system makes no store visible, the oldest one, or all of them.
MemoryStep ==
  \/ UNCHANGED <<tx_producer, c_consumer, stores>>
  \/ AllStored
  \/ StoreDrains

\* The first k stores have become visible and the others keep their order.
LEMMA MemoryShifts ==
  ASSUME TypeOK, MemoryStep
  PROVE  \E k \in 0 .. Len(stores) :
           /\ Len(stores') = Len(stores) - k
           /\ \A i \in 0 .. Len(stores) - k : View(i)' = View(i + k)
<1>1. Len(stores) \in Nat
  BY ViewType
<1>2. CASE UNCHANGED <<tx_producer, c_consumer, stores>>
  <2>1. \A i \in 0 .. Len(stores) - 0 : View(i)' = View(i + 0)
    BY <1>1, <1>2 DEF View
  <2>2. 0 \in 0 .. Len(stores) /\ Len(stores') = Len(stores) - 0
    BY <1>1, <1>2
  <2>. QED BY <2>1, <2>2
<1>3. CASE AllStored
  <2>1. Len(stores) \in 0 .. Len(stores) /\ Len(stores) - Len(stores) = 0
    BY <1>1
  <2>2. Len(stores') = 0
    BY <1>3, EmptySeq DEF AllStored
  <2>3. ASSUME NEW i \in 0 .. 0 PROVE View(i)' = View(i + Len(stores))
    <3>1. i = 0 /\ i + Len(stores) = Len(stores)
      BY <1>1
    <3>2. View(i)' = [producer |-> Stored.producer, consumer |-> Stored.consumer]
      BY <1>3, <3>1 DEF AllStored, View
    <3>3. Stored \in SharedIndices /\ Stored = View(Len(stores))
      BY StoredType, ViewType
    <3>. QED BY <3>1, <3>2, <3>3 DEF SharedIndices
  <2>. QED BY <2>1, <2>2, <2>3
<1>4. CASE StoreDrains
  <2>1. /\ stores \in Seq(SharedIndices) /\ stores # << >>
        /\ tx_producer' = Head(stores).producer /\ c_consumer' = Head(stores).consumer
        /\ stores' = Tail(stores)
    BY <1>4 DEF StoreDrains, TypeOK
  <2>2. /\ Len(stores') = Len(stores) - 1 /\ 1 \in 0 .. Len(stores)
        /\ Head(stores) \in SharedIndices /\ Head(stores) = stores[1]
        /\ \A i \in 1 .. Len(stores) - 1 : stores'[i] = stores[i + 1]
    <3>1. /\ Head(stores) \in SharedIndices /\ Len(Tail(stores)) = Len(stores) - 1
          /\ \A i \in 1 .. Len(Tail(stores)) : Tail(stores)[i] = stores[i + 1]
      BY <2>1, HeadTailProperties
    <3>2. Head(stores) = stores[1]
      BY <2>1
    <3>3. 1 \in 0 .. Len(stores)
      BY <1>1, <2>1, EmptySeq
    <3>. QED BY <2>1, <3>1, <3>2, <3>3
  <2>3. ASSUME NEW i \in 0 .. Len(stores) - 1 PROVE View(i)' = View(i + 1)
    <3>1. i + 1 # 0 /\ View(i + 1) = stores[i + 1]
      BY <1>1 DEF View
    <3>2. CASE i = 0
      <4>1. View(i)' = [producer |-> Head(stores).producer,
                        consumer |-> Head(stores).consumer]
        BY <2>1, <3>2 DEF View
      <4>. QED BY <2>2, <3>1, <3>2, <4>1 DEF SharedIndices
    <3>3. CASE i # 0
      <4>1. i \in 1 .. Len(stores) - 1
        BY <1>1, <3>3
      <4>. QED BY <2>2, <3>1, <3>3, <4>1 DEF View
    <3>. QED BY <3>2, <3>3
  <2>. QED BY <2>2, <2>3
<1>. QED BY <1>2, <1>3, <1>4 DEF MemoryStep

\* Stores that become visible stay in order.
LEMMA DrainKeepsOrder ==
  ASSUME TypeOK, StoresInOrder, MemoryStep,
         UNCHANGED <<producer, consumer, tx_consumer, c_producer, inflight>>
  PROVE  StoresInOrder'
<1>1. PICK k \in 0 .. Len(stores) :
        /\ Len(stores') = Len(stores) - k
        /\ \A i \in 0 .. Len(stores) - k : View(i)' = View(i + k)
  BY MemoryShifts
<1>2. Len(stores) \in Nat /\ k \in Nat /\ Len(inflight) \in Nat
  BY ViewType, CountTypes
<1>3. ASSUME NEW i \in 0 .. Len(stores')
      PROVE  /\ i + k \in 0 .. Len(stores) /\ View(i)' = View(i + k)
             /\ PublishedAt(i)' = PublishedAt(i + k) /\ UnclaimedAt(i)' = UnclaimedAt(i + k)
  <2>1. i + k \in 0 .. Len(stores) /\ View(i)' = View(i + k)
    BY <1>1, <1>2
  <2>. QED BY <2>1 DEF PublishedAt, UnclaimedAt, WrappingSub
<1>4. View(Len(stores))' = [producer |-> producer', consumer |-> consumer']
  <2>1. Len(stores') \in 0 .. Len(stores') /\ Len(stores') + k = Len(stores)
    BY <1>1, <1>2
  <2>2. ASSUME NEW n, n = Len(stores') PROVE View(n)' = View(Len(stores))'
    BY <2>2 DEF View
  <2>. QED BY <1>3, <2>1, <2>2 DEF StoresInOrder
<1>5. ASSUME NEW i \in 0 .. Len(stores'), NEW j \in 0 .. Len(stores'), i <= j
      PROVE  PublishedAt(i)' <= PublishedAt(j)' /\ UnclaimedAt(j)' <= UnclaimedAt(i)'
  <2>1. i + k <= j + k
    BY <1>1, <1>2, <1>5
  <2>. QED BY <1>3, <2>1 DEF StoresInOrder
<1>6. Len(inflight') + UnclaimedAt(0)' <= RingLen
  <2>1. 0 \in 0 .. Len(stores') /\ 0 + k = k
    BY <1>1, <1>2
  <2>2. UnclaimedAt(0)' = UnclaimedAt(k)
    BY <1>3, <2>1
  <2>3. UnclaimedAt(k) <= UnclaimedAt(0) /\ UnclaimedAt(k) \in Nat /\ UnclaimedAt(0) \in Nat
    BY <1>1, <1>2, ViewBounds, ViewType
  <2>. QED BY <1>2, <2>2, <2>3, RingAssumption DEF StoresInOrder
<1>. QED BY <1>4, <1>5, <1>6 DEF StoresInOrder

\* A store of the socket's new indices, which publish no less and leave no more
\* unclaimed than the old ones, keeps the order.
LEMMA StoreKeepsOrder ==
  ASSUME TypeOK, TypeOK', StoresInOrder,
         Store([producer |-> producer', consumer |-> consumer']),
         UNCHANGED <<tx_consumer, c_producer, inflight>>,
         Queued <= Queued', Completed' <= Completed
  PROVE  StoresInOrder'
<1> DEFINE ix == [producer |-> producer', consumer |-> consumer']
           N == Len(stores)
<1>1. N \in Nat /\ Queued \in Nat /\ Completed \in Nat /\ Len(inflight) \in Nat
  BY ViewType, CountTypes
<1>2. /\ WrappingSub(ix.producer, tx_consumer) = Queued'
      /\ WrappingSub(c_producer, ix.consumer) = Completed'
      /\ Queued' \in Nat /\ Completed' \in Nat
  <2>1. {producer', tx_consumer', c_producer', consumer'} \subseteq Int
    BY RingAssumption DEF TypeOK, Index
  <2>2. WrappingSub(producer', tx_consumer') \in Nat /\ WrappingSub(c_producer', consumer') \in Nat
    BY <2>1, IndexType
  <2>. QED BY <2>2 DEF Queued, Completed
<1>3. CASE /\ StoreBuffer = 0 /\ UNCHANGED stores
           /\ tx_producer' = ix.producer /\ c_consumer' = ix.consumer
  <2>1. Len(stores') = 0 /\ N = 0
    BY <1>1, <1>3 DEF TypeOK
  <2>2. View(0)' = ix
    BY <1>3 DEF View
  <2>3. ASSUME NEW i \in 0 .. 0
        PROVE  PublishedAt(i)' = Queued' /\ UnclaimedAt(i)' = Completed'
    BY <1>2, <2>2 DEF PublishedAt, UnclaimedAt, WrappingSub
  <2>4. View(Len(stores))' = ix
    BY <2>1, <2>2 DEF View
  <2>5. Len(inflight') + UnclaimedAt(0)' <= RingLen
    <3>1. UnclaimedAt(0)' = Completed' /\ Completed <= UnclaimedAt(0) /\ UnclaimedAt(0) \in Nat
      BY <1>1, <2>3, ViewBounds, ViewType
    <3>. QED BY <1>1, <1>2, <3>1, RingAssumption DEF StoresInOrder
  <2>. HIDE DEF ix, N
  <2>6. ASSUME NEW i \in 0 .. Len(stores'), NEW j \in 0 .. Len(stores'), i <= j
        PROVE  PublishedAt(i)' <= PublishedAt(j)' /\ UnclaimedAt(j)' <= UnclaimedAt(i)'
    BY <1>2, <2>1, <2>3
  <2>. QED BY <2>4, <2>5, <2>6 DEF StoresInOrder, ix
<1>4. CASE /\ stores' = Append(stores, ix) /\ UNCHANGED <<tx_producer, c_consumer>>
  <2>1. ix \in SharedIndices
    BY DEF TypeOK, SharedIndices
  <2>2. /\ Len(stores') = N + 1 /\ stores'[N + 1] = ix
        /\ \A i \in 1 .. N : stores'[i] = stores[i]
    BY <1>4, <2>1, AppendProperties DEF TypeOK
  <2>3. ASSUME NEW i \in 0 .. N
        PROVE  /\ PublishedAt(i)' = PublishedAt(i) /\ PublishedAt(i) <= Queued'
               /\ UnclaimedAt(i)' = UnclaimedAt(i) /\ Completed' <= UnclaimedAt(i)
               /\ PublishedAt(i) \in Nat /\ UnclaimedAt(i) \in Nat
    <3>1. View(i)' = View(i)
      BY <1>1, <1>4, <2>2 DEF View
    <3>2. PublishedAt(i)' = PublishedAt(i) /\ UnclaimedAt(i)' = UnclaimedAt(i)
      BY <3>1 DEF PublishedAt, UnclaimedAt, WrappingSub
    <3>3. /\ PublishedAt(i) <= Queued /\ Completed <= UnclaimedAt(i)
          /\ PublishedAt(i) \in Nat /\ UnclaimedAt(i) \in Nat
      BY ViewBounds, ViewType
    <3>. HIDE DEF ix, N
    <3>. QED BY <1>1, <1>2, <3>2, <3>3
  <2>4. ASSUME NEW i \in Nat, i = N + 1
        PROVE  /\ View(i)' = ix /\ View(Len(stores))' = ix
               /\ PublishedAt(i)' = Queued' /\ UnclaimedAt(i)' = Completed'
    <3>1. View(i)' = ix /\ View(Len(stores))' = ix
      BY <1>1, <2>2, <2>4 DEF View
    <3>. QED BY <1>2, <3>1 DEF PublishedAt, UnclaimedAt, WrappingSub
  <2>. HIDE DEF ix, N
  <2>5. ASSUME NEW i \in 0 .. Len(stores'), NEW j \in 0 .. Len(stores'), i <= j
        PROVE  PublishedAt(i)' <= PublishedAt(j)' /\ UnclaimedAt(j)' <= UnclaimedAt(i)'
    <3>1. CASE i \in 0 .. N /\ j \in 0 .. N
      BY <2>3, <2>5, <3>1 DEF StoresInOrder, N
    <3>2. CASE i \in 0 .. N /\ j = N + 1
      <4>1. PublishedAt(j)' = Queued' /\ UnclaimedAt(j)' = Completed'
        BY <1>1, <2>4, <3>2
      <4>. QED BY <2>3, <3>2, <4>1
    <3>3. CASE i = N + 1 /\ j = N + 1
      <4>1. PublishedAt(j)' = Queued' /\ UnclaimedAt(j)' = Completed'
        BY <1>1, <2>4, <3>3
      <4>2. PublishedAt(i)' = Queued' /\ UnclaimedAt(i)' = Completed'
        BY <1>1, <2>4, <3>3
      <4>. QED BY <1>2, <4>1, <4>2
    <3>4. \/ i \in 0 .. N /\ j \in 0 .. N
          \/ i \in 0 .. N /\ j = N + 1
          \/ i = N + 1 /\ j = N + 1
      BY <1>1, <2>2, <2>5
    <3>. QED BY <3>1, <3>2, <3>3, <3>4
  <2>6. Len(inflight') + UnclaimedAt(0)' <= RingLen
    BY <1>1, <2>3 DEF StoresInOrder
  <2>7. View(Len(stores))' = ix
    BY <1>1, <2>4
  <2>. QED BY <2>5, <2>6, <2>7 DEF StoresInOrder, ix
<1>. QED BY <1>3, <1>4 DEF Store


\* The counts of a step that moves none of the indices they come from.
LEMMA SameCounts ==
  ASSUME UNCHANGED <<producer, consumer, tx_consumer, c_producer>>
  PROVE  Queued' = Queued /\ Completed' = Completed
BY DEF Queued, Completed, WrappingSub

\* commit_ moves the split: n descriptors from available to queued.
LEMMA CommitMoves ==
  ASSUME TypeOK, Accounting, NEW n \in Nat, ~CommitRefused(n), CommitBody(n),
         tx_consumer' = tx_consumer
  PROVE  /\ Queued' = Queued + U32(n)
         /\ Queued' + available' = Queued + available
<1>1. U32(n) \in Index /\ U32(n) \in Nat
  BY IndexType
<1>2. U32(n) <= available
  BY <1>1 DEF CommitRefused, TypeOK
<1>3. Queued + U32(n) < IndexMod
  BY <1>1, <1>2, CountTypes, RingAssumption
     DEF Accounting, TypeOK
<1>4. Queued' = Queued + U32(n)
  BY <1>1, <1>3, SubAddLeft DEF Queued, CommitBody, TypeOK
<1>5. available' = available - U32(n)
  BY DEF CommitBody
<1>6. Queued' + available' = Queued + available
  BY <1>1, <1>4, <1>5, CountTypes DEF TypeOK
<1>. QED BY <1>4, <1>6

\* A step that commits.
LEMMA CommitCounts ==
  ASSUME TypeOK, TypeOK', Accounting, StoresInOrder,
         NEW n \in Nat, ~CommitRefused(n), CommitBody(n),
         UNCHANGED <<consumer, tx_consumer, c_producer, inflight>>
  PROVE  Accounting' /\ StoresInOrder'
<1>1. /\ Queued' = Queued + U32(n)
      /\ Queued' + available' = Queued + available
  BY CommitMoves
<1>2. Completed' = Completed /\ U32(n) \in Nat
  BY IndexType DEF Completed, WrappingSub
<1>3. Accounting'
  BY <1>1, <1>2 DEF Accounting
<1>4. Store([producer |-> producer', consumer |-> consumer'])
  <2>1. Stored = [producer |-> producer, consumer |-> consumer]
    BY ViewType DEF StoresInOrder
  <2>. QED BY <2>1 DEF CommitBody, UpdateProducer
<1>5. Queued <= Queued' /\ Completed' <= Completed
  BY <1>1, <1>2, CountTypes
<1>. QED BY <1>3, <1>4, <1>5, StoreKeepsOrder

\* A turn of seek_'s loop that finds a completion.
LEMMA ReclaimCounts ==
  ASSUME TypeOK, TypeOK', Accounting, StoresInOrder, Reclaim, Completed > 0
  PROVE  /\ Accounting' /\ StoresInOrder'
         /\ Queued' = Queued /\ Completed' = Completed - 1
<1>1. /\ consumer' = WrappingAdd(consumer, 1) /\ available' = available + 1
      /\ UpdateConsumer(consumer')
      /\ UNCHANGED <<producer, tx_consumer, c_producer, inflight>>
  BY DEF Reclaim, ReclaimStored, kernel
<1>2. Queued' = Queued
  BY <1>1 DEF Queued, WrappingSub
<1>3. Completed' = Completed - 1
  BY <1>1, SubAddRight DEF Completed, TypeOK
<1>4. Accounting'
  <2>1. /\ available \in Nat /\ Queued \in Nat /\ Completed \in Nat
        /\ Len(inflight) \in Nat /\ Len(inflight') = Len(inflight)
    BY <1>1, CountTypes DEF TypeOK
  <2>2. Queued + (available + 1) + Len(inflight) + (Completed - 1) = RingLen
    BY <2>1 DEF Accounting
  <2>. QED BY <1>1, <1>2, <1>3, <2>1, <2>2 DEF Accounting
<1>5. Store([producer |-> producer', consumer |-> consumer'])
  <2>1. Stored = [producer |-> producer, consumer |-> consumer]
    BY ViewType DEF StoresInOrder
  <2>. QED BY <1>1, <2>1 DEF UpdateConsumer
<1>6. Queued <= Queued' /\ Completed' <= Completed
  BY <1>2, <1>3, CountTypes
<1>. QED BY <1>1, <1>2, <1>3, <1>4, <1>5, <1>6, StoreKeepsOrder

\* A descriptor the kernel takes has been published, hence committed, and its
\* completion will find room.
LEMMA TakesCounts ==
  ASSUME TypeOK, Accounting, StoresInOrder, KernelTakes
  PROVE  /\ Accounting' /\ StoresInOrder'
         /\ Queued > 0 /\ Queued' = Queued - 1 /\ Completed' = Completed
<1>1. /\ tx_consumer' = WrappingAdd(tx_consumer, 1) /\ tx_consumer # tx_producer
      /\ Len(inflight) + Unclaimed < RingLen
      /\ Len(inflight') = Len(inflight) + 1
      /\ UNCHANGED <<available, producer, consumer, tx_producer, c_producer,
                     c_consumer, stores>>
  <2>1. tx_desc[Slot(tx_consumer)].frame \in Frames
    <3>1. Slot(tx_consumer) \in Slots
      BY SlotType, IndexType DEF TypeOK
    <3>. QED BY <3>1 DEF TypeOK, XdpDesc
  <2>2. Len(inflight') = Len(inflight) + 1
    BY <2>1, AppendProperties DEF KernelTakes, TypeOK
  <2>. QED BY <2>2 DEF KernelTakes, socket, cRing
<1>2. Len(stores) \in Nat /\ Len(inflight) \in Nat /\ 0 \in 0 .. Len(stores)
  BY ViewType, CountTypes
<1>3. PublishedAt(0) > 0 /\ PublishedAt(0) \in Nat
  <2>1. PublishedAt(0) # 0
    BY <1>1, SubZero DEF PublishedAt, View, TypeOK
  <2>2. PublishedAt(0) \in Nat
    BY <1>2, ViewType
  <2>. QED BY <2>1, <2>2
<1>4. ASSUME NEW i \in 0 .. Len(stores)
      PROVE  /\ View(i)' = View(i)
             /\ PublishedAt(i)' = PublishedAt(i) - 1 /\ PublishedAt(i) \in Nat
             /\ UnclaimedAt(i)' = UnclaimedAt(i) /\ UnclaimedAt(i) \in Nat
  <2>1. View(i)' = View(i)
    BY <1>1 DEF View
  <2>2. PublishedAt(i) > 0 /\ PublishedAt(i) \in Nat /\ UnclaimedAt(i) \in Nat
    BY <1>3, ViewBounds, ViewType
  <2>3. View(i).producer \in Index /\ tx_consumer \in Index
    BY ViewType DEF SharedIndices, TypeOK
  <2>4. WrappingSub(View(i).producer, WrappingAdd(tx_consumer, 1)) = PublishedAt(i) - 1
    BY <2>2, <2>3, SubAddRight DEF PublishedAt
  <2>. QED BY <1>1, <2>1, <2>2, <2>4 DEF PublishedAt, UnclaimedAt, WrappingSub
<1>5. Queued > 0
  BY <1>2, <1>3, ViewBounds, CountTypes
<1>6. Queued' = Queued - 1
  BY <1>1, <1>5, SubAddRight DEF Queued, TypeOK
<1>7. Completed' = Completed
  BY <1>1 DEF Completed, WrappingSub
<1>8. Accounting'
  <2>1. /\ available \in Nat /\ Queued \in Nat /\ Completed \in Nat
        /\ Len(inflight) \in Nat
    BY CountTypes DEF TypeOK
  <2>2. (Queued - 1) + available + (Len(inflight) + 1) + Completed = RingLen
    BY <2>1 DEF Accounting
  <2>. QED BY <1>1, <1>6, <1>7, <2>2 DEF Accounting
<1>9. View(Len(stores))' = [producer |-> producer', consumer |-> consumer']
  BY <1>1 DEF View, StoresInOrder
<1>10. Len(inflight') + UnclaimedAt(0)' <= RingLen
  <2>1. UnclaimedAt(0) = Unclaimed /\ UnclaimedAt(0)' = UnclaimedAt(0)
        /\ UnclaimedAt(0) \in Nat
    BY <1>2, <1>4, ViewBounds
  <2>. QED BY <1>1, <1>2, <2>1, RingAssumption
<1>11. ASSUME NEW i \in 0 .. Len(stores'), NEW j \in 0 .. Len(stores'), i <= j
       PROVE  PublishedAt(i)' <= PublishedAt(j)' /\ UnclaimedAt(j)' <= UnclaimedAt(i)'
  <2>1. i \in 0 .. Len(stores) /\ j \in 0 .. Len(stores)
    BY <1>1
  <2>2. PublishedAt(i) <= PublishedAt(j) /\ UnclaimedAt(j) <= UnclaimedAt(i)
    BY <1>11, <2>1 DEF StoresInOrder
  <2>. QED BY <1>4, <2>1, <2>2
<1>. QED BY <1>5, <1>6, <1>7, <1>8, <1>9, <1>10, <1>11 DEF StoresInOrder

\* A frame that is completed.
LEMMA CompletesCounts ==
  ASSUME TypeOK, Accounting, StoresInOrder, NEW f, KernelCompletes(f)
  PROVE  /\ Accounting' /\ StoresInOrder'
         /\ Len(inflight') = Len(inflight) - 1
         /\ Queued' = Queued /\ Completed' = Completed + 1
<1>1. /\ c_producer' = WrappingAdd(c_producer, 1)
      /\ Len(inflight') = Len(inflight) - 1 /\ Len(inflight) > 0
      /\ UNCHANGED <<available, producer, consumer, tx_producer, tx_consumer,
                     c_consumer, stores>>
  <2>1. PICK i \in DOMAIN inflight : inflight' = RemoveAt(inflight, i)
    BY DEF KernelCompletes
  <2>2. i \in 1 .. Len(inflight) /\ inflight \in Seq(Frames)
    BY <2>1, LenProperties DEF TypeOK
  <2>3. Len(inflight') = Len(inflight) - 1 /\ Len(inflight) > 0
    BY <2>1, <2>2, RemoveAtValues, CountTypes
  <2>. QED BY <2>3 DEF KernelCompletes, socket, txRing
<1>2. Len(stores) \in Nat /\ Len(inflight) \in Nat /\ 0 \in 0 .. Len(stores)
  BY ViewType, CountTypes
<1>3. ASSUME NEW i \in 0 .. Len(stores)
      PROVE  /\ View(i)' = View(i)
             /\ PublishedAt(i)' = PublishedAt(i) /\ PublishedAt(i) \in Nat
             /\ UnclaimedAt(i)' = UnclaimedAt(i) + 1 /\ UnclaimedAt(i) \in Nat
  <2>1. View(i)' = View(i)
    BY <1>1 DEF View
  <2>2. PublishedAt(i) \in Nat /\ UnclaimedAt(i) \in Nat
    BY ViewType
  <2>3. UnclaimedAt(i) + 1 < IndexMod
    <3>1. UnclaimedAt(i) <= UnclaimedAt(0) /\ UnclaimedAt(0) \in Nat
      BY <1>2, ViewBounds, ViewType
    <3>. QED BY <1>1, <1>2, <2>2, <3>1, RingAssumption DEF StoresInOrder
  <2>4. View(i).consumer \in Index /\ c_producer \in Index
    BY ViewType DEF SharedIndices, TypeOK
  <2>5. WrappingSub(WrappingAdd(c_producer, 1), View(i).consumer) = UnclaimedAt(i) + 1
    BY <2>3, <2>4, IndexType, SubAddLeft DEF UnclaimedAt
  <2>. QED BY <1>1, <2>1, <2>2, <2>5 DEF PublishedAt, UnclaimedAt, WrappingSub
<1>4. Queued' = Queued
  BY <1>1 DEF Queued, WrappingSub
<1>5. Completed' = Completed + 1
  <2>1. Completed + 1 < IndexMod
    BY <1>1, CountTypes, RingAssumption DEF Accounting, TypeOK
  <2>. QED BY <1>1, <2>1, IndexType, SubAddLeft DEF Completed, TypeOK
<1>6. Accounting'
  BY <1>1, <1>4, <1>5, CountTypes DEF Accounting, TypeOK
<1>7. View(Len(stores))' = [producer |-> producer', consumer |-> consumer']
  BY <1>1 DEF View, StoresInOrder
<1>8. Len(inflight') + UnclaimedAt(0)' <= RingLen
  BY <1>1, <1>2, <1>3 DEF StoresInOrder
<1>9. ASSUME NEW i \in 0 .. Len(stores'), NEW j \in 0 .. Len(stores'), i <= j
      PROVE  PublishedAt(i)' <= PublishedAt(j)' /\ UnclaimedAt(j)' <= UnclaimedAt(i)'
  <2>1. i \in 0 .. Len(stores) /\ j \in 0 .. Len(stores)
    BY <1>1
  <2>2. PublishedAt(i) <= PublishedAt(j) /\ UnclaimedAt(j) <= UnclaimedAt(i)
    BY <1>9, <2>1 DEF StoresInOrder
  <2>. QED BY <1>3, <2>1, <2>2
<1>. QED BY <1>1, <1>4, <1>5, <1>6, <1>7, <1>8, <1>9 DEF StoresInOrder

\* The inductive invariant of the counts.
Counts ==
  /\ TypeOK
  /\ Accounting
  /\ StoresInOrder
  /\ ReclaimBounded

\* The counts are right in a new socket.
LEMMA CountsInit ==
  Init => Counts
<1> SUFFICES ASSUME Init PROVE Counts
  OBVIOUS
<1>1. TypeOK
  BY InitType
<1>2. WrappingSub(0, 0) = 0
  BY SubZero, IndexType
<1>3. /\ Queued = 0 /\ Completed = 0 /\ available = RingLen
      /\ Len(inflight) = 0 /\ Len(stores) = 0
  BY <1>2, EmptySeq DEF Init, Queued, Completed
<1>4. Accounting
  BY <1>3, RingAssumption DEF Accounting
<1>5. \A i \in 0 .. 0 : PublishedAt(i) = 0 /\ UnclaimedAt(i) = 0
  BY <1>2 DEF PublishedAt, UnclaimedAt, View, Init
<1>6. StoresInOrder
  <2>1. View(Len(stores)) = [producer |-> producer, consumer |-> consumer]
    BY <1>3 DEF View, Init
  <2>2. \A i, j \in 0 .. Len(stores) :
          i <= j => PublishedAt(i) <= PublishedAt(j) /\ UnclaimedAt(j) <= UnclaimedAt(i)
    BY <1>3, <1>5
  <2>3. Len(inflight) + UnclaimedAt(0) <= RingLen
    BY <1>3, <1>5, RingAssumption
  <2>. QED BY <2>1, <2>2, <2>3 DEF StoresInOrder
<1>7. ReclaimBounded
  BY DEF ReclaimBounded, Init
<1>. QED BY <1>1, <1>4, <1>6, <1>7 DEF Counts

\* A step that moves none of the socket's indices, and enters no loop.
LEMMA QuietCounts ==
  ASSUME Counts, TypeOK', MemoryStep,
         UNCHANGED <<available, producer, consumer, tx_consumer, c_producer, inflight>>,
         pc' # "reclaim" \/ UNCHANGED <<pc, seen, count>>
  PROVE  Counts'
<1>. USE DEF Counts
<1>1. Queued' = Queued /\ Completed' = Completed
  BY SameCounts
<1>2. Accounting'
  BY <1>1 DEF Accounting
<1>3. StoresInOrder'
  BY DrainKeepsOrder
<1>4. ReclaimBounded'
  BY <1>1 DEF ReclaimBounded, WrappingSub
<1>. QED BY <1>2, <1>3, <1>4

\* Every step keeps the counts, whatever counts the application asks for.
LEMMA CountsNext ==
  Counts /\ [Next]_vars => Counts'
<1> SUFFICES ASSUME Counts, [Next]_vars PROVE Counts'
  OBVIOUS
<1>. USE DEF socket, txRing, cRing, thread, kernel
<1>t. TypeOK /\ TypeOK'
  BY NextType DEF Counts
\* Entering seek_.
<1>1. ASSUME NEW op, NEW n \in Nat, NEW q \in {"idle", "peek"}, NEW l, SeekEntry(op, n, q, l)
      PROVE  Counts'
  <2>1. /\ UNCHANGED <<available, producer, consumer, tx_consumer, c_producer, inflight>>
        /\ MemoryStep
    BY <1>1 DEF SeekEntry, MemoryStep
  <2>2. CASE pc' # "reclaim"
    BY <1>t, <2>1, <2>2, QuietCounts
  <2>3. CASE pc' = "reclaim"
    <3>1. /\ available < n /\ c_producer # consumer /\ seen' = c_producer /\ count' = n
      BY <1>1, <2>3 DEF SeekEntry, Return, Continue
    <3>2. Completed > 0
      BY <1>t, <3>1, SubZero, CountTypes DEF Completed, TypeOK
    <3>3. Queued' = Queued /\ Completed' = Completed
      BY <2>1, SameCounts
    <3>4. WrappingSub(seen', consumer') \in 1 .. Completed'
      <4>1. WrappingSub(seen', consumer') = Completed'
        BY <2>1, <3>1, <3>3 DEF Completed
      <4>. QED BY <1>t, <3>2, <3>3, <4>1, CountTypes
    <3>5. ReclaimBounded'
      BY <2>1, <3>1, <3>4 DEF ReclaimBounded, WrappingSub
    <3>6. Accounting'
      BY <2>1, <3>3 DEF Counts, Accounting
    <3>7. StoresInOrder'
      BY <2>1, DrainKeepsOrder DEF Counts
    <3>. QED BY <1>t, <3>5, <3>6, <3>7 DEF Counts
  <2>. QED BY <2>2, <2>3
<1>2. ASSUME NEW n \in 0 .. MaxSeek, Seek(n) PROVE Counts'
  <2>1. n \in Nat
    BY TxAssumption
  <2>. QED BY <1>1, <1>2, <2>1 DEF Seek
<1>3. ASSUME NEW l, SeekAndPeek(l) PROVE Counts'
  BY <1>1, <1>3 DEF SeekAndPeek
\* commit_
<1>4. ASSUME NEW n \in Nat, ~CommitRefused(n), CommitBody(n),
             UNCHANGED <<consumer, tx_consumer, c_producer, inflight>>, pc' # "reclaim"
      PROVE  Counts'
  <2>1. Accounting' /\ StoresInOrder'
    BY <1>4, <1>t, CommitCounts DEF Counts
  <2>2. ReclaimBounded'
    BY <1>4 DEF ReclaimBounded
  <2>. QED BY <1>t, <2>1, <2>2 DEF Counts
<1>5. ASSUME NEW n \in 0 .. MaxCommit, NEW op, NEW q \in {"idle", "kick"},
             CommitCall(op, n, q)
      PROVE  Counts'
  <2>1. n \in Nat
    BY TxAssumption
  <2>2. UNCHANGED <<consumer, tx_consumer, c_producer, inflight>> /\ pc' # "reclaim"
    BY <1>5 DEF CommitCall, Return, Continue
  <2>3. CASE CommitRefused(n)
    <3>1. UNCHANGED <<available, producer>> /\ MemoryStep
      BY <1>5, <2>3 DEF CommitCall, MemoryStep
    <3>. QED BY <1>t, <2>2, <3>1, QuietCounts
  <2>4. CASE ~CommitRefused(n)
    <3>1. CommitBody(n)
      BY <1>5, <2>4 DEF CommitCall
    <3>. QED BY <1>4, <2>1, <2>2, <2>4, <3>1
  <2>. QED BY <2>3, <2>4
\* send and send_blocking
<1>6. ASSUME NEW l, NEW op, NEW q \in {"idle", "poll"}, SendCall(op, l, q)
      PROVE  Counts'
  <2>1. UNCHANGED <<consumer, tx_consumer, c_producer, inflight>> /\ pc' # "reclaim"
    BY <1>6 DEF SendCall, Return, Continue
  <2>2. CASE PeekResult(0, l) # "Ok"
    <3>1. UNCHANGED <<available, producer>> /\ MemoryStep
      BY <1>6, <2>2 DEF SendCall, MemoryStep
    <3>. QED BY <1>t, <2>1, <3>1, QuietCounts
  <2>3. CASE PeekResult(0, l) = "Ok"
    <3>1. CommitBody(1) /\ 1 \in Nat
      BY <1>6, <2>3 DEF SendCall
    <3>2. ~CommitRefused(1)
      <4>1. 0 < available
        BY <1>t, <2>3 DEF PeekResult, PeekChecks, TypeOK
      <4>2. U32(1) = 1
        BY ModUnique, RingAssumption DEF U32
      <4>. QED BY <1>t, <4>1, <4>2 DEF CommitRefused, TypeOK
    <3>. QED BY <1>4, <2>1, <3>1, <3>2
  <2>. QED BY <2>2, <2>3
\* The steps that touch no index of the socket's.
<1>7. ASSUME UNCHANGED <<available, producer, consumer, tx_consumer, c_producer, inflight>>,
             MemoryStep, pc' # "reclaim" \/ UNCHANGED <<pc, seen, count>>
      PROVE  Counts'
  BY <1>7, <1>t, QuietCounts
<1>8. ASSUME NEW index, NEW l, PeekBody(index, l) PROVE Counts'
  BY <1>7, <1>8 DEF PeekBody, Return, MemoryStep
<1>9. ASSUME NEW op, NEW q, KickCall(op, q) PROVE Counts'
  BY <1>7, <1>9 DEF KickCall, Continue, MemoryStep
<1>10. CASE KickTest \/ SendToWakes \/ SendToFails \/ PollReturns
  <2>1. pc' # "reclaim"
    BY <1>10, <1>t DEF KickTest, SendToWakes, SendToFails, PollReturns, AfterKick,
                       Return, Continue, TypeOK
  <2>2. /\ UNCHANGED <<available, producer, consumer, tx_consumer, c_producer, inflight>>
        /\ MemoryStep
    BY <1>10 DEF KickTest, SendToWakes, SendToFails, PollReturns, MemoryStep
  <2>. QED BY <1>7, <2>1, <2>2
<1>11. CASE KernelPolled \/ KernelSleeps \/ InterfaceGone \/ UNCHANGED vars
  BY <1>7, <1>11 DEF KernelPolled, KernelSleeps, InterfaceGone, vars, MemoryStep
<1>12. CASE StoreDrains
  BY <1>7, <1>12 DEF StoreDrains, MemoryStep
\* One turn of the loop of seek_: it ends when seen is reached, and what is seen
\* lies ahead until then.
<1>13. CASE Reclaim
  <2>1. /\ pc = "reclaim" /\ consumer' = WrappingAdd(consumer, 1)
        /\ available' = available + 1
        /\ pc' = "reclaim" => ~ReclaimDone /\ UNCHANGED <<seen, count>>
    BY <1>13, <1>t DEF Reclaim, Return, Continue, TypeOK
  <2>2. WrappingSub(seen, consumer) \in 1 .. Completed /\ available < count
    BY <2>1 DEF Counts, ReclaimBounded
  <2>3. Completed > 0
    BY <1>t, <2>2, CountTypes
  <2>4. Accounting' /\ StoresInOrder' /\ Completed' = Completed - 1
    BY <1>13, <1>t, <2>3, ReclaimCounts DEF Counts
  <2>5. ReclaimBounded'
    <3> SUFFICES ASSUME pc' = "reclaim"
                 PROVE  /\ WrappingSub(seen', consumer') \in 1 .. Completed'
                        /\ available' < count'
      BY DEF ReclaimBounded, WrappingSub
    <3>1. seen # consumer' /\ available' < count /\ seen' = seen /\ count' = count
      BY <1>t, <2>1 DEF ReclaimDone, TypeOK
    <3>2. WrappingSub(seen, consumer') = WrappingSub(seen, consumer) - 1
      BY <1>t, <2>1, <2>2, SubAddRight, CountTypes DEF TypeOK
    <3>3. WrappingSub(seen, consumer') # 0
      BY <1>t, <3>1, SubZero DEF TypeOK
    <3>. QED BY <1>t, <2>2, <2>4, <3>1, <3>2, <3>3, CountTypes
  <2>. QED BY <1>t, <2>4, <2>5 DEF Counts
\* The kernel.
<1>14. CASE KernelTakes
  <2>1. Accounting' /\ StoresInOrder' /\ Completed' = Completed
    BY <1>14, <1>t, TakesCounts DEF Counts
  <2>2. UNCHANGED <<available, consumer, pc, seen, count>>
    BY <1>14 DEF KernelTakes
  <2>3. ReclaimBounded'
    BY <2>1, <2>2 DEF Counts, ReclaimBounded, WrappingSub
  <2>. QED BY <1>t, <2>1, <2>3 DEF Counts
<1>15. ASSUME NEW f, KernelCompletes(f) PROVE Counts'
  <2>1. Accounting' /\ StoresInOrder' /\ Completed' = Completed + 1
    BY <1>15, <1>t, CompletesCounts DEF Counts
  <2>2. UNCHANGED <<available, consumer, pc, seen, count>>
    BY <1>15 DEF KernelCompletes
  <2>3. ReclaimBounded'
    <3> SUFFICES ASSUME pc' = "reclaim"
                 PROVE  /\ WrappingSub(seen', consumer') \in 1 .. Completed'
                        /\ available' < count'
      BY DEF ReclaimBounded, WrappingSub
    <3>1. WrappingSub(seen, consumer) \in 1 .. Completed /\ available < count
      BY <2>2 DEF Counts, ReclaimBounded
    <3>2. WrappingSub(seen, consumer) \in 1 .. Completed + 1
      BY <1>t, <3>1, CountTypes
    <3>. QED BY <2>1, <2>2, <3>1, <3>2
  <2>. QED BY <1>t, <2>1, <2>3 DEF Counts
<1>16. CASE Calls
  BY <1>16, <1>2, <1>3, <1>5, <1>6, <1>8, <1>9
     DEF Calls, Peek, Commit, CommitAndKick, Send, SendBlocking, Kick, PollWait
<1>17. CASE CallSteps
  BY <1>17, <1>8, <1>10, <1>11, <1>13 DEF CallSteps, PeekAfterSeek, PollAgain
<1>18. CASE Kernel
  BY <1>18, <1>11, <1>12, <1>14, <1>15 DEF Kernel
<1>. QED BY <1>11, <1>16, <1>17, <1>18 DEF Next

\* The counts are right at any time.
LEMMA CountsInvariance ==
  Spec => []Counts
BY CountsInit, CountsNext, PTL DEF Spec

\* For every count passed to seek_n, the batches that overwrite descriptors
\* included, the loop of seek_ finds a completion in every turn and ends at the
\* producer index it has cached, although the kernel moves on meanwhile.
THEOREM TxReclaimBounded ==
  Spec => []ReclaimBounded
<1>1. Counts => ReclaimBounded
  BY DEF Counts
<1>. QED BY <1>1, CountsInvariance, PTL

\* For every application, and however many stores of either ring's index the
\* memory system holds back, the kernel never takes a descriptor that was not
\* committed nor writes over a completion that was not reclaimed.
THEOREM TxKernelViews ==
  Spec => []KernelViews
<1>1. ASSUME Counts PROVE KernelViews
  <2>1. TypeOK /\ StoresInOrder
    BY <1>1 DEF Counts
  <2>2. 0 \in 0 .. Len(stores)
    BY <2>1, ViewType
  <2>3. Published <= Queued /\ Completed <= Unclaimed
    BY <2>1, <2>2, ViewBounds
  <2>4. Len(inflight) + Unclaimed <= RingLen
    BY <2>1, ViewBounds DEF StoresInOrder
  <2>5. ASSUME stores = << >> PROVE Published = Queued /\ Unclaimed = Completed
    <3>1. Len(stores) = 0
      BY <2>5, EmptySeq
    <3>. QED BY <2>1, <3>1, ViewBounds
  <2>. QED BY <2>3, <2>4, <2>5 DEF KernelViews
<1>. QED BY <1>1, CountsInvariance, PTL

-----------------------------------------------------------------------------
(* Frame ownership. *)

\* The slots a count of positions reaches from an index.
LEMMA PositionSlots ==
  ASSUME TypeOK, NEW i \in Int
  PROVE  WindowSlot(i) \in Slots /\ Slot(consumer + i) \in Slots
<1>1. tx_consumer + i \in Int /\ consumer + i \in Int
  BY RingAssumption DEF TypeOK, Index
<1>. QED BY <1>1, SlotType DEF WindowSlot

\* Ownership depends on the frames behind the window, not on where the window
\* is split into queued and available descriptors, nor on their lengths.
LEMMA SameWindow ==
  ASSUME TypeOK, TypeOK', FrameOwnership,
         UNCHANGED <<consumer, tx_consumer, c_desc, c_producer, inflight>>,
         \A s \in Slots : tx_desc'[s].frame = tx_desc[s].frame,
         Queued' + available' = Queued + available
  PROVE  FrameOwnership'
<1>1. Completed' = Completed
  BY DEF Completed, WrappingSub
<1>2. \A i \in Int : WindowSlot(i)' = WindowSlot(i) /\ WindowSlot(i) \in Slots
  BY PositionSlots DEF WindowSlot
<1>3. \A i \in Int : tx_desc'[WindowSlot(i)'].frame = tx_desc[WindowSlot(i)].frame
  BY <1>2
<1>4. ASSUME NEW i \in 0 .. Queued' + available' - 1
      PROVE  i \in 0 .. Queued + available - 1 /\ i \in Int
  <2>1. Queued \in Int /\ available \in Int
    BY CountTypes DEF TypeOK
  <2>2. Queued' \in Int /\ available' \in Int
    <3>1. producer' \in Int /\ tx_consumer' \in Int
      BY RingAssumption DEF TypeOK, Index
    <3>2. WrappingSub(producer', tx_consumer') \in Index
      BY <3>1, IndexType
    <3>. QED BY <3>2, RingAssumption DEF Queued, TypeOK, Index
  <2>3. ASSUME NEW q \in Int, NEW a \in Int, NEW r \in Int, NEW b \in Int,
               q + a = r + b, NEW j \in 0 .. q + a - 1
        PROVE  j \in 0 .. r + b - 1 /\ j \in Int
    BY <2>3
  <2>. QED BY <1>4, <2>1, <2>2, <2>3, Zenon
<1>5. Accounting'
  BY <1>1, CountTypes DEF FrameOwnership, Accounting, TypeOK
<1>6. WindowDistinct'
  <2> SUFFICES ASSUME NEW i \in 0 .. Queued' + available' - 1,
                      NEW j \in 0 .. Queued' + available' - 1,
                      tx_desc'[WindowSlot(i)'].frame = tx_desc'[WindowSlot(j)'].frame
               PROVE  i = j
    BY DEF WindowDistinct
  <2>1. /\ i \in 0 .. Queued + available - 1 /\ i \in Int
        /\ j \in 0 .. Queued + available - 1 /\ j \in Int
    BY <1>4
  <2>2. tx_desc[WindowSlot(i)].frame = tx_desc[WindowSlot(j)].frame
    BY <1>3, <2>1
  <2>. QED BY <2>1, <2>2 DEF FrameOwnership, WindowDistinct
<1>7. CompletedDistinct'
  BY <1>1 DEF FrameOwnership, CompletedDistinct
<1>8. CompletedFrames' = CompletedFrames
  BY <1>1 DEF CompletedFrames
<1>9. PlacesDisjoint'
  <2>1. ASSUME NEW i \in 0 .. Queued' + available' - 1
        PROVE  tx_desc'[WindowSlot(i)'].frame \notin ToSet(inflight') \cup CompletedFrames'
    <3>1. i \in 0 .. Queued + available - 1 /\ i \in Int
      BY <1>4
    <3>2. tx_desc[WindowSlot(i)].frame \notin ToSet(inflight) \cup CompletedFrames
      BY <3>1 DEF FrameOwnership, PlacesDisjoint
    <3>. QED BY <1>3, <1>8, <3>1, <3>2
  <2>2. ToSet(inflight') \cap CompletedFrames' = {}
    BY <1>8 DEF FrameOwnership, PlacesDisjoint
  <2>. QED BY <2>1, <2>2 DEF PlacesDisjoint
<1>10. InflightDistinct'
  BY DEF FrameOwnership, InflightDistinct
<1>. QED BY <1>5, <1>6, <1>7, <1>9, <1>10 DEF FrameOwnership

\* A turn of seek_'s loop that starts with no available descriptor appends
\* the oldest completed frame to the window.
LEMMA ReclaimOwns ==
  ASSUME TypeOK, FrameOwnership, Accounting', Reclaim, available = 0, Completed > 0
  PROVE  /\ FrameOwnership' /\ Queued' = Queued /\ Completed' = Completed - 1
         /\ \A i \in 0 .. Queued - 1 :
              tx_desc'[WindowSlot(i)].frame = tx_desc[WindowSlot(i)].frame
         /\ tx_desc'[WindowSlot(Queued)].frame = c_desc[Slot(consumer)]
<1> DEFINE f == c_desc[Slot(consumer)]
<1>1. /\ consumer' = WrappingAdd(consumer, 1)
      /\ tx_desc' = [tx_desc EXCEPT ![Slot(producer)] = [frame |-> f, len |-> 0]]
      /\ available' = 1
      /\ UNCHANGED <<producer, tx_consumer, c_desc, c_producer, inflight>>
  BY DEF Reclaim, ReclaimSlot, kernel
<1>2. Queued' = Queued
  BY <1>1 DEF Queued, WrappingSub
<1>3. Completed' = Completed - 1
  BY <1>1, SubAddRight DEF Completed, TypeOK
<1>4. Queued + Len(inflight) + Completed = RingLen
  BY CountTypes DEF FrameOwnership, Accounting
<1>5. Queued < RingLen /\ Completed <= RingLen /\ RingLen \in Nat
  BY <1>4, CountTypes, RingAssumption
<1>6. Slot(producer) = WindowSlot(Queued)
  <2>1. Slot(tx_consumer + (Queued + 0)) = Slot(producer + 0)
    BY SlotSub DEF Queued, TypeOK
  <2>2. Queued + 0 = Queued /\ producer + 0 = producer
    BY CountTypes, RingAssumption DEF TypeOK, Index
  <2>. QED BY <2>1, <2>2 DEF WindowSlot
<1>7. \A i \in 0 .. Queued - 1 : WindowSlot(i) # Slot(producer)
  <2> SUFFICES ASSUME NEW i \in 0 .. Queued - 1,
                      WindowSlot(i) = WindowSlot(Queued)
               PROVE  FALSE
    BY <1>6
  <2>1. tx_consumer \in Int /\ Queued \in Int
    BY CountTypes, RingAssumption DEF TypeOK, Index
  <2>2. tx_consumer + i = tx_consumer + Queued
    BY <2>1, <1>5, SlotInjective DEF WindowSlot
  <2>. QED BY <2>1, <2>2
<1>8. \A i \in Int : WindowSlot(i)' = WindowSlot(i) /\ WindowSlot(i) \in Slots
  BY <1>1, PositionSlots DEF WindowSlot
<1>9. \A i \in 0 .. Queued - 1 :
        tx_desc'[WindowSlot(i)'].frame = tx_desc[WindowSlot(i)].frame
  <2>1. tx_desc \in [Slots -> XdpDesc]
    BY DEF TypeOK
  <2>. QED BY <1>1, <1>7, <1>8, <2>1
<1>10. ASSUME NEW q \in Int, q = Queued
       PROVE  tx_desc'[WindowSlot(q)'].frame = f
  <2>1. tx_desc \in [Slots -> XdpDesc] /\ Queued \in Int
    BY CountTypes DEF TypeOK
  <2>2. WindowSlot(q)' = Slot(producer) /\ Slot(producer) \in Slots
    BY <1>6, <1>8, <1>10
  <2>3. tx_desc'[Slot(producer)] = [frame |-> f, len |-> 0]
    BY <1>1, <2>1, <2>2
  <2>. QED BY <2>2, <2>3
<1>11. f \in CompletedFrames
  <2>1. Slot(consumer + 0) = Slot(consumer)
    BY RingAssumption DEF TypeOK, Index
  <2>2. 0 \in 0 .. Completed - 1
    BY CountTypes
  <2>. QED BY <2>1, <2>2 DEF CompletedFrames
<1>12. \A i \in 0 .. Completed' - 1 :
         /\ i + 1 \in 0 .. Completed - 1
         /\ c_desc'[Slot(consumer + i)'] = c_desc[Slot(consumer + (i + 1))]
  <2> TAKE i \in 0 .. Completed' - 1
  <2>1. Slot(consumer' + i) = Slot(consumer + (1 + i))
    BY <1>1, IndexType, SlotAdd DEF TypeOK
  <2>2. 1 + i = i + 1 /\ i + 1 \in 0 .. Completed - 1
    BY <1>3, CountTypes
  <2>3. Slot(consumer + i)' = Slot(consumer' + i)
    BY DEF Slot
  <2>. QED BY <1>1, <2>1, <2>2, <2>3
<1>13. \A i \in 0 .. Completed' - 1 : c_desc'[Slot(consumer + i)'] # f
  <2> TAKE i \in 0 .. Completed' - 1
  <2>1. i + 1 \in 0 .. Completed - 1 /\ 0 \in 0 .. Completed - 1 /\ i + 1 # 0
    BY <1>12, CountTypes
  <2>2. Slot(consumer + 0) = Slot(consumer)
    BY RingAssumption DEF TypeOK, Index
  <2>3. c_desc[Slot(consumer + (i + 1))] # c_desc[Slot(consumer + 0)]
    BY <2>1 DEF FrameOwnership, CompletedDistinct
  <2>. QED BY <1>12, <2>2, <2>3
<1>. HIDE DEF f
<1>14. CompletedFrames' \subseteq CompletedFrames \ {f}
  BY <1>12, <1>13 DEF CompletedFrames
<1>15. InflightDistinct'
  BY <1>1 DEF FrameOwnership, InflightDistinct
<1>16. 0 .. Queued' + available' - 1 = 0 .. Queued
  BY <1>1, <1>2, CountTypes
<1>17. 0 .. Queued + available - 1 = 0 .. Queued - 1
  BY CountTypes
<1>18. WindowDistinct'
  <2> SUFFICES ASSUME NEW i \in 0 .. Queued, NEW j \in 0 .. Queued,
                      tx_desc'[WindowSlot(i)'].frame = tx_desc'[WindowSlot(j)'].frame
               PROVE  i = j
    BY <1>16 DEF WindowDistinct
  <2>1. ASSUME NEW k \in 0 .. Queued - 1 PROVE tx_desc'[WindowSlot(k)'].frame # f
    BY <1>9, <1>11, <1>17 DEF FrameOwnership, PlacesDisjoint
  <2>2. (i = Queued \/ i \in 0 .. Queued - 1) /\ (j = Queued \/ j \in 0 .. Queued - 1)
    BY CountTypes
  <2>3. CASE i \in 0 .. Queued - 1 /\ j \in 0 .. Queued - 1
    BY <1>9, <1>17, <2>3 DEF FrameOwnership, WindowDistinct
  <2>4. CASE i = Queued /\ j \in 0 .. Queued - 1
    <3>1. tx_desc'[WindowSlot(i)'].frame = f
      BY <1>10, <2>4, CountTypes
    <3>. QED BY <2>1, <2>4, <3>1
  <2>5. CASE j = Queued /\ i \in 0 .. Queued - 1
    <3>1. tx_desc'[WindowSlot(j)'].frame = f
      BY <1>10, <2>5, CountTypes
    <3>. QED BY <2>1, <2>5, <3>1
  <2>. QED BY <2>2, <2>3, <2>4, <2>5
<1>19. CompletedDistinct'
  <2> SUFFICES ASSUME NEW i \in 0 .. Completed' - 1, NEW j \in 0 .. Completed' - 1,
                      c_desc'[Slot(consumer + i)'] = c_desc'[Slot(consumer + j)']
               PROVE  i = j
    BY DEF CompletedDistinct, Slot
  <2>1. i + 1 = j + 1
    BY <1>12 DEF FrameOwnership, CompletedDistinct
  <2>. QED BY <2>1
<1>20. PlacesDisjoint'
  <2>1. ToSet(inflight') \cap CompletedFrames' = {}
    BY <1>1, <1>14 DEF FrameOwnership, PlacesDisjoint
  <2>2. ASSUME NEW i \in 0 .. Queued
        PROVE  tx_desc'[WindowSlot(i)'].frame \notin ToSet(inflight') \cup CompletedFrames'
    <3>1. CASE i = Queued
      <4>1. f \notin ToSet(inflight)
        BY <1>11 DEF FrameOwnership, PlacesDisjoint
      <4>2. tx_desc'[WindowSlot(i)'].frame = f
        BY <1>10, <3>1, CountTypes
      <4>. QED BY <1>1, <1>14, <4>1, <4>2
    <3>2. CASE i \in 0 .. Queued - 1
      <4>1. tx_desc[WindowSlot(i)].frame \notin ToSet(inflight) \cup CompletedFrames
        BY <1>17, <3>2 DEF FrameOwnership, PlacesDisjoint
      <4>2. tx_desc'[WindowSlot(i)'].frame = tx_desc[WindowSlot(i)].frame
        BY <1>9, <3>2
      <4>. QED BY <1>1, <1>14, <4>1, <4>2
    <3>. QED BY <3>1, <3>2, CountTypes
  <2>. QED BY <1>16, <2>1, <2>2 DEF PlacesDisjoint
<1>21. /\ \A i \in 0 .. Queued - 1 :
            tx_desc'[WindowSlot(i)].frame = tx_desc[WindowSlot(i)].frame
       /\ tx_desc'[WindowSlot(Queued)].frame = f
  <2>1. Queued \in Int
    BY CountTypes
  <2>. QED BY <1>8, <1>9, <1>10, <2>1
<1>. QED BY <1>2, <1>3, <1>15, <1>18, <1>19, <1>20, <1>21 DEF FrameOwnership, f

\* The kernel takes the oldest queued descriptor: the window starts one
\* position later, and its first frame is in flight.
LEMMA KernelTakesOwns ==
  ASSUME TypeOK, FrameOwnership, Accounting', KernelTakes, Queued > 0
  PROVE  /\ FrameOwnership'
         /\ Queued' = Queued - 1
         /\ ToSet(inflight') = ToSet(inflight) \cup {tx_desc[WindowSlot(0)].frame}
         /\ \A i \in Int : tx_desc'[WindowSlot(i)'] = tx_desc[WindowSlot(i + 1)]
<1> DEFINE g == tx_desc[WindowSlot(0)].frame
<1>1. Slot(tx_consumer) = WindowSlot(0)
  <2>1. tx_consumer + 0 = tx_consumer
    BY RingAssumption DEF TypeOK, Index
  <2>. QED BY <2>1 DEF WindowSlot
<1>2. /\ tx_consumer' = WrappingAdd(tx_consumer, 1)
      /\ inflight' = Append(inflight, g)
      /\ UNCHANGED <<available, producer, consumer, tx_desc, c_desc, c_producer>>
  BY <1>1 DEF KernelTakes, socket, cRing
<1>3. Queued' = Queued - 1
  BY <1>2, SubAddRight DEF Queued, TypeOK
<1>4. Completed' = Completed
  BY <1>2 DEF Completed, WrappingSub
<1>5. CompletedFrames' = CompletedFrames
  BY <1>2, <1>4 DEF CompletedFrames
<1>6. \A i \in Int : tx_desc'[WindowSlot(i)'] = tx_desc[WindowSlot(i + 1)]
  <2> TAKE i \in Int
  <2>1. Slot(tx_consumer' + i) = Slot(tx_consumer + (1 + i))
    BY <1>2, IndexType, SlotAdd DEF TypeOK
  <2>2. 1 + i = i + 1
    OBVIOUS
  <2>3. WindowSlot(i)' = WindowSlot(i + 1)
    BY <2>1, <2>2 DEF WindowSlot, Slot
  <2>. QED BY <1>2, <2>3
<1>7. ASSUME NEW i \in 0 .. Queued' + available' - 1
      PROVE  i \in Int /\ i + 1 \in Int /\ i + 1 # 0
             /\ i + 1 \in 0 .. Queued + available - 1
  <2>1. i \in 0 .. (Queued - 1) + available - 1
    BY <1>2, <1>3
  <2>. QED BY <2>1, CountTypes DEF TypeOK
<1>8. 0 \in 0 .. Queued + available - 1
  BY CountTypes DEF TypeOK
<1>9. g \notin ToSet(inflight) \cup CompletedFrames
  BY <1>8 DEF FrameOwnership, PlacesDisjoint
<1>10. g \in Frames /\ inflight \in Seq(Frames)
  <2>1. WindowSlot(0) \in Slots
    BY PositionSlots
  <2>. QED BY <2>1 DEF TypeOK, XdpDesc
<1>. HIDE DEF g
<1>11. /\ ToSet(inflight') = ToSet(inflight) \cup {g}
       /\ InflightDistinct'
  BY <1>2, <1>9, <1>10, AppendSet DEF FrameOwnership, InflightDistinct
<1>12. WindowDistinct'
  <2> SUFFICES ASSUME NEW i \in 0 .. Queued' + available' - 1,
                      NEW j \in 0 .. Queued' + available' - 1,
                      tx_desc'[WindowSlot(i)'].frame = tx_desc'[WindowSlot(j)'].frame
               PROVE  i = j
    BY DEF WindowDistinct
  <2>1. tx_desc[WindowSlot(i + 1)].frame = tx_desc[WindowSlot(j + 1)].frame
    BY <1>6, <1>7
  <2>2. i + 1 = j + 1
    BY <1>7, <2>1 DEF FrameOwnership, WindowDistinct
  <2>. QED BY <1>7, <2>2
<1>13. CompletedDistinct'
  BY <1>2, <1>4 DEF FrameOwnership, CompletedDistinct
<1>14. PlacesDisjoint'
  <2>1. ASSUME NEW i \in 0 .. Queued' + available' - 1
        PROVE  tx_desc'[WindowSlot(i)'].frame \notin ToSet(inflight') \cup CompletedFrames'
    <3>1. tx_desc'[WindowSlot(i)'].frame = tx_desc[WindowSlot(i + 1)].frame
      BY <1>6, <1>7
    <3>2. tx_desc[WindowSlot(i + 1)].frame \notin ToSet(inflight) \cup CompletedFrames
      BY <1>7 DEF FrameOwnership, PlacesDisjoint
    <3>3. tx_desc[WindowSlot(i + 1)].frame # g
      BY <1>7, <1>8 DEF FrameOwnership, WindowDistinct, g
    <3>. QED BY <1>5, <1>11, <3>1, <3>2, <3>3
  <2>2. ToSet(inflight') \cap CompletedFrames' = {}
    BY <1>5, <1>9, <1>11 DEF FrameOwnership, PlacesDisjoint
  <2>. QED BY <2>1, <2>2 DEF PlacesDisjoint
<1>. QED BY <1>3, <1>6, <1>11, <1>12, <1>13, <1>14 DEF FrameOwnership, g

\* The kernel completes a frame: it leaves the frames in flight for the slot
\* behind the last completion.
LEMMA KernelCompletesOwns ==
  ASSUME TypeOK, FrameOwnership, Accounting', NEW f \in Frames, KernelCompletes(f),
         Completed' = Completed + 1, Completed < RingLen
  PROVE  /\ FrameOwnership'
         /\ f \in ToSet(inflight) /\ ToSet(inflight') = ToSet(inflight) \ {f}
         /\ \A i \in 0 .. Completed - 1 :
              c_desc'[Slot(consumer + i)] = c_desc[Slot(consumer + i)]
         /\ c_desc'[Slot(consumer + Completed)] = f
<1>1. /\ c_desc' = [c_desc EXCEPT ![Slot(c_producer)] = f]
      /\ UNCHANGED <<available, producer, consumer, tx_desc, tx_consumer>>
  BY DEF KernelCompletes, socket, txRing
<1>2. /\ f \in ToSet(inflight)
      /\ ToSet(inflight') = ToSet(inflight) \ {f}
      /\ InflightDistinct'
  <2>1. PICK i \in DOMAIN inflight : inflight[i] = f /\ inflight' = RemoveAt(inflight, i)
    BY DEF KernelCompletes
  <2>2. i \in 1 .. Len(inflight) /\ inflight \in Seq(Frames)
    BY <2>1, LenProperties DEF TypeOK
  <2>3. IsInjective(inflight)
    BY DEF FrameOwnership, InflightDistinct
  <2>4. f \in ToSet(inflight)
    BY <2>1, <2>2 DEF ToSet
  <2>. QED BY <2>1, <2>2, <2>3, <2>4, RemoveAtSet DEF InflightDistinct
<1>3. Completed < RingLen /\ RingLen < IndexMod /\ RingLen \in Nat /\ IndexMod \in Nat
  BY RingAssumption
<1>4. Completed' = Completed + 1
  OBVIOUS
<1>5. Queued' = Queued
  BY <1>1 DEF Queued, WrappingSub
<1>6. \A i \in Int : WindowSlot(i)' = WindowSlot(i)
  BY <1>1 DEF WindowSlot, Slot
<1>7. Slot(c_producer) = Slot(consumer + Completed) /\ Slot(c_producer) \in Slots
  <2>1. Slot(consumer + (Completed + 0)) = Slot(c_producer + 0)
    BY SlotSub DEF Completed, TypeOK
  <2>2. Completed + 0 = Completed /\ c_producer + 0 = c_producer
        /\ c_producer \in Int
    BY CountTypes, RingAssumption DEF TypeOK, Index
  <2>. QED BY <2>1, <2>2, SlotType
<1>8. ASSUME NEW i \in 0 .. Completed - 1
      PROVE  c_desc'[Slot(consumer + i)'] = c_desc[Slot(consumer + i)]
  <2>1. consumer \in Int /\ Completed \in Int /\ i \in Int
    BY CountTypes, RingAssumption DEF TypeOK, Index
  <2>2. Slot(consumer + i) # Slot(c_producer)
    <3> SUFFICES ASSUME Slot(consumer + i) = Slot(consumer + Completed)
                 PROVE  FALSE
      BY <1>7
    <3>1. consumer + i = consumer + Completed
      BY <1>3, <2>1, SlotInjective
    <3>. QED BY <2>1, <3>1
  <2>3. Slot(consumer + i)' = Slot(consumer + i)
    BY <1>1 DEF Slot
  <2>4. Slot(consumer + i) \in Slots
    BY <2>1, PositionSlots
  <2>. QED BY <1>1, <2>2, <2>3, <2>4 DEF TypeOK
<1>9. ASSUME NEW i \in Int, i = Completed
      PROVE  c_desc'[Slot(consumer + i)'] = f
  <2>1. Slot(consumer + i)' = Slot(c_producer)
    BY <1>1, <1>7, <1>9 DEF Slot
  <2>. QED BY <1>1, <1>7, <2>1 DEF TypeOK
<1>10. ASSUME NEW i \in 0 .. Completed' - 1
       PROVE  i \in 0 .. Completed - 1 \/ (i \in Int /\ i = Completed)
  BY <1>4, CountTypes
<1>11. f \notin CompletedFrames
  BY <1>2 DEF FrameOwnership, PlacesDisjoint
<1>12. CompletedFrames' \subseteq CompletedFrames \cup {f}
  <2> SUFFICES ASSUME NEW i \in 0 .. Completed' - 1
               PROVE  c_desc'[Slot(consumer + i)'] \in CompletedFrames \cup {f}
    BY DEF CompletedFrames, Slot
  <2>1. CASE i \in 0 .. Completed - 1
    BY <1>8, <2>1 DEF CompletedFrames
  <2>2. CASE i \in Int /\ i = Completed
    BY <1>9, <2>2
  <2>. QED BY <1>10, <2>1, <2>2
<1>14. ASSUME NEW i \in 0 .. Queued' + available' - 1
       PROVE  /\ i \in 0 .. Queued + available - 1
              /\ tx_desc'[WindowSlot(i)'].frame = tx_desc[WindowSlot(i)].frame
  BY <1>1, <1>5, <1>6
<1>15. WindowDistinct'
  BY <1>14 DEF FrameOwnership, WindowDistinct
<1>16. CompletedDistinct'
  <2> SUFFICES ASSUME NEW i \in 0 .. Completed' - 1, NEW j \in 0 .. Completed' - 1,
                      c_desc'[Slot(consumer + i)'] = c_desc'[Slot(consumer + j)']
               PROVE  i = j
    BY DEF CompletedDistinct, Slot
  <2>1. ASSUME NEW k \in 0 .. Completed - 1
        PROVE  c_desc'[Slot(consumer + k)'] # f
    BY <1>8, <1>11 DEF CompletedFrames
  <2>2. CASE i \in 0 .. Completed - 1 /\ j \in 0 .. Completed - 1
    BY <1>8, <2>2 DEF FrameOwnership, CompletedDistinct
  <2>3. CASE i = Completed /\ j \in 0 .. Completed - 1
    BY <1>9, <1>10, <2>1, <2>3
  <2>4. CASE j = Completed /\ i \in 0 .. Completed - 1
    BY <1>9, <1>10, <2>1, <2>4
  <2>. QED BY <1>10, <2>2, <2>3, <2>4
<1>17. PlacesDisjoint'
  <2>1. ToSet(inflight') \cap CompletedFrames' = {}
    BY <1>2, <1>12 DEF FrameOwnership, PlacesDisjoint
  <2>2. ASSUME NEW i \in 0 .. Queued' + available' - 1
        PROVE  tx_desc'[WindowSlot(i)'].frame \notin ToSet(inflight') \cup CompletedFrames'
    <3>1. tx_desc[WindowSlot(i)].frame \notin ToSet(inflight) \cup CompletedFrames
      BY <1>14 DEF FrameOwnership, PlacesDisjoint
    <3>. QED BY <1>2, <1>12, <1>14, <3>1
  <2>. QED BY <2>1, <2>2 DEF PlacesDisjoint
<1>18. /\ \A i \in 0 .. Completed - 1 :
            c_desc'[Slot(consumer + i)] = c_desc[Slot(consumer + i)]
       /\ c_desc'[Slot(consumer + Completed)] = f
  <2>1. \A i \in Int : Slot(consumer + i)' = Slot(consumer + i)
    BY <1>1 DEF Slot
  <2>2. Completed \in Int
    BY CountTypes
  <2>. QED BY <1>8, <1>9, <2>1, <2>2
<1>. QED BY <1>2, <1>15, <1>16, <1>17, <1>18 DEF FrameOwnership

-----------------------------------------------------------------------------
(* The inductive invariant. *)

\* The loop of seek_ only runs when there is nothing available and it was
\* asked for one descriptor: what MaxSeek <= 1 gives, and what makes the slot
\* it writes to the one behind the window.
OneAtATime ==
  pc = "reclaim" => available = 0 /\ count = 1

\* A lent buffer is a frame of an available descriptor, and no call is running
\* while it is held.
LentAvailable ==
  /\ lent \subseteq AvailableFrames
  /\ pc # "idle" => lent = {}

Inv ==
  /\ Counts
  /\ FrameOwnership
  /\ OneAtATime
  /\ LentAvailable

\* The inductive invariant holds of a new socket.
LEMMA InvInit ==
  Init => Inv
<1> SUFFICES ASSUME Init PROVE Inv
  OBVIOUS
<1>1. TypeOK /\ Counts
  BY InitType, CountsInit
<1>2. WrappingSub(0, 0) = 0
  BY SubZero, IndexType
<1>3. Queued = 0 /\ Completed = 0 /\ available = RingLen /\ inflight = << >>
  BY <1>2 DEF Init, Queued, Completed
<1>4. CompletedFrames = {}
  BY <1>3 DEF CompletedFrames
<1>5. Accounting /\ InflightDistinct /\ ToSet(inflight) = {}
  <2>1. DOMAIN inflight = {}
    BY <1>3
  <2>. QED BY <1>1, <2>1 DEF Counts, InflightDistinct, IsInjective, ToSet
<1>6. \A s \in Slots : tx_desc[s].frame = s
  BY DEF Init, FillDesc, Slots
<1>7. WindowDistinct
  <2> SUFFICES ASSUME NEW i \in 0 .. RingLen - 1, NEW j \in 0 .. RingLen - 1,
                      tx_desc[WindowSlot(i)].frame = tx_desc[WindowSlot(j)].frame
               PROVE  i = j
    BY <1>3, RingAssumption DEF WindowDistinct
  <2>1. WindowSlot(i) = WindowSlot(j)
    BY <1>1, <1>6, PositionSlots
  <2>2. tx_consumer + i = i /\ tx_consumer + j = j
    BY DEF Init
  <2>3. Slot(i) = Slot(j)
    BY <2>1, <2>2 DEF WindowSlot
  <2>. QED BY <2>3, SlotInjective, RingAssumption
<1>8. CompletedDistinct
  BY <1>3 DEF CompletedDistinct
<1>9. PlacesDisjoint
  BY <1>4, <1>5 DEF PlacesDisjoint
<1>10. FrameOwnership
  BY <1>5, <1>7, <1>8, <1>9 DEF FrameOwnership
<1>11. OneAtATime /\ LentAvailable
  BY DEF Init, OneAtATime, LentAvailable
<1>. QED BY <1>1, <1>10, <1>11 DEF Inv

\* A step that moves no index of the socket's.
LEMMA QuietStep ==
  ASSUME Inv, TypeOK',
         UNCHANGED <<available, producer, consumer, tx_consumer, c_desc, c_producer,
                     inflight>>,
         \A s \in Slots : tx_desc'[s].frame = tx_desc[s].frame
  PROVE  FrameOwnership' /\ AvailableFrames' = AvailableFrames
<1>. USE DEF Inv, Counts
<1>1. Queued' = Queued /\ Completed' = Completed
  BY SameCounts
<1>2. FrameOwnership'
  BY <1>1, SameWindow
<1>5. ASSUME NEW i \in Int
      PROVE  tx_desc'[WindowSlot(i)'].frame = tx_desc[WindowSlot(i)].frame
  <2>1. WindowSlot(i)' = WindowSlot(i) /\ WindowSlot(i) \in Slots
    BY PositionSlots DEF WindowSlot, Slot
  <2>. QED BY <2>1
<1>6. AvailableFrames' = AvailableFrames
  <2>1. Queued \in Int /\ available \in Int
    BY CountTypes DEF TypeOK
  <2>2. ASSUME NEW i \in Queued .. Queued + available - 1
        PROVE  tx_desc'[WindowSlot(i)'].frame = tx_desc[WindowSlot(i)].frame
    BY <1>5, <2>1
  <2>. QED BY <1>1, <2>2 DEF AvailableFrames
<1>. QED BY <1>2, <1>6

\* A step that commits.
LEMMA CommitStep ==
  ASSUME Inv, TypeOK', NEW n \in Nat, ~CommitRefused(n), CommitBody(n),
         UNCHANGED <<consumer, tx_consumer, c_desc, c_producer, inflight>>,
         \A s \in Slots : tx_desc'[s].frame = tx_desc[s].frame
  PROVE  FrameOwnership'
<1>. USE DEF Inv, Counts
<1>1. Queued' + available' = Queued + available
  BY CommitMoves
<1>. QED BY <1>1, SameWindow

\* What a peek hands out is the frame of an available descriptor.
LEMMA PeekAvailable ==
  ASSUME Inv, NEW index \in Nat, NEW l \in Nat, PeekChecks(index, l) = "Ok"
  PROVE  /\ Queued + index \in Queued .. Queued + available - 1
         /\ PeekSlot(index) = WindowSlot(Queued + index)
<1>. USE DEF Inv, Counts
<1>1. index < available
  BY DEF PeekChecks, TypeOK
<1>2. index \in Index
  BY <1>1, CountTypes, RingAssumption DEF FrameOwnership, Accounting, TypeOK, Index
<1>3. Slot(WrappingAdd(producer, index) + 0) = Slot(producer + (index + 0))
  BY <1>2, SlotAdd DEF TypeOK
<1>4. WrappingAdd(producer, index) \in Int /\ producer \in Int
  BY IndexType, RingAssumption DEF TypeOK, Index
<1>5. PeekSlot(index) = Slot(producer + index)
  BY <1>3, <1>4 DEF PeekSlot
<1>6. Slot(tx_consumer + (Queued + index)) = Slot(producer + index)
  BY SlotSub DEF Queued, TypeOK
<1>. QED BY <1>1, <1>5, <1>6, CountTypes DEF WindowSlot, TypeOK

\* The parts of Inv about the thread, after a step that does not enter or stay
\* in the loop of seek_ and leaves no buffer lent.
LEMMA ThreadParts ==
  ASSUME pc' # "reclaim", lent' = {}
  PROVE  OneAtATime' /\ LentAvailable'
BY DEF OneAtATime, LentAvailable

\* Every step keeps the inductive invariant.
LEMMA InvNext ==
  ASSUME MaxSeek <= 1
  PROVE  Inv /\ [Next]_vars => Inv'
<1> SUFFICES ASSUME Inv, [Next]_vars PROVE Inv'
  OBVIOUS
<1>. USE DEF socket, txRing, cRing, thread, kernel
<1>t. TypeOK /\ TypeOK' /\ Counts /\ Counts' /\ Accounting'
  BY NextType, CountsNext DEF Inv, Counts
\* Entering seek_.
<1>1. ASSUME NEW n \in 0 .. 1, NEW q \in {"idle", "peek"}, NEW l,
             NEW op, SeekEntry(op, n, q, l)
      PROVE  Inv'
  <2>1. FrameOwnership' /\ lent' = {}
    <3>1. UNCHANGED <<available, producer, consumer, tx_desc, tx_consumer, c_desc,
                      c_producer, inflight>> /\ lent' = {}
      BY <1>1 DEF SeekEntry
    <3>. QED BY <3>1, <1>t, QuietStep
  <2>2. OneAtATime'
    <3> SUFFICES ASSUME pc' = "reclaim" PROVE available' = 0 /\ count' = 1
      BY DEF OneAtATime
    <3>1. available < n /\ count' = n /\ available' = available
      BY <1>1 DEF SeekEntry, Return, Continue
    <3>. QED BY <1>t, <3>1 DEF TypeOK
  <2>3. LentAvailable'
    BY <2>1 DEF LentAvailable
  <2>. QED BY <1>t, <2>1, <2>2, <2>3 DEF Inv
<1>2. ASSUME NEW n \in 0 .. MaxSeek, Seek(n) PROVE Inv'
  <2>1. n \in 0 .. 1
    BY TxAssumption
  <2>. QED BY <1>1, <1>2, <2>1 DEF Seek
<1>3. ASSUME NEW l \in Lens, SeekAndPeek(l) PROVE Inv'
  <2>1. 1 \in 0 .. 1
    OBVIOUS
  <2>. QED BY <1>1, <1>3, <2>1 DEF SeekAndPeek
\* peek_
<1>4. ASSUME NEW index \in Nat, NEW l \in Nat, PeekBody(index, l) PROVE Inv'
  <2>1. /\ PeekWrites(index, l)
        /\ UNCHANGED <<available, producer, consumer, tx_consumer, c_desc,
                       c_producer, inflight>>
        /\ pc' = "idle"
    BY <1>4 DEF PeekBody, Return
  <2>2. \A s \in Slots : tx_desc'[s].frame = tx_desc[s].frame
    BY <1>t, <2>1, PeekType
  <2>3. FrameOwnership' /\ AvailableFrames' = AvailableFrames
    BY <1>t, <2>1, <2>2, QuietStep
  <2>4. lent' \subseteq AvailableFrames
    <3>1. CASE PeekResult(index, l) = "Ok"
      <4>1. PeekChecks(index, l) = "Ok"
        BY <3>1 DEF PeekResult
      <4>2. tx_desc[PeekSlot(index)].frame \in AvailableFrames
        BY <4>1, PeekAvailable DEF AvailableFrames
      <4>. QED BY <1>4, <3>1, <4>2 DEF PeekBody
    <3>2. CASE PeekResult(index, l) # "Ok"
      BY <1>4, <3>2 DEF PeekBody
    <3>. QED BY <3>1, <3>2
  <2>5. OneAtATime' /\ LentAvailable'
    BY <2>1, <2>3, <2>4 DEF OneAtATime, LentAvailable
  <2>. QED BY <1>t, <2>3, <2>5 DEF Inv
<1>5. ASSUME NEW index \in 0 .. RingLen, NEW l \in Lens, Peek(index, l)
      PROVE  Inv'
  <2>1. index \in Nat /\ l \in Nat
    BY RingAssumption, TxAssumption
  <2>. QED BY <1>4, <1>5, <2>1 DEF Peek
<1>6. CASE PeekAfterSeek
  <2>1. 0 \in Nat /\ len \in Nat
    BY <1>t DEF TypeOK
  <2>. QED BY <1>4, <1>6, <2>1 DEF PeekAfterSeek
\* commit_
<1>7. ASSUME NEW n \in 0 .. MaxCommit, NEW op, NEW q \in {"idle", "kick"},
             CommitCall(op, n, q)
      PROVE  Inv'
  <2>1. n \in Nat
    BY TxAssumption
  <2>2. UNCHANGED <<consumer, tx_desc, tx_consumer, c_desc, c_producer, inflight>>
        /\ lent' = {}
        /\ pc' # "reclaim"
    BY <1>7 DEF CommitCall, Return, Continue
  <2>3. FrameOwnership'
    <3>1. CASE CommitRefused(n)
      <4>1. UNCHANGED <<available, producer>>
        BY <1>7, <3>1 DEF CommitCall
      <4>. QED BY <1>t, <2>2, <4>1, QuietStep
    <3>2. CASE ~CommitRefused(n)
      <4>1. CommitBody(n)
        BY <1>7, <3>2 DEF CommitCall
      <4>. QED BY <1>t, <2>1, <2>2, <3>2, <4>1, CommitStep
    <3>. QED BY <3>1, <3>2
  <2>. QED BY <1>t, <2>2, <2>3, ThreadParts DEF Inv
\* send and send_blocking
<1>8. ASSUME NEW l \in Lens, NEW op, NEW q \in {"idle", "poll"}, SendCall(op, l, q)
      PROVE  Inv'
  <2>1. l \in Nat /\ 0 \in Nat /\ 1 \in Nat
    BY TxAssumption
  <2>2. UNCHANGED <<consumer, tx_consumer, c_desc, c_producer, inflight>>
        /\ lent' = {}
        /\ pc' # "reclaim" /\ PeekWrites(0, l)
    BY <1>8 DEF SendCall, Return, Continue
  <2>3. \A s \in Slots : tx_desc'[s].frame = tx_desc[s].frame
    BY <1>t, <2>1, <2>2, PeekType
  <2>4. FrameOwnership'
    <3>1. CASE PeekResult(0, l) # "Ok"
      <4>1. UNCHANGED <<available, producer>>
        BY <1>8, <3>1 DEF SendCall
      <4>. QED BY <1>t, <2>2, <2>3, <4>1, QuietStep
    <3>2. CASE PeekResult(0, l) = "Ok"
      <4>1. CommitBody(1)
        BY <1>8, <3>2 DEF SendCall
      <4>2. ~CommitRefused(1)
        <5>1. 0 < available
          BY <1>t, <3>2 DEF PeekResult, PeekChecks, TypeOK
        <5>2. U32(1) = 1
          BY ModUnique, RingAssumption DEF U32
        <5>. QED BY <1>t, <5>1, <5>2 DEF CommitRefused, TypeOK
      <4>. QED BY <1>t, <2>1, <2>2, <2>3, <4>1, <4>2, CommitStep
    <3>. QED BY <3>1, <3>2
  <2>. QED BY <1>t, <2>2, <2>4, ThreadParts DEF Inv
\* The steps of kick and poll_wait, and stores that become visible.
<1>9. ASSUME UNCHANGED <<available, producer, consumer, tx_desc, tx_consumer,
                         c_desc, c_producer, inflight>>,
             pc' # "reclaim", lent' = {}
      PROVE  Inv'
  BY <1>9, <1>t, QuietStep, ThreadParts DEF Inv
<1>10. ASSUME UNCHANGED <<available, producer, consumer, tx_desc, tx_consumer,
                          c_desc, c_producer, inflight, thread>>
       PROVE  Inv'
  <2>1. FrameOwnership' /\ AvailableFrames' = AvailableFrames
    BY <1>10, <1>t, QuietStep
  <2>2. OneAtATime' /\ LentAvailable'
    BY <1>10, <2>1 DEF Inv, OneAtATime, LentAvailable
  <2>. QED BY <1>t, <2>1, <2>2 DEF Inv
<1>11. ASSUME NEW op, NEW q, KickCall(op, q) PROVE Inv'
  BY <1>9, <1>11 DEF KickCall, Continue
<1>12. CASE KickTest \/ SendToWakes \/ SendToFails \/ PollReturns
  <2>1. lent' = {}
    BY <1>12 DEF KickTest, SendToWakes, SendToFails, PollReturns, Inv, LentAvailable
  <2>2. pc' # "reclaim"
    BY <1>12, <1>t DEF KickTest, SendToWakes, SendToFails, PollReturns, AfterKick,
                       Return, Continue, TypeOK
  <2>3. UNCHANGED <<available, producer, consumer, tx_desc, tx_consumer, c_desc,
                    c_producer, inflight>>
    BY <1>12 DEF KickTest, SendToWakes, SendToFails, PollReturns
  <2>. QED BY <1>9, <2>1, <2>2, <2>3
<1>13. CASE \/ StoreDrains \/ KernelPolled \/ KernelSleeps \/ InterfaceGone
            \/ UNCHANGED vars
  BY <1>10, <1>13 DEF StoreDrains, KernelPolled, KernelSleeps, InterfaceGone, vars
\* One turn of the loop of seek_.
<1>14. CASE Reclaim
  <2>1. available = 0 /\ count = 1 /\ lent = {} /\ Completed > 0
    <3>1. pc = "reclaim"
      BY <1>14 DEF Reclaim
    <3>. QED BY <3>1, <1>t, CountTypes
             DEF Inv, Counts, OneAtATime, LentAvailable, ReclaimBounded
  <2>2. FrameOwnership'
    BY <1>14, <1>t, <2>1, ReclaimOwns DEF Inv
  <2>3. pc' # "reclaim" /\ lent' = {}
    BY <1>14, <1>t, <2>1
       DEF Reclaim, ReclaimDone, Return, Continue, TypeOK
  <2>. QED BY <1>t, <2>2, <2>3, ThreadParts DEF Inv
\* The kernel takes a descriptor.
<1>15. CASE KernelTakes
  <2>1. UNCHANGED <<available, pc, count, lent>>
    BY <1>15 DEF KernelTakes
  <2>3. Queued > 0
    BY <1>15, TakesCounts DEF Inv, Counts
  <2>4. /\ FrameOwnership' /\ Queued' = Queued - 1
        /\ \A i \in Int : tx_desc'[WindowSlot(i)'] = tx_desc[WindowSlot(i + 1)]
    BY <1>15, <1>t, <2>3, KernelTakesOwns DEF Inv
  <2>7. AvailableFrames \subseteq AvailableFrames'
    <3> SUFFICES ASSUME NEW i \in Queued .. Queued + available - 1
                 PROVE  tx_desc[WindowSlot(i)].frame \in AvailableFrames'
      BY DEF AvailableFrames
    <3>1. Queued \in Int /\ available \in Int
      BY <1>t, CountTypes DEF TypeOK
    <3>2. i - 1 \in Int /\ (i - 1) + 1 = i
      BY <3>1
    <3>3. i - 1 \in Queued' .. Queued' + available' - 1
      BY <2>1, <2>4, <3>1
    <3>4. tx_desc'[WindowSlot(i - 1)'].frame = tx_desc[WindowSlot(i)].frame
      BY <2>4, <3>2
    <3>. QED BY <3>3, <3>4 DEF AvailableFrames
  <2>8. OneAtATime' /\ LentAvailable'
    BY <2>1, <2>7 DEF Inv, OneAtATime, LentAvailable
  <2>. QED BY <1>t, <2>4, <2>8 DEF Inv
\* The kernel completes a frame.
<1>16. ASSUME NEW f \in Frames, KernelCompletes(f) PROVE Inv'
  <2>1. UNCHANGED <<available, producer, tx_desc, tx_consumer, pc, count, lent>>
    BY <1>16 DEF KernelCompletes
  <2>2. /\ Queued' = Queued /\ Completed' = Completed + 1
        /\ Len(inflight') = Len(inflight) - 1
    BY <1>16, CompletesCounts DEF Inv, Counts
  <2>3. Completed < RingLen
    <3>1. /\ Queued \in Nat /\ Completed \in Nat /\ available \in Nat
          /\ Len(inflight) \in Nat /\ Len(inflight') \in Nat
      BY <1>t, CountTypes, LenProperties DEF TypeOK
    <3>. QED BY <2>2, <3>1, <1>t DEF Counts, Accounting
  <2>4. FrameOwnership'
    BY <1>16, <1>t, <2>2, <2>3, KernelCompletesOwns DEF Inv
  <2>6. AvailableFrames' = AvailableFrames
    BY <2>1, <2>2 DEF AvailableFrames, WindowSlot
  <2>7. OneAtATime' /\ LentAvailable'
    BY <2>1, <2>6 DEF Inv, OneAtATime, LentAvailable
  <2>. QED BY <1>t, <2>4, <2>7 DEF Inv
<1>17. CASE Calls
  BY <1>17, <1>2, <1>3, <1>5, <1>7, <1>8, <1>11
     DEF Calls, Commit, CommitAndKick, Send, SendBlocking, Kick, PollWait
<1>18. CASE CallSteps
  BY <1>18, <1>6, <1>12, <1>13, <1>14 DEF CallSteps, PollAgain
<1>19. CASE Kernel
  BY <1>19, <1>13, <1>15, <1>16 DEF Kernel
<1>. QED BY <1>13, <1>17, <1>18, <1>19 DEF Next

\* The inductive invariant always holds.
LEMMA Invariance ==
  ASSUME MaxSeek <= 1
  PROVE  Spec => []Inv
<1>1. Inv /\ [Next]_vars => Inv'
  BY InvNext
<1>. QED BY InvInit, <1>1, PTL DEF Spec

\* As long as the application asks seek_n for at most one descriptor, which
\* seek, seek_and_peek and the documented send loop do, no interleaving of its
\* calls with the kernel loses a frame or gives it two owners: for every ring
\* length, every width of the indices and however often they wrap.
THEOREM TxFrameOwnership ==
  ASSUME MaxSeek <= 1
  PROVE  Spec => []FrameOwnership
<1>1. Inv => FrameOwnership
  BY DEF Inv
<1>. QED BY <1>1, Invariance, PTL

\* Under the same condition the buffer a peek has lent is never a frame that
\* is queued, in flight or completed.
THEOREM TxLentIsOurs ==
  ASSUME MaxSeek <= 1
  PROVE  Spec => []LentIsOurs
<1>1. ASSUME Inv PROVE LentIsOurs
  <2>1. Queued \in Int /\ available \in Int /\ Queued >= 0 /\ available >= 0
    BY <1>1, CountTypes DEF Inv, Counts, TypeOK
  <2> SUFFICES ASSUME NEW f \in AvailableFrames PROVE f \notin KernelFrames
    BY <1>1 DEF LentIsOurs, Inv, LentAvailable
  <2>2. PICK i \in Queued .. Queued + available - 1 :
          f = tx_desc[WindowSlot(i)].frame
    BY DEF AvailableFrames
  <2>3. i \in 0 .. Queued + available - 1
    BY <2>1
  <2>4. f \notin ToSet(inflight) \cup CompletedFrames
    BY <1>1, <2>2, <2>3 DEF Inv, FrameOwnership, PlacesDisjoint
  <2>5. f \notin QueuedFrames
    <3> SUFFICES ASSUME NEW j \in 0 .. Queued - 1,
                        f = tx_desc[WindowSlot(j)].frame
                 PROVE  FALSE
      BY DEF QueuedFrames
    <3>1. j \in 0 .. Queued + available - 1 /\ j # i
      BY <2>1
    <3>. QED BY <1>1, <2>2, <2>3, <3>1 DEF Inv, FrameOwnership, WindowDistinct
  <2>. QED BY <2>4, <2>5 DEF KernelFrames
<1>. QED BY <1>1, Invariance, PTL

\* Under the same condition no step changes a descriptor that waits for the
\* kernel, nor the frame of one the application may still peek at.
THEOREM TxDescriptorsStable ==
  ASSUME MaxSeek <= 1
  PROVE  Spec => DescriptorsStable
<1> DEFINE Stable ==
      /\ \A i \in 0 .. Queued - 1 :
           tx_desc'[WindowSlot(i)] = tx_desc[WindowSlot(i)]
      /\ \A i \in Queued .. Queued + available - 1 :
           tx_desc'[WindowSlot(i)].frame = tx_desc[WindowSlot(i)].frame
<1>1. ASSUME Inv, [Next]_vars PROVE Stable
  <2>. USE DEF socket, txRing, cRing, thread, kernel
  <2>1. TypeOK
    BY <1>1 DEF Inv, Counts
  <2>2. /\ Queued \in Int /\ available \in Int /\ Queued >= 0 /\ available >= 0
        /\ Queued + available <= RingLen /\ RingLen \in Int /\ tx_consumer \in Int
    BY <1>1, <2>1, CountTypes, RingAssumption
       DEF Inv, TypeOK, FrameOwnership, Accounting, Index
  <2>3. ASSUME NEW i \in Int, NEW j \in Int, i # j,
               i - j < RingLen, j - i < RingLen
        PROVE  WindowSlot(i) # WindowSlot(j)
    <3> SUFFICES ASSUME WindowSlot(i) = WindowSlot(j) PROVE FALSE
      OBVIOUS
    <3>1. tx_consumer + i = tx_consumer + j
      BY <2>2, <2>3, SlotInjective DEF WindowSlot
    <3>. QED BY <2>2, <2>3, <3>1
  <2>4. CASE tx_desc' = tx_desc
    BY <2>4
  <2>5. ASSUME NEW index \in Nat, NEW l \in Nat, PeekWrites(index, l) PROVE Stable
    <3>1. CASE PeekChecks(index, l) # "Ok"
      BY <2>4, <2>5, <3>1 DEF PeekWrites
    <3>2. CASE PeekChecks(index, l) = "Ok"
      <4>1. /\ Queued + index \in Queued .. Queued + available - 1
            /\ PeekSlot(index) = WindowSlot(Queued + index)
        BY <1>1, <3>2, PeekAvailable
      <4>2. \A s \in Slots : /\ tx_desc'[s].frame = tx_desc[s].frame
                             /\ s # PeekSlot(index) => tx_desc'[s] = tx_desc[s]
        BY <2>1, <2>5, PeekType
      <4>3. ASSUME NEW i \in 0 .. Queued - 1
            PROVE  tx_desc'[WindowSlot(i)] = tx_desc[WindowSlot(i)]
        <5>1. WindowSlot(i) # PeekSlot(index)
          BY <2>2, <2>3, <4>1
        <5>. QED BY <2>1, <4>2, <5>1, PositionSlots
      <4>4. ASSUME NEW i \in Queued .. Queued + available - 1
            PROVE  tx_desc'[WindowSlot(i)].frame = tx_desc[WindowSlot(i)].frame
        <5>1. i \in Int
          BY <2>2
        <5>. QED BY <2>1, <4>2, <5>1, PositionSlots
      <4>. QED BY <4>3, <4>4
    <3>. QED BY <3>1, <3>2
  <2>6. CASE Reclaim
    <3>1. available = 0 /\ Completed > 0
      BY <1>1, <2>1, <2>6, CountTypes
         DEF Reclaim, Inv, Counts, OneAtATime, ReclaimBounded
    <3>2. Queued < RingLen
      BY <1>1, <2>1, <3>1, CountTypes, RingAssumption
         DEF Inv, FrameOwnership, Accounting
    <3>3. Slot(producer) = WindowSlot(Queued)
      <4>1. Slot(tx_consumer + (Queued + 0)) = Slot(producer + 0)
        BY <2>1, SlotSub DEF Queued, TypeOK
      <4>2. Queued + 0 = Queued /\ producer + 0 = producer
        BY <2>1, <2>2, RingAssumption DEF TypeOK, Index
      <4>. QED BY <4>1, <4>2 DEF WindowSlot
    <3>4. ASSUME NEW i \in 0 .. Queued - 1
          PROVE  tx_desc'[WindowSlot(i)] = tx_desc[WindowSlot(i)]
      <4>1. WindowSlot(i) # Slot(producer)
        BY <2>2, <2>3, <3>2, <3>3
      <4>2. WindowSlot(i) \in Slots
        BY <2>1, PositionSlots
      <4>3. tx_desc' = [tx_desc EXCEPT ![Slot(producer)] =
                          [frame |-> c_desc[Slot(consumer)], len |-> 0]]
        BY <2>6 DEF Reclaim, ReclaimSlot
      <4>. QED BY <2>1, <4>1, <4>2, <4>3 DEF TypeOK
    <3>. QED BY <2>2, <3>1, <3>4
  <2>7. CASE Calls
    <3>1. ASSUME NEW index \in 0 .. RingLen, NEW l \in Lens, Peek(index, l)
          PROVE  Stable
      <4>1. index \in Nat /\ l \in Nat
        BY RingAssumption, TxAssumption
      <4>. QED BY <2>5, <3>1, <4>1 DEF Peek, PeekBody
    <3>2. ASSUME NEW l \in Lens, Send(l) \/ SendBlocking(l) PROVE Stable
      <4>1. 0 \in Nat /\ l \in Nat
        BY TxAssumption
      <4>. QED BY <2>5, <3>2, <4>1 DEF Send, SendBlocking, SendCall
    <3>3. ASSUME NEW n, Seek(n) \/ SeekAndPeek(n) \/ Commit(n) \/ CommitAndKick(n)
          PROVE  tx_desc' = tx_desc
      BY <3>3 DEF Seek, SeekAndPeek, SeekEntry, Commit, CommitAndKick, CommitCall
    <3>4. ASSUME Kick \/ PollWait PROVE tx_desc' = tx_desc
      BY <3>4 DEF Kick, PollWait, KickCall
    <3>. QED BY <2>4, <2>7, <3>1, <3>2, <3>3, <3>4 DEF Calls
  <2>8. CASE CallSteps
    <3>1. CASE PeekAfterSeek
      BY <2>1, <2>5, <3>1 DEF PeekAfterSeek, PeekBody, TypeOK
    <3>2. CASE KickTest \/ SendToWakes \/ SendToFails \/ PollReturns \/ PollAgain
      BY <2>4, <3>2 DEF KickTest, SendToWakes, SendToFails, PollReturns, PollAgain, vars
    <3>. QED BY <2>6, <2>8, <3>1, <3>2 DEF CallSteps
  <2>9. CASE Kernel
    BY <2>4, <2>9 DEF Kernel, StoreDrains, KernelPolled, KernelTakes,
                      KernelCompletes, KernelSleeps, InterfaceGone
  <2>10. CASE UNCHANGED vars
    BY <2>4, <2>10 DEF vars
  <2>. QED BY <1>1, <2>7, <2>8, <2>9, <2>10 DEF Next
<1>2. Spec => [][Next]_vars
  BY DEF Spec
<1>3. Inv /\ [Next]_vars => [Stable]_vars
  BY <1>1
<1>. QED BY <1>2, <1>3, Invariance, PTL DEF DescriptorsStable

-----------------------------------------------------------------------------
(* The wake-up protocol. *)

WakeInv ==
  /\ TypeOK
  /\ stores = << >>
  /\ tx_producer = producer
  /\ NoLostWakeup

\* Every step keeps the invariant of the wake-up protocol.
LEMMA WakeNext ==
  ASSUME StoreBuffer = 0
  PROVE  WakeInv /\ [Next]_vars => WakeInv'
<1> SUFFICES ASSUME WakeInv, [Next]_vars PROVE WakeInv'
  OBVIOUS
<1>. USE DEF socket, txRing, cRing, thread, kernel
<1>t. TypeOK /\ TypeOK' /\ stores = << >> /\ stores' = << >>
  <2>1. TypeOK /\ TypeOK'
    BY NextType DEF WakeInv
  <2>2. Len(stores') = 0
    <3>1. Len(stores') \in Nat /\ Len(stores') <= 0
      BY <2>1, LenProperties DEF TypeOK
    <3>. QED BY <3>1
  <2>. QED BY <2>1, <2>2, EmptySeq DEF WakeInv, TypeOK
<1>s. Stored = [producer |-> tx_producer, consumer |-> c_consumer]
  BY <1>t DEF Stored
\* With no store buffer a store is visible at once.
<1>v. ASSUME NEW ix, Store(ix) PROVE tx_producer' = ix.producer
  <2>1. ~(Len(stores) < StoreBuffer)
    BY <1>t, EmptySeq
  <2>. QED BY <1>v, <2>1 DEF Store
<1>1. ASSUME UNCHANGED <<producer, tx_consumer, tx_producer, tx_wakeup, owed>>
      PROVE  WakeInv'
  BY <1>1, <1>t DEF WakeInv, NoLostWakeup, Queued, WrappingSub
<1>2. ASSUME NEW n \in Nat, CommitBody(n), UNCHANGED <<tx_consumer, tx_wakeup>>
      PROVE  WakeInv'
  <2>1. tx_producer' = producer'
    BY <1>2, <1>v DEF CommitBody, UpdateProducer
  <2>2. U32(n) \in Nat
    BY IndexType
  <2>3. NoLostWakeup'
    <3>1. CASE U32(n) > 0
      BY <1>2, <3>1 DEF CommitBody, NoLostWakeup
    <3>2. CASE U32(n) = 0
      <4>1. producer' = producer
        <5>1. producer' = WrappingAdd(producer, 0)
          BY <1>2, <3>2 DEF CommitBody
        <5>2. producer + 0 < IndexMod /\ producer + 0 = producer
          BY <1>t, RingAssumption DEF TypeOK, Index
        <5>. QED BY <1>t, <5>1, <5>2, WrappingAddValue, IndexType DEF TypeOK
      <4>2. Queued' = Queued
        BY <1>2, <4>1 DEF Queued, WrappingSub
      <4>3. owed' = owed
        <5>1. owed' = (owed \/ U32(n) > 0) /\ ~(U32(n) > 0)
          BY <1>2, <3>2 DEF CommitBody
        <5>. QED BY <1>t, <5>1 DEF TypeOK
      <4>. QED BY <1>2, <4>2, <4>3 DEF WakeInv, NoLostWakeup
    <3>. QED BY <2>2, <3>1, <3>2
  <2>. QED BY <1>t, <2>1, <2>3 DEF WakeInv
<1>3. ASSUME tx_wakeup' = FALSE, tx_producer' = producer, producer' = producer
      PROVE  WakeInv'
  BY <1>3, <1>t DEF WakeInv, NoLostWakeup
<1>4. ASSUME NEW n, Seek(n) \/ SeekAndPeek(n) PROVE WakeInv'
  BY <1>1, <1>4 DEF Seek, SeekAndPeek, SeekEntry
<1>5. ASSUME NEW index, NEW l, Peek(index, l) PROVE WakeInv'
  BY <1>1, <1>5 DEF Peek, PeekBody
<1>6. ASSUME NEW n \in 0 .. MaxCommit, Commit(n) \/ CommitAndKick(n) PROVE WakeInv'
  <2>1. n \in Nat
    BY TxAssumption
  <2>. QED BY <1>1, <1>2, <1>6, <2>1 DEF Commit, CommitAndKick, CommitCall
<1>7. ASSUME NEW l, Send(l) \/ SendBlocking(l) PROVE WakeInv'
  BY <1>1, <1>2, <1>7 DEF Send, SendBlocking, SendCall
<1>8. CASE Kick \/ PollWait
  BY <1>1, <1>8 DEF Kick, PollWait, KickCall
<1>9. CASE KickTest
  <2>1. CASE tx_wakeup
    BY <1>1, <1>9, <2>1 DEF KickTest
  <2>2. CASE ~tx_wakeup
    <3>1. tx_wakeup' = FALSE
      BY <1>9, <1>t, <2>2 DEF KickTest, TypeOK
    <3>2. tx_producer' = producer /\ producer' = producer
      BY <1>9 DEF KickTest, WakeInv
    <3>. QED BY <1>3, <3>1, <3>2
  <2>. QED BY <2>1, <2>2
<1>10. CASE SendToWakes \/ KernelPolled
  BY <1>3, <1>10, <1>s DEF SendToWakes, KernelPolled, AllStored, WakeInv
<1>11. CASE PeekAfterSeek \/ SendToFails \/ PollReturns \/ PollAgain \/ InterfaceGone
  BY <1>1, <1>11, <1>s DEF PeekAfterSeek, PeekBody, SendToFails, AllStored, PollReturns,
                           PollAgain, InterfaceGone, vars
<1>12. CASE StoreDrains
  BY <1>12, <1>t DEF StoreDrains
<1>20. CASE Reclaim
  <2>1. tx_producer' = tx_producer
    BY <1>20, <1>s, <1>v DEF Reclaim, UpdateConsumer
  <2>. QED BY <1>1, <1>20, <2>1 DEF Reclaim
<1>13. CASE KernelTakes
  <2>1. tx_wakeup' = FALSE
    BY <1>13, <1>t DEF KernelTakes, TypeOK
  <2>2. tx_producer' = producer /\ producer' = producer
    BY <1>13 DEF KernelTakes, WakeInv
  <2>. QED BY <1>3, <2>1, <2>2
<1>14. ASSUME NEW f, KernelCompletes(f) PROVE WakeInv'
  BY <1>1, <1>14 DEF KernelCompletes
<1>15. CASE KernelSleeps
  <2>1. UNCHANGED <<producer, tx_producer, tx_consumer>> /\ tx_consumer = producer
    BY <1>15 DEF KernelSleeps, WakeInv
  <2>2. Queued' = 0
    BY <1>t, <2>1, SubZero DEF Queued, TypeOK
  <2>3. ~(Queued' > 0)
    BY <2>2
  <2>4. NoLostWakeup'
    BY <2>3 DEF NoLostWakeup
  <2>. QED BY <1>t, <2>1, <2>4 DEF WakeInv
<1>16. CASE UNCHANGED vars
  BY <1>1, <1>16 DEF vars
<1>17. CASE Calls
  BY <1>17, <1>4, <1>5, <1>6, <1>7, <1>8 DEF Calls
<1>18. CASE CallSteps
  BY <1>18, <1>9, <1>10, <1>11, <1>20 DEF CallSteps
<1>19. CASE Kernel
  BY <1>19, <1>10, <1>11, <1>12, <1>13, <1>14, <1>15 DEF Kernel
<1>. QED BY <1>16, <1>17, <1>18, <1>19 DEF Next

\* On a machine that keeps the order of commit_'s store and kick's load, a
\* kick that has reached the kernel is not lost: for every sequence of calls,
\* batches included, the kernel does not sleep on committed descriptors.
THEOREM TxNoLostWakeup ==
  ASSUME StoreBuffer = 0
  PROVE  Spec => []NoLostWakeup
<1>1. Init => WakeInv
  <2>1. ASSUME Init PROVE ~(Queued > 0)
    <3>1. Queued = 0
      BY <2>1, SubZero, IndexType DEF Init, Queued
    <3>. QED BY <3>1
  <2>. QED BY <2>1, InitType DEF Init, WakeInv, NoLostWakeup
<1>2. WakeInv /\ [Next]_vars => WakeInv'
  BY WakeNext
<1>3. WakeInv => NoLostWakeup
  BY DEF WakeInv
<1>. QED BY <1>1, <1>2, <1>3, PTL DEF Spec
=============================================================================
