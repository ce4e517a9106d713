------------------------- MODULE TxFramePoolProofs --------------------------
(***************************************************************************)
(* TxSocket implements FramePool, for every ring length, index width and   *)
(* UMEM: under the inductive invariant of TxSocketProofs every step on the *)
(* rings is one step of the abstract pool or leaves it alone.              *)
(***************************************************************************)
EXTENDS TxFramePool, TxSocketProofs, FiniteSetTheorems

-----------------------------------------------------------------------------
(* Sequences that are given by their values. *)

\* A function on 1 .. n is a sequence of length n.
LEMMA FunctionIsSeq ==
  ASSUME NEW S, NEW n \in Nat, NEW f \in [1 .. n -> S]
  PROVE  f \in Seq(S) /\ Len(f) = n
<1>1. f \in Seq(S)
  BY SeqDef
<1>2. DOMAIN f = 1 .. n /\ DOMAIN f = 1 .. Len(f) /\ Len(f) \in Nat
  BY <1>1, LenProperties
<1>. QED BY <1>1, <1>2

\* The concatenation of two sequences, value by value.
LEMMA ConcatValues ==
  ASSUME NEW S, NEW f \in Seq(S), NEW b \in Seq(S), NEW g \in Seq(S),
         Len(g) = Len(f) + Len(b),
         \A i \in 1 .. Len(f) : g[i] = f[i],
         \A i \in 1 .. Len(b) : g[Len(f) + i] = b[i]
  PROVE  g = f \o b
<1>1. Len(f) \in Nat /\ Len(b) \in Nat
  BY LenProperties
<1>2. /\ f \o b \in Seq(S) /\ Len(f \o b) = Len(f) + Len(b)
      /\ \A i \in 1 .. Len(f) + Len(b) :
           (f \o b)[i] = IF i <= Len(f) THEN f[i] ELSE b[i - Len(f)]
  BY ConcatProperties
<1>3. ASSUME NEW i \in 1 .. Len(g) PROVE g[i] = (f \o b)[i]
  <2>1. CASE i <= Len(f)
    BY <1>1, <1>2, <2>1
  <2>2. CASE ~(i <= Len(f))
    <3>1. i - Len(f) \in 1 .. Len(b) /\ Len(f) + (i - Len(f)) = i
      BY <1>1, <2>2
    <3>. QED BY <1>1, <1>2, <2>2, <3>1
  <2>. QED BY <2>1, <2>2
<1>. QED BY <1>2, <1>3, SeqEqual

\* Appending one value.
LEMMA AppendValues ==
  ASSUME NEW S, NEW n \in Nat, NEW f \in [1 .. n -> S], NEW e \in S,
         NEW g \in [1 .. n + 1 -> S],
         \A i \in 1 .. n : g[i] = f[i], g[n + 1] = e
  PROVE  g = Append(f, e)
<1>1. f \in Seq(S) /\ Len(f) = n /\ g \in Seq(S) /\ Len(g) = n + 1
  BY FunctionIsSeq
<1>2. /\ Append(f, e) \in Seq(S) /\ Len(Append(f, e)) = n + 1
      /\ \A i \in 1 .. n : Append(f, e)[i] = f[i]
      /\ Append(f, e)[n + 1] = e
  BY <1>1, AppendProperties
<1>3. ASSUME NEW i \in 1 .. n + 1 PROVE g[i] = Append(f, e)[i]
  <2>1. i \in 1 .. n \/ i = n + 1
    OBVIOUS
  <2>. QED BY <1>2, <2>1
<1>. QED BY <1>1, <1>2, <1>3, SeqEqual

\* Dropping the first value.
LEMMA TailValues ==
  ASSUME NEW S, NEW n \in Nat \ {0}, NEW f \in [1 .. n -> S],
         NEW g \in [1 .. n - 1 -> S], \A i \in 1 .. n - 1 : g[i] = f[i + 1]
  PROVE  f # << >> /\ Head(f) = f[1] /\ g = Tail(f)
<1>1. f \in Seq(S) /\ Len(f) = n /\ g \in Seq(S) /\ Len(g) = n - 1
  BY FunctionIsSeq
<1>2. f # << >>
  BY <1>1
<1>3. /\ Tail(f) \in Seq(S) /\ Len(Tail(f)) = n - 1
      /\ \A i \in 1 .. n - 1 : Tail(f)[i] = f[i + 1]
  BY <1>1, <1>2, HeadTailProperties
<1>4. Head(f) = f[1]
  BY <1>1, <1>2
<1>. QED BY <1>1, <1>2, <1>3, <1>4, SeqEqual

-----------------------------------------------------------------------------
(* The places of the frames, as functions. *)

\* The queue and the completions are functions to the frames of the UMEM.
PlacesTyped ==
  /\ Queued \in Nat /\ Completed \in Nat
  /\ QueueOf \in [1 .. Queued -> Frames]
  /\ \A i \in 1 .. Queued : QueueOf[i] = tx_desc[Slot(tx_consumer + (i - 1))].frame
  /\ DoneOf \in [1 .. Completed -> Frames]
  /\ \A i \in 1 .. Completed : DoneOf[i] = c_desc[Slot(consumer + (i - 1))]

LEMMA PlacesType ==
  TypeOK => PlacesTyped
<1> SUFFICES ASSUME TypeOK PROVE PlacesTyped
  OBVIOUS
<1>1. ASSUME NEW i \in Int
      PROVE  /\ tx_desc[Slot(tx_consumer + i)].frame \in Frames
             /\ c_desc[Slot(consumer + i)] \in Frames
  BY PositionSlots DEF TypeOK, XdpDesc, WindowSlot
<1>2. \A i \in 1 .. Queued : i - 1 \in Int
  BY CountTypes
<1>3. \A i \in 1 .. Completed : i - 1 \in Int
  BY CountTypes
<1>. QED BY <1>1, <1>2, <1>3, CountTypes DEF PlacesTyped, QueueOf, DoneOf, WindowSlot

\* The same after a step.
LEMMA PlacesTypeNext ==
  TypeOK' => PlacesTyped'
BY PlacesType, PTL

-----------------------------------------------------------------------------
(* Steps that move no frame. *)

\* Neither a queue nor a pool of free frames sees the lengths in the
\* descriptors, the flag of the ring or the thread inside a call.
LEMMA PoolStutters ==
  ASSUME Inv, TypeOK',
         UNCHANGED <<available, producer, consumer, tx_consumer, c_desc, c_producer,
                     inflight>>,
         \A s \in Slots : tx_desc'[s].frame = tx_desc[s].frame
  PROVE  UNCHANGED Pool!poolVars
<1>1. /\ Queued' = Queued /\ Completed' = Completed
      /\ AvailableFrames' = AvailableFrames
  BY QuietStep, SameCounts
<1>2. TypeOK /\ PlacesTyped /\ PlacesTyped'
  BY PlacesType, PlacesTypeNext DEF Inv, Counts
<1>3. ASSUME NEW i \in 1 .. Queued PROVE QueueOf'[i] = QueueOf[i]
  <2>1. i - 1 \in Int
    BY <1>2, CountTypes
  <2>2. WindowSlot(i - 1) \in Slots
    BY <1>2, <2>1, PositionSlots
  <2>. QED BY <1>1, <1>2, <2>2 DEF PlacesTyped, WindowSlot
<1>4. QueueOf' = QueueOf
  BY <1>1, <1>2, <1>3 DEF PlacesTyped
<1>5. DoneOf' = DoneOf
  BY <1>1, <1>2 DEF PlacesTyped
<1>. QED BY <1>1, <1>4, <1>5 DEF Pool!poolVars

-----------------------------------------------------------------------------
(* commit_ *)

\* What is available, and only that, is in the window from Queued on.
LEMMA AvailableWindow ==
  ASSUME TypeOK, NEW i \in 0 .. available - 1
  PROVE  /\ Queued + i \in Queued .. Queued + available - 1
         /\ Queued + i \in 0 .. Queued + available - 1
         /\ tx_desc[WindowSlot(Queued + i)].frame \in AvailableFrames
<1>1. Queued + i \in Queued .. Queued + available - 1
  BY CountTypes DEF TypeOK
<1>2. Queued + i \in 0 .. Queued + available - 1
  BY CountTypes DEF TypeOK
<1>. QED BY <1>1, <1>2 DEF AvailableFrames

\* A commit of k > 0 descriptors moves the first k available frames to the end
\* of the queue, in the order of their slots.
LEMMA CommitIsPoolCommit ==
  ASSUME Inv, TypeOK', NEW n \in Nat, ~CommitRefused(n), CommitBody(n), U32(n) > 0,
         UNCHANGED <<consumer, tx_consumer, c_desc, c_producer, inflight>>,
         \A s \in Slots : tx_desc'[s].frame = tx_desc[s].frame
  PROVE  Pool!PoolCommit
<1> DEFINE k == U32(n)
           W(i) == tx_desc[WindowSlot(i)].frame
           b == [i \in 1 .. k |-> W(Queued + (i - 1))]
<1>1. k \in Nat \ {0} /\ k <= available /\ available \in Nat /\ Queued \in Nat
  <2>1. TypeOK
    BY DEF Inv, Counts
  <2>2. U32(n) \in Index /\ Index \subseteq Nat
    BY IndexType
  <2>3. k \in Nat /\ available \in Nat /\ Queued \in Nat
    BY <2>1, <2>2, CountTypes DEF TypeOK
  <2>. QED BY <2>3 DEF CommitRefused
<1>2. Queued' = Queued + k /\ available' = available - k
  BY CommitMoves DEF Inv, Counts, CommitBody
<1>3. TypeOK /\ PlacesTyped /\ PlacesTyped' /\ WindowDistinct
  BY PlacesType, PlacesTypeNext DEF Inv, Counts, FrameOwnership
<1>4. ASSUME NEW i \in Int
      PROVE  tx_desc'[Slot(tx_consumer' + i)].frame = W(i) /\ W(i) \in Frames
             /\ WindowSlot(i)' = Slot(tx_consumer' + i)
  BY <1>3, PositionSlots DEF WindowSlot, TypeOK, XdpDesc, Slot
<1>5. \A i \in 1 .. k : /\ i - 1 \in 0 .. available - 1
                        /\ Queued + (i - 1) \in Int
                        /\ (Queued + i) - 1 = Queued + (i - 1)
  BY <1>1
<1>. HIDE DEF k
<1>6. b \in [1 .. k -> AvailableFrames] /\ b \in [1 .. k -> Frames]
  BY <1>3, <1>4, <1>5, AvailableWindow
<1>7. \A i, j \in 1 .. k : b[i] = b[j] => i = j
  <2> SUFFICES ASSUME NEW i \in 1 .. k, NEW j \in 1 .. k, b[i] = b[j] PROVE i = j
    OBVIOUS
  <2>1. Queued + (i - 1) = Queued + (j - 1)
    BY <1>3, <1>5, AvailableWindow DEF WindowDistinct
  <2>. QED BY <1>1, <2>1
<1>8. k \in 1 .. Cardinality(AvailableFrames)
  <2>1. AvailableFrames \subseteq Frames
    <3>1. \A i \in Queued .. Queued + available - 1 : i \in Int
      BY <1>1
    <3>. QED BY <1>4, <3>1 DEF AvailableFrames
  <2>2. IsFiniteSet(AvailableFrames)
    <3>1. IsFiniteSet(Frames)
      BY FS_Interval, RingAssumption DEF Frames
    <3>. QED BY <2>1, <3>1, FS_Subset
  <2>3. b \in Injection(1 .. k, AvailableFrames)
    BY <1>6, <1>7 DEF Injection, IsInjective
  <2>4. Cardinality(1 .. k) <= Cardinality(AvailableFrames)
    BY <2>2, <2>3, FS_Injection
  <2>5. Cardinality(1 .. k) = k
    <3>1. 1 \in Int /\ k \in Int /\ ~(1 > k) /\ k - 1 + 1 = k
      BY <1>1
    <3>2. Cardinality(1 .. k) = IF 1 > k THEN 0 ELSE k - 1 + 1
      BY <3>1, FS_Interval, Zenon
    <3>. QED BY <3>1, <3>2
  <2>. QED BY <1>1, <2>2, <2>4, <2>5, FS_CardinalityType
<1>9. b \in Pool!Batches
  <2>1. Pool!Cardinality(AvailableFrames) = Cardinality(AvailableFrames)
    BY DEF Pool!Cardinality, Cardinality
  <2>. HIDE DEF b
  <2>2. b \in {c \in [1 .. k -> AvailableFrames] :
                 \A i, j \in 1 .. k : c[i] = c[j] => i = j}
    BY <1>6, <1>7
  <2>. QED BY <1>8, <2>1, <2>2 DEF Pool!Batches
<1>10. QueueOf' = QueueOf \o b
  <2>1. QueueOf \in [1 .. Queued -> Frames] /\ QueueOf' \in [1 .. Queued + k -> Frames]
    BY <1>2, <1>3 DEF PlacesTyped
  <2>2. ASSUME NEW i \in 1 .. Queued PROVE QueueOf'[i] = QueueOf[i]
    <3>1. i - 1 \in Int /\ i \in 1 .. Queued + k
      BY <1>1
    <3>. QED BY <1>2, <1>3, <1>4, <3>1 DEF PlacesTyped, WindowSlot
  <2>3. ASSUME NEW i \in 1 .. k PROVE QueueOf'[Queued + i] = b[i]
    <3>1. Queued + i \in 1 .. Queued + k
      BY <1>1
    <3>2. QueueOf'[Queued + i] = tx_desc'[Slot(tx_consumer' + ((Queued + i) - 1))].frame
      BY <1>2, <1>3, <3>1 DEF PlacesTyped
    <3>. QED BY <1>4, <1>5, <3>2
  <2>4. b \in [1 .. k -> Frames]
    BY <1>6
  <2>5. Queued \in Nat /\ k \in Nat
    BY <1>1
  <2>. HIDE DEF b
  <2>6. /\ \A i \in 1 .. Queued : QueueOf'[i] = QueueOf[i]
        /\ \A i \in 1 .. k : QueueOf'[Queued + i] = b[i]
    BY <2>2, <2>3
  <2>7. /\ QueueOf \in Seq(Frames) /\ Len(QueueOf) = Queued
        /\ b \in Seq(Frames) /\ Len(b) = k
    BY <2>1, <2>4, <2>5, FunctionIsSeq
  <2>8. QueueOf' \in Seq(Frames) /\ Len(QueueOf') = Queued + k
    BY <2>1, <2>5, FunctionIsSeq
  <2>. QED BY <2>6, <2>7, <2>8, ConcatValues
<1>11. AvailableFrames' = AvailableFrames \ {b[i] : i \in DOMAIN b}
  <2>1. AvailableFrames' = {W(i) : i \in Queued + k .. Queued + available - 1}
    <3>1. Queued' .. Queued' + available' - 1 = Queued + k .. Queued + available - 1
      BY <1>1, <1>2
    <3>2. \A i \in Queued + k .. Queued + available - 1 :
            tx_desc'[WindowSlot(i)'].frame = W(i)
      BY <1>1, <1>4
    <3>. QED BY <3>1, <3>2 DEF AvailableFrames
  <2>2. {b[i] : i \in DOMAIN b} = {W(i) : i \in Queued .. Queued + k - 1}
    <3>1. \A i \in 1 .. k : Queued + (i - 1) \in Queued .. Queued + k - 1
      BY <1>1
    <3>2. \A j \in Queued .. Queued + k - 1 :
            /\ j - Queued + 1 \in 1 .. k
            /\ Queued + ((j - Queued + 1) - 1) = j
      BY <1>1
    <3>3. ASSUME NEW j \in Queued .. Queued + k - 1
          PROVE  W(j) \in {b[i] : i \in DOMAIN b}
      BY <3>2
    <3>. QED BY <3>1, <3>3
  <2>3. AvailableFrames = {W(i) : i \in Queued .. Queued + available - 1}
    BY DEF AvailableFrames
  <2>4. \A i \in Queued .. Queued + available - 1 :
          \/ i \in Queued .. Queued + k - 1
          \/ i \in Queued + k .. Queued + available - 1
    BY <1>1
  <2>5. \A i \in Queued + k .. Queued + available - 1 :
          \A j \in Queued .. Queued + k - 1 :
            /\ i \in Queued .. Queued + available - 1
            /\ i \in 0 .. Queued + available - 1
            /\ j \in 0 .. Queued + available - 1
            /\ i # j
    BY <1>1
  <2>6. \A i \in Queued + k .. Queued + available - 1 :
          i \in Queued .. Queued + available - 1
    BY <1>1
  <2>7. \A i \in Queued + k .. Queued + available - 1 :
          \A j \in Queued .. Queued + k - 1 : W(i) # W(j)
    BY <1>3, <2>5 DEF WindowDistinct
  <2>. HIDE DEF W, b
  <2>. QED BY <2>1, <2>2, <2>3, <2>4, <2>6, <2>7
<1>12. DoneOf' = DoneOf
  <2>1. Completed' = Completed
    BY DEF Completed, WrappingSub, cRing
  <2>. QED BY <2>1 DEF DoneOf, Slot, cRing
<1>. QED BY <1>9, <1>10, <1>11, <1>12 DEF Pool!PoolCommit

-----------------------------------------------------------------------------
(* The kernel. *)

\* The kernel takes the head of the queue.
LEMMA TakeIsPoolTake ==
  ASSUME Inv, TypeOK', KernelTakes
  PROVE  Pool!PoolTake
<1>1. TypeOK /\ PlacesTyped /\ PlacesTyped'
  BY PlacesType, PlacesTypeNext DEF Inv, Counts
<1>2. Queued > 0
  BY TakesCounts DEF Inv, Counts
<1>3. /\ Queued' = Queued - 1
      /\ \A i \in Int : tx_desc'[WindowSlot(i)'] = tx_desc[WindowSlot(i + 1)]
      /\ ToSet(inflight') = ToSet(inflight) \cup {tx_desc[WindowSlot(0)].frame}
  <2>1. Accounting'
    BY TakesCounts DEF Inv, Counts
  <2>. QED BY <1>1, <1>2, <2>1, KernelTakesOwns DEF Inv
<1>4. /\ WindowSlot(0) = Slot(tx_consumer)
      /\ UNCHANGED <<available, consumer, c_desc, c_producer>>
  <2>1. tx_consumer + 0 = tx_consumer
    BY <1>1, RingAssumption DEF TypeOK, Index
  <2>. QED BY <2>1 DEF KernelTakes, socket, cRing, WindowSlot
<1>5. Queued \in Nat \ {0} /\ available \in Nat /\ tx_consumer \in Int
  <2>1. Queued \in Nat
    BY <1>1, CountTypes
  <2>2. available \in Nat /\ tx_consumer \in Int
    BY <1>1, RingAssumption DEF TypeOK, Index
  <2>. QED BY <1>2, <2>1, <2>2
<1>6. \A i \in Int : tx_desc'[Slot(tx_consumer' + i)] = tx_desc[Slot(tx_consumer + (i + 1))]
  BY <1>3 DEF WindowSlot, Slot
<1>7. /\ QueueOf \in [1 .. Queued -> Frames] /\ QueueOf' \in [1 .. Queued - 1 -> Frames]
      /\ \A i \in 1 .. Queued - 1 : QueueOf'[i] = QueueOf[i + 1]
  <2>1. ASSUME NEW i \in 1 .. Queued - 1 PROVE QueueOf'[i] = QueueOf[i + 1]
    <3>1. i - 1 \in Int /\ (i - 1) + 1 = i /\ (i + 1) - 1 = i /\ i + 1 \in 1 .. Queued
      BY <1>5
    <3>2. QueueOf'[i] = tx_desc'[Slot(tx_consumer' + (i - 1))].frame
      BY <1>1, <1>3 DEF PlacesTyped
    <3>3. QueueOf[i + 1] = tx_desc[Slot(tx_consumer + ((i + 1) - 1))].frame
      BY <1>1, <3>1 DEF PlacesTyped
    <3>. QED BY <1>6, <3>1, <3>2, <3>3
  <2>. QED BY <1>1, <1>3, <2>1 DEF PlacesTyped
<1>8. QueueOf # << >> /\ Head(QueueOf) = QueueOf[1] /\ QueueOf' = Tail(QueueOf)
  BY <1>5, <1>7, TailValues
<1>9. QueueOf[1] = tx_desc[Slot(tx_consumer)].frame
  <2>1. 1 \in 1 .. Queued /\ tx_consumer + (1 - 1) = tx_consumer
    BY <1>5
  <2>. QED BY <1>1, <2>1 DEF PlacesTyped
<1>10. AvailableFrames' = AvailableFrames
  <2>1. ASSUME NEW i \in Queued .. Queued + available - 1
        PROVE  /\ i - 1 \in Queued' .. Queued' + available' - 1
               /\ tx_desc'[WindowSlot(i - 1)'].frame = tx_desc[WindowSlot(i)].frame
    <3>1. i - 1 \in Queued' .. Queued' + available' - 1
      BY <1>3, <1>4, <1>5
    <3>2. i - 1 \in Int /\ (i - 1) + 1 = i
      BY <1>5
    <3>. QED BY <1>3, <3>1, <3>2
  <2>2. ASSUME NEW i \in Queued' .. Queued' + available' - 1
        PROVE  /\ i + 1 \in Queued .. Queued + available - 1
               /\ tx_desc'[WindowSlot(i)'].frame = tx_desc[WindowSlot(i + 1)].frame
    BY <1>3, <1>4, <1>5
  <2>. QED BY <2>1, <2>2 DEF AvailableFrames
<1>11. DoneOf' = DoneOf
  <2>1. Completed' = Completed
    BY <1>4 DEF Completed, WrappingSub
  <2>. QED BY <1>4, <2>1 DEF DoneOf, Slot
<1>. QED BY <1>3, <1>4, <1>8, <1>9, <1>10, <1>11 DEF Pool!PoolTake

\* The kernel appends a frame it was sending to the completions.
LEMMA CompleteIsPoolComplete ==
  ASSUME Inv, TypeOK', NEW f \in Frames, KernelCompletes(f)
  PROVE  Pool!PoolComplete
<1>1. TypeOK /\ PlacesTyped /\ PlacesTyped'
  BY PlacesType, PlacesTypeNext DEF Inv, Counts
<1>2. UNCHANGED <<available, producer, consumer, tx_desc, tx_consumer>>
  BY DEF KernelCompletes, socket, txRing
<1>3. /\ Completed' = Completed + 1
      /\ f \in ToSet(inflight) /\ ToSet(inflight') = ToSet(inflight) \ {f}
      /\ \A i \in 0 .. Completed - 1 :
           c_desc'[Slot(consumer + i)] = c_desc[Slot(consumer + i)]
      /\ c_desc'[Slot(consumer + Completed)] = f
  <2>1. /\ Accounting' /\ Queued' = Queued /\ Completed' = Completed + 1
        /\ Len(inflight') = Len(inflight) - 1
    BY CompletesCounts DEF Inv, Counts
  <2>2. Completed < RingLen
    <3>1. /\ Queued \in Nat /\ Completed \in Nat /\ available \in Nat
          /\ Len(inflight) \in Nat /\ Len(inflight') \in Nat
      BY <1>1, CountTypes, LenProperties DEF TypeOK
    <3>. QED BY <2>1, <3>1 DEF Inv, Counts, Accounting
  <2>. QED BY <1>1, <2>1, <2>2, KernelCompletesOwns DEF Inv
<1>4. DoneOf' = Append(DoneOf, f)
  <2>1. /\ DoneOf \in [1 .. Completed -> Frames] /\ Completed \in Nat
        /\ DoneOf' \in [1 .. Completed + 1 -> Frames]
    BY <1>1, <1>3 DEF PlacesTyped
  <2>2. ASSUME NEW i \in 1 .. Completed PROVE DoneOf'[i] = DoneOf[i]
    <3>1. i - 1 \in 0 .. Completed - 1 /\ i \in 1 .. Completed'
      BY <1>3, <2>1
    <3>. QED BY <1>1, <1>2, <1>3, <3>1 DEF PlacesTyped
  <2>3. DoneOf'[Completed + 1] = f
    <3>1. Completed + 1 \in 1 .. Completed' /\ (Completed + 1) - 1 = Completed
      BY <1>3, <2>1
    <3>2. DoneOf'[Completed + 1] = c_desc'[Slot(consumer' + ((Completed + 1) - 1))]
      BY <1>1, <3>1 DEF PlacesTyped
    <3>. QED BY <1>2, <1>3, <3>1, <3>2
  <2>. QED BY <2>1, <2>2, <2>3, AppendValues
<1>5. Queued' = Queued
  BY <1>2 DEF Queued, WrappingSub
<1>6. AvailableFrames' = AvailableFrames
  BY <1>2, <1>5 DEF AvailableFrames, WindowSlot
<1>7. QueueOf' = QueueOf
  BY <1>2, <1>5 DEF QueueOf, WindowSlot, Slot
<1>. QED BY <1>3, <1>4, <1>6, <1>7 DEF Pool!PoolComplete

-----------------------------------------------------------------------------
(* seek_ *)

\* A turn of seek_'s loop frees the frame that was completed first.
LEMMA ReclaimIsPoolReclaim ==
  ASSUME Inv, TypeOK', Reclaim
  PROVE  Pool!PoolReclaim
<1>1. TypeOK /\ PlacesTyped /\ PlacesTyped'
  BY PlacesType, PlacesTypeNext DEF Inv, Counts
<1>2. available = 0 /\ Completed > 0
  <2>1. pc = "reclaim"
    BY DEF Reclaim
  <2>. QED BY <2>1, <1>1, CountTypes DEF Inv, Counts, OneAtATime, ReclaimBounded
<1>3. /\ Queued' = Queued /\ Completed' = Completed - 1
      /\ \A i \in 0 .. Queued - 1 :
           tx_desc'[WindowSlot(i)].frame = tx_desc[WindowSlot(i)].frame
      /\ tx_desc'[WindowSlot(Queued)].frame = c_desc[Slot(consumer)]
  <2>1. Accounting'
    BY <1>2, ReclaimCounts DEF Inv, Counts
  <2>. QED BY <1>1, <1>2, <2>1, ReclaimOwns DEF Inv
<1>4. /\ available' = 1 /\ consumer' = WrappingAdd(consumer, 1)
      /\ UNCHANGED <<producer, tx_consumer, c_desc, c_producer, inflight>>
  BY <1>2 DEF Reclaim, kernel
<1>5. Completed \in Nat \ {0} /\ Queued \in Nat /\ consumer \in Index /\ consumer \in Int
  <2>1. Completed \in Nat /\ Queued \in Nat
    BY <1>1, CountTypes
  <2>2. consumer \in Index /\ consumer \in Int
    BY <1>1, RingAssumption DEF TypeOK, Index
  <2>. QED BY <1>2, <2>1, <2>2
<1>6. /\ DoneOf \in [1 .. Completed -> Frames] /\ DoneOf' \in [1 .. Completed - 1 -> Frames]
      /\ \A i \in 1 .. Completed - 1 : DoneOf'[i] = DoneOf[i + 1]
  <2>1. ASSUME NEW i \in 1 .. Completed - 1 PROVE DoneOf'[i] = DoneOf[i + 1]
    <3>1. i - 1 \in Int /\ 1 + (i - 1) = (i + 1) - 1 /\ i + 1 \in 1 .. Completed
      BY <1>5
    <3>2. DoneOf'[i] = c_desc'[Slot(consumer' + (i - 1))]
      BY <1>1, <1>3 DEF PlacesTyped
    <3>3. DoneOf[i + 1] = c_desc[Slot(consumer + ((i + 1) - 1))]
      BY <1>1, <3>1 DEF PlacesTyped
    <3>4. Slot(consumer' + (i - 1)) = Slot(consumer + (1 + (i - 1)))
      BY <1>4, <1>5, <3>1, IndexType, SlotAdd
    <3>. QED BY <1>4, <3>1, <3>2, <3>3, <3>4
  <2>. QED BY <1>1, <1>3, <2>1 DEF PlacesTyped
<1>7. DoneOf # << >> /\ Head(DoneOf) = DoneOf[1] /\ DoneOf' = Tail(DoneOf)
  BY <1>5, <1>6, TailValues
<1>8. DoneOf[1] = c_desc[Slot(consumer)]
  <2>1. 1 \in 1 .. Completed /\ consumer + (1 - 1) = consumer
    BY <1>5
  <2>. QED BY <1>1, <2>1 DEF PlacesTyped
<1>9. AvailableFrames' = AvailableFrames \cup {Head(DoneOf)}
  <2>1. AvailableFrames = {}
    <3>1. Queued .. Queued + available - 1 = {}
      BY <1>2, <1>5
    <3>. QED BY <3>1 DEF AvailableFrames
  <2>2. Queued' .. Queued' + available' - 1 = {Queued}
    BY <1>3, <1>4, <1>5
  <2>3. AvailableFrames' = {tx_desc'[WindowSlot(Queued)].frame}
    BY <2>2, <1>3, <1>4 DEF AvailableFrames, WindowSlot
  <2>. QED BY <1>3, <1>7, <1>8, <2>1, <2>3
<1>10. QueueOf' = QueueOf
  <2>1. ASSUME NEW i \in 1 .. Queued PROVE QueueOf'[i] = QueueOf[i]
    <3>1. i - 1 \in 0 .. Queued - 1
      BY <1>5
    <3>2. QueueOf'[i] = tx_desc'[Slot(tx_consumer' + (i - 1))].frame
      BY <1>1, <1>3 DEF PlacesTyped
    <3>3. QueueOf[i] = tx_desc[Slot(tx_consumer + (i - 1))].frame
      BY <1>1 DEF PlacesTyped
    <3>. QED BY <1>3, <1>4, <3>1, <3>2, <3>3 DEF WindowSlot
  <2>. QED BY <1>1, <1>3, <2>1 DEF PlacesTyped
<1>. QED BY <1>4, <1>7, <1>9, <1>10 DEF Pool!PoolReclaim

-----------------------------------------------------------------------------
(* The refinement. *)

\* A new socket has all frames of its ring free.
LEMMA PoolStarts ==
  Init => Pool!PoolInit
<1> SUFFICES ASSUME Init PROVE Pool!PoolInit
  OBVIOUS
<1>1. Queued = 0 /\ Completed = 0
  BY SubZero, IndexType DEF Init, Queued, Completed
<1>2. QueueOf = << >> /\ DoneOf = << >>
  BY <1>1 DEF QueueOf, DoneOf
<1>3. ASSUME NEW i \in 0 .. RingLen - 1 PROVE tx_desc[WindowSlot(i)].frame = i
  <2>1. RingLen \in Nat \ {0} /\ tx_consumer + i = i
    BY RingAssumption DEF Init
  <2>2. WindowSlot(i) = i
    BY <2>1, ModUnique DEF WindowSlot, Slot
  <2>. QED BY <2>1, <2>2 DEF Init, FillDesc, Slots
<1>4. Queued .. Queued + available - 1 = 0 .. RingLen - 1
  BY <1>1, RingAssumption DEF Init
<1>5. AvailableFrames = 0 .. RingLen - 1
  BY <1>3, <1>4 DEF AvailableFrames
<1>6. ToSet(inflight) = {}
  <2>1. DOMAIN inflight = {}
    BY DEF Init
  <2>. QED BY <2>1 DEF ToSet
<1>. QED BY <1>2, <1>5, <1>6 DEF Pool!PoolInit

\* Every commit: of nothing, which changes nothing, or of some descriptors.
LEMMA CommitMaps ==
  ASSUME Inv, TypeOK', NEW n \in Nat, ~CommitRefused(n), CommitBody(n),
         UNCHANGED <<consumer, tx_consumer, c_desc, c_producer, inflight>>,
         \A s \in Slots : tx_desc'[s].frame = tx_desc[s].frame
  PROVE  Pool!PoolCommit \/ UNCHANGED Pool!poolVars
<1>1. U32(n) \in Nat
  BY IndexType
<1>2. CASE U32(n) > 0
  BY <1>2, CommitIsPoolCommit
<1>3. CASE U32(n) = 0
  <2>1. available \in Nat /\ producer \in Index
    BY DEF Inv, Counts, TypeOK
  <2>2. WrappingAdd(producer, 0) = producer
    <3>1. producer + 0 = producer /\ producer < IndexMod
      BY <2>1, RingAssumption DEF Index
    <3>2. 0 \in Index
      BY IndexType
    <3>. QED BY <2>1, <3>1, <3>2, WrappingAddValue
  <2>3. available' = available /\ producer' = producer
    BY <1>3, <2>1, <2>2 DEF CommitBody
  <2>. QED BY <2>3, PoolStutters
<1>. QED BY <1>1, <1>2, <1>3

\* Every step of the socket or of the kernel is a step of the pool or none.
LEMMA StepMaps ==
  ASSUME Inv, [Next]_vars
  PROVE  [Pool!PoolNext]_(Pool!poolVars)
<1>. USE DEF socket, txRing, cRing, thread, kernel
<1>t. TypeOK /\ TypeOK'
  BY NextType DEF Inv, Counts
\* The steps that leave the descriptors and the indices alone.
<1>1. ASSUME UNCHANGED <<available, producer, consumer, tx_desc, tx_consumer,
                         c_desc, c_producer, inflight>>
      PROVE  UNCHANGED Pool!poolVars
  BY <1>1, <1>t, PoolStutters
<1>2. ASSUME NEW op, NEW n, NEW q, NEW l, SeekEntry(op, n, q, l)
      PROVE  UNCHANGED Pool!poolVars
  <2>1. UNCHANGED <<available, producer, consumer, tx_desc, tx_consumer,
                    c_desc, c_producer, inflight>>
    BY <1>2 DEF SeekEntry
  <2>. QED BY <1>1, <2>1
<1>3. ASSUME NEW op, NEW q, KickCall(op, q) PROVE UNCHANGED Pool!poolVars
  BY <1>1, <1>3 DEF KickCall
<1>4. CASE KickTest \/ SendToWakes \/ SendToFails \/ PollReturns
  <2>1. UNCHANGED <<available, producer, consumer, tx_desc, tx_consumer,
                    c_desc, c_producer, inflight>>
    BY <1>4 DEF KickTest, SendToWakes, SendToFails, PollReturns
  <2>. QED BY <1>1, <2>1
<1>5. CASE \/ StoreDrains \/ KernelPolled \/ KernelSleeps \/ InterfaceGone
           \/ UNCHANGED vars
  <2>1. UNCHANGED <<available, producer, consumer, tx_desc, tx_consumer,
                    c_desc, c_producer, inflight>>
    BY <1>5 DEF StoreDrains, KernelPolled, KernelSleeps, InterfaceGone, vars
  <2>. QED BY <1>1, <2>1
\* peek_ writes lengths only.
<1>6. ASSUME NEW index \in Nat, NEW l \in Nat, PeekBody(index, l)
      PROVE  UNCHANGED Pool!poolVars
  <2>1. /\ PeekWrites(index, l)
        /\ UNCHANGED <<available, producer, consumer, tx_consumer, c_desc,
                       c_producer, inflight>>
    BY <1>6 DEF PeekBody
  <2>2. \A s \in Slots : tx_desc'[s].frame = tx_desc[s].frame
    BY <1>t, <2>1, PeekType
  <2>. QED BY <1>t, <2>1, <2>2, PoolStutters
<1>7. ASSUME NEW index \in 0 .. RingLen, NEW l \in Lens, Peek(index, l)
      PROVE  UNCHANGED Pool!poolVars
  <2>1. index \in Nat /\ l \in Nat
    BY RingAssumption, TxAssumption
  <2>. QED BY <1>6, <1>7, <2>1 DEF Peek
<1>8. CASE PeekAfterSeek
  <2>1. 0 \in Nat /\ len \in Nat
    BY <1>t DEF TypeOK
  <2>. QED BY <1>6, <1>8, <2>1 DEF PeekAfterSeek
\* The calls that commit.
<1>9. ASSUME NEW n \in 0 .. MaxCommit, NEW op, NEW q, CommitCall(op, n, q)
      PROVE  Pool!PoolCommit \/ UNCHANGED Pool!poolVars
  <2>1. n \in Nat
    BY TxAssumption
  <2>2. UNCHANGED <<consumer, tx_desc, tx_consumer, c_desc, c_producer, inflight>>
    BY <1>9 DEF CommitCall
  <2>3. CASE CommitRefused(n)
    <3>1. UNCHANGED <<available, producer>>
      BY <1>9, <2>3 DEF CommitCall
    <3>. QED BY <1>1, <2>2, <3>1
  <2>4. CASE ~CommitRefused(n)
    <3>1. CommitBody(n)
      BY <1>9, <2>4 DEF CommitCall
    <3>. QED BY <1>t, <2>1, <2>2, <2>4, <3>1, CommitMaps
  <2>. QED BY <2>3, <2>4
<1>10. ASSUME NEW l \in Lens, NEW op, NEW q, SendCall(op, l, q)
       PROVE  Pool!PoolCommit \/ UNCHANGED Pool!poolVars
  <2>1. l \in Nat /\ 0 \in Nat /\ 1 \in Nat
    BY TxAssumption
  <2>2. UNCHANGED <<consumer, tx_consumer, c_desc, c_producer, inflight>> /\ PeekWrites(0, l)
    BY <1>10 DEF SendCall
  <2>3. \A s \in Slots : tx_desc'[s].frame = tx_desc[s].frame
    BY <1>t, <2>1, <2>2, PeekType
  <2>4. CASE PeekResult(0, l) # "Ok"
    <3>1. UNCHANGED <<available, producer>>
      BY <1>10, <2>4 DEF SendCall
    <3>. QED BY <1>t, <2>2, <2>3, <3>1, PoolStutters
  <2>5. CASE PeekResult(0, l) = "Ok"
    <3>1. CommitBody(1)
      BY <1>10, <2>5 DEF SendCall
    <3>2. ~CommitRefused(1)
      <4>1. 0 < available
        BY <1>t, <2>5 DEF PeekResult, PeekChecks, TypeOK
      <4>2. U32(1) = 1
        BY ModUnique, RingAssumption DEF U32
      <4>. QED BY <1>t, <4>1, <4>2 DEF CommitRefused, TypeOK
    <3>. QED BY <1>t, <2>1, <2>2, <2>3, <3>1, <3>2, CommitMaps
  <2>. QED BY <2>4, <2>5
\* The steps that move one frame.
<1>11. CASE Reclaim
  BY <1>11, <1>t, ReclaimIsPoolReclaim DEF Pool!PoolNext
<1>12. CASE KernelTakes
  BY <1>12, <1>t, TakeIsPoolTake DEF Pool!PoolNext
<1>13. ASSUME NEW f \in Frames, KernelCompletes(f) PROVE Pool!PoolComplete
  BY <1>13, <1>t, CompleteIsPoolComplete
<1>14. CASE Calls
  <2>1. CASE \/ \E n \in 0 .. MaxSeek : Seek(n)
             \/ \E l \in Lens : SeekAndPeek(l)
    BY <1>2, <2>1 DEF Seek, SeekAndPeek
  <2>2. CASE \E index \in 0 .. RingLen, l \in Lens : Peek(index, l)
    BY <1>7, <2>2
  <2>3. CASE \/ \E n \in 0 .. MaxCommit : Commit(n)
             \/ \E n \in 0 .. MaxCommit : CommitAndKick(n)
    BY <1>9, <2>3 DEF Commit, CommitAndKick, Pool!PoolNext
  <2>4. CASE \E l \in Lens : Send(l) \/ SendBlocking(l)
    BY <1>10, <2>4 DEF Send, SendBlocking, Pool!PoolNext
  <2>5. CASE Kick \/ PollWait
    BY <1>3, <2>5 DEF Kick, PollWait
  <2>. QED BY <1>14, <2>1, <2>2, <2>3, <2>4, <2>5 DEF Calls
<1>15. CASE CallSteps
  BY <1>15, <1>4, <1>5, <1>8, <1>11 DEF CallSteps, PollAgain, Pool!PoolNext
<1>16. CASE Kernel
  BY <1>16, <1>5, <1>12, <1>13 DEF Kernel, Pool!PoolNext
<1>. QED BY <1>5, <1>14, <1>15, <1>16 DEF Next

\* As long as the application asks seek_n for at most one descriptor, the
\* sending socket against its concurrent kernel is the abstract frame pool:
\* commit_ queues free frames, the kernel sends them in the order of the
\* commits, seek_ frees the completed ones in their order, and nothing else
\* moves a frame; for every ring length, index width and size of the UMEM.
THEOREM TxImplementsFramePool ==
  ASSUME MaxSeek <= 1
  PROVE  Spec => ImplementsFramePool
<1>1. Init => Pool!PoolInit
  BY PoolStarts
<1>2. Inv /\ [Next]_vars => [Pool!PoolNext]_(Pool!poolVars)
  BY StepMaps
<1>3. Spec => []Inv
  BY Invariance
<1>. QED BY <1>1, <1>2, <1>3, PTL DEF Spec, ImplementsFramePool, Pool!PoolSpec
=============================================================================
