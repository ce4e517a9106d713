------------------------- MODULE CreateSocketProofs -------------------------
(***************************************************************************)
(* Proofs about CreateSocket, for every number of frames and huge pages.   *)
(***************************************************************************)
EXTENDS CreateSocket, SequenceFacts, FiniteSetTheorems, TLAPS

\* The descriptor and the UMEM, which the sockets share, and all the things
\* that can be open.
Shared == {"fd", "umem"}
Things == Shared \cup RingTypes

-----------------------------------------------------------------------------
(* The inductive invariant. *)

\* The rings that create_socket has still to size or to map.
TodoOK ==
  /\ todo \in Seq(RingTypes)
  /\ pc \in {"set_size", "map"} => todo # << >>
  /\ pc = "map" => NoRepeat(todo) /\ ToSet(todo) \subseteq ToSet(MappedRings)

\* What create_socket holds before each of its calls.
Held ==
  /\ pc \in {"socket", "err"} => open = {}
  /\ pc \in {"meminfo", "mmap"} => open = {"fd"}
  /\ pc \in {"register", "set_size", "offsets"} => open = Shared
  /\ pc = "map" => open = Shared \cup (ToSet(MappedRings) \ ToSet(todo))
  /\ pc \in {"bind", "wrap"} => open = Shared \cup ToSet(MappedRings)

\* There are sockets only after create_socket has succeeded.
SocketsLast ==
  pc # "ok" => refs = 0 /\ \A s \in Sockets : sock[s] = "none"

\* Inner is counted once for every socket that has not started to drop it.
Counted ==
  pc = "ok" =>
    refs = (IF sock["TxSocket"] = "live" THEN 1 ELSE 0)
         + (IF sock["RxSocket"] = "live" THEN 1 ELSE 0)

\* A socket being dropped has something left to release, each thing once, and
\* only its own rings unless Inner has no owner any more.
DropsOK ==
  /\ drops \in [Sockets -> Seq(Things)]
  /\ \A s \in Sockets :
       /\ NoRepeat(drops[s])
       /\ sock[s] = "dropping" <=> drops[s] # << >>
       /\ ToSet(drops[s]) \subseteq Shared \cup ToSet(RingsOf(s))
       /\ ToSet(drops[s]) \cap Shared # {} => refs = 0
  /\ ToSet(drops["TxSocket"]) \cap ToSet(drops["RxSocket"]) = {}

\* The things that a socket has alone: its rings, or what is left of them and
\* of Inner.
OwnedBy(s) ==
  IF sock[s] = "live" THEN ToSet(RingsOf(s)) ELSE ToSet(drops[s])

\* Once the sockets exist, the things that are open are those that they own.
OpenIsOwned ==
  pc = "ok" =>
    open = (IF refs > 0 THEN Shared ELSE {})
             \cup OwnedBy("TxSocket") \cup OwnedBy("RxSocket")

Inv ==
  /\ TypeOK
  /\ TodoOK
  /\ Held
  /\ SocketsLast
  /\ Counted
  /\ DropsOK
  /\ OpenIsOwned

-----------------------------------------------------------------------------
(* What a direction asks for. *)

\* The rings of a socket, and what goes with Inner.
LEMMA RingSets ==
  /\ \A s \in Sockets : /\ RingsOf(s) \in Seq(Things) /\ NoRepeat(RingsOf(s))
                        /\ RingsOf(s) # << >>
  /\ ToSet(RingsOf("TxSocket")) = {"Tx", "Completion"}
  /\ ToSet(RingsOf("RxSocket")) = {"Rx", "Fill"}
  /\ InnerDrops \in Seq(Things) /\ NoRepeat(InnerDrops)
  /\ InnerDrops # << >> /\ ToSet(InnerDrops) = Shared
<1>t. /\ "Tx" \in Things /\ "Completion" \in Things /\ "Tx" # "Completion"
      /\ "Rx" \in Things /\ "Fill" \in Things /\ "Rx" # "Fill"
      /\ "umem" \in Things /\ "fd" \in Things /\ "umem" # "fd"
  BY DEF Things, Shared, RingTypes
<1>1. /\ <<"Tx", "Completion">> \in Seq(Things) /\ <<"Tx", "Completion">> # << >>
      /\ ToSet(<<"Tx", "Completion">>) = {"Tx", "Completion"}
      /\ NoRepeat(<<"Tx", "Completion">>)
  BY <1>t, PairSet, Zenon
<1>2. /\ <<"Rx", "Fill">> \in Seq(Things) /\ <<"Rx", "Fill">> # << >>
      /\ ToSet(<<"Rx", "Fill">>) = {"Rx", "Fill"}
      /\ NoRepeat(<<"Rx", "Fill">>)
  BY <1>t, PairSet, Zenon
<1>3. /\ <<"umem", "fd">> \in Seq(Things) /\ <<"umem", "fd">> # << >>
      /\ ToSet(<<"umem", "fd">>) = {"umem", "fd"}
      /\ NoRepeat(<<"umem", "fd">>)
  BY <1>t, PairSet, Zenon
<1>. QED BY <1>1, <1>2, <1>3 DEF RingsOf, InnerDrops, Sockets, Shared

\* The rings that are mapped.
LEMMA MappedSets ==
  ASSUME direction \in {"Tx", "Rx", "Both"}
  PROVE  /\ MappedRings \in Seq(RingTypes) /\ MappedRings # << >>
         /\ NoRepeat(MappedRings)
         /\ ToSet(MappedRings) =
              (IF direction = "Rx" THEN {} ELSE {"Tx", "Completion"})
                \cup (IF direction = "Tx" THEN {} ELSE {"Rx", "Fill"})
<1>t. /\ "Completion" \in RingTypes /\ "Tx" \in RingTypes /\ "Completion" # "Tx"
      /\ "Rx" \in RingTypes /\ "Fill" \in RingTypes /\ "Rx" # "Fill"
  BY DEF RingTypes
<1> DEFINE a == <<"Completion", "Tx">>
           b == <<"Rx", "Fill">>
<1>1. /\ a \in Seq(RingTypes) /\ a # << >> /\ ToSet(a) = {"Completion", "Tx"}
      /\ NoRepeat(a)
  BY <1>t, PairSet, Zenon
<1>2. b \in Seq(RingTypes) /\ b # << >> /\ ToSet(b) = {"Rx", "Fill"} /\ NoRepeat(b)
  BY <1>t, PairSet, Zenon
<1>. HIDE DEF a, b
<1>3. CASE direction = "Tx"
  <2>1. MappedRings = a \o << >>
    BY <1>3 DEF MappedRings, a
  <2>. QED BY <1>1, <1>3, <2>1, ConcatEmptySeq
<1>4. CASE direction = "Rx"
  <2>1. MappedRings = << >> \o b
    BY <1>4 DEF MappedRings, b
  <2>. QED BY <1>2, <1>4, <2>1, ConcatEmptySeq
<1>5. CASE direction = "Both"
  <2>1. MappedRings = a \o b
    BY <1>5 DEF MappedRings, a, b
  <2>2. /\ a \o b \in Seq(RingTypes) /\ NoRepeat(a \o b)
        /\ ToSet(a \o b) = ToSet(a) \cup ToSet(b)
    BY <1>1, <1>2, ConcatSet
  <2>3. a \o b # << >>
    BY <1>1, <2>2, EmptySet
  <2>. QED BY <1>1, <1>2, <1>5, <2>1, <2>2, <2>3
<1>. QED BY <1>3, <1>4, <1>5

\* Half of the frames is not more than all of them.
LEMMA HalfOfFrames ==
  FrameCount \div 2 \in 0 .. FrameCount
BY CreateAssumption

\* The rings that are sized, and their sizes.
LEMMA SizedSets ==
  ASSUME direction \in {"Tx", "Rx", "Both"}
  PROVE  /\ SizedRings \in Seq(RingTypes) /\ SizedRings # << >>
         /\ \A r \in RingTypes : SetSize(r) \in 0 .. FrameCount
<1> DEFINE a == <<"Fill", "Completion">>
           b == IF tx_ring_size > 0 THEN <<"Tx">> ELSE << >>
           c == IF rx_ring_size > 0 THEN <<"Rx">> ELSE << >>
<1>t. /\ "Fill" \in RingTypes /\ "Completion" \in RingTypes /\ "Fill" # "Completion"
      /\ "Tx" \in RingTypes /\ "Rx" \in RingTypes
  BY DEF RingTypes
<1>1. a \in Seq(RingTypes) /\ ToSet(a) = {"Fill", "Completion"}
  BY <1>t, PairSet, Zenon
<1>2. b \in Seq(RingTypes) /\ c \in Seq(RingTypes)
  <2>1. <<"Tx">> \in Seq(RingTypes) /\ <<"Rx">> \in Seq(RingTypes)
    BY <1>t
  <2>2. << >> \in Seq(RingTypes)
    BY EmptySet
  <2>. QED BY <2>1, <2>2, Zenon
<1>3. SizedRings = (a \o b) \o c
  BY DEF SizedRings
<1>. HIDE DEF a, b, c
<1>4. a \o b \in Seq(RingTypes) /\ ToSet(a \o b) = ToSet(a) \cup ToSet(b)
  BY <1>1, <1>2, ConcatSet
<1>5. SizedRings \in Seq(RingTypes) /\ ToSet(SizedRings) = ToSet(a \o b) \cup ToSet(c)
  <2> DEFINE d == a \o b
  <2>1. d \in Seq(RingTypes) /\ SizedRings = d \o c
    BY <1>3, <1>4
  <2>. HIDE DEF d
  <2>2. SizedRings \in Seq(RingTypes) /\ ToSet(SizedRings) = ToSet(d) \cup ToSet(c)
    BY <1>2, <2>1, ConcatSet
  <2>. QED BY <2>2 DEF d
<1>6. SizedRings # << >>
  BY <1>1, <1>4, <1>5, EmptySet
<1>7. tx_ring_size \in 0 .. FrameCount /\ rx_ring_size \in 0 .. FrameCount
  BY HalfOfFrames, CreateAssumption DEF tx_ring_size, rx_ring_size
<1>8. \A r \in RingTypes : SetSize(r) \in 0 .. FrameCount
  BY <1>7, CreateAssumption DEF SetSize
<1>. QED BY <1>5, <1>6, <1>8

-----------------------------------------------------------------------------
(* create_socket *)

\* A program that has called nothing yet.
LEMMA InvInit ==
  Init => Inv
<1> SUFFICES ASSUME Init PROVE Inv
  OBVIOUS
<1>1. \A S : << >> \in Seq(S) /\ ToSet(<< >>) = {} /\ NoRepeat(<< >>)
  BY EmptySet
<1>2. \A s \in Sockets : drops[s] = << >> /\ sock[s] = "none"
  BY DEF Init
<1>3. TypeOK
  <2>1. size \in [RingTypes -> 0 .. FrameCount]
    BY CreateAssumption DEF Init
  <2>2. sock \in [Sockets -> {"none", "live", "dropping", "dropped"}]
    BY DEF Init
  <2>3. /\ ToSet(todo) \subseteq RingTypes
        /\ \A s \in Sockets : ToSet(drops[s]) \subseteq {"fd", "umem"} \cup RingTypes
    BY <1>1, <1>2 DEF Init
  <2>4. /\ direction \in {"Tx", "Rx", "Both"}
        /\ huge_page \in {"None", "Some(true)", "Some(false)"}
        /\ free \in 0 .. MaxFree
        /\ pc = "socket" /\ open = {} /\ blame = "none" /\ huge_tlb = FALSE
    BY DEF Init
  <2>5. refs \in 0 .. 2
    BY DEF Init
  <2>. QED BY <2>1, <2>2, <2>3, <2>4, <2>5, Zenon DEF TypeOK
<1>4. TodoOK /\ Held /\ SocketsLast /\ Counted /\ OpenIsOwned
  BY <1>1, <1>2 DEF Init, TodoOK, Held, SocketsLast, Counted, OpenIsOwned
<1>5. DropsOK
  BY <1>1, <1>2 DEF Init, DropsOK, Sockets
<1>. QED BY <1>3, <1>4, <1>5 DEF Inv

\* What the invariant says of the sockets does not depend on the rest before
\* create_socket has returned.
LEMMA CreatingStep ==
  ASSUME Inv, pc # "ok", pc' # "ok", UNCHANGED life, TypeOK', TodoOK', Held'
  PROVE  Inv'
<1>1. SocketsLast' /\ Counted' /\ OpenIsOwned'
  BY DEF Inv, SocketsLast, Counted, OpenIsOwned, life
<1>2. DropsOK'
  BY DEF Inv, DropsOK, life
<1>. QED BY <1>1, <1>2 DEF Inv

\* A failed call keeps what create_socket holds.
LEMMA FailStep ==
  ASSUME Inv, pc # "ok", NEW why \in {"system", "huge pages", "ring size"}, Fail(why)
  PROVE  Inv'
<1>1. /\ pc' = "unwind" /\ blame' = why
      /\ UNCHANGED <<direction, huge_page, free, todo, huge_tlb, size, open,
                     refs, drops, sock>>
  BY DEF Fail, config, life
<1>2. TypeOK'
  BY <1>1 DEF Inv, TypeOK
<1>3. TodoOK' /\ Held'
  BY <1>1 DEF Inv, TodoOK, Held
<1>. QED BY <1>1, <1>2, <1>3, CreatingStep DEF life

\* A call that starts a list of rings, or has nothing to do with them.
LEMMA SyscallStep ==
  ASSUME Inv, NEW from, from # "ok", NEW to, NEW rings \in Seq(RingTypes),
         Syscall(from, to, rings),
         pc' # "unwind" => TodoOK' /\ Held' /\ to # "ok",
         to \in {"set_size", "map", "wrap"}
  PROVE  Inv'
<1>1. pc = from
  BY DEF Syscall
<1>2. CASE Fail("system")
  BY <1>1, <1>2, FailStep
<1>3. CASE /\ pc' = to /\ todo' = rings
           /\ UNCHANGED <<config, free, huge_tlb, size, open, life, blame>>
  <2>1. ToSet(rings) \subseteq RingTypes
    BY SetOfSeq
  <2>2. TypeOK'
    BY <1>3, <2>1 DEF Inv, TypeOK, config, life
  <2>3. pc' # "unwind" /\ pc' # "ok"
    BY <1>3
  <2>. QED BY <1>1, <1>3, <2>2, <2>3, CreatingStep
<1>. QED BY <1>2, <1>3 DEF Syscall

\* Every step of create_socket keeps the invariant.
LEMMA CreateStep ==
  ASSUME Inv, Create
  PROVE  Inv'
<1>. USE DEF config, life
<1>t. /\ TypeOK /\ TodoOK /\ Held
      /\ direction \in {"Tx", "Rx", "Both"}
  BY DEF Inv, TypeOK
<1>m. UNCHANGED direction => MappedRings' = MappedRings
  BY DEF MappedRings
<1>1. CASE Socket
  <2>1. CASE Fail("system")
    BY <1>1, <2>1, FailStep DEF Socket
  <2>2. CASE /\ open' = open \cup {"fd"} /\ pc' = "meminfo"
             /\ UNCHANGED <<config, free, todo, huge_tlb, size, life, blame>>
    <3>1. open' = {"fd"} /\ pc = "socket"
      BY <1>1, <1>t, <2>2 DEF Socket, Held
    <3>2. TypeOK'
      BY <1>t, <2>2, <3>1 DEF TypeOK
    <3>3. TodoOK' /\ Held'
      BY <1>t, <2>2, <3>1 DEF TodoOK, Held
    <3>. QED BY <2>2, <3>1, <3>2, <3>3, CreatingStep
  <2>. QED BY <1>1, <2>1, <2>2 DEF Socket
<1>2. CASE MemInfo
  <2>1. pc = "meminfo"
    BY <1>2 DEF MemInfo
  <2>2. CASE Fail("system")
    BY <2>1, <2>2, FailStep
  <2>3. CASE /\ huge_tlb' = (huge_page = "Some(true)" \/ (huge_page = "None" /\ free > 0))
             /\ pc' = "mmap"
             /\ UNCHANGED <<config, free, todo, size, open, life, blame>>
    <3>1. TypeOK'
      BY <1>t, <2>3 DEF TypeOK
    <3>2. TodoOK' /\ Held'
      BY <1>t, <2>1, <2>3 DEF TodoOK, Held
    <3>. QED BY <2>1, <2>3, <3>1, <3>2, CreatingStep
  <2>. QED BY <1>2, <2>2, <2>3 DEF MemInfo
<1>3. CASE MmapUmem
  <2>1. pc = "mmap"
    BY <1>3 DEF MmapUmem
  <2>2. CASE Fail("system") \/ Fail("huge pages")
    BY <2>1, <2>2, FailStep
  <2>3. CASE /\ huge_tlb => free >= UmemPages
             /\ open' = open \cup {"umem"}
             /\ free' = IF huge_tlb THEN free - UmemPages ELSE free
             /\ pc' = "register"
             /\ UNCHANGED <<config, todo, huge_tlb, size, life, blame>>
    <3>1. open' = Shared
      BY <1>t, <2>1, <2>3 DEF Held, Shared
    <3>2. free' \in 0 .. MaxFree
      <4>1. free \in 0 .. MaxFree /\ UmemPages \in Nat /\ MaxFree \in Nat
        BY <1>t, CreateAssumption DEF TypeOK
      <4>2. free' = free \/ (free >= UmemPages /\ free' = free - UmemPages)
        BY <2>3, Zenon
      <4>. QED BY <4>1, <4>2
    <3>3. TypeOK'
      BY <1>t, <2>3, <3>1, <3>2 DEF TypeOK, Shared
    <3>4. TodoOK' /\ Held'
      BY <1>t, <2>3, <3>1 DEF TodoOK, Held
    <3>. QED BY <2>1, <2>3, <3>3, <3>4, CreatingStep
  <2>. QED BY <1>3, <2>2, <2>3 DEF MmapUmem
<1>4. CASE Register
  <2>1. /\ pc = "register" /\ UNCHANGED <<direction, open>>
        /\ pc' # "unwind" => pc' = "set_size" /\ todo' = SizedRings
    BY <1>4 DEF Register, Syscall, Fail
  <2>2. SizedRings \in Seq(RingTypes) /\ SizedRings # << >>
    BY <1>t, SizedSets
  <2>3. pc' # "unwind" => TodoOK' /\ Held'
    BY <1>t, <2>1, <2>2 DEF TodoOK, Held
  <2>. QED BY <1>4, <2>2, <2>3, SyscallStep DEF Register
<1>5. CASE SizeRing
  <2>1. pc = "set_size" /\ todo # << >> /\ todo \in Seq(RingTypes)
    BY <1>5, <1>t DEF SizeRing, TodoOK
  <2>2. CASE Fail("system")
    BY <2>1, <2>2, FailStep
  <2>3. CASE /\ size' = [size EXCEPT ![Head(todo)] = SetSize(Head(todo))]
             /\ todo' = Tail(todo)
             /\ pc' = IF Tail(todo) = << >> THEN "offsets" ELSE "set_size"
             /\ UNCHANGED <<config, free, huge_tlb, open, life, blame>>
    <3>1. Head(todo) \in RingTypes /\ Tail(todo) \in Seq(RingTypes)
          /\ ToSet(Tail(todo)) \subseteq RingTypes
      BY <2>1, TailSet, SetOfSeq
    <3>2. SetSize(Head(todo)) \in 0 .. FrameCount
      BY <1>t, <3>1, SizedSets
    <3>3. size' \in [RingTypes -> 0 .. FrameCount]
      BY <1>t, <2>3, <3>1, <3>2 DEF TypeOK
    <3>4. TypeOK'
      BY <1>t, <2>3, <3>1, <3>3 DEF TypeOK
    <3>5. TodoOK' /\ Held'
      BY <1>t, <2>1, <2>3, <3>1 DEF TodoOK, Held
    <3>. QED BY <2>1, <2>3, <3>4, <3>5, CreatingStep
  <2>. QED BY <1>5, <2>2, <2>3 DEF SizeRing
<1>6. CASE RingOffsets
  <2>1. /\ pc = "offsets" /\ UNCHANGED <<direction, open>>
        /\ pc' # "unwind" => pc' = "map" /\ todo' = MappedRings
    BY <1>6 DEF RingOffsets, Syscall, Fail
  <2>2. /\ MappedRings \in Seq(RingTypes) /\ MappedRings # << >>
        /\ NoRepeat(MappedRings) /\ MappedRings' = MappedRings
    BY <1>t, <1>m, <2>1, MappedSets
  <2>3. pc' # "unwind" => TodoOK' /\ Held'
    BY <1>t, <2>1, <2>2 DEF TodoOK, Held
  <2>. QED BY <1>6, <2>2, <2>3, SyscallStep DEF RingOffsets
<1>7. CASE MapRing
  <2>1. /\ pc = "map" /\ todo # << >> /\ todo \in Seq(RingTypes) /\ NoRepeat(todo)
        /\ ToSet(todo) \subseteq ToSet(MappedRings)
        /\ open = Shared \cup (ToSet(MappedRings) \ ToSet(todo))
    BY <1>7, <1>t DEF MapRing, TodoOK, Held
  <2>2. CASE Fail("system") \/ Fail("ring size")
    BY <2>1, <2>2, FailStep
  <2>3. CASE /\ open' = open \cup {Head(todo)}
             /\ todo' = Tail(todo)
             /\ pc' = IF Tail(todo) = << >> THEN "bind" ELSE "map"
             /\ UNCHANGED <<config, free, huge_tlb, size, life, blame>>
    <3>1. /\ Head(todo) \in ToSet(todo) /\ Head(todo) \in RingTypes
          /\ Tail(todo) \in Seq(RingTypes) /\ NoRepeat(Tail(todo))
          /\ ToSet(Tail(todo)) = ToSet(todo) \ {Head(todo)}
          /\ ToSet(Tail(todo)) \subseteq RingTypes
      BY <2>1, TailSet, SetOfSeq
    <3>2. open' = Shared \cup (ToSet(MappedRings) \ ToSet(Tail(todo)))
      BY <2>1, <2>3, <3>1
    <3>3. MappedRings' = MappedRings
      BY <1>m, <2>3
    <3>4. Tail(todo) = << >> => ToSet(Tail(todo)) = {}
      BY EmptySet
    <3>5. TypeOK'
      BY <1>t, <2>3, <3>1 DEF TypeOK
    <3>6. TodoOK'
      BY <2>1, <2>3, <3>1, <3>3 DEF TodoOK
    <3>7. Held'
      BY <2>3, <3>2, <3>3, <3>4 DEF Held
    <3>. QED BY <2>1, <2>3, <3>5, <3>6, <3>7, CreatingStep
  <2>. QED BY <1>7, <2>2, <2>3 DEF MapRing
<1>8. CASE Bind
  <2>1. /\ pc = "bind" /\ UNCHANGED <<direction, open>>
        /\ pc' # "unwind" => pc' = "wrap" /\ todo' = << >>
    BY <1>8 DEF Bind, Syscall, Fail
  <2>2. << >> \in Seq(RingTypes) /\ MappedRings' = MappedRings
    BY <1>m, <2>1, EmptySet
  <2>3. pc' # "unwind" => TodoOK' /\ Held'
    BY <1>t, <2>1, <2>2 DEF TodoOK, Held
  <2>. QED BY <1>8, <2>2, <2>3, SyscallStep DEF Bind
<1>9. CASE Wrap
  <2>1. /\ pc = "wrap" /\ pc' = "ok" /\ refs' = Cardinality(Returned)
        /\ sock' = [s \in Sockets |-> IF s \in Returned THEN "live" ELSE "none"]
        /\ UNCHANGED <<direction, huge_page, free, todo, huge_tlb, size, open,
                       drops, blame>>
    BY <1>9 DEF Wrap
  <2>2. Returned \in {{"TxSocket"}, {"RxSocket"}, {"TxSocket", "RxSocket"}}
        /\ ("TxSocket" \in Returned <=> direction # "Rx")
        /\ ("RxSocket" \in Returned <=> direction # "Tx")
    BY <1>t DEF Returned
  <2>3. refs' = (IF "TxSocket" \in Returned THEN 1 ELSE 0)
              + (IF "RxSocket" \in Returned THEN 1 ELSE 0)
    <3>1. Cardinality({"TxSocket"}) = 1 /\ Cardinality({"RxSocket"}) = 1
          /\ IsFiniteSet({"TxSocket"})
      BY FS_Singleton
    <3>2. Cardinality({"TxSocket"} \cup {"RxSocket"}) = 2
      BY <3>1, FS_AddElement
    <3>3. {"TxSocket"} \cup {"RxSocket"} = {"TxSocket", "RxSocket"}
      OBVIOUS
    <3>4. CASE Returned = {"TxSocket"}
      BY <2>1, <3>1, <3>4
    <3>5. CASE Returned = {"RxSocket"}
      BY <2>1, <3>1, <3>5
    <3>6. CASE Returned = {"TxSocket", "RxSocket"}
      BY <2>1, <3>2, <3>3, <3>6
    <3>. QED BY <2>2, <3>4, <3>5, <3>6
  <2>4. /\ "TxSocket" \in Sockets /\ "RxSocket" \in Sockets
        /\ \A s \in Sockets : s = "TxSocket" \/ s = "RxSocket"
    BY DEF Sockets
  <2>5. /\ \A s \in Sockets : sock[s] = "none" /\ drops[s] = << >>
        /\ drops \in [Sockets -> Seq(Things)]
    BY <2>1 DEF Inv, SocketsLast, DropsOK
  <2>6. \A s \in Sockets : sock'[s] = IF s \in Returned THEN "live" ELSE "none"
    BY <2>1
  <2>7. TypeOK'
    <3>1. refs' \in 0 .. 2
      BY <2>3
    <3>2. sock' \in [Sockets -> {"none", "live", "dropping", "dropped"}]
      BY <2>1
    <3>. QED BY <1>t, <2>1, <3>1, <3>2 DEF TypeOK
  <2>8. TodoOK' /\ Held' /\ SocketsLast'
    BY <1>t, <2>1 DEF TodoOK, Held, SocketsLast
  <2>9. Counted'
    BY <2>3, <2>4, <2>6 DEF Counted
  <2>10. ToSet(<< >>) = {} /\ NoRepeat(<< >>)
    BY EmptySet
  <2>11. DropsOK'
    BY <2>1, <2>4, <2>5, <2>6, <2>10 DEF DropsOK
  <2>12. OpenIsOwned'
    <3>1. open' = Shared \cup ToSet(MappedRings)
      BY <1>t, <2>1 DEF Held
    <3>2. refs' > 0
      BY <2>2, <2>3
    <3>3. OwnedBy("TxSocket")' = IF direction = "Rx" THEN {} ELSE {"Tx", "Completion"}
      BY <2>1, <2>2, <2>4, <2>5, <2>6, <2>10, RingSets DEF OwnedBy, RingsOf
    <3>4. OwnedBy("RxSocket")' = IF direction = "Tx" THEN {} ELSE {"Rx", "Fill"}
      BY <2>1, <2>2, <2>4, <2>5, <2>6, <2>10, RingSets DEF OwnedBy, RingsOf
    <3>5. ToSet(MappedRings) = OwnedBy("TxSocket")' \cup OwnedBy("RxSocket")'
      BY <1>t, <3>3, <3>4, MappedSets
    <3>. QED BY <3>1, <3>2, <3>5 DEF OpenIsOwned
  <2>. QED BY <2>7, <2>8, <2>9, <2>11, <2>12 DEF Inv
<1>10. CASE Unwind
  <2> DEFINE held == {i \in DOMAIN UnwindOrder : UnwindOrder[i] \in open}
  <2>1. /\ pc = "unwind"
        /\ UNCHANGED <<direction, huge_page, free, todo, huge_tlb, size, refs,
                       drops, sock, blame>>
        /\ pc' \in {"unwind", "err"}
        /\ open' \subseteq open
    BY <1>10 DEF Unwind
  <2>2. TypeOK'
    BY <1>t, <2>1 DEF TypeOK
  <2>3. TodoOK'
    BY <1>t, <2>1 DEF TodoOK
  <2>4. \A x \in open : \E i \in held : UnwindOrder[i] = x
    <3>1. open \subseteq {"fd", "umem", "Tx", "Rx", "Fill", "Completion"}
      BY <1>t DEF TypeOK, RingTypes
    <3>2. /\ UnwindOrder[1] = "fd" /\ UnwindOrder[2] = "umem"
          /\ UnwindOrder[3] = "Completion" /\ UnwindOrder[4] = "Tx"
          /\ UnwindOrder[5] = "Rx" /\ UnwindOrder[6] = "Fill"
          /\ DOMAIN UnwindOrder = 1 .. 6
      BY DEF UnwindOrder, Acquired
    <3>. QED BY <3>1, <3>2
  <2>5. pc' = "err" => open' = {}
    <3> HAVE pc' = "err"
    <3>1. CASE held = {} /\ open' = open
      BY <2>4, <3>1
    <3>2. ASSUME NEW i \in held, open' = open \ {UnwindOrder[i]}, held = {i}
          PROVE  open' = {}
      BY <2>4, <3>2
    <3>. QED BY <1>10, <3>1, <3>2 DEF Unwind
  <2>6. Held'
    BY <2>1, <2>5 DEF Held
  <2>. QED BY <2>1, <2>2, <2>3, <2>6, CreatingStep
<1>. QED BY <1>1, <1>2, <1>3, <1>4, <1>5, <1>6, <1>7, <1>8, <1>9, <1>10 DEF Create

-----------------------------------------------------------------------------
(* Dropping the sockets. *)

\* The other socket of the pair.
Other(s) == IF s = "TxSocket" THEN "RxSocket" ELSE "TxSocket"

\* The invariant once the sockets exist, said of a socket and the other one.
LEMMA PairView ==
  ASSUME Inv, pc = "ok", NEW s \in Sockets
  PROVE  /\ Other(s) \in Sockets /\ Other(s) # s
         /\ \A t \in Sockets : t = s \/ t = Other(s)
         /\ ToSet(RingsOf(s)) \cap (ToSet(RingsOf(Other(s))) \cup Shared) = {}
         /\ ToSet(RingsOf(s)) \subseteq RingTypes
         /\ refs = (IF sock[s] = "live" THEN 1 ELSE 0)
                 + (IF sock[Other(s)] = "live" THEN 1 ELSE 0)
         /\ ToSet(drops[s]) \cap ToSet(drops[Other(s)]) = {}
         /\ open = (IF refs > 0 THEN Shared ELSE {})
                     \cup OwnedBy(s) \cup OwnedBy(Other(s))
<1>1. CASE s = "TxSocket"
  <2>1. Other(s) = "RxSocket" /\ Sockets = {"TxSocket", "RxSocket"}
    BY <1>1 DEF Other, Sockets
  <2>2. /\ ToSet(RingsOf(s)) \cap (ToSet(RingsOf(Other(s))) \cup Shared) = {}
        /\ ToSet(RingsOf(s)) \subseteq RingTypes
    BY <1>1, <2>1, RingSets DEF Shared, RingTypes
  <2>. QED BY <1>1, <2>1, <2>2 DEF Inv, Counted, DropsOK, OpenIsOwned
<1>2. CASE s = "RxSocket"
  <2>1. Other(s) = "TxSocket" /\ Sockets = {"TxSocket", "RxSocket"}
    BY <1>2 DEF Other, Sockets
  <2>2. /\ ToSet(RingsOf(s)) \cap (ToSet(RingsOf(Other(s))) \cup Shared) = {}
        /\ ToSet(RingsOf(s)) \subseteq RingTypes
    BY <1>2, <2>1, RingSets DEF Shared, RingTypes
  <2>3. refs = (IF sock[s] = "live" THEN 1 ELSE 0)
             + (IF sock[Other(s)] = "live" THEN 1 ELSE 0)
    BY <1>2, <2>1 DEF Inv, Counted
  <2>. QED BY <1>2, <2>1, <2>2, <2>3 DEF Inv, DropsOK, OpenIsOwned
<1>. QED BY <1>1, <1>2 DEF Sockets

\* The same the other way round: what is to be shown after a step.
LEMMA PairInv ==
  ASSUME NEW s \in Sockets, TypeOK', TodoOK', pc' = "ok",
         drops' \in [Sockets -> Seq(Things)],
         \A t \in {s, Other(s)} :
           /\ NoRepeat(drops'[t])
           /\ sock'[t] = "dropping" <=> drops'[t] # << >>
           /\ ToSet(drops'[t]) \subseteq Shared \cup ToSet(RingsOf(t))
           /\ ToSet(drops'[t]) \cap Shared # {} => refs' = 0,
         ToSet(drops'[s]) \cap ToSet(drops'[Other(s)]) = {},
         refs' = (IF sock'[s] = "live" THEN 1 ELSE 0)
               + (IF sock'[Other(s)] = "live" THEN 1 ELSE 0),
         open' = (IF refs' > 0 THEN Shared ELSE {})
                   \cup OwnedBy(s)' \cup OwnedBy(Other(s))'
  PROVE  Inv'
<1>1. \A t \in Sockets : RingsOf(t)' = RingsOf(t)
  BY DEF RingsOf
<1>2. CASE s = "TxSocket"
  <2>1. Other(s) = "RxSocket" /\ Sockets = {"TxSocket", "RxSocket"}
    BY <1>2 DEF Other, Sockets
  <2>2. Counted'
    BY <1>2, <2>1 DEF Counted
  <2>3. DropsOK'
    BY <1>1, <1>2, <2>1 DEF DropsOK
  <2>4. OpenIsOwned'
    BY <1>2, <2>1 DEF OpenIsOwned
  <2>. QED BY <2>2, <2>3, <2>4 DEF Inv, Held, SocketsLast
<1>3. CASE s = "RxSocket"
  <2>1. Other(s) = "TxSocket" /\ Sockets = {"TxSocket", "RxSocket"}
    BY <1>3 DEF Other, Sockets
  <2>2. Counted'
    BY <1>3, <2>1 DEF Counted
  <2>3. DropsOK'
    BY <1>1, <1>3, <2>1 DEF DropsOK
  <2>4. OpenIsOwned'
    BY <1>3, <2>1 DEF OpenIsOwned
  <2>. QED BY <2>2, <2>3, <2>4 DEF Inv, Held, SocketsLast
<1>. QED BY <1>2, <1>3 DEF Sockets

\* A socket starts to be dropped.
LEMMA DropStep ==
  ASSUME Inv, NEW s \in Sockets, DropSocket(s)
  PROVE  Inv'
<1>. USE DEF config, life
<1> DEFINE o == Other(s)
           first == IF refs = 1 THEN InnerDrops ELSE << >>
<1>1. /\ sock[s] = "live" /\ sock' = [sock EXCEPT ![s] = "dropping"]
      /\ refs' = refs - 1
      /\ drops' = [drops EXCEPT ![s] = first \o RingsOf(s)]
      /\ UNCHANGED <<direction, huge_page, free, pc, todo, huge_tlb, size, open, blame>>
  BY DEF DropSocket, LastRef
<1>2. pc = "ok"
  BY <1>1 DEF Inv, SocketsLast
<1>3. /\ o \in Sockets /\ o # s /\ \A t \in Sockets : t = s \/ t = o
      /\ ToSet(RingsOf(s)) \cap (ToSet(RingsOf(o)) \cup Shared) = {}
      /\ ToSet(RingsOf(s)) \subseteq RingTypes
      /\ refs = 1 + (IF sock[o] = "live" THEN 1 ELSE 0)
      /\ open = (IF refs > 0 THEN Shared ELSE {}) \cup OwnedBy(s) \cup OwnedBy(o)
  BY <1>1, <1>2, PairView
<1>4. /\ drops \in [Sockets -> Seq(Things)]
      /\ sock \in [Sockets -> {"none", "live", "dropping", "dropped"}]
      /\ \A t \in Sockets :
           /\ NoRepeat(drops[t])
           /\ sock[t] = "dropping" <=> drops[t] # << >>
           /\ ToSet(drops[t]) \subseteq Shared \cup ToSet(RingsOf(t))
           /\ ToSet(drops[t]) \cap Shared # {} => refs = 0
  BY DEF Inv, TypeOK, DropsOK
<1>. HIDE DEF o
<1>5. /\ first \in Seq(Things) /\ NoRepeat(first)
      /\ ToSet(first) = IF refs = 1 THEN Shared ELSE {}
      /\ RingsOf(s) \in Seq(Things) /\ NoRepeat(RingsOf(s)) /\ RingsOf(s) # << >>
  BY RingSets, EmptySet
<1>. HIDE DEF first
<1>6. /\ first \o RingsOf(s) \in Seq(Things)
      /\ NoRepeat(first \o RingsOf(s)) /\ first \o RingsOf(s) # << >>
      /\ ToSet(first \o RingsOf(s)) = ToSet(first) \cup ToSet(RingsOf(s))
  <2>1. /\ first \o RingsOf(s) \in Seq(Things)
        /\ ToSet(first \o RingsOf(s)) = ToSet(first) \cup ToSet(RingsOf(s))
    BY <1>5, ConcatSet
  <2>2. ToSet(first) \cap ToSet(RingsOf(s)) = {}
    BY <1>3, <1>5
  <2>3. NoRepeat(first \o RingsOf(s))
    BY <1>5, <2>2, ConcatSet
  <2>4. first \o RingsOf(s) # << >>
    BY <1>5, <2>1, EmptySet
  <2>. QED BY <2>1, <2>3, <2>4
<1>7. /\ drops'[s] = first \o RingsOf(s) /\ drops'[o] = drops[o]
      /\ sock'[s] = "dropping" /\ sock'[o] = sock[o]
      /\ drops' \in [Sockets -> Seq(Things)]
      /\ sock' \in [Sockets -> {"none", "live", "dropping", "dropped"}]
  BY <1>1, <1>3, <1>4, <1>6
<1>8. ToSet(drops[o]) \cap Shared = {} /\ ToSet(drops[o]) \subseteq ToSet(RingsOf(o))
  BY <1>3, <1>4
<1>9. ToSet(drops'[s]) \cap ToSet(drops'[o]) = {}
  <2>1. ToSet(first) \subseteq Shared
    BY <1>5
  <2>. QED BY <1>3, <1>6, <1>7, <1>8, <2>1
<1>10. refs' = IF sock'[o] = "live" THEN 1 ELSE 0
  BY <1>1, <1>3, <1>7
<1>11. TypeOK'
  <2>1. refs' \in 0 .. 2
    BY <1>10
  <2>2. \A t \in Sockets : ToSet(drops'[t]) \subseteq {"fd", "umem"} \cup RingTypes
    BY <1>7, SetOfSeq DEF Things, Shared
  <2>. QED BY <1>1, <1>7, <2>1, <2>2 DEF Inv, TypeOK
<1>12. TodoOK'
  BY <1>1, <1>2 DEF Inv, TodoOK
<1>13. \A t \in {s, o} :
         /\ NoRepeat(drops'[t])
         /\ sock'[t] = "dropping" <=> drops'[t] # << >>
         /\ ToSet(drops'[t]) \subseteq Shared \cup ToSet(RingsOf(t))
         /\ ToSet(drops'[t]) \cap Shared # {} => refs' = 0
  <2>1. /\ ToSet(drops'[s]) \subseteq Shared \cup ToSet(RingsOf(s))
        /\ ToSet(drops'[s]) \cap Shared # {} => refs' = 0
    BY <1>1, <1>3, <1>5, <1>6, <1>7
  <2>2. /\ ToSet(drops'[o]) \subseteq Shared \cup ToSet(RingsOf(o))
        /\ ToSet(drops'[o]) \cap Shared = {}
    BY <1>7, <1>8
  <2>. QED BY <1>3, <1>4, <1>6, <1>7, <2>1, <2>2
<1>14. open' = (IF refs' > 0 THEN Shared ELSE {}) \cup OwnedBy(s)' \cup OwnedBy(o)'
  <2>1. OwnedBy(s) = ToSet(RingsOf(s)) /\ OwnedBy(s)' = ToSet(first) \cup ToSet(RingsOf(s))
    BY <1>1, <1>6, <1>7 DEF OwnedBy
  <2>2. OwnedBy(o)' = OwnedBy(o)
    BY <1>7 DEF OwnedBy, RingsOf, ToSet
  <2>3. refs > 0 /\ (refs = 1 \/ refs' > 0) /\ (refs = 1 => ~(refs' > 0))
    BY <1>1, <1>3
  <2>. QED BY <1>1, <1>3, <1>5, <2>1, <2>2, <2>3
<1>. QED BY <1>1, <1>2, <1>7, <1>9, <1>10, <1>11, <1>12, <1>13, <1>14, PairInv DEF o

\* A socket being dropped releases the next thing.
LEMMA ReleaseStep ==
  ASSUME Inv, NEW s \in Sockets, Release(s)
  PROVE  Inv'
<1>. USE DEF config, life
<1> DEFINE o == Other(s)
           x == Head(drops[s])
<1>1. /\ sock[s] = "dropping" /\ open' = open \ {x}
      /\ drops' = [drops EXCEPT ![s] = Tail(drops[s])]
      /\ sock' = [sock EXCEPT ![s] =
                    IF Tail(drops[s]) = << >> THEN "dropped" ELSE "dropping"]
      /\ UNCHANGED <<direction, huge_page, free, pc, todo, huge_tlb, size, refs, blame>>
  BY DEF Release
<1>2. pc = "ok"
  BY <1>1 DEF Inv, SocketsLast
<1>3. /\ o \in Sockets /\ o # s /\ \A t \in Sockets : t = s \/ t = o
      /\ ToSet(RingsOf(s)) \cap (ToSet(RingsOf(o)) \cup Shared) = {}
      /\ refs = IF sock[o] = "live" THEN 1 ELSE 0
      /\ ToSet(drops[s]) \cap ToSet(drops[o]) = {}
      /\ open = (IF refs > 0 THEN Shared ELSE {}) \cup OwnedBy(s) \cup OwnedBy(o)
  BY <1>1, <1>2, PairView
<1>4. /\ drops \in [Sockets -> Seq(Things)]
      /\ sock \in [Sockets -> {"none", "live", "dropping", "dropped"}]
      /\ \A t \in Sockets :
           /\ NoRepeat(drops[t])
           /\ sock[t] = "dropping" <=> drops[t] # << >>
           /\ ToSet(drops[t]) \subseteq Shared \cup ToSet(RingsOf(t))
           /\ ToSet(drops[t]) \cap Shared # {} => refs = 0
  BY DEF Inv, TypeOK, DropsOK
<1>. HIDE DEF o
<1>5. /\ x \in ToSet(drops[s]) /\ Tail(drops[s]) \in Seq(Things)
      /\ ToSet(Tail(drops[s])) = ToSet(drops[s]) \ {x}
      /\ NoRepeat(Tail(drops[s]))
  <2>1. drops[s] \in Seq(Things) /\ drops[s] # << >> /\ NoRepeat(drops[s])
    BY <1>1, <1>4
  <2>. QED BY <2>1, TailSet
<1>. HIDE DEF x
<1>6. /\ drops'[s] = Tail(drops[s]) /\ drops'[o] = drops[o]
      /\ sock'[s] = (IF Tail(drops[s]) = << >> THEN "dropped" ELSE "dropping")
      /\ sock'[o] = sock[o]
      /\ drops' \in [Sockets -> Seq(Things)]
      /\ sock' \in [Sockets -> {"none", "live", "dropping", "dropped"}]
  BY <1>1, <1>3, <1>4, <1>5
<1>7. TypeOK'
  <2>1. \A t \in Sockets : ToSet(drops'[t]) \subseteq {"fd", "umem"} \cup RingTypes
    BY <1>6, SetOfSeq DEF Things, Shared
  <2>. QED BY <1>1, <1>6, <2>1 DEF Inv, TypeOK
<1>8. TodoOK'
  BY <1>1, <1>2 DEF Inv, TodoOK
<1>9. \A t \in {s, o} :
        /\ NoRepeat(drops'[t])
        /\ sock'[t] = "dropping" <=> drops'[t] # << >>
        /\ ToSet(drops'[t]) \subseteq Shared \cup ToSet(RingsOf(t))
        /\ ToSet(drops'[t]) \cap Shared # {} => refs' = 0
  <2>1. /\ NoRepeat(drops'[s])
        /\ sock'[s] = "dropping" <=> drops'[s] # << >>
        /\ ToSet(drops'[s]) \subseteq ToSet(drops[s])
    BY <1>5, <1>6
  <2>2. /\ ToSet(drops'[s]) \subseteq Shared \cup ToSet(RingsOf(s))
        /\ ToSet(drops'[s]) \cap Shared # {} => refs' = 0
    BY <1>1, <1>4, <2>1
  <2>3. /\ NoRepeat(drops'[o])
        /\ sock'[o] = "dropping" <=> drops'[o] # << >>
        /\ ToSet(drops'[o]) \subseteq Shared \cup ToSet(RingsOf(o))
        /\ ToSet(drops'[o]) \cap Shared # {} => refs' = 0
    BY <1>1, <1>3, <1>4, <1>6
  <2>. QED BY <2>1, <2>2, <2>3
<1>10. ToSet(drops'[s]) \cap ToSet(drops'[o]) = {}
  BY <1>3, <1>5, <1>6
<1>11. refs' = (IF sock'[s] = "live" THEN 1 ELSE 0)
             + (IF sock'[o] = "live" THEN 1 ELSE 0)
  BY <1>1, <1>3, <1>6
\* What s releases is neither the other socket's nor still shared.
<1>12. x \notin OwnedBy(o) /\ (refs > 0 => x \notin Shared)
  <2>1. refs > 0 => x \notin Shared
    BY <1>3, <1>4, <1>5
  <2>2. CASE sock[o] = "live"
    <3>1. x \in ToSet(RingsOf(s)) /\ OwnedBy(o) = ToSet(RingsOf(o))
      BY <1>3, <1>4, <1>5, <2>1, <2>2 DEF OwnedBy
    <3>. QED BY <1>3, <2>1, <3>1
  <2>3. CASE sock[o] # "live"
    BY <1>3, <1>5, <2>1, <2>3 DEF OwnedBy
  <2>. QED BY <2>2, <2>3
<1>13. open' = (IF refs' > 0 THEN Shared ELSE {}) \cup OwnedBy(s)' \cup OwnedBy(o)'
  <2>1. OwnedBy(s) = ToSet(drops[s]) /\ OwnedBy(s)' = ToSet(drops[s]) \ {x}
    BY <1>1, <1>5, <1>6 DEF OwnedBy
  <2>2. OwnedBy(o)' = OwnedBy(o)
    BY <1>6 DEF OwnedBy, RingsOf, ToSet
  <2>. QED BY <1>1, <1>3, <1>12, <2>1, <2>2
<1>. QED BY <1>1, <1>2, <1>6, <1>7, <1>8, <1>9, <1>10, <1>11, <1>13, PairInv DEF o

-----------------------------------------------------------------------------
(* The theorems. *)

\* A step that changes nothing but the number of free huge pages.
LEMMA FreeStep ==
  ASSUME Inv, free' \in 0 .. MaxFree,
         UNCHANGED <<config, pc, todo, huge_tlb, size, open, life, blame>>
  PROVE  Inv'
<1>. USE DEF config, life
<1>1. TypeOK'
  BY DEF Inv, TypeOK
<1>2. MappedRings' = MappedRings /\ \A s \in Sockets : OwnedBy(s)' = OwnedBy(s)
  BY DEF MappedRings, OwnedBy, RingsOf, ToSet
<1>3. TodoOK' /\ Held' /\ SocketsLast' /\ Counted'
  BY <1>2 DEF Inv, TodoOK, Held, SocketsLast, Counted
<1>4. DropsOK'
  BY DEF Inv, DropsOK
<1>5. OpenIsOwned'
  BY <1>2 DEF Inv, OpenIsOwned, Sockets
<1>. QED BY <1>1, <1>3, <1>4, <1>5 DEF Inv

\* The invariant is inductive.
LEMMA Invariance ==
  Spec => []Inv
<1>1. ASSUME Inv, [Next]_vars PROVE Inv'
  <2>1. CASE Create
    BY <1>1, <2>1, CreateStep
  <2>2. CASE \E s \in Sockets : DropSocket(s)
    BY <1>1, <2>2, DropStep
  <2>3. CASE \E s \in Sockets : Release(s)
    BY <1>1, <2>3, ReleaseStep
  <2>4. CASE PageTaken
    <3>1. free \in 0 .. MaxFree /\ free > 0 /\ free' = free - 1 /\ MaxFree \in Nat
      BY <1>1, <2>4, CreateAssumption DEF PageTaken, Inv, TypeOK
    <3>2. free' \in 0 .. MaxFree
      BY <3>1
    <3>. QED BY <1>1, <2>4, <3>2, FreeStep DEF PageTaken
  <2>5. CASE UNCHANGED vars
    <3>1. free' \in 0 .. MaxFree
      BY <1>1, <2>5 DEF vars, Inv, TypeOK
    <3>. QED BY <1>1, <2>5, <3>1, FreeStep DEF vars
  <2>. QED BY <1>1, <2>1, <2>2, <2>3, <2>4, <2>5 DEF Next
<1>. QED BY <1>1, InvInit, PTL DEF Spec

\* Every variable has its type: Arc's count of Inner stays between 0 and 2.
THEOREM CreateTypeCorrect ==
  Spec => []TypeOK
<1>1. Inv => TypeOK
  BY DEF Inv
<1>. QED BY <1>1, Invariance, PTL

\* A live socket has its descriptor, its UMEM and its rings, whenever the
\* other one is dropped: Arc<Inner> keeps what they share.
THEOREM LiveSocketsBacked ==
  Spec => []LiveIsBacked
<1>1. ASSUME Inv, NEW s \in Sockets, sock[s] = "live" PROVE Needs(s) \subseteq open
  <2>1. pc = "ok"
    BY <1>1 DEF Inv, SocketsLast
  <2>2. /\ refs = 1 + (IF sock[Other(s)] = "live" THEN 1 ELSE 0)
        /\ open = (IF refs > 0 THEN Shared ELSE {})
                    \cup OwnedBy(s) \cup OwnedBy(Other(s))
    BY <1>1, <2>1, PairView
  <2>3. refs > 0
    BY <2>2
  <2>. QED BY <1>1, <2>2, <2>3 DEF Needs, OwnedBy, Shared
<1>2. Inv => LiveIsBacked
  BY <1>1 DEF LiveIsBacked
<1>. QED BY <1>2, Invariance, PTL

\* Nothing is unmapped or closed twice, in whatever order two threads drop
\* their sockets.
THEOREM DropsReleaseOnce ==
  Spec => []ReleasedOnce
<1>1. ASSUME Inv, NEW s \in Sockets PROVE ToSet(drops[s]) \subseteq open
  <2>1. CASE drops[s] = << >>
    BY <2>1, EmptySet
  <2>2. CASE drops[s] # << >>
    <3>1. sock[s] = "dropping"
      BY <1>1, <2>2 DEF Inv, DropsOK
    <3>2. pc = "ok"
      BY <1>1, <3>1 DEF Inv, SocketsLast
    <3>3. OwnedBy(s) \subseteq open
      BY <1>1, <3>2, PairView
    <3>. QED BY <3>1, <3>3 DEF OwnedBy
  <2>. QED BY <2>1, <2>2
<1>2. Inv => ReleasedOnce
  BY <1>1 DEF ReleasedOnce, Inv, DropsOK
<1>. QED BY <1>2, Invariance, PTL

\* Nothing stays open when create_socket has failed, at whichever call, nor
\* when all sockets are dropped.
THEOREM CreateLeaksNothing ==
  Spec => []NothingLeaks
<1>1. ASSUME Inv, pc = "ok", \A s \in Sockets : sock[s] \in {"none", "dropped"}
      PROVE  open = {}
  <2>1. "TxSocket" \in Sockets /\ "RxSocket" \in Sockets
    BY DEF Sockets
  <2>2. \A s \in Sockets : sock[s] # "live" /\ drops[s] = << >>
    BY <1>1 DEF Inv, DropsOK
  <2>3. refs = 0
    BY <1>1, <2>1, <2>2 DEF Inv, Counted
  <2>4. OwnedBy("TxSocket") = {} /\ OwnedBy("RxSocket") = {}
    BY <2>1, <2>2, EmptySet DEF OwnedBy
  <2>. QED BY <1>1, <2>3, <2>4 DEF Inv, OpenIsOwned
<1>2. ASSUME Inv, pc = "err" PROVE open = {}
  BY <1>2 DEF Inv, Held
<1>3. Inv => NothingLeaks
  BY <1>1, <1>2 DEF NothingLeaks
<1>. QED BY <1>3, Invariance, PTL
=============================================================================
