---------------------------- MODULE CreateSocket ----------------------------
(***************************************************************************)
(* The life of the resources behind a socket pair: create_socket acquires  *)
(* a file descriptor, the UMEM and the ring mappings one system call after *)
(* the other, and gives back what it has when one of them fails; then the  *)
(* two sockets, which may live on different threads, share the descriptor  *)
(* and the UMEM through an Arc, and release them when both are dropped.    *)
(*                                                                         *)
(* The outcomes of the system calls are external: each may fail, and the   *)
(* kernel refuses to map more of a ring than it has been sized to.         *)
(***************************************************************************)
EXTENDS Naturals, FiniteSets, SequencesExt

CONSTANTS
  FrameCount,   \* FRAME_COUNT
  UmemPages,    \* the huge pages the UMEM takes: FRAME_COUNT * FRAME_SIZE / 2MB
  MaxFree       \* the largest number of free huge pages

ASSUME CreateAssumption ==
  /\ FrameCount \in Nat \ {0}
  /\ UmemPages \in Nat \ {0}
  /\ MaxFree \in Nat

VARIABLES
  direction,    \* create_socket's argument
  huge_page,    \* XdpConfig::huge_page
  free,         \* HugePages_Free
  pc,           \* the next system call of create_socket, "unwind", "ok", "err"
  todo,         \* the rings it still has to size or to map
  huge_tlb,     \* OwnedMmap::mmap's local
  size,         \* the number of entries of each ring in the kernel
  open,         \* what the process holds: the descriptor and the mappings
  refs,         \* the reference count of Inner
  drops,        \* what each socket being dropped still has to release
  sock,         \* each socket: "none", "live", "dropping" or "dropped"
  blame         \* what made create_socket fail

config == <<direction, huge_page>>
life   == <<refs, drops, sock>>
vars   == <<config, free, pc, todo, huge_tlb, size, open, life, blame>>

RingTypes == {"Tx", "Rx", "Fill", "Completion"}
Sockets   == {"TxSocket", "RxSocket"}

-----------------------------------------------------------------------------
(* What a direction asks for. *)

tx_ring_size ==
  CASE direction = "Tx" -> FrameCount
    [] direction = "Rx" -> 0
    [] direction = "Both" -> FrameCount \div 2

rx_ring_size ==
  CASE direction = "Tx" -> 0
    [] direction = "Rx" -> FrameCount
    [] direction = "Both" -> FrameCount \div 2

\* The rings that are sized, in this order, and the size each is given.
SizedRings ==
  <<"Fill", "Completion">>
    \o (IF tx_ring_size > 0 THEN <<"Tx">> ELSE <<>>)
    \o (IF rx_ring_size > 0 THEN <<"Rx">> ELSE <<>>)

\* Mutant: the size in bytes, where the kernel wants entries.
SetSizeInBytes(ring) == 8 * FrameCount

\* RingType::set_size: Fill and Completion have at least one entry.
SetSize(ring) ==
  LET n == IF ring = "Rx" THEN rx_ring_size ELSE tx_ring_size
  IN  IF n = 0 /\ ring \in {"Fill", "Completion"} THEN 1 ELSE n

\* The rings that are mapped, in this order, and the entries each mapping has.
MappedRings ==
  (IF direction = "Rx" THEN <<>> ELSE <<"Completion", "Tx">>)
    \o (IF direction = "Tx" THEN <<>> ELSE <<"Rx", "Fill">>)

MapLen(ring) == IF ring \in {"Rx", "Fill"} THEN rx_ring_size ELSE tx_ring_size

\* The sockets create_socket returns.
Returned ==
  (IF direction = "Rx" THEN {} ELSE {"TxSocket"})
    \cup (IF direction = "Tx" THEN {} ELSE {"RxSocket"})

\* The rings a socket owns: the fields x_ring and u_ring, in this order.
RingsOf(s) == IF s = "TxSocket" THEN <<"Tx", "Completion">> ELSE <<"Rx", "Fill">>

\* What a socket needs for any of its calls.
Needs(s) == {"fd", "umem"} \cup ToSet(RingsOf(s))

-----------------------------------------------------------------------------
Init ==
  /\ direction \in {"Tx", "Rx", "Both"}
  /\ huge_page \in {"None", "Some(true)", "Some(false)"}
  /\ free \in 0 .. MaxFree
  /\ pc = "socket"
  /\ todo = <<>>
  /\ huge_tlb = FALSE
  /\ size = [r \in RingTypes |-> 0]
  /\ open = {}
  /\ refs = 0
  /\ drops = [s \in Sockets |-> <<>>]
  /\ sock = [s \in Sockets |-> "none"]
  /\ blame = "none"

\* A system call fails: create_socket returns with ?, dropping its locals.
Fail(why) ==
  /\ pc' = "unwind"
  /\ blame' = why
  /\ UNCHANGED <<config, free, todo, huge_tlb, size, open, life>>

\* A system call that only lets create_socket go on, or fails.
Syscall(from, to, rings) ==
  /\ pc = from
  /\ \/ /\ pc' = to
        /\ todo' = rings
        /\ UNCHANGED <<config, free, huge_tlb, size, open, life, blame>>
     \/ Fail("system")

-----------------------------------------------------------------------------
(* create_socket, call by call. *)

Socket ==
  /\ pc = "socket"
  /\ \/ /\ open' = open \cup {"fd"}
        /\ pc' = "meminfo"
        /\ UNCHANGED <<config, free, todo, huge_tlb, size, life, blame>>
     \/ Fail("system")

\* OwnedMmap::mmap looks at /proc/meminfo only when the configuration does not
\* say whether to use huge pages.
MemInfo ==
  /\ pc = "meminfo"
  /\ \/ /\ huge_tlb' = \/ huge_page = "Some(true)"
                       \/ huge_page = "None" /\ free > 0
        /\ pc' = "mmap"
        /\ UNCHANGED <<config, free, todo, size, open, life, blame>>
     \/ /\ huge_page = "None"
        /\ Fail("system")

\* The mmap of the UMEM: huge pages are reserved at once, or refused.
MmapUmem ==
  /\ pc = "mmap"
  /\ \/ /\ huge_tlb => free >= UmemPages
        /\ open' = open \cup {"umem"}
        /\ free' = IF huge_tlb THEN free - UmemPages ELSE free
        /\ pc' = "register"
        /\ UNCHANGED <<config, todo, huge_tlb, size, life, blame>>
     \/ /\ huge_tlb
        /\ free < UmemPages
        /\ Fail("huge pages")
     \/ /\ ~huge_tlb
        /\ Fail("system")

Register == Syscall("register", "set_size", SizedRings)

SizeRing ==
  /\ pc = "set_size"
  /\ \/ /\ size' = [size EXCEPT ![Head(todo)] = SetSize(Head(todo))]
        /\ todo' = Tail(todo)
        /\ pc' = IF Tail(todo) = <<>> THEN "offsets" ELSE "set_size"
        /\ UNCHANGED <<config, free, huge_tlb, open, life, blame>>
     \/ Fail("system")

RingOffsets == Syscall("offsets", "map", MappedRings)

MapRing ==
  /\ pc = "map"
  /\ \/ /\ MapLen(Head(todo)) <= size[Head(todo)]
        /\ open' = open \cup {Head(todo)}
        /\ todo' = Tail(todo)
        /\ pc' = IF Tail(todo) = <<>> THEN "bind" ELSE "map"
        /\ UNCHANGED <<config, free, huge_tlb, size, life, blame>>
     \/ /\ MapLen(Head(todo)) > size[Head(todo)]
        /\ Fail("ring size")
     \/ Fail("system")

Bind == Syscall("bind", "wrap", <<>>)

\* The end of create_socket: Inner is shared by the sockets it returns.
Wrap ==
  /\ pc = "wrap"
  /\ sock' = [s \in Sockets |-> IF s \in Returned THEN "live" ELSE "none"]
  /\ refs' = Cardinality(Returned)
  /\ pc' = "ok"
  /\ UNCHANGED <<config, free, todo, huge_tlb, size, open, drops, blame>>

\* The order in which create_socket's locals come to own something.
Acquired == <<"fd", "umem", "Completion", "Tx", "Rx", "Fill">>

\* Mutant: the UMEM's mapping is forgotten.
UnwindOrderShort == <<"fd", "Completion", "Tx", "Rx", "Fill">>

\* Locals are dropped in the reverse order.
UnwindOrder == Acquired

Unwind ==
  LET held == {i \in DOMAIN UnwindOrder : UnwindOrder[i] \in open}
  IN  /\ pc = "unwind"
      /\ \/ /\ held = {}
            /\ pc' = "err"
            /\ UNCHANGED open
         \/ \E i \in held :
              /\ \A j \in held : j <= i
              /\ open' = open \ {UnwindOrder[i]}
              /\ pc' = IF held = {i} THEN "err" ELSE "unwind"
      /\ UNCHANGED <<config, free, todo, huge_tlb, size, life, blame>>

-----------------------------------------------------------------------------
(* Dropping a socket. *)

\* Mutant: the count is tested before it is decremented.
LastRefStale == refs = Cardinality(Returned)

\* Mutant: every socket owns Inner alone.
LastRefAlways == TRUE

\* Does the Arc's drop find that it held the last reference to Inner?
LastRef == refs = 1

\* What dropping Inner releases: its fields, in this order.
InnerDrops == <<"umem", "fd">>

\* The field _inner is dropped first, then the rings.
DropSocket(s) ==
  /\ sock[s] = "live"
  /\ sock' = [sock EXCEPT ![s] = "dropping"]
  /\ refs' = refs - 1
  /\ drops' = [drops EXCEPT ![s] =
                 (IF LastRef THEN InnerDrops ELSE <<>>) \o RingsOf(s)]
  /\ UNCHANGED <<config, free, pc, todo, huge_tlb, size, open, blame>>

\* The next munmap or close of a socket being dropped.
Release(s) ==
  /\ sock[s] = "dropping"
  /\ open' = open \ {Head(drops[s])}
  /\ drops' = [drops EXCEPT ![s] = Tail(drops[s])]
  /\ sock' = [sock EXCEPT ![s] =
                IF Tail(drops[s]) = <<>> THEN "dropped" ELSE "dropping"]
  /\ UNCHANGED <<config, free, pc, todo, huge_tlb, size, refs, blame>>

-----------------------------------------------------------------------------
(* The system around it: external. *)

\* Another process takes a free huge page.
PageTaken ==
  /\ free > 0
  /\ free' = free - 1
  /\ UNCHANGED <<config, pc, todo, huge_tlb, size, open, life, blame>>

-----------------------------------------------------------------------------
Create ==
  \/ Socket
  \/ MemInfo
  \/ MmapUmem
  \/ Register
  \/ SizeRing
  \/ RingOffsets
  \/ MapRing
  \/ Bind
  \/ Wrap
  \/ Unwind

Next ==
  \/ Create
  \/ \E s \in Sockets : DropSocket(s)
  \/ \E s \in Sockets : Release(s)
  \/ PageTaken

Spec == Init /\ [][Next]_vars

-----------------------------------------------------------------------------
(* Properties. *)

\* Every variable has its type; in particular the count of Inner never goes
\* below zero.
TypeOK ==
  /\ direction \in {"Tx", "Rx", "Both"}
  /\ huge_page \in {"None", "Some(true)", "Some(false)"}
  /\ free \in 0 .. MaxFree
  /\ pc \in {"socket", "meminfo", "mmap", "register", "set_size", "offsets",
             "map", "bind", "wrap", "unwind", "ok", "err"}
  /\ ToSet(todo) \subseteq RingTypes
  /\ huge_tlb \in BOOLEAN
  /\ size \in [RingTypes -> 0 .. FrameCount]
  /\ open \subseteq {"fd", "umem"} \cup RingTypes
  /\ refs \in 0 .. 2
  /\ \A s \in Sockets : ToSet(drops[s]) \subseteq {"fd", "umem"} \cup RingTypes
  /\ sock \in [Sockets -> {"none", "live", "dropping", "dropped"}]
  /\ blame \in {"none", "system", "huge pages", "ring size"}

\* A socket that is not being dropped has the descriptor, the UMEM and both
\* rings, whatever becomes of the other one on another thread.
LiveIsBacked ==
  \A s \in Sockets : sock[s] = "live" => Needs(s) \subseteq open

\* What a socket being dropped is about to release is still there, and no two
\* sockets release the same thing: nothing is unmapped or closed twice, which
\* could hit a mapping or a descriptor that was handed out again meanwhile.
ReleasedOnce ==
  /\ \A s \in Sockets : ToSet(drops[s]) \subseteq open
  /\ ToSet(drops["TxSocket"]) \cap ToSet(drops["RxSocket"]) = {}

\* When create_socket has failed, at whichever call, and when all sockets have
\* been dropped, in whichever order, nothing is left open.
NothingLeaks ==
  pc = "err" \/ (pc = "ok" /\ \A s \in Sockets : sock[s] \in {"none", "dropped"})
    => open = {}
=============================================================================
