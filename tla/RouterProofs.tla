---------------------------- MODULE RouterProofs ----------------------------
(***************************************************************************)
(* Proofs about Router, for every address width, datagram length and set   *)
(* of tables that the kernel may have.                                     *)
(***************************************************************************)
EXTENDS Router, SequenceFacts, FiniteSetTheorems

\* The routes and the neighbours that the dumps return.
RouteRecs ==
  [dest_prefix : 0 .. AddrBits, destination : Addrs, gateway : Addrs \cup {NoAttr},
   out_if_index : Nat, priority : Nat]

NeighborRecs ==
  [ip : Addrs, mac : Macs \cup {ZeroMac}, if_index : Nat]

-----------------------------------------------------------------------------
(* Dumps. *)

\* The first datagram of a dump has the first messages of the table, each at
\* its place, and perhaps the message that ends the dump.
LEMMA ReceivedFrom ==
  ASSUME NEW M, NEW t \in Seq(M)
  PROVE  /\ \E n \in Nat : DOMAIN Received(t) = 1 .. n
         /\ \A i \in DOMAIN Received(t) :
              \/ i \in DOMAIN t /\ Received(t)[i] = t[i]
              \/ Received(t)[i] = Done
         /\ \A i \in DOMAIN t : i <= DatagramLen =>
              i \in DOMAIN Received(t) /\ Received(t)[i] = t[i]
<1>1. /\ Len(t) \in Nat /\ DOMAIN t = 1 .. Len(t)
      /\ \A i \in 1 .. Len(t) : t[i] \in M
      /\ DatagramLen \in Nat \ {0}
  BY LenProperties, ElementOfSeq, NetlinkAssumption
<1>2. CASE Len(t) <= DatagramLen
  <2> DEFINE r == Append(t, Done)
  <2>1. t \in Seq(M \cup {Done})
    BY <1>1
  <2>2. /\ r \in Seq(M \cup {Done}) /\ Len(r) = Len(t) + 1
        /\ \A i \in 1 .. Len(t) : r[i] = t[i]
        /\ r[Len(t) + 1] = Done
    BY <2>1, AppendProperties
  <2>3. DOMAIN r = 1 .. Len(t) + 1
    BY <2>2, LenProperties
  <2>4. Received(t) = r
    BY <1>2 DEF Received
  <2>. HIDE DEF r
  <2>5. \A i \in 1 .. Len(t) + 1 : i \in 1 .. Len(t) \/ i = Len(t) + 1
    BY <1>1
  <2>6. \A i \in 1 .. Len(t) : i \in 1 .. Len(t) + 1
    BY <1>1
  <2>7. Len(t) + 1 \in Nat
    BY <1>1
  <2>. QED BY <1>1, <2>2, <2>3, <2>4, <2>5, <2>6, <2>7
<1>3. CASE ~(Len(t) <= DatagramLen)
  <2> DEFINE r == SubSeq(t, 1, DatagramLen)
  <2>1. \A i \in 1 .. DatagramLen : i \in 1 .. Len(t) /\ t[i] \in M
    BY <1>1, <1>3
  <2>2. /\ r \in Seq(M) /\ Len(r) = DatagramLen
        /\ \A i \in 1 .. DatagramLen : r[i] = t[i]
    <3>1. 1 \in Int /\ DatagramLen \in Int
      BY <1>1
    <3>2. /\ r \in Seq(M) /\ Len(r) = IF 1 <= DatagramLen THEN DatagramLen - 1 + 1 ELSE 0
          /\ \A i \in 1 .. DatagramLen - 1 + 1 : r[i] = t[1 + i - 1]
      BY <2>1, <3>1, SubSeqProperties
    <3>. HIDE DEF r
    <3>3. DatagramLen - 1 + 1 = DatagramLen /\ 1 <= DatagramLen
          /\ \A i \in 1 .. DatagramLen : 1 + i - 1 = i
      BY <1>1
    <3>. QED BY <3>2, <3>3
  <2>3. DOMAIN r = 1 .. DatagramLen
    BY <2>2, LenProperties
  <2>4. Received(t) = r
    BY <1>3 DEF Received
  <2>. HIDE DEF r
  <2>5. \A i \in 1 .. Len(t) : i <= DatagramLen => i \in 1 .. DatagramLen
    BY <1>1
  <2>. QED BY <1>1, <2>1, <2>2, <2>3, <2>4, <2>5
<1>. QED BY <1>2, <1>3

\* What a dump may be answered with: messages of the table, and others that
\* no closure turns into a result.
LEMMA ReplyFrom ==
  ASSUME NEW M, NEW t \in Seq(M), NEW reply \in Replies(t)
  PROVE  /\ \E n \in Nat : DOMAIN reply = 1 .. n
         /\ \A i \in DOMAIN reply :
              \/ i \in DOMAIN t /\ reply[i] = t[i]
              \/ reply[i].kind \in {"Done", "Error"}
<1>1. CASE reply = Received(t)
  BY <1>1, ReceivedFrom DEF Done
<1>2. CASE reply = ErrorReply
  <2>1. DOMAIN reply = 1 .. 1 /\ reply[1].kind = "Error"
    BY <1>2 DEF ErrorReply
  <2>2. \A i \in 1 .. 1 : i = 1
    OBVIOUS
  <2>. QED BY <2>1, <2>2
<1>. QED BY <1>1, <1>2 DEF Replies

\* netlink() returns what its closure gives for the messages, and no more.
LEMMA Collected ==
  ASSUME NEW S, NEW n \in Nat, NEW results \in [1 .. n -> Seq(S)]
  PROVE  /\ netlink(results) \in Seq(S)
         /\ ToSet(netlink(results)) = UNION {ToSet(results[i]) : i \in 1 .. n}
<1>1. results \in Seq(Seq(S))
  OBVIOUS
<1>2. DOMAIN results = 1 .. n
  OBVIOUS
<1>. QED BY <1>1, <1>2, FlattenEntries DEF netlink

\* One result, or none.
LEMMA Single ==
  /\ \A x : ToSet(<<x>>) = {x}
  /\ \A S : \A x \in S : <<x>> \in Seq(S)
  /\ ToSet(<< >>) = {} /\ \A S : << >> \in Seq(S)
<1>1. ASSUME NEW x PROVE ToSet(<<x>>) = {x}
  <2>1. DOMAIN <<x>> = {1} /\ <<x>>[1] = x
    OBVIOUS
  <2>. QED BY <2>1 DEF ToSet
<1>2. \A S : \A x \in S : <<x>> \in Seq(S)
  OBVIOUS
<1>. QED BY <1>1, <1>2, EmptySet

\* What the closure of get_ipv4_routes makes of a message of the routing table.
LEMMA RouteOfMsg ==
  ASSUME NEW m \in RouteMsgs
  PROVE  \/ m.oif # IfIndex /\ RouteOf(m, IfIndex) = << >>
         \/ \E r \in RouteRecs : /\ m.oif = IfIndex /\ RouteOf(m, IfIndex) = <<r>>
                                 /\ NetOf(r) = MsgNet(m) /\ r.gateway = m.gw
<1>1. /\ m.kind = "NewRoute" /\ m.prefix \in 0 .. AddrBits
      /\ m.dst \in Addrs \cup {NoAttr} /\ m.gw \in Addrs \cup {NoAttr}
      /\ m.oif \in Nat \cup {NoAttr} /\ m.prio \in Nat \cup {NoAttr}
  BY DEF RouteMsgs
<1>2. IfIndex # NoAttr /\ IfIndex \in Nat /\ 0 \in Addrs
  BY NetlinkAssumption, RouterAssumption
<1>3. CASE m.oif = IfIndex
  <2> DEFINE r == [dest_prefix |-> m.prefix, destination |-> OrElse(m.dst, 0),
                   gateway |-> m.gw, out_if_index |-> m.oif,
                   priority |-> OrElse(m.prio, 0)]
  <2>1. OrElse(m.dst, 0) \in Addrs /\ OrElse(m.prio, 0) \in Nat
    BY <1>1, <1>2 DEF OrElse
  <2>2. r \in RouteRecs
    BY <1>1, <1>2, <1>3, <2>1 DEF RouteRecs
  <2>3. RouteOf(m, IfIndex) = <<r>>
    BY <1>1, <1>2, <1>3 DEF RouteOf, OnInterface
  <2>4. NetOf(r) = MsgNet(m) /\ r.gateway = m.gw
    BY DEF NetOf, MsgNet
  <2>. QED BY <1>3, <2>2, <2>3, <2>4
<1>4. CASE m.oif # IfIndex
  BY <1>2, <1>4 DEF RouteOf, OnInterface
<1>. QED BY <1>3, <1>4

\* The first dump of refresh: routes of the table for the interface and, if
\* the kernel did not refuse, all that the first datagram holds.
LEMMA DumpedRoutes ==
  ASSUME NEW t \in RouteTables, NEW reply \in Replies(t),
         NEW rs, rs = get_ipv4_routes(IfIndex, reply)
  PROVE  /\ rs \in Seq(RouteRecs)
         /\ \A r \in ToSet(rs) :
              \E i \in Ours(t) : MsgNet(t[i]) = NetOf(r) /\ t[i].gw = r.gateway
         /\ reply = Received(t) =>
              \A i \in Ours(t) : i <= DatagramLen =>
                \E r \in ToSet(rs) : NetOf(r) = MsgNet(t[i]) /\ r.gateway = t[i].gw
<1>1. /\ t \in Seq(RouteMsgs) /\ DOMAIN t = 1 .. Len(t)
      /\ \A i \in DOMAIN t : t[i] \in RouteMsgs
  <2>1. t \in Seq(RouteMsgs)
    BY RouterAssumption
  <2>. QED BY <2>1, LenProperties, ElementOfSeq
<1>2. PICK n \in Nat : DOMAIN reply = 1 .. n
  BY <1>1, ReplyFrom
<1> DEFINE res == [i \in DOMAIN reply |-> RouteOf(reply[i], IfIndex)]
<1>3. ASSUME NEW i \in 1 .. n
      PROVE  \/ res[i] = << >>
             \/ \E r \in RouteRecs : /\ i \in Ours(t) /\ res[i] = <<r>>
                                     /\ NetOf(r) = MsgNet(t[i]) /\ r.gateway = t[i].gw
  <2>1. res[i] = RouteOf(reply[i], IfIndex)
    BY <1>2
  <2>2. CASE i \in DOMAIN t /\ reply[i] = t[i]
    BY <1>1, <2>1, <2>2, RouteOfMsg DEF Ours
  <2>3. CASE reply[i].kind \in {"Done", "Error"}
    BY <2>1, <2>3 DEF RouteOf
  <2>. QED BY <1>1, <1>2, <2>2, <2>3, ReplyFrom
<1>4. ASSUME NEW i \in Ours(t), i \in DOMAIN reply, reply[i] = t[i]
      PROVE  \E r \in RouteRecs : /\ res[i] = <<r>>
                                  /\ NetOf(r) = MsgNet(t[i]) /\ r.gateway = t[i].gw
  <2>1. t[i] \in RouteMsgs /\ t[i].oif = IfIndex
    BY <1>1 DEF Ours
  <2>2. res[i] = RouteOf(t[i], IfIndex)
    BY <1>4
  <2>. QED BY <2>1, <2>2, RouteOfMsg
<1>5. res \in [1 .. n -> Seq(RouteRecs)]
  <2>1. \A i \in 1 .. n : res[i] \in Seq(RouteRecs)
    BY <1>3, Single
  <2>. QED BY <1>2, <2>1
<1>6. rs = netlink(res)
  BY DEF get_ipv4_routes
<1>. HIDE DEF res
<1>7. rs \in Seq(RouteRecs) /\ ToSet(rs) = UNION {ToSet(res[i]) : i \in 1 .. n}
  BY <1>5, <1>6, Collected
<1>8. ASSUME NEW r \in ToSet(rs)
      PROVE  \E i \in Ours(t) : MsgNet(t[i]) = NetOf(r) /\ t[i].gw = r.gateway
  <2>1. PICK i \in 1 .. n : r \in ToSet(res[i])
    BY <1>7
  <2>2. res[i] # << >>
    BY <2>1, Single
  <2>3. PICK q \in RouteRecs : /\ i \in Ours(t) /\ res[i] = <<q>>
                               /\ NetOf(q) = MsgNet(t[i]) /\ q.gateway = t[i].gw
    BY <1>3, <2>2
  <2>4. ToSet(res[i]) = {q}
    BY <2>3, Single
  <2>. QED BY <2>1, <2>3, <2>4
<1>9. ASSUME reply = Received(t), NEW i \in Ours(t), i <= DatagramLen
      PROVE  \E r \in ToSet(rs) : NetOf(r) = MsgNet(t[i]) /\ r.gateway = t[i].gw
  <2>1. i \in DOMAIN t
    BY DEF Ours
  <2>2. i \in DOMAIN reply /\ reply[i] = t[i]
    BY <1>1, <1>9, <2>1, ReceivedFrom
  <2>3. PICK r \in RouteRecs : /\ res[i] = <<r>>
                               /\ NetOf(r) = MsgNet(t[i]) /\ r.gateway = t[i].gw
    BY <1>4, <2>2
  <2>4. ToSet(res[i]) = {r} /\ i \in 1 .. n
    BY <1>2, <2>2, <2>3, Single
  <2>5. r \in ToSet(rs)
    BY <1>7, <2>4
  <2>. QED BY <2>3, <2>5
<1>. QED BY <1>7, <1>8, <1>9

\* What the closure of get_neighbors makes of a message of the neighbour table.
LEMMA NeighborOfMsg ==
  ASSUME NEW m \in NeighMsgs
  PROVE  \/ /\ m.ifindex # IfIndex \/ m.lladdr = BadLen
            /\ NeighborOf(m, IfIndex) = << >>
         \/ \E r \in NeighborRecs : /\ m.ifindex = IfIndex /\ m.lladdr # BadLen
                                    /\ NeighborOf(m, IfIndex) = <<r>>
                                    /\ r.ip = OrElse(m.dst, 0)
                                    /\ r.mac = OrElse(m.lladdr, ZeroMac)
<1>1. /\ m.kind = "NewNeighbour" /\ m.ifindex \in Nat
      /\ m.dst \in Addrs \cup {NoAttr} /\ m.lladdr \in Macs \cup {BadLen, NoAttr}
  BY DEF NeighMsgs
<1>2. IfIndex # NoAttr /\ IfIndex \in Nat /\ 0 \in Addrs
  BY NetlinkAssumption, RouterAssumption
<1>3. CASE m.ifindex = IfIndex /\ m.lladdr # BadLen
  <2> DEFINE r == [ip |-> OrElse(m.dst, 0), mac |-> OrElse(m.lladdr, ZeroMac),
                   if_index |-> m.ifindex]
  <2>1. OrElse(m.dst, 0) \in Addrs /\ OrElse(m.lladdr, ZeroMac) \in Macs \cup {ZeroMac}
    BY <1>1, <1>2, <1>3 DEF OrElse
  <2>2. r \in NeighborRecs
    BY <1>1, <2>1 DEF NeighborRecs
  <2>3. NeighborOf(m, IfIndex) = <<r>>
    BY <1>1, <1>3 DEF NeighborOf, OnInterface
  <2>. QED BY <1>3, <2>2, <2>3
<1>4. CASE m.ifindex # IfIndex \/ m.lladdr = BadLen
  BY <1>2, <1>4 DEF NeighborOf, OnInterface
<1>. QED BY <1>3, <1>4

\* The places of the neighbours of the interface that have an address of six
\* bytes, or none.
Reachable(t) == {i \in DOMAIN t : t[i].ifindex = IfIndex /\ t[i].lladdr # BadLen}

\* The second dump of refresh.
LEMMA DumpedNeighbors ==
  ASSUME NEW t \in NeighTables, NEW reply \in Replies(t),
         NEW ns, ns = get_neighbors(IfIndex, reply)
  PROVE  /\ ns \in Seq(NeighborRecs)
         /\ \A r \in ToSet(ns) :
              \E i \in Reachable(t) : /\ OrElse(t[i].dst, 0) = r.ip
                                      /\ OrElse(t[i].lladdr, ZeroMac) = r.mac
         /\ reply = Received(t) =>
              \A i \in Reachable(t) : i <= DatagramLen =>
                \E r \in ToSet(ns) : r.ip = OrElse(t[i].dst, 0)
<1>1. /\ t \in Seq(NeighMsgs) /\ DOMAIN t = 1 .. Len(t)
      /\ \A i \in DOMAIN t : t[i] \in NeighMsgs
  <2>1. t \in Seq(NeighMsgs)
    BY RouterAssumption
  <2>. QED BY <2>1, LenProperties, ElementOfSeq
<1>2. PICK n \in Nat : DOMAIN reply = 1 .. n
  BY <1>1, ReplyFrom
<1> DEFINE res == [i \in DOMAIN reply |-> NeighborOf(reply[i], IfIndex)]
           from(r, i) == /\ res[i] = <<r>> /\ r.ip = OrElse(t[i].dst, 0)
                         /\ r.mac = OrElse(t[i].lladdr, ZeroMac)
<1>3. ASSUME NEW i \in 1 .. n
      PROVE  res[i] = << >> \/ \E r \in NeighborRecs : i \in Reachable(t) /\ from(r, i)
  <2>1. res[i] = NeighborOf(reply[i], IfIndex)
    BY <1>2
  <2>2. CASE i \in DOMAIN t /\ reply[i] = t[i]
    BY <1>1, <2>1, <2>2, NeighborOfMsg DEF Reachable
  <2>3. CASE reply[i].kind \in {"Done", "Error"}
    BY <2>1, <2>3 DEF NeighborOf
  <2>. QED BY <1>1, <1>2, <2>2, <2>3, ReplyFrom
<1>4. ASSUME NEW i \in Reachable(t), i \in DOMAIN reply, reply[i] = t[i]
      PROVE  \E r \in NeighborRecs : from(r, i)
  <2>1. t[i] \in NeighMsgs /\ t[i].ifindex = IfIndex /\ t[i].lladdr # BadLen
    BY <1>1 DEF Reachable
  <2>2. res[i] = NeighborOf(t[i], IfIndex)
    BY <1>4
  <2>. QED BY <2>1, <2>2, NeighborOfMsg
<1>5. res \in [1 .. n -> Seq(NeighborRecs)]
  <2>1. \A i \in 1 .. n : res[i] \in Seq(NeighborRecs)
    BY <1>3, Single
  <2>. QED BY <1>2, <2>1
<1>6. ns = netlink(res)
  BY DEF get_neighbors
<1>. HIDE DEF res
<1>7. ns \in Seq(NeighborRecs) /\ ToSet(ns) = UNION {ToSet(res[i]) : i \in 1 .. n}
  BY <1>5, <1>6, Collected
<1>8. ASSUME NEW r \in ToSet(ns)
      PROVE  \E i \in Reachable(t) : /\ OrElse(t[i].dst, 0) = r.ip
                                     /\ OrElse(t[i].lladdr, ZeroMac) = r.mac
  <2>1. PICK i \in 1 .. n : r \in ToSet(res[i])
    BY <1>7
  <2>2. res[i] # << >>
    BY <2>1, Single
  <2>3. PICK q \in NeighborRecs : i \in Reachable(t) /\ from(q, i)
    BY <1>3, <2>2
  <2>4. ToSet(res[i]) = {q}
    BY <2>3, Single
  <2>. QED BY <2>1, <2>3, <2>4
<1>9. ASSUME reply = Received(t), NEW i \in Reachable(t), i <= DatagramLen
      PROVE  \E r \in ToSet(ns) : r.ip = OrElse(t[i].dst, 0)
  <2>1. i \in DOMAIN t
    BY DEF Reachable
  <2>2. i \in DOMAIN reply /\ reply[i] = t[i]
    BY <1>1, <1>9, <2>1, ReceivedFrom
  <2>3. PICK r \in NeighborRecs : from(r, i)
    BY <1>4, <2>2
  <2>4. ToSet(res[i]) = {r} /\ i \in 1 .. n
    BY <1>2, <2>2, <2>3, Single
  <2>5. r \in ToSet(ns)
    BY <1>7, <2>4
  <2>. QED BY <2>3, <2>5
<1>. QED BY <1>7, <1>8, <1>9

-----------------------------------------------------------------------------
(* The maps of the caches. *)

\* The last of some entries of a sequence is one of them.
LEMMA LastOf ==
  ASSUME NEW S, NEW s \in Seq(S), NEW T \in SUBSET DOMAIN s, T # {}
  PROVE  Max(T) \in T
<1>1. Len(s) \in Nat /\ DOMAIN s = 1 .. Len(s)
  BY LenProperties
<1>2. Len(s) + 1 \in Nat /\ T \in SUBSET (0 .. (Len(s) + 1) - 1)
  BY <1>1
<1>3. \E i \in T : \A j \in T : j <= i
  BY <1>2, LargestExists
<1>4. \E i \in T : \A j \in T : i >= j
  BY <1>1, <1>3
<1>. QED BY <1>4 DEF Max

\* The route cache has an entry for each net that has a route with a gateway,
\* and it is one of these routes.
LEMMA PrefixMapEntries ==
  ASSUME NEW rs \in Seq(RouteRecs)
  PROVE  /\ \A r \in ToSet(rs) :
              r.gateway # NoAttr => NetOf(r) \in DOMAIN PrefixMap(rs)
         /\ \A n \in DOMAIN PrefixMap(rs) :
              /\ PrefixMap(rs)[n] \in ToSet(rs)
              /\ NetOf(PrefixMap(rs)[n]) = n
              /\ PrefixMap(rs)[n].gateway # NoAttr
<1> DEFINE inserted(n) == {i \in DOMAIN rs : rs[i].gateway # NoAttr /\ NetOf(rs[i]) = n}
           nets == {NetOf(rs[i]) : i \in {j \in DOMAIN rs : rs[j].gateway # NoAttr}}
<1>1. PrefixMap(rs) = [n \in nets |-> rs[Max(inserted(n))]]
  BY DEF PrefixMap
<1>2. ASSUME NEW r \in ToSet(rs), r.gateway # NoAttr PROVE NetOf(r) \in nets
  BY <1>2 DEF ToSet
<1>3. ASSUME NEW n \in nets
      PROVE  /\ rs[Max(inserted(n))] \in ToSet(rs)
             /\ NetOf(rs[Max(inserted(n))]) = n
             /\ rs[Max(inserted(n))].gateway # NoAttr
  <2>1. inserted(n) # {} /\ inserted(n) \in SUBSET DOMAIN rs
    OBVIOUS
  <2> DEFINE T == inserted(n)
  <2>2. T # {} /\ T \in SUBSET DOMAIN rs
    BY <2>1
  <2>. HIDE DEF T
  <2>3. Max(T) \in T
    BY <2>2, LastOf
  <2>4. /\ Max(inserted(n)) \in DOMAIN rs /\ NetOf(rs[Max(inserted(n))]) = n
        /\ rs[Max(inserted(n))].gateway # NoAttr
    BY <2>3 DEF T
  <2>. QED BY <2>4 DEF ToSet
<1>. HIDE DEF nets, inserted
<1>. QED BY <1>1, <1>2, <1>3

\* The neighbour cache has an entry for each address in the dump.
LEMMA NeighborMapEntries ==
  ASSUME NEW ns \in Seq(NeighborRecs)
  PROVE  /\ \A r \in ToSet(ns) : r.ip \in DOMAIN NeighborMap(ns)
         /\ \A ip \in DOMAIN NeighborMap(ns) :
              NeighborMap(ns)[ip] \in ToSet(ns) /\ NeighborMap(ns)[ip].ip = ip
<1> DEFINE found(ip) == {i \in DOMAIN ns : ns[i].ip = ip}
           ips == {ns[i].ip : i \in DOMAIN ns}
<1>1. NeighborMap(ns) = [ip \in ips |-> ns[Max(found(ip))]]
  BY DEF NeighborMap
<1>2. ASSUME NEW r \in ToSet(ns) PROVE r.ip \in ips
  BY DEF ToSet
<1>3. ASSUME NEW ip \in ips
      PROVE  ns[Max(found(ip))] \in ToSet(ns) /\ ns[Max(found(ip))].ip = ip
  <2> DEFINE T == found(ip)
  <2>1. T # {} /\ T \in SUBSET DOMAIN ns
    OBVIOUS
  <2>. HIDE DEF T
  <2>2. Max(T) \in T
    BY <2>1, LastOf
  <2>3. Max(found(ip)) \in DOMAIN ns /\ ns[Max(found(ip))].ip = ip
    BY <2>2 DEF T
  <2>. QED BY <2>3 DEF ToSet
<1>. HIDE DEF ips, found
<1>. QED BY <1>1, <1>2, <1>3

\* The route cache after a refresh, told by the table.
LEMMA RoutesCached ==
  ASSUME NEW t \in RouteTables, NEW reply \in Replies(t),
         NEW map, map = PrefixMap(get_ipv4_routes(IfIndex, reply))
  PROVE  /\ \A n \in DOMAIN map :
              \E i \in Ours(t) :
                MsgNet(t[i]) = n /\ t[i].gw = map[n].gateway /\ t[i].gw # NoAttr
         /\ reply = Received(t) =>
              \A i \in Ours(t) :
                t[i].gw # NoAttr /\ i <= DatagramLen => MsgNet(t[i]) \in DOMAIN map
<1> DEFINE rs == get_ipv4_routes(IfIndex, reply)
<1>1. /\ rs \in Seq(RouteRecs)
      /\ \A r \in ToSet(rs) :
           \E i \in Ours(t) : MsgNet(t[i]) = NetOf(r) /\ t[i].gw = r.gateway
      /\ reply = Received(t) =>
           \A i \in Ours(t) : i <= DatagramLen =>
             \E r \in ToSet(rs) : NetOf(r) = MsgNet(t[i]) /\ r.gateway = t[i].gw
  BY DumpedRoutes
<1>2. map = PrefixMap(rs)
  OBVIOUS
<1>. HIDE DEF rs
<1>3. /\ \A r \in ToSet(rs) : r.gateway # NoAttr => NetOf(r) \in DOMAIN map
      /\ \A n \in DOMAIN map :
           map[n] \in ToSet(rs) /\ NetOf(map[n]) = n /\ map[n].gateway # NoAttr
  BY <1>1, <1>2, PrefixMapEntries
<1>4. ASSUME NEW n \in DOMAIN map
      PROVE  \E i \in Ours(t) :
               MsgNet(t[i]) = n /\ t[i].gw = map[n].gateway /\ t[i].gw # NoAttr
  BY <1>1, <1>3
<1>5. ASSUME reply = Received(t), NEW i \in Ours(t), t[i].gw # NoAttr, i <= DatagramLen
      PROVE  MsgNet(t[i]) \in DOMAIN map
  <2>1. PICK r \in ToSet(rs) : NetOf(r) = MsgNet(t[i]) /\ r.gateway = t[i].gw
    BY <1>1, <1>5
  <2>. QED BY <1>3, <1>5, <2>1
<1>. QED BY <1>4, <1>5

\* The neighbour cache after a refresh, told by the table.
LEMMA NeighborsCached ==
  ASSUME NEW t \in NeighTables, NEW reply \in Replies(t),
         NEW map, map = NeighborMap(get_neighbors(IfIndex, reply))
  PROVE  /\ DOMAIN map \subseteq Addrs
         /\ \A ip \in DOMAIN map :
              /\ map[ip].mac \in Macs \cup {ZeroMac}
              /\ \E i \in Reachable(t) : /\ OrElse(t[i].dst, 0) = ip
                                         /\ OrElse(t[i].lladdr, ZeroMac) = map[ip].mac
         /\ reply = Received(t) =>
              \A i \in Reachable(t) :
                i <= DatagramLen => OrElse(t[i].dst, 0) \in DOMAIN map
<1> DEFINE ns == get_neighbors(IfIndex, reply)
<1>1. /\ ns \in Seq(NeighborRecs)
      /\ \A r \in ToSet(ns) :
           \E i \in Reachable(t) : /\ OrElse(t[i].dst, 0) = r.ip
                                   /\ OrElse(t[i].lladdr, ZeroMac) = r.mac
      /\ reply = Received(t) =>
           \A i \in Reachable(t) : i <= DatagramLen =>
             \E r \in ToSet(ns) : r.ip = OrElse(t[i].dst, 0)
  BY DumpedNeighbors
<1>2. map = NeighborMap(ns)
  OBVIOUS
<1>. HIDE DEF ns
<1>3. /\ \A r \in ToSet(ns) : r.ip \in DOMAIN map
      /\ \A ip \in DOMAIN map : map[ip] \in ToSet(ns) /\ map[ip].ip = ip
  BY <1>1, <1>2, NeighborMapEntries
<1>4. ToSet(ns) \subseteq NeighborRecs
  BY <1>1, SetOfSeq
<1>5. ASSUME NEW ip \in DOMAIN map
      PROVE  ip \in Addrs /\ map[ip].mac \in Macs \cup {ZeroMac}
  <2>1. map[ip] \in NeighborRecs /\ map[ip].ip = ip
    BY <1>3, <1>4
  <2>. QED BY <2>1 DEF NeighborRecs
<1>6. ASSUME NEW ip \in DOMAIN map
      PROVE  \E i \in Reachable(t) : /\ OrElse(t[i].dst, 0) = ip
                                     /\ OrElse(t[i].lladdr, ZeroMac) = map[ip].mac
  BY <1>1, <1>3
<1>7. ASSUME reply = Received(t), NEW i \in Reachable(t), i <= DatagramLen
      PROVE  OrElse(t[i].dst, 0) \in DOMAIN map
  <2>1. PICK r \in ToSet(ns) : r.ip = OrElse(t[i].dst, 0)
    BY <1>1, <1>7
  <2>. QED BY <1>3, <2>1
<1>. QED BY <1>5, <1>6, <1>7

\* The nets of a routing table.
LEMMA NetsTyped ==
  ASSUME NEW t \in RouteTables, NEW i \in DOMAIN t
  PROVE  /\ t[i] \in RouteMsgs
         /\ MsgNet(t[i]) \in [addr : Addrs, len : 0 .. AddrBits]
         /\ MsgNet(t[i]).len = t[i].prefix /\ t[i].prefix \in Int
<1>1. t \in Seq(RouteMsgs)
  BY RouterAssumption
<1>2. t[i] \in RouteMsgs
  BY <1>1, LenProperties, ElementOfSeq
<1>3. t[i].prefix \in 0 .. AddrBits /\ t[i].dst \in Addrs \cup {NoAttr}
  BY <1>2 DEF RouteMsgs
<1>4. OrElse(t[i].dst, 0) \in Addrs
  BY <1>3, NetlinkAssumption DEF OrElse
<1>. QED BY <1>2, <1>3, <1>4 DEF MsgNet

-----------------------------------------------------------------------------
(* find_default_gateway. *)

\* The partial results of the fold over the first n routes, by the set of the
\* routes that have been folded, as FoldLeft computes them.
Folded(g, rs, n) ==
  g = [s \in SUBSET (1 .. n) |->
         IF s = {} THEN NoAttr ELSE BetterGateway(g[s \ {Max(s)}], rs[Max(s)])]

\* There are partial results.
LEMMA FoldedExists ==
  ASSUME NEW rs, NEW N \in Nat
  PROVE  \E g : Folded(g, rs, N)
<1> DEFINE T == {n \in 0 .. N : \E g : Folded(g, rs, n)}
           v(g, s) == IF s = {} THEN NoAttr
                      ELSE BetterGateway(g[s \ {Max(s)}], rs[Max(s)])
<1>1. 0 \in T
  <2> DEFINE g == [s \in SUBSET (1 .. 0) |-> NoAttr]
  <2>1. \A s \in SUBSET (1 .. 0) : s = {}
    OBVIOUS
  <2>2. Folded(g, rs, 0)
    BY <2>1 DEF Folded
  <2>. QED BY <2>2
<1>2. ASSUME NEW n \in 0 .. N - 1, n \in T PROVE n + 1 \in T
  <2>1. PICK g : Folded(g, rs, n)
    BY <1>2
  <2> DEFINE h == [s \in SUBSET (1 .. n + 1) |-> v(g, s)]
  <2>2. \A s \in SUBSET (1 .. n) : g[s] = v(g, s)
    BY <2>1 DEF Folded
  <2>3. ASSUME NEW s \in SUBSET (1 .. n + 1), s # {}
        PROVE  s \ {Max(s)} \in SUBSET (1 .. n) /\ s \ {Max(s)} \in SUBSET (1 .. n + 1)
    <3>1. n + 2 \in Nat /\ s \in SUBSET (0 .. (n + 2) - 1)
      OBVIOUS
    <3>2. PICK m \in s : \A j \in s : j <= m
      BY <2>3, <3>1, LargestExists
    <3>3. \E i \in s : \A j \in s : i >= j
      BY <3>2
    <3>4. Max(s) \in s /\ \A j \in s : Max(s) >= j
      BY <3>3 DEF Max
    <3> DEFINE x == Max(s)
    <3>. HIDE DEF x
    <3>5. x \in s /\ \A j \in s : x >= j
      BY <3>4 DEF x
    <3>6. \A j \in s : j # x => j \in 1 .. n
      BY <3>5
    <3>. QED BY <3>6 DEF x
  <2>4. ASSUME NEW s \in SUBSET (1 .. n + 1), s # {}
        PROVE  h[s \ {Max(s)}] = g[s \ {Max(s)}]
    <3> DEFINE u == s \ {Max(s)}
    <3>1. u \in SUBSET (1 .. n) /\ u \in SUBSET (1 .. n + 1)
      BY <2>3, <2>4
    <3>. HIDE DEF u
    <3>2. h[u] = v(g, u)
      BY <3>1
    <3>. HIDE DEF v, h
    <3>3. g[u] = v(g, u)
      BY <2>2, <3>1
    <3>. QED BY <3>2, <3>3 DEF u
  <2>5. ASSUME NEW s \in SUBSET (1 .. n + 1)
        PROVE  v(g, s) = v(h, s)
    <3>. HIDE DEF h
    <3>. QED BY <2>4
  <2>6. h = [s \in SUBSET (1 .. n + 1) |-> v(h, s)]
    <3>. HIDE DEF v
    <3>. QED BY <2>5
  <2>. HIDE DEF h
  <2>7. Folded(h, rs, n + 1)
    BY <2>6 DEF Folded
  <2>8. n + 1 \in 0 .. N
    OBVIOUS
  <2>. QED BY <2>7, <2>8
<1>3. \A n \in 0 .. N - 1 : n \in T => n + 1 \in T
  BY <1>2
<1>. HIDE DEF T
<1>4. \A n \in 0 .. N : n \in T
  BY <1>1, <1>3, InductionTo
<1>5. N \in T
  BY <1>4
<1>. QED BY <1>5 DEF T

\* find_default_gateway is the last of them.
LEMMA GatewayUnfolds ==
  ASSUME NEW rs, NEW N \in Nat, DOMAIN rs = 1 .. N
  PROVE  \E g : Folded(g, rs, N) /\ find_default_gateway(rs) = g[1 .. N]
<1> DEFINE g == CHOOSE f : Folded(f, rs, N)
<1>1. Folded(g, rs, N)
  BY FoldedExists, Zenon
<1>2. find_default_gateway(rs) = g[1 .. N]
  BY DEF find_default_gateway, FoldLeft, MapThenFoldSet, Folded
<1>. QED BY <1>1, <1>2

\* The fold, one route at a time.
LEMMA GatewaySteps ==
  ASSUME NEW rs, NEW N \in Nat, DOMAIN rs = 1 .. N
  PROVE  \E h : /\ h[0] = NoAttr
                /\ \A k \in 1 .. N : h[k] = BetterGateway(h[k - 1], rs[k])
                /\ find_default_gateway(rs) = h[N]
<1>1. PICK g : Folded(g, rs, N) /\ find_default_gateway(rs) = g[1 .. N]
  BY GatewayUnfolds
<1> DEFINE h == [k \in 0 .. N |-> g[1 .. k]]
<1>2. \A k \in 0 .. N : 1 .. k \in SUBSET (1 .. N)
  OBVIOUS
<1>3. g[1 .. 0] = NoAttr
  <2>1. 1 .. 0 = {} /\ 1 .. 0 \in SUBSET (1 .. N)
    OBVIOUS
  <2>. QED BY <1>1, <2>1 DEF Folded
<1>4. ASSUME NEW k \in 1 .. N PROVE g[1 .. k] = BetterGateway(g[1 .. k - 1], rs[k])
  <2>1. 1 .. k \in SUBSET (1 .. N) /\ 1 .. k # {} /\ (1 .. k) \ {k} = 1 .. k - 1
    <3>1. 1 .. k \in SUBSET (1 .. N) /\ k \in 1 .. k
      OBVIOUS
    <3>2. \A j : j \in (1 .. k) \ {k} <=> j \in 1 .. k - 1
      OBVIOUS
    <3>. QED BY <3>1, <3>2
  <2>2. Max(1 .. k) = k
    <3>1. k \in 1 .. k /\ \A j \in 1 .. k : k >= j
      OBVIOUS
    <3>2. \A i \in 1 .. k : (\A j \in 1 .. k : i >= j) => i = k
      OBVIOUS
    <3>. QED BY <3>1, <3>2 DEF Max
  <2> DEFINE D == 1 .. k
  <2>3. D \in SUBSET (1 .. N) /\ D # {} /\ D \ {k} = 1 .. k - 1 /\ Max(D) = k
    BY <2>1, <2>2
  <2>. HIDE DEF D
  <2>4. g[D] = BetterGateway(g[D \ {Max(D)}], rs[Max(D)])
    BY <1>1, <2>3 DEF Folded
  <2>5. g[D] = BetterGateway(g[1 .. k - 1], rs[k])
    BY <2>3, <2>4
  <2>. QED BY <2>5 DEF D
<1>5. h[0] = NoAttr /\ h[N] = g[1 .. N]
  BY <1>3
<1>6. \A k \in 1 .. N : h[k] = BetterGateway(h[k - 1], rs[k])
  <2> TAKE k \in 1 .. N
  <2>1. h[k] = g[1 .. k] /\ h[k - 1] = g[1 .. k - 1]
    OBVIOUS
  <2>. HIDE DEF h
  <2>. QED BY <1>4, <2>1
<1>. HIDE DEF h
<1>. QED BY <1>1, <1>5, <1>6

\* One more route at the end.
LEMMA GatewayAppend ==
  ASSUME NEW S, NEW s \in Seq(S), NEW r \in S
  PROVE  find_default_gateway(Append(s, r)) = BetterGateway(find_default_gateway(s), r)
<1> DEFINE N == Len(s)
           q == Append(s, r)
<1>1. /\ N \in Nat /\ DOMAIN s = 1 .. N /\ N + 1 \in Nat
  BY LenProperties
<1>2. /\ q \in Seq(S) /\ Len(q) = N + 1 /\ q[N + 1] = r
      /\ \A i \in 1 .. N : q[i] = s[i]
  BY AppendProperties
<1>. HIDE DEF q, N
<1>3. DOMAIN q = 1 .. N + 1
  BY <1>2, LenProperties
<1>4. PICK h : /\ h[0] = NoAttr
               /\ \A k \in 1 .. N : h[k] = BetterGateway(h[k - 1], s[k])
               /\ find_default_gateway(s) = h[N]
  BY <1>1, GatewaySteps
<1>5. PICK g : /\ g[0] = NoAttr
               /\ \A k \in 1 .. N + 1 : g[k] = BetterGateway(g[k - 1], q[k])
               /\ find_default_gateway(q) = g[N + 1]
  BY <1>1, <1>3, GatewaySteps
<1> DEFINE T == {k \in 0 .. N : g[k] = h[k]}
<1>6. 0 \in T
  BY <1>1, <1>4, <1>5
<1>7. ASSUME NEW k \in 0 .. N - 1, k \in T PROVE k + 1 \in T
  <2>1. k + 1 \in 1 .. N /\ k + 1 \in 1 .. N + 1 /\ (k + 1) - 1 = k /\ k + 1 \in 0 .. N
    BY <1>1
  <2>2. g[k + 1] = BetterGateway(g[k], q[k + 1]) /\ h[k + 1] = BetterGateway(h[k], s[k + 1])
    BY <1>4, <1>5, <2>1
  <2>3. g[k] = h[k] /\ q[k + 1] = s[k + 1]
    BY <1>2, <1>7, <2>1
  <2>. QED BY <2>1, <2>2, <2>3
<1>8. \A k \in 0 .. N - 1 : k \in T => k + 1 \in T
  BY <1>7
<1>. HIDE DEF T
<1>9. \A k \in 0 .. N : k \in T
  BY <1>1, <1>6, <1>8, InductionTo
<1>10. g[N] = h[N]
  BY <1>1, <1>9 DEF T
<1>11. N + 1 \in 1 .. N + 1 /\ (N + 1) - 1 = N
  BY <1>1
<1>12. g[N + 1] = BetterGateway(g[N], q[N + 1])
  BY <1>5, <1>11
<1>. QED BY <1>2, <1>4, <1>5, <1>10, <1>12 DEF q

LEMMA GatewayOfNone == find_default_gateway(<< >>) = NoAttr
<1>1. 0 \in Nat /\ DOMAIN << >> = 1 .. 0
  OBVIOUS
<1>2. \E h : h[0] = NoAttr /\ find_default_gateway(<< >>) = h[0]
  BY <1>1, GatewaySteps
<1>. QED BY <1>2

\* The default routes of a datagram, and the gateway that one of them makes.
Defaults(d) ==
  {i \in DOMAIN d :
     d[i].kind = "NewRoute" /\ d[i].prefix = 0 /\ d[i].gw # NoAttr /\ d[i].oif # NoAttr}

GatewayOf(m) == [ip |-> m.gw, priority |-> OrElse(m.prio, 0), if_index |-> m.oif]

Prio(m) == OrElse(m.prio, 0)

\* Is the i-th message better than the j-th?
Before(d, i, j) ==
  Prio(d[i]) < Prio(d[j]) \/ (Prio(d[i]) = Prio(d[j]) /\ i <= j)

\* gw is the best gateway of the first k messages.
BestOf(d, k, gw) ==
  \/ gw = NoAttr /\ \A j \in Defaults(d) : ~(j <= k)
  \/ \E i \in Defaults(d) :
       /\ i <= k /\ gw = GatewayOf(d[i])
       /\ \A j \in Defaults(d) : j <= k => Before(d, i, j)

\* What the fold sees of a message.
LEMMA DefaultOfMsg ==
  ASSUME NEW d, NEW i \in DOMAIN d,
         d[i] \in RouteMsgs \/ d[i].kind \in {"Done", "Error"}
  PROVE  \/ RouteOf(d[i], NoAttr) = << >> /\ i \notin Defaults(d)
         \/ \E r \in RouteRecs :
              /\ RouteOf(d[i], NoAttr) = <<r>>
              /\ IsDefault(r) <=> i \in Defaults(d)
              /\ r.priority = OrElse(d[i].prio, 0)
              /\ GatewayOf(d[i]) = [ip |-> r.gateway, priority |-> r.priority,
                                    if_index |-> r.out_if_index]
<1> DEFINE m == d[i]
<1>1. CASE m.kind \in {"Done", "Error"}
  BY <1>1 DEF RouteOf, Defaults
<1>2. CASE m \in RouteMsgs /\ m.oif = NoAttr
  BY <1>2 DEF RouteOf, Defaults
<1>3. CASE m \in RouteMsgs /\ m.oif # NoAttr
  <2>1. /\ m.kind = "NewRoute" /\ m.prefix \in 0 .. AddrBits
        /\ m.dst \in Addrs \cup {NoAttr} /\ m.gw \in Addrs \cup {NoAttr}
        /\ m.oif \in Nat /\ m.prio \in Nat \cup {NoAttr}
    BY <1>3 DEF RouteMsgs
  <2>2. 0 \in Addrs /\ 0 \in Nat
    BY NetlinkAssumption
  <2>3. OrElse(m.dst, 0) \in Addrs /\ OrElse(m.prio, 0) \in Nat
    BY <2>1, <2>2 DEF OrElse
  <2>. HIDE DEF m
  <2> DEFINE r == [dest_prefix |-> m.prefix, destination |-> OrElse(m.dst, 0),
                   gateway |-> m.gw, out_if_index |-> m.oif,
                   priority |-> OrElse(m.prio, 0)]
  <2>4. r \in RouteRecs
    BY <2>1, <2>3 DEF RouteRecs
  <2>5. RouteOf(m, NoAttr) = <<r>>
    BY <1>3, <2>1 DEF RouteOf, OnInterface
  <2>6. /\ r.gateway = m.gw /\ r.out_if_index = m.oif /\ r.dest_prefix = m.prefix
        /\ r.priority = OrElse(m.prio, 0)
    OBVIOUS
  <2>. HIDE DEF r
  <2>7. IsDefault(r) <=> i \in Defaults(d)
    BY <1>3, <2>1, <2>6 DEF IsDefault, Defaults, m
  <2>8. GatewayOf(m) = [ip |-> r.gateway, priority |-> r.priority,
                        if_index |-> r.out_if_index]
    BY <2>6 DEF GatewayOf
  <2>. QED BY <2>4, <2>5, <2>6, <2>7, <2>8 DEF m
<1>. QED BY <1>1, <1>2, <1>3

\* A message that is no default route changes nothing.
LEMMA BestKept ==
  ASSUME NEW d, NEW k \in Nat, NEW gw, DOMAIN d \subseteq Nat,
         k + 1 \notin Defaults(d), BestOf(d, k, gw)
  PROVE  BestOf(d, k + 1, gw)
<1>1. \A j \in Defaults(d) : j <= k + 1 => j <= k
  <2>1. \A j \in Defaults(d) : j \in Nat /\ j # k + 1
    BY DEF Defaults
  <2>. QED BY <2>1
<1>2. \A j \in Defaults(d) : j <= k => j <= k + 1
  BY DEF Defaults
<1>. QED BY <1>1, <1>2 DEF BestOf

\* A default route is compared with the best of the ones before.
LEMMA BestNext ==
  ASSUME NEW d, NEW k \in Nat, NEW gw, NEW r, DOMAIN d \subseteq Nat,
         \A i \in Defaults(d) : d[i] \in RouteMsgs,
         k + 1 \in Defaults(d), BestOf(d, k, gw), IsDefault(r),
         r.priority = OrElse(d[k + 1].prio, 0),
         GatewayOf(d[k + 1]) = [ip |-> r.gateway, priority |-> r.priority,
                                if_index |-> r.out_if_index]
  PROVE  BestOf(d, k + 1, BetterGateway(gw, r))
<1>1. \A i \in Defaults(d) : Prio(d[i]) \in Nat /\ i \in Nat
  <2> TAKE i \in Defaults(d)
  <2>1. d[i].prio \in Nat \cup {NoAttr} /\ i \in Nat
    BY DEF RouteMsgs, Defaults
  <2>. QED BY <2>1 DEF OrElse, Prio
<1>2. \A i \in Defaults(d) : GatewayOf(d[i]) # NoAttr /\ GatewayOf(d[i]).priority = Prio(d[i])
  <2> TAKE i \in Defaults(d)
  <2>1. d[i].gw \in Addrs /\ d[i].oif \in Nat
    BY DEF RouteMsgs, Defaults
  <2>2. GatewayOf(d[i]) \in Gateways
    BY <1>1, <2>1 DEF GatewayOf, Gateways, Prio
  <2>3. GatewayOf(d[i]) # NoAttr
    BY <2>2, NetlinkAssumption
  <2>. QED BY <2>3 DEF GatewayOf, Prio
<1>3. \A j \in Defaults(d) : j <= k + 1 => j <= k \/ j = k + 1
  BY <1>1
<1>4. CASE gw = NoAttr \/ Prio(d[k + 1]) < gw.priority
  <2>1. BetterGateway(gw, r) = GatewayOf(d[k + 1])
    BY <1>4 DEF BetterGateway, Prio
  <2>2. ASSUME NEW j \in Defaults(d), j <= k + 1 PROVE Before(d, k + 1, j)
    <3>1. CASE j = k + 1
      BY <1>1, <3>1 DEF Before
    <3>2. CASE j <= k
      <4>1. PICK i \in Defaults(d) : gw = GatewayOf(d[i]) /\ Before(d, i, j)
        BY <3>2 DEF BestOf
      <4>2. Prio(d[k + 1]) < Prio(d[i])
        BY <1>2, <1>4, <4>1
      <4>3. Prio(d[i]) < Prio(d[j]) \/ Prio(d[i]) = Prio(d[j])
        BY <4>1 DEF Before
      <4>4. Prio(d[k + 1]) < Prio(d[j])
        BY <1>1, <4>2, <4>3
      <4>. QED BY <4>4 DEF Before
    <3>. QED BY <1>3, <2>2, <3>1, <3>2
  <2>3. k + 1 <= k + 1
    OBVIOUS
  <2>. QED BY <2>1, <2>2, <2>3 DEF BestOf
<1>5. CASE gw # NoAttr /\ ~(Prio(d[k + 1]) < gw.priority)
  <2>1. BetterGateway(gw, r) = gw
    BY <1>5 DEF BetterGateway, Prio
  <2>2. PICK i \in Defaults(d) :
          /\ i <= k /\ gw = GatewayOf(d[i])
          /\ \A j \in Defaults(d) : j <= k => Before(d, i, j)
    BY <1>5 DEF BestOf
  <2>3. i <= k + 1
    BY <1>1, <2>2
  <2>4. Before(d, i, k + 1)
    <3>1. ~(Prio(d[k + 1]) < Prio(d[i]))
      BY <1>2, <1>5, <2>2
    <3>. QED BY <1>1, <2>3, <3>1 DEF Before
  <2>5. \A j \in Defaults(d) : j <= k + 1 => Before(d, i, j)
    BY <1>3, <2>2, <2>4
  <2>. QED BY <2>1, <2>2, <2>3, <2>5 DEF BestOf
<1>. QED BY <1>4, <1>5

\* The default gateway of a datagram is the best of all its default routes.
LEMMA GatewayOfDump ==
  ASSUME NEW d, NEW N \in Nat, DOMAIN d = 1 .. N,
         \A i \in 1 .. N : d[i] \in RouteMsgs \/ d[i].kind \in {"Done", "Error"}
  PROVE  BestOf(d, N, find_default_gateway(get_ipv4_routes(NoAttr, d)))
<1> DEFINE res == [i \in DOMAIN d |-> RouteOf(d[i], NoAttr)]
<1>1. ASSUME NEW i \in 1 .. N
      PROVE  \/ res[i] = << >> /\ i \notin Defaults(d)
             \/ \E r \in RouteRecs :
                  /\ res[i] = <<r>>
                  /\ IsDefault(r) <=> i \in Defaults(d)
                  /\ r.priority = OrElse(d[i].prio, 0)
                  /\ GatewayOf(d[i]) = [ip |-> r.gateway, priority |-> r.priority,
                                        if_index |-> r.out_if_index]
  <2>1. res[i] = RouteOf(d[i], NoAttr) /\ i \in DOMAIN d
    OBVIOUS
  <2>. HIDE DEF res
  <2>. QED BY <2>1, DefaultOfMsg
<1>2. \A i \in Defaults(d) : d[i] \in RouteMsgs
  BY DEF Defaults
<1>3. res \in Seq(Seq(RouteRecs)) /\ DOMAIN res = 1 .. N
  <2>1. \A i \in 1 .. N : res[i] \in Seq(RouteRecs)
    BY <1>1, Single
  <2>2. res \in [1 .. N -> Seq(RouteRecs)]
    BY <2>1
  <2>. HIDE DEF res
  <2>. QED BY <2>2
<1>4. get_ipv4_routes(NoAttr, d) = FlattenSeq(res)
  BY DEF get_ipv4_routes, netlink
<1>. HIDE DEF res
<1>5. Len(res) = N /\ \A i \in 1 .. N : res[i] \in Seq(RouteRecs)
  BY <1>3, LenProperties, ElementOfSeq
<1>6. CASE N = 0
  <2>1. res = << >>
    BY <1>3, <1>5, <1>6, EmptySeq
  <2>2. FlattenSeq(res) = << >>
    BY <2>1 DEF FlattenSeq
  <2>3. \A j \in Defaults(d) : ~(j <= N)
    BY <1>6 DEF Defaults
  <2>. QED BY <1>4, <2>2, <2>3, GatewayOfNone DEF BestOf
<1>7. CASE N # 0
  <2>1. PICK f : Appended(f, res, N) /\ FlattenSeq(res) = f[N]
    BY <1>5, <1>7, FlattenUnfolds
  <2> DEFINE F(k) == IF k = 0 THEN << >> ELSE f[k]
             T == {k \in 0 .. N : /\ F(k) \in Seq(RouteRecs)
                                  /\ BestOf(d, k, find_default_gateway(F(k)))}
  <2>2. 0 \in T
    <3>1. \A j \in Defaults(d) : ~(j <= 0)
      BY DEF Defaults
    <3>. QED BY <3>1, GatewayOfNone DEF BestOf
  <2>3. ASSUME NEW k \in 0 .. N - 1, k \in T PROVE k + 1 \in T
    <3>1. /\ k \in Nat /\ k + 1 \in 1 .. N /\ k + 1 \in 0 .. N /\ (k + 1) - 1 = k
          /\ k + 1 # 0 /\ (k + 1 = 1 <=> k = 0)
      OBVIOUS
    <3>2. F(k) \in Seq(RouteRecs) /\ BestOf(d, k, find_default_gateway(F(k)))
      BY <2>3
    <3>3. res[k + 1] \in Seq(RouteRecs)
      BY <1>5, <3>1
    <3>4. F(k + 1) = F(k) \o res[k + 1]
      <4>1. f[k + 1] = IF k + 1 = 1 THEN res[k + 1] ELSE f[(k + 1) - 1] \o res[k + 1]
        BY <2>1, <3>1 DEF Appended
      <4>2. CASE k = 0
        <5>1. F(k + 1) = res[k + 1] /\ F(k) = << >>
          BY <3>1, <4>1, <4>2
        <5>. QED BY <3>3, <5>1, ConcatEmptySeq
      <4>3. CASE k # 0
        BY <3>1, <4>1, <4>3
      <4>. QED BY <4>2, <4>3
    <3>. HIDE DEF F
    <3>5. DOMAIN d \subseteq Nat
      OBVIOUS
    <3>6. CASE res[k + 1] = << >> /\ k + 1 \notin Defaults(d)
      <4>1. F(k + 1) = F(k)
        BY <3>2, <3>4, <3>6, ConcatEmptySeq
      <4>2. BestOf(d, k + 1, find_default_gateway(F(k)))
        BY <3>1, <3>2, <3>5, <3>6, BestKept
      <4>. QED BY <3>1, <3>2, <4>1, <4>2
    <3>7. ASSUME NEW r \in RouteRecs, res[k + 1] = <<r>>,
                 IsDefault(r) <=> k + 1 \in Defaults(d),
                 r.priority = OrElse(d[k + 1].prio, 0),
                 GatewayOf(d[k + 1]) = [ip |-> r.gateway, priority |-> r.priority,
                                        if_index |-> r.out_if_index]
          PROVE  k + 1 \in T
      <4>1. F(k + 1) = Append(F(k), r)
        BY <3>2, <3>4, <3>7, AppendIsConcat
      <4>2. F(k + 1) \in Seq(RouteRecs)
        BY <3>2, <4>1, AppendProperties
      <4> DEFINE gw == find_default_gateway(F(k))
      <4>3. find_default_gateway(F(k + 1)) = BetterGateway(gw, r)
        BY <3>2, <4>1, GatewayAppend
      <4>4. BestOf(d, k, gw)
        BY <3>2
      <4>. HIDE DEF gw
      <4>5. CASE IsDefault(r)
        <5>1. BestOf(d, k + 1, BetterGateway(gw, r))
          BY <1>2, <3>1, <3>5, <3>7, <4>4, <4>5, BestNext
        <5>. QED BY <3>1, <4>2, <4>3, <5>1
      <4>6. CASE ~IsDefault(r)
        <5>1. BetterGateway(gw, r) = gw
          BY <4>6 DEF BetterGateway
        <5>2. BestOf(d, k + 1, gw)
          BY <3>1, <3>5, <3>7, <4>4, <4>6, BestKept
        <5>. QED BY <3>1, <4>2, <4>3, <5>1, <5>2
      <4>. QED BY <4>5, <4>6
    <3>. QED BY <1>1, <3>1, <3>6, <3>7
  <2>4. \A k \in 0 .. N - 1 : k \in T => k + 1 \in T
    BY <2>3
  <2>. HIDE DEF T
  <2>5. \A k \in 0 .. N : k \in T
    BY <2>2, <2>4, InductionTo
  <2>6. N \in T
    BY <2>5
  <2>7. F(N) = f[N]
    BY <1>7
  <2>. QED BY <1>4, <2>1, <2>6, <2>7 DEF T
<1>. QED BY <1>6, <1>7

-----------------------------------------------------------------------------
(* The inductive invariant. *)

\* The tables and the program counter.
Typed ==
  /\ kroutes \in RouteTables /\ kneighs \in NeighTables /\ klinks \in LinkTables
  /\ pc \in {"idle", "neighbours", "hwaddr"}
  /\ refused \in BOOLEAN
  /\ last \in Snapshots \cup {NoAttr}

\* Between its dumps refresh holds what the kernel's answer to the first gave.
Dumping ==
  pc = "neighbours" =>
    /\ asked \in RouteTables
    /\ \E reply \in Replies(asked) :
         /\ dumped = get_ipv4_routes(IfIndex, reply)
         /\ ~refused => reply = Received(asked)

\* The caches are made from the answers to the dumps of the last refresh that
\* succeeded.
Cached ==
  IF last = NoAttr
    THEN routes = << >> /\ neighbors = << >>
    ELSE \E rr \in Replies(last.routes), nr \in Replies(last.neighs) :
           /\ routes = PrefixMap(get_ipv4_routes(IfIndex, rr))
           /\ neighbors = NeighborMap(get_neighbors(IfIndex, nr))
           /\ ~last.refused => rr = Received(last.routes) /\ nr = Received(last.neighs)

\* The answer of route is what the caches say, until they are replaced.
HopCurrent == ret.of = "route" => ret.val.hop = NextHop(ret.val.dest)

Inv ==
  /\ Typed
  /\ Dumping
  /\ Cached
  /\ HopCurrent

LEMMA InitInv == Init => Inv
<1>. SUFFICES ASSUME Init PROVE Inv
  OBVIOUS
<1>1. Typed
  BY DEF Init, Typed
<1>2. Dumping
  BY DEF Init, Dumping
<1>3. Cached
  BY DEF Init, Cached
<1>4. HopCurrent
  BY DEF Init, HopCurrent
<1>. QED BY <1>1, <1>2, <1>3, <1>4 DEF Inv

\* A step that replaces neither cache.
LEMMA CachesKept ==
  ASSUME Cached, UNCHANGED <<routes, neighbors, last>>
  PROVE  Cached'
BY DEF Cached

LEMMA RefreshRoutesInv == Inv /\ RefreshRoutes => Inv'
<1>. SUFFICES ASSUME Inv, RefreshRoutes PROVE Inv'
  OBVIOUS
<1>1. PICK reply \in Replies(kroutes) : /\ dumped' = get_ipv4_routes(IfIndex, reply)
                                        /\ refused' = (reply = ErrorReply)
  BY DEF RefreshRoutes
<1>2. /\ pc' = "neighbours" /\ asked' = kroutes /\ ret' = [of |-> "none", val |-> NoAttr]
      /\ UNCHANGED <<kroutes, kneighs, klinks, routes, neighbors, ifr_name, last>>
  BY DEF RefreshRoutes, CallOn, kernel, router
<1>3. Typed'
  BY <1>1, <1>2 DEF Inv, Typed
<1>4. Dumping'
  <2>1. ~refused' => reply = Received(kroutes)
    BY <1>1 DEF Replies
  <2>2. kroutes \in RouteTables
    BY DEF Inv, Typed
  <2>3. Replies(asked') = Replies(kroutes) /\ Received(asked') = Received(kroutes)
    BY <1>2
  <2>. QED BY <1>1, <1>2, <2>1, <2>2, <2>3 DEF Dumping, Replies, Received
<1>5. Cached'
  BY <1>2, CachesKept DEF Inv
<1>6. HopCurrent'
  BY <1>2 DEF HopCurrent
<1>. QED BY <1>3, <1>4, <1>5, <1>6 DEF Inv

LEMMA RefreshNeighborsInv == Inv /\ RefreshNeighbors => Inv'
<1>. SUFFICES ASSUME Inv, RefreshNeighbors PROVE Inv'
  OBVIOUS
<1>1. PICK nr \in Replies(kneighs) :
        /\ neighbors' = NeighborMap(get_neighbors(IfIndex, nr))
        /\ last' = [routes |-> asked, neighs |-> kneighs,
                    refused |-> refused \/ nr = ErrorReply]
  BY DEF RefreshNeighbors
<1>2. /\ pc = "neighbours" /\ pc' = "idle" /\ refused' = FALSE
      /\ ret' = [of |-> "refresh", val |-> "Ok"]
      /\ routes' = PrefixMap(dumped)
      /\ UNCHANGED <<kroutes, kneighs, klinks>>
  BY DEF RefreshNeighbors, Return, kernel
<1>3. asked \in RouteTables /\ kneighs \in NeighTables
  BY <1>2 DEF Inv, Typed, Dumping
<1>4. PICK rr \in Replies(asked) : /\ dumped = get_ipv4_routes(IfIndex, rr)
                                   /\ ~refused => rr = Received(asked)
  BY <1>2 DEF Inv, Dumping
<1>5. last' \in Snapshots
  <2>1. (refused \/ nr = ErrorReply) \in BOOLEAN
    OBVIOUS
  <2>. QED BY <1>1, <1>3, <2>1 DEF Snapshots
<1>6. Typed'
  BY <1>2, <1>5 DEF Inv, Typed
<1>7. Dumping'
  BY <1>2 DEF Dumping
<1>8. Cached'
  <2>1. last' # NoAttr
    BY <1>5, RouterAssumption
  <2>2. last'.routes = asked /\ last'.neighs = kneighs
        /\ (last'.refused <=> refused \/ nr = ErrorReply)
    BY <1>1
  <2>3. ~last'.refused => rr = Received(asked) /\ nr = Received(kneighs)
    BY <1>1, <1>4, <2>2 DEF Replies
  <2>4. routes' = PrefixMap(get_ipv4_routes(IfIndex, rr))
    BY <1>2, <1>4
  <2>. QED BY <1>1, <1>4, <2>1, <2>2, <2>3, <2>4 DEF Cached, Replies, Received
<1>9. HopCurrent'
  BY <1>2 DEF HopCurrent
<1>. QED BY <1>6, <1>7, <1>8, <1>9 DEF Inv

\* A call that returns and leaves the caches alone.
LEMMA ReturnInv ==
  ASSUME Inv, NEW op, NEW val, Return(op, val), UNCHANGED <<kernel, router, last>>,
         op # "route" \/ val.hop = NextHop(val.dest)
  PROVE  Inv'
<1>1. /\ pc' = "idle" /\ refused' = FALSE /\ ret' = [of |-> op, val |-> val]
      /\ UNCHANGED <<kroutes, kneighs, klinks, routes, neighbors, last>>
  BY DEF Return, kernel, router
<1>2. Typed'
  BY <1>1 DEF Inv, Typed
<1>3. Dumping'
  BY <1>1 DEF Dumping
<1>4. Cached'
  BY <1>1, CachesKept DEF Inv
<1>5. HopCurrent'
  BY <1>1 DEF HopCurrent, NextHop
<1>. QED BY <1>2, <1>3, <1>4, <1>5 DEF Inv

LEMMA IoctlNameInv == Inv /\ IoctlName => Inv'
<1>. SUFFICES ASSUME Inv, IoctlName PROVE Inv'
  OBVIOUS
<1>1. /\ pc' = "hwaddr" /\ ret' = [of |-> "none", val |-> NoAttr]
      /\ UNCHANGED <<kroutes, kneighs, klinks, routes, neighbors, refused, last>>
  BY DEF IoctlName, CallOn, kernel, router, history
<1>2. Typed'
  BY <1>1 DEF Inv, Typed
<1>3. Dumping'
  BY <1>1 DEF Dumping
<1>4. Cached'
  BY <1>1, CachesKept DEF Inv
<1>5. HopCurrent'
  BY <1>1 DEF HopCurrent
<1>. QED BY <1>2, <1>3, <1>4, <1>5 DEF Inv

LEMMA IoctlHwAddrInv == Inv /\ IoctlHwAddr => Inv'
<1>. SUFFICES ASSUME Inv, IoctlHwAddr PROVE Inv'
  OBVIOUS
<1>1. PICK mac : Return("mac", mac)
  BY DEF IoctlHwAddr
<1>2. UNCHANGED <<kernel, router, last>>
  BY DEF IoctlHwAddr
<1>. QED BY <1>1, <1>2, ReturnInv

LEMMA KernelChangesInv == Inv /\ KernelChanges => Inv'
<1>. SUFFICES ASSUME Inv, KernelChanges PROVE Inv'
  OBVIOUS
<1>1. /\ UNCHANGED <<routes, neighbors, pc, dumped, ifr_name, ret, asked, refused, last>>
      /\ kroutes' \in RouteTables /\ kneighs' \in NeighTables /\ klinks' \in LinkTables
  BY DEF KernelChanges, router, history, Inv, Typed
<1>2. Typed'
  BY <1>1 DEF Inv, Typed
<1>3. Dumping'
  BY <1>1 DEF Inv, Dumping
<1>4. Cached'
  BY <1>1, CachesKept DEF Inv
<1>5. HopCurrent'
  BY <1>1 DEF Inv, HopCurrent, NextHop
<1>. QED BY <1>2, <1>3, <1>4, <1>5 DEF Inv

LEMMA StepInv == Inv /\ [Next]_vars => Inv'
<1>. SUFFICES ASSUME Inv, [Next]_vars PROVE Inv'
  OBVIOUS
<1>1. CASE RefreshRoutes
  BY <1>1, RefreshRoutesInv
<1>2. CASE RefreshNeighbors
  BY <1>2, RefreshNeighborsInv
<1>3. CASE RefreshFails
  <2>1. Return("refresh", "Err") /\ UNCHANGED <<kernel, router, last>>
    BY <1>3 DEF RefreshFails
  <2>. QED BY <2>1, ReturnInv
<1>4. ASSUME NEW dest \in Addrs, RouteTo(dest) PROVE Inv'
  <2> DEFINE val == [dest |-> dest, hop |-> NextHop(dest)]
  <2>1. Return("route", val) /\ UNCHANGED <<kernel, router, last>>
    BY <1>4 DEF RouteTo
  <2>2. val.hop = NextHop(val.dest)
    OBVIOUS
  <2>. HIDE DEF val
  <2>. QED BY <2>1, <2>2, ReturnInv
<1>5. CASE DefaultGateway
  <2>1. PICK val : Return("gateway", val)
    BY <1>5 DEF DefaultGateway
  <2>2. UNCHANGED <<kernel, router, last>>
    BY <1>5 DEF DefaultGateway
  <2>. QED BY <2>1, <2>2, ReturnInv
<1>6. CASE IoctlName
  BY <1>6, IoctlNameInv
<1>7. CASE IoctlFails
  <2>1. Return("mac", NoAttr) /\ UNCHANGED <<kernel, router, last>>
    BY <1>7 DEF IoctlFails
  <2>. QED BY <2>1, ReturnInv
<1>8. CASE IoctlHwAddr
  BY <1>8, IoctlHwAddrInv
<1>9. CASE KernelChanges
  BY <1>9, KernelChangesInv
<1>10. CASE UNCHANGED vars
  <2>1. /\ UNCHANGED <<kroutes, kneighs, klinks, routes, neighbors>>
        /\ UNCHANGED <<pc, dumped, ifr_name, ret, asked, refused, last>>
    BY <1>10 DEF vars, kernel, router, history
  <2>2. Typed' /\ Dumping'
    BY <2>1 DEF Inv, Typed, Dumping
  <2>3. Cached'
    BY <2>1, CachesKept DEF Inv
  <2>4. HopCurrent'
    BY <2>1 DEF Inv, HopCurrent, NextHop
  <2>. QED BY <2>2, <2>3, <2>4 DEF Inv
<1>. QED BY <1>1, <1>2, <1>3, <1>4, <1>5, <1>6, <1>7, <1>8, <1>9, <1>10 DEF Next

LEMMA Invariance == Spec => []Inv
BY InitInv, StepInv, PTL DEF Spec

-----------------------------------------------------------------------------
(* What the invariant says. *)

\* The caches, told by the tables of the last refresh that succeeded.
LEMMA CachesOf ==
  ASSUME Inv, last # NoAttr
  PROVE  /\ last.routes \in RouteTables
         /\ last.neighs \in NeighTables
         /\ \A n \in DOMAIN routes :
              \E i \in Ours(last.routes) :
                /\ MsgNet(last.routes[i]) = n
                /\ last.routes[i].gw = routes[n].gateway
                /\ last.routes[i].gw # NoAttr
         /\ DOMAIN neighbors \subseteq Addrs
         /\ \A ip \in DOMAIN neighbors :
              /\ neighbors[ip].mac \in Macs \cup {ZeroMac}
              /\ \E i \in Reachable(last.neighs) :
                   /\ OrElse(last.neighs[i].dst, 0) = ip
                   /\ OrElse(last.neighs[i].lladdr, ZeroMac) = neighbors[ip].mac
         /\ ~last.refused =>
              /\ \A i \in Ours(last.routes) :
                   last.routes[i].gw # NoAttr /\ i <= DatagramLen
                     => MsgNet(last.routes[i]) \in DOMAIN routes
              /\ \A i \in Reachable(last.neighs) :
                   i <= DatagramLen => OrElse(last.neighs[i].dst, 0) \in DOMAIN neighbors
<1>1. last \in Snapshots
  BY DEF Inv, Typed
<1>2. last.routes \in RouteTables /\ last.neighs \in NeighTables
  BY <1>1 DEF Snapshots
<1>3. PICK rr \in Replies(last.routes), nr \in Replies(last.neighs) :
        /\ routes = PrefixMap(get_ipv4_routes(IfIndex, rr))
        /\ neighbors = NeighborMap(get_neighbors(IfIndex, nr))
        /\ ~last.refused => rr = Received(last.routes) /\ nr = Received(last.neighs)
  BY DEF Inv, Cached
<1>4. /\ \A n \in DOMAIN routes :
           \E i \in Ours(last.routes) :
             /\ MsgNet(last.routes[i]) = n
             /\ last.routes[i].gw = routes[n].gateway
             /\ last.routes[i].gw # NoAttr
      /\ rr = Received(last.routes) =>
           \A i \in Ours(last.routes) :
             last.routes[i].gw # NoAttr /\ i <= DatagramLen
               => MsgNet(last.routes[i]) \in DOMAIN routes
  BY <1>2, <1>3, RoutesCached
<1>5. /\ DOMAIN neighbors \subseteq Addrs
      /\ \A ip \in DOMAIN neighbors :
           /\ neighbors[ip].mac \in Macs \cup {ZeroMac}
           /\ \E i \in Reachable(last.neighs) :
                /\ OrElse(last.neighs[i].dst, 0) = ip
                /\ OrElse(last.neighs[i].lladdr, ZeroMac) = neighbors[ip].mac
      /\ nr = Received(last.neighs) =>
           \A i \in Reachable(last.neighs) :
             i <= DatagramLen => OrElse(last.neighs[i].dst, 0) \in DOMAIN neighbors
  BY <1>2, <1>3, NeighborsCached
<1>. QED BY <1>2, <1>3, <1>4, <1>5

\* Before the first refresh the caches have no entries.
LEMMA CachesEmpty ==
  ASSUME Inv, last = NoAttr
  PROVE  routes = << >> /\ neighbors = << >> /\ DOMAIN routes = {} /\ DOMAIN neighbors = {}
<1>1. routes = << >> /\ neighbors = << >>
  BY DEF Inv, Cached
<1>. QED BY <1>1

LEMMA TypeFromInv == Inv => TypeOK
<1>. SUFFICES ASSUME Inv PROVE TypeOK
  OBVIOUS
<1>1. DOMAIN routes \subseteq [addr : Addrs, len : 0 .. AddrBits]
  <2>1. CASE last = NoAttr
    BY <2>1, CachesEmpty
  <2>2. ASSUME last # NoAttr, NEW n \in DOMAIN routes
        PROVE  n \in [addr : Addrs, len : 0 .. AddrBits]
    <3>1. PICK i \in Ours(last.routes) : MsgNet(last.routes[i]) = n
      BY <2>2, CachesOf
    <3>2. i \in DOMAIN last.routes /\ last.routes \in RouteTables
      BY <2>2, <3>1, CachesOf DEF Ours
    <3>. QED BY <3>1, <3>2, NetsTyped
  <2>. QED BY <2>1, <2>2
<1>2. DOMAIN neighbors \subseteq Addrs
  BY CachesEmpty, CachesOf
<1>3. \A ip \in DOMAIN neighbors : neighbors[ip].mac \in Macs \cup {ZeroMac}
  BY CachesEmpty, CachesOf
<1>. QED BY <1>1, <1>2, <1>3 DEF TypeOK, Inv, Typed

LEMMA SoundFromInv == Inv => CachesAreSound
<1>. SUFFICES ASSUME Inv PROVE CachesAreSound
  OBVIOUS
<1>1. CASE last = NoAttr
  BY <1>1, CachesEmpty DEF CachesAreSound
<1>2. CASE last # NoAttr
  BY <1>2, CachesOf DEF CachesAreSound, Reachable
<1>. QED BY <1>1, <1>2

\* Dumps that are answered and fit one datagram each are cached as a whole.
LEMMA CompleteFromInv ==
  ASSUME ~KernelRefuses,
         \A t \in RouteTables : Len(t) <= DatagramLen,
         \A t \in NeighTables : Len(t) <= DatagramLen
  PROVE  Inv => CachesAreComplete
<1>. SUFFICES ASSUME Inv, last # NoAttr, NEW i \in Missing
              PROVE  FALSE
  BY DEF CachesAreComplete
<1>1. last.routes \in RouteTables /\ last.neighs \in NeighTables
  BY CachesOf
<1>2. PICK rr \in Replies(last.routes), nr \in Replies(last.neighs) :
        /\ routes = PrefixMap(get_ipv4_routes(IfIndex, rr))
        /\ neighbors = NeighborMap(get_neighbors(IfIndex, nr))
  BY DEF Inv, Cached
<1>3. rr = Received(last.routes) /\ nr = Received(last.neighs)
  BY <1>2 DEF Replies
<1>4. last.routes \in Seq(RouteMsgs) /\ last.neighs \in Seq(NeighMsgs)
  BY <1>1, RouterAssumption
<1>5. /\ DOMAIN last.routes = 1 .. Len(last.routes) /\ Len(last.routes) \in Nat
      /\ DOMAIN last.neighs = 1 .. Len(last.neighs) /\ Len(last.neighs) \in Nat
  BY <1>4, LenProperties
<1>6. DatagramLen \in Nat
  BY NetlinkAssumption
<1>7. CASE /\ i \in Ours(last.routes)
           /\ last.routes[i].gw # NoAttr /\ MsgNet(last.routes[i]) \notin DOMAIN routes
  <2>1. Len(last.routes) <= DatagramLen
    BY <1>1
  <2>2. i <= DatagramLen
    BY <1>5, <1>6, <1>7, <2>1 DEF Ours
  <2>. QED BY <1>1, <1>2, <1>3, <1>7, <2>2, RoutesCached
<1>8. CASE /\ i \in DOMAIN last.neighs
           /\ last.neighs[i].ifindex = IfIndex
           /\ last.neighs[i].lladdr # BadLen
           /\ OrElse(last.neighs[i].dst, 0) \notin DOMAIN neighbors
  <2>1. Len(last.neighs) <= DatagramLen
    BY <1>1
  <2>2. i <= DatagramLen
    BY <1>5, <1>6, <1>8, <2>1
  <2>3. i \in Reachable(last.neighs)
    BY <1>8 DEF Reachable
  <2>. QED BY <1>1, <1>2, <1>3, <1>8, <2>2, <2>3, NeighborsCached
<1>. QED BY <1>7, <1>8 DEF Missing

\* A set of places of a sequence that has one member.
LEMMA OnlyOne ==
  ASSUME NEW S, NEW s \in Seq(S), NEW T \in SUBSET DOMAIN s, Cardinality(T) = 1,
         NEW i \in T, NEW j \in T
  PROVE  i = j
<1>1. Len(s) \in Nat /\ DOMAIN s = 1 .. Len(s)
  BY LenProperties
<1>2. IsFiniteSet(1 .. Len(s))
  BY <1>1, FS_Interval
<1>3. IsFiniteSet(T)
  BY <1>1, <1>2, FS_Subset
<1>4. \E x : T = {x}
  BY <1>3, FS_Singleton
<1>. QED BY <1>4

LEMMA HopFromInv == Inv => HopIsKernels
<1> DEFINE t == last.routes
           dest == ret.val.dest
           best == BestMatches(t, dest)
<1>. SUFFICES ASSUME Inv, ret.of = "route", last # NoAttr, ~last.refused,
                     Len(t) <= DatagramLen, Cardinality(best) = 1,
                     NEW i \in best, t[i].gw \in DOMAIN neighbors
              PROVE  ret.val.hop = [ip |-> t[i].gw, mac |-> neighbors[t[i].gw].mac]
  BY DEF HopIsKernels
<1>1. /\ t \in RouteTables /\ t \in Seq(RouteMsgs)
      /\ Len(t) \in Nat /\ DOMAIN t = 1 .. Len(t)
  <2>1. t \in RouteTables
    BY CachesOf
  <2>2. t \in Seq(RouteMsgs)
    BY <2>1, RouterAssumption
  <2>. QED BY <2>1, <2>2, LenProperties
<1>2. /\ i \in Ours(t) /\ i \in DOMAIN t /\ Covers(MsgNet(t[i]), dest)
      /\ \A j \in Ours(t) : Covers(MsgNet(t[j]), dest) => t[j].prefix <= t[i].prefix
  BY DEF BestMatches, Ours
<1>3. ASSUME NEW j \in Ours(t)
      PROVE  MsgNet(t[j]).len = t[j].prefix /\ t[j].prefix \in Int
  <2>1. j \in DOMAIN t
    BY DEF Ours
  <2>. QED BY <1>1, <2>1, NetsTyped
<1>4. t[i].gw # NoAttr
  <2>1. t[i].gw \in Addrs
    BY CachesOf
  <2>2. \A a \in Addrs : a \in Nat
    BY DEF Addrs
  <2>3. t[i].gw \in Nat
    BY <2>1, <2>2
  <2>4. NoAttr \notin Nat
    BY NetlinkAssumption
  <2>. QED BY <2>3, <2>4
<1>5. i <= DatagramLen
  <2>1. i \in Nat /\ i <= Len(t) /\ DatagramLen \in Nat
    BY <1>1, <1>2, NetlinkAssumption
  <2>. QED BY <1>1, <2>1
<1>6. MsgNet(t[i]) \in DOMAIN routes
  BY <1>2, <1>4, <1>5, CachesOf
<1>7. \A n \in DOMAIN routes :
        \E j \in Ours(t) : MsgNet(t[j]) = n /\ t[j].gw = routes[n].gateway
  BY CachesOf
<1>. HIDE DEF t, dest
<1> DEFINE L == Longest(routes, dest)
<1>8. /\ L \in DOMAIN routes /\ Covers(L, dest)
      /\ \A o \in DOMAIN routes : Covers(o, dest) => o.len <= L.len
  <2>1. \A o \in DOMAIN routes : Covers(o, dest) => o.len <= MsgNet(t[i]).len
    BY <1>2, <1>3, <1>7
  <2>2. \E n \in DOMAIN routes :
          /\ Covers(n, dest)
          /\ \A o \in DOMAIN routes : Covers(o, dest) => o.len <= n.len
    BY <1>2, <1>6, <2>1
  <2>. QED BY <2>2 DEF Longest
<1>. HIDE DEF L
<1>9. PICK k \in Ours(t) : MsgNet(t[k]) = L /\ t[k].gw = routes[L].gateway
  BY <1>7, <1>8
<1>10. k = i
  <2>1. t[i].prefix <= t[k].prefix
    BY <1>2, <1>3, <1>6, <1>8, <1>9
  <2>2. \A j \in Ours(t) : Covers(MsgNet(t[j]), dest) => t[j].prefix <= t[k].prefix
    BY <1>2, <1>3, <1>9, <2>1
  <2>3. k \in best
    BY <1>8, <1>9, <2>2 DEF BestMatches
  <2>4. best \in SUBSET DOMAIN t
    BY DEF BestMatches, Ours
  <2>. HIDE DEF best
  <2>. QED BY <1>1, <2>3, <2>4, OnlyOne
<1>11. OrElse(routes[L].gateway, dest) = t[i].gw
  BY <1>4, <1>9, <1>10 DEF OrElse
<1>12. NextHop(dest) = [ip |-> t[i].gw, mac |-> neighbors[t[i].gw].mac]
  BY <1>8, <1>11 DEF NextHop, L
<1>. QED BY <1>12 DEF Inv, HopCurrent, dest

\* The best of all messages, as GatewayIsBest tells it.
LEMMA BestIsDefault ==
  ASSUME NEW t, NEW gw, NEW N \in Nat, DOMAIN t = 1 .. N,
         \A i \in Defaults(t) : t[i] \in RouteMsgs,
         BestOf(t, N, gw)
  PROVE  BestDefault(t, gw)
<1>1. \A i \in Defaults(t) : Prio(t[i]) \in Nat /\ i \in Nat /\ i <= N
  <2> TAKE i \in Defaults(t)
  <2>1. t[i].prio \in Nat \cup {NoAttr} /\ i \in 1 .. N
    BY DEF RouteMsgs, Defaults
  <2>. QED BY <2>1 DEF OrElse, Prio
<1>2. ASSUME Defaults(t) = {} PROVE gw = NoAttr
  BY <1>2 DEF BestOf
<1>3. ASSUME NEW i \in Defaults(t), \A j \in Defaults(t) : Before(t, i, j)
      PROVE  gw = GatewayOf(t[i])
  <2>1. PICK k \in Defaults(t) : /\ gw = GatewayOf(t[k])
                                 /\ \A j \in Defaults(t) : Before(t, k, j)
    BY <1>1 DEF BestOf
  <2>2. Before(t, i, k) /\ Before(t, k, i)
    BY <1>3, <2>1
  <2>3. i = k
    BY <1>1, <2>2 DEF Before
  <2>. QED BY <2>1, <2>3
<1> DEFINE best == {i \in Defaults(t) : \A j \in Defaults(t) :
                      \/ OrElse(t[i].prio, 0) < OrElse(t[j].prio, 0)
                      \/ OrElse(t[i].prio, 0) = OrElse(t[j].prio, 0) /\ i <= j}
<1>4. \A i \in best : gw = GatewayOf(t[i])
  BY <1>3 DEF Before, Prio
<1>5. \A i \in best : gw = [ip |-> t[i].gw, priority |-> OrElse(t[i].prio, 0),
                            if_index |-> t[i].oif]
  BY <1>4 DEF GatewayOf
<1>. QED BY <1>2, <1>5 DEF BestDefault, Defaults

\* The datagrams that a dump of the routing table may be answered with.
LEMMA RouteReply ==
  ASSUME NEW t \in RouteTables \cup {<< >>}, NEW reply \in Replies(t)
  PROVE  \E n \in Nat :
           /\ DOMAIN reply = 1 .. n
           /\ \A i \in 1 .. n : reply[i] \in RouteMsgs \/ reply[i].kind \in {"Done", "Error"}
<1>1. t \in Seq(RouteMsgs)
  <2>1. << >> \in Seq(RouteMsgs)
    BY EmptySeq
  <2>2. RouteTables \subseteq Seq(RouteMsgs)
    BY RouterAssumption
  <2>. QED BY <2>1, <2>2
<1>2. \A i \in DOMAIN t : t[i] \in RouteMsgs
  BY <1>1, LenProperties, ElementOfSeq
<1>3. PICK n \in Nat : DOMAIN reply = 1 .. n
  BY <1>1, ReplyFrom
<1>4. \A i \in 1 .. n : reply[i] \in RouteMsgs \/ reply[i].kind \in {"Done", "Error"}
  <2>1. \A i \in DOMAIN reply :
          (i \in DOMAIN t /\ reply[i] = t[i]) \/ reply[i].kind \in {"Done", "Error"}
    BY <1>1, ReplyFrom
  <2>. QED BY <1>2, <1>3, <2>1
<1>. QED BY <1>3, <1>4

LEMMA DefaultGatewayBest ==
  ASSUME Inv, DefaultGateway
  PROVE  GatewayIsBest'
<1>1. PICK reply \in Replies(kroutes) :
        ret' = [of |-> "gateway",
                val |-> [table |-> IF reply = ErrorReply THEN << >> ELSE kroutes,
                         gw |-> find_default_gateway(get_ipv4_routes(NoAttr, reply))]]
  BY DEF DefaultGateway, Return
<1> DEFINE gw == find_default_gateway(get_ipv4_routes(NoAttr, reply))
           table == IF reply = ErrorReply THEN << >> ELSE kroutes
           t == Received(table)
<1>2. kroutes \in RouteTables
  BY DEF Inv, Typed
<1>3. PICK n \in Nat :
        /\ DOMAIN reply = 1 .. n
        /\ \A i \in 1 .. n : reply[i] \in RouteMsgs \/ reply[i].kind \in {"Done", "Error"}
  BY <1>2, RouteReply
<1>4. BestOf(reply, n, gw)
  BY <1>3, GatewayOfDump
<1>5. table \in RouteTables \cup {<< >>} /\ t \in Replies(table)
  BY <1>2 DEF Replies
<1>6. PICK m \in Nat :
        /\ DOMAIN t = 1 .. m
        /\ \A i \in 1 .. m : t[i] \in RouteMsgs \/ t[i].kind \in {"Done", "Error"}
  <2>. HIDE DEF t, table
  <2>. QED BY <1>5, RouteReply
<1>7. \A i \in Defaults(t) : t[i] \in RouteMsgs
  <2>. HIDE DEF t
  <2>. QED BY <1>6 DEF Defaults
<1>8. BestOf(t, m, gw)
  <2>1. CASE reply = ErrorReply
    <3>1. DOMAIN reply = {1} /\ reply[1].kind = "Error"
      BY <2>1 DEF ErrorReply
    <3>2. Defaults(reply) = {}
      BY <3>1 DEF Defaults
    <3>3. gw = NoAttr
      <4>. HIDE DEF gw
      <4>. QED BY <1>4, <3>2 DEF BestOf
    <3>4. Defaults(t) = {}
      <4>1. t = <<Done>>
        <5>1. Len(<< >>) <= DatagramLen /\ Append(<< >>, Done) = <<Done>>
          BY NetlinkAssumption
        <5>. QED BY <2>1, <5>1 DEF Received
      <4>. HIDE DEF t
      <4>2. DOMAIN t = {1} /\ t[1].kind = "Done"
        BY <4>1 DEF Done
      <4>. QED BY <4>2 DEF Defaults
    <3>. HIDE DEF gw, t
    <3>. QED BY <3>3, <3>4 DEF BestOf
  <2>2. CASE reply # ErrorReply
    <3>1. t = reply
      BY <1>1, <2>2 DEF Replies
    <3>2. m = n
      <4>. HIDE DEF t
      <4>. QED BY <1>3, <1>6, <3>1
    <3>. HIDE DEF gw, t
    <3>. QED BY <1>4, <3>1, <3>2
  <2>. QED BY <2>1, <2>2
<1>9. ret'.of = "gateway" /\ ret'.val.table = table /\ ret'.val.gw = gw
  BY <1>1
<1>10. BestDefault(t, gw)
  <2>. HIDE DEF gw, t
  <2>. QED BY <1>6, <1>7, <1>8, BestIsDefault
<1>. HIDE DEF gw, table
<1>. QED BY <1>9, <1>10 DEF GatewayIsBest

\* Only the look-up of the default gateway returns one.
LEMMA GatewayStep == Inv /\ GatewayIsBest /\ [Next]_vars => GatewayIsBest'
<1>. SUFFICES ASSUME Inv, GatewayIsBest, [Next]_vars, ~DefaultGateway
              PROVE  GatewayIsBest'
  BY DefaultGatewayBest
<1>1. ret' = ret \/ ret'.of \in {"none", "refresh", "route", "mac"}
  <2>1. CASE RefreshRoutes \/ IoctlName
    <3>1. ret'.of = "none"
      BY <2>1 DEF RefreshRoutes, IoctlName, CallOn
    <3>. QED BY <3>1
  <2>2. CASE RefreshNeighbors \/ RefreshFails
    <3>1. PICK val : Return("refresh", val)
      BY <2>2 DEF RefreshNeighbors, RefreshFails
    <3>2. ret' = [of |-> "refresh", val |-> val]
      BY <3>1 DEF Return
    <3>. QED BY <3>2
  <2>3. CASE \E dest \in Addrs : RouteTo(dest)
    <3>1. PICK val : Return("route", val)
      BY <2>3 DEF RouteTo
    <3>2. ret' = [of |-> "route", val |-> val]
      BY <3>1 DEF Return
    <3>. QED BY <3>2
  <2>4. CASE IoctlFails \/ IoctlHwAddr
    <3>1. PICK val : Return("mac", val)
      BY <2>4 DEF IoctlFails, IoctlHwAddr
    <3>2. ret' = [of |-> "mac", val |-> val]
      BY <3>1 DEF Return
    <3>. QED BY <3>2
  <2>5. CASE KernelChanges \/ UNCHANGED vars
    BY <2>5 DEF KernelChanges, vars
  <2>. QED BY <2>1, <2>2, <2>3, <2>4, <2>5 DEF Next
<1>2. "gateway" \notin {"none", "refresh", "route", "mac"}
  OBVIOUS
<1>3. ret' = ret \/ ret'.of # "gateway"
  BY <1>1, <1>2
<1>. QED BY <1>3 DEF GatewayIsBest

-----------------------------------------------------------------------------
(* Theorems. *)

\* The caches are partial functions of their types and the call is at a point
\* of refresh or mac_by_ifindex, in every reachable state.
THEOREM RouterTypeCorrect == Spec => []TypeOK
BY Invariance, TypeFromInv, PTL

\* Every route and neighbour that refresh put into the caches was one of this
\* interface in the kernel's tables at the last refresh that succeeded, for
\* every width of an address and whatever the kernel's tables are.
THEOREM RouterCachesSound == Spec => []CachesAreSound
BY Invariance, SoundFromInv, PTL

\* On a kernel that answers its dumps and whose tables fit one datagram each,
\* the caches leave out no route and no neighbour of a refresh that succeeded,
\* however the tables change.  A table of two datagrams refutes it.
THEOREM RouterCachesComplete ==
  ASSUME ~KernelRefuses,
         \A t \in RouteTables : Len(t) <= DatagramLen,
         \A t \in NeighTables : Len(t) <= DatagramLen
  PROVE  Spec => []CachesAreComplete
<1>1. Inv => CachesAreComplete
  BY CompleteFromInv
<1>. QED BY <1>1, Invariance, PTL

\* route() answers with the gateway of the kernel's longest match whenever
\* that is one route, its neighbour is cached and the dumps were whole.
THEOREM RouterHopIsKernels == Spec => []HopIsKernels
BY Invariance, HopFromInv, PTL

\* find_default_gateway returns the default route of lowest priority value, of
\* these the first the kernel reported, for a dump of any length.
THEOREM DefaultGatewayIsBest == Spec => []GatewayIsBest
<1>1. ASSUME Init PROVE GatewayIsBest
  <2>1. ret.of = "new"
    BY <1>1 DEF Init
  <2>. QED BY <2>1 DEF GatewayIsBest
<1>. QED BY <1>1, GatewayStep, Invariance, PTL DEF Spec
=============================================================================
