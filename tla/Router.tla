------------------------------- MODULE Router -------------------------------
(***************************************************************************)
(* router.rs on top of netlink.rs, and mac_by_ifindex.rs: an application   *)
(* thread with a Router for the interface IfIndex, against a kernel whose  *)
(* tables change at any time.                                              *)
(*                                                                         *)
(* refresh asks for two dumps and mac_by_ifindex makes two ioctls; the     *)
(* kernel can change between them.  A dump is answered from the tables of  *)
(* one moment as far as its first datagram goes, so it is one step.        *)
(***************************************************************************)
EXTENDS Netlink

CONSTANTS
  IfIndex,         \* Router::if_index
  RouteTables,     \* the routing tables the kernel may have
  NeighTables,     \* its neighbour tables
  LinkTables,      \* its interfaces: index -> [name, mac]
  KernelRefuses    \* may the kernel answer a dump with an error message?

\* What the last successful refresh saw.
Snapshots == [routes : RouteTables, neighs : NeighTables, refused : BOOLEAN]

\* NoAttr is told apart from a snapshot.
ASSUME RouterAssumption ==
  /\ IfIndex \in Nat
  /\ RouteTables \subseteq Seq(RouteMsgs)
  /\ NeighTables \subseteq Seq(NeighMsgs)
  /\ KernelRefuses \in BOOLEAN
  /\ \A t \in LinkTables : DOMAIN t \subseteq Nat
  /\ NoAttr \notin Snapshots

VARIABLES
  \* The kernel's tables.
  kroutes, kneighs, klinks,
  \* Fields of Router.
  routes,      \* PrefixMap: a function on the nets that have a route
  neighbors,   \* HashMap: a function on the addresses that have a neighbour
  \* The application thread inside a call.
  pc,          \* "idle", or the second half of refresh or mac_by_ifindex
  dumped,      \* refresh's local routes
  ifr_name,    \* mac_by_ifindex's if_req
  ret,         \* what the last call returned
  \* History.
  asked,       \* the routing table when refresh was called
  refused,     \* was the first dump of refresh refused?
  last         \* the routes when the last successful refresh was called,
               \* the neighbours when it returned, and was a dump refused?

kernel  == <<kroutes, kneighs, klinks>>
router  == <<routes, neighbors>>
history == <<asked, refused, last>>
vars    == <<kernel, router, pc, dumped, ifr_name, ret, history>>

-----------------------------------------------------------------------------
(* Nets and the prefix map. *)

NetOf(r) == [addr |-> r.destination, len |-> r.dest_prefix]

Covers(net, a) ==
  LET w == 2 ^ (AddrBits - net.len) IN a \div w = net.addr \div w

\* refresh's prefix_map: routes with a gateway, the last one inserted for a
\* net replaces the ones before.
PrefixMap(rs) ==
  LET inserted(n) == {i \in DOMAIN rs : rs[i].gateway # NoAttr /\ NetOf(rs[i]) = n}
  IN  [n \in {NetOf(rs[i]) : i \in {j \in DOMAIN rs : rs[j].gateway # NoAttr}}
         |-> rs[Max(inserted(n))]]

\* neighbors.into_iter().map(|n| (n.ip, n)).collect()
NeighborMap(ns) ==
  [ip \in {ns[i].ip : i \in DOMAIN ns} |->
     ns[Max({i \in DOMAIN ns : ns[i].ip = ip})]]

\* get_lpm on a map that has a net for a
Longest(map, a) ==
  CHOOSE n \in DOMAIN map :
    /\ Covers(n, a)
    /\ \A o \in DOMAIN map : Covers(o, a) => o.len <= n.len

-----------------------------------------------------------------------------
\* Router::new on a kernel with any tables.
Init ==
  /\ kroutes \in RouteTables
  /\ kneighs \in NeighTables
  /\ klinks \in LinkTables
  /\ routes = << >>
  /\ neighbors = << >>
  /\ pc = "idle"
  /\ dumped = << >>
  /\ ifr_name = ""
  /\ ret = [of |-> "new", val |-> NoAttr]
  /\ asked = NoAttr
  /\ refused = FALSE
  /\ last = NoAttr

\* The datagrams a dump of a table may be answered with.
Replies(table) ==
  {Received(table)} \cup (IF KernelRefuses THEN {ErrorReply} ELSE {})

\* The call goes on at p.
CallOn(p) ==
  /\ pc' = p
  /\ ret' = [of |-> "none", val |-> NoAttr]

Return(op, val) ==
  /\ pc' = "idle"
  /\ dumped' = << >>
  /\ ifr_name' = ""
  /\ ret' = [of |-> op, val |-> val]
  /\ asked' = NoAttr
  /\ refused' = FALSE

-----------------------------------------------------------------------------
(* refresh *)

\* Mutant: the route cache is replaced before the second dump.
RefreshRoutesEagerly ==
  /\ pc = "idle"
  /\ \E reply \in Replies(kroutes) :
       /\ dumped' = get_ipv4_routes(IfIndex, reply)
       /\ refused' = (reply = ErrorReply)
  /\ routes' = PrefixMap(dumped')
  /\ asked' = kroutes
  /\ CallOn("neighbours")
  /\ UNCHANGED <<kernel, neighbors, ifr_name, last>>

\* refresh up to the end of the first dump
RefreshRoutes ==
  /\ pc = "idle"
  /\ \E reply \in Replies(kroutes) :
       /\ dumped' = get_ipv4_routes(IfIndex, reply)
       /\ refused' = (reply = ErrorReply)
  /\ asked' = kroutes
  /\ CallOn("neighbours")
  /\ UNCHANGED <<kernel, router, ifr_name, last>>

\* The second dump; both caches are then replaced.
RefreshNeighbors ==
  /\ pc = "neighbours"
  /\ \E reply \in Replies(kneighs) :
       /\ neighbors' = NeighborMap(get_neighbors(IfIndex, reply))
       /\ last' = [routes |-> asked, neighs |-> kneighs,
                   refused |-> refused \/ reply = ErrorReply]
  /\ routes' = PrefixMap(dumped)
  /\ Return("refresh", "Ok")
  /\ UNCHANGED kernel

\* A system call of one of the dumps fails, or a route has a prefix that is
\* too long: refresh returns the error without having touched the caches.
RefreshFails ==
  /\ pc \in {"idle", "neighbours"}
  /\ Return("refresh", "Err")
  /\ UNCHANGED <<kernel, router, last>>

-----------------------------------------------------------------------------
(* route *)

\* Mutant: the answer of the neighbour cache without the routes.
NextHopDirect(dest) ==
  IF dest \in DOMAIN neighbors
    THEN [ip |-> dest, mac |-> neighbors[dest].mac]
    ELSE NoAttr

\* The gateway of the longest match if its neighbour is known, else the
\* destination as a neighbour, also when there was a route.
NextHop(dest) ==
  LET matched == \E n \in DOMAIN routes : Covers(n, dest)
      ip == OrElse(routes[Longest(routes, dest)].gateway, dest)
  IN  IF matched /\ ip \in DOMAIN neighbors
        THEN [ip |-> ip, mac |-> neighbors[ip].mac]
      ELSE IF dest \in DOMAIN neighbors
        THEN [ip |-> dest, mac |-> neighbors[dest].mac]
      ELSE NoAttr

RouteTo(dest) ==
  /\ pc = "idle"
  /\ Return("route", [dest |-> dest, hop |-> NextHop(dest)])
  /\ UNCHANGED <<kernel, router, last>>

-----------------------------------------------------------------------------
\* The default gateway of all interfaces: get_ipv4_routes(None), as a list
\* for find_default_gateway.
DefaultGateway ==
  /\ pc = "idle"
  /\ \E reply \in Replies(kroutes) :
       Return("gateway",
              [table |-> IF reply = ErrorReply THEN << >> ELSE kroutes,
               gw |-> find_default_gateway(get_ipv4_routes(NoAttr, reply))])
  /\ UNCHANGED <<kernel, router, last>>

-----------------------------------------------------------------------------
(* mac_by_ifindex *)

\* The socket and SIOCGIFNAME
IoctlName ==
  /\ pc = "idle"
  /\ IfIndex \in DOMAIN klinks
  /\ ifr_name' = klinks[IfIndex].name
  /\ CallOn("hwaddr")
  /\ UNCHANGED <<kernel, router, dumped, history>>

\* The interfaces the kernel finds under a name: at most one
Named(name) == {i \in DOMAIN klinks : klinks[i].name = name}

\* There is no such interface, or no longer, or the system call fails.
IoctlFails ==
  \/ /\ pc = "idle"
     /\ Return("mac", NoAttr)
     /\ UNCHANGED <<kernel, router, last>>
  \/ /\ pc = "hwaddr"
     /\ Named(ifr_name) = {}
     /\ Return("mac", NoAttr)
     /\ UNCHANGED <<kernel, router, last>>

\* SIOCGIFHWADDR, by name
IoctlHwAddr ==
  /\ pc = "hwaddr"
  /\ \E i \in Named(ifr_name) : Return("mac", klinks[i].mac)
  /\ UNCHANGED <<kernel, router, last>>

-----------------------------------------------------------------------------
\* Another process, the ARP protocol or the administrator changes a table.
KernelChanges ==
  /\ \/ kroutes' \in RouteTables /\ UNCHANGED <<kneighs, klinks>>
     \/ kneighs' \in NeighTables /\ UNCHANGED <<kroutes, klinks>>
     \/ klinks' \in LinkTables /\ UNCHANGED <<kroutes, kneighs>>
  /\ UNCHANGED <<router, pc, dumped, ifr_name, ret, history>>

Next ==
  \/ RefreshRoutes
  \/ RefreshNeighbors
  \/ RefreshFails
  \/ \E dest \in Addrs : RouteTo(dest)
  \/ DefaultGateway
  \/ IoctlName
  \/ IoctlFails
  \/ IoctlHwAddr
  \/ KernelChanges

Spec == Init /\ [][Next]_vars

-----------------------------------------------------------------------------
(* What the kernel itself would do with a routing table. *)

\* The messages of a table that are about the interface.
Ours(t) == {i \in DOMAIN t : t[i].oif = IfIndex}

MsgNet(m) == [addr |-> OrElse(m.dst, 0), len |-> m.prefix]

\* The routes of the interface that match dest longest: all of one net.
BestMatches(t, dest) ==
  {i \in Ours(t) :
     /\ Covers(MsgNet(t[i]), dest)
     /\ \A j \in Ours(t) : Covers(MsgNet(t[j]), dest) => t[j].prefix <= t[i].prefix}

-----------------------------------------------------------------------------
(* Safety. *)

\* The caches are partial functions of their types, the call is at a point of
\* refresh or mac_by_ifindex.
TypeOK ==
  /\ kroutes \in RouteTables /\ kneighs \in NeighTables /\ klinks \in LinkTables
  /\ DOMAIN routes \subseteq [addr : Addrs, len : 0 .. AddrBits]
  /\ DOMAIN neighbors \subseteq Addrs
  /\ \A ip \in DOMAIN neighbors : neighbors[ip].mac \in Macs \cup {ZeroMac}
  /\ pc \in {"idle", "neighbours", "hwaddr"}
  /\ refused \in BOOLEAN

\* Nothing in a cache but what the kernel had for this interface: every route
\* and every neighbour of the caches was in the tables at the last refresh
\* that succeeded, whatever the caches held before and however many refreshes
\* have failed since.
CachesAreSound ==
  /\ last = NoAttr => routes = << >> /\ neighbors = << >>
  /\ last # NoAttr =>
       /\ \A n \in DOMAIN routes :
            \E i \in Ours(last.routes) :
              LET m == last.routes[i] IN
                /\ MsgNet(m) = n
                /\ m.gw = routes[n].gateway
                /\ m.gw # NoAttr
       /\ \A ip \in DOMAIN neighbors :
            \E i \in DOMAIN last.neighs :
              LET m == last.neighs[i] IN
                /\ m.ifindex = IfIndex
                /\ OrElse(m.dst, 0) = ip
                /\ OrElse(m.lladdr, ZeroMac) = neighbors[ip].mac

\* The gateway routes and the neighbours of the interface that are missing in
\* the caches, by their places in the dumps.
Missing ==
  {i \in Ours(last.routes) :
     last.routes[i].gw # NoAttr /\ MsgNet(last.routes[i]) \notin DOMAIN routes}
  \cup
  {i \in DOMAIN last.neighs :
     /\ last.neighs[i].ifindex = IfIndex
     /\ last.neighs[i].lladdr # BadLen
     /\ OrElse(last.neighs[i].dst, 0) \notin DOMAIN neighbors}

\* A refresh that succeeded has left nothing out: netlink() has read "all parts
\* of the kernel's response", as its documentation says.
CachesAreComplete ==
  last # NoAttr => Missing = {}

\* route() sends a packet where the kernel would: when the longest match for
\* the destination, at the last refresh, was one route with a gateway whose
\* neighbour the cache has, the answer is that gateway with its address.
HopIsKernels ==
  (ret.of = "route" /\ last # NoAttr /\ ~last.refused /\ Len(last.routes) <= DatagramLen)
    => LET best == BestMatches(last.routes, ret.val.dest)
           gateways == {last.routes[i].gw : i \in best} \cap DOMAIN neighbors
       IN  Cardinality(best) = 1 =>
             \A gw \in gateways :
               ret.val.hop = [ip |-> gw, mac |-> neighbors[gw].mac]

\* gw is made of the default route of a datagram that has the lowest priority
\* value, of these the first, or there is none.
BestDefault(t, gw) ==
  LET defaults == {i \in DOMAIN t : /\ t[i].kind = "NewRoute"
                                    /\ t[i].prefix = 0
                                    /\ t[i].gw # NoAttr
                                    /\ t[i].oif # NoAttr}
      prio(i) == OrElse(t[i].prio, 0)
      best == {i \in defaults : \A j \in defaults :
                 prio(i) < prio(j) \/ (prio(i) = prio(j) /\ i <= j)}
  IN  /\ defaults = {} => gw = NoAttr
      /\ \A i \in best : gw = [ip |-> t[i].gw, priority |-> prio(i), if_index |-> t[i].oif]

\* find_default_gateway picks the default route of lowest priority value, and
\* of these the first the kernel reported.
GatewayIsBest ==
  ret.of = "gateway" => BestDefault(Received(ret.val.table), ret.val.gw)
=============================================================================
