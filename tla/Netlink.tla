------------------------------ MODULE Netlink -------------------------------
(***************************************************************************)
(* netlink.rs: what one dump request brings back, and how its messages are *)
(* turned into routes, neighbours and addresses.                           *)
(*                                                                         *)
(* A message is a record of its header fields and attributes.  The order   *)
(* of the attributes does not matter to the code, their absence does.      *)
(* A table of the kernel is the sequence of messages a dump of it sends.   *)
(* IPv4 addresses are AddrBits wide, 0 is 0.0.0.0.                         *)
(***************************************************************************)
EXTENDS Integers, SequencesExt

CONSTANTS
  AddrBits,      \* the width of an address
  DatagramLen,   \* how many messages the kernel puts into one datagram
  Macs,          \* link layer addresses of six bytes
  NoAttr         \* an attribute that is absent, and Option::None

Addrs == 0 .. 2 ^ AddrBits - 1

\* What find_default_gateway returns if it finds one.
Gateways == [ip : Addrs, priority : Nat, if_index : Nat]

\* NoAttr is told apart from the value of an attribute and from a gateway.
ASSUME NetlinkAssumption ==
  /\ AddrBits \in Nat
  /\ 0 \in Addrs
  /\ DatagramLen \in Nat \ {0}
  /\ NoAttr \notin Nat
  /\ NoAttr \notin Gateways

BadLen == "not six bytes"   \* a link layer address of another length
ZeroMac == "00:00:00:00:00:00"

\* The kernel's messages: a route or a neighbour, or one without content.
RouteMsg(prefix, dst, gw, oif, prio) ==
  [kind |-> "NewRoute", prefix |-> prefix, dst |-> dst, gw |-> gw,
   oif |-> oif, prio |-> prio]

NeighMsg(ifindex, dst, lladdr) ==
  [kind |-> "NewNeighbour", ifindex |-> ifindex, dst |-> dst,
   lladdr |-> lladdr]

RouteMsgs ==
  [kind : {"NewRoute"}, prefix : 0 .. AddrBits, dst : Addrs \cup {NoAttr},
   gw : Addrs \cup {NoAttr}, oif : Nat \cup {NoAttr}, prio : Nat \cup {NoAttr}]

NeighMsgs ==
  [kind : {"NewNeighbour"}, ifindex : Nat, dst : Addrs \cup {NoAttr},
   lladdr : Macs \cup {BadLen, NoAttr}]

Done == [kind |-> "Done"]
ErrorReply == <<[kind |-> "Error"]>>

\* What netlink() gets to see of a table: it receives once, so the first
\* datagram of the dump, which also ends the dump if the table fits into it.
Received(table) ==
  IF Len(table) <= DatagramLen
    THEN Append(table, Done)
    ELSE SubSeq(table, 1, DatagramLen)

\* netlink(): collects what its closure gives for each message of the datagram,
\* a sequence of one result, or of none to skip the message.
netlink(results) == FlattenSeq(results)

\* unwrap_or on an attribute
OrElse(attr, default) == IF attr = NoAttr THEN default ELSE attr

\* Is the optional filter if_index met?
OnInterface(if_index, i) == if_index \in {NoAttr, i}

\* The closure of get_ipv4_routes: a route without an output interface, or
\* with another one than asked for, is skipped.
RouteOf(m, if_index) ==
  IF m.kind = "NewRoute" /\ m.oif # NoAttr /\ OnInterface(if_index, m.oif)
    THEN <<[dest_prefix |-> m.prefix, destination |-> OrElse(m.dst, 0),
            gateway |-> m.gw, out_if_index |-> m.oif,
            priority |-> OrElse(m.prio, 0)]>>
    ELSE << >>

get_ipv4_routes(if_index, datagram) ==
  netlink([i \in DOMAIN datagram |-> RouteOf(datagram[i], if_index)])

\* Mutant: the length of the link layer address is not looked at.
NeighborOfAnyLen(m, if_index) ==
  IF m.kind = "NewNeighbour" /\ OnInterface(if_index, m.ifindex)
    THEN <<[ip |-> OrElse(m.dst, 0), mac |-> OrElse(m.lladdr, ZeroMac),
            if_index |-> m.ifindex]>>
    ELSE << >>

\* The closure of get_neighbors: an entry the kernel has not resolved has no
\* link layer address and keeps the zeros it was initialised with.
NeighborOf(m, if_index) ==
  IF m.kind = "NewNeighbour" /\ OnInterface(if_index, m.ifindex)
       /\ m.lladdr # BadLen
    THEN <<[ip |-> OrElse(m.dst, 0), mac |-> OrElse(m.lladdr, ZeroMac),
            if_index |-> m.ifindex]>>
    ELSE << >>

get_neighbors(if_index, datagram) ==
  netlink([i \in DOMAIN datagram |-> NeighborOf(datagram[i], if_index)])

\* The closure of get_ipv4_address: the first IPv4 address of the message.
AddressOf(m, if_index) ==
  IF m.kind = "NewAddress" /\ OnInterface(if_index, m.index)
       /\ m.addr # NoAttr
    THEN <<[addr |-> m.addr, if_index |-> m.index]>>
    ELSE << >>

get_ipv4_address(if_index, datagram) ==
  netlink([i \in DOMAIN datagram |-> AddressOf(datagram[i], if_index)])

\* The routes find_default_gateway's fold looks at.
IsDefault(r) ==
  r.gateway # NoAttr /\ r.out_if_index # NoAttr /\ r.dest_prefix = 0

\* Mutant: the later of two equal routes wins.
BetterGatewayOrEqual(acc, r) ==
  IF IsDefault(r) /\ (IF acc = NoAttr THEN TRUE ELSE r.priority <= acc.priority)
    THEN [ip |-> r.gateway, priority |-> r.priority,
          if_index |-> r.out_if_index]
    ELSE acc

\* One step of the fold: the first route, then any with a lower priority.
BetterGateway(acc, r) ==
  IF IsDefault(r) /\ (IF acc = NoAttr THEN TRUE ELSE r.priority < acc.priority)
    THEN [ip |-> r.gateway, priority |-> r.priority,
          if_index |-> r.out_if_index]
    ELSE acc

find_default_gateway(routes) == FoldLeft(BetterGateway, NoAttr, routes)
=============================================================================
