------------------------------ MODULE MCRouter ------------------------------
(***************************************************************************)
(* Router for TLC: addresses of two bits, two interfaces, and the tables   *)
(* that make the cases of the code.                                        *)
(***************************************************************************)
EXTENDS Router

\* An empty table, a default route beside a subnet of its own gateway and a
\* connected subnet, two default routes that differ in priority or in the
\* interface, a multipath route, and one that takes two datagrams.
MCRouteTables ==
  {<< >>,
   <<RouteMsg(0, NoAttr, 1, 1, NoAttr), RouteMsg(1, 2, 2, 1, NoAttr)>>,
   <<RouteMsg(0, NoAttr, 1, 1, 5), RouteMsg(0, NoAttr, 2, 2, 1),
     RouteMsg(1, 2, NoAttr, 1, 1)>>,
   <<RouteMsg(0, NoAttr, 3, 1, 1), RouteMsg(0, NoAttr, 2, 1, 1)>>,
   <<RouteMsg(0, NoAttr, 2, 2, NoAttr), RouteMsg(1, 0, 3, NoAttr, NoAttr),
     RouteMsg(2, 0, 2, 1, NoAttr), RouteMsg(0, NoAttr, 1, 1, NoAttr)>>}

\* Resolved neighbours, an unresolved one, one with another kind of address,
\* one of the other interface.
MCNeighTables ==
  {<< >>,
   <<NeighMsg(1, 1, "m1"), NeighMsg(1, 2, NoAttr), NeighMsg(2, 3, "m2")>>,
   <<NeighMsg(1, 1, "m2"), NeighMsg(1, 2, BadLen), NeighMsg(1, 3, "m1")>>}

\* The interfaces, with the names exchanged, and with one removed.
MCLinkTables ==
  {<<[name |-> "eth0", mac |-> "m1"], [name |-> "eth1", mac |-> "m2"]>>,
   <<[name |-> "eth1", mac |-> "m1"], [name |-> "eth0", mac |-> "m2"]>>,
   (2 :> [name |-> "eth1", mac |-> "m2"])}
=============================================================================
