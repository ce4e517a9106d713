----------------------------- MODULE MCPingPong -----------------------------
(***************************************************************************)
(* PingPong for TLC.                                                       *)
(***************************************************************************)
EXTENDS PingPong

\* No other address, another network's, host 1's own on another interface, and
\* so many that host 1 is not in the first datagram of a dump.
MCOtherAddrs ==
  {<< >>,
   <<AddrMsg(2, 2)>>,
   <<AddrMsg(1, 2)>>,
   <<AddrMsg(2, 2), AddrMsg(3, 2)>>}
=============================================================================
