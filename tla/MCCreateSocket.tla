--------------------------- MODULE MCCreateSocket ---------------------------
(***************************************************************************)
(* CreateSocket for TLC, and the statements of the documentation about it  *)
(* that the code does not keep.                                            *)
(***************************************************************************)
EXTENDS CreateSocket

\* create.rs: create_socket "configures the necessary rings (TX, RX, Fill,
\* Completion) with appropriate sizes".  The Fill ring is sized with
\* tx_ring_size and mapped with rx_ring_size.
SizesFit == blame # "ring size"
=============================================================================
