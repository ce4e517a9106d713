----------------------------- MODULE MCTxSocket -----------------------------
(***************************************************************************)
(* TxSocket for TLC, and what the documentation says of send_blocking,     *)
(* which the code does not keep.                                           *)
(***************************************************************************)
EXTENDS TxFramePool

\* send.rs on send_blocking: "blocks until the kernel has processed the send".
\* poll_wait returns as soon as the TX ring has room.
SendBlockingIsProcessed ==
  [][call = "send_blocking" /\ pc' = "idle" /\ ret'.res = "Ok" => Queued' = 0]_vars
=============================================================================
