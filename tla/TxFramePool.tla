---------------------------- MODULE TxFramePool -----------------------------
(***************************************************************************)
(* TxSocket implements FramePool: the places of a frame are read off the   *)
(* two rings and their indices.                                            *)
(***************************************************************************)
EXTENDS TxSocket

\* The committed descriptors from the kernel's consumer index on.
QueueOf ==
  [i \in 1 .. Queued |-> tx_desc[WindowSlot(i - 1)].frame]

\* The completions from the application's consumer index on.
DoneOf ==
  [i \in 1 .. Completed |-> c_desc[Slot(consumer + (i - 1))]]

Pool ==
  INSTANCE FramePool WITH
    PoolFrames <- 0 .. RingLen - 1,
    free <- AvailableFrames,
    queue <- QueueOf,
    sending <- ToSet(inflight),
    done <- DoneOf

\* Every step of the socket and the kernel on the rings is one move of frames
\* of the abstract pool or none: commit_ queues free frames, the kernel sends
\* them in the order of the commits, seek_ frees one completed frame per turn,
\* and no slot written by peek_ or by seek_ moves a frame that is elsewhere.
ImplementsFramePool == Pool!PoolSpec
=============================================================================
