----------------------------- MODULE FramePool ------------------------------
(***************************************************************************)
(* What a sending socket promises about the frames of its UMEM, without    *)
(* rings, indices and slots: a frame is free, queued, being sent or done,  *)
(* in this order and round again.  Frames are sent in the order in which   *)
(* they were committed and reclaimed in the order in which they were done. *)
(***************************************************************************)
EXTENDS Naturals, Sequences, FiniteSets

CONSTANT PoolFrames   \* the frames of the pool

VARIABLES
  free,      \* the frames the application may write to
  queue,     \* the committed frames the kernel has not taken, oldest first
  sending,   \* the frames the kernel is sending
  done       \* the sent frames the application has not reclaimed

poolVars == <<free, queue, sending, done>>

PoolInit ==
  /\ free = PoolFrames
  /\ queue = << >>
  /\ sending = {}
  /\ done = << >>

\* Non-empty sequences of different free frames.
Batches ==
  UNION {{b \in [1 .. k -> free] : \A i, j \in 1 .. k : b[i] = b[j] => i = j} :
           k \in 1 .. Cardinality(free)}

\* The application hands a batch of free frames to the kernel.
PoolCommit ==
  \E b \in Batches :
    /\ queue' = queue \o b
    /\ free' = free \ {b[i] : i \in DOMAIN b}
    /\ UNCHANGED <<sending, done>>

\* The kernel starts to send the frame that has waited longest.
PoolTake ==
  /\ queue # << >>
  /\ sending' = sending \cup {Head(queue)}
  /\ queue' = Tail(queue)
  /\ UNCHANGED <<free, done>>

\* The kernel finishes a frame, whichever comes first.
PoolComplete ==
  \E f \in sending :
    /\ sending' = sending \ {f}
    /\ done' = Append(done, f)
    /\ UNCHANGED <<free, queue>>

\* The application gets the frame that was done first.
PoolReclaim ==
  /\ done # << >>
  /\ free' = free \cup {Head(done)}
  /\ done' = Tail(done)
  /\ UNCHANGED <<queue, sending>>

PoolNext == PoolCommit \/ PoolTake \/ PoolComplete \/ PoolReclaim

PoolSpec == PoolInit /\ [][PoolNext]_poolVars
=============================================================================
