-------------------------------- MODULE Ring --------------------------------
(***************************************************************************)
(* The memory-mapped rings of an AF_XDP socket (xdp-socket/src/ring.rs):   *)
(* free-running u32 producer and consumer indices, a descriptor array of   *)
(* RingLen entries addressed by "index & mod_mask", and the UMEM the       *)
(* descriptors point into.  A descriptor's address is abstracted to the    *)
(* number of the UMEM frame it points to: addr = frame * FRAME_SIZE.       *)
(*                                                                         *)
(* Only constants and operators: the rings themselves are variables of the *)
(* modules that use them.                                                  *)
(***************************************************************************)
EXTENDS Integers

CONSTANTS
  RingLen,     \* Ring::len, the number of descriptors (4096 or 2048 in the code)
  IndexMod,    \* how many values an index has: 2^32 in the code, small here
  FrameCount,  \* FRAME_COUNT, the number of frames in the UMEM
  FrameSize    \* FRAME_SIZE, the number of bytes in a frame

(***************************************************************************)
(* The code asserts that len is a power of two, so that it divides 2^32    *)
(* and mod_mask = len - 1 computes the remainder; ring sizes are at most   *)
(* FRAME_COUNT, far below 2^32.                                            *)
(***************************************************************************)
ASSUME RingAssumption ==
  /\ RingLen \in Nat \ {0}
  /\ IndexMod \in Nat
  /\ IndexMod > RingLen
  /\ IndexMod % RingLen = 0
  /\ FrameCount \in Nat
  /\ FrameCount >= RingLen
  /\ FrameSize \in Nat \ {0}

\* The values a u32 index can take.
Index == 0 .. IndexMod - 1

\* The positions of a descriptor array.
Slots == 0 .. RingLen - 1

\* A usize cast to u32.
U32(n) == n % IndexMod

\* u32::wrapping_add and u32::wrapping_sub.
WrappingAdd(i, n) == (i + n) % IndexMod
WrappingSub(i, j) == (i - j) % IndexMod

\* index & mod_mask
Slot(i) == i % RingLen

\* The frames of the UMEM, and a packet descriptor (XdpDesc without options).
Frames == 0 .. FrameCount - 1
XdpDesc == [frame : Frames, len : Nat]

\* Ring<XdpDesc>::fill and Ring<u64>::fill.
FillDesc(start_frame) ==
  [i \in Slots |-> [frame |-> i + start_frame, len |-> 0]]
FillAddr(start_frame) ==
  [i \in Slots |-> i + start_frame]

(***************************************************************************)
(* The assertions of mut_bytes_at, checked unless the crate is built with  *)
(* the feature no_safety_checks: when they fail the call panics.           *)
(***************************************************************************)
MutBytesAsserts(slot, desc, len) ==
  /\ slot < FrameCount
  /\ len < FrameSize
  /\ FrameSize * FrameCount > desc.frame * FrameSize + len
=============================================================================
