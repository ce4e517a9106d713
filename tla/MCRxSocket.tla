----------------------------- MODULE MCRxSocket -----------------------------
(***************************************************************************)
(* RxSocket for TLC, and the statement of the documentation about it that  *)
(* the code does not keep.                                                 *)
(***************************************************************************)
EXTENDS RxSocket

\* commit.rs: "The `commit_` function returns the UMEM frame to the kernel by
\* placing its descriptor in the Fill Ring".  A frame is then with the kernel
\* or holds a packet, never both.  The socket's producer index starts at 0
\* although create_socket has published RingLen entries, so that the first
\* commit takes the published index back.
OneOwner ==
  /\ \A i, j \in 1 .. Len(posted) : posted[i] = posted[j] => i = j
  /\ \A i \in 1 .. Len(posted), j \in 0 .. Received - 1 :
       posted[i] # rx_desc[ReceivedSlot(j)].frame
=============================================================================
