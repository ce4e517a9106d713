------------------------------ MODULE HdrWrite ------------------------------
(***************************************************************************)
(* packet.rs: write_udp_header_for lets a packet builder write a packet,   *)
(* headers and payload, into a HdrWrite that keeps its first HdrLen bytes. *)
(* The builder cuts the packet as it likes and writes the pieces with      *)
(* write_all.  Byte i of the packet is the number i.                       *)
(***************************************************************************)
EXTENDS Integers

CONSTANTS
  HdrLen,    \* 42: the lengths of the three headers
  DataLen    \* the length of the payload

ASSUME HdrAssumption == HdrLen \in Nat \ {0} /\ DataLen \in Nat

VARIABLES
  hdr,     \* HdrWrite.0, zeroed at first
  pos,     \* HdrWrite.1
  taken    \* the bytes of the packet the builder has written

hdrVars == <<hdr, pos, taken>>

HdrTypeOK ==
  /\ hdr \in [1 .. HdrLen -> 0 .. HdrLen + DataLen]
  /\ pos \in 0 .. HdrLen + DataLen
  /\ taken \in 0 .. HdrLen + DataLen

HdrInit ==
  /\ hdr = [i \in 1 .. HdrLen |-> 0]
  /\ pos = 0
  /\ taken = 0

\* Mutant: the position is reset by a write that fills the buffer.
WriteWrapped(n) ==
  /\ hdr' = [i \in 1 .. HdrLen |->
               IF i \in pos + 1 .. pos + n THEN taken + (i - pos) ELSE hdr[i]]
  /\ pos' = (pos + n) % HdrLen
  /\ taken' = taken + n

\* HdrWrite::write of the next n bytes: the part that fits is copied, and all
\* of it is reported as written, so that write_all is content.
Write(n) ==
  /\ hdr' = [i \in 1 .. HdrLen |->
               IF i \in pos + 1 .. pos + n THEN taken + (i - pos) ELSE hdr[i]]
  /\ pos' = pos + n
  /\ taken' = taken + n

\* The builder writes its next piece.
BuilderWrites == \E n \in 1 .. HdrLen + DataLen - taken : Write(n)

HdrDone == taken = HdrLen + DataLen

\* Is what has been kept the start of the packet?
HdrIsPrefix == \A i \in 1 .. HdrLen : hdr[i] = i
=============================================================================
