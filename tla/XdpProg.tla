------------------------------ MODULE XdpProg -------------------------------
(***************************************************************************)
(* xdp_prog.rs: xdp_attach_program, with a failure at any of its calls of  *)
(* libbpf, and the drop of the OwnedXdpProg it returns.                    *)
(***************************************************************************)

VARIABLES
  bpf_obj,    \* does OwnedXdpProg hold an open bpf_object?
  bpf_link,   \* does it hold a bpf_link, the program attached?
  prog        \* "off", the next call of libbpf, "attached", "failed"

progVars == <<bpf_obj, bpf_link, prog>>

ProgTypeOK ==
  /\ bpf_obj \in BOOLEAN
  /\ bpf_link \in BOOLEAN
  /\ prog \in {"off", "open_mem", "load", "find", "attach_xdp", "attached",
               "failed"}

ProgInit == bpf_obj = FALSE /\ bpf_link = FALSE /\ prog = "off"

\* xdp_attach_program is called: an OwnedXdpProg with two null pointers.
AttachProgram ==
  /\ prog = "off"
  /\ prog' = "open_mem"
  /\ UNCHANGED <<bpf_obj, bpf_link>>

\* bpf_object__open_mem, bpf_object__load, bpf_object__find_program_by_name
\* and bpf_program__attach_xdp succeed in this order.
OpenMem ==
  /\ prog = "open_mem"
  /\ bpf_obj' = TRUE
  /\ prog' = "load"
  /\ UNCHANGED bpf_link

LoadObject ==
  /\ prog = "load"
  /\ prog' = "find"
  /\ UNCHANGED <<bpf_obj, bpf_link>>

FindProgram ==
  /\ prog = "find"
  /\ prog' = "attach_xdp"
  /\ UNCHANGED <<bpf_obj, bpf_link>>

AttachXdp ==
  /\ prog = "attach_xdp"
  /\ bpf_link' = TRUE
  /\ prog' = "attached"
  /\ UNCHANGED bpf_obj

\* Mutant: the object is closed only together with a link.
DropProgLinked ==
  /\ bpf_link' = FALSE
  /\ bpf_obj' = (bpf_obj /\ ~bpf_link)

\* OwnedXdpProg::drop: destroys the link and closes the object it has.
DropProg ==
  /\ bpf_link' = FALSE
  /\ bpf_obj' = FALSE

\* A call of libbpf fails, and the early return drops the OwnedXdpProg.
AttachFails ==
  /\ prog \in {"open_mem", "load", "find", "attach_xdp"}
  /\ prog' = "failed"
  /\ DropProg

AttachSteps == OpenMem \/ LoadObject \/ FindProgram \/ AttachXdp \/ AttachFails
=============================================================================
