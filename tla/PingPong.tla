------------------------------ MODULE PingPong ------------------------------
(***************************************************************************)
(* pingpong_test.rs: the test that the harness runs, with its two blocking *)
(* tasks, the ponger (udp_pingpong.rs) on a UDP socket of host 1 and the   *)
(* pinger (xdp_pinger.rs) on an XDP socket of host 0.                      *)
(*                                                                         *)
(* The XDP socket is represented by the descriptors it has left: send      *)
(* takes one and never reclaims one.  The pair loses packets.              *)
(***************************************************************************)
EXTENDS Harness, XdpProg, HdrWrite

CONSTANT TxRingLen   \* the descriptors of the pinger's socket

ASSUME PingPongAssumption == TxRingLen \in Nat

VARIABLES
  ponger,      \* "off", "bind", "recv", "done" or "panicked"
  inbox,       \* has a message arrived at the ponger's socket?
  pinger,      \* "off", "start", "header", "send", "done" or "panicked"
  available    \* the descriptors the pinger can still send with

PongerRuns == ponger \in {"bind", "recv"}
PingerRuns == pinger \in {"start", "header", "send"}

taskVars == <<ponger, inbox, pinger, available>>
vars == <<harnessVars, progVars, hdrVars, taskVars>>

Init ==
  /\ HarnessInit
  /\ ProgInit
  /\ HdrInit
  /\ ponger = "off"
  /\ inbox = FALSE
  /\ pinger = "off"
  /\ available = 0

-----------------------------------------------------------------------------
(* The main thread: the test's closure. *)

\* A launch, with none of the tasks of an earlier one left.
Start ==
  /\ Launch
  /\ ponger' = "off"
  /\ inbox' = FALSE
  /\ pinger' = "off"
  /\ available' = 0
  /\ hdr' = [i \in 1 .. HdrLen |-> 0]
  /\ pos' = 0
  /\ taken' = 0
  /\ UNCHANGED progVars

HarnessStep == HarnessSteps /\ UNCHANGED <<progVars, hdrVars, taskVars>>

\* Both hosts are found, and the closure starts with attach_pass_program.
TestStarts ==
  /\ pc = "hosts"
  /\ HostsFound
  /\ AttachProgram
  /\ Goto("attach")
  /\ UNCHANGED <<persistent, process, hdrVars, taskVars>>

AttachStep == AttachSteps /\ UNCHANGED <<harnessVars, hdrVars, taskVars>>

\* The closure returns the error; teardown_pair is not reached.
TestFails ==
  /\ pc = "attach"
  /\ prog = "failed"
  /\ prog' = "off"
  /\ Exit("Err")
  /\ UNCHANGED <<persistent, process, bpf_obj, bpf_link, hdrVars, taskVars>>

\* Mutant: let _ = attach_pass_program(...), which drops at once.
SpawnPongerDropping ==
  /\ pc = "attach"
  /\ prog = "attached"
  /\ DropProg
  /\ ponger' = "bind"
  /\ Goto("sleep")
  /\ UNCHANGED <<persistent, process, prog, hdrVars, inbox, pinger, available>>

SpawnPonger ==
  /\ pc = "attach"
  /\ prog = "attached"
  /\ ponger' = "bind"
  /\ Goto("sleep")
  /\ UNCHANGED <<persistent, process, progVars, hdrVars, inbox, pinger, available>>

\* The sleep ends, whether the ponger has got to its socket or not.
SpawnPinger ==
  /\ pc = "sleep"
  /\ pinger' = "start"
  /\ Goto("await")
  /\ UNCHANGED <<persistent, process, progVars, hdrVars, ponger, inbox, available>>

\* Mutant: the ponger is not awaited.
TestEndsEarly ==
  /\ pc = "await"
  /\ pinger = "done"
  /\ DropProg
  /\ prog' = "off"
  /\ Goto("teardown")
  /\ UNCHANGED <<persistent, process, hdrVars, taskVars>>

\* Both tasks are awaited, their results are not looked at; the end of the
\* closure drops the OwnedXdpProg.
TestEnds ==
  /\ pc = "await"
  /\ pinger = "done"
  /\ ponger = "done"
  /\ DropProg
  /\ prog' = "off"
  /\ Goto("teardown")
  /\ UNCHANGED <<persistent, process, hdrVars, taskVars>>

\* The join of a task that has panicked is an error.  The closure returns it
\* and drops the OwnedXdpProg, also while the ponger is waiting, and there is
\* no tear-down.
JoinFails ==
  /\ pc = "await"
  /\ pinger = "panicked" \/ (pinger = "done" /\ ponger = "panicked")
  /\ DropProg
  /\ prog' = "off"
  /\ Goto("shutdown")
  /\ UNCHANGED <<persistent, process, hdrVars, taskVars>>

\* The end of main drops the runtime, which waits for its blocking tasks.
Shutdown ==
  /\ pc = "shutdown"
  /\ ~PongerRuns /\ ~PingerRuns
  /\ Exit("Err")
  /\ UNCHANGED <<persistent, process, progVars, hdrVars, taskVars>>

-----------------------------------------------------------------------------
(* run_ponger *)

PongerBinds ==
  /\ ponger = "bind"
  /\ ponger' \in {"recv", "done"}
  /\ UNCHANGED <<harnessVars, progVars, hdrVars, inbox, pinger, available>>

\* The first message ends the loop, answered if it is PING.
PongerReceives ==
  /\ ponger = "recv"
  /\ inbox
  /\ ponger' = "done"
  /\ UNCHANGED <<harnessVars, progVars, hdrVars, inbox, pinger, available>>

\* So does an error of recv_from; there is no timeout.  A panic ends the task
\* anywhere.
PongerFails ==
  /\ \/ ponger = "recv" /\ ponger' = "done"
     \/ PongerRuns /\ ponger' = "panicked"
  /\ UNCHANGED <<harnessVars, progVars, hdrVars, inbox, pinger, available>>

-----------------------------------------------------------------------------
(* run_pinger *)

\* The lookups, create_tx_socket, the router: up to the header
PingerStarts ==
  /\ pinger = "start"
  /\ pinger' = "header"
  /\ available' = TxRingLen
  /\ UNCHANGED <<harnessVars, progVars, hdrVars, ponger, inbox>>

\* write_udp_header_for
PingerWrites ==
  /\ pinger = "header"
  /\ BuilderWrites
  /\ pinger' = IF taken' = HdrLen + DataLen THEN "send" ELSE "header"
  /\ UNCHANGED <<harnessVars, progVars, ponger, inbox, available>>

\* Mutant: a send that reclaims the descriptors of the packets before it.
PingerSendsForEver ==
  /\ pinger = "send"
  /\ available > 0
  /\ inbox' \in IF ponger = "recv" THEN {inbox, TRUE} ELSE {inbox}
  /\ UNCHANGED <<harnessVars, progVars, hdrVars, ponger, pinger, available>>

\* Mutant: a send without the check of peek_ that a descriptor is available.
PingerSendsUnchecked ==
  /\ pinger = "send"
  /\ available' = available - 1
  /\ inbox' \in IF ponger = "recv" THEN {inbox, TRUE} ELSE {inbox}
  /\ UNCHANGED <<harnessVars, progVars, hdrVars, ponger, pinger>>

\* send_blocking: the packet arrives if it is not lost and somebody listens.
PingerSends ==
  /\ pinger = "send"
  /\ available > 0
  /\ available' = available - 1
  /\ inbox' \in IF ponger = "recv" THEN {inbox, TRUE} ELSE {inbox}
  /\ UNCHANGED <<harnessVars, progVars, hdrVars, ponger, pinger>>

\* send finds no descriptor: the way out of the pinger's loop
PingerRunsOut ==
  /\ pinger = "send"
  /\ available = 0
  /\ pinger' = "done"
  /\ UNCHANGED <<harnessVars, progVars, hdrVars, ponger, inbox, available>>

\* Anything the pinger calls can fail, or panic.
PingerFails ==
  /\ PingerRuns
  /\ pinger' \in {"done", "panicked"}
  /\ UNCHANGED <<harnessVars, progVars, hdrVars, ponger, inbox, available>>

-----------------------------------------------------------------------------
Main ==
  \/ HarnessStep
  \/ TestStarts
  \/ AttachStep
  \/ TestFails
  \/ SpawnPonger
  \/ SpawnPinger
  \/ TestEnds
  \/ JoinFails
  \/ Shutdown

Ponger == PongerBinds \/ PongerReceives

Pinger == PingerStarts \/ PingerWrites \/ PingerSends \/ PingerRunsOut

Next == Start \/ Main \/ Ponger \/ PongerFails \/ Pinger \/ PingerFails

\* The three threads run: each of their calls returns but for recv_from, which
\* waits for a message.  Nothing has to fail, and nobody has to launch.
Fairness == WF_vars(Main) /\ WF_vars(Ponger) /\ WF_vars(Pinger)

Spec == Init /\ [][Next]_vars /\ Fairness

-----------------------------------------------------------------------------
\* Every variable has its type.
TypeOK ==
  /\ ProgTypeOK
  /\ HdrTypeOK
  /\ HarnessTypeOK
  /\ pc \in {"off", "setup", "execvp", "check_pair", "setup_pair", "hosts", "attach",
             "sleep", "await", "teardown", "shutdown"}
  /\ ponger \in {"off", "bind", "recv", "done", "panicked"}
  /\ inbox \in BOOLEAN
  /\ pinger \in {"off", "start", "header", "send", "done", "panicked"}
  /\ available \in 0 .. TxRingLen

\* The pass program is attached for as long as there is a pinger to send:
\* _owned_xdp_host1 lives until the join with it, whatever happens to the
\* ponger.  It need not outlive the ponger.
PassProgramCovers == PingerRuns => bpf_link /\ bpf_obj

\* Whatever fails, a launch leaves no program, no object and no task behind,
\* and a launch that succeeds leaves no pair either.
NothingLeft ==
  pc = "off" =>
    /\ ~bpf_link /\ ~bpf_obj
    /\ ~PongerRuns /\ ~PingerRuns
    /\ result = "Ok" => ~PairExists

\* The pair is not removed under a task or an attached program.
RemovedLast ==
  [][PairExists /\ ~PairExists' => ~PongerRuns /\ ~PingerRuns /\ ~bpf_link]_vars

\* However the builder cuts the packet, and although the payload does not fit,
\* the header the pinger sends with is the start of the packet, whole.
HeaderSent == pinger = "send" => HdrDone /\ HdrIsPrefix

\* A program that cannot get its capabilities does not restart itself for ever.
SetupEnds == pc = "setup" ~> pc \notin {"setup", "execvp"}

\* Once a message has reached the ponger, the launch comes to its end, although
\* the pinger's loop has no exit of its own: its socket runs out of frames.
ServedEnds == ponger = "recv" /\ inbox ~> pc = "off"
=============================================================================
