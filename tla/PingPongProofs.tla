--------------------------- MODULE PingPongProofs ---------------------------
(***************************************************************************)
(* Proofs about PingPong: the test, its two tasks and the harness, for     *)
(* every number of launches and of descriptors, whatever addresses the     *)
(* machine has, and for every length of header, payload and datagram.      *)
(***************************************************************************)
EXTENDS PingPong, TLAPS

\* setup_pair has seven commands.
LEMMA Commands == Len(SetupCommands) = 7
BY DEF SetupCommands

-----------------------------------------------------------------------------
(* The inductive invariant, by the parts of the system. *)

\* setup_pair counts its commands from zero and stops at the last.
SetupInv ==
  /\ HarnessTypeOK
  /\ pc \in {"setup", "execvp", "check_pair"} => cmds = 0
  /\ pc = "setup_pair" => cmds < Len(SetupCommands)

\* The program counter of main, and how the last launch ended.
MainInv ==
  /\ pc \in {"off", "setup", "execvp", "check_pair", "setup_pair", "hosts", "attach",
             "sleep", "await", "teardown", "shutdown"}
  /\ result = "Ok" => pc = "off" /\ configured = 0

\* What OwnedXdpProg holds at each call of libbpf, and that it lives exactly as
\* long as the closure.
ProgInv ==
  /\ ProgTypeOK
  /\ prog \in {"off", "open_mem", "failed"} => ~bpf_obj /\ ~bpf_link
  /\ prog \in {"load", "find", "attach_xdp"} => bpf_obj /\ ~bpf_link
  /\ prog = "attached" => bpf_obj /\ bpf_link
  /\ pc = "attach" => prog # "off"
  /\ pc \in {"sleep", "await"} => prog = "attached"
  /\ pc \notin {"attach", "sleep", "await"} => prog = "off"

\* The pinger runs only while the closure waits for it, the ponger also while
\* the runtime does.
TaskInv ==
  /\ ponger \in {"off", "bind", "recv", "done", "panicked"}
  /\ inbox \in BOOLEAN
  /\ pinger \in {"off", "start", "header", "send", "done", "panicked"}
  /\ available \in 0 .. TxRingLen
  /\ PongerRuns => pc \in {"sleep", "await", "shutdown"}
  /\ PingerRuns => pc = "await"

\* The buffer holds what the builder has written as far as it fits, and zeros.
HdrInv ==
  /\ taken \in 0 .. HdrLen + DataLen
  /\ pos = taken
  /\ hdr = [i \in 1 .. HdrLen |-> IF i <= pos THEN i ELSE 0]
  /\ pinger = "send" => HdrDone

Inv ==
  /\ SetupInv
  /\ MainInv
  /\ ProgInv
  /\ TaskInv
  /\ HdrInv

LEMMA InitInv == Init => Inv
<1>. SUFFICES ASSUME Init PROVE Inv
  OBVIOUS
<1>1. SetupInv
  <2>1. 0 \in 0 .. Len(SetupCommands) /\ 0 \in 0 .. MaxLaunches
    BY HarnessAssumption, Commands
  <2>2. HarnessTypeOK
    BY <2>1, Zenon DEF Init, HarnessInit, HarnessTypeOK
  <2>. QED BY <2>2 DEF Init, HarnessInit, SetupInv
<1>2. MainInv
  BY DEF Init, HarnessInit, MainInv
<1>3. ProgInv
  BY DEF Init, HarnessInit, ProgInit, ProgInv, ProgTypeOK
<1>4. TaskInv
  <2>1. 0 \in 0 .. TxRingLen
    BY PingPongAssumption
  <2>2. inbox \in BOOLEAN
    BY Zenon DEF Init
  <2>. QED BY <2>1, <2>2 DEF Init, TaskInv, PongerRuns, PingerRuns
<1>5. HdrInv
  <2>1. taken = 0 /\ pos = 0 /\ hdr = [i \in 1 .. HdrLen |-> 0] /\ pinger = "off"
    BY DEF Init, HdrInit
  <2>2. [i \in 1 .. HdrLen |-> 0] = [i \in 1 .. HdrLen |-> IF i <= 0 THEN i ELSE 0]
    BY HdrAssumption
  <2>. QED BY <2>1, <2>2, HdrAssumption DEF HdrInv
<1>. QED BY <1>1, <1>2, <1>3, <1>4, <1>5 DEF Inv

-----------------------------------------------------------------------------
(* Parts that a step leaves alone. *)

LEMMA SetupKept ==
  ASSUME SetupInv, UNCHANGED harnessVars
  PROVE  SetupInv'
BY DEF SetupInv, HarnessTypeOK, harnessVars, persistent, process

\* main goes on past setup_pair, and its commands stay as they are.
LEMMA SetupPassed ==
  ASSUME SetupInv, UNCHANGED <<persistent, process>>,
         result' \in {"none", "Ok", "Err", "Panic"},
         pc' \notin {"setup", "execvp", "check_pair", "setup_pair"}
  PROVE  SetupInv'
BY DEF SetupInv, HarnessTypeOK, persistent, process

LEMMA MainKept ==
  ASSUME MainInv, UNCHANGED harnessVars
  PROVE  MainInv'
BY DEF MainInv, harnessVars, persistent

LEMMA ProgKept ==
  ASSUME ProgInv, UNCHANGED <<pc, progVars>>
  PROVE  ProgInv'
BY DEF ProgInv, ProgTypeOK, progVars

LEMMA TaskKept ==
  ASSUME TaskInv, UNCHANGED <<pc, taskVars>>
  PROVE  TaskInv'
BY DEF TaskInv, PongerRuns, PingerRuns, taskVars

LEMMA HdrKept ==
  ASSUME HdrInv, UNCHANGED hdrVars, pinger' = "send" => pinger = "send"
  PROVE  HdrInv'
BY DEF HdrInv, HdrDone, hdrVars

\* No program is attached and no task runs where the closure is not.
LEMMA OutsideClosure ==
  ASSUME Inv, pc \notin {"attach", "sleep", "await", "shutdown"}
  PROVE  prog = "off" /\ ~bpf_obj /\ ~bpf_link /\ ~PongerRuns /\ ~PingerRuns
<1>1. prog = "off"
  BY DEF Inv, ProgInv
<1>2. ~bpf_obj /\ ~bpf_link
  BY <1>1 DEF Inv, ProgInv
<1>3. ~PongerRuns /\ ~PingerRuns
  BY DEF Inv, TaskInv, PongerRuns, PingerRuns
<1>. QED BY <1>1, <1>2, <1>3

-----------------------------------------------------------------------------
(* The harness. *)

\* A step of the harness outside of the closure.
LEMMA OutsideKept ==
  ASSUME Inv, pc \notin {"attach", "sleep", "await", "shutdown"},
         pc' \notin {"attach", "sleep", "await", "shutdown"},
         UNCHANGED <<progVars, hdrVars, taskVars>>
  PROVE  ProgInv' /\ TaskInv' /\ HdrInv'
<1>1. ProgInv'
  BY OutsideClosure DEF Inv, ProgInv, ProgTypeOK, progVars
<1>2. TaskInv'
  BY OutsideClosure DEF Inv, TaskInv, PongerRuns, PingerRuns, taskVars
<1>3. HdrInv'
  BY HdrKept DEF Inv, taskVars
<1>. QED BY <1>1, <1>2, <1>3

LEMMA StartInv == Inv /\ Start => Inv'
<1>. SUFFICES ASSUME Inv, Start PROVE Inv'
  OBVIOUS
<1>1. /\ pc = "off" /\ pc' = "setup" /\ result' = "none"
      /\ launches' = launches + 1 /\ launches < MaxLaunches
      /\ caps' \in BOOLEAN /\ restarted' = FALSE /\ cmds' = 0
      /\ configured' = configured
  BY DEF Start, Launch
<1>2. SetupInv'
  <2>1. launches' \in 0 .. MaxLaunches
    BY <1>1, HarnessAssumption DEF Inv, SetupInv, HarnessTypeOK
  <2>2. configured' \in 0 .. Len(SetupCommands) /\ cmds' \in 0 .. Len(SetupCommands)
    BY <1>1, Commands DEF Inv, SetupInv, HarnessTypeOK
  <2>. QED BY <1>1, <2>1, <2>2 DEF SetupInv, HarnessTypeOK
<1>3. MainInv'
  BY <1>1 DEF MainInv
<1>4. ProgInv'
  BY <1>1, OutsideClosure DEF Start, Inv, ProgInv, ProgTypeOK, progVars
<1>5. TaskInv'
  <2>1. 0 \in 0 .. TxRingLen
    BY PingPongAssumption
  <2>2. inbox' \in BOOLEAN
    BY Zenon DEF Start
  <2>. QED BY <2>1, <2>2 DEF Start, TaskInv, PongerRuns, PingerRuns
<1>6. HdrInv'
  <2>1. taken' = 0 /\ pos' = 0 /\ hdr' = [i \in 1 .. HdrLen |-> 0] /\ pinger' = "off"
    BY DEF Start
  <2>2. [i \in 1 .. HdrLen |-> 0] = [i \in 1 .. HdrLen |-> IF i <= 0 THEN i ELSE 0]
    BY HdrAssumption
  <2>. QED BY <2>1, <2>2, HdrAssumption DEF HdrInv
<1>. QED BY <1>2, <1>3, <1>4, <1>5, <1>6 DEF Inv

LEMMA HarnessStepInv == Inv /\ HarnessStep => Inv'
<1>. SUFFICES ASSUME Inv, HarnessStep PROVE Inv'
  OBVIOUS
<1>1. UNCHANGED <<progVars, hdrVars, taskVars>>
  BY DEF HarnessStep
<1> DEFINE Out == {"off", "setup", "execvp", "check_pair", "setup_pair", "hosts", "teardown"}
<1>2. /\ pc \in Out /\ pc' \in Out
      /\ SetupInv' /\ MainInv'
  <2>1. CASE SetCap
    BY <2>1 DEF SetCap, Goto, Exit, Inv, SetupInv, HarnessTypeOK, MainInv, persistent, process
  <2>2. CASE Restart
    BY <2>2 DEF Restart, Goto, Exit, Inv, SetupInv, HarnessTypeOK, MainInv, persistent, process
  <2>3. CASE SetupDone
    BY <2>3 DEF SetupDone, Goto, Exit, Inv, SetupInv, HarnessTypeOK, MainInv, persistent, process
  <2>4. CASE SetupFails
    BY <2>4 DEF SetupFails, Goto, Exit, Inv, SetupInv, HarnessTypeOK, MainInv, persistent, process
  <2>5. CASE SetupPairFails
    BY <2>5 DEF SetupPairFails, Goto, Exit, Inv, SetupInv, HarnessTypeOK, MainInv, persistent, process
  <2>6. CASE HostsPanic
    BY <2>6 DEF HostsPanic, Goto, Exit, Inv, SetupInv, HarnessTypeOK, MainInv, persistent, process
  <2>7. CASE CheckPair
    <3>1. /\ pc = "check_pair" /\ UNCHANGED <<configured, launches, caps, restarted, cmds>>
          /\ pc' \in {"hosts", "setup_pair", "off"} /\ (pc' # "off" => result' = result)
          /\ (pc' = "off" => result' \in {result, "Err"})
      BY <2>7 DEF CheckPair, Goto, Exit, persistent, process
    <3>2. result # "Ok" /\ cmds = 0 /\ cmds < Len(SetupCommands)
      BY <3>1, Commands DEF Inv, SetupInv, MainInv
    <3>. QED BY <3>1, <3>2 DEF Inv, SetupInv, HarnessTypeOK, MainInv
  <2>8. CASE SetupPairCommand
    <3>1. /\ pc = "setup_pair" /\ cmds' = cmds + 1 /\ configured' = cmds + 1
          /\ pc' = (IF cmds' = Len(SetupCommands) THEN "hosts" ELSE "setup_pair")
          /\ UNCHANGED <<launches, caps, restarted, result>>
      BY <2>8 DEF SetupPairCommand, Goto
    <3>2. result # "Ok"
      BY <3>1 DEF Inv, MainInv
    <3>3. cmds \in 0 .. 7 /\ cmds < 7
      BY <3>1, Commands DEF Inv, SetupInv, HarnessTypeOK
    <3>4. /\ cmds' \in 0 .. Len(SetupCommands) /\ configured' \in 0 .. Len(SetupCommands)
          /\ pc' = "setup_pair" => cmds' < Len(SetupCommands)
      BY <3>1, <3>3, Commands
    <3>5. SetupInv'
      BY <3>1, <3>4 DEF Inv, SetupInv, HarnessTypeOK
    <3>. QED BY <3>1, <3>2, <3>5 DEF MainInv
  <2>9. CASE Teardown
    <3>1. /\ pc = "teardown" /\ pc' = "off" /\ UNCHANGED <<launches, caps, restarted, cmds>>
          /\ \/ configured' = 0 /\ result' = "Ok"
             \/ configured' = configured /\ result' = "Err"
      BY <2>9 DEF Teardown, Exit, process
    <3>2. configured' \in 0 .. Len(SetupCommands)
      BY <3>1, Commands DEF Inv, SetupInv, HarnessTypeOK
    <3>. QED BY <3>1, <3>2 DEF Inv, SetupInv, HarnessTypeOK, MainInv
  <2>. QED BY <2>1, <2>2, <2>3, <2>4, <2>5, <2>6, <2>7, <2>8, <2>9 DEF HarnessStep, HarnessSteps
<1>3. /\ pc \notin {"attach", "sleep", "await", "shutdown"}
      /\ pc' \notin {"attach", "sleep", "await", "shutdown"}
  BY <1>2
<1>4. ProgInv' /\ TaskInv' /\ HdrInv'
  BY <1>1, <1>3, OutsideKept
<1>. QED BY <1>2, <1>4 DEF Inv

-----------------------------------------------------------------------------
(* The closure of the test. *)

LEMMA TestStartsInv == Inv /\ TestStarts => Inv'
<1>. SUFFICES ASSUME Inv, TestStarts PROVE Inv'
  OBVIOUS
<1>1. /\ pc = "hosts" /\ pc' = "attach" /\ prog' = "open_mem"
      /\ UNCHANGED <<result, bpf_obj, bpf_link>>
      /\ UNCHANGED <<persistent, process, hdrVars, taskVars>>
  BY DEF TestStarts, AttachProgram, Goto
<1>2. SetupInv'
  BY <1>1, SetupPassed DEF Inv, SetupInv, HarnessTypeOK
<1>3. MainInv'
  <2>1. result # "Ok"
    BY <1>1 DEF Inv, MainInv
  <2>. QED BY <1>1, <2>1 DEF MainInv
<1>4. ProgInv'
  <2>1. ~bpf_obj /\ ~bpf_link /\ bpf_obj \in BOOLEAN /\ bpf_link \in BOOLEAN
    BY <1>1, OutsideClosure DEF Inv, ProgInv, ProgTypeOK
  <2>. QED BY <1>1, <2>1 DEF ProgInv, ProgTypeOK
<1>5. TaskInv'
  BY <1>1, OutsideClosure DEF Inv, TaskInv, PongerRuns, PingerRuns, taskVars
<1>6. HdrInv'
  BY <1>1, HdrKept DEF Inv, taskVars
<1>. QED BY <1>2, <1>3, <1>4, <1>5, <1>6 DEF Inv

LEMMA AttachStepInv == Inv /\ AttachStep => Inv'
<1>. SUFFICES ASSUME Inv, AttachStep PROVE Inv'
  OBVIOUS
<1>1. UNCHANGED <<harnessVars, hdrVars, taskVars>> /\ pc' = pc
  BY DEF AttachStep, harnessVars
<1>2. SetupInv' /\ MainInv'
  BY <1>1, SetupKept, MainKept DEF Inv
<1>3. TaskInv'
  BY <1>1, TaskKept DEF Inv
<1>4. HdrInv'
  BY <1>1, HdrKept DEF Inv, taskVars
<1>5. prog \in {"open_mem", "load", "find", "attach_xdp"}
  BY DEF AttachStep, AttachSteps, OpenMem, LoadObject, FindProgram, AttachXdp, AttachFails
<1>6. pc = "attach"
  BY <1>5 DEF Inv, ProgInv, MainInv
<1>7. ProgInv'
  <2>1. CASE OpenMem
    BY <1>1, <1>6, <2>1 DEF OpenMem, Inv, ProgInv, ProgTypeOK
  <2>2. CASE LoadObject
    BY <1>1, <1>6, <2>2 DEF LoadObject, Inv, ProgInv, ProgTypeOK
  <2>3. CASE FindProgram
    BY <1>1, <1>6, <2>3 DEF FindProgram, Inv, ProgInv, ProgTypeOK
  <2>4. CASE AttachXdp
    BY <1>1, <1>6, <2>4 DEF AttachXdp, Inv, ProgInv, ProgTypeOK
  <2>5. CASE AttachFails
    BY <1>1, <1>6, <2>5 DEF AttachFails, DropProg, Inv, ProgInv, ProgTypeOK
  <2>. QED BY <2>1, <2>2, <2>3, <2>4, <2>5 DEF AttachStep, AttachSteps
<1>. QED BY <1>2, <1>3, <1>4, <1>7 DEF Inv

LEMMA TestFailsInv == Inv /\ TestFails => Inv'
<1>. SUFFICES ASSUME Inv, TestFails PROVE Inv'
  OBVIOUS
<1>1. /\ pc = "attach" /\ pc' = "off" /\ result' = "Err"
      /\ prog = "failed" /\ prog' = "off"
      /\ UNCHANGED <<persistent, process, bpf_obj, bpf_link, hdrVars, taskVars>>
  BY DEF TestFails, Exit
<1>2. SetupInv'
  BY <1>1, SetupPassed DEF Inv
<1>3. MainInv'
  BY <1>1 DEF MainInv
<1>4. ProgInv'
  BY <1>1 DEF Inv, ProgInv, ProgTypeOK
<1>5. TaskInv'
  BY <1>1 DEF Inv, TaskInv, PongerRuns, PingerRuns, taskVars
<1>6. HdrInv'
  BY <1>1, HdrKept DEF Inv, taskVars
<1>. QED BY <1>2, <1>3, <1>4, <1>5, <1>6 DEF Inv

LEMMA SpawnPongerInv == Inv /\ SpawnPonger => Inv'
<1>. SUFFICES ASSUME Inv, SpawnPonger PROVE Inv'
  OBVIOUS
<1>1. /\ pc = "attach" /\ pc' = "sleep" /\ prog = "attached" /\ ponger' = "bind"
      /\ UNCHANGED <<result, persistent, process, progVars, hdrVars>>
      /\ UNCHANGED <<inbox, pinger, available>>
  BY DEF SpawnPonger, Goto
<1>2. SetupInv'
  BY <1>1, SetupPassed DEF Inv, SetupInv, HarnessTypeOK
<1>3. MainInv'
  BY <1>1 DEF Inv, MainInv, persistent
<1>4. ProgInv'
  BY <1>1 DEF Inv, ProgInv, ProgTypeOK, progVars
<1>5. TaskInv'
  BY <1>1 DEF Inv, TaskInv, PongerRuns, PingerRuns
<1>6. HdrInv'
  BY <1>1, HdrKept DEF Inv
<1>. QED BY <1>2, <1>3, <1>4, <1>5, <1>6 DEF Inv

LEMMA SpawnPingerInv == Inv /\ SpawnPinger => Inv'
<1>. SUFFICES ASSUME Inv, SpawnPinger PROVE Inv'
  OBVIOUS
<1>1. /\ pc = "sleep" /\ pc' = "await" /\ pinger' = "start"
      /\ UNCHANGED <<result, persistent, process, progVars, hdrVars>>
      /\ UNCHANGED <<ponger, inbox, available>>
  BY DEF SpawnPinger, Goto
<1>2. SetupInv'
  BY <1>1, SetupPassed DEF Inv, SetupInv, HarnessTypeOK
<1>3. MainInv'
  BY <1>1 DEF Inv, MainInv, persistent
<1>4. ProgInv'
  BY <1>1 DEF Inv, ProgInv, ProgTypeOK, progVars
<1>5. TaskInv'
  BY <1>1 DEF Inv, TaskInv, PongerRuns, PingerRuns
<1>6. HdrInv'
  BY <1>1, HdrKept DEF Inv
<1>. QED BY <1>2, <1>3, <1>4, <1>5, <1>6 DEF Inv

LEMMA TestEndsInv == Inv /\ TestEnds => Inv'
<1>. SUFFICES ASSUME Inv, TestEnds PROVE Inv'
  OBVIOUS
<1>1. /\ pc = "await" /\ pc' = "teardown" /\ pinger = "done" /\ ponger = "done"
      /\ prog' = "off" /\ bpf_obj' = FALSE /\ bpf_link' = FALSE
      /\ UNCHANGED <<result, persistent, process, hdrVars, taskVars>>
  BY DEF TestEnds, DropProg, Goto
<1>2. SetupInv'
  BY <1>1, SetupPassed DEF Inv, SetupInv, HarnessTypeOK
<1>3. MainInv'
  BY <1>1 DEF Inv, MainInv, persistent
<1>4. ProgInv'
  BY <1>1 DEF ProgInv, ProgTypeOK
<1>5. TaskInv'
  BY <1>1 DEF Inv, TaskInv, PongerRuns, PingerRuns, taskVars
<1>6. HdrInv'
  BY <1>1, HdrKept DEF Inv, taskVars
<1>. QED BY <1>2, <1>3, <1>4, <1>5, <1>6 DEF Inv

LEMMA JoinFailsInv == Inv /\ JoinFails => Inv'
<1>. SUFFICES ASSUME Inv, JoinFails PROVE Inv'
  OBVIOUS
<1>1. /\ pc = "await" /\ pc' = "shutdown" /\ pinger \in {"panicked", "done"}
      /\ prog' = "off" /\ bpf_obj' = FALSE /\ bpf_link' = FALSE
      /\ UNCHANGED <<result, persistent, process, hdrVars, taskVars>>
  BY DEF JoinFails, DropProg, Goto
<1>2. SetupInv'
  BY <1>1, SetupPassed DEF Inv, SetupInv, HarnessTypeOK
<1>3. MainInv'
  BY <1>1 DEF Inv, MainInv, persistent
<1>4. ProgInv'
  BY <1>1 DEF ProgInv, ProgTypeOK
<1>5. TaskInv'
  BY <1>1 DEF Inv, TaskInv, PongerRuns, PingerRuns, taskVars
<1>6. HdrInv'
  BY <1>1, HdrKept DEF Inv, taskVars
<1>. QED BY <1>2, <1>3, <1>4, <1>5, <1>6 DEF Inv

LEMMA ShutdownInv == Inv /\ Shutdown => Inv'
<1>. SUFFICES ASSUME Inv, Shutdown PROVE Inv'
  OBVIOUS
<1>1. /\ pc = "shutdown" /\ pc' = "off" /\ result' = "Err"
      /\ ~PongerRuns /\ ~PingerRuns
      /\ UNCHANGED <<persistent, process, progVars, hdrVars, taskVars>>
  BY DEF Shutdown, Exit
<1>2. SetupInv'
  BY <1>1, SetupPassed DEF Inv
<1>3. MainInv'
  BY <1>1 DEF MainInv
<1>4. ProgInv'
  BY <1>1 DEF Inv, ProgInv, ProgTypeOK, progVars
<1>5. TaskInv'
  BY <1>1 DEF Inv, TaskInv, PongerRuns, PingerRuns, taskVars
<1>6. HdrInv'
  BY <1>1, HdrKept DEF Inv, taskVars
<1>. QED BY <1>2, <1>3, <1>4, <1>5, <1>6 DEF Inv

-----------------------------------------------------------------------------
(* The tasks. *)

\* A step of a task leaves the main thread and the program alone.
LEMMA TaskStepInv ==
  ASSUME Inv, UNCHANGED <<harnessVars, progVars>>, TaskInv', HdrInv'
  PROVE  Inv'
<1>1. pc' = pc
  BY DEF harnessVars
<1>2. SetupInv' /\ MainInv'
  BY SetupKept, MainKept DEF Inv
<1>3. ProgInv'
  BY <1>1, ProgKept DEF Inv
<1>. QED BY <1>2, <1>3 DEF Inv

LEMMA PongerInv == Inv /\ (Ponger \/ PongerFails) => Inv'
<1>. SUFFICES ASSUME Inv, Ponger \/ PongerFails PROVE Inv'
  OBVIOUS
<1>1. /\ PongerRuns /\ ponger' \in {"recv", "done", "panicked"}
      /\ UNCHANGED <<harnessVars, progVars, hdrVars, inbox, pinger, available>>
  BY DEF Ponger, PongerFails, PongerBinds, PongerReceives, PongerRuns
<1>2. pc' = pc
  BY <1>1 DEF harnessVars
<1>3. TaskInv'
  BY <1>1, <1>2 DEF Inv, TaskInv, PongerRuns, PingerRuns
<1>4. HdrInv'
  BY <1>1, HdrKept DEF Inv
<1>. QED BY <1>1, <1>3, <1>4, TaskStepInv

\* A piece of the packet, wherever the builder cuts it.
LEMMA WriteInv ==
  ASSUME HdrInv, NEW n \in 1 .. HdrLen + DataLen - taken, Write(n),
         pinger' = "send" => taken' = HdrLen + DataLen
  PROVE  HdrInv'
<1>1. /\ taken \in 0 .. HdrLen + DataLen /\ pos = taken
      /\ hdr = [i \in 1 .. HdrLen |-> IF i <= pos THEN i ELSE 0]
      /\ HdrLen \in Nat /\ DataLen \in Nat
  BY HdrAssumption DEF HdrInv
<1>2. /\ taken' = taken + n /\ pos' = pos + n
      /\ hdr' = [i \in 1 .. HdrLen |->
                   IF i \in pos + 1 .. pos + n THEN taken + (i - pos) ELSE hdr[i]]
  BY DEF Write
<1>3. taken' \in 0 .. HdrLen + DataLen /\ pos' = taken'
  BY <1>1, <1>2
<1>4. ASSUME NEW i \in 1 .. HdrLen
      PROVE  (IF i \in pos + 1 .. pos + n THEN taken + (i - pos) ELSE hdr[i])
               = IF i <= pos + n THEN i ELSE 0
  <2>1. hdr[i] = IF i <= pos THEN i ELSE 0
    BY <1>1
  <2>. QED BY <1>1, <2>1
<1>5. hdr' = [i \in 1 .. HdrLen |-> IF i <= pos' THEN i ELSE 0]
  BY <1>2, <1>4
<1>. QED BY <1>3, <1>5 DEF HdrInv, HdrDone

LEMMA PingerInv == Inv /\ (Pinger \/ PingerFails) => Inv'
<1>. SUFFICES ASSUME Inv, Pinger \/ PingerFails PROVE Inv'
  OBVIOUS
<1>1. UNCHANGED <<harnessVars, progVars>> /\ pc' = pc
  BY DEF Pinger, PingerFails, PingerStarts, PingerWrites, PingerSends, PingerRunsOut,
         harnessVars
<1>2. CASE PingerStarts
  <2>1. /\ pinger = "start" /\ pinger' = "header" /\ available' = TxRingLen
        /\ UNCHANGED <<hdrVars, ponger, inbox>>
    BY <1>2 DEF PingerStarts
  <2>2. TaskInv'
    BY <1>1, <2>1, PingPongAssumption DEF Inv, TaskInv, PongerRuns, PingerRuns
  <2>3. HdrInv'
    BY <2>1, HdrKept DEF Inv
  <2>. QED BY <1>1, <2>2, <2>3, TaskStepInv
<1>3. CASE PingerWrites
  <2>1. PICK n \in 1 .. HdrLen + DataLen - taken : Write(n)
    BY <1>3 DEF PingerWrites, BuilderWrites
  <2>2. /\ pinger = "header" /\ UNCHANGED <<ponger, inbox, available>>
        /\ pinger' = IF taken' = HdrLen + DataLen THEN "send" ELSE "header"
    BY <1>3 DEF PingerWrites
  <2>3. TaskInv'
    BY <1>1, <2>2 DEF Inv, TaskInv, PongerRuns, PingerRuns
  <2>4. HdrInv'
    BY <2>1, <2>2, WriteInv DEF Inv
  <2>. QED BY <1>1, <2>3, <2>4, TaskStepInv
<1>4. CASE PingerSends
  <2>1. /\ pinger = "send" /\ available > 0 /\ available' = available - 1
        /\ inbox' \in {inbox, TRUE}
        /\ UNCHANGED <<hdrVars, ponger, pinger>>
    BY <1>4 DEF PingerSends
  <2>2. available' \in 0 .. TxRingLen
    BY <2>1, PingPongAssumption DEF Inv, TaskInv, PongerRuns, PingerRuns
  <2>3. inbox' \in BOOLEAN
    BY <2>1, Zenon DEF Inv, TaskInv, PongerRuns, PingerRuns
  <2>4. TaskInv'
    BY <1>1, <2>1, <2>2, <2>3 DEF Inv, TaskInv, PongerRuns, PingerRuns
  <2>5. HdrInv'
    BY <2>1, HdrKept DEF Inv
  <2>. QED BY <1>1, <2>4, <2>5, TaskStepInv
<1>5. CASE PingerRunsOut \/ PingerFails
  <2>1. pinger' \in {"done", "panicked"} /\ UNCHANGED <<hdrVars, ponger, inbox, available>>
    BY <1>5 DEF PingerRunsOut, PingerFails
  <2>2. TaskInv'
    BY <1>1, <2>1 DEF Inv, TaskInv, PongerRuns, PingerRuns
  <2>3. HdrInv'
    BY <2>1, HdrKept DEF Inv
  <2>. QED BY <1>1, <2>2, <2>3, TaskStepInv
<1>. QED BY <1>2, <1>3, <1>4, <1>5 DEF Pinger

-----------------------------------------------------------------------------
LEMMA StepInv == Inv /\ [Next]_vars => Inv'
<1>. SUFFICES ASSUME Inv, [Next]_vars PROVE Inv'
  OBVIOUS
<1>1. CASE Start
  BY <1>1, StartInv
<1>2. CASE Main
  BY <1>2, HarnessStepInv, TestStartsInv, AttachStepInv, TestFailsInv, SpawnPongerInv,
     SpawnPingerInv, TestEndsInv, JoinFailsInv, ShutdownInv DEF Main
<1>3. CASE Ponger \/ PongerFails
  BY <1>3, PongerInv
<1>4. CASE Pinger \/ PingerFails
  BY <1>4, PingerInv
<1>5. CASE UNCHANGED vars
  <2>1. UNCHANGED <<harnessVars, progVars, hdrVars, taskVars>>
    BY <1>5 DEF vars
  <2>2. pc' = pc /\ pinger' = pinger
    BY <2>1 DEF harnessVars, taskVars
  <2>3. TaskInv'
    BY <2>1, <2>2, TaskKept DEF Inv
  <2>4. HdrInv'
    BY <2>1, <2>2, HdrKept DEF Inv
  <2>. QED BY <2>1, <2>3, <2>4, TaskStepInv
<1>. QED BY <1>1, <1>2, <1>3, <1>4, <1>5 DEF Next

LEMMA Invariance == Spec => []Inv
BY InitInv, StepInv, PTL DEF Spec

-----------------------------------------------------------------------------
(* Theorems. *)

\* Every variable of the test, of its tasks and of the harness keeps its type.
THEOREM PingPongTypeCorrect == Spec => []TypeOK
<1>1. ASSUME Inv PROVE TypeOK
  <2>1. HarnessTypeOK /\ ProgTypeOK
    BY <1>1 DEF Inv, SetupInv, ProgInv
  <2>2. HdrTypeOK
    <3>1. /\ taken \in 0 .. HdrLen + DataLen /\ pos = taken
          /\ hdr = [i \in 1 .. HdrLen |-> IF i <= pos THEN i ELSE 0]
      BY <1>1 DEF Inv, HdrInv
    <3>2. \A i \in 1 .. HdrLen : (IF i <= pos THEN i ELSE 0) \in 0 .. HdrLen + DataLen
      BY HdrAssumption
    <3>. QED BY <3>1, <3>2 DEF HdrTypeOK
  <2>. QED BY <1>1, <2>1, <2>2 DEF TypeOK, Inv, MainInv, TaskInv
<1>. QED BY <1>1, Invariance, PTL

\* The OwnedXdpProg outlives the pinger, also if either task panics and the
\* closure returns at the join.
THEOREM ProgramCoversPinger == Spec => []PassProgramCovers
<1>1. ASSUME Inv PROVE PassProgramCovers
  <2>1. PingerRuns => pc = "await"
    BY <1>1 DEF Inv, TaskInv
  <2>2. PingerRuns => prog = "attached"
    BY <1>1, <2>1 DEF Inv, ProgInv
  <2>. QED BY <1>1, <2>2 DEF Inv, ProgInv, PassProgramCovers
<1>. QED BY <1>1, Invariance, PTL

\* A launch that has ended, however it ended, leaves no program, no object and
\* no task, and no pair if it succeeded.
THEOREM LaunchLeavesNothing == Spec => []NothingLeft
<1>1. ASSUME Inv PROVE NothingLeft
  <2>1. pc = "off" => ~bpf_obj /\ ~bpf_link /\ ~PongerRuns /\ ~PingerRuns
    BY <1>1, OutsideClosure
  <2>2. result = "Ok" => ~PairExists
    BY <1>1 DEF Inv, MainInv, PairExists
  <2>. QED BY <2>1, <2>2 DEF NothingLeft
<1>. QED BY <1>1, Invariance, PTL

\* The pinger sends with the whole header, however the packet builder has cut
\* the packet, for every length of the header and of the payload.
THEOREM HeaderIsWhole == Spec => []HeaderSent
<1>1. ASSUME Inv, pinger = "send" PROVE HdrDone /\ HdrIsPrefix
  <2>1. /\ pos = taken /\ taken = HdrLen + DataLen
        /\ hdr = [i \in 1 .. HdrLen |-> IF i <= pos THEN i ELSE 0]
    BY <1>1 DEF Inv, HdrInv, HdrDone
  <2>2. \A i \in 1 .. HdrLen : i <= HdrLen + DataLen
    BY HdrAssumption
  <2>3. \A i \in 1 .. HdrLen : hdr[i] = i
    BY <2>1, <2>2
  <2>. QED BY <2>1, <2>3 DEF HdrDone, HdrIsPrefix
<1>2. Inv => HeaderSent
  BY <1>1 DEF HeaderSent
<1>. QED BY <1>2, Invariance, PTL

\* The pair is not removed under a task or an attached program.
THEOREM PairRemovedLast == Spec => RemovedLast
<1>1. ASSUME Inv, Next, PairExists, ~PairExists' PROVE ~PongerRuns /\ ~PingerRuns /\ ~bpf_link
  <2>1. pc \notin {"attach", "sleep", "await", "shutdown"}
    <3>1. configured # configured'
      BY <1>1 DEF PairExists
    <3>2. CASE Start
      BY <3>1, <3>2 DEF Start, Launch
    <3>3. CASE HarnessStep
      BY <3>1, <3>3 DEF HarnessStep, HarnessSteps, SetCap, Restart, SetupDone, SetupFails,
         CheckPair, SetupPairCommand, SetupPairFails, HostsPanic, Teardown, persistent
    <3>4. CASE Main /\ ~HarnessStep
      BY <3>1, <3>4 DEF Main, TestStarts, AttachStep, TestFails, SpawnPonger, SpawnPinger,
         TestEnds, JoinFails, Shutdown, harnessVars, persistent
    <3>5. CASE Ponger \/ PongerFails
      BY <3>1, <3>5 DEF Ponger, PongerFails, PongerBinds, PongerReceives, harnessVars,
         persistent
    <3>6. CASE Pinger \/ PingerFails
      BY <3>1, <3>6 DEF Pinger, PingerFails, PingerStarts, PingerWrites, PingerSends,
         PingerRunsOut, harnessVars, persistent
    <3>. QED BY <1>1, <3>2, <3>3, <3>4, <3>5, <3>6 DEF Next
  <2>. QED BY <1>1, <2>1, OutsideClosure
<1>2. Inv /\ [Next]_vars => [PairExists /\ ~PairExists' => ~PongerRuns /\ ~PingerRuns /\ ~bpf_link]_vars
  BY <1>1
<1>. QED BY <1>2, Invariance, PTL DEF Spec, RemovedLast
=============================================================================
