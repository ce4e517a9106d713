------------------------------ MODULE Harness -------------------------------
(***************************************************************************)
(* The test harness of xdp-tests: command.rs, vethpair.rs and runner.rs.   *)
(* A test program is launched again and again; it gets itself the          *)
(* capabilities it needs, makes sure that there is a veth pair, runs its   *)
(* test on it and removes the pair.  The pair outlives a run that fails,   *)
(* and any command and system call may fail.                               *)
(***************************************************************************)
EXTENDS Netlink

CONSTANTS
  OtherAddrs,   \* the addresses the machine's other interfaces may have
  MaxLaunches   \* how often the program is launched

ASSUME HarnessAssumption == MaxLaunches \in Nat

\* The commands of setup_pair, in their order.
SetupCommands ==
  <<"add pair", "addr 0", "promisc 0", "up 0", "addr 1", "promisc 1", "up 1">>

VARIABLES
  \* What outlives the program.
  configured,   \* how many of SetupCommands the pair has seen, 0: no pair
  launches,
  \* The program.
  pc,           \* where its main thread is: "off" when it is not running
  caps,         \* has the process the capabilities?
  restarted,    \* is RESTARTED set in its environment?
  cmds,         \* how many commands its setup_pair has executed
  result        \* how it ended

persistent  == <<configured, launches>>
process     == <<caps, restarted, cmds>>
harnessVars == <<persistent, pc, process, result>>

HarnessTypeOK ==
  /\ configured \in 0 .. Len(SetupCommands)
  /\ cmds \in 0 .. Len(SetupCommands)
  /\ launches \in 0 .. MaxLaunches
  /\ caps \in BOOLEAN /\ restarted \in BOOLEAN
  /\ result \in {"none", "Ok", "Err", "Panic"}

HarnessInit ==
  /\ configured = 0
  /\ launches = 0
  /\ pc = "off"
  /\ caps = FALSE
  /\ restarted = FALSE
  /\ cmds = 0
  /\ result = "none"

Goto(p) == pc' = p /\ UNCHANGED result

\* main returns, or panics.
Exit(res) == pc' = "off" /\ result' = res

-----------------------------------------------------------------------------
(* command.rs: setup and restart_with_caps *)

\* Somebody starts the program, as root, with the capabilities that an earlier
\* run has given to the file, or without any.
Launch ==
  /\ pc = "off"
  /\ launches < MaxLaunches
  /\ launches' = launches + 1
  /\ caps' \in BOOLEAN
  /\ restarted' = FALSE
  /\ cmds' = 0
  /\ pc' = "setup"
  /\ result' = "none"
  /\ UNCHANGED configured

\* Mutant: nothing tells the new process that it is one.
SetCapUnmarked ==
  /\ pc = "setup"
  /\ ~restarted
  /\ ~caps
  /\ Goto("execvp")
  /\ UNCHANGED <<persistent, process>>

\* RESTARTED is set, then setcap gives the file the capabilities.
SetCap ==
  /\ pc = "setup"
  /\ ~restarted
  /\ ~caps
  /\ restarted' = TRUE
  /\ Goto("execvp")
  /\ UNCHANGED <<persistent, caps, cmds>>

\* execvp: main starts again with the same environment, in a process that has
\* the capabilities of the file unless the file system does not honour them.
Restart ==
  /\ pc = "execvp"
  /\ caps' \in BOOLEAN
  /\ Goto("setup")
  /\ UNCHANGED <<persistent, restarted, cmds>>

\* Nothing to do, or the program has been restarted already.
SetupDone ==
  /\ pc = "setup"
  /\ restarted \/ caps
  /\ restarted' = TRUE
  /\ Goto("check_pair")
  /\ UNCHANGED <<persistent, caps, cmds>>

\* Reading the capabilities, setcap or execvp fails.
SetupFails ==
  /\ pc \in {"setup", "execvp"}
  /\ Exit("Err")
  /\ UNCHANGED <<persistent, process>>

-----------------------------------------------------------------------------
(* runner.rs and vethpair.rs *)

PairExists == configured > 0

\* check_pair: the pair is used as it is if its first end exists.  It is made
\* if not, or if there is no command ip, which has the same error kind.
CheckPair ==
  /\ pc = "check_pair"
  /\ \/ PairExists /\ Goto("hosts")
     \/ Goto("setup_pair")
     \/ Exit("Err")
  /\ UNCHANGED <<persistent, process>>

\* One command of setup_pair.  Making a pair that exists does not succeed.
SetupPairCommand ==
  /\ pc = "setup_pair"
  /\ configured = cmds
  /\ cmds' = cmds + 1
  /\ configured' = cmds + 1
  /\ Goto(IF cmds' = Len(SetupCommands) THEN "hosts" ELSE "setup_pair")
  /\ UNCHANGED <<launches, caps, restarted>>

\* A command fails; what the ones before have done stays.
SetupPairFails ==
  /\ pc = "setup_pair"
  /\ Exit("Err")
  /\ UNCHANGED <<persistent, process>>

\* The addresses of the machine when its other interfaces have others: host h
\* of the pair has address h on its interface once the command for it has been
\* executed; another interface may have the same address.
AddrMsg(a, i) == [kind |-> "NewAddress", addr |-> a, index |-> i]

AddressTable(others) ==
  others
    \o (IF configured >= 2 THEN <<AddrMsg(0, 0)>> ELSE << >>)
    \o (IF configured >= 5 THEN <<AddrMsg(1, 1)>> ELSE << >>)

\* Host::new: does its dump have the address, on whatever interface?
HostFound(a) ==
  \E others \in OtherAddrs :
    \E r \in ToSet(get_ipv4_address(NoAttr, Received(AddressTable(others)))) :
      r.addr = a

\* HostPair::from_prefixes
HostsFound == HostFound(0) /\ HostFound(1)

\* Host::new panics when its address is not found, or the dump fails.
HostsPanic ==
  /\ pc = "hosts"
  /\ Exit("Panic")
  /\ UNCHANGED <<persistent, process>>

\* teardown_pair, after a test that returned Ok
Teardown ==
  /\ pc = "teardown"
  /\ \/ configured' = 0 /\ Exit("Ok")
     \/ configured' = configured /\ Exit("Err")
  /\ UNCHANGED <<launches, process>>

HarnessSteps ==
  \/ SetCap
  \/ Restart
  \/ SetupDone
  \/ SetupFails
  \/ CheckPair
  \/ SetupPairCommand
  \/ SetupPairFails
  \/ HostsPanic
  \/ Teardown
=============================================================================
