-------------------------- MODULE ContainerProofs --------------------------
(***************************************************************************)
(* Theorems of Container, for any number of commands, processes, restarts  *)
(* and configurations, and any faults.                                     *)
(***************************************************************************)
EXTENDS Container, TLAPS

-----------------------------------------------------------------------------
(* The inductive invariants.                                               *)

\* The steps of one iteration, from clone() to the end of waitpid.
Iteration == {"attach", "network", "signal", "running", "runningW", "forward", "wait"}

\* waitpid finds a status for a zombie, and the supervisor looks only at a
\* child it has cloned.
StatusKnown == \A p \in Pid : proc[p] = "zombie" => exitOf[p] # None
ChildKnown  == spc \in Iteration => child # NoPid
TypeInv     == TypeOK /\ StatusKnown /\ ChildKnown

\* A child is let go only after it was attached.
ConfinedInv ==
  /\ \A p \in Pid : Released(p) /\ UsesCgroup => attached[p] # "none"
  /\ spc \in {"network", "signal"} /\ UsesCgroup => attached[child] # "none"

\* Processes are numbered as they are cloned.
Numbered == \A p \in Pid : (proc[p] = "none") <=> (p > child)

\* Without a PTY only the child of the current iteration can be alive.
OneInv ==
  ~config.tty =>
    \A p \in Pid : Live(p) => p = child /\ spc \in Iteration \cup {"failed", "crashed"}

\* Each iteration but the first is a restart that the policy granted.
BeforeLoop == {"start", "rootfs", "create", "createW", "bridge", "cgroup"}
AfterClone == Steps \ (BeforeLoop \cup {"clone"})
RestartInv ==
  /\ child <= restarts + 1
  /\ spc \in BeforeLoop \cup {"clone"} => child = restarts
  /\ spc \in AfterClone => child = restarts + 1
  /\ config.policy = "no" => restarts = 0
  /\ config.policy = "on-failure" /\ config.max > 0 => restarts <= config.max

\* Without a restart policy every record that names a process names the only
\* one, and a record that says "stopped" says so of a process that will not
\* run again.
Quiet == child # NoPid /\ \A p \in Pid : proc[p] \in {"none", "dying", "zombie", "reaped"}
Names(r) == r.pid \in {NoPid, child}
Honest(r) == Names(r) /\ (r.status = "stopped" => Quiet)
Stopping(c) == cpc[c] = "poll" \/ (cpc[c] = "check" /\ op[c] \in {"stop", "down"})
DeadInv ==
  config.policy = "no" /\ ~config.tty =>
    /\ Honest(stateFile)
    /\ Honest(mem)
    /\ \A c \in Cmds : Honest(copy[c]) /\ (Stopping(c) => copy[c].pid # NoPid)

\* ...and nobody has read a record with a PID in it before the supervisor has
\* written "running" for the only time.
Unpublished == BeforeLoop \cup {"clone", "attach", "network", "signal", "running", "runningW"}
Saving == {"mark", "markW", "save", "saveW"}
Early(r) == r.pid = NoPid /\ r.status # "stopped"
OnceInv ==
  config.policy = "no" =>
    /\ spc \in Unpublished =>
         /\ Early(stateFile)
         /\ \A c \in Cmds : Early(copy[c]) /\ ~Stopping(c) /\ cpc[c] \notin Saving
    /\ spc = "createW" => mem = CreatedRecord
    /\ spc = "stoppedW" => mem.status = "stopped"
    /\ \A c \in Cmds : cpc[c] \in Saving => copy[c].status = "stopped"

-----------------------------------------------------------------------------
(* Type correctness.                                                       *)

\* The records the program makes are records, and the primitive file
\* operations keep state.json one (Host).
LEMMA Records ==
  /\ \A s \in {"absent", "empty", "corrupt", "created"} : Blank(s) \in Record
  /\ \A r \in Record : r.pid \in 0..MaxPid /\ r.exit \in Codes \cup {None}
  /\ \A r \in Record : [r EXCEPT !.status = "stopped"] \in Record
  /\ \A r \in Record, k \in Codes :
       [r EXCEPT !.status = "stopped", !.exit = k] \in Record
  /\ \A r \in Record, p \in 0..MaxPid :
       [r EXCEPT !.status = "running", !.pid = p] \in Record
<1>1. NoPid \in 0..MaxPid
  BY HostAssumption DEF NoPid
<1>2. \A s \in {"absent", "empty", "corrupt", "created"} : Blank(s) \in Record
  BY <1>1 DEF Record, Blank
<1> QED
  BY <1>2 DEF Record

LEMMA OpenType ==
  ASSUME TypeOK, NEW a \in Cmds \cup {Sup}, OpenState(a)
  PROVE  stateFile' \in Record /\ openFds' \subseteq Cmds \cup {"supervisor"}
  BY Records DEF TypeOK, HostTypeOK, OpenState, Sup

LEMMA WriteType ==
  ASSUME TypeOK, NEW a, NEW r \in Record, WriteState(a, r)
  PROVE  stateFile' \in Record /\ openFds' \subseteq Cmds \cup {"supervisor"}
  BY Records DEF TypeOK, HostTypeOK, WriteState

LEMMA RemoveType ==
  ASSUME TypeOK, RemoveDir
  PROVE  /\ dir' \in BOOLEAN /\ cfgFile' \in BOOLEAN /\ stateFile' \in Record
         /\ openFds' \subseteq Cmds \cup {"supervisor"}
  BY Records DEF TypeOK, HostTypeOK, RemoveDir

\* Types after the steps of the supervisor.
LEMMA SupTypeInv ==
  ASSUME TypeInv, SupStep \/ Crash
  PROVE  TypeInv'
<1>1. TypeOK
  BY DEF TypeInv
<1> USE <1>1 DEF TypeInv, TypeOK, HostTypeOK, SupTypeOK, CmdTypeOK, Goto, Steps, Ended,
          cmdVars, diskVars, hostVars, StatusKnown, ChildKnown, Iteration, NoPid
<1>2. CASE MakeDir
  BY <1>2 DEF MakeDir
<1>3. CASE MakeRootfs
  BY <1>3 DEF MakeRootfs
<1>4. ASSUME NEW from \in Steps, NEW to \in Steps, NEW r \in Record, BeginSave(from, to, r),
             to = "runningW" => from = "running", from # to
      PROVE  (to \in {"createW", "runningW", "stoppedW"} => TypeInv')
  <2>1. stateFile' \in Record /\ openFds' \subseteq Cmds \cup {"supervisor"}
    BY <1>4, OpenType DEF BeginSave
  <2> QED
    BY <1>4, <2>1 DEF BeginSave
<1>5. CASE SaveCreatedOpen
  BY <1>4, <1>5, Records DEF SaveCreatedOpen, CreatedRecord
<1>6. CASE SaveRunningOpen
  BY <1>4, <1>6, Records DEF SaveRunningOpen, RunningRecord
<1>7. CASE SaveStoppedOpen
  BY <1>4, <1>7, Records DEF SaveStoppedOpen, StoppedRecord
<1>8. ASSUME NEW from \in Steps, NEW to \in Steps, EndSave(from, to),
             to \in Iteration => from \in Iteration
      PROVE  TypeInv'
  <2>1. stateFile' \in Record /\ openFds' \subseteq Cmds \cup {"supervisor"}
    BY <1>8, WriteType DEF EndSave
  <2> QED
    BY <1>8, <2>1 DEF EndSave
<1>9. CASE SaveCreatedWrite \/ SaveRunningWrite \/ SaveStoppedWrite
  BY <1>8, <1>9 DEF SaveCreatedWrite, SaveRunningWrite, SaveStoppedWrite
<1>10. CASE EnsureBridge
  BY <1>10 DEF EnsureBridge
<1>11. CASE MakeCgroup
  BY <1>11 DEF MakeCgroup, CgroupState
<1>12. CASE Clone
  BY <1>12, HostAssumption DEF Clone, Pid, ProcState
<1>13. CASE Attach
  BY <1>13 DEF Attach
<1>14. CASE SetupNetwork
  <2>1. registered' \in BOOLEAN
    BY <1>14 DEF SetupNetwork
  <2>2. veth' \in 0..HostNs
    BY <1>14, HostAssumption DEF SetupNetwork, HostNs
  <2> QED
    BY <1>14, <2>1, <2>2 DEF SetupNetwork
<1>15. CASE NetworkFails
  <2>1. registered' \in BOOLEAN
    BY <1>15 DEF NetworkFails
  <2>2. veth' \in 0..HostNs
    BY <1>15, HostAssumption DEF NetworkFails, HostNs
  <2> QED
    BY <1>15, <2>1, <2>2 DEF NetworkFails
<1>16. CASE SignalChild
  BY <1>16 DEF SignalChild, ProcState
<1>17. CASE PtyForward
  BY <1>17 DEF PtyForward, ProcState
<1>18. CASE WaitChild
  <2>1. child \in Pid
    BY <1>18 DEF WaitChild, Pid
  <2>2. code' \in Codes
    BY <1>18, <2>1 DEF WaitChild, Codes
  <2> QED
    BY <1>18, <2>2 DEF WaitChild, ProcState
<1>19. CASE NetworkDown
  BY <1>19, HostAssumption DEF NetworkDown, HostNs
<1>20. CASE Decide
  BY <1>20 DEF Decide
<1>21. CASE Unregister \/ Unmount
  BY <1>21 DEF Unregister, Unmount
<1>22. CASE RemoveCgroup
  BY <1>22 DEF RemoveCgroup, CgroupDestroy, CgroupState
<1>23. CASE AutoRemove
  <2>1. /\ dir' \in BOOLEAN /\ cfgFile' \in BOOLEAN /\ stateFile' \in Record
        /\ openFds' \subseteq Cmds \cup {"supervisor"}
    BY <1>23, RemoveType DEF AutoRemove
  <2> QED
    BY <1>23, <2>1 DEF AutoRemove
<1>24. CASE SetupFails
  BY <1>24 DEF SetupFails, CgroupState
<1>25. CASE Crash
  BY <1>25 DEF Crash
<1> QED
  BY <1>2, <1>3, <1>5, <1>6, <1>7, <1>9, <1>10, <1>11, <1>12, <1>13, <1>14, <1>15,
     <1>16, <1>17, <1>18, <1>19, <1>20, <1>21, <1>22, <1>23, <1>24, <1>25 DEF SupStep
\* Types after the steps of the kernel.
LEMMA KernelTypeInv ==
  ASSUME TypeInv, KernelStep
  PROVE  TypeInv'
<1> USE DEF TypeInv, TypeOK, HostTypeOK, SupTypeOK, CmdTypeOK, cmdVars, diskVars, supVars,
          StatusKnown, ChildKnown, ProcState
<1>1. ASSUME NEW p \in Pid, ExecProgram(p)
      PROVE  TypeInv'
  BY <1>1 DEF ExecProgram
<1>2. ASSUME NEW p \in Pid, NEW status \in Codes, Die(p, status),
             UNCHANGED <<config, diskVars, overlay, attached, cgroup, veth, registered,
                         supVars, cmdVars>>
      PROVE  TypeInv'
  BY <1>2, HostAssumption DEF Die
<1>3. ASSUME NEW p \in Pid, InitFails(p)
      PROVE  TypeInv'
  BY <1>2, <1>3 DEF InitFails, Codes
<1>4. ASSUME NEW p \in Pid, ProgramExits(p)
      PROVE  TypeInv'
  BY <1>2, <1>4 DEF ProgramExits, Codes
<1>5. ASSUME NEW p \in Pid, KilledDies(p)
      PROVE  TypeInv'
  BY <1>2, <1>5 DEF KilledDies, Codes
<1>6. ASSUME NEW p \in Pid, OutOfMemory(p)
      PROVE  TypeInv'
  BY <1>6 DEF OutOfMemory, KillProcess
<1>7. ASSUME NEW p \in Pid, InitReaps(p)
      PROVE  TypeInv'
  BY <1>7 DEF InitReaps
<1>8. CASE NetnsGone
  BY <1>8, HostAssumption DEF NetnsGone, HostNs
<1> QED
  BY <1>1, <1>3, <1>4, <1>5, <1>6, <1>7, <1>8 DEF KernelStep

\* Types after the steps of the commands.
LEMMA CmdTypeInv ==
  ASSUME TypeInv, NEW c \in Cmds, Load(c) \/ CmdStep(c)
  PROVE  TypeInv'
<1>1. TypeOK /\ copy[c] \in Record
  BY DEF TypeInv, TypeOK, CmdTypeOK
<1>2. [copy[c] EXCEPT !.status = "stopped"] \in Record
  BY <1>1, Records
<1> USE <1>1 DEF TypeInv, TypeOK, HostTypeOK, SupTypeOK, CmdTypeOK, hostVars, diskVars, supVars,
          StatusKnown, ChildKnown, UnchangedKernel, Enter, StopReturns, CmdSteps
<1>3. CASE Load(c)
  <2>1. op' \in [Cmds -> AllOps] /\ copy' \in [Cmds -> Record]
    BY <1>3, OpsAssumption DEF Load
  <2>2. cpc' \in [Cmds -> CmdSteps]
    BY <1>3 DEF Load, LoadForStop, LoadForKill, LoadForRm, LoadForPrune
  <2> QED
    BY <1>3, <2>1, <2>2 DEF Load
<1>4. CASE StopChecks(c)
  BY <1>2, <1>4 DEF StopChecks
<1>5. CASE StopSeesExit(c)
  BY <1>2, <1>5 DEF StopSeesExit
<1>6. CASE StopTimesOut(c)
  BY <1>2, <1>6 DEF StopTimesOut, KillProcess, ProcState
<1>7. ASSUME NEW from, NEW to \in CmdSteps, StopSaveOpens(c, from, to)
      PROVE  TypeInv'
  <2>1. stateFile' \in Record /\ openFds' \subseteq Cmds \cup {"supervisor"}
    BY <1>7, OpenType DEF StopSaveOpens
  <2> QED
    BY <1>7, <2>1 DEF StopSaveOpens
<1>8. CASE StopMarkOpens(c) \/ StopOpens(c)
  BY <1>7, <1>8 DEF StopMarkOpens, StopOpens
<1>9. CASE StopMarkWrites(c) \/ StopWrites(c)
  <2>1. stateFile' \in Record /\ openFds' \subseteq Cmds \cup {"supervisor"}
    BY <1>9, WriteType DEF StopMarkWrites, StopWrites
  <2> QED
    BY <1>9, <2>1 DEF StopMarkWrites, StopWrites
<1>10. CASE StopCleansVeth(c)
  BY <1>10, HostAssumption DEF StopCleansVeth, HostNs
<1>11. CASE StopMakesCgroup(c)
  BY <1>11 DEF StopMakesCgroup, CgroupCreate, CgroupState
<1>12. CASE StopRemovesCgroup(c)
  BY <1>12 DEF StopRemovesCgroup, CgroupDestroy, CgroupState
<1>13. CASE Kill(c)
  BY <1>13 DEF Kill, KillProcess, ProcState
<1>14. CASE RmChecks(c)
  BY <1>14 DEF RmChecks
<1>15. CASE Remove(c)
  <2>1. /\ dir' \in BOOLEAN /\ cfgFile' \in BOOLEAN /\ stateFile' \in Record
        /\ openFds' \subseteq Cmds \cup {"supervisor"}
    BY <1>15, RemoveType DEF Remove
  <2> QED
    BY <1>15, <2>1 DEF Remove
<1>16. CASE PruneLists(c) \/ PruneSweeps(c)
  BY <1>16, HostAssumption DEF PruneLists, PruneSweeps, HostNs
<1> QED
  BY <1>3, <1>4, <1>5, <1>6, <1>8, <1>9, <1>10, <1>11, <1>12, <1>13, <1>14, <1>15, <1>16
     DEF CmdStep

\* Every variable keeps its type: in particular exit codes are exit codes, and
\* the supervisor waits for processes it has cloned (container.rs 431-449).
THEOREM TypeCorrect == Spec => []TypeInv
<1>1. Init => TypeInv
  <2> SUFFICES ASSUME Init
               PROVE  TypeInv
    OBVIOUS
  <2>1. NoPid \in 0..MaxPid /\ 0 \in 0..HostNs
    BY HostAssumption DEF NoPid, HostNs
  <2>2. Blank("absent") \in Record
    BY Records
  <2>3. HostTypeOK
    BY <2>1, <2>2 DEF Init, HostInit, HostTypeOK, ProcState, CgroupState
  <2>4. SupTypeOK
    BY <2>1, <2>2 DEF Init, SupInit, SupTypeOK, Steps, Codes
  <2>5. CmdTypeOK
    BY <2>2 DEF Init, CmdInit, CmdTypeOK, AllOps, CmdSteps
  <2>6. StatusKnown /\ ChildKnown
    BY DEF Init, HostInit, SupInit, StatusKnown, ChildKnown, Iteration
  <2> QED
    BY <2>3, <2>4, <2>5, <2>6 DEF TypeInv, TypeOK
<1>2. TypeInv /\ [Next]_vars => TypeInv'
  <2> SUFFICES ASSUME TypeInv, [Next]_vars
               PROVE  TypeInv'
    OBVIOUS
  <2>1. CASE UNCHANGED vars
    BY <2>1 DEF TypeInv, TypeOK, HostTypeOK, SupTypeOK, CmdTypeOK, StatusKnown, ChildKnown,
                vars, hostVars, diskVars, supVars, cmdVars
  <2> QED
    BY <2>1, SupTypeInv, KernelTypeInv, CmdTypeInv DEF Next
<1> QED
  BY <1>1, <1>2, PTL DEF Spec

\* The type invariant that the runs check.
COROLLARY TypeSafe == Spec => []TypeOK
<1>1. TypeInv => TypeOK
  BY DEF TypeInv
<1> QED
  BY <1>1, TypeCorrect, PTL
-----------------------------------------------------------------------------
(* What a step may do to the processes and to the supervisor's control.    *)

\* Only clone() makes a process, nothing revives one, and only the byte on the
\* sync pipe lets one go.
Evolves ==
  \A p \in Pid :
    /\ (proc'[p] = "none") <=> (proc[p] = "none")
    /\ Live(p)' => Live(p)
    /\ proc[p] \in {"dying", "zombie", "reaped"} => proc'[p] \in {"dying", "zombie", "reaped"}
    /\ proc[p] = "reaped" => proc'[p] = "reaped"
    /\ Released(p)' => Released(p) \/ (p = child /\ spc = "signal")

\* Where run_with_tty goes from where.
Flow ==
  {<<"start", "rootfs">>, <<"rootfs", "create">>, <<"create", "createW">>,
   <<"createW", "bridge">>, <<"bridge", "cgroup">>, <<"cgroup", "clone">>,
   <<"clone", "attach">>, <<"attach", "network">>, <<"network", "signal">>,
   <<"signal", "running">>, <<"running", "runningW">>, <<"runningW", "forward">>,
   <<"runningW", "wait">>, <<"forward", "wait">>, <<"wait", "netdown">>,
   <<"netdown", "decide">>, <<"decide", "clone">>, <<"decide", "stopped">>,
   <<"stopped", "stoppedW">>, <<"stoppedW", "unregister">>,
   <<"unregister", "unmount">>, <<"unmount", "rmcgroup">>,
   <<"rmcgroup", "autoremove">>, <<"autoremove", "done">>}
Flows ==
  /\ spc' = spc \/ spc' \in {"failed", "crashed"} \/ <<spc, spc'>> \in Flow
  /\ spc = "wait" /\ spc' = "netdown" /\ ~config.tty =>
       proc[child] = "zombie" /\ (child \in Pid => proc'[child] = "reaped")

Onward ==
  /\ ~(spc = "decide" /\ spc' = "clone")
  /\ ~(spc = "clone" /\ spc' = "attach")

LEMMA KernelFrame ==
  ASSUME TypeInv, KernelStep
  PROVE  UNCHANGED <<config, diskVars, attached, supVars, cmdVars>> /\ Evolves
<1>1. proc \in [Pid -> ProcState]
  BY DEF TypeInv, TypeOK, HostTypeOK
<1> USE <1>1 DEF Evolves, Live, Released, diskVars, supVars, cmdVars, Die
<1>2. ASSUME NEW p \in Pid, ExecProgram(p) \/ InitFails(p)
      PROVE  UNCHANGED <<config, diskVars, attached, supVars, cmdVars>> /\ Evolves
  BY <1>2 DEF ExecProgram, InitFails
<1>3. ASSUME NEW p \in Pid, ProgramExits(p) \/ KilledDies(p)
      PROVE  UNCHANGED <<config, diskVars, attached, supVars, cmdVars>> /\ Evolves
  BY <1>3 DEF ProgramExits, KilledDies
<1>4. ASSUME NEW p \in Pid, OutOfMemory(p) \/ InitReaps(p)
      PROVE  UNCHANGED <<config, diskVars, attached, supVars, cmdVars>> /\ Evolves
  BY <1>4 DEF OutOfMemory, InitReaps, KillProcess
<1>5. CASE NetnsGone
  BY <1>5 DEF NetnsGone
<1> QED
  BY <1>2, <1>3, <1>4, <1>5 DEF KernelStep

LEMMA CmdFrame ==
  ASSUME TypeInv, NEW c \in Cmds, Load(c) \/ CmdStep(c)
  PROVE  UNCHANGED <<config, attached, supVars>> /\ Evolves
<1>1. proc \in [Pid -> ProcState]
  BY DEF TypeInv, TypeOK, HostTypeOK
<1> USE <1>1 DEF Evolves, Live, Released, diskVars, supVars, hostVars, UnchangedKernel
<1>2. CASE Load(c) \/ StopChecks(c) \/ StopSeesExit(c) \/ RmChecks(c)
  BY <1>2 DEF Load, StopChecks, StopSeesExit, RmChecks
<1>3. CASE StopTimesOut(c) \/ Kill(c)
  BY <1>3 DEF StopTimesOut, Kill, KillProcess
<1>4. CASE StopMarkOpens(c) \/ StopOpens(c) \/ StopMarkWrites(c) \/ StopWrites(c)
  BY <1>4 DEF StopMarkOpens, StopOpens, StopSaveOpens, StopMarkWrites, StopWrites
<1>5. CASE \/ StopCleansVeth(c) \/ StopMakesCgroup(c) \/ StopRemovesCgroup(c) \/ Remove(c)
           \/ PruneLists(c) \/ PruneSweeps(c)
  BY <1>5 DEF StopCleansVeth, StopMakesCgroup, StopRemovesCgroup, Remove, PruneLists, PruneSweeps
<1> QED
  BY <1>2, <1>3, <1>4, <1>5 DEF CmdStep

LEMMA SupFrame ==
  ASSUME TypeInv, SupStep \/ Crash, ~Clone, ~Decide
  PROVE  UNCHANGED <<config, child, restarts, cmdVars>> /\ Evolves /\ Flows
         /\ Onward
<1>1. proc \in [Pid -> ProcState]
  BY DEF TypeInv, TypeOK, HostTypeOK
<1> DEFINE Frame == UNCHANGED <<config, child, restarts, cmdVars>> /\ Evolves /\ Flows
                    /\ Onward
<1> USE <1>1 DEF Evolves, Live, Released, Flows, Flow, Onward, Goto, diskVars, hostVars, cmdVars
<1>2. CASE MakeDir \/ MakeRootfs \/ EnsureBridge \/ MakeCgroup
  BY <1>2 DEF MakeDir, MakeRootfs, EnsureBridge, MakeCgroup
<1>3. CASE SaveCreatedOpen \/ SaveRunningOpen \/ SaveStoppedOpen
  BY <1>3 DEF SaveCreatedOpen, SaveRunningOpen, SaveStoppedOpen, BeginSave
<1>4. CASE SaveCreatedWrite \/ SaveRunningWrite \/ SaveStoppedWrite
  BY <1>4 DEF SaveCreatedWrite, SaveRunningWrite, SaveStoppedWrite, EndSave
<1>5. CASE Attach \/ SetupNetwork \/ NetworkFails
  BY <1>5 DEF Attach, SetupNetwork, NetworkFails
<1>6. CASE SignalChild
  BY <1>6 DEF SignalChild
<1>7. CASE PtyForward
  BY <1>7 DEF PtyForward
<1>8. CASE WaitChild
  BY <1>8 DEF WaitChild
<1>9. CASE NetworkDown \/ Unregister \/ Unmount \/ RemoveCgroup \/ AutoRemove
  BY <1>9 DEF NetworkDown, Unregister, Unmount, RemoveCgroup, AutoRemove
<1>10. CASE SetupFails \/ Crash
  BY <1>10 DEF SetupFails, Crash
<1> QED
  BY <1>2, <1>3, <1>4, <1>5, <1>6, <1>7, <1>8, <1>9, <1>10 DEF SupStep
\* Only Attach changes who is in the cgroup, and only it leads to the network.
LEMMA AttachedFrame ==
  ASSUME TypeInv, [Next]_vars, ~Attach
  PROVE  attached' = attached /\ ~(spc = "attach" /\ spc' = "network")
<1>1. CASE UNCHANGED vars
  BY <1>1 DEF vars, hostVars, supVars
<1>2. CASE SupStep \/ Crash
  BY <1>2 DEF SupStep, Goto, hostVars, MakeDir, MakeRootfs, EnsureBridge, MakeCgroup, Clone,
       SaveCreatedOpen, SaveRunningOpen, SaveStoppedOpen, BeginSave,
       SaveCreatedWrite, SaveRunningWrite, SaveStoppedWrite, EndSave,
       SetupNetwork, NetworkFails, SignalChild, PtyForward, WaitChild, Decide,
       NetworkDown, Unregister, Unmount, RemoveCgroup, AutoRemove, SetupFails, Crash
<1>3. CASE KernelStep
  BY <1>3, KernelFrame DEF supVars
<1>4. ASSUME NEW c \in Cmds, Load(c) \/ CmdStep(c)
      PROVE  attached' = attached /\ ~(spc = "attach" /\ spc' = "network")
  BY <1>4, CmdFrame DEF supVars
<1> QED
  BY <1>1, <1>2, <1>3, <1>4 DEF Next

\* All of it, for a step that is neither clone() nor a restart decision.
LEMMA Frame ==
  ASSUME TypeInv, [Next]_vars, ~Clone, ~Decide
  PROVE  UNCHANGED <<config, child, restarts>> /\ Evolves /\ Flows
         /\ Onward
<1>1. CASE UNCHANGED vars
  BY <1>1 DEF vars, hostVars, supVars, Evolves, Live, Released, Flows, Onward
<1>2. CASE SupStep \/ Crash
  BY <1>2, SupFrame
<1>3. CASE KernelStep
  BY <1>3, KernelFrame DEF supVars, Flows, Onward
<1>4. ASSUME NEW c \in Cmds, Load(c) \/ CmdStep(c)
      PROVE  UNCHANGED <<config, child, restarts>> /\ Evolves /\ Flows
             /\ Onward
  BY <1>4, CmdFrame DEF supVars, Flows, Onward
<1> QED
  BY <1>1, <1>2, <1>3, <1>4 DEF Next

\* ...and for the restart decision, which leaves the processes alone.
LEMMA DecideFrame ==
  ASSUME TypeInv, Decide
  PROVE  UNCHANGED <<config, child>> /\ Evolves /\ Flows
  BY DEF Decide, Goto, hostVars, Evolves, Live, Released, Flows, Flow

\* clone() takes the next number.
LEMMA NextPid ==
  ASSUME TypeInv, Numbered, Clone
  PROVE  child' = child + 1 /\ child' \in Pid
         /\ proc' = [proc EXCEPT ![child'] = "blocked"] /\ proc[child'] = "none"
<1>1. PICK p \in Pid : /\ \A q \in Pid : (proc[q] = "none") <=> (q >= p)
                       /\ proc' = [proc EXCEPT ![p] = "blocked"]
                       /\ child' = p
  BY DEF Clone
<1>2. child \in 0..MaxPid /\ MaxPid \in Nat /\ p \in 1..MaxPid
  BY HostAssumption DEF TypeInv, TypeOK, SupTypeOK, Pid
<1>3. \A q \in 1..MaxPid : (q > child) <=> (q >= p)
  BY <1>1 DEF Numbered, Pid
<1>4. p = child + 1
  <2>1. p > child
    BY <1>2, <1>3
  <2>2. child + 1 \in 1..MaxPid
    BY <1>2, <2>1
  <2>3. child + 1 >= p
    BY <1>2, <1>3, <2>2
  <2> QED
    BY <1>2, <2>1, <2>3
<1>5. proc[p] = "none"
  BY <1>1, <1>2
<1> QED
  BY <1>1, <1>4, <1>5

-----------------------------------------------------------------------------
(* Processes are numbered, and without a PTY there is one at a time.       *)

LEMMA NumberedStep ==
  ASSUME TypeInv, Numbered, [Next]_vars
  PROVE  Numbered'
<1>1. CASE Clone
  <2>1. proc \in [Pid -> ProcState] /\ child \in 0..MaxPid /\ MaxPid \in Nat
    BY HostAssumption DEF TypeInv, TypeOK, HostTypeOK, SupTypeOK
  <2>2. child' = child + 1 /\ proc' = [proc EXCEPT ![child'] = "blocked"]
    BY <1>1, NextPid
  <2> QED
    BY <2>1, <2>2 DEF Numbered, Pid
<1>2. CASE ~Clone
  <2>1. child' = child /\ Evolves
    BY <1>2, Frame, DecideFrame
  <2> QED
    BY <2>1 DEF Numbered, Evolves
<1> QED
  BY <1>1, <1>2

LEMMA OneStep ==
  ASSUME TypeInv, Numbered, OneInv, [Next]_vars
  PROVE  OneInv'
<1> SUFFICES ASSUME ~config'.tty, NEW p \in Pid, Live(p)'
             PROVE  p = child' /\ spc' \in Iteration \cup {"failed", "crashed"}
  BY DEF OneInv
<1>1. CASE Clone
  <2>1. ~config.tty /\ spc = "clone" /\ spc' = "attach"
    BY <1>1 DEF Clone, Goto
  <2>2. \A q \in Pid : ~Live(q)
    BY <2>1 DEF OneInv, Iteration
  <2>3. proc' = [proc EXCEPT ![child'] = "blocked"]
    BY <1>1, NextPid
  <2>4. p = child'
    BY <2>2, <2>3 DEF Live, TypeInv, TypeOK, HostTypeOK
  <2> QED
    BY <2>1, <2>4 DEF Iteration
<1>2. CASE ~Clone
  <2>1. config' = config /\ child' = child /\ Evolves /\ Flows
    BY <1>2, Frame, DecideFrame
  <2>2. Live(p) /\ p = child /\ spc \in Iteration \cup {"failed", "crashed"}
    BY <2>1 DEF OneInv, Evolves
  <2>3. ~(spc = "wait" /\ spc' = "netdown")
    BY <2>1, <2>2 DEF Flows, Live
  <2> QED
    BY <2>1, <2>2, <2>3 DEF Flows, Flow, Iteration
<1> QED
  BY <1>1, <1>2

\* clone() numbers the processes, and all before the child are dead: waitpid has
\* returned before the next clone() (container.rs 262-437).
THEOREM OneAtATime == Spec => [](Numbered /\ OneInv)
<1>1. Init => Numbered /\ OneInv
  BY DEF Init, HostInit, SupInit, Numbered, OneInv, Live, NoPid, Pid
<1>2. TypeInv /\ (Numbered /\ OneInv) /\ [Next]_vars => (Numbered /\ OneInv)'
  BY NumberedStep, OneStep
<1> QED
  BY <1>1, <1>2, TypeCorrect, PTL DEF Spec

\* Two processes of one container are never alive together unless it has a
\* PTY: waitpid blocks (container.rs 437) and clone() comes after it.
COROLLARY OneProgramSafe == Spec => []OneProgram
<1>1. OneInv => OneProgram
  BY DEF OneInv, OneProgram
<1> QED
  BY <1>1, OneAtATime, PTL
-----------------------------------------------------------------------------
(* The restart policy.                                                     *)

LEMMA RestartStep ==
  ASSUME TypeInv, Numbered, RestartInv, [Next]_vars
  PROVE  RestartInv'
<1>1. child \in Nat /\ restarts \in Nat /\ config.max \in Nat
  BY HostAssumption DEF TypeInv, TypeOK, HostTypeOK, SupTypeOK, Config
<1> USE DEF AfterClone, Steps
<1>2. CASE Clone
  <2>1. child' = child + 1
    BY <1>2, NextPid
  <2>2. spc = "clone" /\ spc' = "attach" /\ UNCHANGED <<config, restarts>>
    BY <1>2 DEF Clone, Goto
  <2> QED
    BY <1>1, <2>1, <2>2 DEF RestartInv, BeforeLoop
<1>3. CASE Decide
  <2>1. UNCHANGED <<config, child>>
    BY <1>3, DecideFrame
  <2>2. CASE ShouldRestart
    <3>1. restarts' = restarts + 1 /\ spc' = "clone" /\ spc = "decide"
      BY <1>3, <2>2 DEF Decide, Goto
    <3>2. child = restarts + 1
      BY <1>1, <3>1 DEF RestartInv, BeforeLoop
    <3>3. /\ config.policy # "no"
          /\ config.policy = "on-failure" /\ config.max > 0 => restarts < config.max
      BY <1>1, <2>2 DEF ShouldRestart
    <3> QED
      BY <1>1, <2>1, <3>1, <3>2, <3>3 DEF RestartInv
  <2>3. CASE ~ShouldRestart
    BY <1>1, <1>3, <2>1, <2>3 DEF Decide, Goto, RestartInv, BeforeLoop
  <2> QED
    BY <2>2, <2>3
<1>4. CASE ~Clone /\ ~Decide
  <2>1. UNCHANGED <<config, child, restarts>> /\ Flows /\ Onward
    BY <1>4, Frame
  <2>2. /\ spc' \in BeforeLoop \cup {"clone"} => spc \in BeforeLoop \cup {"clone"}
        /\ spc' \in AfterClone => spc \in AfterClone
    BY <2>1 DEF Flows, Flow, Onward, BeforeLoop
  <2> QED
    BY <2>1, <2>2 DEF RestartInv
<1> QED
  BY <1>2, <1>3, <1>4

\* The child is one more than the restarts, each of which the policy has allowed
\* (container.rs 463-476).
THEOREM RestartsBounded == Spec => []RestartInv
<1>1. Init => RestartInv
  <2> SUFFICES ASSUME Init
               PROVE  RestartInv
    OBVIOUS
  <2>1. config.max \in Nat
    BY HostAssumption DEF Init, HostInit, Config
  <2> QED
    BY <2>1 DEF Init, SupInit, RestartInv, BeforeLoop, AfterClone, NoPid
<1>2. TypeInv /\ Numbered /\ RestartInv /\ [Next]_vars => RestartInv'
  BY RestartStep
<1>3. Numbered /\ OneInv => Numbered
  OBVIOUS
<1> QED
  BY <1>1, <1>2, <1>3, TypeCorrect, OneAtATime, PTL DEF Spec

\* No program is started beyond what the policy allows, whoever stops or kills
\* the container meanwhile (container.rs 461-475).
COROLLARY RestartsSafe == Spec => []RestartsWithinPolicy
<1>1. TypeInv /\ Numbered /\ RestartInv => RestartsWithinPolicy
  <2> SUFFICES ASSUME TypeInv, Numbered, RestartInv, NEW p \in Pid
               PROVE  /\ config.policy = "no" /\ p > 1 => proc[p] = "none"
                      /\ config.policy = "on-failure" /\ config.max > 0 /\ p > config.max + 1 =>
                           proc[p] = "none"
    BY DEF RestartsWithinPolicy
  <2>1. child \in Nat /\ restarts \in Nat /\ config.max \in Nat /\ p \in Nat
    BY HostAssumption DEF TypeInv, TypeOK, HostTypeOK, SupTypeOK, Config, Pid
  <2> QED
    BY <2>1 DEF Numbered, RestartInv
<1>2. Numbered /\ OneInv => Numbered
  OBVIOUS
<1> QED
  BY <1>1, <1>2, TypeCorrect, OneAtATime, RestartsBounded, PTL

-----------------------------------------------------------------------------
(* Confinement.                                                            *)

LEMMA ConfinedStep ==
  ASSUME TypeInv, Numbered, ConfinedInv, [Next]_vars
  PROVE  ConfinedInv'
<1>1. attached \in [Pid -> CgroupState] /\ child \in 0..MaxPid /\ proc \in [Pid -> ProcState]
  BY DEF TypeInv, TypeOK, HostTypeOK, SupTypeOK
<1>2. CASE Clone
  <2>1. proc' = [proc EXCEPT ![child'] = "blocked"] /\ UNCHANGED <<config, attached>>
        /\ spc' = "attach"
    BY <1>2, NextPid DEF Clone, Goto
  <2> QED
    BY <1>1, <2>1 DEF ConfinedInv, Released, UsesCgroup
<1>3. CASE Attach
  <2>1. child \in Pid
    BY <1>1, <1>3 DEF Attach, TypeInv, ChildKnown, Iteration, Pid, NoPid
  <2> QED
    BY <1>1, <1>3, <2>1 DEF Attach, Goto, ConfinedInv, Released, UsesCgroup
<1>4. CASE ~Clone /\ ~Attach
  <2>1. UNCHANGED <<config, child>> /\ Evolves /\ Flows
    BY <1>4, Frame, DecideFrame
  <2>2. attached' = attached
    BY <1>4, AttachedFrame
  <2>3. spc' \in {"network", "signal"} => spc \in {"network", "signal"}
    BY <1>4, <2>1, AttachedFrame DEF Flows, Flow
  <2> QED
    BY <1>1, <2>1, <2>2, <2>3 DEF ConfinedInv, Evolves, UsesCgroup
<1> QED
  BY <1>2, <1>3, <1>4

\* A process beyond the sync pipe was attached, and the byte is sent only after that
\* (container.rs 338-413).
THEOREM Confined == Spec => []ConfinedInv
<1>1. Init => ConfinedInv
  BY DEF Init, HostInit, SupInit, ConfinedInv, Released
<1>2. TypeInv /\ Numbered /\ ConfinedInv /\ [Next]_vars => ConfinedInv'
  BY ConfinedStep
<1>3. Numbered /\ OneInv => Numbered
  OBVIOUS
<1> QED
  BY <1>1, <1>2, <1>3, TypeCorrect, OneAtATime, PTL DEF Spec

-----------------------------------------------------------------------------
(* Where the contents of a record come from.                               *)

LEMMA RecordFields ==
  /\ \A s : Blank(s).status = s /\ Blank(s).pid = NoPid
  /\ \A r \in Record : /\ [r EXCEPT !.status = "stopped"].status = "stopped"
                       /\ [r EXCEPT !.status = "stopped"].pid = r.pid
  /\ \A r \in Record : \A k :
       /\ [r EXCEPT !.status = "stopped", !.exit = k].status = "stopped"
       /\ [r EXCEPT !.status = "stopped", !.exit = k].pid = r.pid
  /\ \A r \in Record : \A p :
       /\ [r EXCEPT !.status = "running", !.pid = p].status = "running"
       /\ [r EXCEPT !.status = "running", !.pid = p].pid = p
  BY DEF Blank, Record

\* state.json: nothing readable, the supervisor's record, or a command's copy.
Unreadable == {Blank("absent"), Blank("empty"), Blank("corrupt")}
FileSource ==
  \/ stateFile' \in {stateFile} \cup Unreadable
  \/ spc \in {"createW", "runningW", "stoppedW"} /\ spc' # spc /\ stateFile' = mem
  \/ \E c \in Cmds : cpc[c] \in Saving /\ stateFile' = copy[c]

\* The supervisor's record, made where it begins to save it.
MemSource ==
  \/ mem' = mem /\ (spc' \in {"createW", "stoppedW"} => spc' = spc)
  \/ mem' = CreatedRecord /\ spc = "create" /\ spc' \in {"createW", "failed"}
  \/ mem' = RunningRecord /\ spc = "running" /\ spc' \in {"runningW", "failed"}
  \/ mem' = StoppedRecord /\ spc = "stopped" /\ spc' \in {"stoppedW", "failed"}

\* A command's copy: what it read, or marked as stopped after the process was
\* found dead or killed.
CopyRead(c) ==
  /\ copy'[c] = stateFile
  /\ cpc'[c] \notin Saving
  /\ Stopping(c)' => stateFile.pid # NoPid
CopyMarked(c) ==
  /\ Stopping(c)
  /\ copy'[c] = [copy[c] EXCEPT !.status = "stopped"]
  /\ cpc'[c] \in Saving
  /\ \/ ~Alive(copy[c].pid) /\ proc' = proc
     \/ KillProcess(copy[c].pid)
CopyKept(c) ==
  /\ copy'[c] = copy[c]
  /\ Stopping(c)' => Stopping(c)
  /\ cpc'[c] \in Saving => cpc[c] \in Saving
CopySource == \A c \in Cmds : CopyRead(c) \/ CopyMarked(c) \/ CopyKept(c)

LEMMA RemoveSource ==
  ASSUME RemoveDir
  PROVE  stateFile' \in {stateFile} \cup Unreadable
  BY DEF RemoveDir, Unreadable

LEMMA SupSource ==
  ASSUME TypeInv, SupStep \/ Crash
  PROVE  FileSource /\ MemSource
<1> USE DEF FileSource, MemSource, Goto, hostVars, diskVars, Sup
<1>1. CASE \/ MakeDir \/ MakeRootfs \/ EnsureBridge \/ MakeCgroup \/ Clone \/ Attach
           \/ SetupNetwork \/ NetworkFails \/ SignalChild
  BY <1>1 DEF MakeDir, MakeRootfs, EnsureBridge, MakeCgroup, Clone, Attach, SetupNetwork,
              NetworkFails, SignalChild
<1>2. CASE \/ PtyForward \/ WaitChild \/ NetworkDown \/ Decide \/ Unregister \/ Unmount
           \/ RemoveCgroup \/ SetupFails \/ Crash
  BY <1>2 DEF PtyForward, WaitChild, NetworkDown, Decide, Unregister, Unmount, RemoveCgroup,
              SetupFails, Crash
<1>3. CASE AutoRemove
  BY <1>3, RemoveSource DEF AutoRemove
<1>4. CASE SaveCreatedOpen
  BY <1>4 DEF SaveCreatedOpen, BeginSave, OpenState, Unreadable
<1>5. CASE SaveRunningOpen
  BY <1>5 DEF SaveRunningOpen, BeginSave, OpenState, Unreadable
<1>6. CASE SaveStoppedOpen
  BY <1>6 DEF SaveStoppedOpen, BeginSave, OpenState, Unreadable
<1>7. CASE SaveCreatedWrite \/ SaveRunningWrite \/ SaveStoppedWrite
  BY <1>7 DEF SaveCreatedWrite, SaveRunningWrite, SaveStoppedWrite, EndSave, WriteState,
              Unreadable
<1> QED
  BY <1>1, <1>2, <1>3, <1>4, <1>5, <1>6, <1>7 DEF SupStep

LEMMA CmdSource ==
  ASSUME TypeInv, NEW c \in Cmds, Load(c) \/ CmdStep(c)
  PROVE  FileSource /\ CopySource
<1> USE DEF hostVars, diskVars, supVars, UnchangedKernel, Enter, StopReturns, Saving, Stopping,
            CopyRead, CopyMarked, CopyKept
<1>1. op \in [Cmds -> AllOps] /\ cpc \in [Cmds -> CmdSteps] /\ copy \in [Cmds -> Record]
  BY DEF TypeInv, TypeOK, CmdTypeOK
<1>2. ASSUME CopyRead(c) \/ CopyMarked(c) \/ CopyKept(c),
             \A d \in Cmds \ {c} : cpc'[d] = cpc[d] /\ op'[d] = op[d] /\ copy'[d] = copy[d]
      PROVE  CopySource
  BY <1>2 DEF CopySource
<1>3. CASE Load(c)
  <2>1. \A d \in Cmds \ {c} : cpc'[d] = cpc[d] /\ op'[d] = op[d] /\ copy'[d] = copy[d]
    BY <1>1, <1>3 DEF Load, LoadForStop, LoadForKill, LoadForRm, LoadForPrune
  <2>2. CopyRead(c)
    BY <1>1, <1>3 DEF Load, LoadForStop, LoadForKill, LoadForRm, LoadForPrune, Loadable
  <2>3. FileSource
    BY <1>3 DEF Load, FileSource
  <2> QED
    BY <1>2, <2>1, <2>2, <2>3
<1>4. CASE StopChecks(c)
  BY <1>1, <1>2, <1>4 DEF StopChecks, FileSource
<1>5. CASE StopSeesExit(c)
  BY <1>1, <1>2, <1>5 DEF StopSeesExit, FileSource
<1>6. CASE StopTimesOut(c)
  BY <1>1, <1>2, <1>6 DEF StopTimesOut, FileSource
<1>7. CASE StopMarkOpens(c) \/ StopOpens(c)
  <2>1. CopyKept(c)
    BY <1>1, <1>7 DEF StopMarkOpens, StopOpens, StopSaveOpens
  <2>2. FileSource
    BY <1>7 DEF StopMarkOpens, StopOpens, StopSaveOpens, OpenState, FileSource, Unreadable
  <2> QED
    BY <1>1, <1>2, <1>7, <2>1, <2>2 DEF StopMarkOpens, StopOpens, StopSaveOpens
<1>8. CASE StopMarkWrites(c) \/ StopWrites(c)
  <2>1. CopyKept(c)
    BY <1>1, <1>8 DEF StopMarkWrites, StopWrites
  <2>2. FileSource
    BY <1>8 DEF StopMarkWrites, StopWrites, WriteState, FileSource, Unreadable
  <2> QED
    BY <1>1, <1>2, <1>8, <2>1, <2>2 DEF StopMarkWrites, StopWrites
<1>9. CASE StopCleansVeth(c) \/ StopMakesCgroup(c) \/ StopRemovesCgroup(c)
  BY <1>1, <1>2, <1>9 DEF StopCleansVeth, StopMakesCgroup, StopRemovesCgroup, FileSource
<1>10. CASE Kill(c) \/ RmChecks(c) \/ PruneLists(c) \/ PruneSweeps(c)
  BY <1>1, <1>2, <1>10 DEF Kill, RmChecks, PruneLists, PruneSweeps, FileSource
<1>11. CASE Remove(c)
  <2>1. FileSource
    BY <1>11, RemoveSource DEF Remove, FileSource
  <2> QED
    BY <1>1, <1>2, <1>11, <2>1 DEF Remove
<1> QED
  BY <1>3, <1>4, <1>5, <1>6, <1>7, <1>8, <1>9, <1>10, <1>11 DEF CmdStep

LEMMA Sources ==
  ASSUME TypeInv, [Next]_vars
  PROVE  FileSource /\ MemSource /\ CopySource
<1>1. ASSUME UNCHANGED cmdVars
      PROVE  CopySource
  BY <1>1 DEF cmdVars, CopySource, CopyKept, Stopping
<1>2. CASE UNCHANGED vars
  BY <1>1, <1>2 DEF vars, hostVars, diskVars, supVars, FileSource, MemSource
<1>3. CASE SupStep \/ Crash
  <2>1. UNCHANGED cmdVars
    BY <1>3, SupFrame DEF Clone, Decide
  <2> QED
    BY <1>1, <1>3, <2>1, SupSource
<1>4. CASE KernelStep
  BY <1>1, <1>4, KernelFrame DEF diskVars, supVars, FileSource, MemSource
<1>5. ASSUME NEW c \in Cmds, Load(c) \/ CmdStep(c)
      PROVE  FileSource /\ MemSource /\ CopySource
  BY <1>5, CmdFrame, CmdSource DEF supVars, MemSource
<1> QED
  BY <1>2, <1>3, <1>4, <1>5 DEF Next
-----------------------------------------------------------------------------
(* A container without a restart policy: stopped means dead, for good.     *)

RecordInv == TypeInv /\ Numbered /\ OneInv /\ RestartInv

\* Without a policy clone() happens once, before any record has a PID in it.
LEMMA CloneOnce ==
  ASSUME RecordInv, config.policy = "no"
  PROVE  /\ spc \in BeforeLoop \cup {"clone"} => child = NoPid
         /\ \A p \in Pid : p # child => proc[p] = "none" \/ child = NoPid
         /\ spc \in AfterClone => child # NoPid
<1>1. child \in Nat /\ restarts = 0
  BY HostAssumption DEF RecordInv, RestartInv, TypeInv, TypeOK, SupTypeOK
<1>2. \A p \in Pid : p # child /\ child # NoPid => p > child
  BY <1>1 DEF RecordInv, RestartInv, Pid, NoPid
<1> QED
  BY <1>1, <1>2 DEF RecordInv, RestartInv, Numbered, NoPid

LEMMA QuietKept ==
  ASSUME Quiet, Evolves, child' = child
  PROVE  Quiet'
  BY DEF Quiet, Evolves

LEMMA DeadStep ==
  ASSUME RecordInv, DeadInv, [Next]_vars
  PROVE  DeadInv'
<1> SUFFICES ASSUME config'.policy = "no", ~config'.tty
             PROVE  /\ Honest(stateFile)' /\ Honest(mem)'
                    /\ \A c \in Cmds : Honest(copy[c])' /\ (Stopping(c) => copy[c].pid # NoPid)'
  BY DEF DeadInv
<1>1. TypeInv /\ stateFile \in Record /\ mem \in Record /\ (\A c \in Cmds : copy[c] \in Record)
      /\ child \in 0..MaxPid /\ proc \in [Pid -> ProcState]
  BY DEF RecordInv, TypeInv, TypeOK, HostTypeOK, SupTypeOK, CmdTypeOK
<1>2. CASE Clone
  <2>1. config' = config /\ UNCHANGED <<stateFile, mem, cmdVars>> /\ spc = "clone"
    BY <1>2 DEF Clone, diskVars
  <2>2. child = NoPid
    BY <2>1, CloneOnce
  <2>3. \A r \in Record : Honest(r) => r.pid = NoPid /\ r.status # "stopped"
    BY <2>2 DEF Honest, Names, Quiet
  <2> QED
    BY <1>1, <2>1, <2>3 DEF DeadInv, Honest, Names, cmdVars, Stopping
<1>3. CASE ~Clone
  <2>1. config' = config /\ child' = child /\ Evolves /\ Flows
    BY <1>1, <1>3, Frame, DecideFrame
  <2>2. \A r : Honest(r) => r.pid \in {NoPid, child'} /\ (r.status = "stopped" => Quiet')
    BY <2>1, QuietKept DEF Honest, Names
  <2>3. /\ Honest(stateFile) /\ Honest(mem)
        /\ \A c \in Cmds : Honest(copy[c]) /\ (Stopping(c) => copy[c].pid # NoPid)
    BY <2>1 DEF DeadInv
  <2>4. \A r \in Unreadable : r.pid = NoPid /\ r.status # "stopped"
    BY RecordFields DEF Unreadable
  <2>5. FileSource /\ MemSource /\ CopySource
    BY <1>1, Sources
  <2>6. Honest(stateFile)'
    BY <2>2, <2>3, <2>4, <2>5 DEF FileSource, Honest, Names
  <2>7. Honest(mem)'
    <3>1. CASE mem' \in {mem, CreatedRecord}
      BY <2>2, <2>3, <3>1, RecordFields DEF Honest, Names, CreatedRecord
    <3>2. CASE mem' = RunningRecord
      BY <1>1, <2>1, <3>2, RecordFields DEF Honest, Names, RunningRecord
    <3>3. CASE mem' = StoppedRecord /\ spc = "stopped"
      <4>1. child # NoPid
        BY <2>1, <3>3, CloneOnce DEF AfterClone, Steps, BeforeLoop
      <4>2. \A p \in Pid : ~Live(p)
        BY <2>1, <3>3 DEF RecordInv, OneInv, Iteration
      <4>3. Quiet
        BY <1>1, <4>1, <4>2 DEF Quiet, Live, ProcState
      <4>4. StoppedRecord.pid = mem.pid
        BY <1>1, RecordFields DEF StoppedRecord
      <4> QED
        BY <2>1, <2>3, <3>3, <4>3, <4>4, QuietKept DEF Honest, Names
    <3> QED
      BY <2>5, <3>1, <3>2, <3>3 DEF MemSource
  <2>8. ASSUME NEW c \in Cmds
        PROVE  Honest(copy[c])' /\ (Stopping(c) => copy[c].pid # NoPid)'
    <3>1. CASE CopyRead(c)
      BY <2>2, <2>3, <3>1 DEF CopyRead, Honest, Names
    <3>2. CASE CopyKept(c)
      BY <2>2, <2>3, <3>2 DEF CopyKept, Honest, Names
    <3>3. CASE CopyMarked(c)
      <4>1. copy[c].pid = child /\ child # NoPid /\ child \in Pid
        BY <1>1, <2>3, <3>3 DEF CopyMarked, Honest, Names, Pid, NoPid
      <4>2. \A p \in Pid : p # child => proc[p] = "none"
        BY <2>1, <4>1, CloneOnce
      <4>3. Quiet'
        BY <1>1, <2>1, <3>3, <4>1, <4>2
           DEF CopyMarked, Quiet, Evolves, Alive, Live, KillProcess, ProcState
      <4>4. copy'[c].pid = copy[c].pid
        BY <1>1, <3>3, RecordFields DEF CopyMarked
      <4> QED
        BY <2>1, <3>3, <4>1, <4>3, <4>4 DEF Honest, Names
    <3> QED
      BY <2>5, <3>1, <3>2, <3>3 DEF CopySource
  <2> QED
    BY <2>6, <2>7, <2>8
<1> QED
  BY <1>2, <1>3

LEMMA OnceStep ==
  ASSUME RecordInv, OnceInv, [Next]_vars
  PROVE  OnceInv'
<1> SUFFICES ASSUME config'.policy = "no"
             PROVE  /\ spc' \in Unpublished =>
                         /\ Early(stateFile)'
                         /\ \A c \in Cmds : /\ Early(copy[c])' /\ ~Stopping(c)'
                                            /\ cpc'[c] \notin Saving
                    /\ spc' = "createW" => mem' = CreatedRecord
                    /\ spc' = "stoppedW" => mem'.status = "stopped"
                    /\ \A c \in Cmds : cpc'[c] \in Saving => copy'[c].status = "stopped"
  BY DEF OnceInv, CreatedRecord, Blank
<1>1. TypeInv /\ stateFile \in Record /\ mem \in Record /\ (\A c \in Cmds : copy[c] \in Record)
  BY DEF RecordInv, TypeInv, TypeOK, HostTypeOK, SupTypeOK, CmdTypeOK
<1>2. config' = config /\ Flows
  BY <1>1, Frame, DecideFrame DEF Clone, Goto, Flows, Flow
<1>3. FileSource /\ MemSource /\ CopySource
  BY <1>1, Sources
<1>4. ~(spc = "decide" /\ spc' = "clone")
  <2>1. CASE Decide
    BY <1>2, <2>1 DEF Decide, ShouldRestart, Goto
  <2>2. CASE ~Decide
    BY <1>1, <2>2, Frame DEF Onward, Clone
  <2> QED
    BY <2>1, <2>2
<1>5. spc' \in Unpublished => spc \in Unpublished
  BY <1>2, <1>4 DEF Flows, Flow, Unpublished, BeforeLoop
<1>6. \A r \in Unreadable \cup {CreatedRecord} : Early(r)
  BY RecordFields DEF Unreadable, CreatedRecord, Early
<1>7. ASSUME spc' \in Unpublished
      PROVE  /\ Early(stateFile)'
             /\ \A c \in Cmds : Early(copy[c])' /\ ~Stopping(c)' /\ cpc'[c] \notin Saving
  <2>1. /\ Early(stateFile)
        /\ \A c \in Cmds : Early(copy[c]) /\ ~Stopping(c) /\ cpc[c] \notin Saving
        /\ spc = "createW" => mem = CreatedRecord
    BY <1>2, <1>5, <1>7 DEF OnceInv
  <2>2. stateFile' = mem /\ spc' # spc /\ spc \in {"createW", "runningW", "stoppedW"} =>
          spc = "createW"
    BY <1>2, <1>7 DEF Flows, Flow, Unpublished, BeforeLoop
  <2>3. Early(stateFile)'
    BY <1>3, <1>6, <2>1, <2>2 DEF FileSource, Early
  <2>4. \A c \in Cmds : Early(copy[c])' /\ ~Stopping(c)' /\ cpc'[c] \notin Saving
    BY <1>3, <2>1 DEF CopySource, CopyRead, CopyMarked, CopyKept, Early
  <2> QED
    BY <2>3, <2>4
<1>8. spc' = "createW" => mem' = CreatedRecord
  BY <1>2, <1>3 DEF OnceInv, MemSource
<1>9. spc' = "stoppedW" => mem'.status = "stopped"
  <2>1. StoppedRecord.status = "stopped"
    BY <1>1, RecordFields DEF StoppedRecord
  <2> QED
    BY <1>2, <1>3, <2>1 DEF OnceInv, MemSource
<1>10. \A c \in Cmds : cpc'[c] \in Saving => copy'[c].status = "stopped"
  <2>1. \A c \in Cmds : CopyMarked(c) => copy'[c].status = "stopped"
    BY <1>1, RecordFields DEF CopyMarked
  <2> QED
    BY <1>2, <1>3, <2>1 DEF OnceInv, CopySource, CopyRead, CopyKept
<1> QED
  BY <1>7, <1>8, <1>9, <1>10

\* Whoever may write that the container has stopped does so when the process it names is
\* dead or killed, and without a restart policy that was the only one (container.rs
\* 431-494, 675-717).
THEOREM RecordsHonest == Spec => [](RecordInv /\ DeadInv /\ OnceInv)
<1>1. Init => DeadInv /\ OnceInv
  BY RecordFields
     DEF Init, HostInit, SupInit, CmdInit, DeadInv, OnceInv, Honest, Names, Early, Stopping,
         Saving
<1>2. RecordInv /\ (DeadInv /\ OnceInv) /\ [Next]_vars => (DeadInv /\ OnceInv)'
  BY DeadStep, OnceStep
<1>3. TypeInv /\ (Numbered /\ OneInv) /\ RestartInv => RecordInv
  BY DEF RecordInv
<1> QED
  BY <1>1, <1>2, <1>3, TypeCorrect, OneAtATime, RestartsBounded, PTL DEF Spec

\* Whoever recorded a container without a restart policy as stopped, the
\* supervisor or any of the commands that race with it, its process was reaped
\* or has been sent SIGKILL (container.rs 478-482, 661-703).
COROLLARY StoppedMeansDeadSafe == Spec => []StoppedMeansDead
<1>1. DeadInv => StoppedMeansDead
  BY DEF DeadInv, Honest, Quiet, StoppedMeansDead, Live
<1> QED
  BY <1>1, RecordsHonest, PTL

\* ...and nobody writes "running" over that (container.rs 415-419).
COROLLARY NoResurrectionSafe == Spec => NoResurrection
<1>1. RecordInv /\ OnceInv /\ [Next]_vars =>
        [config.policy = "no" /\ stateFile.status = "stopped" =>
           stateFile'.status # "running"]_vars
  <2> SUFFICES ASSUME RecordInv, OnceInv, [Next]_vars,
                      config.policy = "no", stateFile.status = "stopped"
               PROVE  stateFile'.status # "running"
    OBVIOUS
  <2>1. spc \notin Unpublished
    BY DEF OnceInv, Early
  <2>2. FileSource
    BY Sources DEF RecordInv
  <2>3. \A r \in Unreadable : r.status # "running"
    BY RecordFields DEF Unreadable
  <2> QED
    BY <2>1, <2>2, <2>3 DEF FileSource, OnceInv, Unpublished, BeforeLoop
<1> QED
  BY <1>1, RecordsHonest, PTL DEF Spec, NoResurrection

-----------------------------------------------------------------------------
(* What a container holds, and that it lets go of it.                      *)

\* The steps during which the container's pair may be there.
Holding == {"signal", "running", "runningW", "forward", "wait", "netdown"}

ReapedInv ==
  ~config.tty =>
    \A p \in Pid : proc[p] = "zombie" => p = child /\ spc \in Iteration \cup {"failed", "crashed"}
OverlayInv == spc \in {"rmcgroup", "autoremove", "done"} => ~overlay
ListedInv ==
  ~UsesNames \/ spc \in {"unmount", "rmcgroup", "autoremove", "done"} => ~registered
VethInv == ~UsesVeth \/ spc \notin Holding \cup {"failed", "crashed"} => veth = 0
CgroupInv ==
  /\ ~UsesCgroup => \A p \in Pid : attached[p] = "none"
  /\ ~UsesCgroup \/ (~config.tty /\ spc \in {"autoremove", "done"}) =>
       cgroup = "none" \/ \E c \in Cmds : cpc[c] = "rmcg"
LeftInv == ReapedInv /\ OverlayInv /\ ListedInv /\ VethInv /\ CgroupInv

\* Who makes and removes what, and who goes past the steps that remove it.
Holders ==
  /\ overlay' # overlay => MakeRootfs \/ Unmount
  /\ registered' # registered => SetupNetwork \/ NetworkFails \/ Unregister
  /\ veth' # veth => veth' = 0 \/ SetupNetwork \/ NetworkFails
  /\ cgroup' # cgroup =>
       \/ MakeCgroup \/ RemoveCgroup \/ SetupFails
       \/ \E c \in Cmds : StopMakesCgroup(c) \/ StopRemovesCgroup(c)
Passes ==
  /\ spc = "network" /\ spc' = "signal" => SetupNetwork
  /\ spc = "netdown" /\ spc' = "decide" => NetworkDown
  /\ spc = "unregister" /\ spc' = "unmount" => Unregister
  /\ spc = "unmount" /\ spc' = "rmcgroup" => Unmount
  /\ spc = "rmcgroup" /\ spc' = "autoremove" => RemoveCgroup
  /\ spc = "cgroup" /\ spc' = "clone" => MakeCgroup
  /\ spc = "wait" /\ spc' = "netdown" => WaitChild
  /\ spc = "decide" /\ spc' \in {"clone", "stopped"} => Decide

LEMMA SupHolders ==
  ASSUME TypeInv, SupStep \/ Crash
  PROVE  Holders /\ Passes
<1> USE DEF Holders, Passes, Goto, hostVars
<1>1. CASE MakeDir \/ MakeRootfs \/ EnsureBridge \/ MakeCgroup
  BY <1>1 DEF MakeDir, MakeRootfs, EnsureBridge, MakeCgroup
<1>2. CASE SaveCreatedOpen \/ SaveRunningOpen \/ SaveStoppedOpen
  BY <1>2 DEF SaveCreatedOpen, SaveRunningOpen, SaveStoppedOpen, BeginSave
<1>3. CASE SaveCreatedWrite \/ SaveRunningWrite \/ SaveStoppedWrite
  BY <1>3 DEF SaveCreatedWrite, SaveRunningWrite, SaveStoppedWrite, EndSave
<1>4. CASE Clone \/ Attach \/ SetupNetwork \/ NetworkFails
  BY <1>4 DEF Clone, Attach, SetupNetwork, NetworkFails
<1>5. CASE SignalChild \/ PtyForward \/ WaitChild
  BY <1>5 DEF SignalChild, PtyForward, WaitChild
<1>6. CASE NetworkDown \/ Decide \/ Unregister \/ Unmount
  BY <1>6 DEF NetworkDown, Decide, Unregister, Unmount
<1>7. CASE RemoveCgroup \/ AutoRemove \/ SetupFails \/ Crash
  BY <1>7 DEF RemoveCgroup, AutoRemove, SetupFails, Crash
<1> QED
  BY <1>1, <1>2, <1>3, <1>4, <1>5, <1>6, <1>7 DEF SupStep

LEMMA OtherHolders ==
  ASSUME TypeInv, KernelStep \/ \E c \in Cmds : Load(c) \/ CmdStep(c)
  PROVE  Holders /\ spc' = spc
<1> USE DEF Holders, hostVars, supVars, UnchangedKernel
<1>1. CASE KernelStep
  BY <1>1 DEF KernelStep, ExecProgram, InitFails, ProgramExits, KilledDies, OutOfMemory,
              InitReaps, NetnsGone
<1>2. ASSUME NEW c \in Cmds, Load(c) \/ CmdStep(c)
      PROVE  Holders /\ spc' = spc
  <2>1. CASE Load(c) \/ StopChecks(c) \/ StopSeesExit(c) \/ RmChecks(c)
    BY <2>1 DEF Load, StopChecks, StopSeesExit, RmChecks
  <2>2. CASE StopTimesOut(c) \/ Kill(c) \/ Remove(c)
    BY <2>2 DEF StopTimesOut, Kill, Remove
  <2>3. CASE StopMarkOpens(c) \/ StopOpens(c) \/ StopMarkWrites(c) \/ StopWrites(c)
    BY <2>3 DEF StopMarkOpens, StopOpens, StopSaveOpens, StopMarkWrites, StopWrites
  <2>4. CASE StopMakesCgroup(c) \/ StopRemovesCgroup(c)
    BY <2>4 DEF StopMakesCgroup, StopRemovesCgroup
  <2>5. CASE StopCleansVeth(c) \/ PruneLists(c) \/ PruneSweeps(c)
    BY <2>5 DEF StopCleansVeth, PruneLists, PruneSweeps
  <2> QED
    BY <1>2, <2>1, <2>2, <2>3, <2>4, <2>5 DEF CmdStep
<1> QED
  BY <1>1, <1>2

LEMMA HoldersKnown ==
  ASSUME TypeInv, [Next]_vars
  PROVE  Holders /\ Passes /\ Flows /\ config' = config
<1>1. Holders /\ Passes
  <2>1. CASE UNCHANGED vars
    BY <2>1 DEF vars, hostVars, supVars, Holders, Passes
  <2>2. CASE SupStep \/ Crash
    BY <2>2, SupHolders
  <2>3. CASE KernelStep \/ \E c \in Cmds : Load(c) \/ CmdStep(c)
    BY <2>3, OtherHolders DEF Passes
  <2> QED
    BY <2>1, <2>2, <2>3 DEF Next
<1>2. Flows /\ config' = config
  BY Frame, DecideFrame DEF Clone, Goto, Flows, Flow
<1> QED
  BY <1>1, <1>2

LEMMA ReapedStep ==
  ASSUME TypeInv, Numbered, OneInv, ReapedInv, [Next]_vars
  PROVE  ReapedInv'
<1> SUFFICES ASSUME ~config'.tty, NEW p \in Pid, proc'[p] = "zombie"
             PROVE  p = child' /\ spc' \in Iteration \cup {"failed", "crashed"}
  BY DEF ReapedInv
<1>0. proc \in [Pid -> ProcState]
  BY DEF TypeInv, TypeOK, HostTypeOK
<1>1. CASE Clone
  <2>1. proc' = [proc EXCEPT ![child'] = "blocked"] /\ proc[child'] = "none"
    BY <1>1, NextPid
  <2>2. proc[p] = "zombie" /\ spc = "clone" /\ config' = config
    BY <1>0, <1>1, <2>1 DEF Clone
  <2> QED
    BY <2>2 DEF ReapedInv, Iteration
<1>2. CASE ~Clone
  <2>1. config' = config /\ child' = child /\ Evolves /\ Flows
    BY <1>2, Frame, DecideFrame
  <2>2. Live(p) \/ proc[p] = "zombie"
    BY <1>0, <2>1 DEF Evolves, Live, ProcState
  <2>3. p = child /\ spc \in Iteration \cup {"failed", "crashed"}
    BY <2>1, <2>2 DEF OneInv, ReapedInv
  <2>4. ~(spc = "wait" /\ spc' = "netdown")
    BY <2>1, <2>3 DEF Flows
  <2> QED
    BY <2>1, <2>3, <2>4 DEF Flows, Flow, Iteration
<1> QED
  BY <1>1, <1>2

LEMMA HeldStep ==
  ASSUME TypeInv, OverlayInv, ListedInv, VethInv, [Next]_vars
  PROVE  OverlayInv' /\ ListedInv' /\ VethInv'
<1>1. Holders /\ Passes /\ Flows /\ config' = config
  BY HoldersKnown
<1>2. OverlayInv'
  <2>1. CASE MakeRootfs \/ Unmount
    BY <2>1 DEF MakeRootfs, Unmount, Goto, OverlayInv
  <2>2. CASE ~(MakeRootfs \/ Unmount)
    BY <1>1, <2>2 DEF OverlayInv, Holders, Passes, Flows, Flow
  <2> QED
    BY <2>1, <2>2
<1>3. ListedInv'
  <2>1. CASE SetupNetwork \/ NetworkFails \/ Unregister
    BY <1>1, <2>1 DEF SetupNetwork, NetworkFails, Unregister, Goto, ListedInv, UsesNames
  <2>2. CASE ~(SetupNetwork \/ NetworkFails \/ Unregister)
    BY <1>1, <2>2 DEF ListedInv, UsesNames, Holders, Passes, Flows, Flow
  <2> QED
    BY <2>1, <2>2
<1>4. VethInv'
  <2>1. CASE SetupNetwork \/ NetworkFails \/ NetworkDown
    BY <1>1, <2>1 DEF SetupNetwork, NetworkFails, NetworkDown, Goto, VethInv, UsesVeth, Holding
  <2>2. CASE ~(SetupNetwork \/ NetworkFails \/ NetworkDown)
    BY <1>1, <2>2 DEF VethInv, UsesVeth, Holders, Passes, Flows, Flow, Holding
  <2> QED
    BY <2>1, <2>2
<1> QED
  BY <1>2, <1>3, <1>4

\* A command changes by its own steps only...
LEMMA OthersKept ==
  ASSUME TypeInv, NEW d \in Cmds, Load(d) \/ CmdStep(d), NEW c \in Cmds, c # d
  PROVE  cpc'[c] = cpc[c] /\ op'[c] = op[c] /\ copy'[c] = copy[c]
<1>1. op \in [Cmds -> AllOps] /\ cpc \in [Cmds -> CmdSteps] /\ copy \in [Cmds -> Record]
  BY DEF TypeInv, TypeOK, CmdTypeOK
<1> USE <1>1 DEF Enter, StopReturns
<1>2. CASE Load(d)
  BY <1>2 DEF Load, LoadForStop, LoadForKill, LoadForRm, LoadForPrune
<1>3. CASE StopChecks(d) \/ StopSeesExit(d) \/ StopTimesOut(d)
  BY <1>3 DEF StopChecks, StopSeesExit, StopTimesOut
<1>4. CASE StopMarkOpens(d) \/ StopOpens(d) \/ StopMarkWrites(d) \/ StopWrites(d)
  BY <1>4 DEF StopMarkOpens, StopOpens, StopSaveOpens, StopMarkWrites, StopWrites
<1>5. CASE StopCleansVeth(d) \/ StopMakesCgroup(d) \/ StopRemovesCgroup(d)
  BY <1>5 DEF StopCleansVeth, StopMakesCgroup, StopRemovesCgroup
<1>6. CASE Kill(d) \/ RmChecks(d) \/ Remove(d) \/ PruneLists(d) \/ PruneSweeps(d)
  BY <1>6 DEF Kill, RmChecks, Remove, PruneLists, PruneSweeps
<1> QED
  BY <1>2, <1>3, <1>4, <1>5, <1>6 DEF CmdStep

LEMMA Moves ==
  ASSUME TypeInv, [Next]_vars, NEW c \in Cmds,
         cpc'[c] # cpc[c] \/ op'[c] # op[c] \/ copy'[c] # copy[c]
  PROVE  Load(c) \/ CmdStep(c)
<1>1. CASE UNCHANGED vars
  BY <1>1 DEF vars, cmdVars
<1>2. CASE SupStep \/ Crash
  BY <1>2, SupFrame DEF Clone, Decide, cmdVars
<1>3. CASE KernelStep
  BY <1>3, KernelFrame DEF cmdVars
<1>4. CASE \E d \in Cmds : Load(d) \/ CmdStep(d)
  BY <1>4, OthersKept
<1> QED
  BY <1>1, <1>2, <1>3, <1>4 DEF Next

\* ...and stop goes on from making the cgroup by removing it.
LEMMA OnlyStepsMove ==
  ASSUME TypeInv, [Next]_vars, NEW c \in Cmds, cpc[c] = "rmcg", cpc'[c] # "rmcg"
  PROVE  StopRemovesCgroup(c)
<1>1. Load(c) \/ CmdStep(c)
  BY Moves
<1> QED
  BY <1>1 DEF Load, CmdStep, StopChecks, StopSeesExit, StopTimesOut, StopMarkOpens, StopOpens,
              StopSaveOpens, StopMarkWrites, StopWrites, StopCleansVeth, StopMakesCgroup,
              Kill, RmChecks, Remove, PruneLists, PruneSweeps

\* Nothing of the container is in its cgroup when it is removed for the last time.
LEMMA CgroupStep ==
  ASSUME TypeInv, Numbered, OneInv, CgroupInv, [Next]_vars
  PROVE  CgroupInv'
<1>1. Holders /\ Passes /\ Flows /\ config' = config
  BY HoldersKnown
<1>2. ~UsesCgroup' => \A p \in Pid : attached'[p] = "none"
  <2>1. CASE Attach
    BY <2>1 DEF Attach, CgroupInv, UsesCgroup
  <2>2. CASE ~Attach
    BY <1>1, <2>2, AttachedFrame DEF CgroupInv, UsesCgroup
  <2> QED
    BY <2>1, <2>2
<1>3. ASSUME ~UsesCgroup' \/ (~config'.tty /\ spc' \in {"autoremove", "done"})
      PROVE  cgroup' = "none" \/ \E c \in Cmds : cpc'[c] = "rmcg"
  <2>0. cpc \in [Cmds -> CmdSteps]
    BY DEF TypeInv, TypeOK, CmdTypeOK
  <2>1. CASE RemoveCgroup /\ UsesCgroup
    <3>1. ~config.tty /\ spc = "rmcgroup" /\ cgroup' = CgroupDestroy
      BY <1>1, <1>3, <2>1 DEF RemoveCgroup, UsesCgroup
    <3>2. \A p \in Pid : ~Live(p)
      BY <3>1 DEF OneInv, Iteration
    <3> QED
      BY <3>1, <3>2 DEF CgroupDestroy
  <2>2. CASE ~(RemoveCgroup /\ UsesCgroup)
    <3>1. ~UsesCgroup \/ (~config.tty /\ spc \in {"autoremove", "done"})
      BY <1>1, <1>3, <2>2 DEF UsesCgroup, Passes, Flows, Flow
    <3>2. \A p \in Pid : attached[p] # "none" => ~Live(p)
      <4>1. CASE ~UsesCgroup
        BY <4>1 DEF CgroupInv
      <4>2. CASE ~config.tty /\ spc \in {"autoremove", "done"}
        BY <4>2 DEF OneInv, Iteration
      <4> QED
        BY <3>1, <4>1, <4>2
    <3>3. ASSUME NEW c \in Cmds, StopMakesCgroup(c)
          PROVE  cpc'[c] = "rmcg"
      BY <2>0, <3>3 DEF StopMakesCgroup, Enter
    <3>4. ASSUME NEW c \in Cmds, StopRemovesCgroup(c)
          PROVE  cgroup' = "none"
      BY <3>2, <3>4 DEF StopRemovesCgroup, CgroupDestroy
    <3>5. CASE cgroup' = cgroup
      <4>1. cgroup = "none" \/ \E c \in Cmds : cpc[c] = "rmcg"
        BY <3>1 DEF CgroupInv
      <4>2. ASSUME NEW c \in Cmds, cpc[c] = "rmcg", cpc'[c] # "rmcg", cgroup # "none"
            PROVE  cgroup' = "none"
        <5>1. StopRemovesCgroup(c)
          BY <2>0, <4>2, OnlyStepsMove
        <5> QED
          BY <3>4, <5>1
      <4> QED
        BY <3>5, <4>1, <4>2
    <3>6. CASE cgroup' # cgroup
      <4>1. ~MakeCgroup /\ ~SetupFails /\ ~RemoveCgroup
        BY <1>1, <3>1, <3>6, <2>2 DEF MakeCgroup, SetupFails, RemoveCgroup, UsesCgroup
      <4> QED
        BY <1>1, <3>3, <3>4, <3>6, <4>1 DEF Holders
    <3> QED
      BY <3>5, <3>6
  <2> QED
    BY <2>1, <2>2
<1> QED
  BY <1>2, <1>3 DEF CgroupInv

\* What the supervisor holds, step by step: overlay, registration, pair and cgroup are
\* gone once it has passed the step that removes them (container.rs 431-516).
THEOREM LetsGo == Spec => []LeftInv
<1>1. Init => LeftInv
  BY DEF Init, HostInit, SupInit, LeftInv, ReapedInv, OverlayInv, ListedInv, VethInv, CgroupInv
<1>2. TypeInv /\ (Numbered /\ OneInv) /\ LeftInv /\ [Next]_vars => LeftInv'
  BY ReapedStep, HeldStep, CgroupStep DEF LeftInv
<1> QED
  BY <1>1, <1>2, TypeCorrect, OneAtATime, PTL DEF Spec

\* When the supervisor is done, nothing of the container is left in the kernel, whoever
\* stopped or killed it, unless a command is about to remove the cgroup (container.rs
\* 431-516).
COROLLARY NothingLeftSafe == Spec => []NothingLeft
<1>1. OneInv /\ LeftInv => NothingLeft
  <2> SUFFICES ASSUME OneInv, LeftInv, spc = "done", ~config.tty
               PROVE  /\ cgroup = "none" \/ \E c \in Cmds : Busy(c)
                      /\ ~overlay /\ ~registered /\ veth = 0
                      /\ \A p \in Pid : ~Alive(p)
    BY DEF NothingLeft
  <2>1. cgroup = "none" \/ \E c \in Cmds : Busy(c)
    BY DEF LeftInv, CgroupInv, Busy
  <2>2. ~overlay /\ ~registered /\ veth = 0
    BY DEF LeftInv, OverlayInv, ListedInv, VethInv, Holding
  <2>3. \A p \in Pid : ~Alive(p)
    BY DEF LeftInv, ReapedInv, OneInv, Alive, Iteration
  <2> QED
    BY <2>1, <2>2, <2>3
<1>2. Numbered /\ OneInv => OneInv
  OBVIOUS
<1> QED
  BY <1>1, <1>2, OneAtATime, LetsGo, PTL

-----------------------------------------------------------------------------
(* system prune removes what it has read to be stopped.                    *)

PruneInv == \A c \in Cmds : op[c] = "prune" /\ cpc[c] = "remove" => copy[c].status = "stopped"

LEMMA PruneStep ==
  ASSUME TypeInv, PruneInv, [Next]_vars
  PROVE  PruneInv'
<1> SUFFICES ASSUME NEW c \in Cmds, op'[c] = "prune", cpc'[c] = "remove"
             PROVE  copy'[c].status = "stopped"
  BY DEF PruneInv
<1>1. op \in [Cmds -> AllOps] /\ cpc \in [Cmds -> CmdSteps] /\ copy \in [Cmds -> Record]
  BY DEF TypeInv, TypeOK, CmdTypeOK
<1>2. CASE Load(c)
  <2>1. LoadForPrune(c) /\ copy'[c] = stateFile
    BY <1>1, <1>2 DEF Load, LoadForStop, LoadForKill, LoadForRm
  <2> QED
    BY <1>1, <2>1 DEF LoadForPrune, Enter
<1>3. CASE CmdStep(c) /\ ~Load(c)
  <2>1. op' = op
    BY <1>3 DEF CmdStep, StopChecks, StopSeesExit, StopTimesOut, StopMarkOpens, StopOpens,
                StopSaveOpens, StopMarkWrites, StopWrites, StopCleansVeth, StopMakesCgroup,
                StopRemovesCgroup, Kill, RmChecks, Remove, PruneLists, PruneSweeps
  <2>2. CASE StopMarkOpens(c) \/ StopOpens(c) \/ StopMarkWrites(c) \/ StopRemovesCgroup(c)
    BY <1>1, <2>1, <2>2 DEF StopMarkOpens, StopOpens, StopSaveOpens, StopMarkWrites,
                            StopRemovesCgroup, StopReturns, Enter
  <2>3. CASE \/ StopChecks(c) \/ StopSeesExit(c) \/ StopTimesOut(c) \/ StopWrites(c)
             \/ StopCleansVeth(c) \/ StopMakesCgroup(c)
    BY <1>1, <2>3 DEF StopChecks, StopSeesExit, StopTimesOut, StopWrites, StopCleansVeth,
                      StopMakesCgroup, Enter
  <2>4. CASE Kill(c) \/ RmChecks(c) \/ Remove(c) \/ PruneLists(c) \/ PruneSweeps(c)
    BY <1>1, <2>1, <2>4 DEF Kill, RmChecks, Remove, PruneLists, PruneSweeps, Enter
  <2> QED
    BY <1>3, <2>2, <2>3, <2>4 DEF CmdStep
<1>4. CASE ~(Load(c) \/ CmdStep(c))
  BY <1>4, Moves DEF PruneInv
<1> QED
  BY <1>2, <1>3, <1>4

\* system prune does not take the directory of a container without a restart policy from
\* a process that goes on, however long ago it has read the record (main.rs 1544-1546).
THEOREM PruneSparesLiveSafe == Spec => PruneSparesLive
<1>1. Init => PruneInv
  BY DEF Init, CmdInit, PruneInv
<1>2. TypeInv /\ PruneInv /\ [Next]_vars => PruneInv'
  BY PruneStep
<1>3. DeadInv /\ PruneInv =>
        [\A c \in Cmds :
           op[c] = "prune" /\ cpc[c] = "remove" /\ cpc'[c] # "remove"
             /\ config.policy = "no" /\ ~config.tty =>
           \A p \in Pid : ~Live(p) \/ proc[p] = "dying"]_vars
  BY DEF DeadInv, PruneInv, Honest, Quiet, Live
<1> QED
  BY <1>1, <1>2, <1>3, TypeCorrect, RecordsHonest, PTL DEF Spec, PruneSparesLive

-----------------------------------------------------------------------------
(* The limits, with at most one stop in the life of the container.         *)

\* stop and forge down make the cgroup directory where it is missing; a second one, of
\* many, could do so after the first has removed the supervisor's.
Stopper(c) == op[c] \in {"stop", "down"} /\ cpc[c] # "idle"
OneStopper == \A c, d \in Cmds : Stopper(c) /\ Stopper(d) => c = d

StopSteps == {"poll", "mark", "markW", "save", "saveW", "net", "mkcg", "rmcg"}
StopsOnly == \A c \in Cmds : cpc[c] \in StopSteps => Stopper(c)

\* From Cgroup::create to the end of the loop.
InLoop == Steps \ (BeforeLoop \cup {"rmcgroup", "autoremove"})
LimitedInv ==
  OneStopper =>
    /\ \A p \in Pid : attached[p] # "bare"
    /\ UsesCgroup /\ spc \in InLoop =>
         /\ cgroup # "bare"
         /\ cgroup = "none" =>
              \E c \in Cmds : Stopper(c) /\ cpc[c] \in {"done", "error", "remove"}

LEMMA StopsOnlyStep ==
  ASSUME TypeInv, StopsOnly, [Next]_vars
  PROVE  StopsOnly' /\ \A c \in Cmds : Stopper(c) => Stopper(c)'
<1>1. op \in [Cmds -> AllOps] /\ cpc \in [Cmds -> CmdSteps]
  BY DEF TypeInv, TypeOK, CmdTypeOK
<1>2. ASSUME NEW c \in Cmds
      PROVE  (cpc'[c] \in StopSteps => Stopper(c)') /\ (Stopper(c) => Stopper(c)')
  <2>1. CASE Load(c)
    BY <1>1, <2>1 DEF Load, LoadForStop, LoadForKill, LoadForRm, LoadForPrune, Enter, Stopper,
                      StopSteps
  <2>2. CASE CmdStep(c) /\ ~Load(c)
    <3>1. op' = op
      BY <2>2 DEF CmdStep, StopChecks, StopSeesExit, StopTimesOut, StopMarkOpens, StopOpens,
                  StopSaveOpens, StopMarkWrites, StopWrites, StopCleansVeth, StopMakesCgroup,
                  StopRemovesCgroup, Kill, RmChecks, Remove, PruneLists, PruneSweeps
    <3>2. CASE \/ StopMarkOpens(c) \/ StopOpens(c) \/ StopMarkWrites(c) \/ StopRemovesCgroup(c)
               \/ StopSeesExit(c) \/ StopTimesOut(c) \/ StopWrites(c) \/ StopCleansVeth(c)
               \/ StopMakesCgroup(c)
      <4>1. Stopper(c) /\ cpc'[c] # "idle"
        BY <1>1, <3>2 DEF StopMarkOpens, StopOpens, StopSaveOpens, StopMarkWrites,
                          StopRemovesCgroup, StopSeesExit, StopTimesOut, StopWrites,
                          StopCleansVeth, StopMakesCgroup, StopReturns, Enter, StopsOnly,
                          StopSteps
      <4> QED
        BY <3>1, <4>1 DEF Stopper
    <3>3. CASE StopChecks(c)
      BY <1>1, <3>1, <3>3 DEF StopChecks, Enter, Stopper
    <3>4. CASE Kill(c) \/ RmChecks(c) \/ Remove(c) \/ PruneLists(c) \/ PruneSweeps(c)
      BY <1>1, <3>1, <3>4 DEF Kill, RmChecks, Remove, PruneLists, PruneSweeps, Enter, Stopper, StopSteps
    <3> QED
      BY <2>2, <3>2, <3>3, <3>4 DEF CmdStep
  <2>3. CASE ~(Load(c) \/ CmdStep(c))
    <3>1. cpc'[c] = cpc[c] /\ op'[c] = op[c]
      BY <2>3, Moves
    <3> QED
      BY <3>1 DEF StopsOnly, Stopper
  <2> QED
    BY <2>1, <2>2, <2>3
<1> QED
  BY <1>2 DEF StopsOnly

\* A stop that is over stays over.
LEMMA OverStays ==
  ASSUME TypeInv, [Next]_vars, NEW c \in Cmds, Stopper(c), cpc[c] \in {"done", "error", "remove"}
  PROVE  cpc'[c] \in {"done", "error", "remove"}
<1>1. op \in [Cmds -> AllOps] /\ cpc \in [Cmds -> CmdSteps]
  BY DEF TypeInv, TypeOK, CmdTypeOK
<1>2. CASE ~(Load(c) \/ CmdStep(c))
  BY <1>2, Moves
<1>3. CASE Load(c) \/ CmdStep(c)
  <2>1. Remove(c)
    BY <1>3 DEF Load, CmdStep, StopChecks, StopSeesExit, StopTimesOut, StopMarkOpens, StopOpens,
                StopSaveOpens, StopMarkWrites, StopWrites, StopCleansVeth, StopMakesCgroup,
                StopRemovesCgroup, Kill, RmChecks, Remove, PruneLists, PruneSweeps
  <2> QED
    BY <1>1, <2>1 DEF Remove, Enter, Stopper
<1> QED
  BY <1>2, <1>3

LEMMA LimitedStep ==
  ASSUME TypeInv, ConfinedInv, StopsOnly, LimitedInv, [Next]_vars
  PROVE  LimitedInv'
<1> SUFFICES ASSUME OneStopper'
             PROVE  /\ \A p \in Pid : attached'[p] # "bare"
                    /\ UsesCgroup' /\ spc' \in InLoop =>
                         /\ cgroup' # "bare"
                         /\ cgroup' = "none" =>
                              \E c \in Cmds : Stopper(c)' /\ cpc'[c] \in {"done", "error", "remove"}
  BY DEF LimitedInv
<1>1. StopsOnly' /\ \A c \in Cmds : Stopper(c) => Stopper(c)'
  BY StopsOnlyStep
<1>2. OneStopper
  BY <1>1 DEF OneStopper
<1>3. Holders /\ Passes /\ Flows /\ config' = config
  BY HoldersKnown
<1>4. attached \in [Pid -> CgroupState] /\ cpc \in [Cmds -> CmdSteps] /\ spc \in Steps \cup Ended
  BY DEF TypeInv, TypeOK, HostTypeOK, CmdTypeOK, SupTypeOK
<1>5. \A p \in Pid : attached'[p] # "bare"
  <2>1. CASE Attach
    BY <1>2, <1>4, <2>1 DEF Attach, LimitedInv, UsesCgroup, InLoop, Steps, BeforeLoop
  <2>2. CASE ~Attach
    BY <1>2, <2>2, AttachedFrame DEF LimitedInv
  <2> QED
    BY <2>1, <2>2
<1>6. ASSUME UsesCgroup', spc' \in InLoop
      PROVE  /\ cgroup' # "bare"
             /\ cgroup' = "none" =>
                  \E c \in Cmds : Stopper(c)' /\ cpc'[c] \in {"done", "error", "remove"}
  <2>1. UsesCgroup
    BY <1>3, <1>6 DEF UsesCgroup
  <2>2. CASE MakeCgroup
    BY <2>1, <2>2 DEF MakeCgroup
  <2>3. CASE ~MakeCgroup
    <3>1. spc \in InLoop
      <4>1. ~(spc = "cgroup" /\ spc' = "clone")
        BY <1>3, <2>3 DEF Passes
      <4> QED
        BY <1>3, <1>6, <4>1 DEF Flows, Flow, InLoop, Steps, BeforeLoop
    <3>2. /\ cgroup # "bare"
          /\ cgroup = "none" =>
               \E c \in Cmds : Stopper(c) /\ cpc[c] \in {"done", "error", "remove"}
      BY <1>2, <2>1, <3>1 DEF LimitedInv
    <3>3. CASE cgroup' = cgroup
      BY <1>1, <3>2, <3>3, OverStays
    <3>4. ASSUME NEW c \in Cmds, StopMakesCgroup(c)
          PROVE  cgroup' = cgroup
      <4>1. Stopper(c) /\ cpc[c] = "mkcg"
        BY <3>4 DEF StopMakesCgroup, StopsOnly, StopSteps
      <4>2. cgroup # "none"
        BY <1>2, <3>2, <4>1 DEF OneStopper
      <4> QED
        BY <3>4, <4>2 DEF StopMakesCgroup, CgroupCreate
    <3>5. ASSUME NEW c \in Cmds, StopRemovesCgroup(c)
          PROVE  /\ cgroup' # "bare"
                 /\ Stopper(c)' /\ cpc'[c] \in {"done", "error", "remove"}
      <4>1. Stopper(c)
        BY <3>5 DEF StopRemovesCgroup, StopsOnly, StopSteps
      <4> QED
        BY <1>1, <1>4, <3>2, <3>5, <4>1 DEF StopRemovesCgroup, CgroupDestroy, StopReturns, Enter
    <3>6. CASE cgroup' # cgroup
      <4>1. ~RemoveCgroup /\ ~SetupFails
        BY <1>6 DEF RemoveCgroup, SetupFails, Goto, InLoop, Steps
      <4> QED
        BY <1>3, <2>3, <3>4, <3>5, <3>6, <4>1 DEF Holders
    <3> QED
      BY <3>3, <3>6
  <2> QED
    BY <2>2, <2>3
<1> QED
  BY <1>5, <1>6

\* With at most one stop the cgroup of an iteration is the one that was made with limits,
\* until the supervisor removes it (container.rs 217-232, 340, 711).
THEOREM Limited == Spec => [](StopsOnly /\ LimitedInv)
<1>1. Init => StopsOnly /\ LimitedInv
  BY DEF Init, HostInit, SupInit, CmdInit, StopsOnly, StopSteps, LimitedInv, InLoop, BeforeLoop
<1>2. TypeInv /\ ConfinedInv /\ (StopsOnly /\ LimitedInv) /\ [Next]_vars =>
        (StopsOnly /\ LimitedInv)'
  BY StopsOnlyStep, LimitedStep
<1> QED
  BY <1>1, <1>2, TypeCorrect, Confined, PTL DEF Spec

\* A program has the limits that were asked for, however many commands kill or remove the
\* container, as long as at most one stop or forge down is among them (container.rs 711).
THEOREM LimitedUnlessStopsMeet == Spec => [](OneStopper => StartsLimited)
<1>1. TypeInv /\ ConfinedInv /\ (StopsOnly /\ LimitedInv) => (OneStopper => StartsLimited)
  BY DEF TypeInv, TypeOK, HostTypeOK, ConfinedInv, LimitedInv, StartsConfined, StartsLimited,
         CgroupState
<1> QED
  BY <1>1, TypeCorrect, Confined, Limited, PTL

\* ...so it has when there is one command, of whatever kind.
COROLLARY StartsLimitedSafe ==
  ASSUME \A c, d \in Cmds : c = d
  PROVE  Spec => []StartsLimited
<1>1. OneStopper
  BY DEF OneStopper
<1> QED
  BY <1>1, LimitedUnlessStopsMeet, PTL

-----------------------------------------------------------------------------
(* The pair of the child that is let go.                                   *)

\* When the supervisor is about to write the byte, the pair is in the child's
\* namespace, if the child lives and no command has deleted the pair.
ConnectedInv ==
  spc = "signal" /\ UsesVeth /\ Live(child) =>
    veth = child \/ \E c \in Cmds : Cuts(c)

\* Only prune sweeps.
PrunesOnly == \A c \in Cmds : cpc[c] \in {"sweep", "listed"} => op[c] = "prune"

LEMMA PrunesOnlyStep ==
  ASSUME TypeInv, PrunesOnly, [Next]_vars
  PROVE  PrunesOnly'
<1> SUFFICES ASSUME NEW c \in Cmds, cpc'[c] \in {"sweep", "listed"}
             PROVE  op'[c] = "prune"
  BY DEF PrunesOnly
<1>1. op \in [Cmds -> AllOps] /\ cpc \in [Cmds -> CmdSteps]
  BY DEF TypeInv, TypeOK, CmdTypeOK
<1>2. CASE Load(c)
  BY <1>1, <1>2 DEF Load, LoadForStop, LoadForKill, LoadForRm, LoadForPrune, Enter
<1>3. CASE CmdStep(c)
  <2>1. Remove(c) \/ PruneLists(c)
    BY <1>1, <1>3 DEF CmdStep, StopChecks, StopSeesExit, StopTimesOut, StopMarkOpens,
         StopOpens, StopSaveOpens, StopMarkWrites, StopWrites, StopCleansVeth,
         StopMakesCgroup, StopRemovesCgroup, Kill, RmChecks, PruneSweeps, StopReturns, Enter
  <2> QED
    BY <1>1, <2>1 DEF Remove, PruneLists, Enter, PrunesOnly
<1>4. CASE ~(Load(c) \/ CmdStep(c))
  BY <1>4, Moves DEF PrunesOnly
<1> QED
  BY <1>2, <1>3, <1>4

\* A command that may have deleted the pair stays one.
LEMMA CutsStay ==
  ASSUME TypeInv, [Next]_vars, NEW c \in Cmds, Cuts(c)
  PROVE  Cuts(c)'
<1>1. op \in [Cmds -> AllOps] /\ cpc \in [Cmds -> CmdSteps] /\ config' = config
  BY HoldersKnown DEF TypeInv, TypeOK, CmdTypeOK
<1>2. cpc[c] \in {"mkcg", "rmcg", "remove", "done"}
  BY DEF Cuts
<1>3. CASE cpc'[c] # cpc[c] \/ op'[c] # op[c]
  <2>1. StopMakesCgroup(c) \/ StopRemovesCgroup(c) \/ Remove(c)
    BY <1>2, <1>3, Moves DEF Load, CmdStep, StopChecks, StopSeesExit, StopTimesOut,
         StopMarkOpens, StopOpens, StopSaveOpens, StopMarkWrites, StopWrites,
         StopCleansVeth, Kill, RmChecks, PruneLists, PruneSweeps
  <2> QED
    BY <1>1, <2>1 DEF StopMakesCgroup, StopRemovesCgroup, Remove, StopReturns, Enter, Cuts
<1> QED
  BY <1>1, <1>3 DEF Cuts

\* Who takes the child's pair away before the byte is written.
LEMMA CutsKnown ==
  ASSUME TypeInv, StopsOnly, PrunesOnly, [Next]_vars, spc' = spc, spc = "signal", veth = child,
         veth' # veth, Live(child)
  PROVE  (\E c \in Cmds : Cuts(c))' \/ ~UsesVeth
<1> USE DEF hostVars, supVars, UnchangedKernel
<1>1. op \in [Cmds -> AllOps] /\ cpc \in [Cmds -> CmdSteps] /\ config' = config
  BY HoldersKnown DEF TypeInv, TypeOK, CmdTypeOK
<1>2. ~(SupStep \/ Crash)
  BY SupHolders DEF Holders, SetupNetwork, NetworkFails, SupStep, Crash, Goto, MakeDir,
       MakeRootfs, EnsureBridge, MakeCgroup, Clone, Attach, SaveCreatedOpen,
       SaveRunningOpen, SaveStoppedOpen, BeginSave, SaveCreatedWrite, SaveRunningWrite,
       SaveStoppedWrite, EndSave, SignalChild, PtyForward, WaitChild, Decide, NetworkDown,
       Unregister, Unmount, RemoveCgroup, AutoRemove, SetupFails
<1>3. ~KernelStep
  BY DEF KernelStep, ExecProgram, InitFails, ProgramExits, KilledDies, OutOfMemory,
         InitReaps, NetnsGone, Live
<1>4. ~UNCHANGED vars
  BY DEF vars
<1>5. PICK c \in Cmds : Load(c) \/ CmdStep(c)
  BY <1>2, <1>3, <1>4 DEF Next
<1>6. StopCleansVeth(c) \/ PruneSweeps(c)
  BY <1>5 DEF Load, CmdStep, StopChecks, StopSeesExit, StopTimesOut,
       StopMarkOpens, StopOpens, StopSaveOpens, StopMarkWrites, StopWrites,
       StopMakesCgroup, StopRemovesCgroup, Kill, RmChecks, Remove, PruneLists
<1> QED
  <2>1. CASE StopCleansVeth(c)
    BY <1>1, <2>1 DEF StopCleansVeth, Enter, Cuts, StopsOnly, StopSteps, Stopper
  <2>2. CASE PruneSweeps(c)
    BY <1>1, <2>2 DEF PruneSweeps, Enter, Cuts, PrunesOnly
  <2> QED
    BY <1>6, <2>1, <2>2

LEMMA ConnectedStep ==
  ASSUME TypeInv, StopsOnly, PrunesOnly, ConnectedInv, [Next]_vars
  PROVE  ConnectedInv'
<1> SUFFICES ASSUME spc' = "signal", UsesVeth', Live(child)'
             PROVE  (veth = child \/ \E c \in Cmds : Cuts(c))'
  BY DEF ConnectedInv
<1>1. Flows /\ Passes /\ config' = config
  BY HoldersKnown
<1>2. child \in Pid /\ child' = child /\ Evolves
  <2>1. ~Clone /\ ~Decide
    BY DEF Clone, Decide, Goto
  <2>2. child' = child /\ Evolves
    BY <2>1, Frame
  <2>3. spc \in {"network", "signal"}
    BY <1>1 DEF Flows, Flow
  <2> QED
    BY <2>2, <2>3 DEF TypeInv, TypeOK, SupTypeOK, ChildKnown, Iteration, Pid, NoPid
<1>3. Live(child) /\ UsesVeth
  BY <1>1, <1>2 DEF Evolves, UsesVeth
<1>4. CASE spc = "network"
  <2>1. SetupNetwork
    BY <1>1, <1>4 DEF Passes
  <2> QED
    BY <1>2, <1>3, <2>1 DEF SetupNetwork
<1>5. CASE spc = "signal" /\ veth = child
  BY <1>2, <1>3, <1>5, CutsKnown
<1>6. CASE spc = "signal" /\ \E c \in Cmds : Cuts(c)
  BY <1>6, CutsStay
<1> QED
  BY <1>1, <1>3, <1>4, <1>5, <1>6 DEF Flows, Flow, ConnectedInv

\* The byte is written after the pair was moved into the child's namespace, and only stop
\* and prune can have deleted it in between (container.rs 350-413).
THEOREM Connected == Spec => [](PrunesOnly /\ ConnectedInv)
<1>1. Init => PrunesOnly /\ ConnectedInv
  BY DEF Init, CmdInit, SupInit, PrunesOnly, ConnectedInv
<1>2. TypeInv /\ (StopsOnly /\ LimitedInv) /\ (PrunesOnly /\ ConnectedInv) /\ [Next]_vars =>
        (PrunesOnly /\ ConnectedInv)'
  BY PrunesOnlyStep, ConnectedStep
<1> QED
  BY <1>1, <1>2, TypeCorrect, Limited, PTL DEF Spec

\* A program is let go into the container's cgroup and, unless stop or prune has deleted
\* the pair since, into its network, whatever commands run meanwhile (container.rs 338-413).
THEOREM StartsConfinedSafe == Spec => StartsConfined
<1>1. TypeInv /\ Numbered /\ ConfinedInv /\ ConnectedInv /\ [Next]_vars =>
        [\A p \in Pid : ~Released(p) /\ Released(p)' =>
           /\ UsesCgroup => attached[p] # "none"
           /\ UsesVeth => veth = p \/ \E c \in Cmds : Cuts(c)]_vars
  <2> SUFFICES ASSUME TypeInv, Numbered, ConfinedInv, ConnectedInv, [Next]_vars,
                      NEW p \in Pid, ~Released(p), Released(p)'
               PROVE  /\ UsesCgroup => attached[p] # "none"
                      /\ UsesVeth => veth = p \/ \E c \in Cmds : Cuts(c)
    OBVIOUS
  <2>1. Evolves
    <3>1. CASE Clone
      <4>1. proc' = [proc EXCEPT ![child'] = "blocked"]
        BY <3>1, NextPid
      <4> QED
        BY <4>1 DEF Released, TypeInv, TypeOK, HostTypeOK
    <3>2. CASE ~Clone
      BY <3>2, Frame, DecideFrame
    <3> QED
      BY <3>1, <3>2
  <2>2. p = child /\ spc = "signal" /\ Live(p)
    BY <2>1 DEF Evolves, Released, Live
  <2> QED
    BY <2>2 DEF ConfinedInv, ConnectedInv
<1>2. (PrunesOnly /\ ConnectedInv) => ConnectedInv
  OBVIOUS
<1>3. (Numbered /\ OneInv) => Numbered
  OBVIOUS
<1> QED
  BY <1>1, <1>2, <1>3, TypeCorrect, OneAtATime, Confined, Connected, PTL DEF Spec, StartsConfined

-----------------------------------------------------------------------------
(* The supervisor implements the lifecycle.                                *)

\* Nobody but kill acts on the container, and it has no PTY.
Undisturbed == (\A k \in Configs : ~k.tty) /\ Ops \subseteq {"kill"}

\* Until when the record says what.
NotYet    == {"start", "rootfs", "create", "createW"}
Created   == {"bridge", "cgroup", "clone", "attach", "network", "signal", "running", "runningW"}
Ran       == {"forward", "wait", "netdown", "decide", "stopped", "stoppedW"}
Published == {"unregister", "unmount", "rmcgroup", "autoremove"}
Writing   == {"createW", "runningW", "stoppedW"}

KillsOnly ==
  \A c \in Cmds : /\ cpc[c] \in {"idle", "check", "done", "error"}
                  /\ cpc[c] = "check" => op[c] = "kill"

\* state.json is what the supervisor has made it, and it writes where it has opened.
FileInv ==
  /\ spc \in Steps \ {"start"} => dir
  /\ spc \in Writing => Sup \in openFds /\ stateFile.status = "empty"
  /\ spc \in NotYet \ {"createW"} => stateFile.status = "absent"
  /\ spc \in Created \ {"runningW"} =>
       stateFile.status = IF restarts = 0 THEN "created" ELSE "running"
  /\ spc \in Ran \ {"stoppedW"} => stateFile.status = "running"
  /\ spc \in Published => stateFile.status = "stopped"
  /\ spc = "done" => stateFile.status \in {"stopped", "absent"}
  /\ spc \in BeforeLoop => restarts = 0
  /\ spc = "createW"  => mem.status = "created"
  /\ spc = "runningW" => mem.status = "running"
  /\ spc = "stoppedW" => mem.status = "stopped" /\ mem.exit = code

\* The code it goes by is the one of the last program.
Again ==
  \/ config.policy = "always"
  \/ /\ config.policy = "on-failure"
     /\ exitOf[child] # 0
     /\ config.max = 0 \/ child <= config.max
CodeInv ==
  /\ \A p \in Pid : proc[p] \notin {"zombie", "reaped"} => exitOf[p] = None
  /\ spc \in (Ran \ {"forward", "wait"}) \cup Published => code = exitOf[child]
  /\ spc = "clone" /\ child # NoPid => Again
  /\ spc \in {"stopped", "stoppedW"} => ~Again

AloneInv == KillsOnly /\ FileInv /\ CodeInv

\* A kill changes nothing but processes.
LEMMA KillsStep ==
  ASSUME TypeInv, Undisturbed, KillsOnly, NEW c \in Cmds, Load(c) \/ CmdStep(c)
  PROVE  /\ KillsOnly'
         /\ UNCHANGED <<config, diskVars, exitOf, supVars>>
         /\ \A p \in Pid : Live(p)' <=> Live(p)
         /\ \A p \in Pid : proc'[p] \in {"zombie", "reaped"} <=> proc[p] \in {"zombie", "reaped"}
<1>1. /\ op \in [Cmds -> AllOps] /\ cpc \in [Cmds -> CmdSteps]
      /\ proc \in [Pid -> ProcState]
  BY DEF TypeInv, TypeOK, CmdTypeOK, HostTypeOK
<1>2. CASE Load(c)
  <2>1. op'[c] = "kill" /\ LoadForKill(c)
    BY <1>1, <1>2 DEF Load, LoadForStop, LoadForKill, LoadForRm, LoadForPrune, Undisturbed
  <2>2. UNCHANGED <<config, diskVars, exitOf, supVars, proc>>
    BY <1>2 DEF Load, hostVars
  <2>3. KillsOnly'
    BY <1>1, <1>2, <2>1 DEF Load, LoadForKill, Enter, KillsOnly
  <2> QED
    BY <2>2, <2>3 DEF Live
<1>3. CASE CmdStep(c)
  <2>1. Kill(c)
    BY <1>3 DEF KillsOnly, CmdStep, StopChecks, StopSeesExit, StopTimesOut, StopMarkOpens,
                StopOpens, StopSaveOpens, StopMarkWrites, StopWrites, StopCleansVeth,
                StopMakesCgroup, StopRemovesCgroup, Kill, RmChecks, Remove, PruneLists, PruneSweeps
  <2>2. KillsOnly'
    BY <1>1, <2>1 DEF Kill, Enter, KillsOnly
  <2> QED
    BY <1>1, <2>1, <2>2 DEF Kill, KillProcess, UnchangedKernel, Live
<1> QED
  BY <1>2, <1>3

\* Only programs that die change what the supervisor will find, and only clone() and they
\* change what is alive.
LEMMA SupKeepsLives ==
  ASSUME TypeInv, SupStep \/ Crash, ~Clone
  PROVE  /\ exitOf' = exitOf
         /\ \A p \in Pid : Live(p)' <=> Live(p)
         /\ \A p \in Pid : proc'[p] \in {"zombie", "reaped"} <=> proc[p] \in {"zombie", "reaped"}
<1>1. proc \in [Pid -> ProcState]
  BY DEF TypeInv, TypeOK, HostTypeOK
<1> USE <1>1 DEF Live, hostVars
<1>2. CASE MakeDir \/ MakeRootfs \/ EnsureBridge \/ MakeCgroup
  BY <1>2 DEF MakeDir, MakeRootfs, EnsureBridge, MakeCgroup
<1>3. CASE SaveCreatedOpen \/ SaveRunningOpen \/ SaveStoppedOpen
  BY <1>3 DEF SaveCreatedOpen, SaveRunningOpen, SaveStoppedOpen, BeginSave
<1>4. CASE SaveCreatedWrite \/ SaveRunningWrite \/ SaveStoppedWrite
  BY <1>4 DEF SaveCreatedWrite, SaveRunningWrite, SaveStoppedWrite, EndSave
<1>5. CASE Attach \/ SetupNetwork \/ NetworkFails \/ Decide
  BY <1>5 DEF Attach, SetupNetwork, NetworkFails, Decide
<1>6. CASE SignalChild \/ PtyForward \/ WaitChild
  BY <1>6 DEF SignalChild, PtyForward, WaitChild
<1>7. CASE NetworkDown \/ Unregister \/ Unmount \/ RemoveCgroup \/ AutoRemove
  BY <1>7 DEF NetworkDown, Unregister, Unmount, RemoveCgroup, AutoRemove
<1>8. CASE SetupFails \/ Crash
  BY <1>8 DEF SetupFails, Crash
<1> QED
  BY <1>2, <1>3, <1>4, <1>5, <1>6, <1>7, <1>8 DEF SupStep

LEMMA KernelLives ==
  ASSUME TypeInv, KernelStep
  PROVE  \/ /\ exitOf' = exitOf
            /\ \A p \in Pid : Live(p)' <=> Live(p)
            /\ \A p \in Pid : proc'[p] \in {"zombie", "reaped"} <=> proc[p] \in {"zombie", "reaped"}
         \/ \E p \in Pid, status \in Codes : Live(p) /\ Die(p, status)
<1>1. proc \in [Pid -> ProcState]
  BY DEF TypeInv, TypeOK, HostTypeOK
<1>2. ASSUME NEW p \in Pid, InitFails(p) \/ ProgramExits(p) \/ KilledDies(p)
      PROVE  \E status \in Codes : Live(p) /\ Die(p, status)
  BY <1>2 DEF InitFails, ProgramExits, KilledDies, Live, Codes
<1>3. ASSUME NEW p \in Pid, ExecProgram(p) \/ OutOfMemory(p) \/ InitReaps(p)
      PROVE  /\ exitOf' = exitOf
             /\ \A q \in Pid : Live(q)' <=> Live(q)
             /\ \A q \in Pid : proc'[q] \in {"zombie", "reaped"} <=> proc[q] \in {"zombie", "reaped"}
  BY <1>1, <1>3 DEF ExecProgram, OutOfMemory, InitReaps, KillProcess, Live
<1>4. CASE NetnsGone
  BY <1>4 DEF NetnsGone, Live
<1> QED
  BY <1>2, <1>3, <1>4 DEF KernelStep

LEMMA FileStep ==
  ASSUME TypeInv, Undisturbed, KillsOnly, FileInv, [Next]_vars
  PROVE  FileInv'
<1> USE DEF FileInv, NotYet, Created, Ran, Published, Writing, BeforeLoop, Steps, Goto
<1>1. config \in Configs /\ ~config.tty /\ mem \in Record /\ restarts \in Nat
  BY DEF Undisturbed, TypeInv, TypeOK, HostTypeOK, SupTypeOK
<1>2. CASE MakeDir \/ MakeRootfs \/ EnsureBridge \/ MakeCgroup
  <2>1. CASE MakeDir
    BY <2>1 DEF MakeDir
  <2>2. CASE MakeRootfs
    BY <2>2 DEF MakeRootfs, diskVars
  <2>3. CASE EnsureBridge \/ MakeCgroup
    BY <2>3 DEF EnsureBridge, MakeCgroup, diskVars, hostVars
  <2> QED
    BY <1>2, <2>1, <2>2, <2>3
<1>3. CASE SaveCreatedOpen
  BY <1>3, RecordFields DEF SaveCreatedOpen, BeginSave, OpenState, CreatedRecord, Blank
<1>4. CASE SaveRunningOpen
  BY <1>1, <1>4, RecordFields DEF SaveRunningOpen, BeginSave, OpenState, RunningRecord, Blank
<1>5. CASE SaveStoppedOpen
  BY <1>1, <1>5, RecordFields DEF SaveStoppedOpen, BeginSave, OpenState, StoppedRecord, Blank, Record
<1>6. CASE SaveCreatedWrite
  BY <1>6 DEF SaveCreatedWrite, EndSave, WriteState
<1>7. CASE SaveRunningWrite
  BY <1>1, <1>7 DEF SaveRunningWrite, EndSave, WriteState
<1>8. CASE SaveStoppedWrite
  BY <1>8 DEF SaveStoppedWrite, EndSave, WriteState
<1>9. CASE Clone \/ Attach \/ SetupNetwork \/ NetworkFails \/ SignalChild
  BY <1>9 DEF Clone, Attach, SetupNetwork, NetworkFails, SignalChild, diskVars
<1>10. CASE PtyForward \/ WaitChild \/ NetworkDown
  BY <1>10 DEF PtyForward, WaitChild, NetworkDown, diskVars
<1>11. CASE Decide
  BY <1>1, <1>11 DEF Decide, hostVars, diskVars
<1>12. CASE Unregister \/ Unmount \/ RemoveCgroup
  BY <1>12 DEF Unregister, Unmount, RemoveCgroup, diskVars
<1>13. CASE AutoRemove
  <2>1. spc' = "done" /\ restarts' = restarts /\ stateFile.status = "stopped"
    BY <1>13 DEF AutoRemove
  <2>2. stateFile' \in {stateFile, Blank("absent")}
    BY <1>13 DEF AutoRemove, RemoveDir, diskVars
  <2>3. stateFile'.status \in {"stopped", "absent"}
    BY <2>1, <2>2 DEF Blank
  <2> QED
    BY <2>1, <2>3
<1>14. CASE SetupFails \/ Crash
  BY <1>14 DEF SetupFails, Crash
<1>15. CASE UNCHANGED <<diskVars, supVars>>
  BY <1>15 DEF diskVars, supVars
<1>16. CASE KernelStep \/ \E c \in Cmds : Load(c) \/ CmdStep(c)
  BY <1>15, <1>16, KernelFrame, KillsStep
<1>17. CASE UNCHANGED vars
  BY <1>15, <1>17 DEF vars, hostVars
<1> QED
  BY <1>2, <1>3, <1>4, <1>5, <1>6, <1>7, <1>8, <1>9, <1>10, <1>11, <1>12, <1>13, <1>14, <1>16,
     <1>17 DEF Next, SupStep

\* Nothing dies outside the loop.
LEMMA CodeStep ==
  ASSUME TypeInv, Numbered, OneInv, RestartInv, Undisturbed, KillsOnly, FileInv, CodeInv, [Next]_vars
  PROVE  CodeInv'
<1> USE DEF NotYet, Ran, Published
<1>1. /\ config \in Configs /\ ~config.tty /\ restarts \in Nat /\ child \in Nat
      /\ config.max \in Nat /\ spc \in Steps \cup Ended
      /\ exitOf \in [Pid -> Codes \cup {None}] /\ proc \in [Pid -> ProcState]
  BY HostAssumption DEF Undisturbed, TypeInv, TypeOK, HostTypeOK, SupTypeOK, Config
<1>2. CASE Clone
  <2>1. proc' = [proc EXCEPT ![child'] = "blocked"] /\ proc[child'] = "none" /\ child' \in Pid
    BY <1>2, NextPid
  <2>2. exitOf' = exitOf /\ spc' = "attach"
    BY <1>2 DEF Clone, Goto
  <2> QED
    BY <1>1, <2>1, <2>2 DEF CodeInv
<1>3. CASE (SupStep \/ Crash) /\ ~Clone
  <2>1. /\ exitOf' = exitOf
        /\ \A p \in Pid : proc'[p] \in {"zombie", "reaped"} <=> proc[p] \in {"zombie", "reaped"}
    BY <1>3, SupKeepsLives
  <2>2. UNCHANGED <<config, child>> /\ Flows
    BY <1>3, Frame, DecideFrame
  <2>3. CASE WaitChild
    <3>1. code' = exitOf[child] /\ spc' = "netdown"
      BY <1>1, <2>3 DEF WaitChild, Goto
    <3> QED
      BY <2>1, <2>2, <3>1 DEF CodeInv
  <2>4. CASE Decide
    <3>1. spc = "decide" /\ code' = code /\ code = exitOf[child] /\ child = restarts + 1
      BY <1>1, <2>4 DEF Decide, CodeInv, RestartInv, AfterClone, Steps, BeforeLoop
    <3>2. ShouldRestart <=> Again
      BY <1>1, <3>1 DEF ShouldRestart, Again
    <3>3. spc' = IF ShouldRestart THEN "clone" ELSE "stopped"
      BY <2>4 DEF Decide, Goto
    <3>4. Again' <=> Again
      BY <2>1, <2>2 DEF Again
    <3> QED
      BY <2>1, <2>2, <3>1, <3>2, <3>3, <3>4 DEF CodeInv
  <2>5. CASE ~WaitChild /\ ~Decide
    <3>1. code' = code
      BY <1>3, <2>5 DEF SupStep, MakeDir, MakeRootfs, EnsureBridge, MakeCgroup, SaveCreatedOpen,
           SaveRunningOpen, SaveStoppedOpen, BeginSave, SaveCreatedWrite, SaveRunningWrite,
           SaveStoppedWrite, EndSave, Attach, SetupNetwork, NetworkFails, SignalChild, PtyForward,
           NetworkDown, Unregister, Unmount, RemoveCgroup, AutoRemove, SetupFails, Crash
    <3>2. ~(spc = "wait" /\ spc' = "netdown") /\ ~(spc = "decide" /\ spc' = "clone")
          /\ ~(spc = "decide" /\ spc' = "stopped")
      BY <1>3, <2>5, SupHolders DEF Passes
    <3>3. spc \in BeforeLoop => child = NoPid
      BY <1>1 DEF RestartInv, FileInv, NoPid
    <3>4. Again' <=> Again
      BY <2>1, <2>2 DEF Again
    <3> QED
      BY <2>1, <2>2, <3>1, <3>2, <3>3, <3>4 DEF CodeInv, Flows, Flow, BeforeLoop
  <2> QED
    BY <2>3, <2>4, <2>5
<1>4. CASE \E c \in Cmds : Load(c) \/ CmdStep(c)
  BY <1>4, KillsStep DEF CodeInv, Again, supVars
<1>5. CASE KernelStep
  <2>1. UNCHANGED <<config, supVars>>
    BY <1>5, KernelFrame
  <2>2. CASE /\ exitOf' = exitOf
             /\ \A p \in Pid : proc'[p] \in {"zombie", "reaped"} <=> proc[p] \in {"zombie", "reaped"}
    BY <2>1, <2>2 DEF CodeInv, Again, supVars
  <2>3. ASSUME NEW p \in Pid, NEW status \in Codes, Live(p), Die(p, status)
        PROVE  CodeInv'
    <3>1. spc \in Iteration \cup {"failed", "crashed"}
      BY <1>1, <2>3 DEF OneInv
    <3>2. spc' = spc
      BY <2>1 DEF supVars
    <3>3. \A q \in Pid : proc'[q] \notin {"zombie", "reaped"} => exitOf'[q] = None
      BY <1>1, <2>3 DEF Die, CodeInv
    <3> QED
      BY <3>1, <3>2, <3>3 DEF CodeInv, Iteration
  <2> QED
    BY <1>5, <2>2, <2>3, KernelLives
<1>6. CASE UNCHANGED vars
  BY <1>6 DEF vars, hostVars, supVars, CodeInv, Again
<1> QED
  BY <1>2, <1>3, <1>4, <1>5, <1>6 DEF Next

LEMMA KillsOnlyStep ==
  ASSUME TypeInv, Undisturbed, KillsOnly, [Next]_vars
  PROVE  KillsOnly'
<1>1. CASE \E c \in Cmds : Load(c) \/ CmdStep(c)
  BY <1>1, KillsStep
<1>2. CASE UNCHANGED cmdVars
  BY <1>2 DEF KillsOnly, cmdVars
<1>3. CASE SupStep \/ Crash
  <2>1. UNCHANGED cmdVars
    BY <1>3 DEF SupStep, MakeDir, MakeRootfs, EnsureBridge, MakeCgroup, SaveCreatedOpen, Clone,
         SaveRunningOpen, SaveStoppedOpen, BeginSave, SaveCreatedWrite, SaveRunningWrite,
         SaveStoppedWrite, EndSave, Attach, SetupNetwork, NetworkFails, SignalChild, PtyForward,
         WaitChild, NetworkDown, Decide, Unregister, Unmount, RemoveCgroup, AutoRemove,
         SetupFails, Crash
  <2> QED
    BY <1>2, <2>1
<1>4. CASE KernelStep
  BY <1>2, <1>4, KernelFrame
<1> QED
  BY <1>1, <1>2, <1>3, <1>4 DEF Next, vars

\* Left alone but for kills, the file says what the supervisor has saved last, and the code
\* is that of the child it has reaped (container.rs 262-494).
THEOREM Alone ==
  ASSUME Undisturbed
  PROVE  Spec => []AloneInv
<1>1. Init => AloneInv
  BY DEF Init, HostInit, SupInit, CmdInit, AloneInv, KillsOnly, FileInv, CodeInv, NotYet, Created,
         Ran, Published, Writing, BeforeLoop, Blank
<1>2. TypeInv /\ (Numbered /\ OneInv) /\ RestartInv /\ AloneInv /\ [Next]_vars => AloneInv'
  BY KillsOnlyStep, FileStep, CodeStep DEF AloneInv
<1> QED
  BY <1>1, <1>2, TypeCorrect, OneAtATime, RestartsBounded, PTL DEF Spec

\* What the record says, by where the supervisor is.
StatusInv ==
  /\ spc \in NotYet => AbsStatus = "absent"
  /\ spc \in Created => AbsStatus = IF restarts = 0 THEN "created" ELSE "running"
  /\ spc \in Ran => AbsStatus = "running"
  /\ spc \in Published => AbsStatus = "stopped"
  /\ spc = "done" => AbsStatus = IF stateFile.status = "stopped" THEN "stopped" ELSE "removed"

LEMMA StatusIs ==
  /\ FileInv => StatusInv
  /\ FileInv' => StatusInv'
  BY DEF FileInv, StatusInv, AbsStatus, Readable, SupGone, Ended, NotYet, Created, Ran, Published,
         Writing, Steps

\* What only processes, and what only the record changes of it.
AbsExit == IF AbsStatus = "stopped" THEN stateFile.exit ELSE None
AbsLive == \E p \in Pid : Live(p)
AbsLast == IF child = NoPid THEN None ELSE exitOf[child]
AbsRuns == <<config.policy, config.max, child, AbsLive, AbsLast>>

LEMMA RunsKept ==
  ASSUME UNCHANGED <<config, child, exitOf>>, \A p \in Pid : Live(p)' <=> Live(p)
  PROVE  UNCHANGED AbsRuns
  BY DEF AbsRuns, AbsLive, AbsLast

LEMMA LifeStutters ==
  ASSUME UNCHANGED AbsRuns, AbsStatus' = AbsStatus, AbsExit' = AbsExit
  PROVE  UNCHANGED Life!vars
  BY DEF AbsRuns, AbsExit, AbsLive, AbsLast, Life!vars

\* clone() launches a program.
LEMMA CloneLaunches ==
  ASSUME TypeInv, Numbered, OneInv, RestartInv, Undisturbed, AloneInv, AloneInv', Clone
  PROVE  Life!Launch
<1>1. /\ child' = child + 1 /\ child' \in Pid /\ child \in Nat
      /\ proc' = [proc EXCEPT ![child'] = "blocked"] /\ proc[child'] = "none"
  BY NextPid, HostAssumption DEF TypeInv, TypeOK, SupTypeOK
<1>2. /\ spc = "clone" /\ spc' = "attach" /\ UNCHANGED <<config, exitOf, stateFile, restarts>>
  BY DEF Clone, Goto, diskVars
<1>3. /\ proc \in [Pid -> ProcState] /\ ~config.tty
  BY DEF TypeInv, TypeOK, HostTypeOK, Undisturbed
<1>4. /\ AbsStatus = IF restarts = 0 THEN "created" ELSE "running"
      /\ AbsStatus' = AbsStatus
  BY <1>2, StatusIs DEF AloneInv, StatusInv, Created
<1>5. AbsLive = FALSE /\ AbsLive' = TRUE
  <2>1. ~AbsLive
    BY <1>2, <1>3 DEF OneInv, Iteration, AbsLive
  <2>2. AbsLive'
    BY <1>1, <1>3 DEF AbsLive, Live
  <2> QED
    BY <2>1, <2>2 DEF AbsLive
<1>6. AbsLast' = None
  BY <1>1, <1>2 DEF AbsLast, AloneInv, CodeInv, NoPid
<1>7. AbsExit' = AbsExit
  BY <1>4 DEF AbsExit
<1>8. child > 0 => /\ Again
                   /\ AbsLast = exitOf[child]
  BY <1>2 DEF AloneInv, CodeInv, AbsLast, NoPid
<1> HIDE DEF AbsStatus
<1>9. child > 0 => Life!Again
  BY <1>8 DEF Again, AbsLast, Life!Again
<1> QED
  BY <1>1, <1>2, <1>4, <1>5, <1>6, <1>7, <1>9 DEF Life!Launch, AbsExit, AbsLive, AbsLast

\* The steps of the supervisor, by the two phases that they join.
LEMMA Phases ==
  ASSUME TypeInv, Undisturbed, FileInv, SupStep \/ Crash, ~Clone
  PROVE  \/ spc \in NotYet /\ spc' \in NotYet
         \/ spc = "createW" /\ spc' = "bridge" /\ restarts' = restarts
         \/ spc \in Created /\ spc' \in Created /\ restarts' = restarts
         \/ spc = "runningW" /\ spc' \in Ran
         \/ spc \in Ran /\ spc' \in Ran
         \/ spc = "decide" /\ spc' = "clone" /\ restarts' # 0
         \/ SaveStoppedWrite
         \/ spc \in Published /\ spc' \in Published /\ stateFile' = stateFile
         \/ AutoRemove
         \/ spc \in Steps /\ spc' \in {"failed", "crashed"} /\ stateFile' = stateFile
<1> USE DEF NotYet, Created, Ran, Published, Goto
<1>1. CASE MakeDir \/ MakeRootfs \/ SaveCreatedOpen \/ SaveCreatedWrite
  BY <1>1 DEF MakeDir, MakeRootfs, SaveCreatedOpen, SaveCreatedWrite, BeginSave, EndSave, FileInv,
              Steps
<1>2. CASE EnsureBridge \/ MakeCgroup \/ Attach \/ SetupNetwork \/ NetworkFails \/ SignalChild
  BY <1>2 DEF EnsureBridge, MakeCgroup, Attach, SetupNetwork, NetworkFails, SignalChild, Steps,
              diskVars
<1>3. CASE SaveRunningOpen \/ SaveRunningWrite
  BY <1>3 DEF SaveRunningOpen, SaveRunningWrite, BeginSave, EndSave, FileInv, Steps
<1>4. CASE PtyForward \/ WaitChild \/ NetworkDown \/ SaveStoppedOpen
  BY <1>4 DEF PtyForward, WaitChild, NetworkDown, SaveStoppedOpen, BeginSave, FileInv, Steps
<1>5. CASE Decide
  BY <1>5 DEF Decide, TypeInv, TypeOK, SupTypeOK
<1>6. CASE Unregister \/ Unmount \/ RemoveCgroup
  BY <1>6 DEF Unregister, Unmount, RemoveCgroup, diskVars
<1>7. CASE SetupFails \/ Crash
  BY <1>7 DEF SetupFails, Crash, SupGone, Steps, TypeInv, TypeOK, SupTypeOK
<1> QED
  BY <1>1, <1>2, <1>3, <1>4, <1>5, <1>6, <1>7 DEF SupStep

\* The supervisor publishes what the lifecycle lets it publish.
LEMMA SupPublishes ==
  ASSUME TypeInv, Numbered, OneInv, RestartInv, Undisturbed, AloneInv, AloneInv',
         SupStep \/ Crash, ~Clone
  PROVE  [Life!Next]_Life!vars
<1>1. UNCHANGED AbsRuns
  <2>1. UNCHANGED <<config, child>>
    BY Frame, DecideFrame DEF Next
  <2> QED
    BY <2>1, SupKeepsLives, RunsKept
<1>2. StatusInv /\ StatusInv' /\ FileInv /\ FileInv'
  BY StatusIs DEF AloneInv
<1>3. ASSUME AbsStatus' = AbsStatus, AbsStatus # "stopped"
      PROVE  UNCHANGED Life!vars
  <2>1. AbsExit' = AbsExit
    BY <1>3 DEF AbsExit
  <2> QED
    BY <1>1, <1>3, <2>1, LifeStutters
<1>4. CASE \/ spc \in NotYet /\ spc' \in NotYet
           \/ spc \in Created /\ spc' \in Created /\ restarts' = restarts
           \/ spc \in Ran /\ spc' \in Ran
           \/ spc = "decide" /\ spc' = "clone" /\ restarts' # 0
  <2>1. AbsStatus' = AbsStatus /\ AbsStatus # "stopped"
    BY <1>2, <1>4 DEF StatusInv, Ran, Created
  <2> QED
    BY <1>3, <2>1
<1>5. CASE spc = "createW" /\ spc' = "bridge" /\ restarts' = restarts
  <2>1. AbsStatus = "absent" /\ AbsStatus' = "created"
    BY <1>2, <1>5 DEF StatusInv, NotYet, Created, FileInv, BeforeLoop
  <2> QED
    BY <1>1, <2>1 DEF Life!Next, Life!PublishCreated, AbsRuns, AbsLive, AbsLast
<1>6. CASE spc = "runningW" /\ spc' \in Ran
  <2>1. AbsStatus \in {"created", "running"} /\ AbsStatus' = "running"
    BY <1>2, <1>6 DEF StatusInv, Created
  <2>2. child > 0
    BY <1>6 DEF RestartInv, AfterClone, Steps, BeforeLoop, TypeInv, TypeOK, SupTypeOK
  <2> QED
    BY <1>1, <2>1, <2>2 DEF Life!Next, Life!PublishRunning, AbsRuns, AbsLive, AbsLast
<1>7. CASE SaveStoppedWrite
  <2>1. spc = "stoppedW" /\ spc' = "unregister"
    BY <1>7 DEF SaveStoppedWrite, EndSave, Goto
  <2>2. AbsStatus = "running" /\ AbsStatus' = "stopped"
    BY <1>2, <2>1 DEF StatusInv, Ran, Published
  <2>3. stateFile' = mem /\ mem.exit = exitOf[child] /\ ~Again
    BY <1>7, <2>1 DEF SaveStoppedWrite, EndSave, WriteState, AloneInv, FileInv, CodeInv, Writing,
                      Ran
  <2>4. child # NoPid /\ child > 0
    BY <2>1 DEF RestartInv, AfterClone, Steps, BeforeLoop, TypeInv, TypeOK, SupTypeOK, NoPid
  <2>5. ~AbsLive
    BY <2>1 DEF OneInv, Iteration, AbsLive, Undisturbed, TypeInv, TypeOK, HostTypeOK
  <2>6. AbsExit = None /\ AbsExit' = AbsLast
    BY <2>2, <2>3, <2>4 DEF AbsExit, AbsLast
  <2>7. ~Life!Again
    BY <2>3, <2>4 DEF Again, Life!Again
  <2> HIDE DEF AbsStatus
  <2> QED
    BY <1>1, <2>2, <2>5, <2>6, <2>7
       DEF Life!Next, Life!PublishStopped, AbsRuns, AbsExit, AbsLive, AbsLast
<1>8. CASE spc \in Published /\ spc' \in Published /\ stateFile' = stateFile
  <2>1. AbsStatus' = AbsStatus
    BY <1>2, <1>8 DEF StatusInv
  <2>2. AbsExit' = AbsExit
    BY <1>8, <2>1 DEF AbsExit
  <2> QED
    BY <1>1, <2>1, <2>2, LifeStutters
<1>9. CASE AutoRemove
  <2>1. /\ spc = "autoremove" /\ spc' = "done" /\ stateFile.status = "stopped"
        /\ stateFile' \in {stateFile, Blank("absent")}
    BY <1>2, <1>9 DEF AutoRemove, RemoveDir, diskVars, Goto, FileInv, Published
  <2>2. AbsStatus = "stopped"
    BY <1>2, <2>1 DEF StatusInv, Published
  <2>3. CASE stateFile' = stateFile
    <3>1. AbsStatus' = AbsStatus
      BY <1>2, <2>1, <2>2, <2>3 DEF StatusInv
    <3>2. AbsExit' = AbsExit
      BY <2>3, <3>1 DEF AbsExit
    <3> QED
      BY <1>1, <3>1, <3>2, LifeStutters
  <2>4. CASE stateFile' = Blank("absent")
    <3>1. AbsStatus' = "removed"
      BY <1>2, <2>1, <2>4 DEF StatusInv, Blank
    <3> QED
      BY <1>1, <2>2, <3>1 DEF Life!Next, Life!Withdraw, AbsRuns, AbsLive, AbsLast
  <2> QED
    BY <2>1, <2>3, <2>4
<1>10. CASE spc \in Steps /\ spc' \in {"failed", "crashed"} /\ stateFile' = stateFile
  <2>1. AbsStatus' = IF stateFile.status = "empty" THEN "lost"
                     ELSE IF Readable(stateFile) THEN stateFile.status ELSE "absent"
    BY <1>10 DEF AbsStatus, Readable, SupGone, Ended
  <2>2. CASE spc \in Writing
    <3>1. stateFile.status = "empty" /\ AbsStatus \in {"absent", "created", "running"}
      BY <1>2, <2>2 DEF FileInv, StatusInv, Writing, NotYet, Created, Ran
    <3>2. AbsStatus' = "lost"
      BY <2>1, <3>1
    <3> QED
      BY <1>1, <3>1, <3>2 DEF Life!Next, Life!Lose, AbsRuns, AbsLive, AbsLast
  <2>3. CASE spc \notin Writing
    <3>1. stateFile.status \in {"absent", "created", "running", "stopped"}
          /\ AbsStatus = stateFile.status
      BY <1>2, <1>10, <2>3
         DEF FileInv, StatusInv, Steps, Writing, NotYet, Created, Ran, Published
    <3>2. AbsStatus' = AbsStatus
      BY <2>1, <3>1 DEF Readable
    <3>3. AbsExit' = AbsExit
      BY <1>10, <3>2 DEF AbsExit
    <3> QED
      BY <1>1, <3>2, <3>3, LifeStutters
  <2> QED
    BY <2>2, <2>3
<1> QED
  BY <1>2, <1>4, <1>5, <1>6, <1>7, <1>8, <1>9, <1>10, Phases

\* The kernel and a kill leave the record alone.
LEMMA RecordKept ==
  ASSUME UNCHANGED <<diskVars, supVars>>
  PROVE  AbsStatus' = AbsStatus /\ AbsExit' = AbsExit
<1>1. stateFile' = stateFile /\ spc' = spc /\ restarts' = restarts
  BY DEF diskVars, supVars
<1>2. AbsStatus' = AbsStatus
  BY <1>1 DEF AbsStatus, Readable, SupGone
<1> QED
  BY <1>1, <1>2 DEF AbsExit

LEMMA OthersPublishNothing ==
  ASSUME TypeInv, OneInv, Undisturbed, AloneInv,
         KernelStep \/ \E c \in Cmds : Load(c) \/ CmdStep(c)
  PROVE  [Life!Next]_Life!vars
<1>1. UNCHANGED <<config, diskVars, supVars>>
  BY KernelFrame, KillsStep DEF AloneInv
<1>2. UNCHANGED <<config, child>> /\ AbsStatus' = AbsStatus /\ AbsExit' = AbsExit
  BY <1>1, RecordKept DEF supVars
<1>3. CASE exitOf' = exitOf /\ \A p \in Pid : Live(p)' <=> Live(p)
  BY <1>2, <1>3, RunsKept, LifeStutters
<1>4. ASSUME NEW p \in Pid, NEW status \in Codes, Live(p), Die(p, status)
      PROVE  Life!Die
  <2>1. /\ p = child /\ child # NoPid
        /\ \A q \in Pid : Live(q) => q = p
    BY <1>4 DEF OneInv, Undisturbed, TypeInv, TypeOK, HostTypeOK, NoPid, Pid
  <2>2. proc \in [Pid -> ProcState] /\ exitOf \in [Pid -> Codes \cup {None}]
    BY DEF TypeInv, TypeOK, HostTypeOK
  <2>3. AbsLive = TRUE
    BY <1>4 DEF AbsLive
  <2>4. AbsLive' = FALSE
    BY <1>4, <2>1, <2>2 DEF AbsLive, Die, Live
  <2>5. AbsLast' \in Codes
    BY <1>2, <1>4, <2>1, <2>2 DEF AbsLast, Die
  <2> HIDE DEF AbsStatus
  <2> QED
    BY <1>2, <2>3, <2>4, <2>5 DEF Life!Die, AbsLive, AbsLast, AbsExit
<1>5. CASE KernelStep
  BY <1>3, <1>4, <1>5, KernelLives DEF Life!Next
<1>6. CASE \E c \in Cmds : Load(c) \/ CmdStep(c)
  <2>1. exitOf' = exitOf /\ \A p \in Pid : Live(p)' <=> Live(p)
    BY <1>6, KillsStep DEF AloneInv
  <2> QED
    BY <1>3, <2>1
<1> QED
  BY <1>5, <1>6

LEMMA LifeStep ==
  ASSUME TypeInv, Numbered, OneInv, RestartInv, Undisturbed, AloneInv, AloneInv', [Next]_vars
  PROVE  [Life!Next]_Life!vars
<1>1. CASE Clone
  BY <1>1, CloneLaunches DEF Life!Next
<1>2. CASE (SupStep \/ Crash) /\ ~Clone
  BY <1>2, SupPublishes
<1>3. CASE KernelStep \/ \E c \in Cmds : Load(c) \/ CmdStep(c)
  BY <1>3, OthersPublishNothing
<1>4. CASE UNCHANGED vars
  BY <1>4, RecordKept, RunsKept, LifeStutters DEF vars, hostVars, supVars, Live
<1> QED
  BY <1>1, <1>2, <1>3, <1>4 DEF Next

\* Left alone but for kills, and without a PTY, the supervisor implements the lifecycle:
\* whatever its crashes and failures, the record that a reader finds goes from created through
\* running to stopped, one program runs at a time and as often as the policy allows, and the
\* code that is published is that of the last of them (container.rs 262-476).
THEOREM RefinesLifecycleSafe ==
  ASSUME Undisturbed
  PROVE  Spec => RefinesLifecycle
<1>1. Init => Life!Init
  <2> SUFFICES ASSUME Init
               PROVE  Life!Init
    OBVIOUS
  <2>1. config \in Config /\ stateFile = Blank("absent") /\ spc = "start" /\ child = NoPid
        /\ proc = [p \in Pid |-> "none"]
    BY HostAssumption DEF Init, HostInit, SupInit
  <2>2. AbsStatus = "absent"
    BY <2>1 DEF AbsStatus, Readable, Blank
  <2>3. AbsLive = FALSE
    BY <2>1 DEF AbsLive, Live
  <2>4. config.policy \in {"no", "always", "on-failure"} /\ config.max \in Nat
    BY <2>1 DEF Config
  <2> HIDE DEF AbsStatus
  <2> QED
    BY <2>1, <2>2, <2>3, <2>4 DEF Life!Init, AbsLive, NoPid
<1>2. TypeInv /\ (Numbered /\ OneInv) /\ RestartInv /\ AloneInv /\ AloneInv' /\ [Next]_vars =>
        [Life!Next]_Life!vars
  BY LifeStep
<1> QED
  BY <1>1, <1>2, TypeCorrect, OneAtATime, RestartsBounded, Alone, PTL
     DEF Spec, RefinesLifecycle, Life!Spec
=============================================================================
