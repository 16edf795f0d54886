------------------------------ MODULE Commands ------------------------------
(***************************************************************************)
(* The corten commands that act on a container somebody else supervises:   *)
(* stop (container.rs, stop), kill, rm, system prune and forge down        *)
(* (main.rs).  Each is a process of its own, reads state.json once, and    *)
(* acts on that copy.                                                      *)
(***************************************************************************)
EXTENDS Host

CONSTANT Ops  \* the commands of this model, a subset of AllOps

AllOps == {"stop", "kill", "rm", "prune", "down"}

ASSUME OpsAssumption == Ops \subseteq AllOps

(* op    the command an invocation executes
   cpc   where it stands
   copy  the record it read from state.json, as it has modified it         *)

CmdSteps == {"idle", "check", "poll", "mark", "markW", "save", "saveW",
             "net", "mkcg", "rmcg", "remove", "sweep", "listed", "done", "error"}

Enter(c, label) == cpc' = [cpc EXCEPT ![c] = label]

\* What no command changes.
UnchangedKernel == UNCHANGED <<config, overlay, exitOf, attached, registered, supVars>>

Loadable == dir /\ cfgFile /\ Readable(stateFile)

\* stop() has returned: forge down ignores how, and goes on to remove.
StopReturns(c, label) == Enter(c, IF op[c] = "down" THEN "remove" ELSE label)

-----------------------------------------------------------------------------
(* The command starts: find_container, load_config, load_state.            *)

\* stop, and forge down for a container it finds.
LoadForStop(c) ==
  /\ op'[c] \in {"stop", "down"}
  /\ IF Loadable /\ stateFile.pid # NoPid
       THEN Enter(c, "check")
     ELSE IF op'[c] = "stop" THEN Enter(c, "error")
     ELSE Enter(c, IF dir /\ cfgFile THEN "remove" ELSE "done")

LoadForKill(c) ==
  /\ op'[c] = "kill"
  /\ Enter(c, IF dir /\ Readable(stateFile) /\ stateFile.pid # NoPid
              THEN "check" ELSE "error")

\* rm needs config.json; a state.json it cannot read is no obstacle.
LoadForRm(c) ==
  /\ op'[c] = "rm"
  /\ Enter(c, IF dir /\ cfgFile THEN "check" ELSE "error")

\* Mutant: prune also takes containers that were only created.
LoadForPruneCreated(c) ==
  /\ op'[c] = "prune"
  /\ Enter(c, IF dir /\ stateFile.status \in {"created", "stopped"}
              THEN "remove" ELSE "sweep")

LoadForPrune(c) ==
  /\ op'[c] = "prune"
  /\ Enter(c, IF dir /\ stateFile.status = "stopped" THEN "remove" ELSE "sweep")

Load(c) ==
  /\ cpc[c] = "idle"
  /\ \E o \in Ops : op' = [op EXCEPT ![c] = o]
  /\ copy' = [copy EXCEPT ![c] = stateFile]
  /\ LoadForStop(c) \/ LoadForKill(c) \/ LoadForRm(c) \/ LoadForPrune(c)
  /\ UNCHANGED <<hostVars, supVars>>

-----------------------------------------------------------------------------
(* stop                                                                    *)

\* is_process_alive, then SIGTERM, which by itself ends nothing here.
StopChecks(c) ==
  /\ cpc[c] = "check"
  /\ op[c] \in {"stop", "down"}
  /\ IF Alive(copy[c].pid)
       THEN Enter(c, "poll") /\ copy' = copy
       ELSE Enter(c, "mark") /\ copy' = [copy EXCEPT ![c].status = "stopped"]
  /\ UNCHANGED <<hostVars, supVars, op>>

\* Mutant: the status of the copy is left as it was read.
StopSeesExitOnly(c) ==
  /\ cpc[c] = "poll"
  /\ ~Alive(copy[c].pid)
  /\ Enter(c, "save")
  /\ UNCHANGED <<hostVars, supVars, op, copy>>

\* The poll found the process gone...
StopSeesExit(c) ==
  /\ cpc[c] = "poll"
  /\ ~Alive(copy[c].pid)
  /\ Enter(c, "save")
  /\ copy' = [copy EXCEPT ![c].status = "stopped"]
  /\ UNCHANGED <<hostVars, supVars, op>>

\* Mutant: no SIGKILL.
StopGivesUp(c) ==
  /\ cpc[c] = "poll"
  /\ Alive(copy[c].pid)
  /\ Enter(c, "save")
  /\ copy' = [copy EXCEPT ![c].status = "stopped"]
  /\ UNCHANGED <<hostVars, supVars, op>>

\* ...or the grace period is over, and it does not wait for the SIGKILL.
StopTimesOut(c) ==
  /\ cpc[c] = "poll"
  /\ Alive(copy[c].pid)
  /\ KillProcess(copy[c].pid)
  /\ Enter(c, "save")
  /\ copy' = [copy EXCEPT ![c].status = "stopped"]
  /\ UnchangedKernel
  /\ UNCHANGED <<diskVars, cgroup, veth, op>>

\* save_state of the modified copy, for a process found dead and one stopped.
StopSaveOpens(c, from, to) ==
  /\ cpc[c] = from
  /\ IF dir
       THEN OpenState(c) /\ Enter(c, to)
       ELSE UNCHANGED <<stateFile, openFds>> /\ StopReturns(c, "error")
  /\ UnchangedKernel
  /\ UNCHANGED <<dir, cfgFile, proc, cgroup, veth, op, copy>>

StopMarkOpens(c) == StopSaveOpens(c, "mark", "markW")
StopOpens(c)     == StopSaveOpens(c, "save", "saveW")

StopMarkWrites(c) ==
  /\ cpc[c] = "markW"
  /\ WriteState(c, copy[c])
  /\ StopReturns(c, "done")
  /\ UnchangedKernel
  /\ UNCHANGED <<dir, cfgFile, proc, cgroup, veth, op, copy>>

StopWrites(c) ==
  /\ cpc[c] = "saveW"
  /\ WriteState(c, copy[c])
  /\ Enter(c, "net")
  /\ UnchangedKernel
  /\ UNCHANGED <<dir, cfgFile, proc, cgroup, veth, op, copy>>

\* Only a bridge container's pair is deleted here, by its name.
StopCleansVeth(c) ==
  /\ cpc[c] = "net"
  /\ veth' = IF config.net = "bridge" THEN 0 ELSE veth
  /\ Enter(c, "mkcg")
  /\ UnchangedKernel
  /\ UNCHANGED <<diskVars, proc, cgroup, op, copy>>

\* Cgroup::create(id).and_then(destroy): it is made if it is not there.
StopMakesCgroup(c) ==
  /\ cpc[c] = "mkcg"
  /\ cgroup' = CgroupCreate
  /\ Enter(c, "rmcg")
  /\ UnchangedKernel
  /\ UNCHANGED <<diskVars, proc, veth, op, copy>>

StopRemovesCgroup(c) ==
  /\ cpc[c] = "rmcg"
  /\ cgroup' = CgroupDestroy
  /\ StopReturns(c, "done")
  /\ UnchangedKernel
  /\ UNCHANGED <<diskVars, proc, veth, op, copy>>

-----------------------------------------------------------------------------
(* kill -s KILL                                                            *)

Kill(c) ==
  /\ cpc[c] = "check"
  /\ op[c] = "kill"
  /\ IF Alive(copy[c].pid)
       THEN KillProcess(copy[c].pid) /\ Enter(c, "done")
       ELSE proc' = proc /\ Enter(c, "error")
  /\ UnchangedKernel
  /\ UNCHANGED <<diskVars, cgroup, veth, op, copy>>

-----------------------------------------------------------------------------
(* rm, system prune and the removal of forge down                          *)

\* "Don't remove running containers."
RmRefuses(c) ==
  /\ copy[c].status = "running"
  /\ copy[c].pid # NoPid
  /\ Alive(copy[c].pid)

RmChecks(c) ==
  /\ cpc[c] = "check"
  /\ op[c] = "rm"
  /\ Enter(c, IF RmRefuses(c) THEN "error" ELSE "remove")
  /\ UNCHANGED <<hostVars, supVars, op, copy>>

Remove(c) ==
  /\ cpc[c] = "remove"
  /\ IF dir THEN RemoveDir ELSE UNCHANGED diskVars
  /\ Enter(c, IF op[c] = "prune" THEN "sweep"
              ELSE IF op[c] = "rm" /\ (~dir \/ overlay) THEN "error"
              ELSE "done")
  /\ UnchangedKernel
  /\ UNCHANGED <<proc, cgroup, veth, op, copy>>

\* A pair without carrier: one that a set-up did not bring to its end, and for a
\* moment the pair of every set-up, until eth0 is up in the container.
Carrierless ==
  \/ veth = HostNs
  \/ veth \in Pid /\ spc = "failed" /\ proc[veth] = "blocked"
  \/ spc = "network" /\ UsesVeth

\* cleanup_stale_veths, of system prune: it lists the interfaces...
PruneLists(c) ==
  /\ cpc[c] = "sweep"
  /\ \/ Carrierless /\ Enter(c, "listed")
     \/ Enter(c, "done")
  /\ UNCHANGED <<hostVars, supVars, op, copy>>

\* ...and deletes, by its name, the pair that had no carrier then.
PruneSweeps(c) ==
  /\ cpc[c] = "listed"
  /\ veth' = 0
  /\ Enter(c, "done")
  /\ UnchangedKernel
  /\ UNCHANGED <<diskVars, proc, cgroup, op, copy>>

-----------------------------------------------------------------------------
CmdInit ==
  /\ op = [c \in Cmds |-> "stop"]
  /\ cpc = [c \in Cmds |-> "idle"]
  /\ copy = [c \in Cmds |-> Blank("absent")]

\* An invocation that was started and goes on.
CmdStep(c) ==
  \/ StopChecks(c) \/ StopSeesExit(c) \/ StopTimesOut(c)
  \/ StopMarkOpens(c) \/ StopMarkWrites(c)
  \/ StopOpens(c) \/ StopWrites(c)
  \/ StopCleansVeth(c) \/ StopMakesCgroup(c) \/ StopRemovesCgroup(c)
  \/ Kill(c) \/ RmChecks(c) \/ Remove(c) \/ PruneLists(c) \/ PruneSweeps(c)

CmdTypeOK ==
  /\ op \in [Cmds -> AllOps]
  /\ cpc \in [Cmds -> CmdSteps]
  /\ copy \in [Cmds -> Record]
=============================================================================
