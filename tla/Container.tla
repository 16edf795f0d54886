----------------------------- MODULE Container -----------------------------
(***************************************************************************)
(* One container: its supervisor, the commands that act on it meanwhile,   *)
(* and the kernel.                                                         *)
(***************************************************************************)
EXTENDS Supervisor, Commands

vars == <<hostVars, supVars, cmdVars>>

Init == HostInit /\ SupInit /\ CmdInit

KernelStep ==
  \/ \E p \in Pid : \/ ExecProgram(p) \/ InitFails(p) \/ ProgramExits(p)
                    \/ KilledDies(p) \/ OutOfMemory(p) \/ InitReaps(p)
  \/ NetnsGone

Next ==
  \/ SupStep
  \/ Crash
  \/ KernelStep
  \/ \E c \in Cmds : Load(c) \/ CmdStep(c)

Spec == Init /\ [][Next]_vars

\* What the kernel does by itself: a killed process dies, init reaps its
\* orphans, a process that was let go execs, and the namespaces of a dead
\* process go.  A program may run for ever, and nobody has to type a command.
KernelFairness ==
  /\ \A p \in Pid : /\ WF_vars(KilledDies(p))
                    /\ WF_vars(InitReaps(p))
                    /\ WF_vars(ExecProgram(p) \/ InitFails(p))
  /\ WF_vars(NetnsGone)

\* Each process of corten is one thread, which the scheduler keeps running.
FairSpec ==
  /\ Spec
  /\ KernelFairness
  /\ WF_vars(SupStep)
  /\ \A c \in Cmds : WF_vars(CmdStep(c))

-----------------------------------------------------------------------------
TypeOK == HostTypeOK /\ SupTypeOK /\ CmdTypeOK

(* Safety                                                                  *)

\* The program is let go into its cgroup and its network: a process that gets
\* past the sync pipe was attached before, and the pair's end is in its
\* namespace.  Only a command that deletes pairs can have taken it away: stop,
\* which meets the next iteration, and system prune, which looks at the carrier
\* first and deletes later (container.rs 338-413, 707; network.rs 594-595).
Released(p) == proc[p] \in {"init", "running"}
Cuts(c) ==
  \/ /\ op[c] \in {"stop", "down"}
     /\ config.net = "bridge"
     /\ cpc[c] \in {"mkcg", "rmcg", "remove", "done"}
  \/ op[c] = "prune" /\ cpc[c] = "done"
StartsConfined ==
  [][\A p \in Pid : ~Released(p) /\ Released(p)' =>
       /\ UsesCgroup => attached[p] # "none"
       /\ UsesVeth => veth = p \/ \E c \in Cmds : Cuts(c)]_vars

\* ...and that cgroup has the limits that were asked for, although stop's
\* Cgroup::create can make one without (container.rs 711).
StartsLimited ==
  \A p \in Pid : Released(p) /\ UsesCgroup => attached[p] = "limited"

\* One program at a time: the next iteration clones only after the last
\* process is dead and reaped (container.rs 437, not with a PTY).
OneProgram ==
  ~config.tty => \A p, q \in Pid : Live(p) /\ Live(q) => p = q

\* A container without a restart policy that is recorded as stopped, by the
\* supervisor or by a command, has no process that is not at least killed.
StoppedMeansDead ==
  config.policy = "no" /\ ~config.tty /\ stateFile.status = "stopped" =>
    \A p \in Pid : ~Live(p) \/ proc[p] = "dying"

\* ...and is never recorded as running again.
NoResurrection ==
  [][config.policy = "no" /\ stateFile.status = "stopped" =>
       stateFile'.status # "running"]_vars

\* system prune looks at the status, then removes: a container without a
\* restart policy has no process in between (main.rs 1544-1546).
PruneSparesLive ==
  [][\A c \in Cmds :
       op[c] = "prune" /\ cpc[c] = "remove" /\ cpc'[c] # "remove"
         /\ config.policy = "no" /\ ~config.tty =>
       \A p \in Pid : ~Live(p) \/ proc[p] = "dying"]_vars

\* When run_with_tty returns Ok, the container holds nothing any more: no
\* cgroup (commands that are between making and removing it aside), no
\* overlay mount, no listing in its network, no process.
Busy(c) == cpc[c] \notin {"idle", "done", "error"}
NothingLeft ==
  spc = "done" /\ ~config.tty =>
    /\ cgroup = "none" \/ \E c \in Cmds : Busy(c)
    /\ ~overlay
    /\ ~registered
    /\ veth = 0
    /\ \A p \in Pid : ~Alive(p)

\* The restart policy is kept: no restart after success or beyond the maximum.
RestartsWithinPolicy ==
  /\ config.policy = "no" => \A p \in Pid : p > 1 => proc[p] = "none"
  /\ config.policy = "on-failure" /\ config.max > 0 =>
       \A p \in Pid : p > config.max + 1 => proc[p] = "none"

-----------------------------------------------------------------------------
(* Refinement.  The record as a reader would name it, a save in progress   *)
(* standing for the record it replaces.                                    *)

AbsStatus ==
  CASE Readable(stateFile)       -> stateFile.status
    [] ~Readable(stateFile) /\ spc \in {"start", "rootfs", "create", "createW"} -> "absent"
    [] ~Readable(stateFile) /\ spc = "runningW" -> IF restarts = 0 THEN "created" ELSE "running"
    [] ~Readable(stateFile) /\ spc = "stoppedW" -> "running"
    [] ~Readable(stateFile) /\ SupGone -> IF stateFile.status = "empty" THEN "lost"
                                         ELSE IF spc = "done" THEN "removed" ELSE "absent"

Life == INSTANCE Lifecycle WITH
  policy <- config.policy,
  max    <- config.max,
  status <- AbsStatus,
  exit   <- IF AbsStatus = "stopped" THEN stateFile.exit ELSE None,
  runs   <- child,
  live   <- \E p \in Pid : Live(p),
  last   <- IF child = NoPid THEN None ELSE exitOf[child]

\* Left alone, and without a PTY, the supervisor implements the lifecycle.
RefinesLifecycle == Life!Spec

-----------------------------------------------------------------------------
(* Liveness                                                                *)

\* Programs that end make a supervisor that ends, if the policy is bounded: it
\* waits for nothing else for ever (container.rs 262-476).
SupervisorEnds ==
  /\ \A p \in Pid : proc[p] = "running" ~> ~Live(p)
  /\ config.policy = "no" \/ (config.policy = "on-failure" /\ config.max > 0)
  => <>SupGone

\* stop and forge down return, and the process they found alive is dead by
\* then or soon after (container.rs 685-703).
StopEnds ==
  \A c \in Cmds, p \in Pid :
    cpc[c] = "poll" /\ copy[c].pid = p ~>
      cpc[c] \in {"done", "error"} /\ proc[p] \in {"zombie", "reaped"}
=============================================================================
