----------------------------- MODULE Supervisor -----------------------------
(***************************************************************************)
(* container.rs, run_with_tty: the process that creates a container, waits *)
(* for its program, restarts it as the policy says, and cleans up.  It is  *)
(* the foreground `corten run`, or with -d the forked monitor.  One action *)
(* per step that another process can observe; a step whose `?` leaves the  *)
(* function is also a step of SetupFails (when "setup" is among the        *)
(* faults) or fails by itself when another process took away what it needs.*)
(***************************************************************************)
EXTENDS Host

(* spc       where run_with_tty stands
   mem       its local `state`, the record it saves
   child     child_pid of this iteration
   restarts  restart_count
   code      exit_code of the last iteration                               *)

Sup == "supervisor"

Ended == {"done", "failed", "crashed"}
Steps == {"start", "rootfs", "create", "createW", "bridge", "cgroup", "clone",
          "attach", "network", "signal", "running", "runningW", "forward",
          "wait", "netdown", "decide", "stopped", "stoppedW", "unregister",
          "unmount", "rmcgroup", "autoremove"}

\* The supervisor's process is gone, and its children are init's.
SupGone == spc \in Ended

Goto(label) == spc' = label

-----------------------------------------------------------------------------
(* Before the loop.                                                        *)

\* The directory and config.json; a directory without it is of no use to any command.
MakeDir ==
  /\ spc = "start"
  /\ dir' = TRUE
  /\ cfgFile' = TRUE
  /\ Goto("rootfs")
  /\ UNCHANGED <<config, stateFile, openFds, overlay, proc, exitOf, attached,
                 cgroup, veth, registered, mem, child, restarts, code, cmdVars>>

\* OverlayFS, or a copy of the image where it is not to be had.
MakeRootfs ==
  /\ spc = "rootfs"
  /\ overlay' \in {FALSE, ~config.rootless}
  /\ Goto("create")
  /\ UNCHANGED <<config, diskVars, proc, exitOf, attached, cgroup, veth,
                 registered, mem, child, restarts, code, cmdVars>>

\* save_state's open; the record to save is already the supervisor's own.
BeginSave(from, to, r) ==
  /\ spc = from
  /\ mem' = r
  /\ IF dir
       THEN OpenState(Sup) /\ Goto(to)
       ELSE UNCHANGED <<stateFile, openFds>> /\ Goto("failed")
  /\ UNCHANGED <<config, dir, cfgFile, overlay, proc, exitOf, attached, cgroup,
                 veth, registered, child, restarts, code, cmdVars>>

\* save_state's write.
EndSave(from, to) ==
  /\ spc = from
  /\ WriteState(Sup, mem)
  /\ Goto(to)
  /\ UNCHANGED <<config, dir, cfgFile, overlay, proc, exitOf, attached, cgroup,
                 veth, registered, mem, child, restarts, code, cmdVars>>

CreatedRecord == Blank("created")

SaveCreatedOpen  == BeginSave("create", "createW", CreatedRecord)
SaveCreatedWrite == EndSave("createW", "bridge")

\* ensure_bridge and setup_nat: host-wide, nothing of this container's.
EnsureBridge ==
  /\ spc = "bridge"
  /\ Goto("cgroup")
  /\ UNCHANGED <<hostVars, mem, child, restarts, code, cmdVars>>

\* Mutant: the limits are not written.
MakeCgroupOnly ==
  /\ spc = "cgroup"
  /\ cgroup' = IF UsesCgroup THEN CgroupCreate ELSE cgroup
  /\ Goto("clone")
  /\ UNCHANGED <<config, diskVars, overlay, proc, exitOf, attached, veth,
                 registered, mem, child, restarts, code, cmdVars>>

\* Cgroup::create and its limits, then (with -d) the fork of the monitor.
MakeCgroup ==
  /\ spc = "cgroup"
  /\ cgroup' = IF UsesCgroup THEN "limited" ELSE cgroup
  /\ Goto("clone")
  /\ UNCHANGED <<config, diskVars, overlay, proc, exitOf, attached, veth,
                 registered, mem, child, restarts, code, cmdVars>>

-----------------------------------------------------------------------------
(* The loop.                                                               *)

\* The sync pipe, the PTY and clone().
Clone ==
  /\ spc = "clone"
  /\ \E p \in Pid :
       /\ \A q \in Pid : (proc[q] = "none") <=> (q >= p)
       /\ proc' = [proc EXCEPT ![p] = "blocked"]
       /\ child' = p
  /\ Goto("attach")
  /\ UNCHANGED <<config, diskVars, overlay, exitOf, attached, cgroup, veth,
                 registered, mem, restarts, code, cmdVars>>

\* Mutant: a failure of add_process is ignored, like that of destroy.
AttachOrNot ==
  /\ spc = "attach"
  /\ attached' = IF UsesCgroup THEN [attached EXCEPT ![child] = cgroup] ELSE attached
  /\ Goto("network")
  /\ UNCHANGED <<config, diskVars, overlay, proc, exitOf, cgroup, veth,
                 registered, mem, child, restarts, code, cmdVars>>

\* Cgroup::add_process, or setup_uid_gid_mappings for a rootless container.
\* `corten stop` may have removed the directory since.
Attach ==
  /\ spc = "attach"
  /\ IF ~UsesCgroup
       THEN attached' = attached /\ Goto("network")
     ELSE IF cgroup # "none" /\ Live(child)
       THEN attached' = [attached EXCEPT ![child] = cgroup] /\ Goto("network")
     ELSE attached' = attached /\ Goto("failed")
  /\ UNCHANGED <<config, diskVars, overlay, proc, exitOf, cgroup, veth,
                 registered, mem, child, restarts, code, cmdVars>>

\* Mutant: a failure of the network is ignored, like that of the registration.
SetupOrNot ==
  /\ spc = "network"
  /\ veth' \in IF UsesVeth /\ "setup" \in Faults THEN {veth, child} ELSE {veth}
  /\ Goto("signal")
  /\ UNCHANGED <<config, diskVars, overlay, proc, exitOf, attached, cgroup,
                 registered, mem, child, restarts, code, cmdVars>>

\* setup_container_network or setup_container_named_network, and the
\* registration, whose failure is ignored.
SetupNetwork ==
  /\ spc = "network"
  /\ UsesVeth => Live(child)
  /\ veth' = IF UsesVeth THEN child ELSE veth
  /\ registered' \in IF ~UsesNames THEN {registered}
                     ELSE IF "setup" \in Faults THEN {registered, TRUE}
                     ELSE {TRUE}
  /\ Goto("signal")
  /\ UNCHANGED <<config, diskVars, overlay, proc, exitOf, attached, cgroup, mem,
                 child, restarts, code, cmdVars>>

\* One of its commands failed, as they must for a dead child or when system
\* prune deletes the new pair: the stale pair is gone, and the new one may be
\* left in the host or moved already.  Or the port rules failed, which come last.
NetworkFails ==
  /\ spc = "network"
  /\ UsesVeth
  /\ "setup" \in Faults \/ ~Live(child) \/ \E c \in Cmds : cpc[c] = "listed"
  /\ veth' \in {0, HostNs} \cup (IF Live(child) THEN {child} ELSE {})
  /\ registered' \in {registered} \cup (IF UsesNames /\ veth' = child THEN {TRUE} ELSE {})
  /\ Goto("failed")
  /\ UNCHANGED <<config, diskVars, overlay, proc, exitOf, attached, cgroup, mem,
                 child, restarts, code, cmdVars>>

\* Mutant: the pipe is closed and nothing was written to it.
CloseWithoutSignal ==
  /\ spc = "signal"
  /\ Goto("running")
  /\ UNCHANGED <<hostVars, mem, child, restarts, code, cmdVars>>

\* The byte on the sync pipe.
SignalChild ==
  /\ spc = "signal"
  /\ proc' = [proc EXCEPT ![child] = IF @ = "blocked" THEN "init" ELSE @]
  /\ Goto("running")
  /\ UNCHANGED <<config, diskVars, overlay, exitOf, attached, cgroup, veth,
                 registered, mem, child, restarts, code, cmdVars>>

RunningRecord == [mem EXCEPT !.status = "running", !.pid = child]

SaveRunningOpen  == BeginSave("running", "runningW", RunningRecord)
SaveRunningWrite == EndSave("runningW", IF config.tty THEN "forward" ELSE "wait")

\* pty_forward returns when it reaps the child, throwing its status away, or
\* on end of input, a closed PTY or a failed poll, the child still alive.
PtyForward ==
  /\ spc = "forward"
  /\ proc' \in {proc} \cup
       (IF proc[child] = "zombie" THEN {[proc EXCEPT ![child] = "reaped"]} ELSE {})
  /\ Goto("wait")
  /\ UNCHANGED <<config, diskVars, overlay, exitOf, attached, cgroup, veth,
                 registered, mem, child, restarts, code, cmdVars>>

\* Mutant: WNOHANG without a PTY, too.
WaitNoHang ==
  /\ spc = "wait"
  /\ proc' = [proc EXCEPT ![child] = IF @ = "zombie" THEN "reaped" ELSE @]
  /\ code' = IF proc[child] = "zombie" THEN exitOf[child] ELSE 0
  /\ Goto("netdown")
  /\ UNCHANGED <<config, diskVars, overlay, exitOf, attached, cgroup, veth,
                 registered, mem, child, restarts, cmdVars>>

\* Mutant: the exit code is the wait status, not shifted.
WaitRawStatus ==
  /\ spc = "wait"
  /\ proc[child] = "zombie"
  /\ proc' = [proc EXCEPT ![child] = "reaped"]
  /\ code' = 256 * exitOf[child]
  /\ Goto("netdown")
  /\ UNCHANGED <<config, diskVars, overlay, exitOf, attached, cgroup, veth,
                 registered, mem, child, restarts, cmdVars>>

\* waitpid blocks; with a PTY it is WNOHANG, and a status it does not fill in
\* stays 0, which WIFEXITED takes for a normal exit.
WaitChild ==
  /\ spc = "wait"
  /\ ~config.tty => proc[child] = "zombie"
  /\ proc' = [proc EXCEPT ![child] = IF @ = "zombie" THEN "reaped" ELSE @]
  /\ code' = IF proc[child] = "zombie" THEN exitOf[child] ELSE 0
  /\ Goto("netdown")
  /\ UNCHANGED <<config, diskVars, overlay, exitOf, attached, cgroup, veth,
                 registered, mem, child, restarts, cmdVars>>

\* cleanup_container_network: by the pair's name, whoever's peer it holds.
NetworkDown ==
  /\ spc = "netdown"
  /\ veth' = IF UsesVeth THEN 0 ELSE veth
  /\ Goto("decide")
  /\ UNCHANGED <<config, diskVars, overlay, proc, exitOf, attached, cgroup,
                 registered, mem, child, restarts, code, cmdVars>>

\* Mutant: one restart too many.
ShouldRestartOnceMore ==
  \/ config.policy = "always"
  \/ /\ config.policy = "on-failure"
     /\ code # 0
     /\ config.max = 0 \/ restarts <= config.max

ShouldRestart ==
  \/ config.policy = "always"
  \/ /\ config.policy = "on-failure"
     /\ code # 0
     /\ config.max = 0 \/ restarts < config.max

\* The restart policy, and the pause before the next iteration.
Decide ==
  /\ spc = "decide"
  /\ IF ShouldRestart
       THEN restarts' = restarts + 1 /\ Goto("clone")
       ELSE restarts' = restarts /\ Goto("stopped")
  /\ UNCHANGED <<hostVars, mem, child, code, cmdVars>>

-----------------------------------------------------------------------------
(* After the loop.                                                         *)

\* Mutant: the exit code is not put into the record.
StoppedWithoutCode == [mem EXCEPT !.status = "stopped"]

StoppedRecord == [mem EXCEPT !.status = "stopped", !.exit = code]

SaveStoppedOpen  == BeginSave("stopped", "stoppedW", StoppedRecord)
SaveStoppedWrite == EndSave("stoppedW", "unregister")

Unregister ==
  /\ spc = "unregister"
  /\ registered' = IF UsesNames THEN FALSE ELSE registered
  /\ Goto("unmount")
  /\ UNCHANGED <<config, diskVars, overlay, proc, exitOf, attached, cgroup,
                 veth, mem, child, restarts, code, cmdVars>>

\* Mutant: the overlay is left to `corten rm`.
KeepMounted ==
  /\ spc = "unmount"
  /\ Goto("rmcgroup")
  /\ UNCHANGED <<hostVars, mem, child, restarts, code, cmdVars>>

\* cleanup_overlay: a lazy unmount.
Unmount ==
  /\ spc = "unmount"
  /\ overlay' = FALSE
  /\ Goto("rmcgroup")
  /\ UNCHANGED <<config, diskVars, proc, exitOf, attached, cgroup, veth,
                 registered, mem, child, restarts, code, cmdVars>>

RemoveCgroup ==
  /\ spc = "rmcgroup"
  /\ cgroup' = IF UsesCgroup THEN CgroupDestroy ELSE cgroup
  /\ Goto("autoremove")
  /\ UNCHANGED <<config, diskVars, overlay, proc, exitOf, attached, veth,
                 registered, mem, child, restarts, code, cmdVars>>

\* --rm.
AutoRemove ==
  /\ spc = "autoremove"
  /\ IF config.autoRemove THEN RemoveDir ELSE UNCHANGED diskVars
  /\ Goto("done")
  /\ UNCHANGED <<config, overlay, proc, exitOf, attached, cgroup, veth,
                 registered, mem, child, restarts, code, cmdVars>>

-----------------------------------------------------------------------------
(* Leaving the function early.                                             *)

\* An error that `?` returns: disk full, no bridge, no cgroup controllers, no
\* PTY, clone or fork refused...  What was done stays done.
SetupFails ==
  /\ "setup" \in Faults
  /\ spc \in {"start", "rootfs", "create", "createW", "bridge", "cgroup", "clone",
              "attach", "running", "runningW", "stopped", "stoppedW"}
  /\ cgroup' = IF spc = "cgroup" /\ UsesCgroup THEN "bare" ELSE cgroup
  /\ openFds' = openFds \ {Sup}
  /\ Goto("failed")
  /\ UNCHANGED <<config, dir, cfgFile, stateFile, overlay, proc, exitOf, attached,
                 veth, registered, mem, child, restarts, code, cmdVars>>

\* The supervisor is killed, or its terminal goes away.
Crash ==
  /\ "crash" \in Faults
  /\ ~SupGone
  /\ openFds' = openFds \ {Sup}
  /\ Goto("crashed")
  /\ UNCHANGED <<config, dir, cfgFile, stateFile, overlay, proc, exitOf, attached,
                 cgroup, veth, registered, mem, child, restarts, code, cmdVars>>

\* An orphan is reaped by init.
InitReaps(p) ==
  /\ SupGone
  /\ proc[p] = "zombie"
  /\ proc' = [proc EXCEPT ![p] = "reaped"]
  /\ UNCHANGED <<config, diskVars, overlay, exitOf, attached, cgroup, veth,
                 registered, supVars, cmdVars>>

-----------------------------------------------------------------------------
SupInit ==
  /\ spc = "start"
  /\ mem = Blank("absent")
  /\ child = NoPid
  /\ restarts = 0
  /\ code = 0

SupStep ==
  \/ MakeDir \/ MakeRootfs \/ SaveCreatedOpen \/ SaveCreatedWrite
  \/ EnsureBridge \/ MakeCgroup
  \/ Clone \/ Attach \/ SetupNetwork \/ NetworkFails \/ SignalChild
  \/ SaveRunningOpen \/ SaveRunningWrite \/ PtyForward \/ WaitChild
  \/ NetworkDown \/ Decide
  \/ SaveStoppedOpen \/ SaveStoppedWrite \/ Unregister \/ Unmount
  \/ RemoveCgroup \/ AutoRemove
  \/ SetupFails

SupTypeOK ==
  /\ spc \in Steps \cup Ended
  /\ mem \in Record
  /\ child \in 0..MaxPid
  /\ restarts \in Nat
  /\ code \in Codes
=============================================================================
