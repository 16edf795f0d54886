-------------------------------- MODULE Host --------------------------------
(***************************************************************************)
(* The state of ONE container.  The processes of the corten binary share   *)
(* its directory under /var/lib/corten/containers (config.json, state.json *)
(* and the overlay mount) and the kernel objects created for it (processes, *)
(* cgroup directory, veth pair).  There is no daemon and no lock: the      *)
(* supervisor (container.rs, run_with_tty) and every `corten` command work *)
(* on these directly, each with local variables of its own.  The operators *)
(* below are the primitive operations both sides are built from, and the   *)
(* steps of the kernel.                                                    *)
(***************************************************************************)
EXTENDS Naturals

CONSTANTS
  Cmds,       \* invocations of corten that act on the container
  Configs,    \* the container configurations considered
  ExitCodes,  \* codes the container's program may exit with by itself
  MaxPid,     \* BOUND: processes the supervisor may clone
  Faults,     \* what may go wrong: a subset of {"setup", "crash", "oom"}
  None        \* Option::None of state.json's exit_code

Pid    == 1..MaxPid
NoPid  == 0
HostNs == MaxPid + 1     \* the peer of a veth pair that never left the host

Killed == 137            \* 128 + SIGKILL, container.rs 445-446
Codes  == ExitCodes \cup {0, 1, Killed}

\* The options of config.json on which the lifecycle depends.  on-failure
\* carries its maximum, 0 meaning unlimited.
Config == [policy     : {"no", "always", "on-failure"},
           max        : Nat,
           net        : {"bridge", "named", "none", "host"},
           rootless   : BOOLEAN,
           tty        : BOOLEAN,
           autoRemove : BOOLEAN]

ASSUME HostAssumption ==
  /\ MaxPid \in Nat \ {0}
  /\ Configs \subseteq Config
  /\ ExitCodes \subseteq 0..255
  /\ None \notin Codes
  /\ Faults \subseteq {"setup", "crash", "oom"}

VARIABLES
  config,     \* config.json; never changed once written
  dir,        \* the container's directory exists
  cfgFile,    \* config.json is in it
  stateFile,  \* the contents of state.json
  openFds,    \* who has state.json open between truncating and writing it
  overlay,    \* overlay/merged is mounted in the host's mount namespace
  proc,       \* the processes cloned for the container
  exitOf,     \* how each ended
  attached,   \* which cgroup each was put into
  cgroup,     \* /sys/fs/cgroup/corten/<id>
  veth,       \* where the peer of the pair veth-<id> is
  registered  \* the container is listed in its named network

VARIABLES     \* of the supervisor, see Supervisor
  spc, mem, child, restarts, code

VARIABLES     \* of the commands, see Commands
  op, cpc, copy

\* Which parts of the set-up the options ask for.
UsesCgroup == ~config.rootless
UsesVeth   == ~config.rootless /\ config.net \in {"bridge", "named"}
UsesNames  == ~config.rootless /\ config.net = "named"

diskVars == <<dir, cfgFile, stateFile, openFds>>
hostVars == <<config, diskVars, overlay, proc, exitOf, attached, cgroup, veth,
              registered>>
supVars  == <<spc, mem, child, restarts, code>>
cmdVars  == <<op, cpc, copy>>

-----------------------------------------------------------------------------
(* state.json.  A file is absent, empty (truncated and not yet written),   *)
(* corrupt (a shorter record written over a longer one) or a record.       *)

Record == [status : {"absent", "empty", "corrupt", "created", "running", "stopped"},
           pid    : 0..MaxPid,
           exit   : Codes \cup {None}]

Blank(s) == [status |-> s, pid |-> NoPid, exit |-> None]

\* load_state: serde fails on anything but a whole record.
Readable(r) == r.status \in {"created", "running", "stopped"}

\* The first half of fs::write: open with O_CREAT | O_TRUNC.
OpenState(a) ==
  /\ dir
  /\ stateFile' = Blank("empty")
  /\ openFds' = openFds \cup {a}

\* The second half.  Between the halves another writer may have put its own
\* record, whose tail survives if it is the longer one; and the file may have
\* been unlinked, and then the bytes go nowhere.
WriteState(a, r) ==
  /\ openFds' = openFds \ {a}
  /\ stateFile' \in IF a \notin openFds THEN {stateFile}
                    ELSE IF stateFile.status = "empty" THEN {r}
                    ELSE {r, Blank("corrupt")}

\* fs::remove_dir_all.  A mounted overlay makes rmdir of overlay/merged fail
\* with EBUSY, at any point of the walk: some of the files are gone by then.
RemoveDir ==
  /\ IF overlay
       THEN /\ dir' = dir
            /\ cfgFile' \in {cfgFile, FALSE}
            /\ stateFile' \in {stateFile, Blank("absent")}
       ELSE /\ dir' = FALSE
            /\ cfgFile' = FALSE
            /\ stateFile' = Blank("absent")
  /\ openFds' = IF stateFile'.status = "absent" THEN {} ELSE openFds

-----------------------------------------------------------------------------
(* Processes.  "blocked" reads the sync pipe, "init" runs child_main after *)
(* the byte came, "running" has exec'ed the program, "dying" got SIGKILL.  *)
(* A cloned process holds its own copy of the pipe's write end, so "blocked" *)
(* does not end when its parent goes away.  PIDs are not reused.           *)

ProcState == {"none", "blocked", "init", "running", "dying", "zombie", "reaped"}

Live(p)  == proc[p] \in {"blocked", "init", "running", "dying"}
\* kill(pid, 0) succeeds on zombies too.
Alive(p) == Live(p) \/ proc[p] = "zombie"

Die(p, status) ==
  /\ proc' = [proc EXCEPT ![p] = "zombie"]
  /\ exitOf' = [exitOf EXCEPT ![p] = status]

\* kill(p, SIGKILL).  Every other signal is a request: PID 1 of a PID
\* namespace dies of nothing else unless it chose to handle it, and a process
\* that handles SIGTERM exits by itself (ProgramExits).
KillProcess(p) ==
  proc' = [proc EXCEPT ![p] = IF Live(p) THEN "dying" ELSE @]

\* child_main's last step: execvp of the command.
ExecProgram(p) ==
  /\ proc[p] = "init"
  /\ proc' = [proc EXCEPT ![p] = "running"]
  /\ UNCHANGED <<config, diskVars, overlay, exitOf, attached, cgroup, veth, registered,
                 supVars, cmdVars>>

\* A step of child_main failed; child_entry turns the error into status 1.
InitFails(p) ==
  /\ proc[p] = "init"
  /\ Die(p, 1)
  /\ UNCHANGED <<config, diskVars, overlay, attached, cgroup, veth, registered,
                 supVars, cmdVars>>

ProgramExits(p) ==
  /\ proc[p] = "running"
  /\ \E status \in ExitCodes : Die(p, status)
  /\ UNCHANGED <<config, diskVars, overlay, attached, cgroup, veth, registered,
                 supVars, cmdVars>>

KilledDies(p) ==
  /\ proc[p] = "dying"
  /\ Die(p, Killed)
  /\ UNCHANGED <<config, diskVars, overlay, attached, cgroup, veth, registered,
                 supVars, cmdVars>>

\* The memory limit's OOM killer, or an administrator.
OutOfMemory(p) ==
  /\ "oom" \in Faults
  /\ proc[p] \in {"blocked", "init", "running"}
  /\ KillProcess(p)
  /\ UNCHANGED <<config, diskVars, overlay, exitOf, attached, cgroup, veth, registered,
                 supVars, cmdVars>>

\* With its last process a network namespace goes, and the pair with its peer.
NetnsGone ==
  /\ veth \in Pid
  /\ proc[veth] \in {"zombie", "reaped"}
  /\ veth' = 0
  /\ UNCHANGED <<config, diskVars, overlay, proc, exitOf, attached, cgroup, registered,
                 supVars, cmdVars>>

-----------------------------------------------------------------------------
(* The cgroup directory: "limited" once the limits are written, "bare" when *)
(* Cgroup::create made it and nothing wrote limits.                         *)

CgroupState == {"none", "bare", "limited"}

CgroupCreate == IF cgroup = "none" THEN "bare" ELSE cgroup

\* rmdir fails while a process that is not a zombie is inside.
CgroupDestroy ==
  IF \E p \in Pid : attached[p] # "none" /\ Live(p) THEN cgroup ELSE "none"

-----------------------------------------------------------------------------
HostInit ==
  /\ config \in Configs
  /\ dir = FALSE
  /\ cfgFile = FALSE
  /\ stateFile = Blank("absent")
  /\ openFds = {}
  /\ overlay = FALSE
  /\ proc = [p \in Pid |-> "none"]
  /\ exitOf = [p \in Pid |-> None]
  /\ attached = [p \in Pid |-> "none"]
  /\ cgroup = "none"
  /\ veth = 0
  /\ registered = FALSE

HostTypeOK ==
  /\ config \in Configs
  /\ dir \in BOOLEAN
  /\ cfgFile \in BOOLEAN
  /\ stateFile \in Record
  /\ openFds \subseteq Cmds \cup {"supervisor"}
  /\ overlay \in BOOLEAN
  /\ proc \in [Pid -> ProcState]
  /\ exitOf \in [Pid -> Codes \cup {None}]
  /\ attached \in [Pid -> CgroupState]
  /\ cgroup \in CgroupState
  /\ veth \in 0..HostNs
  /\ registered \in BOOLEAN
=============================================================================
