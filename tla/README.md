# Corten, specified

A TLA+ development of `corten`, the container runtime of this repository (a
single Rust binary without a daemon). Corten has no process that owns its state:
every invocation of the command, and every monitor that `corten run -d` forks, is
a process of its own, and they meet in files, in the kernel and in nothing else.
There is not one lock. What can go wrong is what happens between two of them, or
after one of them has died, and that is what is modelled here.

Lines are cited as `container.rs 461`, for `src/container.rs`.

## 1. The system

| Component | State it keeps | Operations | Hard about it | What makes it correct |
|---|---|---|---|---|
| Supervisor: `container::run_with_tty`, in the foreground or as the forked monitor of `run -d` | `containers/<id>/{config,state}.json`, overlay mount, cgroup, veth pair, listing in a network; a copy of the record in memory | set up, clone, attach, connect, release the child over a pipe, wait, restart loop, tear down | clone before cgroup and network; the record is written without a lock; every `?` after clone; restarts | one program at a time, never unconfined, restarts within the policy, nothing left, an honest record |
| Commands: `stop`, `kill`, `rm`, `system prune`, `forge down` | their copy of `state.json` | load, signal, poll, save, clean up, remove | they act on a copy up to 10 s old, against a supervisor that goes on | a record that says stopped is true, what lives is not removed, `stop` returns |
| Networks: `network.rs` | `.next_octet`, `next_ip` of each pool, `network.json`, `dnsmasq.pid`, bridges | create, remove, join, register, unregister, start and stop dnsmasq | truncate and write of counters, lost updates, check-then-act, kills in between; members are listed by name; ends that unregister nothing | pools are not overrun, subnets and addresses are unique, the registry tells the truth, DNS can be repaired |
| forge: `compose.rs`, `cmd_forge` | the file; the order it resolves | up, down, ps, logs | HashMap order; `run` forks inside a loop | an order with the dependencies first, refusal of cycles, both commands return |
| Port forwarding: `network.rs` 450-577 | iptables rules | insert, delete, flush | rules are found again by spelling them out, some in another form than they were inserted; each restart has another address; iptables fails while another invocation holds its lock | a container's rules go with it, a port leads to a container that runs |
| Images and builds: `image.rs`, `build.rs` | `images/<name>/<tag>/{rootfs,config.json}` | pull, build, the pull that `run` makes itself, `image prune` | the directory is emptied first and filled part by part; that it is there counts as the image being there | what succeeds alone repairs what failed before; a container starts with the whole image |
| Volumes: `cmd_volume`, `config::parse_volume`, `mount_volumes` | `<name>.img`, the directory `<name>`, what is mounted on it | create, resize, rm, prune; binding by a container | two sizes that change one after the other; failures that are ignored; mounts that containers have copied | a file system fits into its file, a volume is whole, its limit is enforced |
| Snapshots: `cmd_snapshot`, `cp` | tar files; the upper directory of a container | create, restore, rm, cp | check-then-act against a container that is set up, runs and ends; tar fails half-way | a restore brings back what the snapshot was made of |
| Output: `pty_forward`, `logs`, `mlogs` | the buffers of a PTY, `stdout.log` and offsets into it | poll, read, write, waitpid in a loop; follow a file | the loop reaps the child itself; either direction blocks; a file grows between stat and read, and is emptied by a restart | all that was written is shown, nothing is skipped |
| Seccomp: `security.rs` 288-377 | a filter program | build, install; the kernel runs it | jump distances counted in a u8 | it denies the calls of the table and no other |
| Inside of the container: `namespace.rs`, `filesystem.rs`, `security.rs` | mounts, capabilities | one straight line before `execve` | order of the mounts and privileges | part of one step here |
| Parsing, `ps`, `images`, `stats`, `inspect`, `exec` | none of these models' | read | - | unit tests |

How they interact: the supervisor and the commands share the container's
directory and see each other's processes through `kill(pid, 0)`; the supervisor
joins and leaves networks; `forge up` calls `container::run`, once per service, in
one process that forks each time; `forge down` is `stop` and a removal for each
service, and then the removal of the network. `run` starts a container from an
image without a mark on it, so that pulls, builds and prunes change the lower
directory of what runs; snapshots save and replace the upper one.

## 2. The modules

| Module | Models | Lines |
|---|---|---|
| `Host` | what the processes share: `state.json` (with the truncated file between open and write), the directory, overlay, cgroup, veth, and the kernel's processes | container.rs 55-72, 117-120; namespace.rs 85-253; cgroup.rs |
| `Supervisor` | `run_with_tty`, one action per step that another process can tell apart | container.rs 136-515 |
| `Commands` | `stop`, `kill`, `rm`, `prune`, `forge down`, one action per step | container.rs 661-717; main.rs 452-473, 783-810, 1537-1560, 1684-1695 |
| `Container` | the composition of the three, its fairness, its properties | |
| `Lifecycle` | the abstract specification of a container's life as a reader of its record sees it | |
| `ContainerProofs` | theorems about `Container` | |
| `Networks` | `network.rs` without iptables, and how `run_with_tty` joins, rejoins and leaves | network.rs 396-439, 629-1074; container.rs 355-419, 455-491 |
| `ForgeOrder` | `resolve_order` and `topo_sort` | compose.rs 139-182 |
| `Forge` | `forge up` with its monitors, and `forge down`; extends `ForgeOrder` | main.rs 1563-1701 |
| `Ports` | the chains of the nat table, the containers that insert and delete their rules, `system prune` that flushes | network.rs 450-577; container.rs 350-407, 451-476 |
| `Volumes` | one named volume, the commands on it, the containers that bind it | main.rs 897-1126; config.rs 365-376; filesystem.rs 126-153 |
| `Images` | one image, those who write it, the container that is started from it | image.rs 87-129, 244-391; build.rs 323-469, 547-659; main.rs 161-167, 660-668; container.rs 158-177, 720-752; filesystem.rs 337-388 |
| `Snapshots` | one snapshot of one container, beside its program, its supervisor and `cp` | main.rs 828-856, 1331-1439; container.rs 163-205, 409-494 |
| `Storage` | the composition of the two, its properties of type | |
| `Terminal` | `pty_forward` and both directions of a PTY | container.rs 521-598 |
| `Logs` | `stdout.log`, `logs -f`, `mlogs` | main.rs 477-500, 1239-1293; namespace.rs 133-142 |
| `Output` | the composition of the two, its fairness | |
| `Seccomp` | the filter program and the kernel's machine that runs it | security.rs 224-231, 290-376; namespace.rs 190-194 |
| `VolumesProofs`, `NetworksProofs`, `ForgeProofs`, `PortsProofs`, `StorageProofs`, `OutputProofs`, `SeccompProofs` | theorems about the module each is named for | |
| `MCContainer`, `MCNetworks`, `MCForge`, `MCPorts`, `MCVolumes`, `MCStorage`, `MCOutput`, `MCSeccomp` | instances for TLC | |

### Container = Host + Supervisor + Commands

State and code:

- `dir`, `cfgFile`, `stateFile`, `openFds`: the container's directory. `save_state`
  is `fs::write`, that is, open with truncation and then write: two actions. A
  process between them is in `openFds`; a reader sees the status `empty`; two that
  overlap may leave `corrupt`; a file that was unlinked in between gets the bytes and
  nobody reads them.
- `proc[p]`: the processes of the container, in the order of `clone()`: `blocked` on
  the sync pipe, `init` (the code of `child_main`), `running` (after `execve`),
  `dying` after SIGKILL, `zombie`, `reaped`. `is_process_alive` is `Alive`, which a
  zombie satisfies, as `kill(pid, 0)` does. `exitOf` is the status as waitpid gives it.
- `attached`, `cgroup`, `veth`, `registered`, `overlay`: what the container holds.
  `UsesCgroup`, `UsesVeth` and `UsesNames` say what its configuration asks for. `veth`
  is the process whose namespace has the other end of the pair.
- `spc`, `mem`, `child`, `restarts`, `code`: where `run_with_tty` stands and its
  variables. `op`, `cpc`, `copy`: the same of each command.

The supervisor can fail at every `?` of the set-up (`SetupFails`, `NetworkFails`),
be killed (`Crash`), and its program can be killed for memory (`OutOfMemory`);
which of these a run allows is the constant `Faults`. A command starts at any moment
(`Load` picks one of `Ops`), reads the record once, and is then bound to its copy.
`prune` also lists the pairs that have no carrier (`PruneLists`) and deletes them later
(`PruneSweeps`), as `cleanup_stale_veths` does.

`Lifecycle` says what the record promises: absent, created, running, stopped with
the exit code of the last process, with restarts within the policy, and running
only while a process was started. `RefinesLifecycle` maps the detailed state on it;
a save in progress stands for the record it replaces.

### Networks

An invocation is at `pc[p]`, about network `net[p]`; `val` and `list` are what it
has read of a counter and of the members. Every file is read, truncated and
written in steps of its own. An unparsable `.next_octet` counts as 43 and an
unparsable `next_ip` of a named network as 2, while that of the default one is an
error, as in the code.

`members[n]` gives an address to each *name* of a container, as `network.json` does;
`name[p]` is what the container of invocation p is called, for good, and two may have
the same. A container that is `up` has its supervisor: its program ends and is started
again with another address (`Restarts`), which is registered over the entry of the last
iteration, or it leaves (`Leaves` and the steps after it). `Quits` is every end of
`run_with_tty` that unregisters nothing: a `?` before or after the registration, in the
first iteration or a later one, an exhausted pool, and the record that cannot be saved at
the end. `Strays` is the death of a supervisor whose program goes on: that container is
`adrift`.

dnsmasq is `none`, `up` or `dying`; the PID file is absent, about that process, or about
an old one. To stop it is two steps, of `network rm` as of the last container that
leaves: the signal (`Signals`), then the removal of the PID file (`RemovesPid`).

`overlapped` (the networks on which two invocations worked at a time, and `"subnets"` if
two created networks at a time), `crashed` (those at which one was killed), `shared`
(those on which two containers had one name) and `leftover` (those on which a container
ended and stayed listed) are history: they appear only in properties.

### ForgeOrder and Forge

`topo_sort` recurs; here its call stack is the variable `path`, so that the module
has no recursive operator. The keys of the HashMap, and the list of dependencies,
come in any order. In `Forge` a process in the loop of `forge up` is either `forge up`
itself (0) or the monitor of a container (its number): `container::run(&cfg, true)`
forks, and returns in the child as well, when its container has ended.

### Ports

`chain` is PREROUTING and OUTPUT of the nat table, each a sequence of rules of which
the first that matches decides; `accepts` is the set of addresses for which
MASQUERADE and ACCEPT rules were appended, which nothing removes. `Inserted` is
`-I`, `Without` is `-D`: it removes the first rule that is the same *in every
respect*. Each call of iptables is an action. A supervisor inserts its rules for
one mapping after another (`at[c]`), deletes them when its program has ended, and
starts again with another address. `flush` and `rule` are `system prune`, which lists
and then deletes. iptables fails ("locked") wherever the code ignores that; where
it does not, the supervisor ends (`Killed`). `disturbed`, `newest` and `stuck` are
history.

### Volumes

`img` is the file that is called `<name>.img` now, out of those ever made; `size` and
`fs` are the length of each and of the file system in it; `mnt` is the stack of what
is mounted on the directory in the mount namespace of the host. A container has in
`view` what it has copied from there, and keeps it. umount, resize2fs, set_len and
mount are actions each; each may fail, be skipped as the code says, or be where
the invocation is killed. `e2fsck` and `resize2fs` are one. An error that `?` passes
on ends the invocation at once, and so is `Killed`. `overlapped` and `hurt` are history.

### Storage = Images + Snapshots

`tree` is what is in the rootfs of the image, by the kind of image (pulled, built)
each part is from, and `conf` what its config.json says. pull and build remove the
rootfs, make it, fill it part by part, and truncate and write config.json; each
step may fail or be where the invocation is killed. Two may be at work at a
time, and one that goes on removing a rootfs that another has removed and made
anew does no harm to the new one (`holds`). The container is set up by `Run`: with
an overlay on the rootfs (`layer` = `lower`, or `unlinked` once it was removed), or, if
that cannot be mounted, with a copy made part by part.

`upper` is what is in the upper directory of the container. `attached` says that it
is the directory that is mounted: a restore replaces it. create, restore and rm of a
snapshot are opened, checked and written in steps of their own; tar takes one file
after another and may fail at each. In the composition the container is set up in
one step with the overlay of `Images`, and taken down with it.
`dirty`, `met`, `disturbed`, `touched`, `orig` and `restored` are history.

### Output = Terminal + Logs

A detached container without a TTY logs; another one is attached to a PTY.
`wrote - shown` bytes are in the PTY on the way out, `given - taken` on the way in; both
are bounded, and a write to a full one blocks. `pty_forward` polls, then reads or
writes what poll has found (`ready`), asks waitpid, and after the child has ended reads
what is left. For a log, lines are counted; `pos` is the offset of a follower and
`size` the length that `mlogs` has read before it reads the file.
`since`, `from`, `printed` and `why` are history.

### Seccomp

`Filter` is the program as the code builds it, with its distances cut to eight bits;
the machine that runs it is the kernel's, and takes only programs that do not jump
out of themselves.

## 3. What the runs check

| Run | Instance | Properties |
|---|---|---|
| `supervisor` | `MCSupervisor.cfg`: no command, six configurations, none with a TTY, failures of the set-up and kills for memory, 3 processes at most | `TypeOK`, `RestartsWithinPolicy`, `RefinesLifecycle`, `SupervisorEnds` |
| `command` | `MCCommand.cfg`: one command of five kinds, 5 configurations, all faults | `StartsConfined`, `StartsLimited`, `PruneSparesLive`, `StopEnds` |
| `race` | `MCRace.cfg`: two commands that overlap, 3 configurations | `OneProgram`, `StoppedMeansDead`, `NothingLeft`, `NoResurrection` |
| `networks` | `MCNetworks.cfg`: two invocations, two networks and the default one, no kills | `UniqueSubnetsAlone` |
| `pools` | `MCPools.cfg`: two invocations, one network and the default one, containers of one name or of two, restarts, ends that unregister nothing, lost supervisors, kills | `TypeOK`, `PoolsBounded`, `UniqueAddressesAlone`, `RegistryExact`, `DnsRepairable` |
| `forge` | `MCForge.cfg`: all 4096 files of three services and one unknown name; a chain of three is started and taken down | `TypeOK`, `OrderSound`, `VerdictJust`, `StartsInOrder`, `CascadeBounded`, `CommandsReturn` |
| `ports` | `MCPorts.cfg`: two containers, three mappings, one port published by both; failures, kills, flushes | `TypeOK`, `NoStaleForward`, `Served`, `NewestServed` |
| `volumes` | `MCVolumes.cfg`: two invocations and a container; every failure, kills, restarts of the machine | `TypeOK`, `FsFits`, `Whole`, `LimitEnforced` |
| `storage` | `MCStorage.cfg`: two invocations that write the image and a `run`; two that snapshot; failures at every step | `TypeOK`, `Repairs`, `RestoreExact`, `StartsWhole` |
| `output` | `MCOutput.cfg`: five bytes out, four in, a PTY for three and two; a log of four lines, emptied once, one follower | `OutputComplete`, `NothingSkipped`, `Shown` |
| `seccomp` | `MCSeccomp.cfg`: the table of the code (15 calls), all 335 numbers | `FilterExact` |

One run shows where the code does something else than it says: `forge_down`
violates `DownIsFinal`, since the monitor of a container that `forge down` has stopped
goes on with the loop of `forge up` and starts the services after it again (main.rs
1662, 1700).

Other disagreements were met while the code was read, and are listed as findings
without a run of their own.

- Containers: `stop` saves the record it loaded before it sent SIGTERM over the final
  one, and the exit code is lost (container.rs 703); with a TTY `pty_forward` reaps the
  child, the supervisor's `waitpid` fails, and the exit code is 0 (container.rs 435);
  `rm` removes what has started to run since it looked (main.rs 467); an error after
  `clone()` leaves the child blocked on its pipe (container.rs 340); a supervisor whose
  directory was removed cannot save the record, and skips the clean-up that follows
  (container.rs 482); `prune` deletes a pair that had no carrier when it looked, of a
  container that is being connected (network.rs 594).
- Networks and ports: two networks created at a time get one subnet (network.rs 1062);
  two containers of one name share an entry of the registry, and the first to leave
  unlists the other (network.rs 811); an error after the registration, or on a restart,
  leaves the entry behind, and the network can never be removed (container.rs 405); a
  network whose name is longer than eight bytes cannot be created, and what is left of
  the attempt cannot be removed (network.rs 644); the OUTPUT rule is inserted without
  `-d` and deleted with it, so that it stays (network.rs 534); a port is not bound to
  the address its mapping names (network.rs 462); the flush takes the rules of the
  default network only, those of running containers included (network.rs 563).
- Volumes: a resize shrinks the file system that a container has mounted (main.rs
  1027); a sized volume that is not mounted is never mounted on use (main.rs 937).
- Images: a pull, a build or a prune empties the lower directory of containers that
  run (image.rs 92); what a failed pull leaves counts as the image (main.rs 162).
- Snapshots: a restore replaces the upper directory of a program that was released
  before the record says so (main.rs 1371); what a container runs on a copy is not
  saved (main.rs 1333); a tar that fails leaves a file that counts as a snapshot (main.rs
  1351); tar does without the extended attributes of the overlay (main.rs 1347).
- Output: the loop also ends when stdin does (container.rs 578); a restart leaves
  followers beyond the end of the log (main.rs 493).

Every property of a passing run is broken by a mutant of the code, an operator
beside the definition it stands for, marked as one ("Mutant:").

### What the properties say

- `StartsConfined`, `StartsLimited`: clone comes before the cgroup and the network, and
  the pipe keeps the child from running before it is attached and connected. A `stop` of
  the iteration before destroys the cgroup in between: then `add_process` fails, and the
  program is not released. `StartsConfined` is about the step that releases it: the
  process is in the cgroup, and the pair has its end in the namespace of that very
  process, not of one of an iteration before. The second half has an exception, because
  the code has one: a `stop` (or `forge down`) on the default network, and a `prune`, that
  have deleted pairs may have deleted this one, and nothing tells the supervisor (the
  finding at network.rs 594). The model has no record of which pair it was: the exception
  lasts from that step on.
  `StartsLimited` holds while at most one of the commands is `stop` or `forge down`,
  whatever the others are (section 4); two that overlap remove the cgroup and make
  it anew, without limits, and the next iteration of a restarted container is
  attached to that. This is why it belongs to `command`.
- `OneProgram`, `RestartsWithinPolicy`: through every restart.
- `StoppedMeansDead`, `NoResurrection`: for containers without a restart policy. With
  `always` neither holds: `stop` kills the process, writes "stopped", and the
  supervisor starts the next one.
- `NothingLeft`: when the supervisor is through, without a failed save.
- `PruneSparesLive`, `StopEnds`, `SupervisorEnds`: see the comments.
- `UniqueSubnetsAlone`, `UniqueAddressesAlone`, `RegistryExact`: what the
  files without locks still promise. Each has the premise that it needs: no two
  creations at a time and none killed for the first, no two invocations on the *same*
  network at a time for the others, and on a named one nobody killed at work and no
  two containers of one name; anything may happen on other networks meanwhile. Restarts,
  lost supervisors and ends that unregister nothing are not excluded: what runs is listed
  with its address of now through all of them. They only make an exception to "lists
  nothing else" (`leftover`), which is the finding at container.rs 405.
- `PoolsBounded`: without any premise.
- `DnsRepairable`: for all interleavings, except between the signal and the removal of the
  PID file, and on networks at which an invocation was killed: one that is killed between
  the two does leave a file that names a dnsmasq which dies.
- `NoStaleForward`, `Served`: unless a supervisor was killed or an iptables call failed
  to delete (`stuck`), from outside a port leads to a container that runs, however two
  containers interleave on it. `Served` leaves out containers a flush has taken a
  rule from. `NewestServed` needs less: for a connection from the host the rules that
  stay behind (the finding above) are shadowed, since `-I` inserts at the top.
- `FsFits`: the order in which a resize changes the two sizes is right for growing and
  shrinking, wherever it fails or is killed. It says nothing once another command
  has worked on the volume during a resize: the size is read before the umount.
- `Whole`, `LimitEnforced`: between commands that went right one after the other. A
  command that fails half-way does leave a volume that is not mounted, and a
  container then gets the unlimited directory; that is the premise, and a finding.
- `Repairs`: failed, killed and overlapped pulls and builds leave anything; one that
  then succeeds alone leaves its image and nothing of theirs. It fails if the rootfs is
  not removed first, or config.json not replaced.
- `StartsWhole`: an action property: the step that puts a rootfs in place finds all of
  the image, if nobody has written it since the last that succeeded alone. With what
  others leave, or do meanwhile, a container starts with less; that is a finding.
- `RestoreExact`: the snapshot may be followed by changes, a failed restore, a removal,
  a kill; the restore that succeeds undisturbed brings back `orig`. Its premise that
  nothing changes upper meanwhile is what the code checks, and too late.
- `OutputComplete`: wherever the end of the program falls between poll, waitpid and
  read, what it wrote is taken out of the PTY before the loop ends.
- `NothingSkipped`: `mlogs` goes on from the length it asked for, not from where it has
  read to: it may print lines twice, and leaves none out.
- `Shown`: output arrives. On a PTY not in the state `Jammed`: the loop sits in write on
  the way in, and a program that waits for its own output to be taken never reads; in
  a log not once it was emptied.
- `FilterExact`: each jump, whatever its place in the table, reaches the one instruction
  that denies.
- `CascadeBounded`: the monitors that return into the loop start services anew, but
  at most 2^(k-1) containers of the k-th service are made.

### Bounds, and why they are enough

- `MaxPid`: the processes of one container, 2 or 3: the first, a restart, and one
  restart too many for `on-failure:1`.
- `Cmds`: one or two commands. The shared file and the cgroup have conflicts of two
  writers beside the supervisor; a third adds no new kind of step.
- `Configs`: chosen so that every branch on policy, network, rootless, TTY and
  auto-remove is taken, not their product.
- `LastOctet` 43 or 44 and `LastHost` 2 or 3 for 254: the pools run out in the runs. Two
  hosts are needed for a restart beside another container, and for a network whose last
  container leaves and that another one joins.
- `CreatesAlone` (in `networks`) cuts states in which two have created networks at a time:
  the property of that run says nothing there. `SubnetsState` is its VIEW, without the
  names and the history that the property does not read.
- `TroubleOnce` (in `pools`) cuts states in which invocations have met on both pools, or
  were killed on both, or have met and were killed: one kind of trouble on one pool is
  left to be followed. `PoolsBounded` and `DnsRepairable`, which speak of both kinds,
  are proved without it.
- `MaxSize` 3 and `MaxFile` 2: a volume grows and shrinks, and is removed and made
  anew while a container still has the old one mounted. `ResizeAlone` cuts what
  follows when a resize has met another command: `FsFits` and `Whole` are void there.
- `MaxIp` 4: three addresses, so a restart of one container beside another. `FewStale` cuts
  states with two rules left behind in PREROUTING; one is enough to hide a container.
- `Apart` (in `storage`) lets snapshots be taken only while the image rests, and images be
  written only while there is no snapshot and no program: the two share nothing but
  the set-up and the end of the container, which both halves have. `TwoWrite`: two
  invocations write the image at a time; a third adds no new kind of step. Two parts of
  a base system and one package, and two files with one value: a copy and an archive can
  end between two.
- `MaxOut` 5 and `OutCap` 3, `MaxIn` 4 and `InCap` 2, `BufLen` 2: a PTY fills up in both
  directions and is emptied in more than one read. `MaxRun` 2: the log is emptied once.
- `LiveState` (in `pools`, `ports`, `volumes`, `storage`) is a VIEW that leaves out
  local variables that are not read again before they are written.
- `StartedFiles` (in `forge`): every file is resolved, and the chain of three, which has
  the longest cascade for one order of down, is started. `MaxContainers` is one more
  than `CascadeBounded` allows in sum.

### Fairness

`FairSpec` of `Container`: each process of corten is one thread which the scheduler
keeps running (weak fairness of the supervisor's step and of each command's step
once it has started), and the kernel delivers SIGKILL, reaps orphans, and lets a
released process reach `execve`. A program need not end and a command need not be
typed. The poll of `stop` has two ways out, the process gone or the timeout, one of
which is always enabled. In `Forge`: `forge up`, the resolution, and `forge down`
are kept running; programs may run for ever, and ignore SIGTERM; monitors may be
slow. In `Output`: the loop of the supervisor and each follower, that is a thread
each; not the program, and not the person. `Networks`, `Ports`, `Volumes`, `Storage`
and `Seccomp` have no liveness property and no fairness.

Deadlock is checked in `seccomp` alone: the other systems stop, when the container has
ended and nobody types a command.

## 4. What is proved

`ContainerProofs` proves, for every number of commands, every set of configurations
and exit codes, every bound on processes and every set of faults:

| Theorem | Property |
|---|---|
| `TypeCorrect`, `TypeSafe` | `TypeOK` |
| `OneAtATime`, `OneProgramSafe` | `OneProgram` |
| `RestartsBounded`, `RestartsSafe` | `RestartsWithinPolicy` |
| `Confined`, `Connected`, `StartsConfinedSafe` | `StartsConfined` |
| `RecordsHonest`, `StoppedMeansDeadSafe`, `NoResurrectionSafe` | `StoppedMeansDead`, `NoResurrection` |
| `LetsGo`, `NothingLeftSafe` | `NothingLeft` |
| `PruneSparesLiveSafe` | `PruneSparesLive` |
| `Limited`, `LimitedUnlessStopsMeet`, `StartsLimitedSafe` | `StartsLimited`, with at most one `stop` or `forge down` among the commands |
| `Alone`, `RefinesLifecycleSafe` | `RefinesLifecycle`, without a PTY and with no commands but `kill` (`Undisturbed`) |

The assumptions are those of `Host` and `Commands` on the constants. The invariants
as stated are not inductive; these are:

- `TypeInv`: `TypeOK`, a record that can be read has a known status, and the supervisor
  has a child wherever its code uses one.
- `Numbered` and `OneInv`: processes are numbered in the order of `clone()` and the
  child is the last; all before it are dead, and in the steps before `clone()` so is
  the last.
- `RestartInv`: the number of the child is `restarts` plus one, and the policy has been
  kept for each.
- `ConfinedInv`: a process beyond `blocked` was attached; the supervisor sends its byte
  only from the step that follows `Attach`.
- `ConnectedInv`, with `PrunesOnly`: when the supervisor is at that byte, the pair is the
  child's, or one of those who delete pairs has done so (`Cuts`), which is not taken
  back (`CutsStay`).
- `DeadInv`, `OnceInv` with `RecordInv`: whoever may write "stopped" (the supervisor
  after `waitpid`, a command with a copy that it has marked) does so when the process
  it names is dead or killed; a copy that says "running" is never written once the
  final record is; and without a restart policy there is one process.
- `LeftInv`: for each thing a container holds, the steps of the supervisor at which it
  may be there, and who else may be about to remove it. A zombie is always the child.
- `PruneInv`: `prune` is at its removal only with a copy that says "stopped", for which
  `DeadInv` says that nothing goes on.
- `LimitedInv`: with at most one stopper, the cgroup inside the loop is the one that was
  made with limits, or none, until the supervisor is through with it. Only stoppers
  make a cgroup (`StopsOnly`), so kills, removals and prunes need no premise.
- `AloneInv`: `FileInv` says what is in `state.json` at each step of the supervisor, and
  that it writes where it has opened; `CodeInv` that the code it decides by and
  publishes is the one of the last process, and that it restarts only if the policy
  wants it (`Again`). `StatusInv` reads the status that `Lifecycle` sees off the step.

The refinement then goes by steps: a `kill` and the kernel change no more than whether a
process is live (`KillsStep`); of the supervisor's steps one publishes "created", one
clones, one publishes "running", one "stopped" (`SupPublishes`, `CloneLaunches`), each an
action of `Lifecycle`, and the others stutter (`OthersPublishNothing`). Crashes of the
supervisor and failures of its set-up are among them. With `stop` the refinement is
false, as it is with a PTY: both are findings about the exit code (section 3).

`VolumesProofs`, for every number of commands and containers, every bound on sizes and
files, and all faults, from `VolumesAssumption`:

| Theorem | Property |
|---|---|
| `FsFitsSafe` | `FsFits` |
| `Inductive`, `TypeCorrect` | `TypeOK` |
| `CalmSafe`, `WholeSafe` | `Whole` |
| `LimitEnforcedSafe` | `LimitEnforced` |

`VolInv` adds to `FsFits`: `DiskOK`, the part of the type it needs; `ResizesAlone`, that
while nobody has overlapped with a resize nobody is at work beside one; and
`ResizeKnows`, that such a resize still knows the length of the file, grows only when it
wants more than that, and cuts only after the file system fits into what it wants.
`CalmInv` is about the time before the first overlap or failure: one command is at work
(`Solo`), the volume is whole between commands (`WholeDisk`), and during one it is as its
next step needs it (`Stage`): formatted and not mounted while it is resized, mounted once
before the umount, and so on for each label.

`NetworksProofs`, for any number of invocations and networks and pools of any size:

| Theorem | Property |
|---|---|
| `NetworksTypeSafe` | `TypeOK` |
| `PoolsBoundedSafe` | `PoolsBounded`, kills included |
| `UniqueSubnetsSafe` | `UniqueSubnetsAlone` |
| `UniqueAddressesSafe` | `UniqueAddressesAlone` |
| `RegistryExactSafe` | `RegistryExact` |
| `DnsRepairableSafe` | `DnsRepairable` |

`NetInv` adds to the types what an invocation knows at each label (`Known`: an octet or
an address that it was given is within the pool), and that a network that can be read has
an octet. `SubInv` speaks of the octets that a file or an invocation has for a network
(`Has`), stale ones included: while creations are alone and nobody is killed, each is
below what will be given next (`Counted`) and is had for one network (`Disjoint`).
`Carried` is what nearly every step does: it takes along or writes only octets that were
had for that network.

`RegInv` speaks of each network for itself, as long as no two invocations have worked on
it at the same time, nobody was killed at it and no two containers had one name
(`AloneOn`): at most one is at work (`One`); addresses are below the counter and
different (`Addresses`); and `Registry` holds. That is: every container that is up or
adrift is listed under its name with its address (`Honest`, which holds during the work of
others, too), and the files say what `Calm` demands while nobody works, or what `RegOf`
says label by label of the one that does. `Only` is the half that a leftover entry
voids. So the steps split in two: a step of `p` leaves all other networks as they were
(`StepOf`, lemma `Elsewhere`), and on its own network it establishes what is due at its
next label (`Minds`, lemma `Here`). Ends and lost supervisors of containers that are up
happen while others work on the network, and have a lemma of their own (`RestKeeps`).
`DnsRepairable` is inductive with nothing but the types, its exceptions being what it
takes: the signal goes out at the labels it excepts, and only `Killed` leaves them
otherwise than by the removal of the file (`PidStep`).

`ForgeProofs`, for every set of services, every file and every order of its keys:

| Theorem | Property |
|---|---|
| `ForgeTypeSafe` | `TypeOK` |
| `OrderSoundSafe` | `OrderSound` |
| `VerdictJustSafe` | `VerdictJust` |
| `StartsInOrderSafe` | `StartsInOrder` |
| `CascadeBoundedSafe` | `CascadeBounded` |

`OrderInv`: what is in the order has its dependencies before it (`Closed`), the path is a
chain of dependencies (`Chained`), and every dependency of a call on the path is left to
it, done, or the next call (`Covered`). `Closed` carries that there is no cycle in a form
that needs no induction over the order: every nonempty set of visited services has one
that depends on none of the set. The loop of `forge up` adds `Started`.

`CascadeBounded` is not inductive, and the bound alone does not say why it holds. `Budget`
does: the containers of the k-th service, and the processes that may still make one
(`MayMake`: those in the loop not past it, and the monitors that will come back before
it), are together at most one more than the containers of the services before it. A
step moves a process from one part of the sum to another; `Turns` says that a monitor
returns once. Summed over the services, the budget doubles with each (`BudgetDoubles`).
The library's induction over numbers takes an operator; `Induct` states it for a set, and
follows from that there is no infinite descent among finite sets. `Powers` says that
2^(n+1) is twice 2^n, which the solver does not know, by counting subsets.

`PortsProofs`, for any number of containers, ports, mappings, restarts and flushes, from
`PortsAssumption`:

| Theorem | Property |
|---|---|
| `PortsTypeSafe` | `TypeOK` |
| `NoStaleForwardSafe` | `NoStaleForward` |
| `ServedSafe` | `Served` |
| `NewestServedSafe` | `NewestServed` |

A slot is a mapping of a container. `Owned`: unless something got stuck, each rule of
PREROUTING belongs to a slot of its own, whose supervisor has not come to delete it yet
(`InPre`). The slots are the values of a function on the places of the chain, so that
equal rules, which two equal mappings make, are told apart; `-D` removes the first of
them, and that one is the slot's (after a change of the function). `Present` and
`Headed`: what an undisturbed container has inserted is there, and in OUTPUT it is
before all other rules for that port while the container is the newest on it.
`Distinct`: no address is given twice. `Least` is where "the first rule that matches"
comes from.

`StorageProofs`, for any invocations, parts, files and values:

| Theorem | Property |
|---|---|
| `RepairsSafe` | `Repairs` |
| `StartsWholeSafe` | `StartsWhole` |
| `RestoreExactSafe` | `RestoreExact` |
| `StorageTypeSafe` | `TypeOK` |

`ImgInv`: types, `Alone` (who has met nobody is the only writer), `Work` (how much of
its image such a writer has in place, at each label) and `Setup` (what the container has
copied of an undisturbed image). `SnapInv` does the same for a snapshot that is made or
restored untouched: what is in the archive, or in upper, agrees with `orig` on all
files but those left to do (`Progress`, `Kept`, `Rest`). `Coupled` says that the two
halves mount and unmount together.

`OutputProofs` proves `OutputCompleteSafe` and `NothingSkippedSafe` for buffers of any
size and any number of followers. `TermInv`: what is left is read only after the child
was reaped, and the loop ends for that reason only with the PTY empty. `LogInv`: the
length that a follower knows of the run in which it began is never beyond the end.

`SeccompProofs` proves `FilterExactSafe` for every table of at most 255 calls
(`SeccompAssumption`). `JumpUncut`: no distance is changed by the cut to eight bits.
`MachineInv`: the machine is at an entry only if the call is none of those before.

Each invariant is proved with one step per action of `Next`. Every invariant and every
action property that a run checks is proved, and so is the refinement. Only model-checked
are the liveness properties `SupervisorEnds`, `StopEnds`, `CommandsReturn` and `Shown`:
they rest on weak fairness, hence on ENABLED, which the prover does not handle. What the
proofs do not say is that the premises of a property are ever met; that is what the
mutants and the runs are for.

Two theorems have less than the run's property on the face of it. `StartsLimited` is
false with two stops, as section 3 says, and so its theorem has `OneStopper` as a premise,
which the instance of `command` satisfies. `RefinesLifecycle` is proved under
`Undisturbed`; the instance of `supervisor` has no command at all, and the theorem
adds any number of kills and the crash of the supervisor to it.

## 5. What is not modelled

- PIDs are not used again: `stop` may signal another process that has got the number.
- `corten kill` with other signals than a deadly one, and `exec`.
- What is in a file, and extended attributes, which tar leaves out (a finding).
- Files that the set-up of a container writes itself; restarts of a container while a
  snapshot is made; `rm` during a restore; pulls of the same image under two tags.
- Log patterns, colours and the files of `--log-dir`.
- Capabilities and masked paths: a straight line of system calls.
- Rules of iptables that are not corten's, and how the kernel evaluates them beyond
  "the first that matches".
- The names of bridges, cut to ten bytes (network.rs 644).
- In `Networks`: a dnsmasq that ends by itself, and a restart of the machine; a `network.json`
  that cannot be written in the middle of a registration, after which the invocation goes
  on. In `Container`: a supervisor that is killed *during* the set-up of the network has
  done all of it or nothing.
- `create_dir_all` and the write of `config.json` are one step. An image that `File::create`
  truncates while it is mounted has no file system any more in `Volumes`.
- `mlogs` leaves out any line that is not UTF-8 (main.rs 1277), in the model only one that
  a read cuts. A build that skips a missing COPY source with a warning (build.rs 602-605)
  counts as complete; in `Images` all of its parts are there.
- Failures of `ip` other than those of the set-up that make it fail as a whole.
- The order of the steps inside the child; parsing and printing.

## 6. Plan

1. Done: the container (Host, Supervisor, Commands, Container, Lifecycle); networks;
   forge; ports; volumes; images and snapshots; output; seccomp; the proofs above.
2. Proofs: what the liveness properties rest on, as safety: that each step of
   `run_with_tty`, of `stop` and of the loop of `forge up` goes forward in an order that
   only a restart or a return of a monitor leaves.
3. `kill` with signals that stop and continue, and `exec`, in `Commands`.
4. The order of mounts, devices and privileges in `child_main`, against what a program
   may see at each.
