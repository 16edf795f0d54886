------------------------------- MODULE Forge -------------------------------
(***************************************************************************)
(* main.rs, cmd_forge: `forge up` resolves the order and starts one        *)
(* detached container per service; `forge down` stops and removes them.    *)
(* container::run forks: the parent returns, goes on with the next service *)
(* and the child becomes the monitor of the container, until that ends.    *)
(* Then run returns in the monitor, too, inside the same loop over the     *)
(* services: the monitor goes on with the services after its own.          *)
(* Containers have the restart policy "no", the default.                   *)
(***************************************************************************)
EXTENDS ForgeOrder

CONSTANTS
  MaxContainers,  \* BOUND on the containers made
  DownDuringUp    \* whether `forge down` may begin before `forge up` is through

ASSUME MaxContainersAssumption ==
  MaxContainers \in Nat /\ DownDuringUp \in BOOLEAN

N   == Cardinality(Services)
Up  == 0                   \* `forge up`; the others are named by their container
Ids == 1..MaxContainers

VARIABLES
  made,      \* containers made so far
  service,   \* the position of each in the order
  state,     \* "none", "created", "running", "ended" (its process has)
  dir,       \* its directory is there
  monitor,   \* its monitor waits for it
  next,      \* the position a process has reached in the loop, 0 outside of it
  down,      \* `forge down`: "idle", "find", "stop", "remove", "done"
  downOrder, \* the order it has resolved
  downAt,    \* the position it has reached in it
  target     \* the container it is about

contVars == <<made, service, state, dir, monitor, next>>
downVars == <<down, downOrder, downAt, target>>
vars == <<orderVars, contVars, downVars>>

Loop == {Up} \cup Ids
InLoop(r) == verdict = "ok" /\ next[r] # 0

\* After the last service a process leaves the loop.  Mutant: it does not.
AfterAny(k) == k + 1
After(k) == IF k < N THEN k + 1 ELSE 0

-----------------------------------------------------------------------------
\* One turn of the loop: the directory and the record are made, the process
\* forks and its child is the monitor.
Makes(r) ==
  /\ InLoop(r) /\ made < MaxContainers
  /\ made' = made + 1
  /\ service' = [service EXCEPT ![made'] = next[r]]
  /\ state' = [state EXCEPT ![made'] = "created"]
  /\ dir' = [dir EXCEPT ![made'] = TRUE]
  /\ monitor' = [monitor EXCEPT ![made'] = TRUE]
  /\ next' = [next EXCEPT ![r] = After(@)]
  /\ UNCHANGED <<orderVars, downVars>>

\* Mutant: an error is passed over.
PassesOver(r) ==
  /\ InLoop(r)
  /\ next' = [next EXCEPT ![r] = After(@)]
  /\ UNCHANGED <<orderVars, made, service, state, dir, monitor, downVars>>

\* An error, of the image or of the set-up, ends the loop; the services it has
\* started so far stay.
GivesUp(r) ==
  /\ InLoop(r)
  /\ next' = [next EXCEPT ![r] = 0]
  /\ UNCHANGED <<orderVars, made, service, state, dir, monitor, downVars>>

\* The monitor starts the program.  It cannot save that if the directory has gone,
\* and returns an error while the program runs.
Launches(c) ==
  /\ state[c] = "created" /\ monitor[c]
  /\ state' = [state EXCEPT ![c] = "running"]
  /\ monitor' = [monitor EXCEPT ![c] = dir[c]]
  /\ UNCHANGED <<orderVars, made, service, dir, next, downVars>>

LaunchFails(c) ==
  /\ state[c] = "created" /\ monitor[c]
  /\ state' = [state EXCEPT ![c] = "ended"]
  /\ monitor' = [monitor EXCEPT ![c] = FALSE]
  /\ UNCHANGED <<orderVars, made, service, dir, next, downVars>>

Ends(c) ==
  /\ state[c] = "running"
  /\ state' = [state EXCEPT ![c] = "ended"]
  /\ UNCHANGED <<orderVars, made, service, dir, monitor, next, downVars>>

\* Mutant: the loop does not remember that this service has been started.
MonitorRepeats(c) ==
  /\ state[c] = "ended" /\ monitor[c]
  /\ monitor' = [monitor EXCEPT ![c] = FALSE]
  /\ next' = [next EXCEPT ![c] = IF dir[c] THEN service[c] ELSE 0]
  /\ UNCHANGED <<orderVars, made, service, state, dir, downVars>>

\* The monitor saves the final record, or fails to, and returns into the loop.
MonitorReturns(c) ==
  /\ state[c] = "ended" /\ monitor[c]
  /\ monitor' = [monitor EXCEPT ![c] = FALSE]
  /\ next' = [next EXCEPT ![c] = IF dir[c] THEN After(service[c]) ELSE 0]
  /\ UNCHANGED <<orderVars, made, service, state, dir, downVars>>

-----------------------------------------------------------------------------
(* forge down                                                              *)

UpReturned == verdict # "pending" /\ ~InLoop(Up)

\* It resolves an order of its own.
DownBegins ==
  /\ down = "idle" /\ verdict = "ok"
  /\ DownDuringUp \/ (UpReturned /\ \A c \in Ids : state[c] # "created")
  /\ downOrder' \in {o \in [1..N -> Services] : Topological(o)}
  /\ downAt' = N
  /\ down' = "find"
  /\ UNCHANGED <<orderVars, contVars, target>>

\* find_container: the first directory with the name, in the order of read_dir.
DownFinds ==
  /\ down = "find" /\ downAt > 0
  /\ LET named == {c \in Ids : dir[c] /\ order[service[c]] = downOrder[downAt]} IN
       IF named = {}
         THEN downAt' = downAt - 1 /\ UNCHANGED <<down, target>>
         ELSE target' \in named /\ down' = "stop" /\ UNCHANGED downAt
  /\ UNCHANGED <<orderVars, contVars, downOrder>>

\* Mutant: no SIGKILL.
DownWaits ==
  /\ down = "stop" /\ state[target] # "running"
  /\ down' = "remove"
  /\ UNCHANGED <<orderVars, contVars, downOrder, downAt, target>>

\* container::stop: after 10 s at the latest the process is killed.  A container
\* that is not running yet has no PID, and the error is ignored.
DownStops ==
  /\ down = "stop"
  /\ state' = [state EXCEPT ![target] = IF @ = "running" THEN "ended" ELSE @]
  /\ down' = "remove"
  /\ UNCHANGED <<orderVars, made, service, dir, monitor, next, downOrder, downAt, target>>

DownRemoves ==
  /\ down = "remove"
  /\ dir' = [dir EXCEPT ![target] = FALSE]
  /\ down' = "find"
  /\ downAt' = downAt - 1
  /\ target' = 0
  /\ UNCHANGED <<orderVars, made, service, state, monitor, next, downOrder>>

DownDone ==
  /\ down = "find" /\ downAt = 0
  /\ down' = "done"
  /\ UNCHANGED <<orderVars, contVars, downOrder, downAt, target>>

DownStep == DownFinds \/ DownStops \/ DownRemoves \/ DownDone

-----------------------------------------------------------------------------
Init ==
  /\ OrderInit
  /\ made = 0
  /\ service = [c \in Ids |-> 0]
  /\ state = [c \in Ids |-> "none"]
  /\ dir = [c \in Ids |-> FALSE]
  /\ monitor = [c \in Ids |-> FALSE]
  /\ next = [r \in Loop |-> IF r = Up /\ N > 0 THEN 1 ELSE 0]
  /\ down = "idle"
  /\ downOrder = <<>>
  /\ downAt = 0
  /\ target = 0

Resolve == OrderNext /\ UNCHANGED <<contVars, downVars>>

Next ==
  \/ Resolve
  \/ \E r \in Loop : Makes(r) \/ GivesUp(r)
  \/ \E c \in Ids : Launches(c) \/ LaunchFails(c) \/ Ends(c) \/ MonitorReturns(c)
  \/ DownBegins \/ DownStep

Spec == Init /\ [][Next]_vars

\* The two commands are never kept from running; a program may run forever, and
\* a monitor may be slow.
FairSpec == Spec /\ WF_vars(Resolve) /\ WF_vars(Makes(Up)) /\ WF_vars(DownStep)

-----------------------------------------------------------------------------
Made == 1..made

\* compose.rs 69-70: the dependencies of a service are "started before this
\* service"; the turns of the monitors in the loop keep to that, too.
StartsInOrder ==
  \A c \in Made : \A d \in deps[order[service[c]]] : \E k \in 1..(c - 1) : order[service[k]] = d

\* However the containers end, the monitors that go on with the loop do not keep
\* it going for ever: one `forge up` makes at most 2^(k-1) containers of the k-th
\* service.
CascadeBounded ==
  \A k \in 1..N : Cardinality({c \in Made : service[c] = k}) <= 2^(k - 1)

\* Both commands come to an end, even if a program ignores SIGTERM.
CommandsReturn == <>UpReturned /\ (down # "idle" ~> down = "done")

\* main.rs 1700: "All services stopped and removed."
DownIsFinal == down = "done" => \A c \in Made : state[c] \notin {"created", "running"}

TypeOK ==
  /\ OrderTypeOK
  /\ made \in 0..MaxContainers
  /\ service \in [Ids -> 0..N]
  /\ state \in [Ids -> {"none", "created", "running", "ended"}]
  /\ dir \in [Ids -> BOOLEAN]
  /\ monitor \in [Ids -> BOOLEAN]
  /\ next \in [Loop -> 0..N]
  /\ down \in {"idle", "find", "stop", "remove", "done"}
  /\ downOrder \in Seq(Services)
  /\ downAt \in 0..N
  /\ target \in 0..MaxContainers
=============================================================================
