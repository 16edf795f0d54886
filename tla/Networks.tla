------------------------------ MODULE Networks ------------------------------
(***************************************************************************)
(* network.rs: named networks and the allocation of subnets and addresses. *)
(* All state is in small files that every invocation of corten reads,      *)
(* truncates and writes without a lock: .next_octet, and for each network a *)
(* directory with network.json, next_ip and dnsmasq.pid.  An invocation    *)
(* creates a network, removes one, or supervises a container that joins    *)
(* one, joins again with each restart, and leaves it - or ends, and leaves *)
(* its entry there.                                                        *)
(***************************************************************************)
EXTENDS Naturals, FiniteSets

CONSTANTS
  Procs,    \* invocations that are alive at the same time
  Names,    \* names of containers, which need not be different
  Nets,     \* network names
  Bridge,   \* the default network, 10.0.42.0/24
  LastOctet,\* BOUND: the last subnet 10.0.<octet>.0/24; 254 in the code
  LastHost, \* BOUND: the last address of a subnet; 254 in the code
  Crashes   \* whether invocations may be killed

FirstOctet == 43
FirstHost  == 2
Pools == Nets \cup {Bridge}

ASSUME NetworksAssumption ==
  /\ Bridge \notin Nets
  /\ LastOctet \in FirstOctet..254
  /\ LastHost \in FirstHost..254
  /\ Crashes \in BOOLEAN

\* No address, and the entry of a name that has none.
None == 0

\* A counter file that is not there, and one that is truncated.  A counter is
\* a u8 and at least 2.
NoFile == 0
Torn   == 1

VARIABLES
  nextOctet,  \* .next_octet
  nextIp,     \* next_ip of each pool
  dir,        \* the network's directory
  meta,       \* network.json: "absent", "torn", "ok"
  octet,      \* its subnet
  members,    \* its containers: the address of each name
  bridge,     \* the bridge interface exists
  dns,        \* dnsmasq: "none", "up", or "dying" after SIGTERM
  pidFile     \* dnsmasq.pid: "absent", "current", or "old"

VARIABLES
  pc, net,    \* where an invocation stands, and the network it is about
  val, list,  \* its copy of a counter and of the members
  addr,       \* the address of its container, None if it has none
  fds,        \* those with a file open that has not been unlinked
  name        \* what its container is called, for good

VARIABLES     \* history
  overlapped, \* the pools two invocations have worked on at the same time, and
              \* "subnets" if two have created networks at the same time
  crashed,    \* the pools on which one was killed, and "subnets" if it created one
  shared,     \* the networks on which two containers had one name
  leftover    \* the networks on which a container has ended and stayed listed

files == <<nextOctet, nextIp, dir, meta, octet, members, bridge, dns, pidFile>>
local == <<net, val, list, addr, fds>>
ghost == <<overlapped, crashed, shared, leftover>>
vars  == <<files, pc, local, ghost, name>>

\* "up": it waits for the end of its container; "adrift": that has no supervisor any more.
Resting(p) == pc[p] \in {"idle", "up", "adrift"}
Inside(n)  == {p \in Procs : net[p] = n /\ pc[p] \in {"up", "adrift"}}

NoMembers == [x \in Names |-> None]

Goto(p, label) == pc' = [pc EXCEPT ![p] = label]

\* A working invocation takes a step.
Works(p, from) == pc[p] = from /\ UNCHANGED ghost

Creating(p) ==
  pc[p] \in {"mkdir", "octet", "octetT", "octetW", "link", "dnsmasq", "meta", "metaW"}

\* It begins to work on pool n.
Begins(p, from, n) ==
  /\ pc[p] = from
  /\ net' = [net EXCEPT ![p] = n]
  /\ LET others == {q \in Procs \ {p} : ~Resting(q)} IN
       overlapped' = overlapped
         \cup {k \in {n} : \E q \in others : net[q] = n}
         \cup {k \in {"subnets"} : Creating(p)' /\ \E q \in others : Creating(q)}
  /\ UNCHANGED <<crashed, leftover>>

-----------------------------------------------------------------------------
(* Files.  fs::write truncates, then writes; what was unlinked between gets *)
(* the bytes and nobody else does.                                         *)

OpenFile(p) == fds' = fds \cup {p}

TruncatesMeta(p, from, to) ==
  /\ Works(p, from)
  /\ IF dir[net[p]]
       THEN meta' = [meta EXCEPT ![net[p]] = "torn"] /\ OpenFile(p) /\ Goto(p, to)
       ELSE UNCHANGED <<meta, fds>> /\ Goto(p, IF from = "register" THEN "dns" ELSE "idle")
  /\ UNCHANGED <<nextOctet, nextIp, dir, octet, members, bridge, dns, pidFile,
                 net, val, list, addr>>

WritesMeta(p, from, to, subnet, names) ==
  /\ Works(p, from)
  /\ IF p \in fds
       THEN /\ meta' = [meta EXCEPT ![net[p]] = "ok"]
            /\ octet' = [octet EXCEPT ![net[p]] = subnet]
            /\ members' = [members EXCEPT ![net[p]] = names]
       ELSE UNCHANGED <<meta, octet, members>>
  /\ fds' = fds \ {p}
  /\ Goto(p, to)
  /\ UNCHANGED <<nextOctet, nextIp, dir, bridge, dns, pidFile, net, val, list, addr>>

-----------------------------------------------------------------------------
(* dnsmasq                                                                 *)

\* dnsmasq itself.  It fails if something holds the port, a dying one included, if it
\* cannot write its PID file, or as it likes; nobody minds.
Spawn(n) ==
  \/ /\ dir[n] /\ dns[n] = "none"
     /\ dns' = [dns EXCEPT ![n] = "up"]
     /\ pidFile' = [pidFile EXCEPT ![n] = "current"]
  \/ UNCHANGED <<dns, pidFile>>

\* start_network_dns, which has not found the PID file of a dead process: not if the
\* process it has found is there, a dying one included.
StartDns(n) == IF pidFile[n] = "absent" THEN Spawn(n) ELSE UNCHANGED <<dns, pidFile>>

\* update_network_dns: a SIGHUP to whatever the PID file says.
UpdateDns(n) == IF dir[n] THEN StartDns(n) ELSE UNCHANGED <<dns, pidFile>>

\* stop_network_dns tells the process of the PID file to end...
Signals(p, from, remove, next) ==
  /\ Works(p, from)
  /\ LET n == net[p] IN
       /\ dns' = [dns EXCEPT ![n] = IF pidFile[n] = "current" /\ @ = "up" THEN "dying" ELSE @]
       /\ Goto(p, IF pidFile[n] = "absent" THEN next ELSE remove)
  /\ UNCHANGED <<nextOctet, nextIp, dir, meta, octet, members, bridge, pidFile, local>>

\* ...and then removes the file, of whatever process it is by then.  Mutant: it stays.
RemovesNoPid(p, from, next) ==
  /\ Works(p, from)
  /\ Goto(p, next)
  /\ UNCHANGED <<files, local>>

RemovesPid(p, from, next) ==
  /\ Works(p, from)
  /\ pidFile' = [pidFile EXCEPT ![net[p]] = "absent"]
  /\ Goto(p, next)
  /\ UNCHANGED <<nextOctet, nextIp, dir, meta, octet, members, bridge, dns, local>>

\* dnsmasq takes its time to handle SIGTERM.
DnsDies(n) ==
  /\ dns[n] = "dying"
  /\ dns' = [dns EXCEPT ![n] = "none"]
  /\ pidFile' = [pidFile EXCEPT ![n] = IF @ = "current" THEN "old" ELSE @]
  /\ UNCHANGED <<nextOctet, nextIp, dir, meta, octet, members, bridge, pc, local, ghost>>

-----------------------------------------------------------------------------
(* create_network                                                          *)

CreateChecks(p) ==
  /\ Goto(p, "mkdir")
  /\ \E n \in Nets : ~dir[n] /\ Begins(p, "idle", n)
  /\ UNCHANGED <<files, val, list, addr, fds, shared>>

\* create_dir_all does not mind a directory that somebody else has just made.
MakesDir(p) ==
  /\ Works(p, "mkdir")
  /\ dir' = [dir EXCEPT ![net[p]] = TRUE]
  /\ Goto(p, "octet")
  /\ UNCHANGED <<nextOctet, nextIp, meta, octet, members, bridge, dns, pidFile, local>>

\* allocate_network_octet: what it cannot parse counts as 43.  Mutant: only what
\* is not there.
ReadOctetAsIs == IF nextOctet = NoFile THEN FirstOctet ELSE nextOctet
ReadOctet == IF nextOctet \in {NoFile, Torn} THEN FirstOctet ELSE nextOctet

ReadsOctet(p) ==
  /\ Works(p, "octet")
  /\ val' = [val EXCEPT ![p] = ReadOctet]
  /\ Goto(p, IF ReadOctet > LastOctet THEN "idle" ELSE "octetT")
  /\ UNCHANGED <<files, net, list, addr, fds>>

TruncatesOctet(p) ==
  /\ Works(p, "octetT")
  /\ nextOctet' = Torn
  /\ Goto(p, "octetW")
  /\ UNCHANGED <<nextIp, dir, meta, octet, members, bridge, dns, pidFile, local>>

\* Mutant: the octet stays the next one.
WritesOctetBack(p) ==
  /\ Works(p, "octetW")
  /\ nextOctet' = val[p]
  /\ Goto(p, "link")
  /\ UNCHANGED <<nextIp, dir, meta, octet, members, bridge, dns, pidFile, local>>

WritesOctet(p) ==
  /\ Works(p, "octetW")
  /\ nextOctet' = val[p] + 1
  /\ Goto(p, "link")
  /\ UNCHANGED <<nextIp, dir, meta, octet, members, bridge, dns, pidFile, local>>

\* `ip link add` and what follows: it fails if the bridge is there, and leaves
\* the directory without network.json behind.
AddsBridge(p) ==
  /\ Works(p, "link")
  /\ bridge' = [bridge EXCEPT ![net[p]] = TRUE]
  /\ Goto(p, IF bridge[net[p]] THEN "idle" ELSE "dnsmasq")
  /\ UNCHANGED <<nextOctet, nextIp, dir, meta, octet, members, dns, pidFile, local>>

\* dnsmasq is started without a look at the PID file; its failure is a warning.  One that
\* served, or dies on, a network of that name before has another address.
StartsFirstDns(p) ==
  /\ Works(p, "dnsmasq")
  /\ LET n == net[p] IN
       \/ /\ dir[n]
          /\ dns' = [dns EXCEPT ![n] = "up"]
          /\ pidFile' = [pidFile EXCEPT ![n] = "current"]
       \/ UNCHANGED <<dns, pidFile>>
  /\ Goto(p, "meta")
  /\ UNCHANGED <<nextOctet, nextIp, dir, meta, octet, members, bridge, local>>

TruncatesNew(p) == TruncatesMeta(p, "meta", "metaW")
WritesNew(p)    == WritesMeta(p, "metaW", "idle", val[p], NoMembers)

-----------------------------------------------------------------------------
(* remove_network                                                          *)

RemoveChecks(p) ==
  /\ Goto(p, "rmdns")
  /\ \E n \in Nets :
       dir[n] /\ meta[n] = "ok" /\ members[n] = NoMembers /\ Begins(p, "idle", n)
  /\ UNCHANGED <<files, val, list, addr, fds, shared>>

RemoveStopsDns(p)  == Signals(p, "rmdns", "rmpid", "rmlink")
RemoveForgetsDns(p) == RemovesPid(p, "rmpid", "rmlink")

RemoveDeletesBridge(p) ==
  /\ Works(p, "rmlink")
  /\ bridge' = [bridge EXCEPT ![net[p]] = FALSE]
  /\ Goto(p, "rmdir")
  /\ UNCHANGED <<nextOctet, nextIp, dir, meta, octet, members, dns, pidFile, local>>

RemovesDir(p) ==
  /\ Works(p, "rmdir")
  /\ dir' = [dir EXCEPT ![net[p]] = FALSE]
  /\ meta' = [meta EXCEPT ![net[p]] = "absent"]
  /\ nextIp' = [nextIp EXCEPT ![net[p]] = NoFile]
  /\ pidFile' = [pidFile EXCEPT ![net[p]] = "absent"]
  /\ fds' = {q \in fds : net[q] # net[p]}
  /\ Goto(p, "idle")
  /\ UNCHANGED <<nextOctet, octet, members, bridge, dns, net, val, list, addr>>

-----------------------------------------------------------------------------
(* setup_container_network and setup_container_named_network               *)

\* load_network, and the veth pair, which needs the bridge.  The default bridge
\* is there: run_with_tty ensures it first.
Joinable(n) == n # Bridge => meta[n] = "ok" /\ bridge[n]

Joins(p) ==
  /\ Goto(p, "ip")
  /\ \E n \in Pools :
       /\ Joinable(n)
       /\ Begins(p, "idle", n)
       /\ shared' = shared \cup {k \in {n} \cap Nets : \E q \in Inside(n) : name[q] = name[p]}
  /\ UNCHANGED <<files, val, list, addr, fds>>

\* The next iteration of run_with_tty, after the container has ended: with another
\* address, and the entry of the last iteration still there (container.rs 455-476).
Restarts(p) ==
  /\ Goto(p, "ip")
  /\ Joinable(net[p])
  /\ Begins(p, "up", net[p])
  /\ addr' = [addr EXCEPT ![p] = None]
  /\ UNCHANGED <<files, val, list, fds, shared>>

\* What allocate_ip cannot parse is an error; on a named network it counts as 2.
ReadIp(n) ==
  IF nextIp[n] = NoFile \/ (n # Bridge /\ nextIp[n] = Torn) THEN FirstHost ELSE nextIp[n]

\* Mutant: the last address is not the last.
ReadsIpBeyond(p) ==
  /\ Works(p, "ip")
  /\ ReadIp(net[p]) # Torn /\ ReadIp(net[p]) <= LastHost + 1
  /\ val' = [val EXCEPT ![p] = ReadIp(net[p])]
  /\ Goto(p, "ipT")
  /\ UNCHANGED <<files, net, list, addr, fds>>

ReadsIp(p) ==
  /\ Works(p, "ip")
  /\ ReadIp(net[p]) # Torn /\ ReadIp(net[p]) <= LastHost
  /\ val' = [val EXCEPT ![p] = ReadIp(net[p])]
  /\ Goto(p, "ipT")
  /\ UNCHANGED <<files, net, list, addr, fds>>

TruncatesIp(p) ==
  /\ Works(p, "ipT")
  /\ net[p] # Bridge => dir[net[p]]
  /\ nextIp' = [nextIp EXCEPT ![net[p]] = Torn]
  /\ OpenFile(p)
  /\ Goto(p, "ipW")
  /\ UNCHANGED <<nextOctet, dir, meta, octet, members, bridge, dns, pidFile,
                 net, val, list, addr>>

\* The address is the container's from here on.  Mutant: the counter stays.
WritesIpBack(p) ==
  /\ Works(p, "ipW")
  /\ nextIp' = IF p \in fds THEN [nextIp EXCEPT ![net[p]] = val[p]] ELSE nextIp
  /\ fds' = fds \ {p}
  /\ addr' = [addr EXCEPT ![p] = val[p]]
  /\ Goto(p, IF net[p] = Bridge THEN "ports" ELSE "load")
  /\ UNCHANGED <<nextOctet, dir, meta, octet, members, bridge, dns, pidFile, net, val, list>>

WritesIp(p) ==
  /\ Works(p, "ipW")
  /\ nextIp' = IF p \in fds THEN [nextIp EXCEPT ![net[p]] = val[p] + 1] ELSE nextIp
  /\ fds' = fds \ {p}
  /\ addr' = [addr EXCEPT ![p] = val[p]]
  /\ Goto(p, IF net[p] = Bridge THEN "ports" ELSE "load")
  /\ UNCHANGED <<nextOctet, dir, meta, octet, members, bridge, dns, pidFile, net, val, list>>

\* register_container_in_network, an error of which is ignored.  Mutant: an entry that is
\* there stays as it is.
LoadsMembersOnce(p) ==
  /\ Works(p, "load")
  /\ list' = [list EXCEPT ![p] =
                [members[net[p]] EXCEPT ![name[p]] = IF @ = None THEN addr[p] ELSE @]]
  /\ val' = [val EXCEPT ![p] = octet[net[p]]]
  /\ Goto(p, IF meta[net[p]] = "ok" THEN "register" ELSE "dns")
  /\ UNCHANGED <<files, net, addr, fds>>

LoadsMembers(p) ==
  /\ Works(p, "load")
  /\ list' = [list EXCEPT ![p] = [members[net[p]] EXCEPT ![name[p]] = addr[p]]]
  /\ val' = [val EXCEPT ![p] = octet[net[p]]]
  /\ Goto(p, IF meta[net[p]] = "ok" THEN "register" ELSE "dns")
  /\ UNCHANGED <<files, net, addr, fds>>

Registers(p) == TruncatesMeta(p, "register", "registerW")
WritesRegistration(p) == WritesMeta(p, "registerW", "hup", val[p], list[p])

UpdatesDns(p) ==
  /\ Works(p, "hup")
  /\ UpdateDns(net[p])
  /\ Goto(p, "dns")
  /\ UNCHANGED <<nextOctet, nextIp, dir, meta, octet, members, bridge, local>>

\* setup_named_network_dns: start_network_dns has found the PID file of a dead process...
EnsuresDns(p) ==
  /\ Works(p, "dns")
  /\ LET n == net[p] IN
       IF meta[n] = "ok" /\ pidFile[n] = "old"
         THEN Goto(p, "redns") /\ UNCHANGED <<dns, pidFile>>
         ELSE /\ Goto(p, "ports")
              /\ IF meta[n] = "ok" THEN StartDns(n) ELSE UNCHANGED <<dns, pidFile>>
  /\ UNCHANGED <<nextOctet, nextIp, dir, meta, octet, members, bridge, local>>

\* ...and removes the file, of whatever process it is by then.
RestartsDns(p) ==
  /\ Works(p, "redns")
  /\ LET n == net[p]
         spawns == dir[n] /\ dns[n] = "none"
     IN \/ /\ spawns
           /\ dns' = [dns EXCEPT ![n] = "up"]
           /\ pidFile' = [pidFile EXCEPT ![n] = "current"]
        \/ UNCHANGED dns /\ pidFile' = [pidFile EXCEPT ![n] = "absent"]
  /\ Goto(p, "ports")
  /\ UNCHANGED <<nextOctet, nextIp, dir, meta, octet, members, bridge, local>>

\* setup_port_forwarding, the byte on the pipe, and the record (container.rs 366-419).
Starts(p) ==
  /\ Works(p, "ports")
  /\ Goto(p, "up")
  /\ UNCHANGED <<files, local>>

-----------------------------------------------------------------------------
(* Ends of a supervisor that unregister nothing.                           *)

\* A step of the set-up fails, an exhausted pool or a torn counter included (container.rs
\* 355-407), the record cannot be saved after the end of the container (482), or that ends
\* after its supervisor.
Quits(p) ==
  /\ pc[p] \in {"ip", "ipT", "load", "ports", "up", "adrift"}
  /\ addr' = [addr EXCEPT ![p] = None]
  /\ leftover' = leftover \cup {n \in {net[p]} \cap Nets : members[n][name[p]] # None}
  /\ Goto(p, "idle")
  /\ UNCHANGED <<files, net, val, list, fds, overlapped, crashed, shared>>

\* The supervisor of a container that runs is killed, or cannot save the record (419).
Strays(p) ==
  /\ Works(p, "up")
  /\ Goto(p, "adrift")
  /\ UNCHANGED <<files, local>>

-----------------------------------------------------------------------------
(* unregister_container_from_network, after the container has ended.  The  *)
(* address does not go back to its pool (release_ip).                      *)

Leaves(p) ==
  /\ addr' = [addr EXCEPT ![p] = None]
  /\ IF net[p] # Bridge /\ meta[net[p]] = "ok"
       THEN /\ list' = [list EXCEPT ![p] = [members[net[p]] EXCEPT ![name[p]] = None]]
            /\ val' = [val EXCEPT ![p] = octet[net[p]]]
            /\ Goto(p, "unregister")
       ELSE UNCHANGED <<list, val>> /\ Goto(p, "idle")
  /\ Begins(p, "up", net[p])
  /\ UNCHANGED <<files, fds, shared>>

Unregisters(p) == TruncatesMeta(p, "unregister", "unregisterW")
WritesUnregistration(p) == WritesMeta(p, "unregisterW", "unhup", val[p], list[p])

LeaveUpdatesDns(p) ==
  /\ Works(p, "unhup")
  /\ UpdateDns(net[p])
  /\ Goto(p, IF dir[net[p]] /\ list[p] = NoMembers THEN "last" ELSE "idle")
  /\ UNCHANGED <<nextOctet, nextIp, dir, meta, octet, members, bridge, local>>

LastStopsDns(p)   == Signals(p, "last", "lastpid", "idle")
LastForgetsDns(p) == RemovesPid(p, "lastpid", "idle")

-----------------------------------------------------------------------------
\* Killed while it works on a pool, or ended by a counter that it has truncated and cannot
\* write: a container that is set up never runs.
Killed(p) ==
  /\ Crashes
  /\ ~Resting(p)
  /\ crashed' = crashed \cup {net[p]} \cup {k \in {"subnets"} : Creating(p)}
  /\ fds' = fds \ {p}
  /\ addr' = [addr EXCEPT ![p] = None]
  /\ Goto(p, "idle")
  /\ UNCHANGED <<files, net, val, list, overlapped, shared, leftover>>

Init ==
  /\ nextOctet = NoFile
  /\ nextIp = [n \in Pools |-> NoFile]
  /\ dir = [n \in Nets |-> FALSE]
  /\ meta = [n \in Nets |-> "absent"]
  /\ octet = [n \in Nets |-> 0]
  /\ members = [n \in Nets |-> NoMembers]
  /\ bridge = [n \in Nets |-> FALSE]
  /\ dns = [n \in Nets |-> "none"]
  /\ pidFile = [n \in Nets |-> "absent"]
  /\ pc = [p \in Procs |-> "idle"]
  /\ net = [p \in Procs |-> Bridge]
  /\ val = [p \in Procs |-> 0]
  /\ list = [p \in Procs |-> NoMembers]
  /\ addr = [p \in Procs |-> None]
  /\ fds = {}
  /\ name \in [Procs -> Names]
  /\ overlapped = {} /\ crashed = {} /\ shared = {} /\ leftover = {}

Create(p) ==
  \/ CreateChecks(p) \/ MakesDir(p) \/ ReadsOctet(p) \/ TruncatesOctet(p) \/ WritesOctet(p)
  \/ AddsBridge(p) \/ StartsFirstDns(p) \/ TruncatesNew(p) \/ WritesNew(p)
Remove(p) ==
  \/ RemoveChecks(p) \/ RemoveStopsDns(p) \/ RemoveForgetsDns(p) \/ RemoveDeletesBridge(p)
  \/ RemovesDir(p)
Join(p) ==
  \/ Joins(p) \/ Restarts(p) \/ ReadsIp(p) \/ TruncatesIp(p) \/ WritesIp(p)
  \/ LoadsMembers(p) \/ Registers(p) \/ WritesRegistration(p) \/ UpdatesDns(p)
  \/ EnsuresDns(p) \/ RestartsDns(p) \/ Starts(p)
Leave(p) ==
  \/ Leaves(p) \/ Unregisters(p) \/ WritesUnregistration(p) \/ LeaveUpdatesDns(p)
  \/ LastStopsDns(p) \/ LastForgetsDns(p) \/ Quits(p) \/ Strays(p)

Next ==
  /\ \/ \E p \in Procs : Create(p) \/ Remove(p) \/ Join(p) \/ Leave(p) \/ Killed(p)
     \/ \E n \in Nets : DnsDies(n)
  /\ UNCHANGED name

Spec == Init /\ [][Next]_vars

-----------------------------------------------------------------------------
\* No subnet, no address is handed out beyond the last one, whatever is torn,
\* overwritten or killed: the counters are u8 and 255 + 1 is not one
\* (network.rs 414-424, 1029-1036, 1068-1072).
PoolsBounded ==
  /\ \A n \in Nets : octet[n] <= LastOctet
  /\ \A p \in Procs : addr[p] <= LastHost
  /\ \A n \in Pools : nextIp[n] <= LastHost + 1
  /\ nextOctet <= LastOctet + 1

\* network.rs 628: "Each named network gets a unique subnet", which two that are
\* created at the same time do not.
UniqueSubnets ==
  \A n, k \in Nets : meta[n] = "ok" /\ meta[k] = "ok" /\ octet[n] = octet[k] => n = k

\* ...if no two were created at the same time, and nobody was killed at it: whatever
\* other invocations do to other networks meanwhile (network.rs 1058-1074).
UniqueSubnetsAlone == "subnets" \notin overlapped \cup crashed => UniqueSubnets

\* Two containers that are alive on a network, with their supervisors or adrift, have
\* different addresses if no invocations work on that network at the same time.  On a
\* named network nobody must be killed at work, either: there a truncated counter starts
\* again at 2, while on the default one it is an error from then on (network.rs 396-428,
\* 1024-1036).  Nor must two have one name: when one has left, the network can be removed.
UniqueAddressesAlone ==
  \A p, q \in Procs :
    /\ addr[p] # None /\ addr[p] = addr[q] /\ net[p] = net[q]
    /\ net[p] \notin overlapped
    /\ net[p] # Bridge => net[p] \notin crashed \cup shared
    => p = q

\* No invocation works on n; no two have done so at the same time, none was killed at it,
\* and no two containers had one name.
Quiet(n) ==
  /\ n \notin overlapped \cup crashed \cup shared
  /\ \A p \in Procs : net[p] = n => Resting(p)

\* The registry tells dnsmasq and remove_network the truth: the name of every container
\* that runs on a network, with its supervisor or without, restarted or not, leads to its
\* address of now, and such a network has its directory and its bridge.  It lists nothing
\* else, unless a container has ended behind its supervisor's back (network.rs 731-768,
\* 786-826; container.rs 380-386, 484-491).
RegistryExact ==
  \A n \in Nets : Quiet(n) =>
    /\ Inside(n) # {} => dir[n] /\ meta[n] = "ok" /\ bridge[n]
    /\ \A p \in Inside(n) : members[n][name[p]] = addr[p]
    /\ meta[n] = "ok" /\ n \notin leftover =>
         \A x \in Names : members[n][x] # None => \E p \in Inside(n) : name[p] = x

\* The PID file, if there is one, is of the dnsmasq that serves the network: so a
\* network whose dnsmasq has gone gets another one with the next registration, and no
\* SIGHUP goes anywhere else.  Only one that stops dnsmasq makes an exception, between its
\* signal and the removal of the file, and for good if it is killed there, so that nothing
\* is said of a network at which one was killed.  Invocations that meet make none
\* (network.rs 829-954).
DnsRepairable ==
  \A n \in Nets : pidFile[n] # "absent" =>
    \/ dns[n] = "up"
    \/ \E p \in Procs : net[p] = n /\ pc[p] \in {"rmpid", "lastpid"}
    \/ n \in crashed

TypeOK ==
  /\ nextOctet \in {NoFile, Torn} \cup FirstOctet..255
  /\ nextIp \in [Pools -> 0..255]
  /\ dir \in [Nets -> BOOLEAN]
  /\ meta \in [Nets -> {"absent", "torn", "ok"}]
  /\ octet \in [Nets -> {0} \cup FirstOctet..254]
  /\ members \in [Nets -> [Names -> {None} \cup FirstHost..254]]
  /\ bridge \in [Nets -> BOOLEAN]
  /\ dns \in [Nets -> {"none", "up", "dying"}]
  /\ pidFile \in [Nets -> {"absent", "current", "old"}]
  /\ pc \in [Procs -> {"idle", "up", "adrift", "mkdir", "octet", "octetT", "octetW", "link",
                        "dnsmasq", "meta", "metaW", "rmdns", "rmpid", "rmlink", "rmdir",
                        "ip", "ipT", "ipW", "load", "register", "registerW", "hup", "dns",
                        "redns", "ports", "unregister", "unregisterW", "unhup", "last",
                        "lastpid"}]
  /\ net \in [Procs -> Pools]
  /\ val \in [Procs -> 0..255]
  /\ list \in [Procs -> [Names -> {None} \cup FirstHost..254]]
  /\ addr \in [Procs -> {None} \cup FirstHost..254]
  /\ fds \subseteq Procs
  /\ name \in [Procs -> Names]
  /\ overlapped \subseteq Pools \cup {"subnets"}
  /\ crashed \subseteq Pools \cup {"subnets"}
  /\ shared \subseteq Nets /\ leftover \subseteq Nets
=============================================================================
