--------------------------- MODULE NetworksProofs ---------------------------
(***************************************************************************)
(* Theorems about Networks, for any number of invocations and networks, any *)
(* names of containers, all sizes of the pools, and kills at any moment.   *)
(***************************************************************************)
EXTENDS Networks, TLAPS

Subnets == FirstOctet..LastOctet
Hosts == FirstHost..LastHost
Entries == [Names -> {None} \cup Hosts]

Labels ==
  {"idle", "up", "adrift", "mkdir", "octet", "octetT", "octetW", "link", "dnsmasq", "meta",
   "metaW", "rmdns", "rmpid", "rmlink", "rmdir", "ip", "ipT", "ipW", "load", "register",
   "registerW", "hup", "dns", "redns", "ports", "unregister", "unregisterW", "unhup", "last",
   "lastpid"}

\* What an invocation knows at a label: the octet or the address it was given, or an octet
\* it has read of a network.
Known(p) ==
  /\ pc[p] \notin {"idle", "up", "adrift", "ip", "ipT", "ipW", "ports"} => net[p] \in Nets
  /\ pc[p] \in {"octetT", "octetW", "link", "dnsmasq", "meta", "metaW",
              "register", "registerW", "unregister", "unregisterW"} => val[p] \in Subnets
  /\ pc[p] \in {"ipT", "ipW"} => val[p] \in Hosts

FilesInv ==
  /\ nextOctet \in {NoFile, Torn} \cup FirstOctet..(LastOctet + 1)
  /\ nextIp \in [Pools -> {NoFile, Torn} \cup FirstHost..(LastHost + 1)]
  /\ octet \in [Nets -> {0} \cup Subnets]
  /\ dir \in [Nets -> BOOLEAN] /\ meta \in [Nets -> {"absent", "torn", "ok"}]
  /\ members \in [Nets -> Entries]
  /\ bridge \in [Nets -> BOOLEAN]
  /\ dns \in [Nets -> {"none", "up", "dying"}]
  /\ pidFile \in [Nets -> {"absent", "current", "old"}]
  /\ \A n \in Nets : meta[n] = "ok" => octet[n] # 0

ProcsInv ==
  /\ pc \in [Procs -> Labels] /\ net \in [Procs -> Pools]
  /\ val \in [Procs -> 0..255] /\ list \in [Procs -> Entries]
  /\ addr \in [Procs -> {None} \cup Hosts]
  /\ fds \subseteq Procs
  /\ \A p \in Procs : Known(p)

GhostInv ==
  /\ overlapped \subseteq Pools \cup {"subnets"} /\ crashed \subseteq Pools \cup {"subnets"}
  /\ shared \subseteq Nets /\ leftover \subseteq Nets
  /\ name \in [Procs -> Names]

NetInv == FilesInv /\ ProcsInv /\ GhostInv

-----------------------------------------------------------------------------
LEMMA Sizes == /\ FirstOctet = 43 /\ FirstHost = 2 /\ NoFile = 0 /\ Torn = 1 /\ None = 0
               /\ LastOctet \in 43..254 /\ LastHost \in 2..254
               /\ Bridge \notin Nets /\ Pools = Nets \cup {Bridge}
BY NetworksAssumption DEF FirstOctet, FirstHost, NoFile, Torn, None, Pools

LEMMA Octets == Hosts \subseteq 0..255 /\ {0} \cup Subnets \subseteq 0..255
<1>1. \A k \in Hosts : k \in 0..255 BY Sizes DEF Hosts
<1>2. \A k \in Subnets : k \in 0..255 BY Sizes DEF Subnets
<1>3. QED BY <1>1, <1>2

\* An entry is made, overwritten or deleted.
LEMMA NoMembersType == NoMembers \in Entries
BY DEF NoMembers, Entries

LEMMA EntryType ==
  ASSUME NEW f \in Entries, NEW x \in Names, NEW a \in {None} \cup Hosts
  PROVE  [f EXCEPT ![x] = a] \in Entries
BY DEF Entries

LEMMA NetInitInv == Init => NetInv
<1> SUFFICES ASSUME Init PROVE NetInv OBVIOUS
<1> USE Sizes, NoMembersType DEF Init, Labels
<1>1. FilesInv BY DEF FilesInv
<1>2. pc \in [Procs -> Labels] OBVIOUS
<1>3. \A q \in Procs : Known(q) BY DEF Known
<1>4. net \in [Procs -> Pools] /\ list \in [Procs -> Entries] OBVIOUS
<1>5. val \in [Procs -> 0..255] /\ addr \in [Procs -> {None} \cup Hosts] OBVIOUS
<1>6. fds \subseteq Procs OBVIOUS
<1>7. ProcsInv BY <1>2, <1>3, <1>4, <1>5, <1>6 DEF ProcsInv
<1>8. GhostInv BY DEF GhostInv
<1>9. QED BY <1>1, <1>7, <1>8 DEF NetInv

LEMMA BeginsGhost ==
  ASSUME NetInv, NEW p \in Procs, NEW from, NEW n \in Pools, Begins(p, from, n),
         shared' \subseteq Nets, name' = name
  PROVE  net' = [net EXCEPT ![p] = n] /\ pc[p] = from /\ GhostInv'
BY DEF Begins, NetInv, GhostInv

LEMMA WorksGhost ==
  ASSUME NetInv, UNCHANGED ghost, name' = name
  PROVE  GhostInv'
BY DEF NetInv, GhostInv, ghost

\* network.json is written: a process that has it open puts there what it knows.
LEMMA WritesMetaInv ==
  ASSUME NetInv, NEW p \in Procs, NEW from, NEW to \in Labels,
         NEW subnet \in Subnets, NEW names \in Entries,
         WritesMeta(p, from, to, subnet, names), name' = name,
         net[p] \in Nets,
         to \in {"idle", "hup", "unhup"}
  PROVE  NetInv'
<1> USE Sizes DEF NetInv, Works, Goto, ghost
<1>1. FilesInv'
  <2>0. subnet # 0 /\ subnet \in {0} \cup Subnets BY DEF Subnets
  <2>1. CASE p \in fds BY <2>0, <2>1 DEF WritesMeta, FilesInv
  <2>2. CASE p \notin fds BY <2>2 DEF WritesMeta, FilesInv
  <2>3. QED BY <2>1, <2>2
<1>2. \A q \in Procs : Known(q)' BY DEF WritesMeta, ProcsInv, Known
<1>3. ProcsInv' BY <1>2 DEF WritesMeta, ProcsInv
<1>4. GhostInv' BY DEF WritesMeta, GhostInv
<1>5. QED BY <1>1, <1>3, <1>4

\* It is truncated, if the network is still there.
LEMMA TruncatesMetaInv ==
  ASSUME NetInv, NEW p \in Procs, NEW from, NEW to \in Labels, TruncatesMeta(p, from, to),
         Known(p)', net[p] \in Nets, name' = name
  PROVE  NetInv'
<1> USE Sizes DEF NetInv, Works, Goto, OpenFile, ghost, Labels
<1>1. FilesInv'
  <2>1. CASE dir[net[p]] BY <2>1 DEF TruncatesMeta, FilesInv
  <2>2. CASE ~dir[net[p]] BY <2>2 DEF TruncatesMeta, FilesInv
  <2>3. QED BY <2>1, <2>2
<1>2. \A q \in Procs : Known(q)' BY DEF TruncatesMeta, ProcsInv, Known
<1>3. ProcsInv' BY <1>2 DEF TruncatesMeta, ProcsInv
<1>4. GhostInv' BY DEF TruncatesMeta, GhostInv
<1>5. QED BY <1>1, <1>3, <1>4

\* An invocation notes a number.
LEMMA Notes ==
  ASSUME NetInv, NEW p \in Procs, NEW e \in 0..255, val' = [val EXCEPT ![p] = e]
  PROVE  val' \in [Procs -> 0..255]
<1>1. val \in [Procs -> 0..255] BY DEF NetInv, ProcsInv
<1>2. QED BY <1>1

\* It only goes on, and does something about dnsmasq, the PID file or the bridge.
LEMMA GoesOn ==
  ASSUME NetInv, NEW p \in Procs, NEW to \in Labels, pc' = [pc EXCEPT ![p] = to],
         UNCHANGED <<nextOctet, nextIp, dir, meta, octet, members, local, ghost, name>>,
         dns' \in [Nets -> {"none", "up", "dying"}],
         pidFile' \in [Nets -> {"absent", "current", "old"}],
         bridge' \in [Nets -> BOOLEAN],
         Known(p)'
  PROVE  NetInv'
<1> USE DEF NetInv, local
<1>1. FilesInv' BY DEF FilesInv
<1>2. \A q \in Procs : Known(q)' BY DEF ProcsInv, Known
<1>3. ProcsInv' BY <1>2 DEF ProcsInv
<1>4. QED BY <1>1, <1>3, WorksGhost

LEMMA DnsType ==
  ASSUME NetInv, NEW n \in Nets, Spawn(n) \/ UpdateDns(n) \/ StartDns(n)
  PROVE  dns' \in [Nets -> {"none", "up", "dying"}]
         /\ pidFile' \in [Nets -> {"absent", "current", "old"}]
BY DEF NetInv, FilesInv, UpdateDns, StartDns, Spawn

\* stop_network_dns, of both kinds.
LEMMA StopsInv ==
  ASSUME NetInv, NEW p \in Procs, name' = name, net[p] \in Nets,
         NEW from \in {"rmdns", "last", "rmpid", "lastpid"}, NEW remove \in {"rmpid", "lastpid"},
         NEW next \in {"rmlink", "idle"}, Signals(p, from, remove, next) \/ RemovesPid(p, from, next)
  PROVE  NetInv'
<1>1. dns \in [Nets -> {"none", "up", "dying"}] /\ pidFile \in [Nets -> {"absent", "current", "old"}]
      /\ bridge \in [Nets -> BOOLEAN] /\ pc \in [Procs -> Labels]
  BY DEF NetInv, FilesInv, ProcsInv
<1>2. PICK to \in {remove, next} : pc' = [pc EXCEPT ![p] = to]
  BY DEF Signals, RemovesPid, Goto
<1>3. to \in Labels BY DEF Labels
<1>4. UNCHANGED <<nextOctet, nextIp, dir, meta, octet, members, bridge, local, ghost>>
  BY DEF Signals, RemovesPid, Works, files
<1>5. dns' \in [Nets -> {"none", "up", "dying"}] /\ pidFile' \in [Nets -> {"absent", "current", "old"}]
  BY <1>1 DEF Signals, RemovesPid
<1>6. Known(p)' BY <1>1, <1>2, <1>4 DEF Known, local
<1>7. QED BY <1>1, <1>2, <1>3, <1>4, <1>5, <1>6, GoesOn

LEMMA CreateInv ==
  ASSUME NetInv, NEW p \in Procs, Create(p), name' = name
  PROVE  NetInv'
<1> USE Sizes DEF NetInv, FilesInv, ProcsInv, Known, Works, Goto, OpenFile, Subnets, Hosts, Labels,
                  files, local
<1>1. CASE CreateChecks(p)
  <2>1. PICK n \in Nets : Begins(p, "idle", n) BY <1>1 DEF CreateChecks
  <2>2. n \in Pools /\ shared' \subseteq Nets BY <1>1 DEF CreateChecks, GhostInv
  <2>3. net' = [net EXCEPT ![p] = n] /\ GhostInv' BY <2>1, <2>2, BeginsGhost
  <2>4. QED BY <1>1, <2>2, <2>3 DEF CreateChecks
<1>2. ASSUME UNCHANGED ghost PROVE GhostInv' BY <1>2, WorksGhost
<1>3. CASE MakesDir(p)
  <2>1. FilesInv' BY <1>3 DEF MakesDir
  <2>2. pc' \in [Procs -> Labels] BY <1>3 DEF MakesDir
  <2>3. \A q \in Procs : Known(q)' BY <1>3 DEF MakesDir
  <2>4. QED BY <1>2, <1>3, <2>1, <2>2, <2>3 DEF MakesDir
<1>4. CASE ReadsOctet(p) BY <1>2, <1>4 DEF ReadsOctet, ReadOctet
<1>5. CASE TruncatesOctet(p) BY <1>2, <1>5 DEF TruncatesOctet
<1>6. CASE WritesOctet(p) BY <1>2, <1>6 DEF WritesOctet
<1>7. CASE AddsBridge(p) BY <1>2, <1>7 DEF AddsBridge
<1>8. CASE StartsFirstDns(p) BY <1>2, <1>8 DEF StartsFirstDns
<1>9. CASE TruncatesNew(p)
  <2>1. pc[p] = "meta" /\ pc'[p] \in {"metaW", "idle"} /\ val' = val /\ net' = net
    BY <1>9 DEF TruncatesNew, TruncatesMeta
  <2>2. QED BY <1>9, <2>1, TruncatesMetaInv DEF TruncatesNew
<1>10. CASE WritesNew(p)
  <2>1. pc[p] = "metaW" BY <1>10 DEF WritesNew, WritesMeta
  <2>2. net[p] \in Nets /\ val[p] \in Subnets BY <2>1
  <2>3. WritesMeta(p, "metaW", "idle", val[p], NoMembers) BY <1>10 DEF WritesNew
  <2>4. "idle" \in Labels OBVIOUS
  <2> HIDE DEF NetInv, Works, Goto, Subnets, Labels
  <2>5. QED BY <2>2, <2>3, <2>4, NoMembersType, WritesMetaInv
<1>11. QED BY <1>1, <1>3, <1>4, <1>5, <1>6, <1>7, <1>8, <1>9, <1>10 DEF Create

LEMMA RemoveInv ==
  ASSUME NetInv, NEW p \in Procs, Remove(p), name' = name
  PROVE  NetInv'
<1> USE Sizes DEF NetInv, FilesInv, ProcsInv, Known, Works, Goto, Subnets, Hosts, Labels,
                  files, local
<1>1. CASE RemoveChecks(p)
  <2>1. PICK n \in Nets : Begins(p, "idle", n) BY <1>1 DEF RemoveChecks
  <2>2. n \in Pools /\ shared' \subseteq Nets BY <1>1 DEF RemoveChecks, GhostInv
  <2>3. /\ net' = [net EXCEPT ![p] = n] /\ pc' = [pc EXCEPT ![p] = "rmdns"] /\ GhostInv'
        /\ UNCHANGED <<nextOctet, nextIp, dir, meta, octet, members, bridge, dns, pidFile,
                       val, list, addr, fds>>
    BY <1>1, <2>1, <2>2, BeginsGhost DEF RemoveChecks
  <2>4. FilesInv' BY <2>3
  <2>5. \A q \in Procs : Known(q)' BY <2>2, <2>3
  <2>6. QED BY <2>3, <2>4, <2>5
<1>2. CASE RemoveStopsDns(p) \/ RemoveForgetsDns(p)
  <2>1. net[p] \in Nets BY <1>2 DEF RemoveStopsDns, RemoveForgetsDns, Signals, RemovesPid
  <2> HIDE DEF NetInv
  <2>2. QED BY <1>2, <2>1, StopsInv DEF RemoveStopsDns, RemoveForgetsDns
<1>3. ASSUME UNCHANGED ghost PROVE GhostInv' BY <1>3, WorksGhost
<1>4. CASE RemoveDeletesBridge(p) BY <1>3, <1>4 DEF RemoveDeletesBridge
<1>5. CASE RemovesDir(p) BY <1>3, <1>5 DEF RemovesDir
<1>6. QED BY <1>1, <1>2, <1>4, <1>5 DEF Remove

\* Somebody begins to join, at the start or with a restart.
LEMMA BeginsToJoin ==
  ASSUME NetInv, NEW p \in Procs, Joins(p) \/ Restarts(p), name' = name
  PROVE  NetInv'
<1> USE DEF NetInv
<1>1. PICK n \in Pools, from \in {"idle", "up"} : Begins(p, from, n)
  BY DEF Joins, Restarts, ProcsInv
<1>2. shared' \subseteq Nets BY DEF Joins, Restarts, GhostInv
<1>3. net' = [net EXCEPT ![p] = n] /\ GhostInv'
  BY <1>1, <1>2, BeginsGhost
<1>4. /\ pc' = [pc EXCEPT ![p] = "ip"]
      /\ addr' = addr \/ addr' = [addr EXCEPT ![p] = None]
      /\ UNCHANGED <<files, val, list, fds>>
  BY DEF Joins, Restarts, Goto
<1>5. FilesInv' BY <1>4 DEF FilesInv, files
<1>6. \A q \in Procs : Known(q)' BY <1>3, <1>4 DEF Known, ProcsInv
<1>7. ProcsInv' BY <1>3, <1>4, <1>6 DEF ProcsInv, Labels
<1>8. QED BY <1>3, <1>5, <1>7

\* What LoadsMembers and Leaves have in common: a copy of network.json is changed.
LEMMA CopiesInv ==
  ASSUME NetInv, NEW p \in Procs, NEW n \in Nets, n = net[p], NEW to \in Labels,
         NEW a \in {None} \cup Hosts, pc' = [pc EXCEPT ![p] = to],
         to \in {"register", "unregister"} => meta[n] = "ok",
         to \in {"dns", "register", "unregister"},
         list' = [list EXCEPT ![p] = [members[n] EXCEPT ![name[p]] = a]],
         val' = [val EXCEPT ![p] = octet[n]],
         net' = net, addr' = addr \/ addr' = [addr EXCEPT ![p] = None],
         UNCHANGED <<files, fds>>, GhostInv'
  PROVE  NetInv'
<1> USE DEF NetInv, FilesInv, ProcsInv, files
<1>1. octet[n] \in {0} \cup Subnets /\ members[n] \in Entries /\ name[p] \in Names
  BY DEF GhostInv
<1>2. octet[n] \in 0..255 BY <1>1, Octets
<1>3. val' \in [Procs -> 0..255] BY <1>2, Notes
<1>4. list' \in [Procs -> Entries]
  <2>1. [members[n] EXCEPT ![name[p]] = a] \in Entries BY <1>1, EntryType
  <2>2. QED BY <2>1
<1>5. to \in {"register", "unregister"} => val'[p] \in Subnets BY <1>1
<1>6. \A q \in Procs : Known(q)'
  <2>1. Known(p)' BY <1>5 DEF Known
  <2>2. ASSUME NEW q \in Procs, q # p PROVE Known(q)' BY <2>2 DEF Known
  <2>3. QED BY <2>1, <2>2
<1>7. FilesInv' OBVIOUS
<1>8. addr' \in [Procs -> {None} \cup Hosts] OBVIOUS
<1>9. ProcsInv' BY <1>3, <1>4, <1>6, <1>8
<1>10. QED BY <1>7, <1>9

LEMMA JoinInv ==
  ASSUME NetInv, NEW p \in Procs, Join(p), name' = name
  PROVE  NetInv'
<1>0. pc \in [Procs -> Labels] /\ dns \in [Nets -> {"none", "up", "dying"}]
      /\ pidFile \in [Nets -> {"absent", "current", "old"}] /\ bridge \in [Nets -> BOOLEAN]
      /\ FilesInv /\ ProcsInv
  BY DEF NetInv, FilesInv, ProcsInv
<1>1. CASE Joins(p) \/ Restarts(p) BY <1>1, BeginsToJoin
<1>2. CASE ReadsIp(p)
  <2>1. /\ pc[p] = "ip" /\ pc' = [pc EXCEPT ![p] = "ipT"] /\ val' = [val EXCEPT ![p] = ReadIp(net[p])]
        /\ UNCHANGED <<files, net, list, addr, fds, ghost>>
    BY <1>2 DEF ReadsIp, Works, Goto
  <2>2. ReadIp(net[p]) \in {Torn} \cup FirstHost..(LastHost + 1)
    BY <1>0, Sizes DEF ReadIp, FilesInv, ProcsInv
  <2>3. ReadIp(net[p]) \in Hosts BY <1>2, <2>2, Sizes DEF ReadsIp, Hosts
  <2>4. val' \in [Procs -> 0..255] BY <2>1, <2>3, Octets, Notes
  <2>5. \A q \in Procs : Known(q)'
    <3>1. Known(p)' BY <1>0, <2>1, <2>3 DEF Known, ProcsInv
    <3>2. ASSUME NEW q \in Procs, q # p PROVE Known(q)' BY <1>0, <2>1, <3>2 DEF Known, ProcsInv
    <3>3. QED BY <3>1, <3>2
  <2>6. FilesInv' BY <1>0, <2>1 DEF FilesInv, files
  <2>7. ProcsInv' BY <1>0, <2>1, <2>4, <2>5 DEF ProcsInv, Labels
  <2>8. QED BY <2>1, <2>6, <2>7, WorksGhost DEF NetInv
<1>3. CASE TruncatesIp(p) \/ WritesIp(p)
  <2>1. ghost' = ghost BY <1>3 DEF TruncatesIp, WritesIp, Works
  <2>2. FilesInv'
    BY <1>0, <1>3, Sizes DEF TruncatesIp, WritesIp, Works, FilesInv, ProcsInv, Known, Hosts
  <2>3. \A q \in Procs : Known(q)'
    BY <1>0, <1>3, Sizes DEF TruncatesIp, WritesIp, Works, Goto, ProcsInv, Known
  <2>4. ProcsInv'
    BY <1>0, <1>3, <2>3 DEF TruncatesIp, WritesIp, Works, Goto, OpenFile, ProcsInv, Known, Labels
  <2>5. QED BY <2>1, <2>2, <2>4, WorksGhost DEF NetInv
<1>4. CASE LoadsMembers(p)
  <2>1. /\ net[p] \in Nets /\ pc' = [pc EXCEPT ![p] = IF meta[net[p]] = "ok" THEN "register" ELSE "dns"]
        /\ list' = [list EXCEPT ![p] = [members[net[p]] EXCEPT ![name[p]] = addr[p]]]
        /\ val' = [val EXCEPT ![p] = octet[net[p]]]
        /\ UNCHANGED <<files, net, addr, fds, ghost>>
    BY <1>0, <1>4 DEF LoadsMembers, Works, Goto, ProcsInv, Known
  <2>2. GhostInv' BY <2>1, WorksGhost
  <2>3. addr[p] \in {None} \cup Hosts BY <1>0 DEF ProcsInv
  <2>4. (IF meta[net[p]] = "ok" THEN "register" ELSE "dns") \in Labels BY DEF Labels
  <2>5. QED BY <2>1, <2>2, <2>3, <2>4, CopiesInv
<1>5. CASE Registers(p)
  <2>1. pc[p] = "register" /\ pc'[p] \in {"registerW", "dns"} /\ val' = val /\ net' = net
    BY <1>0, <1>5 DEF Registers, TruncatesMeta, Works, Goto
  <2>2. Known(p)' /\ net[p] \in Nets BY <1>0, <2>1 DEF ProcsInv, Known
  <2>3. "registerW" \in Labels BY DEF Labels
  <2>4. QED BY <1>5, <2>2, <2>3, TruncatesMetaInv DEF Registers
<1>6. CASE WritesRegistration(p)
  <2>1. pc[p] = "registerW" BY <1>6 DEF WritesRegistration, WritesMeta, Works
  <2>2. net[p] \in Nets /\ val[p] \in Subnets /\ list[p] \in Entries
    BY <1>0, <2>1 DEF ProcsInv, Known
  <2>3. WritesMeta(p, "registerW", "hup", val[p], list[p]) BY <1>6 DEF WritesRegistration
  <2>4. "hup" \in Labels BY DEF Labels
  <2>5. QED BY <2>2, <2>3, <2>4, WritesMetaInv
<1>7. CASE UpdatesDns(p) \/ EnsuresDns(p) \/ RestartsDns(p) \/ Starts(p)
  <2>1. /\ pc[p] \in {"hup", "dns", "redns", "ports"}
        /\ UNCHANGED <<nextOctet, nextIp, dir, meta, octet, members, bridge, local, ghost>>
    BY <1>7 DEF UpdatesDns, EnsuresDns, RestartsDns, Starts, Works, files
  <2>2. PICK to \in {"dns", "redns", "ports", "up"} : pc' = [pc EXCEPT ![p] = to]
    BY <1>7 DEF UpdatesDns, EnsuresDns, RestartsDns, Starts, Goto
  <2>3. to = "up" \/ net[p] \in Nets
    BY <1>0, <1>7, <2>2 DEF UpdatesDns, EnsuresDns, RestartsDns, Starts, Works, Goto, ProcsInv, Known
  <2>4. dns' \in [Nets -> {"none", "up", "dying"}] /\ pidFile' \in [Nets -> {"absent", "current", "old"}]
    <3>1. CASE Starts(p) BY <1>0, <3>1 DEF Starts, files
    <3>2. CASE UpdatesDns(p)
      <4>1. net[p] \in Nets /\ UpdateDns(net[p])
        BY <1>0, <3>2 DEF UpdatesDns, Works, ProcsInv, Known
      <4>2. QED BY <4>1, DnsType
    <3>3. CASE EnsuresDns(p)
      <4>1. net[p] \in Nets /\ (StartDns(net[p]) \/ UNCHANGED <<dns, pidFile>>)
        BY <1>0, <3>3 DEF EnsuresDns, Works, ProcsInv, Known
      <4>2. QED BY <1>0, <4>1, DnsType
    <3>4. CASE RestartsDns(p) BY <1>0, <3>4 DEF RestartsDns
    <3>5. QED BY <1>7, <3>1, <3>2, <3>3, <3>4
  <2>5. to \in Labels BY <2>2 DEF Labels
  <2>6. Known(p)' BY <1>0, <2>1, <2>2, <2>3 DEF Known, local
  <2>7. QED BY <1>0, <2>1, <2>2, <2>4, <2>5, <2>6, GoesOn
<1>8. QED BY <1>1, <1>2, <1>3, <1>4, <1>5, <1>6, <1>7 DEF Join

\* An end of an invocation, as it likes or not.
LEMMA EndsInv ==
  ASSUME NetInv, NEW p \in Procs, Quits(p) \/ Strays(p) \/ Killed(p), name' = name
  PROVE  NetInv'
<1> USE DEF NetInv
<1>1. PICK to \in {"idle", "adrift"} : pc' = [pc EXCEPT ![p] = to]
  BY DEF Quits, Strays, Killed, Goto
<1>2. /\ addr' = addr \/ addr' = [addr EXCEPT ![p] = None]
      /\ UNCHANGED <<files, net, val, list>> /\ fds' \subseteq fds
  BY DEF Quits, Strays, Killed, local
<1>3. FilesInv' BY <1>2 DEF FilesInv, files
<1>4. \A q \in Procs : Known(q)' BY <1>1, <1>2 DEF Known, ProcsInv
<1>5. addr' \in [Procs -> {None} \cup Hosts] BY <1>2 DEF ProcsInv
<1>6. ProcsInv' BY <1>1, <1>2, <1>4, <1>5 DEF ProcsInv, Labels
<1>7. net[p] \in Pools BY DEF ProcsInv
<1>8. /\ overlapped' = overlapped /\ shared' = shared
      /\ crashed' \subseteq Pools \cup {"subnets"} /\ leftover' \subseteq Nets
  BY <1>7 DEF Quits, Strays, Killed, Works, ghost, GhostInv
<1>9. GhostInv' BY <1>8 DEF GhostInv
<1>10. QED BY <1>3, <1>6, <1>9

LEMMA LeaveInv ==
  ASSUME NetInv, NEW p \in Procs, Leave(p), name' = name
  PROVE  NetInv'
<1>0. pc \in [Procs -> Labels] /\ FilesInv /\ ProcsInv /\ bridge \in [Nets -> BOOLEAN]
      /\ net \in [Procs -> Pools]
  BY DEF NetInv, FilesInv, ProcsInv
<1>1. CASE Leaves(p)
  <2>1. net[p] \in Pools /\ shared' \subseteq Nets BY <1>0, <1>1 DEF Leaves, NetInv, GhostInv
  <2>2. net' = net /\ GhostInv'
    <3>1. net' = [net EXCEPT ![p] = net[p]] /\ GhostInv'
      BY <1>1, <2>1, BeginsGhost DEF Leaves
    <3>2. QED BY <1>0, <3>1
  <2>3. addr' = [addr EXCEPT ![p] = None] /\ UNCHANGED <<files, fds>> BY <1>1 DEF Leaves
  <2>4. CASE net[p] # Bridge /\ meta[net[p]] = "ok"
    <3>1. /\ pc' = [pc EXCEPT ![p] = "unregister"]
          /\ list' = [list EXCEPT ![p] = [members[net[p]] EXCEPT ![name[p]] = None]]
          /\ val' = [val EXCEPT ![p] = octet[net[p]]]
      BY <1>1, <2>4 DEF Leaves, Goto
    <3>2. net[p] \in Nets BY <2>1, <2>4, Sizes
    <3>3. "unregister" \in Labels BY DEF Labels
    <3>4. QED BY <2>2, <2>3, <2>4, <3>1, <3>2, <3>3, CopiesInv
  <2>5. CASE ~(net[p] # Bridge /\ meta[net[p]] = "ok")
    <3>1. pc' = [pc EXCEPT ![p] = "idle"] /\ UNCHANGED <<list, val>> BY <1>1, <2>5 DEF Leaves, Goto
    <3>2. FilesInv' BY <1>0, <2>3 DEF FilesInv, files
    <3>3. \A q \in Procs : Known(q)' BY <1>0, <2>2, <3>1 DEF Known, ProcsInv
    <3>4. ProcsInv' BY <1>0, <2>2, <2>3, <3>1, <3>3 DEF ProcsInv, Labels
    <3>5. QED BY <2>2, <3>2, <3>4 DEF NetInv
  <2>6. QED BY <2>4, <2>5
<1>2. CASE Unregisters(p)
  <2>1. pc[p] = "unregister" /\ pc'[p] \in {"unregisterW", "idle"} /\ val' = val /\ net' = net
    BY <1>0, <1>2 DEF Unregisters, TruncatesMeta, Works, Goto
  <2>2. Known(p)' /\ net[p] \in Nets BY <1>0, <2>1 DEF ProcsInv, Known
  <2>3. "unregisterW" \in Labels BY DEF Labels
  <2>4. QED BY <1>2, <2>2, <2>3, TruncatesMetaInv DEF Unregisters
<1>3. CASE WritesUnregistration(p)
  <2>1. pc[p] = "unregisterW" BY <1>3 DEF WritesUnregistration, WritesMeta, Works
  <2>2. net[p] \in Nets /\ val[p] \in Subnets /\ list[p] \in Entries
    BY <1>0, <2>1 DEF ProcsInv, Known
  <2>3. WritesMeta(p, "unregisterW", "unhup", val[p], list[p]) BY <1>3 DEF WritesUnregistration
  <2>4. "unhup" \in Labels BY DEF Labels
  <2>5. QED BY <2>2, <2>3, <2>4, WritesMetaInv
<1>4. CASE LeaveUpdatesDns(p)
  <2>1. /\ pc[p] = "unhup" /\ UpdateDns(net[p])
        /\ UNCHANGED <<nextOctet, nextIp, dir, meta, octet, members, bridge, local, ghost>>
    BY <1>4 DEF LeaveUpdatesDns, Works
  <2>2. net[p] \in Nets BY <1>0, <2>1 DEF ProcsInv, Known
  <2>3. PICK to \in {"last", "idle"} : pc' = [pc EXCEPT ![p] = to] BY <1>4 DEF LeaveUpdatesDns, Goto
  <2>4. to \in Labels /\ Known(p)' BY <1>0, <2>1, <2>2, <2>3 DEF Labels, Known, local
  <2>5. QED BY <1>0, <2>1, <2>2, <2>3, <2>4, DnsType, GoesOn
<1>5. CASE LastStopsDns(p) \/ LastForgetsDns(p)
  <2>1. net[p] \in Nets
    BY <1>0, <1>5 DEF LastStopsDns, LastForgetsDns, Signals, RemovesPid, Works, ProcsInv, Known
  <2>2. QED BY <1>5, <2>1, StopsInv DEF LastStopsDns, LastForgetsDns
<1>6. CASE Quits(p) \/ Strays(p) BY <1>6, EndsInv
<1>7. QED BY <1>1, <1>2, <1>3, <1>4, <1>5, <1>6 DEF Leave

LEMMA NetStep == NetInv /\ [Next]_vars => NetInv'
<1> SUFFICES ASSUME NetInv, [Next]_vars PROVE NetInv' OBVIOUS
<1>1. ASSUME NEW n \in Nets, DnsDies(n), name' = name PROVE NetInv'
  BY <1>1 DEF DnsDies, NetInv, FilesInv, ProcsInv, GhostInv, Known, local, ghost
<1>2. CASE UNCHANGED vars
  BY <1>2 DEF vars, NetInv, FilesInv, ProcsInv, GhostInv, Known, files, local, ghost
<1>3. QED BY <1>1, <1>2, CreateInv, RemoveInv, JoinInv, LeaveInv, EndsInv DEF Next

-----------------------------------------------------------------------------
\* The invariant holds throughout, kills between any two steps included (network.rs
\* 396-439, 629-1074).
THEOREM NetInvariant == Spec => []NetInv
BY NetInitInv, NetStep, PTL DEF Spec

\* Every file has what the code may write into it.
THEOREM NetworksTypeSafe == Spec => []TypeOK
<1>1. NetInv => TypeOK
  <2> SUFFICES ASSUME NetInv PROVE TypeOK OBVIOUS
  <2> USE Sizes DEF NetInv
  <2>1. nextOctet \in {NoFile, Torn} \cup FirstOctet..255 BY DEF FilesInv
  <2>2. nextIp \in [Pools -> 0..255]
    <3>1. {NoFile, Torn} \cup FirstHost..(LastHost + 1) \subseteq 0..255 OBVIOUS
    <3>2. QED BY <3>1 DEF FilesInv
  <2>3. octet \in [Nets -> {0} \cup FirstOctet..254]
    <3>1. {0} \cup Subnets \subseteq {0} \cup FirstOctet..254 BY DEF Subnets
    <3>2. QED BY <3>1 DEF FilesInv
  <2>4. {None} \cup Hosts \subseteq {None} \cup FirstHost..254 BY DEF Hosts
  <2>5. addr \in [Procs -> {None} \cup FirstHost..254] BY <2>4 DEF ProcsInv
  <2>6. Entries \subseteq [Names -> {None} \cup FirstHost..254] BY <2>4 DEF Entries
  <2>7. members \in [Nets -> [Names -> {None} \cup FirstHost..254]]
        /\ list \in [Procs -> [Names -> {None} \cup FirstHost..254]]
    BY <2>6 DEF FilesInv, ProcsInv
  <2>8. QED BY <2>1, <2>2, <2>3, <2>5, <2>7 DEF FilesInv, ProcsInv, GhostInv, TypeOK, Labels
<1>2. QED BY <1>1, NetInvariant, PTL

\* No subnet and no address is handed out beyond the last, whatever is torn, overwritten
\* or killed, for pools of any size (network.rs 414-424, 1068-1072).
THEOREM PoolsBoundedSafe == Spec => []PoolsBounded
<1>1. NetInv => PoolsBounded
  BY Sizes DEF NetInv, FilesInv, ProcsInv, PoolsBounded, Subnets, Hosts
<1>2. QED BY <1>1, NetInvariant, PTL

-----------------------------------------------------------------------------
(* Subnets.  As long as no two networks are created at the same time and    *)
(* nobody is killed at it, every octet that some file or some invocation    *)
(* has for a network was counted, and was for that network.                 *)

AloneInSubnets == "subnets" \notin overlapped \cup crashed

Carries(q) ==
  pc[q] \in {"link", "dnsmasq", "meta", "metaW", "register", "registerW", "unregister",
             "unregisterW"}

Has(n, o) ==
  octet[n] = o \/ \E q \in Procs : Carries(q) /\ net[q] = n /\ val[q] = o

OneCreates == \A p, q \in Procs : Creating(p) /\ Creating(q) => p = q
Disjoint == \A n, k \in Nets, o \in Subnets : Has(n, o) /\ Has(k, o) => n = k
Counted ==
  \A n \in Nets, o \in Subnets : Has(n, o) =>
    /\ \A p \in Procs : pc[p] = "octetW" => o < val[p]
    /\ nextOctet # Torn => o < nextOctet
Counts ==
  /\ (\A p \in Procs : pc[p] # "octetW") => nextOctet # Torn
  /\ \A p \in Procs : pc[p] = "octetT" => val[p] = ReadOctet

SubInv == AloneInSubnets => OneCreates /\ Disjoint /\ Counted /\ Counts

\* What most steps have in common: they do not count, and an octet that p takes along or
\* writes was known of the same network before.
Carried(p) ==
  /\ AloneInSubnets' => AloneInSubnets
  /\ nextOctet' = nextOctet
  /\ \A q \in Procs \ {p} : pc'[q] = pc[q] /\ val'[q] = val[q] /\ net'[q] = net[q]
  /\ Creating(p)' => Creating(p)
  /\ pc'[p] \notin {"octetT", "octetW"} /\ pc[p] # "octetW"
  /\ Carries(p)' => net'[p] = net[p] /\ (\/ Carries(p) /\ val'[p] = val[p]
                                         \/ val'[p] = octet[net[p]])
  /\ \A n \in Nets : octet'[n] = octet[n] \/ (n = net[p] /\ Carries(p) /\ octet'[n] = val[p])

LEMMA CarriedKeeps ==
  ASSUME NetInv, SubInv, NEW p \in Procs, Carried(p)
  PROVE  SubInv'
<1> SUFFICES ASSUME AloneInSubnets'
             PROVE  OneCreates' /\ Disjoint' /\ Counted' /\ Counts'
  BY DEF SubInv
<1>1. OneCreates /\ Disjoint /\ Counted /\ Counts BY DEF SubInv, Carried
<1>2. ASSUME NEW n \in Nets, NEW o, Has(n, o)' PROVE Has(n, o)
  <2>1. CASE octet'[n] = o BY <2>1 DEF Carried, Has
  <2>2. ASSUME NEW q \in Procs, Carries(q)', net'[q] = n, val'[q] = o PROVE Has(n, o)
    <3>1. CASE q = p BY <2>2, <3>1 DEF Carried, Has
    <3>2. CASE q # p BY <2>2, <3>2 DEF Carried, Has, Carries
    <3>3. QED BY <3>1, <3>2
  <2>3. QED BY <1>2, <2>1, <2>2 DEF Has
<1>3. \A q \in Procs : Creating(q)' => Creating(q) BY DEF Carried, Creating
<1>4. \A q \in Procs : /\ pc'[q] \in {"octetT", "octetW"} => pc'[q] = pc[q] /\ val'[q] = val[q]
                       /\ pc[q] = "octetW" => pc'[q] = "octetW"
  BY DEF Carried
<1>5. nextOctet' = nextOctet BY DEF Carried
<1>6. OneCreates' BY <1>1, <1>3 DEF OneCreates
<1>7. Disjoint' BY <1>1, <1>2 DEF Disjoint
<1>8. Counted' BY <1>1, <1>2, <1>4, <1>5 DEF Counted
<1>9. Counts' BY <1>1, <1>4, <1>5 DEF Counts, ReadOctet
<1>10. QED BY <1>6, <1>7, <1>8, <1>9

\* A creation begins only when no other is under way.
LEMMA CreateChecksCounts ==
  ASSUME NetInv, SubInv, NEW p \in Procs, CreateChecks(p)
  PROVE  SubInv'
<1> SUFFICES ASSUME AloneInSubnets'
             PROVE  OneCreates' /\ Disjoint' /\ Counted' /\ Counts'
  BY DEF SubInv
<1>1. PICK n \in Nets : Begins(p, "idle", n) BY DEF CreateChecks
<1>2. pc[p] = "idle" /\ pc' = [pc EXCEPT ![p] = "mkdir"] /\ net' = [net EXCEPT ![p] = n]
      /\ UNCHANGED <<nextOctet, octet, val>>
  BY <1>1 DEF CreateChecks, Begins, Goto, files
<1>3. AloneInSubnets BY <1>1 DEF Begins, AloneInSubnets
<1>4. OneCreates /\ Disjoint /\ Counted /\ Counts BY <1>3 DEF SubInv
<1>5. pc \in [Procs -> Labels] /\ net \in [Procs -> Pools] BY DEF NetInv, ProcsInv
<1>6. Creating(p)' BY <1>2, <1>5 DEF Creating
<1>7. \A q \in Procs \ {p} : ~Creating(q)
  <2>1. ASSUME NEW q \in Procs \ {p}, Creating(q) PROVE FALSE
    <3>1. ~Resting(q) BY <2>1 DEF Creating, Resting
    <3>2. "subnets" \in overlapped' BY <1>1, <1>6, <2>1, <3>1 DEF Begins
    <3>3. QED BY <3>2 DEF AloneInSubnets
  <2>2. QED BY <2>1
<1>8. \A q \in Procs \ {p} : ~Creating(q)' BY <1>2, <1>5, <1>7 DEF Creating
<1>9. OneCreates' BY <1>8 DEF OneCreates
<1>10. ASSUME NEW k \in Nets, NEW o, Has(k, o)' PROVE Has(k, o)
  BY <1>2, <1>5, <1>10 DEF Has, Carries
<1>11. Disjoint' BY <1>4, <1>10 DEF Disjoint
<1>12. Counted' BY <1>2, <1>4, <1>5, <1>10 DEF Counted
<1>13. Counts' BY <1>2, <1>4, <1>5 DEF Counts, ReadOctet
<1>14. QED BY <1>9, <1>11, <1>12, <1>13

\* The only one that creates reads the counter, truncates it and writes it.
LEMMA CountingCounts ==
  ASSUME NetInv, SubInv, NEW p \in Procs, ReadsOctet(p) \/ TruncatesOctet(p) \/ WritesOctet(p)
  PROVE  SubInv'
<1> SUFFICES ASSUME AloneInSubnets'
             PROVE  OneCreates' /\ Disjoint' /\ Counted' /\ Counts'
  BY DEF SubInv
<1>1. AloneInSubnets BY DEF ReadsOctet, TruncatesOctet, WritesOctet, Works, ghost, AloneInSubnets
<1>2. OneCreates /\ Disjoint /\ Counted /\ Counts BY <1>1 DEF SubInv
<1>3. pc \in [Procs -> Labels] /\ val \in [Procs -> 0..255] BY DEF NetInv, ProcsInv
<1>4. net' = net /\ octet' = octet
  BY DEF ReadsOctet, TruncatesOctet, WritesOctet, files, local
<1>5. Creating(p) BY DEF ReadsOctet, TruncatesOctet, WritesOctet, Works, Creating
<1>6. \A q \in Procs \ {p} : pc'[q] = pc[q] /\ ~Creating(q)
  BY <1>2, <1>3, <1>5 DEF OneCreates, ReadsOctet, TruncatesOctet, WritesOctet, Goto
<1>7. \A q \in Procs \ {p} : ~Creating(q)' BY <1>6 DEF Creating
<1>8. OneCreates' BY <1>7 DEF OneCreates
<1>9. \A q \in Procs \ {p} : pc[q] \notin {"octetT", "octetW"} /\ pc'[q] \notin {"octetT", "octetW"}
  BY <1>6, <1>7 DEF Creating
<1>10. CASE ReadsOctet(p)
  <2>1. /\ pc[p] = "octet" /\ pc'[p] \in {"idle", "octetT"} /\ nextOctet' = nextOctet
        /\ val' = [val EXCEPT ![p] = ReadOctet]
    BY <1>3, <1>10 DEF ReadsOctet, Works, Goto, files
  <2>2. ASSUME NEW k \in Nets, NEW o, Has(k, o)' PROVE Has(k, o)
    BY <1>3, <1>4, <1>6, <2>1, <2>2 DEF Has, Carries
  <2>3. Disjoint' BY <1>2, <2>2 DEF Disjoint
  <2>4. Counted' BY <1>2, <1>9, <2>1, <2>2 DEF Counted
  <2>5. Counts' BY <1>2, <1>3, <1>9, <2>1 DEF Counts, ReadOctet
  <2>6. QED BY <1>8, <2>3, <2>4, <2>5
<1>11. CASE TruncatesOctet(p)
  <2>1. /\ pc[p] = "octetT" /\ pc'[p] = "octetW" /\ nextOctet' = Torn /\ val' = val
    BY <1>3, <1>11 DEF TruncatesOctet, Works, Goto, local
  <2>2. ASSUME NEW k \in Nets, NEW o, Has(k, o)' PROVE Has(k, o)
    BY <1>4, <1>6, <2>1, <2>2 DEF Has, Carries
  <2>3. Disjoint' BY <1>2, <2>2 DEF Disjoint
  <2>4. nextOctet # Torn /\ val[p] = ReadOctet
    BY <1>2, <1>9, <2>1 DEF Counts
  <2>5. ASSUME NEW k \in Nets, NEW o \in Subnets, Has(k, o) PROVE o < val[p]
    <3>1. o < nextOctet BY <1>2, <2>4, <2>5 DEF Counted
    <3>2. nextOctet # NoFile BY <3>1, Sizes DEF Subnets
    <3>3. QED BY <2>4, <3>1, <3>2 DEF ReadOctet
  <2>6. Counted' BY <1>9, <2>1, <2>2, <2>5 DEF Counted
  <2>7. Counts' BY <1>9, <2>1 DEF Counts
  <2>8. QED BY <1>8, <2>3, <2>6, <2>7
<1>12. CASE WritesOctet(p)
  <2>1. /\ pc[p] = "octetW" /\ pc'[p] = "link" /\ nextOctet' = val[p] + 1 /\ val' = val
    BY <1>3, <1>12 DEF WritesOctet, Works, Goto, local
  <2>2. val[p] \in Subnets BY <2>1 DEF NetInv, ProcsInv, Known
  <2>3. ASSUME NEW k \in Nets, NEW o, Has(k, o)', ~(k = net[p] /\ o = val[p]) PROVE Has(k, o)
    BY <1>4, <1>6, <2>1, <2>3 DEF Has, Carries
  <2>4. ASSUME NEW k \in Nets, NEW o \in Subnets, Has(k, o) PROVE o < val[p]
    BY <1>2, <2>1, <2>4 DEF Counted
  <2>5. Disjoint'
    <3> SUFFICES ASSUME NEW n \in Nets, NEW k \in Nets, NEW o \in Subnets, Has(n, o)', Has(k, o)'
                 PROVE  n = k
      BY DEF Disjoint
    <3>1. CASE o = val[p]
      <4>1. ~(o < val[p]) BY <2>2, <3>1 DEF Subnets
      <4>2. QED BY <2>3, <2>4, <3>1, <4>1
    <3>2. CASE o # val[p] BY <1>2, <2>3, <3>2 DEF Disjoint
    <3>3. QED BY <3>1, <3>2
  <2>6. Counted'
    <3> SUFFICES ASSUME NEW n \in Nets, NEW o \in Subnets, Has(n, o)' PROVE o < val[p] + 1
      BY <1>9, <2>1 DEF Counted
    <3>1. o = val[p] \/ o < val[p] BY <2>3, <2>4
    <3>2. QED BY <2>2, <3>1, Sizes DEF Subnets
  <2>7. val[p] + 1 # Torn BY <2>2, Sizes DEF Subnets
  <2>8. Counts' BY <1>9, <2>1, <2>7 DEF Counts
  <2>9. QED BY <1>8, <2>5, <2>6, <2>8
<1>13. QED BY <1>10, <1>11, <1>12

LEMMA SubInitInv == Init => SubInv
<1> SUFFICES ASSUME Init PROVE OneCreates /\ Disjoint /\ Counted /\ Counts BY DEF SubInv
<1> USE Sizes DEF Init
<1>1. \A p \in Procs : ~Creating(p) /\ ~Carries(p) /\ pc[p] \notin {"octetT", "octetW"}
  BY DEF Creating, Carries
<1>2. \A n \in Nets, o \in Subnets : ~Has(n, o) BY <1>1 DEF Has, Subnets
<1>3. nextOctet # Torn OBVIOUS
<1> HIDE DEF Init
<1>4. QED BY <1>1, <1>2, <1>3 DEF OneCreates, Disjoint, Counted, Counts

LEMMA BeginsCarried ==
  ASSUME NEW p \in Procs, NEW from \in {"idle", "up"}, NEW n \in Pools, Begins(p, from, n), NetInv
  PROVE  /\ pc[p] = from /\ net' = [net EXCEPT ![p] = n]
         /\ AloneInSubnets' => AloneInSubnets
BY DEF Begins, AloneInSubnets

LEMMA MetaCarried ==
  ASSUME NetInv, NEW p \in Procs, NEW from, NEW to \in Labels,
         \/ from \in {"meta", "register", "unregister"} /\ TruncatesMeta(p, from, to)
              /\ <<from, to>> \in {<<"meta", "metaW">>, <<"register", "registerW">>,
                                   <<"unregister", "unregisterW">>}
         \/ from \in {"metaW", "registerW", "unregisterW"} /\ to \in {"idle", "hup", "unhup"}
              /\ \E names \in Entries : WritesMeta(p, from, to, val[p], names)
  PROVE  Carried(p)
<1>1. pc \in [Procs -> Labels] /\ octet \in [Nets -> {0} \cup Subnets] /\ pc[p] = from
  BY DEF NetInv, FilesInv, ProcsInv, TruncatesMeta, WritesMeta, Works
<1>2. UNCHANGED <<nextOctet, val, net, ghost>> BY DEF TruncatesMeta, WritesMeta, Works
<1>3. /\ \A q \in Procs \ {p} : pc'[q] = pc[q]
      /\ pc'[p] \in {to, "dns", "idle"}
  BY <1>1 DEF TruncatesMeta, WritesMeta, Goto
<1>4. \A n \in Nets : octet'[n] = octet[n] \/ (n = net[p] /\ octet'[n] = val[p])
  BY <1>1 DEF TruncatesMeta, WritesMeta
<1>5. Carries(p) BY <1>1 DEF Carries
<1>6. Creating(p)' => Creating(p)
  BY <1>1, <1>3 DEF Creating, TruncatesMeta, WritesMeta, Goto
<1>7. pc'[p] \notin {"octetT", "octetW"} /\ pc[p] # "octetW" BY <1>1, <1>3
<1>8. QED BY <1>2, <1>3, <1>4, <1>5, <1>6, <1>7 DEF Carried, AloneInSubnets, ghost

LEMMA SubStep == NetInv /\ SubInv /\ [Next]_vars => SubInv'
<1> SUFFICES ASSUME NetInv, SubInv, [Next]_vars PROVE SubInv' OBVIOUS
<1>0. pc \in [Procs -> Labels] /\ val \in [Procs -> 0..255] /\ net \in [Procs -> Pools]
  BY DEF NetInv, ProcsInv
<1>1. ASSUME NEW p \in Procs, Create(p) PROVE SubInv'
  <2>1. CASE CreateChecks(p) BY <2>1, CreateChecksCounts
  <2>2. CASE ReadsOctet(p) \/ TruncatesOctet(p) \/ WritesOctet(p) BY <2>2, CountingCounts
  <2>3. CASE MakesDir(p) \/ AddsBridge(p) \/ StartsFirstDns(p)
    <3>1. /\ pc[p] \in {"mkdir", "link", "dnsmasq"}
          /\ \E to \in {"octet", "idle", "dnsmasq", "meta"} :
               pc' = [pc EXCEPT ![p] = to] /\ (to \in {"dnsmasq", "meta"} => Carries(p))
          /\ UNCHANGED <<nextOctet, octet, val, net, ghost>>
      BY <2>3 DEF MakesDir, AddsBridge, StartsFirstDns, Works, Goto, local, Carries
    <3>2. Carried(p) BY <1>0, <3>1 DEF Carried, AloneInSubnets, ghost, Carries, Creating
    <3>3. QED BY <3>2, CarriedKeeps
  <2>4. CASE TruncatesNew(p)
    <3>1. "metaW" \in Labels BY DEF Labels
    <3>2. QED BY <2>4, <3>1, MetaCarried, CarriedKeeps DEF TruncatesNew
  <2>5. CASE WritesNew(p)
    <3>1. "idle" \in Labels BY DEF Labels
    <3>2. QED BY <2>5, <3>1, NoMembersType, MetaCarried, CarriedKeeps DEF WritesNew
  <2>6. QED BY <1>1, <2>1, <2>2, <2>3, <2>4, <2>5 DEF Create
<1>2. ASSUME NEW p \in Procs, Remove(p) PROVE SubInv'
  <2>1. CASE RemoveChecks(p)
    <3>1. PICK n \in Nets : Begins(p, "idle", n) BY <2>1 DEF RemoveChecks
    <3>2. n \in Pools BY DEF Pools
    <3>3. pc' = [pc EXCEPT ![p] = "rmdns"] /\ UNCHANGED <<nextOctet, octet, val>>
      BY <2>1 DEF RemoveChecks, Goto, files
    <3>4. Carried(p)
      BY <1>0, <3>1, <3>2, <3>3, BeginsCarried DEF Carried, Carries, Creating
    <3>5. QED BY <3>4, CarriedKeeps
  <2>2. CASE RemoveStopsDns(p) \/ RemoveForgetsDns(p) \/ RemoveDeletesBridge(p) \/ RemovesDir(p)
    <3>1. /\ pc[p] \in {"rmdns", "rmpid", "rmlink", "rmdir"}
          /\ \E to \in {"rmpid", "rmlink", "rmdir", "idle"} : pc' = [pc EXCEPT ![p] = to]
          /\ UNCHANGED <<nextOctet, octet, val, net, ghost>>
      BY <2>2 DEF RemoveStopsDns, RemoveForgetsDns, Signals, RemovesPid, RemoveDeletesBridge,
                  RemovesDir, Works, Goto, local
    <3>2. Carried(p) BY <1>0, <3>1 DEF Carried, AloneInSubnets, ghost, Carries, Creating
    <3>3. QED BY <3>2, CarriedKeeps
  <2>3. QED BY <1>2, <2>1, <2>2 DEF Remove
<1>3. ASSUME NEW p \in Procs, Join(p) PROVE SubInv'
  <2>1. CASE Joins(p) \/ Restarts(p)
    <3>1. PICK n \in Pools, from \in {"idle", "up"} : Begins(p, from, n)
      BY <1>0, <2>1 DEF Joins, Restarts
    <3>2. pc' = [pc EXCEPT ![p] = "ip"] /\ UNCHANGED <<nextOctet, octet, val>>
      BY <2>1 DEF Joins, Restarts, Goto, files
    <3>3. Carried(p) BY <1>0, <3>1, <3>2, BeginsCarried DEF Carried, Carries, Creating
    <3>4. QED BY <3>3, CarriedKeeps
  <2>2. CASE \/ ReadsIp(p) \/ TruncatesIp(p) \/ WritesIp(p) \/ UpdatesDns(p) \/ EnsuresDns(p)
             \/ RestartsDns(p) \/ Starts(p)
    <3>1. /\ pc[p] \in {"ip", "ipT", "ipW", "hup", "dns", "redns", "ports"}
          /\ \E to \in {"ipT", "ipW", "load", "dns", "redns", "ports", "up"} :
               pc' = [pc EXCEPT ![p] = to]
          /\ \A q \in Procs \ {p} : val'[q] = val[q]
          /\ UNCHANGED <<nextOctet, octet, net, ghost>>
      BY <1>0, <2>2
      DEF ReadsIp, TruncatesIp, WritesIp, UpdatesDns, EnsuresDns, RestartsDns, Starts, Works,
          Goto, local, files
    <3>2. Carried(p) BY <1>0, <3>1 DEF Carried, AloneInSubnets, ghost, Carries, Creating
    <3>3. QED BY <3>2, CarriedKeeps
  <2>3. CASE LoadsMembers(p)
    <3>1. /\ pc[p] = "load" /\ val' = [val EXCEPT ![p] = octet[net[p]]]
          /\ \E to \in {"register", "dns"} : pc' = [pc EXCEPT ![p] = to]
          /\ UNCHANGED <<nextOctet, octet, net, ghost>>
      BY <2>3 DEF LoadsMembers, Works, Goto, files
    <3>2. Carried(p) BY <1>0, <3>1 DEF Carried, AloneInSubnets, ghost, Carries, Creating
    <3>3. QED BY <3>2, CarriedKeeps
  <2>4. CASE Registers(p)
    <3>1. "registerW" \in Labels BY DEF Labels
    <3>2. QED BY <2>4, <3>1, MetaCarried, CarriedKeeps DEF Registers
  <2>5. CASE WritesRegistration(p)
    <3>1. "hup" \in Labels /\ list[p] \in Entries BY DEF Labels, NetInv, ProcsInv
    <3>2. QED BY <2>5, <3>1, MetaCarried, CarriedKeeps DEF WritesRegistration
  <2>6. QED BY <1>3, <2>1, <2>2, <2>3, <2>4, <2>5 DEF Join
<1>4. ASSUME NEW p \in Procs, Leave(p) PROVE SubInv'
  <2>1. CASE Leaves(p)
    <3>1. net[p] \in Pools /\ Begins(p, "up", net[p]) BY <1>0, <2>1 DEF Leaves
    <3>2. /\ \E to \in {"unregister", "idle"} :
               /\ pc' = [pc EXCEPT ![p] = to]
               /\ val' = [val EXCEPT ![p] = octet[net[p]]] \/ (to = "idle" /\ val' = val)
          /\ UNCHANGED <<nextOctet, octet>>
      BY <2>1 DEF Leaves, Goto, files
    <3>3. net' = net BY <1>0, <3>1, BeginsCarried
    <3>4. Carried(p)
      BY <1>0, <3>1, <3>2, <3>3, BeginsCarried DEF Carried, Carries, Creating
    <3>5. QED BY <3>4, CarriedKeeps
  <2>2. CASE LeaveUpdatesDns(p) \/ LastStopsDns(p) \/ LastForgetsDns(p) \/ Quits(p) \/ Strays(p)
    <3>1. /\ ~Creating(p)
          /\ \E to \in {"last", "lastpid", "idle", "adrift"} : pc' = [pc EXCEPT ![p] = to]
          /\ UNCHANGED <<nextOctet, octet, val, net, overlapped, crashed>>
      BY <2>2 DEF LeaveUpdatesDns, LastStopsDns, LastForgetsDns, Signals, RemovesPid, Quits, Strays,
                  Works, Goto, Creating, files, local, ghost
    <3>2. Carried(p) BY <1>0, <3>1 DEF Carried, AloneInSubnets, Carries, Creating
    <3>3. QED BY <3>2, CarriedKeeps
  <2>3. CASE Unregisters(p)
    <3>1. "unregisterW" \in Labels BY DEF Labels
    <3>2. QED BY <2>3, <3>1, MetaCarried, CarriedKeeps DEF Unregisters
  <2>4. CASE WritesUnregistration(p)
    <3>1. "unhup" \in Labels /\ list[p] \in Entries BY DEF Labels, NetInv, ProcsInv
    <3>2. QED BY <2>4, <3>1, MetaCarried, CarriedKeeps DEF WritesUnregistration
  <2>5. QED BY <1>4, <2>1, <2>2, <2>3, <2>4 DEF Leave
<1>5. ASSUME NEW p \in Procs, Killed(p) PROVE SubInv'
  <2>1. CASE Creating(p) BY <1>5, <2>1 DEF Killed, SubInv, AloneInSubnets
  <2>2. CASE ~Creating(p)
    <3>1. /\ pc' = [pc EXCEPT ![p] = "idle"] /\ UNCHANGED <<nextOctet, octet, val, net, overlapped>>
          /\ crashed \subseteq crashed'
      BY <1>5 DEF Killed, Goto, files
    <3>2. Carried(p) BY <1>0, <2>2, <3>1 DEF Carried, AloneInSubnets, Carries, Creating
    <3>3. QED BY <3>2, CarriedKeeps
  <2>3. QED BY <2>1, <2>2
<1>6. CASE UNCHANGED vars \/ \E n \in Nets : DnsDies(n)
  <2>1. UNCHANGED <<nextOctet, octet, pc, net, val, ghost>>
    BY <1>6 DEF vars, files, local, DnsDies
  <2>2. QED BY <2>1 DEF SubInv, AloneInSubnets, OneCreates, Creating, Disjoint, Has, Carries,
                        Counted, Counts, ReadOctet, ghost
<1>7. QED BY <1>1, <1>2, <1>3, <1>4, <1>5, <1>6 DEF Next

\* "Each named network gets a unique subnet" (network.rs 628), if no two are created at
\* the same time and nobody is killed at it: for any number of networks and of invocations that
\* remove, join and leave them meanwhile, and write the octet they have read into a
\* network.json that may be another network's by then.
THEOREM UniqueSubnetsSafe == Spec => []UniqueSubnetsAlone
<1>1. NetInv /\ SubInv => UniqueSubnetsAlone
  <2> SUFFICES ASSUME NetInv, SubInv, AloneInSubnets,
                      NEW n \in Nets, NEW k \in Nets,
                      meta[n] = "ok", meta[k] = "ok", octet[n] = octet[k]
               PROVE  n = k
    BY DEF UniqueSubnetsAlone, UniqueSubnets, AloneInSubnets
  <2>1. octet[n] \in Subnets BY DEF NetInv, FilesInv
  <2>2. Has(n, octet[n]) /\ Has(k, octet[n]) BY DEF Has
  <2>3. QED BY <2>1, <2>2 DEF SubInv, Disjoint
<1>2. Init => NetInv /\ SubInv BY NetInitInv, SubInitInv
<1>3. (NetInv /\ SubInv) /\ [Next]_vars => (NetInv /\ SubInv)' BY NetStep, SubStep
<1>4. QED BY <1>1, <1>2, <1>3, PTL DEF Spec

-----------------------------------------------------------------------------
(* Members and addresses.  Nothing promises more about a network than that  *)
(* invocations which do not meet on it leave it in order; each is followed  *)
(* from its begin to its end, whatever the others do elsewhere.             *)

At(p, n) == net[p] = n /\ ~Resting(p)
AloneOn(n) == n \notin overlapped /\ (n # Bridge => n \notin crashed \cup shared)
One(n) == \A p, q \in Procs : At(p, n) /\ At(q, n) => p = q

Stands(n) == dir[n] /\ meta[n] = "ok" /\ bridge[n]

\* f lists the containers on n, and - unless one was left behind - at most the names S
\* besides.
Lists(f, n) == \A q \in Inside(n) : f[name[q]] = addr[q]
Only(f, n, S) ==
  n \notin leftover => \A x \in Names \ S : f[x] # None => \E q \in Inside(n) : name[q] = x

\* Nobody works on n.
Calm(n) == (Inside(n) # {} => Stands(n)) /\ (meta[n] = "ok" => Only(members[n], n, {}))

\* p works on n.
Joined == {"hup", "dns", "redns", "ports"}
Left == {"unhup", "last", "lastpid"}
RegOf(p, n) ==
  /\ \A q \in Inside(n) : name[q] # name[p]
  /\ Creating(p) => Inside(n) = {} /\ meta[n] # "ok"
  /\ pc[p] \in {"rmdns", "rmpid", "rmlink", "rmdir"} => Inside(n) = {}
  /\ pc[p] \in {"ip", "ipT", "ipW", "load", "register", "unregister"} \cup Joined \cup Left =>
       Stands(n)
  /\ pc[p] \in {"registerW", "unregisterW"} => dir[n] /\ bridge[n] /\ p \in fds
  /\ pc[p] \in {"ip", "ipT", "ipW", "load"} \cup Joined => Only(members[n], n, {name[p]})
  /\ pc[p] \in Joined => members[n][name[p]] = addr[p]
  /\ pc[p] \in {"register", "registerW"} =>
       Lists(list[p], n) /\ Only(list[p], n, {name[p]}) /\ list[p][name[p]] = addr[p]
  /\ pc[p] \in {"unregister", "unregisterW"} => Lists(list[p], n) /\ Only(list[p], n, {})
  /\ pc[p] \in Left => Only(members[n], n, {})

\* Nobody is listed under another's name, or with another's address.
Honest(n) ==
  /\ \A p, q \in Inside(n) : name[p] = name[q] => p = q
  /\ Lists(members[n], n)

Registry(n) ==
  /\ Honest(n)
  /\ \A p \in Procs : At(p, n) => RegOf(p, n)
  /\ (\A p \in Procs : ~At(p, n)) => Calm(n)

Addressed(n) == {q \in Procs : net[q] = n /\ addr[q] # None}

\* Who counts addresses knows the counter, and every address that is in use is below it.
Addresses(n) ==
  /\ nextIp[n] # Torn => \A q \in Addressed(n) : addr[q] < nextIp[n]
  /\ \A p \in Procs : net[p] = n /\ pc[p] = "ipT" => nextIp[n] # Torn /\ val[p] = ReadIp(n)
  /\ \A p \in Procs : net[p] = n /\ pc[p] = "ipW" =>
       p \in fds /\ nextIp[n] = Torn /\ \A q \in Addressed(n) : addr[q] < val[p]
  /\ n # Bridge /\ nextIp[n] = Torn => \E p \in Procs : net[p] = n /\ pc[p] = "ipW"
  /\ \A p, q \in Addressed(n) : addr[p] = addr[q] => p = q

PoolInv(n) == AloneOn(n) => One(n) /\ Addresses(n) /\ (n # Bridge => Registry(n))

\* What holds without a premise.
BaseInv ==
  /\ \A p \in Procs : addr[p] # None <=>
       pc[p] \in {"load", "register", "registerW", "up", "adrift"} \cup Joined
  /\ \A p \in fds : /\ pc[p] \in {"metaW", "registerW", "unregisterW", "ipW"}
                    /\ net[p] # Bridge => dir[net[p]]
  /\ \A n \in Nets : ~dir[n] => meta[n] = "absent"

RegInv == BaseInv /\ \A n \in Pools : PoolInv(n)

\* A step of p, which changes nothing on other networks than the one it works on.
StepOf(p) ==
  /\ \A q \in Procs \ {p} :
       /\ pc'[q] = pc[q] /\ net'[q] = net[q] /\ val'[q] = val[q]
       /\ list'[q] = list[q] /\ addr'[q] = addr[q]
       /\ net[q] # net'[p] => (q \in fds' <=> q \in fds)
  /\ \A n \in Nets : n # net'[p] =>
       /\ dir'[n] = dir[n] /\ meta'[n] = meta[n] /\ members'[n] = members[n] /\ bridge'[n] = bridge[n]
       /\ n \in leftover' <=> n \in leftover
  /\ \A n \in Pools : n # net'[p] => nextIp'[n] = nextIp[n]
  /\ net'[p] # net[p] => pc[p] = "idle"
  /\ overlapped \subseteq overlapped' /\ crashed \subseteq crashed' /\ shared \subseteq shared'
  /\ leftover \subseteq leftover' /\ name' = name

\* It does not begin to work where somebody does, or they have met.
Meets(p) ==
  Resting(p) /\ (\E q \in Procs \ {p} : At(q, net'[p])) => net'[p] \in overlapped'

\* What p has to see to itself, on the network n that it works on.
Minds(p, n) ==
  AloneOn(n) /\ AloneOn(n)' /\ One(n) =>
    /\ Addresses(n)'
    /\ n # Bridge => Honest(n)' /\ IF Resting(p)' THEN Calm(n)' ELSE RegOf(p, n)'

LEMMA Elsewhere ==
  ASSUME NetInv, RegInv, NEW p \in Procs, StepOf(p), NEW n \in Pools, n # net'[p]
  PROVE  PoolInv(n)'
<1> SUFFICES ASSUME AloneOn(n)' PROVE One(n)' /\ Addresses(n)' /\ (n # Bridge => Registry(n)')
  BY DEF PoolInv
<1>1. AloneOn(n) BY DEF AloneOn, StepOf
<1>2. One(n) /\ Addresses(n) /\ (n # Bridge => Registry(n)) BY <1>1 DEF RegInv, PoolInv
<1>3. net[p] = n => pc[p] = "idle" /\ addr[p] = None BY DEF StepOf, RegInv, BaseInv, Joined
<1>4. \A q \in Procs : (net'[q] = n <=> net[q] = n /\ q # p) BY DEF StepOf
<1>5. \A q \in Procs : At(q, n)' <=> At(q, n) BY <1>3, <1>4 DEF At, Resting, StepOf
<1>6. \A q \in Procs : At(q, n) => q # p BY <1>3 DEF At, Resting
<1>7. Inside(n)' = Inside(n) /\ \A q \in Inside(n) : addr'[q] = addr[q] /\ q \in Procs
  <2>1. \A q \in Procs : (net'[q] = n /\ pc'[q] \in {"up", "adrift"}) <=>
                         (net[q] = n /\ pc[q] \in {"up", "adrift"})
    BY <1>3, <1>4 DEF StepOf
  <2>2. \A q \in Inside(n) : q \in Procs /\ q # p BY <1>3 DEF Inside
  <2>3. QED BY <2>1, <2>2 DEF Inside, StepOf
<1>8. Addressed(n)' = Addressed(n) /\ \A q \in Addressed(n) : addr'[q] = addr[q]
  <2>1. \A q \in Procs : (net'[q] = n /\ addr'[q] # None) <=> (net[q] = n /\ addr[q] # None)
    BY <1>3, <1>4 DEF StepOf
  <2>2. \A q \in Addressed(n) : q # p BY <1>3 DEF Addressed
  <2>3. QED BY <2>1, <2>2 DEF Addressed, StepOf
<1>9. One(n)' BY <1>2, <1>5 DEF One
<1>10. nextIp'[n] = nextIp[n] /\ name' = name BY DEF StepOf
<1>11. \A q \in Procs : net'[q] = n => net[q] = n /\ pc'[q] = pc[q] /\ val'[q] = val[q]
                                       /\ (q \in fds' <=> q \in fds)
  BY <1>4 DEF StepOf
<1>12. Addresses(n)'
  <2>1. nextIp'[n] # Torn => \A q \in Addressed(n)' : addr'[q] < nextIp'[n]
    BY <1>2, <1>8, <1>10 DEF Addresses
  <2>2. \A q \in Procs : net'[q] = n /\ pc'[q] = "ipT" => nextIp'[n] # Torn /\ val'[q] = ReadIp(n)'
    BY <1>2, <1>10, <1>11 DEF Addresses, ReadIp
  <2>3. \A q \in Procs : net'[q] = n /\ pc'[q] = "ipW" =>
          q \in fds' /\ nextIp'[n] = Torn /\ \A k \in Addressed(n)' : addr'[k] < val'[q]
    BY <1>2, <1>8, <1>10, <1>11 DEF Addresses
  <2>4. n # Bridge /\ nextIp'[n] = Torn => \E q \in Procs : net'[q] = n /\ pc'[q] = "ipW"
    <3> SUFFICES ASSUME n # Bridge, nextIp'[n] = Torn
                 PROVE  \E q \in Procs : net'[q] = n /\ pc'[q] = "ipW"
      OBVIOUS
    <3>1. PICK q \in Procs : net[q] = n /\ pc[q] = "ipW" BY <1>2, <1>10 DEF Addresses
    <3>2. q # p BY <1>3, <3>1
    <3>3. QED BY <3>1, <3>2 DEF StepOf
  <2>5. \A q, k \in Addressed(n)' : addr'[q] = addr'[k] => q = k BY <1>2, <1>8 DEF Addresses
  <2>6. QED BY <2>1, <2>2, <2>3, <2>4, <2>5 DEF Addresses
<1>13. ASSUME n # Bridge PROVE Registry(n)'
  <2>1. n \in Nets BY <1>13, Sizes
  <2>2. /\ dir'[n] = dir[n] /\ meta'[n] = meta[n] /\ members'[n] = members[n] /\ bridge'[n] = bridge[n]
        /\ n \in leftover' <=> n \in leftover
    BY <2>1 DEF StepOf
  <2>3. \A q \in Procs : At(q, n) =>
          pc'[q] = pc[q] /\ list'[q] = list[q] /\ addr'[q] = addr[q] /\ (q \in fds' <=> q \in fds)
    BY <1>6 DEF StepOf, At
  <2>4. ASSUME NEW q \in Procs, At(q, n)' PROVE RegOf(q, n)'
    <3>1. At(q, n) /\ RegOf(q, n) BY <1>2, <1>5, <1>13, <2>4 DEF Registry
    <3>2. QED BY <1>7, <1>10, <2>2, <2>3, <3>1 DEF RegOf, Creating, Stands, Lists, Only
  <2>5. (\A q \in Procs : ~At(q, n)') => Calm(n)'
    BY <1>2, <1>5, <1>7, <1>10, <1>13, <2>2 DEF Registry, Calm, Stands, Only
  <2>6. Honest(n)' BY <1>2, <1>7, <1>10, <1>13, <2>2 DEF Registry, Honest, Lists
  <2>7. QED BY <2>4, <2>5, <2>6 DEF Registry
<1>14. QED BY <1>9, <1>12, <1>13

LEMMA Here ==
  ASSUME NetInv, RegInv, NEW p \in Procs, NEW n \in Pools, n = net'[p], StepOf(p), Meets(p),
         Minds(p, n)
  PROVE  PoolInv(n)'
<1> SUFFICES ASSUME AloneOn(n)' PROVE One(n)' /\ Addresses(n)' /\ (n # Bridge => Registry(n)')
  BY DEF PoolInv
<1>1. AloneOn(n) BY DEF AloneOn, StepOf
<1>2. One(n) BY <1>1 DEF RegInv, PoolInv
<1>3. \A q \in Procs \ {p} : ~At(q, n)
  <2> SUFFICES ASSUME NEW q \in Procs \ {p}, At(q, n) PROVE FALSE OBVIOUS
  <2>1. CASE Resting(p) BY <2>1 DEF Meets, AloneOn
  <2>2. CASE ~Resting(p)
    <3>1. net[p] = n BY <2>2 DEF StepOf, Resting
    <3>2. At(p, n) BY <2>2, <3>1 DEF At
    <3>3. QED BY <1>2, <3>2 DEF One
  <2>3. QED BY <2>1, <2>2
<1>4. \A q \in Procs \ {p} : ~At(q, n)'
  <2>1. \A q \in Procs \ {p} : At(q, n)' => At(q, n) BY DEF StepOf, At, Resting
  <2>2. QED BY <1>3, <2>1
<1>5. One(n)' BY <1>4 DEF One
<1>6. Addresses(n)' /\ (n # Bridge => Honest(n)' /\ IF Resting(p)' THEN Calm(n)' ELSE RegOf(p, n)')
  BY <1>1, <1>2 DEF Minds
<1>7. ASSUME n # Bridge PROVE Registry(n)'
  <2>1. CASE Resting(p)'
    <3>1. ~At(p, n)' BY <2>1 DEF At
    <3>2. QED BY <1>4, <1>6, <1>7, <2>1, <3>1 DEF Registry
  <2>2. CASE ~Resting(p)'
    <3>1. At(p, n)' BY <2>2 DEF At
    <3>2. QED BY <1>4, <1>6, <1>7, <2>2, <3>1 DEF Registry
  <2>3. QED BY <2>1, <2>2
<1>8. QED BY <1>5, <1>6, <1>7

\* Each action is such a step.
LEMMA BeginsStepOf ==
  ASSUME NetInv, NEW p \in Procs, NEW from \in {"idle", "up"}, NEW to \in Labels,
         NEW n \in Pools, Begins(p, from, n), n = net[p] \/ from = "idle",
         pc' = [pc EXCEPT ![p] = to],
         \A q \in Procs \ {p} : val'[q] = val[q] /\ list'[q] = list[q] /\ addr'[q] = addr[q],
         UNCHANGED <<files, fds, name>>, shared \subseteq shared'
  PROVE  StepOf(p) /\ Meets(p) /\ net'[p] = n
<1> USE DEF NetInv, ProcsInv
<1>1. net' = [net EXCEPT ![p] = n] /\ pc[p] = from /\ crashed' = crashed /\ leftover' = leftover
  BY DEF Begins
<1>2. overlapped \subseteq overlapped' BY DEF Begins
<1>3. ASSUME NEW q \in Procs \ {p}, At(q, n) PROVE n \in overlapped'
  BY <1>3 DEF Begins, At
<1>4. UNCHANGED <<dir, meta, members, bridge, nextIp, fds>> BY DEF files
<1>5. net'[p] = n BY <1>1
<1>6. Meets(p) BY <1>3, <1>5 DEF Meets
<1>7. StepOf(p) BY <1>1, <1>2, <1>4 DEF StepOf
<1>8. QED BY <1>5, <1>6, <1>7

LEMMA WorksStepOf ==
  ASSUME NetInv, NEW p \in Procs, ~Resting(p), NEW to \in Labels, pc' = [pc EXCEPT ![p] = to],
         UNCHANGED <<net, name, overlapped, shared>>, crashed \subseteq crashed',
         leftover \subseteq leftover', leftover' \subseteq leftover \cup {net[p]},
         \A q \in Procs \ {p} :
           /\ val'[q] = val[q] /\ list'[q] = list[q] /\ addr'[q] = addr[q]
           /\ net[q] # net[p] => (q \in fds' <=> q \in fds),
         \A k \in Nets : k # net[p] =>
           dir'[k] = dir[k] /\ meta'[k] = meta[k] /\ members'[k] = members[k] /\ bridge'[k] = bridge[k],
         \A k \in Pools : k # net[p] => nextIp'[k] = nextIp[k]
  PROVE  StepOf(p) /\ Meets(p)
<1>1. StepOf(p) BY DEF NetInv, ProcsInv, StepOf
<1>2. Meets(p) BY DEF Meets
<1>3. QED BY <1>1, <1>2

LEMMA MetaStepOf ==
  ASSUME NetInv, NEW p \in Procs, NEW from \in Labels \ {"idle", "up", "adrift"}, NEW to \in Labels,
         TruncatesMeta(p, from, to) \/ \E names : WritesMeta(p, from, to, val[p], names),
         name' = name
  PROVE  StepOf(p) /\ Meets(p)
<1>1. ~Resting(p) BY DEF TruncatesMeta, WritesMeta, Works, Resting
<1>2. PICK label \in Labels : pc' = [pc EXCEPT ![p] = label]
  BY DEF TruncatesMeta, WritesMeta, Goto, Labels
<1>3. UNCHANGED <<net, ghost, val, list, addr, nextIp, dir, bridge>>
  BY DEF TruncatesMeta, WritesMeta, Works
<1>4. \A q \in Procs \ {p} : q \in fds' <=> q \in fds BY DEF TruncatesMeta, WritesMeta, OpenFile
<1>5. \A k \in Nets : k # net[p] => meta'[k] = meta[k] /\ members'[k] = members[k]
  BY DEF TruncatesMeta, WritesMeta, NetInv, FilesInv
<1>6. QED BY <1>1, <1>2, <1>3, <1>4, <1>5, WorksStepOf DEF ghost

\* Two actions at which an invocation that rests does not begin to work.
Rests(p) == Resting(p) /\ (Quits(p) \/ Strays(p))

LEMMA RestsStepOf ==
  ASSUME NetInv, NEW p \in Procs, Rests(p), name' = name
  PROVE  StepOf(p)
<1>1. pc \in [Procs -> Labels] /\ addr \in [Procs -> {None} \cup Hosts] /\ net \in [Procs -> Pools]
  BY DEF NetInv, ProcsInv
<1>2. /\ net' = net /\ \A q \in Procs \ {p} : pc'[q] = pc[q] /\ addr'[q] = addr[q]
      /\ UNCHANGED <<dir, meta, members, bridge, nextIp, val, list, fds, overlapped, crashed, shared>>
      /\ leftover \subseteq leftover' /\ leftover' \subseteq leftover \cup {net[p]}
  BY <1>1 DEF Rests, Quits, Strays, Works, Goto, files, local, ghost
<1>3. QED BY <1>2 DEF StepOf

LEMMA ActsStepOf ==
  ASSUME NetInv, NEW p \in Procs, name' = name, ~Rests(p),
         Create(p) \/ Remove(p) \/ Join(p) \/ Leave(p) \/ Killed(p)
  PROVE  StepOf(p) /\ Meets(p)
<1> USE DEF Labels, Goto
<1>0. pc \in [Procs -> Labels] /\ net \in [Procs -> Pools] /\ list \in [Procs -> Entries]
      /\ val \in [Procs -> 0..255]
      /\ dir \in [Nets -> BOOLEAN] /\ meta \in [Nets -> {"absent", "torn", "ok"}]
      /\ bridge \in [Nets -> BOOLEAN] /\ nextIp \in [Pools -> {NoFile, Torn} \cup FirstHost..(LastHost + 1)]
      /\ addr \in [Procs -> {None} \cup Hosts]
  BY DEF NetInv, FilesInv, ProcsInv
<1> USE <1>0 DEF Resting, Works, files, local, ghost
<1>1. CASE Create(p)
  <2>1. CASE CreateChecks(p)
    <3>1. PICK n \in Nets : Begins(p, "idle", n) BY <2>1 DEF CreateChecks
    <3>2. QED BY <2>1, <3>1, Sizes, BeginsStepOf DEF CreateChecks
  <2>2. CASE MakesDir(p) BY <2>2, WorksStepOf DEF MakesDir
  <2>3. CASE ReadsOctet(p) BY <2>3, WorksStepOf DEF ReadsOctet
  <2>4. CASE TruncatesOctet(p) BY <2>4, WorksStepOf DEF TruncatesOctet
  <2>5. CASE WritesOctet(p) BY <2>5, WorksStepOf DEF WritesOctet
  <2>6. CASE AddsBridge(p) BY <2>6, WorksStepOf DEF AddsBridge
  <2>7. CASE StartsFirstDns(p) BY <2>7, WorksStepOf DEF StartsFirstDns
  <2>8. CASE TruncatesNew(p) BY <2>8, MetaStepOf DEF TruncatesNew
  <2>9. CASE WritesNew(p) BY <2>9, MetaStepOf DEF WritesNew
  <2>10. QED BY <1>1, <2>1, <2>2, <2>3, <2>4, <2>5, <2>6, <2>7, <2>8, <2>9 DEF Create
<1>2. CASE Remove(p)
  <2>1. CASE RemoveChecks(p)
    <3>1. PICK n \in Nets : Begins(p, "idle", n) BY <2>1 DEF RemoveChecks
    <3>2. QED BY <2>1, <3>1, Sizes, BeginsStepOf DEF RemoveChecks
  <2>2. CASE RemoveStopsDns(p) BY <2>2, WorksStepOf DEF RemoveStopsDns, Signals
  <2>3. CASE RemoveForgetsDns(p) BY <2>3, WorksStepOf DEF RemoveForgetsDns, RemovesPid
  <2>4. CASE RemoveDeletesBridge(p) BY <2>4, WorksStepOf DEF RemoveDeletesBridge
  <2>5. CASE RemovesDir(p) BY <2>5, WorksStepOf DEF RemovesDir
  <2>6. QED BY <1>2, <2>1, <2>2, <2>3, <2>4, <2>5 DEF Remove
<1>3. CASE Join(p)
  <2>1. CASE Joins(p)
    <3>1. PICK n \in Pools : Begins(p, "idle", n) BY <2>1 DEF Joins
    <3>2. shared \subseteq shared' BY <2>1 DEF Joins
    <3>3. QED BY <2>1, <3>1, <3>2, BeginsStepOf DEF Joins
  <2>2. CASE Restarts(p)
    <3>1. Begins(p, "up", net[p]) /\ net[p] \in Pools BY <2>2 DEF Restarts
    <3>2. QED BY <2>2, <3>1, BeginsStepOf DEF Restarts
  <2>3. CASE ReadsIp(p) BY <2>3, WorksStepOf DEF ReadsIp
  <2>4. CASE TruncatesIp(p) BY <2>4, WorksStepOf DEF TruncatesIp, OpenFile
  <2>5. CASE WritesIp(p) BY <2>5, WorksStepOf DEF WritesIp
  <2>6. CASE LoadsMembers(p) BY <2>6, WorksStepOf DEF LoadsMembers
  <2>7. CASE Registers(p) BY <2>7, MetaStepOf DEF Registers
  <2>8. CASE WritesRegistration(p) BY <2>8, MetaStepOf DEF WritesRegistration
  <2>9. CASE UpdatesDns(p) BY <2>9, WorksStepOf DEF UpdatesDns
  <2>10. CASE EnsuresDns(p)
    <3>1. PICK to \in {"redns", "ports"} : pc' = [pc EXCEPT ![p] = to] BY <2>10 DEF EnsuresDns
    <3>2. to \in Labels OBVIOUS
    <3>3. QED BY <2>10, <3>1, <3>2, WorksStepOf DEF EnsuresDns
  <2>11. CASE RestartsDns(p) BY <2>11, WorksStepOf DEF RestartsDns
  <2>12. CASE Starts(p) BY <2>12, WorksStepOf DEF Starts
  <2>13. QED
    BY <1>3, <2>1, <2>2, <2>3, <2>4, <2>5, <2>6, <2>7, <2>8, <2>9, <2>10, <2>11, <2>12 DEF Join
<1>4. CASE Leave(p)
  <2>1. CASE Leaves(p)
    <3>1. Begins(p, "up", net[p]) BY <2>1 DEF Leaves
    <3>2. PICK to \in Labels : pc' = [pc EXCEPT ![p] = to] BY <2>1 DEF Leaves
    <3>3. /\ \A q \in Procs \ {p} : val'[q] = val[q] /\ list'[q] = list[q] /\ addr'[q] = addr[q]
          /\ UNCHANGED <<fds, shared, nextOctet, nextIp, dir, meta, octet, members, bridge, dns, pidFile>>
      BY <2>1 DEF Leaves
    <3>4. net[p] \in Pools /\ files' = files BY <3>3
    <3> HIDE DEF files, Labels, Goto
    <3>5. QED BY <3>1, <3>2, <3>3, <3>4, BeginsStepOf
  <2>2. CASE Unregisters(p) BY <2>2, MetaStepOf DEF Unregisters
  <2>3. CASE WritesUnregistration(p) BY <2>3, MetaStepOf DEF WritesUnregistration
  <2>4. CASE LeaveUpdatesDns(p) BY <2>4, WorksStepOf DEF LeaveUpdatesDns
  <2>5. CASE LastStopsDns(p) BY <2>5, WorksStepOf DEF LastStopsDns, Signals
  <2>6. CASE LastForgetsDns(p) BY <2>6, WorksStepOf DEF LastForgetsDns, RemovesPid
  <2>7. CASE Quits(p) \/ Strays(p)
    <3>1. ~Resting(p) /\ Quits(p) BY <2>7 DEF Rests, Strays
    <3>2. leftover \subseteq leftover' /\ leftover' \subseteq leftover \cup {net[p]}
      BY <3>1 DEF Quits
    <3>3. QED BY <3>1, <3>2, WorksStepOf DEF Quits
  <2>8. QED BY <1>4, <2>1, <2>2, <2>3, <2>4, <2>5, <2>6, <2>7 DEF Leave
<1>5. CASE Killed(p)
  <2>1. ~Resting(p) /\ crashed \subseteq crashed' /\ fds' = fds \ {p}
        /\ UNCHANGED <<files, net, val, list, overlapped, shared, leftover>>
        /\ pc' = [pc EXCEPT ![p] = "idle"] /\ addr' = [addr EXCEPT ![p] = None]
    BY <1>5 DEF Killed
  <2>2. QED BY <2>1, WorksStepOf
<1>6. QED BY <1>1, <1>2, <1>3, <1>4, <1>5

LEMMA MetaBase ==
  ASSUME NetInv, BaseInv, NEW p \in Procs, NEW from \in Labels, NEW to \in Labels,
         \/ /\ TruncatesMeta(p, from, to)
            /\ <<from, to>> \in {<<"meta", "metaW">>, <<"register", "registerW">>,
                                 <<"unregister", "unregisterW">>}
         \/ /\ \E names : WritesMeta(p, from, to, val[p], names)
            /\ <<from, to>> \in {<<"metaW", "idle">>, <<"registerW", "hup">>,
                                 <<"unregisterW", "unhup">>}
  PROVE  BaseInv'
<1> USE DEF NetInv, FilesInv, ProcsInv, BaseInv, Works, Goto, Joined
<1>1. pc[p] = from /\ net[p] \in Nets /\ net' = net /\ addr' = addr /\ dir' = dir
  BY DEF TruncatesMeta, WritesMeta, Known
<1>2. net[p] # Bridge BY <1>1, Sizes
<1>3. CASE /\ TruncatesMeta(p, from, to)
           /\ <<from, to>> \in {<<"meta", "metaW">>, <<"register", "registerW">>,
                                <<"unregister", "unregisterW">>}
  <2>1. from \in {"meta", "register", "unregister"} /\ to \in {"metaW", "registerW", "unregisterW"}
        /\ (from = "register" <=> to = "registerW")
    BY <1>3
  <2>2. p \notin fds BY <1>1, <2>1
  <2>3. PICK at \in {"dns", "idle", "metaW", "registerW", "unregisterW"} :
          /\ pc' = [pc EXCEPT ![p] = at]
          /\ at \in {"metaW", "registerW", "unregisterW"} \/ fds' = fds
          /\ from = "register" <=> at \in {"registerW", "dns"}
    BY <1>1, <1>3, <2>1 DEF TruncatesMeta
  <2>4. fds' = fds \/ (fds' = fds \cup {p} /\ dir[net[p]])
    BY <1>3 DEF TruncatesMeta, OpenFile
  <2>5. \A q \in Procs : addr'[q] # None <=>
          pc'[q] \in {"load", "register", "registerW", "up", "adrift"} \cup Joined
    BY <1>1, <2>1, <2>3
  <2>6. \A q \in fds' : /\ pc'[q] \in {"metaW", "registerW", "unregisterW", "ipW"}
                        /\ net'[q] # Bridge => dir'[net'[q]]
    BY <1>1, <2>2, <2>3, <2>4
  <2>7. \A n \in Nets : ~dir'[n] => meta'[n] = "absent"
    BY <1>1, <1>3 DEF TruncatesMeta
  <2>8. QED BY <2>5, <2>6, <2>7
<1>4. CASE /\ \E names : WritesMeta(p, from, to, val[p], names)
           /\ <<from, to>> \in {<<"metaW", "idle">>, <<"registerW", "hup">>,
                                <<"unregisterW", "unhup">>}
  <2>1. CASE p \in fds BY <1>1, <1>2, <1>4, <2>1 DEF WritesMeta
  <2>2. CASE p \notin fds BY <1>1, <1>2, <1>4, <2>2 DEF WritesMeta
  <2>3. QED BY <2>1, <2>2
<1>5. QED BY <1>3, <1>4

LEMMA BeginsBase ==
  ASSUME NetInv, BaseInv, NEW p \in Procs, NEW from \in {"idle", "up"},
         NEW to \in {"mkdir", "rmdns", "ip", "unregister", "idle"},
         NEW n \in Pools, Begins(p, from, n), pc' = [pc EXCEPT ![p] = to],
         UNCHANGED <<files, fds>>,
         addr' = [addr EXCEPT ![p] = None] \/ (from = "idle" /\ addr' = addr)
  PROVE  BaseInv'
<1> USE DEF NetInv, ProcsInv, Joined
<1>1. pc[p] = from /\ net' = [net EXCEPT ![p] = n] BY DEF Begins
<1>2. p \notin fds /\ (from = "idle" => addr[p] = None) BY <1>1 DEF BaseInv
<1>3. UNCHANGED <<dir, meta, fds>> BY DEF files
<1>4. QED BY <1>1, <1>2, <1>3 DEF BaseInv

LEMMA ActsBase ==
  ASSUME NetInv, BaseInv, NEW p \in Procs,
         Create(p) \/ Remove(p) \/ Join(p) \/ Leave(p) \/ Killed(p)
  PROVE  BaseInv'
<1> USE DEF Labels, Goto
<1>0. pc \in [Procs -> Labels] /\ net \in [Procs -> Pools] /\ fds \subseteq Procs
      /\ dir \in [Nets -> BOOLEAN] /\ meta \in [Nets -> {"absent", "torn", "ok"}]
      /\ addr \in [Procs -> {None} \cup Hosts]
  BY DEF NetInv, FilesInv, ProcsInv
<1> USE <1>0 DEF Resting, Works, files, local, Joined
<1>1. CASE Create(p)
  <2> USE DEF BaseInv
  <2>1. CASE CreateChecks(p)
    <3>1. PICK n \in Nets : Begins(p, "idle", n) BY <2>1 DEF CreateChecks
    <3> HIDE DEF BaseInv
    <3>2. QED BY <2>1, <3>1, Sizes, BeginsBase DEF CreateChecks
  <2>2. CASE MakesDir(p) BY <2>2 DEF MakesDir
  <2>3. CASE ReadsOctet(p) BY <2>3 DEF ReadsOctet
  <2>4. CASE TruncatesOctet(p) BY <2>4 DEF TruncatesOctet
  <2>5. CASE WritesOctet(p) BY <2>5 DEF WritesOctet
  <2>6. CASE AddsBridge(p) BY <2>6 DEF AddsBridge
  <2>7. CASE StartsFirstDns(p) BY <2>7 DEF StartsFirstDns
  <2> HIDE DEF BaseInv
  <2>8. CASE TruncatesNew(p) BY <2>8, MetaBase DEF TruncatesNew
  <2>9. CASE WritesNew(p) BY <2>9, MetaBase DEF WritesNew
  <2>10. QED BY <1>1, <2>1, <2>2, <2>3, <2>4, <2>5, <2>6, <2>7, <2>8, <2>9 DEF Create
<1>2. CASE Remove(p)
  <2>1. CASE RemoveChecks(p)
    <3>1. PICK n \in Nets : Begins(p, "idle", n) BY <2>1 DEF RemoveChecks
    <3>2. QED BY <2>1, <3>1, Sizes, BeginsBase DEF RemoveChecks
  <2> USE DEF BaseInv
  <2>2. CASE RemoveStopsDns(p) BY <2>2 DEF RemoveStopsDns, Signals
  <2>3. CASE RemoveForgetsDns(p) BY <2>3 DEF RemoveForgetsDns, RemovesPid
  <2>4. CASE RemoveDeletesBridge(p) BY <2>4 DEF RemoveDeletesBridge
  <2>5. CASE RemovesDir(p)
    <3>1. net[p] \in Nets BY <2>5 DEF RemovesDir, NetInv, ProcsInv, Known
    <3>2. QED BY <2>5, <3>1, Sizes DEF RemovesDir
  <2>6. QED BY <1>2, <2>1, <2>2, <2>3, <2>4, <2>5 DEF Remove
<1>3. CASE Join(p)
  <2>1. CASE Joins(p)
    <3>1. PICK n \in Pools : Begins(p, "idle", n) BY <2>1 DEF Joins
    <3>2. QED BY <2>1, <3>1, BeginsBase DEF Joins
  <2>2. CASE Restarts(p)
    <3>1. Begins(p, "up", net[p]) /\ net[p] \in Pools BY <2>2 DEF Restarts
    <3>2. QED BY <2>2, <3>1, BeginsBase DEF Restarts
  <2> USE DEF BaseInv
  <2>3. CASE ReadsIp(p) BY <2>3 DEF ReadsIp
  <2>4. CASE TruncatesIp(p) BY <2>4 DEF TruncatesIp, OpenFile
  <2>5. CASE WritesIp(p)
    <3>1. val[p] # None BY <2>5, Sizes DEF WritesIp, NetInv, ProcsInv, Known, Hosts
    <3>2. QED BY <2>5, <3>1 DEF WritesIp
  <2>6. CASE LoadsMembers(p) BY <2>6 DEF LoadsMembers
  <2>7. CASE UpdatesDns(p) BY <2>7 DEF UpdatesDns
  <2>8. CASE EnsuresDns(p) BY <2>8 DEF EnsuresDns
  <2>9. CASE RestartsDns(p) BY <2>9 DEF RestartsDns
  <2>10. CASE Starts(p) BY <2>10 DEF Starts
  <2> HIDE DEF BaseInv
  <2>11. CASE Registers(p) BY <2>11, MetaBase DEF Registers
  <2>12. CASE WritesRegistration(p) BY <2>12, MetaBase DEF WritesRegistration
  <2>13. QED
    BY <1>3, <2>1, <2>2, <2>3, <2>4, <2>5, <2>6, <2>7, <2>8, <2>9, <2>10, <2>11, <2>12 DEF Join
<1>4. CASE Leave(p)
  <2>1. CASE Leaves(p)
    <3>1. Begins(p, "up", net[p]) BY <2>1 DEF Leaves
    <3>2. PICK to \in {"unregister", "idle"} : pc' = [pc EXCEPT ![p] = to] BY <2>1 DEF Leaves
    <3>3. addr' = [addr EXCEPT ![p] = None] /\ UNCHANGED <<files, fds>> /\ net[p] \in Pools
      BY <2>1 DEF Leaves
    <3> HIDE DEF Goto, Labels, files
    <3>4. QED BY <3>1, <3>2, <3>3, BeginsBase
  <2>2. CASE Unregisters(p) BY <2>2, MetaBase DEF Unregisters
  <2>3. CASE WritesUnregistration(p) BY <2>3, MetaBase DEF WritesUnregistration
  <2> USE DEF BaseInv
  <2>4. CASE LeaveUpdatesDns(p) BY <2>4 DEF LeaveUpdatesDns
  <2>5. CASE LastStopsDns(p) BY <2>5 DEF LastStopsDns, Signals
  <2>6. CASE LastForgetsDns(p) BY <2>6 DEF LastForgetsDns, RemovesPid
  <2>7. CASE Quits(p) BY <2>7 DEF Quits
  <2>8. CASE Strays(p) BY <2>8 DEF Strays
  <2>9. QED BY <1>4, <2>1, <2>2, <2>3, <2>4, <2>5, <2>6, <2>7, <2>8 DEF Leave
<1>5. CASE Killed(p) BY <1>5 DEF Killed, BaseInv
<1>6. QED BY <1>1, <1>2, <1>3, <1>4, <1>5

LEMMA InsideAfter ==
  ASSUME NEW p \in Procs, StepOf(p), NEW n \in Pools, n = net'[p]
  PROVE  /\ Inside(n)' = (Inside(n) \ {p}) \cup (IF pc'[p] \in {"up", "adrift"} THEN {p} ELSE {})
         /\ \A q \in Inside(n) \ {p} : addr'[q] = addr[q] /\ q \in Procs
         /\ name' = name
<1>1. \A q \in Procs \ {p} : q \in Inside(n)' <=> q \in Inside(n) BY DEF Inside, StepOf
<1>2. p \in Inside(n)' <=> pc'[p] \in {"up", "adrift"} BY DEF Inside
<1>3. Inside(n) \subseteq Procs /\ Inside(n)' \subseteq Procs BY DEF Inside
<1>4. QED BY <1>1, <1>2, <1>3 DEF StepOf

\* Nobody is at work on a network when p begins to be.
LEMMA CalmBefore ==
  ASSUME RegInv, NEW p \in Procs, StepOf(p), Meets(p), NEW n \in Nets, n = net'[p], Resting(p),
         AloneOn(n), AloneOn(n)'
  PROVE  Calm(n) /\ Honest(n)
<1>1. n \in Pools /\ n # Bridge BY Sizes
<1>2. Registry(n) BY <1>1 DEF RegInv, PoolInv
<1>3. ~At(p, n) BY DEF At
<1>4. \A q \in Procs \ {p} : ~At(q, n) BY <1>1 DEF Meets, AloneOn
<1>5. QED BY <1>2, <1>3, <1>4 DEF Registry

LEMMA RegBefore ==
  ASSUME RegInv, NEW p \in Procs, NEW n \in Nets, n = net[p], ~Resting(p), AloneOn(n)
  PROVE  RegOf(p, n) /\ Honest(n)
<1>1. n \in Pools /\ n # Bridge BY Sizes
<1>2. Registry(n) BY <1>1 DEF RegInv, PoolInv
<1>3. QED BY <1>2 DEF Registry, At

\* p changes nothing in what the others on the network are called and where they are listed.
LEMMA HonestKept ==
  ASSUME NEW p \in Procs, StepOf(p), NEW n \in Nets, n = net'[p], Honest(n),
         pc'[p] \notin {"up", "adrift"}, members'[n] = members[n] \/ Lists(members'[n], n)
  PROVE  Honest(n)'
<1>1. n \in Pools BY Sizes
<1>2. Inside(n)' = Inside(n) \ {p} /\ (\A q \in Inside(n) \ {p} : addr'[q] = addr[q]) /\ name' = name
  BY <1>1, InsideAfter
<1>3. QED BY <1>2 DEF Honest, Lists

\* Who neither counts addresses nor gets one.
LEMMA AddressesKept ==
  ASSUME RegInv, NEW p \in Procs, StepOf(p), NEW n \in Pools, n = net'[p], AloneOn(n),
         nextIp'[n] = nextIp[n], addr'[p] = None \/ (addr'[p] = addr[p] /\ net'[p] = net[p]),
         pc'[p] \notin {"ipT", "ipW"}, pc[p] = "ipW" => n = Bridge, fds \ {p} \subseteq fds'
  PROVE  Addresses(n)'
<1>1. Addresses(n) BY DEF RegInv, PoolInv
<1>2. Addressed(n)' \subseteq Addressed(n) /\ \A q \in Addressed(n)' : addr'[q] = addr[q]
  BY DEF Addressed, StepOf
<1>3. ASSUME NEW q \in Procs, net'[q] = n, pc'[q] \in {"ipT", "ipW"}
      PROVE  net[q] = n /\ pc[q] = pc'[q] /\ val'[q] = val[q] /\ (q \in fds => q \in fds')
  BY <1>3 DEF StepOf
<1>4. nextIp'[n] # Torn => \A q \in Addressed(n)' : addr'[q] < nextIp'[n]
  BY <1>1, <1>2 DEF Addresses
<1>5. \A q \in Procs : net'[q] = n /\ pc'[q] = "ipT" => nextIp'[n] # Torn /\ val'[q] = ReadIp(n)'
  BY <1>1, <1>3 DEF Addresses, ReadIp
<1>6. \A q \in Procs : net'[q] = n /\ pc'[q] = "ipW" =>
        q \in fds' /\ nextIp'[n] = Torn /\ \A k \in Addressed(n)' : addr'[k] < val'[q]
  BY <1>1, <1>2, <1>3 DEF Addresses, StepOf
<1>7. n # Bridge /\ nextIp'[n] = Torn => \E q \in Procs : net'[q] = n /\ pc'[q] = "ipW"
  <2> SUFFICES ASSUME n # Bridge, nextIp'[n] = Torn
               PROVE  \E q \in Procs : net'[q] = n /\ pc'[q] = "ipW"
    OBVIOUS
  <2>1. PICK q \in Procs : net[q] = n /\ pc[q] = "ipW" BY <1>1 DEF Addresses
  <2>2. q # p BY <2>1
  <2>3. QED BY <2>1, <2>2 DEF StepOf
<1>8. \A q, k \in Addressed(n)' : addr'[q] = addr'[k] => q = k BY <1>1, <1>2 DEF Addresses
<1>9. QED BY <1>4, <1>5, <1>6, <1>7, <1>8 DEF Addresses


LEMMA CreateMinds ==
  ASSUME NetInv, RegInv, NEW p \in Procs, Create(p), ~Rests(p), name' = name,
         NEW n \in Pools, n = net'[p]
  PROVE  Minds(p, n)
<1> SUFFICES ASSUME AloneOn(n), AloneOn(n)'
             PROVE  /\ Addresses(n)'
                    /\ n # Bridge => Honest(n)' /\ IF Resting(p)' THEN Calm(n)' ELSE RegOf(p, n)'
  BY DEF Minds
<1>0. /\ pc \in [Procs -> Labels] /\ net \in [Procs -> Pools]
      /\ meta \in [Nets -> {"absent", "torn", "ok"}] /\ members \in [Nets -> Entries]
  BY DEF NetInv, FilesInv, ProcsInv
<1>1. StepOf(p) /\ Meets(p) BY ActsStepOf
<1>2. Inside(n)' = (Inside(n) \ {p}) \cup (IF pc'[p] \in {"up", "adrift"} THEN {p} ELSE {})
  BY <1>1, InsideAfter
<1>3. CASE CreateChecks(p)
  <2>1. /\ pc[p] = "idle" /\ pc'[p] = "mkdir" /\ n \in Nets /\ ~dir[n]
        /\ UNCHANGED <<meta, nextIp, addr, fds>>
    BY <1>0, <1>3 DEF CreateChecks, Begins, Goto, files
  <2>2. addr[p] = None BY <2>1 DEF RegInv, BaseInv, Joined
  <2>3. Addresses(n)' BY <1>1, <2>1, <2>2, AddressesKept
  <2>4. Calm(n) BY <1>1, <2>1, CalmBefore DEF Resting
  <2>5. Inside(n) = {} /\ meta[n] = "absent" BY <2>1, <2>4 DEF Calm, Stands, RegInv, BaseInv
  <2>6. Inside(n)' = {} BY <1>2, <2>1, <2>5
  <2>7. RegOf(p, n)' BY <2>1, <2>5, <2>6 DEF RegOf, Creating, Joined, Left
  <2>8. Honest(n)' BY <2>6 DEF Honest, Lists
  <2>9. QED BY <2>1, <2>3, <2>7, <2>8 DEF Resting
<1>4. CASE ~CreateChecks(p)
  <2>1. /\ Creating(p) /\ net' = net /\ pc'[p] \in Labels /\ (Creating(p)' \/ pc'[p] = "idle")
        /\ UNCHANGED <<nextIp, addr>> /\ fds \ {p} \subseteq fds'
        /\ meta'[n] \in {meta[n], "torn"} \/ (pc'[p] = "idle" /\ members'[n] = NoMembers)
    BY <1>0, <1>4, Sizes
    DEF Create, MakesDir, ReadsOctet, TruncatesOctet, WritesOctet, AddsBridge, StartsFirstDns,
        TruncatesNew, WritesNew, TruncatesMeta, WritesMeta, Works, Goto, OpenFile, Creating,
        files, local, Labels, NetInv, ProcsInv, Known
  <2>2. ~Resting(p) /\ pc[p] # "ipW" /\ pc'[p] \notin {"ipT", "ipW", "up", "adrift"}
    BY <2>1 DEF Creating, Resting
  <2>3. n \in Nets BY <2>1, <2>2 DEF NetInv, ProcsInv, Known, Creating
  <2>4. Addresses(n)' BY <1>1, <2>1, <2>2, AddressesKept
  <2>5. RegOf(p, n) BY <2>1, <2>2, <2>3, RegBefore
  <2>6. Inside(n) = {} /\ meta[n] # "ok" BY <2>1, <2>5 DEF RegOf
  <2>7. Inside(n)' = {} BY <1>2, <2>2, <2>6
  <2>8. Honest(n)' BY <2>7 DEF Honest, Lists
  <2>9. CASE pc'[p] = "idle"
    <3>1. meta'[n] = "ok" => members'[n] = NoMembers BY <2>1, <2>6
    <3>2. Calm(n)' BY <2>7, <3>1 DEF Calm, Only, NoMembers
    <3>3. QED BY <2>4, <2>8, <2>9, <3>2 DEF Resting
  <2>10. CASE Creating(p)'
    <3>1. meta'[n] # "ok" BY <2>1, <2>6, <2>10 DEF Creating
    <3>2. RegOf(p, n)' BY <2>7, <2>10, <3>1 DEF RegOf, Creating, Joined, Left
    <3>3. QED BY <2>4, <2>8, <2>10, <3>2 DEF Creating, Resting
  <2>11. QED BY <2>1, <2>9, <2>10
<1>5. QED BY <1>3, <1>4

LEMMA RemoveMinds ==
  ASSUME NetInv, RegInv, NEW p \in Procs, Remove(p), ~Rests(p), name' = name,
         NEW n \in Pools, n = net'[p]
  PROVE  Minds(p, n)
<1> SUFFICES ASSUME AloneOn(n), AloneOn(n)', One(n)
             PROVE  /\ Addresses(n)'
                    /\ n # Bridge => Honest(n)' /\ IF Resting(p)' THEN Calm(n)' ELSE RegOf(p, n)'
  BY DEF Minds
<1>0. /\ pc \in [Procs -> Labels] /\ net \in [Procs -> Pools] /\ fds \subseteq Procs
      /\ meta \in [Nets -> {"absent", "torn", "ok"}] /\ members \in [Nets -> Entries]
      /\ nextIp \in [Pools -> {NoFile, Torn} \cup FirstHost..(LastHost + 1)]
      /\ name \in [Procs -> Names]
  BY DEF NetInv, FilesInv, ProcsInv, GhostInv
<1>1. StepOf(p) /\ Meets(p) BY ActsStepOf
<1>2. Inside(n)' = (Inside(n) \ {p}) \cup (IF pc'[p] \in {"up", "adrift"} THEN {p} ELSE {})
  BY <1>1, InsideAfter
<1>3. CASE RemoveChecks(p)
  <2>1. /\ pc[p] = "idle" /\ pc'[p] = "rmdns" /\ n \in Nets /\ meta[n] = "ok"
        /\ members[n] = NoMembers /\ UNCHANGED <<members, nextIp, addr, fds>>
    BY <1>0, <1>3 DEF RemoveChecks, Begins, Goto, files
  <2>2. addr[p] = None BY <2>1 DEF RegInv, BaseInv, Joined
  <2>3. Addresses(n)' BY <1>1, <2>1, <2>2, AddressesKept
  <2>4. Honest(n) BY <1>1, <2>1, CalmBefore DEF Resting
  <2>5. Inside(n) = {}
    <3>1. ASSUME NEW q \in Inside(n) PROVE FALSE
      <4>1. members[n][name[q]] = addr[q] BY <2>4 DEF Honest, Lists
      <4>2. members[n][name[q]] = None BY <1>0, <2>1 DEF NoMembers, Inside
      <4>3. addr[q] # None BY DEF Inside, RegInv, BaseInv
      <4>4. QED BY <4>1, <4>2, <4>3
    <3>2. QED BY <3>1
  <2>6. Inside(n)' = {} BY <1>2, <2>1, <2>5
  <2>7. RegOf(p, n)' BY <2>1, <2>6 DEF RegOf, Creating, Joined, Left
  <2>8. Honest(n)' BY <2>6 DEF Honest, Lists
  <2>9. QED BY <2>1, <2>3, <2>7, <2>8 DEF Resting
<1>4. CASE RemoveStopsDns(p) \/ RemoveForgetsDns(p) \/ RemoveDeletesBridge(p)
  <2>1. /\ pc[p] \in {"rmdns", "rmpid", "rmlink"} /\ pc'[p] \in {"rmpid", "rmlink", "rmdir"}
        /\ net' = net /\ UNCHANGED <<members, nextIp, addr, fds>>
    BY <1>0, <1>4 DEF RemoveStopsDns, RemoveForgetsDns, RemoveDeletesBridge, Signals, RemovesPid,
                      Works, Goto, local
  <2>2. ~Resting(p) /\ n \in Nets BY <2>1 DEF Resting, NetInv, ProcsInv, Known
  <2>3. Addresses(n)' BY <1>1, <2>1, AddressesKept
  <2>4. RegOf(p, n) BY <2>1, <2>2, RegBefore
  <2>5. Inside(n)' = {} BY <1>2, <2>1, <2>4 DEF RegOf
  <2>6. RegOf(p, n)' BY <2>1, <2>5 DEF RegOf, Creating, Joined, Left
  <2>7. Honest(n)' BY <2>5 DEF Honest, Lists
  <2>8. QED BY <2>1, <2>3, <2>6, <2>7 DEF Resting
<1>5. CASE RemovesDir(p)
  <2>1. /\ pc[p] = "rmdir" /\ pc'[p] = "idle" /\ net' = net /\ addr' = addr
    BY <1>0, <1>5 DEF RemovesDir, Works, Goto
  <2>2. ~Resting(p) /\ n \in Nets BY <2>1 DEF Resting, NetInv, ProcsInv, Known
  <2>3. nextIp'[n] = NoFile /\ meta'[n] = "absent" BY <1>0, <1>5, <2>1, <2>2 DEF RemovesDir
  <2>4. RegOf(p, n) BY <2>1, <2>2, RegBefore
  <2>5. Inside(n) = {} /\ Inside(n)' = {} BY <1>2, <2>1, <2>4 DEF RegOf
  <2>6. \A q \in Procs : At(q, n) => q = p BY <2>1, <2>2 DEF One, At
  <2>7. Addressed(n)' = {}
    <3>1. ASSUME NEW q \in Procs, net[q] = n, addr[q] # None PROVE FALSE
      <4>1. pc[q] \in {"load", "register", "registerW", "up", "adrift"} \cup Joined
        BY <3>1 DEF RegInv, BaseInv
      <4>2. pc[q] \notin {"up", "adrift"} BY <2>5, <3>1 DEF Inside
      <4>3. At(q, n) BY <3>1, <4>1, <4>2 DEF At, Resting, Joined
      <4>4. QED BY <2>1, <2>6, <4>1, <4>3 DEF Joined
    <3>2. QED BY <2>1, <3>1 DEF Addressed
  <2>8. \A q \in Procs : net'[q] = n => pc'[q] \notin {"ipT", "ipW"}
    BY <1>1, <2>1, <2>6 DEF StepOf, At, Resting
  <2>9. Addresses(n)' BY <2>3, <2>7, <2>8, Sizes DEF Addresses
  <2>10. Calm(n)' /\ Honest(n)' BY <2>3, <2>5 DEF Calm, Honest, Lists
  <2>11. QED BY <2>1, <2>9, <2>10 DEF Resting
<1>6. QED BY <1>3, <1>4, <1>5 DEF Remove

\* p reads the counter of addresses, truncates it and writes it.
LEMMA CountingAddresses ==
  ASSUME NetInv, RegInv, NEW p \in Procs, ReadsIp(p) \/ TruncatesIp(p) \/ WritesIp(p),
         NEW n \in Pools, n = net'[p], StepOf(p), AloneOn(n), One(n)
  PROVE  Addresses(n)'
<1>0. /\ pc \in [Procs -> Labels] /\ net \in [Procs -> Pools] /\ fds \subseteq Procs
      /\ nextIp \in [Pools -> {NoFile, Torn} \cup FirstHost..(LastHost + 1)]
      /\ addr \in [Procs -> {None} \cup Hosts] /\ val \in [Procs -> 0..255]
  BY DEF NetInv, FilesInv, ProcsInv
<1>2. Addresses(n) BY DEF RegInv, PoolInv
<1>3. pc[p] \in {"ip", "ipT", "ipW"} /\ net' = net
  BY DEF ReadsIp, TruncatesIp, WritesIp, Works
<1>4. \A q \in Procs : At(q, n) => q = p BY <1>3 DEF One, At, Resting
<1>5. \A q \in Procs \ {p} : net[q] = n => pc'[q] = pc[q] /\ pc[q] \notin {"ipT", "ipW"}
  BY <1>4 DEF StepOf, At, Resting
<1>6. \A q \in Procs : addr[q] # None => addr[q] \in Nat /\ addr[q] >= 2
  BY <1>0, Sizes DEF Hosts
<1>7. CASE ReadsIp(p)
  <2>1. /\ pc[p] = "ip" /\ pc'[p] = "ipT" /\ val'[p] = ReadIp(n) /\ ReadIp(n) # Torn
        /\ UNCHANGED <<nextIp, addr, fds>>
    BY <1>0, <1>3, <1>7 DEF ReadsIp, Works, Goto, files
  <2>2. nextIp[n] # Torn
    <3>1. CASE n = Bridge BY <2>1, <3>1, Sizes DEF ReadIp
    <3>2. CASE n # Bridge BY <1>2, <1>5, <2>1, <3>2 DEF Addresses
    <3>3. QED BY <3>1, <3>2
  <2>3. Addressed(n)' = Addressed(n) BY <1>3, <2>1 DEF Addressed
  <2>4. QED BY <1>2, <1>3, <1>5, <2>1, <2>2, <2>3 DEF Addresses, ReadIp
<1>8. CASE TruncatesIp(p)
  <2>1. /\ pc[p] = "ipT" /\ pc'[p] = "ipW" /\ nextIp'[n] = Torn /\ p \in fds'
        /\ UNCHANGED <<addr, val>>
    BY <1>0, <1>3, <1>8 DEF TruncatesIp, Works, Goto, OpenFile
  <2>2. nextIp[n] # Torn /\ val[p] = ReadIp(n) BY <1>2, <1>3, <2>1 DEF Addresses
  <2>3. ASSUME NEW q \in Addressed(n) PROVE addr[q] < val[p]
    <3>1. addr[q] < nextIp[n] BY <1>2, <2>2 DEF Addresses
    <3>2. nextIp[n] # NoFile BY <1>6, <3>1, Sizes DEF Addressed
    <3>3. QED BY <2>2, <3>1, <3>2 DEF ReadIp
  <2>4. Addressed(n)' = Addressed(n) BY <1>3, <2>1 DEF Addressed
  <2>5. QED BY <1>2, <1>3, <1>5, <2>1, <2>3, <2>4 DEF Addresses
<1>9. CASE WritesIp(p)
  <2>1. pc[p] = "ipW" /\ pc'[p] \in {"ports", "load"} /\ val' = val
    BY <1>0, <1>9 DEF WritesIp, Works, Goto
  <2>2. p \in fds /\ \A q \in Addressed(n) : addr[q] < val[p]
    BY <1>2, <1>3, <2>1 DEF Addresses
  <2>3. nextIp'[n] = val[p] + 1 BY <1>0, <1>3, <1>9, <2>2 DEF WritesIp
  <2>4. addr' = [addr EXCEPT ![p] = val[p]] BY <1>9 DEF WritesIp
  <2>5. val[p] \in Nat /\ val[p] >= 2 BY <2>1, Sizes DEF NetInv, ProcsInv, Known, Hosts
  <2>6. p \notin Addressed(n) BY <2>1 DEF RegInv, BaseInv, Addressed, Joined
  <2>7. /\ Addressed(n)' = Addressed(n) \cup {p}
        /\ addr'[p] = val[p] /\ \A q \in Addressed(n) : addr'[q] = addr[q]
    BY <1>0, <1>3, <2>4, <2>5, <2>6, Sizes DEF Addressed
  <2>8. \A q \in Addressed(n)' : addr'[q] < nextIp'[n]
    <3>1. \A q \in Addressed(n) : addr[q] \in Nat BY <1>6 DEF Addressed
    <3>2. QED BY <2>2, <2>3, <2>5, <2>7, <3>1
  <2>9. nextIp'[n] # Torn BY <2>3, <2>5, Sizes
  <2>10. \A q, k \in Addressed(n)' : addr'[q] = addr'[k] => q = k
    <3>1. \A q \in Addressed(n) : addr[q] # val[p] BY <1>6, <2>2, <2>5 DEF Addressed
    <3>2. QED BY <1>2, <2>7, <3>1 DEF Addresses
  <2>11. QED BY <1>3, <1>5, <2>1, <2>8, <2>9, <2>10 DEF Addresses
<1>10. QED BY <1>7, <1>8, <1>9

LEMMA JoinMinds ==
  ASSUME NetInv, RegInv, NEW p \in Procs, Join(p), ~Rests(p), name' = name,
         NEW n \in Pools, n = net'[p]
  PROVE  Minds(p, n)
<1> SUFFICES ASSUME AloneOn(n), AloneOn(n)', One(n)
             PROVE  /\ Addresses(n)'
                    /\ n # Bridge => Honest(n)' /\ IF Resting(p)' THEN Calm(n)' ELSE RegOf(p, n)'
  BY DEF Minds
<1>0. /\ pc \in [Procs -> Labels] /\ net \in [Procs -> Pools] /\ fds \subseteq Procs
      /\ meta \in [Nets -> {"absent", "torn", "ok"}] /\ members \in [Nets -> Entries]
      /\ dir \in [Nets -> BOOLEAN] /\ list \in [Procs -> Entries] /\ name \in [Procs -> Names]
      /\ addr \in [Procs -> {None} \cup Hosts]
  BY DEF NetInv, FilesInv, ProcsInv, GhostInv
<1>1. StepOf(p) /\ Meets(p) BY ActsStepOf
<1>2. Inside(n)' = (Inside(n) \ {p}) \cup (IF pc'[p] \in {"up", "adrift"} THEN {p} ELSE {})
      /\ (\A q \in Inside(n) \ {p} : addr'[q] = addr[q] /\ q \in Procs)
  BY <1>1, InsideAfter
<1>3. n # Bridge => n \in Nets BY Sizes
<1>a. name' = name /\ (n # Bridge /\ n \in leftover => n \in leftover') BY <1>1 DEF StepOf
<1>4. CASE Joins(p)
  <2>1. /\ pc[p] = "idle" /\ pc'[p] = "ip" /\ (n # Bridge => meta[n] = "ok" /\ bridge[n])
        /\ UNCHANGED <<dir, meta, bridge, members, nextIp, addr, fds>>
    BY <1>0, <1>4 DEF Joins, Joinable, Begins, Goto, files
  <2>2. addr[p] = None BY <2>1 DEF RegInv, BaseInv, Joined
  <2>3. Addresses(n)' BY <1>1, <2>1, <2>2, AddressesKept
  <2>4. ASSUME n # Bridge PROVE Honest(n)' /\ RegOf(p, n)'
    <3>1. Calm(n) /\ Honest(n) BY <1>1, <1>3, <2>1, <2>4, CalmBefore DEF Resting
    <3>2. Stands(n)' /\ Only(members[n], n, {})
      BY <1>3, <2>1, <2>4, <3>1 DEF Calm, Stands, RegInv, BaseInv
    <3>3. Inside(n)' = Inside(n) BY <1>2, <2>1 DEF Inside
    <3>4. \A q \in Inside(n) : name[q] # name[p]
      <4>1. n \notin shared' BY <2>4 DEF AloneOn
      <4>2. PICK k \in Pools : /\ net' = [net EXCEPT ![p] = k]
                               /\ shared' = shared \cup {j \in {k} \cap Nets :
                                                   \E q \in Inside(k) : name[q] = name[p]}
        BY <1>4 DEF Joins, Begins
      <4>3. k = n BY <1>0, <4>2
      <4>4. QED BY <1>3, <2>4, <4>1, <4>2, <4>3
    <3>5. Only(members[n], n, {name[p]})' BY <1>a, <2>1, <2>4, <3>2, <3>3 DEF Only
    <3>6. RegOf(p, n)' BY <1>a, <2>1, <3>2, <3>3, <3>4, <3>5 DEF RegOf, Creating, Joined, Left
    <3>7. Honest(n)' BY <1>1, <1>3, <2>1, <2>4, <3>1, HonestKept
    <3>8. QED BY <3>6, <3>7
  <2>5. QED BY <2>1, <2>3, <2>4 DEF Resting
<1>5. CASE Restarts(p)
  <2>1. /\ pc[p] = "up" /\ pc'[p] = "ip" /\ net' = net /\ addr'[p] = None
        /\ (n # Bridge => meta[n] = "ok" /\ bridge[n])
        /\ UNCHANGED <<dir, meta, bridge, members, nextIp, fds>>
    BY <1>0, <1>5 DEF Restarts, Joinable, Begins, Goto, files
  <2>2. Addresses(n)' BY <1>1, <2>1, AddressesKept
  <2>3. ASSUME n # Bridge PROVE Honest(n)' /\ RegOf(p, n)'
    <3>1. Calm(n) /\ Honest(n) BY <1>1, <1>3, <2>1, <2>3, CalmBefore DEF Resting
    <3>2. Stands(n)' /\ Only(members[n], n, {})
      BY <1>3, <2>1, <2>3, <3>1 DEF Calm, Stands, RegInv, BaseInv
    <3>3. Inside(n)' = Inside(n) \ {p} /\ p \in Inside(n) BY <1>2, <2>1 DEF Inside
    <3>4. \A q \in Inside(n)' : name[q] # name[p] BY <3>1, <3>3 DEF Honest
    <3>5. Only(members[n], n, {name[p]})' BY <1>a, <1>2, <2>1, <3>2, <3>3, <2>3 DEF Only
    <3>6. RegOf(p, n)' BY <1>a, <2>1, <3>2, <3>4, <3>5 DEF RegOf, Creating, Joined, Left
    <3>7. Honest(n)' BY <1>1, <1>3, <2>1, <2>3, <3>1, HonestKept
    <3>8. QED BY <3>6, <3>7
  <2>4. QED BY <2>1, <2>2, <2>3 DEF Resting
<1>6. ASSUME ~Joins(p), ~Restarts(p) PROVE ~Resting(p) /\ net' = net
  BY <1>6 DEF Join, ReadsIp, TruncatesIp, WritesIp, LoadsMembers, Registers, WritesRegistration,
              UpdatesDns, EnsuresDns, RestartsDns, Starts, TruncatesMeta, WritesMeta, Works,
              Resting, local
<1>7. ASSUME ~Joins(p), ~Restarts(p), n # Bridge
      PROVE  /\ n \in Nets /\ RegOf(p, n) /\ Honest(n) /\ Inside(n) \ {p} = Inside(n)
             /\ \A q \in Inside(n) : name[q] # name[p]
  <2>1. n \in Nets /\ RegOf(p, n) /\ Honest(n) BY <1>3, <1>6, <1>7, RegBefore
  <2>2. p \notin Inside(n) BY <1>6, <1>7 DEF Inside, Resting
  <2>3. QED BY <2>1, <2>2 DEF RegOf
\* It stays on its way, and what the registry says does not change or is what it knew.
<1>8. ASSUME ~Joins(p), ~Restarts(p), n # Bridge, pc'[p] \notin {"up", "adrift"},
             members'[n] = members[n] \/ Lists(members'[n], n)
      PROVE  Inside(n)' = Inside(n) /\ Honest(n)'
  BY <1>1, <1>2, <1>7, <1>8, HonestKept
<1>9. ASSUME ~Joins(p), ~Restarts(p), n # Bridge, NEW f, NEW S, Inside(n)' = Inside(n)
      PROVE  /\ Only(f, n, S) => n \in leftover' \/ \A x \in Names \ S : f[x] # None =>
                                                      \E q \in Inside(n)' : name[q] = x
             /\ Lists(f, n) => \A q \in Inside(n)' : f[name[q]] = addr'[q]
  BY <1>a, <1>2, <1>7, <1>9 DEF Only, Lists
<1>10. CASE ReadsIp(p) \/ TruncatesIp(p) \/ WritesIp(p)
  <2>1. /\ pc[p] \in {"ip", "ipT", "ipW"} /\ pc'[p] \in {"ipT", "ipW", "load", "ports"}
        /\ (n # Bridge => pc'[p] # "ports") /\ net' = net
        /\ UNCHANGED <<dir, meta, bridge, members, list>>
    BY <1>0, <1>10 DEF ReadsIp, TruncatesIp, WritesIp, Works, Goto, files
  <2>2. ~Joins(p) /\ ~Restarts(p) BY <2>1 DEF Joins, Restarts, Begins
  <2>3. Addresses(n)' BY <1>1, <1>10, CountingAddresses
  <2>4. ASSUME n # Bridge PROVE Honest(n)' /\ RegOf(p, n)'
    <3>1. Stands(n) /\ Only(members[n], n, {name[p]}) BY <1>7, <2>1, <2>2, <2>4 DEF RegOf
    <3>2. Inside(n)' = Inside(n) /\ Honest(n)' BY <1>8, <2>1, <2>2, <2>4
    <3>3. Stands(n)' BY <2>1, <3>1 DEF Stands
    <3>4. Only(members[n], n, {name[p]})' BY <1>a, <1>9, <2>1, <2>2, <2>4, <3>1, <3>2 DEF Only
    <3>5. \A q \in Inside(n)' : name'[q] # name'[p] BY <1>a, <1>7, <2>2, <2>4, <3>2
    <3>6. RegOf(p, n)' BY <2>1, <2>4, <3>3, <3>4, <3>5 DEF RegOf, Creating, Joined, Left
    <3>7. QED BY <3>2, <3>6
  <2>5. QED BY <2>1, <2>3, <2>4 DEF Resting
<1>11. CASE LoadsMembers(p)
  <2>1. /\ pc[p] = "load" /\ pc' = [pc EXCEPT ![p] = IF meta[n] = "ok" THEN "register" ELSE "dns"]
        /\ list'[p] = [members[n] EXCEPT ![name[p]] = addr[p]] /\ net' = net
        /\ UNCHANGED <<dir, meta, bridge, members, nextIp, addr, fds>>
    BY <1>0, <1>11 DEF LoadsMembers, Works, Goto, files
  <2>2. n # Bridge BY <1>0, <2>1, Sizes DEF NetInv, ProcsInv, Known
  <2>3. ~Joins(p) /\ ~Restarts(p) BY <2>1 DEF Joins, Restarts, Begins
  <2>4. Stands(n) /\ Only(members[n], n, {name[p]}) BY <1>7, <2>1, <2>2, <2>3 DEF RegOf
  <2>5. pc'[p] = "register" BY <1>0, <2>1, <2>4 DEF Stands
  <2>6. Addresses(n)' BY <1>1, <2>1, <2>5, AddressesKept
  <2>7. Inside(n)' = Inside(n) /\ Honest(n)' BY <1>8, <2>1, <2>2, <2>3, <2>5
  <2>8. \A x \in Names : list'[p][x] = IF x = name[p] THEN addr[p] ELSE members[n][x]
    BY <1>0, <1>7, <2>1, <2>2, <2>3 DEF Entries
  <2>9. Lists(list[p], n)'
    <3>1. \A q \in Inside(n) : members[n][name[q]] = addr[q] /\ name[q] \in Names /\ addr'[q] = addr[q]
      BY <1>0, <1>7, <2>1, <2>2, <2>3 DEF Honest, Lists, Inside
    <3>2. QED BY <1>a, <1>7, <2>2, <2>3, <2>7, <2>8, <3>1 DEF Lists
  <2>10. Only(list[p], n, {name[p]})' BY <1>a, <1>9, <2>2, <2>3, <2>4, <2>7, <2>8 DEF Only
  <2>11. \A q \in Inside(n)' : name'[q] # name'[p] BY <1>a, <1>7, <2>2, <2>3, <2>7
  <2>12. Stands(n)' /\ list'[p][name'[p]] = addr'[p]
    BY <1>0, <1>a, <2>1, <2>4, <2>8 DEF Stands
  <2>13. RegOf(p, n)' BY <2>5, <2>9, <2>10, <2>11, <2>12 DEF RegOf, Creating, Joined, Left
  <2>14. QED BY <2>5, <2>6, <2>7, <2>13 DEF Resting
<1>12. CASE Registers(p)
  <2>1. pc[p] = "register" /\ net' = net /\ UNCHANGED <<dir, bridge, members, nextIp, addr, list>>
    BY <1>12 DEF Registers, TruncatesMeta, Works
  <2>2. n # Bridge BY <1>0, <2>1, Sizes DEF NetInv, ProcsInv, Known
  <2>3. ~Joins(p) /\ ~Restarts(p) BY <2>1 DEF Joins, Restarts, Begins
  <2>4. /\ Stands(n) /\ Lists(list[p], n) /\ Only(list[p], n, {name[p]})
        /\ list[p][name[p]] = addr[p]
    BY <1>7, <2>1, <2>2, <2>3 DEF RegOf
  <2>5. pc'[p] = "registerW" /\ fds' = fds \cup {p}
    BY <1>0, <1>12, <2>1, <2>4 DEF Registers, TruncatesMeta, Goto, OpenFile, Stands
  <2>6. Addresses(n)' BY <1>1, <2>1, <2>5, AddressesKept
  <2>7. Inside(n)' = Inside(n) /\ Honest(n)' BY <1>8, <2>1, <2>2, <2>3, <2>5
  <2>8. Lists(list[p], n)' /\ Only(list[p], n, {name[p]})'
    BY <1>a, <1>9, <2>1, <2>2, <2>3, <2>4, <2>7 DEF Lists, Only
  <2>9. \A q \in Inside(n)' : name'[q] # name'[p] BY <1>a, <1>7, <2>2, <2>3, <2>7
  <2>10. RegOf(p, n)'
    BY <1>a, <2>1, <2>4, <2>5, <2>8, <2>9 DEF RegOf, Creating, Stands, Joined, Left
  <2>11. QED BY <2>5, <2>6, <2>7, <2>10 DEF Resting
<1>13. CASE WritesRegistration(p)
  <2>1. /\ pc[p] = "registerW" /\ pc'[p] = "hup" /\ net' = net /\ fds' = fds \ {p}
        /\ UNCHANGED <<dir, bridge, nextIp, addr, list>>
    BY <1>0, <1>13 DEF WritesRegistration, WritesMeta, Works, Goto
  <2>2. n # Bridge BY <1>0, <2>1, Sizes DEF NetInv, ProcsInv, Known
  <2>3. ~Joins(p) /\ ~Restarts(p) BY <2>1 DEF Joins, Restarts, Begins
  <2>4. /\ dir[n] /\ bridge[n] /\ p \in fds
        /\ Lists(list[p], n) /\ Only(list[p], n, {name[p]}) /\ list[p][name[p]] = addr[p]
    BY <1>7, <2>1, <2>2, <2>3 DEF RegOf
  <2>5. meta'[n] = "ok" /\ members'[n] = list[p]
    BY <1>0, <1>3, <1>13, <2>1, <2>2, <2>4 DEF WritesRegistration, WritesMeta
  <2>6. Addresses(n)' BY <1>1, <2>1, AddressesKept
  <2>7. Inside(n)' = Inside(n) /\ Honest(n)' BY <1>8, <2>1, <2>2, <2>3, <2>4, <2>5
  <2>8. Only(members[n], n, {name[p]})' BY <1>a, <1>9, <2>2, <2>3, <2>4, <2>5, <2>7 DEF Only
  <2>9. \A q \in Inside(n)' : name'[q] # name'[p] BY <1>a, <1>7, <2>2, <2>3, <2>7
  <2>10. RegOf(p, n)'
    BY <1>a, <2>1, <2>4, <2>5, <2>8, <2>9 DEF RegOf, Creating, Stands, Joined, Left
  <2>11. QED BY <2>1, <2>6, <2>7, <2>10 DEF Resting
<1>14. CASE UpdatesDns(p) \/ EnsuresDns(p) \/ RestartsDns(p)
  <2>1. /\ pc[p] \in {"hup", "dns", "redns"} /\ pc'[p] \in {"dns", "redns", "ports"}
        /\ net' = net /\ UNCHANGED <<dir, meta, bridge, members, nextIp, addr, fds>>
    BY <1>0, <1>14 DEF UpdatesDns, EnsuresDns, RestartsDns, Works, Goto, local
  <2>2. n # Bridge BY <1>0, <2>1, Sizes DEF NetInv, ProcsInv, Known
  <2>3. ~Joins(p) /\ ~Restarts(p) BY <2>1 DEF Joins, Restarts, Begins
  <2>4. Stands(n) /\ Only(members[n], n, {name[p]}) /\ members[n][name[p]] = addr[p]
    BY <1>7, <2>1, <2>2, <2>3 DEF RegOf, Joined
  <2>5. Addresses(n)' BY <1>1, <2>1, AddressesKept
  <2>6. Inside(n)' = Inside(n) /\ Honest(n)' BY <1>8, <2>1, <2>2, <2>3
  <2>7. Stands(n)' /\ members'[n][name'[p]] = addr'[p] BY <1>a, <2>1, <2>4 DEF Stands
  <2>8. Only(members[n], n, {name[p]})' BY <1>a, <1>9, <2>1, <2>2, <2>3, <2>4, <2>6 DEF Only
  <2>9. \A q \in Inside(n)' : name'[q] # name'[p] BY <1>a, <1>7, <2>2, <2>3, <2>6
  <2>10. RegOf(p, n)' BY <2>1, <2>7, <2>8, <2>9 DEF RegOf, Creating, Joined, Left
  <2>11. QED BY <2>1, <2>5, <2>6, <2>10 DEF Resting
<1>15. CASE Starts(p)
  <2>1. /\ pc[p] = "ports" /\ pc'[p] = "up" /\ net' = net
        /\ UNCHANGED <<dir, meta, bridge, members, nextIp, addr, fds, leftover>>
    BY <1>0, <1>15 DEF Starts, Works, Goto, files, local, ghost
  <2>2. ~Joins(p) /\ ~Restarts(p) BY <2>1 DEF Joins, Restarts, Begins
  <2>3. Addresses(n)' BY <1>1, <2>1, AddressesKept
  <2>4. ASSUME n # Bridge PROVE Honest(n)' /\ Calm(n)'
    <3>1. /\ Stands(n) /\ Only(members[n], n, {name[p]}) /\ members[n][name[p]] = addr[p]
          /\ Honest(n) /\ \A q \in Inside(n) : name[q] # name[p]
      BY <1>7, <2>1, <2>2, <2>4 DEF RegOf, Joined
    <3>2. Inside(n)' = Inside(n) \cup {p} BY <1>2, <2>1
    <3>3. Honest(n)' BY <1>a, <2>1, <3>1, <3>2 DEF Honest, Lists
    <3>4. Stands(n)' BY <2>1, <3>1 DEF Stands
    <3>5. Only(members[n], n, {})' BY <1>a, <2>1, <3>1, <3>2 DEF Only
    <3>6. QED BY <3>3, <3>4, <3>5 DEF Calm
  <2>5. QED BY <2>1, <2>3, <2>4 DEF Resting
<1>16. QED BY <1>4, <1>5, <1>10, <1>11, <1>12, <1>13, <1>14, <1>15 DEF Join

LEMMA LeaveMinds ==
  ASSUME NetInv, RegInv, NEW p \in Procs, Leave(p), ~Rests(p), name' = name,
         NEW n \in Pools, n = net'[p]
  PROVE  Minds(p, n)
<1> SUFFICES ASSUME AloneOn(n), AloneOn(n)', One(n)
             PROVE  /\ Addresses(n)'
                    /\ n # Bridge => Honest(n)' /\ IF Resting(p)' THEN Calm(n)' ELSE RegOf(p, n)'
  BY DEF Minds
<1>0. /\ pc \in [Procs -> Labels] /\ net \in [Procs -> Pools] /\ fds \subseteq Procs
      /\ meta \in [Nets -> {"absent", "torn", "ok"}] /\ members \in [Nets -> Entries]
      /\ dir \in [Nets -> BOOLEAN] /\ list \in [Procs -> Entries] /\ name \in [Procs -> Names]
      /\ addr \in [Procs -> {None} \cup Hosts]
  BY DEF NetInv, FilesInv, ProcsInv, GhostInv
<1>1. StepOf(p) /\ Meets(p) BY ActsStepOf
<1>2. Inside(n)' = (Inside(n) \ {p}) \cup (IF pc'[p] \in {"up", "adrift"} THEN {p} ELSE {})
      /\ (\A q \in Inside(n) \ {p} : addr'[q] = addr[q] /\ q \in Procs)
  BY <1>1, InsideAfter
<1>3. n # Bridge => n \in Nets BY Sizes
<1>a. name' = name /\ (n # Bridge /\ n \in leftover => n \in leftover') BY <1>1 DEF StepOf
<1>4. net' = net
  BY <1>0 DEF Leave, Leaves, Begins, Unregisters, WritesUnregistration, LeaveUpdatesDns,
              LastStopsDns, LastForgetsDns, Signals, RemovesPid, Quits, Strays, TruncatesMeta,
              WritesMeta, local
<1>5. ASSUME n # Bridge, ~Resting(p)
      PROVE  n \in Nets /\ RegOf(p, n) /\ Honest(n) /\ Inside(n) \ {p} = Inside(n)
  <2>1. n \in Nets /\ RegOf(p, n) /\ Honest(n) BY <1>3, <1>4, <1>5, RegBefore
  <2>2. p \notin Inside(n) BY <1>5 DEF Inside, Resting
  <2>3. QED BY <2>1, <2>2
<1>6. ASSUME n # Bridge, ~Resting(p), pc'[p] \notin {"up", "adrift"},
             members'[n] = members[n] \/ Lists(members'[n], n)
      PROVE  Inside(n)' = Inside(n) /\ Honest(n)'
  BY <1>1, <1>2, <1>5, <1>6, HonestKept
<1>7. CASE Leaves(p)
  <2>1. /\ pc[p] = "up" /\ pc'[p] \in {"idle", "unregister"} /\ addr'[p] = None
        /\ UNCHANGED <<dir, meta, bridge, members, nextIp, fds>>
    BY <1>0, <1>7 DEF Leaves, Begins, Goto, files
  <2>2. Addresses(n)' BY <1>1, <2>1, AddressesKept
  <2>3. Inside(n)' = Inside(n) \ {p} BY <1>2, <2>1
  <2>4. ASSUME n # Bridge PROVE Honest(n)' /\ ~Resting(p)' /\ RegOf(p, n)'
    <3>1. Calm(n) /\ Honest(n) BY <1>1, <1>3, <2>1, <2>4, CalmBefore DEF Resting
    <3>2. p \in Inside(n) BY <1>4, <2>1 DEF Inside
    <3>3. Stands(n) /\ Only(members[n], n, {}) BY <3>1, <3>2 DEF Calm, Stands
    <3>4. pc'[p] = "unregister" /\ list'[p] = [members[n] EXCEPT ![name[p]] = None]
      BY <1>0, <1>4, <1>7, <2>4, <3>3 DEF Leaves, Goto, Stands
    <3>5. \A x \in Names : list'[p][x] = IF x = name[p] THEN None ELSE members[n][x]
      BY <1>0, <1>3, <2>4, <3>4 DEF Entries
    <3>6. \A q \in Inside(n)' : name[q] # name[p] /\ name[q] \in Names
      BY <1>0, <2>3, <3>1, <3>2 DEF Honest, Inside
    <3>7. Lists(list[p], n)' BY <1>2, <1>a, <2>3, <3>1, <3>5, <3>6 DEF Lists, Honest
    <3>8. Only(list[p], n, {})' BY <1>a, <2>3, <2>4, <3>3, <3>5 DEF Only
    <3>9. Stands(n)' BY <2>1, <3>3 DEF Stands
    <3>10. RegOf(p, n)'
      BY <1>a, <3>4, <3>6, <3>7, <3>8, <3>9 DEF RegOf, Creating, Joined, Left
    <3>11. Honest(n)' BY <1>1, <1>3, <2>1, <2>4, <3>1, HonestKept
    <3>12. QED BY <3>4, <3>10, <3>11 DEF Resting
  <2>5. QED BY <2>2, <2>4
<1>8. CASE Unregisters(p)
  <2>1. pc[p] = "unregister" /\ UNCHANGED <<dir, bridge, members, nextIp, addr, list>>
    BY <1>8 DEF Unregisters, TruncatesMeta, Works
  <2>2. ~Resting(p) /\ n # Bridge BY <1>0, <1>4, <2>1, Sizes DEF NetInv, ProcsInv, Known, Resting
  <2>3. /\ Stands(n) /\ Lists(list[p], n) /\ Only(list[p], n, {})
        /\ \A q \in Inside(n) : name[q] # name[p]
    BY <1>5, <2>1, <2>2 DEF RegOf
  <2>4. pc'[p] = "unregisterW" /\ fds' = fds \cup {p}
    BY <1>0, <1>4, <1>8, <2>1, <2>3 DEF Unregisters, TruncatesMeta, Goto, OpenFile, Stands
  <2>5. Addresses(n)' BY <1>1, <1>4, <2>1, <2>4, AddressesKept
  <2>6. Inside(n)' = Inside(n) /\ Honest(n)' BY <1>6, <2>1, <2>2, <2>4
  <2>7. Lists(list[p], n)' /\ Only(list[p], n, {})'
    BY <1>a, <1>2, <1>5, <2>1, <2>2, <2>3, <2>6 DEF Lists, Only
  <2>8. RegOf(p, n)'
    BY <1>a, <2>1, <2>3, <2>4, <2>6, <2>7 DEF RegOf, Creating, Stands, Joined, Left
  <2>9. QED BY <2>4, <2>5, <2>6, <2>8 DEF Resting
<1>9. CASE WritesUnregistration(p)
  <2>1. /\ pc[p] = "unregisterW" /\ pc'[p] = "unhup" /\ fds' = fds \ {p}
        /\ UNCHANGED <<dir, bridge, nextIp, addr, list>>
    BY <1>0, <1>9 DEF WritesUnregistration, WritesMeta, Works, Goto
  <2>2. ~Resting(p) /\ n # Bridge BY <1>0, <1>4, <2>1, Sizes DEF NetInv, ProcsInv, Known, Resting
  <2>3. /\ dir[n] /\ bridge[n] /\ p \in fds /\ Lists(list[p], n) /\ Only(list[p], n, {})
        /\ \A q \in Inside(n) : name[q] # name[p]
    BY <1>5, <2>1, <2>2 DEF RegOf
  <2>4. meta'[n] = "ok" /\ members'[n] = list[p]
    BY <1>0, <1>3, <1>4, <1>9, <2>2, <2>3 DEF WritesUnregistration, WritesMeta
  <2>5. Addresses(n)' BY <1>1, <1>4, <2>1, AddressesKept
  <2>6. Inside(n)' = Inside(n) /\ Honest(n)' BY <1>6, <2>1, <2>2, <2>3, <2>4
  <2>7. Only(members[n], n, {})' BY <1>a, <2>2, <2>3, <2>4, <2>6 DEF Only
  <2>8. RegOf(p, n)'
    BY <1>a, <2>1, <2>3, <2>4, <2>6, <2>7 DEF RegOf, Creating, Stands, Joined, Left
  <2>9. QED BY <2>1, <2>5, <2>6, <2>8 DEF Resting
<1>10. CASE LeaveUpdatesDns(p) \/ LastStopsDns(p) \/ LastForgetsDns(p)
  <2>1. /\ pc[p] \in Left /\ pc'[p] \in {"last", "lastpid", "idle"}
        /\ UNCHANGED <<dir, meta, bridge, members, nextIp, addr, fds>>
    BY <1>0, <1>10 DEF LeaveUpdatesDns, LastStopsDns, LastForgetsDns, Signals, RemovesPid, Works,
                       Goto, local, Left
  <2>2. ~Resting(p) /\ n # Bridge
    BY <1>0, <1>4, <2>1, Sizes DEF NetInv, ProcsInv, Known, Resting, Left
  <2>3. Stands(n) /\ Only(members[n], n, {}) /\ \A q \in Inside(n) : name[q] # name[p]
    BY <1>5, <2>1, <2>2 DEF RegOf
  <2>4. Addresses(n)' BY <1>1, <1>4, <2>1, AddressesKept DEF Left
  <2>5. Inside(n)' = Inside(n) /\ Honest(n)' BY <1>6, <2>1, <2>2
  <2>6. Stands(n)' /\ Only(members[n], n, {})' BY <1>a, <2>1, <2>2, <2>3, <2>5 DEF Stands, Only
  <2>7. CASE pc'[p] = "idle" BY <2>4, <2>5, <2>6, <2>7 DEF Calm, Resting
  <2>8. CASE pc'[p] # "idle"
    <3>1. RegOf(p, n)' BY <1>a, <2>1, <2>3, <2>5, <2>6, <2>8 DEF RegOf, Creating, Joined, Left
    <3>2. QED BY <2>1, <2>4, <2>5, <2>8, <3>1 DEF Resting
  <2>9. QED BY <2>7, <2>8
<1>11. CASE Quits(p) \/ Strays(p)
  <2>1. ~Resting(p) /\ Quits(p) BY <1>11 DEF Rests, Strays, Works, Resting
  <2>2. /\ pc[p] \in {"ip", "ipT", "load", "ports"} /\ pc'[p] = "idle" /\ addr'[p] = None
        /\ UNCHANGED <<dir, meta, bridge, members, nextIp, fds>>
        /\ (n \in Nets /\ members[n][name[p]] # None => n \in leftover')
    BY <1>0, <1>4, <2>1 DEF Quits, Goto, files, Resting
  <2>3. Addresses(n)' BY <1>1, <1>4, <2>2, AddressesKept
  <2>4. ASSUME n # Bridge PROVE Honest(n)' /\ Calm(n)'
    <3>1. Stands(n) /\ Only(members[n], n, {name[p]})
      BY <1>5, <2>1, <2>2, <2>4 DEF RegOf, Joined
    <3>2. Inside(n)' = Inside(n) /\ Honest(n)' BY <1>6, <2>1, <2>2, <2>4
    <3>3. Only(members[n], n, {})' BY <1>3, <1>a, <2>2, <2>4, <3>1, <3>2 DEF Only
    <3>4. Stands(n)' BY <2>2, <3>1 DEF Stands
    <3>5. QED BY <3>2, <3>3, <3>4 DEF Calm
  <2>5. QED BY <2>2, <2>3, <2>4 DEF Resting
<1>12. QED BY <1>7, <1>8, <1>9, <1>10, <1>11 DEF Leave

\* A kill says nothing more of a named network; the default one keeps a torn counter,
\* from which nobody takes an address.
LEMMA KilledMinds ==
  ASSUME NetInv, RegInv, NEW p \in Procs, Killed(p), ~Rests(p), name' = name,
         NEW n \in Pools, n = net'[p]
  PROVE  Minds(p, n)
<1> SUFFICES ASSUME AloneOn(n), AloneOn(n)' PROVE n = Bridge /\ Addresses(n)' BY DEF Minds
<1>1. StepOf(p) /\ Meets(p) BY ActsStepOf
<1>2. pc \in [Procs -> Labels] /\ addr \in [Procs -> {None} \cup Hosts] BY DEF NetInv, ProcsInv
<1>3. /\ pc'[p] = "idle" /\ addr'[p] = None /\ nextIp' = nextIp /\ fds' = fds \ {p}
      /\ net[p] \in crashed' /\ net' = net
  BY <1>2 DEF Killed, Goto, files
<1>4. n = Bridge BY <1>3 DEF AloneOn
<1>5. QED BY <1>1, <1>3, <1>4, AddressesKept

\* What rests on a network ends there, or loses its supervisor, while others may be at work:
\* its entry stays, which makes the network one with a leftover.
LEMMA RestKeeps ==
  ASSUME NetInv, RegInv, NEW p \in Procs, Rests(p), name' = name, NEW n \in Pools, n = net'[p]
  PROVE  PoolInv(n)'
<1> SUFFICES ASSUME AloneOn(n)' PROVE One(n)' /\ Addresses(n)' /\ (n # Bridge => Registry(n)')
  BY DEF PoolInv
<1>0. /\ pc \in [Procs -> Labels] /\ net \in [Procs -> Pools]
      /\ addr \in [Procs -> {None} \cup Hosts]
  BY DEF NetInv, ProcsInv
<1>1. StepOf(p) BY RestsStepOf
<1>2. AloneOn(n) BY <1>1 DEF AloneOn, StepOf
<1>3. One(n) /\ (n # Bridge => Registry(n)) BY <1>2 DEF RegInv, PoolInv
<1>4. /\ pc[p] \in {"idle", "up", "adrift"} /\ pc'[p] \in {"idle", "adrift"} /\ net' = net
      /\ UNCHANGED <<dir, meta, bridge, members, list, nextIp, fds>>
  BY <1>0 DEF Rests, Quits, Strays, Works, Goto, files, local, Resting
<1>5. \A q \in Procs : At(q, n)' <=> At(q, n) BY <1>1, <1>4 DEF At, Resting, StepOf
<1>6. One(n)' BY <1>3, <1>5 DEF One
<1>7. \/ Quits(p) /\ addr'[p] = None /\ pc'[p] = "idle" /\ pc[p] # "idle"
      \/ Strays(p) /\ addr' = addr /\ pc'[p] = "adrift" /\ pc[p] = "up" /\ leftover' = leftover
  <2>1. CASE Quits(p) BY <1>0, <2>1 DEF Quits, Goto
  <2>2. CASE Strays(p) BY <1>0, <2>2 DEF Strays, Works, Goto, local, ghost
  <2>3. QED BY <2>1, <2>2 DEF Rests
<1>8. Addresses(n)' BY <1>1, <1>2, <1>4, <1>7, AddressesKept
<1>9. Inside(n)' = (Inside(n) \ {p}) \cup (IF pc'[p] \in {"up", "adrift"} THEN {p} ELSE {})
      /\ (\A q \in Inside(n) \ {p} : addr'[q] = addr[q] /\ q \in Procs) /\ name' = name
  BY <1>1, InsideAfter
<1>10. ASSUME n # Bridge PROVE Registry(n)'
  <2>1. n \in Nets /\ Registry(n) /\ Honest(n) BY <1>3, <1>10, Sizes DEF Registry
  <2>2. p \in Inside(n) BY <1>4, <1>7 DEF Inside
  <2>3. Inside(n)' \subseteq Inside(n) /\ \A q \in Inside(n)' : addr'[q] = addr[q]
    BY <1>7, <1>9, <2>2
  <2>4. (Inside(n)' = Inside(n) /\ leftover' = leftover) \/ n \in leftover'
    <3>1. CASE Strays(p) /\ pc'[p] = "adrift" /\ leftover' = leftover BY <1>9, <2>2, <3>1
    <3>2. CASE Quits(p)
      <4>1. members[n][name[p]] # None
        BY <2>1, <2>2 DEF Honest, Lists, Inside, RegInv, BaseInv
      <4>2. QED BY <1>4, <2>1, <3>2, <4>1 DEF Quits
    <3>3. QED BY <1>7, <3>1, <3>2
  <2>6. Honest(n)' BY <1>4, <1>9, <2>1, <2>3 DEF Honest, Lists
  <2>7. Stands(n)' <=> Stands(n) BY <1>4 DEF Stands
  <2>8. ASSUME NEW q \in Procs, At(q, n)' PROVE RegOf(q, n)'
    <3>1. RegOf(q, n) BY <1>5, <2>1, <2>8 DEF Registry
    <3>2. q # p BY <1>4, <2>8 DEF At, Resting
    <3>3. pc'[q] = pc[q] /\ addr'[q] = addr[q] /\ list'[q] = list[q] BY <1>1, <3>2 DEF StepOf
    <3>4. \A k \in Inside(n)' : name'[k] # name'[q] BY <1>9, <2>3, <3>1 DEF RegOf
    <3>5. /\ Creating(q)' => Inside(n)' = {} /\ meta'[n] # "ok"
          /\ pc'[q] \in {"rmdns", "rmpid", "rmlink", "rmdir"} => Inside(n)' = {}
      BY <1>4, <2>3, <3>1, <3>3 DEF RegOf, Creating
    <3>6. /\ pc'[q] \in {"ip", "ipT", "ipW", "load"} \cup Joined =>
               Only(members[n], n, {name[q]})'
          /\ pc'[q] \in Left => Only(members[n], n, {})'
          /\ pc'[q] \in {"register", "registerW"} =>
               Lists(list[q], n)' /\ Only(list[q], n, {name[q]})'
          /\ pc'[q] \in {"unregister", "unregisterW"} => Lists(list[q], n)' /\ Only(list[q], n, {})'
      <4>1. /\ Only(members[n], n, {name[q]}) => Only(members[n], n, {name[q]})'
            /\ Only(members[n], n, {}) => Only(members[n], n, {})'
        BY <1>4, <2>4 DEF Only
      <4>2. /\ Only(list[q], n, {name[q]}) => Only(list[q], n, {name[q]})'
            /\ Only(list[q], n, {}) => Only(list[q], n, {})'
        BY <1>4, <2>4 DEF Only
      <4>3. Lists(list[q], n) => Lists(list[q], n)' BY <1>4, <2>3 DEF Lists
      <4>4. QED BY <3>1, <3>3, <4>1, <4>2, <4>3 DEF RegOf
    <3>7. QED BY <1>4, <1>9, <2>7, <3>1, <3>3, <3>4, <3>5, <3>6 DEF RegOf
  <2>9. (\A q \in Procs : ~At(q, n)') => Calm(n)'
    <3> SUFFICES ASSUME \A q \in Procs : ~At(q, n)' PROVE Calm(n)' OBVIOUS
    <3>1. Calm(n) BY <1>5, <2>1 DEF Registry
    <3>2. meta'[n] = "ok" => Only(members[n], n, {})' BY <1>4, <2>4, <3>1 DEF Calm, Only
    <3>3. QED BY <2>3, <2>7, <3>1, <3>2 DEF Calm
  <2>10. QED BY <2>6, <2>8, <2>9 DEF Registry
<1>11. QED BY <1>6, <1>8, <1>10

LEMMA RegInitInv == Init => RegInv
<1> SUFFICES ASSUME Init PROVE RegInv OBVIOUS
<1>1. \A p \in Procs : pc[p] = "idle" /\ addr[p] = None BY DEF Init
<1>2. \A n \in Pools : nextIp[n] = NoFile BY DEF Init
<1>3. \A n \in Nets : meta[n] = "absent" BY DEF Init
<1>4. BaseInv BY <1>1, <1>3 DEF BaseInv, Init, Joined
<1>5. ASSUME NEW n \in Pools PROVE PoolInv(n)
  <2>1. One(n) /\ Addressed(n) = {} /\ Inside(n) = {}
    BY <1>1 DEF One, At, Resting, Addressed, Inside
  <2>2. Addresses(n) BY <1>1, <1>2, <2>1, Sizes DEF Addresses
  <2>3. n # Bridge => Registry(n)
    BY <1>1, <1>3, <2>1, Sizes DEF Registry, At, Resting, Calm, Honest, Lists
  <2>4. QED BY <2>1, <2>2, <2>3 DEF PoolInv
<1>6. QED BY <1>4, <1>5 DEF RegInv

LEMMA RegStep == NetInv /\ RegInv /\ [Next]_vars => RegInv'
<1> SUFFICES ASSUME NetInv, RegInv, [Next]_vars PROVE RegInv' OBVIOUS
<1>0. name' = name BY DEF Next, vars
<1>1. ASSUME NEW p \in Procs, Create(p) \/ Remove(p) \/ Join(p) \/ Leave(p) \/ Killed(p)
      PROVE  RegInv'
  <2>1. Rests(p) => Leave(p) BY DEF Rests, Leave
  <2>2. StepOf(p) BY <1>0, <1>1, ActsStepOf, RestsStepOf
  <2>3. BaseInv' BY <1>1, ActsBase DEF RegInv
  <2>4. NetInv' BY NetStep
  <2>5. net'[p] \in Pools BY <2>4 DEF NetInv, ProcsInv
  <2>6. ASSUME NEW n \in Pools PROVE PoolInv(n)'
    <3>1. CASE n # net'[p] BY <2>2, <3>1, Elsewhere
    <3>2. CASE n = net'[p] /\ Rests(p) BY <1>0, <3>2, RestKeeps
    <3>3. CASE n = net'[p] /\ ~Rests(p)
      <4>1. Minds(p, n)
        BY <1>0, <1>1, <3>3, CreateMinds, RemoveMinds, JoinMinds, LeaveMinds, KilledMinds
      <4>2. Meets(p) BY <1>0, <1>1, <3>3, ActsStepOf
      <4>3. QED BY <2>2, <3>3, <4>1, <4>2, Here
    <3>4. QED BY <3>1, <3>2, <3>3
  <2>7. QED BY <2>3, <2>6 DEF RegInv
<1>2. CASE UNCHANGED vars \/ \E n \in Nets : DnsDies(n)
  <2>1. UNCHANGED <<dir, meta, members, bridge, nextIp, pc, net, val, list, addr, fds, name,
                    overlapped, crashed, shared, leftover>>
    BY <1>0, <1>2 DEF vars, files, local, ghost, DnsDies
  <2>2. BaseInv' BY <2>1 DEF RegInv, BaseInv
  <2>3. ASSUME NEW n \in Pools PROVE PoolInv(n)'
    <3>1. PoolInv(n) BY DEF RegInv
    <3>2. Addresses(n)' <=> Addresses(n) BY <2>1 DEF Addresses, Addressed, ReadIp
    <3>3. Inside(n)' = Inside(n) BY <2>1 DEF Inside
    <3>4. Honest(n)' <=> Honest(n) BY <2>1, <3>3 DEF Honest, Lists
    <3>5. Calm(n)' <=> Calm(n) BY <2>1, <3>3 DEF Calm, Stands, Only
    <3>6. ASSUME NEW p \in Procs PROVE RegOf(p, n)' <=> RegOf(p, n)
      BY <2>1, <3>3 DEF RegOf, Creating, Stands, Lists, Only
    <3>7. \A p \in Procs : At(p, n)' <=> At(p, n) BY <2>1 DEF At, Resting
    <3>8. Registry(n)' <=> Registry(n) BY <3>4, <3>5, <3>6, <3>7 DEF Registry
    <3>9. (AloneOn(n)' <=> AloneOn(n)) /\ (One(n)' <=> One(n))
      BY <2>1 DEF AloneOn, One, At, Resting
    <3>10. QED BY <3>1, <3>2, <3>8, <3>9 DEF PoolInv
  <2>4. QED BY <2>2, <2>3 DEF RegInv
<1>3. QED BY <1>1, <1>2 DEF Next

LEMMA RegInvariant == Spec => [](NetInv /\ RegInv)
<1>1. Init => NetInv /\ RegInv BY NetInitInv, RegInitInv
<1>2. (NetInv /\ RegInv) /\ [Next]_vars => (NetInv /\ RegInv)' BY NetStep, RegStep
<1>3. QED BY <1>1, <1>2, PTL DEF Spec

\* The registry tells dnsmasq and remove_network the truth (network.rs 731-768, 786-826):
\* while nobody works on a network, and no two have met there, none was killed at it and no
\* two containers had one name, the name of every container that runs there, restarted or
\* without a supervisor, leads to its address, and the network has its directory and its
\* bridge; nothing else is listed unless a container has ended and was not unlisted.
THEOREM RegistryExactSafe == Spec => []RegistryExact
<1>1. NetInv /\ RegInv => RegistryExact
  <2> SUFFICES ASSUME NetInv, RegInv, NEW n \in Nets, Quiet(n)
               PROVE  /\ Inside(n) # {} => dir[n] /\ meta[n] = "ok" /\ bridge[n]
                      /\ \A p \in Inside(n) : members[n][name[p]] = addr[p]
                      /\ meta[n] = "ok" /\ n \notin leftover =>
                           \A x \in Names : members[n][x] # None =>
                                              \E p \in Inside(n) : name[p] = x
    BY DEF RegistryExact
  <2>1. n \in Pools /\ n # Bridge /\ AloneOn(n) BY Sizes DEF Quiet, AloneOn
  <2>2. Registry(n) BY <2>1 DEF RegInv, PoolInv
  <2>3. \A p \in Procs : ~At(p, n) BY DEF Quiet, At
  <2>4. Calm(n) /\ Honest(n) BY <2>2, <2>3 DEF Registry
  <2>5. QED BY <2>4 DEF Calm, Stands, Only, Honest, Lists
<1>2. QED BY <1>1, RegInvariant, PTL

\* Containers on a network, restarted or without a supervisor, have different addresses if
\* no two invocations have worked on it at the same time (network.rs 396-428, 1024-1036),
\* whatever happens on others.  Kills on the default one do no harm; on a named one nobody
\* is killed at it and no two have one name.  A removal starts the pool anew, and there is
\* nobody left then.
THEOREM UniqueAddressesSafe == Spec => []UniqueAddressesAlone
<1>1. NetInv /\ RegInv => UniqueAddressesAlone
  <2> SUFFICES ASSUME NetInv, RegInv, NEW p \in Procs, NEW q \in Procs,
                      addr[p] # None, addr[p] = addr[q], net[p] = net[q],
                      net[p] \notin overlapped,
                      net[p] # Bridge => net[p] \notin crashed \cup shared
               PROVE  p = q
    BY DEF UniqueAddressesAlone
  <2>1. net[p] \in Pools /\ AloneOn(net[p]) BY DEF NetInv, ProcsInv, AloneOn
  <2>2. Addresses(net[p]) BY <2>1 DEF RegInv, PoolInv
  <2>3. p \in Addressed(net[p]) /\ q \in Addressed(net[p]) BY DEF Addressed
  <2>4. QED BY <2>2, <2>3 DEF Addresses
<1>2. QED BY <1>1, RegInvariant, PTL

-----------------------------------------------------------------------------
(* dnsmasq.  DnsRepairable needs nothing else than the types.              *)

LEMMA PidStep == NetInv /\ DnsRepairable /\ [Next]_vars => DnsRepairable'
<1> SUFFICES ASSUME NetInv, DnsRepairable, [Next]_vars PROVE DnsRepairable' OBVIOUS
<1>0. /\ dns \in [Nets -> {"none", "up", "dying"}] /\ pidFile \in [Nets -> {"absent", "current", "old"}]
      /\ pc \in [Procs -> Labels] /\ net \in [Procs -> Pools]
  BY DEF NetInv, FilesInv, ProcsInv
<1>a. \A p \in Procs : pc[p] \notin {"idle", "up", "adrift", "ip", "ipT", "ipW", "ports"} => net[p] \in Nets
  BY DEF NetInv, ProcsInv, Known
<1> USE <1>0 DEF DnsRepairable
\* No step but the removal of the file takes p out of the exception...
<1>1. ASSUME NEW p \in Procs, pc[p] \notin {"rmpid", "lastpid"},
             \A q \in Procs \ {p} : pc'[q] = pc[q] /\ net'[q] = net[q],
             crashed \subseteq crashed',
             \A n \in Nets : \/ dns'[n] = dns[n] /\ pidFile'[n] \in {"absent", pidFile[n]}
                             \/ dns'[n] = "up" \/ pidFile'[n] = "absent"
                             \/ n = net'[p] /\ pc'[p] \in {"rmpid", "lastpid"}
      PROVE  DnsRepairable'
  BY <1>1
\* ...and then there is no file.
<1>2. ASSUME NEW p \in Procs, NEW from, NEW next \in Labels, RemovesPid(p, from, next),
             net[p] \in Nets
      PROVE  DnsRepairable'
  BY <1>2 DEF RemovesPid, Works, Goto, local, ghost
<1>3. ASSUME NEW p \in Procs, NEW from \in {"rmdns", "last"}, NEW remove \in {"rmpid", "lastpid"},
             NEW next \in {"rmlink", "idle"}, Signals(p, from, remove, next)
      PROVE  DnsRepairable'
  BY <1>3 DEF Signals, Works, Goto, local, ghost
<1>4. ASSUME NEW p \in Procs, Create(p) PROVE DnsRepairable'
  <2>1. pc[p] \notin {"rmpid", "lastpid"} /\ crashed' = crashed
    BY <1>4 DEF Create, CreateChecks, Begins, MakesDir, ReadsOctet, TruncatesOctet, WritesOctet,
                AddsBridge, StartsFirstDns, TruncatesNew, WritesNew, TruncatesMeta, WritesMeta,
                Works, ghost
  <2>2. \A q \in Procs \ {p} : pc'[q] = pc[q] /\ net'[q] = net[q]
    BY <1>4 DEF Create, CreateChecks, Begins, MakesDir, ReadsOctet, TruncatesOctet, WritesOctet,
                AddsBridge, StartsFirstDns, TruncatesNew, WritesNew, TruncatesMeta, WritesMeta,
                Goto, local
  <2>3. CASE StartsFirstDns(p) BY <1>1, <2>1, <2>2, <2>3 DEF StartsFirstDns
  <2>4. CASE ~StartsFirstDns(p)
    <3>1. UNCHANGED <<dns, pidFile>>
      BY <1>4, <2>4 DEF Create, CreateChecks, MakesDir, ReadsOctet, TruncatesOctet, WritesOctet,
                        AddsBridge, TruncatesNew, WritesNew, TruncatesMeta, WritesMeta, files
    <3>2. QED BY <1>1, <2>1, <2>2, <3>1
  <2>5. QED BY <2>3, <2>4
<1>5. ASSUME NEW p \in Procs, Remove(p) PROVE DnsRepairable'
  <2>1. CASE RemoveStopsDns(p) BY <1>3, <2>1 DEF RemoveStopsDns
  <2>2. CASE RemoveForgetsDns(p)
    <3>1. net[p] \in Nets BY <1>a, <2>2 DEF RemoveForgetsDns, RemovesPid, Works
    <3>2. "rmlink" \in Labels BY DEF Labels
    <3>3. QED BY <1>2, <2>2, <3>1, <3>2 DEF RemoveForgetsDns
  <2>3. CASE RemoveChecks(p) \/ RemoveDeletesBridge(p) \/ RemovesDir(p)
    <3>1. /\ pc[p] \notin {"rmpid", "lastpid"} /\ crashed' = crashed /\ dns' = dns
          /\ \A q \in Procs \ {p} : pc'[q] = pc[q] /\ net'[q] = net[q]
          /\ \A n \in Nets : pidFile'[n] \in {"absent", pidFile[n]}
      BY <2>3 DEF RemoveChecks, Begins, RemoveDeletesBridge, RemovesDir, Works, Goto, ghost,
                  files, local
    <3>2. QED BY <1>1, <3>1
  <2>4. QED BY <1>5, <2>1, <2>2, <2>3 DEF Remove
<1>6. ASSUME NEW p \in Procs, Join(p) PROVE DnsRepairable'
  <2>1. pc[p] \notin {"rmpid", "lastpid"} /\ crashed' = crashed
    BY <1>6 DEF Join, Joins, Restarts, Begins, ReadsIp, TruncatesIp, WritesIp, LoadsMembers,
                Registers, WritesRegistration, TruncatesMeta, WritesMeta, UpdatesDns, EnsuresDns,
                RestartsDns, Starts, Works, ghost
  <2>2. \A q \in Procs \ {p} : pc'[q] = pc[q] /\ net'[q] = net[q]
    BY <1>6 DEF Join, Joins, Restarts, Begins, ReadsIp, TruncatesIp, WritesIp, LoadsMembers,
                Registers, WritesRegistration, TruncatesMeta, WritesMeta, UpdatesDns, EnsuresDns,
                RestartsDns, Starts, Goto, local
  <2>3. CASE UpdatesDns(p) \/ EnsuresDns(p) \/ RestartsDns(p)
    <3>1. net[p] \in Nets BY <1>a, <2>3 DEF UpdatesDns, EnsuresDns, RestartsDns, Works
    <3>2. \A n \in Nets : \/ dns'[n] = dns[n] /\ pidFile'[n] = pidFile[n]
                          \/ dns'[n] = "up" \/ pidFile'[n] = "absent"
      BY <2>3, <3>1 DEF UpdatesDns, EnsuresDns, RestartsDns, UpdateDns, StartDns, Spawn
    <3>3. QED BY <1>1, <2>1, <2>2, <3>2
  <2>4. CASE ~(UpdatesDns(p) \/ EnsuresDns(p) \/ RestartsDns(p))
    <3>1. UNCHANGED <<dns, pidFile>>
      BY <1>6, <2>4 DEF Join, Joins, Restarts, ReadsIp, TruncatesIp, WritesIp, LoadsMembers,
                        Registers, WritesRegistration, TruncatesMeta, WritesMeta, Starts, files
    <3>2. QED BY <1>1, <2>1, <2>2, <3>1
  <2>5. QED BY <2>3, <2>4
<1>7. ASSUME NEW p \in Procs, Leave(p) PROVE DnsRepairable'
  <2>1. CASE LastStopsDns(p) BY <1>3, <2>1 DEF LastStopsDns
  <2>2. CASE LastForgetsDns(p)
    <3>1. net[p] \in Nets BY <1>a, <2>2 DEF LastForgetsDns, RemovesPid, Works
    <3>2. "idle" \in Labels BY DEF Labels
    <3>3. QED BY <1>2, <2>2, <3>1, <3>2 DEF LastForgetsDns
  <2>3. CASE LeaveUpdatesDns(p)
    <3>1. net[p] \in Nets BY <1>a, <2>3 DEF LeaveUpdatesDns, Works
    <3>2. \A n \in Nets : \/ dns'[n] = dns[n] /\ pidFile'[n] = pidFile[n]
                          \/ dns'[n] = "up" \/ pidFile'[n] = "absent"
      BY <2>3, <3>1 DEF LeaveUpdatesDns, UpdateDns, StartDns, Spawn
    <3>3. QED BY <1>1, <2>3, <3>2 DEF LeaveUpdatesDns, Works, Goto, local, ghost
  <2>4. CASE Leaves(p) \/ Unregisters(p) \/ WritesUnregistration(p) \/ Quits(p) \/ Strays(p)
    <3>1. /\ pc[p] \notin {"rmpid", "lastpid"} /\ crashed' = crashed /\ UNCHANGED <<dns, pidFile>>
          /\ \A q \in Procs \ {p} : pc'[q] = pc[q] /\ net'[q] = net[q]
      BY <2>4 DEF Leaves, Begins, Unregisters, WritesUnregistration, TruncatesMeta, WritesMeta,
                  Quits, Strays, Works, Goto, ghost, files, local
    <3>2. QED BY <1>1, <3>1
  <2>5. QED BY <1>7, <2>1, <2>2, <2>3, <2>4 DEF Leave
<1>8. ASSUME NEW n \in Nets, DnsDies(n) PROVE DnsRepairable'
  BY <1>8 DEF DnsDies, local, ghost
<1>9. ASSUME NEW p \in Procs, Killed(p) PROVE DnsRepairable'
  BY <1>9 DEF Killed, Goto, files
<1>10. CASE UNCHANGED vars BY <1>10 DEF vars, files, local, ghost
<1>11. QED BY <1>4, <1>5, <1>6, <1>7, <1>8, <1>9, <1>10 DEF Next

\* The PID file is of the dnsmasq that serves, or there is none, or somebody who stops it is
\* about to remove the file or was killed before it has (network.rs 829-954): for all
\* interleavings and kills, those of two who stop and start it included.
THEOREM DnsRepairableSafe == Spec => []DnsRepairable
<1>1. Init => NetInv /\ DnsRepairable BY NetInitInv DEF Init, DnsRepairable
<1>2. (NetInv /\ DnsRepairable) /\ [Next]_vars => (NetInv /\ DnsRepairable)' BY NetStep, PidStep
<1>3. QED BY <1>1, <1>2, PTL DEF Spec
=============================================================================
