---- MODULE MCNetworks ----
EXTENDS Networks, TLC

NetSymmetry == Permutations(Nets) \cup Permutations(Procs) \cup Permutations(Names)

\* What an idle invocation remembers, and what it copied and has written since,
\* is read no more.
Live(p) == CASE pc[p] = "idle" -> <<>>
             [] pc[p] \in {"octetT", "octetW", "link", "dnsmasq", "meta", "metaW",
                           "ipT", "ipW"} -> <<net[p], val[p]>>
             [] pc[p] = "unhup" -> <<net[p], list[p]>>
             [] pc[p] \in {"register", "registerW", "unregister", "unregisterW"} ->
                  <<net[p], val[p], list[p]>>
             [] OTHER -> <<net[p]>>
LiveFiles ==
  <<nextOctet, nextIp, dir, meta, bridge, dns, pidFile,
    [n \in Nets |-> IF meta[n] = "ok" THEN <<octet[n], members[n]>> ELSE <<>>]>>
LiveState == <<LiveFiles, pc, [p \in Procs |-> Live(p)], addr, fds, ghost, name>>

\* Without the names and the history that UniqueSubnetsAlone does not look at.
SubnetsState ==
  <<LiveFiles, pc, [p \in Procs |-> Live(p)], addr, fds, overlapped, crashed>>

\* BOUND of MCNetworks, at which UniqueSubnetsAlone says no more.
CreatesAlone == "subnets" \notin overlapped \cup crashed

\* BOUND of MCPools: invocations meet or are killed on at most one pool, and
\* not both.
TroubleOnce ==
  /\ Cardinality((overlapped \cup crashed) \cap Pools) <= 1
  /\ overlapped = {} \/ crashed = {}
====
