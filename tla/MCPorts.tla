---- MODULE MCPorts ----
EXTENDS Ports

CONSTANTS c1, c2

\* One with two ports, the first of which another one publishes, too.
MCMaps ==
  (c1 :> <<[host |-> 80, cont |-> 80, hostIp |-> "0.0.0.0"],
           [host |-> 443, cont |-> 443, hostIp |-> "127.0.0.1"]>>) @@
  (c2 :> <<[host |-> 80, cont |-> 8080, hostIp |-> "0.0.0.0"]>>)

\* What is read no more.
LiveState ==
  <<chain, nextIp, pc, flush, rule, disturbed \cap {c \in Conts : Live(c)},
    [c \in Conts |-> IF Live(c) THEN <<ip[c], at[c]>> ELSE <<>>],
    [h \in HostPorts |-> IF Live(newest[h]) THEN newest[h] ELSE "none"], stuck>>

\* BOUND of MCPorts: failures leave one rule in PREROUTING behind, at most.
FewStale ==
  LET stale == {i \in DOMAIN chain["PREROUTING"] :
                  \A c \in Conts : Live(c) => ip[c] # chain["PREROUTING"][i].to}
  IN \A i, j \in stale : i = j
====
