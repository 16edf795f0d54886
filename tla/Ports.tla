-------------------------------- MODULE Ports --------------------------------
(***************************************************************************)
(* network.rs: the iptables rules that forward ports of the host to        *)
(* containers.  Supervisors insert and delete them one by one, each by     *)
(* spelling it out again, and `system prune` flushes those of the default  *)
(* network.  A packet goes where the first rule of a chain that matches    *)
(* says.                                                                   *)
(***************************************************************************)
EXTENDS Naturals, Sequences, SequencesExt

CONSTANTS
  Conts,    \* containers with published ports
  Maps,     \* the mappings of each, a sequence of [host, cont, hostIp]
  Default,  \* those on the default network, 10.0.42.0/24
  MaxIp,    \* BOUND: the number of addresses ever allocated
  Faults    \* what may go wrong

\* config::PortMapping.
Mappings == [host : 0..65535, cont : 0..65535, hostIp : STRING]

ASSUME PortsAssumption ==
  /\ Maps \in [Conts -> Seq(Mappings) \ {<<>>}]
  /\ Default \subseteq Conts
  /\ MaxIp \in Nat \ {0}
  /\ Faults \subseteq {"locked", "killed"}

Chains == {"PREROUTING", "OUTPUT"}
AnyHost == "any host"
NoRule == <<>>

VARIABLES
  chain,   \* the DNAT rules of the nat table
  accepts, \* the addresses that POSTROUTING and FORWARD have rules for
  nextIp,  \* addresses are not used twice
  pc, ip, at,         \* a supervisor: where it stands, its address, its mapping
  flush, rule,        \* `system prune`: the chain it flushes, the rule it has read
  disturbed,          \* history: the containers that have lost a rule
  newest,             \* history: who has published a port last
  stuck               \* history: a rule was left behind by a failure

tables == <<chain, accepts>>
local  == <<nextIp, pc, ip, at>>
prune  == <<flush, rule>>
ghost  == <<disturbed, newest, stuck>>
vars   == <<tables, local, prune, ghost>>

\* A rule: the destination and the port it matches, and where it leads.
Rule(dst, m, addr) == [dst |-> dst, port |-> m.host, to |-> addr, cont |-> m.cont]

Mapping(c) == Maps[c][at[c]]
Goto(c, label) == pc' = [pc EXCEPT ![c] = label]

\* -I: at the top.  Mutant: -A, at the end.
Appended(k, r) == [chain EXCEPT ![k] = Append(@, r)]
Inserted(k, r) == [chain EXCEPT ![k] = <<r>> \o @]

\* Mutant: whatever matches the port.
WithoutPort(k, r) ==
  LET i == SelectInSeq(chain[k], LAMBDA s : s.port = r.port) IN
  [chain EXCEPT ![k] = IF i = 0 THEN @ ELSE RemoveAt(@, i)]

\* -D: the first that is the same in every respect; an error if there is none.
Without(k, r) ==
  [chain EXCEPT ![k] =
     IF Contains(@, r) THEN RemoveAt(@, SelectInSeq(@, LAMBDA s : s = r)) ELSE @]

-----------------------------------------------------------------------------
(* setup_port_forwarding                                                   *)

\* Mutant: one address more than there are.
AddressedBeyond(c) ==
  /\ nextIp <= MaxIp
  /\ nextIp' = nextIp + 1
  /\ ip' = [ip EXCEPT ![c] = <<IF c \in Default THEN 42 ELSE 43, nextIp + 1>>]
  /\ at' = [at EXCEPT ![c] = 1]
  /\ Goto(c, "pre")
  /\ disturbed' = disturbed \ {c}

\* The network gives it an address, another one for each restart.
Addressed(c) ==
  /\ nextIp < MaxIp
  /\ nextIp' = nextIp + 1
  /\ ip' = [ip EXCEPT ![c] = <<IF c \in Default THEN 42 ELSE 43, nextIp + 1>>]
  /\ at' = [at EXCEPT ![c] = 1]
  /\ Goto(c, "pre")
  /\ disturbed' = disturbed \ {c}

Starts(c) ==
  /\ pc[c] = "idle"
  /\ Addressed(c)
  /\ UNCHANGED <<tables, prune, newest, stuck>>

InsertsPre(c) ==
  /\ pc[c] = "pre"
  /\ chain' = Inserted("PREROUTING", Rule(AnyHost, Mapping(c), ip[c]))
  /\ Goto(c, "out")
  /\ UNCHANGED <<accepts, nextIp, ip, at, prune, ghost>>

\* The OUTPUT rule, MASQUERADE and two ACCEPTs, whose failure is ignored.  Nothing
\* deletes the last three.
InsertsOut(c) ==
  /\ pc[c] = "out"
  /\ \/ /\ chain' = Inserted("OUTPUT", Rule(AnyHost, Mapping(c), ip[c]))
        /\ newest' = [newest EXCEPT ![Mapping(c).host] = c]
        /\ UNCHANGED disturbed
     \/ /\ "locked" \in Faults
        /\ disturbed' = disturbed \cup {c}
        /\ UNCHANGED <<chain, newest>>
  /\ accepts' = accepts \cup {ip[c]}
  /\ IF at[c] < Len(Maps[c])
       THEN at' = [at EXCEPT ![c] = @ + 1] /\ Goto(c, "pre")
       ELSE UNCHANGED at /\ Goto(c, "up")
  /\ UNCHANGED <<nextIp, ip, prune, stuck>>

-----------------------------------------------------------------------------
(* cleanup_port_forwarding, when the program has ended                     *)

Ends(c) ==
  /\ pc[c] = "up"
  /\ at' = [at EXCEPT ![c] = 1]
  /\ Goto(c, "unpre")
  /\ UNCHANGED <<tables, nextIp, ip, prune, ghost>>

\* Mutant: deleted as the OUTPUT rule is, with the address of the host.
DeletesPreByHost(c) ==
  /\ pc[c] = "unpre"
  /\ chain' = Without("PREROUTING", Rule(Mapping(c).hostIp, Mapping(c), ip[c]))
  /\ Goto(c, "unout")
  /\ UNCHANGED <<accepts, nextIp, ip, at, prune, ghost>>

DeletesPre(c) ==
  /\ pc[c] = "unpre"
  /\ \/ chain' = Without("PREROUTING", Rule(AnyHost, Mapping(c), ip[c])) /\ UNCHANGED stuck
     \/ "locked" \in Faults /\ stuck' = TRUE /\ UNCHANGED chain
  /\ Goto(c, "unout")
  /\ UNCHANGED <<accepts, nextIp, ip, at, prune, disturbed, newest>>

\* With `-d host_ip`, unlike the rule that was inserted: 0.0.0.0, too, is one
\* address to iptables.
DeletesOut(c) ==
  /\ pc[c] = "unout"
  /\ chain' = Without("OUTPUT", Rule(Mapping(c).hostIp, Mapping(c), ip[c]))
  /\ IF at[c] < Len(Maps[c])
       THEN at' = [at EXCEPT ![c] = @ + 1] /\ Goto(c, "unpre")
       ELSE UNCHANGED at /\ Goto(c, "ended")
  /\ UNCHANGED <<accepts, nextIp, ip, prune, ghost>>

\* The loop of run_with_tty goes on, or not.
Restarts(c) ==
  /\ pc[c] = "ended"
  /\ Addressed(c)
  /\ UNCHANGED <<tables, prune, newest, stuck>>
Finishes(c) ==
  /\ pc[c] = "ended"
  /\ Goto(c, "idle")
  /\ UNCHANGED <<tables, nextIp, ip, at, prune, ghost>>

\* Killed, or ended by the first insertion, whose failure is an error.
Killed(c) ==
  /\ "killed" \in Faults
  /\ pc[c] # "idle"
  /\ stuck' = TRUE
  /\ Goto(c, "idle")
  /\ UNCHANGED <<tables, nextIp, ip, at, prune, disturbed, newest>>

-----------------------------------------------------------------------------
(* flush_port_forwarding                                                   *)

FlushStarts ==
  /\ flush = "idle"
  /\ flush' = "PREROUTING"
  /\ UNCHANGED <<tables, local, rule, ghost>>

\* The first DNAT rule with "10.0.42." in it, of what -S lists; without an answer
\* or such a rule it goes on to the next chain.
IsDefault(r) == r.to[1] = 42
FlushReads ==
  /\ flush \in Chains /\ rule = NoRule
  /\ LET i == SelectInSeq(chain[flush], IsDefault) IN
       \/ i # 0 /\ rule' = <<chain[flush][i]>> /\ UNCHANGED flush
       \/ /\ i = 0 \/ "locked" \in Faults
          /\ flush' = (IF flush = "PREROUTING" THEN "OUTPUT" ELSE "idle")
          /\ UNCHANGED rule
  /\ UNCHANGED <<tables, local, ghost>>

\* A failure is ignored: the rule will be the first again.
FlushDeletes ==
  /\ flush \in Chains /\ rule # NoRule
  /\ \/ /\ chain' = Without(flush, rule[1])
        /\ disturbed' = disturbed \cup {c \in Conts : ip[c] = rule[1].to}
     \/ "locked" \in Faults /\ UNCHANGED <<chain, disturbed>>
  /\ rule' = NoRule
  /\ UNCHANGED <<accepts, local, flush, newest, stuck>>

HostPorts == UNION {{Maps[c][i].host : i \in DOMAIN Maps[c]} : c \in Conts}

Init ==
  /\ chain = [k \in Chains |-> <<>>]
  /\ accepts = {}
  /\ nextIp = 1
  /\ pc = [c \in Conts |-> "idle"]
  /\ ip = [c \in Conts |-> <<0, 0>>]
  /\ at = [c \in Conts |-> 1]
  /\ flush = "idle" /\ rule = NoRule
  /\ disturbed = {} /\ stuck = FALSE
  /\ newest = [h \in HostPorts |-> CHOOSE c \in Conts : TRUE]

Supervise(c) ==
  \/ Starts(c) \/ InsertsPre(c) \/ InsertsOut(c)
  \/ Ends(c) \/ DeletesPre(c) \/ DeletesOut(c) \/ Restarts(c) \/ Finishes(c) \/ Killed(c)

Next == (\E c \in Conts : Supervise(c)) \/ FlushStarts \/ FlushReads \/ FlushDeletes

Spec == Init /\ [][Next]_vars

-----------------------------------------------------------------------------
\* Where a connection to port h goes.
First(k, h) == SelectInSeq(chain[k], LAMBDA r : r.port = h)
LeadsTo(k, h, c) == First(k, h) # 0 /\ chain[k][First(k, h)].to = ip[c]

Live(c) == pc[c] \notin {"idle", "ended"}
Published(c) == {Maps[c][i].host : i \in DOMAIN Maps[c]}

\* The rules of a container go with it, whatever others insert, delete and flush
\* meanwhile, and a restart with another address leaves none of the last one
\* behind, unless iptables or a supervisor failed (network.rs 510-529;
\* container.rs 451-455).
NoStaleForward ==
  ~stuck => \A i \in DOMAIN chain["PREROUTING"] :
              \E c \in Conts : Live(c) /\ ip[c] = chain["PREROUTING"][i].to

\* From outside, a port of a container that runs leads to a container that
\* runs: to it, or to one that has been started with the same port since
\* (network.rs 459-469).
Served ==
  ~stuck => \A c \in Conts : pc[c] = "up" /\ c \notin disturbed =>
              \A h \in Published(c) : \E d \in Conts : Live(d) /\ LeadsTo("PREROUTING", h, d)

\* From the host, the rules that others have left behind do not hide a
\* container, as its own are inserted before them (network.rs 471-476).
NewestServed ==
  \A c \in Conts : pc[c] = "up" /\ c \notin disturbed =>
    \A h \in Published(c) : newest[h] = c => LeadsTo("OUTPUT", h, c)

Addresses == {0, 42, 43} \X (0..MaxIp)

TypeOK ==
  /\ DOMAIN chain = Chains
  /\ \A k \in Chains : \A i \in DOMAIN chain[k] :
       /\ chain[k][i].to \in Addresses
       /\ chain[k][i].port \in HostPorts
  /\ accepts \subseteq Addresses
  /\ nextIp \in 1..MaxIp
  /\ pc \in [Conts -> {"idle", "pre", "out", "up", "unpre", "unout", "ended"}]
  /\ ip \in [Conts -> Addresses]
  /\ \A c \in Conts : at[c] \in DOMAIN Maps[c]
  /\ flush \in Chains \cup {"idle"}
  /\ rule = NoRule \/ rule[1].to \in Addresses
  /\ disturbed \subseteq Conts
  /\ newest \in [HostPorts -> Conts]
  /\ stuck \in BOOLEAN
=============================================================================
