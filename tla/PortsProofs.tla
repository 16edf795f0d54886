----------------------------- MODULE PortsProofs -----------------------------
(***************************************************************************)
(* Theorems about Ports, for any number of containers and mappings, the    *)
(* same mapping twice included, and any number of restarts and flushes.    *)
(***************************************************************************)
EXTENDS Ports, SequenceTheorems, FiniteSetTheorems, WellFoundedInduction, TLAPS

\* A slot is a mapping of a container.
Slots == {s \in Conts \X Nat : s[2] \in DOMAIN Maps[s[1]]}
Destinations == {AnyHost} \cup {Maps[s[1]][s[2]].hostIp : s \in Slots}
ContPorts == {Maps[s[1]][s[2]].cont : s \in Slots}
Rules == [dst : Destinations, port : HostPorts, to : Addresses, cont : ContPorts]
Labels == {"idle", "pre", "out", "up", "unpre", "unout", "ended"}

PortsType ==
  /\ chain \in [Chains -> Seq(Rules)]
  /\ accepts \subseteq Addresses
  /\ nextIp \in 1..MaxIp
  /\ pc \in [Conts -> Labels]
  /\ ip \in [Conts -> Addresses]
  /\ at \in [Conts -> Nat] /\ \A c \in Conts : at[c] \in DOMAIN Maps[c]
  /\ flush \in Chains \cup {"idle"}
  /\ rule # NoRule => rule = <<rule[1]>> /\ rule[1] \in Rules
  /\ disturbed \subseteq Conts
  /\ newest \in [HostPorts -> Conts]
  /\ stuck \in BOOLEAN

\* No two containers have had the same address, which was counted.
Distinct ==
  \A c \in Conts :
    /\ pc[c] # "idle" => ip[c] # <<0, 0>>
    /\ ip[c] # <<0, 0>> =>
         ip[c][2] <= nextIp /\ \A d \in Conts : ip[d] = ip[c] => d = c

\* The rule of a slot may be in PREROUTING while InPre, and is in OUTPUT since InOut,
\* unless something took it away.
RuleOf(s) == Rule(AnyHost, Maps[s[1]][s[2]], ip[s[1]])
InPre(s) ==
  \/ pc[s[1]] = "pre"   /\ s[2] < at[s[1]]
  \/ pc[s[1]] = "out"   /\ s[2] <= at[s[1]]
  \/ pc[s[1]] = "up"
  \/ pc[s[1]] = "unpre" /\ s[2] >= at[s[1]]
  \/ pc[s[1]] = "unout" /\ s[2] > at[s[1]]
InOut(s) ==
  \/ pc[s[1]] \in {"pre", "out"} /\ s[2] < at[s[1]]
  \/ pc[s[1]] = "up"

\* f says for each rule of p the slot it is there for: each for another one, so that what
\* a container deletes was its last.
Owns(f, p) ==
  /\ f \in [DOMAIN p -> Slots]
  /\ \A i, j \in DOMAIN p : f[i] = f[j] => i = j
  /\ \A i \in DOMAIN p : InPre(f[i]) /\ p[i] = RuleOf(f[i])
Owned == ~stuck => \E f : Owns(f, chain["PREROUTING"])

\* What a container has inserted and nothing has disturbed is there while it runs...
Setting(c) == pc[c] \in {"pre", "out", "up"} /\ c \notin disturbed
Present ==
  \A s \in Slots : Setting(s[1]) /\ InPre(s) =>
    \E i \in DOMAIN chain["PREROUTING"] : chain["PREROUTING"][i] = RuleOf(s)

\* ...and, from the host, before what was inserted earlier.
HeadedAt(p, h, a, i) ==
  /\ i \in DOMAIN p
  /\ p[i].port = h /\ p[i].to = a
  /\ \A j \in DOMAIN p : j < i => p[j].port # h
Headed ==
  \A s \in Slots :
    Setting(s[1]) /\ InOut(s) /\ newest[Maps[s[1]][s[2]].host] = s[1] =>
      \E i \in Nat : HeadedAt(chain["OUTPUT"], Maps[s[1]][s[2]].host, ip[s[1]], i)

PortsInv == PortsType /\ Distinct /\ Owned /\ Present /\ Headed

-----------------------------------------------------------------------------
(* Sequences.                                                              *)

\* Induction in the form that needs no operator: a set of numbers has a least one.
LEMMA Least ==
  ASSUME NEW I \in SUBSET Nat, I # {}
  PROVE  \E m \in I : \A k \in I : m <= k
<1> DEFINE T == {0..k : k \in I}
<1>1. PICK k \in I : TRUE OBVIOUS
<1>2. T \subseteq FiniteSubsetsOf(Nat) /\ T # {}
  <2>1. \A n \in Nat : 0..n \subseteq Nat /\ IsFiniteSet(0..n) BY FS_Interval
  <2>2. QED BY <1>1, <2>1 DEF FiniteSubsetsOf
<1>3. PICK t \in T : \A u \in T : <<u, t>> \notin StrictSubsetOrdering(Nat)
  <2> HIDE DEF T
  <2>1. IsWellFoundedOn(StrictSubsetOrdering(Nat), FiniteSubsetsOf(Nat))
    BY FS_StrictSubsetOrderingWellFounded
  <2>2. QED BY <1>2, <2>1, WFMin
<1>4. PICK m \in I : t = 0..m OBVIOUS
<1>5. ASSUME NEW n \in I, n < m PROVE FALSE
  <2>1. 0..n \subseteq 0..m /\ 0..n # 0..m /\ 0..m \subseteq Nat /\ 0..n \subseteq Nat
    <3>1. m \in 0..m /\ m \notin 0..n BY <1>5
    <3>2. QED BY <1>5, <3>1
  <2>2. <<0..n, 0..m>> \in StrictSubsetOrdering(Nat) BY <2>1 DEF StrictSubsetOrdering
  <2>3. QED BY <1>3, <1>4, <2>2
<1>6. QED BY <1>5

\* Min(I) is that one.
LEMMA MinIs ==
  ASSUME NEW n \in Nat, NEW I \in SUBSET (1..n), I # {}
  PROVE  Min(I) \in I /\ \A k \in I : Min(I) <= k
<1>1. \E m \in I : \A k \in I : m <= k BY Least
<1>2. QED BY <1>1 DEF Min

\* Where the first rule for port h is.
LEMMA FirstOf ==
  ASSUME NEW k \in Chains, NEW h, chain[k] \in Seq(Rules)
  PROVE  \/ First(k, h) = 0 /\ \A i \in DOMAIN chain[k] : chain[k][i].port # h
         \/ HeadedAt(chain[k], h, chain[k][First(k, h)].to, First(k, h))
<1> DEFINE p == chain[k]
           I == {i \in 1..Len(p) : p[i].port = h}
<1>1. Len(p) \in Nat /\ DOMAIN p = 1..Len(p) OBVIOUS
<1>2. First(k, h) = IF I # {} THEN Min(I) ELSE 0 BY DEF First, SelectInSeq
<1>3. CASE I = {} BY <1>1, <1>2, <1>3
<1>4. CASE I # {}
  <2>1. Min(I) \in I /\ \A i \in I : Min(I) <= i BY <1>1, <1>4, MinIs
  <2>2. First(k, h) \in I /\ \A i \in I : First(k, h) <= i BY <1>2, <1>4, <2>1
  <2>3. \A j \in 1..Len(p) : j < First(k, h) => j \notin I BY <2>2
  <2>4. QED BY <1>1, <2>2, <2>3 DEF HeadedAt
<1>5. QED BY <1>3, <1>4

\* ...which is decided by the rule itself.
LEMMA FirstIs ==
  ASSUME NEW k \in Chains, NEW h, NEW c \in Conts, chain[k] \in Seq(Rules),
         NEW i \in Nat, HeadedAt(chain[k], h, ip[c], i)
  PROVE  LeadsTo(k, h, c)
<1>1. DOMAIN chain[k] = 1..Len(chain[k]) /\ Len(chain[k]) \in Nat OBVIOUS
<1>2. First(k, h) # 0 /\ HeadedAt(chain[k], h, chain[k][First(k, h)].to, First(k, h))
  BY <1>1, FirstOf DEF HeadedAt
<1>3. First(k, h) = i BY <1>1, <1>2 DEF HeadedAt
<1>4. QED BY <1>2, <1>3 DEF LeadsTo, HeadedAt

\* What RemoveAt leaves.
LEMMA Removal ==
  ASSUME NEW S, NEW p \in Seq(S), NEW d \in 1..Len(p)
  PROVE  /\ RemoveAt(p, d) \in Seq(S)
         /\ DOMAIN RemoveAt(p, d) = 1..(Len(p) - 1) /\ Len(RemoveAt(p, d)) = Len(p) - 1
         /\ \A i \in 1..(Len(p) - 1) : RemoveAt(p, d)[i] = p[IF i < d THEN i ELSE i + 1]
<1> DEFINE a == SubSeq(p, 1, d - 1)
           b == SubSeq(p, d + 1, Len(p))
<1>1. Len(p) \in Nat /\ \A i \in 1..Len(p) : p[i] \in S OBVIOUS
<1>2. a \in Seq(S) /\ Len(a) = d - 1 /\ \A i \in 1..(d - 1) : a[i] = p[i]
  <2>1. \A i \in 1..(d - 1) : p[i] \in S BY <1>1
  <2>2. QED BY <1>1, <2>1, SubSeqProperties
<1>3. b \in Seq(S) /\ Len(b) = Len(p) - d /\ \A i \in 1..(Len(p) - d) : b[i] = p[d + i]
  <2>1. \A i \in (d + 1)..Len(p) : p[i] \in S BY <1>1
  <2>2. /\ b \in Seq(S) /\ Len(b) = IF d + 1 <= Len(p) THEN Len(p) - (d + 1) + 1 ELSE 0
        /\ \A i \in 1..(Len(p) - (d + 1) + 1) : b[i] = p[(d + 1) + i - 1]
    BY <1>1, <2>1, SubSeqProperties
  <2> HIDE DEF b
  <2>3. QED BY <1>1, <2>2
<1> HIDE DEF a, b
<1>4. /\ a \o b \in Seq(S) /\ Len(a \o b) = Len(a) + Len(b)
      /\ \A i \in 1..(Len(a) + Len(b)) :
           (a \o b)[i] = IF i <= Len(a) THEN a[i] ELSE b[i - Len(a)]
  BY <1>2, <1>3, ConcatProperties
<1>5. \A i \in 1..(Len(p) - 1) : (a \o b)[i] = p[IF i < d THEN i ELSE i + 1]
  BY <1>1, <1>2, <1>3, <1>4
<1>6. RemoveAt(p, d) = a \o b BY DEF RemoveAt, a, b
<1>7. Len(a \o b) = Len(p) - 1 /\ DOMAIN (a \o b) = 1..Len(a \o b) BY <1>1, <1>2, <1>3, <1>4
<1>8. QED BY <1>4, <1>5, <1>6, <1>7

\* t is p without a rule that is r, if there is one.
Lost(p, t, r) ==
  /\ t \in Seq(Rules)
  /\ \/ t = p /\ \A i \in DOMAIN p : p[i] # r
     \/ \E d \in DOMAIN p :
          /\ p[d] = r
          /\ Len(t) = Len(p) - 1
          /\ \A i \in DOMAIN t : t[i] = p[IF i < d THEN i ELSE i + 1]

LEMMA Loses ==
  ASSUME NEW k \in Chains, NEW r, chain \in [Chains -> Seq(Rules)], chain' = Without(k, r)
  PROVE  /\ Lost(chain[k], chain'[k], r)
         /\ \A j \in Chains : j # k => chain'[j] = chain[j]
         /\ chain' \in [Chains -> Seq(Rules)]
<1> DEFINE p == chain[k]
           I == {i \in 1..Len(p) : p[i] = r}
<1>1. p \in Seq(Rules) /\ Len(p) \in Nat /\ DOMAIN p = 1..Len(p) OBVIOUS
<1>2. CASE ~Contains(p, r)
  BY <1>1, <1>2 DEF Without, Lost, Contains
<1>3. CASE Contains(p, r)
  <2>1. I # {} BY <1>1, <1>3 DEF Contains
  <2>2. PICK d \in I : d = SelectInSeq(p, LAMBDA s : s = r)
    BY <1>1, <2>1, MinIs DEF SelectInSeq
  <2>3. d \in 1..Len(p) /\ p[d] = r OBVIOUS
  <2>4. chain'[k] = RemoveAt(p, d) /\ \A j \in Chains : j # k => chain'[j] = chain[j]
    BY <1>3, <2>2 DEF Without
  <2>5. Lost(p, RemoveAt(p, d), r)
    <3> HIDE DEF p
    <3>1. QED BY <1>1, <2>3, Removal DEF Lost
  <2>6. DOMAIN chain' = Chains BY DEF Without
  <2>7. chain' \in [Chains -> Seq(Rules)]
    BY <2>4, <2>5, <2>6 DEF Without, Lost
  <2>8. QED BY <2>4, <2>5, <2>7
<1>4. QED BY <1>2, <1>3

\* -I puts a rule before the others.
Headings(p, t, r) ==
  /\ t \in Seq(Rules) /\ Len(t) = Len(p) + 1
  /\ t[1] = r /\ \A i \in DOMAIN t : i # 1 => i - 1 \in DOMAIN p /\ t[i] = p[i - 1]

LEMMA Inserts ==
  ASSUME NEW k \in Chains, NEW r \in Rules, chain \in [Chains -> Seq(Rules)],
         chain' = Inserted(k, r)
  PROVE  /\ Headings(chain[k], chain'[k], r)
         /\ \A j \in Chains : j # k => chain'[j] = chain[j]
         /\ chain' \in [Chains -> Seq(Rules)]
<1>1. <<r>> \in Seq(Rules) /\ Len(<<r>>) = 1 /\ <<r>>[1] = r OBVIOUS
<1>2. chain[k] \in Seq(Rules) OBVIOUS
<1>3. /\ <<r>> \o chain[k] \in Seq(Rules) /\ Len(<<r>> \o chain[k]) = 1 + Len(chain[k])
      /\ \A i \in 1..(1 + Len(chain[k])) :
           (<<r>> \o chain[k])[i] = IF i <= 1 THEN <<r>>[i] ELSE chain[k][i - 1]
  BY <1>1, <1>2, ConcatProperties
<1>4. chain'[k] = <<r>> \o chain[k] /\ \A j \in Chains : j # k => chain'[j] = chain[j]
  BY DEF Inserted
<1>5. Headings(chain[k], <<r>> \o chain[k], r)
  BY <1>1, <1>2, <1>3 DEF Headings
<1>6. QED BY <1>3, <1>4, <1>5 DEF Inserted

-----------------------------------------------------------------------------
(* Types and addresses.                                                    *)

LEMMA MapsAre ==
  ASSUME NEW c \in Conts
  PROVE  /\ Maps[c] \in Seq(Mappings) /\ Len(Maps[c]) \in Nat \ {0}
         /\ DOMAIN Maps[c] = 1..Len(Maps[c])
BY PortsAssumption

LEMMA RulesAre ==
  ASSUME NEW s \in Slots, NEW a \in Addresses
  PROVE  /\ Rule(AnyHost, Maps[s[1]][s[2]], a) \in Rules
         /\ Rule(Maps[s[1]][s[2]].hostIp, Maps[s[1]][s[2]], a) \in Rules
<1> DEFINE m == Maps[s[1]][s[2]]
<1>1. s[1] \in Conts /\ s[2] \in DOMAIN Maps[s[1]] BY DEF Slots
<1>2. m.host \in HostPorts BY <1>1 DEF HostPorts
<1>3. m.cont \in ContPorts BY DEF ContPorts
<1>4. m.hostIp \in Destinations /\ AnyHost \in Destinations BY DEF Destinations
<1> HIDE DEF m
<1>5. \A dst \in Destinations : Rule(dst, m, a) \in Rules BY <1>2, <1>3 DEF Rule, Rules
<1>6. QED BY <1>4, <1>5 DEF m

\* The mapping at which a supervisor stands.
LEMMA Standing ==
  ASSUME PortsType, NEW c \in Conts
  PROVE  /\ <<c, at[c]>> \in Slots /\ Mapping(c) = Maps[c][at[c]] /\ ip[c] \in Addresses
         /\ Rule(AnyHost, Mapping(c), ip[c]) \in Rules
         /\ Rule(AnyHost, Mapping(c), ip[c]) = RuleOf(<<c, at[c]>>)
         /\ at[c] \in 1..Len(Maps[c]) /\ Len(Maps[c]) \in Nat \ {0}
         /\ at[c] < Len(Maps[c]) => at[c] + 1 \in DOMAIN Maps[c]
         /\ 1 \in DOMAIN Maps[c]
<1>1. <<c, at[c]>> \in Slots BY DEF PortsType, Slots
<1>2. ip[c] \in Addresses BY DEF PortsType
<1>3. DOMAIN Maps[c] = 1..Len(Maps[c]) /\ Len(Maps[c]) \in Nat \ {0} BY MapsAre
<1>4. at[c] \in DOMAIN Maps[c] /\ at[c] \in Nat BY DEF PortsType
<1>5. QED BY <1>1, <1>2, <1>3, <1>4, RulesAre DEF Mapping, RuleOf

\* What a container publishes has a slot.
LEMMA PublishedSlot ==
  ASSUME NEW c \in Conts, NEW h \in Published(c)
  PROVE  \E s \in Slots : s[1] = c /\ Maps[s[1]][s[2]].host = h
<1>1. PICK m \in DOMAIN Maps[c] : h = Maps[c][m].host BY DEF Published
<1>2. m \in Nat BY <1>1, MapsAre
<1>3. <<c, m>> \in Slots BY <1>1, <1>2 DEF Slots
<1>4. QED BY <1>1, <1>3

\* A new address is one that nobody has had.
LEMMA NewAddress ==
  ASSUME PortsType, Distinct, NEW c \in Conts, Addressed(c)
  PROVE  /\ ip'[c] \in Addresses /\ ip'[c][2] = nextIp' /\ nextIp' = nextIp + 1
         /\ nextIp' \in 1..MaxIp /\ ip'[c] # <<0, 0>>
         /\ \A d \in Conts : ip[d] # ip'[c]
         /\ \A d \in Conts : d # c => ip'[d] = ip[d]
         /\ ip' \in [Conts -> Addresses]
<1>1. nextIp \in 1..MaxIp /\ nextIp < MaxIp /\ nextIp + 1 \in 1..MaxIp /\ nextIp + 1 \in 0..MaxIp
      /\ nextIp + 1 # 0 /\ MaxIp \in Nat
  BY PortsAssumption DEF PortsType, Addressed
<1> DEFINE a == <<IF c \in Default THEN 42 ELSE 43, nextIp + 1>>
<1>2. ip' = [ip EXCEPT ![c] = a] /\ ip \in [Conts -> Addresses] /\ nextIp' = nextIp + 1
  BY DEF Addressed, PortsType
<1>3. a \in Addresses /\ a[2] = nextIp + 1 /\ a # <<0, 0>> BY <1>1 DEF Addresses
<1>4. ASSUME NEW d \in Conts PROVE ip[d] # a
  <2>1. CASE ip[d] = <<0, 0>> BY <1>3, <2>1
  <2>2. CASE ip[d] # <<0, 0>>
    <3>1. ip[d][2] <= nextIp BY <2>2 DEF Distinct
    <3>2. QED BY <1>1, <1>3, <3>1
  <2>3. QED BY <2>1, <2>2
<1> HIDE DEF a
<1>5. QED BY <1>1, <1>2, <1>3, <1>4

\* A supervisor goes on to its next mapping, or from the last one.
LEMMA Advance ==
  ASSUME PortsType, NEW c \in Conts, NEW x \in Labels, NEW y \in Labels,
         IF at[c] < Len(Maps[c]) THEN at' = [at EXCEPT ![c] = @ + 1] /\ Goto(c, x)
                                 ELSE UNCHANGED at /\ Goto(c, y)
  PROVE  /\ at' \in [Conts -> Nat] /\ \A d \in Conts : at'[d] \in DOMAIN Maps[d]
         /\ pc' \in [Conts -> Labels]
         /\ \A d \in Conts : d # c => at'[d] = at[d] /\ pc'[d] = pc[d]
         /\ \/ at'[c] = at[c] + 1 /\ pc'[c] = x
            \/ at'[c] = at[c] /\ at[c] = Len(Maps[c]) /\ pc'[c] = y
<1>1. /\ at \in [Conts -> Nat] /\ \A d \in Conts : at[d] \in DOMAIN Maps[d]
      /\ pc \in [Conts -> Labels]
  BY DEF PortsType
<1>2. at[c] \in Nat /\ at[c] <= Len(Maps[c]) /\ Len(Maps[c]) \in Nat
      /\ (at[c] < Len(Maps[c]) => at[c] + 1 \in DOMAIN Maps[c])
  BY <1>1, Standing
<1>3. CASE at[c] < Len(Maps[c])
  <2>1. at' = [at EXCEPT ![c] = at[c] + 1] /\ pc' = [pc EXCEPT ![c] = x]
    BY <1>3 DEF Goto
  <2>2. QED BY <1>1, <1>2, <1>3, <2>1
<1>4. CASE ~(at[c] < Len(Maps[c]))
  <2>1. at' = at /\ pc' = [pc EXCEPT ![c] = y] BY <1>4 DEF Goto
  <2>2. at[c] = Len(Maps[c]) BY <1>2, <1>4
  <2>3. QED BY <1>1, <2>1, <2>2
<1>5. QED BY <1>3, <1>4

LEMMA TypeStep ==
  ASSUME PortsType, Distinct, [Next]_vars
  PROVE  PortsType'
<1> USE DEF PortsType, Labels, tables, local, prune, ghost, Goto
<1>1. ASSUME NEW c \in Conts, Starts(c) \/ Restarts(c) PROVE PortsType'
  <2>1. Addressed(c) /\ UNCHANGED <<tables, prune, newest, stuck>>
    BY <1>1 DEF Starts, Restarts
  <2>2. nextIp' \in 1..MaxIp /\ ip' \in [Conts -> Addresses] BY <2>1, NewAddress
  <2>3. 1 \in DOMAIN Maps[c] BY Standing
  <2>4. QED BY <2>1, <2>2, <2>3 DEF Addressed
<1>2. ASSUME NEW c \in Conts, InsertsPre(c) PROVE PortsType'
  <2>1. chain' \in [Chains -> Seq(Rules)]
    BY <1>2, Standing, Inserts DEF InsertsPre, Chains
  <2>2. QED BY <1>2, <2>1 DEF InsertsPre
<1>3. ASSUME NEW c \in Conts, InsertsOut(c) PROVE PortsType'
  <2>1. chain' \in [Chains -> Seq(Rules)]
    BY <1>3, Standing, Inserts DEF InsertsOut, Chains
  <2>2. newest' \in [HostPorts -> Conts] /\ disturbed' \subseteq Conts BY <1>3 DEF InsertsOut
  <2>3. accepts' \subseteq Addresses BY <1>3 DEF InsertsOut
  <2>4. /\ at' \in [Conts -> Nat] /\ \A d \in Conts : at'[d] \in DOMAIN Maps[d]
        /\ pc' \in [Conts -> Labels]
    BY <1>3, Advance DEF InsertsOut
  <2>5. UNCHANGED <<nextIp, ip, flush, rule, stuck>> BY <1>3 DEF InsertsOut
  <2>6. QED BY <2>1, <2>2, <2>3, <2>4, <2>5
<1>4. ASSUME NEW c \in Conts, Ends(c) PROVE PortsType'
  BY <1>4, Standing DEF Ends
<1>5. ASSUME NEW c \in Conts, DeletesPre(c) PROVE PortsType'
  <2>1. chain' \in [Chains -> Seq(Rules)] BY <1>5, Loses DEF DeletesPre, Chains
  <2>2. QED BY <1>5, <2>1 DEF DeletesPre
<1>6. ASSUME NEW c \in Conts, DeletesOut(c) PROVE PortsType'
  <2>1. chain' \in [Chains -> Seq(Rules)] BY <1>6, Loses DEF DeletesOut, Chains
  <2>2. /\ at' \in [Conts -> Nat] /\ \A d \in Conts : at'[d] \in DOMAIN Maps[d]
        /\ pc' \in [Conts -> Labels]
    BY <1>6, Advance DEF DeletesOut
  <2>3. UNCHANGED <<accepts, nextIp, ip, prune, ghost>> BY <1>6 DEF DeletesOut
  <2>4. QED BY <2>1, <2>2, <2>3
<1>7. ASSUME NEW c \in Conts, Finishes(c) \/ Killed(c) PROVE PortsType'
  BY <1>7 DEF Finishes, Killed
<1>8. CASE FlushStarts BY <1>8 DEF FlushStarts, Chains
<1>9. CASE FlushReads
  <2>1. rule' # NoRule => rule' = <<rule'[1]>> /\ rule'[1] \in Rules
    <3> DEFINE p == chain[flush]
               i == SelectInSeq(p, IsDefault)
               I == {j \in 1..Len(p) : IsDefault(p[j])}
    <3>1. p \in Seq(Rules) /\ Len(p) \in Nat BY <1>9 DEF FlushReads
    <3>2. i # 0 => i \in 1..Len(p)
      <4>1. i = IF I # {} THEN Min(I) ELSE 0 BY DEF SelectInSeq
      <4>2. I # {} => Min(I) \in I BY <3>1, MinIs
      <4>3. QED BY <4>1, <4>2
    <3>3. rule' = rule \/ (i # 0 /\ rule' = <<p[i]>>) BY <1>9 DEF FlushReads
    <3> HIDE DEF i
    <3>4. i # 0 => p[i] \in Rules BY <3>1, <3>2
    <3>5. QED BY <3>3, <3>4
  <2>2. flush' \in Chains \cup {"idle"} BY <1>9 DEF FlushReads, Chains
  <2>3. QED BY <1>9, <2>1, <2>2 DEF FlushReads
<1>10. CASE FlushDeletes
  <2>1. chain' \in [Chains -> Seq(Rules)] BY <1>10, Loses DEF FlushDeletes
  <2>2. disturbed' \subseteq Conts BY <1>10 DEF FlushDeletes
  <2>3. QED BY <1>10, <2>1, <2>2 DEF FlushDeletes
<1>11. CASE UNCHANGED vars BY <1>11 DEF vars
<1>12. QED
  BY <1>1, <1>2, <1>3, <1>4, <1>5, <1>6, <1>7, <1>8, <1>9, <1>10, <1>11 DEF Next, Supervise

LEMMA DistinctStep ==
  ASSUME PortsType, Distinct, [Next]_vars
  PROVE  Distinct'
<1> USE DEF tables, local, prune, ghost, Goto, Distinct
<1>0. pc \in [Conts -> Labels] /\ nextIp \in Nat BY DEF PortsType
<1>1. ASSUME NEW c \in Conts, Starts(c) \/ Restarts(c) PROVE Distinct'
  <2>1. Addressed(c) BY <1>1 DEF Starts, Restarts
  <2>2. /\ ip'[c][2] = nextIp' /\ nextIp' = nextIp + 1 /\ ip'[c] # <<0, 0>>
        /\ \A d \in Conts : ip[d] # ip'[c]
        /\ \A d \in Conts : d # c => ip'[d] = ip[d]
    BY <2>1, NewAddress
  <2>3. \A d \in Conts : d # c => pc'[d] = pc[d] BY <1>0, <2>1 DEF Addressed
  <2>4. \A d \in Conts : ip[d] # <<0, 0>> => ip[d][2] <= nextIp' 
    <3>1. \A d \in Conts : ip[d][2] \in Nat BY DEF PortsType, Addresses
    <3>2. QED BY <1>0, <2>2, <3>1
  <2>5. QED BY <1>0, <2>2, <2>3, <2>4
<1>2. ASSUME NEW c \in Conts, InsertsPre(c) \/ InsertsOut(c) \/ Ends(c) PROVE Distinct'
  BY <1>0, <1>2 DEF InsertsPre, InsertsOut, Ends
<1>3. ASSUME NEW c \in Conts, DeletesPre(c) \/ DeletesOut(c) \/ Finishes(c) \/ Killed(c)
      PROVE Distinct'
  BY <1>0, <1>3 DEF DeletesPre, DeletesOut, Finishes, Killed
<1>4. CASE FlushStarts \/ FlushReads \/ FlushDeletes \/ UNCHANGED vars
  BY <1>4 DEF FlushStarts, FlushReads, FlushDeletes, vars
<1>5. QED BY <1>1, <1>2, <1>3, <1>4 DEF Next, Supervise

-----------------------------------------------------------------------------
(* What a deletion leaves.                                                 *)

LEMMA LostKeeps ==
  ASSUME NEW p \in Seq(Rules), NEW t, NEW r, Lost(p, t, r),
         NEW i \in DOMAIN p, p[i] # r
  PROVE  \E j \in DOMAIN t : t[j] = p[i]
<1>1. DOMAIN p = 1..Len(p) /\ Len(p) \in Nat OBVIOUS
<1>2. CASE t = p BY <1>2
<1>3. CASE \E d \in DOMAIN p :
             /\ p[d] = r /\ Len(t) = Len(p) - 1
             /\ \A k \in DOMAIN t : t[k] = p[IF k < d THEN k ELSE k + 1]
  <2>1. PICK d \in DOMAIN p :
             /\ p[d] = r /\ Len(t) = Len(p) - 1
             /\ \A k \in DOMAIN t : t[k] = p[IF k < d THEN k ELSE k + 1]
    BY <1>3
  <2>2. t \in Seq(Rules) /\ DOMAIN t = 1..Len(t) BY DEF Lost
  <2>3. CASE i < d
    <3>1. i \in DOMAIN t BY <1>1, <2>1, <2>2, <2>3
    <3>2. QED BY <2>1, <2>3, <3>1
  <2>4. CASE ~(i < d)
    <3>1. i - 1 \in DOMAIN t /\ ~(i - 1 < d) /\ (i - 1) + 1 = i BY <1>1, <2>1, <2>2, <2>4
    <3>2. QED BY <2>1, <3>1
  <2>5. QED BY <2>3, <2>4
<1>4. QED BY <1>2, <1>3 DEF Lost

LEMMA LostHeads ==
  ASSUME NEW p \in Seq(Rules), NEW t, NEW r, Lost(p, t, r),
         NEW h, NEW a, NEW i \in Nat, HeadedAt(p, h, a, i), r.to # a
  PROVE  \E j \in Nat : HeadedAt(t, h, a, j)
<1>1. DOMAIN p = 1..Len(p) /\ Len(p) \in Nat OBVIOUS
<1>2. CASE t = p BY <1>2
<1>3. CASE \E d \in DOMAIN p :
             /\ p[d] = r /\ Len(t) = Len(p) - 1
             /\ \A k \in DOMAIN t : t[k] = p[IF k < d THEN k ELSE k + 1]
  <2>1. PICK d \in DOMAIN p :
             /\ p[d] = r /\ Len(t) = Len(p) - 1
             /\ \A k \in DOMAIN t : t[k] = p[IF k < d THEN k ELSE k + 1]
    BY <1>3
  <2>2. t \in Seq(Rules) /\ DOMAIN t = 1..Len(t) BY DEF Lost
  <2>3. i \in DOMAIN p /\ p[i].port = h /\ p[i].to = a /\ \A k \in DOMAIN p : k < i => p[k].port # h
    BY DEF HeadedAt
  <2>4. i # d BY <2>1, <2>3
  <2>5. CASE i < d
    <3>1. i \in DOMAIN t /\ t[i] = p[i] BY <1>1, <2>1, <2>2, <2>3, <2>5
    <3>2. ASSUME NEW k \in DOMAIN t, k < i PROVE t[k].port # h
      BY <1>1, <2>1, <2>2, <2>3, <2>5, <3>2
    <3>3. QED BY <2>3, <3>1, <3>2 DEF HeadedAt
  <2>6. CASE d < i
    <3>1. i - 1 \in DOMAIN t /\ t[i - 1] = p[i] BY <1>1, <2>1, <2>2, <2>3, <2>6
    <3>2. ASSUME NEW k \in DOMAIN t, k < i - 1 PROVE t[k].port # h
      BY <1>1, <2>1, <2>2, <2>3, <2>6, <3>2
    <3>3. i - 1 \in Nat BY <1>1, <2>1, <2>6
    <3>4. QED BY <2>3, <3>1, <3>2, <3>3 DEF HeadedAt
  <2>7. QED BY <1>1, <2>1, <2>3, <2>4, <2>5, <2>6
<1>4. QED BY <1>2, <1>3 DEF Lost

\* Whatever has been deleted, the slots of the others are theirs.
LEMMA OwnsLess ==
  ASSUME NEW p \in Seq(Rules), NEW t, NEW r, Lost(p, t, r), NEW f, Owns(f, p)
  PROVE  \E g : Owns(g, t)
<1>1. DOMAIN p = 1..Len(p) /\ Len(p) \in Nat OBVIOUS
<1>2. CASE t = p BY <1>2
<1>3. ASSUME NEW d \in DOMAIN p, p[d] = r, Len(t) = Len(p) - 1,
             \A k \in DOMAIN t : t[k] = p[IF k < d THEN k ELSE k + 1]
      PROVE  \E g : Owns(g, t)
  <2> DEFINE sh(k) == IF k < d THEN k ELSE k + 1
             g == [k \in DOMAIN t |-> f[sh(k)]]
  <2>1. DOMAIN t = 1..Len(t) BY DEF Lost
  <2>2. \A k \in DOMAIN t : sh(k) \in DOMAIN p BY <1>1, <1>3, <2>1
  <2>3. \A k, l \in DOMAIN t : sh(k) = sh(l) => k = l BY <1>1, <1>3, <2>1
  <2>4. \A k \in DOMAIN t : t[k] = p[sh(k)] BY <1>3
  <2>5. \A k \in DOMAIN t : g[k] = f[sh(k)] OBVIOUS
  <2>6. DOMAIN g = DOMAIN t OBVIOUS
  <2> HIDE DEF sh
  <2>7. g \in [DOMAIN t -> Slots] BY <2>2 DEF Owns
  <2> HIDE DEF g
  <2>8. QED BY <2>2, <2>3, <2>4, <2>5, <2>6, <2>7 DEF Owns
<1>4. QED BY <1>2, <1>3 DEF Lost

\* And when it was the rule of a slot, that one has none any more: if the first that was
\* the same was another's, they change places.
LEMMA OwnsWithout ==
  ASSUME NEW p \in Seq(Rules), NEW t, NEW s \in Slots, Lost(p, t, RuleOf(s)),
         NEW f, Owns(f, p)
  PROVE  \E g : Owns(g, t) /\ \A i \in DOMAIN t : g[i] # s
<1>1. DOMAIN p = 1..Len(p) /\ Len(p) \in Nat OBVIOUS
<1>2. CASE t = p /\ \A i \in DOMAIN p : p[i] # RuleOf(s) BY <1>2 DEF Owns
<1>3. ASSUME NEW d \in DOMAIN p, p[d] = RuleOf(s), Len(t) = Len(p) - 1,
             \A k \in DOMAIN t : t[k] = p[IF k < d THEN k ELSE k + 1]
      PROVE  \E g : Owns(g, t) /\ \A i \in DOMAIN t : g[i] # s
  <2> DEFINE sh(k) == IF k < d THEN k ELSE k + 1
             g == [k \in DOMAIN t |-> IF f[sh(k)] = s THEN f[d] ELSE f[sh(k)]]
  <2>1. DOMAIN t = 1..Len(t) BY DEF Lost
  <2>2. \A k \in DOMAIN t : sh(k) \in DOMAIN p /\ sh(k) # d BY <1>1, <1>3, <2>1
  <2>3. \A k, l \in DOMAIN t : sh(k) = sh(l) => k = l BY <1>1, <1>3, <2>1
  <2>4. \A k \in DOMAIN t : t[k] = p[sh(k)] BY <1>3
  <2>5. \A k \in DOMAIN t : g[k] = IF f[sh(k)] = s THEN f[d] ELSE f[sh(k)] OBVIOUS
  <2>6. DOMAIN g = DOMAIN t OBVIOUS
  <2> HIDE DEF sh
  <2>7. g \in [DOMAIN t -> Slots] BY <2>2 DEF Owns
  <2> HIDE DEF g
  <2>8. ASSUME NEW k \in DOMAIN t PROVE InPre(g[k]) /\ t[k] = RuleOf(g[k]) /\ g[k] # s
    <3>1. InPre(f[d]) /\ p[d] = RuleOf(f[d]) /\ InPre(f[sh(k)]) /\ p[sh(k)] = RuleOf(f[sh(k)])
      BY <2>2 DEF Owns
    <3>2. f[sh(k)] = s => f[d] # s BY <2>2 DEF Owns
    <3>3. QED BY <1>3, <2>4, <2>5, <3>1, <3>2
  <2>9. ASSUME NEW k \in DOMAIN t, NEW l \in DOMAIN t, g[k] = g[l] PROVE k = l
    <3>1. sh(k) \in DOMAIN p /\ sh(l) \in DOMAIN p /\ sh(k) # d /\ sh(l) # d BY <2>2
    <3>2. f[sh(k)] # f[d] /\ f[sh(l)] # f[d] BY <3>1 DEF Owns
    <3>3. f[sh(k)] = f[sh(l)] BY <2>5, <2>9, <3>2
    <3>4. sh(k) = sh(l) BY <3>1, <3>3 DEF Owns
    <3>5. QED BY <2>3, <3>4
  <2>10. QED BY <2>6, <2>7, <2>8, <2>9 DEF Owns
<1>4. QED BY <1>2, <1>3 DEF Lost

-----------------------------------------------------------------------------
(* PREROUTING.                                                             *)

\* A slot whose rule may be there keeps it, until the supervisor takes it away.
LEMMA InPreStep ==
  ASSUME PortsType, NEW c \in Conts, Supervise(c), ~stuck', NEW s \in Slots, InPre(s),
         DeletesPre(c) => s # <<c, at[c]>>
  PROVE  InPre(s)' /\ ip'[s[1]] = ip[s[1]]
<1>1. s[1] \in Conts /\ s[2] \in 1..Len(Maps[s[1]]) /\ Len(Maps[s[1]]) \in Nat /\ s = <<s[1], s[2]>>
  BY MapsAre DEF Slots
<1>2. pc \in [Conts -> Labels] /\ at \in [Conts -> Nat] /\ ip \in [Conts -> Addresses]
  BY DEF PortsType
<1>3. CASE s[1] # c
  <2>1. pc'[s[1]] = pc[s[1]] /\ at'[s[1]] = at[s[1]] /\ ip'[s[1]] = ip[s[1]]
    BY <1>1, <1>2, <1>3
    DEF Supervise, Starts, Restarts, Addressed, InsertsPre, InsertsOut, Ends, DeletesPre,
        DeletesOut, Finishes, Killed, Goto
  <2>2. QED BY <2>1 DEF InPre
<1>4. CASE s[1] = c
  <2>1. CASE Starts(c) \/ Restarts(c) \/ Finishes(c) \/ Killed(c)
    BY <1>4, <2>1 DEF Starts, Restarts, Finishes, Killed, InPre
  <2>2. CASE InsertsPre(c)
    BY <1>1, <1>2, <1>4, <2>2 DEF InsertsPre, Goto, InPre
  <2>3. CASE InsertsOut(c)
    <3>1. pc[c] = "out" /\ ip' = ip BY <2>3 DEF InsertsOut
    <3>2. s[2] <= at[c] BY <1>4, <3>1 DEF InPre
    <3>3. \/ at'[c] = at[c] + 1 /\ pc'[c] = "pre"
          \/ pc'[c] = "up"
      BY <2>3, Advance DEF InsertsOut, Labels
    <3>4. QED BY <1>1, <1>2, <1>4, <3>1, <3>2, <3>3 DEF InPre
  <2>4. CASE Ends(c)
    BY <1>1, <1>2, <1>4, <2>4 DEF Ends, Goto, InPre
  <2>5. CASE DeletesPre(c)
    BY <1>1, <1>2, <1>4, <2>5 DEF DeletesPre, Goto, InPre
  <2>6. CASE DeletesOut(c)
    <3>1. pc[c] = "unout" /\ ip' = ip BY <2>6 DEF DeletesOut
    <3>2. s[2] > at[c] BY <1>4, <3>1 DEF InPre
    <3>3. \/ at'[c] = at[c] + 1 /\ pc'[c] = "unpre"
          \/ at[c] = Len(Maps[c])
      BY <2>6, Advance DEF DeletesOut, Labels
    <3>4. QED BY <1>1, <1>2, <1>4, <3>1, <3>2, <3>3 DEF InPre
  <2>7. QED BY <2>1, <2>2, <2>3, <2>4, <2>5, <2>6 DEF Supervise
<1>5. QED BY <1>3, <1>4

LEMMA OwnedBy ==
  ASSUME NEW g, DOMAIN chain'["PREROUTING"] = DOMAIN g,
         \A i \in DOMAIN g :
           /\ g[i] \in Slots /\ InPre(g[i])'
           /\ chain'["PREROUTING"][i] = Rule(AnyHost, Maps[g[i][1]][g[i][2]], ip'[g[i][1]]),
         \A i, j \in DOMAIN g : g[i] = g[j] => i = j,
         g = [i \in DOMAIN g |-> g[i]]
  PROVE  Owned'
<1>1. g \in [DOMAIN chain'["PREROUTING"] -> Slots] OBVIOUS
<1>2. Owns(g, chain["PREROUTING"])' BY <1>1 DEF Owns, RuleOf
<1>3. QED BY <1>2 DEF Owned

\* It is enough that the slots which have a rule keep it.
LEMMA OwnedKept ==
  ASSUME NEW g, Owns(g, chain'["PREROUTING"]),
         \A i \in DOMAIN chain'["PREROUTING"] : InPre(g[i])' /\ ip'[g[i][1]] = ip[g[i][1]]
  PROVE  Owned'
<1>1. DOMAIN g = DOMAIN chain'["PREROUTING"] /\ g = [i \in DOMAIN g |-> g[i]]
      /\ \A i \in DOMAIN g : g[i] \in Slots
  BY DEF Owns
<1>2. \A i \in DOMAIN g :
        chain'["PREROUTING"][i] = Rule(AnyHost, Maps[g[i][1]][g[i][2]], ip'[g[i][1]])
  BY <1>1 DEF Owns, RuleOf
<1>3. QED BY <1>1, <1>2, OwnedBy DEF Owns

LEMMA OwnedStep ==
  ASSUME PortsType, Owned, [Next]_vars
  PROVE  Owned'
<1> SUFFICES ASSUME ~stuck' PROVE Owned' BY DEF Owned
<1>1. ~stuck
  BY DEF PortsType, Next, Supervise, Starts, Restarts, InsertsPre, InsertsOut, Ends, DeletesPre,
         DeletesOut, Finishes, Killed, FlushStarts, FlushReads, FlushDeletes, vars, ghost
<1> DEFINE p == chain["PREROUTING"]
           t == chain'["PREROUTING"]
<1>2. PICK f : Owns(f, p) BY <1>1 DEF Owned
<1>3. p \in Seq(Rules) /\ DOMAIN p = 1..Len(p) /\ Len(p) \in Nat BY DEF PortsType, Chains
<1>4. ASSUME NEW c \in Conts, InsertsPre(c) PROVE Owned'
  <2>0. PICK s : s = <<c, at[c]>> OBVIOUS
  <2>1. Headings(p, t, RuleOf(s)) /\ s \in Slots
    <3>1. RuleOf(s) \in Rules /\ chain' = Inserted("PREROUTING", RuleOf(s)) /\ s \in Slots
      BY <1>4, <2>0, Standing DEF InsertsPre
    <3>2. QED BY <3>1, Inserts DEF PortsType, Chains
  <2> PICK g : g = [i \in DOMAIN t |-> IF i = 1 THEN s ELSE f[i - 1]] OBVIOUS
  <2>2. DOMAIN t = 1..Len(t) /\ Len(t) = Len(p) + 1 /\ t[1] = RuleOf(s)
        /\ \A i \in DOMAIN t : i # 1 => i - 1 \in DOMAIN p /\ t[i] = p[i - 1]
    BY <2>1 DEF Headings
  <2>3. \A i \in DOMAIN p : f[i] \in Slots /\ InPre(f[i]) /\ p[i] = RuleOf(f[i]) /\ f[i] # s
    <3>1. ~InPre(s) BY <1>4, <2>0 DEF InsertsPre, InPre, PortsType
    <3>2. QED BY <1>2, <3>1 DEF Owns
  <2>4. pc'[c] = "out" /\ at' = at /\ ip' = ip
    BY <1>4 DEF InsertsPre, Goto, PortsType
  <2>5. ASSUME NEW i \in DOMAIN t
        PROVE  g[i] \in Slots /\ InPre(g[i])' /\ t[i] = Rule(AnyHost, Maps[g[i][1]][g[i][2]], ip'[g[i][1]])
    <3>1. CASE i = 1
      <4>1. g[i] = s BY <3>1
      <4>2. InPre(s)' BY <2>0, <2>4 DEF InPre, PortsType
      <4>3. QED BY <2>1, <2>2, <2>4, <3>1, <4>1, <4>2 DEF RuleOf
    <3>2. CASE i # 1
      <4>1. g[i] = f[i - 1] /\ i - 1 \in DOMAIN p /\ t[i] = p[i - 1] BY <2>2, <3>2
      <4>2. g[i] \in Slots /\ InPre(g[i]) /\ t[i] = RuleOf(g[i]) BY <2>3, <4>1
      <4>3. ~DeletesPre(c) BY <1>4 DEF InsertsPre, DeletesPre
      <4>4. InPre(g[i])' BY <1>4, <4>2, <4>3, InPreStep DEF Supervise
      <4>5. QED BY <2>4, <4>2, <4>4 DEF RuleOf
    <3>3. QED BY <3>1, <3>2
  <2>6. ASSUME NEW i \in DOMAIN t, NEW j \in DOMAIN t, g[i] = g[j] PROVE i = j
    <3>1. \A k \in DOMAIN t : k # 1 => k - 1 \in DOMAIN p /\ f[k - 1] # s BY <2>2, <2>3
    <3>2. i = 1 <=> j = 1 BY <2>6, <3>1
    <3>3. CASE i # 1
      <4>1. f[i - 1] = f[j - 1] BY <2>6, <3>2, <3>3
      <4>2. i - 1 = j - 1 BY <1>2, <2>2, <3>2, <3>3, <4>1 DEF Owns
      <4>3. QED BY <2>2, <4>2
    <3>4. QED BY <3>2, <3>3
  <2>7. DOMAIN g = DOMAIN t /\ g = [i \in DOMAIN g |-> g[i]] OBVIOUS
  <2>8. QED BY <2>5, <2>6, <2>7, OwnedBy
<1>5. ASSUME NEW c \in Conts, DeletesPre(c) PROVE Owned'
  <2> DEFINE s == <<c, at[c]>>
  <2>1. Lost(p, t, RuleOf(s)) /\ s \in Slots
    <3>1. chain' = Without("PREROUTING", RuleOf(s)) /\ s \in Slots
      BY <1>5, Standing DEF DeletesPre
    <3>2. QED BY <3>1, Loses DEF PortsType, Chains
  <2> HIDE DEF s, p, t
  <2>2. PICK g : Owns(g, t) /\ \A i \in DOMAIN t : g[i] # s
    BY <1>2, <1>3, <2>1, OwnsWithout
  <2>3. \A i \in DOMAIN t : g[i] \in Slots /\ InPre(g[i]) /\ g[i] # s BY <2>2 DEF Owns
  <2>4. \A i \in DOMAIN t : InPre(g[i])' /\ ip'[g[i][1]] = ip[g[i][1]]
    BY <1>5, <2>3, InPreStep DEF Supervise, s
  <2>5. QED BY <2>2, <2>4, OwnedKept DEF t
<1>6. ASSUME NEW c \in Conts, Supervise(c), ~InsertsPre(c), ~DeletesPre(c) PROVE Owned'
  <2>1. t = p
    <3>1. CASE InsertsOut(c) \/ DeletesOut(c)
      BY <3>1 DEF InsertsOut, DeletesOut, Inserted, Without, Chains, PortsType
    <3>2. CASE ~(InsertsOut(c) \/ DeletesOut(c))
      BY <1>6, <3>2 DEF Supervise, Starts, Restarts, Ends, Finishes, Killed, tables
    <3>3. QED BY <3>1, <3>2
  <2>2. \A i \in DOMAIN t : f[i] \in Slots /\ InPre(f[i]) BY <1>2, <2>1 DEF Owns
  <2>3. \A i \in DOMAIN t : InPre(f[i])' /\ ip'[f[i][1]] = ip[f[i][1]]
    BY <1>6, <2>2, InPreStep
  <2>4. QED BY <1>2, <2>1, <2>3, OwnedKept
<1>7. CASE FlushStarts \/ FlushReads \/ FlushDeletes \/ UNCHANGED vars
  <2>1. UNCHANGED <<pc, ip, at>>
    BY <1>7 DEF FlushStarts, FlushReads, FlushDeletes, vars, local
  <2>2. \E g : Owns(g, t)
    <3>1. CASE FlushDeletes /\ chain' = Without(flush, rule[1])
      <4>1. flush \in Chains BY <3>1 DEF FlushDeletes
      <4>2. t = p \/ Lost(p, t, rule[1])
        BY <3>1, <4>1, Loses DEF PortsType, Chains
      <4> HIDE DEF p, t
      <4>3. QED BY <1>2, <1>3, <4>2, OwnsLess
    <3>2. CASE ~(FlushDeletes /\ chain' = Without(flush, rule[1]))
      <4>1. chain' = chain BY <1>7, <3>2 DEF FlushStarts, FlushReads, FlushDeletes, vars, tables
      <4>2. QED BY <1>2, <4>1
    <3>3. QED BY <3>1, <3>2
  <2>3. PICK g : Owns(g, t) BY <2>2
  <2>4. \A i \in DOMAIN t : InPre(g[i])' /\ ip'[g[i][1]] = ip[g[i][1]]
    BY <2>1, <2>3 DEF Owns, InPre
  <2>5. QED BY <2>3, <2>4, OwnedKept
<1>8. QED BY <1>4, <1>5, <1>6, <1>7 DEF Next

\* The rule of another slot stays where it is.
LEMMA Stays ==
  ASSUME PortsType, [Next]_vars, NEW s \in Slots,
         NEW i \in DOMAIN chain["PREROUTING"], chain["PREROUTING"][i] = RuleOf(s),
         \A c \in Conts : DeletesPre(c) => ip[c] # ip[s[1]],
         FlushDeletes /\ chain' # chain => rule[1].to # ip[s[1]]
  PROVE  \E j \in DOMAIN chain'["PREROUTING"] : chain'["PREROUTING"][j] = RuleOf(s)
<1> DEFINE p == chain["PREROUTING"]
           t == chain'["PREROUTING"]
           r == RuleOf(s)
<1>1. /\ p \in Seq(Rules) /\ DOMAIN p = 1..Len(p) /\ Len(p) \in Nat /\ r.to = ip[s[1]]
      /\ i \in 1..Len(p)
  BY DEF PortsType, Chains, RuleOf, Rule
<1>2. CASE t = p BY <1>2
<1>3. ASSUME NEW c \in Conts, InsertsPre(c) PROVE \E j \in DOMAIN t : t[j] = r
  <2>1. Headings(p, t, RuleOf(<<c, at[c]>>))
    <3>1. RuleOf(<<c, at[c]>>) \in Rules /\ chain' = Inserted("PREROUTING", RuleOf(<<c, at[c]>>))
      BY <1>3, Standing DEF InsertsPre
    <3>2. QED BY <3>1, Inserts DEF PortsType, Chains
  <2> HIDE DEF p, t, r
  <2>2. DOMAIN t = 1..Len(t) /\ Len(t) = Len(p) + 1 BY <2>1 DEF Headings
  <2>3. i + 1 \in DOMAIN t /\ i + 1 # 1 /\ (i + 1) - 1 = i BY <1>1, <2>2
  <2>4. t[i + 1] = p[i] BY <2>1, <2>3 DEF Headings
  <2>5. QED BY <2>3, <2>4 DEF p, r
<1>4. ASSUME NEW q, q.to # ip[s[1]], Lost(p, t, q) PROVE \E j \in DOMAIN t : t[j] = r
  <2>1. p[i] # q /\ p[i] = r /\ i \in DOMAIN p BY <1>1, <1>4
  <2> HIDE DEF p, t, r
  <2>2. QED BY <1>1, <1>4, <2>1, LostKeeps
<1>5. ASSUME NEW c \in Conts, DeletesPre(c), t # p PROVE \E j \in DOMAIN t : t[j] = r
  <2>1. PICK q : q = Rule(AnyHost, Mapping(c), ip[c]) OBVIOUS
  <2>2. q.to # ip[s[1]] BY <1>5, <2>1 DEF Rule
  <2>3. chain' = Without("PREROUTING", q) BY <1>5, <2>1 DEF DeletesPre
  <2>4. Lost(p, t, q) BY <2>3, Loses DEF PortsType, Chains
  <2>5. QED BY <1>4, <2>2, <2>4
<1>6. CASE FlushDeletes /\ t # p
  <2>1. chain' = Without(flush, rule[1]) /\ rule[1].to # ip[s[1]] /\ flush \in Chains
    BY <1>6 DEF FlushDeletes
  <2>2. Lost(p, t, rule[1]) BY <1>6, <2>1, Loses DEF PortsType, Chains
  <2>3. QED BY <1>4, <2>1, <2>2
<1>7. ASSUME NEW c \in Conts, Supervise(c), ~InsertsPre(c), ~DeletesPre(c) PROVE t = p
  <2>1. CASE InsertsOut(c) \/ DeletesOut(c)
    BY <2>1 DEF InsertsOut, DeletesOut, Inserted, Without, Chains, PortsType
  <2>2. CASE ~(InsertsOut(c) \/ DeletesOut(c))
    BY <1>7, <2>2 DEF Supervise, Starts, Restarts, Ends, Finishes, Killed, tables
  <2>3. QED BY <2>1, <2>2
<1>8. FlushStarts \/ FlushReads \/ UNCHANGED vars => t = p
  BY DEF FlushStarts, FlushReads, vars, tables
<1>9. QED BY <1>2, <1>3, <1>5, <1>6, <1>7, <1>8 DEF Next

\* A container that is set up loses rules only to a flush which says so.
LEMMA FlushSays ==
  ASSUME PortsType, FlushDeletes, chain' # chain, NEW c \in Conts, c \notin disturbed'
  PROVE  rule[1].to # ip[c]
BY DEF FlushDeletes

\* What a step of one supervisor leaves of another.
LEMMA Others ==
  ASSUME PortsType, NEW c \in Conts, Supervise(c), NEW d \in Conts, d # c
  PROVE  /\ pc'[d] = pc[d] /\ at'[d] = at[d] /\ ip'[d] = ip[d]
         /\ d \in disturbed' <=> d \in disturbed
BY DEF PortsType, Supervise, Starts, Restarts, Addressed, InsertsPre, InsertsOut, Ends, DeletesPre,
       DeletesOut, Finishes, Killed, Goto, ghost

LEMMA PresentStep ==
  ASSUME PortsType, Distinct, Present, [Next]_vars
  PROVE  Present'
<1> SUFFICES ASSUME NEW s \in Slots, Setting(s[1])', InPre(s)'
             PROVE  \E i \in DOMAIN chain'["PREROUTING"] : chain'["PREROUTING"][i] = RuleOf(s)'
  BY DEF Present
<1>1. s[1] \in Conts /\ s[2] \in 1..Len(Maps[s[1]]) /\ Len(Maps[s[1]]) \in Nat /\ s = <<s[1], s[2]>>
  BY MapsAre DEF Slots
<1>2. pc \in [Conts -> Labels] /\ at \in [Conts -> Nat] /\ ip \in [Conts -> Addresses]
  BY DEF PortsType
<1>3. ASSUME Setting(s[1]), InPre(s), ip'[s[1]] = ip[s[1]]
      PROVE  \E i \in DOMAIN chain'["PREROUTING"] : chain'["PREROUTING"][i] = RuleOf(s)'
  <2>1. PICK i \in DOMAIN chain["PREROUTING"] : chain["PREROUTING"][i] = RuleOf(s)
    BY <1>3 DEF Present
  <2>2. ASSUME NEW c \in Conts, DeletesPre(c) PROVE ip[c] # ip[s[1]]
    <3>1. pc[c] = "unpre" /\ pc[s[1]] # "unpre" BY <1>3, <2>2 DEF DeletesPre, Setting
    <3>2. QED BY <1>1, <3>1 DEF Distinct
  <2>3. FlushDeletes /\ chain' # chain => rule[1].to # ip[s[1]]
    BY <1>1, FlushSays DEF Setting
  <2>4. \E j \in DOMAIN chain'["PREROUTING"] : chain'["PREROUTING"][j] = RuleOf(s)
    BY <2>1, <2>2, <2>3, Stays
  <2>5. RuleOf(s)' = RuleOf(s) BY <1>3 DEF RuleOf
  <2>6. QED BY <2>4, <2>5
<1>4. ASSUME NEW c \in Conts, Supervise(c), s[1] # c
      PROVE  Setting(s[1]) /\ InPre(s) /\ ip'[s[1]] = ip[s[1]]
  <2>1. /\ pc'[s[1]] = pc[s[1]] /\ at'[s[1]] = at[s[1]] /\ ip'[s[1]] = ip[s[1]]
        /\ s[1] \in disturbed' <=> s[1] \in disturbed
    BY <1>1, <1>4, Others
  <2>2. QED BY <2>1 DEF Setting, InPre
<1>5. ASSUME NEW c \in Conts, InsertsPre(c), s = <<c, at[c]>>
      PROVE  \E i \in DOMAIN chain'["PREROUTING"] : chain'["PREROUTING"][i] = RuleOf(s)'
  <2>1. RuleOf(s) \in Rules /\ chain' = Inserted("PREROUTING", RuleOf(s)) /\ ip' = ip
    BY <1>5, Standing DEF InsertsPre
  <2>2. Headings(chain["PREROUTING"], chain'["PREROUTING"], RuleOf(s))
    BY <2>1, Inserts DEF PortsType, Chains
  <2>3. chain["PREROUTING"] \in Seq(Rules) BY DEF PortsType, Chains
  <2>4. 1 \in DOMAIN chain'["PREROUTING"] BY <2>2, <2>3 DEF Headings
  <2>5. QED BY <2>1, <2>2, <2>4 DEF Headings, RuleOf
<1>6. ASSUME NEW c \in Conts, Supervise(c), s[1] = c, ~(InsertsPre(c) /\ s = <<c, at[c]>>)
      PROVE  Setting(s[1]) /\ InPre(s) /\ ip'[s[1]] = ip[s[1]]
  <2>1. CASE InsertsPre(c)
    <3>1. s[2] # at[c] BY <1>1, <1>6, <2>1
    <3>2. pc[c] = "pre" /\ pc'[c] = "out" /\ at' = at /\ ip' = ip /\ disturbed' = disturbed
      BY <1>2, <2>1 DEF InsertsPre, Goto, ghost
    <3>3. QED BY <1>1, <1>2, <1>6, <3>1, <3>2 DEF Setting, InPre
  <2>2. CASE InsertsOut(c)
    <3>1. pc[c] = "out" /\ ip' = ip /\ disturbed \subseteq disturbed' BY <2>2 DEF InsertsOut
    <3>2. \/ at'[c] = at[c] + 1 /\ pc'[c] = "pre"
          \/ at'[c] = at[c] /\ at[c] = Len(Maps[c]) /\ pc'[c] = "up"
      BY <2>2, Advance DEF InsertsOut, Labels
    <3>3. s[2] <= at[c] BY <1>1, <1>2, <1>6, <3>2 DEF InPre
    <3>4. QED BY <1>6, <3>1, <3>3 DEF Setting, InPre
  <2>3. CASE Starts(c) \/ Restarts(c)
    <3>1. pc'[c] = "pre" /\ at'[c] = 1
      BY <1>2, <2>3 DEF Starts, Restarts, Addressed, Goto
    <3>2. QED BY <1>1, <1>6, <3>1 DEF InPre
  <2>4. CASE Ends(c) \/ DeletesPre(c) \/ DeletesOut(c) \/ Finishes(c) \/ Killed(c)
    <3>1. pc'[c] \notin {"pre", "out", "up"}
      BY <1>2, <2>4 DEF Ends, DeletesPre, DeletesOut, Finishes, Killed, Goto
    <3>2. QED BY <1>6, <3>1 DEF Setting
  <2>5. QED BY <1>6, <2>1, <2>2, <2>3, <2>4 DEF Supervise
<1>7. CASE FlushStarts \/ FlushReads \/ FlushDeletes \/ UNCHANGED vars
  <2>1. UNCHANGED <<pc, ip, at>> /\ disturbed \subseteq disturbed'
    BY <1>7 DEF FlushStarts, FlushReads, FlushDeletes, vars, local, ghost
  <2>2. Setting(s[1]) /\ InPre(s) BY <2>1 DEF Setting, InPre
  <2>3. QED BY <1>3, <2>1, <2>2
<1>8. QED BY <1>3, <1>4, <1>5, <1>6, <1>7 DEF Next

-----------------------------------------------------------------------------
(* OUTPUT.                                                                 *)

\* The first rule for a port stays the first, unless one for that port is inserted.
LEMMA StaysFirst ==
  ASSUME PortsType, [Next]_vars, NEW h, NEW a, NEW i \in Nat,
         HeadedAt(chain["OUTPUT"], h, a, i),
         \A c \in Conts : InsertsOut(c) /\ chain' # chain => Mapping(c).host # h,
         \A c \in Conts : DeletesOut(c) => ip[c] # a,
         FlushDeletes /\ chain' # chain => rule[1].to # a
  PROVE  \E j \in Nat : HeadedAt(chain'["OUTPUT"], h, a, j)
<1> DEFINE p == chain["OUTPUT"]
           t == chain'["OUTPUT"]
<1>1. p \in Seq(Rules) /\ DOMAIN p = 1..Len(p) /\ Len(p) \in Nat BY DEF PortsType, Chains
<1>2. CASE t = p BY <1>2
<1>3. ASSUME NEW c \in Conts, InsertsOut(c), t # p PROVE \E j \in Nat : HeadedAt(t, h, a, j)
  <2>1. PICK q : q = RuleOf(<<c, at[c]>>) OBVIOUS
  <2>2. Headings(p, t, q) /\ q.port # h
    <3>1. q \in Rules /\ chain' = Inserted("OUTPUT", q) /\ q.port = Mapping(c).host
      BY <1>3, <2>1, Standing DEF InsertsOut, Rule
    <3>2. Headings(p, t, q) BY <3>1, Inserts DEF PortsType, Chains
    <3>3. QED BY <1>3, <3>1, <3>2
  <2> HIDE DEF p, t
  <2>3. i \in 1..Len(p) /\ p[i].port = h /\ p[i].to = a
        /\ \A j \in 1..Len(p) : j < i => p[j].port # h
    BY <1>1 DEF HeadedAt, p
  <2>4. /\ DOMAIN t = 1..Len(t) /\ Len(t) = Len(p) + 1 /\ t[1] = q
        /\ \A j \in 1..Len(t) : j # 1 => j - 1 \in DOMAIN p /\ t[j] = p[j - 1]
    BY <2>2 DEF Headings
  <2>5. i + 1 \in 1..Len(t) /\ i + 1 # 1 /\ (i + 1) - 1 = i BY <1>1, <2>3, <2>4
  <2>6. t[i + 1] = p[i] BY <2>4, <2>5
  <2>7. ASSUME NEW j \in 1..Len(t), j < i + 1 PROVE t[j].port # h
    <3>1. CASE j = 1 BY <2>2, <2>4, <3>1
    <3>2. CASE j # 1
      <4>1. j - 1 \in 1..Len(p) /\ t[j] = p[j - 1] /\ j - 1 < i BY <1>1, <2>3, <2>4, <2>7, <3>2
      <4>2. QED BY <2>3, <4>1
    <3>3. QED BY <3>1, <3>2
  <2>8. HeadedAt(t, h, a, i + 1) BY <2>3, <2>4, <2>5, <2>6, <2>7 DEF HeadedAt
  <2>9. QED BY <2>5, <2>8
<1>4. ASSUME NEW q, q.to # a, Lost(p, t, q) PROVE \E j \in Nat : HeadedAt(t, h, a, j)
  <2> HIDE DEF p, t
  <2>1. HeadedAt(p, h, a, i) BY DEF p
  <2>2. QED BY <1>1, <1>4, <2>1, LostHeads
<1>5. ASSUME NEW c \in Conts, DeletesOut(c) PROVE \E j \in Nat : HeadedAt(t, h, a, j)
  <2>1. PICK q : q = Rule(Mapping(c).hostIp, Mapping(c), ip[c]) OBVIOUS
  <2>2. q.to # a BY <1>5, <2>1 DEF Rule
  <2>3. chain' = Without("OUTPUT", q) BY <1>5, <2>1 DEF DeletesOut
  <2>4. Lost(p, t, q) BY <2>3, Loses DEF PortsType, Chains
  <2>5. QED BY <1>4, <2>2, <2>4
<1>6. CASE FlushDeletes /\ t # p
  <2>1. chain' = Without(flush, rule[1]) /\ rule[1].to # a /\ flush \in Chains
    BY <1>6 DEF FlushDeletes
  <2>2. Lost(p, t, rule[1]) BY <1>6, <2>1, Loses DEF PortsType, Chains
  <2>3. QED BY <1>4, <2>1, <2>2
<1>7. ASSUME NEW c \in Conts, Supervise(c), ~InsertsOut(c), ~DeletesOut(c) PROVE t = p
  <2>1. CASE InsertsPre(c) \/ DeletesPre(c)
    BY <2>1 DEF InsertsPre, DeletesPre, Inserted, Without, Chains, PortsType
  <2>2. CASE ~(InsertsPre(c) \/ DeletesPre(c))
    BY <1>7, <2>2 DEF Supervise, Starts, Restarts, Ends, Finishes, Killed, tables
  <2>3. QED BY <2>1, <2>2
<1>8. FlushStarts \/ FlushReads \/ UNCHANGED vars => t = p
  BY DEF FlushStarts, FlushReads, vars, tables
<1>9. QED BY <1>2, <1>3, <1>5, <1>6, <1>7, <1>8 DEF Next

LEMMA HeadedStep ==
  ASSUME PortsType, Distinct, Headed, [Next]_vars
  PROVE  Headed'
<1> SUFFICES ASSUME NEW s \in Slots, Setting(s[1])', InOut(s)',
                    newest'[Maps[s[1]][s[2]].host] = s[1]
             PROVE  \E i \in Nat :
                      HeadedAt(chain'["OUTPUT"], Maps[s[1]][s[2]].host, ip'[s[1]], i)
  BY DEF Headed, HeadedAt
<1> DEFINE h == Maps[s[1]][s[2]].host
<1>1. s[1] \in Conts /\ s[2] \in 1..Len(Maps[s[1]]) /\ Len(Maps[s[1]]) \in Nat /\ s = <<s[1], s[2]>>
      /\ h \in HostPorts
  BY MapsAre DEF Slots, HostPorts
<1>2. pc \in [Conts -> Labels] /\ at \in [Conts -> Nat] /\ ip \in [Conts -> Addresses]
      /\ newest \in [HostPorts -> Conts]
  BY DEF PortsType
<1>3. ASSUME Setting(s[1]), InOut(s), ip'[s[1]] = ip[s[1]], newest[h] = s[1],
             \A c \in Conts : InsertsOut(c) /\ chain' # chain => Mapping(c).host # h
      PROVE  \E i \in Nat : HeadedAt(chain'["OUTPUT"], h, ip'[s[1]], i)
  <2>1. PICK i \in Nat : HeadedAt(chain["OUTPUT"], h, ip[s[1]], i) BY <1>3 DEF Headed
  <2>2. ASSUME NEW c \in Conts, DeletesOut(c) PROVE ip[c] # ip[s[1]]
    <3>1. pc[c] = "unout" /\ pc[s[1]] # "unout" BY <1>3, <2>2 DEF DeletesOut, Setting
    <3>2. QED BY <1>1, <3>1 DEF Distinct
  <2>3. FlushDeletes /\ chain' # chain => rule[1].to # ip[s[1]]
    BY <1>1, FlushSays DEF Setting
  <2> HIDE DEF h
  <2>4. QED BY <1>3, <2>1, <2>2, <2>3, StaysFirst
<1>4. ASSUME NEW c \in Conts, InsertsOut(c), chain' # chain
      PROVE  newest' = [newest EXCEPT ![Mapping(c).host] = c] /\ disturbed' = disturbed
             /\ chain' = Inserted("OUTPUT", RuleOf(<<c, at[c]>>))
  BY <1>4, Standing DEF InsertsOut
<1>5. ASSUME NEW c \in Conts, Supervise(c), s[1] # c
      PROVE  /\ Setting(s[1]) /\ InOut(s) /\ ip'[s[1]] = ip[s[1]] /\ newest[h] = s[1]
             /\ InsertsOut(c) /\ chain' # chain => Mapping(c).host # h
  <2>1. /\ pc'[s[1]] = pc[s[1]] /\ at'[s[1]] = at[s[1]] /\ ip'[s[1]] = ip[s[1]]
        /\ s[1] \in disturbed' <=> s[1] \in disturbed
    BY <1>1, <1>5, Others
  <2>2. InsertsOut(c) /\ chain' # chain => Mapping(c).host # h
    BY <1>1, <1>2, <1>4, <1>5
  <2>3. newest[h] = s[1]
    <3>1. CASE InsertsOut(c) BY <1>1, <1>2, <1>5, <3>1 DEF InsertsOut
    <3>2. CASE ~InsertsOut(c)
      BY <1>5, <3>2 DEF Supervise, Starts, Restarts, InsertsPre, Ends, DeletesPre, DeletesOut,
                        Finishes, Killed, ghost
    <3>3. QED BY <3>1, <3>2
  <2>4. QED BY <2>1, <2>2, <2>3 DEF Setting, InOut
<1>6. ASSUME NEW c \in Conts, InsertsOut(c), s[1] = c
      PROVE  \E i \in Nat : HeadedAt(chain'["OUTPUT"], h, ip'[s[1]], i)
  <2>1. pc[c] = "out" /\ ip' = ip BY <1>6 DEF InsertsOut
  <2>2. \/ at'[c] = at[c] + 1 /\ pc'[c] = "pre"
        \/ at'[c] = at[c] /\ at[c] = Len(Maps[c]) /\ pc'[c] = "up"
    BY <1>6, Advance DEF InsertsOut, Labels
  <2>3. s[2] <= at[c] BY <1>1, <1>2, <1>6, <2>2 DEF InOut
  <2>4. /\ chain' = Inserted("OUTPUT", RuleOf(<<c, at[c]>>))
        /\ newest' = [newest EXCEPT ![Mapping(c).host] = c] /\ disturbed' = disturbed
    BY <1>6, Standing DEF InsertsOut, Setting
  <2>5. CASE Mapping(c).host = h
    <3>1. PICK q : q = RuleOf(<<c, at[c]>>) OBVIOUS
    <3>2. q \in Rules /\ q.port = h /\ q.to = ip[c]
      <4>1. q \in Rules /\ q = Rule(AnyHost, Mapping(c), ip[c]) BY <3>1, Standing
      <4>2. q.port = Mapping(c).host /\ q.to = ip[c] BY <4>1 DEF Rule
      <4>3. QED BY <2>5, <4>1, <4>2
    <3>3. Headings(chain["OUTPUT"], chain'["OUTPUT"], q)
      BY <2>4, <3>1, <3>2, Inserts DEF PortsType, Chains
    <3>4. chain["OUTPUT"] \in Seq(Rules) BY DEF PortsType, Chains
    <3>5. chain'["OUTPUT"][1] = q /\ DOMAIN chain'["OUTPUT"] = 1..(Len(chain["OUTPUT"]) + 1)
      BY <3>3 DEF Headings
    <3>6. HeadedAt(chain'["OUTPUT"], h, ip[c], 1) BY <3>2, <3>4, <3>5 DEF HeadedAt
    <3>7. QED BY <1>6, <2>1, <3>6
  <2>6. CASE Mapping(c).host # h
    <3>1. s[2] # at[c] BY <1>6, <2>6 DEF Mapping
    <3>2. InOut(s) BY <1>1, <1>2, <1>6, <2>1, <2>3, <3>1 DEF InOut
    <3>3. Setting(s[1]) BY <1>6, <2>1, <2>4 DEF Setting
    <3>4. newest[h] = s[1] BY <1>1, <1>2, <2>4, <2>6
    <3>5. ASSUME NEW d \in Conts, InsertsOut(d), chain' # chain PROVE Mapping(d).host # h
      <4>1. CASE d = c BY <2>6, <4>1
      <4>2. CASE d # c
        <5>1. pc'[c] = pc[c] BY <1>2, <3>5, <4>2, Others DEF Supervise
        <5>2. QED BY <2>1, <2>2, <5>1
      <4>3. QED BY <4>1, <4>2
    <3>6. QED BY <1>3, <2>1, <3>2, <3>3, <3>4, <3>5
  <2>7. QED BY <2>5, <2>6
<1>7. ASSUME NEW c \in Conts, Supervise(c), ~InsertsOut(c), s[1] = c
      PROVE  Setting(s[1]) /\ InOut(s) /\ ip'[s[1]] = ip[s[1]] /\ newest[h] = s[1]
  <2>1. CASE InsertsPre(c)
    <3>1. pc[c] = "pre" /\ pc'[c] = "out" /\ at' = at /\ ip' = ip /\ UNCHANGED ghost
      BY <1>2, <2>1 DEF InsertsPre, Goto
    <3>2. QED BY <1>7, <3>1 DEF Setting, InOut, ghost
  <2>2. CASE Starts(c) \/ Restarts(c)
    <3>1. pc'[c] = "pre" /\ at'[c] = 1
      BY <1>2, <2>2 DEF Starts, Restarts, Addressed, Goto
    <3>2. QED BY <1>1, <1>7, <3>1 DEF InOut
  <2>3. CASE Ends(c) \/ DeletesPre(c) \/ DeletesOut(c) \/ Finishes(c) \/ Killed(c)
    <3>1. pc'[c] \notin {"pre", "out", "up"}
      BY <1>2, <2>3 DEF Ends, DeletesPre, DeletesOut, Finishes, Killed, Goto
    <3>2. QED BY <1>7, <3>1 DEF Setting
  <2>4. QED BY <1>7, <2>1, <2>2, <2>3 DEF Supervise
<1>8. ASSUME NEW c \in Conts, Supervise(c)
      PROVE  \E i \in Nat : HeadedAt(chain'["OUTPUT"], h, ip'[s[1]], i)
  <2>1. CASE s[1] = c /\ InsertsOut(c) BY <1>6, <2>1
  <2>2. CASE ~(s[1] = c /\ InsertsOut(c))
    <3>1. Setting(s[1]) /\ InOut(s) /\ ip'[s[1]] = ip[s[1]] /\ newest[h] = s[1]
      BY <1>5, <1>7, <1>8, <2>2
    <3>2. ASSUME NEW d \in Conts, InsertsOut(d), chain' # chain PROVE Mapping(d).host # h
      <4>1. CASE s[1] # d
        <5>1. Supervise(d) BY <3>2 DEF Supervise
        <5>2. QED BY <1>5, <3>2, <4>1, <5>1
      <4>2. CASE s[1] = d
        <5>1. d # c BY <2>2, <3>2, <4>2
        <5>2. pc'[d] = pc[d] BY <1>8, <5>1, Others
        <5>3. pc[d] = "out" /\ pc'[d] # "out"
          BY <1>2, <3>2, Advance DEF InsertsOut, Labels
        <5>4. QED BY <5>2, <5>3
      <4>3. QED BY <4>1, <4>2
    <3>3. QED BY <1>3, <3>1, <3>2
  <2>3. QED BY <2>1, <2>2
<1>9. CASE FlushStarts \/ FlushReads \/ FlushDeletes \/ UNCHANGED vars
  <2>1. UNCHANGED <<pc, ip, at, newest>> /\ disturbed \subseteq disturbed'
    BY <1>9 DEF FlushStarts, FlushReads, FlushDeletes, vars, local, ghost
  <2>2. Setting(s[1]) /\ InOut(s) /\ newest[h] = s[1] BY <2>1 DEF Setting, InOut
  <2>3. ASSUME NEW c \in Conts, InsertsOut(c) PROVE FALSE
    BY <1>2, <2>1, <2>3, Advance DEF InsertsOut, Labels
  <2>4. QED BY <1>3, <2>1, <2>2, <2>3
<1>10. QED BY <1>8, <1>9 DEF Next

-----------------------------------------------------------------------------
(* The theorems.                                                           *)

LEMMA PortsInit == Init => PortsInv
<1> SUFFICES ASSUME Init PROVE PortsInv OBVIOUS
<1> USE DEF Init
<1>1. PortsType
  <2>1. <<>> \in Seq(Rules) OBVIOUS
  <2>2. <<0, 0>> \in Addresses /\ 1 \in 1..MaxIp BY PortsAssumption DEF Addresses
  <2>3. \A c \in Conts : 1 \in DOMAIN Maps[c] BY MapsAre
  <2>4. newest \in [HostPorts -> Conts]
    <3>1. HostPorts # {} => Conts # {} BY DEF HostPorts
    <3>2. Conts # {} => (CHOOSE c \in Conts : TRUE) \in Conts OBVIOUS
    <3>3. QED BY <3>1, <3>2
  <2>5. QED BY <2>1, <2>2, <2>3, <2>4 DEF PortsType, Labels, NoRule
<1>2. Distinct BY DEF Distinct
<1>3. Owned
  <2>1. DOMAIN chain["PREROUTING"] = {} BY DEF Chains
  <2> DEFINE f == [i \in DOMAIN chain["PREROUTING"] |-> CHOOSE s \in Slots : TRUE]
  <2>2. f \in [DOMAIN chain["PREROUTING"] -> Slots] BY <2>1
  <2> HIDE DEF f
  <2>3. Owns(f, chain["PREROUTING"]) BY <2>1, <2>2 DEF Owns
  <2>4. QED BY <2>3 DEF Owned
<1>4. \A c \in Conts : ~Setting(c) BY DEF Setting
<1>5. \A s \in Slots : s[1] \in Conts BY DEF Slots
<1>6. Present /\ Headed BY <1>4, <1>5 DEF Present, Headed
<1>7. QED BY <1>1, <1>2, <1>3, <1>6 DEF PortsInv

\* Who has which rule, and what is still there, over every step (network.rs 452-620).
THEOREM PortsInvariant == Spec => []PortsInv
<1>1. ASSUME PortsInv, [Next]_vars PROVE PortsInv'
  BY <1>1, TypeStep, DistinctStep, OwnedStep, PresentStep, HeadedStep DEF PortsInv
<1>2. QED BY PortsInit, <1>1, PTL DEF Spec

\* The chains hold rules for published ports and allocated addresses only (network.rs
\* 452-620).
THEOREM PortsTypeSafe == Spec => []TypeOK
<1>1. ASSUME PortsInv PROVE TypeOK
  <2>1. PortsType BY <1>1 DEF PortsInv
  <2>2. \A k \in Chains : \A i \in DOMAIN chain[k] : chain[k][i] \in Rules BY <2>1 DEF PortsType
  <2>3. \A q \in Rules : q.to \in Addresses /\ q.port \in HostPorts BY DEF Rules
  <2>4. QED BY <2>1, <2>2, <2>3 DEF PortsType, TypeOK, Labels
<1>2. QED BY PortsInvariant, <1>1, PTL

\* A forwarding from outside is never left behind, unless a call of iptables or a
\* supervisor failed (network.rs 510-529).
THEOREM NoStaleForwardSafe == Spec => []NoStaleForward
<1>1. ASSUME PortsInv PROVE NoStaleForward
  <2> SUFFICES ASSUME ~stuck, NEW i \in DOMAIN chain["PREROUTING"]
               PROVE  \E c \in Conts : Live(c) /\ ip[c] = chain["PREROUTING"][i].to
    BY DEF NoStaleForward
  <2>1. PICK f : Owns(f, chain["PREROUTING"]) BY <1>1 DEF PortsInv, Owned
  <2>2. f[i] \in Slots /\ InPre(f[i]) /\ chain["PREROUTING"][i] = RuleOf(f[i]) BY <2>1 DEF Owns
  <2>3. f[i][1] \in Conts BY <2>2 DEF Slots
  <2>4. Live(f[i][1]) BY <2>2 DEF InPre, Live
  <2>5. QED BY <2>2, <2>3, <2>4 DEF RuleOf, Rule
<1>2. QED BY PortsInvariant, <1>1, PTL

\* From outside, a port of a container that runs leads to one that runs (network.rs
\* 459-469).
THEOREM ServedSafe == Spec => []Served
<1>1. ASSUME PortsInv PROVE Served
  <2> SUFFICES ASSUME ~stuck, NEW c \in Conts, pc[c] = "up", c \notin disturbed,
                      NEW h \in Published(c)
               PROVE  \E d \in Conts : Live(d) /\ LeadsTo("PREROUTING", h, d)
    BY DEF Served
  <2> DEFINE p == chain["PREROUTING"]
  <2>1. PICK s \in Slots : s[1] = c /\ Maps[s[1]][s[2]].host = h BY PublishedSlot
  <2>2. Setting(s[1]) /\ InPre(s) BY <2>1 DEF Setting, InPre
  <2>3. PICK i \in DOMAIN p : p[i] = RuleOf(s) BY <1>1, <2>2 DEF PortsInv, Present
  <2>4. p[i].port = h BY <2>1, <2>3 DEF RuleOf, Rule
  <2>5. p \in Seq(Rules) /\ "PREROUTING" \in Chains BY <1>1 DEF PortsInv, PortsType, Chains
  <2>6. HeadedAt(p, h, p[First("PREROUTING", h)].to, First("PREROUTING", h))
    BY <2>3, <2>4, <2>5, FirstOf
  <2>7. PICK n : n = First("PREROUTING", h) OBVIOUS
  <2>8. n \in DOMAIN p /\ n # 0 BY <2>5, <2>6, <2>7 DEF HeadedAt
  <2>9. PICK f : Owns(f, p) BY <1>1 DEF PortsInv, Owned
  <2>10. f[n] \in Slots /\ InPre(f[n]) /\ p[n] = RuleOf(f[n]) BY <2>8, <2>9 DEF Owns
  <2>11. f[n][1] \in Conts /\ Live(f[n][1]) BY <2>10 DEF Slots, InPre, Live
  <2>12. p[n].to = ip[f[n][1]] BY <2>10 DEF RuleOf, Rule
  <2>13. LeadsTo("PREROUTING", h, f[n][1]) BY <2>7, <2>8, <2>12 DEF LeadsTo
  <2>14. QED BY <2>11, <2>13
<1>2. QED BY PortsInvariant, <1>1, PTL

\* From the host, whatever others have left behind, a port leads to the container that
\* has published it last (network.rs 471-476).
THEOREM NewestServedSafe == Spec => []NewestServed
<1>1. ASSUME PortsInv PROVE NewestServed
  <2> SUFFICES ASSUME NEW c \in Conts, pc[c] = "up", c \notin disturbed,
                      NEW h \in Published(c), newest[h] = c
               PROVE  LeadsTo("OUTPUT", h, c)
    BY DEF NewestServed
  <2>1. PICK s \in Slots : s[1] = c /\ Maps[s[1]][s[2]].host = h BY PublishedSlot
  <2>2. Setting(s[1]) /\ InOut(s) BY <2>1 DEF Setting, InOut
  <2>3. PICK i \in Nat : HeadedAt(chain["OUTPUT"], h, ip[c], i)
    BY <1>1, <2>1, <2>2 DEF PortsInv, Headed
  <2>4. chain["OUTPUT"] \in Seq(Rules) /\ "OUTPUT" \in Chains
    BY <1>1 DEF PortsInv, PortsType, Chains
  <2>5. QED BY <2>3, <2>4, FirstIs
<1>2. QED BY PortsInvariant, <1>1, PTL
=============================================================================
