----------------------------- MODULE ForgeProofs -----------------------------
(***************************************************************************)
(* Theorems about Forge and the resolution in it, for any number of        *)
(* services, any files, any order of the keys, and any number of containers.*)
(***************************************************************************)
EXTENDS Forge, SequenceTheorems, FiniteSetTheorems, WellFoundedInduction, TLAPS

(***************************************************************************)
(* The resolution, ForgeOrder.                                             *)
(***************************************************************************)
Once(s) == \A i, j \in 1..Len(s) : s[i] = s[j] => i = j

\* What is visited has its dependencies before it, and so has no cycle in it.
Closed ==
  /\ Once(order)
  /\ \A i \in 1..Len(order) : deps[order[i]] \subseteq {order[j] : j \in 1..(i - 1)}
  /\ \A C \in SUBSET visited : C # {} => \E s \in C : deps[s] \cap C = {}

\* The stack is a chain of dependencies of services not visited.
Chained ==
  /\ Once(path)
  /\ visiting \cap visited = {}
  /\ \A i \in 1..(Len(path) - 1) : path[i + 1] \in deps[path[i]]

\* A dependency of a call that has not returned is left to it, done, or the next call.
Pending(i) ==
  \A d \in deps[path[i]] :
    d \in todo[path[i]] \/ d \in visited \/ (i < Len(path) /\ d = path[i + 1])

\* Nothing is forgotten.
Covered ==
  /\ \A i \in 1..Len(path) : Pending(i)
  /\ Services \subseteq keys \cup visited \cup visiting

OrderInv ==
  /\ OrderTypeOK /\ Closed /\ Chained
  /\ \A s \in Services : todo[s] \subseteq deps[s]
  /\ verdict = "pending" => Covered
  /\ verdict = "ok" => Services \subseteq visited
  /\ verdict = "circular" => Cyclic
  /\ verdict = "unknown" => UnknownNamed

-----------------------------------------------------------------------------
(* Sequences and their elements.                                           *)

LEMMA Appends ==
  ASSUME NEW S, NEW s \in Seq(S), NEW x \in S
  PROVE  /\ Append(s, x) \in Seq(S) /\ Len(Append(s, x)) = Len(s) + 1
         /\ \A i \in 1..Len(s) : Append(s, x)[i] = s[i]
         /\ Append(s, x)[Len(s) + 1] = x
         /\ Elems(Append(s, x)) = Elems(s) \cup {x}
<1>1. /\ Append(s, x) \in Seq(S) /\ Len(Append(s, x)) = Len(s) + 1
      /\ \A i \in 1..Len(s) : Append(s, x)[i] = s[i]
      /\ Append(s, x)[Len(s) + 1] = x
  OBVIOUS
<1>2. Len(s) \in Nat BY LenProperties
<1>3. 1..(Len(s) + 1) = 1..Len(s) \cup {Len(s) + 1} BY <1>2
<1>4. QED BY <1>1, <1>2, <1>3 DEF Elems

LEMMA OnceAppended ==
  ASSUME NEW S, NEW s \in Seq(S), NEW x \in S \ Elems(s), Once(s)
  PROVE  Once(Append(s, x))
<1>1. Len(s) \in Nat BY LenProperties
<1>2. \A i \in 1..(Len(s) + 1) : i \in 1..Len(s) \/ i = Len(s) + 1 BY <1>1
<1>3. QED BY <1>1, <1>2, Appends DEF Once, Elems

LEMMA Fronts ==
  ASSUME NEW S, NEW s \in Seq(S), s # <<>>, Once(s)
  PROVE  LET t == SubSeq(s, 1, Len(s) - 1) IN
         /\ Len(s) \in Nat \ {0} /\ s[Len(s)] \in S
         /\ t \in Seq(S) /\ Len(t) = Len(s) - 1
         /\ \A i \in 1..Len(t) : t[i] = s[i]
         /\ Elems(t) = Elems(s) \ {s[Len(s)]}
         /\ Once(t)
<1> DEFINE t == SubSeq(s, 1, Len(s) - 1)
<1>1. Len(s) \in Nat \ {0} /\ \A i \in 1..Len(s) : s[i] \in S
  BY EmptySeq, LenProperties, ElementOfSeq
<1>2. t \in Seq(S) /\ Len(t) = Len(s) - 1
  <2>1. 1 \in Int /\ Len(s) - 1 \in Int /\ \A i \in 1..(Len(s) - 1) : s[i] \in S BY <1>1
  <2>2. /\ t \in Seq(S)
        /\ Len(t) = IF 1 <= Len(s) - 1 THEN (Len(s) - 1) - 1 + 1 ELSE 0
    BY <2>1, SubSeqProperties
  <2>3. \A n \in Nat \ {0} : (IF 1 <= n - 1 THEN (n - 1) - 1 + 1 ELSE 0) = n - 1 OBVIOUS
  <2>4. Len(t) = Len(s) - 1 BY <1>1, <2>2, <2>3, Zenon
  <2>5. QED BY <2>2, <2>4
<1>3. \A i \in 1..Len(t) : t[i] = s[i]
  BY <1>1, <1>2, SubSeqProperties
<1> HIDE DEF t
<1>4. Elems(t) = Elems(s) \ {s[Len(s)]}
  <2>1. ASSUME NEW i \in 1..Len(t) PROVE t[i] \in Elems(s) \ {s[Len(s)]}
    BY <1>1, <1>2, <1>3 DEF Elems, Once
  <2>2. ASSUME NEW i \in 1..Len(s), s[i] # s[Len(s)] PROVE s[i] \in Elems(t)
    <3>1. i \in 1..Len(t) BY <1>1, <1>2, <2>2
    <3>2. QED BY <1>3, <3>1 DEF Elems
  <2>3. QED BY <2>1, <2>2 DEF Elems
<1>5. Once(t) BY <1>1, <1>2, <1>3 DEF Once
<1>6. QED BY <1>1, <1>2, <1>3, <1>4, <1>5 DEF t

\* A sequence of every service once is as long as there are services.
LEMMA OnceCounts ==
  ASSUME NEW s \in Seq(Services), Once(s), Elems(s) = Services
  PROVE  Len(s) = Cardinality(Services)
<1>1. Len(s) \in Nat /\ s \in [1..Len(s) -> Services] BY LenProperties
<1>2. s \in Bijection(1..Len(s), Services)
  BY <1>1 DEF Bijection, Injection, Surjection, IsInjective, Once, Elems
<1>3. ExistsBijection(1..Len(s), Services) BY <1>2 DEF ExistsBijection
<1>4. IsFiniteSet(1..Len(s)) /\ Cardinality(1..Len(s)) = Len(s)
  BY <1>1, FS_Interval
<1>5. QED BY <1>3, <1>4, FS_Bijection
-----------------------------------------------------------------------------
LEMMA OrderInitInv == OrderInit => OrderInv
<1> USE DEF visiting, visited, Top
<1> SUFFICES ASSUME OrderInit PROVE OrderInv OBVIOUS
<1>1. path = <<>> /\ order = <<>> /\ Len(path) = 0 /\ Len(order) = 0 BY DEF OrderInit
<1>2. visited = {} /\ visiting = {} BY <1>1 DEF Elems
<1>3. OrderTypeOK BY <1>1, ForgeAssumption, EmptySeq DEF OrderInit, OrderTypeOK
<1>4. Closed /\ Chained /\ Covered
  BY <1>1, <1>2 DEF Closed, Chained, Covered, Once, OrderInit
<1>5. QED BY <1>3, <1>4 DEF OrderInv, OrderInit

LEMMA StackType ==
  ASSUME OrderInv
  PROVE  /\ path \in Seq(Services) /\ Len(path) \in Nat
         /\ order \in Seq(Services) /\ Len(order) \in Nat
         /\ \A i \in 1..Len(path) : path[i] \in Services /\ path[i] \in visiting
         /\ path # <<>> => Top \in Services /\ Top \in visiting /\ Len(path) \in 1..Len(path)
         /\ visiting \subseteq Services /\ visited \subseteq Services
<1> USE DEF visiting, visited, Top
<1>1. /\ path \in Seq(Services) /\ Len(path) \in Nat
      /\ order \in Seq(Services) /\ Len(order) \in Nat
  BY LenProperties DEF OrderInv, OrderTypeOK
<1>2. /\ \A i \in 1..Len(path) : path[i] \in Services
      /\ \A i \in 1..Len(order) : order[i] \in Services
  BY <1>1, ElementOfSeq
<1>3. path # <<>> => Len(path) \in 1..Len(path) BY <1>1, EmptySeq
<1>4. QED BY <1>1, <1>2, <1>3 DEF Elems

LEMMA ClosedStays == Closed /\ deps' = deps /\ order' = order => Closed'
<1> SUFFICES ASSUME Closed, deps' = deps, order' = order PROVE Closed' OBVIOUS
<1>1. Once(order') BY DEF Closed
<1>2. visited' = visited BY DEF visited, Elems
<1>3. \A i \in 1..Len(order') :
        deps'[order'[i]] \subseteq {order'[j] : j \in 1..(i - 1)}
  <2>1. \A i \in 1..Len(order) : deps[order[i]] \subseteq {order[j] : j \in 1..(i - 1)}
    BY Zenon DEF Closed
  <2>2. QED BY <2>1
<1>4. \A C \in SUBSET visited' : C # {} => \E s \in C : deps'[s] \cap C = {}
  <2>1. \A C \in SUBSET visited : C # {} => \E s \in C : deps[s] \cap C = {}
    BY Zenon DEF Closed
  <2>2. QED BY <1>2, <2>1
<1>5. QED BY <1>1, <1>3, <1>4, Zenon DEF Closed

LEMMA ChainedStays ==
  Chained /\ deps' = deps /\ order' = order /\ path' = path => Chained'
<1> SUFFICES ASSUME Chained, deps' = deps, order' = order, path' = path PROVE Chained' OBVIOUS
<1>1. Once(path') BY DEF Chained
<1>2. (visiting \cap visited)' = visiting \cap visited BY DEF visiting, visited, Elems
<1>3. QED BY <1>1, <1>2 DEF Chained

\* The search goes one deeper.
LEMMA Deeper ==
  ASSUME OrderInv, verdict = "pending",
         NEW n \in Services, n \notin visited, n \notin visiting,
         path # <<>> => n \in deps[Top],
         path' = Append(path, n), todo' \in [Services -> SUBSET (Services \cup Others)],
         todo'[n] = deps[n],
         \A s \in Services : todo'[s] \subseteq deps[s],
         \A s \in Services : s # n => todo[s] \ {n} \subseteq todo'[s],
         \A s \in visiting : s # n /\ n \in todo[s] /\ n \notin todo'[s] => s = Top,
         keys' \in SUBSET Services, keys \ {n} \subseteq keys',
         UNCHANGED <<deps, order, verdict>>
  PROVE  OrderInv'
<1> USE DEF visiting, visited, Top
<1>0. /\ path \in Seq(Services) /\ Len(path) \in Nat
      /\ \A i \in 1..Len(path) : path[i] \in Services /\ path[i] \in visiting
      /\ path # <<>> => Top \in Services /\ Top \in visiting /\ Len(path) \in 1..Len(path)
  BY StackType
<1>1. /\ path' \in Seq(Services) /\ Len(path') = Len(path) + 1
      /\ \A i \in 1..Len(path) : path'[i] = path[i]
      /\ path'[Len(path) + 1] = n
      /\ visiting' = visiting \cup {n}
  BY <1>0, Appends
<1>2. OrderTypeOK' BY <1>1 DEF OrderInv, OrderTypeOK
<1>3. Closed'
  <2>1. Closed /\ deps' = deps /\ order' = order BY DEF OrderInv
  <2>2. QED BY <2>1, ClosedStays
<1>4. Chained'
  <2>1. Once(path') BY <1>0, OnceAppended DEF OrderInv, Chained
  <2>2. (visiting \cap visited = {})' BY <1>1 DEF OrderInv, Chained
  <2>3. ASSUME NEW i \in 1..(Len(path') - 1) PROVE path'[i + 1] \in deps[path'[i]]
    <3>1. i \in 1..Len(path) BY <1>0, <1>1
    <3>2. CASE i = Len(path)
      <4>1. path # <<>> BY <3>1, <3>2
      <4>2. QED BY <1>0, <1>1, <3>1, <3>2, <4>1
    <3>3. CASE i # Len(path)
      <4>1. i \in 1..(Len(path) - 1) /\ i + 1 \in 1..Len(path) BY <1>0, <3>1, <3>3
      <4>2. QED BY <1>1, <3>1, <4>1 DEF OrderInv, Chained
    <3>4. QED BY <3>2, <3>3
  <2>4. QED BY <2>1, <2>2, <2>3 DEF Chained
<1>5. Covered'
  <2>1. ASSUME NEW i \in 1..Len(path') PROVE Pending(i)'
    <3> SUFFICES ASSUME NEW d \in deps[path'[i]]
                 PROVE  d \in todo'[path'[i]] \/ d \in visited \/ (i < Len(path') /\ d = path'[i + 1])
      BY DEF Pending
    <3>1. CASE i = Len(path) + 1 BY <1>1, <3>1
    <3>2. CASE i \in 1..Len(path)
      <4>1. path'[i] = path[i] /\ path[i] # n /\ path[i] \in Services /\ path[i] \in visiting
        BY <1>0, <1>1, <3>2
      <4>2. Pending(i) BY <3>2 DEF OrderInv, Covered
      <4>3. CASE d \in visited BY <4>3
      <4>4. CASE i < Len(path) /\ d = path[i + 1] BY <1>0, <1>1, <3>2, <4>4
      <4>5. CASE d \in todo[path[i]] /\ d \notin todo'[path[i]]
        <5>1. d = n /\ path[i] = Top BY <4>1, <4>5
        <5>2. i = Len(path) BY <1>0, <3>2, <5>1 DEF OrderInv, Chained, Once
        <5>3. QED BY <1>0, <1>1, <5>1, <5>2
      <4>6. QED BY <4>1, <4>2, <4>3, <4>4, <4>5 DEF Pending
    <3>3. QED BY <1>0, <1>1, <3>1, <3>2
  <2>2. (Services \subseteq keys \cup visited \cup visiting)' BY <1>1 DEF OrderInv, Covered
  <2>3. QED BY <2>1, <2>2 DEF Covered
<1>6. QED BY <1>2, <1>3, <1>4, <1>5 DEF OrderInv
\* A service on the stack is met again.
LEMMA Circle ==
  ASSUME OrderInv, NEW n \in visiting, n \in deps[Top]
  PROVE  Cyclic
<1> USE DEF visiting, visited, Top
<1>0. /\ Len(path) \in Nat
      /\ \A j \in 1..Len(path) : path[j] \in Services
  BY StackType
<1>1. PICK i \in 1..Len(path) : path[i] = n BY DEF Elems
<1> DEFINE C == {path[j] : j \in i..Len(path)}
<1>2. C # {} /\ C \subseteq Services BY <1>0, <1>1
<1>3. ASSUME NEW j \in i..Len(path) PROVE deps[path[j]] \cap C # {}
  <2>1. CASE j = Len(path)
    <3>1. path[i] \in C BY <1>0, <1>1
    <3>2. QED BY <1>1, <2>1, <3>1
  <2>2. CASE j # Len(path)
    <3>1. j \in 1..(Len(path) - 1) /\ j + 1 \in i..Len(path) BY <1>0, <1>1, <2>2
    <3>2. path[j + 1] \in deps[path[j]] BY <3>1 DEF OrderInv, Chained
    <3>3. path[j + 1] \in C BY <3>1
    <3>4. QED BY <3>2, <3>3
  <2>3. QED BY <2>1, <2>2
<1>4. \A s \in C : deps[s] \cap C # {} BY <1>3
<1>5. QED BY <1>2, <1>4 DEF Cyclic

\* What a step that leaves the stack and the result alone has to keep.
LEMMA StayInv ==
  ASSUME OrderInv, UNCHANGED <<deps, path, order>>,
         todo' \in [Services -> SUBSET (Services \cup Others)],
         keys' \in SUBSET Services,
         verdict' \in {"pending", "ok", "circular", "unknown"},
         \A s \in Services : todo'[s] \subseteq todo[s],
         verdict' = "pending" => Covered',
         verdict' = "ok" => Services \subseteq visited,
         verdict' = "circular" => Cyclic,
         verdict' = "unknown" => UnknownNamed
  PROVE  OrderInv'
<1> USE DEF visiting, visited
<1>1. OrderTypeOK' BY DEF OrderInv, OrderTypeOK
<1>2. Closed' BY ClosedStays DEF OrderInv
<1>3. Chained' BY ChainedStays DEF OrderInv
<1>4. (Cyclic' <=> Cyclic) /\ (UnknownNamed' <=> UnknownNamed) BY DEF Cyclic, UnknownNamed
<1>5. visited' = visited BY DEF Elems
<1>6. \A s \in Services : todo'[s] \subseteq deps[s] BY DEF OrderInv
<1>7. QED BY <1>1, <1>2, <1>3, <1>4, <1>5, <1>6 DEF OrderInv

LEMMA NextKeyInv == OrderInv /\ NextKey => OrderInv'
<1> SUFFICES ASSUME OrderInv, NextKey PROVE OrderInv' OBVIOUS
<1>1. PICK k \in keys : keys' = keys \ {k} /\ Call(k, todo) BY DEF NextKey
<1>2. /\ verdict = "pending" /\ path = <<>> /\ UNCHANGED <<deps, order>>
      /\ k \in Services /\ keys' \in SUBSET Services
      /\ todo \in [Services -> SUBSET (Services \cup Others)]
      /\ deps \in [Services -> SUBSET (Services \cup Others)]
      /\ \A s \in Services : todo[s] \subseteq deps[s]
  BY DEF NextKey, OrderInv, OrderTypeOK
<1>3. visiting = {} /\ Len(path) = 0 BY <1>2 DEF visiting, Elems
<1>4. CASE k \in visited
  <2>1. todo' = todo /\ path' = path /\ verdict' = verdict BY <1>1, <1>4 DEF Call
  <2>2. Services \subseteq keys' \cup visited \cup visiting
    BY <1>1, <1>2, <1>4 DEF OrderInv, Covered
  <2>3. visited' = visited /\ visiting' = visiting BY <1>2, <2>1 DEF visited, visiting, Elems
  <2>4. 1..Len(path') = {} BY <1>3, <2>1
  <2>5. Covered' BY <2>2, <2>3, <2>4 DEF Covered
  <2>6. QED BY <1>2, <2>1, <2>5, StayInv
<1>5. CASE k \notin visited
  <2>1. /\ todo' = [todo EXCEPT ![k] = deps[k]] /\ path' = Append(path, k)
        /\ verdict' = verdict
    BY <1>1, <1>3, <1>5 DEF Call
  <2>2. /\ todo' \in [Services -> SUBSET (Services \cup Others)] /\ todo'[k] = deps[k]
        /\ \A s \in Services : todo'[s] \subseteq deps[s]
        /\ \A s \in Services : s # k => todo'[s] = todo[s]
    BY <1>2, <2>1
  <2>3. QED BY <1>1, <1>2, <1>3, <1>5, <2>1, <2>2, Deeper
<1>6. QED BY <1>4, <1>5

LEMMA NextDependencyInv == OrderInv /\ NextDependency => OrderInv'
<1> SUFFICES ASSUME OrderInv, NextDependency PROVE OrderInv' OBVIOUS
<1> DEFINE Left(d) == [todo EXCEPT ![Top] = todo[Top] \ {d}]
<1>1. PICK d \in todo[Top] \cap Services : Call(d, Left(d)) BY DEF NextDependency
<1>2. /\ verdict = "pending" /\ path # <<>> /\ UNCHANGED <<deps, keys, order>>
      /\ keys \in SUBSET Services
      /\ todo \in [Services -> SUBSET (Services \cup Others)]
      /\ deps \in [Services -> SUBSET (Services \cup Others)]
      /\ \A s \in Services : todo[s] \subseteq deps[s]
  BY DEF NextDependency, OrderInv, OrderTypeOK
<1>3. /\ Top \in Services /\ Top \in visiting /\ Len(path) \in 1..Len(path)
      /\ \A i \in 1..Len(path) : path[i] \in Services /\ path[i] \in visiting
  BY <1>2, StackType
<1>4. d \in deps[Top] BY <1>2, <1>3
<1> DEFINE left == Left(d)
<1>5. /\ left \in [Services -> SUBSET (Services \cup Others)]
      /\ left[Top] = todo[Top] \ {d}
      /\ \A s \in Services : s # Top => left[s] = todo[s]
      /\ \A s \in Services : left[s] \subseteq todo[s]
  BY <1>2, <1>3
<1>6. Call(d, left) BY <1>1
<1> HIDE DEF left
<1>7. CASE d \in visited
  <2>1. todo' = left /\ path' = path /\ verdict' = verdict BY <1>6, <1>7 DEF Call
  <2>2. visited' = visited /\ visiting' = visiting BY <1>2, <2>1 DEF visited, visiting, Elems
  <2>3. ASSUME NEW i \in 1..Len(path) PROVE Pending(i)'
    <3>1. Pending(i) BY <1>2 DEF OrderInv, Covered
    <3>2. \A e \in deps[path[i]] : e \in todo[path[i]] => e \in left[path[i]] \/ e = d
      BY <1>3, <1>5
    <3>3. QED BY <1>2, <1>7, <2>1, <2>2, <3>1, <3>2 DEF Pending
  <2>4. Covered' BY <1>2, <2>1, <2>2, <2>3 DEF OrderInv, Covered
  <2>5. QED BY <1>2, <1>5, <2>1, <2>4, StayInv
<1>8. CASE d \in visiting \ visited
  <2>1. todo' = left /\ path' = path /\ verdict' = "circular" BY <1>6, <1>8 DEF Call
  <2>2. Cyclic BY <1>4, <1>8, Circle
  <2>3. QED BY <1>2, <1>5, <2>1, <2>2, StayInv
<1>9. CASE d \notin visited /\ d \notin visiting
  <2>1. /\ todo' = [left EXCEPT ![d] = deps[d]] /\ path' = Append(path, d)
        /\ verdict' = verdict
    BY <1>6, <1>9 DEF Call
  <2>2. /\ todo' \in [Services -> SUBSET (Services \cup Others)] /\ todo'[d] = deps[d]
        /\ \A s \in Services : s # d => todo'[s] = left[s]
    BY <1>1, <1>2, <1>5, <2>1
  <2>3. /\ \A s \in Services : todo'[s] \subseteq deps[s]
        /\ \A s \in Services : s # d => todo[s] \ {d} \subseteq todo'[s]
        /\ \A s \in Services : s # d /\ d \in todo[s] /\ d \notin todo'[s] => s = Top
    BY <1>2, <1>5, <2>2
  <2>4. visiting \subseteq Services BY StackType
  <2>5. QED BY <1>1, <1>2, <1>4, <1>9, <2>1, <2>2, <2>3, <2>4, Deeper
<1>10. QED BY <1>7, <1>8, <1>9

LEMMA UnknownInv == OrderInv /\ UnknownDependency => OrderInv'
<1> SUFFICES ASSUME OrderInv, UnknownDependency PROVE OrderInv' OBVIOUS
<1>1. /\ path # <<>> /\ todo[Top] \cap Others # {} /\ verdict' = "unknown"
      /\ UNCHANGED <<deps, keys, path, todo, order>>
  BY DEF UnknownDependency
<1>2. Top \in Services BY <1>1, StackType
<1>3. UnknownNamed BY <1>1, <1>2 DEF OrderInv, UnknownNamed
<1>4. QED BY <1>1, <1>3, StayInv DEF OrderInv, OrderTypeOK

LEMMA ResolvedInv == OrderInv /\ Resolved => OrderInv'
<1> SUFFICES ASSUME OrderInv, Resolved PROVE OrderInv' OBVIOUS
<1>1. /\ verdict = "pending" /\ path = <<>> /\ keys = {} /\ verdict' = "ok"
      /\ UNCHANGED <<deps, keys, path, todo, order>>
  BY DEF Resolved
<1>2. visiting = {} BY <1>1 DEF visiting, Elems
<1>3. Services \subseteq visited BY <1>1, <1>2 DEF OrderInv, Covered
<1>4. QED BY <1>1, <1>3, StayInv DEF OrderInv, OrderTypeOK

LEMMA ReturnInv == OrderInv /\ Return => OrderInv'
<1> SUFFICES ASSUME OrderInv, Return PROVE OrderInv' OBVIOUS
<1>1. /\ verdict = "pending" /\ path # <<>> /\ todo[Top] = {}
      /\ order' = Append(order, Top) /\ path' = SubSeq(path, 1, Len(path) - 1)
      /\ UNCHANGED <<deps, keys, todo, verdict>>
  BY DEF Return
<1>2. /\ path \in Seq(Services) /\ Len(path) \in Nat
      /\ order \in Seq(Services) /\ Len(order) \in Nat
      /\ \A i \in 1..Len(path) : path[i] \in Services /\ path[i] \in visiting
      /\ Top \in Services /\ Top \in visiting /\ Len(path) \in 1..Len(path)
      /\ visited \subseteq Services
      /\ visiting \cap visited = {} /\ Once(path) /\ Once(order)
  BY <1>1, StackType DEF OrderInv, Chained, Closed
<1>3. /\ order' \in Seq(Services) /\ Len(order') = Len(order) + 1
      /\ \A i \in 1..Len(order) : order'[i] = order[i]
      /\ order'[Len(order) + 1] = Top
      /\ visited' = visited \cup {Top}
  BY <1>1, <1>2, Appends DEF visited
<1>4. /\ path' \in Seq(Services) /\ Len(path') = Len(path) - 1
      /\ \A i \in 1..Len(path') : path'[i] = path[i]
      /\ visiting' = visiting \ {Top}
      /\ Once(path')
  BY <1>1, <1>2, Fronts DEF visiting, Top
<1>5. deps[Top] \subseteq visited
  <2>1. Pending(Len(path)) BY <1>1, <1>2 DEF OrderInv, Covered
  <2>2. QED BY <1>1, <1>2, <2>1 DEF Pending, Top
<1>6. Top \notin visited BY <1>2
<1>7. OrderTypeOK' BY <1>1, <1>3, <1>4 DEF OrderInv, OrderTypeOK
<1>8. Closed'
  <2>1. Once(order') BY <1>1, <1>2, <1>6, OnceAppended DEF visited
  <2>2. ASSUME NEW i \in 1..Len(order')
        PROVE  deps'[order'[i]] \subseteq {order'[j] : j \in 1..(i - 1)}
    <3>1. CASE i \in 1..Len(order)
      <4>1. deps[order[i]] \subseteq {order[j] : j \in 1..(i - 1)}
        BY <3>1 DEF OrderInv, Closed
      <4>2. \A j \in 1..(i - 1) : order'[j] = order[j] BY <1>2, <1>3, <3>1
      <4>3. QED BY <1>1, <1>3, <3>1, <4>1, <4>2
    <3>2. CASE i = Len(order) + 1
      <4>1. visited = {order[j] : j \in 1..(i - 1)} BY <1>2, <3>2 DEF visited, Elems
      <4>2. \A j \in 1..(i - 1) : order'[j] = order[j] BY <1>2, <1>3, <3>2
      <4>3. QED BY <1>1, <1>3, <1>5, <3>2, <4>1, <4>2
    <3>3. QED BY <1>2, <1>3, <3>1, <3>2
  <2>3. ASSUME NEW C \in SUBSET visited', C # {} PROVE \E s \in C : deps[s] \cap C = {}
    <3>1. CASE C = {Top} BY <1>5, <1>6, <3>1
    <3>2. CASE C \ {Top} # {}
      <4>1. PICK s \in C \ {Top} : deps[s] \cap (C \ {Top}) = {}
        <5>1. C \ {Top} \in SUBSET visited BY <1>3, <2>3
        <5>2. QED BY <3>2, <5>1 DEF OrderInv, Closed
      <4>2. s \in visited BY <1>3, <2>3, <4>1
      <4>3. deps[s] \subseteq visited
        <5>1. PICK i \in 1..Len(order) : order[i] = s BY <4>2 DEF visited, Elems
        <5>2. deps[s] \subseteq {order[j] : j \in 1..(i - 1)} BY <5>1 DEF OrderInv, Closed
        <5>3. QED BY <1>2, <5>1, <5>2 DEF visited, Elems
      <4>4. QED BY <1>6, <4>1, <4>3
    <3>3. QED BY <2>3, <3>1, <3>2
  <2>4. QED BY <1>1, <2>1, <2>2, <2>3 DEF Closed
<1>9. Chained'
  <2>1. (visiting \cap visited = {})' BY <1>2, <1>3, <1>4
  <2>2. ASSUME NEW i \in 1..(Len(path') - 1) PROVE path'[i + 1] \in deps'[path'[i]]
    <3>1. i \in 1..(Len(path) - 1) /\ i \in 1..Len(path') /\ i + 1 \in 1..Len(path')
      BY <1>2, <1>4
    <3>2. QED BY <1>1, <1>4, <3>1 DEF OrderInv, Chained
  <2>3. QED BY <1>4, <2>1, <2>2 DEF Chained
<1>10. Covered'
  <2>1. ASSUME NEW i \in 1..Len(path') PROVE Pending(i)'
    <3>1. i \in 1..Len(path) /\ path'[i] = path[i] BY <1>2, <1>4
    <3>2. Pending(i) BY <1>1, <3>1 DEF OrderInv, Covered
    <3>3. ASSUME NEW d \in deps[path[i]], i < Len(path), d = path[i + 1]
          PROVE  d \in visited' \/ (i < Len(path') /\ d = path'[i + 1])
      <4>1. CASE i + 1 = Len(path) BY <1>3, <3>3, <4>1 DEF Top
      <4>2. CASE i + 1 < Len(path) BY <1>2, <1>4, <3>1, <3>3, <4>2
      <4>3. QED BY <1>2, <3>1, <3>3, <4>1, <4>2
    <3>4. QED BY <1>1, <1>3, <3>1, <3>2, <3>3 DEF Pending
  <2>2. (Services \subseteq keys \cup visited \cup visiting)'
    BY <1>1, <1>3, <1>4 DEF OrderInv, Covered
  <2>3. QED BY <2>1, <2>2 DEF Covered
<1>11. QED BY <1>1, <1>7, <1>8, <1>9, <1>10 DEF OrderInv

LEMMA OrderStutters == OrderInv /\ UNCHANGED orderVars => OrderInv'
<1> SUFFICES ASSUME OrderInv, UNCHANGED orderVars PROVE OrderInv' OBVIOUS
<1>1. visited' = visited /\ visiting' = visiting BY DEF visited, visiting, Elems, orderVars
<1>2. Covered => Covered' BY <1>1 DEF Covered, Pending, orderVars
<1>3. QED BY <1>2, StayInv DEF OrderInv, OrderTypeOK, orderVars

-----------------------------------------------------------------------------
(* What the invariant says of the result.                                  *)

LEMMA OrderIsSound == OrderInv => OrderSound
<1> SUFFICES ASSUME OrderInv, verdict = "ok" PROVE Topological(order) BY DEF OrderSound
<1>1. order \in Seq(Services) /\ visited = Services BY StackType DEF OrderInv
<1>2. Len(order) = Cardinality(Services)
  BY <1>1, OnceCounts DEF OrderInv, Closed, visited
<1>3. QED BY <1>1, <1>2 DEF OrderInv, Closed, Topological, visited

LEMMA VerdictIsJust == OrderInv => VerdictJust
<1> SUFFICES ASSUME OrderInv, verdict = "ok" PROVE ~Cyclic /\ ~UnknownNamed
  BY DEF VerdictJust, OrderInv
<1>1. visited = Services /\ Len(order) \in Nat BY StackType DEF OrderInv
<1>2. ~Cyclic BY <1>1 DEF Cyclic, OrderInv, Closed
<1>3. ASSUME NEW s \in Services PROVE deps[s] \subseteq Services
  <2>1. PICK i \in 1..Len(order) : order[i] = s BY <1>1 DEF visited, Elems
  <2>2. deps[s] \subseteq {order[j] : j \in 1..(i - 1)} BY <2>1 DEF OrderInv, Closed
  <2>3. QED BY <1>1, <2>1, <2>2 DEF visited, Elems
<1>4. QED BY <1>2, <1>3, ForgeAssumption DEF UnknownNamed

(***************************************************************************)
(* forge up and forge down.                                                *)
(***************************************************************************)
ContType ==
  /\ made \in 0..MaxContainers
  /\ service \in [Ids -> 0..N]
  /\ state \in [Ids -> {"none", "created", "running", "ended"}]
  /\ dir \in [Ids -> BOOLEAN] /\ monitor \in [Ids -> BOOLEAN]
  /\ next \in [Loop -> 0..N]
  /\ verdict # "ok" => made = 0
  /\ \A c \in Ids : monitor[c] \/ state[c] # "none" => c \in Made

DownType ==
  /\ down \in {"idle", "find", "stop", "remove", "done"}
  /\ downOrder \in Seq(Services)
  /\ downAt \in 0..N
  /\ down \in {"stop", "remove"} => downAt > 0
  /\ target \in 0..MaxContainers

\* A container of each service before the k-th is among the first m.
Before(k, m) == \A j \in 1..(k - 1) : \E i \in 1..m : service[i] = j

\* A process in the loop, whichever it is, has all before it started by somebody.
Started ==
  /\ \A c \in Made : service[c] \in 1..N /\ Before(service[c], c - 1)
  /\ \A r \in Loop : Before(next[r], made)

ForgeInv == OrderInv /\ ContType /\ DownType /\ Started

-----------------------------------------------------------------------------
LEMMA Numbers == N \in Nat /\ MaxContainers \in Nat
BY ForgeAssumption, MaxContainersAssumption, FS_CardinalityType DEF N

LEMMA ForgeInitInv == Init => ForgeInv
<1> SUFFICES ASSUME Init PROVE ForgeInv OBVIOUS
<1> USE Numbers DEF Init
<1>1. OrderInv BY OrderInitInv
<1>2. ContType BY DEF ContType, Made, Ids, Loop, Up, OrderInit
<1>3. DownType BY EmptySeq DEF DownType
<1>4. Started
  <2>1. Made = {} BY DEF Made
  <2>2. \A r \in Loop : next[r] = 0 \/ next[r] = 1 OBVIOUS
  <2>3. QED BY <2>1, <2>2 DEF Started, Before
<1>5. QED BY <1>1, <1>2, <1>3, <1>4 DEF ForgeInv

LEMMA OrderStep == OrderInv /\ (OrderNext \/ UNCHANGED orderVars) => OrderInv'
BY NextKeyInv, NextDependencyInv, UnknownInv, ReturnInv, ResolvedInv, OrderStutters DEF OrderNext

LEMMA ResolveInv == ForgeInv /\ Resolve => ForgeInv'
<1> SUFFICES ASSUME ForgeInv, Resolve PROVE ForgeInv' OBVIOUS
<1>1. verdict = "pending" /\ UNCHANGED <<contVars, downVars>>
  BY DEF Resolve, OrderNext, NextKey, UnknownDependency, NextDependency, Return, Resolved
<1>2. OrderInv' BY OrderStep DEF ForgeInv, Resolve
<1>3. ContType' BY <1>1 DEF ForgeInv, ContType, Made, contVars
<1>4. DownType' BY <1>1 DEF ForgeInv, DownType, downVars
<1>5. Started' BY <1>1 DEF ForgeInv, Started, Before, Made, contVars
<1>6. QED BY <1>2, <1>3, <1>4, <1>5 DEF ForgeInv

\* What leaves the order and the containers made as they are.
LEMMA ContStep ==
  ASSUME ForgeInv, UNCHANGED <<orderVars, made, service>>, ContType', DownType',
         \A r \in Loop : next'[r] = next[r] \/ Before(next'[r], made)
  PROVE  ForgeInv'
<1>1. OrderInv' BY OrderStep DEF ForgeInv
<1>2. \A r \in Loop : Before(next'[r], made) BY DEF ForgeInv, Started
<1>3. Started' BY <1>2 DEF ForgeInv, Started, Before, Made
<1>4. QED BY <1>1, <1>3 DEF ForgeInv

LEMMA MakesInv ==
  ASSUME ForgeInv, NEW r \in Loop, Makes(r)
  PROVE  ForgeInv'
<1> USE Numbers
<1>1. /\ verdict = "ok" /\ next[r] # 0 /\ made < MaxContainers /\ made' = made + 1
      /\ service' = [service EXCEPT ![made'] = next[r]]
      /\ state' = [state EXCEPT ![made'] = "created"]
      /\ dir' = [dir EXCEPT ![made'] = TRUE] /\ monitor' = [monitor EXCEPT ![made'] = TRUE]
      /\ next' = [next EXCEPT ![r] = After(next[r])]
      /\ UNCHANGED <<orderVars, downVars>>
  BY DEF Makes, InLoop
<1>2. /\ made \in Nat /\ made + 1 \in Ids /\ next[r] \in 1..N
      /\ Made \subseteq Ids /\ Made' = Made \cup {made + 1} /\ made + 1 \notin Made
  BY <1>1 DEF ForgeInv, ContType, Ids, Made
<1>3. After(next[r]) \in 0..N BY <1>2 DEF After
<1>4. ContType' BY <1>1, <1>2, <1>3 DEF ForgeInv, ContType, orderVars
<1>5. DownType' BY <1>1 DEF ForgeInv, DownType, downVars
<1>6. service'[made + 1] = next[r] /\ \A c \in Made : service'[c] = service[c]
  BY <1>1, <1>2 DEF ForgeInv, ContType
<1>7. ASSUME NEW k \in Int, NEW m \in 0..made, Before(k, m) PROVE Before(k, m)'
  BY <1>2, <1>6, <1>7 DEF Before, Made
<1>8. ASSUME NEW c \in Made' PROVE service'[c] \in 1..N /\ Before(service[c], c - 1)'
  <2>1. CASE c \in Made
    <3>1. service[c] \in 1..N /\ Before(service[c], c - 1) BY <2>1 DEF ForgeInv, Started
    <3>2. c - 1 \in 0..made /\ service[c] \in Int BY <1>2, <2>1, <3>1 DEF Made
    <3>3. Before(service[c], c - 1)' BY <1>2, <1>6, <2>1, <3>1, <3>2 DEF Before, Made
    <3>4. QED BY <1>6, <2>1, <3>1, <3>3
  <2>2. CASE c = made + 1
    <3>1. Before(next[r], made) /\ c - 1 = made BY <1>2, <2>2 DEF ForgeInv, Started
    <3>2. QED BY <1>2, <1>6, <2>2, <3>1 DEF Before, Made
  <2>3. QED BY <1>2, <2>1, <2>2
<1>9. ASSUME NEW q \in Loop PROVE Before(next[q], made)'
  <2>1. \A j \in 1..(next[q] - 1) : \E i \in 1..made : service'[i] = j
    BY <1>2, <1>6 DEF ForgeInv, Started, Before, Made
  <2>2. CASE q # r
    <3>1. next'[q] = next[q] BY <1>1, <2>2 DEF ForgeInv, ContType
    <3>2. QED BY <1>1, <1>2, <2>1, <3>1 DEF Before
  <2>3. CASE q = r
    <3>1. next'[q] = After(next[r]) BY <1>1, <2>3 DEF ForgeInv, ContType
    <3>2. CASE next'[q] = 0 BY <3>2 DEF Before
    <3>3. CASE next'[q] = next[r] + 1
      <4>1. \A j \in 1..(next'[q] - 1) : j \in 1..(next[q] - 1) \/ j = next[r]
        BY <1>2, <2>3, <3>3
      <4>2. \A j \in 1..(next'[q] - 1) : \E i \in 1..made' : service'[i] = j
        BY <1>1, <1>2, <1>6, <2>1, <4>1
      <4>3. QED BY <4>2 DEF Before
    <3>4. QED BY <3>1, <3>2, <3>3 DEF After
  <2>4. QED BY <2>2, <2>3
<1>10. Started' BY <1>8, <1>9 DEF Started
<1>11. OrderInv' BY <1>1, OrderStep DEF ForgeInv
<1>12. QED BY <1>4, <1>5, <1>10, <1>11 DEF ForgeInv

LEMMA MonitorReturnsInv ==
  ASSUME ForgeInv, NEW c \in Ids, MonitorReturns(c)
  PROVE  ForgeInv'
<1> USE Numbers
<1>1. /\ monitor[c] /\ monitor' = [monitor EXCEPT ![c] = FALSE]
      /\ next' = [next EXCEPT ![c] = IF dir[c] THEN After(service[c]) ELSE 0]
      /\ UNCHANGED <<orderVars, made, service, state, dir, downVars>>
  BY DEF MonitorReturns
<1>2. /\ c \in Made /\ made \in Nat /\ c \in Nat /\ service[c] \in 1..N
      /\ Before(service[c], c - 1)
  BY <1>1 DEF ForgeInv, ContType, Started, Made, Ids
<1>3. c \in Loop /\ After(service[c]) \in 0..N BY <1>2 DEF Loop, After
<1>4. ContType' BY <1>1, <1>3 DEF ForgeInv, ContType, Made, orderVars
<1>5. DownType' BY <1>1 DEF ForgeInv, DownType, downVars
<1>6. Before(0, made) BY DEF Before
<1>7. Before(service[c] + 1, made)
  <2> SUFFICES ASSUME NEW j \in 1..service[c] PROVE \E i \in 1..made : service[i] = j
    BY <1>2 DEF Before
  <2>1. CASE j = service[c] BY <1>2, <2>1 DEF Made
  <2>2. CASE j \in 1..(service[c] - 1) BY <1>2, <2>2 DEF Before, Made
  <2>3. QED BY <1>2, <2>1, <2>2
<1>8. \A r \in Loop : next'[r] = next[r] \/ Before(next'[r], made)
  BY <1>1, <1>6, <1>7 DEF ForgeInv, ContType, After
<1>9. QED BY <1>1, <1>4, <1>5, <1>8, ContStep

\* What happens to one container leaves what was made as it is.
LEMMA OthersInv ==
  ForgeInv /\ ((\E r \in Loop : GivesUp(r))
               \/ (\E c \in Ids : Launches(c) \/ LaunchFails(c) \/ Ends(c))) => ForgeInv'
<1> USE Numbers
<1>1. ASSUME ForgeInv, NEW r \in Loop, GivesUp(r) PROVE ForgeInv'
  <2>1. /\ next' = [next EXCEPT ![r] = 0]
        /\ UNCHANGED <<orderVars, made, service, state, dir, monitor, downVars>>
    BY <1>1 DEF GivesUp
  <2>2. ContType' BY <1>1, <2>1 DEF ForgeInv, ContType, Made, orderVars
  <2>3. DownType' BY <1>1, <2>1 DEF ForgeInv, DownType, downVars
  <2>4. \A q \in Loop : next'[q] = next[q] \/ Before(next'[q], made)
    BY <1>1, <2>1 DEF ForgeInv, ContType, Before
  <2>5. QED BY <1>1, <2>1, <2>2, <2>3, <2>4, ContStep
<1>2. ASSUME ForgeInv, NEW c \in Ids, Launches(c) \/ LaunchFails(c) \/ Ends(c) PROVE ForgeInv'
  <2>1. /\ state[c] # "none"
        /\ \E s \in {"running", "ended"} : state' = [state EXCEPT ![c] = s]
        /\ \/ UNCHANGED monitor
           \/ monitor' = [monitor EXCEPT ![c] = dir[c]]
           \/ monitor' = [monitor EXCEPT ![c] = FALSE]
        /\ UNCHANGED <<orderVars, made, service, dir, next, downVars>>
    BY <1>2 DEF Launches, LaunchFails, Ends
  <2>2. ContType' BY <1>2, <2>1 DEF ForgeInv, ContType, Made, orderVars
  <2>3. DownType' BY <1>2, <2>1 DEF ForgeInv, DownType, downVars
  <2>4. QED BY <1>2, <2>1, <2>2, <2>3, ContStep
<1>3. QED BY <1>1, <1>2

LEMMA DownInv == ForgeInv /\ (DownBegins \/ DownStep) => ForgeInv'
<1> USE Numbers
<1>1. ASSUME ForgeInv, DownBegins PROVE ForgeInv'
  <2>1. /\ downOrder' \in [1..N -> Services] /\ downAt' = N /\ down' = "find"
        /\ UNCHANGED <<orderVars, contVars, target>>
    BY <1>1 DEF DownBegins
  <2>2. downOrder' \in Seq(Services) BY <2>1
  <2>3. DownType' BY <1>1, <2>1, <2>2 DEF ForgeInv, DownType
  <2>4. ContType' BY <1>1, <2>1 DEF ForgeInv, ContType, Made, contVars, orderVars
  <2>5. QED BY <1>1, <2>1, <2>3, <2>4, ContStep DEF contVars
<1>2. ASSUME ForgeInv, DownFinds PROVE ForgeInv'
  <2>1. /\ downAt > 0 /\ down = "find" /\ UNCHANGED <<orderVars, contVars, downOrder>>
        /\ \/ downAt' = downAt - 1 /\ UNCHANGED <<down, target>>
           \/ target' \in Ids /\ down' = "stop" /\ UNCHANGED downAt
    BY <1>2 DEF DownFinds
  <2>2. DownType' BY <1>2, <2>1 DEF ForgeInv, DownType, Ids
  <2>3. ContType' BY <1>2, <2>1 DEF ForgeInv, ContType, Made, contVars, orderVars
  <2>4. QED BY <1>2, <2>1, <2>2, <2>3, ContStep DEF contVars
<1>3. ASSUME ForgeInv, DownStops PROVE ForgeInv'
  <2>1. /\ down = "stop" /\ down' = "remove"
        /\ state' = [state EXCEPT ![target] = IF state[target] = "running" THEN "ended" ELSE state[target]]
        /\ UNCHANGED <<orderVars, made, service, dir, monitor, next, downOrder, downAt, target>>
    BY <1>3 DEF DownStops
  <2>2. DownType' BY <1>3, <2>1 DEF ForgeInv, DownType
  <2>3. ContType' BY <1>3, <2>1 DEF ForgeInv, ContType, Made, orderVars
  <2>4. QED BY <1>3, <2>1, <2>2, <2>3, ContStep
<1>4. ASSUME ForgeInv, DownRemoves PROVE ForgeInv'
  <2>1. /\ down = "remove" /\ down' = "find" /\ downAt' = downAt - 1 /\ target' = 0
        /\ dir' = [dir EXCEPT ![target] = FALSE]
        /\ UNCHANGED <<orderVars, made, service, state, monitor, next, downOrder>>
    BY <1>4 DEF DownRemoves
  <2>2. DownType' BY <1>4, <2>1 DEF ForgeInv, DownType
  <2>3. ContType' BY <1>4, <2>1 DEF ForgeInv, ContType, Made, orderVars
  <2>4. QED BY <1>4, <2>1, <2>2, <2>3, ContStep
<1>5. ASSUME ForgeInv, DownDone PROVE ForgeInv'
  <2>1. down' = "done" /\ UNCHANGED <<orderVars, contVars, downOrder, downAt, target>>
    BY <1>5 DEF DownDone
  <2>2. DownType' BY <1>5, <2>1 DEF ForgeInv, DownType
  <2>3. ContType' BY <1>5, <2>1 DEF ForgeInv, ContType, Made, contVars, orderVars
  <2>4. QED BY <1>5, <2>1, <2>2, <2>3, ContStep DEF contVars
<1>6. QED BY <1>1, <1>2, <1>3, <1>4, <1>5 DEF DownStep

LEMMA ForgeStutters == ForgeInv /\ UNCHANGED vars => ForgeInv'
<1> SUFFICES ASSUME ForgeInv, UNCHANGED vars PROVE ForgeInv' OBVIOUS
<1>1. UNCHANGED <<orderVars, contVars, downVars>> BY DEF vars
<1>2. ContType' /\ DownType'
  BY <1>1 DEF ForgeInv, ContType, DownType, Made, contVars, downVars, orderVars
<1>3. QED BY <1>1, <1>2, ContStep DEF contVars

-----------------------------------------------------------------------------
\* The invariant of forge holds throughout (main.rs 1563-1701).
THEOREM ForgeInvariant == Spec => []ForgeInv
<1>1. ForgeInv /\ [Next]_vars => ForgeInv'
  BY ResolveInv, MakesInv, OthersInv, MonitorReturnsInv, DownInv, ForgeStutters DEF Next
<1>2. QED BY <1>1, ForgeInitInv, PTL DEF Spec

\* Types, while forge starts and takes down what it has resolved.
THEOREM ForgeTypeSafe == Spec => []TypeOK
<1>1. ForgeInv => TypeOK BY DEF ForgeInv, OrderInv, ContType, DownType, TypeOK
<1>2. QED BY <1>1, ForgeInvariant, PTL

\* For every file of every number of services, and every order of the keys, what is
\* resolved has every service once, and after everything it depends on
\* (compose.rs 137-138).
THEOREM OrderSoundSafe == Spec => []OrderSound
<1>1. ForgeInv => OrderSound BY OrderIsSound DEF ForgeInv
<1>2. QED BY <1>1, ForgeInvariant, PTL

\* A file is refused for a cycle or an unknown name that it has, and one that has
\* neither is resolved (compose.rs 161-174).
THEOREM VerdictJustSafe == Spec => []VerdictJust
<1>1. ForgeInv => VerdictJust BY VerdictIsJust DEF ForgeInv
<1>2. QED BY <1>1, ForgeInvariant, PTL

\* Whoever makes a container in the loop, forge up or a monitor that has come back
\* into it, one of each service it depends on was made before (compose.rs 69-70).
THEOREM StartsInOrderSafe == Spec => []StartsInOrder
<1>1. ForgeInv => StartsInOrder
  <2> SUFFICES ASSUME ForgeInv, NEW c \in Made, NEW d \in deps[order[service[c]]]
               PROVE  \E k \in 1..(c - 1) : order[service[k]] = d
    BY DEF StartsInOrder
  <2>1. verdict = "ok" BY DEF ForgeInv, ContType, Made
  <2>2. Topological(order) BY <2>1, OrderIsSound DEF ForgeInv, OrderSound
  <2>3. service[c] \in 1..N /\ Before(service[c], c - 1) BY DEF ForgeInv, Started
  <2>4. PICK j \in 1..(service[c] - 1) : d = order[j]
    BY <2>2, <2>3 DEF Topological, N
  <2>5. QED BY <2>3, <2>4 DEF Before
<1>2. QED BY <1>1, ForgeInvariant, PTL

(***************************************************************************)
(* The cascade.                                                            *)
(***************************************************************************)
\* The containers of the k-th service, those of the services before it, and the
\* processes that may still make one of it: they are in the loop and not past it, or
\* will come back before it.
Of(k)      == {c \in Made : service[c] = k}
Upto(k)    == {c \in Made : service[c] < k}
MayMake(k) == {r \in Loop : next[r] \in 1..k \/ (r # Up /\ monitor[r] /\ service[r] < k)}

\* A container comes into the loop when its monitor has returned, which it does once.
Turns == \A c \in Ids : next[c] # 0 => c \in Made /\ ~monitor[c]

\* forge up and each container of a service before it make one of the k-th at most.
Budget == \A k \in 1..N : Cardinality(Of(k)) + Cardinality(MayMake(k)) <= Cardinality(Upto(k)) + 1

\* Induction in the form that needs no operator.
LEMMA Induct ==
  ASSUME NEW G \in SUBSET Nat, 0 \in G, \A n \in G : n + 1 \in G
  PROVE  G = Nat
<1> SUFFICES ASSUME NEW bad \in Nat \ G PROVE FALSE OBVIOUS
<1> DEFINE T == {0..k : k \in Nat \ G}
<1>1. T \subseteq FiniteSubsetsOf(Nat) /\ T # {}
  <2>1. \A n \in Nat : 0..n \subseteq Nat /\ IsFiniteSet(0..n) BY FS_Interval
  <2>2. QED BY <2>1 DEF FiniteSubsetsOf
<1>2. PICK t \in T : \A u \in T : <<u, t>> \notin StrictSubsetOrdering(Nat)
  <2> HIDE DEF T
  <2>1. IsWellFoundedOn(StrictSubsetOrdering(Nat), FiniteSubsetsOf(Nat))
    BY FS_StrictSubsetOrderingWellFounded
  <2>2. QED BY <1>1, <2>1, WFMin
<1>3. PICK m \in Nat \ G : t = 0..m OBVIOUS
<1>4. m - 1 \in Nat \ G
  <2>1. m # 0 OBVIOUS
  <2>2. m - 1 \in Nat /\ (m - 1) + 1 = m BY <2>1
  <2>3. QED BY <2>2
<1>5. 0..(m - 1) \subseteq 0..m /\ 0..(m - 1) # 0..m /\ 0..m \subseteq Nat
  <2>1. m \in 0..m /\ m \notin 0..(m - 1) OBVIOUS
  <2>2. QED BY <2>1
<1>6. <<0..(m - 1), 0..m>> \in StrictSubsetOrdering(Nat) BY <1>5 DEF StrictSubsetOrdering
<1>7. QED BY <1>2, <1>3, <1>4, <1>6

\* The powers of two, by the number of subsets.
LEMMA Powers ==
  /\ 2^0 = 1
  /\ \A n \in Nat : 2^n \in Nat /\ 2^(n + 1) = 2 * 2^n
<1>1. ASSUME NEW n \in Nat
      PROVE  IsFiniteSet(SUBSET (1..n)) /\ Cardinality(SUBSET (1..n)) = 2^n /\ 2^n \in Nat
  <2>1. IsFiniteSet(1..n) /\ Cardinality(1..n) = n BY FS_Interval
  <2>2. QED BY <2>1, FS_SUBSET, FS_CardinalityType
<1>2. 2^0 = 1
  <2>1. 1..0 = {} /\ SUBSET {} = {{}} OBVIOUS
  <2>2. Cardinality(SUBSET (1..0)) = 1 BY <2>1, FS_Singleton
  <2>3. QED BY <1>1, <2>2
<1>3. ASSUME NEW n \in Nat PROVE 2^(n + 1) = 2 * 2^n
  <2> DEFINE S == SUBSET (1..n)
             T == {s \cup {n + 1} : s \in S}
             f == [s \in S |-> s \cup {n + 1}]
  <2>1. IsFiniteSet(S) /\ Cardinality(S) = 2^n /\ 2^n \in Nat BY <1>1
  <2>2. f \in Bijection(S, T)
    <3>1. f \in [S -> T] OBVIOUS
    <3>2. \A s, u \in S : f[s] = f[u] => s = u
      <4>1. \A s \in S : s = f[s] \ {n + 1} OBVIOUS
      <4>2. QED BY <4>1
    <3>3. \A t \in T : \E s \in S : f[s] = t OBVIOUS
    <3>4. QED BY <3>1, <3>2, <3>3 DEF Bijection, Injection, Surjection, IsInjective
  <2>3. IsFiniteSet(T) /\ Cardinality(T) = 2^n
    BY <2>1, <2>2, FS_Bijection DEF ExistsBijection
  <2>4. SUBSET (1..(n + 1)) = S \cup T
    <3>1. 1..(n + 1) = (1..n) \cup {n + 1} OBVIOUS
    <3>2. ASSUME NEW u \in SUBSET (1..(n + 1)) PROVE u \in S \cup T
      <4>1. CASE n + 1 \in u
        <5>1. u \ {n + 1} \in S /\ u = (u \ {n + 1}) \cup {n + 1} BY <3>1, <4>1
        <5>2. QED BY <5>1
      <4>2. CASE n + 1 \notin u BY <3>1, <4>2
      <4>3. QED BY <4>1, <4>2
    <3>3. ASSUME NEW u \in S \cup T PROVE u \in SUBSET (1..(n + 1)) BY <3>1
    <3>4. QED BY <3>2, <3>3
  <2>5. S \cap T = {} OBVIOUS
  <2> HIDE DEF S, T
  <2>6. Cardinality(S \cup T) = 2^n + 2^n BY <2>1, <2>3, <2>5, FS_Union, FS_EmptySet
  <2>7. n + 1 \in Nat OBVIOUS
  <2>8. Cardinality(SUBSET (1..(n + 1))) = 2^(n + 1) BY <1>1, <2>7
  <2>9. QED BY <2>1, <2>4, <2>6, <2>8
<1>4. QED BY <1>1, <1>2, <1>3

LEMMA FiniteParts ==
  ASSUME ForgeInv, NEW k
  PROVE  /\ IsFiniteSet(Of(k)) /\ IsFiniteSet(Upto(k)) /\ IsFiniteSet(MayMake(k))
         /\ Cardinality(Of(k)) \in Nat /\ Cardinality(Upto(k)) \in Nat
         /\ Cardinality(MayMake(k)) \in Nat
<1>1. IsFiniteSet(Made) /\ IsFiniteSet(Loop)
  <2>1. made \in Nat /\ MaxContainers \in Nat BY Numbers DEF ForgeInv, ContType
  <2>2. IsFiniteSet(Made) /\ IsFiniteSet(Ids) BY <2>1, FS_Interval DEF Made, Ids
  <2>3. IsFiniteSet({Up}) BY FS_Singleton
  <2>4. QED BY <2>2, <2>3, FS_Union DEF Loop
<1>2. Of(k) \subseteq Made /\ Upto(k) \subseteq Made /\ MayMake(k) \subseteq Loop
  BY DEF Of, Upto, MayMake
<1>3. IsFiniteSet(Of(k)) /\ IsFiniteSet(Upto(k)) /\ IsFiniteSet(MayMake(k))
  BY <1>1, <1>2, FS_Subset
<1>4. QED BY <1>3, FS_CardinalityType

LEMMA BudgetInit == Init => Budget
<1> SUFFICES ASSUME Init, NEW k \in 1..N
             PROVE  Cardinality(Of(k)) + Cardinality(MayMake(k)) <= Cardinality(Upto(k)) + 1
  BY DEF Budget
<1>1. Of(k) = {} /\ Upto(k) = {} BY DEF Init, Of, Upto, Made
<1>2. MayMake(k) \subseteq {Up} BY DEF Init, MayMake, Loop
<1>3. MayMake(k) = {} \/ MayMake(k) = {Up} BY <1>2
<1>4. Cardinality(MayMake(k)) \in {0, 1} BY <1>3, FS_Singleton, FS_EmptySet
<1>5. QED BY <1>1, <1>4, FS_EmptySet

\* Whoever makes nothing may make no more than before.
LEMMA BudgetKept ==
  ASSUME ForgeInv, Budget, UNCHANGED <<made, service>>,
         \A k \in 1..N : MayMake(k)' \subseteq MayMake(k)
  PROVE  Budget'
<1> SUFFICES ASSUME NEW k \in 1..N
             PROVE  Cardinality(Of(k)') + Cardinality(MayMake(k)') <= Cardinality(Upto(k)') + 1
  BY DEF Budget
<1>1. Of(k)' = Of(k) /\ Upto(k)' = Upto(k) BY DEF Of, Upto, Made
<1>2. IsFiniteSet(MayMake(k)) /\ Cardinality(MayMake(k)) \in Nat /\ Cardinality(Of(k)) \in Nat
      /\ Cardinality(Upto(k)) \in Nat
  BY FiniteParts
<1>3. Cardinality(MayMake(k)') <= Cardinality(MayMake(k)) /\ Cardinality(MayMake(k)') \in Nat
  BY <1>2, FS_Subset, FS_CardinalityType
<1>4. Cardinality(Of(k)) + Cardinality(MayMake(k)) <= Cardinality(Upto(k)) + 1 BY DEF Budget
<1>5. QED BY <1>1, <1>2, <1>3, <1>4

\* What is made uses up a turn, and may give another to those of the services after it.
LEMMA BudgetMakes ==
  ASSUME ForgeInv, Turns, Budget, NEW r \in Loop, Makes(r)
  PROVE  Turns' /\ Budget'
<1> USE Numbers
<1>1. /\ next[r] # 0 /\ made < MaxContainers /\ made' = made + 1
      /\ service' = [service EXCEPT ![made'] = next[r]]
      /\ monitor' = [monitor EXCEPT ![made'] = TRUE]
      /\ next' = [next EXCEPT ![r] = After(next[r])]
  BY DEF Makes, InLoop
<1>2. PICK new : new = made + 1 OBVIOUS
<1>3. /\ made \in Nat /\ new \in Ids /\ new # Up /\ next[r] \in 1..N
      /\ Made \subseteq Ids /\ Made' = Made \cup {new} /\ new \notin Made
  BY <1>1, <1>2 DEF ForgeInv, ContType, Ids, Made, Up
<1>4. /\ service'[new] = next[r] /\ monitor'[new] = TRUE
      /\ \A c \in Ids \ {new} : service'[c] = service[c] /\ monitor'[c] = monitor[c]
      /\ next'[r] = After(next[r]) /\ \A q \in Loop \ {r} : next'[q] = next[q]
  BY <1>1, <1>2, <1>3 DEF ForgeInv, ContType
<1>5. /\ \A q \in Loop : q # Up => q \in Ids
      /\ new \in Loop /\ next[new] = 0 /\ new # r
      /\ r # Up => ~monitor[r]
      /\ After(next[r]) \in {0, next[r] + 1}
  BY <1>1, <1>3 DEF Loop, Turns, After
<1>6. Turns'
  <2> SUFFICES ASSUME NEW c \in Ids, next'[c] # 0 PROVE c \in Made' /\ ~monitor'[c]
    BY DEF Turns, Ids
  <2>1. c \in Loop /\ (c # r => next'[c] = next[c]) BY <1>4 DEF Loop
  <2>2. next[c] # 0 BY <1>1, <2>1
  <2>3. c # new /\ c \in Made /\ ~monitor[c] BY <1>5, <2>2 DEF Turns
  <2>4. QED BY <1>3, <1>4, <2>3
<1>7. ASSUME NEW k \in 1..N
      PROVE  Cardinality(Of(k)') + Cardinality(MayMake(k)') <= Cardinality(Upto(k)') + 1
  <2>1. /\ IsFiniteSet(Of(k)) /\ IsFiniteSet(Upto(k)) /\ IsFiniteSet(MayMake(k))
        /\ Cardinality(Of(k)) \in Nat /\ Cardinality(Upto(k)) \in Nat
        /\ Cardinality(MayMake(k)) \in Nat
    BY FiniteParts
  <2>2. Cardinality(Of(k)) + Cardinality(MayMake(k)) <= Cardinality(Upto(k)) + 1
    BY <1>7 DEF Budget
  <2>3. new \notin Of(k) /\ new \notin Upto(k) BY <1>3 DEF Of, Upto
  <2>4. \A c \in Made : service'[c] = service[c] BY <1>3, <1>4
  <2>5. CASE next[r] = k
    <3>1. Of(k)' = Of(k) \cup {new} /\ Upto(k)' = Upto(k)
      BY <1>3, <1>4, <2>4, <2>5 DEF Of, Upto
    <3>2. r \in MayMake(k) BY <1>3, <2>5 DEF MayMake
    <3>3. ASSUME NEW q \in MayMake(k)' PROVE q \in MayMake(k) \ {r}
      <4>1. q \in Loop /\ (next'[q] \in 1..k \/ (q # Up /\ monitor'[q] /\ service'[q] < k))
        BY <3>3 DEF MayMake, Loop, Ids
      <4>2. q # r
        BY <1>3, <1>4, <1>5, <2>5, <4>1
      <4>3. q # new
        BY <1>3, <1>4, <1>5, <2>5, <4>1, <4>2
      <4>4. QED BY <1>4, <1>5, <4>1, <4>2, <4>3 DEF MayMake
    <3>4. Cardinality(Of(k)') = Cardinality(Of(k)) + 1 BY <2>1, <2>3, <3>1, FS_AddElement
    <3>5. IsFiniteSet(MayMake(k) \ {r})
          /\ Cardinality(MayMake(k) \ {r}) = Cardinality(MayMake(k)) - 1
      BY <2>1, <3>2, FS_RemoveElement
    <3>6. MayMake(k)' \subseteq MayMake(k) \ {r} BY <3>3
    <3>7. Cardinality(MayMake(k)') \in Nat
          /\ Cardinality(MayMake(k)') <= Cardinality(MayMake(k) \ {r})
      BY <3>5, <3>6, FS_Subset, FS_CardinalityType
    <3>8. QED BY <2>1, <2>2, <3>1, <3>4, <3>5, <3>7
  <2>6. CASE next[r] < k
    <3>1. Of(k)' = Of(k) /\ Upto(k)' = Upto(k) \cup {new}
      BY <1>3, <1>4, <2>4, <2>6 DEF Of, Upto
    <3>2. r \in MayMake(k) BY <1>3, <2>6 DEF MayMake
    <3>3. ASSUME NEW q \in MayMake(k)' PROVE q \in MayMake(k) \cup {new}
      <4>1. q \in Loop /\ (next'[q] \in 1..k \/ (q # Up /\ monitor'[q] /\ service'[q] < k))
        BY <3>3 DEF MayMake, Loop, Ids
      <4>2. QED BY <1>4, <1>5, <3>2, <4>1 DEF MayMake
    <3>4. Cardinality(Upto(k)') = Cardinality(Upto(k)) + 1 BY <2>1, <2>3, <3>1, FS_AddElement
    <3>5. IsFiniteSet(MayMake(k) \cup {new})
          /\ Cardinality(MayMake(k) \cup {new}) <= Cardinality(MayMake(k)) + 1
          /\ Cardinality(MayMake(k) \cup {new}) \in Nat
      <4>1. IsFiniteSet(MayMake(k) \cup {new})
            /\ Cardinality(MayMake(k) \cup {new})
                 \in {Cardinality(MayMake(k)), Cardinality(MayMake(k)) + 1}
        BY <2>1, FS_AddElement
      <4>2. QED BY <2>1, <4>1
    <3>6. MayMake(k)' \subseteq MayMake(k) \cup {new} BY <3>3
    <3>7. Cardinality(MayMake(k)') \in Nat
          /\ Cardinality(MayMake(k)') <= Cardinality(MayMake(k) \cup {new})
      BY <3>5, <3>6, FS_Subset, FS_CardinalityType
    <3>8. QED BY <2>1, <2>2, <3>1, <3>4, <3>5, <3>7
  <2>7. CASE next[r] > k
    <3>1. Of(k)' = Of(k) /\ Upto(k)' = Upto(k)
      BY <1>3, <1>4, <2>4, <2>7 DEF Of, Upto
    <3>2. ASSUME NEW q \in MayMake(k)' PROVE q \in MayMake(k)
      <4>1. q \in Loop /\ (next'[q] \in 1..k \/ (q # Up /\ monitor'[q] /\ service'[q] < k))
        BY <3>2 DEF MayMake, Loop, Ids
      <4>2. q # r
        BY <1>3, <1>4, <1>5, <2>7, <4>1
      <4>3. q # new
        BY <1>3, <1>4, <1>5, <2>7, <4>1, <4>2
      <4>4. QED BY <1>4, <1>5, <4>1, <4>2, <4>3 DEF MayMake
    <3>3. MayMake(k)' \subseteq MayMake(k) BY <3>2
    <3>4. Cardinality(MayMake(k)') \in Nat /\ Cardinality(MayMake(k)') <= Cardinality(MayMake(k))
      BY <2>1, <3>3, FS_Subset, FS_CardinalityType
    <3>5. QED BY <2>1, <2>2, <3>1, <3>4
  <2>8. QED BY <1>3, <2>5, <2>6, <2>7
<1>8. QED BY <1>6, <1>7 DEF Budget

\* A monitor that returns takes its one turn; nobody else gets another.
LEMMA BudgetStep ==
  ASSUME ForgeInv, Turns, Budget, [Next]_vars
  PROVE  Turns' /\ Budget'
<1> USE Numbers
<1>1. /\ made \in Nat /\ next \in [Loop -> 0..N] /\ monitor \in [Ids -> BOOLEAN]
      /\ service \in [Ids -> 0..N] /\ Ids \subseteq Loop /\ Up \in Loop
      /\ \A c \in Ids : c # Up /\ (monitor[c] => c \in Made)
  BY DEF ForgeInv, ContType, Loop, Ids, Up
<1>2. ASSUME UNCHANGED <<made, service>>,
             \A r \in Loop : next'[r] # 0 => next'[r] = next[r],
             \A c \in Ids : monitor'[c] => monitor[c]
      PROVE  Turns' /\ Budget'
  <2>1. Turns' BY <1>1, <1>2 DEF Turns, Made, Ids
  <2>2. \A k \in 1..N : MayMake(k)' \subseteq MayMake(k)
    BY <1>1, <1>2 DEF MayMake, Loop, Ids
  <2>3. QED BY <1>2, <2>1, <2>2, BudgetKept
<1>3. ASSUME NEW c \in Ids, MonitorReturns(c) PROVE Turns' /\ Budget'
  <2>1. /\ monitor[c] /\ monitor' = [monitor EXCEPT ![c] = FALSE]
        /\ next' = [next EXCEPT ![c] = IF dir[c] THEN After(service[c]) ELSE 0]
        /\ UNCHANGED <<made, service>>
    BY <1>3 DEF MonitorReturns
  <2>2. c \in Made /\ service[c] \in 1..N BY <1>1, <2>1 DEF ForgeInv, Started
  <2>3. Turns' BY <1>1, <2>1, <2>2 DEF Turns, Made, Ids
  <2>4. ASSUME NEW k \in 1..N, NEW r \in MayMake(k)' PROVE r \in MayMake(k)
    <3>1. r \in Loop /\ (next'[r] \in 1..k \/ (r # Up /\ monitor'[r] /\ service'[r] < k))
      BY <2>4 DEF MayMake, Loop, Ids
    <3>2. CASE r = c
      <4>1. next'[c] \in 1..k BY <1>1, <2>1, <3>1, <3>2
      <4>2. next'[c] = service[c] + 1 BY <1>1, <2>1, <4>1 DEF After
      <4>3. QED BY <1>1, <2>1, <2>2, <3>2, <4>1, <4>2 DEF MayMake
    <3>3. CASE r # c
      <4>1. r # Up => r \in Ids BY <3>1 DEF Loop
      <4>2. QED BY <1>1, <2>1, <3>1, <3>3, <4>1 DEF MayMake
    <3>4. QED BY <3>2, <3>3
  <2>5. \A k \in 1..N : MayMake(k)' \subseteq MayMake(k) BY <2>4
  <2>6. QED BY <2>1, <2>3, <2>5, BudgetKept
<1>4. ASSUME NEW c \in Ids, Launches(c) \/ LaunchFails(c) \/ Ends(c) PROVE Turns' /\ Budget'
  BY <1>1, <1>2, <1>4 DEF Launches, LaunchFails, Ends
<1>5. ASSUME NEW r \in Loop, GivesUp(r) PROVE Turns' /\ Budget'
  BY <1>1, <1>2, <1>5 DEF GivesUp
<1>6. ASSUME UNCHANGED <<made, service, next, monitor>> PROVE Turns' /\ Budget'
  BY <1>2, <1>6
<1>7. CASE Resolve \/ DownBegins \/ DownStep \/ UNCHANGED vars
  BY <1>6, <1>7 DEF Resolve, DownBegins, DownStep, DownFinds, DownStops, DownRemoves, DownDone,
                    vars, contVars
<1>8. QED BY <1>3, <1>4, <1>5, <1>7, BudgetMakes DEF Next

\* Each service at most doubles what there is.
LEMMA BudgetDoubles ==
  ASSUME ForgeInv, Budget
  PROVE  \A n \in Nat : n <= N => Cardinality(Upto(n + 1)) + 1 <= 2^n
<1> DEFINE G == {n \in Nat : n <= N => Cardinality(Upto(n + 1)) + 1 <= 2^n}
<1>1. 0 \in G
  <2>1. Upto(1) = {} BY Numbers DEF ForgeInv, Started, Upto
  <2>2. QED BY <2>1, Powers, FS_EmptySet
<1>2. ASSUME NEW n \in G PROVE n + 1 \in G
  <2> SUFFICES ASSUME n + 1 <= N PROVE Cardinality(Upto(n + 2)) + 1 <= 2^(n + 1) OBVIOUS
  <2>1. n \in Nat /\ n <= N /\ n + 1 \in 1..N BY Numbers
  <2>2. Cardinality(Upto(n + 1)) + 1 <= 2^n BY <2>1
  <2>3. /\ IsFiniteSet(Of(n + 1)) /\ IsFiniteSet(Upto(n + 1))
        /\ Cardinality(Of(n + 1)) \in Nat /\ Cardinality(Upto(n + 1)) \in Nat
        /\ Cardinality(MayMake(n + 1)) \in Nat
    BY FiniteParts
  <2>4. Cardinality(Of(n + 1)) + Cardinality(MayMake(n + 1)) <= Cardinality(Upto(n + 1)) + 1
    BY <2>1 DEF Budget
  <2>5. Upto(n + 2) = Upto(n + 1) \cup Of(n + 1) /\ Upto(n + 1) \cap Of(n + 1) = {}
    <3>1. \A c \in Made : service[c] \in Nat BY Numbers DEF ForgeInv, Started
    <3>2. QED BY <2>1, <3>1 DEF Upto, Of
  <2>6. Cardinality(Upto(n + 2)) = Cardinality(Upto(n + 1)) + Cardinality(Of(n + 1))
    <3>1. PICK a, b : a = Upto(n + 1) /\ b = Of(n + 1) OBVIOUS
    <3>2. IsFiniteSet(a) /\ IsFiniteSet(b) /\ Cardinality(a) \in Nat /\ Cardinality(b) \in Nat
          /\ a \cap b = {}
      BY <2>3, <2>5, <3>1
    <3>3. Cardinality(a \cup b) = Cardinality(a) + Cardinality(b) - Cardinality(a \cap b)
      BY <3>2, FS_Union
    <3>4. Cardinality(a \cap b) = 0 BY <3>2, FS_EmptySet
    <3>5. Cardinality(a \cup b) = Cardinality(a) + Cardinality(b) BY <3>2, <3>3, <3>4
    <3>6. QED BY <2>5, <3>1, <3>5
  <2>7. 2^n \in Nat /\ 2^(n + 1) = 2 * 2^n BY <2>1, Powers
  <2> HIDE DEF G
  <2>8. QED BY <2>2, <2>3, <2>4, <2>6, <2>7
<1> HIDE DEF G
<1>3. G \subseteq Nat BY DEF G
<1>4. G = Nat BY <1>1, <1>2, <1>3, Induct
<1>5. QED BY <1>4 DEF G

\* main.rs 1563-1600, container.rs 330-336: however many services there are and however
\* their containers end, the monitors that return into the loop make at most 2^(k-1)
\* containers of the k-th service between them.
THEOREM CascadeBoundedSafe == Spec => []CascadeBounded
<1>1. Init => Turns /\ Budget
  <2>1. Init => Turns BY Numbers DEF Init, Turns, Loop, Ids, Up
  <2>2. QED BY <2>1, BudgetInit
<1>2. ForgeInv /\ (Turns /\ Budget) /\ [Next]_vars => (Turns /\ Budget)' BY BudgetStep
<1>3. ForgeInv /\ (Turns /\ Budget) => CascadeBounded
  <2> SUFFICES ASSUME ForgeInv, Budget, NEW k \in 1..N
               PROVE  Cardinality({c \in Made : service[c] = k}) <= 2^(k - 1)
    BY DEF CascadeBounded
  <2>1. k - 1 \in Nat /\ k - 1 <= N /\ (k - 1) + 1 = k BY Numbers
  <2>2. Cardinality(Upto(k)) + 1 <= 2^(k - 1) BY <2>1, BudgetDoubles
  <2>3. Cardinality(Of(k)) + Cardinality(MayMake(k)) <= Cardinality(Upto(k)) + 1 BY DEF Budget
  <2>4. Cardinality(Of(k)) \in Nat /\ Cardinality(MayMake(k)) \in Nat
        /\ Cardinality(Upto(k)) \in Nat /\ 2^(k - 1) \in Nat
    BY <2>1, FiniteParts, Powers
  <2>5. Cardinality(Of(k)) <= 2^(k - 1) BY <2>2, <2>3, <2>4
  <2>6. QED BY <2>5 DEF Of
<1>4. QED BY <1>1, <1>2, <1>3, ForgeInvariant, PTL DEF Spec
=============================================================================
