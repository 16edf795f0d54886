----------------------------- MODULE ForgeOrder -----------------------------
(***************************************************************************)
(* compose.rs 139-182: resolve_order and topo_sort, the depth-first search *)
(* that puts the services of a Cortenforge.toml into the order in which    *)
(* they are started.  The recursion is unrolled: path is its call stack.   *)
(* The keys of the HashMap come in any order; that of depends_on is any,   *)
(* too, since the file may list them so.                                   *)
(***************************************************************************)
EXTENDS Naturals, FiniteSets, Sequences

CONSTANTS
  Services,  \* the services of the file
  Others,    \* names that are not
  Files      \* what depends_on may say

ASSUME ForgeAssumption ==
  /\ IsFiniteSet(Services)
  /\ Services \cap Others = {}
  /\ Files \subseteq [Services -> SUBSET (Services \cup Others)]

VARIABLES
  deps,      \* depends_on of each service
  keys,      \* the services that the outer loop has still to visit
  path,      \* the services whose call has not returned, the innermost last
  todo,      \* what each of these calls has still to look at
  order,     \* the result
  verdict    \* "pending", "ok", or the error: "circular", "unknown"

orderVars == <<deps, keys, path, todo, order, verdict>>

Elems(s) == {s[i] : i \in 1..Len(s)}
visiting == Elems(path)
visited  == Elems(order)
Top      == path[Len(path)]

-----------------------------------------------------------------------------
\* Mutant: a service whose call has not returned is taken for one that has.
CallBlindly(n, left) ==
  IF n \in visited \cup visiting
    THEN todo' = left /\ UNCHANGED <<path, verdict>>
    ELSE todo' = [left EXCEPT ![n] = deps[n]] /\ path' = Append(path, n) /\ UNCHANGED verdict

\* topo_sort(n) is called; left is what the caller has still to do.
Call(n, left) ==
  CASE n \in visited -> todo' = left /\ UNCHANGED <<path, verdict>>
    [] n \in visiting \ visited -> todo' = left /\ path' = path /\ verdict' = "circular"
    [] OTHER -> /\ todo' = [left EXCEPT ![n] = deps[n]]
                /\ path' = Append(path, n)
                /\ UNCHANGED verdict

NextKey ==
  /\ verdict = "pending"
  /\ path = <<>>
  /\ \E k \in keys : keys' = keys \ {k} /\ Call(k, todo)
  /\ UNCHANGED <<deps, order>>

UnknownDependency ==
  /\ verdict = "pending"
  /\ path # <<>>
  /\ todo[Top] \cap Others # {}
  /\ verdict' = "unknown"
  /\ UNCHANGED <<deps, keys, path, todo, order>>

NextDependency ==
  /\ verdict = "pending"
  /\ path # <<>>
  /\ \E d \in todo[Top] \cap Services : Call(d, [todo EXCEPT ![Top] = @ \ {d}])
  /\ UNCHANGED <<deps, keys, order>>

\* Mutant: a service comes before what it depends on.
ReturnInFront ==
  /\ verdict = "pending"
  /\ path # <<>>
  /\ todo[Top] = {}
  /\ order' = <<Top>> \o order
  /\ path' = SubSeq(path, 1, Len(path) - 1)
  /\ UNCHANGED <<deps, keys, todo, verdict>>

Return ==
  /\ verdict = "pending"
  /\ path # <<>>
  /\ todo[Top] = {}
  /\ order' = Append(order, Top)
  /\ path' = SubSeq(path, 1, Len(path) - 1)
  /\ UNCHANGED <<deps, keys, todo, verdict>>

Resolved ==
  /\ verdict = "pending"
  /\ path = <<>>
  /\ keys = {}
  /\ verdict' = "ok"
  /\ UNCHANGED <<deps, keys, path, todo, order>>

OrderInit ==
  /\ deps \in Files
  /\ keys = Services
  /\ path = <<>>
  /\ todo = [s \in Services |-> {}]
  /\ order = <<>>
  /\ verdict = "pending"

OrderNext == NextKey \/ UnknownDependency \/ NextDependency \/ Return \/ Resolved

OrderSpec == OrderInit /\ [][OrderNext]_orderVars

-----------------------------------------------------------------------------
\* Every service once, and after everything it depends on.
Topological(o) ==
  /\ Len(o) = Cardinality(Services)
  /\ Elems(o) = Services
  /\ \A i \in 1..Len(o) : deps[o[i]] \subseteq {o[j] : j \in 1..(i - 1)}

\* A set of services each of which depends on another one of the set.
Cyclic == \E C \in SUBSET Services : C # {} /\ \A s \in C : deps[s] \cap C # {}

UnknownNamed == \E s \in Services : deps[s] \cap Others # {}

\* compose.rs 137-138: what resolve_order returns has the dependencies first, and
\* every service once, whatever the order of the keys.
OrderSound == verdict = "ok" => Topological(order)

\* It refuses a file for what is wrong with it, and only for that: a cycle, a
\* name that is no service (compose.rs 161-174).
VerdictJust ==
  /\ verdict = "circular" => Cyclic
  /\ verdict = "unknown" => UnknownNamed
  /\ verdict = "ok" => ~Cyclic /\ ~UnknownNamed

OrderTypeOK ==
  /\ deps \in [Services -> SUBSET (Services \cup Others)]
  /\ keys \in SUBSET Services
  /\ path \in Seq(Services)
  /\ todo \in [Services -> SUBSET (Services \cup Others)]
  /\ order \in Seq(Services)
  /\ verdict \in {"pending", "ok", "circular", "unknown"}
=============================================================================
