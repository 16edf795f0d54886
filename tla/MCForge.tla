---- MODULE MCForge ----
EXTENDS Forge, TLC

CONSTANTS s1, s2, s3, other
MCServices == {s1, s2, s3}
\* Every file with three services and one name that is none.
AnyFile == [MCServices -> SUBSET (MCServices \cup {other})]
\* BOUND: all of them are resolved, and this one is started, too.
Chain == (s1 :> {}) @@ (s2 :> {s1}) @@ (s3 :> {s2})
StartedFiles == deps = Chain \/ (made = 0 /\ down = "idle")
\* Two services.
PairServices == {s1, s2}
PairFile == {(s1 :> {}) @@ (s2 :> {s1})}
====
