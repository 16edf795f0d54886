---- MODULE MCStorage ----
EXTENDS Storage, FiniteSets, TLC

StorageSymmetry ==
  {c @@ s @@ f @@ o : c \in Permutations(Cmds), s \in Permutations(Savers),
                      f \in Permutations(Files), o \in Permutations(Os)}

\* What an invocation does not read again.
Making == {"remove", "mkdir", "extract", "truncate", "write"}
LiveState ==
  <<store, layer, dirty, life,
    IF ipc[Run] \in Making \cup Starting THEN <<cfg, disturbed>> ELSE <<>>,
    IF ipc[Run] = "copy" THEN copy ELSE Empty, layers, archive, orig, restored, ipc, spc,
    [p \in Actors |->
       <<IF ipc[p] \in Making THEN kind[p] ELSE None,
         IF ipc[p] \in {"extract", "copy"} THEN todo[p] ELSE {},
         ipc[p] \in {"remove", "prune"} /\ holds[p],
         ipc[p] \in Writing /\ met[p]>>],
    [p \in Savers |->
       <<IF spc[p] \in {"pack", "unpack"} THEN left[p] ELSE {}, mine[p],
         spc[p] # "idle" /\ touched[p]>>]>>

\* BOUND of MCStorage: snapshots are taken while the image is one that nobody has
\* written since the container was set up, and images are written while there is no
\* snapshot and the program has not been released.
SnapshotsRest == prog = "none" /\ ~linked /\ \A p \in Savers : spc[p] = "idle"
ImageRests ==
  /\ ~dirty /\ tree = Image("pulled") /\ layer # "unlinked"
  /\ \A p \in Cmds : ipc[p] = "idle"
Apart == SnapshotsRest \/ ImageRests

\* BOUND of MCStorage: two invocations write the image at a time.
TwoWrite == Cardinality(Writers) <= 2
====
