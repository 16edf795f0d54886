---- MODULE MCVolumes ----
EXTENDS Volumes, TLC

VolumeSymmetry == Permutations(Cmds)

\* What an idle invocation remembers, and what a file that nobody can reach holds,
\* is read no more.
Held(f) == f = img \/ Mounted(f) \/ \E u \in Users : view[u] = Fs(f)
LiveState ==
  <<[f \in Files |-> IF Held(f) THEN <<size[f], fs[f]>> ELSE <<>>],
    made, img, dir, mnt, pc, users, ghost,
    [p \in Cmds |-> CASE pc[p] = "umount" -> <<want[p], old[p]>>
                      [] Does(p, "remove") -> todo[p]
                      [] Does(p, "create") \/ Does(p, "resize") -> <<want[p]>>
                      [] OTHER -> <<>>]>>

\* BOUND of MCVolumes: no command works on the volume during a resize; no property
\* says anything of what is left then.
ResizeAlone == "resize" \notin overlapped
====
