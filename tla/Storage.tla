------------------------------ MODULE Storage ------------------------------
(***************************************************************************)
(* What a container's rootfs is made of: the image below, and the changes   *)
(* above that snapshots save.  The container of Snapshots is the one that   *)
(* Run of Images starts.                                                    *)
(***************************************************************************)
EXTENDS Images, Snapshots

vars == <<ivars, svars>>

Init == ImagesInit /\ SnapshotsInit

\* The rootfs is in place: the record is written.
Starts ==
  \/ RunMounts /\ SetsUp(TRUE, FALSE)
  \/ CopyEnds /\ \E rootless \in BOOLEAN : SetsUp(FALSE, rootless)

Ends == RunEnds /\ Unmounts

Next ==
  \/ ImagesNext /\ UNCHANGED svars
  \/ SnapshotsNext /\ UNCHANGED ivars
  \/ Starts \/ Ends

Spec == Init /\ [][Next]_vars

-----------------------------------------------------------------------------

TypeOK ==
  /\ tag \in BOOLEAN /\ root \in BOOLEAN
  /\ tree \in [Parts -> Kinds \cup {None}] /\ copy \in [Parts -> Kinds \cup {None}]
  /\ conf \in Kinds \cup {None, Torn}
  /\ ipc \in [Actors -> Writing \cup Starting \cup {"idle", "failed", "up", "ended"}]
  /\ kind \in [Actors -> Kinds] /\ todo \in [Actors -> SUBSET Parts]
  /\ holds \in [Actors -> BOOLEAN] /\ met \in [Actors -> BOOLEAN]
  /\ layer \in {None, "lower", "unlinked", "copy"}
  /\ cfg \in Kinds \cup {None, "default"}
  /\ dirty \in BOOLEAN /\ disturbed \in BOOLEAN
  /\ root => tag
  /\ \A p \in Actors : holds[p] => root
  /\ prog \in {"none", "alive", "dead"}
  /\ record \in {"none", "created", "running", "stopped"}
  /\ upper \in [Files -> Vals \cup {Absent}] /\ data \in [Files -> Vals \cup {Absent}]
  /\ attached => mounted /\ upperDir
  /\ ~upperDir => upper = Bare
  /\ mounted = (layer \in {"lower", "unlinked"})
  /\ whole => linked
  /\ \A p \in Savers : mine[p] => linked
====
