------------------------------- MODULE Images -------------------------------
(***************************************************************************)
(* One image, images/<name>/<tag> with its rootfs and its config.json: pull *)
(* and build, which replace it, prune, and a container that is started from *)
(* it.  The programs that extract archives and install packages write one  *)
(* part after another.  Nothing locks an image, and that there is one is   *)
(* known from the directory rootfs alone.                                  *)
(***************************************************************************)
EXTENDS Naturals

CONSTANTS
  Cmds,  \* invocations of pull, build and image prune
  Run,   \* the invocation of run
  Os,    \* the parts of the base system, which a pull brings
  Pkgs   \* what a build adds to it

ASSUME ImagesAssumption == Run \notin Cmds /\ Os \cap Pkgs = {} /\ Os # {}

Actors == Cmds \cup {Run}
Parts == Os \cup Pkgs
Kinds == {"pulled", "built"}
Contents(v) == IF v = "built" THEN Parts ELSE Os

None == "none"
Torn == "torn"    \* truncated, and not written yet
Empty == [f \in Parts |-> None]
Image(v) == [f \in Parts |-> IF f \in Contents(v) THEN v ELSE None]

VARIABLES
  tag, root,        \* the directory <tag>, and rootfs in it, are there
  tree, conf,       \* what is in rootfs, by the kind of image it is from; config.json

  ipc, kind, todo,  \* an invocation: where it stands, what it makes, the parts to do
  holds,            \* the rootfs it has opened to remove it is still the one there

  layer, copy,      \* the container: what its rootfs is made of
  cfg,              \* the config.json it was started with

  dirty,            \* history: since a writer has begun, none has succeeded alone
  met,              \* history: an invocation at work was not alone
  disturbed         \* history: the image was dirty while the container was set up

store == <<tag, root, tree, conf>>
ctr   == <<layer, copy, cfg>>
seen  == <<dirty, met, disturbed>>
ivars == <<store, ipc, kind, todo, holds, ctr, seen>>

ImagesInit ==
  /\ \E v \in Kinds \cup {None} :
       /\ tree = IF v = None THEN Empty ELSE Image(v)
       /\ conf = v
       /\ root = (v # None) /\ tag = (v # None)
  /\ ipc = [p \in Actors |-> "idle"]
  /\ kind = [p \in Actors |-> "pulled"]
  /\ todo = [p \in Actors |-> {}]
  /\ holds = [p \in Actors |-> FALSE]
  /\ layer = None /\ copy = Empty /\ cfg = None
  /\ dirty = FALSE /\ disturbed = FALSE
  /\ met = [p \in Actors |-> FALSE]

Writing == {"remove", "mkdir", "extract", "truncate", "write", "prune"}
Starting == {"load", "mount", "copy"}
Writers == {p \in Actors : ipc[p] \in Writing}

Step(p, label) == ipc' = [ipc EXCEPT ![p] = label]

-----------------------------------------------------------------------------
(* Beginning and end of what writes.                                       *)

BeginsWriting(p, label) ==
  /\ Step(p, label)
  /\ holds' = [holds EXCEPT ![p] = root]
  /\ dirty' = TRUE
  /\ met' = [q \in Actors |->
       IF q = p THEN Writers # {} ELSE met[q] \/ q \in Writers]
  /\ disturbed' = (disturbed \/ ipc[Run] \in Starting)

\* Mutant: the new image is unpacked over the old one.
BeginsOver(p, v) ==
  /\ BeginsWriting(p, "mkdir")
  /\ kind' = [kind EXCEPT ![p] = v]
  /\ UNCHANGED <<store, todo, ctr>>

\* Pull and build begin alike: what is there has to go first.
BeginsImage(p, v) ==
  /\ BeginsWriting(p, IF root THEN "remove" ELSE "mkdir")
  /\ kind' = [kind EXCEPT ![p] = v]
  /\ UNCHANGED <<store, todo, ctr>>

\* Mutant: run goes on with the config.json that it had found before.
DoneWithOldConfig(p) == IF p = Run THEN "mount" ELSE "idle"

Done(p) == IF p = Run THEN "load" ELSE "idle"

Succeeds(p) ==
  /\ Step(p, Done(p))
  /\ dirty' = (dirty /\ met[p])
  /\ disturbed' = IF p = Run THEN met[p] ELSE disturbed
  /\ met' = [met EXCEPT ![p] = FALSE]

\* An error that `?` passes on, or a kill.  What was done stays done.
WriterFails(p) ==
  /\ ipc[p] \in Writing
  /\ Step(p, IF p = Run THEN "failed" ELSE "idle")
  /\ met' = [met EXCEPT ![p] = FALSE]
  /\ todo' = [todo EXCEPT ![p] = {}]
  /\ UNCHANGED <<store, kind, holds, ctr, dirty, disturbed>>

-----------------------------------------------------------------------------
(* remove_dir_all.  It goes through the directory that it has opened, and   *)
(* unlinks it by its name.                                                  *)

TakesPart(p) ==
  /\ holds[p]
  /\ \E f \in Parts : tree[f] # None /\ tree' = [tree EXCEPT ![f] = None]
  /\ UNCHANGED <<root, layer, holds>>

\* A mounted overlay keeps the directory that was unlinked.
TakesRoot(p) ==
  /\ root /\ tree = Empty
  /\ root' = FALSE
  /\ layer' = IF layer = "lower" THEN "unlinked" ELSE layer
  /\ holds' = [q \in Actors |-> FALSE]
  /\ UNCHANGED tree

Removes(p) ==
  /\ ipc[p] = "remove"
  /\ \/ TakesPart(p) /\ UNCHANGED ipc
     \/ TakesRoot(p) /\ Step(p, "mkdir")
     \/ ~root /\ Step(p, "mkdir") /\ UNCHANGED <<root, tree, layer, holds>>
  /\ UNCHANGED <<tag, conf, kind, todo, copy, cfg, seen>>

\* image prune, for a tag it has listed.  Errors are ignored.
PruneLists(p) ==
  /\ ipc[p] = "idle" /\ root
  /\ BeginsWriting(p, "prune")
  /\ UNCHANGED <<store, kind, todo, ctr>>

PruneTakes(p) ==
  /\ ipc[p] = "prune"
  /\ \/ TakesPart(p) /\ UNCHANGED conf
     \/ TakesRoot(p) /\ UNCHANGED conf
     \/ conf # None /\ conf' = None /\ UNCHANGED <<root, tree, layer, holds>>
  /\ UNCHANGED <<tag, ipc, kind, todo, copy, cfg, seen>>

PruneEnds(p) ==
  /\ ipc[p] = "prune"
  /\ ~root /\ conf = None
  /\ tag' = FALSE
  /\ Succeeds(p)
  /\ UNCHANGED <<root, tree, conf, kind, todo, holds, ctr>>

-----------------------------------------------------------------------------
(* pull and build                                                          *)

Pulls(p) == ipc[p] = "idle" /\ BeginsImage(p, "pulled")
Builds(p) == ipc[p] = "idle" /\ BeginsImage(p, "built")

\* create_dir_all.
MakesRoot(p) ==
  /\ ipc[p] = "mkdir"
  /\ Step(p, "extract")
  /\ tag' = TRUE /\ root' = TRUE
  /\ todo' = [todo EXCEPT ![p] = Contents(kind[p])]
  /\ UNCHANGED <<tree, conf, kind, holds, ctr, seen>>

Puts(p, f) ==
  /\ ipc[p] = "extract" /\ root
  /\ tree' = [tree EXCEPT ![f] = kind[p]]
  /\ todo' = [todo EXCEPT ![p] = @ \ {f}]
  /\ UNCHANGED <<tag, root, conf, ipc, kind, holds, ctr, seen>>

\* An archive, or for a build debootstrap or dnf.
Unpacks(p) == \E f \in todo[p] \cap Os : Puts(p, f)

\* What follows in a build: packages, files and set-up commands, in a chroot.  A file that
\* the build finds missing, and skips with a warning, is no part of what it has to install.
Installs(p) == todo[p] \subseteq Pkgs /\ \E f \in todo[p] : Puts(p, f)

\* Should rootfs have gone, some of these steps fail, and those that make the
\* directories for a file make it anew.
MakesParents(p) ==
  /\ ipc[p] = "extract" /\ ~root
  /\ tag' = TRUE /\ root' = TRUE
  /\ UNCHANGED <<tree, conf, ipc, kind, todo, holds, ctr, seen>>

\* pull makes rootfs/etc for resolv.conf at the end.
ExtractEnds(p) ==
  /\ ipc[p] = "extract" /\ todo[p] = {}
  /\ Step(p, "truncate")
  /\ IF kind[p] = "pulled"
       THEN tag' = TRUE /\ root' = TRUE
       ELSE UNCHANGED <<tag, root>>
  /\ UNCHANGED <<tree, conf, kind, todo, holds, ctr, seen>>

\* fs::write of config.json.
TruncatesConfig(p) ==
  /\ ipc[p] = "truncate" /\ tag
  /\ Step(p, "write")
  /\ conf' = Torn
  /\ UNCHANGED <<tag, root, tree, kind, todo, holds, ctr, seen>>

\* A file that was unlinked since it was opened takes the bytes with it.
WritesConfig(p) ==
  /\ ipc[p] = "write"
  /\ conf' = IF conf = None THEN None ELSE kind[p]
  /\ Succeeds(p)
  /\ UNCHANGED <<tag, root, tree, kind, todo, holds, ctr>>

-----------------------------------------------------------------------------
(* run                                                                     *)

\* image_exists; otherwise run is a pull first.
RunChecks ==
  /\ ipc[Run] = "idle"
  /\ IF root
       THEN /\ Step(Run, "load")
            /\ disturbed' = dirty
            /\ UNCHANGED <<store, kind, todo, holds, ctr, dirty, met>>
       ELSE BeginsImage(Run, "pulled")

\* load_image_config; what cannot be read is the default.
RunLoads ==
  /\ ipc[Run] = "load"
  /\ cfg' = IF conf \in Kinds THEN conf ELSE "default"
  /\ Step(Run, "mount")
  /\ UNCHANGED <<store, kind, todo, holds, layer, copy, seen>>

\* setup_overlay, on the rootfs of the image.
RunMounts ==
  /\ ipc[Run] = "mount" /\ root
  /\ layer' = "lower"
  /\ Step(Run, "up")
  /\ UNCHANGED <<store, kind, todo, holds, copy, cfg, seen>>

\* Rootless, or the overlay has failed: a copy, for which the names in rootfs are
\* read first.
RunCopies ==
  /\ ipc[Run] = "mount" /\ root
  /\ todo' = [todo EXCEPT ![Run] = {f \in Parts : tree[f] # None}]
  /\ Step(Run, "copy")
  /\ UNCHANGED <<store, kind, holds, ctr, seen>>

CopiesPart ==
  /\ ipc[Run] = "copy" /\ root
  /\ \E f \in todo[Run] :
       /\ tree[f] # None
       /\ copy' = [copy EXCEPT ![f] = tree[f]]
       /\ todo' = [todo EXCEPT ![Run] = @ \ {f}]
  /\ UNCHANGED <<store, ipc, kind, holds, layer, cfg, seen>>

CopyEnds ==
  /\ ipc[Run] = "copy" /\ todo[Run] = {}
  /\ layer' = "copy"
  /\ Step(Run, "up")
  /\ UNCHANGED <<store, kind, todo, holds, copy, cfg, seen>>

\* rootfs, or a file in it, has gone since; or a kill.
RunFails ==
  /\ ipc[Run] \in Starting
  /\ Step(Run, "failed")
  /\ UNCHANGED <<store, kind, todo, holds, ctr, seen>>

\* cleanup_overlay.
RunEnds ==
  /\ ipc[Run] = "up"
  /\ Step(Run, "ended")
  /\ layer' = None
  /\ UNCHANGED <<store, kind, todo, holds, copy, cfg, seen>>

RunStarts == RunMounts \/ CopyEnds

Pulling(p) ==
  \/ Removes(p) \/ MakesRoot(p) \/ Unpacks(p) \/ Installs(p) \/ MakesParents(p) \/ ExtractEnds(p)
  \/ TruncatesConfig(p) \/ WritesConfig(p) \/ WriterFails(p)

\* All but the steps in which the container comes and goes.
ImagesNext ==
  \/ \E p \in Cmds : Pulls(p) \/ Builds(p) \/ PruneLists(p) \/ PruneTakes(p) \/ PruneEnds(p)
  \/ \E p \in Actors : Pulling(p)
  \/ RunChecks \/ RunLoads \/ RunCopies \/ CopiesPart \/ RunFails

-----------------------------------------------------------------------------
\* What the container's program has below its own changes.
View == CASE layer = "lower" -> tree
          [] layer = "copy"  -> copy
          [] OTHER           -> Empty

\* One pull or build that succeeds with nobody else at work leaves exactly its
\* image, and the config.json that belongs to it, whatever failed, was killed or
\* overlapped before; and one prune leaves nothing (image.rs 87-129, build.rs
\* 323-412, main.rs 652-671).
Repairs ==
  ~dirty => \/ root /\ conf \in Kinds /\ tree = Image(conf)
            \/ ~root /\ conf = None

\* A container whose image nobody has written since the last that succeeded alone,
\* nor while it was set up, starts with all of that image, by overlay or copy, and
\* with its config.json; the pull that run makes itself included (main.rs 161-170,
\* container.rs 161-185).
StartsWhole == [][
  ipc[Run] # "up" /\ ipc'[Run] = "up" /\ ~disturbed =>
    View' = Image(cfg)]_ivars
====
