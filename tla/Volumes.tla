------------------------------- MODULE Volumes -------------------------------
(***************************************************************************)
(* One named volume: cmd_volume of main.rs, and the containers that use it. *)
(* A volume with a size is <name>.img, a file with an ext4 file system that *)
(* is mounted on the directory <name>; a volume without one is the         *)
(* directory.  Nothing says which is meant but the presence of the file,   *)
(* and nothing mounts it again when it is used.                            *)
(***************************************************************************)
EXTENDS Naturals, Sequences

CONSTANTS
  Cmds,     \* invocations of `corten volume`
  Users,    \* containers with `-v <name>:...`
  MaxSize,  \* BOUND: the largest size that is asked for
  MaxFile,  \* BOUND: the number of image files ever made
  Faults    \* what may go wrong

ASSUME VolumesAssumption ==
  /\ MaxSize \in Nat
  /\ MaxFile \in Nat
  /\ Faults \subseteq {"mkfs", "busy", "mount", "full", "killed", "reboot"}

Sizes == 0..MaxSize
Files == 1..MaxFile
NoFile == 0

\* What a container has at its mount point: the directory itself, or the file
\* system in one of Files.
Nothing == <<"nothing", NoFile>>
Bare    == <<"bare", NoFile>>
Fs(f)   == <<"fs", f>>

VARIABLES
  made,    \* how many image files there have been
  size,    \* the length of each
  fs,      \* the size of the file system in it; 0 if there is none
  img,     \* the one that is called <name>.img
  dir,     \* the directory exists
  mnt,     \* what is mounted on it, the last one first

  pc, want, old, todo,  \* an invocation: where it stands, the size it was given, the
                        \* one it has read, the directory entries it has to prune
  upc, view,            \* a container, and what it has mounted

  overlapped,  \* history: the kinds of invocations that others overlapped with
  hurt         \* history: a mount, umount or resize2fs failed, an invocation was
               \* killed, or the machine restarted

disk  == <<made, size, fs, img>>
cmds  == <<pc, want, old, todo>>
users == <<upc, view>>
ghost == <<overlapped, hurt>>
vars  == <<disk, dir, mnt, cmds, users, ghost>>

Mounted(f) == \E i \in DOMAIN mnt : mnt[i] = f

Goto(p, label) == pc' = [pc EXCEPT ![p] = label]

Labels ==
  [create |-> {"plain", "open", "mkfs", "unlink", "mkdir", "mount"},
   resize |-> {"umount", "grow", "fill", "shrink", "cut", "remount"},
   remove |-> {"prune", "rmumount", "rmdir", "rmfile"}]
Kinds == {"create", "resize", "remove"}
Does(q, kind) == pc[q] \in Labels[kind]

\* The first step of an invocation.
Begins(p, kind, label) ==
  /\ pc[p] = "idle"
  /\ Goto(p, label)
  /\ LET others == {k \in Kinds : \E q \in Cmds \ {p} : Does(q, k)} IN
       overlapped' = IF others = {} THEN overlapped ELSE overlapped \cup others \cup {kind}
  /\ UNCHANGED <<disk, dir, mnt, users, hurt>>

-----------------------------------------------------------------------------
(* The programs it calls.                                                  *)

\* umount; its failure is ignored.  Other mount namespaces keep what they have.
Unmounts(p, from, to) ==
  /\ pc[p] = from
  /\ \/ mnt' = (IF mnt = <<>> THEN mnt ELSE Tail(mnt)) /\ UNCHANGED hurt
     \/ "busy" \in Faults /\ mnt # <<>> /\ hurt' = TRUE /\ UNCHANGED mnt
  /\ Goto(p, to)
  /\ UNCHANGED <<disk, dir, want, old, todo, users, overlapped>>

\* Mutant: a path without a file can be mounted.
MountableAnything == dir /\ (mnt = <<>> \/ Head(mnt) # img)

\* mount refuses what is mounted there already.
Mountable ==
  /\ dir /\ img # NoFile
  /\ mnt = <<>> \/ Head(mnt) # img
  /\ fs[img] # 0 /\ fs[img] <= size[img]

\* mount -o loop; its failure is logged or ignored.
Mounts(p, from) ==
  /\ pc[p] = from
  /\ \/ mnt' = (IF Mountable THEN <<img>> \o mnt ELSE mnt) /\ UNCHANGED hurt
     \/ "mount" \in Faults /\ hurt' = TRUE /\ UNCHANGED mnt
  /\ Goto(p, "idle")
  /\ UNCHANGED <<disk, dir, want, old, todo, users, overlapped>>

\* e2fsck and resize2fs to size s.  They see what is mounted in their own mount
\* namespace, in which resizing the file does not do, and nothing of the others.
\* A file that is too short is made longer.  The data may not fit.
Resizable(s) ==
  /\ img # NoFile
  /\ fs[img] # 0 /\ fs[img] <= size[img] /\ s # 0
  /\ Mounted(img) => s = fs[img]

ResizesFs(p, from, to, s) ==
  /\ pc[p] = from
  /\ \/ /\ Resizable(s)
        /\ fs' = [fs EXCEPT ![img] = s]
        /\ size' = [size EXCEPT ![img] = IF @ < s THEN s ELSE @]
        /\ Goto(p, to)
        /\ UNCHANGED hurt
     \/ /\ ~Resizable(s) \/ "full" \in Faults
        /\ Goto(p, "idle")
        /\ hurt' = TRUE
        /\ UNCHANGED <<fs, size>>
  /\ UNCHANGED <<made, img, dir, mnt, want, old, todo, users, overlapped>>

\* set_len.  The file is opened by its name: an error if it has gone.
SetsLen(p, from, to, s) ==
  /\ pc[p] = from
  /\ IF img = NoFile
       THEN UNCHANGED size /\ Goto(p, "idle")
       ELSE size' = [size EXCEPT ![img] = s] /\ Goto(p, to)
  /\ UNCHANGED <<made, fs, img, dir, mnt, want, old, todo, users, ghost>>

-----------------------------------------------------------------------------
(* volume create                                                           *)

CreateChecks(p) ==
  /\ ~dir /\ img = NoFile
  /\ \/ Begins(p, "create", "plain") /\ UNCHANGED want
     \/ Begins(p, "create", "open") /\ \E s \in Sizes : want' = [want EXCEPT ![p] = s]
  /\ UNCHANGED <<old, todo>>

MakesDir(p, from, to) ==
  /\ pc[p] = from
  /\ dir' = TRUE
  /\ Goto(p, to)
  /\ UNCHANGED <<disk, mnt, want, old, todo, users, ghost>>

MakesPlain(p) == MakesDir(p, "plain", "idle")

\* File::create, which truncates a file that has come into being since, and
\* set_len: a file system in it is lost, even to those who have it mounted.
MakesFile(p) ==
  /\ pc[p] = "open"
  /\ IF img = NoFile
       THEN made < MaxFile /\ made' = made + 1 /\ img' = made + 1
       ELSE UNCHANGED <<made, img>>
  /\ size' = [size EXCEPT ![img'] = want[p]]
  /\ fs' = [fs EXCEPT ![img'] = 0]
  /\ Goto(p, "mkfs")
  /\ UNCHANGED <<dir, mnt, want, old, todo, users, ghost>>

\* mkfs.ext4 -F: not without room, and not if mounted.
Formattable == img # NoFile /\ size[img] # 0 /\ ~Mounted(img)

Formats(p) ==
  /\ pc[p] = "mkfs"
  /\ \/ /\ Formattable
        /\ fs' = [fs EXCEPT ![img] = size[img]]
        /\ Goto(p, "mkdir")
     \/ /\ ~Formattable \/ "mkfs" \in Faults
        /\ Goto(p, "unlink")
        /\ UNCHANGED fs
  /\ UNCHANGED <<made, size, img, dir, mnt, want, old, todo, users, ghost>>

Unlinks(p, from, to) ==
  /\ pc[p] = from
  /\ img' = NoFile
  /\ Goto(p, to)
  /\ UNCHANGED <<made, size, fs, dir, mnt, want, old, todo, users, ghost>>

UnlinksUnformatted(p) == Unlinks(p, "unlink", "idle")
MakesMountPoint(p)    == MakesDir(p, "mkdir", "mount")
MountsNew(p)          == Mounts(p, "mount")

-----------------------------------------------------------------------------
(* volume resize                                                           *)

\* A volume that has the size already is left alone.
ResizeChecks(p) ==
  /\ img # NoFile
  /\ Begins(p, "resize", "umount")
  /\ \E s \in Sizes \ {size[img]} : want' = [want EXCEPT ![p] = s]
  /\ old' = [old EXCEPT ![p] = size[img]]
  /\ UNCHANGED todo

ResizeUnmounts(p) ==
  Unmounts(p, "umount", IF want[p] > old[p] THEN "grow" ELSE "shrink")

Grows(p)  == SetsLen(p, "grow", "fill", want[p])
Fills(p)  == ResizesFs(p, "fill", "remount", IF img = NoFile THEN 0 ELSE size[img])

\* Mutant: the file is cut before the file system is smaller.
CutsFirst(p) == SetsLen(p, "shrink", "cut", want[p])

Shrinks(p) == ResizesFs(p, "shrink", "cut", want[p])
Cuts(p)    == SetsLen(p, "cut", "remount", want[p])

\* Mutant: the volume stays as it was unmounted.
RemountsNot(p) ==
  pc[p] = "remount" /\ Goto(p, "idle") /\ UNCHANGED <<disk, dir, mnt, want, old, todo, users, ghost>>
Remounts(p) == Mounts(p, "remount")

-----------------------------------------------------------------------------
(* volume rm and prune                                                     *)

RmChecks(p) ==
  /\ dir \/ img # NoFile
  /\ Begins(p, "remove", "rmumount")
  /\ todo' = [todo EXCEPT ![p] = {}]
  /\ UNCHANGED <<want, old>>

\* read_dir
PruneLists(p) ==
  /\ dir \/ img # NoFile
  /\ Begins(p, "remove", "prune")
  /\ todo' = [todo EXCEPT ![p] = {e \in {"dir", "img"} : IF e = "dir" THEN dir ELSE img # NoFile}]
  /\ UNCHANGED <<want, old>>

\* Its entries come in any order.
PruneTakes(p) ==
  /\ pc[p] = "prune"
  /\ \E e \in todo[p] :
       /\ todo' = [todo EXCEPT ![p] = @ \ {e}]
       /\ Goto(p, IF e = "dir" THEN "rmumount" ELSE "rmfile")
  /\ UNCHANGED <<disk, dir, mnt, want, old, users, ghost>>

\* Mutant: nothing is unmounted.
RmForgetsMount(p) ==
  pc[p] = "rmumount" /\ Goto(p, "rmdir") /\ UNCHANGED <<disk, dir, mnt, want, old, todo, users, ghost>>
RmUnmounts(p) == Unmounts(p, "rmumount", "rmdir")

\* remove_dir_all: a mount point stays, although it is emptied.
RemovesDir(p) ==
  /\ pc[p] = "rmdir"
  /\ dir' = (dir /\ mnt # <<>>)
  /\ Goto(p, "rmfile")
  /\ UNCHANGED <<disk, mnt, want, old, todo, users, ghost>>

RemovesFile(p) == Unlinks(p, "rmfile", IF todo[p] = {} THEN "idle" ELSE "prune")

-----------------------------------------------------------------------------
(* Containers                                                              *)

\* parse_volume makes the directory if it is not there.
UserParses(u) ==
  /\ upc[u] = "idle"
  /\ upc' = [upc EXCEPT ![u] = "parsed"]
  /\ dir' = TRUE
  /\ UNCHANGED <<disk, mnt, cmds, view, ghost>>

\* clone() copies the mounts, and mount_volumes binds what the directory shows.
UserBinds(u) ==
  /\ upc[u] = "parsed"
  /\ IF dir
       THEN /\ view' = [view EXCEPT ![u] = IF mnt = <<>> THEN Bare ELSE Fs(Head(mnt))]
            /\ upc' = [upc EXCEPT ![u] = "up"]
       ELSE UNCHANGED view /\ upc' = [upc EXCEPT ![u] = "idle"]
  /\ UNCHANGED <<disk, dir, mnt, cmds, ghost>>

\* A restart binds again what was parsed once.
UserEnds(u) ==
  /\ upc[u] = "up"
  /\ view' = [view EXCEPT ![u] = Nothing]
  /\ \E next \in {"idle", "parsed"} : upc' = [upc EXCEPT ![u] = next]
  /\ UNCHANGED <<disk, dir, mnt, cmds, ghost>>

-----------------------------------------------------------------------------
\* Killed, or ended by an error of a system call or of a program that is not there.
Killed(p) ==
  /\ "killed" \in Faults
  /\ pc[p] # "idle"
  /\ Goto(p, "idle")
  /\ hurt' = TRUE
  /\ UNCHANGED <<disk, dir, mnt, want, old, todo, users, overlapped>>

\* Mounts do not survive.
Reboot ==
  /\ "reboot" \in Faults
  /\ mnt' = <<>>
  /\ pc' = [p \in Cmds |-> "idle"]
  /\ upc' = [u \in Users |-> "idle"]
  /\ view' = [u \in Users |-> Nothing]
  /\ hurt' = TRUE
  /\ UNCHANGED <<disk, dir, want, old, todo, overlapped>>

Init ==
  /\ made = 0 /\ img = NoFile /\ dir = FALSE /\ mnt = <<>>
  /\ size = [f \in Files |-> 0]
  /\ fs = [f \in Files |-> 0]
  /\ pc = [p \in Cmds |-> "idle"]
  /\ want = [p \in Cmds |-> 0]
  /\ old = [p \in Cmds |-> 0]
  /\ todo = [p \in Cmds |-> {}]
  /\ upc = [u \in Users |-> "idle"]
  /\ view = [u \in Users |-> Nothing]
  /\ overlapped = {} /\ hurt = FALSE

Create(p) ==
  \/ CreateChecks(p) \/ MakesPlain(p) \/ MakesFile(p) \/ Formats(p)
  \/ UnlinksUnformatted(p) \/ MakesMountPoint(p) \/ MountsNew(p)
Resize(p) ==
  \/ ResizeChecks(p) \/ ResizeUnmounts(p) \/ Grows(p) \/ Fills(p)
  \/ Shrinks(p) \/ Cuts(p) \/ Remounts(p)
Remove(p) ==
  \/ RmChecks(p) \/ PruneLists(p) \/ PruneTakes(p)
  \/ RmUnmounts(p) \/ RemovesDir(p) \/ RemovesFile(p)

Next ==
  \/ \E p \in Cmds : Create(p) \/ Resize(p) \/ Remove(p) \/ Killed(p)
  \/ \E u \in Users : UserParses(u) \/ UserBinds(u) \/ UserEnds(u)
  \/ Reboot

Spec == Init /\ [][Next]_vars

-----------------------------------------------------------------------------
AtRest == \A p \in Cmds : pc[p] = "idle"

\* A file system is never longer than its file, whatever fails and whoever is
\* killed between the two steps of a resize: else its end, and the data there,
\* have gone (main.rs 1031-1072).  Only a resize during which another command works
\* on the volume may do that.
FsFits == "resize" \notin overlapped => \A f \in Files : fs[f] <= size[f]

\* Between commands that succeeded one after the other a volume is whole: an image
\* is mounted on its directory, once, and nothing is mounted without one
\* (main.rs 908-946, 1027-1077, 1090-1124).
Whole ==
  AtRest /\ overlapped = {} /\ ~hurt =>
    IF img = NoFile THEN mnt = <<>> ELSE dir /\ mnt = <<img>>

\* README.md 429: "enforced by the kernel".  A container, a restarted one included,
\* does not get the unlimited directory below a volume with a size, unless a
\* command is at work on the volume, or one has gone wrong: nothing mounts a
\* volume "on use" (main.rs 937; filesystem.rs 126-140).
LimitEnforced ==
  [][\A u \in Users :
       view[u] # view'[u] /\ view'[u] = Bare /\ img # NoFile =>
         ~AtRest \/ overlapped # {} \/ hurt]_vars

TypeOK ==
  /\ made \in 0..MaxFile
  /\ size \in [Files -> Sizes]
  /\ fs \in [Files -> Sizes]
  /\ img \in 0..made
  /\ dir \in BOOLEAN
  /\ mnt \in Seq(1..made)
  /\ pc \in [Cmds -> {"idle"} \cup UNION {Labels[kind] : kind \in Kinds}]
  /\ want \in [Cmds -> Sizes]
  /\ old \in [Cmds -> Sizes]
  /\ todo \in [Cmds -> SUBSET {"dir", "img"}]
  /\ upc \in [Users -> {"idle", "parsed", "up"}]
  /\ view \in [Users -> {Nothing, Bare} \cup {Fs(f) : f \in 1..made}]
  /\ overlapped \subseteq Kinds
  /\ hurt \in BOOLEAN
=============================================================================
