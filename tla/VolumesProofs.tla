----------------------------- MODULE VolumesProofs -----------------------------
(***************************************************************************)
(* Theorems about Volumes, for any number of commands and containers, any  *)
(* sizes, and all faults.                                                  *)
(***************************************************************************)
EXTENDS Volumes, TLAPS

Steps == {"plain", "open", "mkfs", "unlink", "mkdir", "mount",
          "umount", "grow", "fill", "shrink", "cut", "remount",
          "prune", "rmumount", "rmdir", "rmfile"}

ResizeSteps == {"umount", "grow", "fill", "shrink", "cut", "remount"}

\* As much of the type as the proof needs.
DiskOK ==
  /\ made \in 0..MaxFile
  /\ size \in [Files -> Sizes]
  /\ fs \in [Files -> Sizes]
  /\ img \in 0..made
  /\ want \in [Cmds -> Sizes]
  /\ old \in [Cmds -> Sizes]
  /\ pc \in [Cmds -> {"idle"} \cup Steps]
  /\ overlapped \subseteq Kinds

Peaceful == "resize" \notin overlapped

\* Nobody is at work during a resize.
ResizesAlone ==
  Peaceful => \A p, q \in Cmds : Does(p, "resize") /\ pc[q] # "idle" => p = q

\* A resize knows the size of the file until it changes it, and does not cut
\* off a part of the file system.
ResizeKnows ==
  Peaceful => \A p \in Cmds :
    /\ pc[p] \in {"umount", "grow", "shrink"} => img # NoFile /\ size[img] = old[p]
    /\ pc[p] = "grow" => want[p] > old[p]
    /\ pc[p] = "cut" => img # NoFile /\ fs[img] <= want[p]

VolInv == DiskOK /\ ResizesAlone /\ ResizeKnows /\ FsFits

\* Commands that have overlapped with none, and nothing has gone wrong: then at most
\* one is at work, and each of its steps finds the volume as the last one left it.
Calm      == overlapped = {} /\ ~hurt
Solo      == \A p, q \in Cmds : pc[p] # "idle" /\ pc[q] # "idle" => p = q
Formatted == img # NoFile /\ fs[img] # 0
Short     == mnt = <<>> \/ \E f \in Files : mnt = <<f>>
WholeDisk == IF img = NoFile THEN mnt = <<>> ELSE dir /\ mnt = <<img>> /\ fs[img] # 0

Stage(p) ==
  /\ pc[p] \in {"plain", "open"} => img = NoFile /\ mnt = <<>>
  /\ pc[p] \in {"mkfs", "unlink", "rmdir"} => mnt = <<>>
  /\ pc[p] = "mkdir" => Formatted /\ mnt = <<>>
  /\ pc[p] \in {"mount", "grow", "fill", "shrink", "cut", "remount"} =>
       dir /\ Formatted /\ mnt = <<>>
  /\ pc[p] = "umount" => WholeDisk /\ img # NoFile
  /\ pc[p] \in {"prune", "rmumount", "rmfile"} => Short
  /\ pc[p] = "prune" => "dir" \in todo[p] \/ (img = NoFile /\ mnt = <<>>)
  /\ pc[p] = "rmfile" => "dir" \in todo[p] \/ mnt = <<>>

CalmInv == Calm => Solo /\ (AtRest => WholeDisk) /\ \A p \in Cmds : Stage(p)

-----------------------------------------------------------------------------
LEMMA DoesResize ==
  ASSUME NEW q \in Cmds
  PROVE  Does(q, "resize") <=> pc[q] \in ResizeSteps
BY DEF ResizeSteps, Does, Labels

LEMMA ImgInFiles ==
  ASSUME VolInv, img # NoFile
  PROVE  img \in Files
BY VolumesAssumption DEF VolInv, DiskOK, NoFile, Files

LEMMA InitInv == Init => VolInv
BY VolumesAssumption DEF Init, VolInv, DiskOK, ResizesAlone, ResizeKnows, FsFits, Peaceful,
   Does, Labels, Sizes, Files, NoFile, Kinds, Steps

\* Who begins while another resizes, or resizes while another is at work, is no
\* longer peaceful.
LEMMA BeginsInv ==
  ASSUME VolInv, NEW p \in Cmds, NEW kind \in Kinds, NEW label \in Steps,
         Begins(p, kind, label),
         kind # "resize" => label \notin ResizeSteps
  PROVE  /\ ResizesAlone'
         /\ overlapped' \subseteq Kinds
         /\ overlapped \subseteq overlapped'
<1> USE DEF VolInv, DiskOK
<1> DEFINE others == {k \in Kinds : \E q \in Cmds \ {p} : Does(q, k)}
<1>1. overlapped' = IF others = {} THEN overlapped ELSE overlapped \cup others \cup {kind}
  BY DEF Begins
<1>2. overlapped' \subseteq Kinds /\ overlapped \subseteq overlapped'
  BY <1>1
<1>3. pc' = [pc EXCEPT ![p] = label] /\ pc[p] = "idle"
  BY DEF Begins, Goto
<1>4. ASSUME Peaceful', NEW r \in Cmds, NEW q \in Cmds, Does(r, "resize")', pc'[q] # "idle", r # q
      PROVE  FALSE
  <2>1. Peaceful
    BY <1>2, <1>4 DEF Peaceful
  <2>2. pc'[r] \in ResizeSteps
    BY <1>4 DEF ResizeSteps, Does, Labels
  <2>3. CASE r = p
    <3>1. kind = "resize" /\ pc[q] # "idle" /\ q \in Cmds \ {p}
      BY <1>3, <1>4, <2>2, <2>3
    <3>2. \E k \in Kinds : Does(q, k)
      BY <3>1 DEF Does, Labels, Kinds, Steps
    <3>3. others # {}
      BY <3>1, <3>2
    <3> QED BY <1>1, <1>4, <3>1, <3>3 DEF Peaceful
  <2>4. CASE r # p
    <3>1. Does(r, "resize")
      BY <1>3, <2>2, <2>4, DoesResize
    <3>2. "resize" \in others
      BY <3>1, <2>4 DEF Kinds
    <3> QED BY <1>1, <1>4, <3>2 DEF Peaceful
  <2> QED BY <2>3, <2>4
<1> QED BY <1>2, <1>4 DEF ResizesAlone

\* Whoever is at work knows that nobody else resizes, and whoever resizes that
\* nobody else is at work.
LEMMA OthersRest ==
  ASSUME VolInv, Peaceful, NEW p \in Cmds, NEW q \in Cmds, pc[p] # "idle", q # p
  PROVE  pc[q] \notin ResizeSteps /\ (pc[p] \in ResizeSteps => pc[q] = "idle")
<1>1. pc[q] \in ResizeSteps => pc[q] # "idle" /\ Does(q, "resize")
  BY DoesResize DEF ResizeSteps
<1>2. pc[p] \in ResizeSteps => Does(p, "resize")
  BY DoesResize
<1> QED BY <1>1, <1>2 DEF VolInv, ResizesAlone

\* A step of an invocation that is at work.
LEMMA WorksInv ==
  ASSUME VolInv, NEW p \in Cmds, pc[p] # "idle", NEW to \in {"idle"} \cup Steps,
         Goto(p, to), UNCHANGED overlapped,
         to \in ResizeSteps => pc[p] \in ResizeSteps
  PROVE  pc' \in [Cmds -> {"idle"} \cup Steps] /\ ResizesAlone'
<1>1. pc' = [pc EXCEPT ![p] = to] /\ pc \in [Cmds -> {"idle"} \cup Steps]
  BY DEF Goto, VolInv, DiskOK
<1>2. ASSUME Peaceful', NEW r \in Cmds, NEW q \in Cmds, Does(r, "resize")', pc'[q] # "idle", r # q
      PROVE  FALSE
  <2>1. Peaceful
    BY <1>2 DEF Peaceful
  <2>2. pc'[r] \in ResizeSteps
    BY <1>2 DEF ResizeSteps, Does, Labels
  <2>3. pc[r] \in ResizeSteps
    BY <1>1, <2>2
  <2>4. pc[q] # "idle" /\ pc[r] # "idle"
    BY <1>1, <1>2, <2>3 DEF ResizeSteps
  <2> QED BY <1>2, <2>1, <2>3, <2>4, OthersRest
<1> QED BY <1>1, <1>2 DEF ResizesAlone

\* A step of an invocation that does not resize, and does not touch the file
\* system.
LEMMA OtherWorkInv ==
  ASSUME VolInv, NEW p \in Cmds, pc[p] \in Steps \ ResizeSteps,
         NEW to \in {"idle"} \cup (Steps \ ResizeSteps),
         Goto(p, to), UNCHANGED <<overlapped, want, old>>,
         made' \in 0..MaxFile, img' \in 0..made',
         size' \in [Files -> Sizes], fs' \in [Files -> Sizes],
         \A f \in Files : fs[f] <= size[f] => fs'[f] <= size'[f]
  PROVE  VolInv'
<1>1. pc[p] # "idle" /\ pc' = [pc EXCEPT ![p] = to] /\ pc \in [Cmds -> {"idle"} \cup Steps]
  BY DEF Goto, VolInv, DiskOK, Steps
<1> to \in {"idle"} \cup Steps /\ to \notin ResizeSteps /\ overlapped' = overlapped
  BY DEF ResizeSteps
<1>2. pc' \in [Cmds -> {"idle"} \cup Steps] /\ ResizesAlone'
  BY <1>1, WorksInv
<1>3. DiskOK'
  BY <1>2 DEF VolInv, DiskOK
<1>4. FsFits'
  BY DEF VolInv, FsFits
<1>5. ASSUME Peaceful', NEW q \in Cmds PROVE pc'[q] \notin ResizeSteps
  <2>1. Peaceful
    BY <1>5 DEF Peaceful
  <2> QED BY <1>1, <2>1, OthersRest DEF ResizeSteps
<1>6. ResizeKnows'
  BY <1>5 DEF ResizeKnows, ResizeSteps
<1> QED BY <1>2, <1>3, <1>4, <1>6 DEF VolInv

\* A step of a resize that is not alone, or that is: then it is the only one.
LEMMA ResizeWorkInv ==
  ASSUME VolInv, NEW p \in Cmds, pc[p] \in ResizeSteps, NEW to \in {"idle"} \cup ResizeSteps,
         Goto(p, to), UNCHANGED <<overlapped, want, old, made, img>>,
         size' \in [Files -> Sizes], fs' \in [Files -> Sizes],
         Peaceful => \A f \in Files : fs'[f] <= size'[f],
         Peaceful /\ to \in {"umount", "grow", "shrink"} =>
           img # NoFile /\ size'[img] = old[p],
         Peaceful /\ to = "grow" => want[p] > old[p],
         Peaceful /\ to = "cut" => img # NoFile /\ fs'[img] <= want[p]
  PROVE  VolInv'
<1>1. pc[p] # "idle" /\ pc' = [pc EXCEPT ![p] = to] /\ pc \in [Cmds -> {"idle"} \cup Steps]
  BY DEF Goto, VolInv, DiskOK, ResizeSteps
<1>2. pc' \in [Cmds -> {"idle"} \cup Steps] /\ ResizesAlone'
  BY <1>1, WorksInv DEF ResizeSteps, Steps
<1>3. DiskOK'
  BY <1>2 DEF VolInv, DiskOK
<1>4. FsFits'
  BY DEF VolInv, FsFits, Peaceful
<1>5. ASSUME Peaceful', NEW q \in Cmds, q # p PROVE pc'[q] = "idle"
  BY <1>1, <1>5, OthersRest DEF Peaceful
<1>6. ASSUME Peaceful', NEW q \in Cmds
      PROVE  /\ pc'[q] \in {"umount", "grow", "shrink"} => img' # NoFile /\ size'[img'] = old'[q]
             /\ pc'[q] = "grow" => want'[q] > old'[q]
             /\ pc'[q] = "cut" => img' # NoFile /\ fs'[img'] <= want'[q]
  <2>1. CASE q = p
    BY <1>1, <1>6, <2>1 DEF Peaceful
  <2>2. CASE q # p
    BY <1>5, <1>6, <2>2
  <2> QED BY <2>1, <2>2
<1>7. ResizeKnows'
  BY <1>6 DEF ResizeKnows
<1> QED BY <1>2, <1>3, <1>4, <1>7 DEF VolInv

-----------------------------------------------------------------------------
(* One lemma for each kind of step.                                        *)

LEMMA CreateInv ==
  ASSUME VolInv, NEW p \in Cmds, Create(p)
  PROVE  VolInv'
<1> USE DEF VolInv, DiskOK
<1>1. CASE CreateChecks(p)
  <2>1. ResizesAlone' /\ overlapped' \subseteq Kinds /\ overlapped \subseteq overlapped'
    <3>1. CASE Begins(p, "create", "plain")
      BY <3>1, BeginsInv DEF Kinds, Steps, ResizeSteps
    <3>2. CASE Begins(p, "create", "open")
      BY <3>2, BeginsInv DEF Kinds, Steps, ResizeSteps
    <3> QED BY <1>1, <3>1, <3>2 DEF CreateChecks
  <2>2. /\ pc' = [pc EXCEPT ![p] = "plain"] \/ pc' = [pc EXCEPT ![p] = "open"]
        /\ UNCHANGED <<disk, old>>
        /\ want' \in [Cmds -> Sizes]
    BY <1>1 DEF CreateChecks, Begins, Goto
  <2>3. DiskOK'
    BY <2>1, <2>2 DEF disk, Steps
  <2>4. FsFits'
    BY <2>1, <2>2 DEF disk, FsFits
  <2>5. img = NoFile
    BY <1>1 DEF CreateChecks
  <2>6. ASSUME Peaceful', NEW q \in Cmds
        PROVE  pc'[q] \notin {"umount", "grow", "shrink", "cut"}
    <3>1. Peaceful
      BY <2>1, <2>6 DEF Peaceful
    <3>2. pc[q] \notin {"umount", "grow", "shrink", "cut"}
      BY <3>1, <2>5 DEF ResizeKnows
    <3> QED BY <2>2, <3>2
  <2>7. ResizeKnows'
    BY <2>6 DEF ResizeKnows
  <2> QED BY <2>1, <2>3, <2>4, <2>7
<1>2. CASE MakesPlain(p)
  BY <1>2, OtherWorkInv DEF MakesPlain, MakesDir, disk, cmds, ghost, Steps, ResizeSteps
<1>3. CASE MakesFile(p)
  <2>1. made' \in 0..MaxFile /\ img' \in 1..made' /\ img' \in Files
    BY <1>3, ImgInFiles, VolumesAssumption DEF MakesFile, NoFile, Files
  <2>2. size' = [size EXCEPT ![img'] = want[p]] /\ fs' = [fs EXCEPT ![img'] = 0]
    BY <1>3 DEF MakesFile
  <2>3. size' \in [Files -> Sizes] /\ fs' \in [Files -> Sizes]
    BY <2>1, <2>2, VolumesAssumption DEF Sizes
  <2>4. \A f \in Files : fs[f] <= size[f] => fs'[f] <= size'[f]
    BY <2>1, <2>2 DEF Sizes
  <2> QED BY <1>3, <2>1, <2>3, <2>4, OtherWorkInv DEF MakesFile, ghost, Steps, ResizeSteps
<1>4. CASE Formats(p)
  <2>1. fs' = fs \/ (img \in Files /\ fs' = [fs EXCEPT ![img] = size[img]])
    BY <1>4 DEF Formats, Formattable, NoFile, Files
  <2>2. fs' \in [Files -> Sizes] /\ \A f \in Files : fs[f] <= size[f] => fs'[f] <= size[f]
    BY <2>1 DEF Sizes
  <2>3. PICK to \in {"mkdir", "unlink"} : Goto(p, to)
    BY <1>4 DEF Formats
  <2> QED BY <1>4, <2>2, <2>3, OtherWorkInv DEF Formats, ghost, Steps, ResizeSteps
<1>5. CASE UnlinksUnformatted(p)
  BY <1>5, OtherWorkInv DEF UnlinksUnformatted, Unlinks, ghost, Steps, ResizeSteps, NoFile
<1>6. CASE MakesMountPoint(p)
  BY <1>6, OtherWorkInv DEF MakesMountPoint, MakesDir, disk, ghost, Steps, ResizeSteps
<1>7. CASE MountsNew(p)
  BY <1>7, OtherWorkInv DEF MountsNew, Mounts, disk, Steps, ResizeSteps
<1> QED BY <1>1, <1>2, <1>3, <1>4, <1>5, <1>6, <1>7 DEF Create

\* e2fsck and resize2fs: a file system that is resized fits into its file.
LEMMA ResizesFsFits ==
  ASSUME VolInv, NEW p \in Cmds, NEW s \in Sizes, NEW from, NEW to, ResizesFs(p, from, to, s)
  PROVE  /\ size' \in [Files -> Sizes] /\ fs' \in [Files -> Sizes]
         /\ \A f \in Files : fs[f] <= size[f] => fs'[f] <= size'[f]
         /\ \/ Goto(p, to) /\ img # NoFile /\ fs'[img] = s
            \/ Goto(p, "idle")
<1> USE DEF VolInv, DiskOK, Sizes, Files, NoFile
<1>1. CASE Resizable(s) /\ fs' = [fs EXCEPT ![img] = s] /\ Goto(p, to)
           /\ size' = [size EXCEPT ![img] = IF @ < s THEN s ELSE @]
  <2>1. img \in Files
    BY <1>1, ImgInFiles DEF Resizable
  <2> QED BY <1>1, <2>1
<1>2. CASE Goto(p, "idle") /\ UNCHANGED <<fs, size>>
  BY <1>2
<1> QED BY <1>1, <1>2 DEF ResizesFs

LEMMA ResizeInv ==
  ASSUME VolInv, NEW p \in Cmds, Resize(p)
  PROVE  VolInv'
<1> USE DEF VolInv, DiskOK
<1>1. CASE ResizeChecks(p)
  <2>1. ResizesAlone' /\ overlapped' \subseteq Kinds /\ overlapped \subseteq overlapped'
    BY <1>1, BeginsInv DEF ResizeChecks, Kinds, Steps
  <2>2. /\ pc' = [pc EXCEPT ![p] = "umount"] /\ pc[p] = "idle"
        /\ UNCHANGED disk
        /\ want' \in [Cmds -> Sizes]
        /\ img \in Files
        /\ old' = [old EXCEPT ![p] = size[img]]
    BY <1>1, ImgInFiles DEF ResizeChecks, Begins, Goto, disk
  <2>3. DiskOK'
    BY <2>1, <2>2 DEF disk, Steps
  <2>4. FsFits'
    BY <2>1, <2>2 DEF disk, FsFits
  <2>5. ASSUME Peaceful', NEW q \in Cmds
        PROVE  /\ pc'[q] \in {"umount", "grow", "shrink"} => img' # NoFile /\ size'[img'] = old'[q]
               /\ pc'[q] \notin {"grow", "cut"}
    <3>1. Does(p, "resize")'
      BY <2>2 DEF Does, Labels
    <3>2. q # p => pc'[q] = "idle"
      BY <2>1, <2>5, <3>1 DEF ResizesAlone
    <3> QED BY <2>2, <3>2 DEF disk, NoFile, Files
  <2>6. ResizeKnows'
    BY <2>5 DEF ResizeKnows
  <2> QED BY <2>1, <2>3, <2>4, <2>6
<1>2. CASE ResizeUnmounts(p)
  <2> DEFINE to == IF want[p] > old[p] THEN "grow" ELSE "shrink"
  <2>1. pc[p] = "umount" /\ Goto(p, to) /\ UNCHANGED <<disk, want, old, overlapped>>
    BY <1>2 DEF ResizeUnmounts, Unmounts
  <2>2. Peaceful => img # NoFile /\ size[img] = old[p]
    BY <2>1 DEF ResizeKnows
  <2>3. Peaceful => \A f \in Files : fs[f] <= size[f]
    BY DEF FsFits, Peaceful
  <2> QED BY <2>1, <2>2, <2>3, ResizeWorkInv DEF disk, ResizeSteps
<1>3. CASE Grows(p)
  <2>1. pc[p] = "grow" /\ UNCHANGED <<made, fs, img, want, old, overlapped>>
    BY <1>3 DEF Grows, SetsLen, ghost
  <2>2. CASE img = NoFile
    <3>1. UNCHANGED size /\ Goto(p, "idle")
      BY <1>3, <2>2 DEF Grows, SetsLen
    <3> QED BY <2>1, <3>1, ResizeWorkInv DEF ResizeSteps, FsFits, Peaceful
  <2>3. CASE img # NoFile
    <3>1. size' = [size EXCEPT ![img] = want[p]] /\ Goto(p, "fill") /\ img \in Files
      BY <1>3, <2>3, ImgInFiles DEF Grows, SetsLen
    <3>2. size' \in [Files -> Sizes]
      BY <3>1
    <3>3. Peaceful => \A f \in Files : fs'[f] <= size'[f]
      <4>1. Peaceful => size[img] = old[p] /\ want[p] > old[p] /\ \A f \in Files : fs[f] <= size[f]
        BY <2>1 DEF ResizeKnows, FsFits, Peaceful
      <4> QED BY <2>1, <3>1, <4>1 DEF Sizes
    <3> QED BY <2>1, <3>1, <3>2, <3>3, ResizeWorkInv DEF ResizeSteps
  <2> QED BY <2>2, <2>3
<1>4. CASE Fills(p)
  <2> DEFINE s == IF img = NoFile THEN 0 ELSE size[img]
  <2>1. s \in Sizes
    BY VolumesAssumption DEF Sizes, Files, NoFile
  <2>2. ResizesFs(p, "fill", "remount", s)
    BY <1>4 DEF Fills
  <2>3. pc[p] = "fill" /\ UNCHANGED <<made, img, want, old, overlapped>>
    BY <2>2 DEF ResizesFs
  <2>4. /\ size' \in [Files -> Sizes] /\ fs' \in [Files -> Sizes]
        /\ \A f \in Files : fs[f] <= size[f] => fs'[f] <= size'[f]
        /\ Goto(p, "remount") \/ Goto(p, "idle")
    BY <2>1, <2>2, ResizesFsFits
  <2>5. Peaceful => \A f \in Files : fs'[f] <= size'[f]
    BY <2>4 DEF FsFits, Peaceful
  <2>6. PICK to \in {"remount", "idle"} : Goto(p, to)
    BY <2>4
  <2> QED BY <2>3, <2>4, <2>5, <2>6, ResizeWorkInv DEF ResizeSteps
<1>5. CASE Shrinks(p)
  <2>1. want[p] \in Sizes /\ ResizesFs(p, "shrink", "cut", want[p])
    BY <1>5 DEF Shrinks
  <2>2. pc[p] = "shrink" /\ UNCHANGED <<made, img, want, old, overlapped>>
    BY <2>1 DEF ResizesFs
  <2>3. /\ size' \in [Files -> Sizes] /\ fs' \in [Files -> Sizes]
        /\ \A f \in Files : fs[f] <= size[f] => fs'[f] <= size'[f]
        /\ (Goto(p, "cut") /\ img # NoFile /\ fs'[img] = want[p]) \/ Goto(p, "idle")
    BY <2>1, ResizesFsFits
  <2>4. Peaceful => \A f \in Files : fs'[f] <= size'[f]
    BY <2>3 DEF FsFits, Peaceful
  <2>5. CASE Goto(p, "cut") /\ img # NoFile /\ fs'[img] = want[p]
    <3>1. fs'[img] <= want[p]
      BY <2>1, <2>5 DEF Sizes
    <3> QED BY <2>2, <2>3, <2>4, <2>5, <3>1, ResizeWorkInv DEF ResizeSteps
  <2>6. CASE Goto(p, "idle")
    BY <2>2, <2>3, <2>4, <2>6, ResizeWorkInv DEF ResizeSteps
  <2> QED BY <2>3, <2>5, <2>6
<1>6. CASE Cuts(p)
  <2>1. pc[p] = "cut" /\ UNCHANGED <<made, fs, img, want, old, overlapped>>
    BY <1>6 DEF Cuts, SetsLen, ghost
  <2>2. CASE img = NoFile
    <3>1. UNCHANGED size /\ Goto(p, "idle")
      BY <1>6, <2>2 DEF Cuts, SetsLen
    <3> QED BY <2>1, <3>1, ResizeWorkInv DEF ResizeSteps, FsFits, Peaceful
  <2>3. CASE img # NoFile
    <3>1. size' = [size EXCEPT ![img] = want[p]] /\ Goto(p, "remount") /\ img \in Files
      BY <1>6, <2>3, ImgInFiles DEF Cuts, SetsLen
    <3>2. size' \in [Files -> Sizes]
      BY <3>1
    <3>3. Peaceful => \A f \in Files : fs'[f] <= size'[f]
      <4>1. Peaceful => fs[img] <= want[p] /\ \A f \in Files : fs[f] <= size[f]
        BY <2>1 DEF ResizeKnows, FsFits, Peaceful
      <4> QED BY <2>1, <3>1, <4>1
    <3> QED BY <2>1, <3>1, <3>2, <3>3, ResizeWorkInv DEF ResizeSteps
  <2> QED BY <2>2, <2>3
<1>7. CASE Remounts(p)
  <2>1. pc[p] = "remount" /\ Goto(p, "idle") /\ UNCHANGED <<disk, want, old, overlapped>>
    BY <1>7 DEF Remounts, Mounts
  <2> QED BY <2>1, ResizeWorkInv DEF disk, ResizeSteps, FsFits, Peaceful
<1> QED BY <1>1, <1>2, <1>3, <1>4, <1>5, <1>6, <1>7 DEF Resize

LEMMA RemoveInv ==
  ASSUME VolInv, NEW p \in Cmds, Remove(p)
  PROVE  VolInv'
<1> USE DEF VolInv, DiskOK
<1>1. ASSUME NEW label \in {"rmumount", "prune"}, Begins(p, "remove", label), UNCHANGED <<want, old>>
      PROVE  VolInv'
  <2>1. ResizesAlone' /\ overlapped' \subseteq Kinds /\ overlapped \subseteq overlapped'
    BY <1>1, BeginsInv DEF Kinds, Steps, ResizeSteps
  <2>2. pc' = [pc EXCEPT ![p] = label] /\ UNCHANGED disk
    BY <1>1 DEF Begins, Goto
  <2>3. DiskOK'
    BY <1>1, <2>1, <2>2 DEF disk, Steps
  <2>4. FsFits'
    BY <2>1, <2>2 DEF disk, FsFits
  <2>5. ASSUME Peaceful', NEW q \in Cmds
        PROVE  /\ pc'[q] \in {"umount", "grow", "shrink"} => img # NoFile /\ size[img] = old[q]
               /\ pc'[q] = "grow" => want[q] > old[q]
               /\ pc'[q] = "cut" => img # NoFile /\ fs[img] <= want[q]
    <3>1. Peaceful
      BY <2>1, <2>5 DEF Peaceful
    <3>2. pc'[q] = pc[q] \/ pc'[q] \in {"rmumount", "prune"}
      BY <2>2
    <3> QED BY <3>1, <3>2 DEF ResizeKnows
  <2>6. ResizeKnows'
    BY <1>1, <2>2, <2>5 DEF ResizeKnows, disk
  <2> QED BY <2>1, <2>3, <2>4, <2>6
<1>2. CASE RmChecks(p)
  BY <1>1, <1>2 DEF RmChecks
<1>3. CASE PruneLists(p)
  BY <1>1, <1>3 DEF PruneLists
<1>4. CASE PruneTakes(p)
  <2>1. PICK to \in {"rmumount", "rmfile"} : Goto(p, to)
    BY <1>4 DEF PruneTakes
  <2> QED BY <1>4, <2>1, OtherWorkInv DEF PruneTakes, disk, ghost, Steps, ResizeSteps
<1>5. CASE RmUnmounts(p)
  BY <1>5, OtherWorkInv DEF RmUnmounts, Unmounts, disk, Steps, ResizeSteps
<1>6. CASE RemovesDir(p)
  BY <1>6, OtherWorkInv DEF RemovesDir, disk, ghost, Steps, ResizeSteps
<1>7. CASE RemovesFile(p)
  <2>1. PICK to \in {"idle", "prune"} : Goto(p, to)
    BY <1>7 DEF RemovesFile, Unlinks
  <2> QED BY <1>7, <2>1, OtherWorkInv DEF RemovesFile, Unlinks, ghost, Steps, ResizeSteps, NoFile
<1> QED BY <1>2, <1>3, <1>4, <1>5, <1>6, <1>7 DEF Remove

\* A step after which fewer are at work and the disk is the same.
LEMMA RestInv ==
  ASSUME VolInv, UNCHANGED <<disk, want, old, overlapped>>,
         pc' \in [Cmds -> {"idle"} \cup Steps],
         \A q \in Cmds : pc'[q] = pc[q] \/ pc'[q] = "idle"
  PROVE  VolInv'
<1> USE DEF VolInv, DiskOK, disk
<1>1. DiskOK' /\ FsFits'
  BY DEF FsFits
<1>2. Peaceful' => Peaceful
  BY DEF Peaceful
<1>3. ResizesAlone'
  BY <1>2 DEF ResizesAlone, Does, Labels
<1>4. ResizeKnows'
  BY <1>2 DEF ResizeKnows
<1> QED BY <1>1, <1>3, <1>4

LEMMA NextInv == VolInv /\ [Next]_vars => VolInv'
<1> SUFFICES ASSUME VolInv, [Next]_vars PROVE VolInv'
  OBVIOUS
<1>1. ASSUME NEW p \in Cmds, Create(p) PROVE VolInv'
  BY <1>1, CreateInv
<1>2. ASSUME NEW p \in Cmds, Resize(p) PROVE VolInv'
  BY <1>2, ResizeInv
<1>3. ASSUME NEW p \in Cmds, Remove(p) PROVE VolInv'
  BY <1>3, RemoveInv
<1>4. ASSUME NEW p \in Cmds, Killed(p) PROVE VolInv'
  BY <1>4, RestInv DEF Killed, Goto, VolInv, DiskOK
<1>5. ASSUME NEW u \in Users, UserParses(u) \/ UserBinds(u) \/ UserEnds(u) PROVE VolInv'
  <2>1. UNCHANGED <<disk, cmds, ghost>>
    BY <1>5 DEF UserParses, UserBinds, UserEnds
  <2> QED BY <2>1, RestInv DEF cmds, ghost, VolInv, DiskOK
<1>6. CASE Reboot
  BY <1>6, RestInv DEF Reboot
<1>7. CASE UNCHANGED vars
  BY <1>7, RestInv DEF vars, cmds, ghost, VolInv, DiskOK
<1> QED BY <1>1, <1>2, <1>3, <1>4, <1>5, <1>6, <1>7 DEF Next

\* main.rs 1031-1072: whatever fails, is killed or restarts, and however other
\* commands overlap, a file system fits into its file, as long as nobody works on
\* the volume during a resize.
THEOREM FsFitsSafe == Spec => []FsFits
<1>1. VolInv => FsFits
  BY DEF VolInv
<1> QED BY <1>1, InitInv, NextInv, PTL DEF Spec

-----------------------------------------------------------------------------
(* Type correctness.                                                       *)

\* What DiskOK leaves out of the type.
RestOK ==
  /\ dir \in BOOLEAN
  /\ mnt \in Seq(1..made)
  /\ todo \in [Cmds -> SUBSET {"dir", "img"}]
  /\ upc \in [Users -> {"idle", "parsed", "up"}]
  /\ view \in [Users -> {Nothing, Bare} \cup {Fs(f) : f \in 1..made}]
  /\ hurt \in BOOLEAN

LEMMA MadeGrows ==
  ASSUME VolInv, VolInv', [Next]_vars
  PROVE  made \in Nat /\ made' \in Nat /\ made <= made'
<1>1. made \in Nat /\ made' \in Nat
  BY VolumesAssumption DEF VolInv, DiskOK
<1> QED
  BY <1>1 DEF Next, Create, Resize, Remove, CreateChecks, MakesPlain, MakesDir, MakesFile, Formats,
     UnlinksUnformatted, Unlinks, MakesMountPoint, MountsNew, Mounts, ResizeChecks, Begins,
     ResizeUnmounts, Unmounts, Grows, SetsLen, Fills, ResizesFs, Shrinks, Cuts, Remounts, RmChecks,
     PruneLists, PruneTakes, RmUnmounts, RemovesDir, RemovesFile, Killed, UserParses, UserBinds,
     UserEnds, Reboot, vars, disk

LEMMA SeqGrows ==
  ASSUME NEW m \in Nat, NEW n \in Nat, m <= n
  PROVE  Seq(1..m) \subseteq Seq(1..n)
<1>1. 1..m \subseteq 1..n
  OBVIOUS
<1> QED
  BY <1>1

LEMMA SeqParts ==
  ASSUME NEW S, NEW s \in Seq(S), s # <<>>
  PROVE  Head(s) \in S /\ Tail(s) \in Seq(S)
<1>1. Len(s) \in Nat /\ Len(s) # 0 /\ s \in [1..Len(s) -> S]
  OBVIOUS
<1> QED
  BY <1>1

\* The steps that change nothing but what others remember.
LEMMA RestGrows ==
  ASSUME RestOK, VolInv, VolInv', made <= made', UNCHANGED <<dir, mnt, upc, view, hurt>>,
         todo' \in [Cmds -> SUBSET {"dir", "img"}]
  PROVE  RestOK'
<1>1. made \in Nat /\ made' \in Nat
  BY VolumesAssumption DEF VolInv, DiskOK
<1>2. mnt' \in Seq(1..made')
  BY <1>1, SeqGrows DEF RestOK
<1>3. view' \in [Users -> {Nothing, Bare} \cup {Fs(f) : f \in 1..made'}]
  BY <1>1 DEF RestOK
<1> QED
  BY <1>2, <1>3 DEF RestOK

LEMMA RestStep ==
  ASSUME VolInv, VolInv', RestOK, [Next]_vars
  PROVE  RestOK'
<1>1. made \in Nat /\ made' \in Nat /\ made <= made'
  BY MadeGrows
<1>2. ASSUME UNCHANGED <<dir, mnt, upc, view, hurt>>,
             todo' \in [Cmds -> SUBSET {"dir", "img"}]
      PROVE  RestOK'
  BY <1>1, <1>2, RestGrows
<1>3. todo \in [Cmds -> SUBSET {"dir", "img"}]
  BY DEF RestOK
<1>4. ASSUME NEW p \in Cmds, NEW from, NEW to, Unmounts(p, from, to)
      PROVE  RestOK'
  <2>1. mnt' \in Seq(1..made)
    BY <1>4, SeqParts DEF Unmounts, RestOK
  <2> QED
    BY <1>4, <2>1 DEF Unmounts, RestOK, users, disk
<1>5. ASSUME NEW p \in Cmds, NEW from, Mounts(p, from)
      PROVE  RestOK'
  <2>1. img \in 0..made /\ made' = made
    BY <1>5 DEF VolInv, DiskOK, Mounts, disk
  <2>2. Mountable => <<img>> \o mnt \in Seq(1..made)
    <3>1. Mountable => img \in 1..made
      BY <1>1, <2>1 DEF Mountable, NoFile
    <3> QED
      BY <3>1 DEF RestOK
  <2>3. mnt' \in Seq(1..made)
    BY <1>5, <2>2 DEF Mounts, RestOK
  <2> QED
    BY <1>5, <2>1, <2>3 DEF Mounts, RestOK, users
<1>6. ASSUME NEW p \in Cmds, Create(p)
      PROVE  RestOK'
  <2>1. CASE CreateChecks(p) \/ MakesFile(p) \/ Formats(p) \/ UnlinksUnformatted(p)
    BY <1>2, <1>3, <2>1
       DEF CreateChecks, Begins, MakesFile, Formats, UnlinksUnformatted, Unlinks, users, ghost
  <2>2. CASE MakesPlain(p) \/ MakesMountPoint(p)
    BY <2>2 DEF MakesPlain, MakesMountPoint, MakesDir, users, ghost, disk, RestOK
  <2> QED
    BY <1>5, <1>6, <2>1, <2>2 DEF Create, MountsNew
<1>7. ASSUME NEW p \in Cmds, Resize(p)
      PROVE  RestOK'
  <2>1. CASE ResizeChecks(p) \/ Grows(p) \/ Cuts(p)
    BY <1>2, <1>3, <2>1 DEF ResizeChecks, Begins, Grows, Cuts, SetsLen, users, ghost
  <2>2. ASSUME NEW from, NEW to, NEW k, ResizesFs(p, from, to, k)
        PROVE  RestOK'
    BY <2>2 DEF ResizesFs, users, RestOK
  <2> QED
    BY <1>4, <1>5, <1>7, <2>1, <2>2 DEF Resize, ResizeUnmounts, Fills, Shrinks, Remounts
<1>8. ASSUME NEW p \in Cmds, Remove(p)
      PROVE  RestOK'
  <2>1. CASE RmChecks(p) \/ PruneLists(p)
    BY <1>2, <1>3, <2>1 DEF RmChecks, PruneLists, Begins, users
  <2>2. CASE PruneTakes(p)
    BY <1>2, <1>3, <2>2 DEF PruneTakes, users, ghost
  <2>3. CASE RemovesDir(p)
    BY <2>3 DEF RemovesDir, users, ghost, disk, RestOK
  <2>4. CASE RemovesFile(p)
    BY <1>2, <1>3, <2>4 DEF RemovesFile, Unlinks, users, ghost
  <2> QED
    BY <1>4, <1>8, <2>1, <2>2, <2>3, <2>4 DEF Remove, RmUnmounts
<1>9. ASSUME NEW p \in Cmds, Killed(p)
      PROVE  RestOK'
  BY <1>9 DEF Killed, users, disk, RestOK
<1>10. ASSUME NEW u \in Users, UserParses(u) \/ UserBinds(u) \/ UserEnds(u)
       PROVE  RestOK'
  <2>1. CASE UserParses(u)
    BY <2>1 DEF UserParses, disk, cmds, ghost, RestOK
  <2>2. CASE UserBinds(u)
    <3>1. mnt # <<>> => Head(mnt) \in 1..made
      BY SeqParts DEF RestOK
    <3>2. made' = made /\ UNCHANGED <<dir, mnt, todo, hurt>>
      BY <2>2 DEF UserBinds, disk, cmds, ghost
    <3>3. /\ view' \in [Users -> {Nothing, Bare} \cup {Fs(f) : f \in 1..made}]
          /\ upc' \in [Users -> {"idle", "parsed", "up"}]
      BY <2>2, <3>1 DEF UserBinds, RestOK
    <3> QED
      BY <3>2, <3>3 DEF RestOK
  <2>3. CASE UserEnds(u)
    BY <2>3 DEF UserEnds, disk, cmds, ghost, RestOK
  <2> QED
    BY <1>10, <2>1, <2>2, <2>3
<1>11. CASE Reboot
  BY <1>11 DEF Reboot, disk, RestOK
<1>12. CASE UNCHANGED vars
  BY <1>2, <1>3, <1>12 DEF vars, cmds, users, ghost
<1> QED
  BY <1>6, <1>7, <1>8, <1>9, <1>10, <1>11, <1>12 DEF Next

\* The invariants of the disk and the types, together.
THEOREM Inductive == Spec => [](VolInv /\ RestOK)
<1>1. Init => RestOK
  <2>1. \A S : <<>> \in Seq(S)
    OBVIOUS
  <2> QED
    BY <2>1 DEF Init, RestOK
<1>2. VolInv /\ VolInv' /\ RestOK /\ [Next]_vars => RestOK'
  BY RestStep
<1> QED
  BY <1>1, <1>2, InitInv, NextInv, PTL DEF Spec

\* Files, mounts, directory entries and what containers see stay what they are, for any
\* number of commands and containers.
COROLLARY TypeCorrect == Spec => []TypeOK
<1>1. Steps = UNION {Labels[kind] : kind \in Kinds}
  BY DEF Steps, Labels, Kinds
<1>2. VolInv /\ RestOK => TypeOK
  BY <1>1 DEF VolInv, DiskOK, RestOK, TypeOK
<1> QED
  BY <1>2, Inductive, PTL

-----------------------------------------------------------------------------
(* A volume is whole between commands.                                     *)

LEMMA CalmBefore ==
  ASSUME VolInv, VolInv', RestOK, [Next]_vars, Calm'
  PROVE  Calm
<1>1. ASSUME NEW p \in Cmds, NEW kind, NEW label, Begins(p, kind, label)
      PROVE  Calm
  BY <1>1 DEF Begins, Calm
<1> QED
  BY <1>1 DEF Calm, RestOK, Next, Create, Resize, Remove, CreateChecks, MakesPlain, MakesDir,
     MakesFile, Formats, UnlinksUnformatted, Unlinks, MakesMountPoint, MountsNew, Mounts,
     ResizeChecks, ResizeUnmounts, Unmounts, Grows, SetsLen, Fills, ResizesFs, Shrinks, Cuts,
     Remounts, RmChecks, PruneLists, PruneTakes, RmUnmounts, RemovesDir, RemovesFile, Killed,
     UserParses, UserBinds, UserEnds, Reboot, vars, ghost

\* A step of the only invocation that is at work, or of the first.
LEMMA WorkerStep ==
  ASSUME VolInv, NEW p \in Cmds, \A q \in Cmds \ {p} : pc[q] = "idle",
         NEW to \in {"idle"} \cup Steps, Goto(p, to),
         to = "idle" => WholeDisk',
         Stage(p)'
  PROVE  CalmInv'
<1>1. /\ pc'[p] = to
      /\ \A q \in Cmds \ {p} : pc'[q] = "idle"
  BY DEF Goto, VolInv, DiskOK
<1>2. \A q \in Cmds : Stage(q)'
  <2> SUFFICES ASSUME NEW q \in Cmds
               PROVE  Stage(q)'
    OBVIOUS
  <2>1. CASE q = p
    BY <2>1
  <2>2. CASE q # p
    <3>1. pc'[q] = "idle"
      BY <1>1, <2>2
    <3> QED
      BY <3>1 DEF Stage
  <2> QED
    BY <2>1, <2>2
<1> QED
  BY <1>1, <1>2 DEF CalmInv, Solo, AtRest, Steps

\* Nobody begins while another is at work.
LEMMA BeginsCalm ==
  ASSUME VolInv, RestOK, CalmInv, NEW p \in Cmds, NEW kind \in Kinds, NEW label \in Steps,
         Begins(p, kind, label), Calm'
  PROVE  /\ \A q \in Cmds : pc[q] = "idle"
         /\ WholeDisk
         /\ Goto(p, label) /\ UNCHANGED <<disk, dir, mnt>>
<1> DEFINE others == {k \in Kinds : \E q \in Cmds \ {p} : Does(q, k)}
<1>1. /\ overlapped' = IF others = {} THEN overlapped ELSE overlapped \cup others \cup {kind}
      /\ pc[p] = "idle" /\ Goto(p, label) /\ UNCHANGED <<disk, dir, mnt, hurt>>
  BY DEF Begins
<1>2. others = {} /\ overlapped = {} /\ ~hurt
  BY <1>1 DEF Calm
<1>3. \A q \in Cmds \ {p} : \A k \in Kinds : ~Does(q, k)
  BY <1>2
<1> HIDE DEF others
<1>4. \A q \in Cmds \ {p} : pc[q] = "idle"
  <2> SUFFICES ASSUME NEW q \in Cmds \ {p}
               PROVE  pc[q] = "idle"
    OBVIOUS
  <2>1. pc[q] \notin Steps
    BY <1>3 DEF Steps, Does, Labels, Kinds
  <2> QED
    BY <2>1 DEF VolInv, DiskOK
<1>5. \A q \in Cmds : pc[q] = "idle"
  BY <1>1, <1>4
<1>6. WholeDisk
  BY <1>2, <1>5 DEF CalmInv, Calm, AtRest
<1> QED
  BY <1>1, <1>5, <1>6

\* What is mountable is mounted.
LEMMA MountsWhole ==
  ASSUME VolInv, RestOK, NEW p \in Cmds, NEW from, Mounts(p, from), Calm, Calm',
         dir, Formatted, mnt = <<>>
  PROVE  WholeDisk' /\ Goto(p, "idle")
<1>1. img \in Files /\ fs[img] <= size[img]
  BY ImgInFiles DEF Formatted, VolInv, FsFits, Calm
<1>2. Mountable
  BY <1>1 DEF Mountable, Formatted
<1>3. mnt' = <<img>> \o mnt /\ UNCHANGED <<disk, dir>>
  BY <1>2 DEF Mounts, Calm
<1>4. <<img>> \o <<>> = <<img>>
  OBVIOUS
<1> QED
  BY <1>3, <1>4 DEF WholeDisk, Formatted, Mounts, disk

LEMMA UnmountsShort ==
  ASSUME NEW p \in Cmds, NEW from, NEW to, Unmounts(p, from, to), ~hurt', Short
  PROVE  mnt' = <<>> /\ UNCHANGED <<disk, dir, todo, want, old>> /\ Goto(p, to)
<1>1. \A f \in Files : Tail(<<f>>) = <<>> /\ <<f>> # <<>>
  OBVIOUS
<1> QED
  BY <1>1 DEF Unmounts, Short

LEMMA OnlyWorker ==
  ASSUME CalmInv, Calm, NEW p \in Cmds, pc[p] # "idle"
  PROVE  Stage(p) /\ \A q \in Cmds \ {p} : pc[q] = "idle"
  BY DEF CalmInv, Solo

LEMMA CreateCalm ==
  ASSUME VolInv, RestOK, CalmInv, Calm, Calm', NEW p \in Cmds, Create(p)
  PROVE  CalmInv'
<1>1. pc \in [Cmds -> {"idle"} \cup Steps] /\ size \in [Files -> Sizes] /\ fs \in [Files -> Sizes]
  BY DEF VolInv, DiskOK
<1>2. CASE CreateChecks(p)
  <2>1. ~dir /\ img = NoFile
    BY <1>2 DEF CreateChecks
  <2>2. ASSUME NEW label \in {"plain", "open"}, Begins(p, "create", label)
        PROVE  CalmInv'
    <3>1. /\ \A q \in Cmds : pc[q] = "idle"
          /\ WholeDisk /\ Goto(p, label) /\ UNCHANGED <<disk, dir, mnt>>
      BY <2>2, BeginsCalm DEF Kinds, Steps
    <3>2. pc'[p] = label
      BY <1>1, <3>1 DEF Goto
    <3>3. Stage(p)'
      BY <2>1, <3>1, <3>2 DEF Stage, WholeDisk, disk
    <3> QED
      BY <3>1, <3>3, WorkerStep DEF Steps
  <2> QED
    BY <1>2, <2>2 DEF CreateChecks
<1>3. CASE pc[p] # "idle"
  <2>1. Stage(p) /\ \A q \in Cmds \ {p} : pc[q] = "idle"
    BY <1>3, OnlyWorker
  <2>2. CASE MakesPlain(p)
    <3>1. pc[p] = "plain" /\ Goto(p, "idle") /\ UNCHANGED <<disk, mnt>>
      BY <2>2 DEF MakesPlain, MakesDir
    <3>2. pc'[p] = "idle" /\ WholeDisk'
      BY <1>1, <2>1, <3>1 DEF Stage, WholeDisk, Goto, disk
    <3>3. Stage(p)'
      BY <3>2 DEF Stage
    <3> QED
      BY <2>1, <3>1, <3>2, <3>3, WorkerStep
  <2>3. CASE MakesFile(p)
    <3>1. pc[p] = "open" /\ Goto(p, "mkfs") /\ mnt' = mnt
      BY <2>3 DEF MakesFile
    <3>2. Stage(p)'
      BY <1>1, <2>1, <3>1 DEF Stage, Goto
    <3> QED
      BY <2>1, <3>1, <3>2, WorkerStep DEF Steps
  <2>4. CASE Formats(p)
    <3>1. pc[p] = "mkfs" /\ UNCHANGED <<mnt, img>>
      BY <2>4 DEF Formats
    <3>2. CASE Formattable /\ fs' = [fs EXCEPT ![img] = size[img]] /\ Goto(p, "mkdir")
      <4>1. img \in Files /\ size[img] # 0
        BY <3>2, ImgInFiles DEF Formattable
      <4>2. Formatted'
        BY <1>1, <3>1, <3>2, <4>1 DEF Formatted, Formattable
      <4>3. Stage(p)'
        BY <1>1, <2>1, <3>1, <3>2, <4>2 DEF Stage, Goto
      <4> QED
        BY <2>1, <3>2, <4>3, WorkerStep DEF Steps
    <3>3. CASE Goto(p, "unlink")
      <4>1. Stage(p)'
        BY <1>1, <2>1, <3>1, <3>3 DEF Stage, Goto
      <4> QED
        BY <2>1, <3>3, <4>1, WorkerStep DEF Steps
    <3> QED
      BY <2>4, <3>2, <3>3 DEF Formats
  <2>5. CASE UnlinksUnformatted(p)
    <3>1. pc[p] = "unlink" /\ Goto(p, "idle") /\ mnt' = mnt /\ img' = NoFile
      BY <2>5 DEF UnlinksUnformatted, Unlinks
    <3>2. pc'[p] = "idle" /\ WholeDisk'
      BY <1>1, <2>1, <3>1 DEF Stage, WholeDisk, Goto
    <3>3. Stage(p)'
      BY <3>2 DEF Stage
    <3> QED
      BY <2>1, <3>1, <3>2, <3>3, WorkerStep
  <2>6. CASE MakesMountPoint(p)
    <3>1. pc[p] = "mkdir" /\ Goto(p, "mount") /\ dir' = TRUE /\ UNCHANGED <<img, fs, mnt>>
      BY <2>6 DEF MakesMountPoint, MakesDir, disk
    <3>2. Stage(p)'
      BY <1>1, <2>1, <3>1 DEF Stage, Goto, Formatted
    <3> QED
      BY <2>1, <3>1, <3>2, WorkerStep DEF Steps
  <2>7. CASE MountsNew(p)
    <3>1. pc[p] = "mount" /\ Mounts(p, "mount")
      BY <2>7 DEF MountsNew, Mounts
    <3>2. WholeDisk' /\ Goto(p, "idle")
      BY <2>1, <3>1, MountsWhole DEF Stage
    <3>3. pc'[p] = "idle"
      BY <1>1, <3>2 DEF Goto
    <3>4. Stage(p)'
      BY <3>3 DEF Stage
    <3> QED
      BY <2>1, <3>2, <3>4, WorkerStep
  <2> QED
    BY <1>3, <2>2, <2>3, <2>4, <2>5, <2>6, <2>7 DEF Create, CreateChecks, Begins
<1>4. pc[p] = "idle" => CreateChecks(p)
  BY DEF Create, MakesPlain, MakesDir, MakesFile, Formats, UnlinksUnformatted, Unlinks,
         MakesMountPoint, MountsNew, Mounts
<1> QED
  BY <1>2, <1>3, <1>4

LEMMA ResizeCalm ==
  ASSUME VolInv, RestOK, CalmInv, Calm, Calm', NEW p \in Cmds, Resize(p)
  PROVE  CalmInv'
<1>1. /\ pc \in [Cmds -> {"idle"} \cup Steps] /\ size \in [Files -> Sizes]
      /\ fs \in [Files -> Sizes]
  BY DEF VolInv, DiskOK
<1>2. CASE ResizeChecks(p)
  <2>1. img # NoFile /\ Begins(p, "resize", "umount")
    BY <1>2 DEF ResizeChecks
  <2>2. /\ \A q \in Cmds : pc[q] = "idle"
        /\ WholeDisk /\ Goto(p, "umount") /\ UNCHANGED <<disk, dir, mnt>>
    BY <2>1, BeginsCalm DEF Kinds, Steps
  <2>3. WholeDisk' /\ img' # NoFile
    BY <2>1, <2>2 DEF WholeDisk, disk
  <2>4. pc'[p] = "umount"
    BY <1>1, <2>2 DEF Goto
  <2>5. Stage(p)'
    BY <2>3, <2>4 DEF Stage
  <2> QED
    BY <2>2, <2>5, WorkerStep DEF Steps
<1>3. CASE pc[p] # "idle"
  <2>1. Stage(p) /\ \A q \in Cmds \ {p} : pc[q] = "idle"
    BY <1>3, OnlyWorker
  <2>2. ASSUME NEW to \in {"grow", "fill", "shrink", "cut", "remount"}, Goto(p, to),
               dir', Formatted', mnt' = <<>>
        PROVE  CalmInv'
    <3>1. pc'[p] = to
      BY <1>1, <2>2 DEF Goto
    <3>2. Stage(p)'
      BY <2>2, <3>1 DEF Stage
    <3> QED
      BY <2>1, <2>2, <3>2, WorkerStep DEF Steps
  <2>3. CASE ResizeUnmounts(p)
    <3> DEFINE to == IF want[p] > old[p] THEN "grow" ELSE "shrink"
    <3>1. pc[p] = "umount" /\ Unmounts(p, "umount", to)
      BY <2>3 DEF ResizeUnmounts, Unmounts
    <3> HIDE DEF to
    <3>2. dir /\ Formatted /\ Short
      BY <2>1, <3>1, ImgInFiles DEF Stage, WholeDisk, Formatted, Short
    <3>3. mnt' = <<>> /\ UNCHANGED <<disk, dir>> /\ Goto(p, to)
      BY <3>1, <3>2, UnmountsShort DEF Calm
    <3>4. dir' /\ Formatted'
      BY <3>2, <3>3 DEF Formatted, disk
    <3> QED
      BY <2>2, <3>3, <3>4 DEF to
  <2>4. ASSUME NEW from \in {"grow", "cut"}, NEW to \in {"fill", "remount"},
               SetsLen(p, from, to, want[p])
        PROVE  CalmInv'
    <3>1. dir /\ Formatted /\ mnt = <<>> /\ img # NoFile
      BY <2>1, <2>4 DEF SetsLen, Stage, Formatted
    <3>2. Goto(p, to) /\ dir' /\ Formatted' /\ mnt' = <<>>
      BY <2>4, <3>1 DEF SetsLen, Formatted
    <3> QED
      BY <2>2, <3>2
  <2>5. ASSUME NEW from \in {"fill", "shrink"}, NEW to \in {"cut", "remount"}, NEW k,
               ResizesFs(p, from, to, k)
        PROVE  CalmInv'
    <3>1. dir /\ Formatted /\ mnt = <<>> /\ img \in Files
      BY <2>1, <2>5, ImgInFiles DEF ResizesFs, Stage, Formatted
    <3>2. Resizable(k) /\ fs' = [fs EXCEPT ![img] = k] /\ Goto(p, to)
          /\ UNCHANGED <<img, dir, mnt>>
      BY <2>5 DEF ResizesFs, Calm
    <3>3. fs'[img] # 0
      BY <1>1, <3>1, <3>2 DEF Resizable
    <3>4. dir' /\ Formatted' /\ mnt' = <<>>
      BY <3>1, <3>2, <3>3 DEF Formatted
    <3> QED
      BY <2>2, <3>2, <3>4
  <2>6. CASE Remounts(p)
    <3>1. pc[p] = "remount" /\ Mounts(p, "remount")
      BY <2>6 DEF Remounts, Mounts
    <3>2. WholeDisk' /\ Goto(p, "idle")
      BY <2>1, <3>1, MountsWhole DEF Stage
    <3>3. pc'[p] = "idle"
      BY <1>1, <3>2 DEF Goto
    <3>4. Stage(p)'
      BY <3>3 DEF Stage
    <3> QED
      BY <2>1, <3>2, <3>4, WorkerStep
  <2> QED
    BY <1>3, <2>3, <2>4, <2>5, <2>6
       DEF Resize, ResizeChecks, Begins, Grows, Fills, Shrinks, Cuts
<1>4. pc[p] = "idle" => ResizeChecks(p)
  BY DEF Resize, ResizeUnmounts, Unmounts, Grows, Cuts, SetsLen, Fills, Shrinks, ResizesFs,
         Remounts, Mounts
<1> QED
  BY <1>2, <1>3, <1>4

LEMMA RemoveCalm ==
  ASSUME VolInv, RestOK, CalmInv, Calm, Calm', NEW p \in Cmds, Remove(p)
  PROVE  CalmInv'
<1>1. pc \in [Cmds -> {"idle"} \cup Steps] /\ todo \in [Cmds -> SUBSET {"dir", "img"}]
  BY DEF VolInv, DiskOK, RestOK
<1>2. ASSUME NEW label \in {"rmumount", "prune"}, Begins(p, "remove", label),
             label = "prune" => \/ "dir" \in todo'[p]
                                \/ img = NoFile /\ ~dir
                                \/ img # NoFile /\ ~dir
      PROVE  CalmInv'
  <2>1. /\ \A q \in Cmds : pc[q] = "idle"
        /\ WholeDisk /\ Goto(p, label) /\ UNCHANGED <<disk, dir, mnt>>
    BY <1>2, BeginsCalm DEF Kinds, Steps
  <2>2. pc'[p] = label
    BY <1>1, <2>1 DEF Goto
  <2>3. Short' /\ (~dir => img' = NoFile /\ mnt' = <<>>)
    BY <2>1, ImgInFiles DEF WholeDisk, Short, disk
  <2>4. Stage(p)'
    BY <1>2, <2>2, <2>3 DEF Stage
  <2> QED
    BY <2>1, <2>4, WorkerStep DEF Steps
<1>3. CASE RmChecks(p)
  BY <1>2, <1>3 DEF RmChecks
<1>4. CASE PruneLists(p)
  <2>1. dir => "dir" \in todo'[p]
    BY <1>1, <1>4 DEF PruneLists
  <2> QED
    BY <1>2, <1>4, <2>1 DEF PruneLists
<1>5. CASE pc[p] # "idle"
  <2>1. Stage(p) /\ \A q \in Cmds \ {p} : pc[q] = "idle"
    BY <1>5, OnlyWorker
  <2>2. CASE PruneTakes(p)
    <3>1. PICK e \in todo[p] :
            /\ todo' = [todo EXCEPT ![p] = @ \ {e}]
            /\ Goto(p, IF e = "dir" THEN "rmumount" ELSE "rmfile")
      BY <2>2 DEF PruneTakes
    <3>2. pc[p] = "prune" /\ UNCHANGED <<disk, dir, mnt>>
      BY <2>2 DEF PruneTakes
    <3>3. Short' /\ ("dir" \in todo[p] \/ mnt' = <<>>)
      BY <2>1, <3>2 DEF Stage, Short
    <3>4. CASE e = "dir"
      <4>1. Goto(p, "rmumount") /\ pc'[p] = "rmumount"
        BY <1>1, <3>1, <3>4 DEF Goto
      <4>2. Stage(p)'
        BY <3>3, <4>1 DEF Stage
      <4> QED
        BY <2>1, <4>1, <4>2, WorkerStep DEF Steps
    <3>5. CASE e # "dir"
      <4>1. Goto(p, "rmfile") /\ pc'[p] = "rmfile"
        BY <1>1, <3>1, <3>5 DEF Goto
      <4>2. "dir" \in todo'[p] \/ mnt' = <<>>
        BY <1>1, <3>1, <3>3, <3>5
      <4>3. Stage(p)'
        BY <3>3, <4>1, <4>2 DEF Stage
      <4> QED
        BY <2>1, <4>1, <4>3, WorkerStep DEF Steps
    <3> QED
      BY <3>4, <3>5
  <2>3. CASE RmUnmounts(p)
    <3>1. pc[p] = "rmumount" /\ Unmounts(p, "rmumount", "rmdir")
      BY <2>3 DEF RmUnmounts, Unmounts
    <3>2. mnt' = <<>> /\ Goto(p, "rmdir")
      BY <2>1, <3>1, UnmountsShort DEF Stage, Calm
    <3>3. Stage(p)'
      BY <1>1, <3>2 DEF Stage, Goto
    <3> QED
      BY <2>1, <3>2, <3>3, WorkerStep DEF Steps
  <2>4. CASE RemovesDir(p)
    <3>1. mnt' = <<>> /\ Goto(p, "rmfile")
      BY <2>1, <2>4 DEF RemovesDir, Stage
    <3>2. Stage(p)'
      BY <1>1, <3>1 DEF Stage, Goto, Short
    <3> QED
      BY <2>1, <3>1, <3>2, WorkerStep DEF Steps
  <2>5. CASE RemovesFile(p)
    <3>1. /\ pc[p] = "rmfile" /\ img' = NoFile /\ UNCHANGED <<mnt, todo>>
          /\ Goto(p, IF todo[p] = {} THEN "idle" ELSE "prune")
      BY <2>5 DEF RemovesFile, Unlinks
    <3>2. Short' /\ ("dir" \in todo'[p] \/ mnt' = <<>>)
      BY <2>1, <3>1 DEF Stage, Short
    <3>3. CASE todo[p] = {}
      <4>1. Goto(p, "idle") /\ pc'[p] = "idle" /\ WholeDisk'
        BY <1>1, <3>1, <3>2, <3>3 DEF Goto, WholeDisk
      <4>2. Stage(p)'
        BY <4>1 DEF Stage
      <4> QED
        BY <2>1, <4>1, <4>2, WorkerStep
    <3>4. CASE todo[p] # {}
      <4>1. Goto(p, "prune") /\ pc'[p] = "prune"
        BY <1>1, <3>1, <3>4 DEF Goto
      <4>2. Stage(p)'
        BY <3>1, <3>2, <4>1 DEF Stage
      <4> QED
        BY <2>1, <4>1, <4>2, WorkerStep DEF Steps
    <3> QED
      BY <3>3, <3>4
  <2> QED
    BY <1>5, <2>2, <2>3, <2>4, <2>5 DEF Remove, RmChecks, PruneLists, Begins
<1>6. pc[p] = "idle" => RmChecks(p) \/ PruneLists(p)
  BY DEF Remove, PruneTakes, RmUnmounts, Unmounts, RemovesDir, RemovesFile, Unlinks
<1> QED
  BY <1>3, <1>4, <1>5, <1>6

LEMMA CalmStep ==
  ASSUME VolInv, VolInv', RestOK, CalmInv, [Next]_vars
  PROVE  CalmInv'
<1> SUFFICES ASSUME Calm'
             PROVE  CalmInv'
  BY DEF CalmInv
<1>1. Calm
  BY CalmBefore
<1>2. ASSUME NEW p \in Cmds, Create(p) \/ Resize(p) \/ Remove(p)
      PROVE  CalmInv'
  BY <1>1, <1>2, CreateCalm, ResizeCalm, RemoveCalm
<1>3. ASSUME UNCHANGED <<img, fs, mnt, pc, todo>>, dir => dir'
      PROVE  CalmInv'
  <2>1. \A p \in Cmds : Stage(p) => Stage(p)'
    BY <1>3 DEF Stage, WholeDisk, Formatted, Short
  <2> QED
    BY <1>1, <1>3, <2>1 DEF CalmInv, Solo, AtRest, WholeDisk
<1>4. ASSUME NEW u \in Users, UserParses(u) \/ UserBinds(u) \/ UserEnds(u)
      PROVE  CalmInv'
  BY <1>3, <1>4 DEF UserParses, UserBinds, UserEnds, disk, cmds
<1>5. CASE UNCHANGED vars
  BY <1>3, <1>5 DEF vars, disk, cmds
<1>6. ~Reboot /\ \A p \in Cmds : ~Killed(p)
  BY DEF Calm, Reboot, Killed
<1> QED
  BY <1>2, <1>4, <1>5, <1>6 DEF Next

\* While commands come one after the other and go right, each finds the file, the mount and
\* the file system as its next step needs them, and leaves them whole (main.rs 897-1126).
THEOREM CalmSafe == Spec => []CalmInv
<1>1. Init => CalmInv
  BY DEF Init, CalmInv, Solo, AtRest, WholeDisk, Stage
<1>2. (VolInv /\ RestOK) /\ (VolInv /\ RestOK)' /\ CalmInv /\ [Next]_vars => CalmInv'
  BY CalmStep
<1> QED
  BY <1>1, <1>2, Inductive, PTL DEF Spec

\* main.rs 908-946, 1027-1077, 1090-1124: after any number of commands that succeeded
\* one after the other, with containers coming and going meanwhile, an image is
\* mounted on its directory, once, and nothing is mounted without one.
COROLLARY WholeSafe == Spec => []Whole
<1>1. CalmInv => Whole
  BY DEF CalmInv, Calm, Whole, WholeDisk
<1> QED
  BY <1>1, CalmSafe, PTL

\* README.md 429: a container gets the unlimited directory below a volume with a size
\* only while a command is at work on the volume, or after one has gone wrong.
COROLLARY LimitEnforcedSafe == Spec => LimitEnforced
<1>1. RestOK /\ CalmInv /\ [Next]_vars =>
        [\A u \in Users :
           view[u] # view'[u] /\ view'[u] = Bare /\ img # NoFile =>
             ~AtRest \/ overlapped # {} \/ hurt]_vars
  <2> SUFFICES ASSUME RestOK, CalmInv, [Next]_vars, NEW u \in Users,
                      view[u] # view'[u], view'[u] = Bare, img # NoFile, AtRest, Calm
               PROVE  FALSE
    BY DEF Calm
  <2>1. mnt # <<>>
    BY DEF CalmInv, WholeDisk
  <2>2. Nothing # Bare
    BY DEF Nothing, Bare
  <2>3. view \in [Users -> {Nothing, Bare} \cup {Fs(f) : f \in 1..made}]
    BY DEF RestOK
  <2>4. \A v \in Users : ~UserParses(v) /\ ~UserEnds(v)
    BY <2>2, <2>3 DEF UserParses, UserEnds
  <2>5. \A v \in Users : ~UserBinds(v)
    BY <2>1, <2>3 DEF UserBinds, Bare, Fs
  <2>6. ~Reboot /\ ~UNCHANGED vars
    BY <2>2 DEF Reboot, vars, users
  <2>7. \A p \in Cmds : ~Create(p)
    BY DEF Create, CreateChecks, MakesPlain, MakesDir, MakesFile, Formats, UnlinksUnformatted,
           Unlinks, MakesMountPoint, MountsNew, Mounts, Begins, users
  <2>8. \A p \in Cmds : ~Resize(p)
    BY DEF Resize, ResizeChecks, ResizeUnmounts, Unmounts, Grows, SetsLen, Fills, ResizesFs,
           Shrinks, Cuts, Remounts, Mounts, Begins, users
  <2>9. \A p \in Cmds : ~Remove(p) /\ ~Killed(p)
    BY DEF Remove, RmChecks, PruneLists, PruneTakes, RmUnmounts, Unmounts, RemovesDir, RemovesFile,
           Unlinks, Killed, Begins, users
  <2> QED
    BY <2>4, <2>5, <2>6, <2>7, <2>8, <2>9 DEF Next
<1> QED
  BY <1>1, Inductive, CalmSafe, PTL DEF Spec, LimitEnforced
=============================================================================
