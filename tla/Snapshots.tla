----------------------------- MODULE Snapshots -----------------------------
(***************************************************************************)
(* `corten snapshot create`, `restore` and `rm` for one name, on the upper  *)
(* directory of one container, beside its program, its supervisor and       *)
(* `corten cp`.  tar takes one file after another.  The files which the     *)
(* set-up of the container writes itself are not among Files.               *)
(***************************************************************************)
EXTENDS Naturals

CONSTANTS
  Savers,  \* invocations of snapshot
  Files,   \* files the container may change
  Vals,    \* what may be in them
  Absent

ASSUME SnapshotsAssumption == Absent \notin Vals

Bare == [f \in Files |-> Absent]

VARIABLES
  prog, record,   \* the program: "none", "alive", "dead"; the status on disk
  mounted,        \* the overlay is
  upperDir,       \* the directory upper is there
  attached,       \* and is the one that is mounted
  upper,          \* what is in it

  linked,         \* snapshots/<name>.tar.gz is there
  data, whole,    \* what is in it; a tar has written it to its end

  spc, left,      \* an invocation: where it stands, the files it has to do
  mine,           \* the file it writes is the one that is linked

  touched,        \* history: while an invocation was at work something else changed
                  \* upper or the snapshot
  orig,           \* history: upper when the snapshot was made, if nothing touched it
  restored        \* history: a restore has succeeded untouched, and nothing has
                  \* changed upper since

life    == <<prog, record, mounted>>
layers  == <<upperDir, attached, upper>>
archive == <<linked, data, whole>>
cmds    == <<spc, left, mine>>
past    == <<touched, orig, restored>>
svars   == <<life, layers, archive, cmds, past>>

Unknown == <<"unknown">>

SnapshotsInit ==
  /\ prog = "none" /\ record = "none" /\ mounted = FALSE
  /\ upperDir = FALSE /\ attached = FALSE /\ upper = Bare
  /\ linked = FALSE /\ data = Bare /\ whole = FALSE
  /\ spc = [p \in Savers |-> "idle"]
  /\ left = [p \in Savers |-> {}]
  /\ mine = [p \in Savers |-> FALSE]
  /\ touched = [p \in Savers |-> FALSE]
  /\ orig = Unknown /\ restored = FALSE

Goto(p, label) == spc' = [spc EXCEPT ![p] = label]
Busy == {p \in Savers : spc[p] # "idle"}

-----------------------------------------------------------------------------
(* The container.                                                          *)

\* setup_overlay makes upper, even if the mount then fails; a rootless container
\* does not try.  The record is "created" from then on.
SetsUp(overlay, rootless) ==
  /\ record = "none"
  /\ record' = "created"
  /\ mounted' = overlay /\ attached' = overlay
  /\ upperDir' = ~rootless
  /\ UNCHANGED <<prog, upper, archive, cmds, past>>

\* The byte on the pipe goes out before the record says "running".
Released ==
  /\ record = "created" /\ prog = "none"
  /\ prog' = "alive"
  /\ UNCHANGED <<record, mounted, layers, archive, cmds, past>>

SavesRunning ==
  /\ record = "created" /\ prog # "none"
  /\ record' = "running"
  /\ UNCHANGED <<prog, mounted, layers, archive, cmds, past>>

ProgramDies ==
  /\ prog = "alive"
  /\ prog' = "dead"
  /\ UNCHANGED <<record, mounted, layers, archive, cmds, past>>

SavesStopped ==
  /\ record = "running" /\ prog = "dead"
  /\ record' = "stopped"
  /\ UNCHANGED <<prog, mounted, layers, archive, cmds, past>>

\* cleanup_overlay, after that.
Unmounts ==
  /\ record = "stopped"
  /\ mounted' = FALSE /\ attached' = FALSE
  /\ UNCHANGED <<prog, record, upperDir, upper, archive, cmds, past>>

\* The program, or `corten cp`, which looks for the mount point only, changes or
\* deletes a file.  In an upper directory that was unlinked nothing can be made.
Changes ==
  /\ mounted /\ attached
  /\ \E f \in Files, v \in Vals \cup {Absent} :
       upper[f] # v /\ upper' = [upper EXCEPT ![f] = v]
  /\ touched' = [p \in Savers |-> TRUE]
  /\ restored' = FALSE
  /\ UNCHANGED <<life, upperDir, attached, archive, cmds, orig>>

-----------------------------------------------------------------------------

Begins(p, label) ==
  /\ spc[p] = "idle"
  /\ Goto(p, label)
  /\ touched' = [q \in Savers |-> IF q = p THEN Busy # {} ELSE TRUE]

\* An error, or a kill.  A file that tar has begun stays, and so does what it has
\* unpacked.
Fails(p) ==
  /\ spc[p] # "idle"
  /\ Goto(p, "idle")
  /\ left' = [left EXCEPT ![p] = {}]
  /\ mine' = [mine EXCEPT ![p] = FALSE]
  /\ UNCHANGED <<life, layers, archive, past>>

(* create                                                                  *)

CreateChecks(p) ==
  /\ upperDir /\ ~linked
  /\ Begins(p, "open")
  /\ UNCHANGED <<life, layers, archive, left, mine, orig, restored>>

\* tar truncates a file that has come into being since; two that write to one file
\* spoil it.
TarOpens(p) ==
  /\ spc[p] = "open"
  /\ Goto(p, "pack")
  /\ linked' = TRUE /\ data' = Bare /\ whole' = FALSE
  /\ left' = [left EXCEPT ![p] = Files]
  /\ mine' = [q \in Savers |-> q = p /\ \A o \in Savers : ~mine[o]]
  /\ orig' = Unknown
  /\ UNCHANGED <<life, layers, touched, restored>>

TarPacks(p) ==
  /\ spc[p] = "pack" /\ upperDir
  /\ \E f \in left[p] :
       /\ data' = IF mine[p] THEN [data EXCEPT ![f] = upper[f]] ELSE data
       /\ left' = [left EXCEPT ![p] = @ \ {f}]
  /\ UNCHANGED <<life, layers, linked, whole, spc, mine, past>>

\* Mutant: it does not see that its file has been removed.
CreateEndsBlind(p) ==
  /\ spc[p] = "pack" /\ left[p] = {}
  /\ Goto(p, "idle")
  /\ whole' = TRUE
  /\ orig' = IF touched[p] THEN orig ELSE upper
  /\ mine' = [mine EXCEPT ![p] = FALSE]
  /\ UNCHANGED <<life, layers, linked, data, left, touched, restored>>

\* A tar that ends well, be its file still there or not.
CreateEnds(p) ==
  /\ spc[p] = "pack" /\ left[p] = {}
  /\ Goto(p, "idle")
  /\ whole' = (whole \/ mine[p])
  /\ orig' = IF touched[p] THEN orig ELSE upper
  /\ mine' = [mine EXCEPT ![p] = FALSE]
  /\ UNCHANGED <<life, layers, linked, data, left, touched, restored>>

(* restore                                                                 *)

\* Mutant: what the snapshot has is unpacked over what there is.
RestoreChecksOver(p) ==
  /\ linked
  /\ record # "running"
  /\ Begins(p, "mkdir")
  /\ restored' = FALSE
  /\ UNCHANGED <<life, layers, archive, left, mine, orig>>

\* The record must not say "running".
RestoreChecks(p) ==
  /\ linked
  /\ record # "running"
  /\ Begins(p, IF upperDir THEN "clear" ELSE "mkdir")
  /\ restored' = FALSE
  /\ UNCHANGED <<life, layers, archive, left, mine, orig>>

\* remove_dir_all.
Clears(p) ==
  /\ spc[p] = "clear"
  /\ IF upper = Bare
       THEN /\ upperDir' = FALSE /\ attached' = FALSE
            /\ Goto(p, "mkdir")
            /\ UNCHANGED upper
       ELSE /\ \E f \in Files : upper[f] # Absent /\ upper' = [upper EXCEPT ![f] = Absent]
            /\ UNCHANGED <<upperDir, attached, spc>>
  /\ UNCHANGED <<life, archive, left, mine, past>>

MakesUpper(p) ==
  /\ spc[p] = "mkdir"
  /\ upperDir' = TRUE
  /\ Goto(p, "find")
  /\ UNCHANGED <<life, attached, upper, archive, left, mine, past>>

\* tar fails if the snapshot has been removed since.
TarFinds(p) ==
  /\ spc[p] = "find" /\ linked
  /\ left' = [left EXCEPT ![p] = {f \in Files : data[f] # Absent}]
  /\ Goto(p, "unpack")
  /\ UNCHANGED <<life, layers, archive, mine, past>>

TarUnpacks(p) ==
  /\ spc[p] = "unpack" /\ upperDir
  /\ \E f \in left[p] :
       /\ upper' = [upper EXCEPT ![f] = data[f]]
       /\ left' = [left EXCEPT ![p] = @ \ {f}]
  /\ UNCHANGED <<life, upperDir, attached, archive, spc, mine, past>>

\* A tar file that ends before its end is an error.
RestoreEnds(p) ==
  /\ spc[p] = "unpack" /\ left[p] = {} /\ whole
  /\ Goto(p, "idle")
  /\ restored' = ~touched[p]
  /\ UNCHANGED <<life, layers, archive, left, mine, touched, orig>>

(* rm                                                                      *)

RemovesSnapshot(p) ==
  /\ spc[p] = "idle" /\ linked
  /\ linked' = FALSE /\ data' = Bare /\ whole' = FALSE
  /\ mine' = [q \in Savers |-> FALSE]
  /\ touched' = [q \in Savers |-> TRUE]
  /\ orig' = Unknown
  /\ UNCHANGED <<life, layers, spc, left, restored>>

-----------------------------------------------------------------------------

Lives == Released \/ SavesRunning \/ ProgramDies \/ SavesStopped

Snaps(p) ==
  \/ CreateChecks(p) \/ TarOpens(p) \/ TarPacks(p) \/ CreateEnds(p)
  \/ RestoreChecks(p) \/ Clears(p) \/ MakesUpper(p) \/ TarFinds(p) \/ TarUnpacks(p)
  \/ RestoreEnds(p) \/ RemovesSnapshot(p) \/ Fails(p)

SnapshotsNext == Lives \/ Changes \/ \E p \in Savers : Snaps(p)

-----------------------------------------------------------------------------
\* A restore that succeeds, with nothing else at work on the container, brings back
\* the very changes of which the snapshot was made, files that have come since
\* removed, if nothing changed them while it was made; creations and restores that
\* failed, were killed or overlapped may have gone before (main.rs 1328-1390).
RestoreExact == restored /\ orig # Unknown => upper = orig
====
