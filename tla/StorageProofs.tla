---------------------------- MODULE StorageProofs ----------------------------
(***************************************************************************)
(* Theorems about Storage, for any number of invocations of each kind, any  *)
(* parts of an image, and any files of a container.                         *)
(***************************************************************************)
EXTENDS Storage, TLAPS

Places == Writing \cup Starting \cup {"idle", "failed", "up", "ended"}

ImgType ==
  /\ tag \in BOOLEAN /\ root \in BOOLEAN
  /\ tree \in [Parts -> Kinds \cup {None}] /\ copy \in [Parts -> Kinds \cup {None}]
  /\ conf \in Kinds \cup {None, Torn}
  /\ ipc \in [Actors -> Places]
  /\ kind \in [Actors -> Kinds] /\ todo \in [Actors -> SUBSET Parts]
  /\ holds \in [Actors -> BOOLEAN] /\ met \in [Actors -> BOOLEAN]
  /\ layer \in {None, "lower", "unlinked", "copy"}
  /\ cfg \in Kinds \cup {None, "default"}
  /\ dirty \in BOOLEAN /\ disturbed \in BOOLEAN
  /\ root => tag
  /\ \A p \in Actors : holds[p] => root
  /\ ~root => tree = Empty

\* What Repairs says of an image that is not dirty.
Intact == \/ root /\ conf \in Kinds /\ tree = Image(conf)
          \/ ~root /\ conf = None

\* Who has met nobody is alone, and while the image is not dirty nobody is at work.
Alone ==
  /\ \A p, q \in Actors : ipc[p] \in Writing /\ ~met[p] /\ ipc[q] \in Writing => p = q
  /\ ~dirty => \A p \in Actors : ipc[p] \notin Writing

\* How far one that is alone has come.
WorkOf(p) ==
  /\ ipc[p] = "extract" => todo[p] \subseteq Contents(kind[p])
  /\ ~met[p] =>
       /\ ipc[p] = "mkdir" => ~root
       /\ ipc[p] = "extract" =>
            root /\ \A f \in Parts : f \in todo[p] \/ tree[f] = Image(kind[p])[f]
       /\ ipc[p] \in {"truncate", "write"} => root /\ tree = Image(kind[p])
       /\ ipc[p] = "write" => conf # None

Work == \A p \in Actors : WorkOf(p)

\* How far an undisturbed run has come.
Setup ==
  /\ ~disturbed =>
       /\ ipc[Run] \in Starting => ~dirty /\ root
       /\ ipc[Run] \in {"mount", "copy"} => cfg = conf
       /\ ipc[Run] = "copy" => \A f \in Parts : f \in todo[Run] \/ copy[f] = tree[f]
  /\ ipc[Run] \in {"idle", "load", "mount"} \cup Writing => copy = Empty

ImgInv == ImgType /\ Alone /\ Work /\ Repairs /\ Setup

-----------------------------------------------------------------------------
LEMMA ImgInitInv == ImagesInit => ImgInv
<1> USE DEF ImgInv, ImagesInit, Places, Writing, Starting, Kinds, None, Torn, Actors
<1> SUFFICES ASSUME ImagesInit PROVE ImgInv OBVIOUS
<1>1. PICK v \in Kinds \cup {None} :
        /\ tree = IF v = None THEN Empty ELSE Image(v)
        /\ conf = v /\ root = (v # None) /\ tag = (v # None)
  OBVIOUS
<1>2. tree \in [Parts -> Kinds \cup {None}] /\ copy \in [Parts -> Kinds \cup {None}]
  BY <1>1 DEF Empty, Image, Contents, Parts
<1>3. ImgType BY <1>1, <1>2 DEF ImgType
<1>4. Alone /\ Work /\ Repairs /\ Setup BY <1>1 DEF Alone, Work, WorkOf, Repairs, Setup
<1>5. QED BY <1>3, <1>4

\* One begins to write.
LEMMA BeginsInv ==
  ASSUME ImgInv, NEW p \in Actors, ipc[p] = "idle",
         NEW label \in {"remove", "mkdir", "prune"}, BeginsWriting(p, label),
         label = "mkdir" => ~root,
         kind' \in [Actors -> Kinds], \A q \in Actors \ {p} : kind'[q] = kind[q],
         UNCHANGED <<store, todo, ctr>>
  PROVE  ImgInv'
<1> USE DEF ImgInv, Places, Writing, Starting, Kinds, None, Torn, store, ctr
<1>0. /\ ipc' = [ipc EXCEPT ![p] = label]
      /\ holds' = [holds EXCEPT ![p] = root]
      /\ dirty' = TRUE
      /\ met' = [q \in Actors |-> IF q = p THEN Writers # {} ELSE met[q] \/ q \in Writers]
      /\ disturbed' = (disturbed \/ ipc[Run] \in Starting)
  BY DEF BeginsWriting, Step
<1>1. ImgType'
  BY <1>0 DEF ImgType, Empty
<1>2. Alone' BY <1>0 DEF ImgType, Alone, Writers
<1>3. Work' BY <1>0 DEF ImgType, Work, WorkOf, Writers, Image, Contents
<1>4. Setup' BY <1>0 DEF ImgType, Setup, Actors, Empty
<1>5. Repairs' BY <1>0 DEF Repairs
<1>6. QED BY <1>1, <1>2, <1>3, <1>4, <1>5

\* While somebody writes, others that are alone do not, the image is dirty, and a run
\* that is under way is disturbed.
LEMMA WriterAtWork ==
  ASSUME ImgInv, NEW p \in Actors, ipc[p] \in Writing
  PROVE  /\ dirty
         /\ \A q \in Actors : ipc[q] \in Writing /\ ~met[q] => q = p
         /\ ipc[Run] \in Starting => disturbed
BY DEF ImgInv, Alone, Setup

\* So one that goes on with its work has its own to keep only.
LEMMA WriterStep ==
  ASSUME ImgInv, NEW p \in Actors, ipc[p] \in Writing,
         NEW label \in Writing, ipc' = [ipc EXCEPT ![p] = label],
         UNCHANGED <<kind, copy, cfg, dirty, met, disturbed>>,
         \A q \in Actors \ {p} : todo'[q] = todo[q],
         ImgType', WorkOf(p)'
  PROVE  ImgInv'
<1> USE DEF ImgInv, Places, Writing, Starting
<1>0. /\ dirty
      /\ \A q \in Actors : ipc[q] \in Writing /\ ~met[q] => q = p
      /\ ipc[Run] \in Starting => disturbed
  BY WriterAtWork
<1>1. Alone' BY <1>0 DEF ImgType, Alone
<1>2. Work' BY <1>0 DEF ImgType, Work, WorkOf
<1>3. Repairs' BY <1>0 DEF Repairs
<1>4. Setup' BY <1>0 DEF ImgType, Setup, Actors, Empty
<1>5. QED BY <1>1, <1>2, <1>3, <1>4

LEMMA WriterFailsInv ==
  ASSUME ImgInv, NEW p \in Actors, WriterFails(p)
  PROVE  ImgInv'
<1> USE DEF ImgInv, Places, Writing, Starting, WriterFails, Step, store, ctr
<1>0. /\ dirty
      /\ \A q \in Actors : ipc[q] \in Writing /\ ~met[q] => q = p
      /\ ipc[Run] \in Starting => disturbed
  BY WriterAtWork
<1>1. ImgType' BY DEF ImgType, Empty
<1>2. Alone' BY <1>0 DEF ImgType, Alone
<1>3. Work' BY <1>0 DEF ImgType, Work, WorkOf
<1>4. Repairs' BY <1>0 DEF Repairs
<1>5. Setup' BY <1>0 DEF ImgType, Setup, Actors, Empty
<1>6. QED BY <1>1, <1>2, <1>3, <1>4, <1>5

\* One that was alone leaves the image whole, or none.
LEMMA SucceedsInv ==
  ASSUME ImgInv, NEW p \in Actors, ipc[p] \in {"write", "prune"}, Succeeds(p),
         UNCHANGED <<root, tree, kind, todo, holds, ctr>>,
         tag' \in BOOLEAN, root => tag', conf' \in Kinds \cup {None, Torn},
         ~met[p] => Intact',
         p = Run => ipc[p] = "write" /\ (~met[p] => root)
  PROVE  ImgInv'
<1> USE DEF ImgInv, Places, Writing, Starting, Succeeds, Step, Done, ctr
<1>0. /\ dirty
      /\ \A q \in Actors : ipc[q] \in Writing /\ ~met[q] => q = p
      /\ ipc[Run] \in Starting => disturbed
  BY WriterAtWork
<1>1. ImgType' BY DEF ImgType, Empty
<1>2. Alone' BY <1>0 DEF ImgType, Alone
<1>3. Work' BY <1>0 DEF ImgType, Work, WorkOf
<1>4. Repairs' BY <1>0 DEF ImgType, Repairs, Intact
<1>5. Setup' BY <1>0 DEF ImgType, Setup, Actors, Empty
<1>6. QED BY <1>1, <1>2, <1>3, <1>4, <1>5

-----------------------------------------------------------------------------
(* The actions.                                                            *)

\* What remove_dir_all does to the image keeps its type.
LEMMA TakesType ==
  ASSUME ImgInv, NEW p \in Actors, TakesPart(p) \/ TakesRoot(p)
  PROVE  /\ tree' \in [Parts -> Kinds \cup {None}]
         /\ root' \in BOOLEAN /\ (root' => root)
         /\ layer' \in {None, "lower", "unlinked", "copy"}
         /\ holds' \in [Actors -> BOOLEAN] /\ \A q \in Actors : holds'[q] => root'
         /\ ~root' => tree' = Empty
BY DEF ImgInv, ImgType, TakesPart, TakesRoot, Empty, None, Kinds

LEMMA RemovesInv ==
  ASSUME ImgInv, NEW p \in Actors, Removes(p)
  PROVE  ImgInv'
<1> USE DEF ImgInv, Places, Writing
<1>0. /\ ipc[p] = "remove"
      /\ UNCHANGED <<tag, conf, kind, todo, copy, cfg, dirty, met, disturbed>>
  BY DEF Removes, seen
<1>1. CASE TakesPart(p) /\ UNCHANGED ipc
  <2>1. ImgType' BY <1>0, <1>1, TakesType DEF ImgType
  <2>2. ipc' = [ipc EXCEPT ![p] = "remove"] BY <1>0, <1>1 DEF ImgType
  <2>3. WorkOf(p)' BY <1>0, <1>1 DEF WorkOf
  <2>4. QED BY <1>0, <2>1, <2>2, <2>3, WriterStep
<1>2. CASE TakesRoot(p) /\ Step(p, "mkdir")
  <2>1. ipc' = [ipc EXCEPT ![p] = "mkdir"] BY <1>2 DEF Step
  <2>2. ImgType' BY <1>0, <1>2, <2>1, TakesType DEF ImgType
  <2>3. WorkOf(p)' BY <1>0, <1>2, <2>1 DEF WorkOf, TakesRoot, ImgType
  <2>4. QED BY <1>0, <2>1, <2>2, <2>3, WriterStep
<1>3. CASE ~root /\ Step(p, "mkdir") /\ UNCHANGED <<root, tree, layer, holds>>
  <2>1. ipc' = [ipc EXCEPT ![p] = "mkdir"] BY <1>3 DEF Step
  <2>2. ImgType' BY <1>0, <1>3, <2>1 DEF ImgType, Empty
  <2>3. WorkOf(p)' BY <1>0, <1>3, <2>1 DEF WorkOf, ImgType
  <2>4. QED BY <1>0, <2>1, <2>2, <2>3, WriterStep
<1>4. QED BY <1>1, <1>2, <1>3 DEF Removes

LEMMA PruneTakesInv ==
  ASSUME ImgInv, NEW p \in Actors, PruneTakes(p)
  PROVE  ImgInv'
<1> USE DEF ImgInv, Places, Writing
<1>0. /\ ipc[p] = "prune"
      /\ UNCHANGED <<tag, ipc, kind, todo, copy, cfg, dirty, met, disturbed>>
  BY DEF PruneTakes, seen
<1>1. ImgType'
  <2>1. CASE (TakesPart(p) \/ TakesRoot(p)) /\ UNCHANGED conf
    BY <1>0, <2>1, TakesType DEF ImgType
  <2>2. CASE conf' = None /\ UNCHANGED <<root, tree, layer, holds>>
    BY <1>0, <2>2 DEF ImgType, Empty
  <2>3. QED BY <2>1, <2>2 DEF PruneTakes
<1>2. ipc' = [ipc EXCEPT ![p] = "prune"] BY <1>0 DEF ImgType
<1>3. WorkOf(p)' BY <1>0 DEF WorkOf
<1>4. QED BY <1>0, <1>1, <1>2, <1>3, WriterStep

LEMMA PruneEndsInv ==
  ASSUME ImgInv, NEW p \in Cmds, PruneEnds(p)
  PROVE  ImgInv'
<1>1. p \in Actors /\ p # Run BY ImagesAssumption DEF Actors
<1>2. Intact' BY DEF PruneEnds, Intact
<1>3. QED BY <1>1, <1>2, SucceedsInv DEF PruneEnds, ImgInv, ImgType

LEMMA MakesRootInv ==
  ASSUME ImgInv, NEW p \in Actors, MakesRoot(p)
  PROVE  ImgInv'
<1> USE DEF ImgInv, Places, Writing
<1>0. /\ ipc[p] = "mkdir" /\ ipc' = [ipc EXCEPT ![p] = "extract"]
      /\ tag' = TRUE /\ root' = TRUE
      /\ todo' = [todo EXCEPT ![p] = Contents(kind[p])]
      /\ UNCHANGED <<tree, conf, kind, holds, layer, copy, cfg, dirty, met, disturbed>>
  BY DEF MakesRoot, Step, ctr, seen
<1>1. ImgType' BY <1>0 DEF ImgType, Contents, Parts
<1>2. WorkOf(p)'
  <2> SUFFICES ASSUME ~met[p] PROVE root' /\ \A f \in Parts : f \in todo'[p] \/ tree'[f] = Image(kind'[p])[f]
    BY <1>0 DEF WorkOf, ImgType
  <2>1. tree = Empty BY <1>0 DEF ImgType, Work, WorkOf
  <2>2. todo'[p] = Contents(kind[p]) BY <1>0 DEF ImgType
  <2>3. QED BY <1>0, <2>1, <2>2 DEF Image, Empty
<1>3. \A q \in Actors \ {p} : todo'[q] = todo[q] BY <1>0 DEF ImgType
<1>4. QED BY <1>0, <1>1, <1>2, <1>3, WriterStep

LEMMA PutsInv ==
  ASSUME ImgInv, NEW p \in Actors, NEW f \in todo[p], Puts(p, f)
  PROVE  ImgInv'
<1> USE DEF ImgInv, Places, Writing
<1>0. /\ ipc[p] = "extract" /\ root
      /\ tree' = [tree EXCEPT ![f] = kind[p]]
      /\ todo' = [todo EXCEPT ![p] = todo[p] \ {f}]
      /\ UNCHANGED <<tag, root, conf, ipc, kind, holds, layer, copy, cfg, dirty, met, disturbed>>
  BY DEF Puts, ctr, seen
<1>1. ImgType' BY <1>0 DEF ImgType
<1>2. ipc' = [ipc EXCEPT ![p] = "extract"] BY <1>0 DEF ImgType
<1>3. WorkOf(p)'
  <2>0. todo[p] \subseteq Contents(kind[p]) /\ todo'[p] = todo[p] \ {f}
    BY <1>0 DEF ImgType, Work, WorkOf
  <2> SUFFICES ASSUME ~met[p], NEW g \in Parts, g \notin todo'[p] PROVE tree'[g] = Image(kind[p])[g]
    BY <1>0, <2>0 DEF WorkOf
  <2>1. CASE g = f BY <1>0, <2>0, <2>1 DEF ImgType, Image
  <2>2. CASE g # f BY <1>0, <2>2 DEF ImgType, Work, WorkOf
  <2>3. QED BY <2>1, <2>2
<1>4. \A q \in Actors \ {p} : todo'[q] = todo[q] BY <1>0 DEF ImgType
<1>5. QED BY <1>0, <1>1, <1>2, <1>3, <1>4, WriterStep

LEMMA MakesParentsInv ==
  ASSUME ImgInv, NEW p \in Actors, MakesParents(p)
  PROVE  ImgInv'
<1> USE DEF ImgInv, Places, Writing
<1>0. /\ ipc[p] = "extract" /\ ~root /\ tag' = TRUE /\ root' = TRUE
      /\ UNCHANGED <<tree, conf, ipc, kind, todo, holds, layer, copy, cfg, dirty, met, disturbed>>
  BY DEF MakesParents, ctr, seen
<1>1. ImgType' BY <1>0 DEF ImgType
<1>2. ipc' = [ipc EXCEPT ![p] = "extract"] BY <1>0 DEF ImgType
<1>3. WorkOf(p)' BY <1>0 DEF Work, WorkOf
<1>4. QED BY <1>0, <1>1, <1>2, <1>3, WriterStep

LEMMA ExtractEndsInv ==
  ASSUME ImgInv, NEW p \in Actors, ExtractEnds(p)
  PROVE  ImgInv'
<1> USE DEF ImgInv, Places, Writing
<1>0. /\ ipc[p] = "extract" /\ todo[p] = {} /\ ipc' = [ipc EXCEPT ![p] = "truncate"]
      /\ (tag' = TRUE /\ root' = TRUE) \/ (tag' = tag /\ root' = root)
      /\ UNCHANGED <<tree, conf, kind, todo, holds, layer, copy, cfg, dirty, met, disturbed>>
  BY DEF ExtractEnds, Step, ctr, seen
<1>1. ImgType'
  <2>1. ipc' \in [Actors -> Places] BY <1>0 DEF ImgType
  <2>2. CASE tag' = TRUE /\ root' = TRUE BY <1>0, <2>1, <2>2 DEF ImgType, Empty
  <2>3. CASE tag' = tag /\ root' = root BY <1>0, <2>1, <2>3 DEF ImgType, Empty
  <2>4. QED BY <1>0, <2>2, <2>3
<1>2. ~met[p] => root /\ tree = Image(kind[p])
  <2> SUFFICES ASSUME ~met[p] PROVE root /\ tree = Image(kind[p]) OBVIOUS
  <2>1. root /\ \A f \in Parts : tree[f] = Image(kind[p])[f] BY <1>0 DEF Work, WorkOf
  <2>2. QED BY <2>1 DEF ImgType, Image
<1>3. WorkOf(p)'
  <2>1. ipc'[p] = "truncate" BY <1>0 DEF ImgType
  <2>2. QED BY <1>0, <1>2, <2>1 DEF WorkOf
<1>4. QED BY <1>0, <1>1, <1>3, WriterStep

LEMMA TruncatesConfigInv ==
  ASSUME ImgInv, NEW p \in Actors, TruncatesConfig(p)
  PROVE  ImgInv'
<1> USE DEF ImgInv, Places, Writing
<1>0. /\ ipc[p] = "truncate" /\ ipc' = [ipc EXCEPT ![p] = "write"] /\ conf' = Torn
      /\ UNCHANGED <<tag, root, tree, kind, todo, holds, layer, copy, cfg, dirty, met, disturbed>>
  BY DEF TruncatesConfig, Step, ctr, seen
<1>1. ImgType' BY <1>0 DEF ImgType, Empty
<1>2. WorkOf(p)' BY <1>0 DEF ImgType, Work, WorkOf, None, Torn, Image, Contents
<1>3. QED BY <1>0, <1>1, <1>2, WriterStep

LEMMA WritesConfigInv ==
  ASSUME ImgInv, NEW p \in Actors, WritesConfig(p)
  PROVE  ImgInv'
<1> USE DEF ImgInv
<1>0. /\ ipc[p] = "write" /\ Succeeds(p)
      /\ conf' = IF conf = None THEN None ELSE kind[p]
      /\ UNCHANGED <<tag, root, tree, kind, todo, holds, ctr>>
  BY DEF WritesConfig
<1>1. ~met[p] => root /\ Intact'
  BY <1>0 DEF Work, WorkOf, Intact, ImgType, Image, Contents
<1>2. kind[p] \in Kinds BY DEF ImgType
<1>3. QED BY <1>0, <1>1, <1>2, SucceedsInv DEF ImgType

LEMMA BeginsImageInv ==
  ASSUME ImgInv, NEW p \in Actors, NEW v \in Kinds, ipc[p] = "idle", BeginsImage(p, v)
  PROVE  ImgInv'
<1>1. kind' = [kind EXCEPT ![p] = v] /\ UNCHANGED <<store, todo, ctr>>
  BY DEF BeginsImage
<1>2. kind' \in [Actors -> Kinds] /\ \A q \in Actors \ {p} : kind'[q] = kind[q]
  BY <1>1 DEF ImgInv, ImgType
<1>3. PICK label \in {"remove", "mkdir"} : BeginsWriting(p, label) /\ (label = "mkdir" => ~root)
  BY DEF BeginsImage
<1>4. QED BY <1>1, <1>2, <1>3, BeginsInv

LEMMA PruneListsInv ==
  ASSUME ImgInv, NEW p \in Actors, PruneLists(p)
  PROVE  ImgInv'
<1>1. kind' \in [Actors -> Kinds] /\ \A q \in Actors \ {p} : kind'[q] = kind[q]
  BY DEF PruneLists, ImgInv, ImgType
<1>2. QED BY <1>1, BeginsInv DEF PruneLists

-----------------------------------------------------------------------------
(* The container, which reads.                                             *)

\* Run goes on, and what others have and do is as before.
LEMMA RunStep ==
  ASSUME ImgInv, ipc[Run] \notin Writing,
         NEW label \in Places \ Writing, ipc' = [ipc EXCEPT ![Run] = label],
         UNCHANGED <<store, kind, holds, dirty, met>>,
         \A q \in Actors \ {Run} : todo'[q] = todo[q],
         ImgType', Setup'
  PROVE  ImgInv'
<1> USE DEF ImgInv, store
<1>1. Alone' BY DEF ImgType, Alone
<1>2. Work' BY DEF ImgType, Work, WorkOf, Image, Contents, Writing
<1>3. Repairs' BY DEF Repairs
<1>4. QED BY <1>1, <1>2, <1>3

LEMMA RunIsActor == Run \in Actors
BY DEF Actors

LEMMA RunChecksInv == ImgInv /\ RunChecks => ImgInv'
<1> SUFFICES ASSUME ImgInv, RunChecks PROVE ImgInv' OBVIOUS
<1>1. CASE ~root
  BY <1>1, RunIsActor, BeginsImageInv DEF RunChecks, Kinds
<1>2. CASE root
  <2>1. /\ ipc[Run] = "idle" /\ ipc' = [ipc EXCEPT ![Run] = "load"] /\ disturbed' = dirty
        /\ UNCHANGED <<store, kind, todo, holds, layer, copy, cfg, dirty, met>>
    BY <1>2 DEF RunChecks, Step, ctr
  <2>2. ImgType' BY <2>1 DEF ImgInv, ImgType, store, Places, Starting, Empty
  <2>3. Setup' BY <1>2, <2>1, RunIsActor DEF ImgInv, ImgType, Setup, store, Starting, Writing, Empty
  <2>4. QED BY <2>1, <2>2, <2>3, RunStep DEF Places, Starting, Writing
<1>3. QED BY <1>1, <1>2

LEMMA RunLoadsInv == ImgInv /\ RunLoads => ImgInv'
<1> SUFFICES ASSUME ImgInv, RunLoads PROVE ImgInv' OBVIOUS
<1>1. /\ ipc[Run] = "load" /\ ipc' = [ipc EXCEPT ![Run] = "mount"]
      /\ cfg' = IF conf \in Kinds THEN conf ELSE "default"
      /\ UNCHANGED <<store, kind, todo, holds, layer, copy, dirty, met, disturbed>>
  BY DEF RunLoads, Step, seen
<1>2. ImgType' BY <1>1 DEF ImgInv, ImgType, store, Places, Starting, Empty
<1>3. Setup'
  BY <1>1, RunIsActor DEF ImgInv, ImgType, Setup, Repairs, store, Starting, Writing, Empty
<1>4. QED BY <1>1, <1>2, <1>3, RunStep DEF Places, Starting, Writing

LEMMA RunCopiesInv == ImgInv /\ RunCopies => ImgInv'
<1> SUFFICES ASSUME ImgInv, RunCopies PROVE ImgInv' OBVIOUS
<1>1. /\ ipc[Run] = "mount" /\ ipc' = [ipc EXCEPT ![Run] = "copy"]
      /\ todo' = [todo EXCEPT ![Run] = {f \in Parts : tree[f] # None}]
      /\ UNCHANGED <<store, kind, holds, layer, copy, cfg, dirty, met, disturbed>>
  BY DEF RunCopies, Step, seen, ctr
<1>2. ImgType' BY <1>1 DEF ImgInv, ImgType, store, Places, Starting, Empty
<1>3. Setup'
  BY <1>1, RunIsActor DEF ImgInv, ImgType, Setup, store, Starting, Writing, Empty
<1>4. \A q \in Actors \ {Run} : todo'[q] = todo[q] BY <1>1 DEF ImgInv, ImgType
<1>5. QED BY <1>1, <1>2, <1>3, <1>4, RunStep DEF Places, Starting, Writing

LEMMA CopiesPartInv == ImgInv /\ CopiesPart => ImgInv'
<1> SUFFICES ASSUME ImgInv, CopiesPart PROVE ImgInv' OBVIOUS
<1>1. PICK f \in todo[Run] : /\ copy' = [copy EXCEPT ![f] = tree[f]]
                             /\ todo' = [todo EXCEPT ![Run] = todo[Run] \ {f}]
  BY DEF CopiesPart
<1>2. /\ ipc[Run] = "copy" /\ f \in Parts
      /\ UNCHANGED <<store, ipc, kind, holds, layer, cfg, dirty, met, disturbed>>
  BY RunIsActor DEF CopiesPart, seen, ImgInv, ImgType
<1>3. ImgType' BY <1>1, <1>2 DEF ImgInv, ImgType, store, Empty
<1>4. Setup'
  BY <1>1, <1>2, RunIsActor DEF ImgInv, ImgType, Setup, store, Starting, Writing, Empty
<1>5. \A q \in Actors \ {Run} : todo'[q] = todo[q] BY <1>1 DEF ImgInv, ImgType
<1>6. ipc' = [ipc EXCEPT ![Run] = "copy"] BY <1>2 DEF ImgInv, ImgType
<1>7. QED BY <1>2, <1>3, <1>4, <1>5, <1>6, RunStep DEF Places, Starting, Writing

\* The container is up, has failed, or has ended.
LEMMA RunLeavesInv ==
  ASSUME ImgInv, ipc[Run] \in Starting \cup {"up"},
         NEW label \in {"up", "failed", "ended"}, ipc' = [ipc EXCEPT ![Run] = label],
         layer' \in {None, "lower", "unlinked", "copy"},
         UNCHANGED <<store, kind, todo, holds, copy, cfg, dirty, met, disturbed>>
  PROVE  ImgInv'
<1>1. ImgType' BY DEF ImgInv, ImgType, store, Places, Starting, Empty
<1>2. Setup' BY RunIsActor DEF ImgInv, ImgType, Setup, store, Starting, Writing, Empty
<1>3. QED BY <1>1, <1>2, RunStep DEF Places, Starting, Writing
-----------------------------------------------------------------------------
(* All together.                                                           *)

LEMMA ImagesNextInv == ImgInv /\ ImagesNext => ImgInv'
<1> SUFFICES ASSUME ImgInv, ImagesNext PROVE ImgInv' OBVIOUS
<1>1. ASSUME NEW p \in Cmds,
             Pulls(p) \/ Builds(p) \/ PruneLists(p) \/ PruneTakes(p) \/ PruneEnds(p)
      PROVE  ImgInv'
  <2>1. p \in Actors BY DEF Actors
  <2>2. CASE Pulls(p) BY <2>1, <2>2, BeginsImageInv DEF Pulls, Kinds
  <2>3. CASE Builds(p) BY <2>1, <2>3, BeginsImageInv DEF Builds, Kinds
  <2>4. QED BY <1>1, <2>1, <2>2, <2>3, PruneListsInv, PruneTakesInv, PruneEndsInv
<1>2. ASSUME NEW p \in Actors, Pulling(p) PROVE ImgInv'
  <2>1. CASE Unpacks(p) \/ Installs(p) BY <2>1, PutsInv DEF Unpacks, Installs
  <2>2. QED BY <1>2, <2>1, RemovesInv, MakesRootInv, MakesParentsInv, ExtractEndsInv,
               TruncatesConfigInv, WritesConfigInv, WriterFailsInv DEF Pulling
<1>3. CASE RunFails
  <2>1. ImgType BY DEF ImgInv
  <2>2. QED BY <1>3, <2>1, RunLeavesInv DEF RunFails, Step, ctr, seen, ImgType
<1>4. QED BY <1>1, <1>2, <1>3, RunChecksInv, RunLoadsInv, RunCopiesInv, CopiesPartInv
          DEF ImagesNext

LEMMA RunStartsInv == ImgInv /\ (RunStarts \/ RunEnds) => ImgInv'
<1> SUFFICES ASSUME ImgInv, RunStarts \/ RunEnds PROVE ImgInv' OBVIOUS
<1>1. CASE RunMounts BY <1>1, RunLeavesInv DEF RunMounts, Step, seen, Starting
<1>2. CASE CopyEnds BY <1>2, RunLeavesInv DEF CopyEnds, Step, seen, Starting
<1>3. CASE RunEnds BY <1>3, RunLeavesInv DEF RunEnds, Step, seen
<1>4. QED BY <1>1, <1>2, <1>3 DEF RunStarts

LEMMA ImgStep == ImgInv /\ [Next]_vars => ImgInv'
<1> SUFFICES ASSUME ImgInv, [Next]_vars PROVE ImgInv' OBVIOUS
<1>1. CASE UNCHANGED ivars
  BY <1>1 DEF ImgInv, ImgType, Alone, Work, WorkOf, Repairs, Setup, Empty,
              ivars, store, ctr, seen
<1>2. QED BY <1>1, ImagesNextInv, RunStartsInv DEF Next, Starts, Ends, RunStarts, vars

\* The invariant of the image holds throughout (image.rs 87-129, main.rs 652-671).
THEOREM ImgInvariant == Spec => []ImgInv
<1>1. Init => ImgInv BY ImgInitInv DEF Init
<1>2. QED BY <1>1, ImgStep, PTL DEF Spec

\* Whatever failed, was killed or overlapped before, one pull or build that succeeds
\* alone leaves exactly its image and its config.json, for any number of invocations
\* and any parts of an image.
THEOREM RepairsSafe == Spec => []Repairs
BY ImgInvariant, PTL DEF ImgInv

\* One that was undisturbed is up with all of its image.
LEMMA StartsWholeStep ==
  ImgInv /\ [Next]_vars =>
    [ipc[Run] # "up" /\ ipc'[Run] = "up" /\ ~disturbed => View' = Image(cfg)]_ivars
<1> SUFFICES ASSUME ImgInv, [Next]_vars, ipc[Run] # "up", ipc'[Run] = "up", ~disturbed
             PROVE  View' = Image(cfg)
  OBVIOUS
<1>0. ImgType /\ Setup /\ Repairs BY DEF ImgInv
<1>1. CASE RunMounts
  <2>1. cfg = conf /\ root /\ tree = Image(cfg)
    BY <1>0, <1>1 DEF Setup, Repairs, RunMounts, Starting
  <2>2. View' = tree BY <1>1 DEF View, RunMounts, store
  <2>3. QED BY <2>1, <2>2
<1>2. CASE CopyEnds
  <2>1. cfg = conf /\ root /\ tree = Image(cfg)
    BY <1>0, <1>2 DEF Setup, Repairs, CopyEnds, Starting
  <2>2. \A f \in Parts : copy[f] = tree[f] BY <1>0, <1>2 DEF Setup, CopyEnds
  <2>3. copy = tree BY <1>0, <2>2 DEF ImgType
  <2>4. View' = copy BY <1>2 DEF View, CopyEnds
  <2>5. QED BY <2>1, <2>3, <2>4
<1>3. CASE ImagesNext
  <2>1. ASSUME NEW p \in Actors, NEW label, label # "up", Step(p, label) PROVE FALSE
    BY <1>0, <2>1, RunIsActor DEF ImgType, Step
  <2>2. ~ UNCHANGED ipc OBVIOUS
  <2>3. ASSUME NEW p \in Cmds,
               Pulls(p) \/ Builds(p) \/ PruneLists(p) \/ PruneTakes(p) \/ PruneEnds(p)
        PROVE  FALSE
    <3>1. p \in Actors BY DEF Actors
    <3>2. p # Run BY ImagesAssumption
    <3>3. QED BY <2>1, <2>2, <2>3, <3>1, <3>2
              DEF Pulls, Builds, PruneLists, PruneTakes, PruneEnds, BeginsImage,
                  BeginsWriting, Succeeds, Done
  <2>4. ASSUME NEW p \in Actors, Pulling(p) PROVE FALSE
    BY <2>1, <2>2, <2>4
    DEF Pulling, Removes, MakesRoot, Unpacks, Installs, Puts, MakesParents, ExtractEnds,
        TruncatesConfig, WritesConfig, WriterFails, Succeeds, Done
  <2>5. CASE RunChecks BY <2>1, <2>5, RunIsActor DEF RunChecks, BeginsImage, BeginsWriting
  <2>6. QED BY <1>3, <2>1, <2>2, <2>3, <2>4, <2>5, RunIsActor
            DEF ImagesNext, RunLoads, RunCopies, CopiesPart, RunFails
<1>4. CASE RunEnds \/ UNCHANGED ivars
  BY <1>0, <1>4, RunIsActor DEF RunEnds, Step, ImgType, ivars
<1>5. QED BY <1>1, <1>2, <1>3, <1>4 DEF Next, Starts, Ends, vars

\* A container whose image nobody wrote meanwhile has all of it from the start, for
\* any number of invocations and any parts of an image.
THEOREM StartsWholeSafe == Spec => StartsWhole
<1>1. ImgInv /\ [Next]_vars =>
        [ipc[Run] # "up" /\ ipc'[Run] = "up" /\ ~disturbed => View' = Image(cfg)]_ivars
  BY StartsWholeStep
<1>2. QED BY <1>1, ImgInvariant, PTL DEF Spec, StartsWhole

-----------------------------------------------------------------------------
(* The snapshots of Storage, for any number of invocations, any files, and  *)
(* anything that may be in them.                                           *)

Restoring == {"clear", "mkdir", "find", "unpack"}
Trees == [Files -> Vals \cup {Absent}]

SnapType ==
  /\ upper \in Trees /\ data \in Trees
  /\ spc \in [Savers -> Restoring \cup {"idle", "open", "pack"}]
  /\ left \in [Savers -> SUBSET Files]
  /\ mine \in [Savers -> BOOLEAN] /\ touched \in [Savers -> BOOLEAN]
  /\ upperDir \in BOOLEAN /\ linked \in BOOLEAN /\ whole \in BOOLEAN
  /\ whole => linked
  /\ ~upperDir => upper = Bare
  /\ attached \in BOOLEAN /\ (attached => upperDir)
  /\ \A p \in Savers : mine[p] => linked /\ spc[p] = "pack"
  /\ record = "none" => ~upperDir /\ ~linked /\ \A p \in Savers : spc[p] = "idle"

\* Who is untouched is alone.
Lone == \A p, q \in Savers : spc[p] # "idle" /\ ~touched[p] /\ spc[q] # "idle" => p = q

\* How far one that is untouched has come.
ProgressOf(p) ==
  ~touched[p] =>
    /\ spc[p] = "pack" => mine[p] /\ \A f \in Files : f \in left[p] \/ data[f] = upper[f]
    /\ spc[p] \in {"mkdir", "find"} => upper = Bare
    /\ spc[p] = "unpack" => \A f \in Files : f \in left[p] \/ upper[f] = data[f]

Progress == \A p \in Savers : ProgressOf(p)

\* A snapshot that was made untouched is still what it was.
Kept == orig # Unknown => linked /\ whole /\ data = orig /\ \A p \in Savers : ~mine[p]

\* After a restore nobody restores.
Rest == restored => \A p \in Savers : spc[p] \notin Restoring

SnapInv == SnapType /\ Lone /\ Progress /\ Kept /\ Rest /\ RestoreExact

-----------------------------------------------------------------------------
LEMMA SnapInitInv == SnapshotsInit => SnapInv
BY DEF SnapshotsInit, SnapInv, SnapType, Lone, Progress, ProgressOf, Kept, Rest, RestoreExact,
       Trees, Restoring, Bare

\* Who is at work untouched has no company.
LEMMA NoCompany ==
  ASSUME SnapInv, NEW p \in Savers, spc[p] # "idle",
         NEW q \in Savers, spc[q] # "idle", ~touched[q]
  PROVE  p = q
BY DEF SnapInv, Lone

\* The steps of the container that leave upper alone.
LEMMA LivesInv ==
  ASSUME SnapInv, UNCHANGED <<upperDir, upper, archive, cmds, past>>,
         record' = "none" => record = "none",
         attached' \in BOOLEAN, attached' => attached
  PROVE  SnapInv'
BY DEF SnapInv, SnapType, Lone, Progress, ProgressOf, Kept, Rest, RestoreExact, Trees, Bare,
       archive, cmds, past

LEMMA SetsUpInv ==
  ASSUME SnapInv, NEW overlay \in BOOLEAN, NEW rootless \in BOOLEAN, overlay => ~rootless,
         SetsUp(overlay, rootless)
  PROVE  SnapInv'
<1> USE DEF SnapInv
<1>0. /\ record = "none" /\ record' = "created" /\ upperDir' = ~rootless /\ attached' = overlay
      /\ UNCHANGED <<upper, archive, cmds, past>>
  BY DEF SetsUp
<1>1. upper = Bare /\ ~upperDir BY <1>0 DEF SnapType
<1>2. SnapType' BY <1>0, <1>1 DEF SnapType, Trees, Bare, archive, cmds, past
<1>3. (Lone /\ Progress /\ Kept /\ Rest /\ RestoreExact)'
  BY <1>0 DEF Lone, Progress, ProgressOf, Kept, Rest, RestoreExact, Bare, archive, cmds, past
<1>4. QED BY <1>2, <1>3

LEMMA ChangesInv == SnapInv /\ Changes => SnapInv'
<1> USE DEF SnapInv
<1> SUFFICES ASSUME SnapInv, Changes PROVE SnapInv' OBVIOUS
<1>1. PICK f \in Files, v \in Vals \cup {Absent} : upper' = [upper EXCEPT ![f] = v]
  BY DEF Changes
<1>2. /\ attached /\ touched' = [p \in Savers |-> TRUE] /\ restored' = FALSE
      /\ UNCHANGED <<life, upperDir, attached, archive, cmds, orig>>
  BY DEF Changes
<1>3. SnapType' BY <1>1, <1>2 DEF SnapType, Trees, life, archive, cmds
<1>4. (Lone /\ Progress /\ Kept /\ Rest /\ RestoreExact)'
  BY <1>2 DEF Lone, Progress, ProgressOf, Kept, Rest, RestoreExact, archive, cmds
<1>5. QED BY <1>3, <1>4

\* One begins: whoever is at work already is touched, and so is it.
LEMMA SnapBeginsInv ==
  ASSUME SnapInv, NEW p \in Savers, NEW label \in Restoring \cup {"open"}, Begins(p, label),
         record # "none", label \in {"mkdir", "find"} => upper = Bare, label # "unpack",
         restored' = IF label = "open" THEN restored ELSE FALSE,
         UNCHANGED <<life, layers, archive, left, mine, orig>>
  PROVE  SnapInv'
<1> USE DEF SnapInv
<1>0. /\ spc[p] = "idle" /\ spc' = [spc EXCEPT ![p] = label]
      /\ touched' = [q \in Savers |-> IF q = p THEN Busy # {} ELSE TRUE]
  BY DEF Begins, Goto
<1>1. SnapType' BY <1>0 DEF SnapType, Trees, Bare, Restoring, life, layers, archive
<1>2. Lone' BY <1>0 DEF SnapType, Lone, Busy
<1>3. Progress' BY <1>0 DEF SnapType, Progress, ProgressOf, Bare, Restoring, layers, archive
<1>4. Kept' BY DEF Kept, archive
<1>5. Rest' BY <1>0 DEF SnapType, Rest, Restoring
<1>6. RestoreExact' BY DEF RestoreExact, layers
<1>7. QED BY <1>1, <1>2, <1>3, <1>4, <1>5, <1>6

LEMMA FailsInv ==
  ASSUME SnapInv, NEW p \in Savers, Fails(p)
  PROVE  SnapInv'
<1> USE DEF SnapInv, Fails, Goto, life, layers, archive, past
<1>1. SnapType' BY DEF SnapType, Trees, Bare
<1>2. Lone' BY DEF SnapType, Lone
<1>3. Progress' BY DEF SnapType, Progress, ProgressOf, Bare
<1>4. (Kept /\ RestoreExact)' BY DEF SnapType, Kept, RestoreExact
<1>5. Rest' BY DEF SnapType, Rest, Restoring
<1>6. QED BY <1>1, <1>2, <1>3, <1>4, <1>5

LEMMA CreateChecksInv ==
  ASSUME SnapInv, NEW p \in Savers, CreateChecks(p)
  PROVE  SnapInv'
BY SnapBeginsInv DEF CreateChecks, SnapInv, SnapType

LEMMA RestoreChecksInv ==
  ASSUME SnapInv, NEW p \in Savers, RestoreChecks(p)
  PROVE  SnapInv'
<1>1. CASE upperDir BY <1>1, SnapBeginsInv DEF RestoreChecks, SnapInv, SnapType, Restoring
<1>2. CASE ~upperDir BY <1>2, SnapBeginsInv DEF RestoreChecks, SnapInv, SnapType, Restoring
<1>3. QED BY <1>1, <1>2

LEMMA TarOpensInv ==
  ASSUME SnapInv, NEW p \in Savers, TarOpens(p)
  PROVE  SnapInv'
<1> USE DEF SnapInv, TarOpens, Goto, life, layers
<1>0. \A q \in Savers : spc[q] # "idle" /\ ~touched[q] => q = p BY NoCompany
<1>1. SnapType'
  BY DEF SnapType, Trees, Bare, Restoring
<1>2. Lone' BY <1>0 DEF SnapType, Lone
<1>3. Progress'
  <2>1. ~touched[p] => \A q \in Savers : ~mine[q] BY DEF SnapType, Lone
  <2>2. QED BY <1>0, <2>1 DEF SnapType, Progress, ProgressOf
<1>4. (Kept /\ RestoreExact)' BY DEF Kept, RestoreExact
<1>5. Rest' BY DEF SnapType, Rest, Restoring
<1>6. QED BY <1>1, <1>2, <1>3, <1>4, <1>5

LEMMA TarPacksInv ==
  ASSUME SnapInv, NEW p \in Savers, TarPacks(p)
  PROVE  SnapInv'
<1> USE DEF SnapInv
<1>0. \A q \in Savers : spc[q] # "idle" /\ ~touched[q] => q = p BY NoCompany DEF TarPacks
<1>1. PICK f \in left[p] : /\ data' = IF mine[p] THEN [data EXCEPT ![f] = upper[f]] ELSE data
                           /\ left' = [left EXCEPT ![p] = left[p] \ {f}]
  BY DEF TarPacks
<1>2. /\ spc[p] = "pack" /\ f \in Files
      /\ UNCHANGED <<prog, record, mounted, upperDir, attached, upper, linked, whole,
                     spc, mine, touched, orig, restored>>
  BY DEF TarPacks, life, layers, past, SnapType
<1>3. SnapType' BY <1>1, <1>2 DEF SnapType, Trees, Bare
<1>4. Lone' BY <1>2 DEF Lone
<1>5. Progress' BY <1>0, <1>1, <1>2 DEF SnapType, Progress, ProgressOf, Trees
<1>6. Kept' BY <1>1, <1>2 DEF Kept
<1>7. (Rest /\ RestoreExact)' BY <1>2 DEF Rest, RestoreExact
<1>8. QED BY <1>3, <1>4, <1>5, <1>6, <1>7

LEMMA CreateEndsInv ==
  ASSUME SnapInv, NEW p \in Savers, CreateEnds(p)
  PROVE  SnapInv'
<1> USE DEF SnapInv, CreateEnds, Goto, life, layers
<1>1. SnapType' BY DEF SnapType, Trees, Bare, Restoring
<1>2. Lone' BY DEF SnapType, Lone
<1>3. Progress' BY DEF SnapType, Progress, ProgressOf
<1>4. Kept'
  <2>1. CASE touched[p] BY <2>1 DEF SnapType, Kept
  <2>2. CASE ~touched[p]
    <3>1. mine[p] /\ \A f \in Files : data[f] = upper[f]
      BY <2>2 DEF Progress, ProgressOf
    <3>2. data = upper BY <3>1 DEF SnapType, Trees
    <3>3. \A q \in Savers : ~mine'[q] BY <2>2 DEF SnapType, Lone
    <3>4. QED BY <2>2, <3>1, <3>2, <3>3 DEF SnapType, Kept
  <2>3. QED BY <2>1, <2>2
<1>5. Rest' BY DEF SnapType, Rest, Restoring
<1>6. RestoreExact' BY DEF RestoreExact
<1>7. QED BY <1>1, <1>2, <1>3, <1>4, <1>5, <1>6

LEMMA ClearsInv ==
  ASSUME SnapInv, NEW p \in Savers, Clears(p)
  PROVE  SnapInv'
<1> USE DEF SnapInv
<1>0. \A q \in Savers : spc[q] # "idle" /\ ~touched[q] => q = p BY NoCompany DEF Clears
<1>1. /\ spc[p] = "clear" /\ ~restored
      /\ UNCHANGED <<prog, record, mounted, linked, data, whole, left, mine, touched, orig, restored>>
  BY DEF Clears, life, archive, past, Rest, Restoring
<1>2. CASE upper = Bare
  <2>1. /\ upperDir' = FALSE /\ attached' = FALSE /\ upper' = upper
        /\ spc' = [spc EXCEPT ![p] = "mkdir"]
    BY <1>2 DEF Clears, Goto
  <2>2. SnapType' BY <1>1, <1>2, <2>1 DEF SnapType, Trees, Bare, Restoring
  <2>3. Lone' BY <1>1, <2>1 DEF SnapType, Lone
  <2>4. Progress' BY <1>0, <1>1, <1>2, <2>1 DEF SnapType, Progress, ProgressOf, Bare
  <2>5. (Kept /\ Rest /\ RestoreExact)' BY <1>1 DEF Kept, Rest, RestoreExact
  <2>6. QED BY <2>2, <2>3, <2>4, <2>5
<1>3. CASE upper # Bare
  <2>1. PICK f \in Files : upper' = [upper EXCEPT ![f] = Absent] BY <1>3 DEF Clears
  <2>2. UNCHANGED <<upperDir, attached, spc>> BY <1>3 DEF Clears
  <2>3. upperDir BY <1>3 DEF SnapType
  <2>4. SnapType' BY <1>1, <2>1, <2>2, <2>3 DEF SnapType, Trees
  <2>5. Lone' BY <1>1, <2>2 DEF Lone
  <2>6. Progress' BY <1>0, <1>1, <2>2 DEF Progress, ProgressOf
  <2>7. (Kept /\ Rest /\ RestoreExact)' BY <1>1 DEF Kept, Rest, RestoreExact
  <2>8. QED BY <2>4, <2>5, <2>6, <2>7
<1>4. QED BY <1>2, <1>3

LEMMA MakesUpperInv ==
  ASSUME SnapInv, NEW p \in Savers, MakesUpper(p)
  PROVE  SnapInv'
<1> USE DEF SnapInv, MakesUpper, Goto, life, archive, past
<1>0. record # "none" BY DEF SnapType
<1>1. SnapType' BY <1>0 DEF SnapType, Trees, Restoring
<1>2. Lone' BY DEF SnapType, Lone
<1>3. Progress' BY DEF SnapType, Progress, ProgressOf, Bare
<1>4. (Kept /\ RestoreExact)' BY DEF Kept, RestoreExact
<1>5. Rest' BY DEF SnapType, Rest, Restoring
<1>6. QED BY <1>1, <1>2, <1>3, <1>4, <1>5

LEMMA TarFindsInv ==
  ASSUME SnapInv, NEW p \in Savers, TarFinds(p)
  PROVE  SnapInv'
<1> USE DEF SnapInv, TarFinds, Goto, life, layers, archive, past
<1>1. SnapType' BY DEF SnapType, Trees, Bare, Restoring
<1>2. Lone' BY DEF SnapType, Lone
<1>3. Progress' BY DEF SnapType, Progress, ProgressOf, Bare
<1>4. (Kept /\ RestoreExact)' BY DEF Kept, RestoreExact
<1>5. Rest' BY DEF SnapType, Rest, Restoring
<1>6. QED BY <1>1, <1>2, <1>3, <1>4, <1>5

LEMMA TarUnpacksInv ==
  ASSUME SnapInv, NEW p \in Savers, TarUnpacks(p)
  PROVE  SnapInv'
<1> USE DEF SnapInv
<1>0. \A q \in Savers : spc[q] # "idle" /\ ~touched[q] => q = p BY NoCompany DEF TarUnpacks
<1>1. PICK f \in left[p] : /\ upper' = [upper EXCEPT ![f] = data[f]]
                           /\ left' = [left EXCEPT ![p] = left[p] \ {f}]
  BY DEF TarUnpacks
<1>2. /\ spc[p] = "unpack" /\ upperDir /\ f \in Files /\ ~restored
      /\ UNCHANGED <<prog, record, mounted, upperDir, attached, linked, data, whole,
                     spc, mine, touched, orig, restored>>
  BY DEF TarUnpacks, life, archive, past, SnapType, Rest, Restoring
<1>3. SnapType' BY <1>1, <1>2 DEF SnapType, Trees
<1>4. Lone' BY <1>2 DEF Lone
<1>5. Progress' BY <1>0, <1>1, <1>2 DEF SnapType, Progress, ProgressOf, Trees
<1>6. (Kept /\ Rest /\ RestoreExact)' BY <1>2 DEF Kept, Rest, RestoreExact
<1>7. QED BY <1>3, <1>4, <1>5, <1>6

LEMMA RestoreEndsInv ==
  ASSUME SnapInv, NEW p \in Savers, RestoreEnds(p)
  PROVE  SnapInv'
<1> USE DEF SnapInv, RestoreEnds, Goto, life, layers, archive
<1>1. SnapType' BY DEF SnapType, Trees, Bare, Restoring
<1>2. Lone' BY DEF SnapType, Lone
<1>3. Progress' BY DEF SnapType, Progress, ProgressOf, Bare
<1>4. Kept' BY DEF Kept
<1>5. Rest' BY DEF SnapType, Lone, Rest, Restoring
<1>6. RestoreExact'
  <2> SUFFICES ASSUME ~touched[p], orig # Unknown PROVE upper = orig
    BY DEF RestoreExact
  <2>1. \A f \in Files : upper[f] = data[f] BY DEF Progress, ProgressOf
  <2>2. upper = data BY <2>1 DEF SnapType, Trees
  <2>3. QED BY <2>2 DEF Kept
<1>7. QED BY <1>1, <1>2, <1>3, <1>4, <1>5, <1>6

LEMMA RemovesSnapshotInv ==
  ASSUME SnapInv, NEW p \in Savers, RemovesSnapshot(p)
  PROVE  SnapInv'
<1> USE DEF SnapInv, RemovesSnapshot, life, layers
<1>1. SnapType' BY DEF SnapType, Trees, Bare
<1>2. (Lone /\ Progress)' BY DEF Lone, Progress, ProgressOf
<1>3. (Kept /\ Rest /\ RestoreExact)' BY DEF Kept, Rest, RestoreExact
<1>4. QED BY <1>1, <1>2, <1>3

-----------------------------------------------------------------------------
LEMMA SnapStep == SnapInv /\ [Next]_vars => SnapInv'
<1> SUFFICES ASSUME SnapInv, [Next]_vars PROVE SnapInv' OBVIOUS
<1>0. attached \in BOOLEAN BY DEF SnapInv, SnapType
<1>1. CASE Lives \/ Unmounts \/ UNCHANGED svars
  <2>1. UNCHANGED <<upperDir, upper, archive, cmds, past>>
    BY <1>1 DEF Lives, Released, SavesRunning, ProgramDies, SavesStopped, Unmounts, svars, layers
  <2>2. record' = "none" => record = "none"
    BY <1>1 DEF Lives, Released, SavesRunning, ProgramDies, SavesStopped, Unmounts, svars, life
  <2>3. attached' = attached \/ attached' = FALSE
    BY <1>1 DEF Lives, Released, SavesRunning, ProgramDies, SavesStopped, Unmounts, svars, layers
  <2>4. attached' \in BOOLEAN /\ (attached' => attached)
    <3>1. CASE attached' = attached BY <1>0, <3>1
    <3>2. CASE attached' = FALSE BY <3>2
    <3>3. QED BY <2>3, <3>1, <3>2
  <2>5. QED BY <2>1, <2>2, <2>4, LivesInv
<1>2. CASE \E overlay, rootless \in BOOLEAN : (overlay => ~rootless) /\ SetsUp(overlay, rootless)
  BY <1>2, SetsUpInv
<1>3. ASSUME NEW p \in Savers, Snaps(p) PROVE SnapInv'
  BY <1>3, CreateChecksInv, TarOpensInv, TarPacksInv, CreateEndsInv, RestoreChecksInv,
     ClearsInv, MakesUpperInv, TarFindsInv, TarUnpacksInv, RestoreEndsInv,
     RemovesSnapshotInv, FailsInv
  DEF Snaps
<1>4. CASE Starts
  <2>1. \E overlay, rootless \in BOOLEAN : (overlay => ~rootless) /\ SetsUp(overlay, rootless)
    BY <1>4 DEF Starts
  <2>2. QED BY <1>2, <2>1
<1>5. QED BY <1>1, <1>3, <1>4, ChangesInv DEF Next, SnapshotsNext, Ends, vars

\* The invariant of the snapshots holds throughout (main.rs 1328-1390).
THEOREM SnapInvariant == Spec => []SnapInv
<1>1. Init => SnapInv BY SnapInitInv DEF Init
<1>2. QED BY <1>1, SnapStep, PTL DEF Spec

\* A restore that succeeds undisturbed brings back the very files of which the snapshot
\* was made undisturbed, whatever failed or overlapped before, for any number of
\* invocations and any files.
THEOREM RestoreExactSafe == Spec => []RestoreExact
BY SnapInvariant, PTL DEF SnapInv
-----------------------------------------------------------------------------
(* The image and the container together.                                   *)

Below == layer \in {"lower", "unlinked"}

Coupled ==
  /\ prog \in {"none", "alive", "dead"}
  /\ record \in {"none", "created", "running", "stopped"}
  /\ mounted \in BOOLEAN /\ (mounted <=> Below)
  /\ attached => mounted

\* No step of a pull, a build, a prune or of run puts a layer under the container or takes
\* it away; only where the name has gone is it another.
LEMMA LayerStays == ImagesNext => (Below' <=> Below)
<1> SUFFICES ASSUME ImagesNext PROVE Below' <=> Below OBVIOUS
<1> USE DEF Below, store, ctr
<1>1. ASSUME NEW p \in Actors, TakesPart(p) \/ TakesRoot(p) PROVE Below' <=> Below
  BY <1>1 DEF TakesPart, TakesRoot
<1>2. ASSUME NEW p \in Cmds,
             Pulls(p) \/ Builds(p) \/ PruneLists(p) \/ PruneTakes(p) \/ PruneEnds(p)
      PROVE  Below' <=> Below
  <2>1. p \in Actors BY DEF Actors
  <2>2. CASE PruneTakes(p) BY <1>1, <2>1, <2>2 DEF PruneTakes
  <2>3. QED BY <1>2, <2>2 DEF Pulls, Builds, BeginsImage, PruneLists, PruneEnds
<1>3. ASSUME NEW p \in Actors, Pulling(p) PROVE Below' <=> Below
  <2>1. CASE Removes(p) BY <1>1, <2>1 DEF Removes
  <2>2. QED BY <1>3, <2>1 DEF Pulling, MakesRoot, Unpacks, Installs, Puts, MakesParents,
               ExtractEnds, TruncatesConfig, WritesConfig, WriterFails
<1>4. QED BY <1>2, <1>3 DEF ImagesNext, RunChecks, BeginsImage, RunLoads, RunCopies,
               CopiesPart, RunFails

LEMMA CoupledStep == SnapInv /\ Coupled /\ [Next]_vars => Coupled'
<1> SUFFICES ASSUME SnapInv, Coupled, [Next]_vars PROVE Coupled' OBVIOUS
<1>1. CASE ImagesNext /\ UNCHANGED svars
  <2>1. UNCHANGED <<prog, record, mounted, attached>> BY <1>1 DEF svars, life, layers
  <2>2. (mounted <=> Below)' BY <1>1, <2>1, LayerStays DEF Coupled
  <2>3. QED BY <2>1, <2>2 DEF Coupled
<1>2. CASE Starts
  <2>1. CASE RunMounts /\ SetsUp(TRUE, FALSE)
    BY <2>1 DEF RunMounts, SetsUp, Coupled, Below
  <2>2. CASE CopyEnds /\ \E rootless \in BOOLEAN : SetsUp(FALSE, rootless)
    BY <2>2 DEF CopyEnds, SetsUp, Coupled, Below
  <2>3. QED BY <1>2, <2>1, <2>2 DEF Starts
<1>3. CASE Ends BY <1>3 DEF Ends, RunEnds, Unmounts, Coupled, Below, None
<1>4. CASE SnapshotsNext /\ UNCHANGED ivars
  <2>1. Below' = Below BY <1>4 DEF Below, ivars, ctr
  <2>2. mounted' = mounted
    BY <1>4 DEF SnapshotsNext, Lives, Released, SavesRunning, ProgramDies, SavesStopped,
      Changes, Snaps, CreateChecks, TarOpens, TarPacks, CreateEnds, RestoreChecks, Clears,
      MakesUpper, TarFinds, TarUnpacks, RestoreEnds, RemovesSnapshot, Fails, life
  <2>3. attached' = attached \/ attached' = FALSE
    BY <1>4 DEF SnapshotsNext, Lives, Released, SavesRunning, ProgramDies, SavesStopped,
      Changes, Snaps, CreateChecks, TarOpens, TarPacks, CreateEnds, RestoreChecks, Clears,
      MakesUpper, TarFinds, TarUnpacks, RestoreEnds, RemovesSnapshot, Fails, layers
  <2>4. prog' \in {"none", "alive", "dead"} /\ record' \in {"none", "created", "running", "stopped"}
    BY <1>4 DEF Coupled, SnapshotsNext, Lives, Released, SavesRunning, ProgramDies, SavesStopped,
      Changes, Snaps, CreateChecks, TarOpens, TarPacks, CreateEnds, RestoreChecks, Clears,
      MakesUpper, TarFinds, TarUnpacks, RestoreEnds, RemovesSnapshot, Fails, life
  <2>5. CASE attached' = attached BY <2>1, <2>2, <2>4, <2>5 DEF Coupled
  <2>6. CASE attached' = FALSE BY <2>1, <2>2, <2>4, <2>6 DEF Coupled
  <2>7. QED BY <2>3, <2>5, <2>6
<1>5. CASE UNCHANGED vars
  BY <1>5 DEF Coupled, Below, vars, ivars, svars, ctr, life, layers
<1>6. QED BY <1>1, <1>2, <1>3, <1>4, <1>5 DEF Next

\* What the image has and what lies over it are of their types, and the container's
\* overlay is mounted exactly while a rootfs is below it.
THEOREM StorageTypeSafe == Spec => []TypeOK
<1>1. Init => Coupled
  BY DEF Init, ImagesInit, SnapshotsInit, Coupled, Below, None
<1>2. ImgInv /\ SnapInv /\ Coupled => TypeOK
  <2> SUFFICES ASSUME ImgInv, SnapInv, Coupled PROVE TypeOK OBVIOUS
  <2>1. ImgType BY DEF ImgInv
  <2>2. SnapType BY DEF SnapInv
  <2>3. mounted = (layer \in {"lower", "unlinked"})
    <3>1. mounted = TRUE \/ mounted = FALSE BY DEF Coupled
    <3>2. (layer \in {"lower", "unlinked"}) = TRUE \/ (layer \in {"lower", "unlinked"}) = FALSE
      OBVIOUS
    <3>3. mounted <=> layer \in {"lower", "unlinked"} BY DEF Coupled, Below
    <3>4. QED BY <3>1, <3>2, <3>3, Zenon
  <2>4. attached => mounted /\ upperDir BY <2>2 DEF SnapType, Coupled
  <2>5. QED BY <2>1, <2>2, <2>3, <2>4 DEF TypeOK, ImgType, SnapType, Coupled, Places, Trees
<1>3. QED BY <1>1, <1>2, CoupledStep, ImgInvariant, SnapInvariant, PTL DEF Spec
=============================================================================
