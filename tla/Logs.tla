-------------------------------- MODULE Logs --------------------------------
(***************************************************************************)
(* stdout.log of a detached container, and those who follow it: `corten    *)
(* logs -f` and `corten mlogs`.  child_main creates the file, which empties *)
(* it, at every start.  A line is one byte here.                            *)
(***************************************************************************)
EXTENDS Naturals

CONSTANTS
  Followers,  \* invocations of logs -f and mlogs
  Tail,       \* the number of lines mlogs begins with
  MaxLen,     \* BOUND: the lines a program writes
  MaxRun      \* BOUND: the starts of the container

ASSUME LogsAssumption == {Tail, MaxLen, MaxRun} \subseteq Nat

VARIABLES
  run, alive,   \* how often the container has been started; its program runs
  len,          \* the length of the file
  lpc, pos,     \* a follower: where it stands; its offset, or last_pos
  size,         \* the length it has read from the metadata
  since, from,  \* history: the run in which it began to follow, and the length then
  printed,      \* history: the lines of that run that it has printed
  garbled       \* history: a read has ended inside a character

log == <<run, alive, len>>
lvars == <<log, lpc, pos, size, since, from, printed, garbled>>

LogInit ==
  /\ run = 1 /\ alive = TRUE /\ len = 0
  /\ lpc = [p \in Followers |-> "idle"]
  /\ pos = [p \in Followers |-> 0]
  /\ size = [p \in Followers |-> 0]
  /\ since = [p \in Followers |-> 0]
  /\ from = [p \in Followers |-> 0]
  /\ printed = [p \in Followers |-> {}]
  /\ garbled = [p \in Followers |-> FALSE]

To(p, label) == lpc' = [lpc EXCEPT ![p] = label]
At(f, p, v) == [f EXCEPT ![p] = v]
Following(p) == lpc[p] \in {"follow", "stat", "read"}

\* Lines a+1 to b of the file are printed; of a run that began later the history
\* keeps nothing.
Prints(p, a, b) ==
  printed' = IF run = since[p] THEN At(printed, p, printed[p] \cup (a + 1)..b) ELSE printed

-----------------------------------------------------------------------------
(* The program.  Its descriptor is its own: File::create gives a new one to *)
(* each run, and a program is dead before the next one starts.              *)

ProgramLogs ==
  /\ alive /\ len < MaxLen
  /\ len' = len + 1
  /\ UNCHANGED <<run, alive, lpc, pos, size, since, from, printed, garbled>>

ProgramStops ==
  /\ alive
  /\ alive' = FALSE
  /\ UNCHANGED <<run, len, lpc, pos, size, since, from, printed, garbled>>

ProgramRestarts ==
  /\ ~alive /\ run < MaxRun
  /\ run' = run + 1 /\ alive' = TRUE /\ len' = 0
  /\ UNCHANGED <<lpc, pos, size, since, from, printed, garbled>>

-----------------------------------------------------------------------------
(* logs -f                                                                 *)

\* Open, and seek to the end.
LogsOpens(p) ==
  /\ lpc[p] = "idle"
  /\ To(p, "follow")
  /\ pos' = At(pos, p, len)
  /\ since' = At(since, p, run) /\ from' = At(from, p, len)
  /\ UNCHANGED <<log, size, printed, garbled>>

\* read_line gives what there is, and nothing at and beyond the end of the file.
\* What ends inside a character is an error, which ends the command.
LogsReads(p) ==
  /\ lpc[p] = "follow"
  /\ \E n \in (pos[p] + 1)..len :
       \/ /\ Prints(p, pos[p], n)
          /\ pos' = At(pos, p, n)
          /\ UNCHANGED <<lpc, garbled>>
       \/ /\ To(p, "failed")
          /\ garbled' = At(garbled, p, TRUE)
          /\ UNCHANGED <<pos, printed>>
  /\ UNCHANGED <<log, size, since, from>>

-----------------------------------------------------------------------------
(* mlogs                                                                   *)

\* Open, and ask for the length.
MlogsOpens(p) ==
  /\ lpc[p] = "idle"
  /\ size' = At(size, p, len) /\ pos' = At(pos, p, len)
  /\ To(p, IF len > 0 THEN "tail" ELSE "stat")
  /\ since' = At(since, p, run) /\ from' = At(from, p, len)
  /\ UNCHANGED <<log, printed, garbled>>

\* Seek as far back from the end as the file was long, or 200 bytes a line if that
\* is less; read to the end; print the last lines.  A seek before the beginning
\* fails and is ignored.
MlogsTails(p) ==
  /\ lpc[p] = "tail"
  /\ LET start == IF size[p] <= len THEN len - size[p] ELSE 0 IN
       Prints(p, IF len - start > Tail THEN len - Tail ELSE start, len)
  /\ To(p, "stat")
  /\ UNCHANGED <<log, pos, size, since, from, garbled>>

\* Is there more than at the last time?
MlogsStats(p) ==
  /\ lpc[p] = "stat"
  /\ len > pos[p]
  /\ size' = At(size, p, len)
  /\ To(p, "read")
  /\ UNCHANGED <<log, pos, since, from, printed, garbled>>

\* Mutant: it does not seek back to where it was.
MlogsReadsOn(p) ==
  /\ lpc[p] = "read"
  /\ Prints(p, size[p], len) /\ UNCHANGED garbled
  /\ pos' = At(pos, p, size[p])
  /\ To(p, "stat")
  /\ UNCHANGED <<log, size, since, from>>

\* From last_pos to the end, which may be beyond the length that was asked for, and
\* is what last_pos becomes.  A line that ends inside a character is dropped (and so is,
\* wherever it stands, one that is no text, which the programs of this model do not write).
MlogsReads(p) ==
  /\ lpc[p] = "read"
  /\ \/ Prints(p, pos[p], len) /\ UNCHANGED garbled
     \/ pos[p] < len /\ garbled' = At(garbled, p, TRUE) /\ Prints(p, pos[p], len - 1)
  /\ pos' = At(pos, p, size[p])
  /\ To(p, "stat")
  /\ UNCHANGED <<log, size, since, from>>

Follows(p) == LogsReads(p) \/ MlogsTails(p) \/ MlogsStats(p) \/ MlogsReads(p)

LogNext ==
  \/ ProgramLogs \/ ProgramStops \/ ProgramRestarts
  \/ \E p \in Followers : LogsOpens(p) \/ MlogsOpens(p) \/ Follows(p)

-----------------------------------------------------------------------------
\* While the container is not restarted, a follower leaves nothing out: it has
\* printed every line between the length at which it began and its position, no
\* matter how far the file has grown between its stat and its read.  (Lines may be
\* printed twice.)  main.rs 1272-1285
NothingSkipped == \A p \in Followers :
  since[p] = run /\ ~garbled[p] => (from[p] + 1)..pos[p] \subseteq printed[p]

\* What is written while somebody follows is printed some time, unless the
\* container is started again, or a read has ended inside a character.
LogShown == \A p \in Followers, n \in 1..MaxLen, r \in 1..MaxRun :
  Following(p) /\ since[p] = r /\ run = r /\ from[p] < n /\ n <= len
    ~> n \in printed[p] \/ run # r \/ garbled[p]
====
