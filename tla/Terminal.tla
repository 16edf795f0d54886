------------------------------ MODULE Terminal ------------------------------
(***************************************************************************)
(* pty_forward of container.rs: the loop of `corten run -t` between the     *)
(* host's terminal and the master of the container's PTY.  Both directions  *)
(* of a PTY hold a bounded number of bytes, and its reads and writes block. *)
(* Bytes are counted; which ones they are does not matter.                  *)
(***************************************************************************)
EXTENDS Naturals

CONSTANTS
  MaxOut,  \* BOUND: the bytes that the program writes
  MaxIn,   \* BOUND: the bytes that are typed
  OutCap,  \* what the PTY holds on the way out
  InCap,   \* what it holds on the way in
  BufLen   \* the length of buf

ASSUME TerminalAssumption ==
  {MaxOut, MaxIn} \subseteq Nat /\ {OutCap, InCap, BufLen} \subseteq Nat \ {0}

VARIABLES
  interactive,   \* -i: stdin is forwarded, too
  prog,          \* the child: "running", "dead" when waitpid would find it, "reaped"
  wrote, shown,  \* bytes that it wrote; bytes that were printed of them
  typed, eof,    \* bytes that wait on stdin; that is all there will be
  given, taken,  \* bytes that were written to the master; that the program has read
  fpc,           \* where the loop stands; "done" outside of it
  ready,         \* revents: a subset of {"in", "out"}
  held,          \* bytes in buf that were read from stdin
  why            \* history: what the loop was left for

user == <<typed, eof>>
tvars == <<interactive, prog, wrote, shown, user, given, taken, fpc, ready, held, why>>

TermInit ==
  /\ interactive \in BOOLEAN
  /\ prog = "running"
  /\ wrote = 0 /\ shown = 0 /\ typed = 0 /\ given = 0 /\ taken = 0 /\ held = 0
  /\ eof = FALSE
  /\ fpc = "poll" /\ ready = {} /\ why = "none"

UpTo(n) == {k \in 1..BufLen : k <= n}

-----------------------------------------------------------------------------
(* The program and the person.                                             *)

\* write blocks while the PTY is full; without a master it fails.
ProgramWrites ==
  /\ prog = "running" /\ fpc # "done"
  /\ wrote < MaxOut /\ wrote - shown < OutCap
  /\ wrote' = wrote + 1
  /\ UNCHANGED <<interactive, prog, shown, user, given, taken, fpc, ready, held, why>>

ProgramReads ==
  /\ prog = "running"
  /\ taken < given
  /\ taken' = taken + 1
  /\ UNCHANGED <<interactive, prog, wrote, shown, user, given, fpc, ready, held, why>>

ProgramEnds ==
  /\ prog = "running"
  /\ prog' = "dead"
  /\ UNCHANGED <<interactive, wrote, shown, user, given, taken, fpc, ready, held, why>>

Types ==
  /\ ~eof
  /\ \/ typed + held + given < MaxIn /\ typed' = typed + 1 /\ UNCHANGED eof
     \/ eof' = TRUE /\ UNCHANGED typed
  /\ UNCHANGED <<interactive, prog, wrote, shown, given, taken, fpc, ready, held, why>>

-----------------------------------------------------------------------------
(* The loop.                                                               *)

Leave(reason) == fpc' = "done" /\ why' = reason

\* Mutant: without -i the descriptor that is polled is stdin.
ReadyStdin == IF typed > 0 \/ eof THEN {"in"} ELSE {}

\* What poll finds; without -i it is given the master only.
Ready ==
  (IF interactive /\ (typed > 0 \/ eof) THEN {"in"} ELSE {})
    \cup (IF shown < wrote THEN {"out"} ELSE {})

\* It returns after 100 ms at the latest, or fails.
Polls ==
  /\ fpc = "poll"
  /\ \/ ready' = Ready /\ fpc' = "reap" /\ UNCHANGED why
     \/ Leave("poll") /\ UNCHANGED ready
  /\ UNCHANGED <<interactive, prog, wrote, shown, user, given, taken, held>>

\* waitpid with WNOHANG.
Reaps ==
  /\ fpc = "reap"
  /\ IF prog = "dead"
       THEN prog' = "reaped" /\ fpc' = "drain"
       ELSE fpc' = (IF "in" \in ready THEN "stdin" ELSE "show") /\ UNCHANGED prog
  /\ UNCHANGED <<interactive, wrote, shown, user, given, taken, ready, held, why>>

\* Mutant: one read is enough.
DrainsOnce ==
  /\ fpc = "drain"
  /\ Leave("exit")
  /\ shown' = shown + (IF wrote - shown <= BufLen THEN wrote - shown ELSE BufLen)
  /\ UNCHANGED <<interactive, prog, wrote, user, given, taken, ready, held>>

\* Nobody writes any more: read returns what is there, and then an error.
Drains ==
  /\ fpc = "drain"
  /\ IF shown = wrote
       THEN Leave("exit") /\ UNCHANGED shown
       ELSE \E n \in UpTo(wrote - shown) : shown' = shown + n /\ UNCHANGED <<fpc, why>>
  /\ UNCHANGED <<interactive, prog, wrote, user, given, taken, ready, held>>

\* A read of stdin that returns nothing, or fails, ends the loop.
ReadsStdin ==
  /\ fpc = "stdin"
  /\ \/ typed = 0 /\ Leave("eof") /\ UNCHANGED <<typed, held>>
     \/ \E n \in UpTo(typed) :
          /\ held' = n /\ typed' = typed - n
          /\ fpc' = "type" /\ UNCHANGED why
  /\ UNCHANGED <<interactive, prog, wrote, shown, eof, given, taken, ready>>

\* write to the master: it blocks while the PTY is full, and fails, which is
\* ignored, when the program has gone.
WritesMaster ==
  /\ fpc = "type"
  /\ IF held = 0 \/ prog # "running"
       THEN held' = 0 /\ fpc' = "show" /\ UNCHANGED given
       ELSE /\ given - taken < InCap
            /\ held' = held - 1 /\ given' = given + 1
            /\ UNCHANGED fpc
  /\ UNCHANGED <<interactive, prog, wrote, shown, user, taken, ready, why>>

Shows ==
  /\ fpc = "show"
  /\ fpc' = "poll"
  /\ IF "out" \in ready
       THEN \E n \in UpTo(wrote - shown) : shown' = shown + n
       ELSE UNCHANGED shown
  /\ UNCHANGED <<interactive, prog, wrote, user, given, taken, ready, held, why>>

Forwards == Polls \/ Reaps \/ Drains \/ ReadsStdin \/ WritesMaster \/ Shows

TermNext == ProgramWrites \/ ProgramReads \/ ProgramEnds \/ Types \/ Forwards

-----------------------------------------------------------------------------
\* The loop sits in write, and the program does not read what is typed.  Should
\* it wait for its own output to be taken, both wait for ever.
Jammed == fpc = "type" /\ held > 0 /\ prog = "running" /\ given - taken = InCap

\* When the loop ends because the program has, all that it has ever written is on
\* the screen, wherever between poll, waitpid and read its end fell
\* (container.rs 560-572).
OutputComplete == why = "exit" => shown = wrote

\* Every byte is printed some time, unless the loop is left for another reason
\* than the program's end, or is held up by a program that does not read.
TermShown ==
  \A n \in 1..MaxOut : wrote >= n ~> shown >= n \/ why \in {"eof", "poll"} \/ Jammed
====
