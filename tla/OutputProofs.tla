---------------------------- MODULE OutputProofs ----------------------------
(***************************************************************************)
(* Nothing is lost, on either way, for any lengths, buffers and number of   *)
(* followers and of restarts.                                               *)
(***************************************************************************)
EXTENDS Output, Integers, TLAPS

\* What is in the PTY has been written; the loop drains it, and ends for the
\* program's end, after it has reaped the program only.
TermInv ==
  /\ wrote \in Nat /\ shown \in Nat
  /\ fpc = "drain" => prog = "reaped"
  /\ why = "exit" => fpc = "done" /\ prog = "reaped" /\ shown = wrote

LEMMA TermInitInv == TermInit => TermInv
  BY DEF TermInit, TermInv

LEMMA TermStep == TermInv /\ TermNext => TermInv'
<1> SUFFICES ASSUME TermInv, TermNext PROVE TermInv' OBVIOUS
<1> USE DEF TermInv
<1>0. \A n \in Nat : UpTo(n) \subseteq Nat BY TerminalAssumption DEF UpTo
<1>1. CASE ProgramWrites BY <1>1 DEF ProgramWrites
<1>2. CASE ProgramReads BY <1>2 DEF ProgramReads
<1>3. CASE ProgramEnds BY <1>3 DEF ProgramEnds
<1>4. CASE Types BY <1>4 DEF Types, user
<1>5. CASE Polls BY <1>5 DEF Polls, Leave, user
<1>6. CASE Reaps BY <1>6 DEF Reaps, user
<1>7. CASE Drains
  <2>1. CASE shown = wrote BY <1>7, <2>1 DEF Drains, Leave, user
  <2>2. CASE shown # wrote
    <3>1. PICK n \in UpTo(wrote - shown) : shown' = shown + n
      BY <1>7, <2>2 DEF Drains
    <3>2. n \in Nat BY TerminalAssumption, <3>1 DEF UpTo
    <3>3. QED BY <1>7, <2>2, <3>1, <3>2 DEF Drains, user
  <2>3. QED BY <2>1, <2>2
<1>8. CASE ReadsStdin BY <1>8 DEF ReadsStdin, Leave
<1>9. CASE WritesMaster BY <1>9 DEF WritesMaster, user
<1>10. CASE Shows
  <2>1. shown' \in Nat
    <3>1. CASE "out" \in ready
      <4>1. PICK n \in UpTo(wrote - shown) : shown' = shown + n BY <1>10, <3>1 DEF Shows
      <4>2. n \in Nat BY TerminalAssumption, <4>1 DEF UpTo
      <4>3. QED BY <4>1, <4>2
    <3>2. CASE "out" \notin ready BY <1>10, <3>2 DEF Shows
    <3>3. QED BY <3>1, <3>2
  <2>2. QED BY <1>10, <2>1 DEF Shows, user
<1>11. QED BY <1>1, <1>2, <1>3, <1>4, <1>5, <1>6, <1>7, <1>8, <1>9, <1>10 DEF TermNext, Forwards

-----------------------------------------------------------------------------
Places == {"idle", "follow", "tail", "stat", "read", "failed"}

\* In its own run, the length that a follower has read is there.
LogInv ==
  /\ run \in Nat \ {0} /\ len \in Nat
  /\ pos \in [Followers -> Nat] /\ size \in [Followers -> Nat]
  /\ since \in [Followers -> Nat] /\ from \in [Followers -> Nat]
  /\ printed \in [Followers -> SUBSET Nat]
  /\ garbled \in [Followers -> BOOLEAN]
  /\ \A p \in Followers : since[p] <= run /\ (since[p] = run => size[p] <= len)
  /\ lpc \in [Followers -> Places]
  /\ \A p \in Followers : lpc[p] = "idle" => size[p] = 0
  /\ NothingSkipped

LEMMA LogInitInv == LogInit => LogInv
  BY DEF LogInit, LogInv, NothingSkipped, Places

\* A read that reaches from the old position to the new one, and beyond, fills the
\* gap.
LEMMA ReadFills ==
  ASSUME NEW a \in Nat, NEW b \in Nat, NEW c \in Nat, NEW d \in Nat, NEW S,
         (a + 1)..b \subseteq S, c <= d
  PROVE  (a + 1)..c \subseteq S \cup (b + 1)..d
  OBVIOUS

\* What a follower prints stays printed, and is a set of lines.
LEMMA PrintsIs ==
  ASSUME LogInv, NEW p \in Followers, NEW a \in Nat, NEW b \in Int, Prints(p, a, b)
  PROVE  /\ printed' \in [Followers -> SUBSET Nat]
         /\ \A q \in Followers : printed[q] \subseteq printed'[q]
         /\ run = since[p] => printed'[p] = printed[p] \cup (a + 1)..b
<1>1. CASE run = since[p]
  <2>1. printed' = [printed EXCEPT ![p] = printed[p] \cup (a + 1)..b]
    BY <1>1 DEF Prints, At
  <2>2. (a + 1)..b \subseteq Nat OBVIOUS
  <2>3. QED BY <2>1, <2>2 DEF LogInv
<1>2. CASE run # since[p] BY <1>2 DEF Prints, LogInv
<1>3. QED BY <1>1, <1>2

LEMMA LogStep == LogInv /\ LogNext => LogInv'
<1> SUFFICES ASSUME LogInv, LogNext PROVE LogInv' OBVIOUS
<1> USE DEF LogInv, Places
<1>1. CASE ProgramLogs BY <1>1 DEF ProgramLogs, NothingSkipped
<1>2. CASE ProgramStops BY <1>2 DEF ProgramStops, NothingSkipped
<1>3. CASE ProgramRestarts BY <1>3 DEF ProgramRestarts, NothingSkipped
<1>4. ASSUME NEW p \in Followers, LogsOpens(p) \/ MlogsOpens(p) PROVE LogInv'
  <2>1. /\ pos' = [pos EXCEPT ![p] = len] /\ since' = [since EXCEPT ![p] = run]
        /\ from' = [from EXCEPT ![p] = len]
        /\ UNCHANGED <<run, len, printed, garbled>>
    BY <1>4 DEF LogsOpens, MlogsOpens, At, log
  <2>2. \/ size' = size /\ size[p] = 0
        \/ size' = [size EXCEPT ![p] = len]
    BY <1>4 DEF LogsOpens, MlogsOpens, At
  <2>3. \E l \in {"follow", "tail", "stat"} : lpc' = [lpc EXCEPT ![p] = l]
    BY <1>4 DEF LogsOpens, MlogsOpens, To
  <2>4. NothingSkipped'
    BY <2>1 DEF NothingSkipped
  <2>5. lpc' \in [Followers -> Places] /\ \A q \in Followers : lpc'[q] = "idle" => q # p /\ lpc[q] = "idle"
    BY <2>3
  <2>6. /\ size' \in [Followers -> Nat]
        /\ \A q \in Followers : q # p => size'[q] = size[q]
        /\ size'[p] <= len
    BY <2>2
  <2>7. \A q \in Followers : since'[q] <= run /\ (since'[q] = run => size'[q] <= len)
    BY <2>1, <2>6
  <2>8. QED BY <2>1, <2>4, <2>5, <2>6, <2>7
<1>5. ASSUME NEW p \in Followers, LogsReads(p) PROVE LogInv'
  <2>1. PICK n \in (pos[p] + 1)..len :
          \/ /\ Prints(p, pos[p], n) /\ pos' = [pos EXCEPT ![p] = n]
             /\ UNCHANGED <<garbled, lpc>>
          \/ /\ garbled' = [garbled EXCEPT ![p] = TRUE] /\ UNCHANGED <<pos, printed>>
             /\ lpc' = [lpc EXCEPT ![p] = "failed"]
    BY <1>5 DEF LogsReads, At, To
  <2>2. UNCHANGED <<run, len, size, since, from>> BY <1>5 DEF LogsReads, log
  <2>3. CASE /\ Prints(p, pos[p], n) /\ pos' = [pos EXCEPT ![p] = n]
             /\ UNCHANGED <<garbled, lpc>>
    <3>1. n \in Nat OBVIOUS
    <3>2. /\ printed' \in [Followers -> SUBSET Nat]
          /\ \A q \in Followers : printed[q] \subseteq printed'[q]
          /\ run = since[p] => printed'[p] = printed[p] \cup (pos[p] + 1)..n
      BY <2>3, <3>1, PrintsIs
    <3>3. NothingSkipped'
      BY <2>2, <2>3, <3>1, <3>2, ReadFills DEF NothingSkipped
    <3>4. QED BY <2>2, <2>3, <3>1, <3>2, <3>3
  <2>4. CASE /\ garbled' = [garbled EXCEPT ![p] = TRUE] /\ UNCHANGED <<pos, printed>>
             /\ lpc' = [lpc EXCEPT ![p] = "failed"]
    BY <2>2, <2>4 DEF NothingSkipped
  <2>5. QED BY <2>1, <2>3, <2>4
<1>6. ASSUME NEW p \in Followers, MlogsTails(p) PROVE LogInv'
  <2>1. /\ UNCHANGED <<run, len, pos, size, since, from, garbled>>
        /\ lpc' = [lpc EXCEPT ![p] = "stat"]
    BY <1>6 DEF MlogsTails, log, To
  <2>2. PICK a \in Nat : Prints(p, a, len)
    BY <1>6, LogsAssumption DEF MlogsTails
  <2>3. /\ printed' \in [Followers -> SUBSET Nat]
        /\ \A q \in Followers : printed[q] \subseteq printed'[q]
    BY <2>2, PrintsIs
  <2>4. QED BY <2>1, <2>3 DEF NothingSkipped
<1>7. ASSUME NEW p \in Followers, MlogsStats(p) PROVE LogInv'
  BY <1>7 DEF MlogsStats, At, To, log, NothingSkipped
<1>8. ASSUME NEW p \in Followers, MlogsReads(p) PROVE LogInv'
  <2>1. /\ UNCHANGED <<run, len, size, since, from>>
        /\ pos' = [pos EXCEPT ![p] = size[p]]
        /\ lpc' = [lpc EXCEPT ![p] = "stat"]
    BY <1>8 DEF MlogsReads, At, To, log
  <2>2. CASE Prints(p, pos[p], len) /\ UNCHANGED garbled
    <3>1. /\ printed' \in [Followers -> SUBSET Nat]
          /\ \A q \in Followers : printed[q] \subseteq printed'[q]
          /\ run = since[p] => printed'[p] = printed[p] \cup (pos[p] + 1)..len
      BY <2>2, PrintsIs
    <3>2. NothingSkipped'
      BY <2>1, <2>2, <3>1, ReadFills DEF NothingSkipped
    <3>3. QED BY <2>1, <2>2, <3>1, <3>2
  <2>3. CASE garbled' = [garbled EXCEPT ![p] = TRUE] /\ Prints(p, pos[p], len - 1)
    <3>1. /\ printed' \in [Followers -> SUBSET Nat]
          /\ \A q \in Followers : printed[q] \subseteq printed'[q]
      BY <2>3, PrintsIs
    <3>2. QED BY <2>1, <2>3, <3>1 DEF NothingSkipped
  <2>4. QED BY <1>8, <2>2, <2>3 DEF MlogsReads, At
<1>9. QED BY <1>1, <1>2, <1>3, <1>4, <1>5, <1>6, <1>7, <1>8 DEF LogNext, Follows

-----------------------------------------------------------------------------
\* The two invariants, of the terminal loop and of the followers, hold throughout
\* (container.rs 520-600, main.rs 1243-1290).
THEOREM OutputInvariant == Spec => [](TermInv /\ LogInv)
<1>1. Init => TermInv /\ LogInv BY TermInitInv, LogInitInv DEF Init
<1>2. TermInv /\ LogInv /\ [Next]_vars => (TermInv /\ LogInv)'
  <2> SUFFICES ASSUME TermInv, LogInv, [Next]_vars PROVE (TermInv /\ LogInv)' OBVIOUS
  <2>1. UNCHANGED tvars => TermInv' BY DEF tvars, TermInv
  <2>2. UNCHANGED lvars => LogInv' BY DEF lvars, log, LogInv, NothingSkipped
  <2>3. QED BY <2>1, <2>2, TermStep, LogStep DEF Next, vars
<1>3. QED BY <1>1, <1>2, PTL DEF Spec

\* When the loop ends because the program has, all that the program has ever
\* written is on the screen (container.rs 560-572).
THEOREM OutputCompleteSafe == Spec => []OutputComplete
<1>1. TermInv => OutputComplete BY DEF TermInv, OutputComplete
<1>2. QED BY <1>1, OutputInvariant, PTL

\* A follower prints every line between the length at which it began and its
\* position (main.rs 493-500, 1272-1285).
THEOREM NothingSkippedSafe == Spec => []NothingSkipped
<1>1. LogInv => NothingSkipped BY DEF LogInv
<1>2. QED BY <1>1, OutputInvariant, PTL
=============================================================================
