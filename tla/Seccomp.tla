------------------------------- MODULE Seccomp -------------------------------
(***************************************************************************)
(* apply_seccomp_filter of security.rs: the program for the kernel's        *)
(* packet filter that it builds from the table of blocked system calls, and *)
(* the kernel running that program on the calls of the container.           *)
(***************************************************************************)
EXTENDS Naturals, Sequences

CONSTANTS
  Blocked,   \* BLOCKED_SYSCALLS
  Syscalls   \* the numbers of all calls

\* The distance of a jump is a u8; a longer table needs another program.
ASSUME SeccompAssumption ==
  /\ Syscalls \subseteq Nat
  /\ Blocked \in Seq(Syscalls)
  /\ Len(Blocked) <= 255

num_blocked == Len(Blocked)

SockFilter(code, jt, jf, k) == [code |-> code, jt |-> jt, jf |-> jf, k |-> k]

\* Mutant: the distance is taken from the jump itself.
JumpShort(k) == (num_blocked - k - 1) % 256

\* `as u8`, with k counted from 0.
JumpToDeny(k) == (num_blocked - k) % 256

Last == num_blocked + 2

Filter ==
  [i \in 0..Last |->
     IF i = 0 THEN SockFilter("ld", 0, 0, 0)
     ELSE IF i <= num_blocked THEN SockFilter("jeq", JumpToDeny(i - 1), 0, Blocked[i])
     ELSE IF i = num_blocked + 1 THEN SockFilter("ret", 0, 0, "allow")
     ELSE SockFilter("ret", 0, 0, "eperm")]

VARIABLES
  mode,     \* of the process: "new", then "filtered", or "open" without a filter
  nr,       \* the call that it makes
  pc, acc,  \* of the filter's machine
  verdict   \* on the call: "none" while the filter runs

vars == <<mode, nr, pc, acc, verdict>>

Init ==
  /\ mode = "new"
  /\ nr \in Syscalls
  /\ pc = 0 /\ acc = 0
  /\ verdict = "none"

\* The kernel takes no program that jumps out of itself.
InRange == \A i \in 0..Last :
  /\ i + 1 + Filter[i].jt <= Last \/ Filter[i].code # "jeq"
  /\ i + 1 + Filter[i].jf <= Last \/ Filter[i].code # "jeq"

\* prctl and seccomp(2).  The caller ignores that they fail.
Installs ==
  /\ mode = "new"
  /\ mode' \in (IF InRange THEN {"filtered", "open"} ELSE {"open"})
  /\ UNCHANGED <<nr, pc, acc, verdict>>

At(code) == mode = "filtered" /\ verdict = "none" /\ Filter[pc].code = code

Loads ==
  /\ At("ld")
  /\ acc' = nr
  /\ pc' = pc + 1
  /\ UNCHANGED <<mode, nr, verdict>>

Jumps ==
  /\ At("jeq")
  /\ pc' = pc + 1 + (IF acc = Filter[pc].k THEN Filter[pc].jt ELSE Filter[pc].jf)
  /\ UNCHANGED <<mode, nr, acc, verdict>>

Returns ==
  /\ At("ret")
  /\ verdict' = Filter[pc].k
  /\ UNCHANGED <<mode, nr, pc, acc>>

Unfiltered ==
  /\ mode = "open" /\ verdict = "none"
  /\ verdict' = "allow"
  /\ UNCHANGED <<mode, nr, pc, acc>>

\* The program makes another call.
Calls ==
  /\ verdict # "none"
  /\ nr' \in Syscalls
  /\ pc' = 0 /\ acc' = 0
  /\ verdict' = "none"
  /\ UNCHANGED mode

Next == Installs \/ Loads \/ Jumps \/ Returns \/ Unfiltered \/ Calls

Spec == Init /\ [][Next]_vars

-----------------------------------------------------------------------------
\* A process under the filter is refused the calls of the table, each of them,
\* and no other call: every jump, whatever its place in the table, leads to the
\* one instruction that denies, and no entry is passed by (security.rs 323-347).
FilterExact ==
  mode = "filtered" /\ verdict # "none" =>
    (verdict = "eperm" <=> \E k \in 1..num_blocked : Blocked[k] = nr)
====
