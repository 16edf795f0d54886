---------------------------- MODULE SeccompProofs ----------------------------
(***************************************************************************)
(* FilterExact for every table that a u8 can jump over.                     *)
(***************************************************************************)
EXTENDS Seccomp, TLAPS

\* The machine is inside its program; behind the load it has the call in its
\* accumulator; every entry before pc was another call; and it is at the
\* instruction that denies only by a match.
MachineInv ==
  /\ nr \in Syscalls
  /\ pc \in 0..Last
  /\ pc > 0 => acc = nr
  /\ pc \in 1..(num_blocked + 1) => \A j \in 1..num_blocked : j < pc => Blocked[j] # nr
  /\ pc = Last => \E j \in 1..num_blocked : Blocked[j] = nr

FilterInv ==
  mode = "filtered" =>
    IF verdict = "none" THEN MachineInv
    ELSE verdict = "eperm" <=> \E k \in 1..num_blocked : Blocked[k] = nr

\* Before the filter is there nothing has run.
StartInv == mode = "new" => pc = 0 /\ verdict = "none" /\ nr \in Syscalls

\* A table has a length, and a jump from its k-th entry, counted from 0, is as long
\* as it was computed: none is cut to eight bits (security.rs 324).
LEMMA TableLength == num_blocked \in Nat /\ num_blocked <= 255
  BY SeccompAssumption DEF num_blocked

LEMMA JumpUncut ==
  ASSUME NEW k \in Nat, k < num_blocked
  PROVE  JumpToDeny(k) = num_blocked - k
  BY TableLength DEF JumpToDeny

\* What the instructions are.
LEMMA FilterIs ==
  /\ Filter[0].code = "ld"
  /\ \A i \in 1..num_blocked :
       /\ Filter[i].code = "jeq"
       /\ Filter[i].k = Blocked[i]
       /\ i + 1 + Filter[i].jt = Last
       /\ Filter[i].jf = 0
  /\ Filter[num_blocked + 1].code = "ret" /\ Filter[num_blocked + 1].k = "allow"
  /\ Filter[Last].code = "ret" /\ Filter[Last].k = "eperm"
<1>1. num_blocked \in Nat BY TableLength
<1>2. ASSUME NEW i \in 1..num_blocked
      PROVE  /\ Filter[i] = SockFilter("jeq", JumpToDeny(i - 1), 0, Blocked[i])
             /\ JumpToDeny(i - 1) = num_blocked - (i - 1)
  <2>1. i \in 0..Last /\ i # 0 /\ i <= num_blocked BY <1>1, <1>2 DEF Last
  <2>2. Filter[i] = SockFilter("jeq", JumpToDeny(i - 1), 0, Blocked[i])
    BY <2>1 DEF Filter
  <2>3. i - 1 \in Nat /\ i - 1 < num_blocked BY <1>1, <1>2
  <2>4. QED BY <2>2, <2>3, JumpUncut
<1>3. ASSUME NEW i \in 1..num_blocked
      PROVE  /\ Filter[i].code = "jeq"
             /\ Filter[i].k = Blocked[i]
             /\ i + 1 + Filter[i].jt = Last
             /\ Filter[i].jf = 0
  <2>0. /\ Filter[i] = SockFilter("jeq", JumpToDeny(i - 1), 0, Blocked[i])
        /\ JumpToDeny(i - 1) = num_blocked - (i - 1)
    BY <1>2, <1>3
  <2>1. Filter[i].jt = num_blocked - (i - 1) BY <2>0 DEF SockFilter
  <2>2. i + 1 + Filter[i].jt = Last BY <1>1, <1>3, <2>1 DEF Last
  <2>3. QED BY <2>0, <2>2 DEF SockFilter
<1>4. Filter[0].code = "ld"
  BY <1>1 DEF Filter, Last, SockFilter
<1>5. Filter[num_blocked + 1] = SockFilter("ret", 0, 0, "allow")
  <2>1. /\ num_blocked + 1 \in 0..Last /\ num_blocked + 1 # 0
        /\ ~(num_blocked + 1 <= num_blocked)
    BY <1>1 DEF Last
  <2>2. QED BY <2>1 DEF Filter
<1>6. Filter[Last] = SockFilter("ret", 0, 0, "eperm")
  <2>1. /\ Last \in 0..Last /\ Last # 0
        /\ ~(Last <= num_blocked) /\ Last # num_blocked + 1
    BY <1>1 DEF Last
  <2>2. QED BY <2>1 DEF Filter
<1>7. QED BY <1>3, <1>4, <1>5, <1>6 DEF SockFilter

\* Under the filter no step leaves the invariant.
LEMMA FilterStep == StartInv /\ FilterInv /\ [Next]_vars => StartInv' /\ FilterInv'
<1> SUFFICES ASSUME StartInv, FilterInv, [Next]_vars PROVE StartInv' /\ FilterInv'
  OBVIOUS
<1>0. num_blocked \in Nat BY TableLength
<1>1. CASE Installs
  <2>1. mode = "new" /\ pc = 0 /\ verdict = "none" /\ nr \in Syscalls
    BY <1>1 DEF Installs, StartInv
  <2>2. mode' # "new" /\ UNCHANGED <<nr, pc, acc, verdict>> BY <1>1 DEF Installs
  <2>3. MachineInv' BY <1>0, <2>1, <2>2 DEF MachineInv, Last, num_blocked
  <2>4. QED BY <2>1, <2>2, <2>3 DEF StartInv, FilterInv
<1>2. CASE Loads
  <2>1. mode = "filtered" /\ verdict = "none" /\ MachineInv
    BY <1>2 DEF Loads, At, FilterInv
  <2>2. pc = 0
    <3>1. pc \in 1..num_blocked => Filter[pc].code = "jeq" BY FilterIs
    <3>2. pc = num_blocked + 1 \/ pc = Last => Filter[pc].code = "ret" BY FilterIs
    <3>3. Filter[pc].code = "ld" BY <1>2 DEF Loads, At
    <3>4. QED BY <1>0, <2>1, <3>1, <3>2, <3>3 DEF MachineInv, Last
  <2>3. pc' = 1 /\ acc' = nr /\ UNCHANGED <<mode, nr, verdict>> BY <1>2, <2>2 DEF Loads
  <2>4. MachineInv' BY <1>0, <2>1, <2>3 DEF MachineInv, Last, num_blocked
  <2>5. QED BY <2>1, <2>3, <2>4 DEF StartInv, FilterInv
<1>3. CASE Jumps
  <2>1. mode = "filtered" /\ verdict = "none" /\ MachineInv
    BY <1>3 DEF Jumps, At, FilterInv
  <2>2. UNCHANGED <<mode, nr, acc, verdict>> BY <1>3 DEF Jumps
  <2>3. pc \in 1..num_blocked
    <3>1. pc = 0 => Filter[pc].code = "ld" BY FilterIs
    <3>2. pc = num_blocked + 1 \/ pc = Last => Filter[pc].code = "ret" BY FilterIs
    <3>3. Filter[pc].code = "jeq" BY <1>3 DEF Jumps, At
    <3>4. QED BY <1>0, <2>1, <3>1, <3>2, <3>3 DEF MachineInv, Last
  <2>4. acc = nr BY <1>0, <2>1, <2>3 DEF MachineInv
  <2>5. /\ Filter[pc].k = Blocked[pc]
        /\ pc + 1 + Filter[pc].jt = Last
        /\ Filter[pc].jf = 0
    BY <2>3, FilterIs
  <2>6. MachineInv'
    <3>1. CASE nr = Blocked[pc]
      <4>1. pc' = Last BY <1>3, <2>4, <2>5, <3>1 DEF Jumps
      <4>2. QED BY <1>0, <2>1, <2>2, <2>3, <2>4, <3>1, <4>1 DEF MachineInv, Last, num_blocked
    <3>2. CASE nr # Blocked[pc]
      <4>1. pc' = pc + 1 BY <1>0, <1>3, <2>3, <2>4, <2>5, <3>2 DEF Jumps
      <4>2. QED BY <1>0, <2>1, <2>2, <2>3, <2>4, <3>2, <4>1 DEF MachineInv, Last, num_blocked
    <3>3. QED BY <3>1, <3>2
  <2>7. QED BY <2>1, <2>2, <2>6 DEF StartInv, FilterInv
<1>4. CASE Returns
  <2>1. mode = "filtered" /\ verdict = "none" /\ MachineInv
    BY <1>4 DEF Returns, At, FilterInv
  <2>2. UNCHANGED <<mode, nr, pc, acc>> BY <1>4 DEF Returns
  <2>3. pc = num_blocked + 1 \/ pc = Last
    <3>1. pc = 0 => Filter[pc].code = "ld" BY FilterIs
    <3>2. pc \in 1..num_blocked => Filter[pc].code = "jeq" BY FilterIs
    <3>3. Filter[pc].code = "ret" BY <1>4 DEF Returns, At
    <3>4. QED BY <1>0, <2>1, <3>1, <3>2, <3>3 DEF MachineInv, Last
  <2>4. CASE pc = num_blocked + 1
    <3>1. verdict' = "allow" BY <1>4, <2>4, FilterIs DEF Returns
    <3>2. \A j \in 1..num_blocked : Blocked[j] # nr BY <1>0, <2>1, <2>4 DEF MachineInv
    <3>3. QED BY <2>1, <2>2, <3>1, <3>2 DEF StartInv, FilterInv, num_blocked
  <2>5. CASE pc = Last
    <3>1. verdict' = "eperm" BY <1>4, <2>5, FilterIs DEF Returns
    <3>2. \E j \in 1..num_blocked : Blocked[j] = nr BY <2>1, <2>5 DEF MachineInv
    <3>3. QED BY <2>1, <2>2, <3>1, <3>2 DEF StartInv, FilterInv, num_blocked
  <2>6. QED BY <2>3, <2>4, <2>5
<1>5. CASE Unfiltered
  BY <1>5 DEF Unfiltered, StartInv, FilterInv
<1>6. CASE Calls
  <2>1. /\ nr' \in Syscalls /\ pc' = 0 /\ acc' = 0
        /\ verdict' = "none" /\ mode' = mode
    BY <1>6 DEF Calls
  <2>2. MachineInv' BY <1>0, <2>1 DEF MachineInv, Last, num_blocked
  <2>3. QED BY <2>1, <2>2 DEF StartInv, FilterInv
<1>7. CASE UNCHANGED vars
  BY <1>7 DEF vars, StartInv, FilterInv, MachineInv, num_blocked, Last
<1>8. QED BY <1>1, <1>2, <1>3, <1>4, <1>5, <1>6, <1>7 DEF Next

\* A process under the filter is refused the calls of the table and no other,
\* for every table of at most 255 calls (security.rs 288-350).
THEOREM FilterExactSafe == Spec => []FilterExact
<1>1. Init => StartInv /\ FilterInv
  BY DEF Init, StartInv, FilterInv
<1>2. StartInv /\ FilterInv => FilterExact
  BY DEF FilterInv, FilterExact
<1>3. QED BY <1>1, <1>2, FilterStep, PTL DEF Spec
====
