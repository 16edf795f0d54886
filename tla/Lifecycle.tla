------------------------------ MODULE Lifecycle ------------------------------
(***************************************************************************)
(* What a container promises to somebody who only reads its record: the    *)
(* abstract specification of run_with_tty (container.rs) when nobody else  *)
(* acts on the container.  Its status goes from absent through created and *)
(* running to stopped and never back; programs run one after the other, as *)
(* often as the restart policy allows; and the exit code that is published *)
(* is the one of the last of them.  Publishing a status may fail, and then *)
(* the record is lost.                                                     *)
(***************************************************************************)
EXTENDS Naturals

CONSTANTS Codes, None

VARIABLES
  policy,  \* "no", "always" or "on-failure"
  max,     \* the maximum of on-failure, 0 if there is none
  status,  \* the published status
  exit,    \* the published exit code
  runs,    \* programs started so far
  live,    \* one is alive
  last     \* how the last one ended

vars == <<policy, max, status, exit, runs, live, last>>

Init ==
  /\ policy \in {"no", "always", "on-failure"}
  /\ max \in Nat
  /\ status = "absent"
  /\ exit = None
  /\ runs = 0
  /\ live = FALSE
  /\ last = None

\* Whether the policy asks for another program after the last one.
Again ==
  \/ policy = "always"
  \/ /\ policy = "on-failure"
     /\ last # 0
     /\ max = 0 \/ runs <= max

PublishCreated ==
  /\ status = "absent"
  /\ status' = "created"
  /\ UNCHANGED <<policy, max, exit, runs, live, last>>

Launch ==
  /\ status \in {"created", "running"}
  /\ ~live
  /\ runs > 0 => Again
  /\ live' = TRUE
  /\ runs' = runs + 1
  /\ last' = None
  /\ UNCHANGED <<policy, max, status, exit>>

Die ==
  /\ live
  /\ live' = FALSE
  /\ last' \in Codes
  /\ UNCHANGED <<policy, max, status, exit, runs>>

PublishRunning ==
  /\ status \in {"created", "running"}
  /\ runs > 0
  /\ status' = "running"
  /\ UNCHANGED <<policy, max, exit, runs, live, last>>

PublishStopped ==
  /\ status = "running"
  /\ ~live
  /\ ~Again
  /\ status' = "stopped"
  /\ exit' = last
  /\ UNCHANGED <<policy, max, runs, live, last>>

\* --rm
Withdraw ==
  /\ status = "stopped"
  /\ status' = "removed"
  /\ exit' = None
  /\ UNCHANGED <<policy, max, runs, live, last>>

Lose ==
  /\ status \in {"absent", "created", "running"}
  /\ status' = "lost"
  /\ UNCHANGED <<policy, max, exit, runs, live, last>>

Next == \/ PublishCreated \/ Launch \/ Die \/ PublishRunning
        \/ PublishStopped \/ Withdraw \/ Lose

Spec == Init /\ [][Next]_vars
=============================================================================
