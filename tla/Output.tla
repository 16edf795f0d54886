------------------------------- MODULE Output -------------------------------
(***************************************************************************)
(* Where the output of a program goes: to the terminal, by a PTY, or to the *)
(* log of a detached container.                                             *)
(***************************************************************************)
EXTENDS Terminal, Logs

VARIABLE detached   \* -d, without -t

vars == <<tvars, lvars, detached>>

Init == TermInit /\ LogInit /\ detached \in BOOLEAN

Next ==
  /\ UNCHANGED detached
  /\ \/ ~detached /\ TermNext /\ UNCHANGED lvars
     \/ detached /\ LogNext /\ UNCHANGED tvars

\* The supervisor in its loop, and each follower, are threads that the system
\* keeps running; programs and people do what they like.
Fairness ==
  /\ WF_vars(~detached /\ Forwards /\ UNCHANGED <<lvars, detached>>)
  /\ \A p \in Followers : WF_vars(detached /\ Follows(p) /\ UNCHANGED <<tvars, detached>>)

Spec == Init /\ [][Next]_vars

FairSpec == Spec /\ Fairness

\* Output arrives, on either way (TermShown, LogShown).
Shown == TermShown /\ LogShown
====
