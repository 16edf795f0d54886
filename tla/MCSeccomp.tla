---- MODULE MCSeccomp ----
EXTENDS Seccomp

\* The table of the code, and every number that x86_64 gives to a call.
MCBlocked == <<246, 320, 169, 167, 168, 175, 313, 176, 163, 227, 305, 164, 159, 170, 171>>
MCSyscalls == 0..334
====
