---- MODULE MCOutput ----
EXTENDS Output

\* The bounds of MCOutput.cfg: a program writes more than a PTY holds, and more is
\* typed than it holds; the log is emptied once.
====
