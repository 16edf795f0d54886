---- MODULE MCContainer ----
EXTENDS Container, TLC

Cfg(p, m, n, rl, t, rm) ==
  [policy |-> p, max |-> m, net |-> n, rootless |-> rl, tty |-> t, autoRemove |-> rm]
MCConfigs == {
  Cfg("no", 0, "bridge", FALSE, FALSE, TRUE),
  Cfg("no", 0, "named", FALSE, FALSE, FALSE),
  Cfg("no", 0, "none", TRUE, FALSE, FALSE),
  Cfg("on-failure", 1, "bridge", FALSE, FALSE, FALSE),
  Cfg("on-failure", 0, "host", FALSE, FALSE, FALSE),
  Cfg("always", 0, "named", FALSE, FALSE, FALSE),
  Cfg("no", 0, "bridge", FALSE, TRUE, FALSE),
  Cfg("always", 0, "none", FALSE, TRUE, FALSE)}
NonTtyConfigs == {k \in MCConfigs : ~k.tty}
CommandConfigs == {
  Cfg("no", 0, "bridge", FALSE, FALSE, TRUE),
  Cfg("no", 0, "named", FALSE, FALSE, FALSE),
  Cfg("no", 0, "none", TRUE, FALSE, FALSE),
  Cfg("on-failure", 1, "bridge", FALSE, FALSE, FALSE),
  Cfg("no", 0, "bridge", FALSE, TRUE, FALSE)}
RaceConfigs == {
  Cfg("no", 0, "bridge", FALSE, FALSE, TRUE),
  Cfg("on-failure", 1, "bridge", FALSE, FALSE, FALSE),
  Cfg("always", 0, "named", FALSE, FALSE, FALSE)}
MCExitCodes == {0, 1}
CmdSymmetry == Permutations(Cmds)
====
