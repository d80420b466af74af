----------------------------- MODULE MCTunnels -----------------------------
(* Small instances of Tunnels for TLC.                                     *)
EXTENDS Tunnels, TLC

CONSTANTS c1, c2, c3, t1, w1, w2, m1, m2

TwoClients == {c1, c2}
ThreeClients == {c1, c2, c3}
OneTunnel == {t1}
OneWorker == {w1}
TwoWorkers == {w1, w2}
TwoMessages == {m1, m2}
=============================================================================
