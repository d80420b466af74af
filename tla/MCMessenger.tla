---------------------------- MODULE MCMessenger ----------------------------
(* Two messengers that enter each other's tunnel uid.                      *)
EXTENDS Messenger, TLC

CONSTANTS c1, c2, t1, t2, w1

Pair == {c1, c2}
OwnTunnel == c1 :> t1 @@ c2 :> t2
OtherOne == c1 :> c2 @@ c2 :> c1
TwoTunnels == {t1, t2}
OneWorker == {w1}
=============================================================================
