---------------------------- MODULE MCRawServer ----------------------------
(* A small instance of RawServer for TLC: workers, datagrams.              *)
EXTENDS RawServer

CONSTANTS w1, w2, w3, d1, d2

ThreeWorkers == {w1, w2, w3}
TwoDatagrams == {d1, d2}
=============================================================================
