------------------------------ MODULE MCCalls ------------------------------
(* A small instance of Calls for TLC.                                      *)
EXTENDS Calls

CONSTANTS c1, c2, t1, w1

Pair == {c1, c2}
OneTunnel == {t1}
OneWorker == {w1}

\* One opens the tunnel and sends, every request twice; the other sends once.
TwiceAndOnce == [c \in Pair |-> IF c = c1 THEN 2 ELSE 1]
WriterAndReader ==
    [c \in Pair |-> {"send", "recv"}
        \cup (IF c = c1 THEN {"create", "close"} ELSE {"connect", "exist"})]

\* The message of c1's third call has no bytes.
BlankOne == {m \in Payload : m.from = c1 /\ m.n = 3}
=============================================================================
