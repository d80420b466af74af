--------------------------- MODULE SecureSession ---------------------------
(***************************************************************************)
(* What the encrypted layer promises, without datagrams, workers or locks. *)
(* A client makes attempts, each a session of its own.  The server keys a  *)
(* session, then opens or refuses it.  A client is ready only in a session *)
(* the server has opened.  The server refuses only a client that gave up - *)
(* or, where noise can pass for a text, any session noise came in for: one *)
(* not yet open is then garbled, an open one revoked.                      *)
(* Sessions the server forgets are lost: of those nothing is promised.     *)
(***************************************************************************)
EXTENDS Naturals

CONSTANTS Client, MaxAttempt,
    Noise       \* noise can pass for a text

VARIABLES
    client,     \* "trying", "ready" or "failed"
    attempt,    \* the attempt each client is at
    server      \* what the server holds for each session

Session == Client \X (1..MaxAttempt)
Current(c) == <<c, attempt[c]>>

Init ==
    /\ client = [c \in Client |-> "trying"]
    /\ attempt = [c \in Client |-> 1]
    /\ server = [s \in Session |-> "none"]

Retry(c) ==
    /\ client[c] = "trying" /\ attempt[c] < MaxAttempt
    /\ attempt' = [attempt EXCEPT ![c] = @ + 1]
    /\ UNCHANGED <<client, server>>

GiveUp(c) ==
    /\ client[c] = "trying" /\ attempt[c] = MaxAttempt
    /\ client' = [client EXCEPT ![c] = "failed"]
    /\ UNCHANGED <<attempt, server>>

BecomeReady(c) ==
    /\ client[c] = "trying"
    /\ server[Current(c)] \in {"open", "revoked", "lost"}
    /\ client' = [client EXCEPT ![c] = "ready"]
    /\ UNCHANGED <<attempt, server>>

Agree(s) ==
    /\ server[s] = "none"
    /\ server' = [server EXCEPT ![s] = "keyed"]
    /\ UNCHANGED <<client, attempt>>

Open(s) ==
    /\ server[s] \in {"keyed", "refused", "garbled", "revoked"}
    /\ server' = [server EXCEPT ![s] = "open"]
    /\ UNCHANGED <<client, attempt>>

Refuse(s) ==
    /\ server[s] \in {"keyed", "open", "garbled", "revoked"}
    /\ client[s[1]] = "failed" /\ s = Current(s[1])
    /\ server' = [server EXCEPT ![s] = "refused"]
    /\ UNCHANGED <<client, attempt>>

Garble(s) ==
    /\ Noise
    /\ \/ server[s] = "keyed" /\ server' = [server EXCEPT ![s] = "garbled"]
       \/ server[s] = "open" /\ server' = [server EXCEPT ![s] = "revoked"]
    /\ UNCHANGED <<client, attempt>>

Lose == \E S \in SUBSET Session :
    /\ server' = [s \in Session |-> IF s \in S THEN "lost" ELSE server[s]]
    /\ UNCHANGED <<client, attempt>>

Next ==
    \/ \E c \in Client : Retry(c) \/ GiveUp(c) \/ BecomeReady(c)
    \/ \E s \in Session : Agree(s) \/ Open(s) \/ Refuse(s) \/ Garble(s)
    \/ Lose

Spec == Init /\ [][Next]_<<client, attempt, server>>
=============================================================================
