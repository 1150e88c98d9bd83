---------------------------- MODULE MCHttpServer -----------------------------
(* Instances of HttpServer for TLC. *)
EXTENDS HttpServer

CONSTANTS r1, r2

MCClientOf == [r \in Requests |-> "client"]

\* Two calls, also under one id, or notifications only; and a single call.
MCBatches == [r \in Requests |-> IF r = r1 THEN {<<1, 2>>, <<1, 1>>, <<>>} ELSE {<<1>>}]
=============================================================================
