----------------------------- MODULE MCSelfHost -----------------------------
(* Instances of SelfHost for TLC. *)
EXTENDS SelfHost, TLC
=============================================================================
