-------------------------- MODULE MCHttp1Exchange --------------------------
(* Http1Exchange for TLC. *)
EXTENDS Http1Exchange
=============================================================================
