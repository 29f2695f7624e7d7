-------------------------- MODULE MCHttpConnector --------------------------
(* HttpConnector for TLC. *)
EXTENDS HttpConnector
=============================================================================
