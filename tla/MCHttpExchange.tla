--------------------------- MODULE MCHttpExchange ---------------------------
(* HttpExchange for TLC. *)
EXTENDS HttpExchange
=============================================================================
