------------------------ MODULE MCHyperH2Connector ------------------------
(* HyperH2Connector for TLC. *)
EXTENDS HyperH2Connector
=============================================================================
