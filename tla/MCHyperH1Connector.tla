------------------------ MODULE MCHyperH1Connector ------------------------
(* HyperH1Connector for TLC. *)
EXTENDS HyperH1Connector
=============================================================================
