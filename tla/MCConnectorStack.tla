-------------------------- MODULE MCConnectorStack --------------------------
(* ConnectorStack for TLC: two ways to write one https address, another host,
   plain http, a host that is no server name, and a scheme that is neither. *)
EXTENDS ConnectorStack

MCUris ==
  {[scheme |-> "https", host |-> "a", port |-> None],
   [scheme |-> "https", host |-> "a", port |-> 443],
   [scheme |-> "https", host |-> "b", port |-> None],
   [scheme |-> "http",  host |-> "a", port |-> None],
   [scheme |-> "https", host |-> "-", port |-> None],
   [scheme |-> "other", host |-> "-", port |-> None]}

MCKeys == {[host |-> h, port |-> 443, sn |-> h] : h \in {"a", "b"}}
=============================================================================
