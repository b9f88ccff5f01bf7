---------------------------- MODULE MCXrayProtocol ----------------------------
(* Small instances of XrayProtocol: the bounds are in the configuration. *)
EXTENDS XrayProtocol
===============================================================================
