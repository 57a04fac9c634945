--------------------------- MODULE MCProvisioning ---------------------------
(* Two provisioners, a declared queue with a policy and one that is not     *)
(* declared, with two of the five tables.                                   *)
EXTENDS Provisioning, TLC

MCProvisioner == {"p1", "p2"}
MCQueue == {"mail", "extra"}
MCPart == {"t", "r"}
MCDeclared == <<"mail">>
=============================================================================
