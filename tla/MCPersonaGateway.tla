-------------------------- MODULE MCPersonaGateway --------------------------
(* Model checking of PersonaGateway: two rooms. *)
EXTENDS PersonaGateway

CONSTANTS c1, c2

MCChannel == {c1, c2}
MCPolicies == {"judgment"}
Mentioned == {"mentioned"}
OneRoom == {c1}
=============================================================================
