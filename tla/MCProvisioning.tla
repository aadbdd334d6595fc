--------------------------- MODULE MCProvisioning ---------------------------
(***************************************************************************)
(* Instances of Provisioning for TLC.                                      *)
(***************************************************************************)
EXTENDS Provisioning

F(role, pairing, expected, site) ==
  [role |-> role, pairing |-> pairing, expected |-> expected, site |-> site]
H(mac, id, site, expected) == [mac |-> mac, id |-> id, site |-> site, expected |-> expected]

(* The roles with partners; between them they use every connection.        *)
PartnerForms ==
  {F("member", 1, 1, "kept"), F("gateway", 1, 1, "kept"), F("combined", 1, 1, "kept")}
CoordinatorForms == {F("combined", 1, 1, "kept")}

(* The member's board is replaced (c), and there is a second coordinator.  *)
Partners ==
  {H("a", 1, "own", 1), H("c", 1, "own", 1), H("m", 0, "master", 1), H("n", 0, "next", 1)}
=============================================================================
