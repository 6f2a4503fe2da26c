------------------------- MODULE MCProjectProvisioning -------------------------
(* The provisioning of one project without the faults of MCComponents. *)
EXTENDS ProjectProvisioning

=============================================================================
