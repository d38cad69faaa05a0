----------------------------- MODULE MCExports ------------------------------
(* A small instance of the export sync: two projects that may both build a *)
(* tool of the CLI's name, one of which the registry may declare as well,  *)
(* and a name that only somebody else uses.                                *)
EXTENDS ExportSync

CONSTANTS p1, p2, tool, delight

MCKnown == <<p1, p2>>
MCBuilt == {<<p1, delight>>, <<p2, delight>>}
MCRegistered == {<<p1, delight>>}
MCOthers == {<<tool, OwnWorkLink>>, <<delight, OwnLink>>}
=============================================================================
