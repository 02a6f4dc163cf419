--------------------------- MODULE MCDialogClaims ----------------------------
(* Instances of Dialog on which its documentation is refuted. *)
EXTENDS DialogClaims, MCDialog

==============================================================================
