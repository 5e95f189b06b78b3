----------------------------- MODULE MCCodegen -----------------------------
(* Two targets and two distributions, of which a project may want any, and two *)
(* edits.                                                                      *)
EXTENDS Codegen
=============================================================================
