---------------------------- MODULE MCLogDelivery ----------------------------
(* Two containers that log two records each to one stream, which is deleted   *)
(* once; one answer is lost, or comes too late.                                *)
EXTENDS LogDelivery
=============================================================================
