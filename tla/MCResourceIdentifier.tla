----------------------- MODULE MCResourceIdentifier -----------------------
(* Limits on both sides of 15 and 17; names shorter and longer than any share *)
(* the limits leave them.                                                     *)
EXTENDS ResourceIdentifier

MCLimits == 11..24
MCLengths == 0..12
=============================================================================
