------------------------------- MODULE MCExtMcp -------------------------------
(* Two calls of one operation, one of another, one without an operation context. *)
EXTENDS ExtMcp, TLC

CONSTANTS first, second, other, stray, op1, op2, echo, fetch

MCOpOf  == first :> op1 @@ second :> op1 @@ other :> op2 @@ stray :> None
MCAbout == first :> echo @@ second :> fetch @@ other :> echo @@ stray :> echo
==============================================================================
