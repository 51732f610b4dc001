--------------------------- MODULE MCToolApproval ---------------------------
(***************************************************************************)
(* Instances of ToolApproval for TLC.                                      *)
(***************************************************************************)
EXTENDS ToolApproval, TLC

CONSTANTS c1, c2, c3, r1, r2

\* two calls of one run, one after the other, and one of another run beside them
ThreeCalls == (c1 :> r1) @@ (c2 :> r1) @@ (c3 :> r2)
=============================================================================
