---------------------------- MODULE MCDirectSpan ----------------------------
(***************************************************************************)
(* Two generations on a model of three layers, the first two of which run  *)
(* as a direct block that keeps three rows per layer.                      *)
(***************************************************************************)
EXTENDS DirectSpan, TLC

CONSTANTS q1, q2

MCSequence == {q1, q2}
MCTokenLimit == (q1 :> 4) @@ (q2 :> 2)

MCFaultSets == {Early, Late}
=============================================================================
