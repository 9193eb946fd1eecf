--------------------------- MODULE MCStageCache ----------------------------
(***************************************************************************)
(* Three callers race for a dense layer and an expert.                     *)
(***************************************************************************)
EXTENDS StageCache, TLC

CONSTANTS c1, c2, c3, dense, expert

MCCaller == {c1, c2, c3}
MCKey == {dense, expert}
MCExpert == {expert}
MCCallLimit == (c1 :> 2) @@ (c2 :> 2) @@ (c3 :> 1)
=============================================================================
