-------------------------- MODULE MCStageDispatch --------------------------
(***************************************************************************)
(* Two callers, a shared expert and two experts the router picks in either *)
(* order, pools of one or two slots.                                       *)
(***************************************************************************)
EXTENDS StageDispatch, TLC

CONSTANTS c1, c2, shared, e1, e2

MCCaller == {c1, c2}
MCStage == {shared, e1, e2}
MCOrder == {<<shared, e1, e2>>, <<shared, e2, e1>>}
MCOneCall == (c1 :> 1) @@ (c2 :> 1)
MCTwoCalls == (c1 :> 2) @@ (c2 :> 1)

\* After most of these faults dispatchPreparedStages gives everything back, but not after
\* <<"eval", 2>> and <<"output", 2>>.
MCFaults ==
  {<<"build", 2>>, <<"sync", 3>>, <<"prepare", 3>>, <<"finalize", 1>>,
   <<"eval", 1>>, <<"eval", 2>>, <<"output", 2>>, <<"output", 3>>, <<"combine", 1>>}

=============================================================================
