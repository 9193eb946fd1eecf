----------------------------- MODULE MCEventSync -----------------------------
(***************************************************************************)
(* Three runs on a slot: one that leaves something behind, one it disturbs *)
(* and one that may overtake both.  Each combination of events, each       *)
(* output mode, both ways to wait and both targets occur.                  *)
(***************************************************************************)
EXTENDS EventSync

With(attached, target, output, waitMode) ==
  [events |-> attached, target |-> target, output |-> output, waitMode |-> waitMode]

MCConfs ==
  {With({"wait", "signal"}, "own", "gpu_materialize_f32", "gpu_wait"),
   With({"wait", "signal"}, "own", "gpu_materialize_native", "cpu_wait"),
   With({"wait"}, "plan", "copy", "cpu_wait"),
   With({"signal"}, "plan", "gpu_materialize_f32", "gpu_wait"),
   With({}, "plan", "gpu_materialize_native", "gpu_wait"),
   With({}, "plan", "copy", "cpu_wait")}
=============================================================================
