---------------------------- MODULE MCLinearHook ----------------------------
(***************************************************************************)
(* Two callers, of whom one calls twice.  Without an executor they meet    *)
(* three sessions; with one they have layers and a budget of one           *)
(* model.  The first layer of the dynamic executor is not aligned.         *)
(***************************************************************************)
EXTENDS LinearHook, TLC

CONSTANTS c1, c2, s1, s2, s3, s4

Layer(in, w) == [batch |-> 2, inDim |-> in, outDim |-> 4, weights |-> w]
Router(cache) ==
  [minSpatial |-> 2, channelMultiple |-> 2, maxCache |-> cache, coldMin |-> 0, warmMin |-> 0]
NoRuntime == [executor |-> "none", router |-> None, trainingRouter |-> None, fallback |-> TRUE,
              layers |-> {Layer(4, 1)}]
Dynamic == [executor |-> "dynamic", router |-> Router(1), trainingRouter |-> None,
            fallback |-> TRUE, layers |-> {Layer(3, 1), Layer(8, 2)}]
Static == [executor |-> "static", router |-> Router(1), trainingRouter |-> Router(1),
           fallback |-> FALSE, layers |-> {Layer(4, 1), Layer(4, 2), Layer(8, 3)}]
Free == [Dynamic EXCEPT !.router = None, !.layers = {Layer(3, 1)}]

MCConfs == {NoRuntime, Dynamic, Static, Free}
MCPlans == {<<NoRuntime, {s1, s2, s3}, TRUE>>, <<NoRuntime, {s1, s2}, FALSE>>,
            <<Dynamic, {s3}, FALSE>>, <<Static, {s1}, FALSE>>, <<Free, {s4}, FALSE>>}
MCFaultSets == {Fault}
MCModeOf == (s1 :> "training") @@ (s2 :> None) @@ (s3 :> "inference") @@ (s4 :> None)
MCMaxCalls == (c1 :> 2) @@ (c2 :> 1)
=============================================================================
