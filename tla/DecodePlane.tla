---------------------------- MODULE DecodePlane ----------------------------
(***************************************************************************)
(* The decode plane (decode/plane.go and layerForward in dispatch.go):     *)
(* which of the wrapped model, the ANE stages, the direct blocks and the   *)
(* GPU computes each layer of a token, and how an ANE failure takes the    *)
(* plane or a span out of use while other callers are in the middle of     *)
(* their passes.  Prewarm runs next to them.                               *)
(*                                                                         *)
(* Below this level: StageCache (a stage is built once, here in one step), *)
(* SlotPool and StageDispatch (a dispatch succeeds or fails, here in one   *)
(* step) and DirectSpan (the step of a block).                             *)
(***************************************************************************)
EXTENDS SpanSelection, Sequences

CONSTANTS
  Caller,      \* goroutines that call the plane
  NumLayers,   \* layers of the model
  Setups,      \* the configurations of plane and model to start from
  CallLimit,   \* bound: single-token passes of each caller
  None         \* no caller

Layer == 0..(NumLayers - 1)

\* fast: what the dense stages support besides the standard path.  caps: the optional
\* interfaces of the model, embeddingForwarder, mlpForwarder and moeRouter.
Setup ==
  [kind : [Layer -> Kind], rule : Rule, allowed : SUBSET Layer, gpu : BOOLEAN,
   fast : SUBSET {"compiled", "fused", "residual"},
   caps : SUBSET {"embeddings", "mlp", "router"}, faults : SUBSET STRING]

ASSUME PlaneAssumption ==
  /\ None \notin Caller
  /\ NumLayers \in Nat \ {0}
  /\ CallLimit \in [Caller -> Nat]
  /\ Setups \subseteq Setup

VARIABLES
  setup, spans,          \* the configuration; Plane.directSpans
  disabled, disableErr,  \* under Plane.mu; the error is named by who ran into it
  fallbacks,             \* domain of directFallbacks, under Plane.mu
  stat,                  \* Disabled, DisableReason, DirectBlockFallbacks, under statsMu
  warnings,              \* what warnOnce has reported
  stage, experts, block, \* "none", "ok" or "err": built stages of a layer, of a span
  pc, layer,             \* where each caller is, and its layer
  hooked,                \* the pass has a hook
  done,                  \* the layers applied to h in this pass, in order
  result,                \* what the last pass returned
  calls,                 \* passes begun
  late,                  \* passes and layers that met a stage after the plane was disabled
  prewarm                \* Prewarm: where it is, and its layer

planeVars == <<disabled, disableErr, fallbacks, stat, warnings>>
builtVars == <<stage, experts, block>>
passVars == <<pc, layer, hooked, done, result, calls, late>>
vars == <<setup, spans, planeVars, builtVars, passVars, prewarm>>

Built == {"none", "ok", "err"}
PC == {"idle", "enter", "loop", "block", "marking", "marked", "attend", "stage",
       "compiled", "fused", "residual", "standard", "experts", "moe", "disable",
       "count", "countfirst", "warn", "fallback", "mlp", "apply"}

TypeOK ==
  /\ setup \in Setups
  /\ DOMAIN spans \subseteq Layer /\ \A i \in DOMAIN spans : spans[i] \in Layer
  /\ disabled \in BOOLEAN /\ disableErr \in Caller \cup {None}
  /\ fallbacks \subseteq Layer
  /\ stat \in [disabled : BOOLEAN, reason : Caller \cup {None}, fallbacks : Nat]
  /\ warnings \in Seq(Caller)
  /\ stage \in [Layer -> Built] /\ experts \in [Layer -> Built] /\ block \in [Layer -> Built]
  /\ pc \in [Caller -> PC]
  /\ layer \in [Caller -> 0..NumLayers]
  /\ hooked \in [Caller -> BOOLEAN]
  /\ done \in [Caller -> Seq(Layer)]
  /\ result \in [Caller -> {"none", "ok", "error"}]
  /\ calls \in [Caller -> Nat]
  /\ late \in [Caller -> SUBSET (Nat \X Layer)]
  /\ prewarm \in [at : {"no", "layer", "block", "marking", "marked", "stage", "ok", "error"},
                  layer : 0..NumLayers]

\* Wrap.  In gpu_fallback mode it returns before any span is selected.
Init ==
  /\ setup \in Setups
  /\ spans = IF setup.gpu THEN << >>
             ELSE SelectSpans(NumLayers, DenseOffsets(setup.kind), setup.rule, setup.allowed)
  /\ disabled = FALSE /\ disableErr = None
  /\ fallbacks = {}
  /\ stat = [disabled |-> FALSE, reason |-> None, fallbacks |-> 0]
  /\ warnings = << >>
  /\ stage = [i \in Layer |-> "none"]
  /\ experts = [i \in Layer |-> "none"]
  /\ block = [i \in Layer |-> "none"]
  /\ pc = [c \in Caller |-> "idle"]
  /\ layer = [c \in Caller |-> 0]
  /\ hooked = [c \in Caller |-> FALSE]
  /\ done = [c \in Caller |-> << >>]
  /\ result = [c \in Caller |-> "none"]
  /\ calls = [c \in Caller |-> 0]
  /\ late = [c \in Caller |-> {}]
  /\ prewarm = [at |-> "no", layer |-> 0]

-----------------------------------------------------------------------------
CanFail(step) == step \in setup.faults
Can(interface) == interface \in setup.caps
IsMoE(i) == setup.kind[i] = "moe"

At(c, place) == pc[c] = place
Goto(c, place) == pc' = [pc EXCEPT ![c] = place]
All == [i \in 1..NumLayers |-> i - 1]

Answer(c, r) ==
  /\ Goto(c, "idle")
  /\ result' = [result EXCEPT ![c] = r]

\* The pass stops with an error.
Fail(c) ==
  /\ Answer(c, "error")
  /\ UNCHANGED <<setup, spans, planeVars, builtVars, layer, hooked, done, calls, late, prewarm>>

\* A stage or block is asked for; StageCache: the first request builds it, and the
\* outcome is kept.
Ask(built, built_, i, step, outcome) ==
  IF built[i] = "none"
  THEN /\ outcome \in {"ok"} \cup (IF CanFail(step) THEN {"err"} ELSE {})
       /\ built_ = [built EXCEPT ![i] = outcome]
  ELSE outcome = built[i] /\ built_ = built

\* The wrapped model does the whole pass.
Delegated(c) ==
  /\ done' = [done EXCEPT ![c] = All]
  /\ Answer(c, "ok")

Begun(c) ==
  /\ At(c, "idle")
  /\ calls[c] < CallLimit[c]
  /\ calls' = [calls EXCEPT ![c] = @ + 1]

Elsewhere == <<setup, spans, planeVars, builtVars, late, prewarm>>

\* Forward on a disabled plane delegates to the base model.
ForwardBase(c) ==
  /\ Begun(c)
  /\ disabled /\ ~setup.gpu
  /\ Delegated(c)
  /\ UNCHANGED <<Elsewhere, layer, hooked>>

\* Forward of one token on an enabled plane, or ForwardDecode, ForwardDecodeWithHook and
\* ForwardFromEmbeddings, which do not look at disabled.
ForwardDecode(c) ==
  /\ Begun(c)
  /\ hooked' \in {[hooked EXCEPT ![c] = b] : b \in BOOLEAN}
  /\ Goto(c, "enter")
  /\ UNCHANGED <<Elsewhere, layer, done, result>>

\* useDecodePlane looks again: runBaseFromEmbeddings.
RunBase(c) ==
  /\ At(c, "enter")
  /\ disabled /\ ~setup.gpu
  /\ Can("embeddings")
  /\ Delegated(c)
  /\ UNCHANGED <<Elsewhere, layer, hooked, calls>>

RunBaseFails(c) ==
  /\ At(c, "enter")
  /\ disabled /\ ~setup.gpu
  /\ ~Can("embeddings")
  /\ Fail(c)

StartLoop(c) ==
  /\ At(c, "enter")
  /\ ~disabled \/ setup.gpu
  /\ Goto(c, "loop")
  /\ layer' = [layer EXCEPT ![c] = 0]
  /\ done' = [done EXCEPT ![c] = << >>]
  /\ UNCHANGED <<Elsewhere, hooked, result, calls>>

-----------------------------------------------------------------------------
(* The layer loop: a direct block first, layerForward otherwise. *)

HasSpan(i) == i \in DOMAIN spans /\ i \notin fallbacks

\* shouldUseDirectSpan.
TryBlock(c) ==
  /\ At(c, "loop")
  /\ layer[c] < NumLayers
  /\ Goto(c, IF ~hooked[c] /\ HasSpan(layer[c]) THEN "block" ELSE "attend")
  /\ UNCHANGED <<Elsewhere, layer, hooked, done, result, calls>>

\* Mutant of RunBlock: the loop goes on inside of the span.
RunBlockOnce(c) ==
  /\ At(c, "block")
  /\ Ask(block, block', layer[c], "blockbuild", "ok")
  /\ done' = [done EXCEPT ![c] = @ \o [k \in 1..(spans[layer[c]] - layer[c] + 1) |-> layer[c] + k - 1]]
  /\ layer' = [layer EXCEPT ![c] = @ + 1]
  /\ Goto(c, "loop")
  /\ UNCHANGED <<setup, spans, planeVars, stage, experts, hooked, result, calls, late, prewarm>>

\* directBlockOutput handled the span: "i = lastLayer".
RunBlock(c) ==
  /\ At(c, "block")
  /\ Ask(block, block', layer[c], "blockbuild", "ok")
  /\ done' = [done EXCEPT ![c] = @ \o [k \in 1..(spans[layer[c]] - layer[c] + 1) |-> layer[c] + k - 1]]
  /\ layer' = [layer EXCEPT ![c] = spans[layer[c]] + 1]
  /\ Goto(c, "loop")
  /\ UNCHANGED <<setup, spans, planeVars, stage, experts, hooked, result, calls, late, prewarm>>

\* The block could not be built, or its step fails.
BlockFails(c) ==
  /\ At(c, "block")
  /\ \E outcome \in {"ok", "err"} :
       /\ Ask(block, block', layer[c], "blockbuild", outcome)
       /\ outcome = "ok" => CanFail("block")
  /\ Goto(c, "marking")
  /\ UNCHANGED <<setup, spans, planeVars, stage, experts, layer, hooked, done, result, calls, late, prewarm>>

\* markDirectBlockFallback under mu, then, for the first who does it, under statsMu.
MarkFallback(c) ==
  /\ At(c, "marking")
  /\ fallbacks' = fallbacks \cup {layer[c]}
  /\ Goto(c, IF layer[c] \in fallbacks THEN "attend" ELSE "marked")
  /\ UNCHANGED <<setup, spans, disabled, disableErr, stat, warnings, builtVars,
                 layer, hooked, done, result, calls, late, prewarm>>

CountFallback(c) ==
  /\ At(c, "marked")
  /\ stat' = [stat EXCEPT !.fallbacks = @ + 1]
  /\ Goto(c, "attend")
  /\ UNCHANGED <<setup, spans, disabled, disableErr, fallbacks, warnings, builtVars,
                 layer, hooked, done, result, calls, late, prewarm>>

-----------------------------------------------------------------------------
(* layerForward. *)

\* Mutant of Attend: the plane is not asked again whether it is disabled.
AttendUnasked(c) ==
  /\ At(c, "attend")
  /\ Goto(c, IF setup.gpu THEN "mlp" ELSE "stage")
  /\ UNCHANGED <<Elsewhere, layer, hooked, done, result, calls>>

\* Attention, then "if p.isDisabled() || p.gpuFallback".
Attend(c) ==
  /\ At(c, "attend")
  /\ Goto(c, IF disabled \/ setup.gpu THEN "mlp" ELSE "stage")
  /\ UNCHANGED <<Elsewhere, layer, hooked, done, result, calls>>

\* Attention, the residual or the norms fail: GPU errors end the pass.
LayerFails(c) ==
  /\ pc[c] \in {"attend", "apply"}
  /\ CanFail("gpu")
  /\ Fail(c)

\* The caller turns to a stage of its layer.
Touch(c) == late' = IF disabled THEN [late EXCEPT ![c] = @ \cup {<<calls[c], layer[c]>>}]
                                ELSE late

\* The dense paths in the order layerForward tries them.
Fast == <<"compiled", "fused", "residual">>
Supported(after) ==
  LET left == {k \in after..3 : Fast[k] \in setup.fast}
  IN  IF left = {} THEN "standard"
      ELSE Fast[CHOOSE k \in left : \A j \in left : k <= j]

\* denseStage for a dense layer.  Its error is overwritten while the residual is
\* computed, and "p.disable(err)" is called with nil: the layer runs on the GPU and the
\* plane stays enabled.
AskDense(c) ==
  /\ At(c, "stage")
  /\ ~IsMoE(layer[c])
  /\ \E outcome \in {"ok", "err"} :
       /\ Ask(stage, stage', layer[c], "build", outcome)
       /\ Goto(c, IF outcome = "ok" THEN Supported(1) ELSE "fallback")
  /\ Touch(c)
  /\ UNCHANGED <<setup, spans, planeVars, experts, block, layer, hooked, done, result, calls, prewarm>>

\* moeOutput: without a router nothing is asked for; shared stage, then expert stages.
AskShared(c) ==
  /\ At(c, "stage")
  /\ IsMoE(layer[c])
  /\ Can("router")
  /\ \E outcome \in {"ok", "err"} :
       /\ Ask(stage, stage', layer[c], "build", outcome)
       /\ Goto(c, IF outcome = "ok" THEN "experts" ELSE "disable")
  /\ Touch(c)
  /\ UNCHANGED <<setup, spans, planeVars, experts, block, layer, hooked, done, result, calls, prewarm>>

NoRouter(c) ==
  /\ At(c, "stage")
  /\ IsMoE(layer[c])
  /\ ~Can("router")
  /\ Goto(c, "disable")
  /\ UNCHANGED <<Elsewhere, layer, hooked, done, result, calls>>

AskExperts(c) ==
  /\ At(c, "experts")
  /\ \E outcome \in {"ok", "err"} :
       /\ Ask(experts, experts', layer[c], "build", outcome)
       /\ Goto(c, IF outcome = "ok" THEN "moe" ELSE "disable")
  /\ Touch(c)
  /\ UNCHANGED <<setup, spans, planeVars, stage, block, layer, hooked, done, result, calls, prewarm>>

\* A dispatch to the ANE ends well.
DispatchOk(c) ==
  /\ pc[c] \in {"compiled", "fused", "residual", "standard", "moe"}
  /\ Goto(c, "apply")
  /\ Touch(c)
  /\ UNCHANGED <<setup, spans, planeVars, builtVars, layer, hooked, done, result, calls, prewarm>>

\* The compiled path fails: the next path is tried.
CompiledFails(c) ==
  /\ At(c, "compiled")
  /\ CanFail("dispatch")
  /\ Goto(c, Supported(2))
  /\ Touch(c)
  /\ UNCHANGED <<setup, spans, planeVars, builtVars, layer, hooked, done, result, calls, prewarm>>

\* The fused or the norm-only path fails: h or postNorm is still to be computed, which
\* overwrites the error as in AskDense.
FastFails(c) ==
  /\ pc[c] \in {"fused", "residual"}
  /\ CanFail("dispatch")
  /\ Goto(c, "fallback")
  /\ Touch(c)
  /\ UNCHANGED <<setup, spans, planeVars, builtVars, layer, hooked, done, result, calls, prewarm>>

\* Mutant of DispatchFails: the error ends the pass.
DispatchFailsPass(c) ==
  /\ pc[c] \in {"standard", "moe"}
  /\ CanFail("dispatch")
  /\ Fail(c)

\* The standard path or the MoE layer fails: h and postNorm are there, the error reaches
\* disable.
DispatchFails(c) ==
  /\ pc[c] \in {"standard", "moe"}
  /\ CanFail("dispatch")
  /\ Goto(c, "disable")
  /\ Touch(c)
  /\ UNCHANGED <<setup, spans, planeVars, builtVars, layer, hooked, done, result, calls, prewarm>>

\* Mutant of Disable: the error of the plane is the last one.
DisableLast(c) ==
  /\ At(c, "disable")
  /\ disabled' = TRUE
  /\ disableErr' = c
  /\ Goto(c, IF disabled THEN "count" ELSE "countfirst")
  /\ UNCHANGED <<setup, spans, fallbacks, stat, warnings, builtVars,
                 layer, hooked, done, result, calls, late, prewarm>>

\* disable under mu.
Disable(c) ==
  /\ At(c, "disable")
  /\ disabled' = TRUE
  /\ disableErr' = IF disabled THEN disableErr ELSE c
  /\ Goto(c, IF disabled THEN "count" ELSE "countfirst")
  /\ UNCHANGED <<setup, spans, fallbacks, stat, warnings, builtVars,
                 layer, hooked, done, result, calls, late, prewarm>>

\* disable under statsMu.
CountDisable(c) ==
  /\ pc[c] \in {"count", "countfirst"}
  /\ stat' = [stat EXCEPT !.disabled = TRUE, !.reason = IF @ = None THEN c ELSE @]
  /\ Goto(c, IF At(c, "countfirst") THEN "warn" ELSE "fallback")
  /\ UNCHANGED <<setup, spans, disabled, disableErr, fallbacks, warnings, builtVars,
                 layer, hooked, done, result, calls, late, prewarm>>

\* warnOnce.Do.
Warn(c) ==
  /\ At(c, "warn")
  /\ warnings' = IF warnings = << >> THEN <<c>> ELSE warnings
  /\ Goto(c, "fallback")
  /\ UNCHANGED <<setup, spans, disabled, disableErr, fallbacks, stat, builtVars,
                 layer, hooked, done, result, calls, late, prewarm>>

\* fallbackMLP, and the residual around it.
Mlp(c) ==
  /\ pc[c] \in {"fallback", "mlp"}
  /\ Can("mlp")
  /\ Goto(c, "apply")
  /\ UNCHANGED <<Elsewhere, layer, hooked, done, result, calls>>

NoMlp(c) ==
  /\ pc[c] \in {"fallback", "mlp"}
  /\ ~Can("mlp")
  /\ Fail(c)

\* h is the output of the layer, the hook is called, and the loop goes on.
Apply(c) ==
  /\ At(c, "apply")
  /\ done' = [done EXCEPT ![c] = Append(@, layer[c])]
  /\ layer' = [layer EXCEPT ![c] = @ + 1]
  /\ Goto(c, "loop")
  /\ UNCHANGED <<Elsewhere, hooked, result, calls>>

\* Final norm and head, and outside of gpu_fallback mode an Eval.
Finish(c) ==
  /\ At(c, "loop")
  /\ layer[c] = NumLayers
  /\ Answer(c, "ok")
  /\ UNCHANGED <<Elsewhere, layer, hooked, done, calls>>

FinishFails(c) ==
  /\ At(c, "loop")
  /\ layer[c] = NumLayers
  /\ CanFail("gpu")
  /\ Fail(c)

-----------------------------------------------------------------------------
(* Prewarm, once. *)

PrewarmAt(place) == prewarm.at = place
PrewarmGoto(place) == prewarm' = [prewarm EXCEPT !.at = place]
PrewarmNext == prewarm' = [at |-> "layer", layer |-> prewarm.layer + 1]

PrewarmStart ==
  /\ PrewarmAt("no")
  /\ PrewarmGoto("layer")
  /\ UNCHANGED <<setup, spans, planeVars, builtVars, passVars>>

\* A disabled plane is not prewarmed further: its error is returned.
PrewarmLayer ==
  /\ PrewarmAt("layer")
  /\ PrewarmGoto(IF prewarm.layer = NumLayers THEN "ok"
                 ELSE IF disabled THEN "error"
                 ELSE IF HasSpan(prewarm.layer) THEN "block" ELSE "stage")
  /\ UNCHANGED <<setup, spans, planeVars, builtVars, passVars>>

\* Mutant of PrewarmBlock: a block that was built stands for all layers of its span.
PrewarmBlockSpan ==
  /\ PrewarmAt("block")
  /\ \E outcome \in {"ok", "err"} :
       /\ Ask(block, block', prewarm.layer, "blockbuild", outcome)
       /\ IF outcome = "ok"
          THEN prewarm' = [at |-> "layer", layer |-> spans[prewarm.layer] + 1]
          ELSE PrewarmGoto("marking")
  /\ UNCHANGED <<setup, spans, planeVars, stage, experts, passVars>>

\* getDirectBlock for the first layer of a span.
PrewarmBlock ==
  /\ PrewarmAt("block")
  /\ \E outcome \in {"ok", "err"} :
       /\ Ask(block, block', prewarm.layer, "blockbuild", outcome)
       /\ IF outcome = "ok" THEN PrewarmNext ELSE PrewarmGoto("marking")
  /\ UNCHANGED <<setup, spans, planeVars, stage, experts, passVars>>

PrewarmMark ==
  /\ PrewarmAt("marking")
  /\ fallbacks' = fallbacks \cup {prewarm.layer}
  /\ PrewarmGoto(IF prewarm.layer \in fallbacks THEN "stage" ELSE "marked")
  /\ UNCHANGED <<setup, spans, disabled, disableErr, stat, warnings, builtVars, passVars>>

PrewarmCount ==
  /\ PrewarmAt("marked")
  /\ stat' = [stat EXCEPT !.fallbacks = @ + 1]
  /\ PrewarmGoto("stage")
  /\ UNCHANGED <<setup, spans, disabled, disableErr, fallbacks, warnings, builtVars, passVars>>

\* denseStage, or for an MoE layer sharedStage; expert stages are not built.
PrewarmStage ==
  /\ PrewarmAt("stage")
  /\ \E outcome \in {"ok", "err"} :
       /\ Ask(stage, stage', prewarm.layer, "build", outcome)
       /\ IF outcome = "ok" THEN PrewarmNext ELSE PrewarmGoto("error")
  /\ UNCHANGED <<setup, spans, planeVars, experts, block, passVars>>

-----------------------------------------------------------------------------
Pass(c) ==
  \/ ForwardBase(c) \/ ForwardDecode(c) \/ RunBase(c) \/ RunBaseFails(c) \/ StartLoop(c)
  \/ TryBlock(c) \/ RunBlock(c) \/ BlockFails(c) \/ MarkFallback(c) \/ CountFallback(c)
  \/ Attend(c) \/ LayerFails(c)
  \/ AskDense(c) \/ AskShared(c) \/ NoRouter(c) \/ AskExperts(c)
  \/ DispatchOk(c) \/ CompiledFails(c) \/ FastFails(c) \/ DispatchFails(c)
  \/ Disable(c) \/ CountDisable(c) \/ Warn(c)
  \/ Mlp(c) \/ NoMlp(c) \/ Apply(c) \/ Finish(c) \/ FinishFails(c)

Prewarm ==
  \/ PrewarmStart \/ PrewarmLayer \/ PrewarmBlock \/ PrewarmMark \/ PrewarmCount
  \/ PrewarmStage

Finished ==
  /\ prewarm.at \in {"ok", "error"}
  /\ \A c \in Caller : At(c, "idle") /\ calls[c] = CallLimit[c]
  /\ UNCHANGED vars

Next == (\E c \in Caller : Pass(c)) \/ Prewarm \/ Finished

Spec == Init /\ [][Next]_vars

-----------------------------------------------------------------------------
\* A pass applies every layer once and in order, however blocks, stages, the GPU and the
\* wrapped model share the layers, and whatever falls back on the way.
EveryLayerOnce ==
  \A c \in Caller :
    IF At(c, "idle") THEN result[c] = "ok" => done[c] = All
    ELSE At(c, "enter") \/ done[c] = SubSeq(All, 1, layer[c])

\* ANE failures are soft: with the interfaces the fallbacks need, and a GPU that works, no
\* pass returns an error, not even one that was under way when the plane was disabled.
ANEFailuresSoft ==
  {"embeddings", "mlp"} \subseteq setup.caps /\ ~CanFail("gpu") =>
    \A c \in Caller : result[c] # "error"

\* Once the plane is disabled a caller turns to the stages of at most one more layer, the
\* one it was in.  (Direct blocks are not asked about disabled inside of a pass.)
AtMostOneLateLayer == \A c \in Caller : \A p, q \in late[c] : p = q

\* The plane is disabled with one error, which is the one that is reported, once; the
\* statistics follow when those who failed are past disable.
DisableSettles ==
  /\ disabled <=> disableErr # None
  /\ warnings \in {<< >>, <<disableErr>>}
  /\ stat.disabled <=> stat.reason # None
  /\ stat.disabled => disabled
  /\ disabled /\ (\A c \in Caller : pc[c] \notin {"count", "countfirst"}) => stat.disabled
  /\ disabled /\ (\A c \in Caller : pc[c] \notin {"countfirst", "warn"}) =>
       warnings = <<disableErr>>

\* After a Prewarm without error no pass builds a block, and a stage only for the first
\* layer of a span, which Prewarm leaves to the block, or for experts.
PrewarmCovers ==
  [][PrewarmAt("ok") =>
       \A i \in Layer : /\ block'[i] = block[i]
                        /\ stage'[i] # stage[i] => i \in DOMAIN spans]_vars

\* "Error fallback: disable ANE and run MLP on GPU": the GPU takes over a layer from the
\* ANE only on a disabled plane.
ErrorFallbackDisables == \A c \in Caller : At(c, "fallback") => disabled

\* buildDirectSpans and selectDirectBlockSpans agree with the maximal runs, on all models
\* of at most five layers.  It says nothing of the state: initial states are enough.
SpansAreMaximalRuns ==
  PrewarmAt("no") /\ calls = [c \in Caller |-> 0] =>
    \A n \in 1..5 : \A kind \in [0..(n - 1) -> Kind], rule \in Rule, allowed \in {{}, {0}, {1, 3}} :
      SelectsWanted(n, kind, rule, allowed)
=============================================================================
