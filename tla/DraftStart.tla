----------------------------- MODULE DraftStart -----------------------------
(***************************************************************************)
(* How NewANEDrafter comes by its draft model                              *)
(* (anedraftimpl/ane_draft_darwin.go, ane_draft_strategy.go).  The         *)
(* strategies and output modes of the policy make a ladder of models to    *)
(* build, each with fallbacks of its own; the first that can be built is   *)
(* taken.  Then the drafter settles whether the reference runner drafts,   *)
(* may close the model it has just built, generates an FFN modelc if that  *)
(* is what the ladder came to, and opens what has not been opened yet.     *)
(* What each attempt acquires and gives back is DraftBuild's.              *)
(***************************************************************************)
EXTENDS DraftBuild

CONSTANTS
  Envs,     \* the arguments and environments, see Env
  Profiles  \* how many compile fallback profiles there are for a ModelIR program

Strategy == {"full", "partial4", "partial2", "partial1", "reference-only", "ffn"}
Mode == {"lm_head", "final_hidden", "last_ffn_residual", "last_attn_residual"}

\* What decides about the start. modelc: "auto" or a path, or "bare" for a draft model that
\* is opened without a drafter; strategy, output: the
\* environment's, "?" if it cannot be parsed; widened and layers: of the model's config;
\* lowerable: the model lowers to ModelIR; extract, gate, lmHead: its weights can be
\* extracted, its q projection is widened, it has an LM head; rope, force, tryAttn, kv:
\* MLXGO_ANE_DRAFT_DYNAMIC_ROPE, FORCE_ATTN_DECODE, TRY_ATTN_DECODE and ENABLE_KV_STATE;
\* runner: a reference runner can be made; taps: options.EnableTaps; useRef, noGuard, keep:
\* USE_REFERENCE_LOGITS, DISABLE_AUTO_REF_GUARD and KEEP_MODEL_FOR_REFERENCE_ONLY;
\* lowRef: ENABLE_LOW_CONFIDENCE_REFERENCE_ONLY is set and DISABLE_ is not.
Flags == {"widened", "lowerable", "extract", "gate", "lmHead", "rope", "force", "tryAttn",
          "kv", "runner", "taps", "useRef", "noGuard", "keep", "lowRef"}
Env == [modelc : {"auto", "path", "bare"}, strategy : Strategy \cup {"auto", "?"},
        output : Mode \cup {"auto"}, layers : {1, 2}, flags : SUBSET Flags]

ASSUME StartAssumption == Envs \subseteq Env /\ Profiles \in Nat

VARIABLES
  env,   \* the arguments and the environment
  start  \* the call of NewANEDrafter, and the drafter it returns

startVars == <<buildVars, env, start>>

On(flag) == flag \in env.flags

NoRung == [strategy |-> "full", build |-> "none", out |-> "none", layers |-> 1, taps |-> FALSE]

StartTypeOK ==
  /\ env \in Envs
  /\ start.stage \in {"bare", "prepare", "try", "building", "tables", "kv", "untabled",
                      "prepared", "shed", "ffn", "late", "open", "opening", "started",
                      "closing", "refused", "off"}
  /\ start.rung \in Nat /\ start.prep.strategy \in Strategy
  /\ {start.path, start.prefer, start.runner, start.guard} \subseteq BOOLEAN

DraftTypeOK == BuildTypeOK /\ StartTypeOK

StartInit ==
  /\ BuildInit
  /\ env \in Envs
  /\ start = [stage |-> IF env.modelc = "bare" THEN "bare" ELSE "prepare", rung |-> 1,
              prep |-> NoRung, path |-> FALSE, prefer |-> FALSE, runner |-> FALSE,
              guard |-> FALSE]

-----------------------------------------------------------------------------
AutoDraftStrategies(widened, preferReferenceOnly) ==
  CASE widened /\ preferReferenceOnly -> <<"reference-only", "partial1", "ffn">>
    [] widened /\ ~preferReferenceOnly -> <<"partial1", "reference-only", "ffn">>
    [] OTHER -> <<"full", "partial4", "partial2", "partial1", "ffn">>

Strategies ==
  IF env.strategy = "auto" THEN AutoDraftStrategies(On("widened"), ~On("noGuard"))
  ELSE <<env.strategy>>

DraftOutputModeCandidates(strategy) ==
  CASE env.output # "auto" -> <<env.output>>
    [] env.output = "auto" /\ strategy = "partial1" /\ On("widened") ->
         <<"last_attn_residual", "final_hidden">>
    [] OTHER -> <<"lm_head", "final_hidden", "last_ffn_residual">>

\* DraftStrategyMaxLayers and resolveDraftMILNumLayers.
NumLayers(strategy) ==
  LET most == CASE strategy = "partial4" -> 4
                [] strategy = "partial2" -> 2
                [] strategy = "partial1" -> 1
                [] OTHER -> env.layers
  IN IF most < env.layers THEN most ELSE env.layers

DraftSelectionLowConfidence(rung) ==
  \/ rung.strategy = "partial1" /\ On("widened")
  \/ rung.out \notin {"lm_head", "reference_only", "external_modelc"}

\* The models generateANEDraftMILTransformerFromModel tries for an output mode: ModelIR with
\* its compile fallbacks, the forced attention decode, the widened fast path, and then the
\* fallbacks of the mode (without norms, with a linear FFN, layer by layer).
Generate(strategy, mode, taps) ==
  LET n == NumLayers(strategy)
      Rung(build, out) ==
        [strategy |-> strategy, build |-> build, out |-> out, layers |-> n, taps |-> taps]
      T == <<Rung("transformer", mode)>>
      attention == <<Rung("attention", "last_attn_residual")>>
      Only(cond, rungs) == IF cond THEN rungs ELSE << >>
      direct == <<Rung("modelir", mode)>> \o [i \in 1..Profiles |-> Rung("profile", mode)]
      fallbacks ==
        CASE mode = "lm_head" -> Only(On("lmHead"), T \o Only(~taps, T))
          [] mode = "final_hidden" -> T \o T \o T \o <<Rung("stack", mode)>>
          [] mode = "last_ffn_residual" -> T \o T
          [] mode = "last_attn_residual" -> T \o Only(On("force") \/ On("tryAttn"), attention)
  IN Only(On("lowerable") /\ ~taps /\ mode \in {"lm_head", "final_hidden"}, direct)
       \o Only(On("extract"),
               Only(On("force"), attention)
                 \o Only(mode = "last_attn_residual" /\ n = 1 /\ On("gate") /\ ~taps, T)
                 \o fallbacks)

Reference == [NoRung EXCEPT !.strategy = "reference-only", !.build = "reference", !.out = "reference_only"]
FFN == [NoRung EXCEPT !.strategy = "ffn", !.build = "ffn", !.out = "ffn_fallback"]

\* tryMIL goes through the strategies, and with each through its output modes.
Tried(taps) ==
  LET Of(strategy) ==
        CASE strategy = "reference-only" -> <<Reference>>
          [] strategy = "ffn" -> <<FFN>>
          [] OTHER -> FlattenSeq([i \in 1..Len(DraftOutputModeCandidates(strategy)) |->
                        Generate(strategy, DraftOutputModeCandidates(strategy)[i], taps)])
  IN FlattenSeq([i \in 1..Len(Strategies) |-> Of(Strategies[i])])

\* prepareANEDraftModelC: without taps once more, and then the FFN fallback.
Ladder == Tried(On("taps")) \o (IF On("taps") THEN Tried(FALSE) ELSE << >>) \o <<FFN>>

-----------------------------------------------------------------------------
AtStart(stage) == start.stage = stage /\ job.op = "none"
Now(stage) == start' = [start EXCEPT !.stage = stage]
Rung == Ladder[start.rung]
NextRung == start' = [start EXCEPT !.stage = "try", !.rung = @ + 1]
Prepared(rung) == start' = [start EXCEPT !.stage = "prepared", !.prep = rung]

\* The modelc generateANEDraftFFNModelCFromModel has written, and its cleanup.
Modelc == Dir(0)

\* A modelc given by its path has nothing to prepare.
PrepareExternal ==
  /\ AtStart("prepare") /\ env.modelc = "path"
  /\ start' = [start EXCEPT !.stage = "prepared", !.path = TRUE,
                            !.prep = [NoRung EXCEPT !.out = "external_modelc"]]
  /\ UNCHANGED <<buildVars, env>>

PrepareAuto ==
  /\ AtStart("prepare") /\ env.modelc = "auto"
  /\ Now(IF env.strategy = "?" THEN "refused" ELSE "try")
  /\ UNCHANGED <<buildVars, env>>

\* A strategy without a model of its own ends the ladder.
Settle ==
  /\ AtStart("try") /\ Rung.build \in {"reference", "ffn"}
  /\ Prepared(Rung)
  /\ UNCHANGED <<buildVars, env>>

\* A ModelIR program that cannot be lowered; a profile that is disabled, that cannot be
\* reified, or that no ANEC failure calls for.
Skip ==
  /\ AtStart("try") /\ Rung.build \in {"modelir", "profile"}
  /\ NextRung
  /\ UNCHANGED <<buildVars, env>>

Try ==
  /\ AtStart("try") /\ Rung.build \notin {"reference", "ffn"}
  /\ Open(CASE Rung.build \in {"modelir", "profile"} -> "stateful"
            [] Rung.build = "transformer" -> IF On("rope") THEN "rope" ELSE "plain"
            [] OTHER -> Rung.build,
          Rung.layers)
  /\ Now("building")
  /\ UNCHANGED env

TryFails ==
  /\ AtStart("building") /\ draft.state = "failed"
  /\ NextRung
  /\ UNCHANGED <<buildVars, env>>

TryBuilds ==
  /\ AtStart("building") /\ draft.state = "open"
  /\ Now("tables")
  /\ UNCHANGED <<buildVars, env>>

\* SetRoPETables; configureGeneratedANEDraftState only logs its failure, and adds a K/V
\* state if the model has none.
SetTables ==
  /\ AtStart("tables")
  /\ IF Rung.build \notin {"modelir", "profile"} /\ On("kv") /\ draft.kv = 0
     THEN /\ caller' = [caller EXCEPT !.stage = "alloc"]
          /\ Now("kv")
     ELSE Prepared(Rung) /\ UNCHANGED caller
  /\ UNCHANGED <<held, lost, draft, job, env>>

SetTablesFails ==
  /\ AtStart("tables") /\ Rung.build \in {"modelir", "profile"}
  /\ Close
  /\ Now("untabled")
  /\ UNCHANGED env

Untabled ==
  /\ AtStart("untabled")
  /\ NextRung
  /\ UNCHANGED <<buildVars, env>>

KVConfigured ==
  /\ AtStart("kv") /\ caller.stage = "idle"
  /\ Prepared(Rung)
  /\ UNCHANGED <<buildVars, env>>

\* Where a drafter that starts with the reference gives its model up.
Shed(prefer) == prefer /\ ~On("keep") /\ draft.state = "open"

LowConfidence == DraftSelectionLowConfidence(start.prep)

\* The reference runner, the guard, and who drafts first.
Decide ==
  /\ AtStart("prepared")
  /\ LET reference == start.prep.strategy = "reference-only"
         guard == LowConfidence /\ ~On("noGuard")
         runner == On("runner") /\ (On("taps") \/ On("useRef") \/ guard \/ reference)
         prefer == \/ reference
                   \/ /\ LowConfidence /\ runner /\ On("lowRef")
                      /\ ~On("useRef") /\ ~On("taps")
     IN IF reference /\ ~runner
        THEN Now("refused") /\ UNCHANGED buildVars
        ELSE /\ start' = [start EXCEPT !.stage = IF Shed(prefer) THEN "shed" ELSE "ffn",
                                       !.prefer = prefer, !.runner = runner,
                                       !.guard = guard /\ runner]
             /\ IF Shed(prefer) THEN Close ELSE UNCHANGED buildVars
  /\ UNCHANGED env

Shedded ==
  /\ AtStart("shed")
  /\ Now("ffn")
  /\ UNCHANGED <<buildVars, env>>

NoFFN ==
  /\ AtStart("ffn") /\ start.prep.build # "ffn"
  /\ Now("late")
  /\ UNCHANGED <<buildVars, env>>

GenerateFFN ==
  /\ AtStart("ffn") /\ start.prep.build = "ffn"
  /\ Takes({Modelc})
  /\ start' = [start EXCEPT !.stage = "late", !.path = TRUE]
  /\ UNCHANGED <<Aside, job, env>>

\* A directory that cannot be filled is removed again.
GenerateFFNFails ==
  /\ AtStart("ffn") /\ start.prep.build = "ffn"
  /\ Now("refused")
  /\ UNCHANGED <<buildVars, env>>

\* Output dimension, embeddings and token lookup are only looked at now.
Late ==
  /\ AtStart("late")
  /\ Now("open")
  /\ UNCHANGED <<buildVars, env>>

\* The cleanup takes the modelc away, and nobody closes the model.
LateFails ==
  /\ AtStart("late")
  /\ lost' = IF draft.state = "open" THEN lost \cup {"start model"} ELSE lost
  /\ Drops({Modelc} \cup Owned)
  /\ draft' = NoDraft
  /\ Now("refused")
  /\ UNCHANGED <<job, caller, env>>

\* Mutant of Opens: a drafter in reference-only mode is not given a model either.
OpensUnlessPreferred == draft.state # "open" /\ ~start.prefer

\* NewANEDrafter opens the modelc if there is no model, unless the strategy is reference-only.
Opens == draft.state # "open" /\ start.prep.strategy # "reference-only"

Return ==
  /\ AtStart("open") /\ ~Opens
  /\ Now("started")
  /\ UNCHANGED <<buildVars, env>>

OpenModelc ==
  /\ AtStart("open") /\ Opens /\ start.path
  /\ Open("client", 1)
  /\ Now("opening")
  /\ UNCHANGED env

OpenModelcReturns ==
  /\ AtStart("opening") /\ draft.state = "open"
  /\ Now("started")
  /\ UNCHANGED <<buildVars, env>>

\* There is no path for a model that was built in memory, and has been shed.
OpenModelcFails ==
  /\ \/ AtStart("open") /\ Opens /\ ~start.path
     \/ AtStart("opening") /\ draft.state = "failed"
  /\ Drops({Modelc})
  /\ Now("refused")
  /\ UNCHANGED <<Aside, job, env>>

\* closeFn closes the model first, and then cleans up.
CloseDrafter ==
  /\ AtStart("started")
  /\ IF draft.state = "open" THEN Close ELSE UNCHANGED buildVars
  /\ Now("closing")
  /\ UNCHANGED env

Cleanup ==
  /\ AtStart("closing")
  /\ Drops({Modelc})
  /\ Now("off")
  /\ UNCHANGED <<Aside, job, env>>

-----------------------------------------------------------------------------
\* A draft model in use: by the drafter, or opened on its own.
Use ==
  /\ \/ start.stage \in {"bare", "started"} /\ ResetModel
     \/ start.stage = "bare" /\ (Close \/ \E kind \in Kind, n \in {1, 2} : Open(kind, n))
     \/ start.stage \in {"bare", "started", "closing"} /\ ConfigureKV
  /\ UNCHANGED <<env, start>>

Works == Work /\ UNCHANGED <<env, start>>
Configures == (KVAllocate \/ KVAllocateFails \/ KVSwap) /\ UNCHANGED <<env, start>>

Starts ==
  \/ PrepareExternal \/ PrepareAuto \/ Settle \/ Skip \/ Try \/ TryFails \/ TryBuilds
  \/ SetTables \/ SetTablesFails \/ Untabled \/ KVConfigured \/ Decide \/ Shedded \/ NoFFN
  \/ GenerateFFN \/ GenerateFFNFails \/ Late \/ LateFails \/ Return \/ OpenModelc
  \/ OpenModelcReturns \/ OpenModelcFails \/ Cleanup

Settled == start.stage \in {"refused", "off"} /\ job.op = "none" /\ UNCHANGED startVars

StartNext == Works \/ Configures \/ Starts \/ CloseDrafter \/ Use \/ Settled

\* A call that has begun goes on; nothing makes a client reset or close the model.
StartSpec ==
  /\ StartInit /\ [][StartNext]_startVars
  /\ WF_startVars(Works) /\ WF_startVars(Configures) /\ WF_startVars(Starts)

-----------------------------------------------------------------------------
\* The drafter that NewANEDrafter returns can draft: with an open model unless it starts
\* in reference-only mode, and with a runner wherever it starts with the reference or may
\* hand over to it. A low-confidence start in reference-only mode succeeds only with a
\* model to keep or a modelc to open: one whose MIL model has been shed is always
\* refused, since the code goes on to open a modelc that has no path.
StartedIsRunnable ==
  start.stage = "started" =>
    /\ draft.state = "open" <=> start.prep.strategy # "reference-only"
    /\ draft.state = "open" \/ start.prefer
    /\ start.prefer \/ start.guard => start.runner
    /\ start.prefer /\ draft.state = "open" => On("keep") \/ start.path

\* Neither do NewANEDrafter when it refuses and closeFn leave anything behind, with the
\* modelc directory the cleanup is for.
NothingLeft ==
  /\ NothingOrphaned
  /\ start.stage \in {"refused", "off"} => Modelc \notin held

\* Every constructor, Reset and Close returns, and so does NewANEDrafter: each retry of a
\* plan, each fallback of a build and each rung of the ladder is taken once.
CallsReturn ==
  /\ job.op # "none" ~> job.op = "none"
  /\ start.stage = "prepare" ~> start.stage \in {"started", "refused"}
=============================================================================
