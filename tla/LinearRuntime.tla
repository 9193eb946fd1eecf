--------------------------- MODULE LinearRuntime ---------------------------
(***************************************************************************)
(* Runtime.Linear (runtime.go, routing.go, linear_vjp.go) over one of the  *)
(* two private-API executors (adapter_apple_private_*_darwin.go).  A call  *)
(* is routed by the size of its work and by what the executor has          *)
(* compiled, looks its model up or compiles it, and evaluates it; what     *)
(* fails on the ANE is computed by MLX if the runtime allows it.  Any      *)
(* number of callers share the runtime and its executor.                   *)
(*                                                                         *)
(* How a call begins and what becomes of its result is LinearHook's part.  *)
(* The product MLX computes only adds to a graph and does not fail.        *)
(***************************************************************************)
EXTENDS Integers, FiniteSets

CONSTANTS
  Caller,
  Confs,      \* the runtimes a behaviour may have and the layers it calls, see Conf
  FaultSets,  \* the sets of steps that may fail in a behaviour
  Tile,       \* the dynamic executor pads dimensions to a multiple of this; 16 in the code
  Word,       \* 2^64 in the code: work is counted modulo this
  None

Mode == {"inference", "training"}
Fault == {"wrap", "trace", "build", "eval"}

Request == [batch : Nat, inDim : Nat, outDim : Nat, weights : Nat]
Shape == [batch : Nat, inDim : Nat, outDim : Nat]

\* LinearRouteConfig; a negative limit turns its check off.
RouteConfig == [minSpatial : Int, channelMultiple : Int, maxCache : Int, coldMin : Nat,
                warmMin : Nat]
Conf == [executor : {"none", "static", "dynamic"}, router : RouteConfig \cup {None},
         trainingRouter : RouteConfig \cup {None}, fallback : BOOLEAN,
         layers : SUBSET Request]

ASSUME LinearAssumption ==
  /\ Confs \subseteq Conf
  /\ FaultSets \subseteq SUBSET Fault
  /\ Tile \in Nat \ {0} /\ Word \in Nat \ {0}
  /\ IsFiniteSet(Caller)
  /\ None \notin Caller /\ None \notin RouteConfig

VARIABLES
  faulty,    \* the steps that may fail
  conf,      \* the runtime
  mode,      \* nn.CurrentLinearMode, which is the process's
  models,    \* the keys of executor.linear
  busy,      \* dynamicLinearModel.mu: its holder, per key
  packed,    \* the caller whose operands are in packedIn, per key
  last,      \* executor.last: whether the lookup it tells of hit, and whose it was
  vjp,       \* vjpBackend and vjpFallback
  vjpCache,  \* Runtime.vjpCache, named by the caller that made it
  wrapped,   \* the caches that have their closure
  pc,
  call       \* the locals of every caller

shared == <<models, busy, packed, last, vjp, vjpCache, wrapped>>
fixed == <<faulty, conf>>
runtime == <<fixed, mode, shared, pc, call>>

\* withVJP: through the VJP closure; cfg and size: what the router has read; cache: the
\* VJP cache the call uses; y, from: who computed the output, from whose operands; hit:
\* whether the lookup hit; backend, reason: the LinearResult.
NoCall == [req |-> None, withVJP |-> FALSE, cfg |-> None, size |-> 0, cache |-> None,
           y |-> "", from |-> None, hit |-> FALSE, backend |-> "", reason |-> ""]

May(fault) == fault \in faulty

\* Where a call is in Linear: before the lookup of its model, and after.
Routing == {"linear", "probe", "admitted", "cache", "newcache", "usecache", "wrap", "apply", "lookup"}
Running == {"pack", "eval", "telemetry", "publish", "result"}
PC == {"idle", "dispatch", "session", "take", "closure", "answered", "failed", "ended"}
        \cup Routing \cup Running

-----------------------------------------------------------------------------
AlignDimUp(v) == IF v % Tile = 0 THEN v ELSE v + Tile - (v % Tile)

\* LinearRouteShape: what the router is asked about.
RouteShape(r) ==
  [batch  |-> r.batch,
   inDim  |-> IF conf.executor = "dynamic" THEN AlignDimUp(r.inDim) ELSE r.inDim,
   outDim |-> IF conf.executor = "dynamic" THEN AlignDimUp(r.outDim) ELSE r.outDim]

\* The dynamic executor takes the weights at run time, the other compiles them in.
KeyOf(r) == [shape |-> RouteShape(r), weights |-> IF conf.executor = "dynamic" THEN 0 ELSE r.weights]
Keys == {KeyOf(r) : r \in conf.layers}

Answered == {"", "ane", "mlx"}
Reason == {"", "router", "error", "compile trace"}
Call == [req : conf.layers \cup {None}, withVJP : BOOLEAN, cfg : RouteConfig \cup {None},
         size : Nat, cache : Caller \cup {None}, y : Answered, from : Caller \cup {None},
         hit : BOOLEAN, backend : Answered, reason : Reason]

RuntimeTypeOK ==
  /\ faulty \in FaultSets /\ conf \in Confs /\ mode \in Mode
  /\ models \subseteq Keys /\ IsFiniteSet(models)
  /\ busy \in [Keys -> Caller \cup {None}] /\ packed \in [Keys -> Caller \cup {None}]
  /\ last \in [hit : BOOLEAN, by : Caller \cup {None}]
  /\ vjp \in Answered \X Reason
  /\ vjpCache \in Caller \cup {None} /\ wrapped \subseteq Caller \cup {None}
  /\ pc \in [Caller -> PC]
  /\ call \in [Caller -> Call]

\* linearMACs.
Work(s) == s.batch * s.inDim * s.outDim
WorkOverflows(s) == s.batch * s.inDim >= Word \/ Work(s) >= Word

\* Mutant of BudgetSpent: one model more than the budget.
BudgetSpentLate(cfg, size) == cfg.maxCache > 0 /\ size > cfg.maxCache

BudgetSpent(cfg, size) == cfg.maxCache > 0 /\ size >= cfg.maxCache

\* DecideLinear.
Decide(cfg, s, hit, size) ==
  CASE s.batch = 0 \/ s.inDim = 0 \/ s.outDim = 0 -> "invalid_dims"
    [] cfg.minSpatial > 0 /\ s.batch < cfg.minSpatial -> "spatial_below_min"
    [] cfg.channelMultiple > 0 /\ (s.inDim % cfg.channelMultiple # 0
                                     \/ s.outDim % cfg.channelMultiple # 0) -> "unaligned_channels"
    [] ~hit /\ BudgetSpent(cfg, size) -> "compile_budget_exhausted"
    [] WorkOverflows(s) -> "work_overflow"
    [] hit /\ Work(s) < cfg.warmMin -> "warm_work_below_min"
    [] ~hit /\ Work(s) < cfg.coldMin -> "cold_work_below_min"
    [] OTHER -> "eligible"

\* activeRouter.
ActiveRouter ==
  IF mode = "training" /\ conf.trainingRouter # None THEN conf.trainingRouter ELSE conf.router

-----------------------------------------------------------------------------
InitRuntime ==
  /\ faulty \in FaultSets
  /\ conf \in Confs
  /\ mode \in Mode
  /\ models = {}
  /\ busy = [k \in Keys |-> None]
  /\ packed = [k \in Keys |-> None]
  /\ last = [hit |-> FALSE, by |-> None]
  /\ vjp = <<"", "">>
  /\ vjpCache = None
  /\ wrapped = {}
  /\ pc = [c \in Caller |-> "idle"]
  /\ call = [c \in Caller |-> NoCall]

Goto(c, place) == pc' = [pc EXCEPT ![c] = place]
Answer(c, y, from, backend, reason) ==
  call' = [call EXCEPT ![c].y = y, ![c].from = from, ![c].backend = backend,
                       ![c].reason = reason]

\* linearMLX answers in place of the ANE, or the call is an error.
FallBack(c, reason) ==
  IF conf.fallback THEN Goto(c, "answered") /\ Answer(c, "mlx", c, "mlx", reason)
  ELSE Goto(c, "failed") /\ UNCHANGED call

NoExecutor(c) ==
  /\ pc[c] = "linear" /\ conf.executor = "none"
  /\ Goto(c, "answered") /\ Answer(c, "mlx", c, "mlx", "")
  /\ UNCHANGED <<fixed, mode, shared>>

\* Without a Router there is no routing, whatever the TrainingRouter.
Unrouted(c) ==
  /\ pc[c] = "linear" /\ conf.executor # "none" /\ conf.router = None
  /\ Goto(c, "admitted")
  /\ UNCHANGED <<fixed, mode, shared, call>>

\* routeLinear reads the size of the cache first and probes it for the model then.
RouteSize(c) ==
  /\ pc[c] = "linear" /\ conf.executor # "none" /\ conf.router # None
  /\ call' = [call EXCEPT ![c].cfg = ActiveRouter, ![c].size = Cardinality(models)]
  /\ Goto(c, "probe")
  /\ UNCHANGED <<fixed, mode, shared>>

Decision(c) ==
  Decide(call[c].cfg, RouteShape(call[c].req), KeyOf(call[c].req) \in models, call[c].size)

RouteDecide(c) ==
  /\ pc[c] = "probe"
  /\ IF Decision(c) = "eligible" THEN Goto(c, "admitted") /\ UNCHANGED call
     ELSE FallBack(c, "router")
  /\ UNCHANGED <<fixed, mode, shared>>

-----------------------------------------------------------------------------
\* setVJPResult("", "") before the closure is applied.
Admit(c) ==
  /\ pc[c] = "admitted"
  /\ IF call[c].withVJP THEN vjp' = <<"", "">> /\ Goto(c, "cache")
     ELSE UNCHANGED vjp /\ Goto(c, "lookup")
  /\ UNCHANGED <<fixed, mode, models, busy, packed, last, vjpCache, wrapped, call>>

\* linearANEWithVJP looks at r.vjpCache without a lock, sets it and reads it again.
CheckCache(c) ==
  /\ pc[c] = "cache"
  /\ Goto(c, IF vjpCache = None THEN "newcache" ELSE "usecache")
  /\ UNCHANGED <<fixed, mode, shared, call>>

NewCache(c) ==
  /\ pc[c] = "newcache"
  /\ vjpCache' = c
  /\ Goto(c, "usecache")
  /\ UNCHANGED <<fixed, mode, models, busy, packed, last, vjp, wrapped, call>>

UseCache(c) ==
  /\ pc[c] = "usecache"
  /\ call' = [call EXCEPT ![c].cache = vjpCache]
  /\ Goto(c, "wrap")
  /\ UNCHANGED <<fixed, mode, shared>>

\* initVJPHandle under cache.mu, once per cache.
Wrap(c) ==
  /\ pc[c] = "wrap"
  /\ wrapped' = wrapped \cup {call[c].cache}
  /\ Goto(c, "apply")
  /\ UNCHANGED <<fixed, mode, models, busy, packed, last, vjp, vjpCache, call>>

WrapFails(c) ==
  /\ pc[c] = "wrap" /\ call[c].cache \notin wrapped /\ May("wrap")
  /\ FallBack(c, "error")
  /\ UNCHANGED <<fixed, mode, shared>>

\* The closure stays off the ANE inside of a trace of mlx.Compile.
Apply(c) ==
  /\ pc[c] = "apply"
  /\ \/ Goto(c, "lookup") /\ UNCHANGED call
     \/ /\ May("trace")
        /\ Goto(c, "publish") /\ Answer(c, "mlx", c, "", "compile trace")
  /\ UNCHANGED <<fixed, mode, shared>>

\* linearANE fails: the closure computes the product with MLX and says so in the VJP
\* result, a plain call falls back.
FailANE(c) ==
  IF call[c].withVJP
  THEN Goto(c, "publish") /\ Answer(c, "mlx", c, "", "error")
  ELSE FallBack(c, "error")

-----------------------------------------------------------------------------
\* The executor holds its mutex from the lookup to the end of the build.
Lookup(c) ==
  /\ pc[c] = "lookup"
  /\ LET hit == KeyOf(call[c].req) \in models
     IN /\ call' = [call EXCEPT ![c].hit = hit]
        /\ last' = [hit |-> hit, by |-> c]
  /\ models' = models \cup {KeyOf(call[c].req)}
  /\ Goto(c, "pack")
  /\ UNCHANGED <<fixed, mode, busy, packed, vjp, vjpCache, wrapped>>

BuildFails(c) ==
  /\ pc[c] = "lookup" /\ KeyOf(call[c].req) \notin models /\ May("build")
  /\ FailANE(c)
  /\ UNCHANGED <<fixed, mode, shared>>

\* Mutant of EntryFree: the entry is used without its mutex.
EntryShared(k) == k \in Keys

EntryFree(k) == busy[k] = None

\* A dynamic model has one pair of surfaces, which EvalInto locks; the static executor
\* makes new ones for every evaluation.
Pack(c) ==
  /\ pc[c] = "pack"
  /\ LET k == KeyOf(call[c].req)
     IN IF conf.executor = "dynamic"
        THEN /\ EntryFree(k)
             /\ busy' = [busy EXCEPT ![k] = c]
             /\ packed' = [packed EXCEPT ![k] = c]
        ELSE UNCHANGED <<busy, packed>>
  /\ Goto(c, "eval")
  /\ UNCHANGED <<fixed, mode, models, last, vjp, vjpCache, wrapped, call>>

Unlocked(c) ==
  IF conf.executor = "dynamic" THEN [busy EXCEPT ![KeyOf(call[c].req)] = None] ELSE busy

Operands(c) == IF conf.executor = "dynamic" THEN packed[KeyOf(call[c].req)] ELSE c

Eval(c) ==
  /\ pc[c] = "eval"
  /\ busy' = Unlocked(c)
  /\ call' = [call EXCEPT ![c].y = "ane", ![c].from = Operands(c)]
  /\ Goto(c, "telemetry")
  /\ UNCHANGED <<fixed, mode, models, packed, last, vjp, vjpCache, wrapped>>

EvalFails(c) ==
  /\ pc[c] = "eval" /\ May("eval")
  /\ busy' = Unlocked(c)
  /\ Goto(c, "telemetry")
  /\ UNCHANGED <<fixed, mode, models, packed, last, vjp, vjpCache, wrapped, call>>

\* The metrics are stored once more, now with the time of the evaluation, also where it
\* has failed.
Telemetry(c) ==
  /\ pc[c] = "telemetry"
  /\ last' = [hit |-> call[c].hit, by |-> c]
  /\ \/ call[c].y = "" /\ FailANE(c)
     \/ call[c].y # "" /\ call[c].withVJP /\ Goto(c, "publish") /\ UNCHANGED call
     \/ /\ call[c].y # "" /\ ~call[c].withVJP
        /\ Goto(c, "answered") /\ call' = [call EXCEPT ![c].backend = "ane"]
  /\ UNCHANGED <<fixed, mode, models, busy, packed, vjp, vjpCache, wrapped>>

-----------------------------------------------------------------------------
\* The closure tells the runtime who has computed; linear reads it back.
Publish(c) ==
  /\ pc[c] = "publish"
  /\ vjp' = <<call[c].y, call[c].reason>>
  /\ Goto(c, "result")
  /\ UNCHANGED <<fixed, mode, models, busy, packed, last, vjpCache, wrapped, call>>

\* Mutant of Attributed: the fallback of an earlier call is taken along.
AttributedStale(r) == [r EXCEPT !.backend = "ane", !.reason = vjp[2]]

\* vjpResult; an empty one leaves the result with the ANE.
Attributed(r) ==
  IF vjp[1] = "" THEN [r EXCEPT !.backend = "ane", !.reason = ""]
  ELSE [r EXCEPT !.backend = vjp[1], !.reason = vjp[2]]

Result(c) ==
  /\ pc[c] = "result"
  /\ call' = [call EXCEPT ![c] = Attributed(@)]
  /\ Goto(c, "answered")
  /\ UNCHANGED <<fixed, mode, shared>>

RuntimeStep(c) ==
  \/ NoExecutor(c) \/ Unrouted(c) \/ RouteSize(c) \/ RouteDecide(c) \/ Admit(c)
  \/ CheckCache(c) \/ NewCache(c) \/ UseCache(c) \/ Wrap(c) \/ WrapFails(c) \/ Apply(c)
  \/ Lookup(c) \/ BuildFails(c) \/ Pack(c) \/ Eval(c) \/ EvalFails(c) \/ Telemetry(c)
  \/ Publish(c) \/ Result(c)

-----------------------------------------------------------------------------
\* The largest number of models a router lets the executor have.
Budget == IF conf.trainingRouter # None /\ conf.trainingRouter.maxCache > conf.router.maxCache
          THEN conf.trainingRouter.maxCache ELSE conf.router.maxCache

\* The executor compiles at most as many models as the budget says, and one more for
\* every further caller: all of them may read a size below the budget before the first
\* has compiled. Only a runtime with limits in both modes has a budget.
BudgetHeld ==
  (/\ conf.router # None /\ conf.router.maxCache > 0
   /\ conf.trainingRouter # None => conf.trainingRouter.maxCache > 0) =>
    Cardinality(models) <= Budget + Cardinality(Caller) - 1

\* Every answer is computed from the operands of its own call, though the callers of a
\* dynamic model share its surfaces.
AnswersOwn == \A c \in Caller : call[c].y # "" => call[c].from = c
=============================================================================
