----------------------------- MODULE DraftBuild -----------------------------
(***************************************************************************)
(* What an ANE draft model holds, from its constructor to its Close        *)
(* (draft_model_darwin.go, surface_eval_plan_multi_darwin.go and           *)
(* adapter_apple_private_darwin_model.go).  A program is a MIL text        *)
(* compiled and loaded, either in memory or through the ANE client,        *)
(* together with the IOSurfaces of its inputs and outputs and the request  *)
(* that maps them.  Every step of a constructor may fail, and what was     *)
(* acquired before has to be given back by hand; the garbage collector     *)
(* knows nothing of it.                                                    *)
(*                                                                         *)
(* One caller at a time constructs, resets or closes the model (under m.mu *)
(* once there is one, or after it has set closed).  Another one may call   *)
(* ConfigureKVState at any time, which takes m.mu only for its last step.  *)
(***************************************************************************)
EXTENDS Naturals, Sequences, FiniteSets, SequencesExt, FiniteSetsExt

CONSTANTS
  SharedEvents  \* the plan's configurations: whether a request carries shared events

ASSUME SharedEventsAssumption == SharedEvents \subseteq BOOLEAN

VARIABLES
  held,    \* the resources that are loaded, mapped, allocated or on disk
  lost,    \* auxiliary: what the latest call has let go of without releasing it
  draft,   \* the ANEDraftModel, a CompiledMILModel or an ANEClientMILModel
  job,     \* the call that constructs, resets or closes it
  caller   \* a call of ConfigureKVState

buildVars == <<held, lost, draft, job, caller>>

Prog == 1..3   \* identities of programs; one that holds nothing is used again
State == 1..3  \* identities of DraftKVSurfaceStates

\* "plain" is a MIL transformer that is evaluated without a plan, "rope" and "stateful"
\* have one, "attention" is the attention decode model, "stack" the layer stack, "client"
\* a modelc opened by path, "compiled" and "files" the models of CompileMILText and
\* CompileAndLoadMILFiles.
Kind == {"plain", "rope", "stateful", "attention", "stack", "client", "compiled", "files"}

\* The surfaces of a program in the order they are allocated; "kv" stands for the
\* K/V state that an attention decode plan binds.
Roles(kind) ==
  CASE kind = "rope" -> <<"input", "cos", "sin", "output">>
    [] kind = "stateful" -> <<"input", "output", "state">>
    [] kind = "attention" -> <<"kv", "input", "cos", "sin", "output", "currK", "currV", "mask">>
    [] kind = "stack" -> <<"input", "output">>
    [] kind = "compiled" -> <<"input", "output", "state">>
    [] OTHER -> << >>

HasPlan(kind) == kind \in {"rope", "stateful", "attention", "stack"}

Memory(p) == <<"model", p, "memory">>
Client(p) == <<"model", p, "client">>
Models(p) == {Memory(p), Client(p)}
Request(p) == <<"request", p, "mapped">>
Events(p) == <<"request", p, "events">>
Plan(p) == {Request(p), Events(p)}
Dir(p) == <<"dir", p, "files">>
KV(s) == {<<"kv", s, "K">>, <<"kv", s, "V">>}
Surfaces(p, kind) == {<<"surface", p, r>> : r \in Range(Roles(kind)) \ {"kv"}}

Free(what, ids, also) ==
  Min({i \in ids \ also : ~\E r \in held : r[1] \in what /\ r[2] = i})

Stage == {"mirror", "compile", "load", "sync", "client", "alloc", "prepare", "map",
          "events", "validate", "planned", "mask", "planless", "unload", "kv", "plan",
          "surfaces", "retire", "done"}

NoJob == [op |-> "none", kind |-> "plain", p |-> 1, kv |-> 0, path |-> "strict",
          stage |-> "done", next |-> 1, try |-> 1, layers |-> 1, built |-> << >>,
          retire |-> << >>]
NoDraft == [state |-> "none", kind |-> "plain", progs |-> << >>, kv |-> 0, bound |-> 0]

\* The names of resources that belong to a program; 0 is the modelc of DraftStart.
Name == {"memory", "client", "mapped", "events", "files"} \cup UNION {Range(Roles(kind)) : kind \in Kind}
Resource == ({"model", "request", "surface", "dir"} \X (0..3) \X Name) \cup UNION {KV(s) : s \in State}

BuildTypeOK ==
  /\ held \subseteq Resource
  /\ lost \subseteq {"half mirror", "unsynced model", "compiled model", "start model"}
  /\ draft.state \in {"none", "open", "failed", "closed"} /\ draft.kind \in Kind
  /\ draft.progs \in Seq(Prog) /\ draft.kv \in State \cup {0} /\ draft.bound \in State \cup {0}
  /\ job.op \in {"none", "open", "reset", "close"} /\ job.kind \in Kind /\ job.p \in Prog
  /\ job.kv \in State \cup {0} /\ job.path \in {"strict", "helper", "client", "memory"}
  /\ job.stage \in Stage /\ job.built \in Seq(Prog) /\ job.retire \in Seq(Prog)
  /\ job.try \in {1, 2} /\ job.next \in 1..9 /\ job.layers \in 1..2
  /\ caller.stage \in {"idle", "alloc", "swap"} /\ caller.kv \in State \cup {0}

BuildInit ==
  /\ held = {} /\ lost = {}
  /\ draft = NoDraft
  /\ job = NoJob
  /\ caller = [stage |-> "idle", kv |-> 0]

-----------------------------------------------------------------------------
JobAt(stage) == job.op # "none" /\ job.stage = stage
Go(stage) == [job EXCEPT !.stage = stage]
Takes(rs) == held' = held \cup rs
Drops(rs) == held' = held \ rs
Aside == <<lost, draft, caller>>

\* The stages of the next program of a job.
Building(j) ==
  [j EXCEPT !.p = Free({"model", "request", "surface"}, Prog, Range(draft.progs) \cup Range(j.built)),
            !.path = "strict", !.next = 1, !.try = 1,
            !.stage = IF j.kind = "client" THEN "client" ELSE "mirror"]

\* A constructor is called; layers is the number of programs of a stack.
Open(kind, layers) ==
  /\ job.op = "none" /\ draft.state # "open" /\ caller.stage = "idle"
  /\ draft' = NoDraft
  /\ job' = [NoJob EXCEPT !.op = "open", !.kind = kind, !.layers = layers,
                          !.stage = IF kind = "client" THEN "client" ELSE "mirror"]
  /\ lost' = {}
  /\ UNCHANGED <<held, caller>>

\* The job ends; a constructor that has failed returns no model, a Reset leaves it as it is.
Ends == job' = NoJob
Gives(state, progs) ==
  draft' = [NoDraft EXCEPT !.state = state, !.kind = job.kind, !.progs = progs,
                           !.kv = IF state = "open" THEN job.kv ELSE 0,
                           !.bound = IF state = "open" THEN job.kv ELSE 0]
Fails ==
  \/ /\ job.op = "open" /\ job.built = << >>
     /\ Gives("failed", << >>) /\ Ends
  \/ /\ job.op = "open" /\ job.built # << >>  \* cleanupLayers
     /\ job' = [Go("retire") EXCEPT !.retire = Reverse(job.built)]
     /\ UNCHANGED draft
  \/ job.op = "reset" /\ Ends /\ UNCHANGED draft

-----------------------------------------------------------------------------
\* buildModelFromMILTextWithDescriptorFallback: a strict descriptor, then the helper's.
\* CompileAndLoadMILFiles writes a directory of its own instead.
BuildFails ==
  IF job.path = "strict" /\ job.kind # "files"
  THEN job' = [Go("mirror") EXCEPT !.path = "helper"] /\ UNCHANGED draft
  ELSE Fails

Mirror ==
  /\ JobAt("mirror")
  /\ Takes({Dir(job.p)})
  /\ job' = Go(IF job.kind = "files" THEN "client" ELSE "compile")
  /\ UNCHANGED Aside

\* mirrorDescriptorFilesMulti leaves a directory it could not fill.
MirrorFails ==
  /\ JobAt("mirror")
  /\ BuildFails
  /\ lost' \in {lost, lost \cup (IF job.kind = "files" THEN {} ELSE {"half mirror"})}
  /\ UNCHANGED <<held, caller>>

\* compileWithFallbackProfiles: the profiles of the environment after a first failure.
Compile ==
  /\ JobAt("compile")
  /\ job' = Go("load")
  /\ UNCHANGED <<held, Aside>>

Load ==
  /\ JobAt("load")
  /\ Takes({Memory(job.p)})
  /\ job' = Go("sync")
  /\ UNCHANGED Aside

\* The directory is removed on every way out, and loadInMemoryModelWithRetry has tried twice.
CompileOrLoadFails ==
  /\ JobAt("compile") \/ JobAt("load")
  /\ Drops({Dir(job.p)})
  /\ BuildFails
  /\ UNCHANGED <<lost, caller>>

Sync ==
  /\ JobAt("sync")
  /\ Drops({Dir(job.p)})
  /\ IF job.kind = "plain"
     THEN Gives("open", <<job.p>>) /\ Ends
     ELSE /\ job' = Go(IF job.kind = "stack" THEN "client" ELSE "alloc")
          /\ UNCHANGED draft
  /\ UNCHANGED <<lost, caller>>

\* applyModelStateSyncFromEnv fails, and nobody unloads the model that is already loaded.
SyncFails ==
  /\ JobAt("sync")
  /\ Drops({Dir(job.p), Memory(job.p)})
  /\ lost' = lost \cup {"unsynced model"}
  /\ BuildFails
  /\ UNCHANGED caller

\* loadClientModelFromInMemory, openDraftClientModel and compileAndLoadModelDirectory.
ClientLoad ==
  /\ JobAt("client")
  /\ Takes({Client(job.p)})
  /\ IF job.kind = "stack"
     THEN job' = [Go("alloc") EXCEPT !.path = "client"] /\ UNCHANGED draft
     ELSE Gives("open", <<job.p>>) /\ Ends
  /\ UNCHANGED <<lost, caller>>

ClientLoadFails ==
  /\ JobAt("client")
  /\ Drops({Dir(job.p)})
  /\ IF job.kind = "stack"
     THEN job' = [Go("alloc") EXCEPT !.path = "memory"] /\ UNCHANGED draft
     ELSE Fails
  /\ UNCHANGED <<lost, caller>>

-----------------------------------------------------------------------------
\* The surfaces of a plan, or of a CompiledMILModel, one after the other.
Allocate ==
  /\ JobAt("alloc")
  /\ LET role == Roles(job.kind)[job.next]
         s == Free({"kv"}, State, {})
         last == job.next = Len(Roles(job.kind))
     IN /\ Takes(IF role = "kv" THEN KV(s) ELSE {<<"surface", job.p, role>>})
        /\ IF last /\ job.kind = "compiled"
           THEN Gives("open", <<job.p>>) /\ Ends
           ELSE /\ job' = [job EXCEPT !.next = @ + 1,
                                      !.kv = IF role = "kv" THEN s ELSE @,
                                      !.stage = IF last THEN "prepare" ELSE "alloc"]
                /\ UNCHANGED draft
  /\ UNCHANGED <<lost, caller>>

\* Mutant of OfPlan: the cleanup forgets the K/V state of an attention plan.
OfPlanSurfaces == Surfaces(job.p, job.kind)

\* What the cleanups of a plan that cannot be built close.
OfPlan == Surfaces(job.p, job.kind) \cup KV(job.kv)

Unplanned == job' = [Go("planless") EXCEPT !.kv = 0]

\* A surface cannot be allocated, or written, or a symbol index is missing.
AllocateFails ==
  /\ JobAt("alloc") \/ JobAt("prepare")
  /\ Drops(OfPlan)
  /\ Unplanned
  /\ UNCHANGED Aside

Prepare ==
  /\ JobAt("prepare")
  /\ job' = Go("map")
  /\ UNCHANGED <<held, Aside>>

\* newMultiSurfaceEvalPlan maps the request, and then attaches its events.
Map ==
  /\ JobAt("map")
  /\ Takes({Request(job.p)})
  /\ \E events \in SharedEvents : job' = Go(IF events THEN "events" ELSE "planned")
  /\ UNCHANGED Aside

\* Mutant of MapAgain: a retry may be retried.
MapAgainForever(dropped) ==
  \/ Drops(dropped) /\ job' = [Go("map") EXCEPT !.try = 2]
  \/ Drops(dropped \cup OfPlan) /\ Unplanned

\* A plan that fails is built once more with DisableCacheMapping.
MapAgain(dropped) ==
  IF job.try = 1
  THEN Drops(dropped) /\ job' = [Go("map") EXCEPT !.try = 2]
  ELSE Drops(dropped \cup OfPlan) /\ Unplanned

MapFails ==
  /\ JobAt("map")
  /\ MapAgain({})
  /\ UNCHANGED Aside

AttachEvents ==
  /\ JobAt("events")
  /\ Takes({Events(job.p)})
  /\ job' = Go("validate")
  /\ UNCHANGED Aside

\* The request is unmapped again, and the events are released.
EventsFail ==
  /\ JobAt("events") \/ JobAt("validate")
  /\ MapAgain(Plan(job.p))
  /\ UNCHANGED Aside

Validate ==
  /\ JobAt("validate")
  /\ job' = Go("planned")
  /\ UNCHANGED <<held, Aside>>

-----------------------------------------------------------------------------
\* A plan could not be built.
Planless ==
  /\ JobAt("planless")
  /\ IF job.kind = "stack" /\ job.path = "client"
     THEN \* the layer has its in-memory model to fall back on
          /\ Drops({Client(job.p)})
          /\ job' = [Go("alloc") EXCEPT !.path = "memory", !.next = 1, !.try = 1]
          /\ UNCHANGED <<lost, draft>>
     ELSE /\ Drops({Memory(job.p)})
          /\ lost' = IF job.kind = "compiled" THEN lost \cup {"compiled model"} ELSE lost
          /\ Fails
  /\ UNCHANGED caller

\* A layer of a stack is built; with a client plan its in-memory model is unloaded.
KeepLayer ==
  /\ JobAt("planned") /\ job.kind = "stack"
  /\ Drops(IF job.path = "client" THEN {Memory(job.p)} ELSE {})
  /\ LET built == Append(job.built, job.p)
     IN IF Len(built) = job.layers
        THEN Gives("open", built) /\ Ends
        ELSE job' = Building([job EXCEPT !.built = built]) /\ UNCHANGED draft
  /\ UNCHANGED <<lost, caller>>

\* applyMILTransformerPlan of a constructor; initMILAttentionDecodePlan has yet to write
\* the mask.
Adopt ==
  /\ JobAt("planned") /\ job.op = "open" /\ job.kind # "stack"
  /\ IF job.kind = "attention"
     THEN job' = Go("mask") /\ UNCHANGED draft
     ELSE Gives("open", <<job.p>>) /\ Ends
  /\ UNCHANGED <<held, lost, caller>>

WriteMask ==
  /\ JobAt("mask")
  /\ Gives("open", <<job.p>>)
  /\ Ends
  /\ UNCHANGED <<held, lost, caller>>

\* The plan and all it binds are closed again, and out.Close unloads the model.
WriteMaskFails ==
  /\ JobAt("mask")
  /\ Drops(Plan(job.p) \cup OfPlan \cup Models(job.p))
  /\ Fails
  /\ UNCHANGED <<lost, caller>>

-----------------------------------------------------------------------------
\* Reset of a stateful model builds the program anew while the old one is loaded.
ResetModel ==
  /\ job.op = "none" /\ draft.state = "open" /\ draft.kind = "stateful"
  /\ job' = Building([NoJob EXCEPT !.op = "reset", !.kind = draft.kind])
  /\ lost' = {}
  /\ UNCHANGED <<held, draft, caller>>

\* The model changes over to the new program, and lets go of the old one.
Swap ==
  /\ JobAt("planned") /\ job.op = "reset"
  /\ draft' = [draft EXCEPT !.progs = <<job.p>>]
  /\ job' = [Go("retire") EXCEPT !.retire = draft.progs]
  /\ UNCHANGED <<held, lost, caller>>

\* closeDraftMILLayerEval, and applyMILTransformerPlan with the unload that follows it:
\* the plan before its surfaces, the model last.
Old == Head(job.retire)

RetirePlan ==
  /\ JobAt("retire") /\ job.retire # << >>
  /\ Plan(Old) \cap held # {}
  /\ Drops(Plan(Old))
  /\ UNCHANGED <<job, Aside>>

\* Mutant of RetireSurfaces: the plan is not waited for.
RetireSurfacesFirst ==
  /\ JobAt("retire") /\ job.retire # << >>
  /\ Surfaces(Old, job.kind) \cap held # {}
  /\ Drops(Surfaces(Old, job.kind))
  /\ UNCHANGED <<job, Aside>>

RetireSurfaces ==
  /\ JobAt("retire") /\ job.retire # << >>
  /\ Plan(Old) \cap held = {} /\ Surfaces(Old, job.kind) \cap held # {}
  /\ Drops(Surfaces(Old, job.kind))
  /\ UNCHANGED <<job, Aside>>

RetireModel ==
  /\ JobAt("retire") /\ job.retire # << >>
  /\ (Plan(Old) \cup Surfaces(Old, job.kind)) \cap held = {}
  /\ Drops(Models(Old))
  /\ job' = [job EXCEPT !.retire = Tail(@)]
  /\ UNCHANGED Aside

Retired ==
  /\ JobAt("retire") /\ job.retire = << >>
  /\ IF job.op = "open" THEN Gives("failed", << >>) ELSE UNCHANGED draft
  /\ Ends
  /\ UNCHANGED <<held, lost, caller>>

-----------------------------------------------------------------------------
\* Close sets closed and takes the fields under m.mu, and releases them afterwards. The
\* job's kv is the state it has taken.
Close ==
  /\ job.op = "none" /\ draft.state = "open"
  /\ job' = [NoJob EXCEPT !.op = "close", !.kind = draft.kind, !.built = draft.progs,
                          !.kv = draft.kv, !.stage = "unload"]
  /\ draft' = [draft EXCEPT !.state = "closed", !.progs = << >>, !.kv = 0, !.bound = 0]
  /\ UNCHANGED <<held, lost, caller>>

\* The programs that Close releases field by field; those of a stack are retired.
Own == IF job.kind = "stack" THEN {} ELSE Range(job.built)

\* CompiledMILModel.Close and closing an owned directory come to the same.
CloseModel ==
  /\ JobAt("unload")
  /\ Drops(UNION {Models(p) \cup {Dir(p)} : p \in Own})
  /\ job' = Go("kv")
  /\ UNCHANGED Aside

CloseKV ==
  /\ JobAt("kv")
  /\ Drops(KV(job.kv))
  /\ job' = Go("plan")
  /\ UNCHANGED Aside

ClosePlan ==
  /\ JobAt("plan")
  /\ Drops(UNION {Plan(p) : p \in Own})
  /\ job' = Go("surfaces")
  /\ UNCHANGED Aside

CloseSurfaces ==
  /\ JobAt("surfaces")
  /\ Drops(UNION {Surfaces(p, job.kind) : p \in Own})
  /\ job' = [Go("retire") EXCEPT !.retire = IF job.kind = "stack" THEN job.built ELSE << >>]
  /\ UNCHANGED Aside

-----------------------------------------------------------------------------
\* Mutant of KVAllowed: a bound state may be replaced.
KVAllowedAlways == TRUE

\* The state an attention decode plan has bound cannot be replaced; the check reads the
\* fields without m.mu.
KVAllowed == draft.bound = 0

\* ConfigureKVState of another goroutine; a model that has been closed is still a pointer.
ConfigureKV ==
  /\ caller.stage = "idle" /\ draft.state \in {"open", "closed"}
  /\ draft.kind \notin {"compiled", "files"}
  /\ KVAllowed
  /\ caller' = [caller EXCEPT !.stage = "alloc"]
  /\ UNCHANGED <<held, lost, draft, job>>

KVAllocate ==
  /\ caller.stage = "alloc"
  /\ LET s == Free({"kv"}, State, {})
     IN Takes(KV(s)) /\ caller' = [stage |-> "swap", kv |-> s]
  /\ UNCHANGED <<lost, draft, job>>

\* NewDraftKVSurfaceState closes the surfaces of the layers it has finished.
KVAllocateFails ==
  /\ caller.stage = "alloc"
  /\ caller' = [caller EXCEPT !.stage = "idle"]
  /\ UNCHANGED <<held, lost, draft, job>>

KVSwap ==
  /\ caller.stage = "swap" /\ job.op # "reset"
  /\ IF draft.state = "closed"
     THEN Drops(KV(caller.kv)) /\ UNCHANGED draft
     ELSE Drops(KV(draft.kv)) /\ draft' = [draft EXCEPT !.kv = caller.kv]
  /\ caller' = [stage |-> "idle", kv |-> 0]
  /\ UNCHANGED <<lost, job>>

-----------------------------------------------------------------------------
\* The steps of a job that has begun.
Work ==
  \/ Mirror \/ MirrorFails \/ Compile \/ Load \/ CompileOrLoadFails \/ Sync \/ SyncFails
  \/ ClientLoad \/ ClientLoadFails \/ Allocate \/ AllocateFails \/ Prepare \/ Map \/ MapFails
  \/ AttachEvents \/ EventsFail \/ Validate \/ Planless \/ KeepLayer \/ Adopt \/ WriteMask
  \/ WriteMaskFails \/ Swap \/ RetirePlan \/ RetireSurfaces \/ RetireModel \/ Retired
  \/ CloseModel \/ CloseKV \/ ClosePlan \/ CloseSurfaces

-----------------------------------------------------------------------------
\* What a model that is open consists of.
Whole(p, kind) ==
  /\ Cardinality(Models(p) \cap held) = 1
  /\ Surfaces(p, kind) \subseteq held
  /\ HasPlan(kind) => Request(p) \in held
  /\ kind = "files" => Dir(p) \in held

Owned ==
  KV(draft.kv) \cup
  UNION {Models(p) \cup Plan(p) \cup Surfaces(p, draft.kind) \cup {Dir(p)} : p \in Range(draft.progs)}

\* A model that is open can be evaluated whenever m.mu is free: each of its programs is
\* loaded exactly once, all its surfaces are there and its request is mapped, after a
\* Reset that has failed half-way as after one that has succeeded, and its K/V state has
\* both surfaces of every layer; the state that a plan has bound is never replaced.
OpenIsWhole ==
  draft.state = "open" =>
    /\ \A p \in Range(draft.progs) : Whole(p, draft.kind)
    /\ draft.kv # 0 => KV(draft.kv) \subseteq held
    /\ draft.bound # 0 => draft.bound = draft.kv

\* Between two calls nothing is held that the model does not own: no constructor that
\* has failed, no Close and no ConfigureKVState that raced with it leaves a loaded model,
\* a mapped request, a surface or a directory behind. (What the code does leave behind is
\* in lost: a half-written mirror, a model that could not be synchronized, the model of a
\* CompileMILText that found no surfaces, and in DraftStart the model of a drafter that
\* fails late.)
NothingOrphaned ==
  (job.op = "none" /\ caller.stage = "idle") =>
    {r \in held : r[2] # 0} \subseteq (IF draft.state = "open" THEN Owned ELSE {})

\* A request is unmapped before a surface it binds is closed and before its model is
\* unloaded. Close is the exception: it unloads the model, and closes the K/V state
\* an attention decode plan has bound, while the request is still mapped.
RequestsBacked ==
  \A p \in Prog : Request(p) \in held =>
    /\ Models(p) \cap held # {} \/ (job.op = "close" /\ p \in Own)
    /\ LET kind == IF job.op # "none" THEN job.kind ELSE draft.kind
       IN Surfaces(p, kind) \subseteq held
=============================================================================
