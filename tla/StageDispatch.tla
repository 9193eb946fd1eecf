--------------------------- MODULE StageDispatch ---------------------------
(***************************************************************************)
(* The fan-out of one MoE layer (decode/dispatch.go, moeOutput and         *)
(* dispatchPreparedStages).  A call leases and locks one slot of every     *)
(* stage it needs, the shared expert first and then the experts in the     *)
(* order the router chose, and only then starts all evaluations; results   *)
(* are collected and outputs taken in the same order.                      *)
(*                                                                         *)
(* SlotPool has the life of a single slot in full; here acquiring a slot   *)
(* and giving one back take one step each, and data is left out: the       *)
(* subject is who holds which slots when something fails on the way.       *)
(* A run that is aborted may still be evaluating: what that does to the    *)
(* output of the next run on the slot is in SlotPool (orphans).            *)
(***************************************************************************)
EXTENDS LeasePool, Callers, Sequences, FiniteSets

CONSTANTS
  Stage,       \* the stages of the layer: shared expert and experts
  Order,       \* the stage sequences a call may need; all start with the shared expert
  Alias,       \* subset of BOOLEAN: may views borrow the slot (iosurface_alias)?
  Faults       \* what may fail: <<step, position in the sequence>>

ASSUME DispatchAssumption ==
  /\ None \notin Caller
  /\ Order \subseteq Seq(Stage)
  /\ \A o \in Order : o # << >>
  /\ Alias \subseteq BOOLEAN

VARIABLES
  alias,     \* outputMode of the plane is iosurface_alias
  pools,     \* the slot pool of every stage
  mu,        \* holder of slot.mu, per stage and slot
  disabled,  \* Plane.disabled
  need,      \* the stages the call of each caller needs
  pos,       \* position in need the caller works on
  runs,      \* the caller's runs and views: position -> slot, lease, state
  abandoned  \* auxiliary: the slots of runs that the code has dropped as they were

dispatchVars == <<alias, pools, mu, disabled, pc, need, pos, runs, calls, abandoned>>
Slotwise == <<pools, mu>>
Aside == <<alias, abandoned>>

RunState == {"leased", "prepared", "flying", "ok", "copied", "borrowed"}
Run == [slot : SlotId, lease : Nat, st : RunState]
DispatchPC == {"idle", "prepare", "stalled", "lock", "finalize", "collect", "output",
       "viewing", "abort", "dropviews", "failed"}

DispatchTypeOK ==
  /\ alias \in Alias
  /\ pools \in [Stage -> Pool]
  /\ mu \in [Stage -> [SlotId -> Caller \cup {None}]]
  /\ disabled \in BOOLEAN
  /\ pc \in [Caller -> DispatchPC]
  /\ need \in [Caller -> Order \cup {<< >>}]
  /\ pos \in [Caller -> Nat \ {0}]
  /\ \A c \in Caller :
       /\ DOMAIN runs[c] \subseteq DOMAIN need[c]
       /\ \A j \in DOMAIN runs[c] : runs[c][j] \in Run
  /\ calls \in [Caller -> Nat]
  /\ abandoned \subseteq (Stage \X SlotId)

DispatchInit ==
  /\ alias \in Alias
  /\ \E d \in SlotId : pools = [s \in Stage |-> NewPool(d)]
  /\ mu = [s \in Stage |-> [i \in SlotId |-> None]]
  /\ disabled = FALSE
  /\ pc = [c \in Caller |-> "idle"]
  /\ need = [c \in Caller |-> << >>]
  /\ pos = [c \in Caller |-> 1]
  /\ runs = [c \in Caller |-> << >>]
  /\ calls = [c \in Caller |-> 0]
  /\ abandoned = {}

-----------------------------------------------------------------------------
CanFail(step, j) == <<step, j>> \in Faults

At(c, place) == pc[c] = place
GoTo(c, place) == pc' = [pc EXCEPT ![c] = place]
Position(c, j) == pos' = [pos EXCEPT ![c] = j]
Here(c) == need[c][pos[c]]
Held(c) == DOMAIN runs[c]
LastHeld(c) == CHOOSE j \in Held(c) : \A i \in Held(c) : i <= j

SetRun(c, j, r) ==
  runs' = [runs EXCEPT ![c] = [i \in Held(c) \cup {j} |-> IF i = j THEN r ELSE runs[c][i]]]
SetState(c, j, s) == SetRun(c, j, [runs[c][j] EXCEPT !.st = s])
KeepRuns(c, S) == runs' = [runs EXCEPT ![c] = [i \in S |-> runs[c][i]]]

Abandons(c, S) == abandoned' = abandoned \cup {<<need[c][j], runs[c][j].slot>> : j \in S}

Unlock(c, j) == mu' = [mu EXCEPT ![need[c][j]][runs[c][j].slot] = None]
GiveBack(c, j) ==
  pools' = [pools EXCEPT ![need[c][j]] = ReleaseLease(@, runs[c][j].slot, runs[c][j].lease)]

\* layerForward: the plane is enabled, the router has chosen the experts and their
\* stages are built (StageCache); an error before this point holds nothing.
BeginDispatch(c) ==
  /\ At(c, "idle")
  /\ ~disabled
  /\ calls[c] < CallLimit[c]
  /\ calls' = [calls EXCEPT ![c] = @ + 1]
  /\ \E o \in Order : need' = [need EXCEPT ![c] = o]
  /\ Position(c, 1)
  /\ GoTo(c, "prepare")
  /\ UNCHANGED <<Slotwise, Aside, disabled, runs>>

\* acquireSlot returns slot i of the stage under the next lease of its pool.
Lease(c, i, pool) ==
  /\ pools' = [pools EXCEPT ![Here(c)] = pool]
  /\ SetRun(c, pos[c], [slot |-> i, lease |-> pools[Here(c)].seq + 1, st |-> "leased"])
  /\ GoTo(c, "lock")
  /\ UNCHANGED <<Aside, mu, disabled, need, pos, calls>>

AcquireFree(c) ==
  /\ At(c, "prepare")
  /\ \E i \in SlotId : /\ IsFirstFree(pools[Here(c)], i)
                       /\ Lease(c, i, LeaseSlot(pools[Here(c)], i))

AcquireBuild(c) ==
  /\ At(c, "prepare")
  /\ CanBuild(pools[Here(c)])
  /\ Lease(c, pools[Here(c)].size + 1, BuildAndLease(pools[Here(c)]))

\* abortAll: the runs prepared so far are aborted, last first.
AbortAll(c) ==
  /\ GoTo(c, IF Held(c) = {} THEN "failed" ELSE "abort")
  /\ UNCHANGED <<Slotwise, Aside, disabled, need, pos, runs, calls>>

BuildFails(c) ==
  /\ At(c, "prepare")
  /\ CanFail("build", pos[c])
  /\ CanBuild(pools[Here(c)])
  /\ AbortAll(c)

Stall(c) ==
  /\ At(c, "prepare")
  /\ Exhausted(pools[Here(c)])
  /\ GoTo(c, "stalled")
  /\ UNCHANGED <<Slotwise, Aside, disabled, need, pos, runs, calls>>

SyncFails(c) ==
  /\ At(c, "stalled")
  /\ CanFail("sync", pos[c])
  /\ AbortAll(c)

Reacquire(c) ==
  /\ At(c, "stalled")
  /\ \E i \in SlotId : /\ IsReacquired(pools[Here(c)], i)
                       /\ Lease(c, i, LeaseSlot(pools[Here(c)], i))

\* slot.mu.Lock() waits for whoever holds the slot; then the input is written.
LockAndPrepare(c) ==
  /\ At(c, "lock")
  /\ LET s == Here(c)
         i == runs[c][pos[c]].slot
     IN  /\ mu[s][i] = None
         /\ mu' = [mu EXCEPT ![s][i] = c]
  /\ SetState(c, pos[c], "prepared")
  /\ IF pos[c] < Len(need[c])
     THEN Position(c, pos[c] + 1) /\ GoTo(c, "prepare")
     ELSE Position(c, 1) /\ GoTo(c, "finalize")
  /\ UNCHANGED <<Aside, pools, disabled, need, calls>>

\* The input of the slot cannot be prepared: its own deferred cleanup gives the slot
\* back, then abortAll the earlier ones.
PrepareFails(c) ==
  /\ At(c, "lock")
  /\ CanFail("prepare", pos[c])
  /\ mu[Here(c)][runs[c][pos[c]].slot] = None
  /\ GiveBack(c, pos[c])
  /\ KeepRuns(c, Held(c) \ {pos[c]})
  /\ GoTo(c, IF pos[c] = 1 THEN "failed" ELSE "abort")
  /\ UNCHANGED <<Aside, mu, disabled, need, pos, calls>>

\* bs.FinalizeStream: the MLX stream is flushed, then every evaluation is started.
StartAll(c) ==
  /\ At(c, "finalize")
  /\ runs' = [runs EXCEPT ![c] = [j \in Held(c) |-> [runs[c][j] EXCEPT !.st = "flying"]]]
  /\ GoTo(c, "collect")
  /\ UNCHANGED <<Slotwise, Aside, disabled, need, pos, calls>>

FinalizeFails(c) ==
  /\ At(c, "finalize")
  /\ CanFail("finalize", 1)
  /\ AbortAll(c)

\* "res := <-ch" in order of the stages: the evaluation of its run has ended well.
CollectOk(c) ==
  /\ At(c, "collect")
  /\ SetState(c, pos[c], "ok")
  /\ IF pos[c] < Len(need[c])
     THEN Position(c, pos[c] + 1) /\ UNCHANGED pc
     ELSE Position(c, 1) /\ GoTo(c, "output")
  /\ UNCHANGED <<Slotwise, Aside, disabled, need, calls>>

\* Its run failed. "for j := len(runs) - 1; j >= i; j--": the runs before it are dropped as
\* they are, and those after it are aborted whether their evaluations have ended or not.
CollectErr(c) ==
  /\ At(c, "collect")
  /\ CanFail("eval", pos[c])
  /\ KeepRuns(c, {j \in Held(c) : j >= pos[c]})
  /\ Abandons(c, {j \in Held(c) : j < pos[c]})
  /\ GoTo(c, "abort")
  /\ UNCHANGED <<Slotwise, alias, disabled, need, pos, calls>>

\* Mutant of AbortRun: the slot is unlocked and its lease kept.
AbortRunLeased(c) ==
  /\ At(c, "abort")
  /\ LET j == LastHeld(c)
     IN  /\ Unlock(c, j)
         /\ KeepRuns(c, Held(c) \ {j})
         /\ GoTo(c, IF Held(c) = {j} THEN "failed" ELSE "abort")
  /\ UNCHANGED <<Aside, pools, disabled, need, pos, calls>>

\* Mutant of AbortRun: the lease is given back and the slot stays locked.
AbortRunLocked(c) ==
  /\ At(c, "abort")
  /\ LET j == LastHeld(c)
     IN  /\ GiveBack(c, j)
         /\ KeepRuns(c, Held(c) \ {j})
         /\ GoTo(c, IF Held(c) = {j} THEN "failed" ELSE "abort")
  /\ UNCHANGED <<Aside, mu, disabled, need, pos, calls>>

\* run.abort(): unlock the slot and release its lease, last run first.
AbortRun(c) ==
  /\ At(c, "abort")
  /\ LET j == LastHeld(c)
     IN  /\ Unlock(c, j)
         /\ GiveBack(c, j)
         /\ KeepRuns(c, Held(c) \ {j})
         /\ GoTo(c, IF Held(c) = {j} THEN "failed" ELSE "abort")
  /\ UNCHANGED <<Aside, disabled, need, pos, calls>>

\* outputHiddenView: copied out, or borrowed with its lease kept.
TakeOutput(c) ==
  /\ At(c, "output")
  /\ Unlock(c, pos[c])
  /\ IF alias THEN UNCHANGED pools ELSE GiveBack(c, pos[c])
  /\ SetState(c, pos[c], IF alias THEN "borrowed" ELSE "copied")
  /\ IF pos[c] < Len(need[c])
     THEN Position(c, pos[c] + 1) /\ UNCHANGED pc
     ELSE UNCHANGED pos /\ GoTo(c, "viewing")
  /\ UNCHANGED <<Aside, disabled, need, calls>>

\* outputHiddenView fails, having given its own slot back: the views taken so far are
\* released, and the runs after it are dropped as they are.
OutputFails(c) ==
  /\ At(c, "output")
  /\ CanFail("output", pos[c])
  /\ Unlock(c, pos[c])
  /\ GiveBack(c, pos[c])
  /\ KeepRuns(c, {j \in Held(c) : j < pos[c]})
  /\ Abandons(c, {j \in Held(c) : j > pos[c]})
  /\ GoTo(c, IF pos[c] = 1 THEN "failed" ELSE "dropviews")
  /\ UNCHANGED <<alias, disabled, need, pos, calls>>

\* moeOutput cannot combine the expert outputs: releaseOutputViews(views).
CombineFails(c) ==
  /\ At(c, "viewing")
  /\ CanFail("combine", 1)
  /\ GoTo(c, "dropviews")
  /\ UNCHANGED <<Slotwise, Aside, disabled, need, pos, runs, calls>>

ReleaseView(c) ==
  /\ At(c, "dropviews")
  /\ LET j == LastHeld(c)
     IN  /\ IF runs[c][j].st = "borrowed" THEN GiveBack(c, j) ELSE UNCHANGED pools
         /\ KeepRuns(c, Held(c) \ {j})
         /\ GoTo(c, IF Held(c) = {j} THEN "failed" ELSE "dropviews")
  /\ UNCHANGED <<Aside, mu, disabled, need, pos, calls>>

\* layerForward: p.disable(err), and the layer runs on the GPU.
Disable(c) ==
  /\ At(c, "failed")
  /\ disabled' = TRUE
  /\ GoTo(c, "idle")
  /\ UNCHANGED <<Slotwise, Aside, need, pos, runs, calls>>

\* The layer is done. The forward pass forgets its views without releasing them.
ReturnLayer(c) ==
  /\ At(c, "viewing")
  /\ KeepRuns(c, {})
  /\ GoTo(c, "idle")
  /\ UNCHANGED <<Slotwise, Aside, disabled, need, pos, calls>>

-----------------------------------------------------------------------------
Proceed(c) ==
  \/ AcquireFree(c) \/ AcquireBuild(c) \/ BuildFails(c)
  \/ Stall(c) \/ SyncFails(c) \/ Reacquire(c)
  \/ StartAll(c) \/ FinalizeFails(c)
  \/ CollectOk(c) \/ CollectErr(c) \/ AbortRun(c)
  \/ TakeOutput(c) \/ OutputFails(c) \/ CombineFails(c) \/ ReleaseView(c)
  \/ Disable(c) \/ ReturnLayer(c)

Locking(c) == LockAndPrepare(c) \/ PrepareFails(c)

AllReturned ==
  /\ \A c \in Caller : At(c, "idle") /\ (disabled \/ calls[c] = CallLimit[c])
  /\ UNCHANGED dispatchVars

DispatchNext ==
  \/ \E c \in Caller : BeginDispatch(c) \/ Proceed(c) \/ Locking(c)
  \/ AllReturned

\* Running goroutines run, evaluations end, and a mutex passes no waiter over forever.
DispatchFairness ==
  \A c \in Caller : WF_dispatchVars(Proceed(c)) /\ SF_dispatchVars(Locking(c))

DispatchSpec == DispatchInit /\ [][DispatchNext]_dispatchVars /\ DispatchFairness

-----------------------------------------------------------------------------
\* The slots a caller still has a locked run on.
Locks(c) ==
  {<<need[c][j], runs[c][j].slot>> :
     j \in {i \in Held(c) : runs[c][i].st \in {"prepared", "flying", "ok"}}}

\* Only two errors leave something behind, an evaluation that fails after the first and an
\* output that fails before the last: whatever else is locked, a call in progress is
\* still going to unlock it, and without borrowed views the same goes for leases.
NothingLeftBehind ==
  \A s \in Stage, i \in SlotId : <<s, i>> \notin abandoned =>
    /\ mu[s][i] # None => <<s, i>> \in Locks(mu[s][i])
    /\ i \in pools[s].inUse /\ ~alias =>
         \E c \in Caller : \E j \in Held(c) :
           /\ need[c][j] = s /\ runs[c][j].slot = i /\ runs[c][j].st # "copied"
           /\ runs[c][j].lease = pools[s].lease[i]

\* Every call returns, in whatever orders the router picks the experts: a call that
\* waits for a slot waits for a call that can go on, until one has left a slot behind.
EveryDispatchReturns ==
  \A c \in Caller : ~At(c, "idle") ~> At(c, "idle") \/ abandoned # {}
=============================================================================
