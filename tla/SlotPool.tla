------------------------------ MODULE SlotPool ------------------------------
(***************************************************************************)
(* One ANE stage and the goroutines that run it (decode/pool.go, and the   *)
(* single-stage callers of decode/dispatch.go).  A call leases a slot,     *)
(* locks slot.mu, writes the input, evaluates on the ANE, takes the output *)
(* and gives the lease back; a pool with every slot leased synchronizes    *)
(* the GPU stream and steals the slot with the oldest lease.               *)
(*                                                                         *)
(* A critical section under poolMu is one step.  Data is identified by the *)
(* lease of the run that produced it.                                      *)
(***************************************************************************)
EXTENDS LeasePool, FiniteSets

CONSTANTS
  Caller,      \* goroutines that call Forward on the plane
  Mode,        \* the output modes the stage may be configured with
  CallLimit,   \* bound: calls each caller makes
  None         \* no caller

ASSUME CallerAssumption ==
  /\ None \notin Caller /\ IsFiniteSet(Caller)
  /\ Mode \subseteq {"copy", "iosurface_alias", "gpu_materialize_f32", "gpu_materialize_native"}
  /\ CallLimit \in [Caller -> Nat]

VARIABLES
  mode,      \* outputMode of the stage
  pool,      \* the slots and their leases, guarded by poolMu
  mu,        \* the caller that holds slot.mu, per slot
  surface,   \* lease of the run whose output is in the slot's output surface
  buffer,    \* lease of the run whose output is in slot.outputF32
  orphans,   \* evaluations in flight on a slot whose run was aborted
  pc,        \* where each caller is
  run,       \* slot and lease of the caller's preparedRun or borrowed view
  view,      \* where the output the caller works on is kept
  calls      \* calls made, per caller

vars == <<mode, pool, mu, surface, buffer, orphans, pc, run, view, calls>>

\* Written by an evaluation whose run had given the slot up.
Orphan == -1

Run == [slot : SlotId, lease : Nat]
NoRun == [slot |-> 1, lease |-> 0]

Running == {"locked", "evaluating", "evaluated"}
Holding == Running \cup {"waiting", "viewing", "releasing"}
PC == Holding \cup {"idle", "stalled"}

TypeOK ==
  /\ mode \in Mode
  /\ pool \in Pool
  /\ pool.size <= pool.depth
  /\ mu \in [SlotId -> Caller \cup {None}]
  /\ surface \in [SlotId -> Nat \cup {Orphan}]
  /\ buffer \in [SlotId -> Nat \cup {Orphan}]
  /\ orphans \subseteq (SlotId \X Nat)
  /\ pc \in [Caller -> PC]
  /\ run \in [Caller -> Run]
  /\ view \in [Caller -> {"none", "owned", "surface", "buffer"}]
  /\ calls \in [Caller -> Nat]

Init ==
  /\ mode \in Mode
  /\ \E d \in SlotId : pool = NewPool(d)
  /\ mu = [i \in SlotId |-> None]
  /\ surface = [i \in SlotId |-> 0]
  /\ buffer = [i \in SlotId |-> 0]
  /\ orphans = {}
  /\ pc = [c \in Caller |-> "idle"]
  /\ run = [c \in Caller |-> NoRun]
  /\ view = [c \in Caller |-> "none"]
  /\ calls = [c \in Caller |-> 0]

Goto(c, to) == pc' = [pc EXCEPT ![c] = to]

\* The caller's run takes slot i under the pool's next lease.
TakeLease(c, i) ==
  /\ Goto(c, "waiting")
  /\ run' = [run EXCEPT ![c] = [slot |-> i, lease |-> pool.seq + 1]]

\* A call of the caller begins, within its bound.
BeginCall(c) ==
  /\ pc[c] = "idle"
  /\ calls[c] < CallLimit[c]
  /\ calls' = [calls EXCEPT ![c] = @ + 1]

\* acquireSlot, first section under poolMu: the first slot not in use.
AcquireFree(c) ==
  /\ BeginCall(c)
  /\ \E i \in SlotId :
       /\ IsFirstFree(pool, i)
       /\ pool' = LeaseSlot(pool, i)
       /\ TakeLease(c, i)
  /\ UNCHANGED <<mode, mu, surface, buffer, orphans, view>>

\* No slot is free and the pool may still grow: slotBuilder runs under poolMu.
AcquireBuild(c) ==
  /\ BeginCall(c)
  /\ CanBuild(pool)
  /\ pool' = BuildAndLease(pool)
  /\ TakeLease(c, pool.size + 1)
  /\ UNCHANGED <<mode, mu, surface, buffer, orphans, view>>

\* slotBuilder fails: the call returns its error.
BuildFails(c) ==
  /\ BeginCall(c)
  /\ CanBuild(pool)
  /\ UNCHANGED <<mode, pool, mu, surface, buffer, orphans, pc, run, view>>

\* The pool is exhausted: poolMu is dropped for mlxraw.Synchronize.
Stall(c) ==
  /\ BeginCall(c)
  /\ Exhausted(pool)
  /\ Goto(c, "stalled")
  /\ UNCHANGED <<mode, pool, mu, surface, buffer, orphans, run, view>>

SyncFails(c) ==
  /\ pc[c] = "stalled"
  /\ Goto(c, "idle")
  /\ UNCHANGED <<mode, pool, mu, surface, buffer, orphans, run, view, calls>>

\* Second section: a slot freed meanwhile, or the slot with the oldest lease.
Reacquire(c) ==
  /\ pc[c] = "stalled"
  /\ \E i \in SlotId :
       /\ IsReacquired(pool, i)
       /\ pool' = LeaseSlot(pool, i)
       /\ TakeLease(c, i)
  /\ UNCHANGED <<mode, mu, surface, buffer, orphans, view, calls>>

\* Mutant of LockSlot: the slot is used without slot.mu.
UseUnlocked(c) ==
  /\ pc[c] = "waiting"
  /\ mu' = [mu EXCEPT ![run[c].slot] = c]
  /\ Goto(c, "locked")
  /\ UNCHANGED <<mode, pool, surface, buffer, orphans, run, view, calls>>

\* slot.mu.Lock(): waits for the run that still holds the slot.
LockSlot(c) ==
  /\ pc[c] = "waiting"
  /\ mu[run[c].slot] = None
  /\ mu' = [mu EXCEPT ![run[c].slot] = c]
  /\ Goto(c, "locked")
  /\ UNCHANGED <<mode, pool, surface, buffer, orphans, run, view, calls>>

\* slot.mu.Unlock() on the way to releaseSlot, which is a step of its own.
UnlockThen(c, to) ==
  /\ mu' = [mu EXCEPT ![run[c].slot] = None]
  /\ Goto(c, to)

\* The input cannot be prepared: the deferred cleanup unlocks and releases.
PrepareFails(c) ==
  /\ pc[c] = "locked"
  /\ UnlockThen(c, "releasing")
  /\ UNCHANGED <<mode, pool, surface, buffer, orphans, run, view, calls>>

\* The input is in the surface; the run is handed to the ANE.
StartEval(c) ==
  /\ pc[c] = "locked"
  /\ Goto(c, "evaluating")
  /\ UNCHANGED <<mode, pool, mu, surface, buffer, orphans, run, view, calls>>

EvalOk(c) ==
  /\ pc[c] = "evaluating"
  /\ surface' = [surface EXCEPT ![run[c].slot] = run[c].lease]
  /\ Goto(c, "evaluated")
  /\ UNCHANGED <<mode, pool, mu, buffer, orphans, run, view, calls>>

\* Mutant of EvalFails: abort releases the lease and forgets slot.mu.Unlock().
EvalFailsLocked(c) ==
  /\ pc[c] = "evaluating"
  /\ Goto(c, "releasing")
  /\ UNCHANGED <<mode, pool, mu, surface, buffer, orphans, run, view, calls>>

\* The evaluation fails: run.abort().
EvalFails(c) ==
  /\ pc[c] = "evaluating"
  /\ UnlockThen(c, "releasing")
  /\ UNCHANGED <<mode, pool, surface, buffer, orphans, run, view, calls>>

\* denseOutputFromInputs: the residual fails while the evaluation is in flight,
\* and run.abort() gives the slot up without waiting for it.
AbortInFlight(c) ==
  /\ pc[c] = "evaluating"
  /\ UnlockThen(c, "releasing")
  /\ orphans' = orphans \cup {<<run[c].slot, run[c].lease>>}
  /\ UNCHANGED <<mode, pool, surface, buffer, run, view, calls>>

\* The evaluation nobody waits for ends, and has written the output surface.
OrphanLands ==
  \E o \in orphans :
    /\ orphans' = orphans \ {o}
    /\ surface' = [surface EXCEPT ![o[1]] = Orphan]
    /\ UNCHANGED <<mode, pool, mu, buffer, pc, run, view, calls>>

\* Mutant of CopyOut: the copy path returns without releaseSlot.
CopyOutLeaking(c) ==
  /\ pc[c] = "evaluated"
  /\ UnlockThen(c, "idle")
  /\ run' = [run EXCEPT ![c] = NoRun]
  /\ UNCHANGED <<mode, pool, surface, buffer, orphans, view, calls>>

\* outputHiddenView, copy path and every error path: the output is copied out
\* (or is not), slot.mu is unlocked and the lease is released at once.
CopyOut(c) ==
  /\ pc[c] = "evaluated"
  /\ UnlockThen(c, "releasing")
  /\ UNCHANGED <<mode, pool, surface, buffer, orphans, run, view, calls>>

\* Where outputHiddenView may leave an output whose lease it keeps. A mode falls
\* back to the copy path when the dtype, the bridge or the cast does not allow it.
Borrowable(m) ==
  CASE m = "copy" -> {}
    [] m = "iosurface_alias" -> {"surface"}
    [] m = "gpu_materialize_f32" -> {"buffer"}
    [] m = "gpu_materialize_native" -> {"buffer", "owned"}

\* Mutant of Borrow: scb.CopyInto is missing, the view shows what the buffer held.
BorrowUncopied(c) ==
  /\ pc[c] = "evaluated"
  /\ \E k \in Borrowable(mode) : view' = [view EXCEPT ![c] = k]
  /\ UnlockThen(c, "viewing")
  /\ UNCHANGED <<mode, pool, surface, buffer, orphans, run, calls>>

\* outputHiddenView returns a view that borrows the slot: slot.mu is unlocked and
\* the lease is kept until the view's release is called.
Borrow(c) ==
  /\ pc[c] = "evaluated"
  /\ \E k \in Borrowable(mode) :
       /\ view' = [view EXCEPT ![c] = k]
       /\ buffer' = IF k = "buffer"
                    THEN [buffer EXCEPT ![run[c].slot] = surface[run[c].slot]]
                    ELSE buffer
  /\ UnlockThen(c, "viewing")
  /\ UNCHANGED <<mode, pool, surface, orphans, run, calls>>

\* forwardFromEmbeddingsWithHook returns: its deferred releaseOutputViews got the
\* list of views as it was when the defer ran, empty, so no view is released.
ForgetView(c) ==
  /\ pc[c] = "viewing"
  /\ Goto(c, "idle")
  /\ run' = [run EXCEPT ![c] = NoRun]
  /\ view' = [view EXCEPT ![c] = "none"]
  /\ UNCHANGED <<mode, pool, mu, surface, buffer, orphans, calls>>

\* layerForward fails after the output was taken: releaseOutputViews(views).
DropView(c) ==
  /\ pc[c] = "viewing"
  /\ Goto(c, "releasing")
  /\ view' = [view EXCEPT ![c] = "none"]
  /\ UNCHANGED <<mode, pool, mu, surface, buffer, orphans, run, calls>>

\* releaseSlot under poolMu.
Release(c) ==
  /\ pc[c] = "releasing"
  /\ pool' = ReleaseLease(pool, run[c].slot, run[c].lease)
  /\ Goto(c, "idle")
  /\ run' = [run EXCEPT ![c] = NoRun]
  /\ UNCHANGED <<mode, mu, surface, buffer, orphans, view, calls>>

Begin(c) == AcquireFree(c) \/ AcquireBuild(c) \/ BuildFails(c) \/ Stall(c)

Advance(c) ==
  \/ SyncFails(c) \/ Reacquire(c)
  \/ PrepareFails(c) \/ StartEval(c)
  \/ EvalOk(c) \/ EvalFails(c) \/ AbortInFlight(c)
  \/ CopyOut(c) \/ Borrow(c) \/ ForgetView(c) \/ DropView(c) \/ Release(c)

\* Every caller has made its calls (the bound) and the ANE is quiet.
Finished ==
  /\ \A c \in Caller : pc[c] = "idle" /\ calls[c] = CallLimit[c]
  /\ orphans = {}
  /\ UNCHANGED vars

Next ==
  \/ \E c \in Caller : Begin(c) \/ LockSlot(c) \/ Advance(c)
  \/ OrphanLands
  \/ Finished

\* A goroutine that can run keeps running, an evaluation ends, and sync.Mutex does
\* not pass a waiter over forever.
Fairness ==
  /\ \A c \in Caller : WF_vars(Advance(c)) /\ SF_vars(LockSlot(c))
  /\ WF_vars(OrphanLands)

Spec == Init /\ [][Next]_vars /\ Fairness

-----------------------------------------------------------------------------
\* A run whose lease is still the slot's keeps the slot out of the free list until it
\* releases it: the late release of a run whose slot was stolen frees nobody's slot.
CurrentLeaseHeld ==
  \A c \in Caller :
    pc[c] \in Holding /\ pool.lease[run[c].slot] = run[c].lease => run[c].slot \in pool.inUse

\* What a run copies out of the output surface is its own output, whatever was stolen
\* meanwhile; only an evaluation left in flight by an aborted run can replace it.
OwnOutput ==
  \A c \in Caller : pc[c] = "evaluated" => surface[run[c].slot] \in {run[c].lease, Orphan}

\* The data behind a borrowed view.
ViewData(c) ==
  CASE view[c] = "surface" -> surface[run[c].slot]
    [] view[c] = "buffer" -> buffer[run[c].slot]
    [] OTHER -> run[c].lease

\* A decode loop that is alone on the stage keeps the view it works on intact even
\* after leases leaked by earlier calls exhausted the pool and slots are stolen.
SoloViewIntact ==
  \A c \in Caller :
    pc[c] = "viewing" /\ (\A d \in Caller \ {c} : calls[d] = 0)
      => ViewData(c) \in {run[c].lease, Orphan}

\* In copy mode, with no more callers than slots, no call ever synchronizes the GPU
\* stream or steals, and a slot that is free is unlocked: acquiring it never waits.
CopyModeNeverStalls ==
  mode = "copy" /\ Cardinality(Caller) <= pool.depth =>
    /\ \A c \in Caller : pc[c] # "stalled"
    /\ \A i \in Slots(pool) \ pool.inUse : mu[i] = None

\* Every call returns: stealing, aborting and failing leave no slot locked forever.
EveryCallReturns == \A c \in Caller : pc[c] # "idle" ~> pc[c] = "idle"
=============================================================================
