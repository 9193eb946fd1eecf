------------------------------ MODULE EventSync ------------------------------
(***************************************************************************)
(* The two shared events of an eval plan, and what they put in order       *)
(* (surface_eval_plan_darwin.go, shared_event_darwin.go,                   *)
(* mlx_sync_bridge_darwin.go and the events' part of decode/pool.go).      *)
(*                                                                         *)
(* Three parties share the surfaces of a slot.  The run that holds slot.mu *)
(* resets the wait event, encodes the copy of its input and a signal on    *)
(* the MLX stream and asks the ANE to evaluate.  The stream executes what  *)
(* is encoded, in order, once it is committed.  The ANE waits for the wait *)
(* event, reads the input, writes the output and signals the other event.  *)
(* A run that is aborted takes back nothing of what it has encoded, and    *)
(* stops no evaluation.                                                    *)
(*                                                                         *)
(* Data is identified by the run whose input it comes from.  The runs of a *)
(* slot come one after the other; what their leases add is SlotPool's.     *)
(***************************************************************************)
EXTENDS Naturals, Sequences

CONSTANTS
  RunLimit,  \* bound: runs on the slot
  Confs      \* the configurations, see Conf

\* events: what the plan has attached (EnableMetalWait, EnableMetalSignal and
\* MLXGO_ANE_METAL_SYNC); target: the WaitValue of the stage, that of its plan or one
\* of its own; output, waitMode: the stage's output and wait modes.
Conf == [events : SUBSET {"wait", "signal"}, target : {"plan", "own"},
         output : {"copy", "gpu_materialize_f32", "gpu_materialize_native"},
         waitMode : {"cpu_wait", "gpu_wait"}]

ASSUME EventSyncAssumption == RunLimit \in Nat /\ Confs \subseteq Conf

VARIABLES
  conf,      \* the configuration of stage and plan
  plan,      \* p.waitValue
  event,     \* the values of the two shared events
  stream,    \* the commands encoded on the MLX stream and not executed yet
  committed, \* how many of them are committed
  surface,   \* the run whose data is in the input and the output surface
  evals,     \* the evaluations of the runs, and the input each works on
  run,       \* the run that holds slot.mu, or held it last
  got,       \* the data in the view of each run, 0 if it is not there (yet)
  tainted    \* auxiliary: runs that something an earlier run has left behind may disturb

vars == <<conf, plan, event, stream, committed, surface, evals, run, got, tainted>>

Runs == 1..RunLimit

\* The value the request waits for, as it was attached; so is the one it signals.
Attached == 1

Command == [op : {"input", "ready", "wait", "output"}, arg : 0..RunLimit]
Input(r) == [op |-> "input", arg |-> r]
Ready(value) == [op |-> "ready", arg |-> value]
WaitANE == [op |-> "wait", arg |-> Attached]
Output(r) == [op |-> "output", arg |-> r]

TypeOK ==
  /\ conf \in Confs
  /\ plan \in 0..Attached
  /\ event \in [wait : 0..Attached, signal : 0..Attached]
  /\ stream \in Seq(Command) /\ committed \in 0..Len(stream)
  /\ surface \in [input : 0..RunLimit, output : 0..RunLimit]
  /\ evals \in [Runs -> [stage : {"none", "waiting", "running", "done", "failed"}, saw : 0..RunLimit]]
  /\ run \in [id : 0..RunLimit, single : BOOLEAN,
              pc : {"idle", "sync", "locked", "plain", "copied", "copy", "host", "prepared",
                    "ready", "evaluating", "evaluated", "materialize"}]
  /\ got \in [Runs -> 0..RunLimit] /\ tainted \subseteq Runs

\* newSurfaceEvalPlan.
Init ==
  /\ conf \in Confs
  /\ plan = Attached
  /\ event = [wait |-> 0, signal |-> 0]
  /\ stream = << >> /\ committed = 0
  /\ surface = [input |-> 0, output |-> 0]
  /\ evals = [r \in Runs |-> [stage |-> "none", saw |-> 0]]
  /\ run = [id |-> 0, single |-> FALSE, pc |-> "idle"]
  /\ got = [r \in Runs |-> 0]
  /\ tainted = {}

-----------------------------------------------------------------------------
HasWait == "wait" \in conf.events
HasSignal == "signal" \in conf.events
Waiting(op) == {stream[i].arg : i \in {j \in 1..Len(stream) : stream[j].op = op}}
Pending(r) == evals[r].stage \in {"waiting", "running"}

At(pc) == run.pc = pc
Goto(pc) == run' = [run EXCEPT !.pc = pc]
Encode(commands) == stream' = stream \o commands
Commit == committed' = Len(stream')

ane == <<surface, evals>>
gpu == <<stream, committed, got>>
host == <<conf, tainted>>
events == <<plan, event>>

\* SharedEvent.SetSignaledValue; the wrapper's value is a pointer to the plan's.
SetSignaledValue(value) == event' = [event EXCEPT !.wait = value] /\ plan' = value

\* sync.WaitValue().
WaitValue == IF conf.target = "plan" THEN plan ELSE Attached

-----------------------------------------------------------------------------
\* acquireSlot and slot.mu.Lock(). A slot whose view is still held is stolen after
\* mlxraw.Synchronize.
Begin ==
  /\ At("idle") /\ run.id < RunLimit
  /\ \E single \in BOOLEAN, pc \in {"sync", "locked"} :
       run' = [id |-> run.id + 1, single |-> single, pc |-> pc]
  /\ IF run'.pc = "sync" THEN committed' = Len(stream) ELSE UNCHANGED committed
  /\ UNCHANGED <<stream, got, ane, events, host>>

Synchronize ==
  /\ At("sync") /\ stream = << >>
  /\ Goto("locked")
  /\ UNCHANGED <<gpu, ane, events, host>>

\* What an earlier run has left behind: commands that write the input or set the event,
\* or an evaluation that nobody waits for.
LeftBehind ==
  \/ Waiting("input") \cup Waiting("ready") # {}
  \/ \E r \in Runs : Pending(r)

Disturbs(rs) == tainted' = tainted \cup rs

\* Mutant of ResetEvent: the event is left as the run before has signaled it.
NoResetEvent == UNCHANGED events

ResetEvent == IF HasWait THEN SetSignaledValue(0) ELSE UNCHANGED events

Reset ==
  /\ At("locked")
  /\ ResetEvent
  /\ Disturbs(IF LeftBehind THEN {run.id} \cup Waiting("output") ELSE {})
  /\ Goto(IF ~HasWait THEN "host" ELSE IF run.single THEN "plain" ELSE "copy")
  /\ UNCHANGED <<gpu, ane, conf>>

\* run.abort, or an error while the run is prepared: slot.mu is unlocked.
Abort == Goto("idle")

\* The event cannot be reset, or a fused norm finds no event.
ResetFails ==
  /\ At("locked") /\ (HasWait \/ run.single)
  /\ Abort
  /\ UNCHANGED <<gpu, ane, events, host>>

\* RMSNormIntoSignalReady and AddRMSNormIntoSignalReady; the stream is committed.
FusedNorm ==
  /\ At("plain")
  /\ Encode(<<Input(run.id), Ready(WaitValue)>>)
  /\ Commit
  /\ Goto("ready")
  /\ UNCHANGED <<got, ane, events, host>>

FusedNormFails ==
  /\ At("plain")
  /\ Abort
  /\ UNCHANGED <<gpu, ane, events, host>>

\* A single stage: the copy, and then a signal that commits the stream.
CopyInto ==
  /\ At("plain")
  /\ Encode(<<Input(run.id)>>)
  /\ Goto("copied")
  /\ UNCHANGED <<committed, got, ane, events, host>>

SignalMLXReady ==
  /\ At("copied")
  /\ Encode(<<Ready(WaitValue)>>)
  /\ Commit
  /\ Goto("ready")
  /\ UNCHANGED <<got, ane, events, host>>

\* Neither failure keeps the run from trying CopyIntoSignalReady.
SplitCopyFails ==
  /\ At("plain") \/ At("copied")
  /\ Goto("copy")
  /\ UNCHANGED <<gpu, ane, events, host>>

\* Mutant of CopyIntoSignalReady: the event is set by the CPU.
CopyIntoSetReady ==
  /\ At("copy")
  /\ Encode(<<Input(run.id)>>)
  /\ SetSignaledValue(WaitValue)
  /\ Goto("prepared")
  /\ UNCHANGED <<committed, got, ane, host>>

CopyIntoSignalReady ==
  /\ At("copy")
  /\ Encode(<<Input(run.id), Ready(WaitValue)>>)
  /\ Goto("prepared")
  /\ UNCHANGED <<committed, got, ane, events, host>>

\* The input surface cannot be aliased, or the copy cannot be encoded.
CopyFails ==
  /\ At("plain") \/ At("copy")
  /\ Goto("host")
  /\ UNCHANGED <<gpu, ane, events, host>>

\* The host writes the surface and sets the event, whatever the stream still has to do.
HostInput ==
  /\ At("host")
  /\ surface' = [surface EXCEPT !.input = run.id]
  /\ IF HasWait THEN SetSignaledValue(WaitValue) ELSE UNCHANGED events
  /\ Disturbs(Waiting("output"))
  /\ Goto("prepared")
  /\ UNCHANGED <<gpu, evals, conf>>

HostInputFails ==
  /\ At("host")
  /\ Abort
  /\ surface' \in {surface, [surface EXCEPT !.input = run.id]}
  /\ UNCHANGED <<gpu, evals, events, host>>

\* Mutant of FinalizeStream: the stream is left to itself.
FinalizeNothing ==
  /\ At("prepared")
  /\ Goto("ready")
  /\ UNCHANGED <<gpu, ane, events, host>>

\* dispatchPreparedStages commits what has been encoded, unless a run has done so.
FinalizeStream ==
  /\ At("prepared")
  /\ committed' = Len(stream)
  /\ Goto("ready")
  /\ UNCHANGED <<stream, got, ane, events, host>>

\* It fails, or another stage of the same dispatch cannot be prepared.
PreparedAborts ==
  /\ At("prepared")
  /\ Abort
  /\ UNCHANGED <<gpu, ane, events, host>>

-----------------------------------------------------------------------------
\* SurfaceEvalPlan.Eval; it refuses a context that is done.
Eval ==
  /\ At("ready")
  /\ evals' = [evals EXCEPT ![run.id].stage = "waiting"]
  /\ Goto("evaluating")
  /\ UNCHANGED <<gpu, surface, events, host>>

EvalRefused ==
  /\ At("ready")
  /\ Abort
  /\ UNCHANGED <<gpu, ane, events, host>>

Evaluated ==
  /\ At("evaluating") /\ evals[run.id].stage = "done"
  /\ Goto("evaluated")
  /\ UNCHANGED <<gpu, ane, events, host>>

EvalFails ==
  /\ At("evaluating") /\ evals[run.id].stage = "failed"
  /\ Abort
  /\ UNCHANGED <<gpu, ane, events, host>>

\* The run is aborted while the evaluation goes on.
AbortInFlight ==
  /\ At("evaluating") /\ Pending(run.id)
  /\ Abort
  /\ UNCHANGED <<gpu, ane, events, host>>

\* outputHiddenView: the output is copied out at once.
CopyOut ==
  /\ At("evaluated")
  /\ conf.output = "copy"
  /\ got' = [got EXCEPT ![run.id] = surface.output]
  /\ Goto("idle")
  /\ UNCHANGED <<stream, committed, ane, events, host>>

\* waitForOutputReady, by a command on the stream or by the CPU.
WaitOutput ==
  /\ At("evaluated")
  /\ conf.output # "copy" /\ HasSignal
  /\ IF conf.waitMode = "gpu_wait"
     THEN Encode(<<WaitANE>>)
     ELSE event.signal >= Attached /\ UNCHANGED stream
  /\ Goto("materialize")
  /\ UNCHANGED <<committed, got, ane, events, host>>

\* There is no signal event, or it is not signaled in two seconds.
WaitOutputFails ==
  /\ At("evaluated")
  /\ conf.output # "copy"
  /\ ~HasSignal \/ (conf.waitMode = "cpu_wait" /\ event.signal < Attached)
  /\ Abort
  /\ UNCHANGED <<gpu, ane, events, host>>

\* CopyInto the slot's buffer is encoded, and slot.mu unlocked.
Materialize ==
  /\ At("materialize")
  /\ Encode(<<Output(run.id)>>)
  /\ Goto("idle")
  /\ UNCHANGED <<committed, got, ane, events, host>>

MaterializeFails ==
  /\ At("materialize")
  /\ IF conf.output = "gpu_materialize_native"
     THEN got' = [got EXCEPT ![run.id] = surface.output]
     ELSE UNCHANGED got
  /\ Goto("idle")
  /\ UNCHANGED <<stream, committed, ane, events, host>>

-----------------------------------------------------------------------------
\* MLX may commit what is encoded whenever it likes.
MLXCommits ==
  /\ committed < Len(stream)
  /\ committed' = Len(stream)
  /\ UNCHANGED <<stream, got, run, ane, events, host>>

\* The next committed command is executed.
Execute ==
  /\ committed > 0
  /\ LET c == Head(stream)
     IN /\ c.op = "wait" => event.signal >= c.arg
        /\ event' = IF c.op = "ready" THEN [event EXCEPT !.wait = c.arg] ELSE event
        /\ surface' = IF c.op = "input" THEN [surface EXCEPT !.input = c.arg] ELSE surface
        /\ got' = IF c.op = "output" THEN [got EXCEPT ![c.arg] = surface.output] ELSE got
  /\ stream' = Tail(stream) /\ committed' = committed - 1
  /\ UNCHANGED <<plan, evals, run, host>>

\* The ANE waits for the event if the request has one.
ANEStarts(r) ==
  /\ evals[r].stage = "waiting"
  /\ HasWait => event.wait >= Attached
  /\ evals' = [evals EXCEPT ![r] = [stage |-> "running", saw |-> surface.input]]
  /\ UNCHANGED <<surface, run, gpu, events, host>>

ANEFinishes(r) ==
  /\ evals[r].stage = "running"
  /\ evals' = [evals EXCEPT ![r] = [stage |-> "done", saw |-> 0]]
  /\ surface' = [surface EXCEPT !.output = evals[r].saw]
  /\ event' = IF HasSignal THEN [event EXCEPT !.signal = Attached] ELSE event
  /\ UNCHANGED <<plan, run, gpu, host>>

ANEFails(r) ==
  /\ Pending(r)
  /\ evals' = [evals EXCEPT ![r] = [stage |-> "failed", saw |-> 0]]
  /\ UNCHANGED <<surface, run, gpu, events, host>>

-----------------------------------------------------------------------------
\* The steps of the run.
Host ==
  \/ Synchronize \/ Reset \/ ResetFails \/ FusedNorm \/ FusedNormFails \/ CopyInto
  \/ SignalMLXReady \/ SplitCopyFails \/ CopyIntoSignalReady \/ CopyFails \/ HostInput
  \/ HostInputFails \/ FinalizeStream \/ PreparedAborts \/ Eval \/ EvalRefused \/ Evaluated
  \/ EvalFails \/ CopyOut \/ WaitOutput \/ WaitOutputFails \/ Materialize \/ MaterializeFails

ANE(r) == ANEStarts(r) \/ ANEFinishes(r)

\* The bound is reached.
Finished == At("idle") /\ run.id = RunLimit /\ UNCHANGED vars

Next ==
  \/ Begin \/ Host \/ AbortInFlight \/ MLXCommits \/ Execute \/ Finished
  \/ \E r \in Runs : ANE(r) \/ ANEFails(r)

\* The goroutine goes on, the GPU executes what is committed, and the ANE evaluates;
\* nobody has to commit the stream, nor to give an evaluation up.
Spec ==
  /\ Init /\ [][Next]_vars
  /\ WF_vars(Host) /\ WF_vars(Execute) /\ \A r \in Runs : WF_vars(ANE(r))

-----------------------------------------------------------------------------
\* An evaluation reads the input of the run that waits for it, however the input gets
\* there, and leaves that run's output: unless an earlier run that was aborted, or that
\* fell back to the host, has left a command on the stream or an evaluation behind.
OwnInput ==
  run.id \notin tainted =>
    /\ run.pc = "evaluating" /\ evals[run.id].stage = "running" => evals[run.id].saw = run.id
    /\ run.pc \in {"evaluated", "materialize"} => surface.output = run.id

\* The view of a run shows its own output, even if the copy is only executed after later
\* runs have taken over the slot: the next input, and so the next evaluation, comes after
\* it on the stream. The exceptions are the runs above, and a next run that writes its
\* input by the host and so overtakes the stream.
ViewShowsOwn == \A r \in Runs \ tainted : got[r] \in {0, r}

\* An evaluation that a run waits for ends: what signals it is on the stream and is
\* committed. This needs a stage whose WaitValue is its own: the WaitValue of a plan is
\* overwritten when the event is reset, and its request then waits for a value that is
\* not signaled.
EvaluationReturns ==
  At("evaluating") /\ (conf.target = "own" \/ ~HasWait) ~> ~At("evaluating")
=============================================================================
