--------------------------- MODULE ProgramProofs ---------------------------
(***************************************************************************)
(* Proofs about what a compiled program is made of, and how it is          *)
(* evaluated: the shared events of an eval plan (EventSync), and the draft *)
(* model with its programs, surfaces and requests (DraftBuild and          *)
(* DraftStart).                                                            *)
(*                                                                         *)
(* 1. For every number of runs on the slot and every configuration, an     *)
(* evaluation reads the input of its own run, and the view of a run shows  *)
(* its own output, unless an earlier run has left something behind or a    *)
(* later one has overtaken the stream.  Both come from one invariant with  *)
(* two halves.  The first is about the run that holds slot.mu, if it found *)
(* nothing left behind: what is encoded of inputs is its own, there is at  *)
(* most one signal and none before an input, so whoever sees the event     *)
(* signaled sees the input.  The second is about the copies that are still *)
(* on the stream: while there is one, the output surface keeps what it is  *)
(* to copy, since no evaluation runs and the signal that could start one   *)
(* comes after it.                                                         *)
(*                                                                         *)
(* 2. For every environment, every number of compile profiles and every    *)
(* plan configuration, a draft model that is open is whole, a mapped       *)
(* request has its surfaces and its model, nothing is held between two     *)
(* calls that the model does not own, and the drafter that is returned can *)
(* draft.  DraftInv gives every identity of a program one role at a time   *)
(* (a program of the draft, one being made, one built, one retiring, one   *)
(* closing, or none) and says for each role exactly what the program holds *)
(* at each stage of the job; the K/V states that are held are those of the *)
(* draft, the job and the caller.  StartOk adds where NewANEDrafter may be *)
(* while a job is under way, and what it has settled by then.              *)
(***************************************************************************)
EXTENDS EventSync, DraftStart, SequenceTheorems, WellFoundedInduction, NaturalsInduction,
        FiniteSetTheorems, TLAPS

Positions == 1..Len(stream)
IsInput(i) == stream[i].op = "input"
IsReady(i) == stream[i].op = "ready"
IsOutput(i) == stream[i].op = "output"
NoReady == \A i \in Positions : ~IsReady(i)

\* The run has looked for what is left behind, and not ended yet.
Active == run.pc \notin {"idle", "sync", "locked"}

\* Without a wait event nobody signals it.
Unattached ==
  /\ ~HasWait => NoReady
  /\ run.pc \in {"plain", "copied", "copy"} => HasWait

\* What a run that found nothing left behind can count on: only its own input is encoded,
\* and nobody else evaluates.
Alone ==
  /\ \A i \in Positions : IsInput(i) => stream[i].arg = run.id
  /\ \A r \in Runs : Pending(r) => r = run.id /\ run.pc = "evaluating"

\* The event is not signaled before the input is encoded.
NotSignaled ==
  /\ run.pc \in {"plain", "copied", "copy", "host"} => NoReady /\ (HasWait => event.wait = 0)
  /\ run.pc = "copied" => surface.input = run.id \/ \E i \in Positions : IsInput(i)

\* Who sees the event signaled sees the input, and no other signal is under way; without
\* an event the input is there before the evaluation is.
SignaledIsInput ==
  /\ HasWait /\ event.wait = Attached => surface.input = run.id /\ NoReady
  /\ ~HasWait /\ run.pc \in {"prepared", "ready", "evaluating"} => surface.input = run.id

\* The one signal on the stream comes after the input.
ReadyAfterInput ==
  \A i \in Positions : IsReady(i) =>
    /\ surface.input = run.id \/ \E j \in 1..(i - 1) : IsInput(j)
    /\ \A j \in Positions : IsReady(j) => j = i

\* What the evaluation reads and writes is the run's.
OwnData ==
  /\ run.pc = "evaluating" /\ evals[run.id].stage = "running" =>
       evals[run.id].saw = run.id /\ NoReady
  /\ run.pc = "evaluating" /\ evals[run.id].stage = "done" =>
       surface.output = run.id /\ NoReady
  /\ run.pc \in {"evaluated", "materialize"} => surface.output = run.id /\ NoReady

InputFirst == Alone /\ NotSignaled /\ SignaledIsInput /\ ReadyAfterInput /\ OwnData

\* What keeps the output surface until the copy at i of an undisturbed run is executed.
OutputKept(i) ==
  /\ surface.output = stream[i].arg
  /\ \A j \in 1..(i - 1) : ~IsReady(j)
  /\ \A r \in Runs : evals[r].stage # "running"
  /\ \A r \in Runs : evals[r].stage = "waiting" => HasWait /\ event.wait = 0
  /\ run.pc \in {"plain", "copied", "copy", "prepared", "ready"} => HasWait /\ event.wait = 0
  /\ run.pc \notin {"evaluated", "materialize"}
  /\ run.pc = "evaluating" => evals[run.id].stage # "done"

OutputsKept == \A i \in Positions : IsOutput(i) /\ stream[i].arg \notin tainted => OutputKept(i)

\* A command names the run it comes from, and a signal a value of the event.
Named ==
  /\ run.pc # "idle" => run.id \in Runs
  /\ \A i \in Positions : IsOutput(i) => stream[i].arg \in Runs
  /\ \A i \in Positions : IsReady(i) => stream[i].arg \in 0..Attached

IInv ==
  /\ TypeOK /\ Named /\ Unattached
  /\ Active /\ run.id \notin tainted => InputFirst
  /\ OutputsKept /\ ViewShowsOwn

-----------------------------------------------------------------------------
\* What encoding commands does to the stream.
LEMMA EncodeFacts ==
  ASSUME stream \in Seq(Command), NEW cs \in Seq(Command), Encode(cs)
  PROVE  /\ stream' \in Seq(Command)
         /\ Len(stream) \in Nat /\ Len(cs) \in Nat
         /\ Len(stream') = Len(stream) + Len(cs)
         /\ \A i \in 1..Len(stream) : stream'[i] = stream[i]
         /\ \A i \in 1..Len(cs) : stream'[Len(stream) + i] = cs[i]
BY ConcatProperties, LenProperties DEF Encode

\* What executing a command does to it.
LEMMA ExecuteFacts ==
  ASSUME stream \in Seq(Command), committed \in 0..Len(stream), committed > 0,
         stream' = Tail(stream)
  PROVE  /\ stream' \in Seq(Command)
         /\ Len(stream) \in Nat \ {0}
         /\ stream[1] = Head(stream) /\ Head(stream) \in Command
         /\ Len(stream') = Len(stream) - 1
         /\ \A i \in 1..Len(stream') : stream'[i] = stream[i + 1]
<1>1. Len(stream) \in Nat /\ stream # << >>
  BY EmptySeq, LenProperties
<1>2. QED
  BY <1>1, HeadTailProperties, ElementOfSeq

LEMMA CommandFacts ==
  ASSUME TypeOK, run.id \in Runs
  PROVE  /\ Input(run.id) \in Command /\ Output(run.id) \in Command /\ WaitANE \in Command
         /\ Ready(WaitValue) \in Command /\ WaitValue \in 0..Attached
<1>1. RunLimit \in Nat /\ RunLimit >= 1
  BY EventSyncAssumption DEF Runs
<1>2. plan \in 0..1 /\ run.id \in 0..RunLimit
  BY DEF TypeOK, Attached
<1>3. WaitValue \in 0..Attached
  BY <1>2 DEF WaitValue, Attached
<1>4. QED
  BY <1>1, <1>2, <1>3 DEF Command, Input, Output, WaitANE, Ready, Attached

Places == {"idle", "sync", "locked", "plain", "copied", "copy", "host", "prepared", "ready",
           "evaluating", "evaluated", "materialize"}
RunRec == [id : 0..RunLimit, single : BOOLEAN, pc : Places]
EvalRec == [stage : {"none", "waiting", "running", "done", "failed"}, saw : 0..RunLimit]

LEMMA TypeIs ==
  TypeOK <=> /\ conf \in Confs
             /\ plan \in 0..1
             /\ event \in [wait : 0..1, signal : 0..1]
             /\ stream \in Seq(Command) /\ committed \in 0..Len(stream)
             /\ surface \in [input : 0..RunLimit, output : 0..RunLimit]
             /\ evals \in [Runs -> EvalRec]
             /\ run \in RunRec
             /\ got \in [Runs -> 0..RunLimit] /\ tainted \subseteq Runs
BY DEF TypeOK, Attached, EvalRec, RunRec, Places

LEMMA TypeIsNext ==
  TypeOK' <=> /\ conf' \in Confs
              /\ plan' \in 0..1
              /\ event' \in [wait : 0..1, signal : 0..1]
              /\ stream' \in Seq(Command) /\ committed' \in 0..Len(stream')
              /\ surface' \in [input : 0..RunLimit, output : 0..RunLimit]
              /\ evals' \in [Runs -> EvalRec]
              /\ run' \in RunRec
              /\ got' \in [Runs -> 0..RunLimit] /\ tainted' \subseteq Runs
BY DEF TypeOK, Attached, EvalRec, RunRec, Places

LEMMA GotoFacts ==
  ASSUME TypeOK, NEW p \in Places, Goto(p)
  PROVE  run' \in RunRec /\ run'.pc = p /\ run'.id = run.id /\ run'.single = run.single
<1>1. run \in RunRec
  BY TypeIs
<1>2. QED
  BY <1>1 DEF Goto, RunRec

LEMMA TypeInit == Init => TypeOK /\ Named
<1> SUFFICES ASSUME Init PROVE TypeOK /\ Named
  OBVIOUS
<1>1. stream \in Seq(Command) /\ Len(stream) = 0
  BY EmptySeq DEF Init
<1>2. run \in RunRec /\ run.pc = "idle"
  BY EventSyncAssumption DEF Init, RunRec, Places
<1>3. evals \in [Runs -> EvalRec] /\ got \in [Runs -> 0..RunLimit] /\ tainted \subseteq Runs
  BY EventSyncAssumption DEF Init, EvalRec
<1>4. /\ conf \in Confs /\ plan \in 0..1 /\ event \in [wait : 0..1, signal : 0..1]
      /\ surface \in [input : 0..RunLimit, output : 0..RunLimit] /\ committed = 0
  BY EventSyncAssumption DEF Init, Attached
<1>5. QED
  BY <1>1, <1>2, <1>3, <1>4, TypeIs DEF Named, Positions

\* The actions that only move the run, in groups by where it goes.
ToIdle ==
  \/ ResetFails \/ FusedNormFails \/ PreparedAborts \/ EvalRefused \/ EvalFails
  \/ WaitOutputFails \/ AbortInFlight

LEMMA ToIdleFacts ==
  ASSUME TypeOK, ToIdle
  PROVE  /\ Goto("idle")
         /\ run.pc \notin {"idle", "sync", "copied", "copy", "host", "materialize"}
         /\ UNCHANGED <<conf, plan, event, stream, committed, surface, evals, got, tainted>>
BY DEF ToIdle, ResetFails, FusedNormFails, PreparedAborts, EvalRefused, EvalFails,
   WaitOutputFails, AbortInFlight, Abort, At, ane, gpu, host, events

Moves == Synchronize \/ SplitCopyFails \/ CopyFails \/ Evaluated \/ FinalizeStream

LEMMA MovesFacts ==
  ASSUME TypeOK, Moves
  PROVE  /\ UNCHANGED <<conf, plan, event, stream, surface, evals, got, tainted>>
         /\ committed' \in 0..Len(stream)
         /\ \/ run.pc = "sync" /\ Goto("locked")
            \/ run.pc \in {"plain", "copied"} /\ Goto("copy")
            \/ run.pc \in {"plain", "copy"} /\ Goto("host")
            \/ /\ run.pc = "evaluating" /\ evals[run.id].stage = "done"
               /\ Goto("evaluated")
            \/ run.pc = "prepared" /\ Goto("ready")
<1>1. Len(stream) \in Nat /\ committed \in 0..Len(stream)
  BY LenProperties, TypeIs
<1>2. QED
  BY <1>1 DEF Moves, Synchronize, SplitCopyFails, CopyFails, Evaluated, FinalizeStream,
     At, ane, gpu, host, events

\* The actions that encode commands.
Encodes == FusedNorm \/ CopyInto \/ SignalMLXReady \/ CopyIntoSignalReady \/ Materialize
             \/ (WaitOutput /\ conf.waitMode = "gpu_wait")

LEMMA EncodesFacts ==
  ASSUME TypeOK, Encodes
  PROVE  /\ UNCHANGED <<conf, plan, event, surface, evals, got, tainted>>
         /\ committed' \in {committed, Len(stream')}
         /\ \/ run.pc = "plain" /\ Encode(<<Input(run.id), Ready(WaitValue)>>) /\ Goto("ready")
            \/ run.pc = "plain" /\ Encode(<<Input(run.id)>>) /\ Goto("copied")
            \/ run.pc = "copied" /\ Encode(<<Ready(WaitValue)>>) /\ Goto("ready")
            \/ run.pc = "copy" /\ Encode(<<Input(run.id), Ready(WaitValue)>>) /\ Goto("prepared")
            \/ run.pc = "materialize" /\ Encode(<<Output(run.id)>>) /\ Goto("idle")
            \/ run.pc = "evaluated" /\ Encode(<<WaitANE>>) /\ Goto("materialize")
BY DEF Encodes, FusedNorm, CopyInto, SignalMLXReady, CopyIntoSignalReady, Materialize, WaitOutput,
   Commit, At, ane, gpu, host, events

\* What is encoded is a sequence of commands.
LEMMA EncodedFacts ==
  ASSUME TypeOK, Named, Encodes
  PROVE  /\ \E cs \in Seq(Command) : Encode(cs)
         /\ stream' \in Seq(Command) /\ committed' \in 0..Len(stream')
<1>1. run.id \in Runs
  BY EncodesFacts DEF Named
<1>a. /\ <<Input(run.id), Ready(WaitValue)>> \in Seq(Command)
      /\ <<Input(run.id)>> \in Seq(Command) /\ <<Ready(WaitValue)>> \in Seq(Command)
      /\ <<Output(run.id)>> \in Seq(Command) /\ <<WaitANE>> \in Seq(Command)
  BY <1>1, CommandFacts
<1>2. \E cs \in Seq(Command) : Encode(cs)
  BY <1>a, EncodesFacts, Zenon
<1>3. stream \in Seq(Command) /\ committed \in 0..Len(stream)
  BY TypeIs
<1>4. PICK cs \in Seq(Command) : Encode(cs)
  BY <1>2
<1>5. /\ stream' \in Seq(Command) /\ Len(stream) \in Nat /\ Len(cs) \in Nat
      /\ Len(stream') = Len(stream) + Len(cs)
  BY <1>3, <1>4, EncodeFacts
<1>6. committed' \in {committed, Len(stream')}
  BY EncodesFacts
<1>7. committed' \in 0..Len(stream')
  BY <1>3, <1>5, <1>6
<1>8. QED
  BY <1>2, <1>5, <1>7

LEMMA WaitingFacts ==
  ASSUME TypeOK, Named
  PROVE  Waiting("output") \subseteq Runs
BY DEF Waiting, Named, Positions, IsOutput

LEMMA TypeStep ==
  ASSUME TypeOK, Named, [Next]_vars
  PROVE  TypeOK'
<1>1. /\ conf \in Confs /\ plan \in 0..1 /\ event \in [wait : 0..1, signal : 0..1]
      /\ stream \in Seq(Command) /\ committed \in 0..Len(stream) /\ Len(stream) \in Nat
      /\ surface \in [input : 0..RunLimit, output : 0..RunLimit]
      /\ evals \in [Runs -> EvalRec] /\ run \in RunRec /\ RunLimit \in Nat
      /\ got \in [Runs -> 0..RunLimit] /\ tainted \subseteq Runs
  BY TypeIs, LenProperties, EventSyncAssumption
<1>2. /\ {"idle", "locked", "copy", "host", "evaluated", "ready", "copied", "prepared",
          "materialize", "plain", "evaluating"} \subseteq Places
      /\ run.id \in 0..RunLimit /\ Runs \subseteq 0..RunLimit
      /\ run.pc # "idle" => run.id \in Runs
  BY <1>1 DEF Places, RunRec, Runs, Named
<1>3. ASSUME NEW p \in Places, Goto(p)
      PROVE  run' \in RunRec
  BY <1>3, GotoFacts
<1>4. CASE ToIdle
  BY <1>1, <1>2, <1>3, <1>4, ToIdleFacts, TypeIsNext
<1>5. CASE Moves
  BY <1>1, <1>2, <1>3, <1>5, MovesFacts, TypeIsNext
<1>6. CASE Encodes
  <2>1. run' \in RunRec
    BY <1>2, <1>3, <1>6, EncodesFacts
  <2>2. QED
    BY <1>1, <1>6, <2>1, EncodesFacts, EncodedFacts, TypeIsNext
<1>7. CASE Begin
  <2>1. run' \in RunRec
    BY <1>1, <1>7 DEF Begin, At, RunRec, Places
  <2>2. committed' \in 0..Len(stream) /\ UNCHANGED <<stream, got, ane, events, host>>
    BY <1>1, <1>7 DEF Begin
  <2>3. QED
    BY <1>1, <2>1, <2>2, TypeIsNext DEF ane, events, host
<1>8. CASE Reset
  <2>1. run' \in RunRec
    BY <1>2, <1>3, <1>8 DEF Reset
  <2>2. plan' \in 0..1 /\ event' \in [wait : 0..1, signal : 0..1]
    BY <1>1, <1>8 DEF Reset, ResetEvent, SetSignaledValue, events
  <2>3. tainted' \subseteq Runs
    BY <1>1, <1>2, <1>8, WaitingFacts DEF Reset, Disturbs, At
  <2>4. QED
    BY <1>1, <1>8, <2>1, <2>2, <2>3, TypeIsNext DEF Reset, gpu, ane
<1>9. CASE HostInput
  <2>1. run' \in RunRec
    BY <1>2, <1>3, <1>9 DEF HostInput
  <2>2. plan' \in 0..1 /\ event' \in [wait : 0..1, signal : 0..1]
    BY <1>1, <1>9 DEF HostInput, WaitValue, Attached, SetSignaledValue, events
  <2>3. tainted' \subseteq Runs
    BY <1>1, <1>9, WaitingFacts DEF HostInput, Disturbs
  <2>4. surface' \in [input : 0..RunLimit, output : 0..RunLimit]
    BY <1>1, <1>2, <1>9 DEF HostInput
  <2>5. QED
    BY <1>1, <1>9, <2>1, <2>2, <2>3, <2>4, TypeIsNext DEF HostInput, gpu
<1>10. CASE HostInputFails
  <2>1. run' \in RunRec
    BY <1>2, <1>3, <1>10 DEF HostInputFails, Abort
  <2>2. surface' \in [input : 0..RunLimit, output : 0..RunLimit]
    BY <1>1, <1>2, <1>10 DEF HostInputFails
  <2>3. QED
    BY <1>1, <1>10, <2>1, <2>2, TypeIsNext DEF HostInputFails, gpu, events, host
<1>11. CASE Eval
  <2>1. run' \in RunRec
    BY <1>2, <1>3, <1>11 DEF Eval
  <2>2. evals' \in [Runs -> EvalRec]
    BY <1>1, <1>11 DEF Eval, EvalRec
  <2>3. QED
    BY <1>1, <1>11, <2>1, <2>2, TypeIsNext DEF Eval, gpu, events, host
<1>12. CASE CopyOut \/ MaterializeFails
  <2>1. run' \in RunRec
    BY <1>2, <1>3, <1>12 DEF CopyOut, MaterializeFails
  <2>2. got' \in [Runs -> 0..RunLimit]
    BY <1>1, <1>12 DEF CopyOut, MaterializeFails
  <2>3. QED
    BY <1>1, <1>12, <2>1, <2>2, TypeIsNext DEF CopyOut, MaterializeFails, ane, events, host
<1>13. CASE WaitOutput /\ conf.waitMode # "gpu_wait"
  <2>1. run' \in RunRec
    BY <1>2, <1>3, <1>13 DEF WaitOutput
  <2>2. QED
    BY <1>1, <1>13, <2>1, TypeIsNext DEF WaitOutput, ane, events, host
<1>14. CASE MLXCommits
  BY <1>1, <1>14, TypeIsNext DEF MLXCommits, ane, events, host
<1>15. CASE Execute
  <2>1. /\ stream' \in Seq(Command) /\ Head(stream) \in Command
        /\ Len(stream) \in Nat \ {0} /\ Len(stream') = Len(stream) - 1
    BY <1>1, <1>15, ExecuteFacts DEF Execute
  <2>2. committed' \in 0..Len(stream')
    BY <1>1, <1>15, <2>1 DEF Execute
  <2>3. event' \in [wait : 0..1, signal : 0..1]
    <3>1. Head(stream) = stream[1] /\ 1 \in Positions
      BY <1>1, <1>15, ExecuteFacts DEF Execute, Positions
    <3>2. Head(stream).op = "ready" => Head(stream).arg \in 0..1
      BY <3>1 DEF Named, IsReady, Attached
    <3>3. QED
      BY <1>1, <1>15, <3>2 DEF Execute
  <2>4. surface' \in [input : 0..RunLimit, output : 0..RunLimit]
    BY <1>1, <1>15, <2>1 DEF Execute, Command
  <2>5. got' \in [Runs -> 0..RunLimit]
    BY <1>1, <1>15, <2>1 DEF Execute
  <2>6. QED
    BY <1>1, <1>15, <2>1, <2>2, <2>3, <2>4, <2>5, TypeIsNext DEF Execute, host
<1>16. ASSUME NEW r \in Runs, ANEStarts(r) \/ ANEFinishes(r) \/ ANEFails(r)
       PROVE  TypeOK'
  <2>1. evals[r] \in EvalRec /\ evals[r].saw \in 0..RunLimit /\ surface.input \in 0..RunLimit
    BY <1>1 DEF EvalRec
  <2>2. evals' \in [Runs -> EvalRec]
    <3>1. \E x \in EvalRec : evals' = [evals EXCEPT ![r] = x]
      <4>1. /\ [stage |-> "running", saw |-> surface.input] \in EvalRec
            /\ [stage |-> "done", saw |-> 0] \in EvalRec
            /\ [stage |-> "failed", saw |-> 0] \in EvalRec
        BY <1>1, <2>1 DEF EvalRec
      <4>2. QED
        BY <1>16, <4>1 DEF ANEStarts, ANEFinishes, ANEFails
    <3>2. QED
      BY <1>1, <3>1
  <2>3. event' \in [wait : 0..1, signal : 0..1]
    BY <1>1, <1>16 DEF ANEStarts, ANEFinishes, ANEFails, Attached, events
  <2>4. surface' \in [input : 0..RunLimit, output : 0..RunLimit]
    BY <1>1, <1>16, <2>1 DEF ANEStarts, ANEFinishes, ANEFails
  <2>5. UNCHANGED <<plan, run, gpu, host>>
    BY <1>16 DEF ANEStarts, ANEFinishes, ANEFails, events
  <2>6. QED
    BY <1>1, <2>2, <2>3, <2>4, <2>5, TypeIsNext DEF gpu, host
<1>17. CASE UNCHANGED vars
  BY <1>1, <1>17, TypeIsNext DEF vars
<1>18. QED
  BY <1>4, <1>5, <1>6, <1>7, <1>8, <1>9, <1>10, <1>11, <1>12, <1>13, <1>14, <1>15, <1>16, <1>17
  DEF Next, Host, ANE, Finished, ToIdle, Moves, Encodes

\* Whoever changes the stream encodes or executes.
LEMMA StreamStep ==
  ASSUME [Next]_vars
  PROVE  Encodes \/ Execute \/ UNCHANGED stream
BY DEF Next, Host, ANE, Finished, Encodes, vars, gpu, ane,
   Begin, Synchronize, Reset, ResetFails, FusedNormFails, SplitCopyFails, CopyFails,
   HostInput, HostInputFails, FinalizeStream, PreparedAborts, Eval, EvalRefused, Evaluated,
   EvalFails, AbortInFlight, CopyOut, WaitOutput, WaitOutputFails, MaterializeFails,
   MLXCommits, ANEStarts, ANEFinishes, ANEFails

LEMMA RunStep ==
  ASSUME TypeOK, Named, [Next]_vars
  PROVE  run'.pc # "idle" => run'.id \in Runs
<1>1. run \in RunRec /\ (run.pc # "idle" => run.id \in Runs) /\ RunLimit \in Nat
  BY TypeIs, EventSyncAssumption DEF Named
<1>2. CASE Begin
  BY <1>1, <1>2 DEF Begin, At, RunRec, Runs
<1>3. CASE UNCHANGED run
  BY <1>1, <1>3
<1>4. ASSUME NEW p \in Places, Goto(p), run.pc # "idle"
      PROVE  run'.pc # "idle" => run'.id \in Runs
  BY <1>1, <1>4, GotoFacts
<1>5. CASE \E p \in Places : Goto(p) /\ run.pc # "idle"
  BY <1>4, <1>5
<1>6. QED
  BY <1>2, <1>3, <1>5 DEF Next, Host, ANE, Finished, vars, Places, At, Abort,
   Synchronize, Reset, ResetFails, FusedNorm, FusedNormFails, CopyInto, SignalMLXReady,
   SplitCopyFails, CopyIntoSignalReady, CopyFails,
   HostInput, HostInputFails, FinalizeStream, PreparedAborts, Eval, EvalRefused, Evaluated,
   EvalFails, AbortInFlight, CopyOut, WaitOutput, WaitOutputFails, Materialize, MaterializeFails,
   MLXCommits, Execute, ANEStarts, ANEFinishes, ANEFails

LEMMA NamedStep ==
  ASSUME TypeOK, Named, [Next]_vars
  PROVE  Named'
<1>1. /\ stream \in Seq(Command) /\ committed \in 0..Len(stream) /\ Len(stream) \in Nat
      /\ \A i \in Positions : IsOutput(i) => stream[i].arg \in Runs
      /\ \A i \in Positions : IsReady(i) => stream[i].arg \in 0..Attached
  BY TypeIs, LenProperties DEF Named
<1>2. SUFFICES /\ \A i \in Positions' : IsOutput(i)' => stream'[i].arg \in Runs
               /\ \A i \in Positions' : IsReady(i)' => stream'[i].arg \in 0..Attached
  BY RunStep DEF Named
<1>3. CASE UNCHANGED stream
  BY <1>1, <1>3 DEF Positions, IsOutput, IsReady
<1>4. CASE Execute
  <2>1. \A i \in 1..Len(stream') : stream'[i] = stream[i + 1] /\ i + 1 \in Positions
    BY <1>1, <1>4, ExecuteFacts DEF Execute, Positions
  <2>2. QED
    BY <1>1, <2>1 DEF Positions, IsOutput, IsReady
<1>5. CASE Encodes
  <2>1. run.id \in Runs
    BY <1>5, EncodesFacts DEF Named
  <2>2. PICK cs \in Seq(Command) :
          /\ Encode(cs)
          /\ \A i \in 1..Len(cs) : /\ cs[i].op = "output" => cs[i].arg \in Runs
                                   /\ cs[i].op = "ready" => cs[i].arg \in 0..Attached
    <3>1. /\ <<Input(run.id), Ready(WaitValue)>> \in Seq(Command)
          /\ <<Input(run.id)>> \in Seq(Command) /\ <<Ready(WaitValue)>> \in Seq(Command)
          /\ <<Output(run.id)>> \in Seq(Command) /\ <<WaitANE>> \in Seq(Command)
          /\ WaitValue \in 0..Attached
      BY <2>1, CommandFacts
    <3> DEFINE Good(cs) ==
          \A i \in 1..Len(cs) : /\ cs[i].op = "output" => cs[i].arg \in Runs
                                /\ cs[i].op = "ready" => cs[i].arg \in 0..Attached
    <3>2. /\ Good(<<Input(run.id), Ready(WaitValue)>>) /\ Good(<<Input(run.id)>>)
          /\ Good(<<Ready(WaitValue)>>) /\ Good(<<Output(run.id)>>) /\ Good(<<WaitANE>>)
      BY <2>1, <3>1 DEF Input, Ready, Output, WaitANE
    <3> HIDE DEF Good
    <3>3. \E cs \in Seq(Command) : Encode(cs) /\ Good(cs)
      BY <1>5, <3>1, <3>2, EncodesFacts, Zenon
    <3>4. QED
      BY <3>3 DEF Good
  <2>3. /\ Len(cs) \in Nat /\ Len(stream') = Len(stream) + Len(cs)
        /\ \A i \in 1..Len(stream) : stream'[i] = stream[i]
        /\ \A i \in 1..Len(cs) : stream'[Len(stream) + i] = cs[i]
    BY <1>1, <2>2, EncodeFacts
  <2>4. ASSUME NEW i \in 1..Len(stream')
        PROVE  \/ i \in 1..Len(stream) /\ stream'[i] = stream[i]
               \/ \E j \in 1..Len(cs) : stream'[i] = cs[j]
    <3>1. CASE i > Len(stream)
      <4>1. i - Len(stream) \in 1..Len(cs) /\ i = Len(stream) + (i - Len(stream))
        BY <1>1, <2>3, <3>1
      <4>2. QED
        BY <2>3, <4>1
    <3>2. QED
      BY <1>1, <2>3, <3>1
  <2>5. QED
    BY <1>1, <2>2, <2>4 DEF Positions, IsOutput, IsReady
<1>6. QED
  BY <1>3, <1>4, <1>5, StreamStep

-----------------------------------------------------------------------------
\* The stream gets c, or c and then d, at its end.
Gets(c) == Positions' = 1..(Len(stream) + 1) /\ stream'[Len(stream) + 1] = c
GetsBoth(c, d) ==
  /\ Positions' = 1..(Len(stream) + 2)
  /\ stream'[Len(stream) + 1] = c /\ stream'[Len(stream) + 2] = d

LEMMA EncodesCases ==
  ASSUME TypeOK, Named, Encodes
  PROVE  /\ UNCHANGED <<conf, plan, event, surface, evals, got, tainted>>
         /\ Len(stream) \in Nat /\ run'.id = run.id /\ run.id \in Runs
         /\ \A i \in Positions : stream'[i] = stream[i]
         /\ \/ /\ run.pc = "plain" /\ run'.pc = "ready"
               /\ GetsBoth(Input(run.id), Ready(WaitValue))
            \/ run.pc = "plain" /\ run'.pc = "copied" /\ Gets(Input(run.id))
            \/ run.pc = "copied" /\ run'.pc = "ready" /\ Gets(Ready(WaitValue))
            \/ /\ run.pc = "copy" /\ run'.pc = "prepared"
               /\ GetsBoth(Input(run.id), Ready(WaitValue))
            \/ run.pc = "materialize" /\ run'.pc = "idle" /\ Gets(Output(run.id))
            \/ run.pc = "evaluated" /\ run'.pc = "materialize" /\ Gets(WaitANE)
<1>1. stream \in Seq(Command) /\ run.id \in Runs /\ Len(stream) \in Nat
  BY EncodesFacts, TypeIs, LenProperties DEF Named
<1>2. /\ Input(run.id) \in Command /\ Output(run.id) \in Command /\ WaitANE \in Command
      /\ Ready(WaitValue) \in Command
  BY <1>1, CommandFacts
<1>3. ASSUME NEW c \in Command, Encode(<<c>>)
      PROVE  Gets(c) /\ \A i \in Positions : stream'[i] = stream[i]
  <2>1. <<c>> \in Seq(Command) /\ Len(<<c>>) = 1 /\ <<c>>[1] = c
    BY <1>3
  <2> DEFINE cs == <<c>>
  <2> HIDE DEF cs
  <2>2. cs \in Seq(Command) /\ Encode(cs) /\ Len(cs) = 1 /\ cs[1] = c
    BY <1>3, <2>1 DEF cs
  <2>a. /\ Len(stream') = Len(stream) + Len(cs)
        /\ \A i \in 1..Len(stream) : stream'[i] = stream[i]
        /\ \A i \in 1..Len(cs) : stream'[Len(stream) + i] = cs[i]
    BY <1>1, <2>2, EncodeFacts
  <2>3. /\ Len(stream') = Len(stream) + 1
        /\ \A i \in 1..Len(stream) : stream'[i] = stream[i]
        /\ stream'[Len(stream) + 1] = cs[1]
    BY <1>1, <2>2, <2>a
  <2>4. QED
    BY <2>2, <2>3 DEF Gets, Positions
<1>4. ASSUME NEW c \in Command, NEW e \in Command, Encode(<<c, e>>)
      PROVE  GetsBoth(c, e) /\ \A i \in Positions : stream'[i] = stream[i]
  <2>1. <<c, e>> \in Seq(Command) /\ Len(<<c, e>>) = 2 /\ <<c, e>>[1] = c /\ <<c, e>>[2] = e
    BY <1>4
  <2> DEFINE cs == <<c, e>>
  <2> HIDE DEF cs
  <2>2. cs \in Seq(Command) /\ Encode(cs) /\ Len(cs) = 2 /\ cs[1] = c /\ cs[2] = e
    BY <1>4, <2>1 DEF cs
  <2>a. /\ Len(stream') = Len(stream) + Len(cs)
        /\ \A i \in 1..Len(stream) : stream'[i] = stream[i]
        /\ \A i \in 1..Len(cs) : stream'[Len(stream) + i] = cs[i]
    BY <1>1, <2>2, EncodeFacts
  <2>3. /\ Len(stream') = Len(stream) + 2
        /\ \A i \in 1..Len(stream) : stream'[i] = stream[i]
        /\ stream'[Len(stream) + 1] = cs[1]
        /\ stream'[Len(stream) + 2] = cs[2]
    BY <1>1, <2>2, <2>a
  <2>4. QED
    BY <2>2, <2>3 DEF GetsBoth, Positions
<1>5. ASSUME NEW p \in Places, Goto(p) PROVE run'.pc = p /\ run'.id = run.id
  BY <1>5, GotoFacts
<1>6. {"ready", "copied", "prepared", "idle", "materialize"} \subseteq Places
  BY DEF Places
<1>7. run'.id = run.id
  BY <1>5, <1>6, EncodesFacts
<1>8. UNCHANGED <<conf, plan, event, surface, evals, got, tainted>>
  BY EncodesFacts
<1>9. QED
  BY <1>1, <1>2, <1>3, <1>4, <1>5, <1>6, <1>7, <1>8, EncodesFacts

\* The stream loses its first command.
LEMMA ExecuteCases ==
  ASSUME TypeOK, Execute
  PROVE  /\ UNCHANGED <<conf, plan, evals, run, tainted>>
         /\ Len(stream) \in Nat \ {0} /\ 1 \in Positions
         /\ Positions' = 1..(Len(stream) - 1)
         /\ \A i \in Positions' : i + 1 \in Positions /\ stream'[i] = stream[i + 1]
         /\ event' = IF IsReady(1) THEN [event EXCEPT !.wait = stream[1].arg] ELSE event
         /\ surface' = IF IsInput(1) THEN [surface EXCEPT !.input = stream[1].arg] ELSE surface
         /\ got' = IF IsOutput(1) THEN [got EXCEPT ![stream[1].arg] = surface.output] ELSE got
<1>1. /\ stream \in Seq(Command) /\ committed \in 0..Len(stream)
      /\ stream' = Tail(stream) /\ committed > 0
  BY TypeIs DEF Execute
<1>2. /\ Len(stream) \in Nat \ {0} /\ stream[1] = Head(stream)
      /\ Len(stream') = Len(stream) - 1
      /\ \A i \in 1..Len(stream') : stream'[i] = stream[i + 1]
  BY <1>1, ExecuteFacts
<1>3. QED
  BY <1>2 DEF Execute, Positions, IsReady, IsInput, IsOutput, host

\* The configuration stays, and with it the events there are.
LEMMA ConfStep ==
  ASSUME [Next]_vars
  PROVE  UNCHANGED conf /\ HasWait' = HasWait
<1>1. UNCHANGED conf
  BY DEF Next, Host, ANE, Finished, vars, gpu, ane, host,
   Begin, Synchronize, Reset, ResetFails, FusedNorm, FusedNormFails, CopyInto, SignalMLXReady,
   SplitCopyFails, CopyIntoSignalReady, CopyFails,
   HostInput, HostInputFails, FinalizeStream, PreparedAborts, Eval, EvalRefused, Evaluated,
   EvalFails, AbortInFlight, CopyOut, WaitOutput, WaitOutputFails, Materialize, MaterializeFails,
   MLXCommits, Execute, ANEStarts, ANEFinishes, ANEFails
<1>2. QED
  BY <1>1 DEF HasWait

LEMMA UnattachedStep ==
  ASSUME TypeOK, Named, Unattached, [Next]_vars
  PROVE  Unattached'
<1>1. HasWait' = HasWait
  BY ConfStep
<1>2. ~HasWait => NoReady'
  <2>1. CASE UNCHANGED stream
    BY <2>1 DEF Unattached, NoReady, Positions, IsReady
  <2>2. CASE Execute
    BY <2>2, ExecuteCases DEF Unattached, NoReady, IsReady
  <2>3. CASE Encodes
    BY <2>3, EncodesCases
    DEF Unattached, NoReady, Positions, IsReady, Gets, GetsBoth, Input, Ready, Output, WaitANE
  <2>4. QED
    BY <2>1, <2>2, <2>3, StreamStep
<1>3. run'.pc \in {"plain", "copied", "copy"} => HasWait
  <2>1. CASE UNCHANGED run
    BY <2>1 DEF Unattached
  <2>2. CASE Encodes
    BY <2>2, EncodesCases DEF Unattached
  <2>3. ASSUME NEW p \in Places, Goto(p), p \notin {"plain", "copied", "copy"}
        PROVE  run'.pc \notin {"plain", "copied", "copy"}
    BY <2>3, GotoFacts
  <2>4. CASE \E p \in Places : Goto(p) /\ p \notin {"plain", "copied", "copy"}
    BY <2>3, <2>4
  <2>5. CASE SplitCopyFails
    BY <2>5 DEF SplitCopyFails, At, Unattached
  <2>6. CASE Reset
    <3>1. CASE HasWait
      BY <3>1
    <3>2. CASE ~HasWait
      BY <2>4, <2>6, <3>2 DEF Reset, Places
    <3>3. QED
      BY <3>1, <3>2
  <2>7. CASE Begin
    BY <2>7 DEF Begin
  <2>8. QED
    BY <2>1, <2>2, <2>4, <2>5, <2>6, <2>7 DEF Next, Host, ANE, Finished, vars, Places, Abort,
      Encodes, Synchronize, ResetFails, FusedNormFails, CopyFails, HostInput, HostInputFails,
      FinalizeStream, PreparedAborts, Eval, EvalRefused, Evaluated, EvalFails, AbortInFlight,
      CopyOut, WaitOutput, WaitOutputFails, MaterializeFails,
      MLXCommits, Execute, ANEStarts, ANEFinishes, ANEFails
<1>4. QED
  BY <1>1, <1>2, <1>3 DEF Unattached

\* A run that is active was so before, or has just reset the event.
LEMMA ActiveStep ==
  ASSUME TypeOK, Named, [Next]_vars, Active', ~Reset
  PROVE  /\ Active /\ run'.id = run.id /\ tainted \subseteq tainted' /\ run.id \in Runs
         /\ \/ Moves \/ Encodes \/ HostInput \/ Eval \/ (WaitOutput /\ conf.waitMode # "gpu_wait")
            \/ MLXCommits \/ Execute \/ UNCHANGED vars
            \/ \E r \in Runs : ANEStarts(r) \/ ANEFinishes(r) \/ ANEFails(r)
<1>1. ASSUME Goto("idle") PROVE FALSE
  BY <1>1, GotoFacts DEF Active, Places
<1>2. ~Begin
  BY DEF Begin, Active
<1>3. /\ \/ Moves \/ Encodes \/ HostInput \/ Eval \/ (WaitOutput /\ conf.waitMode # "gpu_wait")
         \/ MLXCommits \/ Execute \/ UNCHANGED vars
         \/ \E r \in Runs : ANEStarts(r) \/ ANEFinishes(r) \/ ANEFails(r)
  BY <1>1, <1>2 DEF Next, Host, ANE, Finished, Abort, Moves, Encodes,
      ResetFails, FusedNormFails, HostInputFails, PreparedAborts, EvalRefused, EvalFails,
      AbortInFlight, CopyOut, WaitOutputFails, MaterializeFails
<1>4. ASSUME NEW p \in Places, Goto(p) PROVE run'.pc = p /\ run'.id = run.id
  BY <1>4, GotoFacts
<1>5. {"locked", "copy", "host", "evaluated", "ready", "prepared", "evaluating", "materialize"}
        \subseteq Places
  BY DEF Places
<1>6. CASE Moves
  BY <1>3, <1>4, <1>5, <1>6, MovesFacts DEF Active, Named
<1>7. CASE Encodes
  BY <1>3, <1>7, EncodesCases DEF Active
<1>8. CASE HostInput \/ Eval \/ WaitOutput
  BY <1>3, <1>4, <1>5, <1>8 DEF HostInput, Eval, WaitOutput, At, host, Disturbs, Active, Named
<1>9. CASE MLXCommits \/ Execute \/ UNCHANGED vars
           \/ \E r \in Runs : ANEStarts(r) \/ ANEFinishes(r) \/ ANEFails(r)
  BY <1>3, <1>9 DEF MLXCommits, Execute, ANEStarts, ANEFinishes, ANEFails, vars, host, Active,
     Named
<1>10. QED
  BY <1>3, <1>6, <1>7, <1>8, <1>9

-----------------------------------------------------------------------------
\* A run that finds nothing left behind starts alone.
LEMMA InputFirstReset ==
  ASSUME TypeOK, Named, Unattached, Reset, run'.id \notin tainted'
  PROVE  InputFirst'
<1>1. /\ run'.id = run.id /\ UNCHANGED <<stream, evals, conf>> /\ HasWait' = HasWait
      /\ run'.pc \in {"host", "plain", "copy"} /\ (~HasWait => run'.pc = "host")
  <2>1. {"host", "plain", "copy"} \subseteq Places
    BY DEF Places
  <2>2. QED
    BY <2>1, GotoFacts DEF Reset, gpu, ane, HasWait
<1>2. ~LeftBehind
  BY <1>1 DEF Reset, Disturbs
<1>3. /\ \A i \in Positions : ~IsInput(i) /\ ~IsReady(i)
      /\ \A r \in Runs : ~Pending(r)
  BY <1>2 DEF LeftBehind, Waiting, Positions, IsInput, IsReady
<1>4. HasWait => event'.wait = 0
  BY TypeIs DEF Reset, ResetEvent, SetSignaledValue
<1>5. Alone'
  BY <1>1, <1>3 DEF Alone, Positions, IsInput, Pending
<1>6. NoReady'
  BY <1>1, <1>3 DEF NoReady, Positions, IsReady
<1>7. NotSignaled'
  BY <1>1, <1>4, <1>6 DEF NotSignaled
<1>8. SignaledIsInput'
  BY <1>1, <1>4 DEF SignaledIsInput, Attached
<1>9. ReadyAfterInput' /\ OwnData'
  BY <1>1, <1>6 DEF ReadyAfterInput, OwnData, NoReady
<1>10. QED
  BY <1>5, <1>7, <1>8, <1>9 DEF InputFirst

LEMMA InputFirstMoves ==
  ASSUME TypeOK, Named, Active', InputFirst, Moves
  PROVE  InputFirst'
<1>1. /\ UNCHANGED <<conf, event, stream, surface, evals>> /\ HasWait' = HasWait
      /\ (NoReady => NoReady') /\ Positions' = Positions
  BY MovesFacts DEF HasWait, Positions, IsReady, NoReady
<1>2. /\ run'.id = run.id
      /\ \/ run.pc = "sync" /\ run'.pc = "locked"
         \/ run.pc \in {"plain", "copied"} /\ run'.pc = "copy"
         \/ run.pc \in {"plain", "copy"} /\ run'.pc = "host"
         \/ run.pc = "evaluating" /\ evals[run.id].stage = "done" /\ run'.pc = "evaluated"
         \/ run.pc = "prepared" /\ run'.pc = "ready"
  <2>1. {"locked", "copy", "host", "evaluated", "ready"} \subseteq Places
    BY DEF Places
  <2>2. QED
    BY <2>1, MovesFacts, GotoFacts
<1>3. run'.pc # "locked"
  BY DEF Active
<1>4. Alone'
  BY <1>1, <1>2, <1>3 DEF InputFirst, Alone, Pending, IsInput
<1>5. NotSignaled'
  BY <1>1, <1>2, <1>3 DEF InputFirst, NotSignaled, IsInput
<1>6. SignaledIsInput'
  BY <1>1, <1>2, <1>3 DEF InputFirst, SignaledIsInput
<1>7. ReadyAfterInput'
  BY <1>1, <1>2 DEF InputFirst, ReadyAfterInput, IsInput, IsReady
<1>8. OwnData'
  BY <1>1, <1>2, <1>3 DEF InputFirst, OwnData
<1>9. QED
  BY <1>4, <1>5, <1>6, <1>7, <1>8 DEF InputFirst

LEMMA InputFirstEncodes ==
  ASSUME TypeOK, Named, Unattached, Active', InputFirst, Encodes
  PROVE  InputFirst'
<1> PICK n \in Nat : n = Len(stream)
  BY EncodesCases
<1>1. /\ UNCHANGED <<conf, event, surface, evals>> /\ HasWait' = HasWait
      /\ n = Len(stream) /\ run'.id = run.id /\ run.id \in Runs /\ Positions = 1..n
      /\ \A i \in Positions : IsInput(i)' = IsInput(i) /\ IsReady(i)' = IsReady(i)
                              /\ stream'[i] = stream[i]
  BY EncodesCases DEF HasWait, Positions, IsInput, IsReady
<1>2. CASE \/ /\ run.pc = "plain" /\ run'.pc = "ready"
              /\ GetsBoth(Input(run.id), Ready(WaitValue))
           \/ /\ run.pc = "copy" /\ run'.pc = "prepared"
              /\ GetsBoth(Input(run.id), Ready(WaitValue))
  <2>1. /\ Positions' = 1..(n + 2) /\ n + 1 \in Positions' /\ n + 2 \in Positions'
        /\ IsInput(n + 1)' /\ ~IsReady(n + 1)' /\ stream'[n + 1].arg = run.id
        /\ ~IsInput(n + 2)' /\ IsReady(n + 2)'
        /\ \A i \in Positions' : i \in Positions \/ i = n + 1 \/ i = n + 2
    BY <1>1, <1>2 DEF GetsBoth, Input, Ready, IsInput, IsReady
  <2>2. /\ \A i \in Positions : ~IsReady(i)
        /\ HasWait /\ event.wait = 0
    BY <1>2 DEF InputFirst, NotSignaled, NoReady, Unattached
  <2>3. Alone'
    BY <1>1, <1>2, <2>1 DEF InputFirst, Alone, Pending
  <2>4. NotSignaled' /\ SignaledIsInput' /\ OwnData'
    BY <1>1, <1>2, <2>2 DEF NotSignaled, SignaledIsInput, OwnData, Attached
  <2>5. ReadyAfterInput'
    <3>1. \A i \in Positions' : IsReady(i)' => i = n + 2
      BY <1>1, <2>1, <2>2
    <3>2. n + 1 \in 1..(n + 2 - 1) /\ IsInput(n + 1)'
      BY <1>1, <2>1
    <3>3. QED
      BY <3>1, <3>2 DEF ReadyAfterInput
  <2>6. QED
    BY <2>3, <2>4, <2>5 DEF InputFirst
<1>3. CASE run.pc = "plain" /\ run'.pc = "copied" /\ Gets(Input(run.id))
  <2>1. /\ Positions' = 1..(n + 1) /\ n + 1 \in Positions'
        /\ IsInput(n + 1)' /\ ~IsReady(n + 1)' /\ stream'[n + 1].arg = run.id
        /\ \A i \in Positions' : i \in Positions \/ i = n + 1
    BY <1>1, <1>3 DEF Gets, Input, IsInput, IsReady
  <2>2. (\A i \in Positions : ~IsReady(i)) /\ HasWait /\ event.wait = 0
    BY <1>3 DEF InputFirst, NotSignaled, NoReady, Unattached
  <2>3. NoReady'
    BY <1>1, <2>1, <2>2 DEF NoReady
  <2>4. Alone'
    BY <1>1, <1>3, <2>1 DEF InputFirst, Alone, Pending
  <2>5. NotSignaled' /\ SignaledIsInput' /\ OwnData' /\ ReadyAfterInput'
    BY <1>1, <1>3, <2>1, <2>2, <2>3
    DEF NotSignaled, SignaledIsInput, OwnData, ReadyAfterInput, NoReady, Attached
  <2>6. QED
    BY <2>4, <2>5 DEF InputFirst
<1>4. CASE run.pc = "copied" /\ run'.pc = "ready" /\ Gets(Ready(WaitValue))
  <2>1. /\ Positions' = 1..(n + 1) /\ n + 1 \in Positions'
        /\ ~IsInput(n + 1)' /\ IsReady(n + 1)'
        /\ \A i \in Positions' : i \in Positions \/ i = n + 1
    BY <1>1, <1>4 DEF Gets, Ready, IsInput, IsReady
  <2>2. (\A i \in Positions : ~IsReady(i)) /\ HasWait /\ event.wait = 0
    BY <1>4 DEF InputFirst, NotSignaled, NoReady, Unattached
  <2>3. Alone'
    BY <1>1, <1>4, <2>1 DEF InputFirst, Alone, Pending
  <2>4. NotSignaled' /\ SignaledIsInput' /\ OwnData'
    BY <1>1, <1>4, <2>2 DEF NotSignaled, SignaledIsInput, OwnData, Attached
  <2>5. ReadyAfterInput'
    <3>1. \A i \in Positions' : IsReady(i)' => i = n + 1
      BY <1>1, <2>1, <2>2
    <3>2. surface.input = run.id \/ \E j \in 1..(n + 1 - 1) : IsInput(j)'
      BY <1>1, <1>4 DEF InputFirst, NotSignaled
    <3>3. QED
      BY <1>1, <3>1, <3>2 DEF ReadyAfterInput
  <2>6. QED
    BY <2>3, <2>4, <2>5 DEF InputFirst
<1>5. CASE run.pc = "evaluated" /\ run'.pc = "materialize" /\ Gets(WaitANE)
  <2>1. /\ Positions' = 1..(n + 1) /\ ~IsInput(n + 1)' /\ ~IsReady(n + 1)'
        /\ \A i \in Positions' : i \in Positions \/ i = n + 1
    BY <1>1, <1>5 DEF Gets, WaitANE, IsInput, IsReady
  <2>2. surface.output = run.id /\ NoReady
    BY <1>5 DEF InputFirst, OwnData
  <2>3. NoReady'
    BY <1>1, <2>1, <2>2 DEF NoReady
  <2>4. Alone'
    BY <1>1, <1>5, <2>1 DEF InputFirst, Alone, Pending
  <2>5. SignaledIsInput'
    BY <1>1, <1>5, <2>3 DEF InputFirst, SignaledIsInput
  <2>6. NotSignaled' /\ OwnData' /\ ReadyAfterInput'
    BY <1>1, <1>5, <2>2, <2>3 DEF NotSignaled, OwnData, ReadyAfterInput, NoReady
  <2>7. QED
    BY <2>4, <2>5, <2>6 DEF InputFirst
<1>6. run'.pc # "idle"
  BY DEF Active
<1>7. QED
  BY <1>2, <1>3, <1>4, <1>5, <1>6, EncodesCases

LEMMA InputFirstHostInput ==
  ASSUME TypeOK, Named, InputFirst, HostInput
  PROVE  InputFirst'
<1>1. /\ run.pc = "host" /\ run'.pc = "prepared" /\ run'.id = run.id
      /\ UNCHANGED <<conf, stream, evals>> /\ HasWait' = HasWait /\ surface'.input = run.id
  BY TypeIs, GotoFacts DEF HostInput, gpu, HasWait, At, Places
<1>2. NoReady
  BY <1>1 DEF InputFirst, NotSignaled
<1>3. NoReady'
  BY <1>1, <1>2 DEF NoReady, Positions, IsReady
<1>4. Alone'
  BY <1>1 DEF InputFirst, Alone, Pending, Positions, IsInput
<1>5. NotSignaled' /\ SignaledIsInput' /\ ReadyAfterInput' /\ OwnData'
  BY <1>1, <1>3 DEF NotSignaled, SignaledIsInput, ReadyAfterInput, OwnData, NoReady
<1>6. QED
  BY <1>4, <1>5 DEF InputFirst

\* The evaluation starts, or the CPU has seen the output signaled.
LEMMA InputFirstEval ==
  ASSUME TypeOK, Named, InputFirst, Eval \/ (WaitOutput /\ conf.waitMode # "gpu_wait")
  PROVE  InputFirst'
<1>1. /\ UNCHANGED <<conf, event, stream, surface>> /\ HasWait' = HasWait
      /\ (NoReady => NoReady') /\ Positions' = Positions
  BY DEF Eval, WaitOutput, gpu, events, host, ane, HasWait, Positions, IsReady, NoReady
<1>2. /\ run'.id = run.id /\ run.id \in Runs
      /\ \/ run.pc = "ready" /\ run'.pc = "evaluating"
         \/ run.pc = "evaluated" /\ run'.pc = "materialize"
  <2>1. {"evaluating", "materialize"} \subseteq Places
    BY DEF Places
  <2>2. QED
    BY <2>1, GotoFacts DEF Eval, WaitOutput, At, Named
<1>3. \/ UNCHANGED evals /\ run'.pc = "materialize"
      \/ /\ run'.pc = "evaluating"
         /\ \A r \in Runs \ {run.id} : evals'[r] = evals[r]
         /\ evals'[run.id].stage = "waiting"
  BY <1>2, TypeIs DEF Eval, WaitOutput, At, ane, EvalRec
<1>4. Alone'
  BY <1>1, <1>2, <1>3 DEF InputFirst, Alone, Pending, IsInput
<1>5. NotSignaled' /\ SignaledIsInput'
  BY <1>1, <1>2 DEF InputFirst, NotSignaled, SignaledIsInput
<1>6. ReadyAfterInput'
  BY <1>1, <1>2 DEF InputFirst, ReadyAfterInput, IsInput, IsReady
<1>7. OwnData'
  BY <1>1, <1>2, <1>3 DEF InputFirst, OwnData
<1>8. QED
  BY <1>4, <1>5, <1>6, <1>7 DEF InputFirst

\* Nothing that the run counts on changes.
LEMMA InputFirstSame ==
  ASSUME TypeOK, Named, InputFirst, UNCHANGED <<conf, event, stream, surface, evals, run>>
  PROVE  InputFirst'
BY DEF InputFirst, Alone, NotSignaled, SignaledIsInput, ReadyAfterInput, OwnData, Pending,
   HasWait, NoReady, Positions, IsInput, IsReady

LEMMA InputFirstExecute ==
  ASSUME TypeOK, Named, Unattached, Active, InputFirst, Execute
  PROVE  InputFirst'
<1>1. PICK n \in Nat \ {0} : n = Len(stream)
  BY ExecuteCases
<1>2. /\ UNCHANGED <<conf, evals, run>> /\ HasWait' = HasWait
      /\ 1 \in Positions /\ Positions = 1..n /\ Positions' = 1..(n - 1)
      /\ \A i \in Positions' : i + 1 \in Positions /\ stream'[i] = stream[i + 1]
      /\ surface'.output = surface.output
      /\ IsInput(1) => surface'.input = stream[1].arg
      /\ ~IsInput(1) => UNCHANGED surface
      /\ ~IsReady(1) => UNCHANGED event
  BY <1>1, ExecuteCases, TypeIs DEF HasWait, Positions
<1>3. /\ IsInput(1) => surface'.input = run.id
      /\ surface.input = run.id => surface'.input = run.id
  BY <1>2 DEF InputFirst, Alone
<1>4. \A i \in Positions' : /\ IsInput(i)' => IsInput(i + 1)
                            /\ IsInput(i + 1) => IsInput(i)'
                            /\ IsReady(i)' => IsReady(i + 1)
  BY <1>2 DEF IsInput, IsReady
<1>5. NoReady => NoReady' /\ UNCHANGED event
  BY <1>2, <1>4 DEF NoReady
<1>6. IsReady(1) => surface'.input = run.id /\ NoReady'
  <2>1. ASSUME IsReady(1) PROVE surface.input = run.id /\ ~\E i \in Positions' : IsReady(i)'
    <3>1. /\ surface.input = run.id \/ \E j \in 1..(1 - 1) : IsInput(j)
          /\ \A j \in Positions : IsReady(j) => j = 1
      BY <1>2, <2>1 DEF InputFirst, ReadyAfterInput
    <3>2. QED
      BY <1>2, <1>4, <3>1
  <2>2. QED
    BY <1>3, <2>1 DEF NoReady
<1>7. Alone'
  BY <1>2, <1>4 DEF InputFirst, Alone, Pending
<1>8. NotSignaled'
  <2>1. run.pc = "copied" => surface'.input = run.id \/ \E i \in Positions' : IsInput(i)'
    <3>1. SUFFICES ASSUME run.pc = "copied", surface.input # run.id, ~IsInput(1)
                   PROVE  \E i \in Positions' : IsInput(i)'
      BY <1>3
    <3>2. PICK i \in Positions : IsInput(i)
      BY <3>1 DEF InputFirst, NotSignaled
    <3>3. i - 1 \in Positions' /\ i = (i - 1) + 1
      BY <1>2, <3>1, <3>2
    <3>4. QED
      BY <1>4, <3>2, <3>3
  <2>2. QED
    BY <1>2, <1>5, <2>1 DEF InputFirst, NotSignaled
<1>9. SignaledIsInput'
  BY <1>2, <1>3, <1>5, <1>6 DEF InputFirst, SignaledIsInput
<1>10. ReadyAfterInput'
  <2>1. ASSUME NEW i \in Positions', IsReady(i)'
        PROVE  /\ surface'.input = run.id \/ \E j \in 1..(i - 1) : IsInput(j)'
               /\ \A j \in Positions' : IsReady(j)' => j = i
    <3>1. i + 1 \in Positions /\ IsReady(i + 1)
      BY <1>2, <1>4, <2>1
    <3> DEFINE k == i + 1
    <3>2. /\ surface.input = run.id \/ \E j \in 1..(k - 1) : IsInput(j)
          /\ \A j \in Positions : IsReady(j) => j = k
      <4> HIDE DEF k
      <4>1. k \in Positions /\ IsReady(k)
        BY <3>1 DEF k
      <4>2. QED
        BY <4>1 DEF InputFirst, ReadyAfterInput
    <3>3. \A j \in Positions' : IsReady(j)' => j = i
      BY <1>2, <1>4, <3>2
    <3>4. surface'.input = run.id \/ \E j \in 1..(i - 1) : IsInput(j)'
      <4>1. SUFFICES ASSUME surface.input # run.id, ~IsInput(1)
                     PROVE  \E j \in 1..(i - 1) : IsInput(j)'
        BY <1>3
      <4>2. PICK j \in 1..(k - 1) : IsInput(j)
        BY <3>2, <4>1
      <4>3. j - 1 \in 1..(i - 1) /\ j - 1 \in Positions' /\ j = (j - 1) + 1
        BY <1>2, <2>1, <4>1, <4>2
      <4>4. QED
        BY <1>4, <4>2, <4>3
    <3>5. QED
      BY <3>3, <3>4
  <2>2. QED
    BY <1>2, <2>1 DEF ReadyAfterInput
<1>11. OwnData'
  BY <1>2, <1>5 DEF InputFirst, OwnData
<1>12. QED
  BY <1>7, <1>8, <1>9, <1>10, <1>11 DEF InputFirst

LEMMA InputFirstANE ==
  ASSUME TypeOK, Named, Unattached, Active, InputFirst,
         NEW r \in Runs, ANEStarts(r) \/ ANEFinishes(r) \/ ANEFails(r)
  PROVE  InputFirst'
<1>1. /\ UNCHANGED <<conf, stream, run>> /\ HasWait' = HasWait /\ surface'.input = surface.input
      /\ event'.wait = event.wait
      /\ (NoReady => NoReady') /\ Positions' = Positions
  BY TypeIs DEF ANEStarts, ANEFinishes, ANEFails, gpu, host, events, HasWait, Positions, IsReady,
     NoReady
<1>2. r = run.id /\ run.pc = "evaluating"
  BY DEF InputFirst, Alone, Pending, ANEStarts, ANEFinishes, ANEFails
<1>3. \A q \in Runs \ {r} : evals'[q] = evals[q]
  BY TypeIs DEF ANEStarts, ANEFinishes, ANEFails
<1>4. Alone'
  BY <1>1, <1>2, <1>3 DEF InputFirst, Alone, Pending, IsInput
<1>5. NotSignaled' /\ SignaledIsInput'
  BY <1>1, <1>2 DEF InputFirst, NotSignaled, SignaledIsInput
<1>6. ReadyAfterInput'
  BY <1>1 DEF InputFirst, ReadyAfterInput, IsInput, IsReady
<1>7. CASE ANEStarts(r)
  <2>1. surface.input = run.id
    BY <1>2, <1>7, TypeIs DEF InputFirst, SignaledIsInput, ANEStarts, Attached
  <2>2. evals'[r].stage = "running" /\ evals'[r].saw = run.id
    BY <1>7, <2>1, TypeIs DEF ANEStarts
  <2>3. NoReady
    <3>1. CASE HasWait
      BY <1>7, <3>1, TypeIs DEF InputFirst, SignaledIsInput, ANEStarts, Attached
    <3>2. QED
      BY <3>1 DEF Unattached
  <2>4. OwnData'
    BY <1>1, <1>2, <2>2, <2>3 DEF OwnData
  <2>5. QED
    BY <1>4, <1>5, <1>6, <2>4 DEF InputFirst
<1>8. CASE ANEFinishes(r)
  <2>1. evals[r].saw = run.id /\ NoReady
    BY <1>2, <1>8 DEF InputFirst, OwnData, ANEFinishes
  <2>2. evals'[r].stage = "done" /\ surface'.output = run.id
    BY <1>8, <2>1, TypeIs DEF ANEFinishes
  <2>3. OwnData'
    BY <1>1, <1>2, <2>1, <2>2 DEF OwnData
  <2>4. QED
    BY <1>4, <1>5, <1>6, <2>3 DEF InputFirst
<1>9. CASE ANEFails(r)
  <2>1. evals'[r].stage = "failed"
    BY <1>9, TypeIs DEF ANEFails
  <2>2. OwnData'
    BY <1>1, <1>2, <2>1 DEF OwnData
  <2>3. QED
    BY <1>4, <1>5, <1>6, <2>2 DEF InputFirst
<1>10. QED
  BY <1>7, <1>8, <1>9

-----------------------------------------------------------------------------
\* Who is disturbed stays so.
LEMMA TaintedStep ==
  ASSUME [Next]_vars
  PROVE  tainted \subseteq tainted'
BY DEF Next, Host, ANE, Finished, vars, gpu, ane, host, Disturbs,
   Begin, Synchronize, Reset, ResetFails, FusedNorm, FusedNormFails, CopyInto, SignalMLXReady,
   SplitCopyFails, CopyIntoSignalReady, CopyFails,
   HostInput, HostInputFails, FinalizeStream, PreparedAborts, Eval, EvalRefused, Evaluated,
   EvalFails, AbortInFlight, CopyOut, WaitOutput, WaitOutputFails, Materialize, MaterializeFails,
   MLXCommits, Execute, ANEStarts, ANEFinishes, ANEFails

\* While the copy at i waits, no step that leaves the stream alone touches what it is to
\* copy.
LEMMA KeptAside ==
  ASSUME TypeOK, Named, [Next]_vars, UNCHANGED stream,
         NEW i \in Positions, IsOutput(i), stream[i].arg \notin tainted', OutputKept(i)
  PROVE  OutputKept(i)'
<1>1. /\ HasWait' = HasWait /\ UNCHANGED conf
      /\ stream[i].arg \in Waiting("output")
      /\ \A j \in 1..(i - 1) : ~IsReady(j)'
  BY ConfStep DEF OutputKept, IsReady, Waiting, IsOutput, Positions
<1>2. {"idle", "locked", "copy", "host", "evaluated", "ready", "evaluating"} \subseteq Places
  BY DEF Places
<1>3. CASE ToIdle
  <2>1. run'.pc = "idle" /\ UNCHANGED <<surface, evals, event>>
    BY <1>2, <1>3, ToIdleFacts, GotoFacts
  <2>2. QED
    BY <1>1, <2>1 DEF OutputKept
<1>4. CASE Moves
  <2>1. /\ UNCHANGED <<surface, evals, event>> /\ run'.id = run.id
        /\ \/ run'.pc = "locked"
           \/ run.pc \in {"plain", "copied"} /\ run'.pc = "copy"
           \/ run'.pc = "host"
           \/ run.pc = "evaluating" /\ evals[run.id].stage = "done"
           \/ run.pc = "prepared" /\ run'.pc = "ready"
    BY <1>2, <1>4, MovesFacts, GotoFacts
  <2>2. QED
    BY <1>1, <2>1 DEF OutputKept
<1>5. CASE Begin
  BY <1>1, <1>5 DEF Begin, OutputKept, ane, events
<1>6. CASE Reset
  <2>1. ~LeftBehind
    BY <1>1, <1>6 DEF Reset, Disturbs
  <2>2. \A r \in Runs : evals[r].stage \notin {"waiting", "running"}
    BY <2>1 DEF LeftBehind, Pending
  <2>3. /\ UNCHANGED <<surface, evals>>
        /\ HasWait => event'.wait = 0
        /\ run'.pc = "host" \/ (HasWait /\ run'.pc \in {"plain", "copy"})
    <3>1. {"host", "plain", "copy"} \subseteq Places
      BY DEF Places
    <3>2. QED
      BY <1>6, <3>1, GotoFacts, TypeIs DEF Reset, ResetEvent, SetSignaledValue, ane
  <2>4. QED
    BY <1>1, <2>2, <2>3 DEF OutputKept
<1>7. CASE HostInput
  BY <1>1, <1>7 DEF HostInput, Disturbs
<1>8. CASE HostInputFails
  <2>1. run'.pc = "idle" /\ surface'.output = surface.output /\ UNCHANGED <<evals, event>>
    BY <1>2, <1>8, GotoFacts, TypeIs DEF HostInputFails, Abort, events
  <2>2. QED
    BY <1>1, <2>1 DEF OutputKept
<1>9. CASE Eval
  <2>1. /\ run.pc = "ready" /\ run'.pc = "evaluating" /\ run'.id = run.id /\ run.id \in Runs
        /\ UNCHANGED <<surface, event>>
        /\ \A r \in Runs \ {run.id} : evals'[r] = evals[r]
        /\ evals'[run.id].stage = "waiting"
    BY <1>2, <1>9, GotoFacts, TypeIs DEF Eval, At, Named, events, EvalRec
  <2>2. QED
    BY <1>1, <2>1 DEF OutputKept
<1>10. CASE CopyOut \/ WaitOutput \/ MaterializeFails
  BY <1>10 DEF CopyOut, WaitOutput, MaterializeFails, At, OutputKept
<1>11. CASE MLXCommits \/ UNCHANGED vars
  BY <1>1, <1>11 DEF MLXCommits, vars, ane, events, OutputKept
<1>12. ASSUME NEW r \in Runs, ANEStarts(r) \/ ANEFinishes(r) \/ ANEFails(r)
       PROVE  OutputKept(i)'
  <2>1. ~ANEStarts(r) /\ ~ANEFinishes(r)
    BY TypeIs DEF OutputKept, ANEStarts, ANEFinishes, Attached
  <2>2. /\ UNCHANGED <<surface, run, event>>
        /\ \A q \in Runs \ {r} : evals'[q] = evals[q]
        /\ evals'[r].stage = "failed"
    BY <1>12, <2>1, TypeIs DEF ANEFails, events
  <2>3. run.pc = "evaluating" => run.id \in Runs
    BY DEF Named
  <2>4. QED
    BY <1>1, <2>2, <2>3 DEF OutputKept
<1>13. Positions' = Positions /\ Len(stream) \in Nat /\ Positions = 1..Len(stream)
  BY TypeIs, LenProperties DEF Positions
<1>14. ~Encodes /\ ~Execute
  <2>1. CASE Encodes
    <3>1. Positions' = 1..(Len(stream) + 1) \/ Positions' = 1..(Len(stream) + 2)
      BY <2>1, EncodesCases DEF Gets, GetsBoth
    <3>2. Len(stream) + 1 \in Positions'
      BY <1>13, <3>1
    <3>3. QED
      BY <1>13, <3>2
  <2>2. CASE Execute
    <3>1. Positions' = 1..(Len(stream) - 1) /\ Len(stream) \in Positions
      BY <1>13, <2>2, ExecuteCases
    <3>2. QED
      BY <1>13, <3>1
  <2>3. QED
    BY <2>1, <2>2
<1>15. QED
  BY <1>3, <1>4, <1>5, <1>6, <1>7, <1>8, <1>9, <1>10, <1>11, <1>12, <1>14
  DEF Next, Host, ANE, Finished, ToIdle, Moves, Encodes

LEMMA OutputsKeptStep ==
  ASSUME TypeOK, Named, Unattached, Active /\ run.id \notin tainted => InputFirst, OutputsKept,
         [Next]_vars
  PROVE  OutputsKept'
<1> SUFFICES ASSUME NEW i \in Positions', IsOutput(i)', stream'[i].arg \notin tainted'
             PROVE  OutputKept(i)'
  BY DEF OutputsKept
<1>1. stream'[i].op = "output" /\ tainted \subseteq tainted' /\ HasWait' = HasWait
  BY TaintedStep, ConfStep DEF IsOutput
<1>2. CASE UNCHANGED stream
  BY <1>1, <1>2, KeptAside DEF OutputsKept, Positions, IsOutput
<1>3. CASE Execute
  <2>1. PICK k : k = i + 1
    OBVIOUS
  <2>2. /\ i \in Nat \ {0} /\ k \in Positions /\ stream'[i] = stream[k]
        /\ UNCHANGED <<evals, run, tainted>>
        /\ \A j \in 1..(i - 1) : stream'[j] = stream[j + 1] /\ j + 1 \in 1..(k - 1)
        /\ 1 \in 1..(k - 1)
    BY <1>3, <2>1, ExecuteCases
  <2>3. OutputKept(k)
    BY <1>1, <2>2 DEF OutputsKept, IsOutput
  <2>4. surface'.output = surface.output /\ UNCHANGED event
    BY <1>3, <2>2, <2>3, ExecuteCases, TypeIs DEF OutputKept
  <2>5. \A j \in 1..(i - 1) : ~IsReady(j)'
    BY <2>2, <2>3 DEF OutputKept, IsReady
  <2>6. QED
    BY <1>1, <2>2, <2>3, <2>4, <2>5 DEF OutputKept
<1>4. CASE Encodes
  <2>1. /\ UNCHANGED <<event, surface, evals, tainted>> /\ Positions = 1..Len(stream)
        /\ Len(stream) \in Nat /\ run'.id = run.id /\ run.id \in Runs
        /\ \A j \in Positions : stream'[j] = stream[j]
    BY <1>4, EncodesCases DEF Positions
  <2>2. CASE i \in Positions
    <3>1. OutputKept(i)
      BY <1>1, <2>1, <2>2 DEF OutputsKept, IsOutput
    <3>2. \A j \in 1..(i - 1) : ~IsReady(j)'
      BY <2>1, <2>2, <3>1 DEF OutputKept, IsReady
    <3>3. \/ run.pc \in {"plain", "copy"} /\ run'.pc \in {"ready", "prepared"}
          \/ run.pc = "plain" /\ run'.pc = "copied"
          \/ run.pc = "copied" /\ run'.pc = "ready"
          \/ run.pc \in {"materialize", "evaluated"}
      BY <1>4, EncodesCases
    <3>4. QED
      BY <1>1, <2>1, <2>2, <3>1, <3>2, <3>3 DEF OutputKept
  <2>3. CASE i \notin Positions
    <3>1. /\ run.pc = "materialize" /\ run'.pc = "idle" /\ stream'[i] = Output(run.id)
          /\ i = Len(stream) + 1
      BY <1>1, <1>4, <2>1, <2>3, EncodesCases DEF Gets, GetsBoth, Input, Ready, WaitANE, Output
    <3>2. InputFirst
      BY <1>1, <2>1, <3>1 DEF Active, Output
    <3>3. surface.output = run.id /\ NoReady /\ \A r \in Runs : ~Pending(r)
      BY <3>1, <3>2 DEF InputFirst, OwnData, Alone
    <3>4. \A j \in 1..(i - 1) : ~IsReady(j)'
      BY <2>1, <3>1, <3>3 DEF NoReady, IsReady
    <3>5. QED
      BY <1>1, <2>1, <3>1, <3>3, <3>4 DEF OutputKept, Output, Pending
  <2>4. QED
    BY <2>2, <2>3
<1>5. QED
  BY <1>2, <1>3, <1>4, StreamStep

\* What a view gets is the run's own output, whether it is copied at once or later.
LEMMA ViewShowsOwnStep ==
  ASSUME TypeOK, Named, Active /\ run.id \notin tainted => InputFirst, OutputsKept, ViewShowsOwn,
         [Next]_vars
  PROVE  ViewShowsOwn'
<1> SUFFICES ASSUME NEW r \in Runs, r \notin tainted' PROVE got'[r] \in {0, r}
  BY DEF ViewShowsOwn
<1>1. r \notin tainted /\ got[r] \in {0, r} /\ got \in [Runs -> 0..RunLimit]
  BY TaintedStep, TypeIs DEF ViewShowsOwn
<1>2. CASE UNCHANGED got
  BY <1>1, <1>2
<1>3. CASE CopyOut \/ MaterializeFails
  <2>1. UNCHANGED got \/ got' = [got EXCEPT ![run.id] = surface.output]
    BY <1>3 DEF CopyOut, MaterializeFails
  <2>2. run.pc \in {"evaluated", "materialize"}
    BY <1>3 DEF CopyOut, MaterializeFails, At
  <2>3. r = run.id => surface.output = r
    BY <1>1, <2>2 DEF Active, InputFirst, OwnData
  <2>4. QED
    BY <1>1, <2>1, <2>3
<1>4. CASE Execute
  <2>1. /\ 1 \in Positions
        /\ got' = IF IsOutput(1) THEN [got EXCEPT ![stream[1].arg] = surface.output] ELSE got
    BY <1>4, ExecuteCases
  <2>2. IsOutput(1) /\ stream[1].arg = r => surface.output = r
    BY <1>1, <2>1 DEF OutputsKept, OutputKept
  <2>3. QED
    BY <1>1, <2>1, <2>2
<1>5. QED
  BY <1>2, <1>3, <1>4 DEF Next, Host, ANE, Finished, vars, gpu,
   Begin, Synchronize, Reset, ResetFails, FusedNorm, FusedNormFails, CopyInto, SignalMLXReady,
   SplitCopyFails, CopyIntoSignalReady, CopyFails,
   HostInput, HostInputFails, FinalizeStream, PreparedAborts, Eval, EvalRefused, Evaluated,
   EvalFails, AbortInFlight, WaitOutput, WaitOutputFails, Materialize,
   MLXCommits, ANEStarts, ANEFinishes, ANEFails

LEMMA InputFirstStep ==
  ASSUME TypeOK, Named, Unattached, Active /\ run.id \notin tainted => InputFirst,
         [Next]_vars, Active', run'.id \notin tainted'
  PROVE  InputFirst'
<1>1. CASE Reset
  BY <1>1, InputFirstReset
<1>2. CASE ~Reset
  <2>1. /\ Active /\ InputFirst
        /\ \/ Moves \/ Encodes \/ HostInput \/ Eval \/ (WaitOutput /\ conf.waitMode # "gpu_wait")
           \/ MLXCommits \/ Execute \/ UNCHANGED vars
           \/ \E r \in Runs : ANEStarts(r) \/ ANEFinishes(r) \/ ANEFails(r)
    BY <1>2, ActiveStep
  <2>2. CASE MLXCommits \/ UNCHANGED vars
    <3>1. UNCHANGED <<conf, event, stream, surface, evals, run>>
      BY <2>2 DEF MLXCommits, vars, ane, events, host
    <3>2. QED
      BY <2>1, <3>1, InputFirstSame
  <2>3. QED
    BY <2>1, <2>2, InputFirstMoves, InputFirstEncodes, InputFirstHostInput, InputFirstEval,
       InputFirstExecute, InputFirstANE
<1>3. QED
  BY <1>1, <1>2

-----------------------------------------------------------------------------
LEMMA IInvInit == Init => IInv
<1> SUFFICES ASSUME Init PROVE IInv
  OBVIOUS
<1>1. Positions = {} /\ ~Active /\ run.pc = "idle"
  BY DEF Init, Positions, Active
<1>2. ViewShowsOwn
  BY DEF Init, ViewShowsOwn
<1>3. QED
  BY <1>1, <1>2, TypeInit DEF IInv, Unattached, NoReady, OutputsKept

LEMMA IInvStep == IInv /\ [Next]_vars => IInv'
BY TypeStep, NamedStep, UnattachedStep, InputFirstStep, OutputsKeptStep, ViewShowsOwnStep
DEF IInv

LEMMA IInvHolds == Spec => []IInv
BY IInvInit, IInvStep, PTL DEF Spec

\* The state stays well-formed.
THEOREM TypeCorrect == Spec => []TypeOK
<1>1. IInv => TypeOK
  BY DEF IInv
<1>2. QED
  BY <1>1, IInvHolds, PTL

\* An evaluation reads the input of its own run and leaves that run's output, unless
\* something was left behind.
THEOREM OwnInputHolds == Spec => []OwnInput
<1>1. IInv => OwnInput
  BY DEF IInv, OwnInput, Active, InputFirst, OwnData
<1>2. QED
  BY <1>1, IInvHolds, PTL

\* The view of a run shows its own output, however late it is copied.
THEOREM ViewShowsOwnHolds == Spec => []ViewShowsOwn
<1>1. IInv => ViewShowsOwn
  BY DEF IInv
<1>2. QED
  BY <1>1, IInvHolds, PTL

-----------------------------------------------------------------------------
(***************************************************************************)
(* The draft model, its programs and the call of NewANEDrafter.            *)
(***************************************************************************)

\* What program p may hold, and what it does hold.
Of(p) == Models(p) \cup Plan(p) \cup {Dir(p)} \cup UNION {Surfaces(p, kind) : kind \in Kind}
AllKV == UNION {KV(s) : s \in State}
Part(p) == held \cap Of(p)

\* The K/V state s, where 0 is none.
KVs(s) == IF s = 0 THEN {} ELSE KV(s)

\* The records.
JobRecord ==
  [op : {"none", "open", "reset", "close"}, kind : Kind, p : Prog, kv : State \cup {0},
   path : {"strict", "helper", "client", "memory"}, stage : Stage, next : Nat, try : {1, 2},
   layers : {1, 2}, built : Seq(Prog), retire : Seq(Prog)]
DraftRecord ==
  [state : {"none", "open", "failed", "closed"}, kind : Kind, progs : Seq(Prog),
   kv : State \cup {0}, bound : State \cup {0}]
CallerRecord == [stage : {"idle", "alloc", "swap"}, kv : State \cup {0}]

Records == job \in JobRecord /\ draft \in DraftRecord /\ caller \in CallerRecord

-----------------------------------------------------------------------------
\* Stages of the constructors.
Compiling == {"mirror", "compile", "load", "sync"}
Planned == {"prepare", "map", "events", "validate", "planned", "mask"}
Planning == {"alloc", "planless"} \cup Planned
MakingStages == Compiling \cup Planning \cup {"client"}
ClosingStages == {"unload", "kv", "plan", "surfaces"}

Making(j) == j.op \in {"open", "reset"} /\ j.stage # "retire"
Closing(j) == j.op = "close" /\ j.stage # "retire"

\* The plan of the job has a K/V state by now.
BindsKV(j) ==
  j.kind = "attention" /\ (j.stage \in Planned \/ (j.stage = "alloc" /\ j.next # 1))

\* What may be at which stage.
JobKinds(j) ==
  /\ j.stage \in {"compile", "load", "sync"} => j.kind \notin {"client", "files"}
  /\ j.stage = "mirror" => j.kind # "client"
  /\ j.stage = "client" => j.kind \in {"client", "files", "stack"}
  /\ j.stage \in {"alloc", "planless"} => HasPlan(j.kind) \/ j.kind = "compiled"
  /\ j.stage \in Planned => HasPlan(j.kind)
  /\ j.stage = "mask" => j.kind = "attention"
  /\ j.stage \in Planning /\ j.kind = "stack" => j.path \in {"client", "memory"}
  /\ ~(j.stage \in Planning /\ j.kind = "stack") => j.path \in {"strict", "helper"}
  /\ j.stage = "alloc" => j.next \in 1..Len(Roles(j.kind))
  /\ j.stage \in Compiling \cup {"client"} => j.next = 1
  /\ j.kv # 0 <=> BindsKV(j)

JobOk ==
  /\ job.op = "none" => job = NoJob
  /\ job.op \in {"open", "reset"} => job.stage \in MakingStages \cup {"retire"}
  /\ Making(job) => /\ JobKinds(job)
                    /\ Len(job.built) < job.layers
                    /\ job.built # << >> => job.kind = "stack"
                    /\ job.p \notin Range(job.built)
                    /\ job.retire = << >>
  /\ job.op = "open" => draft = NoDraft /\ caller.stage = "idle"
  /\ job.op = "open" /\ job.stage = "retire" => job.kind = "stack" /\ Len(job.retire) <= 1 /\ job.kv = 0
  /\ job.op = "reset" =>
       /\ draft.state = "open" /\ draft.kind = "stateful" /\ job.kind = "stateful"
       /\ job.kv = 0 /\ job.built = << >>
       /\ Making(job) => job.p \notin Range(draft.progs)
       /\ job.stage = "retire" => Len(job.retire) <= 1 /\ Range(job.retire) \cap Range(draft.progs) = {}
  /\ job.op = "close" =>
       /\ draft.state = "closed" /\ job.stage \in ClosingStages \cup {"retire"}
       /\ Closing(job) => job.retire = << >> /\ (job.kind # "stack" => Len(job.built) = 1)
                          /\ \A i, k \in DOMAIN job.built : i # k => job.built[i] # job.built[k]
       /\ job.stage = "retire" => job.kind = "stack" \/ job.retire = << >>
       /\ \A i, k \in DOMAIN job.retire : i # k => job.retire[i] # job.retire[k]

DraftOk ==
  /\ draft.state # "open" => draft.progs = << >> /\ draft.kv = 0 /\ draft.bound = 0
  /\ draft.state = "open" /\ draft.kind # "stack" => Len(draft.progs) = 1
  /\ \A i, k \in DOMAIN draft.progs : i # k => draft.progs[i] # draft.progs[k]
  /\ draft.bound # 0 => draft.bound = draft.kv

CallerOk ==
  /\ caller.stage # "idle" => draft.state \in {"open", "closed"} /\ draft.bound = 0
  /\ caller.stage # "swap" => caller.kv = 0
  /\ caller.stage = "swap" => caller.kv # 0

Control == JobOk /\ DraftOk /\ CallerOk

-----------------------------------------------------------------------------
\* What the programs hold: X is what program p does.
Complete(X, p, kind) ==
  /\ X \subseteq Models(p) \cup Plan(p) \cup Surfaces(p, kind) \cup {Dir(p)}
  /\ Memory(p) \in X <=> Client(p) \notin X
  /\ Surfaces(p, kind) \subseteq X
  /\ Request(p) \in X <=> HasPlan(kind)
  /\ Events(p) \in X => HasPlan(kind)
  /\ Dir(p) \in X <=> kind = "files"

\* The surfaces before the one that is allocated next.
Before(p, kind, n) == {<<"surface", p, Roles(kind)[i]>> : i \in {m \in 1..(n - 1) : Roles(kind)[m] # "kv"}}

DirIn(j) == j.stage \in {"compile", "load", "sync"} \/ (j.stage = "client" /\ j.kind = "files")
MemoryIn(j) == j.stage = "sync" \/ j.stage \in Planning \/ (j.stage = "client" /\ j.kind = "stack")
ClientIn(j) == j.stage \in Planning /\ j.path = "client"
RequestIn(j) == j.stage \in {"events", "validate", "planned", "mask"}
SurfacesIn(j) ==
  CASE j.stage = "alloc" -> Before(j.p, j.kind, j.next)
    [] j.stage \in Planned -> Surfaces(j.p, j.kind)
    [] OTHER -> {}

Made(X, j) ==
  /\ X \subseteq Models(j.p) \cup Plan(j.p) \cup Surfaces(j.p, j.kind) \cup {Dir(j.p)}
  /\ Dir(j.p) \in X <=> DirIn(j)
  /\ Memory(j.p) \in X <=> MemoryIn(j)
  /\ Client(j.p) \in X <=> ClientIn(j)
  /\ Request(j.p) \in X <=> RequestIn(j)
  /\ Events(j.p) \in X => RequestIn(j)
  /\ X \cap Surfaces(j.p, j.kind) = SurfacesIn(j)

Retiring(X, p, kind) ==
  /\ X \subseteq Models(p) \cup Plan(p) \cup Surfaces(p, kind)
  /\ X \cap Plan(p) # {} => Surfaces(p, kind) \subseteq X /\ X \cap Models(p) # {}

Closed(X, p, j) ==
  CASE j.stage = "unload" -> Complete(X, p, j.kind)
    [] j.stage \in {"kv", "plan"} ->
         /\ X \subseteq Plan(p) \cup Surfaces(p, j.kind)
         /\ Surfaces(p, j.kind) \subseteq X
    [] OTHER -> X \subseteq Surfaces(p, j.kind)

\* The programs that have a role.
InUse ==
  Range(draft.progs) \cup (IF Making(job) THEN {job.p} \cup Range(job.built) ELSE {})
    \cup Range(job.retire) \cup (IF Closing(job) THEN Range(job.built) ELSE {})

RoleOk(p) ==
  /\ p \in Range(draft.progs) => Complete(Part(p), p, draft.kind)
  /\ Making(job) /\ p = job.p => Made(Part(p), job)
  /\ Making(job) /\ p \in Range(job.built) => Complete(Part(p), p, job.kind)
  /\ p \in Range(job.retire) =>
       IF p = Head(job.retire) THEN Retiring(Part(p), p, job.kind) ELSE Complete(Part(p), p, job.kind)
  /\ Closing(job) /\ p \in Range(job.built) =>
       IF job.kind = "stack" THEN Complete(Part(p), p, job.kind) ELSE Closed(Part(p), p, job)
  /\ p \notin InUse => Part(p) = {}

Parts ==
  /\ held \subseteq {Modelc} \cup AllKV \cup UNION {Of(p) : p \in Prog}
  /\ \A p \in Prog : RoleOk(p)

\* The K/V states that are alive.
JobKV == IF job.op = "open" \/ (job.op = "close" /\ job.stage \in {"unload", "kv"}) THEN job.kv ELSE 0

KVOk ==
  /\ held \cap AllKV = KVs(draft.kv) \cup KVs(JobKV) \cup KVs(caller.kv)
  /\ draft.kv # 0 => draft.kv # JobKV /\ draft.kv # caller.kv
  /\ JobKV # 0 => JobKV # caller.kv

BuildInv == Records /\ Control /\ Parts /\ KVOk

-----------------------------------------------------------------------------
\* The call of NewANEDrafter.
Drafting == {"prepared", "shed", "ffn", "late", "open", "opening", "started"}

Build == {"none", "transformer", "attention", "modelir", "profile", "stack", "reference", "ffn"}
Out == Mode \cup {"none", "reference_only", "external_modelc", "ffn_fallback"}
RungRecord ==
  [strategy : Strategy, build : Build, out : Out, layers : {1, 2}, taps : BOOLEAN]

\* The models of the ladder.
Rungs == {r \in RungRecord : r.build # "none" /\ (r.strategy = "reference-only" <=> r.build = "reference")}

StartRecord ==
  [stage : {"bare", "prepare", "try", "building", "tables", "kv", "untabled", "prepared", "shed",
            "ffn", "late", "open", "opening", "started", "closing", "refused", "off"},
   rung : Nat, prep : RungRecord,
   path : BOOLEAN, prefer : BOOLEAN, runner : BOOLEAN, guard : BOOLEAN]

StartOk ==
  /\ env \in Envs /\ start \in StartRecord
  /\ Modelc \in held => start.stage \in {"late", "open", "opening", "started", "closing"}
  /\ job.op = "open" => start.stage \in {"bare", "building", "opening"}
  /\ job.op = "reset" => start.stage \in {"bare", "started"}
  /\ job.op = "close" => start.stage \in {"bare", "untabled", "shed", "closing"}
  /\ caller.stage # "idle" => start.stage \in {"bare", "started", "closing", "kv", "off"}
  /\ start.stage \in {"try", "building", "tables", "kv", "untabled"} =>
       env.strategy # "?" /\ start.rung \in 1..Len(Ladder)
  /\ start.stage = "prepare" => start.rung = 1
  /\ start.stage \in {"building", "tables", "kv", "untabled"} => Rung.build \notin {"reference", "ffn"}
  /\ start.stage \in {"prepare", "try", "untabled", "shed"} => draft.state # "open"
  /\ start.stage \in {"tables", "kv"} => draft.state = "open"
  /\ start.stage \in Drafting /\ draft.state = "open" => start.prep.strategy # "reference-only"
  /\ start.stage = "opening" => start.prep.strategy # "reference-only" /\ start.path
  /\ start.stage = "started" => draft.state = "open" \/ start.prep.strategy = "reference-only"
  /\ start.stage \in Drafting \ {"prepared"} =>
       /\ start.prep.strategy = "reference-only" => start.prefer
       /\ start.prefer \/ start.guard => start.runner
       /\ start.prefer /\ draft.state = "open" => On("keep") \/ start.path

DraftInv == BuildInv /\ StartOk

-----------------------------------------------------------------------------
\* Resources of two programs, or of two K/V states, have nothing in common.
LEMMA OfIs ==
  ASSUME NEW p, NEW r \in Of(p)
  PROVE  r[2] = p /\ r[1] \in {"model", "request", "dir", "surface"}
<1>1. CASE r \in Models(p) \cup Plan(p) \cup {Dir(p)}
  BY <1>1 DEF Models, Plan, Dir, Memory, Client, Request, Events
<1>2. CASE r \in UNION {Surfaces(p, kind) : kind \in Kind}
  BY <1>2 DEF Surfaces
<1> QED
  BY <1>1, <1>2 DEF Of

LEMMA KVIs ==
  ASSUME NEW s, NEW r \in KV(s)
  PROVE  r[2] = s /\ r[1] = "kv"
BY DEF KV

LEMMA Disjoint ==
  /\ \A p, q : p # q => Of(p) \cap Of(q) = {}
  /\ \A p : Of(p) \cap AllKV = {}
  /\ \A p, s : Of(p) \cap KV(s) = {}
  /\ \A s, t : s # t => KV(s) \cap KV(t) = {}
  /\ \A p \in Prog : Modelc \notin Of(p)
  /\ Modelc \notin AllKV /\ \A s : Modelc \notin KV(s)
<1>1. \A p, q : p # q => Of(p) \cap Of(q) = {}
  BY OfIs
<1>2. \A p, s : Of(p) \cap KV(s) = {}
  BY OfIs, KVIs
<1>3. \A p : Of(p) \cap AllKV = {}
  BY <1>2 DEF AllKV
<1>4. \A s, t : s # t => KV(s) \cap KV(t) = {}
  BY KVIs
<1>5. Modelc[1] = "dir" /\ Modelc[2] = 0
  BY DEF Modelc, Dir
<1>6. \A p \in Prog : Modelc \notin Of(p)
  <2>1. \A p \in Prog : p # 0
    BY DEF Prog
  <2> QED
    BY <1>5, <2>1, OfIs
<1>7. \A s : Modelc \notin KV(s)
  BY <1>5, KVIs
<1>8. Modelc \notin AllKV
  BY <1>7 DEF AllKV
<1> QED
  BY <1>1, <1>2, <1>3, <1>4, <1>6, <1>7, <1>8

\* The resources of a program are told apart.
LEMMA Apart ==
  ASSUME NEW p
  PROVE  /\ Memory(p) # Client(p) /\ Memory(p) # Request(p) /\ Memory(p) # Events(p) /\ Memory(p) # Dir(p)
         /\ Client(p) # Request(p) /\ Client(p) # Events(p) /\ Client(p) # Dir(p)
         /\ Request(p) # Events(p) /\ Request(p) # Dir(p) /\ Events(p) # Dir(p)
         /\ Models(p) = {Memory(p), Client(p)} /\ Plan(p) = {Request(p), Events(p)}
         /\ \A kind : /\ Memory(p) \notin Surfaces(p, kind) /\ Client(p) \notin Surfaces(p, kind)
                      /\ Request(p) \notin Surfaces(p, kind) /\ Events(p) \notin Surfaces(p, kind)
                      /\ Dir(p) \notin Surfaces(p, kind)
BY DEF Models, Plan, Dir, Memory, Client, Request, Events, Surfaces

LEMMA InOf ==
  ASSUME NEW p, NEW kind \in Kind
  PROVE  /\ Models(p) \subseteq Of(p) /\ Plan(p) \subseteq Of(p) /\ Dir(p) \in Of(p)
         /\ Surfaces(p, kind) \subseteq Of(p)
BY DEF Of

\* The surfaces of each kind of model.
LEMMA RolesFacts ==
  ASSUME NEW kind \in Kind
  PROVE  HasPlan(kind) \/ kind = "compiled" =>
              /\ Len(Roles(kind)) \in Nat \ {0}
              /\ DOMAIN Roles(kind) = 1..Len(Roles(kind))
              /\ \A i \in 1..Len(Roles(kind)) : Roles(kind)[i] = "kv" <=> kind = "attention" /\ i = 1
              /\ kind = "attention" => Len(Roles(kind)) > 1
<1>1. CASE kind = "attention"
  <2>1. Roles(kind) = <<"kv", "input", "cos", "sin", "output", "currK", "currV", "mask">>
    BY <1>1 DEF Roles
  <2>2. Len(Roles(kind)) = 8
    BY <2>1
  <2>3. Roles(kind)[1] = "kv" /\ Roles(kind)[2] = "input" /\ Roles(kind)[3] = "cos" /\ Roles(kind)[4] = "sin" /\ Roles(kind)[5] = "output" /\ Roles(kind)[6] = "currK" /\ Roles(kind)[7] = "currV" /\ Roles(kind)[8] = "mask"
    BY <2>1
  <2>4. \A i \in 1..8 : i = 1 \/ i = 2 \/ i = 3 \/ i = 4 \/ i = 5 \/ i = 6 \/ i = 7 \/ i = 8
    OBVIOUS
  <2>5. DOMAIN Roles(kind) = 1..8
    BY <2>1
  <2> QED
    BY <1>1, <2>2, <2>3, <2>4, <2>5
<1>2. CASE kind = "rope"
  <2>1. Roles(kind) = <<"input", "cos", "sin", "output">>
    BY <1>2 DEF Roles
  <2>2. Len(Roles(kind)) = 4
    BY <2>1
  <2>3. Roles(kind)[1] = "input" /\ Roles(kind)[2] = "cos" /\ Roles(kind)[3] = "sin" /\ Roles(kind)[4] = "output"
    BY <2>1
  <2>4. \A i \in 1..4 : i = 1 \/ i = 2 \/ i = 3 \/ i = 4
    OBVIOUS
  <2>5. DOMAIN Roles(kind) = 1..4
    BY <2>1
  <2> QED
    BY <1>2, <2>2, <2>3, <2>4, <2>5
<1>3. CASE kind \in {"stateful", "compiled"}
  <2>1. Roles(kind) = <<"input", "output", "state">>
    BY <1>3 DEF Roles
  <2>2. Len(Roles(kind)) = 3
    BY <2>1
  <2>3. Roles(kind)[1] = "input" /\ Roles(kind)[2] = "output" /\ Roles(kind)[3] = "state"
    BY <2>1
  <2>4. \A i \in 1..3 : i = 1 \/ i = 2 \/ i = 3
    OBVIOUS
  <2>5. DOMAIN Roles(kind) = 1..3
    BY <2>1
  <2> QED
    BY <1>3, <2>2, <2>3, <2>4, <2>5
<1>4. CASE kind = "stack"
  <2>1. Roles(kind) = <<"input", "output">>
    BY <1>4 DEF Roles
  <2>2. Len(Roles(kind)) = 2
    BY <2>1
  <2>3. Roles(kind)[1] = "input" /\ Roles(kind)[2] = "output"
    BY <2>1
  <2>4. \A i \in 1..2 : i = 1 \/ i = 2
    OBVIOUS
  <2>5. DOMAIN Roles(kind) = 1..2
    BY <2>1
  <2> QED
    BY <1>4, <2>2, <2>3, <2>4, <2>5
<1> QED
  BY <1>1, <1>2, <1>3, <1>4 DEF HasPlan

LEMMA BeforeFacts ==
  ASSUME NEW p, NEW kind \in Kind, HasPlan(kind) \/ kind = "compiled"
  PROVE  /\ Before(p, kind, 1) = {}
         /\ \A n \in 1..Len(Roles(kind)) :
              /\ Before(p, kind, n + 1) =
                   Before(p, kind, n) \cup
                     (IF Roles(kind)[n] = "kv" THEN {} ELSE {<<"surface", p, Roles(kind)[n]>>})
              /\ Before(p, kind, n) \subseteq Surfaces(p, kind)
              /\ Roles(kind)[n] # "kv" => <<"surface", p, Roles(kind)[n]>> \in Surfaces(p, kind)
         /\ Before(p, kind, Len(Roles(kind)) + 1) = Surfaces(p, kind)
<1> DEFINE R == Roles(kind)
           N == Len(R)
<1>1. N \in Nat /\ DOMAIN R = 1..N
  BY RolesFacts
<1> HIDE DEF R
<1>2. Surfaces(p, kind) = {<<"surface", p, R[i]>> : i \in {m \in 1..N : R[m] # "kv"}}
  BY <1>1 DEF Surfaces, Range, R
<1>3. \A n : Before(p, kind, n) = {<<"surface", p, R[i]>> : i \in {m \in 1..(n - 1) : R[m] # "kv"}}
  BY DEF Before, R
<1>4. Before(p, kind, 1) = {} /\ Before(p, kind, N + 1) = Surfaces(p, kind)
  <2>1. {m \in 1..(1 - 1) : R[m] # "kv"} = {} /\ (N + 1) - 1 = N
    BY <1>1
  <2> QED
    BY <1>2, <1>3, <2>1
<1>5. ASSUME NEW n \in 1..N
      PROVE  /\ Before(p, kind, n + 1) =
                   Before(p, kind, n) \cup (IF R[n] = "kv" THEN {} ELSE {<<"surface", p, R[n]>>})
             /\ Before(p, kind, n) \subseteq Surfaces(p, kind)
             /\ R[n] # "kv" => <<"surface", p, R[n]>> \in Surfaces(p, kind)
  <2> DEFINE At1 == {m \in 1..((n + 1) - 1) : R[m] # "kv"}
             At0 == {m \in 1..(n - 1) : R[m] # "kv"}
  <2>1. At1 = At0 \cup (IF R[n] = "kv" THEN {} ELSE {n})
    BY <1>1
  <2>2. At0 \subseteq {m \in 1..N : R[m] # "kv"} /\ (R[n] # "kv" => n \in {m \in 1..N : R[m] # "kv"})
    BY <1>1
  <2>3. Before(p, kind, n + 1) = {<<"surface", p, R[i]>> : i \in At1} /\ Before(p, kind, n) = {<<"surface", p, R[i]>> : i \in At0}
    BY <1>3
  <2> HIDE DEF At0, At1
  <2> QED
    BY <1>2, <2>1, <2>2, <2>3
<1> QED
  BY <1>4, <1>5 DEF R

LEMMA BeforeKV ==
  ASSUME NEW p, NEW kind \in Kind, HasPlan(kind) \/ kind = "compiled", NEW n \in 1..Len(Roles(kind)),
         NEW next, next = n + 1, Roles(kind)[n] = "kv"
  PROVE  Before(p, kind, next) = Before(p, kind, n)
<1>1. \A m \in 1..Len(Roles(kind)) :
        /\ Before(p, kind, m + 1) =
             Before(p, kind, m) \cup (IF Roles(kind)[m] = "kv" THEN {} ELSE {<<"surface", p, Roles(kind)[m]>>})
        /\ Before(p, kind, m) \subseteq Surfaces(p, kind)
        /\ Roles(kind)[m] # "kv" => <<"surface", p, Roles(kind)[m]>> \in Surfaces(p, kind)
  BY BeforeFacts, Zenon
<1> QED
  BY <1>1

-----------------------------------------------------------------------------
\* Identities that are free.
LEMMA MinIs ==
  ASSUME NEW S, S \subseteq 1..3, S # {}
  PROVE  Min(S) \in S
<1>1. \E x \in S : \A y \in S : x <= y
  <2>1. CASE 1 \in S
    BY <2>1
  <2>2. CASE 1 \notin S /\ 2 \in S
    <3>1. \A y \in S : y = 2 \/ y = 3
      BY <2>2
    <3> QED
      BY <2>2, <3>1
  <2>3. CASE 1 \notin S /\ 2 \notin S
    <3>1. 3 \in S /\ \A y \in S : y = 3
      <4>1. \A y \in S : y = 3
        BY <2>3
      <4> QED
        BY <4>1
    <3>2. 3 <= 3
      OBVIOUS
    <3> QED
      BY <3>1, <3>2
  <2> QED
    BY <2>1, <2>2, <2>3
<1> QED
  BY <1>1 DEF Min

\* What is held is of one of three kinds.
LEMMA HeldIs ==
  ASSUME Parts, NEW r \in held
  PROVE  \/ r[1] = "dir" /\ r[2] = 0
         \/ \E s \in State : r \in KV(s) /\ r[1] = "kv" /\ r[2] = s
         \/ \E p \in Prog : r \in Part(p) /\ r[2] = p /\ r[1] \in {"model", "request", "dir", "surface"}
<1>1. CASE r = Modelc
  BY <1>1 DEF Modelc, Dir
<1>2. CASE r \in AllKV
  BY <1>2, KVIs DEF AllKV
<1>3. CASE r \in UNION {Of(p) : p \in Prog}
  BY <1>3, OfIs DEF Part
<1> QED
  BY <1>1, <1>2, <1>3 DEF Parts

LEMMA FreeKV ==
  ASSUME Records, Parts, KVOk, draft.kv = 0 \/ JobKV = 0 \/ caller.kv = 0
  PROVE  LET s == Free({"kv"}, State, {})
         IN  s \in State /\ s \notin {draft.kv, JobKV, caller.kv} /\ KV(s) \cap held = {}
<1> DEFINE S == {i \in State \ {} : ~\E r \in held : r[1] \in {"kv"} /\ r[2] = i}
<1>1. \E i \in State : i \notin {draft.kv, JobKV, caller.kv}
  <2>1. 1 \in State /\ 2 \in State /\ 3 \in State
    BY DEF State
  <2> QED
    BY <2>1
<1>2. ASSUME NEW i \in State PROVE i \in S <=> i \notin {draft.kv, JobKV, caller.kv}
  <2>0. i # 0
    BY DEF State
  <2>1. ASSUME i \in {draft.kv, JobKV, caller.kv} PROVE i \notin S
    <3>1. KV(i) \subseteq held /\ <<"kv", i, "K">> \in KV(i)
      BY <2>0, <2>1 DEF KVOk, KVs, KV
    <3>2. <<"kv", i, "K">>[1] = "kv" /\ <<"kv", i, "K">>[2] = i
      OBVIOUS
    <3> QED
      BY <3>1, <3>2
  <2>2. ASSUME NEW r \in held, r[1] = "kv", r[2] = i PROVE i \in {draft.kv, JobKV, caller.kv}
    <3>1. PICK s \in State : r \in KV(s) /\ r[2] = s
      BY <2>2, HeldIs
    <3>2. r \in KVs(draft.kv) \cup KVs(JobKV) \cup KVs(caller.kv)
      BY <3>1 DEF KVOk, AllKV
    <3> QED
      BY <2>2, <3>2, KVIs DEF KVs
  <2> QED
    BY <2>1, <2>2
<1>3. S # {} /\ S \subseteq 1..3
  BY <1>1, <1>2 DEF State
<1>4. Free({"kv"}, State, {}) = Min(S)
  BY DEF Free
<1>5. Min(S) \in S
  BY <1>3, MinIs
<1>6. KV(Min(S)) \cap held = {}
  BY <1>5, KVIs
<1> HIDE DEF S
<1> QED
  BY <1>2, <1>3, <1>4, <1>5, <1>6 DEF State

LEMMA FreeProg ==
  ASSUME Parts, NEW also, InUse \subseteq also, \E p \in Prog : p \notin also
  PROVE  LET p == Free({"model", "request", "surface"}, Prog, also)
         IN  p \in Prog /\ p \notin also /\ Part(p) = {}
<1> DEFINE S == {i \in Prog \ also : ~\E r \in held : r[1] \in {"model", "request", "surface"} /\ r[2] = i}
<1>1. \A p \in Prog : p \notin also => Part(p) = {}
  BY DEF Parts, RoleOk
<1>2. ASSUME NEW i \in Prog, i \notin also PROVE i \in S
  <2>1. ASSUME NEW r \in held, r[1] \in {"model", "request", "surface"}, r[2] = i PROVE FALSE
    <3>1. \E p \in Prog : r \in Part(p) /\ r[2] = p
      BY <2>1, HeldIs
    <3> QED
      BY <1>1, <1>2, <2>1, <3>1
  <2> QED
    BY <1>2, <2>1
<1>3. S # {} /\ S \subseteq 1..3
  BY <1>2 DEF Prog
<1>4. Min(S) \in S
  BY <1>3, MinIs
<1>5. Free({"model", "request", "surface"}, Prog, also) = Min(S)
  BY DEF Free
<1> QED
  BY <1>1, <1>4, <1>5

-----------------------------------------------------------------------------
\* A step that touches the resources of one program, or of K/V states.
Only(p) ==
  /\ \A q : q # p => held' \cap Of(q) = held \cap Of(q)
  /\ held' \subseteq {Modelc} \cup AllKV \cup UNION {Of(q) : q \in Prog}
  /\ Modelc \in held' <=> Modelc \in held

SameKV == held' \cap AllKV = held \cap AllKV

LEMMA TakesOf ==
  ASSUME Parts, NEW p \in Prog, NEW S, S \subseteq Of(p), Takes(S)
  PROVE  Only(p) /\ SameKV /\ held' \cap Of(p) = Part(p) \cup S
<1>1. held' = held \cup S /\ held \subseteq {Modelc} \cup AllKV \cup UNION {Of(q) : q \in Prog}
  BY DEF Takes, Parts
<1>2. \A q : q # p => S \cap Of(q) = {}
  BY Disjoint
<1>3. S \cap AllKV = {} /\ Modelc \notin S
  BY Disjoint
<1> QED
  BY <1>1, <1>2, <1>3 DEF Only, SameKV, Part

LEMMA DropsOf ==
  ASSUME Parts, NEW p \in Prog, NEW S, S \subseteq Of(p), Drops(S)
  PROVE  Only(p) /\ SameKV /\ held' \cap Of(p) = Part(p) \ S
<1>1. held' = held \ S /\ held \subseteq {Modelc} \cup AllKV \cup UNION {Of(q) : q \in Prog}
  BY DEF Drops, Parts
<1>2. \A q : q # p => S \cap Of(q) = {}
  BY Disjoint
<1>3. S \cap AllKV = {} /\ Modelc \notin S
  BY Disjoint
<1> QED
  BY <1>1, <1>2, <1>3 DEF Only, SameKV, Part

\* The same with a K/V state on top.
LEMMA DropsOfKV ==
  ASSUME Parts, NEW p \in Prog, NEW S, S \subseteq Of(p), NEW s, Drops(S \cup KV(s))
  PROVE  Only(p) /\ held' \cap AllKV = (held \cap AllKV) \ KV(s) /\ held' \cap Of(p) = Part(p) \ S
<1>1. held' = held \ (S \cup KV(s)) /\ held \subseteq {Modelc} \cup AllKV \cup UNION {Of(q) : q \in Prog}
  BY DEF Drops, Parts
<1>2. \A q : q # p => S \cap Of(q) = {} /\ KV(s) \cap Of(q) = {}
  BY Disjoint
<1>3. S \cap AllKV = {} /\ Modelc \notin S /\ Modelc \notin KV(s) /\ KV(s) \cap Of(p) = {}
  BY Disjoint
<1> QED
  BY <1>1, <1>2, <1>3 DEF Only, Part

LEMMA TakesKV ==
  ASSUME Parts, NEW s \in State, Takes(KV(s))
  PROVE  (\A p : Only(p)) /\ held' \cap AllKV = (held \cap AllKV) \cup KV(s)
<1>1. held' = held \cup KV(s) /\ held \subseteq {Modelc} \cup AllKV \cup UNION {Of(q) : q \in Prog}
  BY DEF Takes, Parts
<1>2. \A q : KV(s) \cap Of(q) = {}
  BY Disjoint
<1>3. KV(s) \subseteq AllKV /\ Modelc \notin KV(s)
  BY Disjoint DEF AllKV
<1> QED
  BY <1>1, <1>2, <1>3 DEF Only

LEMMA DropsKV ==
  ASSUME Parts, NEW s, Drops(KV(s))
  PROVE  (\A p : Only(p)) /\ (\A p : held' \cap Of(p) = Part(p))
         /\ held' \cap AllKV = (held \cap AllKV) \ KV(s)
<1>1. held' = held \ KV(s) /\ held \subseteq {Modelc} \cup AllKV \cup UNION {Of(q) : q \in Prog}
  BY DEF Drops, Parts
<1>2. \A q : KV(s) \cap Of(q) = {}
  BY Disjoint
<1>3. Modelc \notin KV(s)
  BY Disjoint
<1> QED
  BY <1>1, <1>2, <1>3 DEF Only, Part

LEMMA SameHeld ==
  ASSUME Parts, held' = held
  PROVE  (\A p : Only(p)) /\ SameKV /\ \A p : held' \cap Of(p) = Part(p)
BY DEF Only, SameKV, Part, Parts

-----------------------------------------------------------------------------
\* The next state of a job.
SameJob ==
  /\ job' \in JobRecord
  /\ job'.op = job.op /\ job'.kind = job.kind /\ job'.p = job.p /\ job'.layers = job.layers
  /\ job'.built = job.built /\ job'.retire = job.retire

LEMMA GoIs ==
  ASSUME job \in JobRecord, NEW stage \in Stage, job' = Go(stage)
  PROVE  /\ SameJob /\ job'.stage = stage /\ job'.kv = job.kv /\ job'.path = job.path
         /\ job'.next = job.next /\ job'.try = job.try
BY DEF Go, JobRecord, SameJob

\* What a step of a job leaves to the call of NewANEDrafter.
Tame ==
  /\ Modelc \in held' => Modelc \in held
  /\ job'.op \in {job.op, "none"}
  /\ caller'.stage # "idle" => caller.stage # "idle"
  /\ draft'.state = draft.state \/ job.op = "open"

LEMMA MakeStep ==
  ASSUME BuildInv, Making(job), SameJob, job'.stage \in MakingStages, JobKinds(job'),
         Only(job.p), KVOk', Made(held' \cap Of(job.p), job'),
         draft' = draft, caller' = caller
  PROVE  BuildInv' /\ Tame
<1>1. Records /\ Control /\ Parts
  BY DEF BuildInv
<1>2. Making(job')
  <2>1. job'.stage # "retire"
    BY DEF MakingStages, Compiling, Planning, Planned
  <2> QED
    BY <2>1 DEF Making, SameJob
<1>3. Records'
  BY <1>1 DEF Records, SameJob
<1>4. Control'
  <2>1. JobOk'
    <3>1. job.op \in {"open", "reset"} /\ job.stage # "retire" /\ JobOk
      BY <1>1 DEF Making, Control
    <3>2. job'.op = job.op /\ job'.stage \in MakingStages /\ job'.stage # "retire"
      BY <1>2 DEF Making, SameJob
    <3>3. job.op = "reset" => job'.kv = 0
      BY <3>1 DEF JobOk, JobKinds, BindsKV, SameJob
    <3> QED
      BY <1>2, <3>1, <3>2, <3>3 DEF JobOk, SameJob, Making, Closing
  <2> QED
    BY <1>1, <2>1 DEF Control, DraftOk, CallerOk
<1>5. Parts'
  <2>0. ~Closing(job) /\ ~Closing(job') /\ job.p \in Prog
    BY <1>1 DEF Making, Closing, SameJob, Records, JobRecord
  <2>1. ASSUME NEW q \in Prog PROVE RoleOk(q)'
    <3>1. RoleOk(q) /\ RoleOk(job.p)
      BY <1>1, <2>0, <2>1 DEF Parts
    <3>2. InUse' = InUse
      BY <1>2, <2>0 DEF InUse, SameJob
    <3>3. job.p \notin Range(draft.progs) /\ job.p \notin Range(job.built) /\ job.retire = << >>
          /\ Range(job.retire) = {}
      <4>1. job.p \notin Range(job.built) /\ job.retire = << >>
        BY <1>1 DEF Control, JobOk
      <4>2. Range(<< >>) = {}
        BY DEF Range
      <4>3. job.p \notin Range(draft.progs)
        BY <1>1, <4>2 DEF Control, JobOk, Making, NoDraft
      <4> QED
        BY <4>1, <4>2, <4>3
    <3>4. CASE q = job.p
      BY <1>2, <2>0, <3>2, <3>3, <3>4 DEF RoleOk, SameJob, InUse, Part
    <3>5. CASE q # job.p
      <4>1. held' \cap Of(q) = Part(q)
        BY <3>5 DEF Only, Part
      <4> QED
        BY <1>2, <2>0, <3>1, <3>2, <3>3, <3>5, <4>1 DEF RoleOk, SameJob, Part
    <3> QED
      BY <3>4, <3>5
  <2> QED
    BY <2>1 DEF Parts, Only
<1> QED
  BY <1>3, <1>4, <1>5 DEF BuildInv, Tame, Only, SameJob

LEMMA NoJobIs ==
  /\ NoJob \in JobRecord /\ NoJob.op = "none" /\ NoJob.stage = "done" /\ NoJob.retire = << >>
  /\ NoJob.built = << >> /\ NoJob.kv = 0 /\ NoJob.p = 1 /\ NoJob.layers = 1
  /\ NoJob.path = "strict" /\ NoJob.next = 1 /\ NoJob.try = 1
  /\ Range(<< >>) = {}
  /\ NoDraft \in DraftRecord /\ NoDraft.state = "none" /\ NoDraft.progs = << >>
  /\ NoDraft.kv = 0 /\ NoDraft.bound = 0
BY DEF NoJob, JobRecord, Kind, Prog, Stage, Range, NoDraft, DraftRecord

LEMMA GivesIs ==
  ASSUME Records, NEW state \in {"open", "failed"}, NEW progs \in Seq(Prog), Gives(state, progs)
  PROVE  /\ draft' \in DraftRecord /\ draft'.state = state /\ draft'.kind = job.kind
         /\ draft'.progs = progs
         /\ draft'.kv = (IF state = "open" THEN job.kv ELSE 0) /\ draft'.bound = draft'.kv
BY DEF Gives, NoDraft, DraftRecord, Records, JobRecord

\* Between two calls only the model holds anything.
LEMMA IdleParts ==
  ASSUME Parts, job' = NoJob, NEW p0 \in Prog, Only(p0),
         \A p \in Prog : IF p \in Range(draft'.progs)
                         THEN Complete(held' \cap Of(p), p, draft'.kind)
                         ELSE held' \cap Of(p) = {}
  PROVE  Parts'
<1>1. ~Making(job') /\ ~Closing(job') /\ Range(job'.retire) = {}
  BY NoJobIs DEF Making, Closing
<1>2. ASSUME NEW p \in Prog PROVE RoleOk(p)'
  BY <1>1, <1>2 DEF RoleOk, InUse, Part
<1> QED
  BY <1>2 DEF Parts, Only

LEMMA CompleteRetires ==
  ASSUME NEW X, NEW p, NEW kind, kind # "files", Complete(X, p, kind)
  PROVE  Retiring(X, p, kind)
<1>1. X \subseteq Models(p) \cup Plan(p) \cup Surfaces(p, kind)
  BY Apart DEF Complete
<1>2. Surfaces(p, kind) \subseteq X /\ X \cap Models(p) # {}
  BY Apart DEF Complete
<1> QED
  BY <1>1, <1>2 DEF Retiring

LEMMA MakeOpens ==
  ASSUME BuildInv, Making(job), job.op = "open", NEW progs \in Seq(Prog),
         Gives("open", progs), Ends, caller' = caller, Only(job.p),
         Range(progs) = {job.p} \cup Range(job.built),
         \A i, k \in DOMAIN progs : i # k => progs[i] # progs[k],
         job.kind # "stack" => Len(progs) = 1,
         Complete(held' \cap Of(job.p), job.p, job.kind),
         held' \cap AllKV = KVs(job.kv)
  PROVE  BuildInv' /\ Tame
<1>1. Records /\ Control /\ Parts /\ JobOk /\ CallerOk
  BY DEF BuildInv, Control
<1>2. /\ draft' \in DraftRecord /\ draft'.state = "open" /\ draft'.kind = job.kind
      /\ draft'.progs = progs /\ draft'.kv = job.kv /\ draft'.bound = job.kv
  BY <1>1, GivesIs
<1>3. job' = NoJob /\ job'.op = "none" /\ job'.retire = << >> /\ job'.kv = 0
  BY NoJobIs DEF Ends
<1>4. draft = NoDraft /\ caller.stage = "idle" /\ caller.kv = 0 /\ Range(draft.progs) = {} /\ job.p \in Prog
  BY <1>1, NoJobIs DEF JobOk, CallerOk, Records, JobRecord
<1>5. Records'
  BY <1>1, <1>2, <1>3, NoJobIs DEF Records
<1>6. Control'
  BY <1>1, <1>2, <1>3, <1>4 DEF Control, JobOk, DraftOk, CallerOk, Making, Closing
<1>7. Parts'
  <2>1. ASSUME NEW q \in Prog, q # job.p
        PROVE  IF q \in Range(progs) THEN Complete(held' \cap Of(q), q, job.kind) ELSE held' \cap Of(q) = {}
    <3>1. held' \cap Of(q) = Part(q) /\ RoleOk(q)
      BY <1>1, <2>1 DEF Only, Part, Parts
    <3>2. Range(job.retire) = {} /\ ~Closing(job)
      BY <1>1, NoJobIs DEF JobOk, Making, Closing
    <3> QED
      BY <1>4, <2>1, <3>1, <3>2 DEF RoleOk, InUse
  <2>2. \A q \in Prog : IF q \in Range(draft'.progs)
                        THEN Complete(held' \cap Of(q), q, draft'.kind)
                        ELSE held' \cap Of(q) = {}
    BY <1>2, <2>1
  <2> QED
    BY <1>1, <1>3, <1>4, <2>2, IdleParts
<1>8. KVOk'
  BY <1>2, <1>3, <1>4 DEF KVOk, KVs, JobKV
<1> QED
  BY <1>3, <1>5, <1>6, <1>7, <1>8 DEF BuildInv, Tame, Only

LEMMA Single ==
  ASSUME NEW S, NEW s \in Seq(S), Len(s) = 1
  PROVE  Range(s) = {s[1]} /\ Head(s) = s[1] /\ s[1] \in S /\ Tail(s) = << >>
         /\ \A i, k \in DOMAIN s : i = k
<1>1. DOMAIN s = 1..1 /\ 1 \in 1..1 /\ \A i \in 1..1 : i = 1
  BY LenProperties
<1>2. Range(s) = {s[1]} /\ s[1] \in S /\ Head(s) = s[1]
  BY <1>1, LenProperties, HeadTailProperties DEF Range
<1>3. Tail(s) \in Seq(S) /\ Len(Tail(s)) = 0
  BY HeadTailProperties, EmptySeq
<1> QED
  BY <1>1, <1>2, <1>3, EmptySeq

LEMMA MakeFails ==
  ASSUME BuildInv, Making(job), Fails, caller' = caller, Only(job.p),
         held' \cap Of(job.p) = {}, job.built # << >> => job.kv = 0,
         held' \cap AllKV = KVs(draft.kv) \cup KVs(caller.kv)
  PROVE  BuildInv' /\ Tame
<1>1. Records /\ Control /\ Parts /\ KVOk /\ JobOk /\ DraftOk /\ CallerOk
  BY DEF BuildInv, Control
<1>2. /\ job.p \in Prog /\ Range(job.retire) = {} /\ ~Closing(job) /\ job.p \notin Range(draft.progs)
      /\ Len(job.built) < job.layers /\ job.p \notin Range(job.built)
      /\ job.built # << >> => job.kind = "stack"
  BY <1>1, NoJobIs DEF Records, JobRecord, JobOk, Making, Closing
<1>3. \A q \in Prog : q # job.p => held' \cap Of(q) = Part(q) /\ RoleOk(q)
  BY <1>1 DEF Only, Part, Parts
<1>4. CASE job.op = "open" /\ job.built = << >> /\ Gives("failed", << >>) /\ Ends
  <2>1. /\ draft' \in DraftRecord /\ draft'.state = "failed" /\ draft'.kind = job.kind
        /\ draft'.progs = << >> /\ draft'.kv = 0 /\ draft'.bound = 0
    <3>1. << >> \in Seq(Prog)
      OBVIOUS
    <3> QED
      BY <1>1, <1>4, <3>1, GivesIs
  <2>2. job' = NoJob /\ job'.op = "none" /\ job'.retire = << >> /\ job'.kv = 0
    BY <1>4, NoJobIs DEF Ends
  <2>3. /\ draft = NoDraft /\ caller.stage = "idle" /\ caller.kv = 0 /\ draft.kv = 0
        /\ Range(draft.progs) = {} /\ Range(job.built) = {} /\ Range(draft'.progs) = {}
    BY <1>1, <1>4, <2>1, NoJobIs DEF JobOk, CallerOk
  <2>4. Records'
    BY <1>1, <2>1, <2>2, NoJobIs DEF Records
  <2>5. Control'
    BY <1>1, <2>1, <2>2, <2>3 DEF Control, JobOk, DraftOk, CallerOk, Making, Closing
  <2>6. Parts'
    <3>1. \A q \in Prog : held' \cap Of(q) = {}
      BY <1>2, <1>3, <2>3 DEF RoleOk, InUse
    <3> QED
      BY <1>1, <1>2, <2>2, <2>3, <3>1, IdleParts
  <2>7. KVOk'
    BY <2>1, <2>2, <2>3 DEF KVOk, KVs, JobKV
  <2> QED
    BY <1>4, <2>2, <2>4, <2>5, <2>6, <2>7 DEF BuildInv, Tame, Only
<1>5. CASE job.op = "reset" /\ Ends /\ draft' = draft
  <2>1. job' = NoJob /\ job'.op = "none" /\ job'.retire = << >> /\ job'.kv = 0
    BY <1>5, NoJobIs DEF Ends
  <2>2. Records'
    BY <1>1, <1>5, <2>1, NoJobIs DEF Records
  <2>3. Control'
    BY <1>1, <1>5, <2>1 DEF Control, JobOk, DraftOk, CallerOk, Making, Closing
  <2>4. Parts'
    <3>1. job.built = << >> /\ Range(job.built) = {}
      BY <1>1, <1>5, NoJobIs DEF JobOk
    <3>2. \A q \in Prog : IF q \in Range(draft.progs)
                          THEN Complete(held' \cap Of(q), q, draft.kind)
                          ELSE held' \cap Of(q) = {}
      BY <1>2, <1>3, <3>1 DEF RoleOk, InUse
    <3> QED
      BY <1>1, <1>2, <1>5, <2>1, <3>2, IdleParts
  <2>5. KVOk'
    BY <1>1, <1>5, <2>1 DEF KVOk, KVs, JobKV
  <2> QED
    BY <1>5, <2>1, <2>2, <2>3, <2>4, <2>5 DEF BuildInv, Tame, Only
<1>6. CASE job.op = "open" /\ job.built # << >> /\ draft' = draft
           /\ job' = [Go("retire") EXCEPT !.retire = Reverse(job.built)]
  <2>0. job.op = "open" /\ job.built # << >> /\ draft' = draft /\ draft = NoDraft /\ caller.stage = "idle"
    BY <1>1, <1>6, Zenon DEF JobOk
  <2>1. job.built \in Seq(Prog) /\ Len(job.built) = 1 /\ job.kind = "stack"
    <3>0. job \in JobRecord
      BY <1>1 DEF Records
    <3>1. job.built \in Seq(Prog) /\ job.layers \in {1, 2} /\ job.kind = "stack"
      BY <1>2, <2>0, <3>0 DEF JobRecord
    <3>2. Len(job.built) \in Nat /\ Len(job.built) # 0
      BY <2>0, <3>1, EmptySeq, LenProperties
    <3>3. Len(job.built) < job.layers
      BY <1>2
    <3>4. ASSUME NEW n \in Nat, NEW m \in {1, 2}, n # 0, n < m PROVE n = 1
      BY <3>4
    <3> QED
      BY <3>1, <3>2, <3>3, <3>4, Zenon
  <2>2. Reverse(job.built) \in Seq(Prog) /\ Len(Reverse(job.built)) = 1 /\ Reverse(job.built)[1] = job.built[1]
    <3>1. Reverse(job.built) = [i \in 1..1 |-> job.built[(1 - i) + 1]]
      BY <2>1 DEF Reverse
    <3>2. job.built[1] \in Prog /\ \A i \in 1..1 : i = 1 /\ (1 - i) + 1 = 1
      BY <2>1
    <3>3. Reverse(job.built) \in [1..1 -> Prog]
      BY <3>1, <3>2
    <3>4. Reverse(job.built) \in Seq(Prog) /\ DOMAIN Reverse(job.built) = 1..1
      BY <3>1, <3>3
    <3> QED
      BY <3>1, <3>2, <3>4
  <2>3. /\ job' \in JobRecord /\ job'.op = "open" /\ job'.stage = "retire" /\ job'.kind = "stack"
        /\ job'.retire = Reverse(job.built) /\ job'.kv = 0 /\ job'.built = job.built
    BY <1>1, <1>6, <2>1, <2>2 DEF Records, JobRecord, Go, Stage
  <2>4. Range(job'.retire) = {job.built[1]} /\ Range(job.built) = {job.built[1]} /\ Head(job'.retire) = job.built[1]
    BY <2>1, <2>2, <2>3, Single
  <2>5. Records'
    BY <1>1, <1>6, <2>3 DEF Records
  <2>6. Control'
    <3>1. draft = NoDraft /\ caller.stage = "idle" /\ Len(job'.retire) <= 1
      <4>1. 1 <= 1
        OBVIOUS
      <4> QED
        BY <2>0, <2>2, <2>3, <4>1, Zenon
    <3>2. ~Making(job') /\ ~Closing(job')
      BY <2>3 DEF Making, Closing
    <3>3. JobOk'
      BY <2>0, <2>3, <3>1, <3>2 DEF JobOk
    <3>4. DraftOk' /\ CallerOk'
      BY <1>1, <2>0 DEF DraftOk, CallerOk
    <3> QED
      BY <3>3, <3>4 DEF Control
  <2>7. Parts'
    <3>0. ~Making(job') /\ ~Closing(job') /\ Range(draft.progs) = {}
      BY <1>1, <1>6, <2>3, NoJobIs DEF Making, Closing, JobOk
    <3>1. ASSUME NEW q \in Prog PROVE RoleOk(q)'
      <4>1. CASE q = job.built[1]
        <5>1. q # job.p /\ q \in Range(job.built)
          BY <1>2, <2>4, <4>1
        <5>2. Complete(held' \cap Of(q), q, job.kind)
          BY <1>3, <5>1 DEF RoleOk
        <5>3. Retiring(held' \cap Of(q), q, "stack")
          BY <2>1, <5>2, CompleteRetires
        <5> QED
          BY <1>6, <2>3, <2>4, <3>0, <4>1, <5>3 DEF RoleOk, Part, InUse
      <4>2. CASE q # job.built[1]
        <5>1. held' \cap Of(q) = {}
          BY <1>2, <1>3, <2>4, <3>0, <4>2 DEF RoleOk, InUse
        <5> QED
          BY <1>6, <2>3, <2>4, <3>0, <4>2, <5>1 DEF RoleOk, Part, InUse
      <4> QED
        BY <4>1, <4>2
    <3> QED
      BY <3>1 DEF Parts, Only
  <2>8. KVOk'
    BY <1>1, <1>6, <2>3 DEF KVOk, KVs, JobKV
  <2> QED
    BY <1>6, <2>3, <2>5, <2>6, <2>7, <2>8 DEF BuildInv, Tame, Only
<1> QED
  BY <1>4, <1>5, <1>6 DEF Fails

-----------------------------------------------------------------------------
\* What is known at a step of a constructor.
LEMMA AtMaking ==
  ASSUME BuildInv, job.op # "none", job.stage \in MakingStages
  PROVE  /\ Making(job) /\ job.op \in {"open", "reset"} /\ JobKinds(job) /\ Made(Part(job.p), job)
         /\ job \in JobRecord /\ job.p \in Prog /\ job.kind \in Kind /\ Parts /\ KVOk /\ Records
         /\ job.op = "open" => draft = NoDraft /\ caller.stage = "idle" /\ caller.kv = 0 /\ JobKV = job.kv
         /\ job.op = "reset" => job.kind = "stateful" /\ job.kv = 0 /\ job.built = << >> /\ JobKV = 0
<1>1. Records /\ Control /\ Parts /\ KVOk /\ JobOk /\ CallerOk
  BY DEF BuildInv, Control
<1>2. job \in JobRecord /\ job.p \in Prog /\ job.kind \in Kind
  BY <1>1 DEF Records, JobRecord
<1>3. job.stage # "retire" /\ job.stage \notin ClosingStages
  BY DEF MakingStages, Compiling, Planning, Planned, ClosingStages
<1>4. job.op \in {"open", "reset"}
  BY <1>1, <1>2, <1>3 DEF JobOk, JobRecord
<1>5. Making(job)
  BY <1>3, <1>4 DEF Making
<1>6. JobKinds(job) /\ Made(Part(job.p), job)
  BY <1>1, <1>2, <1>5 DEF JobOk, Parts, RoleOk
<1> QED
  BY <1>1, <1>2, <1>4, <1>5, <1>6 DEF JobOk, CallerOk, JobKV

LEMMA KeepsKV ==
  ASSUME KVOk, SameKV, draft' = draft, caller' = caller, JobKV' = JobKV
  PROVE  KVOk'
BY DEF KVOk, SameKV

\* A step of a constructor to another stage.
LEMMA MakeGo ==
  ASSUME BuildInv, Making(job), NEW stage \in MakingStages, job' = Go(stage), JobKinds(job'),
         Only(job.p), SameKV, Made(held' \cap Of(job.p), job'), draft' = draft, caller' = caller
  PROVE  BuildInv' /\ Tame
<1>1. job \in JobRecord /\ stage \in Stage /\ KVOk
  BY DEF BuildInv, Records, MakingStages, Compiling, Planning, Planned, Stage
<1>2. SameJob /\ job'.stage = stage /\ job'.kv = job.kv
  BY <1>1, GoIs
<1>3. KVOk'
  <2>1. JobKV' = JobKV
    BY <1>2 DEF JobKV, SameJob, Making
  <2> QED
    BY <1>1, <2>1, KeepsKV
<1> QED
  BY <1>2, <1>3, MakeStep

\* What program p holds when it is about to be built.
LEMMA MadeNone ==
  ASSUME NEW j, j.stage = "mirror" \/ (j.stage = "client" /\ j.kind = "client")
  PROVE  \A X : Made(X, j) <=> X = {}
<1>1. SurfacesIn(j) = {} /\ ~DirIn(j) /\ ~MemoryIn(j) /\ ~ClientIn(j) /\ ~RequestIn(j)
  BY DEF SurfacesIn, DirIn, MemoryIn, ClientIn, RequestIn, Planning, Planned
<1>2. Models(j.p) = {Memory(j.p), Client(j.p)} /\ Plan(j.p) = {Request(j.p), Events(j.p)}
  BY DEF Models, Plan
<1> QED
  BY <1>1, <1>2 DEF Made

LEMMA BuildAgain ==
  ASSUME BuildInv, Making(job), BuildFails, caller' = caller, Only(job.p), SameKV,
         held' \cap Of(job.p) = {}, job.stage \in Compiling
  PROVE  BuildInv' /\ Tame
<1>0. JobKinds(job) /\ job \in JobRecord /\ KVOk /\ job.op \in {"open", "reset"}
  BY DEF BuildInv, Control, JobOk, Records, Making
<1>1. job.kv = 0 /\ JobKV = 0 /\ job.next = 1 /\ job.kind # "client"
  BY <1>0 DEF JobKinds, BindsKV, Compiling, Planned, JobKV
<1>2. CASE job' = [Go("mirror") EXCEPT !.path = "helper"] /\ draft' = draft
  <2>1. /\ SameJob /\ job'.stage = "mirror" /\ job'.kv = 0 /\ job'.path = "helper" /\ job'.next = 1
    BY <1>0, <1>1, <1>2 DEF Go, JobRecord, SameJob, Stage
  <2>2. JobKinds(job')
    BY <1>1, <2>1 DEF JobKinds, BindsKV, Planning, Planned, SameJob
  <2>3. KVOk'
    <3>1. JobKV' = 0
      BY <2>1 DEF JobKV
    <3> QED
      BY <1>0, <1>1, <1>2, <3>1, KeepsKV
  <2>4. Made(held' \cap Of(job.p), job')
    BY <2>1, MadeNone
  <2>5. job'.stage \in MakingStages
    BY <2>1 DEF MakingStages, Compiling
  <2> QED
    BY <1>2, <2>1, <2>2, <2>3, <2>4, <2>5, MakeStep
<1>3. CASE Fails
  <2>1. held' \cap AllKV = KVs(draft.kv) \cup KVs(caller.kv)
    BY <1>0, <1>1 DEF SameKV, KVOk, KVs
  <2> QED
    BY <1>1, <1>3, <2>1, MakeFails
<1> QED
  BY <1>2, <1>3 DEF BuildFails

LEMMA MirrorOk ==
  ASSUME BuildInv, Mirror
  PROVE  BuildInv' /\ Tame
<1>1. job.op # "none" /\ job.stage = "mirror" /\ job.stage \in MakingStages
  BY DEF Mirror, JobAt, MakingStages, Compiling
<1>2. /\ Making(job) /\ JobKinds(job) /\ Made(Part(job.p), job) /\ job \in JobRecord
      /\ job.p \in Prog /\ job.kind \in Kind /\ Parts
  BY <1>1, AtMaking
<1>3. Takes({Dir(job.p)}) /\ draft' = draft /\ caller' = caller
  BY DEF Mirror, Aside
<1>4. Only(job.p) /\ SameKV /\ held' \cap Of(job.p) = Part(job.p) \cup {Dir(job.p)}
  BY <1>2, <1>3, InOf, TakesOf
<1>5. Part(job.p) = {}
  BY <1>1, <1>2, MadeNone
<1>6. PICK stage \in {"client", "compile"} : job' = Go(stage) /\ (stage = "client" <=> job.kind = "files")
  BY DEF Mirror
<1>7. stage \in MakingStages /\ stage \in Stage
  BY DEF MakingStages, Compiling, Stage
<1>8. SameJob /\ job'.stage = stage /\ job'.kv = job.kv /\ job'.path = job.path /\ job'.next = job.next
  BY <1>2, <1>6, <1>7, GoIs
<1>9. JobKinds(job')
  BY <1>1, <1>2, <1>6, <1>8 DEF JobKinds, BindsKV, SameJob, Compiling, Planning, Planned
<1>10. Made({Dir(job.p)}, job')
  <2>1. DirIn(job') /\ ~MemoryIn(job') /\ ~ClientIn(job') /\ ~RequestIn(job') /\ SurfacesIn(job') = {}
    BY <1>6, <1>8 DEF DirIn, MemoryIn, ClientIn, RequestIn, SurfacesIn, Planning, Planned, SameJob
  <2> QED
    BY <1>8, <2>1, Apart DEF Made, SameJob
<1> QED
  BY <1>2, <1>3, <1>4, <1>5, <1>6, <1>7, <1>9, <1>10, MakeGo

LEMMA MirrorFailsOk ==
  ASSUME BuildInv, MirrorFails
  PROVE  BuildInv' /\ Tame
<1>1. job.op # "none" /\ job.stage = "mirror" /\ job.stage \in MakingStages /\ job.stage \in Compiling
  BY DEF MirrorFails, JobAt, MakingStages, Compiling
<1>2. Making(job) /\ Made(Part(job.p), job) /\ Parts
  BY <1>1, AtMaking
<1>3. held' = held /\ BuildFails /\ caller' = caller
  BY DEF MirrorFails
<1>4. Only(job.p) /\ SameKV /\ held' \cap Of(job.p) = {}
  BY <1>1, <1>2, <1>3, SameHeld, MadeNone
<1> QED
  BY <1>1, <1>2, <1>3, <1>4, BuildAgain

LEMMA CompileOk ==
  ASSUME BuildInv, Compile
  PROVE  BuildInv' /\ Tame
<1>1. job.op # "none" /\ job.stage = "compile" /\ job.stage \in MakingStages
  BY DEF Compile, JobAt, MakingStages, Compiling
<1>2. Making(job) /\ JobKinds(job) /\ Made(Part(job.p), job) /\ job \in JobRecord /\ Parts
  BY <1>1, AtMaking
<1>3. held' = held /\ draft' = draft /\ caller' = caller /\ job' = Go("load")
  BY DEF Compile, Aside
<1>4. Only(job.p) /\ SameKV /\ held' \cap Of(job.p) = Part(job.p)
  BY <1>2, <1>3, SameHeld
<1>5. "load" \in MakingStages /\ "load" \in Stage
  BY DEF MakingStages, Compiling, Stage
<1>6. SameJob /\ job'.stage = "load" /\ job'.kv = job.kv /\ job'.path = job.path /\ job'.next = job.next
  BY <1>2, <1>3, <1>5, GoIs
<1>7. JobKinds(job')
  BY <1>1, <1>2, <1>6 DEF JobKinds, BindsKV, SameJob, Compiling, Planning, Planned
<1>8. Made(Part(job.p), job')
  BY <1>1, <1>2, <1>6 DEF Made, DirIn, MemoryIn, ClientIn, RequestIn, SurfacesIn, Planning, Planned, SameJob
<1> QED
  BY <1>2, <1>3, <1>4, <1>5, <1>7, <1>8, MakeGo

LEMMA LoadOk ==
  ASSUME BuildInv, Load
  PROVE  BuildInv' /\ Tame
<1>1. job.op # "none" /\ job.stage = "load" /\ job.stage \in MakingStages
  BY DEF Load, JobAt, MakingStages, Compiling
<1>2. /\ Making(job) /\ JobKinds(job) /\ Made(Part(job.p), job) /\ job \in JobRecord
      /\ job.p \in Prog /\ job.kind \in Kind /\ Parts
  BY <1>1, AtMaking
<1>3. Takes({Memory(job.p)}) /\ draft' = draft /\ caller' = caller /\ job' = Go("sync")
  BY DEF Load, Aside
<1>4. Only(job.p) /\ SameKV /\ held' \cap Of(job.p) = Part(job.p) \cup {Memory(job.p)}
  <2>1. {Memory(job.p)} \subseteq Of(job.p)
    BY <1>2, InOf DEF Models
  <2> QED
    BY <1>2, <1>3, <2>1, TakesOf
<1>5. "sync" \in MakingStages /\ "sync" \in Stage
  BY DEF MakingStages, Compiling, Stage
<1>6. SameJob /\ job'.stage = "sync" /\ job'.kv = job.kv /\ job'.path = job.path /\ job'.next = job.next
  BY <1>2, <1>3, <1>5, GoIs
<1>7. JobKinds(job')
  BY <1>1, <1>2, <1>6 DEF JobKinds, BindsKV, SameJob, Compiling, Planning, Planned
<1>8. Made(Part(job.p) \cup {Memory(job.p)}, job')
  <2>1. DirIn(job) /\ ~MemoryIn(job) /\ ~ClientIn(job) /\ ~RequestIn(job) /\ SurfacesIn(job) = {}
    BY <1>1 DEF DirIn, MemoryIn, ClientIn, RequestIn, SurfacesIn, Planning, Planned
  <2>2. DirIn(job') /\ MemoryIn(job') /\ ~ClientIn(job') /\ ~RequestIn(job') /\ SurfacesIn(job') = {}
    BY <1>6 DEF DirIn, MemoryIn, ClientIn, RequestIn, SurfacesIn, Planning, Planned
  <2> QED
    BY <1>2, <1>6, <2>1, <2>2, Apart DEF Made, SameJob
<1> QED
  BY <1>2, <1>3, <1>4, <1>5, <1>7, <1>8, MakeGo

LEMMA CompileOrLoadFailsOk ==
  ASSUME BuildInv, CompileOrLoadFails
  PROVE  BuildInv' /\ Tame
<1>1. job.op # "none" /\ job.stage \in {"compile", "load"} /\ job.stage \in MakingStages /\ job.stage \in Compiling
  BY DEF CompileOrLoadFails, JobAt, MakingStages, Compiling
<1>2. Making(job) /\ Made(Part(job.p), job) /\ Parts /\ job.p \in Prog /\ job.kind \in Kind
  BY <1>1, AtMaking
<1>3. Drops({Dir(job.p)}) /\ BuildFails /\ caller' = caller
  BY DEF CompileOrLoadFails
<1>4. Only(job.p) /\ SameKV /\ held' \cap Of(job.p) = Part(job.p) \ {Dir(job.p)}
  <2>1. {Dir(job.p)} \subseteq Of(job.p)
    BY <1>2, InOf
  <2> QED
    BY <1>2, <1>3, <2>1, DropsOf
<1>5. Part(job.p) \ {Dir(job.p)} = {}
  <2>1. ~MemoryIn(job) /\ ~ClientIn(job) /\ ~RequestIn(job) /\ SurfacesIn(job) = {}
    BY <1>1 DEF MemoryIn, ClientIn, RequestIn, SurfacesIn, Planning, Planned
  <2> QED
    BY <1>2, <2>1 DEF Made, Models, Plan
<1> QED
  BY <1>1, <1>2, <1>3, <1>4, <1>5, BuildAgain

LEMMA SyncFailsOk ==
  ASSUME BuildInv, SyncFails
  PROVE  BuildInv' /\ Tame
<1>1. job.op # "none" /\ job.stage = "sync" /\ job.stage \in MakingStages /\ job.stage \in Compiling
  BY DEF SyncFails, JobAt, MakingStages, Compiling
<1>2. Making(job) /\ Made(Part(job.p), job) /\ Parts /\ job.p \in Prog /\ job.kind \in Kind
  BY <1>1, AtMaking
<1>3. Drops({Dir(job.p), Memory(job.p)}) /\ BuildFails /\ caller' = caller
  BY DEF SyncFails
<1>4. Only(job.p) /\ SameKV /\ held' \cap Of(job.p) = Part(job.p) \ {Dir(job.p), Memory(job.p)}
  <2>1. {Dir(job.p), Memory(job.p)} \subseteq Of(job.p)
    BY <1>2, InOf DEF Models
  <2> QED
    BY <1>2, <1>3, <2>1, DropsOf
<1>5. Part(job.p) \ {Dir(job.p), Memory(job.p)} = {}
  <2>1. ~ClientIn(job) /\ ~RequestIn(job) /\ SurfacesIn(job) = {}
    BY <1>1 DEF ClientIn, RequestIn, SurfacesIn, Planning, Planned
  <2> QED
    BY <1>2, <2>1 DEF Made, Models, Plan
<1> QED
  BY <1>1, <1>2, <1>3, <1>4, <1>5, BuildAgain

\* A constructor that returns a model with one program.
LEMMA OpensOne ==
  ASSUME BuildInv, job.op = "open", job.stage \in MakingStages, job.kind # "stack",
         Gives("open", <<job.p>>), Ends, caller' = caller, Only(job.p), SameKV,
         Complete(held' \cap Of(job.p), job.p, job.kind)
  PROVE  BuildInv' /\ Tame
<1>1. /\ Making(job) /\ KVOk /\ job.p \in Prog /\ draft = NoDraft /\ caller.kv = 0 /\ JobKV = job.kv
      /\ job.op = "open"
  BY AtMaking
<1>2. job.built = << >> /\ Range(job.built) = {}
  BY <1>1, NoJobIs DEF BuildInv, Control, JobOk
<1>3. held' \cap AllKV = KVs(job.kv)
  BY <1>1, NoJobIs DEF SameKV, KVOk, KVs
<1>4. <<job.p>> \in Seq(Prog) /\ Len(<<job.p>>) = 1 /\ <<job.p>>[1] = job.p
  BY <1>1
<1>5. Range(<<job.p>>) = {job.p} \cup Range(job.built) /\ \A i, k \in DOMAIN <<job.p>> : i = k
  BY <1>2, <1>4, Single
<1>6. \A i, k \in DOMAIN <<job.p>> : i # k => <<job.p>>[i] # <<job.p>>[k]
  BY <1>5
<1> QED
  BY <1>1, <1>3, <1>4, <1>5, <1>6, MakeOpens

LEMMA PlainHas ==
  ASSUME NEW p, NEW kind \in {"plain", "client", "files"}
  PROVE  Surfaces(p, kind) = {} /\ ~HasPlan(kind)
<1>1. Roles(kind) = << >>
  BY DEF Roles
<1>2. Range(Roles(kind)) = {}
  BY <1>1, NoJobIs
<1> QED
  BY <1>2 DEF Surfaces, HasPlan

LEMMA SyncOk ==
  ASSUME BuildInv, Sync
  PROVE  BuildInv' /\ Tame
<1>1. job.op # "none" /\ job.stage = "sync" /\ job.stage \in MakingStages
  BY DEF Sync, JobAt, MakingStages, Compiling
<1>2. /\ Making(job) /\ JobKinds(job) /\ Made(Part(job.p), job) /\ job \in JobRecord
      /\ job.p \in Prog /\ job.kind \in Kind /\ Parts /\ job.op \in {"open", "reset"}
      /\ job.op = "reset" => job.kind = "stateful"
  BY <1>1, AtMaking
<1>3. Drops({Dir(job.p)}) /\ caller' = caller
  BY DEF Sync
<1>4. Only(job.p) /\ SameKV /\ held' \cap Of(job.p) = Part(job.p) \ {Dir(job.p)}
  <2>1. {Dir(job.p)} \subseteq Of(job.p)
    BY <1>2, InOf
  <2> QED
    BY <1>2, <1>3, <2>1, DropsOf
<1>5. ~ClientIn(job) /\ ~RequestIn(job) /\ SurfacesIn(job) = {} /\ MemoryIn(job)
  BY <1>1 DEF ClientIn, RequestIn, SurfacesIn, Planning, Planned, MemoryIn
<1>6. CASE job.kind = "plain" /\ Gives("open", <<job.p>>) /\ Ends
  <2>1. job.op = "open"
    BY <1>2, <1>6
  <2>2. Complete(held' \cap Of(job.p), job.p, job.kind)
    <3>1. Surfaces(job.p, job.kind) = {} /\ ~HasPlan(job.kind)
      BY <1>6, PlainHas
    <3> QED
      BY <1>2, <1>4, <1>5, <1>6, <3>1, Apart DEF Made, Complete
  <2> QED
    BY <1>1, <1>3, <1>4, <1>6, <2>1, <2>2, OpensOne
<1>7. CASE job.kind # "plain" /\ draft' = draft /\ job' = Go(IF job.kind = "stack" THEN "client" ELSE "alloc")
  <2>1. PICK stage \in {"client", "alloc"} : job' = Go(stage) /\ (stage = "client" <=> job.kind = "stack")
    BY <1>7
  <2>2. stage \in MakingStages /\ stage \in Stage
    BY DEF MakingStages, Planning, Stage
  <2>3. SameJob /\ job'.stage = stage /\ job'.kv = job.kv /\ job'.path = job.path /\ job'.next = job.next
    BY <1>2, <2>1, <2>2, GoIs
  <2>4. job.kind \in Kind \ {"plain", "client", "files"} /\ job.next = 1 /\ job.path \in {"strict", "helper"} /\ job.kv = 0
    BY <1>1, <1>2, <1>7 DEF JobKinds, BindsKV, Compiling, Planning, Planned
  <2>5. HasPlan(job.kind) \/ job.kind = "compiled"
    BY <2>4 DEF Kind, HasPlan
  <2>6. 1 \in 1..Len(Roles(job.kind)) /\ Before(job.p, job.kind, 1) = {}
    BY <1>2, <2>5, RolesFacts, BeforeFacts
  <2>7. JobKinds(job')
    BY <1>1, <1>2, <2>1, <2>3, <2>4, <2>5, <2>6 DEF JobKinds, BindsKV, SameJob, Compiling, Planning, Planned
  <2>8. Made(Part(job.p) \ {Dir(job.p)}, job')
    <3>1. ~DirIn(job') /\ ~ClientIn(job') /\ ~RequestIn(job') /\ MemoryIn(job')
      BY <2>1, <2>3, <2>4 DEF DirIn, ClientIn, RequestIn, Planning, Planned, MemoryIn, SameJob
    <3>2. SurfacesIn(job') = {}
      BY <2>1, <2>3, <2>4, <2>6 DEF SurfacesIn, Planned, SameJob
    <3> QED
      BY <1>2, <1>5, <2>3, <3>1, <3>2, Apart DEF Made, SameJob
  <2> QED
    BY <1>2, <1>3, <1>4, <1>7, <2>1, <2>2, <2>7, <2>8, MakeGo
<1> QED
  BY <1>6, <1>7 DEF Sync

\* A layer of a stack is about to get a plan, with its client or its in-memory model.
LEMMA LayerPlans ==
  ASSUME BuildInv, Making(job), job.kind = "stack", NEW path \in {"client", "memory"},
         SameJob, job'.stage = "alloc", job'.path = path, job'.next = 1, job'.kv = 0, job.kv = 0,
         Only(job.p), SameKV, draft' = draft, caller' = caller,
         held' \cap Of(job.p) = {Memory(job.p)} \cup (IF path = "client" THEN {Client(job.p)} ELSE {})
  PROVE  BuildInv' /\ Tame
<1>1. KVOk /\ job.kind \in Kind /\ HasPlan(job.kind)
  BY DEF BuildInv, Records, JobRecord, HasPlan
<1>2. 1 \in 1..Len(Roles(job.kind)) /\ Before(job.p, job.kind, 1) = {}
  BY <1>1, RolesFacts, BeforeFacts
<1>3. JobKinds(job')
  BY <1>1, <1>2 DEF JobKinds, BindsKV, SameJob, Compiling, Planning, Planned
<1>4. Made(held' \cap Of(job.p), job')
  <2>1. ~DirIn(job') /\ (ClientIn(job') <=> path = "client") /\ ~RequestIn(job') /\ MemoryIn(job')
    BY DEF DirIn, ClientIn, RequestIn, Planning, Planned, MemoryIn, SameJob
  <2>2. SurfacesIn(job') = {}
    BY <1>2 DEF SurfacesIn, Planned, SameJob
  <2> QED
    BY <2>1, <2>2, Apart DEF Made, SameJob
<1>5. KVOk'
  <2>1. JobKV' = JobKV
    BY DEF JobKV, SameJob
  <2> QED
    BY <1>1, <2>1, KeepsKV
<1>6. job'.stage \in MakingStages
  BY DEF MakingStages, Planning
<1> QED
  BY <1>3, <1>4, <1>5, <1>6, MakeStep

LEMMA ClientLoadOk ==
  ASSUME BuildInv, ClientLoad
  PROVE  BuildInv' /\ Tame
<1>1. job.op # "none" /\ job.stage = "client" /\ job.stage \in MakingStages
  BY DEF ClientLoad, JobAt, MakingStages
<1>2. /\ Making(job) /\ JobKinds(job) /\ Made(Part(job.p), job) /\ job \in JobRecord
      /\ job.p \in Prog /\ job.kind \in Kind /\ Parts /\ job.op \in {"open", "reset"}
      /\ job.op = "reset" => job.kind = "stateful"
  BY <1>1, AtMaking
<1>3. Takes({Client(job.p)}) /\ caller' = caller
  BY DEF ClientLoad
<1>4. Only(job.p) /\ SameKV /\ held' \cap Of(job.p) = Part(job.p) \cup {Client(job.p)}
  <2>1. {Client(job.p)} \subseteq Of(job.p)
    BY <1>2, InOf DEF Models
  <2> QED
    BY <1>2, <1>3, <2>1, TakesOf
<1>5. /\ ~ClientIn(job) /\ ~RequestIn(job) /\ SurfacesIn(job) = {}
      /\ MemoryIn(job) <=> job.kind = "stack"
      /\ DirIn(job) <=> job.kind = "files"
  BY <1>1 DEF ClientIn, RequestIn, SurfacesIn, Planning, Planned, MemoryIn, DirIn
<1>6. job.kind \in {"client", "files", "stack"} /\ job.kv = 0 /\ job.next = 1
  BY <1>1, <1>2 DEF JobKinds, BindsKV, Planned
<1>7. CASE job.kind = "stack" /\ job' = [Go("alloc") EXCEPT !.path = "client"] /\ draft' = draft
  <2>1. SameJob /\ job'.stage = "alloc" /\ job'.path = "client" /\ job'.next = 1 /\ job'.kv = 0
    BY <1>2, <1>6, <1>7 DEF Go, JobRecord, SameJob, Stage
  <2>2. held' \cap Of(job.p) = {Memory(job.p)} \cup {Client(job.p)}
    BY <1>2, <1>4, <1>5, <1>7 DEF Made, Models, Plan
  <2> QED
    BY <1>2, <1>3, <1>4, <1>6, <1>7, <2>1, <2>2, LayerPlans
<1>8. CASE job.kind # "stack" /\ Gives("open", <<job.p>>) /\ Ends
  <2>1. job.op = "open"
    BY <1>2, <1>6
  <2>2. Complete(held' \cap Of(job.p), job.p, job.kind)
    <3>1. Surfaces(job.p, job.kind) = {} /\ ~HasPlan(job.kind)
      BY <1>6, <1>8, PlainHas
    <3> QED
      BY <1>2, <1>4, <1>5, <1>6, <1>8, <3>1, Apart DEF Made, Complete
  <2> QED
    BY <1>1, <1>3, <1>4, <1>8, <2>1, <2>2, OpensOne
<1> QED
  BY <1>7, <1>8 DEF ClientLoad

LEMMA ClientLoadFailsOk ==
  ASSUME BuildInv, ClientLoadFails
  PROVE  BuildInv' /\ Tame
<1>1. job.op # "none" /\ job.stage = "client" /\ job.stage \in MakingStages
  BY DEF ClientLoadFails, JobAt, MakingStages
<1>2. /\ Making(job) /\ JobKinds(job) /\ Made(Part(job.p), job) /\ job \in JobRecord
      /\ job.p \in Prog /\ job.kind \in Kind /\ Parts /\ KVOk /\ job.op \in {"open", "reset"}
      /\ job.op = "reset" => job.kind = "stateful"
  BY <1>1, AtMaking
<1>3. Drops({Dir(job.p)}) /\ caller' = caller
  BY DEF ClientLoadFails
<1>4. Only(job.p) /\ SameKV /\ held' \cap Of(job.p) = Part(job.p) \ {Dir(job.p)}
  <2>1. {Dir(job.p)} \subseteq Of(job.p)
    BY <1>2, InOf
  <2> QED
    BY <1>2, <1>3, <2>1, DropsOf
<1>5. /\ ~ClientIn(job) /\ ~RequestIn(job) /\ SurfacesIn(job) = {}
      /\ MemoryIn(job) <=> job.kind = "stack"
      /\ DirIn(job) <=> job.kind = "files"
  BY <1>1 DEF ClientIn, RequestIn, SurfacesIn, Planning, Planned, MemoryIn, DirIn
<1>6. job.kind \in {"client", "files", "stack"} /\ job.kv = 0 /\ job.next = 1
  BY <1>1, <1>2 DEF JobKinds, BindsKV, Planned
<1>7. CASE job.kind = "stack" /\ job' = [Go("alloc") EXCEPT !.path = "memory"] /\ draft' = draft
  <2>1. SameJob /\ job'.stage = "alloc" /\ job'.path = "memory" /\ job'.next = 1 /\ job'.kv = 0
    BY <1>2, <1>6, <1>7 DEF Go, JobRecord, SameJob, Stage
  <2>2. held' \cap Of(job.p) = {Memory(job.p)}
    BY <1>2, <1>4, <1>5, <1>7 DEF Made, Models, Plan
  <2> QED
    BY <1>2, <1>3, <1>4, <1>6, <1>7, <2>1, <2>2, LayerPlans
<1>8. CASE job.kind # "stack" /\ Fails
  <2>1. held' \cap Of(job.p) = {}
    BY <1>2, <1>4, <1>5, <1>8 DEF Made, Models, Plan
  <2>2. held' \cap AllKV = KVs(draft.kv) \cup KVs(caller.kv)
    <3>1. KVs(JobKV) = {}
      BY <1>1, <1>2, <1>6 DEF JobKV, KVs
    <3> QED
      BY <1>2, <1>4, <3>1 DEF SameKV, KVOk
  <2> QED
    BY <1>2, <1>3, <1>4, <1>6, <1>8, <2>1, <2>2, MakeFails
<1> QED
  BY <1>7, <1>8 DEF ClientLoadFails

-----------------------------------------------------------------------------
\* The surfaces of a plan.
LEMMA AllocateKV ==
  ASSUME BuildInv, Allocate, Roles(job.kind)[job.next] = "kv"
  PROVE  BuildInv' /\ Tame
<1>1. job.op # "none" /\ job.stage = "alloc" /\ job.stage \in MakingStages
  BY DEF Allocate, JobAt, MakingStages, Planning
<1>2. /\ Making(job) /\ JobKinds(job) /\ Made(Part(job.p), job) /\ job \in JobRecord /\ Records
      /\ job.p \in Prog /\ job.kind \in Kind /\ Parts /\ KVOk /\ job.op \in {"open", "reset"}
      /\ job.op = "reset" => job.kind = "stateful"
      /\ job.op = "open" => draft = NoDraft /\ caller.kv = 0 /\ JobKV = job.kv
  BY <1>1, AtMaking
<1>3. job.next \in 1..Len(Roles(job.kind)) /\ (HasPlan(job.kind) \/ job.kind = "compiled")
  BY <1>1, <1>2 DEF JobKinds
<1>4. job.kind = "attention" /\ job.next = 1 /\ Len(Roles(job.kind)) > 1 /\ Len(Roles(job.kind)) \in Nat
  <2>1. /\ Len(Roles(job.kind)) \in Nat
        /\ \A i \in 1..Len(Roles(job.kind)) : Roles(job.kind)[i] = "kv" <=> job.kind = "attention" /\ i = 1
        /\ job.kind = "attention" => Len(Roles(job.kind)) > 1
    BY <1>2, <1>3, RolesFacts
  <2> QED
    BY <1>3, <2>1
<1>5. job.op = "open" /\ job.kv = 0 /\ draft.kv = 0 /\ caller.kv = 0 /\ JobKV = 0
  BY <1>1, <1>2, <1>4, NoJobIs DEF JobKinds, BindsKV, Planned
<1> DEFINE s == Free({"kv"}, State, {})
<1>6. s \in State /\ KV(s) \cap held = {} /\ s # 0
  BY <1>2, <1>5, FreeKV DEF State
<1> HIDE DEF s
<1>7. job.next # Len(Roles(job.kind))
  <2>1. ASSUME NEW n \in Nat, n > 1 PROVE n # 1
    BY <2>1
  <2> QED
    BY <1>4, <2>1, Zenon
<1>8. /\ Takes(KV(s)) /\ draft' = draft /\ caller' = caller
      /\ job' = [job EXCEPT !.next = @ + 1, !.kv = s, !.stage = "alloc"]
  BY <1>7 DEF Allocate, Aside, s
<1>9. /\ SameJob /\ job'.stage = "alloc" /\ job'.next = 2 /\ job'.kv = s /\ job'.path = job.path
  <2>1. job' = [job EXCEPT !.next = 2, !.kv = s, !.stage = "alloc"]
    BY <1>4, <1>8
  <2> QED
    BY <1>2, <1>6, <2>1 DEF JobRecord, SameJob, Stage
<1>10. Only(job.p) /\ held' \cap Of(job.p) = Part(job.p) /\ held' \cap AllKV = (held \cap AllKV) \cup KV(s)
  <2>1. (\A p : Only(p)) /\ held' \cap AllKV = (held \cap AllKV) \cup KV(s)
    BY <1>2, <1>6, <1>8, TakesKV
  <2>2. KV(s) \cap Of(job.p) = {} /\ held' = held \cup KV(s)
    BY <1>8, Disjoint DEF Takes
  <2> QED
    BY <2>1, <2>2 DEF Part
<1>11. JobKinds(job')
  <2>1. 2 \in 1..Len(Roles(job.kind))
    BY <1>4
  <2> QED
    BY <1>1, <1>2, <1>4, <1>6, <1>9, <2>1 DEF JobKinds, BindsKV, SameJob, Compiling, Planning, Planned, HasPlan
<1>12. Made(Part(job.p), job')
  <2>1. Before(job.p, job.kind, 2) = Before(job.p, job.kind, 1)
    <3>1. 1 \in 1..Len(Roles(job.kind)) /\ 1 + 1 = 2 /\ Roles(job.kind)[1] = "kv"
      BY <1>4
    <3>2. job.kind \in Kind /\ (HasPlan(job.kind) \/ job.kind = "compiled") /\ 2 = 1 + 1
      BY <1>2, <1>3
    <3> QED
      BY <3>1, <3>2, BeforeKV, Zenon
  <2>2. SurfacesIn(job') = SurfacesIn(job)
    BY <1>1, <1>4, <1>9, <2>1 DEF SurfacesIn, Planned, SameJob
  <2>3. DirIn(job') = DirIn(job) /\ MemoryIn(job') = MemoryIn(job) /\ ClientIn(job') = ClientIn(job) /\ RequestIn(job') = RequestIn(job)
    BY <1>1, <1>9 DEF DirIn, MemoryIn, ClientIn, RequestIn, SameJob
  <2> QED
    BY <1>2, <1>9, <2>2, <2>3 DEF Made, SameJob
<1>13. KVOk'
  <2>1. JobKV' = s /\ KVs(s) = KV(s) /\ KVs(0) = {}
    BY <1>5, <1>6, <1>9 DEF JobKV, SameJob, KVs
  <2> QED
    BY <1>2, <1>5, <1>8, <1>10, <2>1 DEF KVOk
<1> QED
  BY <1>1, <1>2, <1>8, <1>9, <1>10, <1>11, <1>12, <1>13, MakeStep

LEMMA AllocateOk ==
  ASSUME BuildInv, Allocate, Roles(job.kind)[job.next] # "kv"
  PROVE  BuildInv' /\ Tame
<1>1. job.op # "none" /\ job.stage = "alloc" /\ job.stage \in MakingStages
  BY DEF Allocate, JobAt, MakingStages, Planning
<1>2. /\ Making(job) /\ JobKinds(job) /\ Made(Part(job.p), job) /\ job \in JobRecord
      /\ job.p \in Prog /\ job.kind \in Kind /\ Parts /\ KVOk /\ job.op \in {"open", "reset"}
      /\ job.op = "reset" => job.kind = "stateful"
  BY <1>1, AtMaking
<1> DEFINE added == <<"surface", job.p, Roles(job.kind)[job.next]>>
           last == job.next = Len(Roles(job.kind))
<1>3. /\ job.next \in 1..Len(Roles(job.kind)) /\ (HasPlan(job.kind) \/ job.kind = "compiled")
  BY <1>1, <1>2 DEF JobKinds
<1>4. /\ job.kind = "attention" => job.next # 1
      /\ Len(Roles(job.kind)) \in Nat
  <2>1. Roles(job.kind)[job.next] = "kv" <=> job.kind = "attention" /\ job.next = 1
    BY <1>2, <1>3, RolesFacts
  <2> QED
    BY <1>2, <1>3, <2>1, RolesFacts
<1>5. /\ Before(job.p, job.kind, job.next + 1) = Before(job.p, job.kind, job.next) \cup {added}
      /\ added \in Surfaces(job.p, job.kind)
      /\ last => Before(job.p, job.kind, job.next + 1) = Surfaces(job.p, job.kind)
  <2>1. \A n \in 1..Len(Roles(job.kind)) :
          /\ Before(job.p, job.kind, n + 1) =
               Before(job.p, job.kind, n) \cup
                 (IF Roles(job.kind)[n] = "kv" THEN {} ELSE {<<"surface", job.p, Roles(job.kind)[n]>>})
          /\ Roles(job.kind)[n] # "kv" => <<"surface", job.p, Roles(job.kind)[n]>> \in Surfaces(job.p, job.kind)
    BY <1>2, <1>3, BeforeFacts
  <2>2. Before(job.p, job.kind, Len(Roles(job.kind)) + 1) = Surfaces(job.p, job.kind)
    BY <1>2, <1>3, BeforeFacts
  <2>3. Before(job.p, job.kind, job.next + 1) = Before(job.p, job.kind, job.next) \cup {added}
        /\ added \in Surfaces(job.p, job.kind)
    BY <1>3, <2>1
  <2>4. last => Before(job.p, job.kind, job.next + 1) = Surfaces(job.p, job.kind)
    BY <2>2
  <2> QED
    BY <2>3, <2>4
<1>6. Takes({added}) /\ caller' = caller
  BY DEF Allocate
<1>7. Only(job.p) /\ SameKV /\ held' \cap Of(job.p) = Part(job.p) \cup {added}
  <2>1. {added} \subseteq Of(job.p)
    BY <1>2, <1>5, InOf
  <2> QED
    BY <1>2, <1>6, <2>1, TakesOf
<1> HIDE DEF added
<1>8. /\ Before(job.p, job.kind, job.next) = SurfacesIn(job) /\ ~DirIn(job) /\ MemoryIn(job) /\ ~RequestIn(job)
      /\ ClientIn(job) <=> job.path = "client"
  BY <1>1 DEF SurfacesIn, DirIn, MemoryIn, RequestIn, ClientIn, Planning, Planned
<1>9. CASE last /\ job.kind = "compiled" /\ Gives("open", <<job.p>>) /\ Ends
  <2>1. job.op = "open" /\ ~HasPlan(job.kind)
    BY <1>2, <1>9 DEF HasPlan
  <2>2. job.path # "client"
    BY <1>1, <1>2, <1>9 DEF JobKinds
  <2>3. Complete(held' \cap Of(job.p), job.p, job.kind)
    <3>1. Surfaces(job.p, job.kind) \subseteq Part(job.p) \cup {added}
      BY <1>2, <1>5, <1>8, <1>9 DEF Made
    <3>2. added \notin Models(job.p) \cup Plan(job.p) \cup {Dir(job.p)}
      BY <1>5, Apart
    <3> QED
      BY <1>2, <1>5, <1>7, <1>8, <1>9, <2>1, <2>2, <3>1, <3>2, Apart DEF Made, Complete
  <2> QED
    BY <1>1, <1>6, <1>7, <1>9, <2>1, <2>3, OpensOne
<1>10. CASE ~(last /\ job.kind = "compiled") /\ draft' = draft
            /\ job' = [job EXCEPT !.next = @ + 1, !.stage = IF last THEN "prepare" ELSE "alloc"]
  <2>1. PICK stage \in {"prepare", "alloc"} :
          job' = [job EXCEPT !.next = @ + 1, !.stage = stage] /\ (stage = "prepare" <=> last)
    BY <1>10
  <2>2. /\ SameJob /\ job'.stage = stage /\ job'.next = job.next + 1 /\ job'.kv = job.kv
        /\ job'.path = job.path
    <3>1. PICK n \in Nat : n = job.next + 1
      BY <1>3
    <3>2. job' = [job EXCEPT !.next = n, !.stage = stage]
      BY <2>1, <3>1
    <3>3. job' \in JobRecord /\ SameJob /\ job'.stage = stage /\ job'.next = n /\ job'.kv = job.kv
          /\ job'.path = job.path
      BY <1>2, <3>2 DEF JobRecord, SameJob, Stage
    <3> QED
      BY <3>1, <3>3
  <2>3. last => HasPlan(job.kind)
    BY <1>3, <1>10
  <2>4. ~last => job.next + 1 \in 1..Len(Roles(job.kind))
    BY <1>3, <1>4
  <2>5. job.next + 1 # 1
    BY <1>3
  <2>6. JobKinds(job')
    BY <1>1, <1>2, <1>3, <1>4, <2>1, <2>2, <2>3, <2>4, <2>5 DEF JobKinds, BindsKV, SameJob, Compiling, Planning, Planned
  <2>7. Made(Part(job.p) \cup {added}, job')
    <3>1. SurfacesIn(job') = Before(job.p, job.kind, job.next) \cup {added}
      BY <1>5, <2>1, <2>2 DEF SurfacesIn, Planned, SameJob
    <3>2. ~DirIn(job') /\ MemoryIn(job') /\ ~RequestIn(job') /\ (ClientIn(job') <=> job.path = "client")
      BY <2>1, <2>2 DEF DirIn, MemoryIn, RequestIn, ClientIn, Planning, Planned
    <3>3. added \notin Models(job.p) \cup Plan(job.p) \cup {Dir(job.p)}
      BY <1>5, Apart
    <3> QED
      BY <1>2, <1>5, <1>8, <2>2, <3>1, <3>2, <3>3 DEF Made, SameJob, Models, Plan
  <2>8. KVOk'
    <3>1. JobKV' = JobKV
      BY <2>2, <1>2 DEF JobKV, SameJob
    <3> QED
      BY <1>2, <1>6, <1>7, <1>10, <3>1, KeepsKV
  <2>9. job'.stage \in MakingStages
    BY <2>1, <2>2 DEF MakingStages, Planning, Planned
  <2> QED
    BY <1>2, <1>6, <1>7, <1>10, <2>2, <2>6, <2>7, <2>8, <2>9, MakeStep
<1> QED
  BY <1>9, <1>10 DEF Allocate, last

-----------------------------------------------------------------------------
\* The request of a plan.
LEMMA FreesKV ==
  ASSUME BuildInv, job.op # "none", job.stage \in MakingStages,
         held' \cap AllKV = (held \cap AllKV) \ KV(job.kv), draft' = draft, caller' = caller
  PROVE  /\ held' \cap AllKV = KVs(draft.kv) \cup KVs(caller.kv)
         /\ JobKV' = 0 => KVOk'
<1>1. /\ KVOk /\ Records /\ job.op \in {"open", "reset"}
      /\ job.op = "open" => draft = NoDraft /\ caller.kv = 0 /\ JobKV = job.kv
      /\ job.op = "reset" => job.kv = 0 /\ JobKV = 0
  BY AtMaking
<1>2. held' \cap AllKV = KVs(draft.kv) \cup KVs(caller.kv)
  <2>1. CASE job.op = "open"
    BY <1>1, <2>1, NoJobIs DEF KVOk, KVs
  <2>2. CASE job.op = "reset"
    <3>1. \A s : s # 0 => KV(s) \cap KV(0) = {}
      BY Disjoint
    <3> QED
      BY <1>1, <2>2, <3>1 DEF KVOk, KVs
  <2> QED
    BY <1>1, <2>1, <2>2
<1>3. JobKV' = 0 => KVOk'
  BY <1>1, <1>2 DEF KVOk, KVs
<1> QED
  BY <1>2, <1>3

LEMMA GoesPlanless ==
  ASSUME BuildInv, job.op # "none",
         job.stage \in {"alloc", "prepare", "map", "events", "validate"},
         NEW S, S \subseteq Plan(job.p), Part(job.p) \cap Plan(job.p) \subseteq S,
         Drops(S \cup OfPlan), Unplanned, draft' = draft, caller' = caller
  PROVE  BuildInv' /\ Tame
<1>1. job.stage \in MakingStages
  BY DEF MakingStages, Planning, Planned
<1>2. /\ Making(job) /\ JobKinds(job) /\ Made(Part(job.p), job) /\ job \in JobRecord
      /\ job.p \in Prog /\ job.kind \in Kind /\ Parts /\ job.op \in {"open", "reset"}
  BY <1>1, AtMaking
<1>3. /\ Only(job.p) /\ held' \cap AllKV = (held \cap AllKV) \ KV(job.kv)
      /\ held' \cap Of(job.p) = Part(job.p) \ (S \cup Surfaces(job.p, job.kind))
  <2>1. S \cup Surfaces(job.p, job.kind) \subseteq Of(job.p)
    BY <1>2, InOf
  <2>2. Drops((S \cup Surfaces(job.p, job.kind)) \cup KV(job.kv))
    BY DEF Drops, OfPlan
  <2> QED
    BY <1>2, <2>1, <2>2, DropsOfKV
<1>4. SameJob /\ job'.stage = "planless" /\ job'.kv = 0 /\ job'.path = job.path /\ job'.next = job.next
  <2>1. job' = [Go("planless") EXCEPT !.kv = 0]
    BY DEF Unplanned
  <2> QED
    BY <1>2, <2>1 DEF Go, JobRecord, SameJob, Stage
<1>5. JobKinds(job')
  <2>1. HasPlan(job.kind) \/ job.kind = "compiled"
    BY <1>2 DEF JobKinds, Planned
  <2>2. job.stage \in Planning
    BY DEF Planning, Planned
  <2>3. job'.stage \in Planning /\ job'.stage \notin Planned /\ job'.stage \notin Compiling
    BY <1>4 DEF Planning, Planned, Compiling
  <2> QED
    BY <1>2, <1>4, <2>1, <2>2, <2>3 DEF JobKinds, BindsKV, SameJob
<1>6. Made(Part(job.p) \ (S \cup Surfaces(job.p, job.kind)), job')
  <2>1. ~DirIn(job) /\ MemoryIn(job) /\ (ClientIn(job) <=> job.path = "client")
    BY DEF DirIn, MemoryIn, ClientIn, Planning, Planned
  <2>2. /\ ~DirIn(job') /\ MemoryIn(job') /\ (ClientIn(job') <=> job.path = "client") /\ ~RequestIn(job')
        /\ SurfacesIn(job') = {}
    BY <1>4 DEF DirIn, MemoryIn, ClientIn, RequestIn, SurfacesIn, Planning, Planned
  <2> QED
    BY <1>2, <1>4, <2>1, <2>2, Apart DEF Made, SameJob
<1>7. KVOk'
  <2>1. JobKV' = 0
    BY <1>2, <1>4 DEF JobKV, SameJob
  <2> QED
    BY <1>1, <1>3, <2>1, FreesKV
<1>8. job'.stage \in MakingStages
  BY <1>4 DEF MakingStages, Planning
<1> QED
  BY <1>2, <1>3, <1>4, <1>5, <1>6, <1>7, <1>8, MakeStep

LEMMA AllocateFailsOk ==
  ASSUME BuildInv, AllocateFails
  PROVE  BuildInv' /\ Tame
<1>1. /\ job.op # "none" /\ job.stage \in {"alloc", "prepare"} /\ Drops({} \cup OfPlan) /\ Unplanned
      /\ draft' = draft /\ caller' = caller
  BY DEF AllocateFails, JobAt, Aside
<1>2. job.stage \in MakingStages /\ ~RequestIn(job)
  BY <1>1 DEF MakingStages, Planning, Planned, RequestIn
<1>3. Part(job.p) \cap Plan(job.p) = {}
  <2>1. Made(Part(job.p), job)
    BY <1>1, <1>2, AtMaking
  <2> QED
    BY <1>2, <2>1, Apart DEF Made
<1> QED
  BY <1>1, <1>3, GoesPlanless

\* What changes between the stages of a plan is the request.
LEMMA PlanStep ==
  ASSUME BuildInv, Making(job), job.stage \in Planned \ {"mask"},
         SameJob, job'.stage \in Planned, job'.stage = "mask" => job.kind = "attention",
         job'.kv = job.kv, job'.path = job.path, draft' = draft, caller' = caller,
         Only(job.p), SameKV,
         NEW X, held' \cap Of(job.p) = (Part(job.p) \ Plan(job.p)) \cup X, X \subseteq Plan(job.p),
         Request(job.p) \in X <=> RequestIn(job'), Events(job.p) \in X => RequestIn(job')
  PROVE  BuildInv' /\ Tame
<1>1. KVOk /\ job \in JobRecord /\ JobKinds(job) /\ Made(Part(job.p), job)
  <2>1. KVOk /\ Parts /\ JobOk /\ job \in JobRecord /\ job.p \in Prog
    BY DEF BuildInv, Control, Records, JobRecord
  <2> QED
    BY <2>1 DEF JobOk, Parts, RoleOk
<1>2. JobKinds(job')
  <2>1. job.stage \in Planning /\ job'.stage \in Planning
    BY DEF Planning
  <2>2. job'.stage \notin Compiling \cup {"client", "alloc", "planless"}
    BY DEF Compiling, Planned
  <2> QED
    BY <1>1, <2>1, <2>2 DEF JobKinds, BindsKV, SameJob, Compiling
<1>3. Made(held' \cap Of(job.p), job')
  <2>1. ~DirIn(job) /\ MemoryIn(job) /\ (ClientIn(job) <=> job.path = "client") /\ SurfacesIn(job) = Surfaces(job.p, job.kind)
    BY DEF DirIn, MemoryIn, ClientIn, SurfacesIn, Planning, Planned
  <2>2. ~DirIn(job') /\ MemoryIn(job') /\ (ClientIn(job') <=> job.path = "client") /\ SurfacesIn(job') = Surfaces(job.p, job.kind)
    BY DEF DirIn, MemoryIn, ClientIn, SurfacesIn, Planning, Planned, SameJob
  <2>3. Made((Part(job.p) \ Plan(job.p)) \cup X, job')
    BY <1>1, <2>1, <2>2, Apart DEF Made, SameJob
  <2> QED
    BY <2>3
<1>4. KVOk'
  <2>1. JobKV' = JobKV
    BY DEF JobKV, SameJob, Making
  <2> QED
    BY <1>1, <2>1, KeepsKV
<1>5. job'.stage \in MakingStages
  BY DEF MakingStages, Planning
<1> QED
  BY <1>2, <1>3, <1>4, <1>5, MakeStep

LEMMA PlanStepBare ==
  ASSUME BuildInv, Making(job), job.stage \in Planned \ {"mask"},
         SameJob, job'.stage \in {"prepare", "map"}, job'.kv = job.kv, job'.path = job.path,
         draft' = draft, caller' = caller, Only(job.p), SameKV,
         held' \cap Of(job.p) = Part(job.p) \ Plan(job.p)
  PROVE  BuildInv' /\ Tame
<1>1. job'.stage \in Planned /\ job'.stage # "mask" /\ ~RequestIn(job')
  BY DEF Planned, RequestIn
<1> DEFINE X == Plan(job.p) \ Plan(job.p)
<1>2. /\ X \subseteq Plan(job.p) /\ Request(job.p) \notin X /\ Events(job.p) \notin X
      /\ held' \cap Of(job.p) = (Part(job.p) \ Plan(job.p)) \cup X
  OBVIOUS
<1> HIDE DEF X
<1> QED
  BY <1>1, <1>2, PlanStep

LEMMA PrepareOk ==
  ASSUME BuildInv, Prepare
  PROVE  BuildInv' /\ Tame
<1>1. job.op # "none" /\ job.stage = "prepare" /\ job.stage \in Planned /\ job.stage \in MakingStages
  BY DEF Prepare, JobAt, Planned, Planning, MakingStages
<1>2. Making(job) /\ Made(Part(job.p), job) /\ job \in JobRecord /\ Parts
  BY <1>1, AtMaking
<1>3. held' = held /\ draft' = draft /\ caller' = caller /\ job' = Go("map")
  BY DEF Prepare, Aside
<1>4. SameJob /\ job'.stage = "map" /\ job'.kv = job.kv /\ job'.path = job.path
  <2>1. "map" \in Stage
    BY DEF Stage
  <2> QED
    BY <1>2, <1>3, <2>1, GoIs
<1>5. Only(job.p) /\ SameKV /\ held' \cap Of(job.p) = Part(job.p)
  BY <1>2, <1>3, SameHeld
<1>6. Part(job.p) = Part(job.p) \ Plan(job.p)
  <2>1. ~RequestIn(job)
    BY <1>1 DEF RequestIn
  <2> QED
    BY <1>2, <2>1 DEF Made, Plan
<1> QED
  BY <1>1, <1>2, <1>3, <1>4, <1>5, <1>6, PlanStepBare

LEMMA MapOk ==
  ASSUME BuildInv, Map
  PROVE  BuildInv' /\ Tame
<1>1. job.op # "none" /\ job.stage = "map" /\ job.stage \in Planned /\ job.stage \in MakingStages
  BY DEF Map, JobAt, Planned, Planning, MakingStages
<1>2. Making(job) /\ Made(Part(job.p), job) /\ job \in JobRecord /\ Parts /\ job.p \in Prog /\ job.kind \in Kind
  BY <1>1, AtMaking
<1>3. Takes({Request(job.p)}) /\ draft' = draft /\ caller' = caller
  BY DEF Map, Aside
<1>4. PICK stage \in {"events", "planned"} : job' = Go(stage)
  BY DEF Map
<1>5. SameJob /\ job'.stage = stage /\ job'.kv = job.kv /\ job'.path = job.path
  <2>1. stage \in Stage
    BY DEF Stage
  <2> QED
    BY <1>2, <1>4, <2>1, GoIs
<1>6. Only(job.p) /\ SameKV /\ held' \cap Of(job.p) = Part(job.p) \cup {Request(job.p)}
  <2>1. {Request(job.p)} \subseteq Of(job.p)
    BY <1>2, InOf DEF Plan
  <2> QED
    BY <1>2, <1>3, <2>1, TakesOf
<1>7. /\ held' \cap Of(job.p) = (Part(job.p) \ Plan(job.p)) \cup {Request(job.p)} /\ RequestIn(job')
      /\ {Request(job.p)} \subseteq Plan(job.p)
  <2>1. ~RequestIn(job) /\ RequestIn(job')
    BY <1>1, <1>4, <1>5 DEF RequestIn
  <2> QED
    BY <1>2, <1>6, <2>1 DEF Made, Plan
<1>8. job'.stage \in Planned /\ job'.stage # "mask" /\ job.stage # "mask"
  BY <1>1, <1>4, <1>5 DEF Planned
<1> QED
  BY <1>1, <1>2, <1>3, <1>5, <1>6, <1>7, <1>8, PlanStep

LEMMA AttachEventsOk ==
  ASSUME BuildInv, AttachEvents
  PROVE  BuildInv' /\ Tame
<1>1. job.op # "none" /\ job.stage = "events" /\ job.stage \in Planned /\ job.stage \in MakingStages
  BY DEF AttachEvents, JobAt, Planned, Planning, MakingStages
<1>2. Making(job) /\ Made(Part(job.p), job) /\ job \in JobRecord /\ Parts /\ job.p \in Prog /\ job.kind \in Kind
  BY <1>1, AtMaking
<1>3. Takes({Events(job.p)}) /\ draft' = draft /\ caller' = caller /\ job' = Go("validate")
  BY DEF AttachEvents, Aside
<1>4. SameJob /\ job'.stage = "validate" /\ job'.kv = job.kv /\ job'.path = job.path
  <2>1. "validate" \in Stage
    BY DEF Stage
  <2> QED
    BY <1>2, <1>3, <2>1, GoIs
<1>5. Only(job.p) /\ SameKV /\ held' \cap Of(job.p) = Part(job.p) \cup {Events(job.p)}
  <2>1. {Events(job.p)} \subseteq Of(job.p)
    BY <1>2, InOf DEF Plan
  <2> QED
    BY <1>2, <1>3, <2>1, TakesOf
<1>6. held' \cap Of(job.p) = (Part(job.p) \ Plan(job.p)) \cup Plan(job.p) /\ RequestIn(job')
  <2>1. RequestIn(job) /\ RequestIn(job')
    BY <1>1, <1>4 DEF RequestIn
  <2> QED
    BY <1>2, <1>5, <2>1 DEF Made, Plan
<1>7. Request(job.p) \in Plan(job.p) /\ Plan(job.p) \subseteq Plan(job.p)
  BY DEF Plan
<1>8. job'.stage \in Planned /\ job'.stage # "mask" /\ job.stage # "mask"
  BY <1>1, <1>4 DEF Planned
<1> QED
  BY <1>1, <1>2, <1>3, <1>4, <1>5, <1>6, <1>7, <1>8, PlanStep

LEMMA ValidateOk ==
  ASSUME BuildInv, Validate
  PROVE  BuildInv' /\ Tame
<1>1. job.op # "none" /\ job.stage = "validate" /\ job.stage \in Planned /\ job.stage \in MakingStages
  BY DEF Validate, JobAt, Planned, Planning, MakingStages
<1>2. Making(job) /\ Made(Part(job.p), job) /\ job \in JobRecord /\ Parts
  BY <1>1, AtMaking
<1>3. held' = held /\ draft' = draft /\ caller' = caller /\ job' = Go("planned")
  BY DEF Validate, Aside
<1>4. SameJob /\ job'.stage = "planned" /\ job'.kv = job.kv /\ job'.path = job.path
  <2>1. "planned" \in Stage
    BY DEF Stage
  <2> QED
    BY <1>2, <1>3, <2>1, GoIs
<1>5. Only(job.p) /\ SameKV /\ held' \cap Of(job.p) = Part(job.p)
  BY <1>2, <1>3, SameHeld
<1>6. RequestIn(job) /\ RequestIn(job')
  BY <1>1, <1>4 DEF RequestIn
<1> DEFINE X == Part(job.p) \cap Plan(job.p)
<1>7. Part(job.p) = (Part(job.p) \ Plan(job.p)) \cup X /\ X \subseteq Plan(job.p) /\ Request(job.p) \in X
  BY <1>2, <1>6 DEF Made, Plan
<1> HIDE DEF X
<1>8. job'.stage \in Planned /\ job'.stage # "mask" /\ job.stage # "mask"
  BY <1>1, <1>4 DEF Planned
<1> QED
  BY <1>1, <1>2, <1>3, <1>4, <1>5, <1>6, <1>7, <1>8, PlanStep

\* A plan that has failed, with or without a request of its own.
LEMMA MapsAgain ==
  ASSUME BuildInv, job.op # "none", job.stage \in {"map", "events", "validate"},
         NEW S, S \subseteq Plan(job.p), Part(job.p) \cap Plan(job.p) \subseteq S,
         MapAgain(S), draft' = draft, caller' = caller
  PROVE  BuildInv' /\ Tame
<1>1. job.stage \in Planned \ {"mask"} /\ job.stage \in MakingStages
  BY DEF Planned, Planning, MakingStages
<1>2. Making(job) /\ Made(Part(job.p), job) /\ job \in JobRecord /\ Parts /\ job.p \in Prog /\ job.kind \in Kind
  BY <1>1, AtMaking
<1>3. CASE Drops(S) /\ job' = [Go("map") EXCEPT !.try = 2]
  <2>1. SameJob /\ job'.stage = "map" /\ job'.kv = job.kv /\ job'.path = job.path
    BY <1>2, <1>3 DEF Go, JobRecord, SameJob, Stage
  <2>2. Only(job.p) /\ SameKV /\ held' \cap Of(job.p) = Part(job.p) \ S
    <3>1. S \subseteq Of(job.p)
      BY <1>2, InOf
    <3> QED
      BY <1>2, <1>3, <3>1, DropsOf
  <2>3. held' \cap Of(job.p) = Part(job.p) \ Plan(job.p)
    BY <2>2
  <2> QED
    BY <1>1, <1>2, <2>1, <2>2, <2>3, PlanStepBare
<1>4. CASE Drops(S \cup OfPlan) /\ Unplanned
  BY <1>4, GoesPlanless
<1> QED
  BY <1>3, <1>4 DEF MapAgain

LEMMA MapFailsOk ==
  ASSUME BuildInv, MapFails
  PROVE  BuildInv' /\ Tame
<1>1. job.op # "none" /\ job.stage = "map" /\ job.stage \in MakingStages
  BY DEF MapFails, JobAt, Planned, Planning, MakingStages
<1>2. Part(job.p) \cap Plan(job.p) = {}
  <2>1. Made(Part(job.p), job) /\ ~RequestIn(job)
    BY <1>1, AtMaking DEF RequestIn
  <2> QED
    BY <2>1 DEF Made, Plan
<1>3. MapAgain({}) /\ draft' = draft /\ caller' = caller
  BY DEF MapFails, Aside
<1> QED
  BY <1>1, <1>2, <1>3, MapsAgain

LEMMA EventsFailOk ==
  ASSUME BuildInv, EventsFail
  PROVE  BuildInv' /\ Tame
<1>1. job.op # "none" /\ job.stage \in {"map", "events", "validate"}
  BY DEF EventsFail, JobAt
<1>2. MapAgain(Plan(job.p)) /\ draft' = draft /\ caller' = caller
  BY DEF EventsFail, Aside
<1> QED
  BY <1>1, <1>2, MapsAgain

LEMMA PlanlessOk ==
  ASSUME BuildInv, Planless
  PROVE  BuildInv' /\ Tame
<1>1. job.op # "none" /\ job.stage = "planless" /\ job.stage \in MakingStages /\ job.stage \in Planning
  BY DEF Planless, JobAt, Planning, MakingStages
<1>2. /\ Making(job) /\ JobKinds(job) /\ Made(Part(job.p), job) /\ job \in JobRecord
      /\ job.p \in Prog /\ job.kind \in Kind /\ Parts /\ KVOk /\ job.op \in {"open", "reset"}
  BY <1>1, AtMaking
<1>3. caller' = caller
  BY DEF Planless
<1>4. /\ ~DirIn(job) /\ MemoryIn(job) /\ (ClientIn(job) <=> job.path = "client") /\ ~RequestIn(job)
      /\ SurfacesIn(job) = {} /\ job.kv = 0
  <2>1. job.stage \notin Planned
    BY <1>1 DEF Planned
  <2> QED
    BY <1>1, <1>2, <2>1 DEF DirIn, MemoryIn, ClientIn, RequestIn, SurfacesIn, JobKinds, BindsKV
<1>5. Client(job.p) \in Of(job.p) /\ Memory(job.p) \in Of(job.p)
  BY <1>2, InOf DEF Models
<1>6. CASE /\ job.kind = "stack" /\ job.path = "client" /\ Drops({Client(job.p)}) /\ draft' = draft
           /\ job' = [Go("alloc") EXCEPT !.path = "memory", !.next = 1, !.try = 1]
  <2>1. SameJob /\ job'.stage = "alloc" /\ job'.path = "memory" /\ job'.next = 1 /\ job'.kv = 0
    BY <1>2, <1>4, <1>6 DEF Go, JobRecord, SameJob, Stage
  <2>2. Only(job.p) /\ SameKV /\ held' \cap Of(job.p) = Part(job.p) \ {Client(job.p)}
    <3>1. {Client(job.p)} \subseteq Of(job.p)
      BY <1>5
    <3> QED
      BY <1>2, <1>6, <3>1, DropsOf
  <2>3. held' \cap Of(job.p) = {Memory(job.p)}
    BY <1>2, <1>4, <2>2, Apart DEF Made, Models, Plan
  <2> QED
    BY <1>2, <1>3, <1>4, <1>6, <2>1, <2>2, <2>3, LayerPlans
<1>7. CASE ~(job.kind = "stack" /\ job.path = "client") /\ Drops({Memory(job.p)}) /\ Fails
  <2>1. Only(job.p) /\ SameKV /\ held' \cap Of(job.p) = Part(job.p) \ {Memory(job.p)}
    <3>1. {Memory(job.p)} \subseteq Of(job.p)
      BY <1>5
    <3> QED
      BY <1>2, <1>7, <3>1, DropsOf
  <2>2. job.path # "client"
    BY <1>1, <1>2, <1>7 DEF JobKinds
  <2>3. held' \cap Of(job.p) = {}
    BY <1>2, <1>4, <2>1, <2>2 DEF Made, Models, Plan
  <2>4. held' \cap AllKV = KVs(draft.kv) \cup KVs(caller.kv)
    <3>1. KVs(JobKV) = {}
      BY <1>1, <1>2, <1>4 DEF JobKV, KVs
    <3> QED
      BY <1>2, <2>1, <3>1 DEF SameKV, KVOk
  <2> QED
    BY <1>2, <1>3, <1>4, <1>7, <2>1, <2>3, <2>4, MakeFails
<1> QED
  BY <1>6, <1>7 DEF Planless

\* A program whose plan is built is complete.
LEMMA PlannedIsComplete ==
  ASSUME NEW j, NEW X, JobKinds(j), Made(X, j), j.stage \in {"planned", "mask"}, j.kind # "stack"
  PROVE  Complete(X, j.p, j.kind)
<1>1. HasPlan(j.kind) /\ j.path # "client" /\ j.kind # "files"
  <2>1. j.stage \in Planned /\ j.stage \in Planning
    BY DEF Planned, Planning
  <2> QED
    BY <2>1 DEF JobKinds, HasPlan
<1>2. ~DirIn(j) /\ MemoryIn(j) /\ ~ClientIn(j) /\ RequestIn(j) /\ SurfacesIn(j) = Surfaces(j.p, j.kind)
  BY <1>1 DEF DirIn, MemoryIn, ClientIn, RequestIn, SurfacesIn, Planning, Planned
<1> QED
  BY <1>1, <1>2 DEF Made, Complete

LEMMA AdoptOk ==
  ASSUME BuildInv, Adopt
  PROVE  BuildInv' /\ Tame
<1>1. /\ job.op = "open" /\ job.stage = "planned" /\ job.stage \in MakingStages /\ job.stage \in Planned
      /\ job.kind # "stack"
  BY DEF Adopt, JobAt, Planned, Planning, MakingStages
<1>2. Making(job) /\ JobKinds(job) /\ Made(Part(job.p), job) /\ job \in JobRecord /\ Parts
  BY <1>1, AtMaking
<1>3. held' = held /\ caller' = caller
  BY DEF Adopt
<1>4. Only(job.p) /\ SameKV /\ held' \cap Of(job.p) = Part(job.p)
  BY <1>2, <1>3, SameHeld
<1>5. CASE job.kind = "attention" /\ job' = Go("mask") /\ draft' = draft
  <2>1. SameJob /\ job'.stage = "mask" /\ job'.kv = job.kv /\ job'.path = job.path
    <3>1. "mask" \in Stage
      BY DEF Stage
    <3> QED
      BY <1>2, <1>5, <3>1, GoIs
  <2>2. RequestIn(job) /\ RequestIn(job')
    BY <1>1, <2>1 DEF RequestIn
  <2> DEFINE X == Part(job.p) \cap Plan(job.p)
  <2>3. Part(job.p) = (Part(job.p) \ Plan(job.p)) \cup X /\ X \subseteq Plan(job.p) /\ Request(job.p) \in X
    BY <1>2, <2>2 DEF Made, Plan
  <2> HIDE DEF X
  <2>4. job'.stage \in Planned /\ job.stage # "mask"
    BY <1>1, <2>1 DEF Planned
  <2> QED
    BY <1>1, <1>2, <1>3, <1>4, <1>5, <2>1, <2>2, <2>3, <2>4, PlanStep
<1>6. CASE Gives("open", <<job.p>>) /\ Ends
  <2>1. Complete(held' \cap Of(job.p), job.p, job.kind)
    BY <1>1, <1>2, <1>4, PlannedIsComplete
  <2> QED
    BY <1>1, <1>3, <1>4, <1>6, <2>1, OpensOne
<1> QED
  BY <1>5, <1>6 DEF Adopt

LEMMA AtMask ==
  ASSUME BuildInv, JobAt("mask")
  PROVE  /\ job.op = "open" /\ job.stage = "mask" /\ job.stage \in MakingStages /\ job.kind = "attention"
         /\ Making(job) /\ JobKinds(job) /\ Made(Part(job.p), job) /\ job \in JobRecord /\ Parts
         /\ job.p \in Prog /\ job.kind \in Kind /\ job.built = << >>
<1>1. job.op # "none" /\ job.stage = "mask" /\ job.stage \in MakingStages
  BY DEF JobAt, Planned, Planning, MakingStages
<1>2. /\ Making(job) /\ JobKinds(job) /\ Made(Part(job.p), job) /\ job \in JobRecord /\ Parts
      /\ job.p \in Prog /\ job.kind \in Kind /\ job.op \in {"open", "reset"}
      /\ job.op = "reset" => job.kind = "stateful"
  BY <1>1, AtMaking
<1>3. job.kind = "attention" /\ job.op = "open"
  BY <1>1, <1>2 DEF JobKinds
<1>4. job.built = << >>
  BY <1>2, <1>3 DEF BuildInv, Control, JobOk
<1> QED
  BY <1>1, <1>2, <1>3, <1>4

LEMMA WriteMaskOk ==
  ASSUME BuildInv, WriteMask
  PROVE  BuildInv' /\ Tame
<1>1. JobAt("mask") /\ Gives("open", <<job.p>>) /\ Ends /\ held' = held /\ caller' = caller
  BY DEF WriteMask
<1>2. /\ job.op = "open" /\ job.stage = "mask" /\ job.stage \in MakingStages /\ job.kind = "attention"
      /\ JobKinds(job) /\ Made(Part(job.p), job) /\ Parts
  BY <1>1, AtMask
<1>3. Only(job.p) /\ SameKV /\ held' \cap Of(job.p) = Part(job.p)
  BY <1>1, <1>2, SameHeld
<1>4. Complete(held' \cap Of(job.p), job.p, job.kind)
  BY <1>2, <1>3, PlannedIsComplete
<1> QED
  BY <1>1, <1>2, <1>3, <1>4, OpensOne

LEMMA WriteMaskFailsOk ==
  ASSUME BuildInv, WriteMaskFails
  PROVE  BuildInv' /\ Tame
<1>1. JobAt("mask") /\ Drops(Plan(job.p) \cup OfPlan \cup Models(job.p)) /\ Fails /\ caller' = caller
  BY DEF WriteMaskFails
<1>2. /\ job.op = "open" /\ job.stage = "mask" /\ job.stage \in MakingStages /\ job.kind = "attention"
      /\ Making(job) /\ JobKinds(job) /\ Made(Part(job.p), job) /\ Parts
      /\ job.p \in Prog /\ job.kind \in Kind /\ job.built = << >>
  BY <1>1, AtMask
<1> DEFINE S == Plan(job.p) \cup Surfaces(job.p, job.kind) \cup Models(job.p)
<1>3. S \subseteq Of(job.p) /\ Drops(S \cup KV(job.kv))
  BY <1>1, <1>2, InOf DEF Drops, OfPlan
<1> HIDE DEF S
<1>4. Only(job.p) /\ held' \cap AllKV = (held \cap AllKV) \ KV(job.kv) /\ held' \cap Of(job.p) = Part(job.p) \ S
  BY <1>2, <1>3, DropsOfKV
<1>5. held' \cap Of(job.p) = {}
  <2>1. ~DirIn(job)
    BY <1>2 DEF DirIn
  <2> QED
    BY <1>2, <1>4, <2>1 DEF Made, S
<1>6. held' \cap AllKV = KVs(draft.kv) \cup KVs(caller.kv)
  <2>1. KVOk /\ draft = NoDraft /\ caller.kv = 0 /\ JobKV = job.kv
    BY <1>2, AtMaking
  <2> QED
    BY <1>4, <2>1, NoJobIs DEF KVOk, KVs
<1> QED
  BY <1>1, <1>2, <1>4, <1>5, <1>6, MakeFails

-----------------------------------------------------------------------------
\* The layers of a stack.
LEMMA AppendIs ==
  ASSUME NEW s \in Seq(Prog), Len(s) = 0 \/ Len(s) = 1, NEW e \in Prog, e \notin Range(s)
  PROVE  /\ Append(s, e) \in Seq(Prog) /\ Len(Append(s, e)) = Len(s) + 1 /\ Append(s, e) # << >>
         /\ Range(Append(s, e)) = {e} \cup Range(s)
         /\ \A i, k \in DOMAIN Append(s, e) : i # k => Append(s, e)[i] # Append(s, e)[k]
<1> DEFINE t == Append(s, e)
<1>1. t \in Seq(Prog) /\ Len(t) = Len(s) + 1 /\ t[Len(s) + 1] = e /\ \A i \in 1..Len(s) : t[i] = s[i]
  BY AppendProperties
<1>2. DOMAIN t = 1..(Len(s) + 1) /\ DOMAIN s = 1..Len(s) /\ Len(s) \in Nat
  BY <1>1, LenProperties
<1> HIDE DEF t
<1>3. Range(t) = {e} \cup Range(s)
  <2>1. 1..(Len(s) + 1) = 1..Len(s) \cup {Len(s) + 1}
    BY <1>2
  <2>2. Range(t) = {t[i] : i \in 1..Len(s)} \cup {t[Len(s) + 1]}
    BY <1>2, <2>1 DEF Range
  <2>3. Range(s) = {t[i] : i \in 1..Len(s)}
    BY <1>1, <1>2 DEF Range
  <2> QED
    BY <1>1, <2>2, <2>3
<1>4. ASSUME NEW i \in DOMAIN t, NEW k \in DOMAIN t, i # k PROVE t[i] # t[k]
  <2>1. CASE Len(s) = 0
    BY <1>2, <1>4, <2>1
  <2>2. CASE Len(s) = 1
    <3>1. t[1] = s[1] /\ t[2] = e /\ s[1] \in Range(s)
      BY <1>1, <1>2, <2>2 DEF Range
    <3>2. (i = 1 /\ k = 2) \/ (i = 2 /\ k = 1)
      BY <1>2, <1>4, <2>2
    <3> QED
      BY <3>1, <3>2
  <2> QED
    BY <2>1, <2>2
<1>5. t # << >>
  BY <1>1, <1>2, EmptySeq
<1> QED
  BY <1>1, <1>3, <1>4, <1>5 DEF t

LEMMA KeepLayerOk ==
  ASSUME BuildInv, KeepLayer
  PROVE  BuildInv' /\ Tame
<1>1. job.op # "none" /\ job.stage = "planned" /\ job.stage \in MakingStages /\ job.kind = "stack"
  BY DEF KeepLayer, JobAt, Planned, Planning, MakingStages
<1>2. /\ Making(job) /\ JobKinds(job) /\ Made(Part(job.p), job) /\ job \in JobRecord /\ Records
      /\ job.p \in Prog /\ job.kind \in Kind /\ Parts /\ KVOk /\ job.op = "open"
      /\ draft = NoDraft /\ caller.stage = "idle" /\ caller.kv = 0 /\ JobKV = job.kv
  BY <1>1, AtMaking
<1>3. JobOk /\ CallerOk /\ caller' = caller
  BY DEF BuildInv, Control, KeepLayer
<1>4. job.kv = 0 /\ job.path \in {"client", "memory"}
  <2>1. job.stage \in Planning
    BY <1>1 DEF Planning, Planned
  <2> QED
    BY <1>1, <1>2, <2>1 DEF JobKinds, BindsKV
<1> DEFINE S == IF job.path = "client" THEN {Memory(job.p)} ELSE {}
           built == Append(job.built, job.p)
<1>5. Only(job.p) /\ SameKV /\ held' \cap Of(job.p) = Part(job.p) \ S
  <2>1. S \subseteq Of(job.p)
    BY <1>2, InOf DEF Models
  <2>2. Drops(S)
    BY DEF KeepLayer
  <2> HIDE DEF S
  <2> QED
    BY <1>2, <2>1, <2>2, DropsOf
<1>6. Complete(held' \cap Of(job.p), job.p, job.kind)
  <2>1. ~DirIn(job) /\ MemoryIn(job) /\ (ClientIn(job) <=> job.path = "client") /\ RequestIn(job)
        /\ SurfacesIn(job) = Surfaces(job.p, job.kind)
    BY <1>1 DEF DirIn, MemoryIn, ClientIn, RequestIn, SurfacesIn, Planning, Planned
  <2>2. HasPlan(job.kind) /\ job.kind # "files"
    BY <1>1 DEF HasPlan
  <2>3. Complete(Part(job.p) \ S, job.p, job.kind)
    <3>1. CASE job.path = "client"
      BY <1>2, <2>1, <2>2, <3>1, Apart DEF Made, Complete
    <3>2. CASE job.path # "client"
      BY <1>2, <2>1, <2>2, <3>2, Apart DEF Made, Complete
    <3> QED
      BY <3>1, <3>2
  <2> HIDE DEF S
  <2> QED
    BY <1>5, <2>3
<1> HIDE DEF S
<1>7. held' \cap AllKV = {} /\ KVs(job.kv) = {}
  BY <1>2, <1>4, <1>5, NoJobIs DEF SameKV, KVOk, KVs
<1>8. /\ job.built \in Seq(Prog) /\ job.layers \in {1, 2} /\ Len(job.built) < job.layers
      /\ job.p \notin Range(job.built) /\ job.retire = << >>
  <2>1. job.built \in Seq(Prog) /\ job.layers \in {1, 2}
    BY <1>2 DEF JobRecord
  <2> QED
    BY <1>2, <1>3, <2>1 DEF JobOk
<1>9. Len(job.built) = 0 \/ (Len(job.built) = 1 /\ job.layers = 2)
  <2>1. ASSUME NEW n \in Nat, NEW m \in {1, 2}, n < m PROVE n = 0 \/ (n = 1 /\ m = 2)
    BY <2>1
  <2>2. Len(job.built) \in Nat
    BY <1>8, LenProperties
  <2> QED
    BY <1>8, <2>1, <2>2, Zenon
<1>10. /\ built \in Seq(Prog) /\ Len(built) = Len(job.built) + 1 /\ built # << >>
       /\ Range(built) = {job.p} \cup Range(job.built)
       /\ \A i, k \in DOMAIN built : i # k => built[i] # built[k]
  BY <1>2, <1>8, <1>9, AppendIs
<1> HIDE DEF built
<1>11. CASE Gives("open", built) /\ Ends
  BY <1>1, <1>2, <1>3, <1>5, <1>6, <1>7, <1>10, <1>11, MakeOpens
<1>12. CASE Len(built) # job.layers /\ job' = Building([job EXCEPT !.built = built]) /\ draft' = draft
  <2>1. Len(built) = 1 /\ job.layers = 2 /\ job.built = << >>
    <3>1. Len(job.built) = 0 /\ job.layers = 2
      BY <1>8, <1>9, <1>10, <1>12
    <3> QED
      BY <1>8, <1>10, <3>1, EmptySeq
  <2>2. Range(job.built) = {} /\ Range(draft.progs) = {} /\ Range(built) = {job.p} /\ Range(job.retire) = {}
    BY <1>2, <1>8, <1>10, <2>1, NoJobIs
  <2> DEFINE also == Range(draft.progs) \cup Range(built)
             next == Free({"model", "request", "surface"}, Prog, also)
  <2>3. next \in Prog /\ next \notin also /\ Part(next) = {}
    <3>1. InUse \subseteq also
      BY <1>2, <2>2 DEF InUse, Making, Closing
    <3>2. \E p \in Prog : p \notin also
      BY <2>2 DEF Prog
    <3> HIDE DEF also
    <3> QED
      BY <1>2, <3>1, <3>2, FreeProg
  <2>4. job' = [job EXCEPT !.built = built, !.p = next, !.path = "strict", !.next = 1, !.try = 1, !.stage = "mirror"]
    <3>1. [job EXCEPT !.built = built].built = built /\ [job EXCEPT !.built = built].kind = job.kind
      BY <1>2 DEF JobRecord
    <3> QED
      BY <1>1, <1>2, <1>12, <3>1 DEF Building, JobRecord
  <2> HIDE DEF next
  <2>5. /\ job' \in JobRecord /\ job'.op = "open" /\ job'.kind = "stack" /\ job'.p = next /\ job'.stage = "mirror"
        /\ job'.path = "strict" /\ job'.next = 1 /\ job'.built = built /\ job'.layers = 2
        /\ job'.retire = << >> /\ job'.kv = 0
    BY <1>1, <1>2, <1>4, <1>8, <1>10, <2>1, <2>3, <2>4 DEF JobRecord, Stage
  <2>6. Making(job') /\ ~Closing(job') /\ JobKinds(job')
    BY <2>5 DEF Making, Closing, JobKinds, BindsKV, Planning, Planned
  <2>7. Records'
    BY <1>2, <1>3, <1>12, <2>5 DEF Records
  <2>8. Control'
    <3>1. 1 < 2
      OBVIOUS
    <3>2. JobOk'
      BY <1>2, <1>3, <1>12, <2>1, <2>3, <2>5, <2>6, <3>1 DEF JobOk, MakingStages, Compiling
    <3>3. DraftOk' /\ CallerOk'
      BY <1>3, <1>12 DEF BuildInv, Control, DraftOk, CallerOk
    <3> QED
      BY <3>2, <3>3 DEF Control
  <2>9. Parts'
    <3>0. Range(draft'.progs) = {} /\ Range(job'.built) = {job.p} /\ Range(job'.retire) = {} /\ next # job.p
      BY <1>12, <2>2, <2>3, <2>5, NoJobIs
    <3>1. ASSUME NEW q \in Prog PROVE RoleOk(q)'
      <4>1. CASE q = job.p
        BY <1>1, <1>6, <2>5, <2>6, <3>0, <4>1 DEF RoleOk, InUse, Part
      <4>2. CASE q = next
        <5>1. held' \cap Of(q) = {}
          BY <1>5, <2>3, <3>0, <4>2 DEF Only, Part
        <5>2. Made({}, job')
          BY <2>5, MadeNone
        <5> QED
          BY <2>5, <2>6, <3>0, <4>2, <5>1, <5>2 DEF RoleOk, InUse, Part
      <4>3. CASE q # job.p /\ q # next
        <5>1. Part(q) = {}
          BY <1>2, <2>2, <4>3 DEF Parts, RoleOk, InUse, Making, Closing
        <5>2. held' \cap Of(q) = {}
          BY <1>5, <4>3, <5>1 DEF Only, Part
        <5> QED
          BY <2>5, <2>6, <3>0, <4>3, <5>2 DEF RoleOk, InUse, Part
      <4> QED
        BY <4>1, <4>2, <4>3
    <3> QED
      BY <1>5, <3>1 DEF Parts, Only
  <2>10. KVOk'
    BY <1>2, <1>3, <1>7, <1>12, <2>5, NoJobIs DEF KVOk, KVs, JobKV
  <2> QED
    BY <1>2, <1>3, <1>5, <1>12, <2>5, <2>7, <2>8, <2>9, <2>10 DEF BuildInv, Tame, Only
<1> QED
  BY <1>11, <1>12 DEF KeepLayer, built

-----------------------------------------------------------------------------
\* Programs that are given up.
LEMMA TailIs ==
  ASSUME NEW S, NEW s \in Seq(S), s # << >>, \A i, k \in DOMAIN s : i # k => s[i] # s[k]
  PROVE  /\ Tail(s) \in Seq(S) /\ Head(s) \in Range(s) /\ Head(s) \in S
         /\ Len(Tail(s)) = Len(s) - 1 /\ Len(s) \in Nat
         /\ Range(Tail(s)) = Range(s) \ {Head(s)}
         /\ \A i, k \in DOMAIN Tail(s) : i # k => Tail(s)[i] # Tail(s)[k]
<1>1. /\ Tail(s) \in Seq(S) /\ Len(s) \in Nat \ {0} /\ Len(Tail(s)) = Len(s) - 1 /\ Head(s) = s[1] /\ Head(s) \in S
      /\ \A i \in 1..Len(Tail(s)) : Tail(s)[i] = s[i + 1]
  BY HeadTailProperties, EmptySeq, LenProperties
<1>2. DOMAIN s = 1..Len(s) /\ DOMAIN Tail(s) = 1..(Len(s) - 1)
  BY <1>1, LenProperties
<1> DEFINE t == Tail(s)
<1> HIDE DEF t
<1>3. t \in Seq(S) /\ DOMAIN t = 1..(Len(s) - 1) /\ \A i \in 1..(Len(s) - 1) : t[i] = s[i + 1]
  BY <1>1, <1>2 DEF t
<1>4. Range(t) = Range(s) \ {s[1]}
  <2>1. ASSUME NEW x \in Range(t) PROVE x \in Range(s) \ {s[1]}
    <3>1. PICK i \in 1..(Len(s) - 1) : x = s[i + 1]
      BY <1>3, <2>1 DEF Range
    <3>2. i + 1 \in 1..Len(s) /\ i + 1 # 1 /\ 1 \in 1..Len(s)
      BY <1>1
    <3>3. s[i + 1] # s[1]
      BY <1>2, <3>2
    <3> QED
      BY <1>2, <3>1, <3>2, <3>3 DEF Range
  <2>2. ASSUME NEW x \in Range(s), x # s[1] PROVE x \in Range(t)
    <3>1. PICK i \in 1..Len(s) : x = s[i]
      BY <1>2, <2>2 DEF Range
    <3>2. i # 1
      BY <2>2, <3>1
    <3>3. i - 1 \in 1..(Len(s) - 1) /\ (i - 1) + 1 = i
      BY <1>1, <3>2
    <3>4. t[i - 1] = x
      BY <1>3, <3>1, <3>3
    <3> QED
      BY <1>3, <3>3, <3>4 DEF Range
  <2> QED
    BY <2>1, <2>2
<1>5. ASSUME NEW i \in DOMAIN t, NEW k \in DOMAIN t, i # k PROVE t[i] # t[k]
  <2>1. i + 1 \in DOMAIN s /\ k + 1 \in DOMAIN s /\ i + 1 # k + 1
    BY <1>1, <1>2, <1>3, <1>5
  <2>2. s[i + 1] # s[k + 1]
    BY <2>1
  <2> QED
    BY <1>3, <1>5, <2>2
<1>6. s[1] \in Range(s)
  BY <1>1, <1>2 DEF Range
<1> QED
  BY <1>1, <1>3, <1>4, <1>5, <1>6 DEF t

LEMMA SwapOk ==
  ASSUME BuildInv, Swap
  PROVE  BuildInv' /\ Tame
<1>1. job.op = "reset" /\ job.stage = "planned" /\ job.stage \in MakingStages
  BY DEF Swap, JobAt, Planned, Planning, MakingStages
<1>2. /\ Making(job) /\ JobKinds(job) /\ Made(Part(job.p), job) /\ job \in JobRecord /\ Records
      /\ job.p \in Prog /\ job.kind \in Kind /\ Parts /\ KVOk
      /\ job.kind = "stateful" /\ job.kv = 0 /\ job.built = << >> /\ JobKV = 0
  BY <1>1, AtMaking
<1>3. JobOk /\ DraftOk /\ CallerOk
  BY DEF BuildInv, Control
<1>4. /\ held' = held /\ caller' = caller /\ draft' = [draft EXCEPT !.progs = <<job.p>>]
      /\ job' = [Go("retire") EXCEPT !.retire = draft.progs]
  BY DEF Swap
<1>5. /\ draft \in DraftRecord /\ caller \in CallerRecord /\ draft.state = "open" /\ draft.kind = "stateful"
      /\ job.p \notin Range(draft.progs) /\ Len(draft.progs) = 1 /\ draft.progs \in Seq(Prog)
  BY <1>1, <1>2, <1>3 DEF Records, DraftRecord, JobOk, DraftOk
<1>6. <<job.p>> \in Seq(Prog) /\ Len(<<job.p>>) = 1 /\ <<job.p>>[1] = job.p
  BY <1>2
<1>7. Range(<<job.p>>) = {job.p} /\ Range(draft.progs) = {draft.progs[1]} /\ Head(draft.progs) = draft.progs[1]
      /\ \A i, k \in DOMAIN <<job.p>> : i = k
  BY <1>5, <1>6, Single
<1>8. /\ draft' \in DraftRecord /\ draft'.state = "open" /\ draft'.kind = "stateful"
      /\ draft'.progs = <<job.p>> /\ draft'.kv = draft.kv /\ draft'.bound = draft.bound
  <2>1. ASSUME NEW progs \in Seq(Prog), draft' = [draft EXCEPT !.progs = progs]
        PROVE  /\ draft' \in DraftRecord /\ draft'.state = draft.state /\ draft'.kind = draft.kind
               /\ draft'.progs = progs /\ draft'.kv = draft.kv /\ draft'.bound = draft.bound
    BY <1>5, <2>1 DEF DraftRecord
  <2> QED
    BY <1>4, <1>5, <1>6, <2>1
<1>9. /\ job' \in JobRecord /\ job'.op = "reset" /\ job'.stage = "retire" /\ job'.kind = "stateful"
      /\ job'.retire = draft.progs /\ job'.kv = 0 /\ job'.built = << >>
  BY <1>1, <1>2, <1>4, <1>5 DEF Go, JobRecord, Stage
<1>10. ~Making(job') /\ ~Closing(job') /\ Range(job'.retire) \cap Range(draft'.progs) = {} /\ Len(job'.retire) <= 1
  <2>1. 1 <= 1
    OBVIOUS
  <2> QED
    BY <1>5, <1>7, <1>8, <1>9, <2>1 DEF Making, Closing
<1>11. Control'
  <2>1. JobOk'
    BY <1>8, <1>9, <1>10 DEF JobOk
  <2>2. DraftOk'
    <3>1. \A i, k \in DOMAIN draft'.progs : i # k => draft'.progs[i] # draft'.progs[k]
      BY <1>7, <1>8
    <3> QED
      BY <1>3, <1>6, <1>8, <3>1 DEF DraftOk
  <2>3. CallerOk'
    BY <1>3, <1>4, <1>5, <1>8 DEF CallerOk
  <2> QED
    BY <2>1, <2>2, <2>3 DEF Control
<1>12. Parts'
  <2>1. \A p : Only(p) /\ held' \cap Of(p) = Part(p)
    BY <1>2, <1>4, SameHeld
  <2>2. ASSUME NEW q \in Prog PROVE RoleOk(q)'
    <3>1. CASE q = job.p
      <4>1. Complete(Part(q), q, "stateful")
        BY <1>1, <1>2, <3>1, PlannedIsComplete
      <4>2. q \notin Range(draft.progs)
        BY <1>5, <3>1
      <4> QED
        BY <1>4, <1>7, <1>8, <1>9, <1>10, <3>1, <4>1, <4>2 DEF RoleOk, InUse, Part
    <3>2. CASE q = draft.progs[1]
      <4>1. q \in Range(draft.progs) /\ q # job.p
        BY <1>5, <1>7, <3>2
      <4>2. Complete(Part(q), q, "stateful")
        BY <1>2, <1>5, <4>1 DEF Parts, RoleOk
      <4>3. Retiring(Part(q), q, "stateful")
        BY <4>2, CompleteRetires
      <4> QED
        BY <1>4, <1>7, <1>8, <1>9, <1>10, <3>2, <4>1, <4>3 DEF RoleOk, InUse, Part
    <3>3. CASE q # job.p /\ q # draft.progs[1]
      <4>1. Range(job.built) = {} /\ Range(job.retire) = {} /\ ~Closing(job)
        BY <1>1, <1>2, <1>3, NoJobIs DEF JobOk, Closing
      <4>2. q \notin InUse
        BY <1>7, <3>3, <4>1 DEF InUse
      <4>3. Part(q) = {}
        BY <1>2, <4>2 DEF Parts, RoleOk
      <4> QED
        BY <1>4, <1>7, <1>8, <1>9, <1>10, <3>3, <4>3 DEF RoleOk, InUse, Part
    <3> QED
      BY <3>1, <3>2, <3>3
  <2> QED
    BY <2>1, <2>2 DEF Parts, Only
<1>13. KVOk'
  BY <1>2, <1>4, <1>8, <1>9 DEF KVOk, JobKV
<1>14. Records'
  BY <1>2, <1>4, <1>8, <1>9 DEF Records
<1> QED
  BY <1>1, <1>4, <1>5, <1>8, <1>9, <1>11, <1>12, <1>13, <1>14 DEF BuildInv, Tame

LEMMA AtRetire ==
  ASSUME BuildInv, JobAt("retire")
  PROVE  /\ job \in JobRecord /\ job.op \in {"open", "reset", "close"} /\ job.stage = "retire"
         /\ Records /\ Parts /\ KVOk /\ JobOk /\ DraftOk /\ CallerOk /\ job.kind \in Kind
         /\ ~Making(job) /\ ~Closing(job) /\ JobKV = 0
         /\ job.retire \in Seq(Prog) /\ Range(job.retire) \cap Range(draft.progs) = {}
         /\ job.retire # << >> => job.kind \in {"stack", "stateful"}
         /\ \A i, k \in DOMAIN job.retire : i # k => job.retire[i] # job.retire[k]
<1>1. /\ job \in JobRecord /\ job.op \in {"open", "reset", "close"} /\ job.stage = "retire"
      /\ Records /\ Parts /\ KVOk /\ JobOk /\ DraftOk /\ CallerOk /\ job.kind \in Kind
      /\ job.retire \in Seq(Prog)
  BY DEF BuildInv, Control, Records, JobRecord, JobAt
<1>2. ~Making(job) /\ ~Closing(job) /\ JobKV = 0
  BY <1>1 DEF Making, Closing, JobKV, JobOk
<1>3. Range(job.retire) \cap Range(draft.progs) = {}
  BY <1>1, NoJobIs DEF JobOk, DraftOk
<1>4. job.retire # << >> => job.kind \in {"stack", "stateful"}
  BY <1>1 DEF JobOk
<1>5. \A i, k \in DOMAIN job.retire : i # k => job.retire[i] # job.retire[k]
  <2>1. CASE job.op = "close"
    BY <1>1, <2>1 DEF JobOk
  <2>2. CASE job.op # "close"
    <3>1. Len(job.retire) <= 1
      BY <1>1, <2>2 DEF JobOk
    <3>2. DOMAIN job.retire = 1..Len(job.retire) /\ Len(job.retire) \in Nat
      BY <1>1, LenProperties
    <3>3. \A i, k \in DOMAIN job.retire : i = k
      BY <3>1, <3>2
    <3> QED
      BY <3>3
  <2> QED
    BY <2>1, <2>2
<1> QED
  BY <1>1, <1>2, <1>3, <1>4, <1>5

\* A step that takes something from the program that is retired.
LEMMA RetireStep ==
  ASSUME BuildInv, JobAt("retire"), job.retire # << >>, job' = job, draft' = draft, caller' = caller,
         Only(Old), SameKV, Retiring(held' \cap Of(Old), Old, job.kind)
  PROVE  BuildInv' /\ Tame
<1>1. /\ Records /\ Parts /\ KVOk /\ ~Making(job) /\ ~Closing(job)
      /\ job.retire \in Seq(Prog) /\ Range(job.retire) \cap Range(draft.progs) = {}
  BY AtRetire
<1>2. Old \in Range(job.retire) /\ Old = Head(job.retire)
  BY <1>1, AtRetire, TailIs DEF Old
<1>3. ASSUME NEW q \in Prog PROVE RoleOk(q)'
  <2>1. RoleOk(q)
    BY <1>1 DEF Parts
  <2>2. CASE q = Old
    BY <1>1, <1>2, <2>2 DEF RoleOk, InUse, Part, Making, Closing
  <2>3. CASE q # Old
    <3>1. held' \cap Of(q) = Part(q)
      BY <2>3 DEF Only, Part
    <3> QED
      BY <1>1, <1>2, <2>1, <2>3, <3>1 DEF RoleOk, InUse, Part, Making, Closing
  <2> QED
    BY <2>2, <2>3
<1>4. Parts'
  BY <1>3 DEF Parts, Only
<1>5. KVOk'
  BY <1>1, KeepsKV DEF JobKV
<1>6. Records' /\ Control'
  BY DEF BuildInv, Records, Control, JobOk, DraftOk, CallerOk
<1> QED
  BY <1>4, <1>5, <1>6 DEF BuildInv, Tame, Only

LEMMA OldIs ==
  ASSUME BuildInv, JobAt("retire"), job.retire # << >>
  PROVE  /\ Old \in Prog /\ Old \in Range(job.retire) /\ Parts /\ job.kind \in Kind
         /\ Retiring(Part(Old), Old, job.kind)
         /\ Plan(Old) \subseteq Of(Old) /\ Models(Old) \subseteq Of(Old) /\ Surfaces(Old, job.kind) \subseteq Of(Old)
         /\ \A S : S \subseteq Of(Old) => S \cap held = S \cap Part(Old)
<1>1. job.retire \in Seq(Prog) /\ Parts /\ job.kind \in Kind
  BY AtRetire
<1>2. Old \in Prog /\ Old \in Range(job.retire)
  BY <1>1, AtRetire, TailIs DEF Old
<1>3. Retiring(Part(Old), Old, job.kind)
  BY <1>1, <1>2 DEF Parts, RoleOk, Old
<1> QED
  BY <1>1, <1>2, <1>3, InOf DEF Part

LEMMA RetirePlanOk ==
  ASSUME BuildInv, RetirePlan
  PROVE  BuildInv' /\ Tame
<1>1. JobAt("retire") /\ job.retire # << >> /\ Drops(Plan(Old)) /\ job' = job /\ draft' = draft /\ caller' = caller
  BY DEF RetirePlan, Aside
<1>2. Old \in Prog /\ Parts /\ Retiring(Part(Old), Old, job.kind) /\ Plan(Old) \subseteq Of(Old)
  BY <1>1, OldIs
<1>3. Only(Old) /\ SameKV /\ held' \cap Of(Old) = Part(Old) \ Plan(Old)
  BY <1>1, <1>2, DropsOf
<1>4. Retiring(held' \cap Of(Old), Old, job.kind)
  BY <1>2, <1>3 DEF Retiring
<1> QED
  BY <1>1, <1>3, <1>4, RetireStep

LEMMA RetireSurfacesOk ==
  ASSUME BuildInv, RetireSurfaces
  PROVE  BuildInv' /\ Tame
<1>1. /\ JobAt("retire") /\ job.retire # << >> /\ Drops(Surfaces(Old, job.kind)) /\ job' = job
      /\ draft' = draft /\ caller' = caller /\ Plan(Old) \cap held = {}
  BY DEF RetireSurfaces, Aside
<1>2. Old \in Prog /\ Parts /\ Retiring(Part(Old), Old, job.kind) /\ Surfaces(Old, job.kind) \subseteq Of(Old)
      /\ Plan(Old) \cap Part(Old) = {}
  BY <1>1, OldIs
<1>3. Only(Old) /\ SameKV /\ held' \cap Of(Old) = Part(Old) \ Surfaces(Old, job.kind)
  BY <1>1, <1>2, DropsOf
<1>4. Retiring(held' \cap Of(Old), Old, job.kind)
  BY <1>2, <1>3 DEF Retiring
<1> QED
  BY <1>1, <1>3, <1>4, RetireStep

LEMMA RetireModelOk ==
  ASSUME BuildInv, RetireModel
  PROVE  BuildInv' /\ Tame
<1>1. /\ JobAt("retire") /\ job.retire # << >> /\ Drops(Models(Old)) /\ job' = [job EXCEPT !.retire = Tail(@)]
      /\ draft' = draft /\ caller' = caller /\ (Plan(Old) \cup Surfaces(Old, job.kind)) \cap held = {}
  BY DEF RetireModel, Aside
<1>2. /\ Old \in Prog /\ Parts /\ Retiring(Part(Old), Old, job.kind) /\ Models(Old) \subseteq Of(Old)
      /\ Plan(Old) \cap Part(Old) = {} /\ Surfaces(Old, job.kind) \cap Part(Old) = {} /\ Old \in Range(job.retire)
  BY <1>1, OldIs
<1>3. Only(Old) /\ SameKV /\ held' \cap Of(Old) = Part(Old) \ Models(Old)
  BY <1>1, <1>2, DropsOf
<1>4. held' \cap Of(Old) = {}
  BY <1>2, <1>3 DEF Retiring
<1>5. /\ job \in JobRecord /\ job.op \in {"open", "reset", "close"} /\ job.stage = "retire"
      /\ Records /\ KVOk /\ JobOk /\ DraftOk /\ CallerOk
      /\ ~Making(job) /\ ~Closing(job) /\ JobKV = 0
      /\ job.retire \in Seq(Prog) /\ Range(job.retire) \cap Range(draft.progs) = {}
      /\ job.kind \in {"stack", "stateful"}
      /\ \A i, k \in DOMAIN job.retire : i # k => job.retire[i] # job.retire[k]
  BY <1>1, AtRetire
<1> DEFINE rest == Tail(job.retire)
<1>6. /\ rest \in Seq(Prog) /\ Len(rest) = Len(job.retire) - 1 /\ Len(job.retire) \in Nat
      /\ Range(rest) = Range(job.retire) \ {Old}
      /\ \A i, k \in DOMAIN rest : i # k => rest[i] # rest[k]
  BY <1>1, <1>5, TailIs DEF Old
<1>7. rest # << >> => Head(rest) \in Range(rest)
  BY <1>6, TailIs
<1> HIDE DEF rest
<1>8. /\ job' \in JobRecord /\ job'.op = job.op /\ job'.stage = "retire" /\ job'.kind = job.kind
      /\ job'.retire = rest /\ job'.kv = job.kv /\ job'.built = job.built
  BY <1>1, <1>5, <1>6 DEF JobRecord, rest
<1>9. ~Making(job') /\ ~Closing(job') /\ Range(rest) \cap Range(draft.progs) = {}
  BY <1>5, <1>6, <1>8 DEF Making, Closing
<1>10. Control'
  <2>1. Len(job.retire) <= 1 => Len(rest) <= 1
    BY <1>6
  <2>2. job.op \in {"open", "reset"} => Len(job.retire) <= 1
    BY <1>5 DEF JobOk
  <2>3. job.op = "close" => job.kind = "stack"
    BY <1>1, <1>5 DEF JobOk
  <2>4. job.op = "close" => draft.state = "closed"
    BY <1>5 DEF JobOk
  <2>5. job.op = "open" => draft = NoDraft /\ caller.stage = "idle" /\ job.kind = "stack" /\ job.kv = 0
    BY <1>5 DEF JobOk
  <2>6. job.op = "reset" => /\ draft.state = "open" /\ draft.kind = "stateful" /\ job.kind = "stateful"
                            /\ job.kv = 0 /\ job.built = << >>
    BY <1>5 DEF JobOk
  <2>7. JobOk'
    <3>1. \A i, k \in DOMAIN job'.retire : i # k => job'.retire[i] # job'.retire[k]
      BY <1>6, <1>8
    <3>2. job.op \in {"open", "reset"} => Len(job'.retire) <= 1
      BY <1>8, <2>1, <2>2
    <3>3. job'.op \in {"open", "reset", "close"} /\ draft' = draft /\ caller' = caller
      BY <1>1, <1>5, <1>8
    <3>4. CASE job.op = "open"
      BY <1>8, <1>9, <2>5, <3>2, <3>3, <3>4 DEF JobOk
    <3>5. CASE job.op = "reset"
      BY <1>8, <1>9, <2>6, <3>2, <3>3, <3>5 DEF JobOk
    <3>6. CASE job.op = "close"
      BY <1>8, <1>9, <2>3, <2>4, <3>1, <3>3, <3>6 DEF JobOk
    <3> QED
      BY <1>5, <3>4, <3>5, <3>6
  <2> QED
    BY <1>1, <1>5, <2>7 DEF Control, DraftOk, CallerOk
<1>11. Parts'
  <2>1. ASSUME NEW q \in Prog PROVE RoleOk(q)'
    <3>1. RoleOk(q)
      BY <1>2 DEF Parts
    <3>2. CASE q = Old
      <4>1. q \notin Range(rest) /\ q \notin Range(draft.progs)
        BY <1>2, <1>5, <1>6, <3>2
      <4> QED
        BY <1>1, <1>4, <1>8, <1>9, <3>2, <4>1 DEF RoleOk, Part, InUse
    <3>3. CASE q # Old
      <4>1. held' \cap Of(q) = Part(q)
        BY <1>3, <3>3 DEF Only, Part
      <4>2. q \in Range(rest) => Complete(Part(q), q, job.kind) /\ Retiring(Part(q), q, job.kind)
        <5>1. q \in Range(rest) => Complete(Part(q), q, job.kind)
          BY <1>6, <3>1, <3>3 DEF RoleOk, Old
        <5> QED
          BY <1>5, <5>1, CompleteRetires
      <4>3. q \notin Range(rest) => q \notin Range(job.retire)
        BY <1>6, <3>3
      <4> QED
        BY <1>1, <1>5, <1>8, <1>9, <3>1, <4>1, <4>2, <4>3 DEF RoleOk, Part, InUse
    <3> QED
      BY <3>2, <3>3
  <2> QED
    BY <1>3, <2>1 DEF Parts, Only
<1>12. KVOk'
  <2>1. JobKV' = 0
    BY <1>5, <1>8 DEF JobKV
  <2> QED
    BY <1>1, <1>3, <1>5, <2>1, KeepsKV
<1>13. Records'
  BY <1>1, <1>5, <1>8 DEF Records
<1> QED
  BY <1>1, <1>3, <1>8, <1>10, <1>11, <1>12, <1>13 DEF BuildInv, Tame, Only

LEMMA RetiredOk ==
  ASSUME BuildInv, Retired
  PROVE  BuildInv' /\ Tame
<1>1. /\ JobAt("retire") /\ job.retire = << >> /\ Ends /\ held' = held /\ caller' = caller
      /\ IF job.op = "open" THEN Gives("failed", << >>) ELSE draft' = draft
  BY DEF Retired
<1>2. /\ job \in JobRecord /\ job.op \in {"open", "reset", "close"} /\ job.stage = "retire"
      /\ Records /\ Parts /\ KVOk /\ JobOk /\ DraftOk /\ CallerOk /\ ~Making(job) /\ ~Closing(job) /\ JobKV = 0
  BY <1>1, AtRetire
<1>3. job' = NoJob /\ job'.op = "none" /\ job'.retire = << >> /\ job'.kv = 0 /\ JobKV' = 0
  BY <1>1, NoJobIs DEF Ends, JobKV
<1>4. ~Making(job') /\ ~Closing(job') /\ Range(job.retire) = {}
  BY <1>1, <1>3, NoJobIs DEF Making, Closing
<1>5. 1 \in Prog /\ Only(1) /\ SameKV /\ \A p : held' \cap Of(p) = Part(p)
  BY <1>1, <1>2, SameHeld DEF Prog
<1>6. \A q \in Prog : IF q \in Range(draft.progs) THEN Complete(Part(q), q, draft.kind) ELSE Part(q) = {}
  BY <1>2, <1>4 DEF Parts, RoleOk, InUse
<1>7. CASE job.op = "open"
  <2>1. << >> \in Seq(Prog)
    OBVIOUS
  <2>2. /\ draft' \in DraftRecord /\ draft'.state = "failed" /\ draft'.progs = << >> /\ draft'.kv = 0 /\ draft'.bound = 0
    BY <1>1, <1>2, <1>7, <2>1, GivesIs
  <2>3. draft = NoDraft /\ caller.stage = "idle" /\ caller.kv = 0 /\ draft.kv = 0 /\ Range(draft.progs) = {} /\ Range(draft'.progs) = {}
    BY <1>2, <1>7, <2>2, NoJobIs DEF JobOk, CallerOk
  <2>4. Records'
    BY <1>1, <1>2, <1>3, <2>2, NoJobIs DEF Records
  <2>5. Control'
    BY <1>1, <1>2, <1>3, <1>4, <2>2, <2>3 DEF Control, JobOk, DraftOk, CallerOk
  <2>6. Parts'
    <3>1. \A p \in Prog : IF p \in Range(draft'.progs) THEN Complete(held' \cap Of(p), p, draft'.kind)
                          ELSE held' \cap Of(p) = {}
      BY <1>5, <1>6, <2>3
    <3> QED
      BY <1>2, <1>3, <1>5, <3>1, IdleParts
  <2>7. KVOk'
    BY <1>1, <1>2, <1>3, <2>2, <2>3 DEF KVOk, KVs
  <2> QED
    BY <1>1, <1>3, <1>7, <2>4, <2>5, <2>6, <2>7 DEF BuildInv, Tame
<1>8. CASE job.op # "open"
  <2>1. draft' = draft
    BY <1>1, <1>8
  <2>2. Records'
    BY <1>1, <1>2, <1>3, <2>1, NoJobIs DEF Records
  <2>3. Control'
    BY <1>1, <1>2, <1>3, <1>4, <2>1 DEF Control, JobOk, DraftOk, CallerOk
  <2>4. Parts'
    <3>1. \A p \in Prog : IF p \in Range(draft'.progs) THEN Complete(held' \cap Of(p), p, draft'.kind)
                          ELSE held' \cap Of(p) = {}
      BY <1>5, <1>6, <2>1
    <3> QED
      BY <1>2, <1>3, <1>5, <3>1, IdleParts
  <2>5. KVOk'
    BY <1>1, <1>2, <1>3, <2>1 DEF KVOk
  <2> QED
    BY <1>1, <1>3, <2>1, <2>2, <2>3, <2>4, <2>5 DEF BuildInv, Tame
<1> QED
  BY <1>7, <1>8

-----------------------------------------------------------------------------
\* Close, field by field.
LEMMA AtClosing ==
  ASSUME BuildInv, job.op = "close", job.stage \in ClosingStages
  PROVE  /\ job \in JobRecord /\ Records /\ Parts /\ KVOk /\ JobOk /\ DraftOk /\ CallerOk /\ job.kind \in Kind
         /\ ~Making(job) /\ Closing(job) /\ job.retire = << >> /\ Range(job.retire) = {}
         /\ draft.state = "closed" /\ draft.progs = << >> /\ Range(draft.progs) = {} /\ draft.kv = 0
         /\ job.built \in Seq(Prog)
         /\ \A i, k \in DOMAIN job.built : i # k => job.built[i] # job.built[k]
         /\ job.kind # "stack" =>
              /\ Len(job.built) = 1 /\ Own = {job.built[1]} /\ Range(job.built) = {job.built[1]}
              /\ job.built[1] \in Prog
         /\ job.kind = "stack" => Own = {}
         /\ JobKV = IF job.stage \in {"unload", "kv"} THEN job.kv ELSE 0
<1>1. /\ job \in JobRecord /\ Records /\ Parts /\ KVOk /\ JobOk /\ DraftOk /\ CallerOk /\ job.kind \in Kind
      /\ job.built \in Seq(Prog)
  BY DEF BuildInv, Control, Records, JobRecord
<1>2. ~Making(job) /\ Closing(job)
  BY DEF Making, Closing, ClosingStages
<1>3. /\ job.retire = << >> /\ draft.state = "closed"
      /\ \A i, k \in DOMAIN job.built : i # k => job.built[i] # job.built[k]
      /\ job.kind # "stack" => Len(job.built) = 1
  BY <1>1, <1>2 DEF JobOk
<1>4. draft.progs = << >> /\ draft.kv = 0
  BY <1>1, <1>3 DEF DraftOk
<1>5. job.kind # "stack" => Own = {job.built[1]} /\ Range(job.built) = {job.built[1]} /\ job.built[1] \in Prog
  BY <1>1, <1>3, Single DEF Own
<1> QED
  BY <1>1, <1>2, <1>3, <1>4, <1>5, NoJobIs DEF Own, JobKV

\* A step that closes something of the one program of a model, or only goes on.
LEMMA CloseStep ==
  ASSUME BuildInv, job.op = "close", job.stage \in ClosingStages, NEW stage \in ClosingStages,
         job' = Go(stage), draft' = draft, caller' = caller,
         NEW b \in Prog, Only(b), KVOk',
         \A q \in Range(job.built) :
           IF job.kind = "stack" THEN held' \cap Of(q) = Part(q) ELSE Closed(held' \cap Of(q), q, job'),
         b \notin Range(job.built) => held' \cap Of(b) = Part(b)
  PROVE  BuildInv' /\ Tame
<1>1. /\ job \in JobRecord /\ Records /\ Parts /\ JobOk /\ DraftOk /\ CallerOk
      /\ ~Making(job) /\ Closing(job) /\ job.retire = << >> /\ Range(job.retire) = {}
      /\ draft.state = "closed" /\ Range(draft.progs) = {}
  BY AtClosing
<1>2. SameJob /\ job'.stage = stage /\ stage # "retire" /\ job'.kv = job.kv
  <2>1. stage \in Stage /\ stage # "retire"
    BY DEF ClosingStages, Stage
  <2> QED
    BY <1>1, <2>1, GoIs
<1>3. ~Making(job') /\ Closing(job')
  BY <1>2 DEF Making, Closing, SameJob
<1>4. Records'
  BY <1>1, <1>2 DEF Records, SameJob
<1>5. Control'
  <2>1. JobOk'
    BY <1>1, <1>2, <1>3 DEF JobOk, SameJob
  <2> QED
    BY <1>1, <2>1 DEF Control, DraftOk, CallerOk
<1>6. Parts'
  <2>1. ASSUME NEW q \in Prog PROVE RoleOk(q)'
    <3>1. RoleOk(q)
      BY <1>1 DEF Parts
    <3>2. CASE q \in Range(job.built)
      BY <1>1, <1>2, <1>3, <3>1, <3>2 DEF RoleOk, InUse, Part, SameJob
    <3>3. CASE q \notin Range(job.built)
      <4>1. Part(q) = {}
        BY <1>1, <3>1, <3>3 DEF RoleOk, InUse
      <4>2. held' \cap Of(q) = {}
        BY <3>3, <4>1 DEF Only, Part
      <4> QED
        BY <1>1, <1>2, <1>3, <3>3, <4>2 DEF RoleOk, InUse, Part, SameJob
    <3> QED
      BY <3>2, <3>3
  <2> QED
    BY <2>1 DEF Parts, Only
<1> QED
  BY <1>2, <1>4, <1>5, <1>6 DEF BuildInv, Tame, Only, SameJob

\* What a step of Close drops, where Gone[p] is what it drops of program p.
LEMMA ClosesOwn ==
  ASSUME BuildInv, job.op = "close", job.stage \in ClosingStages, NEW Gone,
         \A p \in Prog : Gone[p] \subseteq Of(p),
         Drops(UNION {Gone[p] : p \in Own})
  PROVE  \E b \in Prog :
           /\ Only(b) /\ SameKV
           /\ \A q \in Range(job.built) :
                held' \cap Of(q) = IF job.kind = "stack" THEN Part(q) ELSE Part(q) \ Gone[q]
           /\ b \notin Range(job.built) => held' \cap Of(b) = Part(b)
<1>1. /\ Parts
      /\ job.kind # "stack" => /\ Own = {job.built[1]} /\ Range(job.built) = {job.built[1]}
                               /\ job.built[1] \in Prog
      /\ job.kind = "stack" => Own = {}
  BY AtClosing
<1>2. CASE job.kind = "stack"
  <2>1. held' = held
    BY <1>1, <1>2 DEF Drops
  <2>2. 1 \in Prog /\ Only(1) /\ SameKV /\ \A p : held' \cap Of(p) = Part(p)
    BY <1>1, <2>1, SameHeld DEF Prog
  <2> QED
    BY <1>2, <2>2
<1>3. CASE job.kind # "stack"
  <2> DEFINE b == job.built[1]
  <2>1. b \in Prog /\ Drops(Gone[b]) /\ Gone[b] \subseteq Of(b)
    <3>1. UNION {Gone[p] : p \in Own} = Gone[b]
      BY <1>1, <1>3
    <3> QED
      BY <1>1, <1>3, <3>1
  <2>2. Only(b) /\ SameKV /\ held' \cap Of(b) = Part(b) \ Gone[b]
    BY <1>1, <2>1, DropsOf
  <2> QED
    BY <1>1, <1>3, <2>1, <2>2
<1> QED
  BY <1>2, <1>3

LEMMA CloseModelOk ==
  ASSUME BuildInv, job.op # "none", CloseModel
  PROVE  BuildInv' /\ Tame
<1>1. JobOk /\ job.op \in {"open", "reset", "close"} /\ job.stage = "unload" /\ job.stage \in ClosingStages
  BY DEF BuildInv, Control, Records, JobRecord, CloseModel, JobAt, ClosingStages
<1>2. job.op = "close"
  BY <1>1 DEF JobOk, MakingStages, Compiling, Planning, Planned
<1>3. /\ job \in JobRecord /\ Parts /\ KVOk /\ Closing(job) /\ job.kind \in Kind /\ JobKV = job.kv /\ job.built \in Seq(Prog)
      /\ \A q \in Range(job.built) : q \in Prog
      /\ job.kind # "stack" => Own = Range(job.built)
      /\ job.kind = "stack" => Own = {}
  <2>1. /\ job \in JobRecord /\ Parts /\ KVOk /\ Closing(job) /\ job.kind \in Kind /\ JobKV = job.kv /\ job.built \in Seq(Prog)
    BY <1>1, <1>2, AtClosing
  <2>2. \A q \in Range(job.built) : q \in Prog
    BY <2>1, LenProperties DEF Range
  <2> QED
    BY <2>1, <2>2 DEF Own
<1> DEFINE Gone == [p \in Prog |-> Models(p) \cup {Dir(p)}]
<1>4. Drops(UNION {Gone[p] : p \in Own}) /\ \A p \in Prog : Gone[p] \subseteq Of(p)
  <2>1. \A p \in Own : p \in Prog
    BY <1>3
  <2>2. {Gone[p] : p \in Own} = {Models(p) \cup {Dir(p)} : p \in Own}
    BY <2>1
  <2>3. Drops(UNION {Models(p) \cup {Dir(p)} : p \in Own})
    BY DEF CloseModel
  <2>4. \A p \in Prog : Models(p) \cup {Dir(p)} \subseteq Of(p)
    BY DEF Of
  <2> QED
    BY <2>2, <2>3, <2>4
<1>5. \A p \in Prog : Gone[p] = Models(p) \cup {Dir(p)}
  OBVIOUS
<1> HIDE DEF Gone
<1>6. PICK b \in Prog :
           /\ Only(b) /\ SameKV
           /\ \A q \in Range(job.built) :
                held' \cap Of(q) = IF job.kind = "stack" THEN Part(q) ELSE Part(q) \ Gone[q]
           /\ b \notin Range(job.built) => held' \cap Of(b) = Part(b)
  BY <1>1, <1>2, <1>4, ClosesOwn
<1>7. job' = Go("kv") /\ draft' = draft /\ caller' = caller /\ "kv" \in ClosingStages /\ "kv" \in Stage
  BY DEF CloseModel, Aside, ClosingStages, Stage
<1>8. SameJob /\ job'.stage = "kv" /\ job'.kv = job.kv
  BY <1>3, <1>7, GoIs
<1>9. KVOk'
  <2>1. JobKV' = JobKV
    BY <1>2, <1>3, <1>8 DEF JobKV, SameJob
  <2> QED
    BY <1>3, <1>6, <1>7, <2>1, KeepsKV
<1>10. ASSUME NEW q \in Range(job.built)
       PROVE  IF job.kind = "stack" THEN held' \cap Of(q) = Part(q) ELSE Closed(held' \cap Of(q), q, job')
  <2>1. CASE job.kind # "stack"
    <3>1. q \in Prog /\ Complete(Part(q), q, job.kind)
      BY <1>1, <1>3, <1>10, <2>1 DEF Parts, RoleOk, Closed
    <3>2. held' \cap Of(q) = Part(q) \ (Models(q) \cup {Dir(q)})
      BY <1>5, <1>6, <1>10, <2>1, <3>1
    <3>3. Surfaces(q, job.kind) \cap (Models(q) \cup {Dir(q)}) = {}
      BY Apart
    <3>4. held' \cap Of(q) \subseteq Plan(q) \cup Surfaces(q, job.kind) /\ Surfaces(q, job.kind) \subseteq held' \cap Of(q)
      BY <3>1, <3>2, <3>3 DEF Complete
    <3> QED
      BY <1>8, <2>1, <3>4 DEF Closed, SameJob
  <2> QED
    BY <1>6, <1>10, <2>1
<1> QED
  BY <1>1, <1>2, <1>6, <1>7, <1>9, <1>10, CloseStep

LEMMA CloseKVOk ==
  ASSUME BuildInv, job.op # "none", CloseKV
  PROVE  BuildInv' /\ Tame
<1>1. JobOk /\ job.op \in {"open", "reset", "close"} /\ job.stage = "kv" /\ job.stage \in ClosingStages
  BY DEF BuildInv, Control, Records, JobRecord, CloseKV, JobAt, ClosingStages
<1>2. job.op = "close"
  BY <1>1 DEF JobOk, MakingStages, Compiling, Planning, Planned
<1>3. /\ job \in JobRecord /\ Parts /\ KVOk /\ Closing(job) /\ JobKV = job.kv /\ draft.kv = 0 /\ job.built \in Seq(Prog)
  BY <1>1, <1>2, AtClosing
<1>4. Drops(KV(job.kv)) /\ job' = Go("plan") /\ draft' = draft /\ caller' = caller
      /\ "plan" \in ClosingStages /\ "plan" \in Stage /\ 1 \in Prog
  BY DEF CloseKV, Aside, ClosingStages, Stage, Prog
<1>5. Only(1) /\ (\A p : held' \cap Of(p) = Part(p)) /\ held' \cap AllKV = (held \cap AllKV) \ KV(job.kv)
  BY <1>3, <1>4, DropsKV
<1>6. SameJob /\ job'.stage = "plan" /\ job'.kv = job.kv
  BY <1>3, <1>4, GoIs
<1>7. KVOk'
  <2>1. JobKV' = 0
    BY <1>2, <1>6 DEF JobKV, SameJob
  <2>2. \A s : s # job.kv => KV(s) \cap KV(job.kv) = {}
    BY Disjoint
  <2> QED
    BY <1>3, <1>4, <1>5, <2>1, <2>2 DEF KVOk, KVs
<1>8. ASSUME NEW q \in Range(job.built), job.kind # "stack" PROVE Closed(held' \cap Of(q), q, job')
  <2>1. q \in Prog
    BY <1>3, <1>8, LenProperties DEF Range
  <2>2. Closed(Part(q), q, job)
    BY <1>3, <1>8, <2>1 DEF Parts, RoleOk
  <2> QED
    BY <1>1, <1>5, <1>6, <2>2 DEF Closed, SameJob
<1> QED
  BY <1>1, <1>2, <1>4, <1>5, <1>7, <1>8, CloseStep

LEMMA ClosePlanOk ==
  ASSUME BuildInv, job.op # "none", ClosePlan
  PROVE  BuildInv' /\ Tame
<1>1. JobOk /\ job.op \in {"open", "reset", "close"} /\ job.stage = "plan" /\ job.stage \in ClosingStages
  BY DEF BuildInv, Control, Records, JobRecord, ClosePlan, JobAt, ClosingStages
<1>2. job.op = "close"
  BY <1>1 DEF JobOk, MakingStages, Compiling, Planning, Planned
<1>3. /\ job \in JobRecord /\ Parts /\ KVOk /\ Closing(job) /\ job.built \in Seq(Prog) /\ JobKV = 0
      /\ \A q \in Range(job.built) : q \in Prog
      /\ job.kind # "stack" => Own = Range(job.built)
      /\ job.kind = "stack" => Own = {}
  <2>1. /\ job \in JobRecord /\ Parts /\ KVOk /\ Closing(job) /\ job.built \in Seq(Prog) /\ JobKV = 0
    BY <1>1, <1>2, AtClosing
  <2>2. \A q \in Range(job.built) : q \in Prog
    BY <2>1, LenProperties DEF Range
  <2> QED
    BY <2>1, <2>2 DEF Own
<1> DEFINE Gone == [p \in Prog |-> Plan(p)]
<1>4. Drops(UNION {Gone[p] : p \in Own}) /\ \A p \in Prog : Gone[p] \subseteq Of(p)
  <2>1. \A p \in Own : p \in Prog
    BY <1>3
  <2>2. {Gone[p] : p \in Own} = {Plan(p) : p \in Own}
    BY <2>1
  <2>3. Drops(UNION {Plan(p) : p \in Own})
    BY DEF ClosePlan
  <2>4. \A p \in Prog : Plan(p) \subseteq Of(p)
    BY DEF Of
  <2> QED
    BY <2>2, <2>3, <2>4
<1>5. \A p \in Prog : Gone[p] = Plan(p)
  OBVIOUS
<1> HIDE DEF Gone
<1>6. PICK b \in Prog :
           /\ Only(b) /\ SameKV
           /\ \A q \in Range(job.built) :
                held' \cap Of(q) = IF job.kind = "stack" THEN Part(q) ELSE Part(q) \ Gone[q]
           /\ b \notin Range(job.built) => held' \cap Of(b) = Part(b)
  BY <1>1, <1>2, <1>4, ClosesOwn
<1>7. job' = Go("surfaces") /\ draft' = draft /\ caller' = caller /\ "surfaces" \in ClosingStages /\ "surfaces" \in Stage
  BY DEF ClosePlan, Aside, ClosingStages, Stage
<1>8. SameJob /\ job'.stage = "surfaces" /\ job'.kv = job.kv
  BY <1>3, <1>7, GoIs
<1>9. KVOk'
  <2>1. JobKV' = JobKV
    BY <1>2, <1>3, <1>8 DEF JobKV, SameJob
  <2> QED
    BY <1>3, <1>6, <1>7, <2>1, KeepsKV
<1>10. ASSUME NEW q \in Range(job.built)
       PROVE  IF job.kind = "stack" THEN held' \cap Of(q) = Part(q) ELSE Closed(held' \cap Of(q), q, job')
  <2>1. CASE job.kind # "stack"
    <3>1. q \in Prog /\ Part(q) \subseteq Plan(q) \cup Surfaces(q, job.kind)
      BY <1>1, <1>3, <1>10, <2>1 DEF Parts, RoleOk, Closed
    <3>2. held' \cap Of(q) = Part(q) \ Plan(q)
      BY <1>5, <1>6, <1>10, <2>1, <3>1
    <3>3. held' \cap Of(q) \subseteq Surfaces(q, job.kind)
      BY <3>1, <3>2
    <3>4. ASSUME NEW X, X \subseteq Surfaces(q, job.kind) PROVE Closed(X, q, job')
      BY <1>8, <3>4 DEF Closed, SameJob
    <3> QED
      BY <2>1, <3>3, <3>4
  <2> QED
    BY <1>6, <1>10, <2>1
<1> QED
  BY <1>1, <1>2, <1>6, <1>7, <1>9, <1>10, CloseStep

LEMMA CloseSurfacesOk ==
  ASSUME BuildInv, job.op # "none", CloseSurfaces
  PROVE  BuildInv' /\ Tame
<1>1. JobOk /\ job.op \in {"open", "reset", "close"} /\ job.stage = "surfaces" /\ job.stage \in ClosingStages
  BY DEF BuildInv, Control, Records, JobRecord, CloseSurfaces, JobAt, ClosingStages
<1>2. job.op = "close"
  BY <1>1 DEF JobOk, MakingStages, Compiling, Planning, Planned
<1>3. /\ job \in JobRecord /\ Records /\ Parts /\ KVOk /\ DraftOk /\ CallerOk /\ job.kind \in Kind
      /\ ~Making(job) /\ Closing(job) /\ job.retire = << >> /\ Range(job.retire) = {}
      /\ draft.state = "closed" /\ Range(draft.progs) = {} /\ job.built \in Seq(Prog) /\ JobKV = 0
      /\ \A i, k \in DOMAIN job.built : i # k => job.built[i] # job.built[k]
  BY <1>1, <1>2, AtClosing
<1>4. /\ \A q \in Range(job.built) : q \in Prog
      /\ job.kind # "stack" => Own = Range(job.built)
      /\ job.kind = "stack" => Own = {}
  <2>2. \A q \in Range(job.built) : q \in Prog
    BY <1>3, LenProperties DEF Range
  <2> QED
    BY <2>2 DEF Own
<1> DEFINE Gone == [p \in Prog |-> Surfaces(p, job.kind)]
<1>5. Drops(UNION {Gone[p] : p \in Own}) /\ \A p \in Prog : Gone[p] \subseteq Of(p)
  <2>1. \A p \in Own : p \in Prog
    BY <1>4
  <2>2. {Gone[p] : p \in Own} = {Surfaces(p, job.kind) : p \in Own}
    BY <2>1
  <2>3. Drops(UNION {Surfaces(p, job.kind) : p \in Own})
    BY DEF CloseSurfaces
  <2>4. \A p \in Prog : Surfaces(p, job.kind) \subseteq Of(p)
    BY <1>3 DEF Of
  <2> QED
    BY <2>2, <2>3, <2>4
<1>6. \A p \in Prog : Gone[p] = Surfaces(p, job.kind)
  OBVIOUS
<1> HIDE DEF Gone
<1>7. PICK b \in Prog :
           /\ Only(b) /\ SameKV
           /\ \A q \in Range(job.built) :
                held' \cap Of(q) = IF job.kind = "stack" THEN Part(q) ELSE Part(q) \ Gone[q]
           /\ b \notin Range(job.built) => held' \cap Of(b) = Part(b)
  BY <1>1, <1>2, <1>5, ClosesOwn
<1> DEFINE rest == IF job.kind = "stack" THEN job.built ELSE << >>
<1>8. rest \in Seq(Prog) /\ (\A i, k \in DOMAIN rest : i # k => rest[i] # rest[k])
      /\ Range(rest) = IF job.kind = "stack" THEN Range(job.built) ELSE {}
  <2>1. CASE job.kind = "stack"
    BY <1>3, <2>1
  <2>2. CASE job.kind # "stack"
    <3>1. rest = << >>
      BY <2>2
    <3>2. << >> \in Seq(Prog) /\ DOMAIN << >> = {} /\ Range(<< >>) = {}
      BY NoJobIs
    <3> HIDE DEF rest
    <3> QED
      BY <2>2, <3>1, <3>2
  <2> QED
    BY <2>1, <2>2
<1> HIDE DEF rest
<1>9. /\ job' = [Go("retire") EXCEPT !.retire = rest] /\ draft' = draft /\ caller' = caller
  BY DEF CloseSurfaces, Aside, rest
<1>10. /\ job' \in JobRecord /\ job'.op = "close" /\ job'.stage = "retire" /\ job'.kind = job.kind
       /\ job'.retire = rest /\ job'.built = job.built
  BY <1>2, <1>3, <1>8, <1>9 DEF Go, JobRecord, Stage
<1>11. ~Making(job') /\ ~Closing(job')
  BY <1>10 DEF Making, Closing
<1>12. Control'
  <2>1. job'.kind = "stack" \/ job'.retire = << >>
    BY <1>10 DEF rest
  <2>2. JobOk'
    BY <1>3, <1>8, <1>9, <1>10, <1>11, <2>1 DEF JobOk
  <2> QED
    BY <1>3, <1>9, <2>2 DEF Control, DraftOk, CallerOk
<1>13. Parts'
  <2>1. ASSUME NEW q \in Prog PROVE RoleOk(q)'
    <3>1. RoleOk(q)
      BY <1>3 DEF Parts
    <3>2. CASE q \in Range(job.built) /\ job.kind = "stack"
      <4>1. held' \cap Of(q) = Part(q) /\ Complete(Part(q), q, job.kind)
        BY <1>3, <1>7, <3>1, <3>2 DEF RoleOk
      <4>2. Retiring(Part(q), q, job.kind)
        BY <3>2, <4>1, CompleteRetires
      <4> QED
        BY <1>3, <1>8, <1>9, <1>10, <1>11, <3>2, <4>1, <4>2 DEF RoleOk, InUse, Part
    <3>3. CASE q \in Range(job.built) /\ job.kind # "stack"
      <4>1. Part(q) \subseteq Surfaces(q, job.kind)
        BY <1>1, <1>3, <3>1, <3>3 DEF RoleOk, Closed
      <4>2. held' \cap Of(q) = {}
        BY <1>6, <1>7, <3>3, <4>1
      <4> QED
        BY <1>3, <1>8, <1>9, <1>10, <1>11, <3>3, <4>2 DEF RoleOk, InUse, Part
    <3>4. CASE q \notin Range(job.built)
      <4>1. Part(q) = {}
        BY <1>3, <3>1, <3>4 DEF RoleOk, InUse
      <4>2. held' \cap Of(q) = {}
        BY <1>7, <3>4, <4>1 DEF Only, Part
      <4> QED
        BY <1>3, <1>8, <1>9, <1>10, <1>11, <3>4, <4>2 DEF RoleOk, InUse, Part
    <3> QED
      BY <3>2, <3>3, <3>4
  <2> QED
    BY <1>7, <2>1 DEF Parts, Only
<1>14. KVOk'
  <2>1. JobKV' = 0
    BY <1>10 DEF JobKV
  <2> QED
    BY <1>3, <1>7, <1>9, <2>1, KeepsKV
<1>15. Records'
  BY <1>3, <1>9, <1>10 DEF Records
<1> QED
  BY <1>2, <1>7, <1>9, <1>10, <1>12, <1>13, <1>14, <1>15 DEF BuildInv, Tame, Only

\* Every step of a job keeps the books.
LEMMA WorkOk ==
  ASSUME BuildInv, Work
  PROVE  BuildInv' /\ Tame
<1>1. CASE Allocate
  BY <1>1, AllocateKV, AllocateOk
<1>2. CASE CloseModel \/ CloseKV \/ ClosePlan \/ CloseSurfaces
  <2>1. job.op # "none"
    BY <1>2 DEF CloseModel, CloseKV, ClosePlan, CloseSurfaces, JobAt
  <2> QED
    BY <1>2, <2>1, CloseModelOk, CloseKVOk, ClosePlanOk, CloseSurfacesOk
<1> QED
  BY <1>1, <1>2, MirrorOk, MirrorFailsOk, CompileOk, LoadOk, CompileOrLoadFailsOk, SyncOk, SyncFailsOk,
     ClientLoadOk, ClientLoadFailsOk, AllocateFailsOk, PrepareOk, MapOk, MapFailsOk, AttachEventsOk,
     EventsFailOk, ValidateOk, PlanlessOk, KeepLayerOk, AdoptOk, WriteMaskOk, WriteMaskFailsOk, SwapOk,
     RetirePlanOk, RetireSurfacesOk, RetireModelOk, RetiredOk
  DEF Work

-----------------------------------------------------------------------------
\* The calls that begin, and ConfigureKVState.
LEMMA AtIdle ==
  ASSUME BuildInv, job.op = "none"
  PROVE  /\ job = NoJob /\ ~Making(job) /\ ~Closing(job) /\ Range(job.retire) = {} /\ JobKV = 0
         /\ Records /\ Parts /\ KVOk /\ JobOk /\ DraftOk /\ CallerOk
         /\ \A q \in Prog : IF q \in Range(draft.progs) THEN Complete(Part(q), q, draft.kind) ELSE Part(q) = {}
         /\ InUse = Range(draft.progs)
<1>1. Records /\ Parts /\ KVOk /\ JobOk /\ DraftOk /\ CallerOk
  BY DEF BuildInv, Control
<1>2. job = NoJob
  BY <1>1 DEF JobOk
<1>3. ~Making(job) /\ ~Closing(job) /\ Range(job.retire) = {} /\ JobKV = 0
  BY <1>2, NoJobIs DEF Making, Closing, JobKV
<1>4. InUse = Range(draft.progs)
  BY <1>3 DEF InUse
<1>5. \A q \in Prog : IF q \in Range(draft.progs) THEN Complete(Part(q), q, draft.kind) ELSE Part(q) = {}
  BY <1>1, <1>4 DEF Parts, RoleOk
<1> QED
  BY <1>1, <1>2, <1>3, <1>4, <1>5

LEMMA OpenOk ==
  ASSUME BuildInv, NEW kind \in Kind, NEW layers \in {1, 2}, Open(kind, layers)
  PROVE  BuildInv' /\ job'.op = "open" /\ draft'.state = "none" /\ held' = held /\ caller' = caller
<1>1. /\ job.op = "none" /\ draft.state # "open" /\ caller.stage = "idle" /\ draft' = NoDraft
      /\ held' = held /\ caller' = caller
  BY DEF Open
<1>2. PICK stage \in {"client", "mirror"} :
         /\ stage = "client" <=> kind = "client"
         /\ job' = [NoJob EXCEPT !.op = "open", !.kind = kind, !.layers = layers, !.stage = stage]
  BY DEF Open
<1>3. /\ job = NoJob /\ Records /\ Parts /\ KVOk /\ DraftOk /\ CallerOk /\ InUse = Range(draft.progs) /\ JobKV = 0
      /\ \A q \in Prog : IF q \in Range(draft.progs) THEN Complete(Part(q), q, draft.kind) ELSE Part(q) = {}
  BY <1>1, AtIdle
<1>4. Range(draft.progs) = {} /\ draft.kv = 0 /\ caller.kv = 0
  BY <1>1, <1>3, NoJobIs DEF DraftOk, CallerOk
<1>5. \A q \in Prog : Part(q) = {}
  BY <1>3, <1>4
<1>6. /\ job' \in JobRecord /\ job'.op = "open" /\ job'.kind = kind /\ job'.layers = layers
      /\ job'.stage = stage /\ job'.p = 1 /\ job'.built = << >> /\ job'.retire = << >> /\ job'.kv = 0
      /\ job'.path = "strict" /\ job'.next = 1
  <2>1. stage \in Stage
    BY DEF Stage
  <2> QED
    BY <1>2, <2>1, NoJobIs DEF JobRecord
<1>7. Making(job') /\ ~Closing(job')
  BY <1>6 DEF Making, Closing
<1>8. JobKinds(job')
  BY <1>2, <1>6 DEF JobKinds, BindsKV, Compiling, Planning, Planned
<1>9. Control'
  <2>1. Len(job'.built) < job'.layers
    <3>1. Len(<< >>) = 0 /\ 0 < layers
      OBVIOUS
    <3> QED
      BY <1>6, <3>1
  <2>2. Range(job'.built) = {}
    BY <1>6, NoJobIs
  <2>3. JobOk'
    BY <1>1, <1>6, <1>7, <1>8, <2>1, <2>2 DEF JobOk, MakingStages, Compiling
  <2>4. DraftOk'
    BY <1>1, NoJobIs DEF DraftOk
  <2>5. CallerOk'
    BY <1>1, <1>3 DEF CallerOk
  <2> QED
    BY <2>3, <2>4, <2>5 DEF Control
<1>10. Parts'
  <2>1. Range(draft'.progs) = {} /\ Range(job'.built) = {} /\ Range(job'.retire) = {}
    BY <1>1, <1>6, NoJobIs
  <2>2. Made({}, job')
    BY <1>2, <1>6, MadeNone
  <2>3. ASSUME NEW q \in Prog PROVE RoleOk(q)'
    <3>1. held' \cap Of(q) = {}
      BY <1>1, <1>5 DEF Part
    <3> QED
      BY <1>6, <1>7, <2>1, <2>2, <3>1 DEF RoleOk, InUse, Part
  <2> QED
    BY <1>1, <1>3, <2>3 DEF Parts
<1>11. KVOk'
  <2>1. JobKV' = 0 /\ draft'.kv = 0
    BY <1>1, <1>6, NoJobIs DEF JobKV
  <2> QED
    BY <1>1, <1>3, <1>4, <2>1 DEF KVOk
<1>12. Records'
  BY <1>1, <1>3, <1>6, NoJobIs DEF Records
<1> QED
  BY <1>1, <1>6, <1>9, <1>10, <1>11, <1>12, NoJobIs DEF BuildInv

LEMMA ResetOk ==
  ASSUME BuildInv, ResetModel
  PROVE  BuildInv' /\ job'.op = "reset" /\ draft' = draft /\ held' = held /\ caller' = caller
<1>1. /\ job.op = "none" /\ draft.state = "open" /\ draft.kind = "stateful"
      /\ job' = Building([NoJob EXCEPT !.op = "reset", !.kind = draft.kind])
      /\ held' = held /\ caller' = caller /\ draft' = draft
  BY DEF ResetModel
<1>2. /\ job = NoJob /\ Records /\ Parts /\ KVOk /\ DraftOk /\ CallerOk /\ InUse = Range(draft.progs) /\ JobKV = 0
      /\ \A q \in Prog : IF q \in Range(draft.progs) THEN Complete(Part(q), q, draft.kind) ELSE Part(q) = {}
  BY <1>1, AtIdle
<1>3. Len(draft.progs) = 1 /\ draft.progs \in Seq(Prog)
  BY <1>1, <1>2 DEF DraftOk, Records, DraftRecord
<1>4. Range(draft.progs) = {draft.progs[1]}
  BY <1>3, Single
<1> DEFINE also == Range(draft.progs) \cup Range(<< >>)
           next == Free({"model", "request", "surface"}, Prog, also)
<1>5. next \in Prog /\ next \notin Range(draft.progs) /\ Part(next) = {}
  <2>1. InUse \subseteq also
    BY <1>2
  <2>2. \E p \in Prog : p \notin also
    <3>1. also = {draft.progs[1]}
      BY <1>4, NoJobIs
    <3>2. 1 \in Prog /\ 2 \in Prog
      BY DEF Prog
    <3> QED
      BY <3>1, <3>2
  <2>3. Range(draft.progs) \subseteq also
    OBVIOUS
  <2> HIDE DEF also
  <2> QED
    BY <1>2, <2>1, <2>2, <2>3, FreeProg
<1> DEFINE j == [NoJob EXCEPT !.op = "reset", !.kind = draft.kind]
<1>6. j \in JobRecord /\ j.op = "reset" /\ j.kind = "stateful" /\ j.built = << >> /\ j.retire = << >> /\ j.kv = 0 /\ j.layers = 1
  <2>1. "stateful" \in Kind
    BY DEF Kind
  <2> QED
    BY <1>1, <2>1, NoJobIs DEF JobRecord
<1>7. job' = Building(j)
  BY <1>1
<1> HIDE DEF j
<1>8. job' = [j EXCEPT !.p = next, !.path = "strict", !.next = 1, !.try = 1, !.stage = "mirror"]
  BY <1>6, <1>7 DEF Building
<1> HIDE DEF next
<1>9. /\ job' \in JobRecord /\ job'.op = "reset" /\ job'.kind = "stateful" /\ job'.p = next /\ job'.stage = "mirror"
      /\ job'.path = "strict" /\ job'.next = 1 /\ job'.built = << >> /\ job'.layers = 1
      /\ job'.retire = << >> /\ job'.kv = 0
  BY <1>5, <1>6, <1>8 DEF JobRecord, Stage
<1>10. Making(job') /\ ~Closing(job') /\ JobKinds(job')
  BY <1>9 DEF Making, Closing, JobKinds, BindsKV, Planning, Planned
<1>11. Control'
  <2>1. Len(job'.built) < job'.layers /\ Range(job'.built) = {}
    <3>1. Len(<< >>) = 0 /\ 0 < 1
      OBVIOUS
    <3> QED
      BY <1>9, <3>1, NoJobIs
  <2>2. JobOk'
    BY <1>1, <1>5, <1>9, <1>10, <2>1 DEF JobOk, MakingStages, Compiling
  <2> QED
    BY <1>1, <1>2, <2>2 DEF Control, DraftOk, CallerOk
<1>12. Parts'
  <2>1. Range(job'.built) = {} /\ Range(job'.retire) = {} /\ Made({}, job')
    BY <1>9, NoJobIs, MadeNone
  <2>2. ASSUME NEW q \in Prog PROVE RoleOk(q)'
    <3>1. held' \cap Of(q) = Part(q)
      BY <1>1 DEF Part
    <3>2. CASE q = next
      <4>1. Part(q) = {}
        BY <1>5, <3>2
      <4> QED
        BY <1>1, <1>5, <1>9, <1>10, <2>1, <3>1, <3>2, <4>1 DEF RoleOk, InUse, Part
    <3>3. CASE q # next
      <4>1. IF q \in Range(draft.progs) THEN Complete(Part(q), q, draft.kind) ELSE Part(q) = {}
        BY <1>2
      <4> QED
        BY <1>1, <1>9, <1>10, <2>1, <3>1, <3>3, <4>1 DEF RoleOk, InUse, Part
    <3> QED
      BY <3>2, <3>3
  <2> QED
    BY <1>1, <1>2, <2>2 DEF Parts
<1>13. KVOk'
  <2>1. JobKV' = 0
    BY <1>9 DEF JobKV
  <2> QED
    BY <1>1, <1>2, <2>1 DEF KVOk
<1>14. Records'
  BY <1>1, <1>2, <1>9 DEF Records
<1> QED
  BY <1>1, <1>9, <1>11, <1>12, <1>13, <1>14 DEF BuildInv

LEMMA CloseOk ==
  ASSUME BuildInv, Close
  PROVE  BuildInv' /\ job'.op = "close" /\ draft'.state = "closed" /\ held' = held /\ caller' = caller
<1>1. /\ job.op = "none" /\ draft.state = "open" /\ held' = held /\ caller' = caller
      /\ job' = [NoJob EXCEPT !.op = "close", !.kind = draft.kind, !.built = draft.progs,
                              !.kv = draft.kv, !.stage = "unload"]
      /\ draft' = [draft EXCEPT !.state = "closed", !.progs = << >>, !.kv = 0, !.bound = 0]
  BY DEF Close
<1>2. /\ job = NoJob /\ Records /\ Parts /\ KVOk /\ DraftOk /\ CallerOk /\ InUse = Range(draft.progs) /\ JobKV = 0
      /\ \A q \in Prog : IF q \in Range(draft.progs) THEN Complete(Part(q), q, draft.kind) ELSE Part(q) = {}
  BY <1>1, AtIdle
<1>3. draft \in DraftRecord /\ draft.kind \in Kind /\ draft.progs \in Seq(Prog) /\ draft.kv \in State \cup {0}
  BY <1>2 DEF Records, DraftRecord
<1>4. /\ job' \in JobRecord /\ job'.op = "close" /\ job'.kind = draft.kind /\ job'.built = draft.progs
      /\ job'.kv = draft.kv /\ job'.stage = "unload" /\ job'.retire = << >>
  <2>1. "unload" \in Stage
    BY DEF Stage
  <2> QED
    BY <1>1, <1>3, <2>1, NoJobIs DEF JobRecord
<1>5. /\ draft' \in DraftRecord /\ draft'.state = "closed" /\ draft'.kind = draft.kind
      /\ draft'.progs = << >> /\ draft'.kv = 0 /\ draft'.bound = 0
  <2>1. << >> \in Seq(Prog)
    OBVIOUS
  <2> QED
    BY <1>1, <1>3, <2>1 DEF DraftRecord
<1>6. ~Making(job') /\ Closing(job')
  BY <1>4 DEF Making, Closing
<1>7. Control'
  <2>1. /\ \A i, k \in DOMAIN draft.progs : i # k => draft.progs[i] # draft.progs[k]
        /\ draft.kind # "stack" => Len(draft.progs) = 1
    BY <1>1, <1>2 DEF DraftOk
  <2>2. \A i, k \in DOMAIN job'.retire : i # k => job'.retire[i] # job'.retire[k]
    <3>1. DOMAIN << >> = {}
      OBVIOUS
    <3> QED
      BY <1>4, <3>1
  <2>3. JobOk'
    BY <1>4, <1>5, <1>6, <2>1, <2>2 DEF JobOk, ClosingStages
  <2>4. DraftOk'
    <3>1. DOMAIN << >> = {}
      OBVIOUS
    <3>2. \A i, k \in DOMAIN draft'.progs : i # k => draft'.progs[i] # draft'.progs[k]
      BY <1>5, <3>1
    <3> QED
      BY <1>5, <3>2 DEF DraftOk
  <2>5. CallerOk'
    BY <1>1, <1>2, <1>5 DEF CallerOk
  <2> QED
    BY <2>3, <2>4, <2>5 DEF Control
<1>8. Parts'
  <2>1. Range(draft'.progs) = {} /\ Range(job'.retire) = {} /\ Range(job'.built) = Range(draft.progs)
    BY <1>4, <1>5, NoJobIs
  <2>2. ASSUME NEW q \in Prog PROVE RoleOk(q)'
    <3>1. held' \cap Of(q) = Part(q)
      BY <1>1 DEF Part
    <3>2. IF q \in Range(draft.progs) THEN Complete(Part(q), q, draft.kind) ELSE Part(q) = {}
      BY <1>2
    <3>3. \A X : Closed(X, q, job') <=> Complete(X, q, draft.kind)
      BY <1>4 DEF Closed
    <3> QED
      BY <1>4, <1>6, <2>1, <3>1, <3>2, <3>3 DEF RoleOk, InUse, Part
  <2> QED
    BY <1>1, <1>2, <2>2 DEF Parts
<1>9. KVOk'
  <2>1. JobKV' = draft.kv
    BY <1>4 DEF JobKV
  <2> QED
    BY <1>1, <1>2, <1>5, <2>1 DEF KVOk, KVs
<1>10. Records'
  BY <1>1, <1>2, <1>4, <1>5 DEF Records
<1> QED
  BY <1>1, <1>4, <1>5, <1>7, <1>8, <1>9, <1>10 DEF BuildInv

\* Only the caller moves, and what it allocates or releases is a K/V state.
LEMMA CallerStep ==
  ASSUME BuildInv, job' = job, DraftOk', Records',
         draft'.state = draft.state, draft'.kind = draft.kind, draft'.progs = draft.progs,
         draft' = draft \/ job.op \notin {"open", "reset"},
         (\A p : Only(p)), KVOk', CallerOk', job.op = "open" => caller'.stage = "idle"
  PROVE  BuildInv'
<1>1. Records /\ Parts /\ KVOk /\ JobOk /\ DraftOk /\ CallerOk
  BY DEF BuildInv, Control
<1>2. JobOk'
  <2>1. Making(job') = Making(job) /\ Closing(job') = Closing(job)
    BY DEF Making, Closing
  <2>2. job.op = "open" => draft' = NoDraft
    BY <1>1 DEF JobOk
  <2> QED
    BY <1>1, <2>1, <2>2 DEF JobOk, JobKinds, BindsKV
<1>3. Parts'
  <2>1. \A q : held' \cap Of(q) = Part(q)
    <3>1. ASSUME NEW q PROVE held' \cap Of(q) = held \cap Of(q)
      <4>1. PICK p \in {1, 2} : p # q
        OBVIOUS
      <4> QED
        BY <4>1 DEF Only
    <3> QED
      BY <3>1 DEF Part
  <2>2. ASSUME NEW q \in Prog PROVE RoleOk(q)'
    <3>1. RoleOk(q) /\ held' \cap Of(q) = Part(q)
      BY <1>1, <2>1 DEF Parts
    <3> QED
      BY <3>1 DEF RoleOk, InUse, Part, Making, Closing, Made, Closed
  <2> QED
    BY <2>2 DEF Parts, Only
<1> QED
  BY <1>2, <1>3 DEF BuildInv, Control

LEMMA ConfigureOk ==
  ASSUME BuildInv, ConfigureKV
  PROVE  BuildInv' /\ job' = job /\ draft' = draft /\ held' = held /\ draft.state \in {"open", "closed"}
<1>1. /\ caller.stage = "idle" /\ draft.state \in {"open", "closed"} /\ draft.bound = 0
      /\ caller' = [caller EXCEPT !.stage = "alloc"] /\ held' = held /\ draft' = draft /\ job' = job
  BY DEF ConfigureKV, KVAllowed
<1>2. Records /\ Parts /\ KVOk /\ JobOk /\ DraftOk /\ CallerOk
  BY DEF BuildInv, Control
<1>3. caller' \in CallerRecord /\ caller'.stage = "alloc" /\ caller'.kv = caller.kv
  BY <1>1, <1>2 DEF Records, CallerRecord
<1>4. job.op # "open"
  BY <1>1, <1>2, NoJobIs DEF JobOk
<1>5. Records' /\ CallerOk' /\ DraftOk'
  BY <1>1, <1>2, <1>3 DEF Records, CallerOk, DraftOk
<1>6. KVOk'
  BY <1>1, <1>2, <1>3 DEF KVOk, JobKV
<1>7. \A p : Only(p)
  BY <1>1, <1>2, SameHeld
<1> QED
  BY <1>1, <1>4, <1>5, <1>6, <1>7, CallerStep

LEMMA KVAllocateOk ==
  ASSUME BuildInv, KVAllocate
  PROVE  BuildInv' /\ Tame
<1> DEFINE s == Free({"kv"}, State, {})
<1>1. /\ caller.stage = "alloc" /\ Takes(KV(s)) /\ caller' = [stage |-> "swap", kv |-> s]
      /\ draft' = draft /\ job' = job
  BY DEF KVAllocate
<1>2. Records /\ Parts /\ KVOk /\ JobOk /\ DraftOk /\ CallerOk
  BY DEF BuildInv, Control
<1>3. caller.kv = 0 /\ job.op # "open"
  BY <1>1, <1>2 DEF CallerOk, JobOk
<1>4. s \in State /\ s \notin {draft.kv, JobKV, caller.kv} /\ s # 0
  BY <1>2, <1>3, FreeKV DEF State
<1> HIDE DEF s
<1>5. (\A p : Only(p)) /\ held' \cap AllKV = (held \cap AllKV) \cup KV(s)
  BY <1>1, <1>2, <1>4, TakesKV
<1>6. caller' \in CallerRecord /\ caller'.stage = "swap" /\ caller'.kv = s
  BY <1>1, <1>4 DEF CallerRecord
<1>7. Records' /\ CallerOk' /\ DraftOk'
  BY <1>1, <1>2, <1>4, <1>6 DEF Records, CallerOk, DraftOk
<1>8. KVOk'
  BY <1>1, <1>2, <1>3, <1>4, <1>5, <1>6 DEF KVOk, JobKV, KVs
<1>9. BuildInv'
  BY <1>1, <1>3, <1>5, <1>7, <1>8, CallerStep
<1>10. Modelc \in held' => Modelc \in held
  BY <1>5 DEF Only
<1> QED
  BY <1>1, <1>9, <1>10 DEF Tame

LEMMA KVAllocateFailsOk ==
  ASSUME BuildInv, KVAllocateFails
  PROVE  BuildInv' /\ Tame
<1>1. /\ caller.stage = "alloc" /\ caller' = [caller EXCEPT !.stage = "idle"]
      /\ draft' = draft /\ job' = job /\ held' = held
  BY DEF KVAllocateFails
<1>2. Records /\ Parts /\ KVOk /\ JobOk /\ DraftOk /\ CallerOk
  BY DEF BuildInv, Control
<1>3. caller' \in CallerRecord /\ caller'.stage = "idle" /\ caller'.kv = caller.kv
  BY <1>1, <1>2 DEF Records, CallerRecord
<1>4. Records' /\ CallerOk' /\ DraftOk'
  BY <1>1, <1>2, <1>3 DEF Records, CallerOk, DraftOk
<1>5. KVOk' /\ \A p : Only(p)
  BY <1>1, <1>2, <1>3, SameHeld DEF KVOk, JobKV
<1>6. BuildInv'
  BY <1>1, <1>3, <1>4, <1>5, CallerStep
<1> QED
  BY <1>1, <1>3, <1>6 DEF Tame

LEMMA KVSwapOk ==
  ASSUME BuildInv, KVSwap
  PROVE  BuildInv' /\ Tame
<1>1. /\ caller.stage = "swap" /\ job.op # "reset" /\ caller' = [stage |-> "idle", kv |-> 0] /\ job' = job
  BY DEF KVSwap
<1>2. Records /\ Parts /\ KVOk /\ JobOk /\ DraftOk /\ CallerOk
  BY DEF BuildInv, Control
<1>3. draft.state \in {"open", "closed"} /\ draft.bound = 0 /\ caller.kv # 0 /\ job.op # "open"
  BY <1>1, <1>2 DEF CallerOk, JobOk
<1>4. caller' \in CallerRecord /\ caller'.stage = "idle" /\ caller'.kv = 0 /\ caller.kv \in State \cup {0} /\ draft \in DraftRecord
  BY <1>1, <1>2 DEF CallerRecord, Records
<1>5. \A t, u : t # u => KV(t) \cap KV(u) = {}
  BY Disjoint
<1>6. CASE draft.state = "closed" /\ Drops(KV(caller.kv)) /\ draft' = draft
  <2>1. (\A p : Only(p)) /\ held' \cap AllKV = (held \cap AllKV) \ KV(caller.kv)
    BY <1>2, <1>6, DropsKV
  <2>2. Records' /\ CallerOk' /\ DraftOk'
    BY <1>1, <1>2, <1>4, <1>6 DEF Records, CallerOk, DraftOk
  <2>3. KVOk'
    BY <1>1, <1>2, <1>3, <1>4, <1>5, <1>6, <2>1 DEF KVOk, JobKV, KVs
  <2>4. BuildInv'
    BY <1>1, <1>4, <1>6, <2>1, <2>2, <2>3, CallerStep
  <2>5. Modelc \in held' => Modelc \in held
    BY <2>1 DEF Only
  <2> QED
    BY <1>1, <1>4, <1>6, <2>4, <2>5 DEF Tame
<1>7. CASE draft.state # "closed" /\ Drops(KV(draft.kv)) /\ draft' = [draft EXCEPT !.kv = caller.kv]
  <2>1. (\A p : Only(p)) /\ held' \cap AllKV = (held \cap AllKV) \ KV(draft.kv)
    BY <1>2, <1>7, DropsKV
  <2>2. /\ draft' \in DraftRecord /\ draft'.kv = caller.kv /\ draft'.state = draft.state
        /\ draft'.kind = draft.kind /\ draft'.progs = draft.progs /\ draft'.bound = 0
    BY <1>3, <1>4, <1>7 DEF DraftRecord
  <2>3. draft.state = "open" /\ job.op \notin {"open", "reset", "close"}
    BY <1>1, <1>2, <1>3, <1>7 DEF JobOk
  <2>4. Records' /\ CallerOk' /\ DraftOk'
    BY <1>1, <1>2, <1>4, <2>2, <2>3 DEF Records, CallerOk, DraftOk
  <2>5. KVOk'
    <3>1. JobKV = 0 /\ JobKV' = 0
      BY <1>1, <2>3 DEF JobKV
    <3> QED
      BY <1>2, <1>3, <1>4, <1>5, <2>1, <2>2, <3>1 DEF KVOk, KVs
  <2>6. BuildInv'
    BY <1>1, <1>4, <2>1, <2>2, <2>3, <2>4, <2>5, CallerStep
  <2>7. Modelc \in held' => Modelc \in held
    BY <2>1 DEF Only
  <2> QED
    BY <1>1, <1>4, <2>2, <2>6, <2>7 DEF Tame
<1> QED
  BY <1>6, <1>7 DEF KVSwap

-----------------------------------------------------------------------------
\* The ladder is a sequence of models to build.

\* FlattenSeq's function is there, and each of its values is a sequence.
LEMMA FlattenIs ==
  ASSUME NEW S, NEW ss \in Seq(Seq(S))
  PROVE  FlattenSeq(ss) \in Seq(S)
<1> DEFINE n == Len(ss)
           Is(f, k) == f = [i \in 1..k |-> IF i = 1 THEN ss[i] ELSE f[i - 1] \o ss[i]]
           Less == {xy \in Nat \X Nat : xy[1] < xy[2]}
<1>1. IsWellFoundedOn(Less, Nat)
  BY NatLessThanWellFounded DEF OpToRel
<1>2. n \in Nat /\ \A i \in 1..n : ss[i] \in Seq(S)
  OBVIOUS
<1>3. CASE n = 0
  <2>1. FlattenSeq(ss) = ss /\ ss = << >>
    BY <1>3 DEF FlattenSeq
  <2> QED
    BY <2>1
<1>4. CASE n # 0
  <2>1. \A k \in Nat : \E f : Is(f, k)
    <3> DEFINE T == {k \in Nat : ~\E f : Is(f, k)}
    <3>1. SUFFICES ASSUME T # {} PROVE FALSE
      OBVIOUS
    <3>2. PICK k \in T : \A m \in T : <<m, k>> \notin Less
      <4>1. T \subseteq Nat
        OBVIOUS
      <4> HIDE DEF T, Less
      <4> QED
        BY <1>1, <3>1, <4>1, WFMin
    <3>3. k # 0
      <4>1. Is(<< >>, 0)
        OBVIOUS
      <4> HIDE DEF Is
      <4> QED
        BY <4>1
    <3>4. k \in Nat /\ k - 1 \in Nat /\ k - 1 \notin T
      <4>1. k \in Nat /\ k - 1 \in Nat /\ <<k - 1, k>> \in Less
        BY <3>3
      <4> HIDE DEF T, Less
      <4> QED
        BY <3>2, <4>1
    <3>5. PICK f : Is(f, k - 1)
      BY <3>4
    <3> DEFINE g == [i \in 1..k |-> IF i < k THEN f[i] ELSE IF i = 1 THEN ss[i] ELSE f[i - 1] \o ss[i]]
    <3>6. \A i \in 1..k : g[i] = IF i = 1 THEN ss[i] ELSE g[i - 1] \o ss[i]
      <4>1. ASSUME NEW i \in 1..k, i # 1 PROVE g[i - 1] = f[i - 1]
        BY <3>4, <4>1
      <4>2. ASSUME NEW i \in 1..k, i # k PROVE f[i] = IF i = 1 THEN ss[i] ELSE f[i - 1] \o ss[i]
        <5>1. i \in 1..(k - 1)
          BY <3>4, <4>2
        <5> QED
          BY <3>5, <5>1
      <4> QED
        BY <3>4, <4>1, <4>2
    <3>7. Is(g, k)
      <4>1. g = [i \in 1..k |-> g[i]]
        OBVIOUS
      <4> HIDE DEF g
      <4> QED
        BY <3>6, <4>1
    <3> HIDE DEF Is, g
    <3> QED
      BY <3>2, <3>7
  <2> DEFINE flatten == CHOOSE f : Is(f, n)
  <2>2. Is(flatten, n)
    <3>1. \E f : Is(f, n)
      BY <1>2, <2>1
    <3> HIDE DEF Is, n
    <3> QED
      BY <3>1
  <2>3. FlattenSeq(ss) = flatten[n]
    BY <1>4 DEF FlattenSeq
  <2> HIDE DEF flatten
  <2>4. \A i \in 1..n : flatten[i] = IF i = 1 THEN ss[i] ELSE flatten[i - 1] \o ss[i]
    BY <2>2
  <2>5. \A i \in 1..n : flatten[i] \in Seq(S)
    <3> DEFINE T == {i \in 1..n : flatten[i] \notin Seq(S)}
    <3>1. SUFFICES ASSUME T # {} PROVE FALSE
      OBVIOUS
    <3>2. PICK k \in T : \A m \in T : <<m, k>> \notin Less
      <4>1. T \subseteq Nat
        OBVIOUS
      <4> HIDE DEF T, Less
      <4> QED
        BY <1>1, <3>1, <4>1, WFMin
    <3>3. k \in 1..n /\ flatten[k] \notin Seq(S)
      BY <3>2
    <3>4. k # 1
      BY <1>2, <2>4, <3>3
    <3>5. k - 1 \in 1..n /\ k - 1 \notin T
      <4>1. k - 1 \in 1..n /\ <<k - 1, k>> \in Less
        BY <1>2, <3>3, <3>4
      <4> HIDE DEF T, Less
      <4> QED
        BY <3>2, <4>1
    <3>6. flatten[k - 1] \in Seq(S) /\ ss[k] \in Seq(S)
      BY <1>2, <3>3, <3>5
    <3>7. flatten[k] = flatten[k - 1] \o ss[k]
      BY <2>4, <3>3, <3>4
    <3>8. flatten[k - 1] \o ss[k] \in Seq(S)
      BY <3>6
    <3> QED
      BY <3>3, <3>7, <3>8
  <2> QED
    BY <1>2, <1>4, <2>3, <2>5
<1> QED
  BY <1>3, <1>4

LEMMA EnvIs ==
  ASSUME env \in Envs
  PROVE  /\ env \in Env /\ env.modelc \in {"auto", "path", "bare"} /\ env.output \in Mode \cup {"auto"}
         /\ env.strategy \in Strategy \cup {"auto", "?"} /\ env.layers \in {1, 2}
BY StartAssumption DEF Env

LEMMA NumLayersIs ==
  ASSUME env \in Envs, NEW strategy
  PROVE  NumLayers(strategy) \in {1, 2}
BY EnvIs DEF NumLayers

LEMMA GenerateIs ==
  ASSUME env \in Envs, NEW strategy \in Strategy, strategy \notin {"reference-only", "ffn"},
         NEW mode \in Mode, NEW taps \in BOOLEAN
  PROVE  Generate(strategy, mode, taps) \in Seq(Rungs)
<1> DEFINE n == NumLayers(strategy)
           Of1(build, out) == [strategy |-> strategy, build |-> build, out |-> out, layers |-> n, taps |-> taps]
           T == <<Of1("transformer", mode)>>
           attention == <<Of1("attention", "last_attn_residual")>>
           Only1(cond, rungs) == IF cond THEN rungs ELSE << >>
           direct == <<Of1("modelir", mode)>> \o [i \in 1..Profiles |-> Of1("profile", mode)]
           fallbacks ==
             CASE mode = "lm_head" -> Only1(On("lmHead"), T \o Only1(~taps, T))
               [] mode = "final_hidden" -> T \o T \o T \o <<Of1("stack", mode)>>
               [] mode = "last_ffn_residual" -> T \o T
               [] mode = "last_attn_residual" -> T \o Only1(On("force") \/ On("tryAttn"), attention)
<1>1. n \in {1, 2}
  BY NumLayersIs
<1>2. Generate(strategy, mode, taps) =
        Only1(On("lowerable") /\ ~taps /\ mode \in {"lm_head", "final_hidden"}, direct)
          \o Only1(On("extract"),
                   Only1(On("force"), attention)
                     \o Only1(mode = "last_attn_residual" /\ n = 1 /\ On("gate") /\ ~taps, T)
                     \o fallbacks)
  BY DEF Generate
<1> HIDE DEF n
<1>3. \A b \in {"transformer", "attention", "modelir", "profile", "stack"}, o \in Mode : Of1(b, o) \in Rungs
  BY <1>1 DEF Rungs, RungRecord, Build, Out
<1> HIDE DEF Of1
<1>4. "last_attn_residual" \in Mode /\ << >> \in Seq(Rungs)
  BY DEF Mode
<1>5. T \in Seq(Rungs) /\ attention \in Seq(Rungs) /\ <<Of1("stack", mode)>> \in Seq(Rungs) /\ <<Of1("modelir", mode)>> \in Seq(Rungs)
  BY <1>3, <1>4
<1>6. [i \in 1..Profiles |-> Of1("profile", mode)] \in Seq(Rungs)
  BY <1>3, StartAssumption
<1>7. \A s, t \in Seq(Rungs) : s \o t \in Seq(Rungs)
  OBVIOUS
<1>8. direct \in Seq(Rungs)
  BY <1>5, <1>6, <1>7
<1> HIDE DEF T, attention, direct
<1>9. \A cond : \A s \in Seq(Rungs) : Only1(cond, s) \in Seq(Rungs)
  BY <1>4
<1> HIDE DEF Only1
<1>10. fallbacks \in Seq(Rungs)
  <2>1. CASE mode = "lm_head"
    <3>1. T \o Only1(~taps, T) \in Seq(Rungs)
      BY <1>5, <1>7, <1>9
    <3> QED
      BY <1>9, <2>1, <3>1
  <2>2. CASE mode = "final_hidden"
    BY <1>5, <1>7, <2>2
  <2>3. CASE mode = "last_ffn_residual"
    BY <1>5, <1>7, <2>3
  <2>4. CASE mode = "last_attn_residual"
    <3>1. Only1(On("force") \/ On("tryAttn"), attention) \in Seq(Rungs)
      BY <1>5, <1>9
    <3> QED
      BY <1>5, <1>7, <2>4, <3>1
  <2> QED
    BY <2>1, <2>2, <2>3, <2>4 DEF Mode
<1> HIDE DEF fallbacks
<1>11. /\ Only1(On("lowerable") /\ ~taps /\ mode \in {"lm_head", "final_hidden"}, direct) \in Seq(Rungs)
       /\ Only1(On("force"), attention) \in Seq(Rungs)
       /\ Only1(mode = "last_attn_residual" /\ n = 1 /\ On("gate") /\ ~taps, T) \in Seq(Rungs)
  BY <1>5, <1>8, <1>9
<1>12. Only1(On("force"), attention)
         \o Only1(mode = "last_attn_residual" /\ n = 1 /\ On("gate") /\ ~taps, T)
         \o fallbacks \in Seq(Rungs)
  BY <1>7, <1>10, <1>11
<1> QED
  BY <1>2, <1>7, <1>9, <1>11, <1>12

LEMMA TriedIs ==
  ASSUME env \in Envs, env.strategy # "?", NEW taps \in BOOLEAN
  PROVE  Tried(taps) \in Seq(Rungs)
<1> DEFINE Modes(strategy) == DraftOutputModeCandidates(strategy)
           Outputs(strategy) == [i \in 1..Len(Modes(strategy)) |-> Generate(strategy, Modes(strategy)[i], taps)]
           Models1(strategy) ==
             CASE strategy = "reference-only" -> <<Reference>>
               [] strategy = "ffn" -> <<FFN>>
               [] OTHER -> FlattenSeq(Outputs(strategy))
<1>1. Tried(taps) = FlattenSeq([i \in 1..Len(Strategies) |-> Models1(Strategies[i])])
  BY DEF Tried
<1>2. <<Reference>> \in Seq(Rungs) /\ <<FFN>> \in Seq(Rungs)
  <2>1. Reference \in Rungs /\ FFN \in Rungs
    BY DEF Reference, FFN, NoRung, Rungs, RungRecord, Build, Out, Strategy
  <2> QED
    BY <2>1
<1>3. Strategies \in Seq(Strategy)
  <2>1. {"full", "partial4", "partial2", "partial1", "reference-only", "ffn"} \subseteq Strategy
    BY DEF Strategy
  <2>2. env.strategy = "auto" \/ env.strategy \in Strategy
    BY EnvIs
  <2> QED
    BY <2>1, <2>2 DEF Strategies, AutoDraftStrategies
<1>4. ASSUME NEW strategy \in Strategy PROVE Models1(strategy) \in Seq(Rungs)
  <2>1. CASE strategy \in {"reference-only", "ffn"}
    BY <1>2, <2>1
  <2>2. CASE strategy \notin {"reference-only", "ffn"}
    <3>1. Modes(strategy) \in Seq(Mode)
      <4>1. env.output = "auto" \/ env.output \in Mode
        BY EnvIs
      <4>2. {"lm_head", "final_hidden", "last_ffn_residual", "last_attn_residual"} \subseteq Mode
        BY DEF Mode
      <4> QED
        BY <4>1, <4>2 DEF DraftOutputModeCandidates
    <3> HIDE DEF Modes
    <3>2. \A i \in 1..Len(Modes(strategy)) : Generate(strategy, Modes(strategy)[i], taps) \in Seq(Rungs)
      <4>1. \A i \in 1..Len(Modes(strategy)) : Modes(strategy)[i] \in Mode
        BY <3>1
      <4> QED
        BY <2>2, <4>1, GenerateIs
    <3>3. Outputs(strategy) \in Seq(Seq(Rungs))
      <4>1. Len(Modes(strategy)) \in Nat
        BY <3>1
      <4> QED
        BY <3>2, <4>1
    <3> HIDE DEF Outputs
    <3>4. FlattenSeq(Outputs(strategy)) \in Seq(Rungs)
      BY <3>3, FlattenIs
    <3> QED
      BY <2>2, <3>4
  <2> QED
    BY <2>1, <2>2
<1> HIDE DEF Models1
<1> DEFINE all == [i \in 1..Len(Strategies) |-> Models1(Strategies[i])]
<1>5. all \in Seq(Seq(Rungs))
  <2>1. Len(Strategies) \in Nat /\ \A i \in 1..Len(Strategies) : Strategies[i] \in Strategy
    BY <1>3
  <2> QED
    BY <1>4, <2>1
<1> HIDE DEF all
<1>6. FlattenSeq(all) \in Seq(Rungs)
  BY <1>5, FlattenIs
<1> QED
  BY <1>1, <1>6 DEF all

\* The ladder ends with the FFN, which can be prepared whatever the model is.
LEMMA LadderIs ==
  ASSUME env \in Envs, env.strategy # "?"
  PROVE  /\ Ladder \in Seq(Rungs) /\ Len(Ladder) \in Nat \ {0}
         /\ Ladder[Len(Ladder)].build = "ffn"
         /\ \A i \in 1..Len(Ladder) : Ladder[i] \in Rungs
<1> DEFINE first == Tried(On("taps"))
           again == IF On("taps") THEN Tried(FALSE) ELSE << >>
<1>1. first \in Seq(Rungs)
  <2>1. On("taps") \in BOOLEAN
    BY DEF On
  <2> DEFINE taps == On("taps")
  <2>2. taps \in BOOLEAN
    BY <2>1
  <2>3. first = Tried(taps)
    OBVIOUS
  <2> HIDE DEF taps, first
  <2> QED
    BY <2>2, <2>3, TriedIs
<1>2. again \in Seq(Rungs)
  <2>1. Tried(FALSE) \in Seq(Rungs)
    BY TriedIs
  <2>2. << >> \in Seq(Rungs)
    OBVIOUS
  <2> HIDE DEF first
  <2> QED
    BY <2>1, <2>2, Zenon
<1>3. FFN \in Rungs /\ FFN.build = "ffn"
  BY DEF FFN, NoRung, Rungs, RungRecord, Build, Out, Strategy
<1>4. Ladder = first \o again \o <<FFN>>
  BY DEF Ladder
<1> HIDE DEF first, again
<1>5. first \o again \in Seq(Rungs) /\ <<FFN>> \in Seq(Rungs) /\ Len(<<FFN>>) = 1 /\ <<FFN>>[1] = FFN
  BY <1>1, <1>2, <1>3
<1> DEFINE most == first \o again
<1>6. Ladder = most \o <<FFN>> /\ most \in Seq(Rungs)
  BY <1>4, <1>5
<1> HIDE DEF most
<1>7. Ladder \in Seq(Rungs) /\ Len(Ladder) = Len(most) + 1 /\ Ladder[Len(most) + 1] = FFN
  BY <1>3, <1>5, <1>6
<1>8. Len(most) \in Nat
  BY <1>6
<1> QED
  BY <1>3, <1>7, <1>8

LEMMA SameLadder ==
  ASSUME env' = env
  PROVE  Ladder' = Ladder /\ \A flag : On(flag)' = On(flag)
<1>1. \A flag : On(flag)' = On(flag)
  BY DEF On
<1>2. \A s : DraftOutputModeCandidates(s)' = DraftOutputModeCandidates(s)
  BY <1>1 DEF DraftOutputModeCandidates, On
<1>3. \A s : NumLayers(s)' = NumLayers(s)
  BY DEF NumLayers
<1>4. \A s, m, t : Generate(s, m, t)' = Generate(s, m, t)
  BY <1>1, <1>3 DEF Generate, On, NumLayers
<1>5. Strategies' = Strategies
  BY <1>1 DEF Strategies, On
<1>6. \A t : Tried(t)' = Tried(t)
  BY <1>2, <1>4, <1>5 DEF Tried
<1> QED
  BY <1>1, <1>6 DEF Ladder, On

-----------------------------------------------------------------------------
\* The modelc comes and goes by itself.
LEMMA ModelcStep ==
  ASSUME BuildInv, UNCHANGED <<draft, job, caller>>, held' \cup {Modelc} = held \cup {Modelc}
  PROVE  BuildInv'
<1>1. Records /\ Parts /\ KVOk /\ JobOk /\ DraftOk /\ CallerOk
  BY DEF BuildInv, Control
<1>2. (\A q \in Prog : Modelc \notin Of(q)) /\ Modelc \notin AllKV
  BY Disjoint
<1>3. ASSUME NEW q \in Prog PROVE RoleOk(q)'
  <2>1. held' \cap Of(q) = held \cap Of(q)
    BY <1>2
  <2> QED
    BY <1>1, <2>1 DEF Parts, RoleOk, InUse, Part, Making, Closing, Made, Closed
<1>4. Parts'
  BY <1>1, <1>3 DEF Parts
<1>5. held' \cap AllKV = held \cap AllKV
  BY <1>2
<1>6. KVOk'
  BY <1>1, <1>5 DEF KVOk, JobKV
<1>7. Records' /\ JobOk' /\ DraftOk' /\ CallerOk'
  BY <1>1 DEF Records, JobOk, DraftOk, CallerOk, Making, Closing, JobKinds, BindsKV
<1> QED
  BY <1>4, <1>6, <1>7 DEF BuildInv, Control

LEMMA SameBuild ==
  ASSUME BuildInv, UNCHANGED buildVars
  PROVE  BuildInv'
<1>1. UNCHANGED <<draft, job, caller>> /\ held' \cup {Modelc} = held \cup {Modelc}
  BY DEF buildVars
<1> QED
  BY <1>1, ModelcStep

\* The steps of a job, and of a caller, leave the start as it is.
LEMMA WorkKeepsStart ==
  ASSUME StartOk, Tame, UNCHANGED <<env, start>>
  PROVE  StartOk'
<1>1. Ladder' = Ladder /\ On("keep")' = On("keep")
  BY SameLadder
<1>2. Rung' = Rung
  BY <1>1 DEF Rung
<1> QED
  BY <1>1, <1>2 DEF StartOk, Tame, Drafting

-----------------------------------------------------------------------------
\* What the invariant gives.
LEMMA WholeIs ==
  ASSUME BuildInv
  PROVE  OpenIsWhole
<1>1. Parts /\ KVOk /\ DraftOk /\ draft \in DraftRecord
  BY DEF BuildInv, Control, Records
<1>2. ASSUME draft.state = "open", NEW p \in Range(draft.progs) PROVE Whole(p, draft.kind)
  <2>1. draft.progs \in Seq(Prog)
    BY <1>1 DEF DraftRecord
  <2>2. p \in Prog
    BY <1>2, <2>1 DEF Range
  <2>3. Complete(Part(p), p, draft.kind)
    BY <1>1, <1>2, <2>2 DEF Parts, RoleOk
  <2>4. Models(p) = {Memory(p), Client(p)} /\ Models(p) \subseteq Of(p)
    BY Apart DEF Of
  <2>5. Models(p) \cap held = {Memory(p)} \/ Models(p) \cap held = {Client(p)}
    BY <2>3, <2>4 DEF Complete, Part
  <2>6. Cardinality(Models(p) \cap held) = 1
    BY <2>5, FS_Singleton
  <2> QED
    BY <2>3, <2>6 DEF Complete, Whole, Part
<1>3. ASSUME draft.kv # 0 PROVE KV(draft.kv) \subseteq held
  BY <1>1, <1>3 DEF KVOk, KVs
<1> QED
  BY <1>1, <1>2, <1>3 DEF OpenIsWhole, DraftOk

LEMMA NotOrphaned ==
  ASSUME BuildInv, job.op = "none", caller.stage = "idle"
  PROVE  held \subseteq {Modelc} \cup (IF draft.state = "open" THEN Owned ELSE {})
<1>1. /\ job = NoJob /\ JobKV = 0 /\ Records /\ Parts /\ KVOk /\ DraftOk /\ CallerOk
      /\ \A q \in Prog : IF q \in Range(draft.progs) THEN Complete(Part(q), q, draft.kind) ELSE Part(q) = {}
  BY AtIdle
<1>2. caller.kv = 0 /\ held \cap AllKV = KVs(draft.kv)
  <2>1. caller.kv = 0
    BY <1>1 DEF CallerOk
  <2> QED
    BY <1>1, <2>1 DEF KVOk, KVs
<1>3. draft.state # "open" => draft.kv = 0 /\ Range(draft.progs) = {}
  BY <1>1, NoJobIs DEF DraftOk
<1>4. SUFFICES ASSUME NEW r \in held, r # Modelc
               PROVE  draft.state = "open" /\ r \in Owned
  OBVIOUS
<1>5. CASE r \in AllKV
  BY <1>2, <1>3, <1>4, <1>5 DEF KVs, Owned
<1>6. CASE \E q \in Prog : r \in Of(q)
  <2>1. PICK q \in Prog : r \in Of(q)
    BY <1>6
  <2>2. r \in Part(q)
    BY <1>4, <2>1 DEF Part
  <2>3. q \in Range(draft.progs) /\ Complete(Part(q), q, draft.kind)
    BY <1>1, <2>2
  <2>4. r \in Models(q) \cup Plan(q) \cup Surfaces(q, draft.kind) \cup {Dir(q)}
    BY <2>2, <2>3 DEF Complete
  <2> QED
    BY <1>3, <2>3, <2>4 DEF Owned
<1> QED
  BY <1>1, <1>4, <1>5, <1>6 DEF Parts

LEMMA NothingIsOrphaned ==
  ASSUME BuildInv
  PROVE  NothingOrphaned
<1>1. Modelc[2] = 0
  BY DEF Modelc, Dir
<1> QED
  BY <1>1, NotOrphaned DEF NothingOrphaned

LEMMA RequestsAreBacked ==
  ASSUME BuildInv
  PROVE  RequestsBacked
<1>1. Records /\ Parts /\ KVOk /\ JobOk /\ DraftOk /\ CallerOk
  BY DEF BuildInv, Control
<1> SUFFICES ASSUME NEW p \in Prog, Request(p) \in held
             PROVE  /\ Models(p) \cap held # {} \/ (job.op = "close" /\ p \in Own)
                    /\ LET kind == IF job.op # "none" THEN job.kind ELSE draft.kind
                       IN Surfaces(p, kind) \subseteq held
  BY DEF RequestsBacked
<1>2. /\ RoleOk(p) /\ Request(p) \in Part(p) /\ Part(p) \subseteq held
      /\ Models(p) = {Memory(p), Client(p)} /\ Models(p) \cap Plan(p) = {} /\ Request(p) \in Plan(p)
      /\ \A kind : Request(p) \notin Surfaces(p, kind)
  BY <1>1, Apart DEF Parts, Part, Of
<1>3. p \in InUse
  BY <1>2 DEF RoleOk
<1>4. ASSUME NEW kind, Complete(Part(p), p, kind)
      PROVE  Models(p) \cap held # {} /\ Surfaces(p, kind) \subseteq held
  BY <1>2, <1>4 DEF Complete
<1>5. CASE p \in Range(draft.progs)
  <2>1. draft.state = "open"
    BY <1>1, <1>5, NoJobIs DEF DraftOk
  <2>2. job.op = "none" \/ (job.op = "reset" /\ job.kind = draft.kind)
    BY <1>1, <2>1, NoJobIs DEF JobOk, Records, JobRecord
  <2>3. Complete(Part(p), p, draft.kind)
    BY <1>2, <1>5 DEF RoleOk
  <2> QED
    BY <1>4, <2>2, <2>3
<1>6. CASE Making(job) /\ p = job.p
  <2>1. Made(Part(p), job) /\ job.op # "none"
    BY <1>2, <1>6 DEF RoleOk, Making
  <2>2. job.stage \in {"events", "validate", "planned", "mask"}
    BY <1>2, <1>6, <2>1 DEF Made, RequestIn
  <2>3. MemoryIn(job) /\ SurfacesIn(job) = Surfaces(p, job.kind)
    BY <1>6, <2>2 DEF MemoryIn, SurfacesIn, Planning, Planned
  <2> QED
    BY <1>2, <1>6, <2>1, <2>3 DEF Made
<1>7. CASE Making(job) /\ p \in Range(job.built)
  <2>1. Complete(Part(p), p, job.kind) /\ job.op # "none"
    BY <1>2, <1>7 DEF RoleOk, Making
  <2> QED
    BY <1>4, <2>1
<1>8. CASE p \in Range(job.retire)
  <2>1. job.op # "none"
    BY <1>1, <1>8, NoJobIs DEF JobOk
  <2>2. CASE p = Head(job.retire)
    BY <1>2, <1>8, <2>1, <2>2 DEF RoleOk, Retiring
  <2>3. CASE p # Head(job.retire)
    BY <1>2, <1>4, <1>8, <2>1, <2>3 DEF RoleOk
  <2> QED
    BY <2>2, <2>3
<1>9. CASE Closing(job) /\ p \in Range(job.built)
  <2>1. job.op = "close"
    BY <1>9 DEF Closing
  <2>2. CASE job.kind = "stack"
    BY <1>2, <1>4, <1>9, <2>1, <2>2 DEF RoleOk
  <2>3. CASE job.kind # "stack"
    <3>1. Closed(Part(p), p, job) /\ p \in Own
      BY <1>2, <1>9, <2>3 DEF RoleOk, Own
    <3>2. Surfaces(p, job.kind) \subseteq held
      BY <1>2, <1>4, <3>1 DEF Closed
    <3> QED
      BY <2>1, <3>1, <3>2
  <2> QED
    BY <2>2, <2>3
<1> QED
  BY <1>3, <1>5, <1>6, <1>7, <1>8, <1>9 DEF InUse

-----------------------------------------------------------------------------
\* The steps of NewANEDrafter.
LEMMA RungIs ==
  ASSUME StartOk, start.stage \in {"try", "building", "tables", "kv", "untabled"}
  PROVE  /\ Rung \in Rungs /\ Rung \in RungRecord /\ start.rung \in 1..Len(Ladder)
         /\ Rung.build \notin {"reference", "ffn"} =>
              start.rung + 1 \in 1..Len(Ladder) /\ Rung.strategy # "reference-only"
<1>1. env \in Envs /\ env.strategy # "?" /\ start.rung \in 1..Len(Ladder)
  BY DEF StartOk
<1>2. /\ Len(Ladder) \in Nat \ {0} /\ Ladder[Len(Ladder)].build = "ffn"
      /\ Rung \in Rungs
  BY <1>1, LadderIs DEF Rung
<1>3. Rung \in RungRecord /\ (Rung.strategy = "reference-only" <=> Rung.build = "reference")
  BY <1>2 DEF Rungs
<1>4. Rung.build # "ffn" => start.rung # Len(Ladder)
  BY <1>2 DEF Rung
<1>5. start.rung # Len(Ladder) => start.rung + 1 \in 1..Len(Ladder)
  <2> DEFINE n == Len(Ladder)
             i == start.rung
  <2>1. n \in Nat /\ i \in 1..n
    BY <1>1, <1>2
  <2> HIDE DEF n, i
  <2>2. i # n => i + 1 \in 1..n
    BY <2>1
  <2> QED
    BY <2>2 DEF n, i
<1> QED
  BY <1>1, <1>2, <1>3, <1>4, <1>5

LEMMA SameRung ==
  ASSUME env' = env
  PROVE  /\ Ladder' = Ladder /\ \A flag : On(flag)' = On(flag)
         /\ start'.rung = start.rung => Rung' = Rung
BY SameLadder DEF Rung

LEMMA PrepareExternalOk ==
  ASSUME DraftInv, PrepareExternal
  PROVE  DraftInv'
<1>1. /\ start.stage = "prepare" /\ job.op = "none" /\ env' = env /\ UNCHANGED buildVars
      /\ start' = [start EXCEPT !.stage = "prepared", !.path = TRUE,
                                !.prep = [NoRung EXCEPT !.out = "external_modelc"]]
  BY DEF PrepareExternal, AtStart
<1>2. BuildInv' /\ held' = held /\ draft' = draft /\ job' = job /\ caller' = caller
  BY <1>1, SameBuild DEF DraftInv, buildVars
<1>3. [NoRung EXCEPT !.out = "external_modelc"] \in RungRecord
  BY DEF NoRung, RungRecord, Strategy, Build, Out
<1>4. StartOk
  BY DEF DraftInv
<1>5. /\ start' \in StartRecord /\ start'.stage = "prepared"
  BY <1>1, <1>3, <1>4 DEF StartOk, StartRecord
<1>6. StartOk'
  BY <1>1, <1>2, <1>4, <1>5 DEF StartOk, Drafting
<1> QED
  BY <1>2, <1>6 DEF DraftInv

LEMMA PrepareAutoOk ==
  ASSUME DraftInv, PrepareAuto
  PROVE  DraftInv'
<1>1. /\ start.stage = "prepare" /\ job.op = "none" /\ env' = env /\ UNCHANGED buildVars
      /\ start' = [start EXCEPT !.stage = IF env.strategy = "?" THEN "refused" ELSE "try"]
  BY DEF PrepareAuto, AtStart, Now
<1>2. BuildInv' /\ held' = held /\ draft' = draft /\ job' = job /\ caller' = caller
  BY <1>1, SameBuild DEF DraftInv, buildVars
<1>3. StartOk /\ env \in Envs
  BY DEF DraftInv, StartOk
<1>4. /\ start' \in StartRecord /\ start'.rung = 1
      /\ start'.stage = IF env.strategy = "?" THEN "refused" ELSE "try"
  BY <1>1, <1>3 DEF StartOk, StartRecord
<1>5. env.strategy # "?" => 1 \in 1..Len(Ladder)
  <2>1. env.strategy # "?" => Len(Ladder) \in Nat \ {0}
    BY <1>3, LadderIs
  <2>2. \A n \in Nat \ {0} : 1 \in 1..n
    OBVIOUS
  <2> QED
    BY <2>1, <2>2
<1>6. StartOk'
  BY <1>1, <1>2, <1>3, <1>4, <1>5, SameRung DEF StartOk, Drafting
<1> QED
  BY <1>2, <1>6 DEF DraftInv

LEMMA SettleOk ==
  ASSUME DraftInv, Settle
  PROVE  DraftInv'
<1>1. /\ start.stage = "try" /\ job.op = "none" /\ env' = env /\ UNCHANGED buildVars
      /\ start' = [start EXCEPT !.stage = "prepared", !.prep = Rung]
  BY DEF Settle, AtStart, Prepared
<1>2. BuildInv' /\ held' = held /\ draft' = draft /\ job' = job /\ caller' = caller
  BY <1>1, SameBuild DEF DraftInv, buildVars
<1>3. StartOk
  BY DEF DraftInv
<1>4. Rung \in RungRecord
  BY <1>1, <1>3, RungIs
<1>5. start' \in StartRecord /\ start'.stage = "prepared"
  BY <1>1, <1>3, <1>4 DEF StartOk, StartRecord
<1>6. StartOk'
  BY <1>1, <1>2, <1>3, <1>5 DEF StartOk, Drafting
<1> QED
  BY <1>2, <1>6 DEF DraftInv

\* The next rung is tried, with nothing built yet.
LEMMA NextRungOk ==
  ASSUME DraftInv, start.stage \in {"try", "building", "untabled"}, job.op = "none", env' = env,
         Rung.build \notin {"reference", "ffn"}, draft.state # "open",
         UNCHANGED buildVars, NextRung
  PROVE  DraftInv'
<1>1. start' = [start EXCEPT !.stage = "try", !.rung = start.rung + 1]
  BY DEF NextRung
<1>2. BuildInv' /\ held' = held /\ draft' = draft /\ job' = job /\ caller' = caller
  BY <1>1, SameBuild DEF DraftInv, buildVars
<1>3. StartOk
  BY DEF DraftInv
<1>4. start.rung + 1 \in 1..Len(Ladder)
  BY <1>3, RungIs
<1>5. start' \in StartRecord /\ start'.stage = "try" /\ start'.rung = start.rung + 1
  <2>1. start \in StartRecord
    BY <1>3 DEF StartOk
  <2> DEFINE next == start.rung + 1
  <2>2. next \in Nat /\ start' = [start EXCEPT !.stage = "try", !.rung = next]
    BY <1>1, <2>1 DEF StartRecord
  <2> HIDE DEF next
  <2>3. start' \in StartRecord /\ start'.stage = "try" /\ start'.rung = next
    BY <2>1, <2>2 DEF StartRecord
  <2> QED
    BY <2>3 DEF next
<1>6. StartOk'
  BY <1>2, <1>3, <1>4, <1>5, SameRung DEF StartOk, Drafting
<1> QED
  BY <1>2, <1>6 DEF DraftInv

LEMMA FallsBack ==
  ASSUME DraftInv, Skip \/ TryFails \/ Untabled
  PROVE  DraftInv'
<1>1. CASE Skip
  BY <1>1, NextRungOk DEF Skip, AtStart, DraftInv, StartOk
<1>2. CASE TryFails
  BY <1>2, NextRungOk DEF TryFails, AtStart, DraftInv, StartOk
<1>3. CASE Untabled
  BY <1>3, NextRungOk DEF Untabled, AtStart, DraftInv, StartOk
<1> QED
  BY <1>1, <1>2, <1>3

LEMMA TryOk ==
  ASSUME DraftInv, Try
  PROVE  DraftInv'
<1> DEFINE kind == CASE Rung.build \in {"modelir", "profile"} -> "stateful"
                     [] Rung.build = "transformer" -> IF On("rope") THEN "rope" ELSE "plain"
                     [] OTHER -> Rung.build
           layers == Rung.layers
<1>1. /\ start.stage = "try" /\ job.op = "none" /\ Rung.build \notin {"reference", "ffn"}
      /\ Open(kind, layers) /\ start' = [start EXCEPT !.stage = "building"] /\ env' = env
  BY DEF Try, AtStart, Now
<1>2. StartOk /\ BuildInv
  BY DEF DraftInv
<1>3. Rung \in Rungs
  BY <1>1, <1>2, RungIs
<1>4. kind \in Kind /\ layers \in {1, 2}
  BY <1>1, <1>3 DEF Rungs, RungRecord, Build, Kind
<1> HIDE DEF kind, layers
<1>5. BuildInv' /\ job'.op = "open" /\ draft'.state = "none" /\ held' = held /\ caller' = caller
  BY <1>1, <1>2, <1>4, OpenOk
<1>6. start' \in StartRecord /\ start'.stage = "building" /\ start'.rung = start.rung
  BY <1>1, <1>2 DEF StartOk, StartRecord
<1>7. StartOk'
  BY <1>1, <1>2, <1>5, <1>6, SameRung DEF StartOk, Drafting
<1> QED
  BY <1>5, <1>7 DEF DraftInv

LEMMA TryBuildsOk ==
  ASSUME DraftInv, TryBuilds
  PROVE  DraftInv'
<1>1. /\ start.stage = "building" /\ job.op = "none" /\ draft.state = "open" /\ env' = env
      /\ UNCHANGED buildVars /\ start' = [start EXCEPT !.stage = "tables"]
  BY DEF TryBuilds, AtStart, Now
<1>2. BuildInv' /\ held' = held /\ draft' = draft /\ job' = job /\ caller' = caller
  BY <1>1, SameBuild DEF DraftInv, buildVars
<1>3. StartOk
  BY DEF DraftInv
<1>4. start' \in StartRecord /\ start'.stage = "tables" /\ start'.rung = start.rung
  BY <1>1, <1>3 DEF StartOk, StartRecord
<1>5. StartOk'
  BY <1>1, <1>2, <1>3, <1>4, SameRung DEF StartOk, Drafting
<1> QED
  BY <1>2, <1>5 DEF DraftInv

\* The model is prepared as its rung says.
LEMMA PreparedOk ==
  ASSUME DraftInv, start.stage \in {"tables", "kv"}, job.op = "none", caller.stage = "idle",
         env' = env, UNCHANGED buildVars, Prepared(Rung)
  PROVE  DraftInv'
<1>1. start' = [start EXCEPT !.stage = "prepared", !.prep = Rung]
  BY DEF Prepared
<1>2. BuildInv' /\ held' = held /\ draft' = draft /\ job' = job /\ caller' = caller
  BY <1>1, SameBuild DEF DraftInv, buildVars
<1>3. StartOk
  BY DEF DraftInv
<1>4. Rung \in RungRecord /\ Rung.strategy # "reference-only"
  BY <1>3, RungIs DEF StartOk
<1>5. start' \in StartRecord /\ start'.stage = "prepared" /\ start'.prep = Rung
  BY <1>1, <1>3, <1>4 DEF StartOk, StartRecord
<1>6. start'.prep.strategy # "reference-only"
  BY <1>4, <1>5
<1>7. StartOk'
  BY <1>2, <1>3, <1>5, <1>6 DEF StartOk, Drafting
<1> QED
  BY <1>2, <1>7 DEF DraftInv

LEMMA KVConfiguredOk ==
  ASSUME DraftInv, KVConfigured
  PROVE  DraftInv'
BY PreparedOk DEF KVConfigured, AtStart

LEMMA SetTablesOk ==
  ASSUME DraftInv, SetTables
  PROVE  DraftInv'
<1>1. /\ start.stage = "tables" /\ job.op = "none" /\ env' = env
      /\ held' = held /\ lost' = lost /\ draft' = draft /\ job' = job
      /\ \/ /\ draft.kv = 0 /\ caller' = [caller EXCEPT !.stage = "alloc"]
            /\ start' = [start EXCEPT !.stage = "kv"]
         \/ Prepared(Rung) /\ caller' = caller
  BY DEF SetTables, AtStart, Now
<1>2. StartOk /\ BuildInv /\ draft.state = "open" /\ caller.stage = "idle"
  BY <1>1 DEF DraftInv, StartOk
<1>3. Records /\ Parts /\ KVOk /\ JobOk /\ DraftOk /\ CallerOk
  BY <1>2 DEF BuildInv, Control
<1>4. CASE caller' = caller /\ Prepared(Rung)
  BY <1>1, <1>2, <1>4, PreparedOk DEF buildVars
<1>5. CASE /\ draft.kv = 0 /\ caller' = [caller EXCEPT !.stage = "alloc"]
           /\ start' = [start EXCEPT !.stage = "kv"]
  <2>1. caller' \in CallerRecord /\ caller'.stage = "alloc" /\ caller'.kv = caller.kv
    BY <1>3, <1>5 DEF Records, CallerRecord
  <2>2. draft.bound = 0
    BY <1>3, <1>5 DEF DraftOk
  <2>3. Records' /\ CallerOk' /\ DraftOk'
    BY <1>1, <1>2, <1>3, <2>1, <2>2 DEF Records, CallerOk, DraftOk
  <2>4. KVOk' /\ \A p : Only(p)
    BY <1>1, <1>3, <2>1, SameHeld DEF KVOk, JobKV
  <2>5. BuildInv'
    BY <1>1, <1>2, <2>3, <2>4, CallerStep
  <2>6. start' \in StartRecord /\ start'.stage = "kv" /\ start'.rung = start.rung
    BY <1>2, <1>5 DEF StartOk, StartRecord
  <2>7. StartOk'
    BY <1>1, <1>2, <2>6, SameRung DEF StartOk, Drafting
  <2> QED
    BY <2>5, <2>7 DEF DraftInv
<1> QED
  BY <1>1, <1>4, <1>5

LEMMA SetTablesFailsOk ==
  ASSUME DraftInv, SetTablesFails
  PROVE  DraftInv'
<1>1. /\ start.stage = "tables" /\ job.op = "none" /\ env' = env /\ Close
      /\ start' = [start EXCEPT !.stage = "untabled"]
  BY DEF SetTablesFails, AtStart, Now
<1>2. StartOk /\ BuildInv
  BY DEF DraftInv
<1>3. BuildInv' /\ job'.op = "close" /\ draft'.state = "closed" /\ held' = held /\ caller' = caller
  BY <1>1, <1>2, CloseOk
<1>4. start' \in StartRecord /\ start'.stage = "untabled" /\ start'.rung = start.rung
  BY <1>1, <1>2 DEF StartOk, StartRecord
<1>5. StartOk'
  BY <1>1, <1>2, <1>3, <1>4, SameRung DEF StartOk, Drafting
<1> QED
  BY <1>3, <1>5 DEF DraftInv

\* The drafter is decided upon, or a model has been shed.
LEMMA DecideOk ==
  ASSUME DraftInv, Decide
  PROVE  DraftInv'
<1> DEFINE reference == start.prep.strategy = "reference-only"
           guard == LowConfidence /\ ~On("noGuard")
           runner == On("runner") /\ (On("taps") \/ On("useRef") \/ guard \/ reference)
           prefer == \/ reference
                     \/ /\ LowConfidence /\ runner /\ On("lowRef")
                        /\ ~On("useRef") /\ ~On("taps")
           stage == IF Shed(prefer) THEN "shed" ELSE "ffn"
<1>1. /\ start.stage = "prepared" /\ job.op = "none" /\ env' = env
      /\ \/ start' = [start EXCEPT !.stage = "refused"] /\ UNCHANGED buildVars
         \/ /\ reference => runner
            /\ start' = [start EXCEPT !.stage = stage, !.prefer = prefer, !.runner = runner,
                                      !.guard = guard /\ runner]
            /\ IF Shed(prefer) THEN Close ELSE UNCHANGED buildVars
  BY DEF Decide, AtStart, Now
<1>2. StartOk /\ BuildInv
  BY DEF DraftInv
<1>3. CASE start' = [start EXCEPT !.stage = "refused"] /\ UNCHANGED buildVars
  <2>1. BuildInv' /\ held' = held /\ draft' = draft /\ job' = job /\ caller' = caller
    BY <1>2, <1>3, SameBuild DEF buildVars
  <2>2. start' \in StartRecord /\ start'.stage = "refused"
    BY <1>2, <1>3 DEF StartOk, StartRecord
  <2>3. StartOk'
    BY <1>1, <1>2, <2>1, <2>2 DEF StartOk, Drafting
  <2> QED
    BY <2>1, <2>3 DEF DraftInv
<1>4. CASE /\ reference => runner
           /\ start' = [start EXCEPT !.stage = stage, !.prefer = prefer, !.runner = runner,
                                     !.guard = guard /\ runner]
           /\ IF Shed(prefer) THEN Close ELSE UNCHANGED buildVars
  <2>1. /\ prefer \in BOOLEAN /\ runner \in BOOLEAN /\ (guard /\ runner) \in BOOLEAN
        /\ stage \in {"shed", "ffn"} /\ (stage = "shed" <=> Shed(prefer))
    OBVIOUS
  <2>2. /\ reference => prefer
        /\ prefer \/ (guard /\ runner) => runner
    BY <1>4
  <2> DEFINE low == guard /\ runner
  <2>3. /\ BuildInv' /\ held' = held /\ caller' = caller
        /\ IF stage = "shed" THEN job'.op = "close" /\ draft'.state = "closed"
           ELSE job' = job /\ draft' = draft
    <3>1. CASE Shed(prefer)
      <4> HIDE DEF prefer
      <4>1. Close /\ stage = "shed"
        BY <1>4, <3>1
      <4> QED
        BY <1>2, <4>1, CloseOk
    <3>2. CASE ~Shed(prefer)
      <4> HIDE DEF prefer
      <4>1. UNCHANGED buildVars /\ stage = "ffn"
        BY <1>4, <3>2
      <4> QED
        BY <1>2, <4>1, SameBuild DEF buildVars
    <3> QED
      BY <3>1, <3>2
  <2>4. stage = "ffn" => ~(prefer /\ ~On("keep") /\ draft.state = "open")
    BY <2>1 DEF Shed
  <2>5. start' = [start EXCEPT !.stage = stage, !.prefer = prefer, !.runner = runner, !.guard = low]
    BY <1>4
  <2>6. start.prep.strategy = "reference-only" => prefer
    BY <2>2
  <2>7. prefer \/ low => runner
    BY <2>2
  <2>8. low \in BOOLEAN
    BY <2>1
  <2> HIDE DEF prefer, low, runner, stage, guard, reference
  <2>9. /\ start' \in StartRecord /\ start'.stage = stage /\ start'.prefer = prefer /\ start'.runner = runner
        /\ start'.guard = low /\ start'.prep = start.prep /\ start'.path = start.path
    BY <1>2, <2>1, <2>5, <2>8 DEF StartOk, StartRecord
  <2>10. start'.stage \in Drafting \ {"prepared"} =>
           /\ start'.prep.strategy = "reference-only" => start'.prefer
           /\ start'.prefer \/ start'.guard => start'.runner
           /\ start'.prefer /\ draft'.state = "open" => On("keep") \/ start'.path
    BY <2>1, <2>3, <2>4, <2>6, <2>7, <2>9
  <2>11. On("keep")' = On("keep")
    BY <1>1, SameLadder
  <2>12. StartOk'
    BY <1>1, <1>2, <2>1, <2>3, <2>9, <2>10, <2>11 DEF StartOk, Drafting
  <2> QED
    BY <2>3, <2>12 DEF DraftInv
<1> QED
  BY <1>1, <1>3, <1>4

\* The steps that only go on.
LEMMA GoesOn ==
  ASSUME DraftInv, Shedded \/ NoFFN \/ GenerateFFNFails \/ Late \/ Return \/ OpenModelcReturns
  PROVE  DraftInv'
<1>1. /\ env' = env /\ UNCHANGED buildVars /\ job.op = "none"
      /\ \/ start.stage = "shed" /\ start' = [start EXCEPT !.stage = "ffn"]
         \/ start.stage = "ffn" /\ start' = [start EXCEPT !.stage = "late"]
         \/ start.stage = "ffn" /\ start' = [start EXCEPT !.stage = "refused"]
         \/ start.stage = "late" /\ start' = [start EXCEPT !.stage = "open"]
         \/ /\ start.stage = "open" /\ start' = [start EXCEPT !.stage = "started"]
            /\ draft.state = "open" \/ start.prep.strategy = "reference-only"
         \/ /\ start.stage = "opening" /\ start' = [start EXCEPT !.stage = "started"]
            /\ draft.state = "open"
  BY DEF Shedded, NoFFN, GenerateFFNFails, Late, Return, OpenModelcReturns, AtStart, Now, Opens
<1>2. BuildInv' /\ held' = held /\ draft' = draft /\ job' = job /\ caller' = caller
  BY <1>1, SameBuild DEF DraftInv, buildVars
<1>3. StartOk
  BY DEF DraftInv
<1>4. /\ start' \in StartRecord /\ start'.rung = start.rung /\ start'.prep = start.prep
      /\ start'.path = start.path /\ start'.prefer = start.prefer /\ start'.runner = start.runner
      /\ start'.guard = start.guard
  BY <1>1, <1>3 DEF StartOk, StartRecord
<1>5. \/ start.stage = "shed" /\ start'.stage = "ffn"
      \/ start.stage = "ffn" /\ start'.stage \in {"late", "refused"}
      \/ start.stage = "late" /\ start'.stage = "open"
      \/ /\ start.stage \in {"open", "opening"} /\ start'.stage = "started"
         /\ draft.state = "open" \/ start.prep.strategy = "reference-only"
  BY <1>1, <1>3 DEF StartOk, StartRecord
<1>6. StartOk'
  BY <1>1, <1>2, <1>3, <1>4, <1>5, SameRung DEF StartOk, Drafting
<1> QED
  BY <1>2, <1>6 DEF DraftInv

\* The steps that write the modelc, or take it away.
LEMMA ModelcOk ==
  ASSUME DraftInv, GenerateFFN \/ OpenModelcFails \/ Cleanup
  PROVE  DraftInv'
<1>1. /\ env' = env /\ draft' = draft /\ caller' = caller /\ job' = job /\ job.op = "none"
      /\ \/ /\ start.stage = "ffn" /\ held' = held \cup {Modelc}
            /\ start' = [start EXCEPT !.stage = "late", !.path = TRUE]
         \/ /\ start.stage \in {"open", "opening"} /\ held' = held \ {Modelc}
            /\ start' = [start EXCEPT !.stage = "refused"]
         \/ /\ start.stage = "closing" /\ held' = held \ {Modelc}
            /\ start' = [start EXCEPT !.stage = "off"]
  BY DEF GenerateFFN, OpenModelcFails, Cleanup, AtStart, Now, Takes, Drops, Aside
<1>2. BuildInv'
  BY <1>1, ModelcStep DEF DraftInv
<1>3. StartOk
  BY DEF DraftInv
<1>4. /\ start' \in StartRecord /\ start'.prep = start.prep /\ start'.prefer = start.prefer
      /\ start'.runner = start.runner /\ start'.guard = start.guard
  BY <1>1, <1>3 DEF StartOk, StartRecord
<1>5. \/ start.stage = "ffn" /\ start'.stage = "late" /\ start'.path = TRUE
      \/ start.stage \in {"open", "opening"} /\ start'.stage = "refused" /\ Modelc \notin held'
      \/ start.stage = "closing" /\ start'.stage = "off" /\ Modelc \notin held'
  BY <1>1, <1>3 DEF StartOk, StartRecord
<1>6. StartOk'
  BY <1>1, <1>3, <1>4, <1>5, SameRung DEF StartOk, Drafting
<1> QED
  BY <1>2, <1>6 DEF DraftInv

LEMMA OpenModelcOk ==
  ASSUME DraftInv, OpenModelc
  PROVE  DraftInv'
<1>1. /\ start.stage = "open" /\ job.op = "none" /\ start.prep.strategy # "reference-only" /\ start.path
      /\ Open("client", 1) /\ start' = [start EXCEPT !.stage = "opening"] /\ env' = env
  BY DEF OpenModelc, AtStart, Now, Opens
<1>2. StartOk /\ BuildInv /\ "client" \in Kind /\ 1 \in {1, 2}
  BY DEF DraftInv, Kind
<1>3. BuildInv' /\ job'.op = "open" /\ draft'.state = "none" /\ held' = held /\ caller' = caller
  BY <1>1, <1>2, OpenOk
<1>4. /\ start' \in StartRecord /\ start'.stage = "opening" /\ start'.prep = start.prep
      /\ start'.path = start.path /\ start'.prefer = start.prefer /\ start'.runner = start.runner
      /\ start'.guard = start.guard
  BY <1>1, <1>2 DEF StartOk, StartRecord
<1>5. StartOk'
  BY <1>1, <1>2, <1>3, <1>4, SameRung DEF StartOk, Drafting
<1> QED
  BY <1>3, <1>5 DEF DraftInv

LEMMA LateFailsOk ==
  ASSUME DraftInv, LateFails
  PROVE  DraftInv'
<1>1. /\ start.stage = "late" /\ job.op = "none" /\ env' = env
      /\ held' = held \ ({Modelc} \cup Owned) /\ draft' = NoDraft /\ job' = job /\ caller' = caller
      /\ start' = [start EXCEPT !.stage = "refused"]
  BY Zenon DEF LateFails, AtStart, Now, Drops
<1>2. StartOk /\ BuildInv /\ caller.stage = "idle"
  BY <1>1 DEF DraftInv, StartOk
<1>3. held' = {}
  <2>1. held \subseteq {Modelc} \cup (IF draft.state = "open" THEN Owned ELSE {})
    BY <1>1, <1>2, NotOrphaned
  <2> QED
    BY <1>1, <2>1
<1>4. /\ job = NoJob /\ JobKV = 0 /\ Records /\ JobOk /\ CallerOk /\ ~Making(job) /\ ~Closing(job)
      /\ Range(job.retire) = {}
  BY <1>1, <1>2, AtIdle
<1>5. NoDraft \in DraftRecord /\ NoDraft.state = "none" /\ NoDraft.progs = << >> /\ NoDraft.kv = 0
      /\ NoDraft.bound = 0 /\ Range(<< >>) = {} /\ DOMAIN << >> = {}
  BY NoJobIs
<1>6. Records' /\ CallerOk'
  BY <1>1, <1>2, <1>4, <1>5 DEF Records, CallerOk
<1>7. DraftOk'
  BY <1>1, <1>5 DEF DraftOk
<1>8. JobOk'
  BY <1>1, <1>4, NoJobIs DEF JobOk, Making, Closing
<1>9. Parts'
  <2>1. Range(draft'.progs) = {} /\ ~Making(job') /\ ~Closing(job') /\ Range(job'.retire) = {}
    BY <1>1, <1>4, <1>5 DEF Making, Closing
  <2>2. ASSUME NEW q \in Prog PROVE RoleOk(q)'
    BY <1>3, <2>1 DEF RoleOk, InUse, Part
  <2> QED
    BY <1>3, <2>2 DEF Parts
<1>10. KVOk'
  <2>1. caller.kv = 0 /\ JobKV' = 0
    BY <1>1, <1>2, <1>4 DEF CallerOk, JobKV
  <2> QED
    BY <1>1, <1>3, <1>5, <2>1 DEF KVOk, KVs
<1>11. start' \in StartRecord /\ start'.stage = "refused"
  BY <1>1, <1>2 DEF StartOk, StartRecord
<1>12. StartOk'
  BY <1>1, <1>2, <1>3, <1>11 DEF StartOk, Drafting
<1> QED
  BY <1>6, <1>7, <1>8, <1>9, <1>10, <1>12 DEF DraftInv, BuildInv, Control

LEMMA CloseDrafterOk ==
  ASSUME DraftInv, CloseDrafter
  PROVE  DraftInv'
<1>1. /\ start.stage = "started" /\ job.op = "none" /\ env' = env
      /\ Close \/ UNCHANGED buildVars
      /\ start' = [start EXCEPT !.stage = "closing"]
  BY DEF CloseDrafter, AtStart, Now
<1>2. StartOk /\ BuildInv
  BY DEF DraftInv
<1>3. BuildInv' /\ held' = held /\ caller' = caller /\ job'.op \in {"none", "close"}
  <2>1. CASE Close
    BY <1>2, <2>1, CloseOk
  <2>2. CASE UNCHANGED buildVars
    BY <1>1, <1>2, <2>2, SameBuild DEF buildVars
  <2> QED
    BY <1>1, <2>1, <2>2
<1>4. start' \in StartRecord /\ start'.stage = "closing"
  BY <1>1, <1>2 DEF StartOk, StartRecord
<1>5. StartOk'
  BY <1>1, <1>2, <1>3, <1>4 DEF StartOk, Drafting
<1> QED
  BY <1>3, <1>5 DEF DraftInv

LEMMA UseOk ==
  ASSUME DraftInv, Use
  PROVE  DraftInv'
<1>1. StartOk /\ BuildInv /\ env' = env /\ start' = start
  BY DEF DraftInv, Use
<1>2. Rung' = Rung /\ Ladder' = Ladder /\ On("keep")' = On("keep")
  BY <1>1, SameRung
<1>3. CASE start.stage \in {"bare", "started"} /\ ResetModel
  <2>1. BuildInv' /\ job'.op = "reset" /\ draft' = draft /\ held' = held /\ caller' = caller
    BY <1>1, <1>3, ResetOk
  <2>2. StartOk'
    BY <1>1, <1>2, <1>3, <2>1 DEF StartOk, Drafting
  <2> QED
    BY <2>1, <2>2 DEF DraftInv
<1>4. CASE start.stage = "bare" /\ Close
  <2>1. BuildInv' /\ job'.op = "close" /\ draft'.state = "closed" /\ held' = held /\ caller' = caller
    BY <1>1, <1>4, CloseOk
  <2>2. StartOk'
    BY <1>1, <1>2, <1>4, <2>1 DEF StartOk, Drafting
  <2> QED
    BY <2>1, <2>2 DEF DraftInv
<1>5. CASE start.stage = "bare" /\ \E kind \in Kind, n \in {1, 2} : Open(kind, n)
  <2>1. BuildInv' /\ job'.op = "open" /\ draft'.state = "none" /\ held' = held /\ caller' = caller
    BY <1>1, <1>5, OpenOk
  <2>2. StartOk'
    BY <1>1, <1>2, <1>5, <2>1 DEF StartOk, Drafting
  <2> QED
    BY <2>1, <2>2 DEF DraftInv
<1>6. CASE start.stage \in {"bare", "started", "closing"} /\ ConfigureKV
  <2>1. BuildInv' /\ job' = job /\ draft' = draft /\ held' = held
    BY <1>1, <1>6, ConfigureOk
  <2>2. StartOk'
    BY <1>1, <1>2, <1>6, <2>1 DEF StartOk, Drafting
  <2> QED
    BY <2>1, <2>2 DEF DraftInv
<1> QED
  BY <1>3, <1>4, <1>5, <1>6 DEF Use

LEMMA StartInitOk ==
  ASSUME StartInit
  PROVE  DraftInv
<1>1. /\ held = {} /\ draft = NoDraft /\ job = NoJob /\ caller = [stage |-> "idle", kv |-> 0]
      /\ env \in Envs
      /\ start = [stage |-> IF env.modelc = "bare" THEN "bare" ELSE "prepare", rung |-> 1,
                  prep |-> NoRung, path |-> FALSE, prefer |-> FALSE, runner |-> FALSE,
                  guard |-> FALSE]
  BY DEF StartInit, BuildInit
<1>2. Records
  BY <1>1, NoJobIs DEF Records, CallerRecord
<1>3. ~Making(job) /\ ~Closing(job) /\ Range(job.retire) = {} /\ Range(draft.progs) = {} /\ JobKV = 0
  BY <1>1, NoJobIs DEF Making, Closing, JobKV
<1>4. Control
  <2>1. DOMAIN << >> = {}
    OBVIOUS
  <2>2. JobOk
    BY <1>1, <1>3, NoJobIs DEF JobOk
  <2>3. DraftOk
    BY <1>1, <2>1, NoJobIs DEF DraftOk
  <2> QED
    BY <1>1, <2>2, <2>3 DEF Control, CallerOk
<1>5. Parts
  BY <1>1, <1>3 DEF Parts, RoleOk, InUse, Part
<1>6. KVOk
  BY <1>1, <1>3, NoJobIs DEF KVOk, KVs
<1>7. /\ start \in StartRecord /\ start.stage \in {"bare", "prepare"} /\ start.rung = 1
  <2>1. NoRung \in RungRecord
    BY DEF NoRung, RungRecord, Strategy, Build, Out
  <2> QED
    BY <1>1, <2>1 DEF StartRecord
<1>8. StartOk
  BY <1>1, <1>7, NoJobIs DEF StartOk, Drafting
<1> QED
  BY <1>2, <1>4, <1>5, <1>6, <1>8 DEF DraftInv, BuildInv

LEMMA StartStep ==
  ASSUME DraftInv, [StartNext]_startVars
  PROVE  DraftInv'
<1>1. CASE Works
  <2>1. BuildInv' /\ Tame /\ StartOk /\ UNCHANGED <<env, start>>
    BY <1>1, WorkOk DEF Works, DraftInv
  <2> QED
    BY <2>1, WorkKeepsStart DEF DraftInv
<1>2. CASE Configures
  <2>1. BuildInv /\ StartOk /\ UNCHANGED <<env, start>> /\ (KVAllocate \/ KVAllocateFails \/ KVSwap)
    BY <1>2 DEF Configures, DraftInv
  <2>2. BuildInv' /\ Tame
    BY <2>1, KVAllocateOk, KVAllocateFailsOk, KVSwapOk
  <2> QED
    BY <2>1, <2>2, WorkKeepsStart DEF DraftInv
<1>3. CASE Starts
  BY <1>3, PrepareExternalOk, PrepareAutoOk, SettleOk, FallsBack, TryOk, TryBuildsOk, SetTablesOk,
     SetTablesFailsOk, KVConfiguredOk, DecideOk, GoesOn, ModelcOk, OpenModelcOk, LateFailsOk
     DEF Starts
<1>4. CASE CloseDrafter
  BY <1>4, CloseDrafterOk
<1>5. CASE Use
  BY <1>5, UseOk
<1>6. CASE UNCHANGED startVars
  <2>1. BuildInv' /\ env' = env /\ start' = start /\ UNCHANGED <<held, draft, job, caller>>
    BY <1>6, SameBuild DEF DraftInv, startVars, buildVars
  <2> QED
    BY <2>1, WorkKeepsStart DEF DraftInv, Tame
<1> QED
  BY <1>1, <1>2, <1>3, <1>4, <1>5, <1>6 DEF StartNext, Settled

LEMMA DraftInvariant == StartSpec => []DraftInv
<1>1. StartInit => DraftInv
  BY StartInitOk
<1>2. DraftInv /\ [StartNext]_startVars => DraftInv'
  BY StartStep
<1> QED
  BY <1>1, <1>2, PTL DEF StartSpec

-----------------------------------------------------------------------------
\* The types of the draft model and of its start. Beside DraftInv they need that nothing is
\* dropped under a name of its own, and that no constructor counts beyond its surfaces.
Dropped == {"half mirror", "unsynced model", "compiled model", "start model"}

Counts == lost \subseteq Dropped /\ job.next \in 1..9

LEMMA FewRoles ==
  ASSUME NEW kind \in Kind
  PROVE  Len(Roles(kind)) \in 0..8
<1>1. CASE kind = "attention"
  <2>1. Roles(kind) = <<"kv", "input", "cos", "sin", "output", "currK", "currV", "mask">>
    BY <1>1 DEF Roles
  <2> QED
    BY <2>1
<1>2. CASE kind = "rope"
  <2>1. Roles(kind) = <<"input", "cos", "sin", "output">>
    BY <1>2 DEF Roles
  <2> QED
    BY <2>1
<1>3. CASE kind \in {"stateful", "compiled"}
  <2>1. Roles(kind) = <<"input", "output", "state">>
    BY <1>3 DEF Roles
  <2> QED
    BY <2>1
<1>4. CASE kind = "stack"
  <2>1. Roles(kind) = <<"input", "output">>
    BY <1>4 DEF Roles
  <2> QED
    BY <2>1
<1>5. CASE kind \notin {"attention", "rope", "stateful", "compiled", "stack"}
  <2>1. Roles(kind) = << >>
    BY <1>5 DEF Roles
  <2> QED
    BY <2>1
<1> QED
  BY <1>1, <1>2, <1>3, <1>4, <1>5

\* Only Allocate counts; whatever else a job does leaves its count or begins a new one.
LEMMA WorkCounts ==
  ASSUME BuildInv, Counts, Work
  PROVE  Counts'
<1>1. job \in JobRecord /\ job.next \in 1..9 /\ lost \subseteq Dropped
  BY DEF BuildInv, Records, Counts
<1>2. NoJob.next = 1
  BY DEF NoJob
<1>5. Fails => job'.next \in {1, job.next}
  BY <1>1, <1>2 DEF Fails, Ends, Go, JobRecord
<1>6. BuildFails => job'.next \in {1, job.next}
  BY <1>1, <1>5 DEF BuildFails, Go, JobRecord
<1>7. \A dropped : MapAgain(dropped) => job'.next = job.next
  BY <1>1 DEF MapAgain, Unplanned, Go, JobRecord
<1>8. CASE Allocate
  <2>1. Making(job)
    BY <1>8, AtMaking DEF Allocate, JobAt, MakingStages, Planning
  <2>2. job.next \in 1..Len(Roles(job.kind)) /\ job.kind \in Kind
    BY <1>1, <1>8, <2>1 DEF BuildInv, Control, JobOk, JobKinds, JobRecord, Allocate, JobAt
  <2>3. job.next + 1 \in 1..9
    <3> DEFINE n == Len(Roles(job.kind))
               m == job.next
    <3>1. n \in 0..8 /\ m \in 1..n
      BY <2>2, FewRoles
    <3> HIDE DEF n, m
    <3>2. m + 1 \in 1..9
      BY <3>1
    <3> QED
      BY <3>2 DEF m
  <2>5. job'.next \in {1, job.next + 1} /\ lost' = lost
    <3>1. CASE Ends
      BY <1>2, <1>8, <3>1 DEF Allocate, Ends
    <3>2. CASE ~Ends
      BY <1>1, <1>8, <3>2 DEF Allocate, JobRecord
    <3> QED
      BY <3>1, <3>2
  <2> QED
    BY <1>1, <2>3, <2>5 DEF Counts
<1>9. CASE MirrorFails \/ SyncFails \/ Planless
  <2>1. lost' \subseteq Dropped
    BY <1>1, <1>9 DEF MirrorFails, SyncFails, Planless, Dropped
  <2>2. job'.next \in {1, job.next}
    BY <1>1, <1>5, <1>6, <1>9 DEF MirrorFails, SyncFails, Planless, Go, JobRecord
  <2> QED
    BY <1>1, <2>1, <2>2 DEF Counts
<1>10. CASE Mirror \/ Compile \/ Load \/ CompileOrLoadFails \/ Sync \/ ClientLoad \/ ClientLoadFails
  <2>1. job'.next \in {1, job.next} /\ lost' = lost
    BY <1>1, <1>2, <1>5, <1>6, <1>10
    DEF Go, JobRecord, Mirror, Compile, Load, CompileOrLoadFails, Sync, ClientLoad, ClientLoadFails, Aside, Ends
  <2> QED
    BY <1>1, <2>1 DEF Counts
<1>11. CASE AllocateFails \/ Prepare \/ Map \/ MapFails \/ AttachEvents \/ EventsFail \/ Validate
  <2>1. job'.next = job.next /\ lost' = lost
    BY <1>1, <1>7, <1>11
    DEF Go, JobRecord, AllocateFails, Prepare, Map, MapFails, AttachEvents, EventsFail, Validate, Unplanned, Aside
  <2> QED
    BY <1>1, <2>1 DEF Counts
<1>12. CASE KeepLayer \/ Adopt \/ WriteMask \/ WriteMaskFails \/ Swap \/ Retired
  <2>1. job'.next \in {1, job.next} /\ lost' = lost
    BY <1>1, <1>2, <1>5, <1>12
    DEF Go, JobRecord, Building, KeepLayer, Adopt, WriteMask, WriteMaskFails, Swap, Retired, Ends
  <2> QED
    BY <1>1, <2>1 DEF Counts
<1>13. CASE RetirePlan \/ RetireSurfaces \/ RetireModel \/ CloseModel \/ CloseKV \/ ClosePlan \/ CloseSurfaces
  <2>1. job'.next = job.next /\ lost' = lost
    BY <1>1, <1>13
    DEF Go, JobRecord, RetirePlan, RetireSurfaces, RetireModel, CloseModel, CloseKV, ClosePlan, CloseSurfaces, Aside
  <2> QED
    BY <1>1, <2>1 DEF Counts
<1> QED
  BY <1>8, <1>9, <1>10, <1>11, <1>12, <1>13 DEF Work

LEMMA StepCounts ==
  ASSUME DraftInv, Counts, [StartNext]_startVars
  PROVE  Counts'
<1>1. lost \subseteq Dropped /\ job.next \in 1..9 /\ NoJob.next = 1
  BY DEF Counts, NoJob
<1>2. \A kind, layers : Open(kind, layers) => lost' = {} /\ job'.next = 1
  <2>1. \A kind, layers, stage :
           [NoJob EXCEPT !.op = "open", !.kind = kind, !.layers = layers, !.stage = stage].next = 1
    BY DEF NoJob
  <2> QED
    BY <2>1 DEF Open
<1>3. Close => lost' = lost /\ job'.next = 1
  <2>1. \A kind, built, kv :
           [NoJob EXCEPT !.op = "close", !.kind = kind, !.built = built, !.kv = kv, !.stage = "unload"].next = 1
    BY DEF NoJob
  <2> QED
    BY <2>1 DEF Close
<1>4. ResetModel => lost' = {} /\ job'.next = 1
  <2>1. \A kind : Building([NoJob EXCEPT !.op = "reset", !.kind = kind]).next = 1
    BY DEF NoJob, Building
  <2> QED
    BY <2>1 DEF ResetModel
<1>5. (ConfigureKV \/ KVAllocate \/ KVAllocateFails \/ KVSwap) => lost' = lost /\ job' = job
  BY DEF ConfigureKV, KVAllocate, KVAllocateFails, KVSwap
<1>6. UNCHANGED buildVars => lost' = lost /\ job' = job
  BY DEF buildVars
<1>7. CASE Works
  BY <1>7, WorkCounts DEF Works, DraftInv
<1>8. CASE Configures
  BY <1>1, <1>5, <1>8 DEF Configures, Counts
<1>9. CASE Starts
  <2>1. CASE LateFails
    BY <1>1, <2>1 DEF LateFails, Counts, Dropped
  <2>2. CASE Try \/ OpenModelc
    BY <1>2, <2>2 DEF Try, OpenModelc, Counts
  <2>3. CASE SetTablesFails \/ Decide
    <3>1. lost' = lost /\ (job' = job \/ job'.next = 1)
      BY <1>3, <1>6, <2>3 DEF SetTablesFails, Decide
    <3> QED
      BY <1>1, <3>1 DEF Counts
  <2>4. CASE SetTables \/ GenerateFFN \/ OpenModelcFails \/ Cleanup
    BY <1>1, <2>4 DEF SetTables, GenerateFFN, OpenModelcFails, Cleanup, Aside, Counts
  <2>5. CASE PrepareExternal \/ PrepareAuto \/ Settle \/ Skip \/ TryFails \/ TryBuilds \/ Untabled
             \/ KVConfigured \/ Shedded \/ NoFFN \/ GenerateFFNFails \/ Late \/ Return \/ OpenModelcReturns
    <3>1. UNCHANGED buildVars
      BY <2>5 DEF PrepareExternal, PrepareAuto, Settle, Skip, TryFails, TryBuilds, Untabled,
                  KVConfigured, Shedded, NoFFN, GenerateFFNFails, Late, Return, OpenModelcReturns
    <3> QED
      BY <1>1, <1>6, <3>1 DEF Counts
  <2> QED
    BY <1>9, <2>1, <2>2, <2>3, <2>4, <2>5 DEF Starts
<1>10. CASE CloseDrafter
  BY <1>1, <1>3, <1>6, <1>10 DEF CloseDrafter, Counts
<1>11. CASE Use
  BY <1>1, <1>2, <1>3, <1>4, <1>5, <1>11 DEF Use, Counts
<1>12. CASE UNCHANGED startVars
  BY <1>1, <1>6, <1>12 DEF startVars, Counts
<1> QED
  BY <1>7, <1>8, <1>9, <1>10, <1>11, <1>12 DEF StartNext, Settled

\* What is held is named for what it is and for whom it belongs to.
LEMMA HeldNames ==
  ASSUME Parts
  PROVE  held \subseteq Resource
<1>1. Modelc \in Resource
  BY DEF Modelc, Dir, Resource, Name
<1>2. AllKV \subseteq Resource
  BY DEF AllKV, Resource
<1>3. ASSUME NEW p \in Prog
      PROVE  Of(p) \subseteq Resource
  <2>1. p \in 0..3
    BY DEF Prog
  <2>2. Models(p) \cup Plan(p) \cup {Dir(p)} \subseteq Resource
    BY <2>1 DEF Models, Memory, Client, Plan, Request, Events, Dir, Resource, Name
  <2>3. ASSUME NEW kind \in Kind
        PROVE  Surfaces(p, kind) \subseteq Resource
    BY <2>1 DEF Surfaces, Resource, Name
  <2> QED
    BY <2>2, <2>3 DEF Of
<1>4. held \subseteq {Modelc} \cup AllKV \cup UNION {Of(p) : p \in Prog}
  BY DEF Parts
<1> QED
  BY <1>1, <1>2, <1>3, <1>4

\* The type invariant of DraftBuild and DraftStart: what the calls that build, reset, close
\* and start a draft model hold has its name, and no list of surfaces is overrun.
THEOREM DraftTypeCorrect == StartSpec => []DraftTypeOK
<1>1. StartInit => Counts
  BY DEF StartInit, BuildInit, Counts, NoJob
<1>2. DraftInv /\ DraftInv' /\ Counts /\ [StartNext]_startVars => Counts'
  BY StepCounts
<1>3. DraftInv /\ Counts => DraftTypeOK
  <2> SUFFICES ASSUME DraftInv, Counts
               PROVE  DraftTypeOK
    OBVIOUS
  <2>1. Records /\ Parts /\ StartOk
    BY DEF DraftInv, BuildInv
  <2>2. BuildTypeOK
    <3>1. held \subseteq Resource /\ lost \subseteq Dropped
      BY <2>1, HeldNames DEF Counts
    <3>2. /\ job.next \in 1..9 /\ job \in JobRecord /\ draft \in DraftRecord /\ caller \in CallerRecord
      BY <2>1 DEF Records, Counts
    <3>3. /\ job.op \in {"none", "open", "reset", "close"} /\ job.kind \in Kind /\ job.p \in Prog
          /\ job.kv \in State \cup {0} /\ job.path \in {"strict", "helper", "client", "memory"}
          /\ job.stage \in Stage /\ job.built \in Seq(Prog) /\ job.retire \in Seq(Prog)
          /\ job.try \in {1, 2} /\ job.layers \in 1..2
      BY <3>2 DEF JobRecord
    <3>4. /\ draft.state \in {"none", "open", "failed", "closed"} /\ draft.kind \in Kind
          /\ draft.progs \in Seq(Prog) /\ draft.kv \in State \cup {0} /\ draft.bound \in State \cup {0}
          /\ caller.stage \in {"idle", "alloc", "swap"} /\ caller.kv \in State \cup {0}
      BY <3>2 DEF DraftRecord, CallerRecord
    <3> QED
      BY <3>1, <3>2, <3>3, <3>4 DEF BuildTypeOK, Dropped
  <2>3. StartTypeOK
    BY <2>1 DEF StartOk, StartRecord, RungRecord, StartTypeOK
  <2> QED
    BY <2>2, <2>3 DEF DraftTypeOK
<1> QED
  BY <1>1, <1>2, <1>3, DraftInvariant, PTL DEF StartSpec

\* OpenIsWhole for every environment and every plan configuration: a model that is open has
\* each of its programs loaded exactly once, with all of its surfaces and its request,
\* whichever constructor, Reset and ConfigureKVState have gone before and wherever they failed.
THEOREM OpenModelIsWhole == StartSpec => []OpenIsWhole
<1>1. DraftInv => OpenIsWhole
  BY WholeIs DEF DraftInv
<1> QED
  BY <1>1, DraftInvariant, PTL

\* RequestsBacked: the order in which the cleanups, Reset and Close release things never
\* takes a surface, or a model but for Close, away from under a mapped request.
THEOREM MappedRequestsAreBacked == StartSpec => []RequestsBacked
<1>1. DraftInv => RequestsBacked
  BY RequestsAreBacked DEF DraftInv
<1> QED
  BY <1>1, DraftInvariant, PTL

\* NothingLeft: between two calls all that is held belongs to the open model, and neither a
\* NewANEDrafter that has refused nor closeFn leaves the generated modelc on disk.
THEOREM NothingIsLeft == StartSpec => []NothingLeft
<1>1. DraftInv => NothingLeft
  BY NothingIsOrphaned DEF DraftInv, StartOk, NothingLeft
<1> QED
  BY <1>1, DraftInvariant, PTL

\* StartedIsRunnable: however the ladder of strategies has ended, the drafter NewANEDrafter
\* returns has an open model or starts with a reference runner that is there.
THEOREM StartedDrafterRuns == StartSpec => []StartedIsRunnable
<1>1. DraftInv => StartedIsRunnable
  BY DEF DraftInv, StartOk, StartedIsRunnable, Drafting
<1> QED
  BY <1>1, DraftInvariant, PTL
=============================================================================
