----------------------------- MODULE LinearHook -----------------------------
(***************************************************************************)
(* The hooks that put a runtime under nn.Linear and StandardLinear         *)
(* (nnhook.go).  nn has one hook for the process.  The manager takes it    *)
(* over when the first session is installed, keeps a stack of sessions and *)
(* gives it back with the last restore; sessions may be restored in any    *)
(* order and while calls are on their way.  In training mode a session     *)
(* applies a closure of its own, which its restore frees.                  *)
(*                                                                         *)
(* Every session of a behaviour has the same runtime; nn, and models with  *)
(* its default hook, are external.                                         *)
(***************************************************************************)
EXTENDS LinearRuntime, Sequences

CONSTANTS
  Session,       \* sessions; each is installed at most once
  Plans,         \* what a behaviour has: a runtime, the sessions installed and foreign, see below
  ModelSession,  \* those of InstallModelLinearHookWithOptions, at most one
  ModeOf,        \* the mode a session sets, or None
  Bare,          \* the sessions without a runtime
  MaxCalls       \* bound: calls of each caller

ASSUME HookAssumption ==
  /\ Plans \subseteq Confs \X (SUBSET Session) \X BOOLEAN
  /\ ModelSession \subseteq Session /\ Cardinality(ModelSession) <= 1
  /\ ModeOf \in [Session -> Mode \cup {None}]
  /\ Bare \subseteq Session
  /\ MaxCalls \in [Caller -> Nat]
  /\ IsFiniteSet(Session)
  /\ None \notin Session /\ None \notin Mode /\ None \notin [foreign : BOOLEAN, mode : Mode]

VARIABLES
  planned,   \* the sessions that are installed at some time
  foreign,   \* whether nn had a hook of somebody else's before
  hook,      \* nn's hook: the manager's dispatch, or the original one
  stack,     \* linearHookManager.sessions
  base,      \* baseHook and baseMode, None where nothing is installed
  default,   \* the session behind models' default hook
  handle,    \* session.handle: the number of its closure, 0 if there is none
  made,      \* closures made so far, per session
  locals,    \* the locals of a call through the hook
  calls,     \* calls made so far, per caller
  own,       \* auxiliary: the mode the application has set
  since      \* auxiliary: when a session was installed; 0 before, -1 once restored

manager == <<hook, stack, base, default>>
closures == <<handle, made>>
aux == <<own, since>>
setting == <<planned, foreign>>
vars == <<runtime, setting, manager, closures, locals, calls, aux>>

\* session, next: the session that answers, and the hook after it; held: the closure in
\* use; outcome: how the call has ended; restored: sessions restored while it runs;
\* emptied: whether one of these was the last; alone: no other call has overlapped it;
\* seen: what its statistics took for the hit of its lookup.
NoLocals == [session |-> None, next |-> FALSE, held |-> 0, outcome |-> "", restored |-> {},
             emptied |-> FALSE, alone |-> FALSE, seen |-> FALSE]

Locals == [session : Session \cup {None}, next : BOOLEAN, held : Nat,
           outcome : {"", "answered", "plain", "foreign", "error"}, restored : SUBSET Session,
           emptied : BOOLEAN, alone : BOOLEAN, seen : BOOLEAN]
Base == [foreign : BOOLEAN, mode : Mode]

TypeOK ==
  /\ RuntimeTypeOK
  /\ <<conf, planned, foreign>> \in Plans
  /\ hook \in {"original", "dispatch"}
  /\ stack \in Seq(Session \ ModelSession)
  /\ base \in Base \cup {None} /\ default \in ModelSession \cup {None}
  /\ handle \in [Session -> Nat] /\ made \in [Session -> Nat]
  /\ locals \in [Caller -> Locals]
  /\ calls \in [Caller -> Nat]
  /\ own \in Mode /\ since \in [Session -> Int]

Init ==
  /\ \E p \in Plans : conf = p[1] /\ planned = p[2] /\ foreign = p[3]
  /\ InitRuntime
  /\ hook = "original" /\ stack = << >> /\ base = None /\ default = None
  /\ handle = [s \in Session |-> 0] /\ made = [s \in Session |-> 0]
  /\ locals = [c \in Caller |-> NoLocals]
  /\ calls = [c \in Caller |-> 0]
  /\ own = mode
  /\ since = [s \in Session |-> 0]

InFlight(c) == pc[c] # "idle"
Now == Cardinality({s \in Session : since[s] # 0}) + 1

-----------------------------------------------------------------------------
\* applyTopModeLocked: the mode of the topmost session that has one.
TopMode(sessions, otherwise) ==
  LET moded == {i \in DOMAIN sessions : ModeOf[sessions[i]] # None}
  IN IF moded = {} THEN otherwise
     ELSE ModeOf[sessions[CHOOSE i \in moded : \A j \in moded : j <= i]]

Install(s) ==
  /\ s \in planned /\ since[s] = 0 /\ s \notin ModelSession
  /\ IF base = None THEN base' = [foreign |-> foreign, mode |-> mode] /\ hook' = "dispatch"
     ELSE UNCHANGED <<base, hook>>
  /\ stack' = Append(stack, s)
  /\ mode' = TopMode(stack', base'.mode)
  /\ since' = [since EXCEPT ![s] = Now]
  /\ UNCHANGED <<fixed, shared, pc, call, setting, default, closures, locals, calls, own>>

\* Mutant of Without: the top of the stack is taken off.
WithoutTop(sessions, s) == SubSeq(sessions, 1, Len(sessions) - 1)

\* The sessions above s move down by one.
Without(sessions, s) ==
  LET i == CHOOSE i \in DOMAIN sessions : sessions[i] = s
  IN [j \in 1..(Len(sessions) - 1) |-> sessions[IF j < i THEN j ELSE j + 1]]

\* Mutant of Freed: the closures of the sessions below go as well.
FreedBelow(s) == [t \in Session |-> IF t \in {s} \cup {stack[i] : i \in DOMAIN stack} THEN 0 ELSE handle[t]]

\* session.free under vjpMu.
Freed(s) == [handle EXCEPT ![s] = 0]

Overlapped(s, empties) ==
  [c \in Caller |-> IF ~InFlight(c) THEN locals[c]
                    ELSE [locals[c] EXCEPT !.restored = @ \cup {s}, !.emptied = @ \/ empties]]

\* The restore function of a session, all of it under the manager's mutex.
Restore(s) ==
  /\ since[s] > 0 /\ s \notin ModelSession
  /\ stack' = Without(stack, s)
  /\ handle' = Freed(s)
  /\ IF stack' = << >>
     THEN /\ hook' = "original"
          /\ mode' = base.mode
          /\ base' = None
     ELSE /\ mode' = TopMode(stack', base.mode)
          /\ UNCHANGED <<hook, base>>
  /\ locals' = Overlapped(s, stack' = << >>)
  /\ since' = [since EXCEPT ![s] = -1]
  /\ UNCHANGED <<fixed, shared, pc, call, setting, default, made, calls, own>>

InstallModel(s) ==
  /\ s \in planned /\ since[s] = 0 /\ s \in ModelSession
  /\ default' = s
  /\ since' = [since EXCEPT ![s] = Now]
  /\ UNCHANGED <<runtime, setting, hook, stack, base, closures, locals, calls, own>>

RestoreModel(s) ==
  /\ since[s] > 0 /\ s \in ModelSession
  /\ default' = None
  /\ handle' = Freed(s)
  /\ locals' = Overlapped(s, FALSE)
  /\ since' = [since EXCEPT ![s] = -1]
  /\ UNCHANGED <<runtime, setting, hook, stack, base, made, calls, own>>

\* The application sets nn's mode, while no session is installed.
SetMode ==
  /\ base = None
  /\ mode' \in Mode \ {mode}
  /\ own' = mode'
  /\ UNCHANGED <<fixed, shared, pc, call, setting, manager, closures, locals, calls, since>>

-----------------------------------------------------------------------------
\* A layer is evaluated: nn or models has found a hook and calls it.
Start(c, r, s, place) ==
  /\ pc[c] = "idle" /\ calls[c] < MaxCalls[c]
  /\ calls' = [calls EXCEPT ![c] = @ + 1]
  /\ Goto(c, place)
  /\ call' = [call EXCEPT ![c] = [NoCall EXCEPT !.req = r]]
  /\ LET others == {o \in Caller \ {c} : InFlight(o)}
     IN locals' = [o \in Caller |->
                    IF o = c THEN [NoLocals EXCEPT !.alone = others = {}, !.session = s]
                    ELSE [locals[o] EXCEPT !.alone = FALSE]]
  /\ UNCHANGED <<fixed, mode, shared, setting, manager, closures, aux>>

NNLinear(c) == hook = "dispatch" /\ \E r \in conf.layers : Start(c, r, None, "dispatch")
StandardLinear(c) == default # None /\ \E r \in conf.layers : Start(c, r, default, "session")

Ends(c, outcome) ==
  /\ Goto(c, "ended")
  /\ locals' = [locals EXCEPT ![c].outcome = outcome]

\* Mutant of PassOn: the hook below is forgotten.
PassOnDropped(c, next) == Ends(c, "plain")

\* Nobody has handled the call: the original hook is asked, or the layer multiplies.
PassOn(c, next) == Ends(c, IF next THEN "foreign" ELSE "plain")

\* linearHookDispatch looks under the mutex who is on top and what comes after.
Dispatch(c) ==
  /\ pc[c] = "dispatch"
  /\ LET s == IF stack = << >> THEN None ELSE stack[Len(stack)]
         next == base # None /\ base.foreign
     IN IF s = None THEN PassOn(c, next)
        ELSE /\ Goto(c, "session")
             /\ locals' = [locals EXCEPT ![c].session = s, ![c].next = next]
  /\ UNCHANGED <<fixed, mode, shared, call, setting, manager, closures, calls, aux>>

\* runContext. The mode is read here, and once more by the router.
RunContext(c) ==
  /\ pc[c] = "session"
  /\ \/ locals[c].session \in Bare /\ PassOn(c, locals[c].next) /\ UNCHANGED call
     \/ /\ locals[c].session \notin Bare /\ mode = "training"
        /\ Goto(c, "take") /\ UNCHANGED <<call, locals>>
     \/ /\ locals[c].session \notin Bare /\ mode # "training"
        /\ Goto(c, "linear")
        /\ call' = [call EXCEPT ![c].withVJP = TRUE]
        /\ UNCHANGED locals
  /\ UNCHANGED <<fixed, mode, shared, setting, manager, closures, calls, aux>>

\* An error: nn gets it, models falls back to its own product.
Fails(c) == Ends(c, IF locals[c].session \in ModelSession THEN "plain" ELSE "error")

\* trainingLinear takes the closure under vjpMu, made on the first call.
TakeClosure(c) ==
  /\ pc[c] = "take"
  /\ LET s == locals[c].session
         n == IF handle[s] = 0 THEN made[s] + 1 ELSE handle[s]
     IN /\ handle' = [handle EXCEPT ![s] = n]
        /\ made' = [made EXCEPT ![s] = IF n > @ THEN n ELSE @]
        /\ locals' = [locals EXCEPT ![c].held = n]
  /\ Goto(c, "closure")
  /\ UNCHANGED <<fixed, mode, shared, call, setting, manager, calls, aux>>

TakeClosureFails(c) ==
  /\ pc[c] = "take" /\ handle[locals[c].session] = 0 /\ May("wrap")
  /\ Fails(c)
  /\ UNCHANGED <<fixed, mode, shared, call, setting, manager, closures, calls, aux>>

\* The closure is applied: linearForward runs inside.
ApplyClosure(c) ==
  /\ pc[c] = "closure"
  /\ Goto(c, "linear")
  /\ UNCHANGED <<fixed, mode, shared, call, setting, manager, closures, locals, calls, aux>>

InClosure(c) == locals[c].held # 0

\* LinearHookStats.record asks the executor for its last telemetry.
Recorded(c) ==
  /\ locals' = [locals EXCEPT ![c].outcome = "answered",
                              ![c].seen = IF call[c].backend = "ane" THEN last.hit ELSE FALSE]
  /\ Goto(c, "ended")

Record(c) ==
  /\ pc[c] = "answered"
  /\ Recorded(c)
  /\ UNCHANGED <<fixed, mode, shared, call, setting, manager, closures, calls, aux>>

\* Inside of the closure an error of linearForward is answered with MLX all the same.
Failed(c) ==
  /\ pc[c] = "failed"
  /\ IF InClosure(c) THEN Goto(c, "answered") /\ Answer(c, "mlx", c, "mlx", "error") /\ UNCHANGED locals
     ELSE Fails(c) /\ UNCHANGED call
  /\ UNCHANGED <<fixed, mode, shared, setting, manager, closures, calls, aux>>

Return(c) ==
  /\ pc[c] = "ended"
  /\ Goto(c, "idle")
  /\ locals' = [locals EXCEPT ![c] = NoLocals]
  /\ call' = [call EXCEPT ![c] = NoCall]
  /\ UNCHANGED <<fixed, mode, shared, setting, manager, closures, calls, aux>>

\* A bound ends the behaviour.
Finished ==
  /\ \A c \in Caller : pc[c] = "idle" /\ calls[c] = MaxCalls[c]
  /\ UNCHANGED vars

RunLinear(c) ==
  RuntimeStep(c) /\ UNCHANGED <<setting, manager, closures, locals, calls, aux>>

Next ==
  \/ \E s \in Session : Install(s) \/ Restore(s) \/ InstallModel(s) \/ RestoreModel(s)
  \/ \E c \in Caller : \/ NNLinear(c) \/ StandardLinear(c) \/ Dispatch(c) \/ RunContext(c)
                       \/ TakeClosure(c) \/ TakeClosureFails(c) \/ ApplyClosure(c)
                       \/ RunLinear(c) \/ Record(c) \/ Failed(c) \/ Return(c)
  \/ SetMode \/ Finished

Spec == Init /\ [][Next]_vars

-----------------------------------------------------------------------------
\* Sessions nest in whatever order they are restored: nn has the manager's hook as long
\* as one is left, with the mode of the one installed last that has a mode, and the
\* original hook and mode again after the last.
Open == {s \in Session \ ModelSession : since[s] > 0}
Latest(sessions) == CHOOSE s \in sessions : \A t \in sessions : since[t] <= since[s]
SessionsNest ==
  LET moded == {s \in Open : ModeOf[s] # None}
  IN /\ hook = IF Open = {} THEN "original" ELSE "dispatch"
     /\ mode = IF moded = {} THEN own ELSE ModeOf[Latest(moded)]
     /\ Open # {} => stack[Len(stack)] = Latest(Open)

\* The closure a training call applies has not been freed, unless its own session was
\* restored during the call: nothing keeps a closure alive for a call on its way.
ClosureAlive ==
  \A c \in Caller :
    (InFlight(c) /\ InClosure(c) /\ locals[c].session \notin locals[c].restored) =>
      handle[locals[c].session] = locals[c].held

\* A call of nn that no session handles reaches the hook that was there before, unless
\* the last session was restored while the call was on its way to it.
BaseHookReached ==
  \A c \in Caller :
    (locals[c].outcome = "plain" /\ locals[c].session \notin ModelSession /\ foreign) =>
      locals[c].emptied

\* Who is said to have answered. A product of MLX in place of the ANE comes with a
\* reason, one of the ANE without. The backend is the one that has computed and the
\* statistics have its own lookup, unless calls overlap: the VJP result and the last
\* telemetry are one for all callers.
Attribution ==
  \A c \in Caller : locals[c].outcome = "answered" =>
    /\ conf.executor # "none" => (call[c].backend = "mlx" <=> call[c].reason # "")
    /\ locals[c].alone => /\ call[c].backend = call[c].y
                          /\ call[c].backend = "ane" => locals[c].seen = call[c].hit
=============================================================================
