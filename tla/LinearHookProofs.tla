------------------------- MODULE LinearHookProofs --------------------------
(***************************************************************************)
(* Proofs about LinearHook, for any number of callers, sessions, layers,   *)
(* runtimes and any bound.                                                 *)
(*                                                                         *)
(* Good and Nested are inductive together: the types, and the stack of     *)
(* sessions in the order of their installation, from which the manager's   *)
(* hook, base and mode follow.  Each further property gets an invariant of *)
(* its own on top of them.                                                 *)
(***************************************************************************)
EXTENDS LinearHook, FiniteSetTheorems, WellFoundedInduction, TLAPS

\* A call that is on its way has one of the runtime's layers.
Called == \A c \in Caller : InFlight(c) => call[c].req \in conf.layers

InLinear == Routing \cup Running

\* What a step of the runtime for c may do to the calls.
Moves(c) ==
  /\ pc' \in [Caller -> PC] /\ pc' = [pc EXCEPT ![c] = pc'[c]]
  /\ pc'[c] \in {"answered", "failed"} \cup (InLinear \ {"linear"})
  /\ call' \in [Caller -> Call] /\ call' = [call EXCEPT ![c] = call'[c]]
  /\ call'[c].req = call[c].req

\* A step of c to another place of Linear, with new locals.
LEMMA GotoMoves ==
  ASSUME TypeOK, NEW c \in Caller,
         NEW place \in {"answered", "failed"} \cup (InLinear \ {"linear"}), Goto(c, place),
         NEW v \in Call, call' = [call EXCEPT ![c] = v], v.req = call[c].req
  PROVE  Moves(c) /\ pc'[c] = place /\ call'[c] = v
<1>1. place \in PC
  BY DEF PC, InLinear
<1> QED
  BY <1>1 DEF Moves, Goto, TypeOK, RuntimeTypeOK

\* MLX answers.
LEMMA AnswerMoves ==
  ASSUME TypeOK, NEW c \in Caller,
         NEW place \in {"answered", "failed"} \cup (InLinear \ {"linear"}), Goto(c, place),
         NEW backend, NEW reason, backend \in Answered,
         reason \in Reason,
         Answer(c, "mlx", c, backend, reason)
  PROVE  /\ Moves(c)
         /\ call'[c] = [call[c] EXCEPT !.y = "mlx", !.from = c, !.backend = backend, !.reason = reason]
<1> DEFINE v == [call[c] EXCEPT !.y = "mlx", !.from = c, !.backend = backend, !.reason = reason]
<1>1. call[c] \in Call
  BY DEF TypeOK, RuntimeTypeOK
<1>2. v \in Call /\ v.req = call[c].req
  BY <1>1 DEF Call, Answered
<1>3. call' = [call EXCEPT ![c] = v]
  BY DEF Answer, TypeOK, RuntimeTypeOK
<1> HIDE DEF v
<1>4. Moves(c) /\ call'[c] = v
  BY <1>2, <1>3, GotoMoves
<1> QED
  BY <1>4 DEF v

\* The place changes and the locals do not.
LEMMA PlainMoves ==
  ASSUME TypeOK, NEW c \in Caller,
         NEW place \in {"answered", "failed"} \cup (InLinear \ {"linear"}), Goto(c, place),
         UNCHANGED call
  PROVE  Moves(c) /\ pc'[c] = place
<1>1. call[c] \in Call /\ call' = [call EXCEPT ![c] = call[c]]
  BY DEF TypeOK, RuntimeTypeOK
<1> QED
  BY <1>1, GotoMoves

\* routeLinear's and linearANE's ways to the fallback.
LEMMA FallBackMoves ==
  ASSUME TypeOK, NEW c \in Caller, NEW reason \in {"router", "error"}, FallBack(c, reason)
  PROVE  Moves(c)
<1>1. CASE conf.fallback
  <2>1. Goto(c, "answered") /\ Answer(c, "mlx", c, "mlx", reason)
    BY <1>1 DEF FallBack
  <2>2. "mlx" \in Answered /\ reason \in Reason
    BY DEF Answered, Reason
  <2> QED
    BY <2>1, <2>2, AnswerMoves
<1>2. CASE ~conf.fallback
  <2>1. Goto(c, "failed") /\ UNCHANGED call
    BY <1>2 DEF FallBack
  <2> QED
    BY <2>1, PlainMoves
<1> QED
  BY <1>1, <1>2

\* What fails on the ANE stays inside of Linear.
LEMMA FailANEMoves ==
  ASSUME TypeOK, NEW c \in Caller, FailANE(c)
  PROVE  Moves(c)
<1>1. CASE call[c].withVJP
  <2>1. Goto(c, "publish") /\ Answer(c, "mlx", c, "", "error")
    BY <1>1 DEF FailANE
  <2>2. "" \in Answered /\ "publish" \in InLinear \ {"linear"} /\ "error" \in Reason
    BY DEF Answered, InLinear, Running, Reason
  <2> QED
    BY <2>1, <2>2, AnswerMoves
<1>2. CASE ~call[c].withVJP
  BY <1>2, FallBackMoves DEF FailANE
<1> QED
  BY <1>1, <1>2

\* A step of the runtime is one of a call inside of Linear, and keeps the types.
LEMMA RuntimeMoves ==
  ASSUME TypeOK, Called, NEW c \in Caller, RuntimeStep(c)
  PROVE  /\ pc[c] \in InLinear /\ Moves(c) /\ UNCHANGED <<fixed, mode>>
         /\ RuntimeTypeOK'
<1> USE LinearAssumption
<1>0. /\ call[c] \in Call /\ pc[c] \in PC /\ conf \in Conf
      /\ pc[c] # "idle" => KeyOf(call[c].req) \in Keys
  BY DEF TypeOK, RuntimeTypeOK, Called, InFlight, Keys
<1> DEFINE Rest == /\ models' \subseteq Keys' /\ IsFiniteSet(models')
                   /\ busy' \in [Keys' -> Caller \cup {None}] /\ packed' \in [Keys' -> Caller \cup {None}]
                   /\ last' \in [hit : BOOLEAN, by : Caller \cup {None}]
                   /\ vjp' \in Answered \X Reason
                   /\ vjpCache' \in Caller \cup {None} /\ wrapped' \subseteq Caller \cup {None}
<1>a. UNCHANGED fixed => UNCHANGED Keys
  BY DEF Keys, KeyOf, RouteShape, AlignDimUp, fixed
<1>b. UNCHANGED <<fixed, shared>> => Rest
  BY <1>a DEF Rest, shared, TypeOK, RuntimeTypeOK
<1>c. UNCHANGED <<fixed, mode>> /\ Moves(c) /\ Rest => RuntimeTypeOK'
  <2> SUFFICES ASSUME UNCHANGED <<fixed, mode>>, Moves(c), Rest PROVE RuntimeTypeOK'
    OBVIOUS
  <2>1. pc' \in [Caller -> PC] /\ call' \in [Caller -> Call'] 
    BY DEF Moves, Call, fixed
  <2> QED
    BY <2>1 DEF Rest, RuntimeTypeOK, TypeOK, fixed
<1> HIDE DEF Rest
<1> SUFFICES pc[c] \in InLinear /\ Moves(c) /\ UNCHANGED <<fixed, mode>> /\ Rest
  BY <1>c
<1> USE DEF InLinear, Routing, Running
<1>1. CASE NoExecutor(c)
  <2>1. Moves(c)
    BY <1>1, AnswerMoves DEF NoExecutor, Answered, Reason
  <2> QED
    BY <1>1, <1>b, <2>1 DEF NoExecutor
<1>2. CASE Unrouted(c)
  BY <1>2, <1>b, PlainMoves DEF Unrouted
<1>3. CASE RouteSize(c)
  <2> DEFINE v == [call[c] EXCEPT !.cfg = ActiveRouter, !.size = Cardinality(models)]
  <2>1. ActiveRouter \in RouteConfig /\ Cardinality(models) \in Nat
    BY <1>0, <1>3, FS_CardinalityType DEF ActiveRouter, RouteSize, Conf, TypeOK, RuntimeTypeOK
  <2>2. v \in Call /\ v.req = call[c].req
    BY <1>0, <2>1 DEF Call
  <2>3. call' = [call EXCEPT ![c] = v]
    BY <1>3 DEF RouteSize, TypeOK, RuntimeTypeOK
  <2> HIDE DEF v
  <2> QED
    BY <1>3, <1>b, <2>2, <2>3, GotoMoves DEF RouteSize
<1>4. CASE RouteDecide(c)
  <2>1. Moves(c)
    BY <1>4, PlainMoves, FallBackMoves DEF RouteDecide
  <2> QED
    BY <1>4, <1>b, <2>1 DEF RouteDecide
<1>5. CASE Admit(c)
  <2>1. Moves(c)
    BY <1>5, PlainMoves DEF Admit
  <2>2. vjp \in Answered \X Reason /\ <<"", "">> \in Answered \X Reason
    BY DEF Answered, Reason, TypeOK, RuntimeTypeOK
  <2>3. vjp' = <<"", "">> \/ vjp' = vjp
    BY <1>5 DEF Admit
  <2> QED
    BY <1>5, <1>a, <2>1, <2>2, <2>3 DEF Admit, Rest, TypeOK, RuntimeTypeOK
<1>6. CASE CheckCache(c)
  <2>1. Moves(c)
    BY <1>6, PlainMoves DEF CheckCache
  <2> QED
    BY <1>6, <1>b, <2>1 DEF CheckCache
<1>7. CASE NewCache(c)
  BY <1>7, <1>a, PlainMoves DEF NewCache, Rest, TypeOK, RuntimeTypeOK
<1>8. CASE UseCache(c)
  <2> DEFINE v == [call[c] EXCEPT !.cache = vjpCache]
  <2>1. v \in Call /\ v.req = call[c].req
    BY <1>0 DEF Call, TypeOK, RuntimeTypeOK
  <2>2. call' = [call EXCEPT ![c] = v]
    BY <1>8 DEF UseCache, TypeOK, RuntimeTypeOK
  <2> HIDE DEF v
  <2> QED
    BY <1>8, <1>b, <2>1, <2>2, GotoMoves DEF UseCache
<1>9. CASE Wrap(c)
  <2>1. call[c].cache \in Caller \cup {None}
    BY <1>0 DEF Call
  <2>2. Moves(c)
    BY <1>9, PlainMoves DEF Wrap
  <2> QED
    BY <1>9, <1>a, <2>1, <2>2 DEF Wrap, Rest, TypeOK, RuntimeTypeOK
<1>10. CASE WrapFails(c)
  BY <1>10, <1>b, FallBackMoves DEF WrapFails
<1>11. CASE Apply(c)
  <2>1. CASE Goto(c, "lookup") /\ UNCHANGED call
    BY <1>11, <1>b, <2>1, PlainMoves DEF Apply
  <2>2. CASE Goto(c, "publish") /\ Answer(c, "mlx", c, "", "compile trace")
    <3>1. "" \in Answered /\ "compile trace" \in Reason
      BY DEF Answered, Reason
    <3>2. Moves(c)
      BY <2>2, <3>1, AnswerMoves
    <3> QED
      BY <1>11, <1>b, <3>2 DEF Apply
  <2> QED
    BY <1>11, <2>1, <2>2 DEF Apply
<1>12. CASE Lookup(c)
  <2> DEFINE hit == KeyOf(call[c].req) \in models
             v == [call[c] EXCEPT !.hit = hit]
  <2>0. hit \in BOOLEAN
    OBVIOUS
  <2>2. call' = [call EXCEPT ![c] = v] /\ last' = [hit |-> hit, by |-> c]
    BY <1>12 DEF Lookup, TypeOK, RuntimeTypeOK
  <2> HIDE DEF hit
  <2>1. v \in Call /\ v.req = call[c].req
    BY <1>0, <2>0 DEF Call
  <2> HIDE DEF v
  <2>3. Moves(c)
    BY <1>12, <2>1, <2>2, GotoMoves DEF Lookup
  <2>4. models' \subseteq Keys /\ IsFiniteSet(models')
    BY <1>0, <1>12, FS_AddElement DEF Lookup, TypeOK, RuntimeTypeOK
  <2>5. last' \in [hit : BOOLEAN, by : Caller \cup {None}]
    BY <2>0, <2>2
  <2> QED
    BY <1>12, <1>a, <2>3, <2>4, <2>5 DEF Lookup, Rest, TypeOK, RuntimeTypeOK
<1>13. CASE BuildFails(c)
  BY <1>13, <1>b, FailANEMoves DEF BuildFails
<1>14. CASE Pack(c)
  <2>1. Moves(c)
    BY <1>14, PlainMoves DEF Pack
  <2>2. busy' \in [Keys -> Caller \cup {None}] /\ packed' \in [Keys -> Caller \cup {None}]
    BY <1>0, <1>14 DEF Pack, TypeOK, RuntimeTypeOK
  <2> QED
    BY <1>14, <1>a, <2>1, <2>2 DEF Pack, Rest, TypeOK, RuntimeTypeOK
<1>15. CASE Eval(c)
  <2> DEFINE v == [call[c] EXCEPT !.y = "ane", !.from = Operands(c)]
  <2>1. Operands(c) \in Caller \cup {None}
    BY <1>0, <1>15 DEF Operands, Eval, TypeOK, RuntimeTypeOK
  <2>2. v \in Call /\ v.req = call[c].req
    BY <1>0, <2>1 DEF Call, Answered
  <2>3. call' = [call EXCEPT ![c] = v]
    BY <1>15 DEF Eval, TypeOK, RuntimeTypeOK
  <2> HIDE DEF v
  <2>4. Moves(c)
    BY <1>15, <2>2, <2>3, GotoMoves DEF Eval
  <2>5. busy' \in [Keys -> Caller \cup {None}]
    BY <1>0, <1>15 DEF Eval, Unlocked, TypeOK, RuntimeTypeOK
  <2> QED
    BY <1>15, <1>a, <2>4, <2>5 DEF Eval, Rest, TypeOK, RuntimeTypeOK
<1>16. CASE EvalFails(c)
  <2>1. Moves(c)
    BY <1>16, PlainMoves DEF EvalFails
  <2>2. busy' \in [Keys -> Caller \cup {None}]
    BY <1>0, <1>16 DEF EvalFails, Unlocked, TypeOK, RuntimeTypeOK
  <2> QED
    BY <1>16, <1>a, <2>1, <2>2 DEF EvalFails, Rest, TypeOK, RuntimeTypeOK
<1>17. CASE Telemetry(c)
  <2>1. last' \in [hit : BOOLEAN, by : Caller \cup {None}]
    BY <1>0, <1>17 DEF Telemetry, Call
  <2>2. ASSUME FailANE(c) PROVE Moves(c)
    BY <2>2, FailANEMoves
  <2>3. ASSUME Goto(c, "publish"), UNCHANGED call PROVE Moves(c)
    BY <2>3, PlainMoves
  <2>4. ASSUME Goto(c, "answered"), call' = [call EXCEPT ![c].backend = "ane"] PROVE Moves(c)
    <3> DEFINE v == [call[c] EXCEPT !.backend = "ane"]
    <3>1. v \in Call /\ v.req = call[c].req
      BY <1>0 DEF Call, Answered
    <3>2. call' = [call EXCEPT ![c] = v]
      BY <2>4 DEF TypeOK, RuntimeTypeOK
    <3> HIDE DEF v
    <3> QED
      BY <2>4, <3>1, <3>2, GotoMoves
  <2>5. Moves(c)
    BY <1>17, <2>2, <2>3, <2>4 DEF Telemetry
  <2> QED
    BY <1>17, <1>a, <2>1, <2>5 DEF Telemetry, Rest, TypeOK, RuntimeTypeOK
<1>18. CASE Publish(c)
  <2>1. Moves(c)
    BY <1>18, PlainMoves DEF Publish
  <2>2. vjp' \in Answered \X Reason
    BY <1>0, <1>18 DEF Publish, Call
  <2> QED
    BY <1>18, <1>a, <2>1, <2>2 DEF Publish, Rest, TypeOK, RuntimeTypeOK
<1>19. CASE Result(c)
  <2>0. vjp[1] \in Answered /\ vjp[2] \in Reason /\ "ane" \in Answered /\ "" \in Reason
    BY DEF Answered, Reason, TypeOK, RuntimeTypeOK
  <2>1. Attributed(call[c]) \in Call /\ Attributed(call[c]).req = call[c].req
    BY <1>0, <2>0 DEF Attributed, Call
  <2>2. call' = [call EXCEPT ![c] = Attributed(call[c])]
    BY <1>19 DEF Result, TypeOK, RuntimeTypeOK
  <2> QED
    BY <1>19, <1>b, <2>1, <2>2, GotoMoves DEF Result
<1>20. QED
  BY <1>1, <1>2, <1>3, <1>4, <1>5, <1>6, <1>7, <1>8, <1>9, <1>10, <1>11, <1>12, <1>13, <1>14,
     <1>15, <1>16, <1>17, <1>18, <1>19 DEF RuntimeStep

-----------------------------------------------------------------------------
\* A nonempty set of indices has a largest element.
LEMMA Maximum ==
  ASSUME NEW n \in Nat, NEW S, S \subseteq 1..n, S # {}
  PROVE  \E i \in S : \A j \in S : j <= i
<1> DEFINE T == {n - i : i \in S}
           Less == {ss \in Nat \X Nat : ss[1] < ss[2]}
<1>0. IsWellFoundedOn(Less, Nat)
  BY NatLessThanWellFounded DEF OpToRel
<1>1. T \subseteq Nat /\ T # {}
  <2>1. \A i \in S : n - i \in Nat
    OBVIOUS
  <2>2. PICK i \in S : TRUE
    OBVIOUS
  <2>3. n - i \in T
    OBVIOUS
  <2> QED
    BY <2>1, <2>3
<1>2. \E x \in T : \A y \in T : <<y, x>> \notin Less
  <2> HIDE DEF T, Less
  <2> QED
    BY <1>0, <1>1, WFMin
<1>3. PICK x \in T : \A y \in T : <<y, x>> \notin Less
  BY <1>2
<1>4. PICK i \in S : x = n - i
  BY <1>3
<1>5. ASSUME NEW j \in S PROVE j <= i
  <2>1. n - j \in T /\ ~(n - j < x)
    BY <1>1, <1>3
  <2> QED
    BY <1>4, <2>1
<1> QED
  BY <1>5

\* What CHOOSE picks in TopMode is the last session of the stack that has a mode.
LEMMA TopModeIs ==
  ASSUME NEW sessions \in Seq(Session), NEW otherwise
  PROVE  \/ /\ TopMode(sessions, otherwise) = otherwise
            /\ \A i \in DOMAIN sessions : ModeOf[sessions[i]] = None
         \/ \E i \in DOMAIN sessions :
              /\ TopMode(sessions, otherwise) = ModeOf[sessions[i]] /\ ModeOf[sessions[i]] # None
              /\ \A j \in DOMAIN sessions : ModeOf[sessions[j]] # None => j <= i
<1> DEFINE moded == {i \in DOMAIN sessions : ModeOf[sessions[i]] # None}
<1>1. CASE moded = {}
  BY <1>1 DEF TopMode
<1>2. CASE moded # {}
  <2>1. \E i \in moded : \A j \in moded : j <= i
    <3>1. Len(sessions) \in Nat /\ moded \subseteq 1..Len(sessions)
      OBVIOUS
    <3> HIDE DEF moded
    <3> QED
      BY <1>2, <3>1, Maximum
  <2> DEFINE i == CHOOSE i \in moded : \A j \in moded : j <= i
  <2>2. i \in moded /\ \A j \in moded : j <= i
    <3> HIDE DEF moded
    <3> QED
      BY <2>1
  <2>3. TopMode(sessions, otherwise) = ModeOf[sessions[i]]
    BY <1>2 DEF TopMode
  <2> HIDE DEF i
  <2> QED
    BY <2>2, <2>3
<1> QED
  BY <1>1, <1>2

\* The mode of a stack is a mode.
LEMMA TopModeType ==
  ASSUME NEW sessions \in Seq(Session), NEW otherwise \in Mode
  PROVE  TopMode(sessions, otherwise) \in Mode
BY TopModeIs, HookAssumption

\* A stack without one of its sessions is one shorter.
LEMMA WithoutType ==
  ASSUME NEW T, NEW sessions \in Seq(T), NEW s, Len(sessions) > 0
  PROVE  /\ Without(sessions, s) \in Seq(T)
         /\ Len(Without(sessions, s)) = Len(sessions) - 1
<1> DEFINE i == CHOOSE i \in DOMAIN sessions : sessions[i] = s
<1> HIDE DEF i
<1>1. Without(sessions, s) = [j \in 1..(Len(sessions) - 1) |-> sessions[IF j < i THEN j ELSE j + 1]]
  BY DEF Without, i
<1>2. \A j \in 1..(Len(sessions) - 1) : j \in DOMAIN sessions /\ j + 1 \in DOMAIN sessions
  OBVIOUS
<1>3. \A j \in 1..(Len(sessions) - 1) : sessions[IF j < i THEN j ELSE j + 1] \in T
  BY <1>2
<1> QED
  BY <1>1, <1>3

-----------------------------------------------------------------------------
\* A call that has been dispatched and has not ended has its session.
Located == \A c \in Caller : pc[c] \notin {"idle", "dispatch", "ended"} => locals[c].session \in Session

Good == TypeOK /\ Called /\ Located

\* A step of one call that stays within its own locals, and the closures, keeps the types.
LEMMA CallStep ==
  ASSUME Good, NEW c \in Caller, NEW place \in PC, Goto(c, place),
         NEW v \in Call, call' = [call EXCEPT ![c] = v],
         NEW w \in Locals, locals' = [locals EXCEPT ![c] = w],
         place # "idle" => v.req \in conf.layers,
         place \notin {"idle", "dispatch", "ended"} => w.session \in Session,
         UNCHANGED <<fixed, mode, shared, setting, manager, calls, aux>>,
         handle' \in [Session -> Nat], made' \in [Session -> Nat]
  PROVE  /\ Good'
         /\ pc' = [pc EXCEPT ![c] = place] /\ call'[c] = v /\ locals'[c] = w
<1>1. UNCHANGED Keys /\ UNCHANGED Call
  BY DEF Keys, KeyOf, RouteShape, AlignDimUp, Call, fixed
<1>2. RuntimeTypeOK'
  <2>1. pc' \in [Caller -> PC] /\ call' \in [Caller -> Call]
    BY DEF Goto, Good, TypeOK, RuntimeTypeOK
  <2> QED
    BY <1>1, <2>1 DEF Good, TypeOK, RuntimeTypeOK, fixed, shared
<1>3. locals' \in [Caller -> Locals]
  BY DEF Good, TypeOK
<1>4. TypeOK'
  BY <1>2, <1>3 DEF Good, TypeOK, fixed, setting, manager, aux
<1>5. pc' = [pc EXCEPT ![c] = place] /\ call'[c] = v /\ locals'[c] = w /\ pc'[c] = place
  BY DEF Goto, Good, TypeOK, RuntimeTypeOK
<1>6. Called' /\ Located'
  BY <1>5 DEF Good, Called, Located, InFlight, TypeOK, RuntimeTypeOK, fixed
<1> QED
  BY <1>4, <1>5, <1>6 DEF Good

\* The ends of a call.
LEMMA EndStep ==
  ASSUME Good, NEW c \in Caller, pc[c] # "idle",
         NEW outcome \in {"answered", "plain", "foreign", "error"}, Ends(c, outcome),
         UNCHANGED <<fixed, mode, shared, call, setting, manager, closures, calls, aux>>
  PROVE  /\ Good'
         /\ pc' = [pc EXCEPT ![c] = "ended"]
         /\ locals'[c] = [locals[c] EXCEPT !.outcome = outcome]
<1> DEFINE w == [locals[c] EXCEPT !.outcome = outcome]
           v == call[c]
<1>1. locals[c] \in Locals /\ v \in Call /\ v.req \in conf.layers /\ "ended" \in PC
  BY DEF Good, TypeOK, RuntimeTypeOK, Called, InFlight, PC
<1>2. w \in Locals
  BY <1>1 DEF Locals
<1>3. locals' = [locals EXCEPT ![c] = w] /\ call' = [call EXCEPT ![c] = v]
  BY DEF Ends, Good, TypeOK, RuntimeTypeOK
<1>4. handle' \in [Session -> Nat] /\ made' \in [Session -> Nat] /\ Goto(c, "ended")
  BY DEF closures, Ends, Good, TypeOK
<1> HIDE DEF w, v
<1>5. Good' /\ pc' = [pc EXCEPT ![c] = "ended"] /\ locals'[c] = w
  BY <1>1, <1>2, <1>3, <1>4, CallStep
<1> QED
  BY <1>5 DEF w

HookStep(c) ==
  \/ Dispatch(c) \/ RunContext(c) \/ TakeClosure(c) \/ TakeClosureFails(c) \/ ApplyClosure(c)
  \/ Record(c) \/ Failed(c) \/ Return(c)

\* The steps of the hook around Linear keep the types.
LEMMA HookSteps ==
  ASSUME Good, NEW c \in Caller, HookStep(c)
  PROVE  Good'
<1> USE HookAssumption
<1>0. /\ locals[c] \in Locals /\ call[c] \in Call /\ pc[c] \in PC
      /\ pc[c] # "idle" => call[c].req \in conf.layers
      /\ pc[c] \notin {"idle", "dispatch", "ended"} => locals[c].session \in Session
      /\ handle \in [Session -> Nat] /\ made \in [Session -> Nat]
  BY DEF Good, TypeOK, RuntimeTypeOK, Called, Located, InFlight
<1>a. call = [call EXCEPT ![c] = call[c]] /\ locals = [locals EXCEPT ![c] = locals[c]]
  BY DEF Good, TypeOK, RuntimeTypeOK
<1>b. {"idle", "session", "take", "closure", "linear", "answered", "failed", "ended"} \subseteq PC
  BY DEF PC, Routing
<1>c. ASSUME NEW next, PassOn(c, next), pc[c] # "idle",
             UNCHANGED <<fixed, mode, shared, call, setting, manager, closures, calls, aux>>
      PROVE  Good'
  BY <1>c, EndStep DEF PassOn
<1>d. ASSUME Fails(c), pc[c] # "idle",
             UNCHANGED <<fixed, mode, shared, call, setting, manager, closures, calls, aux>>
      PROVE  Good'
  BY <1>d, EndStep DEF Fails
<1>1. CASE Dispatch(c)
  <2> DEFINE s == IF stack = << >> THEN None ELSE stack[Len(stack)]
             next == base # None /\ base.foreign
             w == [locals[c] EXCEPT !.session = s, !.next = next]
  <2>1. CASE s = None
    BY <1>1, <1>c, <2>1 DEF Dispatch
  <2>2. CASE s # None
    <3>1. s \in Session /\ next \in BOOLEAN
      BY <2>2 DEF Good, TypeOK, Base
    <3>2. Goto(c, "session") /\ locals' = [locals EXCEPT ![c] = w]
      BY <1>1, <2>2 DEF Dispatch, Good, TypeOK
    <3> HIDE DEF s, next
    <3>3. w \in Locals /\ w.session \in Session
      BY <1>0, <3>1 DEF Locals
    <3> HIDE DEF w
    <3> QED
      BY <1>0, <1>1, <1>a, <1>b, <3>2, <3>3, CallStep DEF Dispatch, closures
  <2> QED
    BY <2>1, <2>2
<1>2. CASE RunContext(c)
  <2>1. CASE locals[c].session \in Bare
    BY <1>2, <1>c, <2>1 DEF RunContext
  <2>2. CASE locals[c].session \notin Bare /\ mode = "training"
    BY <1>0, <1>2, <1>a, <1>b, <2>2, CallStep DEF RunContext, closures
  <2>3. CASE locals[c].session \notin Bare /\ mode # "training"
    <3> DEFINE v == [call[c] EXCEPT !.withVJP = TRUE]
    <3>1. v \in Call /\ v.req = call[c].req
      BY <1>0 DEF Call
    <3>2. call' = [call EXCEPT ![c] = v] /\ Goto(c, "linear") /\ UNCHANGED locals
      BY <1>2, <2>3 DEF RunContext, Good, TypeOK, RuntimeTypeOK
    <3> HIDE DEF v
    <3> QED
      BY <1>0, <1>2, <1>a, <1>b, <3>1, <3>2, CallStep DEF RunContext, closures
  <2> QED
    BY <2>1, <2>2, <2>3
<1>3. CASE TakeClosure(c)
  <2> DEFINE s == locals[c].session
             n == IF handle[s] = 0 THEN made[s] + 1 ELSE handle[s]
             w == [locals[c] EXCEPT !.held = n]
  <2>1. s \in Session /\ n \in Nat
    BY <1>0, <1>3 DEF TakeClosure
  <2>2. /\ handle' = [handle EXCEPT ![s] = n]
        /\ made' = [made EXCEPT ![s] = IF n > @ THEN n ELSE @]
        /\ locals' = [locals EXCEPT ![c] = w] /\ Goto(c, "closure")
    BY <1>3 DEF TakeClosure, Good, TypeOK
  <2> HIDE DEF n
  <2>3. w \in Locals /\ w.session \in Session
    BY <1>0, <2>1 DEF Locals
  <2> HIDE DEF w
  <2>4. handle' \in [Session -> Nat] /\ made' \in [Session -> Nat]
    BY <1>0, <2>1, <2>2
  <2> QED
    BY <1>0, <1>3, <1>a, <1>b, <2>2, <2>3, <2>4, CallStep DEF TakeClosure
<1>4. CASE TakeClosureFails(c)
  BY <1>4, <1>d DEF TakeClosureFails
<1>5. CASE ApplyClosure(c)
  BY <1>0, <1>5, <1>a, <1>b, CallStep DEF ApplyClosure, closures
<1>6. CASE Record(c)
  <2> DEFINE seen == IF call[c].backend = "ane" THEN last.hit ELSE FALSE
             w == [locals[c] EXCEPT !.outcome = "answered", !.seen = seen]
  <2>1. seen \in BOOLEAN
    BY DEF Good, TypeOK, RuntimeTypeOK
  <2>2. locals' = [locals EXCEPT ![c] = w] /\ Goto(c, "ended")
    BY <1>6 DEF Record, Recorded, Good, TypeOK
  <2> HIDE DEF seen
  <2>3. w \in Locals
    BY <1>0, <2>1 DEF Locals
  <2> HIDE DEF w
  <2> QED
    BY <1>0, <1>6, <1>a, <1>b, <2>2, <2>3, CallStep DEF Record, closures
<1>7. CASE Failed(c)
  <2>1. CASE InClosure(c)
    <3> DEFINE v == [call[c] EXCEPT !.y = "mlx", !.from = c, !.backend = "mlx", !.reason = "error"]
    <3>1. v \in Call /\ v.req = call[c].req
      BY <1>0 DEF Call, Answered, Reason
    <3>2. call' = [call EXCEPT ![c] = v] /\ Goto(c, "answered") /\ UNCHANGED locals
      BY <1>7, <2>1 DEF Failed, Answer, Good, TypeOK, RuntimeTypeOK
    <3> HIDE DEF v
    <3> QED
      BY <1>0, <1>7, <1>a, <1>b, <3>1, <3>2, CallStep DEF Failed, closures
  <2>2. CASE ~InClosure(c)
    BY <1>7, <1>d, <2>2 DEF Failed
  <2> QED
    BY <2>1, <2>2
<1>8. CASE Return(c)
  <2>1. NoLocals \in Locals /\ NoCall \in Call
    BY DEF NoLocals, Locals, NoCall, Call, Answered, Reason
  <2>2. call' = [call EXCEPT ![c] = NoCall] /\ locals' = [locals EXCEPT ![c] = NoLocals] /\ Goto(c, "idle")
    BY <1>8 DEF Return
  <2> QED
    BY <1>0, <1>8, <1>b, <2>1, <2>2, CallStep DEF Return, closures
<1> QED
  BY <1>1, <1>2, <1>3, <1>4, <1>5, <1>6, <1>7, <1>8 DEF HookStep

-----------------------------------------------------------------------------
\* The stack holds the open sessions in the order of their installation, and the
\* manager's state follows from it.
Nested ==
  /\ \A i \in DOMAIN stack : since[stack[i]] > 0
  /\ \A i, j \in DOMAIN stack : i < j => since[stack[i]] < since[stack[j]]
  /\ \A s \in Open : \E i \in DOMAIN stack : stack[i] = s
  /\ \A s \in Session : since[s] < Now
  /\ base = IF stack = << >> THEN None ELSE [foreign |-> foreign, mode |-> own]
  /\ hook = IF stack = << >> THEN "original" ELSE "dispatch"
  /\ mode = TopMode(stack, own)

\* With no session installed the mode is the one of before.
LEMMA TopModeEmpty == \A otherwise : TopMode(<< >>, otherwise) = otherwise
BY DEF TopMode

\* Installations are numbered from one.
LEMMA NowType ==
  ASSUME Good
  PROVE  Now \in Nat /\ Now > 0 /\ IsFiniteSet({s \in Session : since[s] # 0})
<1>1. IsFiniteSet({s \in Session : since[s] # 0})
  BY FS_Subset, HookAssumption
<1> QED
  BY <1>1, FS_CardinalityType DEF Now

\* An installation moves the clock on.
LEMMA NowInstalled ==
  ASSUME Good, NEW s \in Session, since[s] = 0, since' = [since EXCEPT ![s] = Now]
  PROVE  Now' = Now + 1
<1> DEFINE Had == {t \in Session : since[t] # 0}
<1>1. since'[s] # 0 /\ \A t \in Session \ {s} : since'[t] = since[t]
  BY NowType DEF Good, TypeOK
<1>2. {t \in Session : since'[t] # 0} = Had \cup {s} /\ s \notin Had
  BY <1>1
<1>3. Cardinality(Had \cup {s}) = Cardinality(Had) + 1 /\ Cardinality(Had) \in Nat
  <2>1. IsFiniteSet(Had)
    BY NowType
  <2> HIDE DEF Had
  <2> QED
    BY <1>2, <2>1, FS_AddElement, FS_CardinalityType
<1> QED
  BY <1>2, <1>3 DEF Now

\* A restore does not.
LEMMA NowRestored ==
  ASSUME Good, NEW s \in Session, since[s] > 0, since' = [since EXCEPT ![s] = -1]
  PROVE  Now' = Now
<1>1. {t \in Session : since'[t] # 0} = {t \in Session : since[t] # 0}
  BY DEF Good, TypeOK
<1> QED
  BY <1>1 DEF Now

\* What stays of the types when neither the runtime's state nor the calls move.
LEMMA CallsStay ==
  ASSUME Good, UNCHANGED <<fixed, shared, pc, call, setting, calls>>,
         mode' \in Mode, hook' \in {"original", "dispatch"},
         stack' \in Seq(Session \ ModelSession), base' \in Base \cup {None},
         default' \in ModelSession \cup {None},
         handle' \in [Session -> Nat], made' \in [Session -> Nat],
         locals' \in [Caller -> Locals],
         \A c \in Caller : locals'[c].session = locals[c].session,
         own' \in Mode, since' \in [Session -> Int]
  PROVE  Good'
<1>1. UNCHANGED Keys /\ UNCHANGED Call
  BY DEF Keys, KeyOf, RouteShape, AlignDimUp, Call, fixed
<1>2. RuntimeTypeOK'
  BY <1>1 DEF Good, TypeOK, RuntimeTypeOK, fixed, shared
<1>3. TypeOK'
  BY <1>2 DEF Good, TypeOK, fixed, setting
<1>4. Called' /\ Located'
  BY DEF Good, Called, Located, InFlight, fixed
<1> QED
  BY <1>3, <1>4 DEF Good

\* A session goes on top of the stack.
LEMMA Installs ==
  ASSUME Good, Nested, NEW s \in Session, Install(s)
  PROVE  Good' /\ Nested'
<1> USE HookAssumption
<1>0. /\ s \notin ModelSession /\ since[s] = 0 /\ stack \in Seq(Session \ ModelSession)
      /\ since \in [Session -> Int] /\ own \in Mode /\ mode \in Mode /\ foreign \in BOOLEAN
  BY DEF Install, Good, TypeOK, RuntimeTypeOK
<1>1. /\ stack' = Append(stack, s) /\ stack' \in Seq(Session \ ModelSession) /\ stack' # << >>
      /\ DOMAIN stack' = 1..(Len(stack) + 1) /\ DOMAIN stack = 1..Len(stack) /\ Len(stack) \in Nat
      /\ stack'[Len(stack) + 1] = s
      /\ \A i \in DOMAIN stack : stack'[i] = stack[i]
  <2>1. stack' = Append(stack, s) /\ s \in Session \ ModelSession
    BY <1>0 DEF Install
  <2>2. DOMAIN stack = 1..Len(stack) /\ Len(stack) \in Nat
    BY <1>0
  <2>3. /\ stack' \in Seq(Session \ ModelSession) /\ Len(stack') = Len(stack) + 1
        /\ DOMAIN stack' = 1..(Len(stack) + 1)
    BY <1>0, <2>1
  <2>4. stack'[Len(stack) + 1] = s /\ \A i \in DOMAIN stack : stack'[i] = stack[i]
    BY <1>0, <2>1, <2>2
  <2>5. stack' # << >>
    BY <2>2, <2>3
  <2> QED
    BY <2>1, <2>2, <2>3, <2>4, <2>5
<1>2. base' = [foreign |-> foreign, mode |-> own] /\ hook' = "dispatch"
  <2>1. CASE stack = << >>
    <3>1. base = None /\ mode = own
      BY <2>1, TopModeEmpty DEF Nested
    <3> QED
      BY <3>1 DEF Install
  <2>2. CASE stack # << >>
    <3>1. base = [foreign |-> foreign, mode |-> own] /\ hook = "dispatch"
      BY <2>2 DEF Nested
    <3>2. base # None
      BY <1>0, <3>1
    <3> QED
      BY <3>1, <3>2 DEF Install
  <2> QED
    BY <2>1, <2>2
<1>3. mode' = TopMode(stack', own)
  BY <1>2 DEF Install
<1>4. since' = [since EXCEPT ![s] = Now] /\ Now \in Nat /\ Now > 0 /\ Now' = Now + 1
  BY NowType, NowInstalled, <1>0 DEF Install
<1>5. since' \in [Session -> Int] /\ since'[s] = Now /\ \A t \in Session \ {s} : since'[t] = since[t]
  BY <1>0, <1>4
<1>6. UNCHANGED <<fixed, shared, pc, call, setting, default, closures, locals, calls, own>>
  BY DEF Install
<1>7. Good'
  <2>1. mode' \in Mode
    <3>1. stack' \in Seq(Session)
      BY <1>1
    <3> QED
      BY <1>0, <1>3, <3>1, TopModeType
  <2>2. base' \in Base \cup {None}
    BY <1>0, <1>2 DEF Base
  <2> QED
    BY <1>1, <1>2, <1>5, <1>6, <2>1, <2>2, CallsStay DEF closures, Good, TypeOK
<1>8. \A i \in DOMAIN stack : stack[i] # s /\ stack[i] \in Session
  BY <1>0 DEF Nested
<1>9. Nested'
  <2>1. \A i \in DOMAIN stack' : since'[stack'[i]] > 0
    BY <1>1, <1>4, <1>5, <1>8 DEF Nested
  <2>2. \A i, j \in DOMAIN stack' : i < j => since'[stack'[i]] < since'[stack'[j]]
    <3> SUFFICES ASSUME NEW i \in DOMAIN stack', NEW j \in DOMAIN stack', i < j
                 PROVE  since'[stack'[i]] < since'[stack'[j]]
      OBVIOUS
    <3>1. i \in DOMAIN stack /\ since'[stack'[i]] = since[stack[i]]
      BY <1>1, <1>5, <1>8
    <3>2. CASE j \in DOMAIN stack
      BY <1>1, <1>5, <1>8, <3>1, <3>2 DEF Nested
    <3>3. CASE j = Len(stack) + 1
      BY <1>1, <1>5, <1>8, <3>1, <3>3 DEF Nested
    <3> QED
      BY <1>1, <3>2, <3>3
  <2>3. \A t \in Open' : \E i \in DOMAIN stack' : stack'[i] = t
    <3> SUFFICES ASSUME NEW t \in Open' PROVE \E i \in DOMAIN stack' : stack'[i] = t
      OBVIOUS
    <3>1. CASE t = s
      BY <1>1, <3>1
    <3>2. CASE t # s
      <4>1. t \in Open
        BY <1>5, <3>2 DEF Open
      <4> QED
        BY <1>1, <4>1 DEF Nested
    <3> QED
      BY <3>1, <3>2
  <2>4. \A t \in Session : since'[t] < Now'
    BY <1>0, <1>4, <1>5 DEF Nested
  <2> QED
    BY <1>1, <1>2, <1>3, <1>6, <2>1, <2>2, <2>3, <2>4 DEF Nested, setting
<1> QED
  BY <1>7, <1>9

\* What a restore notes in the calls on their way.
LEMMA OverlappedType ==
  ASSUME locals \in [Caller -> Locals], NEW s \in Session, NEW empties \in BOOLEAN
  PROVE  /\ Overlapped(s, empties) \in [Caller -> Locals]
         /\ \A c \in Caller : /\ Overlapped(s, empties)[c].session = locals[c].session
                              /\ Overlapped(s, empties)[c].alone = locals[c].alone
                              /\ Overlapped(s, empties)[c].seen = locals[c].seen
                              /\ Overlapped(s, empties)[c].held = locals[c].held
                              /\ Overlapped(s, empties)[c].outcome = locals[c].outcome
                              /\ Overlapped(s, empties)[c].next = locals[c].next
<1>1. ASSUME NEW c \in Caller
      PROVE  /\ [locals[c] EXCEPT !.restored = @ \cup {s}, !.emptied = @ \/ empties] \in Locals
             /\ locals[c] \in Locals
  <2> DEFINE emptied == locals[c].emptied \/ empties
  <2>1. emptied \in BOOLEAN /\ locals[c] \in Locals
    OBVIOUS
  <2> HIDE DEF emptied
  <2>2. [locals[c] EXCEPT !.restored = @ \cup {s}, !.emptied = emptied] \in Locals
    BY <2>1 DEF Locals
  <2> QED
    BY <2>1, <2>2 DEF emptied
<1>2. Overlapped(s, empties) \in [Caller -> Locals]
  BY <1>1 DEF Overlapped
<1>3. ASSUME NEW c \in Caller
      PROVE  /\ Overlapped(s, empties)[c].session = locals[c].session
             /\ Overlapped(s, empties)[c].alone = locals[c].alone
             /\ Overlapped(s, empties)[c].seen = locals[c].seen
             /\ Overlapped(s, empties)[c].held = locals[c].held
             /\ Overlapped(s, empties)[c].outcome = locals[c].outcome
             /\ Overlapped(s, empties)[c].next = locals[c].next
  <2>1. locals[c] \in Locals
    OBVIOUS
  <2> QED
    BY <2>1 DEF Overlapped, Locals
<1> QED
  BY <1>2, <1>3

\* A restore takes its session off the stack, wherever it is, and leaves the order.
LEMMA Restores ==
  ASSUME Good, Nested, NEW s \in Session, Restore(s)
  PROVE  Good' /\ Nested'
<1> USE HookAssumption
<1>0. /\ s \notin ModelSession /\ since[s] > 0 /\ stack \in Seq(Session \ ModelSession)
      /\ since \in [Session -> Int] /\ own \in Mode /\ mode \in Mode /\ foreign \in BOOLEAN
      /\ DOMAIN stack = 1..Len(stack) /\ Len(stack) \in Nat
  BY DEF Restore, Good, TypeOK, RuntimeTypeOK
<1> DEFINE i == CHOOSE k \in DOMAIN stack : stack[k] = s
<1>1. i \in DOMAIN stack /\ stack[i] = s
  <2>1. s \in Open
    BY <1>0 DEF Open
  <2> QED
    BY <2>1 DEF Nested
<1>2. /\ stack' = [j \in 1..(Len(stack) - 1) |-> stack[IF j < i THEN j ELSE j + 1]]
      /\ stack' \in Seq(Session \ ModelSession) /\ Len(stack') = Len(stack) - 1
  <2>1. stack' = Without(stack, s)
    BY DEF Restore
  <2>2. Len(stack) > 0
    BY <1>0, <1>1
  <2> QED
    BY <1>0, <2>1, <2>2, WithoutType DEF Without
<1>3. \A j \in DOMAIN stack : j # i => stack[j] # s
  BY <1>0, <1>1 DEF Nested
<1> HIDE DEF i
<1>4. /\ DOMAIN stack' = 1..(Len(stack) - 1)
      /\ \A j \in DOMAIN stack' :
           /\ j \in DOMAIN stack /\ j + 1 \in DOMAIN stack
           /\ stack'[j] = IF j < i THEN stack[j] ELSE stack[j + 1]
           /\ stack'[j] \in Session /\ stack'[j] # s
  BY <1>0, <1>1, <1>2, <1>3
<1>5. since' = [since EXCEPT ![s] = -1] /\ Now' = Now /\ Now \in Nat /\ Now > 0
  BY <1>0, NowType, NowRestored DEF Restore
<1>6. since' \in [Session -> Int] /\ since'[s] = -1 /\ \A t \in Session \ {s} : since'[t] = since[t]
  BY <1>0, <1>5
<1>7. base = [foreign |-> foreign, mode |-> own] /\ base \in Base /\ hook = "dispatch"
  <2>1. stack # << >>
    BY <1>0, <1>1
  <2> QED
    BY <1>0, <2>1 DEF Nested, Base
<1>8. /\ UNCHANGED <<fixed, shared, pc, call, setting, default, made, calls, own>>
      /\ handle' = [handle EXCEPT ![s] = 0] /\ locals' = Overlapped(s, stack' = << >>)
  BY DEF Restore, Freed
<1>9. /\ base' = IF stack' = << >> THEN None ELSE [foreign |-> foreign, mode |-> own]
      /\ hook' = IF stack' = << >> THEN "original" ELSE "dispatch"
      /\ mode' = TopMode(stack', own)
  <2>1. CASE stack' = << >>
    BY <1>7, <2>1, TopModeEmpty DEF Restore
  <2>2. CASE stack' # << >>
    BY <1>7, <2>2 DEF Restore
  <2> QED
    BY <2>1, <2>2
<1>10. Good'
  <2>1. mode' \in Mode
    <3>1. stack' \in Seq(Session)
      BY <1>2
    <3> QED
      BY <1>0, <1>9, <3>1, TopModeType
  <2>2. base' \in Base \cup {None}
    BY <1>0, <1>9 DEF Base
  <2>3. locals' \in [Caller -> Locals] /\ \A c \in Caller : locals'[c].session = locals[c].session
    <3> DEFINE empties == stack' = << >>
    <3>1. empties \in BOOLEAN /\ locals \in [Caller -> Locals] /\ locals' = Overlapped(s, empties)
      BY <1>8 DEF Good, TypeOK
    <3> HIDE DEF empties
    <3> QED
      BY <3>1, OverlappedType
  <2>4. handle' \in [Session -> Nat] /\ made' \in [Session -> Nat]
    BY <1>8 DEF Good, TypeOK
  <2> QED
    BY <1>2, <1>6, <1>8, <1>9, <2>1, <2>2, <2>3, <2>4, CallsStay DEF Good, TypeOK
<1>11. Nested'
  <2>1. \A j \in DOMAIN stack' : since'[stack'[j]] > 0
    <3> SUFFICES ASSUME NEW j \in DOMAIN stack' PROVE since'[stack'[j]] > 0
      OBVIOUS
    <3> DEFINE a == IF j < i THEN j ELSE j + 1
    <3>1. a \in DOMAIN stack /\ since'[stack'[j]] = since[stack[a]]
      BY <1>4, <1>6
    <3> QED
      BY <3>1 DEF Nested
  <2>2. \A j, k \in DOMAIN stack' : j < k => since'[stack'[j]] < since'[stack'[k]]
    <3> SUFFICES ASSUME NEW j \in DOMAIN stack', NEW k \in DOMAIN stack', j < k
                 PROVE  since'[stack'[j]] < since'[stack'[k]]
      OBVIOUS
    <3> DEFINE a == IF j < i THEN j ELSE j + 1
               b == IF k < i THEN k ELSE k + 1
    <3>1. a \in DOMAIN stack /\ b \in DOMAIN stack /\ a < b
      BY <1>0, <1>1, <1>4
    <3>2. since'[stack'[j]] = since[stack[a]] /\ since'[stack'[k]] = since[stack[b]]
      BY <1>4, <1>6
    <3> QED
      BY <3>1, <3>2 DEF Nested
  <2>3. \A t \in Open' : \E j \in DOMAIN stack' : stack'[j] = t
    <3> SUFFICES ASSUME NEW t \in Open' PROVE \E j \in DOMAIN stack' : stack'[j] = t
      OBVIOUS
    <3>1. t # s /\ t \in Open
      BY <1>6 DEF Open
    <3>2. PICK k \in DOMAIN stack : stack[k] = t
      BY <3>1 DEF Nested
    <3>3. CASE k < i
      BY <1>0, <1>1, <1>4, <3>2, <3>3
    <3>4. CASE k > i
      <4>1. k - 1 \in DOMAIN stack' /\ ~(k - 1 < i) /\ (k - 1) + 1 = k
        BY <1>0, <1>1, <1>4, <3>4
      <4> QED
        BY <1>4, <3>2, <4>1
    <3> QED
      BY <1>0, <1>1, <3>1, <3>2, <3>3, <3>4
  <2>4. \A t \in Session : since'[t] < Now'
    BY <1>0, <1>5, <1>6 DEF Nested
  <2> QED
    BY <1>8, <1>9, <2>1, <2>2, <2>3, <2>4 DEF Nested, setting
<1> QED
  BY <1>10, <1>11

\* The sessions behind models' default hook are no part of the stack.
LEMMA ModelSessions ==
  ASSUME Good, Nested, NEW s \in Session, InstallModel(s) \/ RestoreModel(s)
  PROVE  Good' /\ Nested'
<1> USE HookAssumption
<1>0. /\ s \in ModelSession /\ stack \in Seq(Session \ ModelSession)
      /\ since \in [Session -> Int]
      /\ \A i \in DOMAIN stack : stack[i] \in Session /\ stack[i] # s
  <2>1. stack \in Seq(Session \ ModelSession) /\ since \in [Session -> Int]
    BY DEF Good, TypeOK
  <2>2. s \in ModelSession
    BY DEF InstallModel, RestoreModel
  <2> QED
    BY <2>1, <2>2
<1>1. Now \in Nat /\ Now > 0
  BY NowType
<1>2. /\ since' \in [Session -> Int] /\ since'[s] < Now' /\ Now <= Now' /\ Now' \in Int
      /\ \A t \in Session \ {s} : since'[t] = since[t]
  <2>1. CASE InstallModel(s)
    <3>1. since[s] = 0 /\ since' = [since EXCEPT ![s] = Now]
      BY <2>1 DEF InstallModel
    <3>2. Now' = Now + 1
      BY <3>1, NowInstalled
    <3> QED
      BY <1>0, <1>1, <3>1, <3>2
  <2>2. CASE RestoreModel(s)
    <3>1. since[s] > 0 /\ since' = [since EXCEPT ![s] = -1]
      BY <2>2 DEF RestoreModel
    <3>2. Now' = Now
      BY <3>1, NowRestored
    <3> QED
      BY <1>0, <1>1, <3>1, <3>2
  <2> QED
    BY <2>1, <2>2
<1>3. UNCHANGED <<runtime, setting, hook, stack, base, made, calls, own>>
  BY DEF InstallModel, RestoreModel, closures
<1>4. /\ locals' \in [Caller -> Locals]
      /\ \A c \in Caller : locals'[c].session = locals[c].session
      /\ handle' \in [Session -> Nat] /\ default' \in ModelSession \cup {None}
  <2>1. locals \in [Caller -> Locals] /\ handle \in [Session -> Nat]
    BY DEF Good, TypeOK
  <2>2. CASE InstallModel(s)
    BY <1>0, <2>1, <2>2 DEF InstallModel, closures
  <2>3. CASE RestoreModel(s)
    <3>1. locals' = Overlapped(s, FALSE) /\ handle' = [handle EXCEPT ![s] = 0] /\ default' = None
      BY <2>3 DEF RestoreModel, Freed
    <3> QED
      BY <2>1, <3>1, OverlappedType
  <2> QED
    BY <2>2, <2>3
<1>5. Good'
  BY <1>2, <1>3, <1>4, CallsStay DEF runtime, Good, TypeOK, RuntimeTypeOK
<1>6. Open' = Open
  BY <1>0, <1>2 DEF Open
<1>7. Nested'
  <2>1. /\ UNCHANGED <<stack, mode, own, base, hook, foreign>>
        /\ UNCHANGED TopMode(stack, own)
    BY <1>3 DEF runtime, setting
  <2>2. \A i \in DOMAIN stack : since'[stack[i]] = since[stack[i]]
    BY <1>0, <1>2
  <2>3. ASSUME NEW t \in Session PROVE since'[t] < Now'
    <3>1. since[t] < Now /\ since[t] \in Int
      BY <1>0 DEF Nested
    <3>2. CASE t # s
      BY <1>1, <1>2, <3>1, <3>2
    <3> QED
      BY <1>2, <3>2
  <2> QED
    BY <1>6, <2>1, <2>2, <2>3 DEF Nested
<1> QED
  BY <1>5, <1>7

\* The application sets the mode only where no session does.
LEMMA SetsMode ==
  ASSUME Good, Nested, SetMode
  PROVE  Good' /\ Nested'
<1> USE HookAssumption
<1>1. stack = << >>
  BY DEF SetMode, Nested, Good, TypeOK
<1>2. UNCHANGED <<fixed, shared, pc, call, setting, manager, closures, locals, calls, since>>
  BY DEF SetMode
<1>3. Good'
  BY <1>2, CallsStay DEF SetMode, manager, closures, Good, TypeOK
<1>4. UNCHANGED <<Open, Now>>
  BY <1>2 DEF Open, Now
<1>5. mode' = TopMode(stack', own')
  BY <1>1, <1>2, TopModeEmpty DEF SetMode, manager
<1>6. Nested'
  BY <1>1, <1>2, <1>4, <1>5 DEF Nested, setting, manager, SetMode
<1> QED
  BY <1>3, <1>6

\* Calls do not touch the manager.
LEMMA NestedStays ==
  ASSUME Nested, UNCHANGED <<stack, since, own, mode, foreign, hook, base>>
  PROVE  Nested'
BY DEF Nested, Open, Now

\* A call begins with one of the layers, a model's with its session.
LEMMA Starts ==
  ASSUME Good, Nested, NEW c \in Caller, NEW r \in conf.layers, NEW s \in Session \cup {None},
         NEW place \in {"dispatch", "session"}, place = "session" => s \in Session,
         Start(c, r, s, place)
  PROVE  Good' /\ Nested'
<1> DEFINE v == [NoCall EXCEPT !.req = r]
           alone == {o \in Caller \ {c} : InFlight(o)} = {}
           w == [NoLocals EXCEPT !.alone = alone, !.session = s]
<1>0. /\ conf \in Conf /\ pc \in [Caller -> PC] /\ call \in [Caller -> Call]
      /\ locals \in [Caller -> Locals] /\ calls \in [Caller -> Nat] /\ place \in PC
  BY LinearAssumption DEF Good, TypeOK, RuntimeTypeOK, PC
<1>1. v \in Call /\ v.req = r
  BY DEF NoCall, Call, Answered, Reason
<1>2. alone \in BOOLEAN
  OBVIOUS
<1>3. /\ pc' = [pc EXCEPT ![c] = place] /\ call' = [call EXCEPT ![c] = v]
      /\ calls' = [calls EXCEPT ![c] = @ + 1]
      /\ locals' = [o \in Caller |-> IF o = c THEN w ELSE [locals[o] EXCEPT !.alone = FALSE]]
      /\ UNCHANGED <<fixed, mode, shared, setting, manager, closures, aux>>
  BY DEF Start, Goto
<1> HIDE DEF v, alone
<1>4. w \in Locals /\ w.session = s
  BY <1>2 DEF NoLocals, Locals
<1> HIDE DEF w
<1>5. \A o \in Caller : [locals[o] EXCEPT !.alone = FALSE] \in Locals
                        /\ [locals[o] EXCEPT !.alone = FALSE].session = locals[o].session
  BY <1>0 DEF Locals
<1>6. locals' \in [Caller -> Locals]
  BY <1>3, <1>4, <1>5
<1>7. UNCHANGED Keys /\ UNCHANGED Call
  BY <1>3 DEF Keys, KeyOf, RouteShape, AlignDimUp, Call, fixed
<1>8. RuntimeTypeOK'
  <2>1. pc' \in [Caller -> PC] /\ call' \in [Caller -> Call']
    BY <1>0, <1>1, <1>3, <1>7
  <2> QED
    BY <1>3, <1>7, <2>1 DEF Good, TypeOK, RuntimeTypeOK, fixed, shared
<1>9. TypeOK'
  BY <1>0, <1>3, <1>6, <1>8 DEF Good, TypeOK, fixed, setting, manager, closures, aux
<1>10. Called'
  BY <1>0, <1>1, <1>3 DEF Good, Called, InFlight, fixed
<1>11. Located'
  BY <1>0, <1>3, <1>4, <1>5 DEF Good, Located
<1>12. Nested'
  BY <1>3, NestedStays DEF manager, aux, setting
<1> QED
  BY <1>9, <1>10, <1>11, <1>12 DEF Good

\* Linear keeps to the runtime.
LEMMA Runs ==
  ASSUME Good, Nested, NEW c \in Caller, RunLinear(c)
  PROVE  Good' /\ Nested'
<1>1. /\ pc[c] \in InLinear /\ Moves(c) /\ UNCHANGED <<fixed, mode>> /\ RuntimeTypeOK'
      /\ UNCHANGED <<setting, manager, closures, locals, calls, aux>>
  BY RuntimeMoves DEF RunLinear, Good
<1>2. TypeOK'
  BY <1>1 DEF Good, TypeOK, fixed, setting, manager, closures, aux
<1>3. pc[c] \notin {"idle", "dispatch", "ended"}
  BY <1>1 DEF InLinear, Routing, Running
<1>4. pc \in [Caller -> PC] /\ call \in [Caller -> Call]
  BY DEF Good, TypeOK, RuntimeTypeOK
<1>5. Called' /\ Located'
  BY <1>1, <1>3, <1>4 DEF Good, Called, Located, InFlight, Moves, fixed
<1>6. Nested'
  BY <1>1, NestedStays DEF manager, aux, setting
<1> QED
  BY <1>2, <1>5, <1>6 DEF Good

\* The invariant of the hooks is inductive ...
LEMMA Steps ==
  ASSUME Good, Nested, [Next]_vars
  PROVE  Good' /\ Nested'
<1> USE HookAssumption
<1>1. ASSUME NEW s \in Session, Install(s) \/ Restore(s) \/ InstallModel(s) \/ RestoreModel(s)
      PROVE  Good' /\ Nested'
  BY <1>1, Installs, Restores, ModelSessions
<1>2. ASSUME NEW c \in Caller, NNLinear(c) PROVE Good' /\ Nested'
  BY <1>2, Starts DEF NNLinear
<1>3. ASSUME NEW c \in Caller, StandardLinear(c) PROVE Good' /\ Nested'
  <2>1. default \in Session
    BY <1>3 DEF StandardLinear, Good, TypeOK
  <2> QED
    BY <1>3, <2>1, Starts DEF StandardLinear
<1>4. ASSUME NEW c \in Caller, HookStep(c) PROVE Good' /\ Nested'
  <2>1. UNCHANGED <<mode, setting, manager, aux>>
    BY <1>4 DEF HookStep, Dispatch, RunContext, TakeClosure, TakeClosureFails, ApplyClosure,
                Record, Failed, Return
  <2> QED
    BY <1>4, <2>1, HookSteps, NestedStays DEF setting, manager, aux
<1>5. ASSUME UNCHANGED vars PROVE Good' /\ Nested'
  <2>1. Nested'
    BY <1>5, NestedStays DEF vars, runtime, setting, manager, aux
  <2>2. UNCHANGED <<Keys, Call>>
    BY <1>5 DEF vars, runtime, fixed, Keys, KeyOf, RouteShape, AlignDimUp, Call
  <2>3. RuntimeTypeOK'
    BY <1>5, <2>2 DEF Good, TypeOK, RuntimeTypeOK, vars, runtime, fixed, shared
  <2>4. TypeOK'
    BY <1>5, <2>3 DEF Good, TypeOK, vars, runtime, fixed, setting, manager, closures, aux
  <2>5. Called' /\ Located'
    BY <1>5 DEF Good, Called, Located, InFlight, vars, runtime, fixed
  <2> QED
    BY <2>1, <2>4, <2>5 DEF Good
<1> QED
  BY <1>1, <1>2, <1>3, <1>4, <1>5, SetsMode, Runs DEF Next, HookStep, Finished

\* ... and holds at the start.
LEMMA Starting ==
  ASSUME Init
  PROVE  Good /\ Nested
<1> USE HookAssumption, LinearAssumption
<1>1. conf \in Conf /\ faulty \in FaultSets /\ mode \in Mode
  BY DEF Init, InitRuntime
<1>2. NoLocals \in Locals /\ NoCall \in Call
  BY DEF NoLocals, Locals, NoCall, Call, Answered, Reason
<1>3. RuntimeTypeOK
  <2>1. pc \in [Caller -> PC] /\ call \in [Caller -> Call]
    BY <1>2 DEF Init, InitRuntime, PC
  <2>2. models \subseteq Keys /\ IsFiniteSet(models)
    BY FS_EmptySet DEF Init, InitRuntime
  <2>3. vjp \in Answered \X Reason
    BY DEF Init, InitRuntime, Answered, Reason
  <2> QED
    BY <2>1, <2>2, <2>3 DEF RuntimeTypeOK, Init, InitRuntime
<1>4. TypeOK
  <2>1. <<conf, planned, foreign>> \in Plans
    BY DEF Init
  <2>2. own \in Mode /\ locals \in [Caller -> Locals]
    BY <1>1, <1>2 DEF Init
  <2> QED
    BY <1>3, <2>1, <2>2 DEF TypeOK, Init
<1>5. Good
  BY <1>4 DEF Good, Called, Located, InFlight, Init, InitRuntime
<1>6. Nested
  BY <1>5, NowType, TopModeEmpty DEF Nested, Open, Init
<1> QED
  BY <1>5, <1>6

-----------------------------------------------------------------------------
\* Every state of the hooks and of the runtime under them is of its type: for instance, no
\* restore in whatever order leaves nn with a mode that is none, and a call on its way
\* through nnhook.go and runtime.go always has a layer and, once dispatched, a session.
THEOREM TypeCorrect == Spec => [](TypeOK /\ Called /\ Located)
<1>1. Init => Good /\ Nested
  BY Starting
<1>2. Good /\ Nested /\ [Next]_vars => Good' /\ Nested'
  BY Steps
<1>3. Good => TypeOK /\ Called /\ Located
  BY DEF Good
<1> QED
  BY <1>1, <1>2, <1>3, PTL DEF Spec

\* The last session of the stack that is in S was installed last of those in S.
LEMMA LatestIs ==
  ASSUME Good, Nested, NEW S, S \subseteq Open, NEW i \in DOMAIN stack, stack[i] \in S,
         \A j \in DOMAIN stack : stack[j] \in S => j <= i
  PROVE  Latest(S) = stack[i]
<1>0. /\ since \in [Session -> Int] /\ S \subseteq Session
      /\ DOMAIN stack = 1..Len(stack) /\ Len(stack) \in Nat
  BY DEF Good, TypeOK, Open
<1>1. ASSUME NEW t \in S
      PROVE  since[t] <= since[stack[i]] /\ (since[t] = since[stack[i]] => t = stack[i])
  <2>1. PICK j \in DOMAIN stack : stack[j] = t
    BY DEF Nested
  <2>2. j <= i
    BY <2>1
  <2>3. CASE j = i
    BY <1>0, <2>1, <2>3
  <2>4. CASE j < i
    BY <1>0, <2>1, <2>4 DEF Nested
  <2> QED
    BY <1>0, <2>2, <2>3, <2>4
<1>2. Latest(S) \in S /\ \A t \in S : since[t] <= since[Latest(S)]
  <2>1. \E s \in S : \A t \in S : since[t] <= since[s]
    BY <1>1
  <2> QED
    BY <2>1 DEF Latest
<1> QED
  BY <1>0, <1>1, <1>2

\* linearHookManager: nn has the manager's hook exactly as long as a session is installed,
\* the session on top is the one installed last, the mode is that of the one installed
\* last that sets a mode, and the hook and mode of before come back with the last restore.
THEOREM SessionsNested == Spec => []SessionsNest
<1>1. ASSUME Good, Nested PROVE SessionsNest
  <2> DEFINE moded == {s \in Open : ModeOf[s] # None}
  <2>0. /\ stack \in Seq(Session \ ModelSession) /\ DOMAIN stack = 1..Len(stack) /\ Len(stack) \in Nat
    BY <1>1 DEF Good, TypeOK
  <2>1. \A i \in DOMAIN stack : stack[i] \in Open
    <3>1. \A i \in DOMAIN stack : stack[i] \in Session \ ModelSession
      BY <2>0
    <3> QED
      BY <1>1, <3>1 DEF Open, Nested
  <2>2. Open = {} <=> stack = << >>
    <3>1. ASSUME stack # << >> PROVE Open # {}
      <4>1. 1 \in DOMAIN stack
        BY <2>0, <3>1
      <4> QED
        BY <2>1, <4>1
    <3>2. ASSUME Open # {} PROVE stack # << >>
      BY <1>1, <3>2 DEF Nested
    <3> QED
      BY <3>1, <3>2
  <2>3. hook = IF Open = {} THEN "original" ELSE "dispatch"
    BY <1>1, <2>2 DEF Nested
  <2>4. mode = IF moded = {} THEN own ELSE ModeOf[Latest(moded)]
    <3>0. stack \in Seq(Session) /\ mode = TopMode(stack, own)
      BY <1>1, <2>0 DEF Nested
    <3>1. CASE /\ TopMode(stack, own) = own
               /\ \A i \in DOMAIN stack : ModeOf[stack[i]] = None
      <4>1. moded = {}
        BY <1>1, <3>1 DEF Nested
      <4> QED
        BY <3>0, <3>1, <4>1
    <3>2. ASSUME NEW i \in DOMAIN stack,
                 TopMode(stack, own) = ModeOf[stack[i]], ModeOf[stack[i]] # None,
                 \A j \in DOMAIN stack : ModeOf[stack[j]] # None => j <= i
          PROVE  mode = IF moded = {} THEN own ELSE ModeOf[Latest(moded)]
      <4>1. stack[i] \in moded /\ moded \subseteq Open
        BY <2>1, <3>2
      <4>2. \A j \in DOMAIN stack : stack[j] \in moded => j <= i
        BY <3>2
      <4> HIDE DEF moded
      <4>3. Latest(moded) = stack[i]
        BY <1>1, <4>1, <4>2, LatestIs
      <4> QED
        BY <3>0, <3>2, <4>1, <4>3
    <3> QED
      BY <3>0, <3>1, <3>2, TopModeIs
  <2>5. ASSUME Open # {} PROVE stack[Len(stack)] = Latest(Open)
    <3>1. Len(stack) \in DOMAIN stack
      BY <2>0, <2>2, <2>5
    <3> QED
      BY <1>1, <2>0, <2>1, <3>1, LatestIs
  <2> QED
    BY <2>3, <2>4, <2>5 DEF SessionsNest
<1>2. Init => Good /\ Nested
  BY Starting
<1>3. Good /\ Nested /\ [Next]_vars => Good' /\ Nested'
  BY Steps
<1> QED
  BY <1>1, <1>2, <1>3, PTL DEF Spec

-----------------------------------------------------------------------------
\* A call takes its closure only once it has its session.
Untaken == \A c \in Caller : pc[c] \in {"idle", "dispatch"} => locals[c].held = 0

HookOnly(c) ==
  \/ Dispatch(c) \/ RunContext(c) \/ TakeClosureFails(c) \/ ApplyClosure(c)
  \/ Record(c) \/ Failed(c) \/ Return(c)

\* What the steps of a call that take no closure do to its locals.
LEMMA HookLocals ==
  ASSUME Good, Untaken, NEW c \in Caller, HookOnly(c)
  PROVE  /\ UNCHANGED closures
         /\ \A o \in Caller \ {c} : locals'[o] = locals[o] /\ pc'[o] = pc[o]
         /\ \/ /\ pc'[c] = "idle" /\ locals'[c] = NoLocals
            \/ /\ pc'[c] \notin {"idle", "dispatch"}
               /\ locals'[c].held = locals[c].held
               /\ locals'[c].restored = locals[c].restored
               /\ locals[c].held # 0 => locals'[c].session = locals[c].session
<1>0. locals \in [Caller -> Locals] /\ pc \in [Caller -> PC] /\ locals[c] \in Locals
  BY DEF Good, TypeOK, RuntimeTypeOK
<1> DEFINE Keeps == /\ \A o \in Caller \ {c} : locals'[o] = locals[o] /\ pc'[o] = pc[o]
                    /\ pc'[c] \notin {"idle", "dispatch"}
                    /\ locals'[c].held = locals[c].held
                    /\ locals'[c].restored = locals[c].restored
                    /\ locals[c].held # 0 => locals'[c].session = locals[c].session
<1>1. ASSUME NEW outcome, Ends(c, outcome) PROVE Keeps
  BY <1>0, <1>1 DEF Ends, Goto, Locals
<1>2. ASSUME NEW place, place \notin {"idle", "dispatch"}, Goto(c, place), UNCHANGED locals PROVE Keeps
  BY <1>0, <1>2 DEF Goto
<1>3. CASE Dispatch(c)
  <2>1. locals[c].held = 0
    BY <1>3 DEF Dispatch, Untaken
  <2>2. ASSUME NEW s, NEW next, Goto(c, "session"),
               locals' = [locals EXCEPT ![c].session = s, ![c].next = next]
        PROVE  Keeps
    BY <1>0, <2>1, <2>2 DEF Goto, Locals
  <2>3. Keeps
    <3> HIDE DEF Keeps
    <3> QED
      BY <1>1, <1>3, <2>2 DEF Dispatch, PassOn
  <2> QED
    BY <1>3, <2>3 DEF Dispatch
<1>4. CASE RunContext(c)
  <2>1. Keeps
    <3> HIDE DEF Keeps
    <3> QED
      BY <1>1, <1>2, <1>4 DEF RunContext, PassOn
  <2> QED
    BY <1>4, <2>1 DEF RunContext
<1>5. CASE TakeClosureFails(c)
  BY <1>1, <1>5 DEF TakeClosureFails, Fails
<1>6. CASE ApplyClosure(c)
  BY <1>2, <1>6 DEF ApplyClosure, closures
<1>7. CASE Record(c)
  <2>1. Keeps
    BY <1>0, <1>7 DEF Record, Recorded, Goto, Locals
  <2> QED
    BY <1>7, <2>1 DEF Record
<1>8. CASE Failed(c)
  <2>1. Keeps
    <3> HIDE DEF Keeps
    <3> QED
      BY <1>1, <1>2, <1>8 DEF Failed, Fails
  <2> QED
    BY <1>8, <2>1 DEF Failed
<1>9. CASE Return(c)
  BY <1>0, <1>9 DEF Return, Goto
<1> QED
  BY <1>3, <1>4, <1>5, <1>6, <1>7, <1>8, <1>9 DEF HookOnly

\* No restore frees the closure a training call applies, nor does another call replace
\* it, unless the restore is the one of the call's own session (nnhook.go: restore, free
\* and trainingLinear).
THEOREM ClosuresAlive == Spec => []ClosureAlive
<1> DEFINE Alive == ClosureAlive /\ Untaken
<1>1. Init => Alive
  <2> SUFFICES ASSUME Init PROVE Alive
    OBVIOUS
  <2>1. \A c \in Caller : pc[c] = "idle" /\ locals[c].held = 0
    BY DEF Init, InitRuntime, NoLocals
  <2> QED
    BY <2>1 DEF ClosureAlive, Untaken, InFlight
<1>2. ASSUME Good, Nested, Alive, [Next]_vars PROVE Alive'
  <2>0. /\ locals \in [Caller -> Locals] /\ pc \in [Caller -> PC]
        /\ handle \in [Session -> Nat] /\ \A c \in Caller : locals[c] \in Locals
    BY <1>2 DEF Good, TypeOK, RuntimeTypeOK
  <2>1. ASSUME NEW s \in Session, NEW e \in BOOLEAN, locals' = Overlapped(s, e),
               handle' = [handle EXCEPT ![s] = 0], UNCHANGED pc
        PROVE  Alive'
    <3>1. \A c \in Caller : locals'[c].held = locals[c].held /\ locals'[c].session = locals[c].session
      BY <2>0, <2>1, OverlappedType
    <3>2. \A c \in Caller : InFlight(c) => locals'[c].restored = locals[c].restored \cup {s}
      BY <2>0, <2>1 DEF Overlapped, Locals
    <3>3. Untaken'
      BY <1>2, <2>1, <3>1 DEF Untaken
    <3>4. ClosureAlive'
      <4> SUFFICES ASSUME NEW c \in Caller, InFlight(c), locals[c].held # 0,
                          locals[c].session \notin locals'[c].restored
                   PROVE  handle'[locals[c].session] = locals[c].held
        BY <2>1, <3>1 DEF ClosureAlive, InFlight, InClosure
      <4>1. locals[c].session # s /\ handle[locals[c].session] = locals[c].held
        BY <1>2, <3>2 DEF ClosureAlive, InClosure
      <4> QED
        BY <2>0, <2>1, <4>1
    <3> QED
      BY <3>3, <3>4
  <2>2. ASSUME UNCHANGED <<pc, locals, handle>> PROVE Alive'
    BY <1>2, <2>2 DEF ClosureAlive, Untaken, InFlight, InClosure
  <2>3. ASSUME NEW s \in Session, Install(s) \/ Restore(s) \/ InstallModel(s) \/ RestoreModel(s)
        PROVE  Alive'
    <3>1. CASE Install(s) \/ InstallModel(s)
      BY <2>2, <3>1 DEF Install, InstallModel, closures, runtime
    <3>2. CASE Restore(s)
      <4> DEFINE e == stack' = << >>
      <4>1. e \in BOOLEAN /\ locals' = Overlapped(s, e)
        BY <3>2 DEF Restore
      <4> HIDE DEF e
      <4> QED
        BY <2>1, <3>2, <4>1 DEF Restore, Freed
    <3>3. CASE RestoreModel(s)
      BY <2>1, <3>3 DEF RestoreModel, Freed, runtime
    <3> QED
      BY <2>3, <3>1, <3>2, <3>3
  <2>4. ASSUME NEW c \in Caller, NNLinear(c) \/ StandardLinear(c) PROVE Alive'
    <3>1. PICK r, s, place : Start(c, r, s, place)
      BY <2>4 DEF NNLinear, StandardLinear
    <3>2. /\ UNCHANGED handle /\ locals'[c].held = 0
          /\ \A o \in Caller \ {c} : /\ pc'[o] = pc[o] /\ locals'[o].held = locals[o].held
                                     /\ locals'[o].session = locals[o].session
                                     /\ locals'[o].restored = locals[o].restored
      BY <2>0, <3>1 DEF Start, Goto, closures, NoLocals, Locals
    <3> QED
      BY <1>2, <3>2 DEF ClosureAlive, Untaken, InFlight, InClosure
  <2>5. ASSUME NEW c \in Caller, HookOnly(c) PROVE Alive'
    <3>1. /\ UNCHANGED closures
          /\ \A o \in Caller \ {c} : locals'[o] = locals[o] /\ pc'[o] = pc[o]
          /\ \/ /\ pc'[c] = "idle" /\ locals'[c] = NoLocals
             \/ /\ pc'[c] \notin {"idle", "dispatch"}
                /\ locals'[c].held = locals[c].held
                /\ locals'[c].restored = locals[c].restored
                /\ locals[c].held # 0 => locals'[c].session = locals[c].session
      BY <1>2, <2>5, HookLocals
    <3>2. NoLocals.held = 0
      BY DEF NoLocals
    <3>3. Untaken'
      BY <1>2, <3>1, <3>2 DEF Untaken
    <3>4. pc[c] # "idle"
      BY <2>5 DEF HookOnly, Dispatch, RunContext, TakeClosureFails, ApplyClosure, Record, Failed, Return
    <3>5. ClosureAlive'
      BY <1>2, <3>1, <3>2, <3>4 DEF ClosureAlive, InFlight, InClosure, closures
    <3> QED
      BY <3>3, <3>5
  <2>6. ASSUME NEW c \in Caller, TakeClosure(c) PROVE Alive'
    <3> DEFINE s == locals[c].session
               n == IF handle[s] = 0 THEN made[s] + 1 ELSE handle[s]
    <3>1. s \in Session /\ pc[c] = "take"
      BY <1>2, <2>6 DEF TakeClosure, Good, Located
    <3>2. /\ handle' = [handle EXCEPT ![s] = n] /\ locals' = [locals EXCEPT ![c].held = n]
          /\ pc' = [pc EXCEPT ![c] = "closure"]
      BY <2>6 DEF TakeClosure, Goto
    <3>3. handle[s] # 0 => n = handle[s]
      OBVIOUS
    <3> HIDE DEF n
    <3>4. /\ locals'[c].held = n /\ locals'[c].session = s /\ pc'[c] = "closure" /\ handle'[s] = n
          /\ \A o \in Caller \ {c} : locals'[o] = locals[o] /\ pc'[o] = pc[o]
          /\ \A t \in Session \ {s} : handle'[t] = handle[t]
      BY <2>0, <3>1, <3>2 DEF Locals
    <3>5. Untaken'
      BY <1>2, <3>4 DEF Untaken
    <3>6. ASSUME NEW o \in Caller, InFlight(o)', InClosure(o)', locals'[o].session \notin locals'[o].restored
          PROVE  handle'[locals'[o].session] = locals'[o].held
      <4>1. CASE o = c
        BY <3>4, <4>1
      <4>2. CASE o # c
        <5>1. InFlight(o) /\ locals[o].held # 0 /\ handle[locals[o].session] = locals[o].held
          BY <1>2, <3>4, <3>6, <4>2 DEF ClosureAlive, InFlight, InClosure
        <5>2. locals[o].session \in Session \/ locals[o].session = None
          BY <2>0 DEF Locals
        <5>3. CASE locals[o].session = s
          BY <3>3, <3>4, <4>2, <5>1, <5>3
        <5>4. CASE locals[o].session \in Session \ {s}
          BY <3>4, <4>2, <5>1, <5>4
        <5>5. CASE locals[o].session = None
          BY <2>0, <3>1, <3>2, <3>4, <4>2, <5>1, <5>5, HookAssumption
        <5> QED
          BY <5>2, <5>3, <5>4, <5>5
      <4> QED
        BY <4>1, <4>2
    <3> QED
      BY <3>5, <3>6 DEF ClosureAlive
  <2>7. ASSUME NEW c \in Caller, RunLinear(c) PROVE Alive'
    <3>1. pc[c] \in InLinear /\ Moves(c) /\ UNCHANGED <<closures, locals>>
      BY <1>2, <2>7, RuntimeMoves DEF RunLinear, Good
    <3>2. /\ \A o \in Caller \ {c} : pc'[o] = pc[o]
          /\ pc[c] \notin {"idle", "dispatch"} /\ pc'[c] \notin {"idle", "dispatch"}
      BY <2>0, <3>1 DEF Moves, InLinear, Routing, Running
    <3> QED
      BY <1>2, <3>1, <3>2 DEF ClosureAlive, Untaken, InFlight, InClosure, closures
  <2>8. CASE SetMode \/ UNCHANGED vars
    BY <2>2, <2>8 DEF SetMode, vars, runtime, closures
  <2> QED
    BY <1>2, <2>3, <2>4, <2>5, <2>6, <2>7, <2>8 DEF Next, HookOnly, Finished
<1>3. Init => Good /\ Nested
  BY Starting
<1>4. Good /\ Nested /\ [Next]_vars => Good' /\ Nested'
  BY Steps
<1> QED
  BY <1>1, <1>2, <1>3, <1>4, PTL DEF Spec

-----------------------------------------------------------------------------
\* A call on its way to the top of the stack finds one there, or the last session was
\* restored meanwhile; a call a session of the stack has knows whether a hook is below.
OnItsWay(c) ==
  /\ pc[c] # "ended" => locals[c].outcome = ""
  /\ pc[c] = "dispatch" /\ stack = << >> => locals[c].emptied
  /\ pc[c] \notin {"idle", "dispatch", "ended"} /\ locals[c].session \notin ModelSession =>
       locals[c].next = foreign
  /\ locals[c].outcome = "plain" /\ locals[c].session \notin ModelSession /\ foreign =>
       locals[c].emptied

\* A call of nn that finds no session any more, or only one without a runtime, still
\* gets to the hook nn had before the first install (linearHookDispatch, runContext); it
\* is left to the plain product only if the last session was restored on its way.
THEOREM BaseHooksReached == Spec => []BaseHookReached
<1> DEFINE Ways == \A c \in Caller : OnItsWay(c)
<1>1. Init => Ways
  <2> SUFFICES ASSUME Init, NEW c \in Caller PROVE OnItsWay(c)
    OBVIOUS
  <2>1. pc[c] = "idle" /\ locals[c].outcome = ""
    BY DEF Init, InitRuntime, NoLocals
  <2> QED
    BY <2>1 DEF OnItsWay
<1>2. ASSUME Good, Nested, Ways, [Next]_vars PROVE Ways'
  <2> USE HookAssumption
  <2>0. /\ locals \in [Caller -> Locals] /\ pc \in [Caller -> PC]
        /\ \A c \in Caller : locals[c] \in Locals
        /\ default \in ModelSession \cup {None} /\ foreign \in BOOLEAN
        /\ stack \in Seq(Session \ ModelSession)
    BY <1>2 DEF Good, TypeOK, RuntimeTypeOK
  <2>1. ASSUME UNCHANGED <<pc, locals, foreign>>, stack' = << >> => stack = << >> PROVE Ways'
    BY <1>2, <2>1 DEF OnItsWay
  <2>2. ASSUME NEW s \in Session, NEW e \in BOOLEAN, locals' = Overlapped(s, e),
               UNCHANGED <<pc, foreign>>, stack' = << >> => e \/ stack = << >>
        PROVE  Ways'
    <3>1. \A c \in Caller : /\ locals'[c].session = locals[c].session
                            /\ locals'[c].outcome = locals[c].outcome
                            /\ locals'[c].next = locals[c].next
      BY <2>0, <2>2, OverlappedType
    <3>2. \A c \in Caller : InFlight(c) => locals'[c].emptied = (locals[c].emptied \/ e)
      BY <2>0, <2>2 DEF Overlapped, Locals
    <3> QED
      BY <1>2, <2>2, <3>1, <3>2 DEF OnItsWay, InFlight
  <2>3. ASSUME NEW s \in Session, Install(s) \/ Restore(s) \/ InstallModel(s) \/ RestoreModel(s)
        PROVE  Ways'
    <3>1. CASE Install(s)
      <4>1. stack' # << >>
        BY <2>0, <3>1 DEF Install
      <4> QED
        BY <2>1, <3>1, <4>1 DEF Install, setting
    <3>2. CASE InstallModel(s)
      BY <2>1, <3>2 DEF InstallModel, runtime, setting
    <3>3. CASE Restore(s)
      <4> DEFINE e == stack' = << >>
      <4>1. e \in BOOLEAN /\ locals' = Overlapped(s, e) /\ (stack' = << >> => e)
        BY <3>3 DEF Restore
      <4> HIDE DEF e
      <4> QED
        BY <2>2, <3>3, <4>1 DEF Restore, setting
    <3>4. CASE RestoreModel(s)
      BY <2>2, <3>4 DEF RestoreModel, runtime, setting
    <3> QED
      BY <2>3, <3>1, <3>2, <3>3, <3>4
  \* A step of one call: what is left to show is that call's own part.
  <2>4. ASSUME NEW c \in Caller, UNCHANGED <<stack, foreign>>, OnItsWay(c)',
               \A o \in Caller \ {c} : /\ pc'[o] = pc[o]
                                       /\ locals'[o].session = locals[o].session
                                       /\ locals'[o].outcome = locals[o].outcome
                                       /\ locals'[o].next = locals[o].next
                                       /\ locals'[o].emptied = locals[o].emptied
        PROVE  Ways'
    BY <1>2, <2>4 DEF OnItsWay
  <2>5. ASSUME NEW c \in Caller, NNLinear(c) PROVE Ways'
    <3>1. PICK r \in conf.layers : Start(c, r, None, "dispatch")
      BY <2>5 DEF NNLinear
    <3>2. stack # << >>
      BY <1>2, <2>5 DEF NNLinear, Nested
    <3>3. /\ pc'[c] = "dispatch" /\ locals'[c].outcome = "" /\ UNCHANGED <<stack, foreign>>
          /\ \A o \in Caller \ {c} : /\ pc'[o] = pc[o]
                                     /\ locals'[o].session = locals[o].session
                                     /\ locals'[o].outcome = locals[o].outcome
                                     /\ locals'[o].next = locals[o].next
                                     /\ locals'[o].emptied = locals[o].emptied
      BY <2>0, <3>1 DEF Start, Goto, NoLocals, Locals, manager, setting
    <3>4. OnItsWay(c)'
      BY <3>2, <3>3 DEF OnItsWay
    <3> QED
      BY <2>4, <3>3, <3>4
  <2>6. ASSUME NEW c \in Caller, StandardLinear(c) PROVE Ways'
    <3>1. PICK r \in conf.layers : Start(c, r, default, "session")
      BY <2>6 DEF StandardLinear
    <3>2. default \in ModelSession
      BY <2>0, <2>6 DEF StandardLinear
    <3>3. /\ pc'[c] = "session" /\ locals'[c].outcome = "" /\ UNCHANGED <<stack, foreign>>
          /\ locals'[c].session = default
          /\ \A o \in Caller \ {c} : /\ pc'[o] = pc[o]
                                     /\ locals'[o].session = locals[o].session
                                     /\ locals'[o].outcome = locals[o].outcome
                                     /\ locals'[o].next = locals[o].next
                                     /\ locals'[o].emptied = locals[o].emptied
      BY <2>0, <3>1 DEF Start, Goto, NoLocals, Locals, manager, setting
    <3>4. OnItsWay(c)'
      BY <3>2, <3>3 DEF OnItsWay
    <3> QED
      BY <2>4, <3>3, <3>4
  <2>7. ASSUME NEW c \in Caller, HookStep(c) PROVE Ways'
    <3>0. locals[c] \in Locals /\ OnItsWay(c)
      BY <1>2, <2>0
    <3>1. UNCHANGED <<stack, foreign, base>>
      BY <2>7 DEF HookStep, Dispatch, RunContext, TakeClosure, TakeClosureFails, ApplyClosure,
                  Record, Failed, Return, manager, setting
    <3>2. \A o \in Caller \ {c} : pc'[o] = pc[o] /\ locals'[o] = locals[o]
      BY <2>0, <2>7 DEF HookStep, Dispatch, RunContext, TakeClosure, TakeClosureFails, ApplyClosure,
                  Record, Recorded, Failed, Fails, PassOn, Ends, Return, Goto
    <3>3. ASSUME NEW outcome, Ends(c, outcome),
                 outcome = "plain" => \/ locals[c].session \in ModelSession \/ ~foreign
                                      \/ locals[c].emptied
          PROVE  OnItsWay(c)'
      BY <2>0, <3>0, <3>1, <3>3 DEF OnItsWay, Ends, Goto, Locals
    <3>4. ASSUME NEW place, place \notin {"idle", "dispatch", "ended"},
                 pc[c] \notin {"idle", "dispatch", "ended"}, Goto(c, place), UNCHANGED locals
          PROVE  OnItsWay(c)'
      BY <2>0, <3>0, <3>1, <3>4 DEF OnItsWay, Goto
    <3>5. ASSUME Dispatch(c) PROVE OnItsWay(c)'
      <4>1. ASSUME stack = << >> PROVE OnItsWay(c)'
        <5>1. locals[c].emptied
          BY <3>0, <3>5, <4>1 DEF Dispatch, OnItsWay
        <5> QED
          BY <3>3, <3>5, <4>1, <5>1 DEF Dispatch, PassOn
      <4>2. ASSUME stack # << >> PROVE OnItsWay(c)'
        <5> DEFINE next == base # None /\ base.foreign
        <5>1. next = foreign
          <6>1. base = [foreign |-> foreign, mode |-> own] /\ own \in Mode
            BY <1>2, <4>2 DEF Nested, Good, TypeOK
          <6>2. base # None /\ base.foreign = foreign
            BY <2>0, <6>1
          <6> QED
            BY <2>0, <6>2
        <5>2. PICK s : Goto(c, "session") /\ locals' = [locals EXCEPT ![c].session = s, ![c].next = next]
          <6>1. stack[Len(stack)] \in Session
            BY <2>0, <4>2
          <6> QED
            BY <3>5, <4>2, <6>1 DEF Dispatch
        <5> HIDE DEF next
        <5>3. /\ pc'[c] = "session" /\ locals'[c].next = foreign
              /\ locals'[c].outcome = ""
          <6>1. locals[c].outcome = ""
            BY <3>0, <3>5 DEF OnItsWay, Dispatch
          <6> QED
            BY <2>0, <5>1, <5>2, <6>1 DEF Goto, Locals
        <5> QED
          BY <3>1, <5>3 DEF OnItsWay
      <4> QED
        BY <4>1, <4>2
    <3>6. ASSUME RunContext(c) PROVE OnItsWay(c)'
      <4>1. locals[c].session \notin ModelSession => locals[c].next = foreign
        BY <3>0, <3>6 DEF RunContext, OnItsWay
      <4>2. ASSUME PassOn(c, locals[c].next) PROVE OnItsWay(c)'
        BY <2>0, <3>3, <4>1, <4>2 DEF PassOn
      <4>3. ASSUME UNCHANGED locals /\ (Goto(c, "take") \/ Goto(c, "linear")) PROVE OnItsWay(c)'
        BY <3>4, <3>6, <4>3 DEF RunContext
      <4> QED
        BY <3>6, <4>2, <4>3 DEF RunContext
    <3>7. ASSUME TakeClosure(c) PROVE OnItsWay(c)'
      <4>1. /\ pc[c] = "take" /\ pc'[c] = "closure"
            /\ locals'[c].session = locals[c].session /\ locals'[c].outcome = locals[c].outcome
            /\ locals'[c].next = locals[c].next /\ locals'[c].emptied = locals[c].emptied
        BY <2>0, <3>0, <3>7 DEF TakeClosure, Goto, Locals
      <4> QED
        BY <3>0, <3>1, <4>1 DEF OnItsWay
    <3>8. ASSUME TakeClosureFails(c) PROVE OnItsWay(c)'
      BY <3>3, <3>8 DEF TakeClosureFails, Fails
    <3>9. ASSUME ApplyClosure(c) PROVE OnItsWay(c)'
      BY <3>4, <3>9 DEF ApplyClosure
    <3>10. ASSUME Record(c) PROVE OnItsWay(c)'
      <4>1. pc'[c] = "ended" /\ locals'[c].outcome = "answered"
        BY <2>0, <3>0, <3>10 DEF Record, Recorded, Goto, Locals
      <4> QED
        BY <4>1 DEF OnItsWay
    <3>11. ASSUME Failed(c) PROVE OnItsWay(c)'
      BY <3>3, <3>4, <3>11 DEF Failed, Fails
    <3>12. ASSUME Return(c) PROVE OnItsWay(c)'
      <4>1. pc'[c] = "idle" /\ locals'[c].outcome = ""
        BY <2>0, <3>12 DEF Return, Goto, NoLocals
      <4> QED
        BY <4>1 DEF OnItsWay
    <3>13. OnItsWay(c)'
      BY <2>7, <3>5, <3>6, <3>7, <3>8, <3>9, <3>10, <3>11, <3>12 DEF HookStep
    <3> QED
      BY <2>4, <3>1, <3>2, <3>13
  <2>8. ASSUME NEW c \in Caller, RunLinear(c) PROVE Ways'
    <3>1. pc[c] \in InLinear /\ Moves(c) /\ UNCHANGED <<stack, foreign, locals>>
      BY <1>2, <2>8, RuntimeMoves DEF RunLinear, Good, manager, setting
    <3>2. /\ \A o \in Caller \ {c} : pc'[o] = pc[o]
          /\ pc[c] \notin {"idle", "dispatch", "ended"} /\ pc'[c] \notin {"idle", "dispatch"}
      BY <2>0, <3>1 DEF Moves, InLinear, Routing, Running
    <3>3. OnItsWay(c)'
      BY <1>2, <3>1, <3>2 DEF OnItsWay
    <3> QED
      BY <2>4, <3>1, <3>2, <3>3
  <2>9. CASE SetMode \/ UNCHANGED vars
    BY <2>1, <2>9 DEF SetMode, vars, runtime, setting, manager
  <2> QED
    BY <1>2, <2>3, <2>5, <2>6, <2>7, <2>8, <2>9 DEF Next, HookStep, Finished
<1>3. Ways => BaseHookReached
  BY DEF OnItsWay, BaseHookReached
<1>4. Init => Good /\ Nested
  BY Starting
<1>5. Good /\ Nested /\ [Next]_vars => Good' /\ Nested'
  BY Steps
<1> QED
  BY <1>1, <1>2, <1>3, <1>4, <1>5, PTL DEF Spec

-----------------------------------------------------------------------------
\* A caller that evaluates a model of the dynamic executor has its entry, and what is
\* packed there is its own.
Holds(c) ==
  /\ call[c].y # "" => call[c].from = c
  /\ pc[c] = "eval" /\ conf.executor = "dynamic" =>
       busy[KeyOf(call[c].req)] = c /\ packed[KeyOf(call[c].req)] = c

\* What a step that neither takes nor gives up an entry has to show.
Quiet(c) ==
  /\ UNCHANGED <<busy, packed>>
  /\ pc'[c] # "eval"
  /\ call'[c].y # "" => call'[c].from = c

\* The steps of the runtime around an evaluation take no entry.
LEMMA QuietSteps ==
  ASSUME Good, NEW c \in Caller, Holds(c), RunLinear(c), ~Pack(c), ~Eval(c), ~EvalFails(c)
  PROVE  Quiet(c)
<1>0. /\ call \in [Caller -> Call] /\ pc \in [Caller -> PC] /\ call[c] \in Call
      /\ call[c].y # "" => call[c].from = c
  BY DEF Good, TypeOK, RuntimeTypeOK, Holds
<1> DEFINE Own == pc'[c] # "eval" /\ (call'[c].y # "" => call'[c].from = c)
<1>1. ASSUME NEW place, place # "eval", Goto(c, place), UNCHANGED call PROVE Own
  BY <1>0, <1>1 DEF Goto
<1>2. ASSUME NEW place, place # "eval", Goto(c, place), NEW y, NEW b, NEW r, Answer(c, y, c, b, r)
      PROVE  Own
  BY <1>0, <1>2 DEF Goto, Answer, Call
<1>3. ASSUME NEW r, FallBack(c, r) PROVE Own
  <2> HIDE DEF Own
  <2> QED
    BY <1>1, <1>2, <1>3 DEF FallBack
<1>4. ASSUME FailANE(c) PROVE Own
  <2> HIDE DEF Own
  <2> QED
    BY <1>2, <1>3, <1>4 DEF FailANE
<1>5. ASSUME NEW place, place # "eval", Goto(c, place), NEW v,
             call' = [call EXCEPT ![c] = v], v.y = call[c].y, v.from = call[c].from
      PROVE  Own
  BY <1>0, <1>5 DEF Goto
<1> HIDE DEF Own
<1>6. ASSUME Own, UNCHANGED <<busy, packed>> PROVE Quiet(c)
  BY <1>6 DEF Own, Quiet
<1>7. ASSUME NoExecutor(c) \/ Unrouted(c) \/ RouteDecide(c) PROVE Quiet(c)
  BY <1>1, <1>2, <1>3, <1>6, <1>7 DEF NoExecutor, Unrouted, RouteDecide, shared
<1>8. ASSUME Admit(c) \/ CheckCache(c) \/ NewCache(c) \/ Wrap(c) \/ Publish(c) PROVE Quiet(c)
  BY <1>1, <1>6, <1>8 DEF Admit, CheckCache, NewCache, Wrap, Publish, shared
<1>9. ASSUME WrapFails(c) \/ Apply(c) \/ BuildFails(c) PROVE Quiet(c)
  BY <1>1, <1>2, <1>3, <1>4, <1>6, <1>9 DEF WrapFails, Apply, BuildFails, shared
<1>10. ASSUME RouteSize(c) PROVE Quiet(c)
  <2> DEFINE v == [call[c] EXCEPT !.cfg = ActiveRouter, !.size = Cardinality(models)]
  <2>1. call' = [call EXCEPT ![c] = v] /\ v.y = call[c].y /\ v.from = call[c].from
    BY <1>0, <1>10 DEF RouteSize, Call
  <2> HIDE DEF v
  <2> QED
    BY <1>5, <1>6, <1>10, <2>1 DEF RouteSize, shared
<1>11. ASSUME UseCache(c) PROVE Quiet(c)
  <2> DEFINE v == [call[c] EXCEPT !.cache = vjpCache]
  <2>1. call' = [call EXCEPT ![c] = v] /\ v.y = call[c].y /\ v.from = call[c].from
    BY <1>0, <1>11 DEF UseCache, Call
  <2> HIDE DEF v
  <2> QED
    BY <1>5, <1>6, <1>11, <2>1 DEF UseCache, shared
<1>12. ASSUME Lookup(c) PROVE Quiet(c)
  <2> DEFINE hit == KeyOf(call[c].req) \in models
             v == [call[c] EXCEPT !.hit = hit]
  <2>1. call' = [call EXCEPT ![c] = v]
    BY <1>0, <1>12 DEF Lookup
  <2> HIDE DEF hit
  <2>2. v.y = call[c].y /\ v.from = call[c].from
    BY <1>0 DEF Call
  <2> HIDE DEF v
  <2> QED
    BY <1>5, <1>6, <1>12, <2>1, <2>2 DEF Lookup
<1>13. ASSUME Telemetry(c) PROVE Quiet(c)
  <2>1. ASSUME Goto(c, "answered"), call' = [call EXCEPT ![c].backend = "ane"] PROVE Own
    <3> DEFINE v == [call[c] EXCEPT !.backend = "ane"]
    <3>1. call' = [call EXCEPT ![c] = v] /\ v.y = call[c].y /\ v.from = call[c].from
      BY <1>0, <2>1 DEF Call
    <3> HIDE DEF v
    <3> QED
      BY <1>5, <2>1, <3>1
  <2> QED
    BY <1>1, <1>4, <1>6, <1>13, <2>1 DEF Telemetry
<1>14. ASSUME Result(c) PROVE Quiet(c)
  <2> DEFINE v == Attributed(call[c])
  <2>1. call' = [call EXCEPT ![c] = v] /\ v.y = call[c].y /\ v.from = call[c].from
    BY <1>0, <1>14 DEF Result, Attributed, Call
  <2> HIDE DEF v
  <2> QED
    BY <1>5, <1>6, <1>14, <2>1 DEF Result, shared
<1> QED
  BY <1>7, <1>8, <1>9, <1>10, <1>11, <1>12, <1>13, <1>14 DEF RunLinear, RuntimeStep

\* Neither do those of the hook.
LEMMA QuietHooks ==
  ASSUME Good, NEW c \in Caller, Holds(c), HookStep(c)
  PROVE  /\ Quiet(c) /\ UNCHANGED fixed
         /\ \A o \in Caller \ {c} : pc'[o] = pc[o] /\ call'[o] = call[o]
<1>0. /\ call \in [Caller -> Call] /\ pc \in [Caller -> PC] /\ call[c] \in Call
      /\ call[c].y # "" => call[c].from = c
  BY DEF Good, TypeOK, RuntimeTypeOK, Holds
<1>1. UNCHANGED fixed /\ UNCHANGED shared
  BY DEF HookStep, Dispatch, RunContext, TakeClosure, TakeClosureFails, ApplyClosure, Record,
         Failed, Return, shared
<1>2. /\ \A o \in Caller \ {c} : pc'[o] = pc[o] /\ call'[o] = call[o]
      /\ pc'[c] # "eval"
  BY <1>0 DEF HookStep, Dispatch, RunContext, TakeClosure, TakeClosureFails, ApplyClosure, Record,
         Recorded, Failed, Fails, PassOn, Ends, Answer, Return, Goto
<1>3. ASSUME UNCHANGED call PROVE call'[c].y # "" => call'[c].from = c
  BY <1>0, <1>3
<1>4. ASSUME Return(c) PROVE call'[c].y = ""
  BY <1>0, <1>4 DEF Return, NoCall
<1>5. ASSUME Answer(c, "mlx", c, "mlx", "error") PROVE call'[c].from = c
  BY <1>0, <1>5 DEF Answer, Call
<1>6. ASSUME call' = [call EXCEPT ![c].withVJP = TRUE]
      PROVE  call'[c].y # "" => call'[c].from = c
  BY <1>0, <1>6 DEF Call
<1>7. call'[c].y # "" => call'[c].from = c
  BY <1>3, <1>4, <1>5, <1>6 DEF HookStep, Dispatch, RunContext, TakeClosure, TakeClosureFails,
     ApplyClosure, Record, Failed
<1> QED
  BY <1>1, <1>2, <1>7 DEF Quiet, shared

\* Runtime.Linear: the ANE's or MLX's answer to a call is computed from the operands of
\* that call, though all callers of a model of the dynamic executor pack theirs into the
\* same surfaces (dynamicLinearModel.EvalInto under its mutex).
THEOREM AnswersOwned == Spec => []AnswersOwn
<1> DEFINE Held == \A c \in Caller : Holds(c)
<1>1. Init => Held
  <2> SUFFICES ASSUME Init, NEW c \in Caller PROVE Holds(c)
    OBVIOUS
  <2>1. pc[c] = "idle" /\ call[c].y = ""
    BY DEF Init, InitRuntime, NoCall
  <2> QED
    BY <2>1 DEF Holds
<1>2. ASSUME Good, Nested, Held, [Next]_vars PROVE Held'
  <2>0. /\ call \in [Caller -> Call] /\ pc \in [Caller -> PC]
        /\ busy \in [Keys -> Caller \cup {None}] /\ packed \in [Keys -> Caller \cup {None}]
        /\ None \notin Caller
    BY <1>2, LinearAssumption DEF Good, TypeOK, RuntimeTypeOK
  <2>a. ASSUME UNCHANGED conf, NEW r PROVE KeyOf(r)' = KeyOf(r)
    BY <2>a DEF KeyOf, RouteShape, AlignDimUp
  <2>1. ASSUME UNCHANGED <<fixed, pc, call, busy, packed>> PROVE Held'
    BY <1>2, <2>1, <2>a DEF Holds, fixed
  <2>2. ASSUME NEW c \in Caller, Quiet(c), UNCHANGED fixed,
               \A o \in Caller \ {c} : pc'[o] = pc[o] /\ call'[o].y = call[o].y
                                       /\ call'[o].from = call[o].from /\ call'[o].req = call[o].req
        PROVE  Held'
    <3> SUFFICES ASSUME NEW o \in Caller PROVE Holds(o)'
      OBVIOUS
    <3>1. CASE o = c
      BY <2>2, <3>1 DEF Holds, Quiet
    <3>2. CASE o # c
      <4>1. KeyOf(call[o].req)' = KeyOf(call[o].req) /\ conf' = conf
        BY <2>2, <2>a, <3>2 DEF fixed
      <4> QED
        BY <1>2, <2>2, <3>2, <4>1 DEF Holds, Quiet
    <3> QED
      BY <3>1, <3>2
  <2>3. ASSUME NEW c \in Caller, NNLinear(c) \/ StandardLinear(c) PROVE Held'
    <3>1. PICK r, s, place : Start(c, r, s, place) /\ place # "eval"
      BY <2>3 DEF NNLinear, StandardLinear
    <3>2. /\ UNCHANGED <<busy, packed, fixed>> /\ pc'[c] # "eval" /\ call'[c].y = ""
          /\ \A o \in Caller \ {c} : pc'[o] = pc[o] /\ call'[o] = call[o]
      BY <2>0, <3>1 DEF Start, Goto, NoCall, shared
    <3> QED
      BY <2>2, <3>2 DEF Quiet
  <2>4. ASSUME NEW c \in Caller, HookStep(c) PROVE Held'
    BY <1>2, <2>2, <2>4, QuietHooks
  <2>5. ASSUME NEW c \in Caller, RunLinear(c) PROVE Held'
    <3>1. /\ pc[c] \in InLinear /\ Moves(c) /\ UNCHANGED fixed
      BY <1>2, <2>5, RuntimeMoves DEF RunLinear, Good
    <3>2. \A o \in Caller \ {c} : pc'[o] = pc[o] /\ call'[o] = call[o]
      BY <2>0, <3>1 DEF Moves
    <3> DEFINE k == KeyOf(call[c].req)
    <3>3. k \in Keys /\ conf' = conf /\ Holds(c)
      BY <1>2, <3>1 DEF Good, Called, InFlight, Keys, InLinear, Routing, Running, fixed
    <3>4. \A o \in Caller : call'[o].req = call[o].req /\ KeyOf(call[o].req)' = KeyOf(call[o].req)
      BY <2>a, <3>1, <3>2, <3>3 DEF Moves
    <3>8. \A o \in Caller : pc[o] = "eval" => KeyOf(call[o].req) \in Keys
      BY <1>2 DEF Good, Called, InFlight, Keys
    <3> HIDE DEF k
    <3>5. CASE Pack(c)
      <4>1. CASE conf.executor = "dynamic"
        <5>1. /\ busy[k] = None /\ busy' = [busy EXCEPT ![k] = c] /\ packed' = [packed EXCEPT ![k] = c]
              /\ UNCHANGED call
          BY <3>5, <4>1 DEF Pack, EntryFree, k
        <5> SUFFICES ASSUME NEW o \in Caller PROVE Holds(o)'
          OBVIOUS
        <5>2. CASE o = c
          BY <2>0, <3>3, <3>4, <5>1, <5>2 DEF Holds, k
        <5>3. CASE o # c
          <6>1. Holds(o) /\ pc'[o] = pc[o] /\ call'[o] = call[o]
            BY <1>2, <3>2, <5>3
          <6>2. pc[o] = "eval" /\ conf.executor = "dynamic" => KeyOf(call[o].req) # k
            BY <2>0, <5>1, <6>1 DEF Holds
          <6> QED
            BY <2>0, <3>3, <3>4, <3>8, <5>1, <6>1, <6>2 DEF Holds
        <5> QED
          BY <5>2, <5>3
      <4>2. CASE conf.executor # "dynamic"
        <5>1. UNCHANGED <<busy, packed, call>>
          BY <3>5, <4>2 DEF Pack
        <5> QED
          BY <1>2, <3>2, <3>3, <4>2, <5>1 DEF Holds
      <4> QED
        BY <4>1, <4>2
    <3>6. ASSUME Eval(c) \/ EvalFails(c) PROVE Held'
      <4>1. /\ pc[c] = "eval" /\ pc'[c] = "telemetry" /\ UNCHANGED packed /\ busy' = Unlocked(c)
        BY <2>0, <3>6 DEF Eval, EvalFails, Goto
      <4>2. call'[c].y # "" => call'[c].from = c
        <5>1. CASE EvalFails(c)
          BY <3>3, <5>1 DEF EvalFails, Holds
        <5>2. CASE Eval(c)
          <6>1. Operands(c) = c
            BY <3>3, <4>1 DEF Operands, Holds, k
          <6>2. call'[c].from = Operands(c)
            BY <2>0, <5>2 DEF Eval, Call
          <6> QED
            BY <6>1, <6>2
        <5> QED
          BY <3>6, <5>1, <5>2
      <4> SUFFICES ASSUME NEW o \in Caller PROVE Holds(o)'
        OBVIOUS
      <4>3. CASE o = c
        BY <4>1, <4>2, <4>3 DEF Holds
      <4>4. CASE o # c
        <5>1. Holds(o) /\ pc'[o] = pc[o] /\ call'[o] = call[o]
          BY <1>2, <3>2, <4>4
        <5>2. CASE conf.executor # "dynamic"
          BY <3>3, <5>1, <5>2 DEF Holds
        <5>3. CASE conf.executor = "dynamic"
          <6>1. busy[k] = c /\ busy' = [busy EXCEPT ![k] = None]
            BY <3>3, <4>1, <5>3 DEF Holds, Unlocked, k
          <6>2. pc[o] = "eval" => KeyOf(call[o].req) # k
            BY <4>4, <5>1, <5>3, <6>1 DEF Holds
          <6> QED
            BY <2>0, <3>3, <3>4, <3>8, <4>1, <5>1, <6>1, <6>2 DEF Holds
        <5> QED
          BY <5>2, <5>3
      <4> QED
        BY <4>3, <4>4
    <3>7. ASSUME ~Pack(c), ~Eval(c), ~EvalFails(c) PROVE Held'
      <4>1. Quiet(c)
        BY <1>2, <2>5, <3>3, <3>7, QuietSteps
      <4> QED
        BY <2>2, <3>1, <3>2, <4>1
    <3> QED
      BY <3>5, <3>6, <3>7
  <2>6. ASSUME NEW s \in Session, Install(s) \/ Restore(s) \/ InstallModel(s) \/ RestoreModel(s)
        PROVE  Held'
    BY <2>1, <2>6 DEF Install, Restore, InstallModel, RestoreModel, runtime, shared
  <2>7. CASE SetMode \/ UNCHANGED vars
    BY <2>1, <2>7 DEF SetMode, vars, runtime, shared
  <2> QED
    BY <1>2, <2>3, <2>4, <2>5, <2>6, <2>7 DEF Next, HookStep, Finished
<1>3. Held => AnswersOwn
  BY DEF Holds, AnswersOwn
<1>4. Init => Good /\ Nested
  BY Starting
<1>5. Good /\ Nested /\ [Next]_vars => Good' /\ Nested'
  BY Steps
<1> QED
  BY <1>1, <1>2, <1>3, <1>4, <1>5, PTL DEF Spec

-----------------------------------------------------------------------------
Limited == /\ conf.router # None /\ conf.router.maxCache > 0
           /\ conf.trainingRouter # None => conf.trainingRouter.maxCache > 0

Routed == Routing \ {"linear"}
Admitted == Routed \ {"probe"}

\* The calls that will compile a model although nobody counts it yet.
Pending == {c \in Caller : pc[c] \in Routed /\ KeyOf(call[c].req) \notin models
                           /\ call[c].size < Budget}

\* A routed call is bound by one of the two limits, and what it was told by the router
\* stays true: its model is there, or it was below the budget.
Bounded(c) ==
  /\ pc[c] = "probe" => call[c].cfg \in RouteConfig /\ call[c].cfg.maxCache \in 1..Budget
  /\ pc[c] \in Admitted => KeyOf(call[c].req) \in models \/ call[c].size < Budget

Spent ==
  /\ \A c \in Caller : Bounded(c)
  /\ Cardinality(models) + Cardinality(Pending) <= Budget + Cardinality(Caller) - 1

\* A step that compiles nothing: c gets no further, or only with the router's leave.
Calm(c) ==
  /\ UNCHANGED models
  /\ pc'[c] \in Routed => /\ pc[c] \in Routed /\ pc'[c] \in Admitted
                          /\ call'[c].size = call[c].size /\ call'[c].req = call[c].req
                          /\ KeyOf(call[c].req) \in models \/ call[c].size < Budget

\* The numbers of BudgetHeld are numbers.
LEMMA BudgetType ==
  ASSUME Good, Limited
  PROVE  /\ Budget \in Int /\ Budget > 0 /\ ActiveRouter \in RouteConfig
         /\ ActiveRouter.maxCache \in 1..Budget
         /\ Cardinality(Caller) \in Nat /\ IsFiniteSet(Caller)
         /\ Cardinality(Pending) \in Nat /\ IsFiniteSet(Pending)
         /\ Cardinality(models) \in Nat /\ IsFiniteSet(models)
<1>1. conf \in Conf /\ conf.router \in RouteConfig
      /\ (conf.trainingRouter # None => conf.trainingRouter \in RouteConfig)
  BY LinearAssumption DEF Good, TypeOK, RuntimeTypeOK, Conf, Limited
<1>2. \A r \in RouteConfig : r.maxCache \in Int
  BY DEF RouteConfig
<1>3. /\ Budget \in Int /\ Budget > 0 /\ ActiveRouter \in RouteConfig
      /\ ActiveRouter.maxCache \in 1..Budget
  BY <1>1, <1>2 DEF Limited, Budget, ActiveRouter
<1>4. IsFiniteSet(Caller) /\ Pending \subseteq Caller
  BY LinearAssumption DEF Pending
<1>5. IsFiniteSet(Pending) /\ IsFiniteSet(models)
  BY <1>4, FS_Subset DEF Good, TypeOK, RuntimeTypeOK
<1> QED
  BY <1>3, <1>4, <1>5, FS_CardinalityType

\* A step that compiles nothing cannot break the bound.
LEMMA CalmSpends ==
  ASSUME Good, Limited, Spent, NEW c \in Caller, Calm(c), UNCHANGED conf,
         \A o \in Caller \ {c} : /\ pc'[o] = pc[o] /\ call'[o].req = call[o].req
                                 /\ call'[o].size = call[o].size /\ call'[o].cfg = call[o].cfg
  PROVE  Spent'
<1>0. /\ \A r : KeyOf(r)' = KeyOf(r)
      /\ Budget' = Budget
  BY DEF KeyOf, RouteShape, AlignDimUp, Budget
<1>1. ASSUME NEW o \in Caller PROVE Bounded(o)'
  <2>1. CASE o = c
    BY <1>0, <2>1 DEF Bounded, Calm, Admitted, Routed, Routing
  <2>2. CASE o # c
    BY <1>0, <2>2 DEF Bounded, Calm, Spent
  <2> QED
    BY <2>1, <2>2
<1>2. Pending' \subseteq Pending
  <2> SUFFICES ASSUME NEW o \in Pending' PROVE o \in Pending
    OBVIOUS
  <2>0. /\ o \in Caller /\ pc'[o] \in Routed /\ KeyOf(call[o].req)' \notin models'
        /\ call'[o].size < Budget'
    BY DEF Pending
  <2>1. pc[o] \in Routed /\ call'[o].size = call[o].size /\ call'[o].req = call[o].req
    BY <2>0 DEF Calm
  <2> QED
    BY <1>0, <2>0, <2>1 DEF Pending, Calm
<1>3. Cardinality(Pending') \in Nat /\ Cardinality(Pending') <= Cardinality(Pending)
  BY <1>2, BudgetType, FS_Subset, FS_CardinalityType
<1> QED
  BY <1>0, <1>1, <1>3, BudgetType DEF Spent, Calm

\* All of Linear but routeLinear's reading of the size and the lookup compile nothing.
LEMMA CalmSteps ==
  ASSUME Good, Limited, Spent, NEW c \in Caller, RunLinear(c), ~RouteSize(c), ~Lookup(c)
  PROVE  Calm(c)
<1>0. /\ call \in [Caller -> Call] /\ pc \in [Caller -> PC] /\ call[c] \in Call /\ Bounded(c)
      /\ "admitted" \in Admitted /\ "probe" \in Routed
      /\ \A place \in {"answered", "failed", "eval", "telemetry", "publish", "result"} : place \notin Routed
  BY DEF Good, TypeOK, RuntimeTypeOK, Spent, Admitted, Routed, Routing
<1>1. ASSUME NEW place, place \notin Routed, Goto(c, place), UNCHANGED models PROVE Calm(c)
  BY <1>0, <1>1 DEF Goto, Calm
<1>2. ASSUME NEW place \in Admitted, pc[c] \in Admitted, Goto(c, place), UNCHANGED models,
             call'[c].size = call[c].size, call'[c].req = call[c].req
      PROVE  Calm(c)
  BY <1>0, <1>2 DEF Goto, Calm, Bounded, Admitted
<1>3. ASSUME NEW r, FallBack(c, r), UNCHANGED models PROVE Calm(c)
  BY <1>0, <1>1, <1>3 DEF FallBack
<1>4. ASSUME FailANE(c), UNCHANGED models PROVE Calm(c)
  BY <1>0, <1>1, <1>3, <1>4 DEF FailANE
<1>5. ASSUME NoExecutor(c) \/ Unrouted(c) PROVE Calm(c)
  BY <1>0, <1>1, <1>5 DEF NoExecutor, Unrouted, Limited, shared
<1>6. ASSUME RouteDecide(c) PROVE Calm(c)
  <2>0. UNCHANGED models /\ pc[c] = "probe"
    BY <1>6 DEF RouteDecide, shared
  <2>1. CASE Decision(c) = "eligible"
    <3> DEFINE hit == KeyOf(call[c].req) \in models
               s == RouteShape(call[c].req)
    <3>1. hit \/ ~BudgetSpent(call[c].cfg, call[c].size)
      <4>1. Decide(call[c].cfg, s, hit, call[c].size) = "eligible"
        BY <2>1 DEF Decision
      <4> HIDE DEF hit, s
      <4> QED
        BY <4>1, ZenonT(60) DEF Decide
    <3>2. hit \/ call[c].size < Budget
      <4>1. call[c].size \in Nat /\ call[c].cfg.maxCache \in 1..Budget
        BY <1>0, <2>0 DEF Bounded, Call
      <4> HIDE DEF hit
      <4> QED
        BY <3>1, <4>1, BudgetType DEF BudgetSpent
    <3>3. pc'[c] = "admitted" /\ UNCHANGED call
      BY <1>0, <1>6, <2>1 DEF RouteDecide, Goto
    <3> QED
      BY <1>0, <2>0, <3>2, <3>3 DEF Calm
  <2>2. CASE Decision(c) # "eligible"
    BY <1>3, <1>6, <2>0, <2>2 DEF RouteDecide
  <2> QED
    BY <2>1, <2>2
<1>7. ASSUME Admit(c) \/ CheckCache(c) \/ NewCache(c) \/ UseCache(c) \/ Wrap(c) PROVE Calm(c)
  <2>1. UNCHANGED models /\ pc[c] \in Admitted
    BY <1>7 DEF Admit, CheckCache, NewCache, UseCache, Wrap, Admitted, Routed, Routing, shared
  <2>2. \E place \in Admitted : Goto(c, place)
    BY <1>7 DEF Admit, CheckCache, NewCache, UseCache, Wrap, Admitted, Routed, Routing
  <2>3. call'[c].size = call[c].size /\ call'[c].req = call[c].req
    BY <1>0, <1>7 DEF Admit, CheckCache, NewCache, UseCache, Wrap, Call
  <2> QED
    BY <1>2, <2>1, <2>2, <2>3
<1>8. ASSUME WrapFails(c) \/ BuildFails(c) \/ Telemetry(c) PROVE Calm(c)
  BY <1>0, <1>1, <1>3, <1>4, <1>8 DEF WrapFails, BuildFails, Telemetry, shared
<1>9. ASSUME Apply(c) PROVE Calm(c)
  <2>1. pc[c] \in Admitted /\ "lookup" \in Admitted /\ UNCHANGED models
    BY <1>9 DEF Apply, Admitted, Routed, Routing, shared
  <2> QED
    BY <1>0, <1>1, <1>2, <1>9, <2>1 DEF Apply
<1>10. ASSUME Pack(c) \/ Eval(c) \/ EvalFails(c) \/ Publish(c) \/ Result(c) PROVE Calm(c)
  BY <1>0, <1>1, <1>10 DEF Pack, Eval, EvalFails, Publish, Result, shared
<1> QED
  BY <1>5, <1>6, <1>7, <1>8, <1>9, <1>10 DEF RunLinear, RuntimeStep

\* Whoever reads a size below the budget may compile one model more.
LEMMA RouteSizeSpends ==
  ASSUME Good, Limited, Spent, NEW c \in Caller, RouteSize(c)
  PROVE  Spent'
<1> DEFINE v == [call[c] EXCEPT !.cfg = ActiveRouter, !.size = Cardinality(models)]
<1>0. /\ call \in [Caller -> Call] /\ pc \in [Caller -> PC] /\ call[c] \in Call
  BY DEF Good, TypeOK, RuntimeTypeOK
<1>1. /\ v.cfg = ActiveRouter /\ v.size = Cardinality(models) /\ v.req = call[c].req
      /\ call' = [call EXCEPT ![c] = v] /\ pc' = [pc EXCEPT ![c] = "probe"] /\ UNCHANGED <<models, conf>>
  BY <1>0 DEF RouteSize, Goto, Call, fixed, shared
<1> HIDE DEF v
<1>2. /\ \A r : KeyOf(r)' = KeyOf(r)
      /\ Budget' = Budget
  BY <1>1 DEF KeyOf, RouteShape, AlignDimUp, Budget
<1>3. /\ pc'[c] = "probe" /\ call'[c] = v
      /\ \A o \in Caller \ {c} : pc'[o] = pc[o] /\ call'[o] = call[o]
  BY <1>0, <1>1
<1>4. ASSUME NEW o \in Caller PROVE Bounded(o)'
  <2>1. CASE o = c
    <3>1. "probe" \notin Admitted
      BY DEF Admitted
    <3> QED
      BY <1>1, <1>2, <1>3, <2>1, <3>1, BudgetType DEF Bounded
  <2>2. CASE o # c
    BY <1>1, <1>2, <1>3, <2>2 DEF Bounded, Spent
  <2> QED
    BY <2>1, <2>2
<1>5. \A o \in Caller \ {c} : o \in Pending' <=> o \in Pending
  BY <1>1, <1>2, <1>3 DEF Pending
<1>6. c \notin Pending
  BY DEF RouteSize, Pending, Routed
<1>7. Cardinality(models) + Cardinality(Pending') <= Budget + Cardinality(Caller) - 1
  <2>1. CASE Cardinality(models) < Budget
    <3>1. Pending' \subseteq Caller
      BY DEF Pending
    <3>2. Cardinality(Pending') <= Cardinality(Caller) /\ Cardinality(Pending') \in Nat
      BY <3>1, BudgetType, FS_Subset, FS_CardinalityType
    <3> QED
      BY <2>1, <3>2, BudgetType
  <2>2. CASE Cardinality(models) >= Budget
    <3>1. c \notin Pending'
      BY <1>1, <1>2, <1>3, <2>2, BudgetType DEF Pending
    <3>2. Pending' = Pending
      BY <1>5, <1>6, <3>1 DEF Pending
    <3> QED
      BY <3>2 DEF Spent
  <2> QED
    BY <2>1, <2>2, BudgetType
<1> QED
  BY <1>1, <1>2, <1>4, <1>7 DEF Spent

\* And who compiles it is no longer pending.
LEMMA LookupSpends ==
  ASSUME Good, Limited, Spent, NEW c \in Caller, Lookup(c)
  PROVE  Spent'
<1> DEFINE k == KeyOf(call[c].req)
<1>0. /\ call \in [Caller -> Call] /\ pc \in [Caller -> PC] /\ call[c] \in Call
  BY DEF Good, TypeOK, RuntimeTypeOK
<1>1. /\ models' = models \cup {k} /\ pc' = [pc EXCEPT ![c] = "pack"] /\ UNCHANGED conf
      /\ pc[c] = "lookup"
  BY DEF Lookup, Goto, fixed
<1>2. /\ \A r : KeyOf(r)' = KeyOf(r)
      /\ Budget' = Budget
  BY <1>1 DEF KeyOf, RouteShape, AlignDimUp, Budget
<1>3. /\ pc'[c] = "pack" /\ "pack" \notin Routed
      /\ \A o \in Caller \ {c} : pc'[o] = pc[o] /\ call'[o] = call[o]
  BY <1>0, <1>1 DEF Lookup, Routed, Routing
<1>4. k \in models \/ call[c].size < Budget
  BY <1>1 DEF Spent, Bounded, Admitted, Routed, Routing
<1>5. c \in Pending <=> k \notin models
  BY <1>1, <1>4 DEF Pending, Routed, Routing
<1> HIDE DEF k
<1>6. ASSUME NEW o \in Caller PROVE Bounded(o)'
  <2>1. CASE o = c
    BY <1>3, <2>1 DEF Bounded, Admitted, Routed
  <2>2. CASE o # c
    BY <1>1, <1>2, <1>3, <2>2 DEF Bounded, Spent
  <2> QED
    BY <2>1, <2>2
<1>7. Pending' \subseteq Pending \ {c}
  BY <1>1, <1>2, <1>3 DEF Pending
<1>8. /\ Cardinality(Pending') <= Cardinality(Pending \ {c}) /\ Cardinality(Pending') \in Nat
      /\ Cardinality(Pending \ {c}) = IF c \in Pending THEN Cardinality(Pending) - 1 ELSE Cardinality(Pending)
  <2>1. IsFiniteSet(Pending)
    BY BudgetType
  <2>2. /\ IsFiniteSet(Pending \ {c})
        /\ Cardinality(Pending \ {c}) = IF c \in Pending THEN Cardinality(Pending) - 1 ELSE Cardinality(Pending)
    BY <2>1, FS_RemoveElement
  <2>3. IsFiniteSet(Pending') /\ Cardinality(Pending') <= Cardinality(Pending \ {c})
    BY <1>7, <2>2, FS_Subset
  <2> QED
    BY <2>2, <2>3, FS_CardinalityType
<1>9. Cardinality(models') = IF k \in models THEN Cardinality(models) ELSE Cardinality(models) + 1
  <2>1. IsFiniteSet(models)
    BY BudgetType
  <2> QED
    BY <1>1, <2>1, FS_AddElement
<1>10. Cardinality(models') + Cardinality(Pending') <= Budget + Cardinality(Caller) - 1
  <2>1. /\ Cardinality(models) \in Nat /\ Cardinality(Pending) \in Nat /\ Budget \in Int
        /\ Cardinality(Caller) \in Nat
        /\ Cardinality(models) + Cardinality(Pending) <= Budget + Cardinality(Caller) - 1
    BY BudgetType DEF Spent
  <2>2. CASE k \in models
    BY <1>5, <1>8, <1>9, <2>1, <2>2
  <2>3. CASE k \notin models
    BY <1>5, <1>8, <1>9, <2>1, <2>3
  <2> QED
    BY <2>2, <2>3
<1> QED
  BY <1>2, <1>6, <1>10 DEF Spent

\* Router.DecideLinear and Executor.Linear: the size a call is routed by may be stale when
\* it compiles, but for N callers the executor never holds more than N - 1 models above
\* the larger of the two compile budgets.
THEOREM BudgetIsHeld == Spec => []BudgetHeld
<1> DEFINE Bound == Limited => Spent
<1>1. ASSUME Init PROVE Bound
  <2>1. Good /\ models = {} /\ \A c \in Caller : pc[c] = "idle"
    BY <1>1, Starting DEF Init, InitRuntime
  <2> SUFFICES ASSUME Limited PROVE Spent
    OBVIOUS
  <2>2. \A c \in Caller : pc[c] \notin Routed
    BY <2>1 DEF Routed, Routing
  <2>3. \A c \in Caller : Bounded(c)
    BY <2>1, <2>2 DEF Bounded, Admitted
  <2>4. Pending = {}
    BY <2>2 DEF Pending
  <2>5. Cardinality(models) = 0 /\ Cardinality(Pending) = 0
    BY <2>1, <2>4, FS_EmptySet
  <2> QED
    BY <2>1, <2>3, <2>5, BudgetType DEF Spent
<1>2. ASSUME Good, Nested, Bound, [Next]_vars PROVE Bound'
  <2>0. /\ call \in [Caller -> Call] /\ pc \in [Caller -> PC]
    BY <1>2 DEF Good, TypeOK, RuntimeTypeOK
  <2> SUFFICES ASSUME Limited' PROVE Spent'
    OBVIOUS
  <2>1. UNCHANGED conf
    <3>1. ASSUME NEW c \in Caller, HookStep(c) PROVE UNCHANGED conf
      BY <3>1 DEF HookStep, Dispatch, RunContext, TakeClosure, TakeClosureFails, ApplyClosure, Record,
         Failed, Return, fixed
    <3>2. ASSUME NEW c \in Caller, RunLinear(c) PROVE UNCHANGED conf
      BY <1>2, <3>2, RuntimeMoves DEF RunLinear, Good, fixed
    <3>3. ASSUME NEW c \in Caller, NNLinear(c) \/ StandardLinear(c) PROVE UNCHANGED conf
      BY <3>3 DEF NNLinear, StandardLinear, Start, fixed
    <3>4. ASSUME NEW s \in Session, Install(s) \/ Restore(s) \/ InstallModel(s) \/ RestoreModel(s)
          PROVE  UNCHANGED conf
      BY <3>4 DEF Install, Restore, InstallModel, RestoreModel, runtime, fixed
    <3> QED
      BY <1>2, <3>1, <3>2, <3>3, <3>4 DEF Next, HookStep, Finished, SetMode, vars, runtime, fixed
  <2>2. Limited /\ Spent
    BY <1>2, <2>1 DEF Limited
  <2>3. ASSUME UNCHANGED <<pc, call, models>> PROVE Spent'
    BY <2>1, <2>2, <2>3 DEF Spent, Bounded, Pending, KeyOf, RouteShape, AlignDimUp, Budget
  <2>4. ASSUME NEW c \in Caller, NNLinear(c) \/ StandardLinear(c) PROVE Spent'
    <3>1. PICK r, s, place : Start(c, r, s, place) /\ place \in {"dispatch", "session"}
      BY <2>4 DEF NNLinear, StandardLinear
    <3>2. /\ UNCHANGED models /\ pc'[c] \notin Routed
          /\ \A o \in Caller \ {c} : pc'[o] = pc[o] /\ call'[o] = call[o]
      BY <2>0, <3>1 DEF Start, Goto, Routed, Routing, shared
    <3> QED
      BY <1>2, <2>1, <2>2, <3>2, CalmSpends DEF Calm
  <2>5. ASSUME NEW c \in Caller, HookStep(c) PROVE Spent'
    <3>1. /\ UNCHANGED models /\ pc'[c] \notin Routed
          /\ \A o \in Caller \ {c} : pc'[o] = pc[o] /\ call'[o] = call[o]
      BY <2>0, <2>5 DEF HookStep, Dispatch, RunContext, TakeClosure, TakeClosureFails, ApplyClosure,
         Record, Recorded, Failed, Fails, PassOn, Ends, Answer, Return, Goto, Routed, Routing, shared
    <3> QED
      BY <1>2, <2>1, <2>2, <3>1, CalmSpends DEF Calm
  <2>6. ASSUME NEW c \in Caller, RunLinear(c) PROVE Spent'
    <3>1. CASE RouteSize(c)
      BY <1>2, <2>2, <3>1, RouteSizeSpends
    <3>2. CASE Lookup(c)
      BY <1>2, <2>2, <3>2, LookupSpends
    <3>3. CASE ~RouteSize(c) /\ ~Lookup(c)
      <4>1. Calm(c) /\ Moves(c)
        BY <1>2, <2>2, <2>6, <3>3, CalmSteps, RuntimeMoves DEF RunLinear, Good
      <4>2. \A o \in Caller \ {c} : pc'[o] = pc[o] /\ call'[o] = call[o]
        BY <2>0, <4>1 DEF Moves
      <4> QED
        BY <1>2, <2>1, <2>2, <4>1, <4>2, CalmSpends
    <3> QED
      BY <3>1, <3>2, <3>3
  <2>7. ASSUME NEW s \in Session, Install(s) \/ Restore(s) \/ InstallModel(s) \/ RestoreModel(s)
        PROVE  Spent'
    BY <2>3, <2>7 DEF Install, Restore, InstallModel, RestoreModel, runtime, shared
  <2>8. CASE SetMode \/ UNCHANGED vars
    BY <2>3, <2>8 DEF SetMode, vars, runtime, shared
  <2> QED
    BY <1>2, <2>4, <2>5, <2>6, <2>7, <2>8 DEF Next, HookStep, Finished
<1>3. ASSUME Good, Bound PROVE BudgetHeld
  <2> SUFFICES ASSUME Limited PROVE Cardinality(models) <= Budget + Cardinality(Caller) - 1
    BY DEF BudgetHeld, Limited
  <2> QED
    BY <1>3, BudgetType DEF Spent
<1>4. Init => Good /\ Nested
  BY Starting
<1>5. Good /\ Nested /\ [Next]_vars => Good' /\ Nested'
  BY Steps
<1> QED
  BY <1>1, <1>2, <1>3, <1>4, <1>5, PTL DEF Spec

-----------------------------------------------------------------------------
Early == {"idle", "dispatch", "session", "take", "closure"} \cup Routing \cup {"pack", "eval"}

Reasoned(r) == r.backend = "mlx" <=> r.reason # ""

\* What is known of a call whatever the others do.
Told(c) ==
  /\ pc[c] \in Early => call[c].y = "" /\ call[c].reason = ""
  /\ pc[c] = "telemetry" => call[c].y \in {"", "ane"} /\ call[c].reason = ""
  /\ pc[c] \in {"publish", "result"} =>
       call[c].y \in {"ane", "mlx"} /\ (call[c].y = "mlx" <=> call[c].reason # "")
  /\ pc[c] = "answered" /\ conf.executor # "none" => Reasoned(call[c])
  /\ locals[c].outcome = "answered" =>
       pc[c] = "ended" /\ (conf.executor # "none" => Reasoned(call[c]))

\* And of one that no other has overlapped: what the runtime keeps for all is its own.
Undisturbed(c) ==
  locals[c].alone =>
    /\ pc[c] \in {"publish", "result"} /\ call[c].y = "ane" => last.hit = call[c].hit
    /\ pc[c] = "result" => vjp = <<call[c].y, call[c].reason>>
    /\ pc[c] = "answered" =>
         call[c].backend = call[c].y /\ (call[c].backend = "ane" => last.hit = call[c].hit)
    /\ locals[c].outcome = "answered" =>
         call[c].backend = call[c].y /\ (call[c].backend = "ane" => locals[c].seen = call[c].hit)

Alone == \A c \in Caller : locals[c].alone =>
           pc[c] # "idle" /\ \A o \in Caller \ {c} : pc[o] = "idle"

VJPReasoned == vjp[1] = "mlx" <=> vjp[2] # ""

\* The steps of Linear keep what is known of its call.
LEMMA RuntimeTells ==
  ASSUME Good, VJPReasoned, NEW c \in Caller, Told(c), Undisturbed(c), RunLinear(c)
  PROVE  VJPReasoned' /\ Told(c)' /\ Undisturbed(c)'
<1>0. /\ call \in [Caller -> Call] /\ pc \in [Caller -> PC] /\ call[c] \in Call
      /\ last.hit \in BOOLEAN /\ call[c].hit \in BOOLEAN /\ locals' = locals
      /\ vjp \in Answered \X Reason /\ vjp = <<vjp[1], vjp[2]>>
  BY DEF Good, TypeOK, RuntimeTypeOK, Call, RunLinear
<1>00. UNCHANGED conf /\ pc[c] \in InLinear
  BY RuntimeMoves DEF RunLinear, Good, fixed
<1>1. locals[c].outcome # "answered"
  BY <1>00 DEF Told, InLinear, Routing, Running
<1> DEFINE Own == Told(c)' /\ Undisturbed(c)'
\* MLX has answered.
<1>2. ASSUME NEW r, Goto(c, "answered"), Answer(c, "mlx", c, "mlx", r), r # "" \/ conf.executor = "none"
      PROVE  Own
  <2>1. /\ pc'[c] = "answered" /\ call'[c].y = "mlx" /\ call'[c].backend = "mlx" /\ call'[c].reason = r
    BY <1>0, <1>2 DEF Goto, Answer, Call
  <2> QED
    BY <1>0, <1>00, <1>1, <1>2, <2>1 DEF Told, Undisturbed, Reasoned, Early, Routing
\* The closure has computed with MLX.
<1>3. ASSUME NEW r, Goto(c, "publish"), Answer(c, "mlx", c, "", r), r # "" PROVE Own
  <2>1. /\ pc'[c] = "publish" /\ call'[c].y = "mlx" /\ call'[c].reason = r
    BY <1>0, <1>3 DEF Goto, Answer, Call
  <2> QED
    BY <1>0, <1>00, <1>1, <1>3, <2>1 DEF Told, Undisturbed, Early, Routing
\* The call is on its way.
<1>4. ASSUME NEW place \in Early \cup {"failed"}, Goto(c, place), pc[c] \in Early,
             call'[c].y = call[c].y, call'[c].reason = call[c].reason
      PROVE  Own
  <2>1. pc'[c] = place /\ place \notin {"telemetry", "publish", "result", "answered"}
    BY <1>0, <1>4 DEF Goto, Early, Routing
  <2> QED
    BY <1>0, <1>1, <1>4, <2>1 DEF Told, Undisturbed
<1>5. ASSUME Goto(c, "failed") PROVE Own
  <2>1. pc'[c] = "failed"
    BY <1>0, <1>5 DEF Goto
  <2> QED
    BY <1>0, <1>1, <2>1 DEF Told, Undisturbed, Early, Routing
<1> HIDE DEF Own
<1>6. ASSUME NEW r, FallBack(c, r), r # "" PROVE Own
  BY <1>2, <1>5, <1>6 DEF FallBack
<1>7. ASSUME FailANE(c) PROVE Own
  BY <1>3, <1>6, <1>7 DEF FailANE
<1>8. ASSUME Own, vjp' = vjp \/ vjp' = <<"", "">> PROVE VJPReasoned' /\ Own
  <2>1. ASSUME vjp' = vjp PROVE VJPReasoned'
    BY <2>1 DEF VJPReasoned
  <2>2. ASSUME vjp' = <<"", "">> PROVE VJPReasoned'
    <3>1. vjp'[1] = "" /\ vjp'[2] = ""
      BY <2>2
    <3> QED
      BY <3>1 DEF VJPReasoned
  <2> QED
    BY <1>8, <2>1, <2>2
<1> DEFINE Goal == VJPReasoned' /\ Own
<1>9. ASSUME NoExecutor(c) \/ WrapFails(c) \/ BuildFails(c) PROVE Goal
  BY <1>2, <1>6, <1>7, <1>8, <1>9 DEF NoExecutor, WrapFails, BuildFails, shared
<1>10. ASSUME RouteDecide(c) PROVE Goal
  <2>1. Own
    BY <1>0, <1>4, <1>6, <1>10 DEF RouteDecide, Early, Routing
  <2> QED
    BY <1>8, <1>10, <2>1 DEF RouteDecide, shared
<1>11. ASSUME \/ Unrouted(c) \/ Admit(c) \/ CheckCache(c) \/ NewCache(c) \/ Wrap(c) \/ Pack(c)
       PROVE  Goal
  <2>1. \E place \in Early : Goto(c, place)
    BY <1>11 DEF Unrouted, Admit, CheckCache, NewCache, Wrap, Pack, Early, Routing
  <2>2. pc[c] \in Early /\ UNCHANGED call /\ (vjp' = vjp \/ vjp' = <<"", "">>)
    BY <1>11 DEF Unrouted, Admit, CheckCache, NewCache, Wrap, Pack, Early, Routing, shared
  <2> QED
    BY <1>4, <1>8, <2>1, <2>2
<1>12. ASSUME RouteSize(c) \/ UseCache(c) \/ Lookup(c) PROVE Goal
  <2>1. \E place \in Early : Goto(c, place)
    BY <1>12 DEF RouteSize, UseCache, Lookup, Early, Routing
  <2>2. pc[c] \in Early /\ vjp' = vjp
    BY <1>12 DEF RouteSize, UseCache, Lookup, Early, Routing, shared
  <2>3. call'[c].y = call[c].y /\ call'[c].reason = call[c].reason
    <3>1. ASSUME RouteSize(c) PROVE call'[c].y = call[c].y /\ call'[c].reason = call[c].reason
      BY <1>0, <3>1 DEF RouteSize, Call
    <3>2. ASSUME UseCache(c) PROVE call'[c].y = call[c].y /\ call'[c].reason = call[c].reason
      BY <1>0, <3>2 DEF UseCache, Call
    <3>3. ASSUME Lookup(c) PROVE call'[c].y = call[c].y /\ call'[c].reason = call[c].reason
      BY <1>0, <3>3 DEF Lookup, Call
    <3> QED
      BY <1>12, <3>1, <3>2, <3>3
  <2> QED
    BY <1>4, <1>8, <2>1, <2>2, <2>3
<1>13. ASSUME Apply(c) PROVE Goal
  <2>1. pc[c] \in Early /\ "lookup" \in Early /\ vjp' = vjp
    BY <1>13 DEF Apply, Early, Routing, shared
  <2> QED
    BY <1>3, <1>4, <1>8, <1>13, <2>1 DEF Apply
<1>14. ASSUME Eval(c) \/ EvalFails(c) PROVE Goal
  <2>1. /\ pc'[c] = "telemetry" /\ pc[c] = "eval" /\ vjp' = vjp
    BY <1>0, <1>14 DEF Eval, EvalFails, Goto
  <2>2. call'[c].y \in {"", "ane"} /\ call'[c].reason = call[c].reason
    <3>1. ASSUME Eval(c) PROVE call'[c].y = "ane" /\ call'[c].reason = call[c].reason
      BY <1>0, <3>1 DEF Eval, Call
    <3>2. ASSUME EvalFails(c) PROVE call'[c].y = "" /\ call'[c].reason = call[c].reason
      BY <2>1, <3>2 DEF EvalFails, Told, Early
    <3> QED
      BY <1>14, <3>1, <3>2
  <2>3. call[c].reason = ""
    BY <2>1 DEF Told, Early
  <2>4. Own
    BY <1>0, <1>1, <2>1, <2>2, <2>3 DEF Own, Told, Undisturbed, Early, Routing
  <2> QED
    BY <1>8, <2>1, <2>4
<1>15. ASSUME Telemetry(c) PROVE Goal
  <2>0. /\ vjp' = vjp /\ last'.hit = call[c].hit
        /\ call[c].y \in {"", "ane"} /\ call[c].reason = ""
    BY <1>15 DEF Telemetry, Told
  <2>1. ASSUME call[c].y # "", Goto(c, "publish"), UNCHANGED call PROVE Own
    <3>1. pc'[c] = "publish" /\ call[c].y = "ane"
      BY <1>0, <2>0, <2>1 DEF Goto
    <3> QED
      BY <1>0, <1>1, <2>0, <2>1, <3>1 DEF Own, Told, Undisturbed, Early, Routing
  <2>2. ASSUME call[c].y # "", Goto(c, "answered"), call' = [call EXCEPT ![c].backend = "ane"]
        PROVE  Own
    <3>1. /\ pc'[c] = "answered" /\ call'[c].y = "ane" /\ call'[c].backend = "ane"
          /\ call'[c].reason = "" /\ call'[c].hit = call[c].hit
      BY <1>0, <2>0, <2>2 DEF Goto, Call
    <3> QED
      BY <1>0, <1>00, <1>1, <2>0, <3>1 DEF Own, Told, Undisturbed, Reasoned, Early, Routing
  <2> QED
    BY <1>7, <1>8, <1>15, <2>0, <2>1, <2>2 DEF Telemetry
<1>16. ASSUME Publish(c) PROVE Goal
  <2>1. /\ pc[c] = "publish" /\ pc'[c] = "result" /\ UNCHANGED <<call, last>>
        /\ vjp' = <<call[c].y, call[c].reason>>
    BY <1>0, <1>16 DEF Publish, Goto
  <2>2. call[c].y \in {"ane", "mlx"} /\ (call[c].y = "mlx" <=> call[c].reason # "")
    BY <2>1 DEF Told
  <2>3. VJPReasoned'
    BY <2>1, <2>2 DEF VJPReasoned
  <2>4. Own
    BY <1>0, <1>1, <2>1, <2>2 DEF Own, Told, Undisturbed, Early, Routing
  <2> QED
    BY <2>3, <2>4
<1>17. ASSUME Result(c) PROVE Goal
  <2>1. /\ pc[c] = "result" /\ pc'[c] = "answered" /\ UNCHANGED <<vjp, last>>
        /\ call'[c] = Attributed(call[c])
    BY <1>0, <1>17 DEF Result, Goto, shared
  <2>2. /\ call'[c].y = call[c].y /\ call'[c].hit = call[c].hit
        /\ vjp[1] = "" => call'[c].backend = "ane" /\ call'[c].reason = ""
        /\ vjp[1] # "" => call'[c].backend = vjp[1] /\ call'[c].reason = vjp[2]
    BY <1>0, <2>1 DEF Attributed, Call
  <2>3. Reasoned(call'[c])
    BY <2>2 DEF Reasoned, VJPReasoned
  <2>4. ASSUME locals[c].alone
        PROVE  call'[c].backend = call[c].y /\ (call[c].y = "ane" => last.hit = call[c].hit)
    <3>1. vjp[1] = call[c].y /\ call[c].y # "" /\ (call[c].y = "ane" => last.hit = call[c].hit)
      <4>1. vjp = <<call[c].y, call[c].reason>> /\ (call[c].y = "ane" => last.hit = call[c].hit)
        BY <2>1, <2>4 DEF Undisturbed
      <4>2. call[c].y \in {"ane", "mlx"}
        BY <2>1 DEF Told
      <4> QED
        BY <4>1, <4>2
    <3> QED
      BY <2>2, <3>1
  <2>5. Told(c)'
    BY <1>0, <1>1, <2>1, <2>3 DEF Told, Early, Routing
  <2>6. Undisturbed(c)'
    BY <1>0, <1>1, <2>1, <2>2, <2>4 DEF Undisturbed
  <2> QED
    BY <1>8, <2>1, <2>5, <2>6 DEF Own
<1> QED
  BY <1>9, <1>10, <1>11, <1>12, <1>13, <1>14, <1>15, <1>16, <1>17 DEF RunLinear, RuntimeStep, Own

\* And so do those of the hook around it.
LEMMA HookTells ==
  ASSUME Good, NEW c \in Caller, Told(c), Undisturbed(c), HookStep(c)
  PROVE  /\ Told(c)' /\ Undisturbed(c)' /\ UNCHANGED <<conf, vjp>>
         /\ pc[c] # "idle"
         /\ locals'[c].alone => locals[c].alone /\ pc'[c] # "idle"
         /\ \A o \in Caller \ {c} : pc'[o] = pc[o] /\ call'[o] = call[o] /\ locals'[o] = locals[o]
<1>0. /\ call \in [Caller -> Call] /\ pc \in [Caller -> PC] /\ call[c] \in Call
      /\ locals \in [Caller -> Locals] /\ locals[c] \in Locals
      /\ last.hit \in BOOLEAN /\ call[c].hit \in BOOLEAN
  BY DEF Good, TypeOK, RuntimeTypeOK, Call
<1>1. UNCHANGED fixed /\ UNCHANGED shared /\ pc[c] # "idle"
  BY DEF HookStep, Dispatch, RunContext, TakeClosure, TakeClosureFails, ApplyClosure, Record,
         Failed, Return
<1>2. UNCHANGED <<conf, vjp, last>>
  BY <1>1 DEF fixed, shared
<1>3. \A o \in Caller \ {c} : pc'[o] = pc[o] /\ call'[o] = call[o] /\ locals'[o] = locals[o]
  BY <1>0 DEF HookStep, Dispatch, RunContext, TakeClosure, TakeClosureFails, ApplyClosure, Record,
         Recorded, Failed, Fails, PassOn, Ends, Answer, Return, Goto
<1> DEFINE Own == /\ Told(c)' /\ Undisturbed(c)'
                  /\ locals'[c].alone => locals[c].alone /\ pc'[c] # "idle"
\* Not answered.
<1>4. ASSUME NEW outcome \in {"plain", "foreign", "error"}, Ends(c, outcome) PROVE Own
  <2>1. pc'[c] = "ended" /\ locals'[c].outcome = outcome /\ locals'[c].alone = locals[c].alone
    BY <1>0, <1>4 DEF Ends, Goto, Locals
  <2> QED
    BY <2>1 DEF Told, Undisturbed, Early, Routing
\* On its way.
<1>5. ASSUME NEW place \in Early \ {"idle"}, Goto(c, place), pc[c] \in Early,
             call'[c].y = call[c].y, call'[c].reason = call[c].reason,
             locals'[c].outcome = locals[c].outcome, locals'[c].alone = locals[c].alone
      PROVE  Own
  <2>1. /\ pc'[c] = place /\ place \notin {"telemetry", "publish", "result", "answered", "ended", "idle"}
        /\ pc[c] # "ended"
    BY <1>0, <1>5 DEF Goto, Early, Routing
  <2> QED
    BY <1>5, <2>1 DEF Told, Undisturbed
<1> HIDE DEF Own
<1>6. ASSUME NEW next, PassOn(c, next) PROVE Own
  BY <1>4, <1>6 DEF PassOn
<1>7. ASSUME Fails(c) PROVE Own
  BY <1>4, <1>7 DEF Fails
<1>8. ASSUME Dispatch(c) PROVE Own
  <2>1. ASSUME NEW s, NEW next, Goto(c, "session"), pc[c] = "dispatch", UNCHANGED call,
               locals' = [locals EXCEPT ![c].session = s, ![c].next = next]
        PROVE  Own
    <3>1. locals'[c].outcome = locals[c].outcome /\ locals'[c].alone = locals[c].alone
      BY <1>0, <2>1 DEF Locals
    <3> QED
      BY <1>5, <2>1, <3>1 DEF Early
  <2> QED
    BY <1>6, <1>8, <2>1 DEF Dispatch
<1>9. ASSUME RunContext(c) PROVE Own
  <2>1. pc[c] \in Early /\ "take" \in Early \ {"idle"} /\ "linear" \in Early \ {"idle"}
    BY <1>9 DEF RunContext, Early, Routing
  <2>2. ASSUME Goto(c, "linear"), call' = [call EXCEPT ![c].withVJP = TRUE], UNCHANGED locals
        PROVE  Own
    <3>1. call'[c].y = call[c].y /\ call'[c].reason = call[c].reason
      BY <1>0, <2>2 DEF Call
    <3> QED
      BY <1>5, <2>1, <2>2, <3>1
  <2> QED
    BY <1>5, <1>6, <1>9, <2>1, <2>2 DEF RunContext
<1>10. ASSUME TakeClosure(c) PROVE Own
  <2>1. /\ locals'[c].outcome = locals[c].outcome /\ locals'[c].alone = locals[c].alone
        /\ pc[c] = "take" /\ UNCHANGED call /\ Goto(c, "closure")
    BY <1>0, <1>10 DEF TakeClosure, Locals
  <2> QED
    BY <1>5, <2>1 DEF Early
<1>11. ASSUME TakeClosureFails(c) PROVE Own
  BY <1>7, <1>11 DEF TakeClosureFails
<1>12. ASSUME ApplyClosure(c) PROVE Own
  BY <1>5, <1>12 DEF ApplyClosure, Early, Routing
<1>13. ASSUME Record(c) PROVE Own
  <2> DEFINE seen == IF call[c].backend = "ane" THEN last.hit ELSE FALSE
  <2>1. /\ pc[c] = "answered" /\ pc'[c] = "ended" /\ UNCHANGED call
        /\ locals' = [locals EXCEPT ![c].outcome = "answered", ![c].seen = seen]
    BY <1>0, <1>13 DEF Record, Recorded, Goto
  <2>2. call[c].backend = "ane" => seen = last.hit
    OBVIOUS
  <2> HIDE DEF seen
  <2>3. /\ locals'[c].outcome = "answered" /\ locals'[c].seen = seen
        /\ locals'[c].alone = locals[c].alone
    BY <1>0, <2>1 DEF Locals
  <2>4. Told(c)'
    BY <1>2, <2>1 DEF Told, Early, Routing
  <2>5. Undisturbed(c)'
    BY <2>1, <2>2, <2>3 DEF Undisturbed
  <2> QED
    BY <2>1, <2>3, <2>4, <2>5 DEF Own
<1>14. ASSUME Failed(c) PROVE Own
  <2>1. ASSUME Goto(c, "answered"), Answer(c, "mlx", c, "mlx", "error"), UNCHANGED locals,
               pc[c] = "failed"
        PROVE  Own
    <3>1. /\ pc'[c] = "answered" /\ call'[c].y = "mlx" /\ call'[c].backend = "mlx"
          /\ call'[c].reason = "error" /\ locals[c].outcome # "answered"
      BY <1>0, <2>1 DEF Goto, Answer, Call, Told
    <3> QED
      BY <1>2, <2>1, <3>1 DEF Own, Told, Undisturbed, Reasoned, Early, Routing
  <2> QED
    BY <1>7, <1>14, <2>1 DEF Failed
<1>15. ASSUME Return(c) PROVE Own
  <2>1. /\ pc'[c] = "idle" /\ call'[c].y = "" /\ call'[c].reason = ""
        /\ locals'[c].outcome = "" /\ locals'[c].alone = FALSE
    BY <1>0, <1>15 DEF Return, Goto, NoCall, NoLocals
  <2> QED
    BY <2>1 DEF Own, Told, Undisturbed
<1> QED
  BY <1>1, <1>2, <1>3, <1>8, <1>9, <1>10, <1>11, <1>12, <1>13, <1>14, <1>15 DEF HookStep, Own

\* Who is said to have answered (linearANEWithVJP and vjpResult, LinearHookStats.record):
\* a product of MLX in place of the ANE comes with its reason and one of the ANE without,
\* whatever calls overlap; of a call that runs alone the backend is the one that computed,
\* and the statistics count its own lookup.
THEOREM Attributable == Spec => []Attribution
<1> DEFINE Attr == /\ VJPReasoned /\ Alone
                   /\ \A c \in Caller : Told(c) /\ Undisturbed(c)
<1>1. ASSUME Init PROVE Attr
  <2>1. /\ vjp = <<"", "">>
        /\ \A c \in Caller : /\ pc[c] = "idle" /\ call[c].y = "" /\ call[c].reason = ""
                             /\ locals[c].alone = FALSE /\ locals[c].outcome = ""
    BY <1>1 DEF Init, InitRuntime, NoCall, NoLocals
  <2>2. VJPReasoned
    <3>1. vjp[1] = "" /\ vjp[2] = ""
      BY <2>1
    <3> QED
      BY <3>1 DEF VJPReasoned
  <2>3. Alone
    BY <2>1 DEF Alone
  <2>4. ASSUME NEW c \in Caller PROVE Told(c) /\ Undisturbed(c)
    BY <2>1 DEF Told, Undisturbed
  <2> QED
    BY <2>2, <2>3, <2>4
<1>2. ASSUME Good, Nested, Attr, [Next]_vars PROVE Attr'
  <2>0. /\ call \in [Caller -> Call] /\ pc \in [Caller -> PC] /\ locals \in [Caller -> Locals]
        /\ \A c \in Caller : locals[c] \in Locals
    BY <1>2 DEF Good, TypeOK, RuntimeTypeOK
  \* Nothing moves but what sessions do to the calls on their way.
  <2>1. ASSUME UNCHANGED <<conf, vjp, last, pc, call>>,
               \A c \in Caller : /\ locals'[c].alone = locals[c].alone
                                 /\ locals'[c].outcome = locals[c].outcome
                                 /\ locals'[c].seen = locals[c].seen
        PROVE  Attr'
    <3>1. VJPReasoned' /\ Alone'
      BY <1>2, <2>1 DEF VJPReasoned, Alone
    <3>2. ASSUME NEW c \in Caller PROVE Told(c)' /\ Undisturbed(c)'
      BY <1>2, <2>1 DEF Told, Undisturbed, Reasoned
    <3> QED
      BY <3>1, <3>2
  \* Of a call that has been overlapped only its own part is left to show.
  <2>2. ASSUME NEW c \in Caller, VJPReasoned', Told(c)', Undisturbed(c)', UNCHANGED conf,
               pc[c] # "idle", locals'[c].alone => locals[c].alone /\ pc'[c] # "idle",
               \A o \in Caller \ {c} : pc'[o] = pc[o] /\ call'[o] = call[o] /\ locals'[o] = locals[o]
        PROVE  Attr'
    <3>1. \A o \in Caller \ {c} : ~locals'[o].alone
      BY <1>2, <2>2 DEF Alone
    <3>2. Alone'
      BY <1>2, <2>2, <3>1 DEF Alone
    <3>3. ASSUME NEW o \in Caller \ {c} PROVE Told(o)' /\ Undisturbed(o)'
      <4>0. Told(o) /\ conf' = conf /\ pc'[o] = pc[o] /\ call'[o] = call[o] /\ locals'[o] = locals[o]
        BY <1>2, <2>2
      <4>1. Told(o)'
        BY <4>0 DEF Told, Reasoned
      <4>2. Undisturbed(o)'
        BY <3>1 DEF Undisturbed
      <4> QED
        BY <4>1, <4>2
    <3> QED
      BY <2>2, <3>2, <3>3
  <2>3. ASSUME NEW c \in Caller, NNLinear(c) \/ StandardLinear(c) PROVE Attr'
    <3>1. PICK r, s, place : Start(c, r, s, place) /\ place \in {"dispatch", "session"}
      BY <2>3 DEF NNLinear, StandardLinear
    <3> DEFINE alone == {o \in Caller \ {c} : InFlight(o)} = {}
    <3>2. /\ UNCHANGED <<conf, vjp>> /\ pc'[c] = place /\ call'[c].y = "" /\ call'[c].reason = ""
          /\ locals'[c].outcome = "" /\ locals'[c].alone = alone
          /\ \A o \in Caller \ {c} : /\ pc'[o] = pc[o] /\ call'[o] = call[o]
                                     /\ locals'[o].alone = FALSE
                                     /\ locals'[o].outcome = locals[o].outcome
      <4> DEFINE v == [NoCall EXCEPT !.req = r]
                 w == [NoLocals EXCEPT !.alone = alone, !.session = s]
      <4>1. /\ UNCHANGED <<conf, vjp>> /\ pc' = [pc EXCEPT ![c] = place] /\ call' = [call EXCEPT ![c] = v]
            /\ locals' = [o \in Caller |-> IF o = c THEN w ELSE [locals[o] EXCEPT !.alone = FALSE]]
        BY <3>1 DEF Start, Goto, fixed, shared
      <4>2. v.y = "" /\ v.reason = ""
        BY DEF NoCall
      <4> HIDE DEF alone
      <4>3. w.outcome = "" /\ w.alone = alone
        BY DEF NoLocals
      <4> HIDE DEF v, w
      <4>4. \A o \in Caller : /\ [locals[o] EXCEPT !.alone = FALSE].alone = FALSE
                              /\ [locals[o] EXCEPT !.alone = FALSE].outcome = locals[o].outcome
        BY <2>0 DEF Locals
      <4> QED
        BY <2>0, <4>1, <4>2, <4>3, <4>4
    <3>3. alone => \A o \in Caller \ {c} : pc[o] = "idle"
      BY DEF InFlight
    <3> HIDE DEF alone
    <3>4. VJPReasoned' /\ Alone'
      <4>1. VJPReasoned'
        BY <1>2, <3>2 DEF VJPReasoned
      <4>2. ASSUME NEW o \in Caller, locals'[o].alone
            PROVE  pc'[o] # "idle" /\ \A p \in Caller \ {o} : pc'[p] = "idle"
        <5>1. o = c /\ alone
          BY <3>2, <4>2
        <5> QED
          BY <3>1, <3>2, <3>3, <5>1
      <4> QED
        BY <4>1, <4>2 DEF Alone
    <3>5. Told(c)' /\ Undisturbed(c)'
      BY <3>1, <3>2 DEF Told, Undisturbed
    <3>6. ASSUME NEW o \in Caller \ {c} PROVE Told(o)' /\ Undisturbed(o)'
      <4>1. /\ Told(o) /\ conf' = conf /\ pc'[o] = pc[o] /\ call'[o] = call[o]
            /\ locals'[o].alone = FALSE /\ locals'[o].outcome = locals[o].outcome
        BY <1>2, <3>2
      <4> QED
        BY <4>1 DEF Told, Undisturbed, Reasoned
    <3> QED
      BY <3>4, <3>5, <3>6
  <2>4. ASSUME NEW c \in Caller, HookStep(c) PROVE Attr'
    <3>1. /\ Told(c)' /\ Undisturbed(c)' /\ UNCHANGED <<conf, vjp>>
          /\ pc[c] # "idle"
          /\ locals'[c].alone => locals[c].alone /\ pc'[c] # "idle"
          /\ \A o \in Caller \ {c} : pc'[o] = pc[o] /\ call'[o] = call[o] /\ locals'[o] = locals[o]
      BY <1>2, <2>4, HookTells
    <3>2. VJPReasoned'
      BY <1>2, <3>1 DEF VJPReasoned
    <3> QED
      BY <2>2, <3>1, <3>2
  <2>5. ASSUME NEW c \in Caller, RunLinear(c) PROVE Attr'
    <3>1. /\ pc[c] \in InLinear /\ Moves(c) /\ UNCHANGED <<conf, locals>>
      BY <1>2, <2>5, RuntimeMoves DEF RunLinear, Good, fixed
    <3>2. /\ \A o \in Caller \ {c} : pc'[o] = pc[o] /\ call'[o] = call[o] /\ locals'[o] = locals[o]
          /\ pc[c] # "idle" /\ pc'[c] # "idle"
      BY <2>0, <3>1 DEF Moves, InLinear, Routing, Running
    <3>3. VJPReasoned' /\ Told(c)' /\ Undisturbed(c)'
      BY <1>2, <2>5, RuntimeTells
    <3> QED
      BY <2>2, <3>1, <3>2, <3>3
  <2>6. ASSUME NEW s \in Session, Install(s) \/ Restore(s) \/ InstallModel(s) \/ RestoreModel(s)
        PROVE  Attr'
    <3>1. UNCHANGED <<conf, vjp, last, pc, call>>
      BY <2>6 DEF Install, Restore, InstallModel, RestoreModel, runtime, fixed, shared
    <3>2. locals' = locals \/ \E e \in BOOLEAN : locals' = Overlapped(s, e)
      <4>1. CASE Restore(s)
        <5> DEFINE e == stack' = << >>
        <5>1. e \in BOOLEAN /\ locals' = Overlapped(s, e)
          BY <4>1 DEF Restore
        <5> HIDE DEF e
        <5> QED
          BY <5>1
      <4>2. CASE RestoreModel(s)
        BY <4>2 DEF RestoreModel
      <4>3. CASE Install(s) \/ InstallModel(s)
        BY <4>3 DEF Install, InstallModel
      <4> QED
        BY <2>6, <4>1, <4>2, <4>3
    <3>3. \A c \in Caller : /\ locals'[c].alone = locals[c].alone
                            /\ locals'[c].outcome = locals[c].outcome
                            /\ locals'[c].seen = locals[c].seen
      BY <2>0, <3>2, OverlappedType
    <3> QED
      BY <2>1, <3>1, <3>3
  <2>7. CASE SetMode \/ UNCHANGED vars
    BY <2>1, <2>7 DEF SetMode, vars, runtime, fixed, shared
  <2> QED
    BY <1>2, <2>3, <2>4, <2>5, <2>6, <2>7 DEF Next, HookStep, Finished
<1>3. ASSUME Attr PROVE Attribution
  <2> SUFFICES ASSUME NEW c \in Caller, locals[c].outcome = "answered"
               PROVE  /\ conf.executor # "none" => (call[c].backend = "mlx" <=> call[c].reason # "")
                      /\ locals[c].alone =>
                           /\ call[c].backend = call[c].y
                           /\ call[c].backend = "ane" => locals[c].seen = call[c].hit
    BY DEF Attribution
  <2> QED
    BY <1>3 DEF Told, Undisturbed, Reasoned
<1>4. Init => Good /\ Nested
  BY Starting
<1>5. Good /\ Nested /\ [Next]_vars => Good' /\ Nested'
  BY Steps
<1> QED
  BY <1>1, <1>2, <1>3, <1>4, <1>5, PTL DEF Spec
=============================================================================
