---------------------------- MODULE StageProofs ----------------------------
(***************************************************************************)
(* Proofs about the stages of a decode plane, for every set of callers and *)
(* of stages.                                                              *)
(*                                                                         *)
(* StageCache: a key is built at most once, nobody waits on a channel      *)
(* nobody will close, and the protocol implements OnceMap step by step     *)
(* (its fairness is left to TLC).  The invariant that carries all three    *)
(* ties pending to the one caller that is building, and a key that was     *)
(* ever built to its outcome.                                              *)
(*                                                                         *)
(* StageDispatch: a call that fails leaves a slot locked or leased in two  *)
(* ways only.  The invariant that carries it says which of its runs a      *)
(* caller holds at each place, and in which state.                         *)
(***************************************************************************)
EXTENDS StageCache, StageDispatch, WellFoundedInduction, NaturalsInduction, TLAPS

\* A caller asks for a key from lookup to return.
AskingInv == \A c \in Caller : IF pc[c] = "idle" THEN want[c] = None ELSE want[c] \in Key

\* The pending channel of a key is the newest made for it, and belongs to its builder.
PendingInv ==
  /\ \A k \in Key : pending[k] # 0 => /\ pending[k] = made[k]
                                      /\ \E c \in Caller : pc[c] \in Building /\ want[c] = k
  /\ \A c \in Caller : pc[c] \in Building =>
       pending[want[c]] = chan[c] /\ chan[c] # 0 /\ Undecided(want[c])

\* One builder per key.
SoleBuilder ==
  \A c, d \in Caller :
    pc[c] \in Building /\ pc[d] \in Building /\ want[c] = want[d] => c = d

\* Only a key that is decided or in progress was ever built, and once.
MadeInv ==
  \A k \in Key : /\ made[k] <= 1
                 /\ Undecided(k) /\ pending[k] = 0 => made[k] = 0

\* A waiter's channel is closed or still pending.
WaitInv ==
  \A c \in Caller : pc[c] = "waiting" =>
    <<want[c], chan[c]>> \in closed \/ (pending[want[c]] = chan[c] /\ chan[c] # 0)

\* What a builder is about to return is what it published.
ReturnInv ==
  \A c \in Caller :
    /\ pc[c] \in {"recording", "publishing", "returning"} => built[c] \in Outcome
    /\ pc[c] = "returning" => built[c] = Decided[want[c]]

CacheInv == TypeOK /\ AskingInv /\ PendingInv /\ SoleBuilder /\ MadeInv /\ WaitInv /\ ReturnInv

-----------------------------------------------------------------------------
LEMMA InitInvariant == Init => CacheInv
BY DEF Init, CacheInv, TypeOK, AskingInv, PendingInv, SoleBuilder, MadeInv, WaitInv, ReturnInv,
       PC, Building, Undecided

\* A step that leaves the maps alone and moves one caller between places where it builds
\* nothing, or the same thing.
LEMMA MovePreserves ==
  ASSUME CacheInv, NEW c \in Caller, NEW to \in PC,
         pc' = [pc EXCEPT ![c] = to],
         UNCHANGED Maps,
         builds' \in Nat, failures' \in Nat,
         want' \in [Caller -> Key \cup {None}],
         chan' \in [Caller -> Nat],
         built' \in [Caller -> Outcome \cup {None}],
         got' \in [Caller -> Outcome \cup {None}],
         calls' \in [Caller -> Nat],
         \A d \in Caller \ {c} : want'[d] = want[d] /\ chan'[d] = chan[d] /\ built'[d] = built[d],
         IF to = "idle" THEN want'[c] = None ELSE want'[c] \in Key,
         to \in Building <=> pc[c] \in Building,
         to \in Building => want'[c] = want[c] /\ chan'[c] = chan[c],
         to = "waiting" => pending[want'[c]] = chan'[c] /\ chan'[c] # 0,
         to \in {"recording", "publishing"} => built'[c] \in Outcome,
         to # "returning"
  PROVE  CacheInv'
<1> USE DEF CacheInv
<1>1. /\ pc' \in [Caller -> PC] /\ pc'[c] = to
      /\ \A d \in Caller \ {c} : pc'[d] = pc[d]
  BY DEF TypeOK
<1>2. TypeOK'
  BY <1>1 DEF TypeOK, Maps
<1>3. stages' = stages /\ errs' = errs
  BY DEF Maps
<1>4. AskingInv'
  BY <1>1 DEF AskingInv
<1>5. \A d \in Caller : pc'[d] \in Building =>
         pc[d] \in Building /\ want'[d] = want[d] /\ chan'[d] = chan[d]
  BY <1>1
<1>6. \A d \in Caller : pc[d] \in Building =>
         pc'[d] \in Building /\ want'[d] = want[d] /\ chan'[d] = chan[d]
  BY <1>1
<1>7. \A d \in Caller : pc[d] \in Building => want[d] \in Key
  BY DEF AskingInv, Building
<1>8. PendingInv'
  <2>1. \A k \in Key : pending'[k] # 0 =>
          pending'[k] = made'[k] /\ \E d \in Caller : pc'[d] \in Building /\ want'[d] = k
    BY <1>6 DEF PendingInv, Maps
  <2>2. \A d \in Caller : pc'[d] \in Building =>
          pending'[want'[d]] = chan'[d] /\ chan'[d] # 0 /\ want'[d] \notin stages' /\ errs'[want'[d]] = None
    BY <1>3, <1>5, <1>7 DEF PendingInv, Undecided, Maps
  <2>3. QED
    BY <2>1, <2>2 DEF PendingInv, Undecided
<1>9. SoleBuilder'
  BY <1>5 DEF SoleBuilder
<1>10. MadeInv'
  BY <1>3 DEF MadeInv, Maps, Undecided
<1>11. WaitInv'
  BY <1>1 DEF WaitInv, Maps
<1>12. ReturnInv'
  <2>1. Decided' = Decided
    BY DEF Decided, Maps
  <2>2. QED
    BY <1>1, <2>1 DEF ReturnInv
<1>13. QED
  BY <1>2, <1>4, <1>8, <1>9, <1>10, <1>11, <1>12

\* A caller that found no pending channel makes one: nobody else is building the key.
LEMMA StartBuildPreserves ==
  ASSUME CacheInv, NEW c \in Caller, StartBuild(c)
  PROVE  CacheInv'
<1> USE DEF CacheInv
<1> DEFINE k == want[c]
<1>1. /\ pc[c] = "lookup" /\ pc' = [pc EXCEPT ![c] = "building"]
      /\ Undecided(k) /\ pending[k] = 0
      /\ made' = [made EXCEPT ![k] = @ + 1]
      /\ pending' = [pending EXCEPT ![k] = made[k] + 1]
      /\ chan' = [chan EXCEPT ![c] = made[k] + 1]
      /\ UNCHANGED <<stages, errs, closed, builds, failures, want, built, got, calls>>
  BY DEF StartBuild, Goto, Stats
<1>2. k \in Key
  BY <1>1 DEF AskingInv
<1>3. made[k] = 0
  BY <1>1, <1>2 DEF MadeInv
<1>4. /\ pc' \in [Caller -> PC] /\ pc'[c] = "building"
      /\ \A d \in Caller \ {c} : pc'[d] = pc[d]
  BY <1>1 DEF TypeOK, PC, Building
<1>5. /\ made' \in [Key -> Nat] /\ made'[k] = 1
      /\ pending' \in [Key -> Nat] /\ pending'[k] = 1
      /\ chan' \in [Caller -> Nat] /\ chan'[c] = 1
      /\ \A j \in Key \ {k} : made'[j] = made[j] /\ pending'[j] = pending[j]
      /\ \A d \in Caller \ {c} : chan'[d] = chan[d]
  BY <1>1, <1>2, <1>3 DEF TypeOK
<1>6. TypeOK'
  BY <1>1, <1>4, <1>5 DEF TypeOK
<1>7. AskingInv'
  BY <1>1, <1>4 DEF AskingInv
<1>8. stages' = stages /\ errs' = errs
  BY <1>1
<1>9. \A d \in Caller : pc[d] \in Building => want[d] \in Key \ {k}
  BY <1>1 DEF PendingInv, AskingInv, Building
<1>10. "building" \in Building /\ pc[c] \notin Building
  BY <1>1 DEF Building
<1>11. PendingInv'
  <2>1. ASSUME NEW j \in Key, pending'[j] # 0
        PROVE  pending'[j] = made'[j] /\ \E d \in Caller : pc'[d] \in Building /\ want'[d] = j
    <3>1. CASE j = k
      BY <3>1, <1>1, <1>4, <1>5, <1>10
    <3>2. CASE j # k
      <4>1. PICK d \in Caller : pc[d] \in Building /\ want[d] = j
        BY <3>2, <2>1, <1>5 DEF PendingInv
      <4>2. QED
        BY <4>1, <3>2, <2>1, <1>1, <1>4, <1>5, <1>10 DEF PendingInv
    <3>3. QED
      BY <3>1, <3>2
  <2>2. ASSUME NEW d \in Caller, pc'[d] \in Building
        PROVE  pending'[want'[d]] = chan'[d] /\ chan'[d] # 0 /\ want'[d] \notin stages' /\ errs'[want'[d]] = None
    <3>1. CASE d = c
      BY <3>1, <1>1, <1>2, <1>5, <1>8 DEF Undecided
    <3>2. CASE d # c
      <4>1. pc[d] \in Building
        BY <3>2, <2>2, <1>4
      <4>2. QED
        BY <4>1, <3>2, <1>1, <1>5, <1>8, <1>9 DEF PendingInv, Undecided
    <3>3. QED
      BY <3>1, <3>2
  <2>3. QED
    BY <2>1, <2>2 DEF PendingInv, Undecided
<1>12. SoleBuilder'
  BY <1>1, <1>4, <1>9 DEF SoleBuilder
<1>13. MadeInv'
  BY <1>5, <1>8 DEF MadeInv, TypeOK, Undecided
<1>14. WaitInv'
  <2> SUFFICES ASSUME NEW d \in Caller, pc'[d] = "waiting"
               PROVE  \/ <<want'[d], chan'[d]>> \in closed'
                      \/ pending'[want'[d]] = chan'[d] /\ chan'[d] # 0
    BY DEF WaitInv
  <2>1. d # c /\ pc[d] = "waiting" /\ want[d] \in Key
    BY <1>4 DEF AskingInv
  <2>2. CASE <<want[d], chan[d]>> \in closed
    BY <2>1, <2>2, <1>1, <1>5
  <2>3. CASE pending[want[d]] = chan[d] /\ chan[d] # 0
    <3>1. want[d] # k
      BY <2>3, <1>1
    <3>2. QED
      BY <3>1, <2>1, <2>3, <1>1, <1>5
  <2>4. QED
    BY <2>1, <2>2, <2>3 DEF WaitInv
<1>15. ReturnInv'
  <2>1. Decided' = Decided
    BY <1>1 DEF Decided
  <2>2. QED
    BY <1>1, <1>4, <2>1 DEF ReturnInv
<1>16. QED
  BY <1>6, <1>7, <1>11, <1>12, <1>13, <1>14, <1>15

\* The builder publishes the outcome of its key and closes its channel: nobody else is
\* building the key, and whoever waits for it waits on that channel.
LEMMA PublishPreserves ==
  ASSUME CacheInv, NEW c \in Caller, Publish(c)
  PROVE  CacheInv'
<1> USE DEF CacheInv
<1> DEFINE k == want[c]
<1>1. /\ pc[c] = "publishing" /\ pc' = [pc EXCEPT ![c] = "returning"]
      /\ pending' = [pending EXCEPT ![k] = 0]
      /\ IF built[c] = "stage"
         THEN stages' = stages \cup {k} /\ UNCHANGED errs
         ELSE errs' = [errs EXCEPT ![k] = built[c]] /\ UNCHANGED stages
      /\ closed' = closed \cup {<<k, chan[c]>>}
      /\ UNCHANGED <<made, builds, failures, want, chan, built, got, calls>>
  BY DEF Publish, Goto, Stats
<1>2. /\ k \in Key /\ pc[c] \in Building /\ built[c] \in Outcome
      /\ pending[k] = chan[c] /\ chan[c] # 0 /\ k \notin stages /\ errs[k] = None
  BY <1>1 DEF AskingInv, Building, ReturnInv, PendingInv, Undecided
<1>3. /\ pc' \in [Caller -> PC] /\ pc'[c] = "returning" /\ pc'[c] \notin Building
      /\ \A d \in Caller \ {c} : pc'[d] = pc[d]
  BY <1>1 DEF TypeOK, PC, Building
<1>4. /\ pending' \in [Key -> Nat] /\ pending'[k] = 0
      /\ \A j \in Key \ {k} : pending'[j] = pending[j]
  BY <1>1, <1>2 DEF TypeOK
<1>5. /\ stages' \subseteq Key /\ errs' \in [Key -> Err \cup {None}]
      /\ \A j \in Key \ {k} : (j \in stages' <=> j \in stages) /\ errs'[j] = errs[j]
      /\ IF built[c] = "stage" THEN k \in stages' ELSE k \notin stages' /\ errs'[k] = built[c]
  BY <1>1, <1>2 DEF TypeOK, Outcome
<1>6. TypeOK'
  BY <1>1, <1>2, <1>3, <1>4, <1>5 DEF TypeOK
<1>7. AskingInv'
  BY <1>1, <1>3 DEF AskingInv
<1>8. \A d \in Caller \ {c} : pc[d] \in Building => want[d] \in Key \ {k}
  BY <1>2 DEF SoleBuilder, AskingInv, Building
<1>9. PendingInv'
  <2>1. ASSUME NEW j \in Key, pending'[j] # 0
        PROVE  pending'[j] = made'[j] /\ \E d \in Caller : pc'[d] \in Building /\ want'[d] = j
    <3>1. j # k /\ pending[j] # 0
      BY <2>1, <1>4
    <3>2. PICK d \in Caller : pc[d] \in Building /\ want[d] = j
      BY <3>1 DEF PendingInv
    <3>3. QED
      BY <3>1, <3>2, <1>1, <1>3, <1>4 DEF PendingInv
  <2>2. ASSUME NEW d \in Caller, pc'[d] \in Building
        PROVE  /\ pending'[want'[d]] = chan'[d] /\ chan'[d] # 0
               /\ want'[d] \notin stages' /\ errs'[want'[d]] = None
    <3>1. d # c /\ pc[d] \in Building
      BY <2>2, <1>3
    <3>2. QED
      BY <3>1, <1>1, <1>4, <1>5, <1>8 DEF PendingInv, Undecided
  <2>3. QED
    BY <2>1, <2>2 DEF PendingInv, Undecided
<1>10. SoleBuilder'
  BY <1>1, <1>3 DEF SoleBuilder
<1>11. MadeInv'
  <2>1. k \in stages' \/ errs'[k] # None
    BY <1>2, <1>5, CacheAssumption DEF Outcome, Err
  <2>2. QED
    BY <2>1, <1>1, <1>4, <1>5 DEF MadeInv, Undecided
<1>12. WaitInv'
  <2> SUFFICES ASSUME NEW d \in Caller, pc'[d] = "waiting"
               PROVE  \/ <<want'[d], chan'[d]>> \in closed'
                      \/ pending'[want'[d]] = chan'[d] /\ chan'[d] # 0
    BY DEF WaitInv
  <2>1. d # c /\ pc[d] = "waiting" /\ want[d] \in Key
    BY <1>3 DEF AskingInv
  <2>2. CASE want[d] = k /\ chan[d] = chan[c]
    BY <2>2, <1>1
  <2>3. CASE ~(want[d] = k /\ chan[d] = chan[c])
    BY <2>1, <2>3, <1>1, <1>2, <1>4 DEF WaitInv
  <2>4. QED
    BY <2>2, <2>3
<1>13. ReturnInv'
  <2>1. Decided'[k] = built[c]
    BY <1>2, <1>5 DEF Decided
  <2>2. \A j \in Key \ {k} : Decided'[j] = Decided[j]
    BY <1>5 DEF Decided
  <2>3. ASSUME NEW d \in Caller, pc'[d] = "returning", d # c
        PROVE  built[d] = Decided'[want[d]]
    <3>1. pc[d] = "returning" /\ want[d] \in Key /\ built[d] = Decided[want[d]]
      BY <2>3, <1>3 DEF ReturnInv, AskingInv
    <3>2. want[d] # k
      BY <3>1, <1>2, CacheAssumption DEF Decided, ReturnInv, Outcome, Err
    <3>3. QED
      BY <3>1, <3>2, <2>2
  <2>4. QED
    BY <1>1, <1>2, <1>3, <2>1, <2>3 DEF ReturnInv
<1>14. QED
  BY <1>6, <1>7, <1>9, <1>10, <1>11, <1>12, <1>13

-----------------------------------------------------------------------------
\* Every step of a caller keeps the invariant.
LEMMA CallerPreserves ==
  ASSUME CacheInv, NEW c \in Caller, Ask(c) \/ Advance(c)
  PROVE  CacheInv'
<1>1. TypeOK /\ AskingInv /\ PendingInv /\ ReturnInv
  BY DEF CacheInv
<1> USE DEF Maps, Stats, Goto, Reply
<1> HIDE DEF Maps
<1>2. CASE Ask(c)
  <2>1. PICK k \in Key : want' = [want EXCEPT ![c] = k]
    BY <1>2 DEF Ask
  <2>2. /\ want' \in [Caller -> Key \cup {None}] /\ want'[c] \in Key
        /\ \A d \in Caller \ {c} : want'[d] = want[d]
    BY <1>1, <2>1 DEF TypeOK
  <2>3. got' \in [Caller -> Outcome \cup {None}] /\ calls' \in [Caller -> Nat]
    BY <1>1, <1>2 DEF Ask, TypeOK
  <2>4. QED
    BY <1>1, <1>2, <2>2, <2>3, MovePreserves DEF Ask, TypeOK, PC, Building
<1>3. CASE Hit(c)
  BY <1>1, <1>3, MovePreserves DEF Hit, TypeOK, PC, Building, Outcome
<1>4. CASE CachedErr(c)
  <2>1. errs[want[c]] \in Outcome
    BY <1>1, <1>4 DEF CachedErr, TypeOK, AskingInv, Outcome
  <2>2. QED
    BY <1>1, <1>4, <2>1, MovePreserves DEF CachedErr, TypeOK, PC, Building
<1>5. CASE WaitPending(c)
  <2>1. want[c] \in Key /\ pending[want[c]] \in Nat
    BY <1>1, <1>5 DEF WaitPending, AskingInv, TypeOK
  <2>2. QED
    BY <1>1, <1>5, <2>1, MovePreserves DEF WaitPending, TypeOK, PC, Building
<1>6. CASE Woken(c)
  <2>1. want[c] \in Key
    BY <1>1, <1>6 DEF Woken, AskingInv
  <2>2. QED
    BY <1>1, <1>6, <2>1, MovePreserves DEF Woken, TypeOK, PC, Building
<1>7. CASE StartBuild(c)
  BY <1>7, StartBuildPreserves
<1>8. CASE Build(c)
  <2>1. want[c] \in Key
    BY <1>1, <1>8 DEF Build, AskingInv
  <2>2. PICK o \in Outcome : built' = [built EXCEPT ![c] = o]
    BY <1>8 DEF Build
  <2>3. /\ built' \in [Caller -> Outcome \cup {None}] /\ built'[c] \in Outcome
        /\ \A d \in Caller \ {c} : built'[d] = built[d]
    BY <1>1, <2>2 DEF TypeOK
  <2>4. QED
    BY <1>1, <1>8, <2>1, <2>3, MovePreserves DEF Build, TypeOK, PC, Building
<1>9. CASE Record(c)
  <2>1. want[c] \in Key /\ built[c] \in Outcome
    BY <1>1, <1>9 DEF Record, AskingInv, ReturnInv
  <2>2. builds' \in Nat /\ failures' \in Nat
    BY <1>1, <1>9 DEF Record, TypeOK
  <2>3. QED
    BY <1>1, <1>9, <2>1, <2>2, MovePreserves DEF Record, TypeOK, PC, Building
<1>10. CASE Publish(c)
  BY <1>10, PublishPreserves
<1>11. CASE Return(c)
  <2>1. built[c] \in Outcome
    BY <1>1, <1>11 DEF Return, ReturnInv
  <2>2. QED
    BY <1>1, <1>11, <2>1, MovePreserves DEF Return, TypeOK, PC, Building
<1>12. QED
  BY <1>2, <1>3, <1>4, <1>5, <1>6, <1>7, <1>8, <1>9, <1>10, <1>11 DEF Advance

LEMMA NextInvariant == CacheInv /\ [Next]_vars => CacheInv'
<1> SUFFICES ASSUME CacheInv, [Next]_vars PROVE CacheInv'
  OBVIOUS
<1>1. CASE UNCHANGED vars
  BY <1>1 DEF vars, CacheInv, TypeOK, AskingInv, PendingInv, SoleBuilder, MadeInv, WaitInv, ReturnInv,
              Undecided, Decided
<1>2. QED
  BY <1>1, CallerPreserves DEF Next, Finished

LEMMA InvariantHolds == Spec => []CacheInv
<1>1. QED
  BY InitInvariant, NextInvariant, PTL DEF Spec

-----------------------------------------------------------------------------
\* Types of the maps, the statistics and the callers (decode/stages.go).
THEOREM TypeCorrect == Spec => []TypeOK
<1>1. CacheInv => TypeOK
  BY DEF CacheInv
<1>2. QED
  BY <1>1, InvariantHolds, PTL

\* Concurrent requests never make the plane compile a stage twice (denseStage and the
\* three accessors like it).
THEOREM BuildsOnce == Spec => []BuiltAtMostOnce
<1>1. CacheInv => BuiltAtMostOnce
  BY DEF CacheInv, MadeInv, BuiltAtMostOnce
<1>2. QED
  BY <1>1, InvariantHolds, PTL

\* Nobody waits on "<-pending" for a channel that no builder is going to close.
THEOREM WakeupSafety == Spec => []NoLostWakeup
<1>1. CacheInv => NoLostWakeup
  <2> SUFFICES ASSUME CacheInv, NEW c \in Caller, pc[c] = "waiting",
                      <<want[c], chan[c]>> \notin closed
               PROVE  \E d \in Caller : /\ pc[d] \in Building /\ want[d] = want[c]
                                        /\ chan[d] = chan[c]
    BY DEF NoLostWakeup
  <2>1. want[c] \in Key /\ pending[want[c]] = chan[c] /\ chan[c] # 0
    BY DEF CacheInv, AskingInv, WaitInv
  <2>2. PICK d \in Caller : pc[d] \in Building /\ want[d] = want[c]
    BY <2>1 DEF CacheInv, PendingInv
  <2>3. pending[want[d]] = chan[d]
    BY <2>2 DEF CacheInv, PendingInv
  <2>4. QED
    BY <2>1, <2>2, <2>3
<1>2. QED
  BY <1>1, InvariantHolds, PTL

-----------------------------------------------------------------------------
\* The maps start with nothing decided.
LEMMA InitRefines == Init => Once!Init
BY DEF Init, Once!Init, Decided

\* Publishing decides the key; the three ways to return answer; every other step stutters.
LEMMA NextRefines == CacheInv /\ [Next]_vars => [Once!Next]_(Once!vars)
<1> SUFFICES ASSUME CacheInv, [Next]_vars PROVE [Once!Next]_(Once!vars)
  OBVIOUS
<1>1. TypeOK /\ AskingInv /\ PendingInv /\ ReturnInv
  BY DEF CacheInv
<1>2. CASE UNCHANGED <<stages, errs, want, got>>
  BY <1>2 DEF Once!vars, Decided
<1>3. ASSUME NEW c \in Caller, Ask(c) PROVE Once!Next
  <2>1. Once!Ask(c)
    BY <1>1, <1>3 DEF Ask, Once!Ask, Goto, AskingInv, Decided, Maps
  <2>2. QED
    BY <2>1 DEF Once!Next
<1>4. ASSUME NEW c \in Caller, NEW o \in Outcome,
             want[c] \in Key, Decided[want[c]] = o,
             Reply(c, o), UNCHANGED <<stages, errs>>
      PROVE  Once!Next
  <2>1. o # None
    BY CacheAssumption DEF Outcome, Err
  <2>2. Once!Answer(c)
    BY <1>4, <2>1 DEF Once!Answer, Reply, Decided
  <2>3. QED
    BY <2>2 DEF Once!Next
<1>5. ASSUME NEW c \in Caller, Hit(c) PROVE Once!Next
  <2>1. want[c] \in Key /\ Decided[want[c]] = "stage"
    BY <1>1, <1>5 DEF Hit, Goto, AskingInv, Decided
  <2>2. QED
    BY <1>4, <1>5, <2>1 DEF Hit, Outcome, Maps
<1>6. ASSUME NEW c \in Caller, CachedErr(c) PROVE Once!Next
  <2>1. want[c] \in Key /\ Decided[want[c]] = errs[want[c]] /\ errs[want[c]] \in Outcome
    BY <1>1, <1>6 DEF CachedErr, Goto, AskingInv, Decided, TypeOK, Outcome
  <2>2. QED
    BY <1>4, <1>6, <2>1 DEF CachedErr, Maps
<1>7. ASSUME NEW c \in Caller, Return(c) PROVE Once!Next
  <2>1. want[c] \in Key /\ Decided[want[c]] = built[c] /\ built[c] \in Outcome
    BY <1>1, <1>7 DEF Return, Goto, AskingInv, ReturnInv
  <2>2. QED
    BY <1>4, <1>7, <2>1 DEF Return, Maps
<1>8. ASSUME NEW c \in Caller, Publish(c) PROVE Once!Next
  <2> DEFINE k == want[c]
  <2>1. /\ k \in Key /\ k \notin stages /\ errs[k] = None /\ built[c] \in Outcome
    BY <1>1, <1>8 DEF Publish, Goto, AskingInv, PendingInv, ReturnInv, Building, Undecided
  <2>2. Decided[k] = None
    BY <2>1 DEF Decided
  <2>3. Decided' = [Decided EXCEPT ![k] = built[c]]
    <3>1. ASSUME NEW j \in Key
          PROVE  (IF j \in stages' THEN "stage" ELSE errs'[j])
                   = IF j = k THEN built[c] ELSE IF j \in stages THEN "stage" ELSE errs[j]
      BY <1>1, <1>8, <2>1 DEF Publish, TypeOK
    <3>2. QED
      BY <3>1, <2>1 DEF Decided
  <2>4. want' = want /\ got' = got
    BY <1>8 DEF Publish
  <2>5. Once!Decide(k)
    BY <2>1, <2>2, <2>3, <2>4 DEF Once!Decide
  <2>6. QED
    BY <2>1, <2>5 DEF Once!Next
<1>9. ASSUME NEW c \in Caller,
             WaitPending(c) \/ Woken(c) \/ StartBuild(c) \/ Build(c) \/ Record(c)
      PROVE  UNCHANGED <<stages, errs, want, got>>
  BY <1>9 DEF WaitPending, Woken, StartBuild, Build, Record, Maps
<1>10. QED
  BY <1>2, <1>3, <1>5, <1>6, <1>7, <1>8, <1>9 DEF Next, Advance, Finished, vars

\* The accessors of decode/stages.go implement a map decided once: what any caller is
\* answered for a key is what every caller is answered, the builder itself included.
THEOREM RefinesOnceMap == Spec => Once!SafeSpec
<1>1. QED
  BY InitInvariant, NextInvariant, InitRefines, NextRefines, PTL DEF Spec, Once!SafeSpec

-----------------------------------------------------------------------------
\* Which runs a caller holds at each place, and in which state.
States(c, S) == \A j \in Held(c) : runs[c][j].st \in S

Standing(c) ==
  /\ pc[c] # "idle" => need[c] \in Order /\ pos[c] \in DOMAIN need[c]
  /\ pc[c] \in {"idle", "failed"} => Held(c) = {}
  /\ pc[c] \in {"prepare", "stalled"} => Held(c) = 1..(pos[c] - 1) /\ States(c, {"prepared"})
  /\ pc[c] = "lock" =>
       /\ Held(c) = 1..pos[c] /\ runs[c][pos[c]].st = "leased"
       /\ \A j \in 1..(pos[c] - 1) : runs[c][j].st = "prepared"
  /\ pc[c] = "finalize" => pos[c] = 1 /\ Held(c) = DOMAIN need[c] /\ States(c, {"prepared"})
  /\ pc[c] = "collect" =>
       /\ Held(c) = DOMAIN need[c]
       /\ \A j \in Held(c) : runs[c][j].st = (IF j < pos[c] THEN "ok" ELSE "flying")
  /\ pc[c] = "output" =>
       /\ Held(c) = DOMAIN need[c]
       /\ \A j \in Held(c) : runs[c][j].st \in (IF j < pos[c] THEN {"copied", "borrowed"} ELSE {"ok"})
  /\ pc[c] \in {"viewing", "dropviews"} => States(c, {"copied", "borrowed"})
  /\ pc[c] = "abort" => States(c, {"prepared", "flying", "ok"})
  /\ pc[c] \in {"abort", "viewing", "dropviews"} => Held(c) # {}
  /\ \A j \in Held(c) : runs[c][j].st = "borrowed" => alias

\* runs is a function of functions.
RunsShape == runs = [c \in Caller |-> [j \in Held(c) |-> runs[c][j]]]

Standings == \A c \in Caller : Standing(c)

DispatchInv == DispatchTypeOK /\ RunsShape /\ Standings /\ NothingLeftBehind

-----------------------------------------------------------------------------
\* What the operations on a slot pool do to it.
LEMMA LeaseSlotFacts ==
  ASSUME NEW p \in Pool, NEW i \in SlotId
  PROVE  /\ LeaseSlot(p, i) \in Pool
         /\ LeaseSlot(p, i).lease[i] = p.seq + 1
         /\ \A j \in SlotId \ {i} : LeaseSlot(p, i).lease[j] = p.lease[j]
         /\ LeaseSlot(p, i).inUse = p.inUse \cup {i}
<1> DEFINE q == LeaseSlot(p, i)
           f == [p.lease EXCEPT ![i] = p.seq + 1]
<1>1. q.lease = f /\ q.inUse = p.inUse \cup {i}
  BY DEF LeaseSlot, Pool
<1>2. f \in [SlotId -> Nat] /\ f[i] = p.seq + 1 /\ \A j \in SlotId \ {i} : f[j] = p.lease[j]
  BY DEF Pool
<1>3. q \in Pool
  BY <1>2 DEF LeaseSlot, Pool
<1> HIDE DEF q
<1> QED
  BY <1>1, <1>2, <1>3 DEF q

LEMMA BuildAndLeaseFacts ==
  ASSUME NEW p \in Pool, p.size < p.depth
  PROVE  LET i == p.size + 1
             q == BuildAndLease(p)
         IN  /\ i \in SlotId /\ q \in Pool
             /\ q.lease[i] = p.seq + 1
             /\ \A j \in SlotId \ {i} : q.lease[j] = p.lease[j]
             /\ q.inUse = p.inUse \cup {i}
<1> DEFINE i == p.size + 1
           r == [p EXCEPT !.size = @ + 1]
<1>1. i \in SlotId
  BY MaxDepthAssumption DEF SlotId, Pool
<1>2. r \in Pool /\ r.seq = p.seq /\ r.lease = p.lease /\ r.inUse = p.inUse
  BY <1>1 DEF Pool
<1>3. BuildAndLease(p) = LeaseSlot(r, i)
  BY DEF BuildAndLease
<1> HIDE DEF r, i
<1> QED
  BY <1>1, <1>2, <1>3, LeaseSlotFacts DEF i

LEMMA ReleaseLeaseFacts ==
  ASSUME NEW p \in Pool, NEW i \in SlotId, NEW l \in Nat
  PROVE  LET q == ReleaseLease(p, i, l)
         IN  /\ q \in Pool /\ q.lease = p.lease
             /\ q.inUse = IF p.lease[i] = l THEN p.inUse \ {i} ELSE p.inUse
BY DEF ReleaseLease, Pool

\* A caller that holds a run has a last one.
LEMMA LastHeldIs ==
  ASSUME NEW c \in Caller, NEW n \in Nat, Held(c) \subseteq 1..n, Held(c) # {}
  PROVE  LastHeld(c) \in Held(c)
<1> DEFINE T == {n - i : i \in Held(c)}
           Less == {ss \in Nat \X Nat : ss[1] < ss[2]}
<1>1. IsWellFoundedOn(Less, Nat)
  BY NatLessThanWellFounded DEF OpToRel
<1>2. T \subseteq Nat /\ T # {}
  OBVIOUS
<1>3. PICK x \in T : \A y \in T : <<y, x>> \notin Less
  <2> HIDE DEF T, Less
  <2> QED
    BY <1>1, <1>2, WFMin
<1>4. PICK j \in Held(c) : x = n - j
  BY <1>3
<1>5. ASSUME NEW i \in Held(c) PROVE i <= j
  <2>1. n - i \in T /\ ~(n - i < x)
    BY <1>2, <1>3
  <2> QED
    BY <1>4, <2>1
<1> QED
  BY <1>5 DEF LastHeld

-----------------------------------------------------------------------------
\* A run in one of these states holds slot.mu.
Locked == {"prepared", "flying", "ok"}

\* NothingLeftBehind, with what it says of locks and of leases told apart.
LocksOwed ==
  \A s \in Stage, i \in SlotId : <<s, i>> \notin abandoned /\ mu[s][i] # None =>
    \E j \in Held(mu[s][i]) : /\ need[mu[s][i]][j] = s /\ runs[mu[s][i]][j].slot = i
                              /\ runs[mu[s][i]][j].st \in Locked
LeasesOwed ==
  \A s \in Stage, i \in SlotId : <<s, i>> \notin abandoned /\ i \in pools[s].inUse /\ ~alias =>
    \E c \in Caller : \E j \in Held(c) :
      /\ need[c][j] = s /\ runs[c][j].slot = i /\ runs[c][j].st # "copied"
      /\ runs[c][j].lease = pools[s].lease[i]

LEMMA Owed == NothingLeftBehind <=> LocksOwed /\ LeasesOwed
BY DEF NothingLeftBehind, LocksOwed, LeasesOwed, Locks, Locked

\* Run j of caller c is still there after a step, or has nothing to give back.
Carried(c, j) ==
  \/ <<need[c][j], runs[c][j].slot>> \in abandoned'
  \/ runs[c][j].st \in {"copied", "borrowed"} /\ (runs[c][j].st = "borrowed" => alias)
  \/ /\ j \in DOMAIN runs'[c] /\ need'[c][j] = need[c][j]
     /\ runs'[c][j].slot = runs[c][j].slot /\ runs'[c][j].lease = runs[c][j].lease
     /\ runs[c][j].st \in Locked => runs'[c][j].st \in Locked
     /\ runs'[c][j].st # "copied"

\* The runs of other callers stay what they are.
OthersKept(c) == \A d \in Caller \ {c} : runs'[d] = runs[d] /\ need'[d] = need[d]

LEMMA CarriedPreserves ==
  ASSUME DispatchTypeOK, NothingLeftBehind, NEW c \in Caller,
         UNCHANGED <<pools, mu, alias>>, abandoned \subseteq abandoned',
         OthersKept(c), \A j \in Held(c) : Carried(c, j)
  PROVE  NothingLeftBehind'
<1>1. LocksOwed /\ LeasesOwed
  BY Owed
<1>2. LocksOwed'
  <2> SUFFICES ASSUME NEW s \in Stage, NEW i \in SlotId, <<s, i>> \notin abandoned', mu'[s][i] # None
               PROVE  \E j \in DOMAIN runs'[mu'[s][i]] :
                        /\ need'[mu'[s][i]][j] = s /\ runs'[mu'[s][i]][j].slot = i
                        /\ runs'[mu'[s][i]][j].st \in Locked
    BY DEF LocksOwed, Held
  <2>1. mu'[s][i] = mu[s][i] /\ mu[s][i] \in Caller
    BY DEF DispatchTypeOK
  <2>2. PICK j \in Held(mu[s][i]) : /\ need[mu[s][i]][j] = s /\ runs[mu[s][i]][j].slot = i
                                   /\ runs[mu[s][i]][j].st \in Locked
    BY <1>1, <2>1 DEF LocksOwed
  <2>3. CASE mu[s][i] = c
    BY <2>1, <2>2, <2>3 DEF Carried, Locked
  <2>4. CASE mu[s][i] # c
    BY <2>1, <2>2, <2>4 DEF OthersKept, Held
  <2> QED
    BY <2>3, <2>4
<1>3. LeasesOwed'
  <2> SUFFICES ASSUME NEW s \in Stage, NEW i \in SlotId, <<s, i>> \notin abandoned',
                      i \in pools[s].inUse, ~alias
               PROVE  \E d \in Caller : \E j \in DOMAIN runs'[d] :
                        /\ need'[d][j] = s /\ runs'[d][j].slot = i /\ runs'[d][j].st # "copied"
                        /\ runs'[d][j].lease = pools[s].lease[i]
    BY DEF LeasesOwed, Held
  <2>1. PICK d \in Caller : \E j \in Held(d) :
          /\ need[d][j] = s /\ runs[d][j].slot = i /\ runs[d][j].st # "copied"
          /\ runs[d][j].lease = pools[s].lease[i]
    BY <1>1 DEF LeasesOwed
  <2>2. CASE d = c
    BY <2>1, <2>2 DEF Carried
  <2>3. CASE d # c
    BY <2>1, <2>3 DEF OthersKept, Held
  <2> QED
    BY <2>2, <2>3
<1> QED
  BY <1>2, <1>3, Owed, PTL

\* Run j of caller c ends or becomes a view, and gives back what it has.
LEMMA ReleasePreserves ==
  ASSUME DispatchTypeOK, NothingLeftBehind, NEW c \in Caller, NEW j \in Held(c),
         alias' = alias, abandoned \subseteq abandoned', OthersKept(c),
         \A i \in Held(c) \ {j} : Carried(c, i),
         (mu' = mu /\ runs[c][j].st \notin Locked) \/ Unlock(c, j),
         (pools' = pools /\ (alias \/ runs[c][j].st = "copied")) \/ GiveBack(c, j)
  PROVE  NothingLeftBehind' /\ pools' \in [Stage -> Pool]
         /\ mu' \in [Stage -> [SlotId -> Caller \cup {None}]]
<1> DEFINE at == need[c][j]
           i == runs[c][j].slot
<1>1. LocksOwed /\ LeasesOwed
  BY Owed
<1>2. at \in Stage /\ i \in SlotId /\ runs[c][j].lease \in Nat /\ None \notin Caller
  <2>1. need[c] \in Seq(Stage) /\ j \in DOMAIN need[c] /\ runs[c][j] \in Run
    BY DispatchAssumption DEF DispatchTypeOK, Held
  <2> QED
    BY <2>1, DispatchAssumption DEF Run
<1>3. /\ mu' \in [Stage -> [SlotId -> Caller \cup {None}]]
      /\ \A s \in Stage, n \in SlotId : mu'[s][n] # None =>
           mu'[s][n] = mu[s][n] /\ (runs[c][j].st \notin Locked \/ s # at \/ n # i)
  <2>1. CASE mu' = mu /\ runs[c][j].st \notin Locked
    BY <2>1 DEF DispatchTypeOK
  <2>2. CASE Unlock(c, j)
    BY <1>2, <2>2 DEF Unlock, DispatchTypeOK
  <2> QED
    BY <2>1, <2>2
<1>4. /\ pools' \in [Stage -> Pool]
      /\ \A s \in Stage :
           /\ pools'[s].lease = pools[s].lease /\ pools'[s].inUse \subseteq pools[s].inUse
           /\ s = at /\ i \in pools'[s].inUse =>
                pools[s].lease[i] # runs[c][j].lease \/ alias \/ runs[c][j].st = "copied"
  <2>1. CASE pools' = pools /\ (alias \/ runs[c][j].st = "copied")
    BY <2>1 DEF DispatchTypeOK
  <2>2. CASE GiveBack(c, j)
    <3> DEFINE p == pools[at]
               l == runs[c][j].lease
               q == ReleaseLease(p, i, l)
    <3>1. pools' = [pools EXCEPT ![at] = q] /\ p \in Pool /\ i \in SlotId /\ l \in Nat
      BY <1>2, <2>2 DEF GiveBack, DispatchTypeOK
    <3>2. q \in Pool /\ q.lease = p.lease /\ q.inUse = IF p.lease[i] = l THEN p.inUse \ {i} ELSE p.inUse
      <4> HIDE DEF p, l, i
      <4> QED
        BY <3>1, ReleaseLeaseFacts
    <3> HIDE DEF q
    <3> QED
      BY <1>2, <3>1, <3>2 DEF DispatchTypeOK
  <2> QED
    BY <2>1, <2>2
<1>5. LocksOwed'
  <2> SUFFICES ASSUME NEW s \in Stage, NEW n \in SlotId, <<s, n>> \notin abandoned', mu'[s][n] # None
               PROVE  \E m \in DOMAIN runs'[mu'[s][n]] :
                        /\ need'[mu'[s][n]][m] = s /\ runs'[mu'[s][n]][m].slot = n
                        /\ runs'[mu'[s][n]][m].st \in Locked
    BY DEF LocksOwed, Held
  <2>1. mu'[s][n] = mu[s][n] /\ mu[s][n] \in Caller /\ (runs[c][j].st \notin Locked \/ s # at \/ n # i)
    BY <1>3 DEF DispatchTypeOK
  <2>2. PICK m \in Held(mu[s][n]) : /\ need[mu[s][n]][m] = s /\ runs[mu[s][n]][m].slot = n
                                   /\ runs[mu[s][n]][m].st \in Locked
    BY <1>1, <2>1 DEF LocksOwed
  <2>3. CASE mu[s][n] = c
    <3>1. m # j
      BY <2>1, <2>2, <2>3
    <3> QED
      BY <2>1, <2>2, <2>3, <3>1 DEF Carried, Locked
  <2>4. CASE mu[s][n] # c
    BY <2>1, <2>2, <2>4 DEF OthersKept, Held
  <2> QED
    BY <2>3, <2>4
<1>6. LeasesOwed'
  <2> SUFFICES ASSUME NEW s \in Stage, NEW n \in SlotId, <<s, n>> \notin abandoned',
                      n \in pools'[s].inUse, ~alias
               PROVE  \E d \in Caller : \E m \in DOMAIN runs'[d] :
                        /\ need'[d][m] = s /\ runs'[d][m].slot = n /\ runs'[d][m].st # "copied"
                        /\ runs'[d][m].lease = pools'[s].lease[n]
    BY DEF LeasesOwed, Held
  <2>1. PICK d \in Caller : \E m \in Held(d) :
          /\ need[d][m] = s /\ runs[d][m].slot = n /\ runs[d][m].st # "copied"
          /\ runs[d][m].lease = pools[s].lease[n]
    BY <1>1, <1>4 DEF LeasesOwed
  <2>2. PICK m \in Held(d) : /\ need[d][m] = s /\ runs[d][m].slot = n /\ runs[d][m].st # "copied"
                             /\ runs[d][m].lease = pools[s].lease[n]
    BY <2>1
  <2>3. CASE d = c
    <3>1. m # j
      BY <1>4, <2>2, <2>3
    <3> QED
      BY <1>4, <2>2, <2>3, <3>1 DEF Carried
  <2>4. CASE d # c
    BY <1>4, <2>2, <2>4 DEF OthersKept, Held
  <2> QED
    BY <2>3, <2>4
<1> QED
  BY <1>3, <1>4, <1>5, <1>6, Owed, PTL

\* Where a caller stands does not depend on what the others do.
LEMMA OthersStand ==
  ASSUME Standings, NEW c \in Caller, OthersKept(c), alias' = alias,
         \A d \in Caller \ {c} : pc'[d] = pc[d] /\ pos'[d] = pos[d],
         Standing(c)'
  PROVE  Standings'
<1>1. ASSUME NEW d \in Caller, d # c PROVE Standing(d)'
  <2>1. /\ pc'[d] = pc[d] /\ pos'[d] = pos[d] /\ need'[d] = need[d] /\ runs'[d] = runs[d]
        /\ Standing(d)
    BY <1>1 DEF OthersKept, Standings
  <2> QED
    BY <2>1 DEF Standing, States, Held
<1> QED
  BY <1>1 DEF Standings

\* How the runs of a caller change.
LEMMA SetRunFacts ==
  ASSUME RunsShape, NEW c \in Caller, NEW j, NEW r, SetRun(c, j, r)
  PROVE  /\ RunsShape' /\ DOMAIN runs'[c] = Held(c) \cup {j} /\ runs'[c][j] = r
         /\ \A i \in Held(c) \ {j} : runs'[c][i] = runs[c][i]
         /\ \A d \in Caller \ {c} : runs'[d] = runs[d]
<1> DEFINE f == [i \in Held(c) \cup {j} |-> IF i = j THEN r ELSE runs[c][i]]
<1>1. runs' = [runs EXCEPT ![c] = f]
  BY DEF SetRun
<1>2. runs' = [d \in Caller |-> IF d = c THEN f ELSE [i \in Held(d) |-> runs[d][i]]]
  BY <1>1 DEF RunsShape
<1>3. \A d \in Caller : runs[d] = [i \in Held(d) |-> runs[d][i]]
  BY DEF RunsShape
<1> QED
  BY <1>2, <1>3 DEF RunsShape, Held

LEMMA KeepRunsFacts ==
  ASSUME RunsShape, NEW c \in Caller, NEW S, KeepRuns(c, S)
  PROVE  /\ RunsShape' /\ DOMAIN runs'[c] = S
         /\ \A i \in S : runs'[c][i] = runs[c][i]
         /\ \A d \in Caller \ {c} : runs'[d] = runs[d]
<1> DEFINE f == [i \in S |-> runs[c][i]]
<1>1. runs' = [runs EXCEPT ![c] = f]
  BY DEF KeepRuns
<1>2. runs' = [d \in Caller |-> IF d = c THEN f ELSE [i \in Held(d) |-> runs[d][i]]]
  BY <1>1 DEF RunsShape
<1>3. \A d \in Caller : runs[d] = [i \in Held(d) |-> runs[d][i]]
  BY DEF RunsShape
<1> QED
  BY <1>2, <1>3 DEF RunsShape, Held

\* What a step of caller c has to show of its own call, when pools and mu stay typed.
OwnTyped(c) ==
  /\ pc' \in [Caller -> DispatchPC] /\ need' \in [Caller -> Order \cup {<< >>}]
  /\ pos' \in [Caller -> Nat \ {0}]
  /\ DOMAIN runs'[c] \subseteq DOMAIN need'[c]
  /\ \A j \in DOMAIN runs'[c] : runs'[c][j] \in Run

LEMMA StepKeepsTypes ==
  ASSUME DispatchTypeOK, NEW c \in Caller, OthersKept(c), OwnTyped(c),
         alias' = alias, disabled' \in BOOLEAN, calls' \in [Caller -> Nat],
         pools' \in [Stage -> Pool], mu' \in [Stage -> [SlotId -> Caller \cup {None}]],
         abandoned' \subseteq (Stage \X SlotId)
  PROVE  DispatchTypeOK'
<1>1. ASSUME NEW d \in Caller
      PROVE  DOMAIN runs'[d] \subseteq DOMAIN need'[d] /\ \A j \in DOMAIN runs'[d] : runs'[d][j] \in Run
  BY <1>1 DEF DispatchTypeOK, OthersKept, OwnTyped
<1> QED
  BY <1>1 DEF DispatchTypeOK, OwnTyped

\* An aborted or ended run of the caller, and where its position is.
LEMMA NeedFacts ==
  ASSUME DispatchTypeOK, Standings, NEW c \in Caller, pc[c] # "idle"
  PROVE  /\ need[c] \in Order /\ need[c] \in Seq(Stage) /\ Len(need[c]) \in Nat
         /\ DOMAIN need[c] = 1..Len(need[c]) /\ Held(c) \subseteq 1..Len(need[c])
         /\ pos[c] \in 1..Len(need[c]) /\ Here(c) \in Stage
         /\ \A j \in Held(c) : runs[c][j] \in Run /\ need[c][j] \in Stage
<1>1. need[c] \in Order /\ pos[c] \in DOMAIN need[c]
  BY DEF Standings, Standing
<1>2. need[c] \in Seq(Stage)
  BY <1>1, DispatchAssumption
<1> QED
  BY <1>1, <1>2 DEF DispatchTypeOK, Held, Here

LEMMA InitDispatch == DispatchInit => DispatchInv
<1> SUFFICES ASSUME DispatchInit PROVE DispatchInv
  OBVIOUS
<1>1. \A d \in SlotId : NewPool(d) \in Pool /\ NewPool(d).inUse = {}
  BY MaxDepthAssumption DEF NewPool, Pool, SlotId
<1>2. DispatchTypeOK
  <2>1. pools \in [Stage -> Pool]
    BY <1>1 DEF DispatchInit
  <2>2. mu \in [Stage -> [SlotId -> Caller \cup {None}]]
    BY DEF DispatchInit
  <2>3. \A c \in Caller : DOMAIN runs[c] = {}
    <3>1. \A c \in Caller : runs[c] = << >>
      BY Zenon DEF DispatchInit
    <3>2. DOMAIN << >> = {}
      OBVIOUS
    <3> QED
      BY <3>1, <3>2, Zenon
  <2>4. pc \in [Caller -> DispatchPC]
    BY DEF DispatchInit, DispatchPC
  <2>5. need \in [Caller -> Order \cup {<< >>}]
    BY DEF DispatchInit
  <2>6. pos \in [Caller -> Nat \ {0}] /\ calls \in [Caller -> Nat]
    BY DEF DispatchInit
  <2> QED
    BY <2>1, <2>2, <2>3, <2>4, <2>5, <2>6 DEF DispatchInit, DispatchTypeOK
<1>3. RunsShape /\ Standings
  BY DEF DispatchInit, RunsShape, Standings, Standing, States, Held
<1>4. LocksOwed
  BY DEF DispatchInit, LocksOwed
<1>5. LeasesOwed
  BY <1>1 DEF DispatchInit, LeasesOwed
<1> QED
  BY <1>2, <1>3, <1>4, <1>5, Owed DEF DispatchInv

-----------------------------------------------------------------------------
LEMMA BeginPreserves ==
  ASSUME DispatchInv, NEW c \in Caller, BeginDispatch(c)
  PROVE  DispatchInv'
<1> USE DEF DispatchInv
<1>1. PICK o \in Order : need' = [need EXCEPT ![c] = o]
  BY DEF BeginDispatch
<1>2. /\ pc[c] = "idle" /\ pc' = [pc EXCEPT ![c] = "prepare"] /\ pos' = [pos EXCEPT ![c] = 1]
      /\ UNCHANGED <<pools, mu, alias, abandoned, disabled, runs>>
      /\ calls' = [calls EXCEPT ![c] = calls[c] + 1]
  BY DEF BeginDispatch, At, GoTo, Position, Slotwise, Aside
<1>3. Held(c) = {} /\ o \in Seq(Stage) /\ o # << >>
  BY <1>2, DispatchAssumption DEF Standings, Standing
<1>4. OthersKept(c) /\ \A d \in Caller \ {c} : pc'[d] = pc[d] /\ pos'[d] = pos[d]
  BY <1>1, <1>2 DEF OthersKept, DispatchTypeOK
<1>5. /\ pc'[c] = "prepare" /\ pos'[c] = 1 /\ need'[c] = o /\ DOMAIN runs'[c] = {}
      /\ calls' \in [Caller -> Nat]
  BY <1>1, <1>2, <1>3 DEF DispatchTypeOK, Held
<1>6. OwnTyped(c)
  BY <1>1, <1>2, <1>5 DEF OwnTyped, DispatchTypeOK, DispatchPC
<1>7. DispatchTypeOK'
  BY <1>2, <1>4, <1>5, <1>6, StepKeepsTypes DEF DispatchTypeOK
<1>8. Standing(c)'
  <2>1. 1 \in DOMAIN o /\ 1..(1 - 1) = {}
    BY <1>3
  <2> QED
    BY <1>5, <2>1 DEF Standing, States, Held
<1>9. NothingLeftBehind'
  BY <1>2, <1>3, <1>4, CarriedPreserves
<1> QED
  BY <1>2, <1>4, <1>7, <1>8, <1>9, OthersStand DEF RunsShape, Held

\* Every way to acquire a slot: the run is the next one, and it has the newest lease.
LEMMA LeasePreserves ==
  ASSUME DispatchInv, NEW c \in Caller, pc[c] \in {"prepare", "stalled"},
         NEW i \in SlotId, NEW pool \in Pool, Lease(c, i, pool),
         pool.lease[i] = pools[Here(c)].seq + 1,
         \A n \in SlotId \ {i} : pool.lease[n] = pools[Here(c)].lease[n],
         pool.inUse = pools[Here(c)].inUse \cup {i}
  PROVE  DispatchInv'
<1> USE DEF DispatchInv
<1> DEFINE r == [slot |-> i, lease |-> pools[Here(c)].seq + 1, st |-> "leased"]
<1>1. /\ pools' = [pools EXCEPT ![Here(c)] = pool]
      /\ SetRun(c, pos[c], r)
      /\ pc' = [pc EXCEPT ![c] = "lock"]
      /\ UNCHANGED <<alias, abandoned, mu, disabled, need, pos, calls>>
  BY DEF Lease, GoTo, Aside
<1>2. /\ pc[c] # "idle" /\ Held(c) = 1..(pos[c] - 1) /\ States(c, {"prepared"})
      /\ \A j \in Held(c) : runs[c][j].st = "borrowed" => alias
  BY DEF Standings, Standing
<1>3. /\ need[c] \in Seq(Stage) /\ DOMAIN need[c] = 1..Len(need[c]) /\ Len(need[c]) \in Nat
      /\ pos[c] \in 1..Len(need[c]) /\ need[c] \in Order
      /\ Here(c) \in Stage /\ \A j \in Held(c) : runs[c][j] \in Run
  BY <1>2, NeedFacts
<1>4. /\ RunsShape' /\ DOMAIN runs'[c] = Held(c) \cup {pos[c]} /\ runs'[c][pos[c]] = r
      /\ \A j \in Held(c) \ {pos[c]} : runs'[c][j] = runs[c][j]
      /\ \A d \in Caller \ {c} : runs'[d] = runs[d]
  BY <1>1, SetRunFacts
<1>5. pos[c] \notin Held(c) /\ Held(c) \cup {pos[c]} = 1..pos[c]
  BY <1>2, <1>3
<1>6. OthersKept(c) /\ \A d \in Caller \ {c} : pc'[d] = pc[d] /\ pos'[d] = pos[d]
  BY <1>1, <1>4 DEF OthersKept, DispatchTypeOK
<1>7. pools[Here(c)] \in Pool /\ pools' \in [Stage -> Pool]
      /\ pools'[Here(c)] = pool /\ \A s \in Stage \ {Here(c)} : pools'[s] = pools[s]
  BY <1>1, <1>3 DEF DispatchTypeOK
<1>8. r \in Run
  BY <1>7 DEF Run, RunState, Pool
<1>9. OwnTyped(c)
  <2>1. pc' \in [Caller -> DispatchPC]
    BY <1>1 DEF DispatchTypeOK, DispatchPC
  <2>2. \A j \in DOMAIN runs'[c] : runs'[c][j] \in Run
    BY <1>3, <1>4, <1>8
  <2> HIDE DEF r
  <2> QED
    BY <1>1, <1>3, <1>4, <1>5, <2>1, <2>2 DEF OwnTyped, DispatchTypeOK
<1>10. DispatchTypeOK'
  BY <1>1, <1>6, <1>7, <1>9, StepKeepsTypes DEF DispatchTypeOK
<1>11. Standing(c)'
  <2>1. pc'[c] = "lock" /\ pos'[c] = pos[c] /\ need'[c] = need[c] /\ runs'[c][pos[c]].st = "leased"
    BY <1>1, <1>4 DEF DispatchTypeOK
  <2>2. \A j \in 1..(pos[c] - 1) : runs'[c][j].st = "prepared"
    BY <1>2, <1>4, <1>5 DEF States
  <2> HIDE DEF r
  <2> QED
    BY <1>2, <1>3, <1>4, <1>5, <2>1, <2>2 DEF Standing, States, Held
<1>12. LocksOwed'
  <2> SUFFICES ASSUME NEW s \in Stage, NEW n \in SlotId, <<s, n>> \notin abandoned, mu[s][n] # None
               PROVE  \E j \in DOMAIN runs'[mu[s][n]] :
                        /\ need[mu[s][n]][j] = s /\ runs'[mu[s][n]][j].slot = n
                        /\ runs'[mu[s][n]][j].st \in Locked
    BY <1>1 DEF LocksOwed, Held
  <2>1. mu[s][n] \in Caller
    BY DEF DispatchTypeOK
  <2>2. PICK j \in Held(mu[s][n]) : /\ need[mu[s][n]][j] = s /\ runs[mu[s][n]][j].slot = n
                                   /\ runs[mu[s][n]][j].st \in Locked
    BY Owed DEF LocksOwed
  <2> QED
    BY <1>4, <1>5, <2>1, <2>2 DEF Held
<1>13. LeasesOwed'
  <2> SUFFICES ASSUME NEW s \in Stage, NEW n \in SlotId, <<s, n>> \notin abandoned,
                      n \in pools'[s].inUse, ~alias
               PROVE  \E d \in Caller : \E j \in DOMAIN runs'[d] :
                        /\ need[d][j] = s /\ runs'[d][j].slot = n /\ runs'[d][j].st # "copied"
                        /\ runs'[d][j].lease = pools'[s].lease[n]
    BY <1>1 DEF LeasesOwed, Held
  <2>1. CASE s = Here(c) /\ n = i
    BY <1>4, <1>7, <2>1 DEF Here
  <2>2. CASE ~(s = Here(c) /\ n = i)
    <3>1. n \in pools[s].inUse /\ pools'[s].lease[n] = pools[s].lease[n]
      BY <1>7, <2>2
    <3>2. PICK d \in Caller : \E j \in Held(d) :
            /\ need[d][j] = s /\ runs[d][j].slot = n /\ runs[d][j].st # "copied"
            /\ runs[d][j].lease = pools[s].lease[n]
      BY <3>1, Owed DEF LeasesOwed
    <3>3. PICK j \in Held(d) :
            /\ need[d][j] = s /\ runs[d][j].slot = n /\ runs[d][j].st # "copied"
            /\ runs[d][j].lease = pools[s].lease[n]
      BY <3>2
    <3> QED
      BY <1>4, <1>5, <3>1, <3>3 DEF Held
  <2> QED
    BY <2>1, <2>2
<1>14. NothingLeftBehind'
  BY <1>12, <1>13, Owed, PTL
<1> QED
  BY <1>1, <1>4, <1>6, <1>10, <1>11, <1>14, OthersStand

\* A step of one caller, from what it does to its own call and to the slots.
LEMMA OwnStep ==
  ASSUME DispatchInv, NEW c \in Caller, NEW place \in DispatchPC, NEW n \in Nat \ {0},
         pc' = [pc EXCEPT ![c] = place], pos' = [pos EXCEPT ![c] = n],
         UNCHANGED <<alias, need, calls>>, disabled' \in BOOLEAN,
         pools' \in [Stage -> Pool], mu' \in [Stage -> [SlotId -> Caller \cup {None}]],
         abandoned' \subseteq (Stage \X SlotId),
         RunsShape', \A d \in Caller \ {c} : runs'[d] = runs[d],
         DOMAIN runs'[c] \subseteq DOMAIN need[c],
         \A j \in DOMAIN runs'[c] : runs'[c][j] \in Run,
         Standing(c)', NothingLeftBehind'
  PROVE  DispatchInv'
<1>1. OthersKept(c) /\ \A d \in Caller \ {c} : pc'[d] = pc[d] /\ pos'[d] = pos[d]
  BY DEF OthersKept, DispatchInv, DispatchTypeOK
<1>2. OwnTyped(c)
  BY DEF OwnTyped, DispatchInv, DispatchTypeOK
<1>3. DispatchTypeOK'
  BY <1>1, <1>2, StepKeepsTypes DEF DispatchInv, DispatchTypeOK
<1>4. Standings'
  BY <1>1, OthersStand DEF DispatchInv
<1> QED
  BY <1>3, <1>4 DEF DispatchInv

\* A step that only moves the caller to another place of its call.
LEMMA GoPreserves ==
  ASSUME DispatchInv, NEW c \in Caller, NEW place \in DispatchPC, GoTo(c, place),
         UNCHANGED <<pools, mu, alias, abandoned, need, pos, runs, calls>>,
         disabled' \in BOOLEAN, Standing(c)'
  PROVE  DispatchInv'
<1> USE DEF DispatchInv
<1>1. pc' = [pc EXCEPT ![c] = place] /\ pos[c] \in Nat \ {0} /\ pos' = [pos EXCEPT ![c] = pos[c]]
  BY DEF GoTo, DispatchTypeOK
<1>2. NothingLeftBehind'
  BY DEF NothingLeftBehind, Locks, Held
<1>3. RunsShape' /\ DOMAIN runs'[c] \subseteq DOMAIN need[c] /\ \A j \in DOMAIN runs'[c] : runs'[c][j] \in Run
  BY DEF RunsShape, Held, DispatchTypeOK
<1> QED
  BY <1>1, <1>2, <1>3, OwnStep DEF DispatchTypeOK

LEMMA QuietSteps ==
  ASSUME DispatchInv, NEW c \in Caller,
         \/ BuildFails(c) \/ SyncFails(c) \/ FinalizeFails(c) \/ Stall(c)
         \/ CombineFails(c) \/ Disable(c)
  PROVE  DispatchInv'
<1> USE DEF DispatchInv
<1>1. Standing(c) /\ pc \in [Caller -> DispatchPC] /\ disabled \in BOOLEAN
  BY DEF Standings, DispatchTypeOK
<1>2. CASE BuildFails(c) \/ SyncFails(c) \/ FinalizeFails(c)
  <2>1. /\ pc[c] \in {"prepare", "stalled", "finalize"}
        /\ GoTo(c, IF Held(c) = {} THEN "failed" ELSE "abort")
        /\ UNCHANGED <<pools, mu, alias, abandoned, disabled, need, pos, runs, calls>>
    BY <1>2 DEF BuildFails, SyncFails, FinalizeFails, AbortAll, At, Slotwise, Aside
  <2>2. pc'[c] = IF Held(c) = {} THEN "failed" ELSE "abort"
    BY <1>1, <2>1 DEF GoTo
  <2>3. Standing(c)'
    BY <1>1, <2>1, <2>2 DEF Standing, States, Held
  <2>4. (IF Held(c) = {} THEN "failed" ELSE "abort") \in DispatchPC
    BY DEF DispatchPC
  <2> QED
    BY <1>1, <2>1, <2>3, <2>4, GoPreserves
<1>3. CASE Stall(c)
  <2>1. /\ pc[c] = "prepare" /\ GoTo(c, "stalled")
        /\ UNCHANGED <<pools, mu, alias, abandoned, disabled, need, pos, runs, calls>>
    BY <1>3 DEF Stall, At, Slotwise, Aside
  <2>2. pc'[c] = "stalled"
    BY <1>1, <2>1 DEF GoTo
  <2>3. Standing(c)'
    BY <1>1, <2>1, <2>2 DEF Standing, States, Held
  <2> QED
    BY <1>1, <2>1, <2>3, GoPreserves DEF DispatchPC
<1>4. CASE CombineFails(c)
  <2>1. /\ pc[c] = "viewing" /\ GoTo(c, "dropviews")
        /\ UNCHANGED <<pools, mu, alias, abandoned, disabled, need, pos, runs, calls>>
    BY <1>4 DEF CombineFails, At, Slotwise, Aside
  <2>2. pc'[c] = "dropviews"
    BY <1>1, <2>1 DEF GoTo
  <2>3. Standing(c)'
    BY <1>1, <2>1, <2>2 DEF Standing, States, Held
  <2> QED
    BY <1>1, <2>1, <2>3, GoPreserves DEF DispatchPC
<1>5. CASE Disable(c)
  <2>1. /\ pc[c] = "failed" /\ GoTo(c, "idle") /\ disabled' = TRUE
        /\ UNCHANGED <<pools, mu, alias, abandoned, need, pos, runs, calls>>
    BY <1>5 DEF Disable, At, Slotwise, Aside
  <2>2. pc'[c] = "idle"
    BY <1>1, <2>1 DEF GoTo
  <2>3. Standing(c)'
    BY <1>1, <2>1, <2>2 DEF Standing, States, Held
  <2> QED
    BY <1>1, <2>1, <2>3, GoPreserves DEF DispatchPC
<1> QED
  BY <1>2, <1>3, <1>4, <1>5

LEMMA AcquireSteps ==
  ASSUME DispatchInv, NEW c \in Caller, AcquireFree(c) \/ AcquireBuild(c) \/ Reacquire(c)
  PROVE  DispatchInv'
<1> USE DEF DispatchInv
<1> DEFINE p == pools[Here(c)]
<1>1. pc[c] \in {"prepare", "stalled"} /\ p \in Pool
  <2>1. pc[c] \in {"prepare", "stalled"}
    BY DEF AcquireFree, AcquireBuild, Reacquire, At
  <2> QED
    BY <2>1, NeedFacts DEF DispatchTypeOK
<1>2. CASE AcquireBuild(c)
  <2>1. p.size < p.depth /\ Lease(c, p.size + 1, BuildAndLease(p))
    BY <1>2 DEF AcquireBuild, CanBuild
  <2> HIDE DEF p
  <2>2. /\ p.size + 1 \in SlotId /\ BuildAndLease(p) \in Pool
        /\ BuildAndLease(p).lease[p.size + 1] = p.seq + 1
        /\ \A j \in SlotId \ {p.size + 1} : BuildAndLease(p).lease[j] = p.lease[j]
        /\ BuildAndLease(p).inUse = p.inUse \cup {p.size + 1}
    BY <1>1, <2>1, BuildAndLeaseFacts
  <2> QED
    BY <1>1, <2>1, <2>2, LeasePreserves DEF p
<1>3. CASE AcquireFree(c) \/ Reacquire(c)
  <2>1. PICK i \in SlotId : Lease(c, i, LeaseSlot(p, i))
    BY <1>3 DEF AcquireFree, Reacquire
  <2> HIDE DEF p
  <2>2. /\ LeaseSlot(p, i) \in Pool /\ LeaseSlot(p, i).lease[i] = p.seq + 1
        /\ \A j \in SlotId \ {i} : LeaseSlot(p, i).lease[j] = p.lease[j]
        /\ LeaseSlot(p, i).inUse = p.inUse \cup {i}
    BY <1>1, LeaseSlotFacts
  <2> QED
    BY <1>1, <2>1, <2>2, LeasePreserves DEF p
<1> QED
  BY <1>2, <1>3

-----------------------------------------------------------------------------
\* What is known of the call of a caller, to be cited by the steps that follow.
LEMMA CallFacts ==
  ASSUME DispatchInv, NEW c \in Caller, pc[c] # "idle"
  PROVE  /\ Standing(c) /\ RunsShape /\ pc \in [Caller -> DispatchPC]
         /\ pos \in [Caller -> Nat \ {0}] /\ disabled \in BOOLEAN
         /\ pools \in [Stage -> Pool] /\ mu \in [Stage -> [SlotId -> Caller \cup {None}]]
         /\ Len(need[c]) \in Nat /\ DOMAIN need[c] = 1..Len(need[c])
         /\ Held(c) \subseteq 1..Len(need[c]) /\ pos[c] \in 1..Len(need[c])
         /\ \A j \in Held(c) : runs[c][j] \in Run /\ need[c][j] \in Stage /\ runs[c][j].slot \in SlotId
<1>1. DispatchTypeOK /\ Standings /\ RunsShape
  BY DEF DispatchInv
<1>2. /\ Len(need[c]) \in Nat /\ DOMAIN need[c] = 1..Len(need[c])
      /\ Held(c) \subseteq 1..Len(need[c]) /\ pos[c] \in 1..Len(need[c])
      /\ \A j \in Held(c) : runs[c][j] \in Run /\ need[c][j] \in Stage
  BY <1>1, NeedFacts
<1> QED
  BY <1>1, <1>2 DEF Standings, DispatchTypeOK, Run

\* A run in another state is a run.
LEMMA StateFacts ==
  ASSUME NEW r \in Run, NEW st \in RunState
  PROVE  LET q == [r EXCEPT !.st = st]
         IN  q \in Run /\ q.slot = r.slot /\ q.lease = r.lease /\ q.st = st
BY DEF Run

LEMMA LockAndPreparePreserves ==
  ASSUME DispatchInv, NEW c \in Caller, LockAndPrepare(c)
  PROVE  DispatchInv'
<1> DEFINE j == pos[c]
           s == need[c][j]
           i == runs[c][j].slot
           r == [runs[c][j] EXCEPT !.st = "prepared"]
           last == ~(j < Len(need[c]))
           n == IF last THEN 1 ELSE j + 1
           place == IF last THEN "finalize" ELSE "prepare"
<1>1. /\ pc[c] = "lock" /\ mu[s][i] = None /\ mu' = [mu EXCEPT ![s][i] = c] /\ SetRun(c, j, r)
      /\ pos' = [pos EXCEPT ![c] = n] /\ pc' = [pc EXCEPT ![c] = place]
      /\ UNCHANGED <<alias, abandoned, pools, disabled, need, calls>>
  BY DEF LockAndPrepare, At, Here, SetState, Position, GoTo, Aside
<1>2. /\ Standing(c) /\ RunsShape /\ pc \in [Caller -> DispatchPC]
      /\ pos \in [Caller -> Nat \ {0}] /\ disabled \in BOOLEAN
      /\ pools \in [Stage -> Pool] /\ mu \in [Stage -> [SlotId -> Caller \cup {None}]]
      /\ Len(need[c]) \in Nat /\ DOMAIN need[c] = 1..Len(need[c])
      /\ Held(c) \subseteq 1..Len(need[c]) /\ j \in 1..Len(need[c])
      /\ \A m \in Held(c) : runs[c][m] \in Run /\ need[c][m] \in Stage /\ runs[c][m].slot \in SlotId
  BY <1>1, CallFacts
<1>3. Held(c) = 1..j /\ runs[c][j].st = "leased" /\ \A m \in 1..(j - 1) : runs[c][m].st = "prepared"
  BY <1>1, <1>2 DEF Standing
<1>4. j \in Held(c) /\ s \in Stage /\ i \in SlotId
  BY <1>2, <1>3
<1>5. r \in Run /\ r.slot = i /\ r.lease = runs[c][j].lease /\ r.st = "prepared"
  BY <1>2, <1>4, StateFacts DEF RunState
<1> HIDE DEF r
<1>6. /\ RunsShape' /\ DOMAIN runs'[c] = Held(c) /\ runs'[c][j] = r
      /\ \A m \in Held(c) \ {j} : runs'[c][m] = runs[c][m]
      /\ \A d \in Caller \ {c} : runs'[d] = runs[d]
  <2> HIDE DEF j
  <2>1. Held(c) \cup {j} = Held(c)
    BY <1>4
  <2>2. RunsShape /\ SetRun(c, j, r)
    BY <1>1, <1>2
  <2>3. /\ RunsShape' /\ DOMAIN runs'[c] = Held(c) \cup {j} /\ runs'[c][j] = r
        /\ \A m \in Held(c) \ {j} : runs'[c][m] = runs[c][m]
        /\ \A d \in Caller \ {c} : runs'[d] = runs[d]
    BY <2>2, SetRunFacts
  <2> QED
    BY <2>1, <2>3
<1>7. /\ place \in DispatchPC /\ n \in Nat \ {0} /\ n \in 1..Len(need[c])
      /\ pc'[c] = place /\ pos'[c] = n /\ need'[c] = need[c]
  BY <1>1, <1>2 DEF DispatchPC
<1>8. /\ mu' \in [Stage -> [SlotId -> Caller \cup {None}]] /\ mu'[s][i] = c
      /\ \A t \in Stage, m \in SlotId : (t # s \/ m # i) => mu'[t][m] = mu[t][m]
  BY <1>1, <1>2, <1>4
<1>9. \A m \in DOMAIN runs'[c] : runs'[c][m] \in Run /\ runs'[c][m].st = "prepared"
  BY <1>2, <1>3, <1>5, <1>6
<1>10. Standing(c)'
  <2>1. last => j = Len(need[c])
    BY <1>2
  <2>2. ~last => n - 1 = j
    BY <1>2
  <2> QED
    BY <1>1, <1>2, <1>3, <1>6, <1>7, <1>9, <2>1, <2>2 DEF Standing, States, Held
<1>11. LocksOwed'
  <2> SUFFICES ASSUME NEW t \in Stage, NEW m \in SlotId, <<t, m>> \notin abandoned, mu'[t][m] # None
               PROVE  \E k \in DOMAIN runs'[mu'[t][m]] :
                        /\ need[mu'[t][m]][k] = t /\ runs'[mu'[t][m]][k].slot = m
                        /\ runs'[mu'[t][m]][k].st \in Locked
    BY <1>1 DEF LocksOwed, Held
  <2>1. CASE t = s /\ m = i
    BY <1>4, <1>5, <1>6, <1>8, <2>1 DEF Locked
  <2>2. CASE t # s \/ m # i
    <3>1. mu'[t][m] = mu[t][m] /\ mu[t][m] \in Caller
      BY <1>2, <1>8, <2>2
    <3>2. PICK k \in Held(mu[t][m]) : /\ need[mu[t][m]][k] = t /\ runs[mu[t][m]][k].slot = m
                                      /\ runs[mu[t][m]][k].st \in Locked
      BY <3>1, Owed DEF LocksOwed, DispatchInv
    <3>3. CASE mu[t][m] = c
      BY <2>2, <3>1, <3>2, <3>3, <1>6
    <3>4. CASE mu[t][m] # c
      BY <3>1, <3>2, <3>4, <1>6 DEF Held
    <3> QED
      BY <3>3, <3>4
  <2> QED
    BY <2>1, <2>2
<1>12. LeasesOwed'
  <2> SUFFICES ASSUME NEW t \in Stage, NEW m \in SlotId, <<t, m>> \notin abandoned,
                      m \in pools[t].inUse, ~alias
               PROVE  \E d \in Caller : \E k \in DOMAIN runs'[d] :
                        /\ need[d][k] = t /\ runs'[d][k].slot = m /\ runs'[d][k].st # "copied"
                        /\ runs'[d][k].lease = pools[t].lease[m]
    BY <1>1 DEF LeasesOwed, Held
  <2>1. PICK d \in Caller : \E k \in Held(d) :
          /\ need[d][k] = t /\ runs[d][k].slot = m /\ runs[d][k].st # "copied"
          /\ runs[d][k].lease = pools[t].lease[m]
    BY Owed DEF LeasesOwed, DispatchInv
  <2>2. PICK k \in Held(d) :
          /\ need[d][k] = t /\ runs[d][k].slot = m /\ runs[d][k].st # "copied"
          /\ runs[d][k].lease = pools[t].lease[m]
    BY <2>1
  <2>3. CASE d = c /\ k = j
    BY <1>4, <1>5, <1>6, <2>2, <2>3
  <2>4. CASE ~(d = c /\ k = j)
    BY <1>6, <2>2, <2>4 DEF Held
  <2> QED
    BY <2>3, <2>4
<1>13. NothingLeftBehind'
  BY <1>11, <1>12, Owed, PTL
<1> HIDE DEF n, place, last, s, i, j
<1> QED
  BY <1>1, <1>2, <1>6, <1>7, <1>8, <1>9, <1>10, <1>13, OwnStep DEF DispatchInv, DispatchTypeOK

LEMMA PrepareFailsPreserves ==
  ASSUME DispatchInv, NEW c \in Caller, PrepareFails(c)
  PROVE  DispatchInv'
<1> DEFINE j == pos[c]
           place == IF j = 1 THEN "failed" ELSE "abort"
<1>1. /\ pc[c] = "lock" /\ GiveBack(c, j) /\ KeepRuns(c, Held(c) \ {j})
      /\ pc' = [pc EXCEPT ![c] = place] /\ UNCHANGED <<alias, abandoned, mu, disabled, need, pos, calls>>
  BY DEF PrepareFails, At, GoTo, Aside
<1>2. /\ Standing(c) /\ RunsShape /\ pc \in [Caller -> DispatchPC]
      /\ pos \in [Caller -> Nat \ {0}] /\ disabled \in BOOLEAN
      /\ DOMAIN need[c] = 1..Len(need[c])
      /\ Held(c) \subseteq 1..Len(need[c]) /\ j \in 1..Len(need[c]) /\ Len(need[c]) \in Nat
      /\ \A m \in Held(c) : runs[c][m] \in Run
  BY <1>1, CallFacts
<1>3. Held(c) = 1..j /\ runs[c][j].st = "leased" /\ \A m \in 1..(j - 1) : runs[c][m].st = "prepared"
  BY <1>1, <1>2 DEF Standing
<1>4. j \in Held(c) /\ Held(c) \ {j} = 1..(j - 1) /\ (j # 1 => 1 \in 1..(j - 1)) /\ (j = 1 => 1..(j - 1) = {})
  BY <1>2, <1>3
<1>5. /\ RunsShape' /\ DOMAIN runs'[c] = Held(c) \ {j}
      /\ \A m \in Held(c) \ {j} : runs'[c][m] = runs[c][m]
      /\ \A d \in Caller \ {c} : runs'[d] = runs[d]
  BY <1>1, <1>2, KeepRunsFacts
<1>6. /\ NothingLeftBehind' /\ pools' \in [Stage -> Pool]
      /\ mu' \in [Stage -> [SlotId -> Caller \cup {None}]]
  <2>1. OthersKept(c)
    BY <1>1, <1>5 DEF OthersKept
  <2>2. \A m \in Held(c) \ {j} : Carried(c, m)
    BY <1>1, <1>3, <1>4, <1>5 DEF Carried, Locked
  <2>3. runs[c][j].st \notin Locked
    BY <1>3 DEF Locked
  <2> QED
    BY <1>1, <1>4, <2>1, <2>2, <2>3, ReleasePreserves DEF DispatchInv
<1>7. place \in DispatchPC /\ pc'[c] = place /\ pos'[c] = j /\ need'[c] = need[c]
      /\ pos' = [pos EXCEPT ![c] = j]
  BY <1>1, <1>2 DEF DispatchPC
<1>8. Standing(c)'
  BY <1>1, <1>2, <1>3, <1>4, <1>5, <1>7 DEF Standing, States, Held
<1>9. \A m \in DOMAIN runs'[c] : runs'[c][m] \in Run
  BY <1>2, <1>5
<1> HIDE DEF place, j
<1> QED
  BY <1>1, <1>2, <1>5, <1>6, <1>7, <1>8, <1>9, OwnStep DEF j, DispatchInv, DispatchTypeOK

LEMMA SetStateFacts ==
  ASSUME RunsShape, NEW c \in Caller, NEW j \in Held(c), runs[c][j] \in Run,
         NEW st \in RunState, SetState(c, j, st)
  PROVE  /\ RunsShape' /\ DOMAIN runs'[c] = Held(c) /\ runs'[c][j] \in Run
         /\ runs'[c][j].slot = runs[c][j].slot /\ runs'[c][j].lease = runs[c][j].lease
         /\ runs'[c][j].st = st
         /\ \A m \in Held(c) \ {j} : runs'[c][m] = runs[c][m]
         /\ \A d \in Caller \ {c} : runs'[d] = runs[d]
<1> DEFINE r == [runs[c][j] EXCEPT !.st = st]
<1>1. r \in Run /\ r.slot = runs[c][j].slot /\ r.lease = runs[c][j].lease /\ r.st = st
  BY StateFacts
<1>2. SetRun(c, j, r)
  BY DEF SetState
<1> HIDE DEF r
<1>3. /\ RunsShape' /\ DOMAIN runs'[c] = Held(c) \cup {j} /\ runs'[c][j] = r
      /\ \A m \in Held(c) \ {j} : runs'[c][m] = runs[c][m]
      /\ \A d \in Caller \ {c} : runs'[d] = runs[d]
  BY <1>2, SetRunFacts
<1> QED
  BY <1>1, <1>3

LEMMA StartAllPreserves ==
  ASSUME DispatchInv, NEW c \in Caller, StartAll(c)
  PROVE  DispatchInv'
<1> DEFINE f == [j \in Held(c) |-> [runs[c][j] EXCEPT !.st = "flying"]]
<1>1. /\ pc[c] = "finalize" /\ runs' = [runs EXCEPT ![c] = f] /\ pc' = [pc EXCEPT ![c] = "collect"]
      /\ UNCHANGED <<pools, mu, alias, abandoned, disabled, need, pos, calls>>
  BY DEF StartAll, At, GoTo, Slotwise, Aside
<1>2. /\ Standing(c) /\ RunsShape /\ pc \in [Caller -> DispatchPC]
      /\ pos \in [Caller -> Nat \ {0}] /\ disabled \in BOOLEAN
      /\ pools \in [Stage -> Pool] /\ mu \in [Stage -> [SlotId -> Caller \cup {None}]]
      /\ \A m \in Held(c) : runs[c][m] \in Run
  BY <1>1, CallFacts
<1>3. pos[c] = 1 /\ Held(c) = DOMAIN need[c] /\ Held(c) \subseteq Nat \ {0} /\ States(c, {"prepared"})
  BY <1>1, <1>2, CallFacts DEF Standing
<1>4. \A m \in Held(c) : /\ f[m] \in Run /\ f[m].slot = runs[c][m].slot
                         /\ f[m].lease = runs[c][m].lease /\ f[m].st = "flying"
  <2> SUFFICES ASSUME NEW m \in Held(c)
               PROVE  LET q == [runs[c][m] EXCEPT !.st = "flying"]
                      IN  q \in Run /\ q.slot = runs[c][m].slot /\ q.lease = runs[c][m].lease /\ q.st = "flying"
    OBVIOUS
  <2> QED
    BY <1>2, StateFacts DEF RunState
<1>5. DOMAIN f = Held(c) /\ f = [j \in Held(c) |-> f[j]]
  OBVIOUS
<1> HIDE DEF f
<1>6. RunsShape' /\ runs'[c] = f /\ \A d \in Caller \ {c} : runs'[d] = runs[d]
  <2>1. runs' = [d \in Caller |-> IF d = c THEN f ELSE [i \in Held(d) |-> runs[d][i]]]
    BY <1>1, <1>2 DEF RunsShape
  <2>2. \A d \in Caller : runs[d] = [i \in Held(d) |-> runs[d][i]]
    BY <1>2 DEF RunsShape
  <2> QED
    BY <1>5, <2>1, <2>2 DEF RunsShape, Held
<1>7. NothingLeftBehind'
  <2>1. OthersKept(c) /\ abandoned \subseteq abandoned'
    BY <1>1, <1>6 DEF OthersKept
  <2>2. \A m \in Held(c) : Carried(c, m)
    BY <1>1, <1>4, <1>5, <1>6 DEF Carried, Locked
  <2> QED
    BY <1>1, <2>1, <2>2, CarriedPreserves DEF DispatchInv
<1>8. pc'[c] = "collect" /\ pos' = [pos EXCEPT ![c] = pos[c]] /\ need'[c] = need[c] /\ pos'[c] = pos[c]
      /\ pos[c] \in Nat \ {0}
  BY <1>1, <1>2
<1>9. Standing(c)'
  <2>1. pos[c] \in DOMAIN need[c]
    BY <1>1, <1>2 DEF Standing
  <2>2. \A m \in Held(c) : ~(m < pos[c])
    BY <1>3
  <2>3. DOMAIN runs'[c] = DOMAIN need'[c] /\ pos'[c] \in DOMAIN need'[c] /\ need'[c] \in Order
    BY <1>1, <1>2, <1>3, <1>5, <1>6, <1>8, <2>1 DEF Standing
  <2>4. \A m \in DOMAIN runs'[c] : ~(m < pos'[c]) /\ runs'[c][m].st = "flying"
    BY <1>4, <1>5, <1>6, <1>8, <2>2
  <2> QED
    BY <1>8, <2>3, <2>4 DEF Standing, States, Held
<1> QED
  BY <1>1, <1>2, <1>3, <1>4, <1>5, <1>6, <1>7, <1>8, <1>9, OwnStep
     DEF DispatchInv, DispatchTypeOK, DispatchPC

LEMMA CollectOkPreserves ==
  ASSUME DispatchInv, NEW c \in Caller, CollectOk(c)
  PROVE  DispatchInv'
<1> DEFINE j == pos[c]
           last == ~(j < Len(need[c]))
           n == IF last THEN 1 ELSE j + 1
           place == IF last THEN "output" ELSE "collect"
<1>1. /\ pc[c] = "collect" /\ SetState(c, j, "ok")
      /\ pos' = [pos EXCEPT ![c] = n]
      /\ IF last THEN pc' = [pc EXCEPT ![c] = "output"] ELSE pc' = pc
      /\ UNCHANGED <<pools, mu, alias, abandoned, disabled, need, calls>>
  BY DEF CollectOk, At, Position, GoTo, Slotwise, Aside
<1>2. /\ Standing(c) /\ RunsShape /\ pc \in [Caller -> DispatchPC]
      /\ pos \in [Caller -> Nat \ {0}] /\ disabled \in BOOLEAN
      /\ pools \in [Stage -> Pool] /\ mu \in [Stage -> [SlotId -> Caller \cup {None}]]
      /\ Len(need[c]) \in Nat /\ DOMAIN need[c] = 1..Len(need[c])
      /\ Held(c) \subseteq 1..Len(need[c]) /\ j \in 1..Len(need[c])
      /\ \A m \in Held(c) : runs[c][m] \in Run
  BY <1>1, CallFacts
<1>3. Held(c) = DOMAIN need[c] /\ j \in Held(c)
      /\ \A m \in Held(c) : runs[c][m].st = (IF m < j THEN "ok" ELSE "flying")
  BY <1>1, <1>2 DEF Standing
<1>4. /\ RunsShape' /\ DOMAIN runs'[c] = Held(c) /\ runs'[c][j] \in Run
      /\ runs'[c][j].slot = runs[c][j].slot /\ runs'[c][j].lease = runs[c][j].lease
      /\ runs'[c][j].st = "ok"
      /\ \A m \in Held(c) \ {j} : runs'[c][m] = runs[c][m]
      /\ \A d \in Caller \ {c} : runs'[d] = runs[d]
  BY <1>1, <1>2, <1>3, SetStateFacts DEF RunState
<1>5. NothingLeftBehind'
  <2>1. OthersKept(c) /\ abandoned \subseteq abandoned'
    BY <1>1, <1>4 DEF OthersKept
  <2>2. \A m \in Held(c) : Carried(c, m)
    BY <1>1, <1>3, <1>4 DEF Carried, Locked, States
  <2> QED
    BY <1>1, <2>1, <2>2, CarriedPreserves DEF DispatchInv
<1>6. /\ place \in DispatchPC /\ n \in Nat \ {0} /\ n \in 1..Len(need[c])
      /\ pc' = [pc EXCEPT ![c] = place] /\ pc'[c] = place /\ pos'[c] = n /\ need'[c] = need[c]
  BY <1>1, <1>2 DEF DispatchPC
<1>7. Standing(c)'
  <2>1. \A m \in Held(c) : runs'[c][m].st = (IF m < j + 1 THEN "ok" ELSE "flying")
    BY <1>2, <1>3, <1>4
  <2>2. CASE last
    <3>1. \A m \in Held(c) : m < j + 1 /\ ~(m < n)
      BY <1>2, <2>2
    <3>2. \A m \in Held(c) : runs'[c][m].st = "ok"
      BY <2>1, <3>1
    <3> HIDE DEF n
    <3> QED
      BY <1>1, <1>2, <1>3, <1>4, <1>6, <2>2, <3>1, <3>2 DEF Standing, States, Held
  <2>3. CASE ~last
    <3>1. n = j + 1 /\ place = "collect"
      BY <2>3
    <3> HIDE DEF n
    <3> QED
      BY <1>1, <1>2, <1>3, <1>4, <1>6, <2>1, <3>1 DEF Standing, States, Held
  <2> QED
    BY <2>2, <2>3
<1>8. \A m \in DOMAIN runs'[c] : runs'[c][m] \in Run
  BY <1>2, <1>4
<1> HIDE DEF n, place, last, j
<1> QED
  BY <1>1, <1>2, <1>4, <1>5, <1>6, <1>7, <1>8, OwnStep DEF DispatchInv, DispatchTypeOK

LEMMA CollectErrPreserves ==
  ASSUME DispatchInv, NEW c \in Caller, CollectErr(c)
  PROVE  DispatchInv'
<1> DEFINE j == pos[c]
           S == {m \in Held(c) : m >= j}
<1>1. /\ pc[c] = "collect" /\ KeepRuns(c, S) /\ Abandons(c, {m \in Held(c) : m < j})
      /\ pc' = [pc EXCEPT ![c] = "abort"]
      /\ UNCHANGED <<pools, mu, alias, disabled, need, pos, calls>>
  BY DEF CollectErr, At, GoTo, Slotwise
<1>2. /\ Standing(c) /\ RunsShape /\ pc \in [Caller -> DispatchPC]
      /\ pos \in [Caller -> Nat \ {0}] /\ disabled \in BOOLEAN
      /\ pools \in [Stage -> Pool] /\ mu \in [Stage -> [SlotId -> Caller \cup {None}]]
      /\ Len(need[c]) \in Nat /\ DOMAIN need[c] = 1..Len(need[c])
      /\ Held(c) \subseteq 1..Len(need[c]) /\ j \in 1..Len(need[c])
      /\ \A m \in Held(c) : runs[c][m] \in Run /\ need[c][m] \in Stage /\ runs[c][m].slot \in SlotId
  BY <1>1, CallFacts
<1>3. Held(c) = DOMAIN need[c] /\ j \in Held(c)
      /\ \A m \in Held(c) : runs[c][m].st = (IF m < j THEN "ok" ELSE "flying")
  BY <1>1, <1>2 DEF Standing
<1>4. /\ RunsShape' /\ DOMAIN runs'[c] = S /\ \A m \in S : runs'[c][m] = runs[c][m]
      /\ \A d \in Caller \ {c} : runs'[d] = runs[d]
  BY <1>1, <1>2, KeepRunsFacts
<1>5. /\ S \subseteq Held(c) /\ j \in S /\ \A m \in S : runs[c][m].st = "flying"
      /\ \A m \in Held(c) \ S : m < j
  BY <1>2, <1>3
<1>6. /\ abandoned \subseteq abandoned' /\ abandoned' \subseteq Stage \X SlotId
      /\ \A m \in Held(c) \ S : <<need[c][m], runs[c][m].slot>> \in abandoned'
  BY <1>1, <1>2, <1>5 DEF Abandons, DispatchInv, DispatchTypeOK
<1> HIDE DEF S, j
<1>7. NothingLeftBehind'
  <2>1. OthersKept(c)
    BY <1>1, <1>4 DEF OthersKept
  <2>2. \A m \in Held(c) : Carried(c, m)
    BY <1>1, <1>4, <1>5, <1>6 DEF Carried, Locked
  <2> QED
    BY <1>1, <1>6, <2>1, <2>2, CarriedPreserves DEF DispatchInv
<1>8. pc'[c] = "abort" /\ pos' = [pos EXCEPT ![c] = j] /\ need'[c] = need[c] /\ pos'[c] = j
      /\ j \in Nat \ {0}
  BY <1>1, <1>2 DEF j
<1>9. Standing(c)'
  BY <1>1, <1>2, <1>3, <1>4, <1>5, <1>8 DEF Standing, States, Held
<1>10. \A m \in DOMAIN runs'[c] : runs'[c][m] \in Run
  BY <1>2, <1>4, <1>5
<1> QED
  BY <1>1, <1>2, <1>4, <1>5, <1>6, <1>7, <1>8, <1>9, <1>10, OwnStep DEF DispatchInv, DispatchTypeOK, DispatchPC

LEMMA AbortRunPreserves ==
  ASSUME DispatchInv, NEW c \in Caller, AbortRun(c)
  PROVE  DispatchInv'
<1> DEFINE j == LastHeld(c)
           S == Held(c) \ {j}
           place == IF Held(c) = {j} THEN "failed" ELSE "abort"
<1>1. /\ pc[c] = "abort" /\ Unlock(c, j) /\ GiveBack(c, j) /\ KeepRuns(c, S)
      /\ pc' = [pc EXCEPT ![c] = place] /\ UNCHANGED <<alias, abandoned, disabled, need, pos, calls>>
  BY DEF AbortRun, At, GoTo, Aside
<1>2. /\ Standing(c) /\ RunsShape /\ pc \in [Caller -> DispatchPC]
      /\ pos \in [Caller -> Nat \ {0}] /\ disabled \in BOOLEAN
      /\ Len(need[c]) \in Nat /\ DOMAIN need[c] = 1..Len(need[c])
      /\ Held(c) \subseteq 1..Len(need[c]) /\ pos[c] \in 1..Len(need[c])
      /\ \A m \in Held(c) : runs[c][m] \in Run
  BY <1>1, CallFacts
<1>3. Held(c) # {} /\ States(c, {"prepared", "flying", "ok"})
  BY <1>1, <1>2 DEF Standing
<1>4. j \in Held(c)
  BY <1>2, <1>3, LastHeldIs
<1> HIDE DEF j
<1>5. /\ RunsShape' /\ DOMAIN runs'[c] = S /\ \A m \in S : runs'[c][m] = runs[c][m]
      /\ \A d \in Caller \ {c} : runs'[d] = runs[d]
  BY <1>1, <1>2, KeepRunsFacts
<1>6. /\ NothingLeftBehind' /\ pools' \in [Stage -> Pool]
      /\ mu' \in [Stage -> [SlotId -> Caller \cup {None}]]
  <2>1. OthersKept(c)
    BY <1>1, <1>5 DEF OthersKept
  <2>2. \A m \in Held(c) \ {j} : Carried(c, m)
    BY <1>1, <1>3, <1>5 DEF Carried, Locked, States
  <2> QED
    BY <1>1, <1>4, <2>1, <2>2, ReleasePreserves DEF DispatchInv
<1>7. /\ place \in DispatchPC /\ pc'[c] = place /\ pos'[c] = pos[c] /\ need'[c] = need[c]
      /\ pos' = [pos EXCEPT ![c] = pos[c]] /\ pos[c] \in Nat \ {0}
  BY <1>1, <1>2 DEF DispatchPC
<1>8. Standing(c)'
  BY <1>1, <1>2, <1>3, <1>4, <1>5, <1>7 DEF Standing, States, Held
<1>9. \A m \in DOMAIN runs'[c] : runs'[c][m] \in Run
  BY <1>2, <1>5
<1> HIDE DEF place
<1> QED
  BY <1>1, <1>2, <1>5, <1>6, <1>7, <1>8, <1>9, OwnStep DEF DispatchInv, DispatchTypeOK

LEMMA TakeOutputPreserves ==
  ASSUME DispatchInv, NEW c \in Caller, TakeOutput(c)
  PROVE  DispatchInv'
<1> DEFINE j == pos[c]
           last == ~(j < Len(need[c]))
           n == IF last THEN j ELSE j + 1
           place == IF last THEN "viewing" ELSE "output"
           st == IF alias THEN "borrowed" ELSE "copied"
<1>1. /\ pc[c] = "output" /\ Unlock(c, j) /\ IF alias THEN pools' = pools ELSE GiveBack(c, j)
      /\ SetState(c, j, st)
      /\ IF last THEN pos' = pos /\ pc' = [pc EXCEPT ![c] = "viewing"]
                 ELSE pos' = [pos EXCEPT ![c] = j + 1] /\ pc' = pc
      /\ UNCHANGED <<alias, abandoned, disabled, need, calls>>
  BY DEF TakeOutput, At, Position, GoTo, Aside
<1>2. /\ Standing(c) /\ RunsShape /\ pc \in [Caller -> DispatchPC]
      /\ pos \in [Caller -> Nat \ {0}] /\ disabled \in BOOLEAN
      /\ Len(need[c]) \in Nat /\ DOMAIN need[c] = 1..Len(need[c])
      /\ Held(c) \subseteq 1..Len(need[c]) /\ j \in 1..Len(need[c])
      /\ \A m \in Held(c) : runs[c][m] \in Run
  BY <1>1, CallFacts
<1>3. /\ Held(c) = DOMAIN need[c] /\ j \in Held(c)
      /\ \A m \in Held(c) : runs[c][m].st \in (IF m < j THEN {"copied", "borrowed"} ELSE {"ok"})
      /\ \A m \in Held(c) : runs[c][m].st = "borrowed" => alias
  BY <1>1, <1>2 DEF Standing
<1>4. st \in RunState /\ st \in {"copied", "borrowed"} /\ (st = "borrowed" => alias)
  BY DEF RunState
<1> HIDE DEF st
<1>5. /\ RunsShape' /\ DOMAIN runs'[c] = Held(c) /\ runs'[c][j] \in Run /\ runs'[c][j].st = st
      /\ \A m \in Held(c) \ {j} : runs'[c][m] = runs[c][m]
      /\ \A d \in Caller \ {c} : runs'[d] = runs[d]
  BY <1>1, <1>2, <1>3, <1>4, SetStateFacts
<1>6. /\ NothingLeftBehind' /\ pools' \in [Stage -> Pool]
      /\ mu' \in [Stage -> [SlotId -> Caller \cup {None}]]
  <2>1. OthersKept(c)
    BY <1>1, <1>5 DEF OthersKept
  <2>2. \A m \in Held(c) \ {j} : Carried(c, m)
    BY <1>1, <1>3, <1>5 DEF Carried, Locked
  <2>3. (pools' = pools /\ (alias \/ runs[c][j].st = "copied")) \/ GiveBack(c, j)
    BY <1>1
  <2> QED
    BY <1>1, <1>3, <2>1, <2>2, <2>3, ReleasePreserves DEF DispatchInv
<1>7. /\ place \in DispatchPC /\ n \in Nat \ {0} /\ n \in 1..Len(need[c])
      /\ pc' = [pc EXCEPT ![c] = place] /\ pos' = [pos EXCEPT ![c] = n]
      /\ pc'[c] = place /\ pos'[c] = n /\ need'[c] = need[c]
  BY <1>1, <1>2 DEF DispatchPC
<1>8. \A m \in Held(c) : runs'[c][m].st = "borrowed" => alias
  BY <1>3, <1>4, <1>5
<1>9. Standing(c)'
  <2>1. \A m \in Held(c) : runs'[c][m].st \in (IF m < j + 1 THEN {"copied", "borrowed"} ELSE {"ok"})
    BY <1>2, <1>3, <1>4, <1>5
  <2>2. CASE last
    <3>1. \A m \in Held(c) : m < j + 1
      BY <1>2, <2>2
    <3>2. States(c, {"copied", "borrowed"})' /\ place = "viewing"
      BY <1>5, <2>1, <2>2, <3>1 DEF States, Held
    <3> HIDE DEF n, place
    <3> QED
      BY <1>1, <1>2, <1>3, <1>5, <1>7, <1>8, <3>2 DEF Standing, Held
  <2>3. CASE ~last
    <3>1. n = j + 1 /\ place = "output"
      BY <2>3
    <3> HIDE DEF n, place
    <3> QED
      BY <1>1, <1>2, <1>3, <1>5, <1>7, <1>8, <2>1, <3>1 DEF Standing, States, Held
  <2> QED
    BY <2>2, <2>3
<1>10. \A m \in DOMAIN runs'[c] : runs'[c][m] \in Run
  BY <1>2, <1>5
<1> HIDE DEF n, place, last, j
<1> QED
  BY <1>1, <1>2, <1>5, <1>6, <1>7, <1>9, <1>10, OwnStep DEF DispatchInv, DispatchTypeOK

LEMMA OutputFailsPreserves ==
  ASSUME DispatchInv, NEW c \in Caller, OutputFails(c)
  PROVE  DispatchInv'
<1> DEFINE j == pos[c]
           S == {m \in Held(c) : m < j}
           place == IF j = 1 THEN "failed" ELSE "dropviews"
<1>1. /\ pc[c] = "output" /\ Unlock(c, j) /\ GiveBack(c, j) /\ KeepRuns(c, S)
      /\ Abandons(c, {m \in Held(c) : m > j}) /\ pc' = [pc EXCEPT ![c] = place]
      /\ UNCHANGED <<alias, disabled, need, pos, calls>>
  BY DEF OutputFails, At, GoTo
<1>2. /\ Standing(c) /\ RunsShape /\ pc \in [Caller -> DispatchPC]
      /\ pos \in [Caller -> Nat \ {0}] /\ disabled \in BOOLEAN
      /\ Len(need[c]) \in Nat /\ DOMAIN need[c] = 1..Len(need[c])
      /\ Held(c) \subseteq 1..Len(need[c]) /\ j \in 1..Len(need[c])
      /\ \A m \in Held(c) : runs[c][m] \in Run /\ need[c][m] \in Stage /\ runs[c][m].slot \in SlotId
  BY <1>1, CallFacts
<1>3. /\ Held(c) = DOMAIN need[c] /\ j \in Held(c)
      /\ \A m \in Held(c) : runs[c][m].st \in (IF m < j THEN {"copied", "borrowed"} ELSE {"ok"})
      /\ \A m \in Held(c) : runs[c][m].st = "borrowed" => alias
  BY <1>1, <1>2 DEF Standing
<1>4. /\ RunsShape' /\ DOMAIN runs'[c] = S /\ \A m \in S : runs'[c][m] = runs[c][m]
      /\ \A d \in Caller \ {c} : runs'[d] = runs[d]
  BY <1>1, <1>2, KeepRunsFacts
<1>5. /\ S \subseteq Held(c) /\ \A m \in S : runs[c][m].st \in {"copied", "borrowed"}
      /\ \A m \in Held(c) \ S : m = j \/ m > j
      /\ j = 1 => S = {}
      /\ j # 1 => 1 \in S
  BY <1>2, <1>3
<1>6. /\ abandoned \subseteq abandoned' /\ abandoned' \subseteq Stage \X SlotId
      /\ \A m \in Held(c) \ S : m # j => <<need[c][m], runs[c][m].slot>> \in abandoned'
  BY <1>1, <1>2, <1>5 DEF Abandons, DispatchInv, DispatchTypeOK
<1> HIDE DEF S
<1>7. /\ NothingLeftBehind' /\ pools' \in [Stage -> Pool]
      /\ mu' \in [Stage -> [SlotId -> Caller \cup {None}]]
  <2>1. OthersKept(c)
    BY <1>1, <1>4 DEF OthersKept
  <2>2. \A m \in Held(c) \ {j} : Carried(c, m)
    BY <1>3, <1>5, <1>6 DEF Carried
  <2> HIDE DEF j
  <2> QED
    BY <1>1, <1>3, <1>6, <2>1, <2>2, ReleasePreserves DEF DispatchInv
<1>8. /\ place \in DispatchPC /\ pc'[c] = place /\ pos'[c] = j /\ need'[c] = need[c]
      /\ pos' = [pos EXCEPT ![c] = j] /\ j \in Nat \ {0}
  BY <1>1, <1>2 DEF DispatchPC
<1>9. Standing(c)'
  BY <1>1, <1>2, <1>3, <1>4, <1>5, <1>8 DEF Standing, States, Held
<1>10. \A m \in DOMAIN runs'[c] : runs'[c][m] \in Run
  BY <1>2, <1>4, <1>5
<1> HIDE DEF place, j
<1> QED
  BY <1>1, <1>2, <1>3, <1>4, <1>5, <1>6, <1>7, <1>8, <1>9, <1>10, OwnStep DEF DispatchInv, DispatchTypeOK

LEMMA ReleaseViewPreserves ==
  ASSUME DispatchInv, NEW c \in Caller, ReleaseView(c)
  PROVE  DispatchInv'
<1> DEFINE j == LastHeld(c)
           S == Held(c) \ {j}
           place == IF Held(c) = {j} THEN "failed" ELSE "dropviews"
<1>1. /\ pc[c] = "dropviews" /\ KeepRuns(c, S)
      /\ IF runs[c][j].st = "borrowed" THEN GiveBack(c, j) ELSE pools' = pools
      /\ pc' = [pc EXCEPT ![c] = place] /\ UNCHANGED <<alias, abandoned, mu, disabled, need, pos, calls>>
  BY DEF ReleaseView, At, GoTo, Aside
<1>2. /\ Standing(c) /\ RunsShape /\ pc \in [Caller -> DispatchPC]
      /\ pos \in [Caller -> Nat \ {0}] /\ disabled \in BOOLEAN
      /\ Len(need[c]) \in Nat /\ DOMAIN need[c] = 1..Len(need[c])
      /\ Held(c) \subseteq 1..Len(need[c]) /\ pos[c] \in 1..Len(need[c])
      /\ \A m \in Held(c) : runs[c][m] \in Run
  BY <1>1, CallFacts
<1>3. Held(c) # {} /\ States(c, {"copied", "borrowed"}) /\ \A m \in Held(c) : runs[c][m].st = "borrowed" => alias
  BY <1>1, <1>2 DEF Standing
<1>4. j \in Held(c)
  BY <1>2, <1>3, LastHeldIs
<1> HIDE DEF j
<1>5. /\ RunsShape' /\ DOMAIN runs'[c] = S /\ \A m \in S : runs'[c][m] = runs[c][m]
      /\ \A d \in Caller \ {c} : runs'[d] = runs[d]
  BY <1>1, <1>2, KeepRunsFacts
<1>6. /\ NothingLeftBehind' /\ pools' \in [Stage -> Pool]
      /\ mu' \in [Stage -> [SlotId -> Caller \cup {None}]]
  <2>1. OthersKept(c)
    BY <1>1, <1>5 DEF OthersKept
  <2>2. \A m \in Held(c) \ {j} : Carried(c, m)
    BY <1>3 DEF Carried, States
  <2>3. runs[c][j].st \notin Locked /\ (runs[c][j].st = "copied" \/ runs[c][j].st = "borrowed")
    BY <1>3, <1>4 DEF Locked, States
  <2>4. (pools' = pools /\ (alias \/ runs[c][j].st = "copied")) \/ GiveBack(c, j)
    BY <1>1, <2>3
  <2> QED
    BY <1>1, <1>4, <2>1, <2>2, <2>3, <2>4, ReleasePreserves DEF DispatchInv
<1>7. /\ place \in DispatchPC /\ pc'[c] = place /\ pos'[c] = pos[c] /\ need'[c] = need[c]
      /\ pos' = [pos EXCEPT ![c] = pos[c]] /\ pos[c] \in Nat \ {0}
  BY <1>1, <1>2 DEF DispatchPC
<1>8. Standing(c)'
  BY <1>1, <1>2, <1>3, <1>4, <1>5, <1>7 DEF Standing, States, Held
<1>9. \A m \in DOMAIN runs'[c] : runs'[c][m] \in Run
  BY <1>2, <1>5
<1> HIDE DEF place
<1> QED
  BY <1>1, <1>2, <1>5, <1>6, <1>7, <1>8, <1>9, OwnStep DEF DispatchInv, DispatchTypeOK

LEMMA ReturnLayerPreserves ==
  ASSUME DispatchInv, NEW c \in Caller, ReturnLayer(c)
  PROVE  DispatchInv'
<1>1. /\ pc[c] = "viewing" /\ KeepRuns(c, {}) /\ pc' = [pc EXCEPT ![c] = "idle"]
      /\ UNCHANGED <<pools, mu, alias, abandoned, disabled, need, pos, calls>>
  BY DEF ReturnLayer, At, GoTo, Slotwise, Aside
<1>2. /\ Standing(c) /\ RunsShape /\ pc \in [Caller -> DispatchPC]
      /\ pos \in [Caller -> Nat \ {0}] /\ disabled \in BOOLEAN
      /\ pools \in [Stage -> Pool] /\ mu \in [Stage -> [SlotId -> Caller \cup {None}]]
  BY <1>1, CallFacts
<1>3. States(c, {"copied", "borrowed"}) /\ \A m \in Held(c) : runs[c][m].st = "borrowed" => alias
  BY <1>1, <1>2 DEF Standing
<1>4. RunsShape' /\ DOMAIN runs'[c] = {} /\ \A d \in Caller \ {c} : runs'[d] = runs[d]
  BY <1>1, <1>2, KeepRunsFacts
<1>5. NothingLeftBehind'
  <2>1. OthersKept(c) /\ abandoned \subseteq abandoned'
    BY <1>1, <1>4 DEF OthersKept
  <2>2. \A m \in Held(c) : Carried(c, m)
    BY <1>3 DEF Carried, States
  <2> QED
    BY <1>1, <2>1, <2>2, CarriedPreserves DEF DispatchInv
<1>6. pc'[c] = "idle" /\ pos' = [pos EXCEPT ![c] = pos[c]] /\ pos[c] \in Nat \ {0}
  BY <1>1, <1>2
<1>7. Standing(c)'
  BY <1>4, <1>6 DEF Standing, States, Held
<1> QED
  BY <1>1, <1>2, <1>4, <1>5, <1>6, <1>7, OwnStep DEF DispatchInv, DispatchTypeOK, DispatchPC

-----------------------------------------------------------------------------
LEMMA NextDispatch == DispatchInv /\ [DispatchNext]_dispatchVars => DispatchInv'
<1> SUFFICES ASSUME DispatchInv, [DispatchNext]_dispatchVars PROVE DispatchInv'
  OBVIOUS
<1>1. ASSUME NEW c \in Caller, BeginDispatch(c) PROVE DispatchInv'
  BY <1>1, BeginPreserves
<1>2. ASSUME NEW c \in Caller, Proceed(c) PROVE DispatchInv'
  BY <1>2, AcquireSteps, QuietSteps, StartAllPreserves, CollectOkPreserves, CollectErrPreserves,
     AbortRunPreserves, TakeOutputPreserves, OutputFailsPreserves, ReleaseViewPreserves,
     ReturnLayerPreserves DEF Proceed
<1>3. ASSUME NEW c \in Caller, Locking(c) PROVE DispatchInv'
  BY <1>3, LockAndPreparePreserves, PrepareFailsPreserves DEF Locking
<1>4. CASE UNCHANGED dispatchVars
  <2>1. UNCHANGED <<alias, pools, mu, disabled, pc, need, pos, runs, calls, abandoned>>
    BY <1>4 DEF dispatchVars
  <2>2. DispatchTypeOK'
    BY <2>1 DEF DispatchInv, DispatchTypeOK
  <2>3. RunsShape' /\ NothingLeftBehind'
    <3>1. RunsShape'
      BY <2>1 DEF DispatchInv, RunsShape, Held
    <3>2. NothingLeftBehind'
      BY <2>1 DEF DispatchInv, NothingLeftBehind, Locks, Held
    <3> QED
      BY <3>1, <3>2
  <2>4. Standings'
    <3>1. ASSUME NEW c \in Caller PROVE Standing(c)'
      <4>1. /\ Standing(c) /\ pc'[c] = pc[c] /\ need'[c] = need[c] /\ pos'[c] = pos[c]
            /\ runs'[c] = runs[c] /\ alias' = alias
        BY <2>1 DEF DispatchInv, Standings
      <4> QED
        BY <4>1 DEF Standing, States, Held
    <3> QED
      BY <3>1 DEF Standings
  <2> QED
    BY <2>2, <2>3, <2>4 DEF DispatchInv
<1> QED
  BY <1>1, <1>2, <1>3, <1>4 DEF DispatchNext, AllReturned

LEMMA DispatchInvariant == DispatchSpec => []DispatchInv
BY InitDispatch, NextDispatch, PTL DEF DispatchSpec

\* The type invariant of the fan-out: every call holds runs on the stages it needs, and
\* the pools it goes through stay pools of slots.
THEOREM DispatchTypeCorrect == DispatchSpec => []DispatchTypeOK
<1>1. DispatchInv => DispatchTypeOK
  BY DEF DispatchInv
<1> QED
  BY <1>1, DispatchInvariant, PTL

\* Whatever fails on the way of a layer, and in whatever order calls go through the
\* stages: a slot that no error drops is locked by a call that will unlock it, and is
\* leased by a call that will give it back.
THEOREM NothingIsLeftBehind == DispatchSpec => []NothingLeftBehind
<1>1. DispatchInv => NothingLeftBehind
  BY DEF DispatchInv
<1> QED
  BY <1>1, DispatchInvariant, PTL
=============================================================================
