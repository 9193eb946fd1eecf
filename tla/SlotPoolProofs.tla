--------------------------- MODULE SlotPoolProofs ---------------------------
(***************************************************************************)
(* Proofs about the slot pool of one stage, for every set of callers,      *)
(* every pool depth and every number of calls.                             *)
(*                                                                         *)
(* CurrentLeaseHeld and OwnOutput are not inductive.  The first needs that *)
(* no two runs ever hold the same lease (otherwise one run's release would *)
(* free the slot of the other); the second needs that a run between Lock   *)
(* and Unlock is the holder of slot.mu, even when its slot was stolen.     *)
(* The last part adds what a caller alone with the pool, and callers that  *)
(* copy their outputs, can rely on.                                        *)
(***************************************************************************)
EXTENDS SlotPool, FiniteSetTheorems, TLAPS

-----------------------------------------------------------------------------
\* What the operations on a slot pool do to its fields, for every pool: the proofs below
\* cite these facts and never expand the record.

\* A stage starts with one free slot that was never leased.
LEMMA NewPoolFacts ==
  ASSUME NEW d \in SlotId
  PROVE  NewPool(d) \in Pool /\ NewPool(d).size <= NewPool(d).depth
BY MaxDepthAssumption DEF NewPool, Pool, SlotId

\* What acquireSlot does to the pool when it leases slot i.
LEMMA LeaseSlotFacts ==
  ASSUME NEW p \in Pool, NEW i \in SlotId
  PROVE  /\ LeaseSlot(p, i) \in Pool
         /\ LeaseSlot(p, i).seq = p.seq + 1
         /\ LeaseSlot(p, i).lease[i] = p.seq + 1
         /\ \A j \in SlotId \ {i} : LeaseSlot(p, i).lease[j] = p.lease[j]
         /\ LeaseSlot(p, i).inUse = p.inUse \cup {i}
         /\ LeaseSlot(p, i).size = p.size
         /\ LeaseSlot(p, i).depth = p.depth
<1> DEFINE q == LeaseSlot(p, i)
           f == [p.lease EXCEPT ![i] = p.seq + 1]
<1>1. /\ q.depth = p.depth /\ q.size = p.size /\ q.seq = p.seq + 1
      /\ q.lease = f /\ q.inUse = p.inUse \cup {i}
  BY DEF LeaseSlot, Pool
<1>2. /\ f \in [SlotId -> Nat]
      /\ f[i] = p.seq + 1
      /\ \A j \in SlotId \ {i} : f[j] = p.lease[j]
  BY DEF Pool
<1>3. q \in Pool
  BY <1>2 DEF LeaseSlot, Pool
<1> HIDE DEF q
<1>4. QED
  BY <1>1, <1>2, <1>3 DEF q

\* What acquireSlot does to the pool when it builds a slot and leases it.
LEMMA BuildAndLeaseFacts ==
  ASSUME NEW p \in Pool, p.size < p.depth
  PROVE  LET i == p.size + 1
             q == BuildAndLease(p)
         IN  /\ i \in SlotId
             /\ q \in Pool
             /\ q.seq = p.seq + 1
             /\ q.lease[i] = p.seq + 1
             /\ \A j \in SlotId \ {i} : q.lease[j] = p.lease[j]
             /\ q.inUse = p.inUse \cup {i}
             /\ q.size = p.size + 1
             /\ q.depth = p.depth
<1> DEFINE i == p.size + 1
           r == [p EXCEPT !.size = @ + 1]
<1>1. i \in SlotId
  BY MaxDepthAssumption DEF SlotId, Pool
<1>2. r \in Pool /\ r.seq = p.seq /\ r.lease = p.lease /\ r.inUse = p.inUse
      /\ r.size = p.size + 1 /\ r.depth = p.depth
  BY <1>1 DEF Pool
<1>3. BuildAndLease(p) = LeaseSlot(r, i)
  BY DEF BuildAndLease
<1> HIDE DEF r, i
<1>4. QED
  BY <1>1, <1>2, <1>3, LeaseSlotFacts DEF i

\* What releaseSlot does to the pool.
LEMMA ReleaseLeaseFacts ==
  ASSUME NEW p \in Pool, NEW i \in SlotId, NEW l \in Nat
  PROVE  LET q == ReleaseLease(p, i, l)
         IN  /\ q \in Pool
             /\ q.seq = p.seq /\ q.lease = p.lease /\ q.size = p.size /\ q.depth = p.depth
             /\ q.inUse = IF p.lease[i] = l THEN p.inUse \ {i} ELSE p.inUse
BY DEF ReleaseLease, Pool
-----------------------------------------------------------------------------
\* Leases are handed out once: none is above the counter and no two runs share one.
LeasesDistinct ==
  /\ \A i \in SlotId : pool.lease[i] <= pool.seq
  /\ \A c \in Caller : pc[c] \in Holding => run[c].lease <= pool.seq
  /\ \A c, d \in Caller :
       c # d /\ pc[c] \in Holding /\ pc[d] \in Holding => run[c].lease # run[d].lease

\* A run between slot.mu.Lock and slot.mu.Unlock holds the mutex of its slot.
LockedByRunner ==
  \A c \in Caller : pc[c] \in Running => mu[run[c].slot] = c

IInv == TypeOK /\ LeasesDistinct /\ CurrentLeaseHeld /\ LockedByRunner /\ OwnOutput

-----------------------------------------------------------------------------
\* The mutable part of the stage when it is built.
LEMMA InitInvariant == Init => IInv
<1> SUFFICES ASSUME Init PROVE IInv
  OBVIOUS
<1>1. \A d \in SlotId : NewPool(d) \in Pool /\ NewPool(d).size <= NewPool(d).depth
  BY MaxDepthAssumption DEF NewPool, Pool, SlotId
<1>2. \A d \in SlotId, i \in SlotId : NewPool(d).lease[i] = 0 /\ NewPool(d).seq = 0
  BY DEF NewPool
<1>3. NoRun \in Run
  BY MaxDepthAssumption DEF NoRun, Run, SlotId
<1>4. TypeOK
  BY <1>1, <1>3 DEF Init, TypeOK, PC, Holding, Running
<1>5. LeasesDistinct
  BY <1>2 DEF Init, LeasesDistinct, Holding, Running
<1>6. CurrentLeaseHeld /\ LockedByRunner /\ OwnOutput
  BY DEF Init, CurrentLeaseHeld, LockedByRunner, OwnOutput, Holding, Running
<1>7. QED
  BY <1>4, <1>5, <1>6 DEF IInv

\* Every way to acquire a slot, free, newly built or stolen, gives the caller a lease
\* nobody holds and marks the slot in use; the caller holds no mutex yet.
LEMMA TakeLeasePreserves ==
  ASSUME IInv, NEW c \in Caller, NEW i \in SlotId,
         pc[c] \notin Holding,
         pool' \in Pool, pool'.size <= pool'.depth,
         pool'.seq = pool.seq + 1,
         pool'.lease[i] = pool.seq + 1,
         \A j \in SlotId \ {i} : pool'.lease[j] = pool.lease[j],
         pool'.inUse = pool.inUse \cup {i},
         TakeLease(c, i),
         calls' \in [Caller -> Nat],
         UNCHANGED <<mode, mu, surface, buffer, orphans, view>>
  PROVE  IInv'
<1> USE DEF IInv
<1>1. pc' = [pc EXCEPT ![c] = "waiting"] /\ pc' \in [Caller -> PC]
  BY DEF TakeLease, Goto, TypeOK, PC, Holding
<1>2. /\ run' \in [Caller -> Run]
      /\ run'[c].slot = i /\ run'[c].lease = pool.seq + 1
      /\ \A d \in Caller \ {c} : run'[d] = run[d]
  BY DEF TakeLease, TypeOK, Run, Pool
<1>3. \A d \in Caller \ {c} : pc'[d] = pc[d]
  BY <1>1 DEF TypeOK
<1>4. TypeOK'
  BY <1>1, <1>2 DEF TypeOK
<1>5. pool.seq \in Nat /\ pool.lease \in [SlotId -> Nat]
      /\ \A d \in Caller : run[d].lease \in Nat /\ run[d].slot \in SlotId
  BY DEF TypeOK, Pool, Run
<1>6. LeasesDistinct'
  <2>1. \A j \in SlotId : pool'.lease[j] <= pool'.seq
    BY <1>5 DEF LeasesDistinct
  <2>2. \A d \in Caller : pc'[d] \in Holding => run'[d].lease <= pool'.seq
    BY <1>2, <1>3, <1>5 DEF LeasesDistinct
  <2>3. \A d \in Caller \ {c} : pc'[d] \in Holding => run'[d].lease # run'[c].lease
    BY <1>2, <1>3, <1>5 DEF LeasesDistinct
  <2>4. \A d, e \in Caller \ {c} :
          d # e /\ pc'[d] \in Holding /\ pc'[e] \in Holding => run'[d].lease # run'[e].lease
    BY <1>2, <1>3 DEF LeasesDistinct
  <2>5. QED
    BY <2>1, <2>2, <2>3, <2>4 DEF LeasesDistinct
<1>7. CurrentLeaseHeld'
  <2> SUFFICES ASSUME NEW d \in Caller, pc'[d] \in Holding,
                      pool'.lease[run'[d].slot] = run'[d].lease
               PROVE  run'[d].slot \in pool'.inUse
    BY DEF CurrentLeaseHeld
  <2>1. CASE d = c
    BY <2>1, <1>2
  <2>2. CASE d # c
    <3>1. pc[d] \in Holding /\ run'[d] = run[d]
      BY <2>2, <1>2, <1>3
    <3>2. run[d].slot # i
      BY <3>1, <1>5 DEF LeasesDistinct
    <3>3. pool.lease[run[d].slot] = run[d].lease
      BY <3>1, <3>2, <1>5
    <3>4. QED
      BY <3>1, <3>3 DEF CurrentLeaseHeld
  <2>3. QED
    BY <2>1, <2>2
<1>8. LockedByRunner' /\ OwnOutput'
  BY <1>1, <1>2, <1>3 DEF LockedByRunner, OwnOutput, Running, TypeOK
<1>9. QED
  BY <1>4, <1>6, <1>7, <1>8

\* A caller that gives its slot's mutex back, holding on to its lease or about to
\* release it, disturbs no run that holds another slot's mutex.
LEMMA UnlockPreserves ==
  ASSUME IInv, NEW c \in Caller, pc[c] \in Running,
         NEW to \in {"releasing", "viewing"},
         UnlockThen(c, to),
         buffer' \in [SlotId -> Nat \cup {Orphan}],
         orphans' \subseteq (SlotId \X Nat),
         view' \in [Caller -> {"none", "owned", "surface", "buffer"}],
         UNCHANGED <<mode, pool, surface, run, calls>>
  PROVE  IInv'
<1> USE DEF IInv
<1>1. /\ pc' \in [Caller -> PC] /\ pc'[c] = to
      /\ \A d \in Caller \ {c} : pc'[d] = pc[d]
  BY DEF UnlockThen, Goto, TypeOK, PC, Holding
<1>2. /\ mu' \in [SlotId -> Caller \cup {None}]
      /\ \A i \in SlotId \ {run[c].slot} : mu'[i] = mu[i]
  BY DEF UnlockThen, TypeOK
<1>3. TypeOK'
  BY <1>1, <1>2 DEF TypeOK
<1>4. pc[c] \in Holding /\ pc'[c] \in Holding /\ pc'[c] \notin Running
  BY <1>1 DEF Holding, Running
<1>5. \A d \in Caller : run[d].slot \in SlotId
  BY DEF TypeOK, Run
<1>6. LeasesDistinct' /\ CurrentLeaseHeld'
  BY <1>1, <1>4 DEF LeasesDistinct, CurrentLeaseHeld
<1>7. LockedByRunner'
  <2> SUFFICES ASSUME NEW d \in Caller, pc'[d] \in Running
               PROVE  mu'[run[d].slot] = d
    BY DEF LockedByRunner
  <2>1. d # c /\ pc[d] \in Running
    BY <1>1, <1>4
  <2>2. mu[run[d].slot] = d /\ mu[run[c].slot] = c
    BY <2>1 DEF LockedByRunner
  <2>3. QED
    BY <2>1, <2>2, <1>2, <1>5
<1>8. OwnOutput'
  BY <1>1, <1>4 DEF OwnOutput, Running
<1>9. QED
  BY <1>3, <1>6, <1>7, <1>8

\* A step that keeps locks, leases and the data, and moves the caller between places
\* where it holds the same slot, or drops a mutex-free run altogether.
LEMMA MovePreserves ==
  ASSUME IInv, NEW c \in Caller, NEW to \in PC,
         Goto(c, to),
         to \in Holding => pc[c] \in Holding /\ run' = run,
         to \in Running => pc[c] \in Running,
         to = "evaluated" => pc[c] = "evaluated",
         run' \in [Caller -> Run],
         \A d \in Caller \ {c} : run'[d] = run[d],
         view' \in [Caller -> {"none", "owned", "surface", "buffer"}],
         calls' \in [Caller -> Nat],
         UNCHANGED <<mode, pool, mu, surface, buffer, orphans>>
  PROVE  IInv'
<1> USE DEF IInv
<1>1. /\ pc' \in [Caller -> PC] /\ pc'[c] = to
      /\ \A d \in Caller \ {c} : pc'[d] = pc[d]
  BY DEF Goto, TypeOK
<1>2. TypeOK'
  BY <1>1 DEF TypeOK
<1>3. \A d \in Caller : pc'[d] \in Holding => pc[d] \in Holding /\ run'[d] = run[d]
  BY <1>1
<1>4. \A d \in Caller : pc'[d] \in Running => pc[d] \in Running
  BY <1>1
<1>5. \A d \in Caller : pc'[d] = "evaluated" => pc[d] = "evaluated"
  BY <1>1
<1>6. LeasesDistinct' /\ CurrentLeaseHeld'
  BY <1>3 DEF LeasesDistinct, CurrentLeaseHeld
<1>7. LockedByRunner' /\ OwnOutput'
  BY <1>3, <1>4, <1>5 DEF LockedByRunner, OwnOutput, Holding, Running
<1>8. QED
  BY <1>2, <1>6, <1>7

-----------------------------------------------------------------------------
\* The ways a call begins.
LEMMA BeginPreserves ==
  ASSUME IInv, NEW c \in Caller, Begin(c)
  PROVE  IInv'
<1>1. TypeOK
  BY DEF IInv
<1>2. ASSUME BeginCall(c)
      PROVE  pc[c] \notin Holding /\ pc[c] = "idle" /\ calls' \in [Caller -> Nat]
  BY <1>1, <1>2 DEF BeginCall, TypeOK, Holding, Running
<1>3. CASE AcquireFree(c)
  <2>1. PICK i \in SlotId : IsFirstFree(pool, i) /\ pool' = LeaseSlot(pool, i) /\ TakeLease(c, i)
    BY <1>3 DEF AcquireFree
  <2>2. pool \in Pool /\ pool.size <= pool.depth
    BY <1>1 DEF TypeOK
  <2>3. BeginCall(c) /\ UNCHANGED <<mode, mu, surface, buffer, orphans, view>>
    BY <1>3 DEF AcquireFree
  <2>4. QED
    BY <1>2, <2>1, <2>2, <2>3, LeaseSlotFacts, TakeLeasePreserves
<1>4. CASE AcquireBuild(c)
  <2>1. pool \in Pool /\ pool.size < pool.depth
    BY <1>1, <1>4 DEF TypeOK, AcquireBuild, CanBuild
  <2>2. /\ BeginCall(c) /\ UNCHANGED <<mode, mu, surface, buffer, orphans, view>>
        /\ pool' = BuildAndLease(pool) /\ TakeLease(c, pool.size + 1)
    BY <1>4 DEF AcquireBuild
  <2>3. pool'.size <= pool'.depth
    BY <2>1, <2>2, BuildAndLeaseFacts DEF Pool, SlotId
  <2>4. QED
    BY <1>2, <2>1, <2>2, <2>3, BuildAndLeaseFacts, TakeLeasePreserves
<1>5. CASE BuildFails(c)
  <2>1. calls' \in [Caller -> Nat]
    BY <1>2, <1>5 DEF BuildFails
  <2>2. QED
    BY <1>5, <2>1 DEF BuildFails, IInv, TypeOK, LeasesDistinct, CurrentLeaseHeld,
                      LockedByRunner, OwnOutput
<1>6. CASE Stall(c)
  <2>1. /\ BeginCall(c) /\ Goto(c, "stalled")
        /\ UNCHANGED <<mode, pool, mu, surface, buffer, orphans, run, view>>
    BY <1>6 DEF Stall
  <2>2. "stalled" \in PC /\ "stalled" \notin Holding /\ "stalled" \notin Running
    BY DEF PC, Holding, Running
  <2>3. QED
    BY <1>1, <1>2, <2>1, <2>2, MovePreserves DEF TypeOK
<1>7. QED
  BY <1>3, <1>4, <1>5, <1>6 DEF Begin

\* slot.mu is free when it is locked, so nobody else's run loses it.
LEMMA LockPreserves ==
  ASSUME IInv, NEW c \in Caller, LockSlot(c)
  PROVE  IInv'
<1> USE DEF IInv
<1>1. /\ pc[c] = "waiting" /\ mu[run[c].slot] = None
      /\ mu' = [mu EXCEPT ![run[c].slot] = c] /\ pc' = [pc EXCEPT ![c] = "locked"]
      /\ UNCHANGED <<mode, pool, surface, buffer, orphans, run, view, calls>>
  BY DEF LockSlot, Goto
<1>2. /\ pc' \in [Caller -> PC] /\ pc'[c] = "locked"
      /\ \A d \in Caller \ {c} : pc'[d] = pc[d]
  BY <1>1 DEF TypeOK, PC, Holding, Running
<1>3. \A d \in Caller : run[d].slot \in SlotId
  BY DEF TypeOK, Run
<1>4. TypeOK'
  BY <1>1, <1>2, <1>3 DEF TypeOK
<1>5. pc[c] \in Holding /\ pc'[c] \in Holding
  BY <1>1, <1>2 DEF Holding, Running
<1>6. LeasesDistinct' /\ CurrentLeaseHeld'
  BY <1>1, <1>2, <1>5 DEF LeasesDistinct, CurrentLeaseHeld
<1>7. LockedByRunner'
  <2> SUFFICES ASSUME NEW d \in Caller, pc'[d] \in Running
               PROVE  mu'[run[d].slot] = d
    BY <1>1 DEF LockedByRunner
  <2>1. CASE d = c
    BY <2>1, <1>1, <1>3 DEF TypeOK
  <2>2. CASE d # c
    <3>1. mu[run[d].slot] = d
      BY <2>2, <1>2 DEF LockedByRunner
    <3>2. run[d].slot # run[c].slot
      BY <3>1, <1>1, CallerAssumption
    <3>3. QED
      BY <3>1, <3>2, <1>1, <1>3 DEF TypeOK
  <2>3. QED
    BY <2>1, <2>2
<1>8. OwnOutput'
  BY <1>1, <1>2 DEF OwnOutput
<1>9. QED
  BY <1>4, <1>6, <1>7, <1>8

\* A run writes only the output surface of the slot whose mutex it holds.
LEMMA EvalOkPreserves ==
  ASSUME IInv, NEW c \in Caller, EvalOk(c)
  PROVE  IInv'
<1> USE DEF IInv
<1>1. /\ pc[c] = "evaluating" /\ pc' = [pc EXCEPT ![c] = "evaluated"]
      /\ surface' = [surface EXCEPT ![run[c].slot] = run[c].lease]
      /\ UNCHANGED <<mode, pool, mu, buffer, orphans, run, view, calls>>
  BY DEF EvalOk, Goto
<1>2. /\ pc' \in [Caller -> PC] /\ pc'[c] = "evaluated"
      /\ \A d \in Caller \ {c} : pc'[d] = pc[d]
  BY <1>1 DEF TypeOK, PC, Holding, Running
<1>3. \A d \in Caller : run[d].slot \in SlotId /\ run[d].lease \in Nat
  BY DEF TypeOK, Run
<1>4. TypeOK'
  BY <1>1, <1>2, <1>3 DEF TypeOK
<1>5. pc[c] \in Running /\ pc[c] \in Holding /\ pc'[c] \in Holding
  BY <1>1, <1>2 DEF Holding, Running
<1>6. LeasesDistinct' /\ CurrentLeaseHeld'
  BY <1>1, <1>2, <1>5 DEF LeasesDistinct, CurrentLeaseHeld
<1>7. LockedByRunner'
  BY <1>1, <1>2, <1>5 DEF LockedByRunner
<1>8. OwnOutput'
  <2> SUFFICES ASSUME NEW d \in Caller, pc'[d] = "evaluated"
               PROVE  surface'[run[d].slot] \in {run[d].lease, Orphan}
    BY <1>1 DEF OwnOutput
  <2>1. CASE d = c
    BY <2>1, <1>1, <1>3 DEF TypeOK
  <2>2. CASE d # c
    <3>1. pc[d] = "evaluated" /\ pc[d] \in Running
      BY <2>2, <1>2 DEF Running
    <3>2. run[d].slot # run[c].slot
      BY <2>2, <3>1, <1>5 DEF LockedByRunner
    <3>3. QED
      BY <3>1, <3>2, <1>1, <1>3 DEF OwnOutput, TypeOK
  <2>3. QED
    BY <2>1, <2>2
<1>9. QED
  BY <1>4, <1>6, <1>7, <1>8

\* releaseSlot clears inUse only of the lease it was given, and no other run holds it.
LEMMA ReleasePreserves ==
  ASSUME IInv, NEW c \in Caller, Release(c)
  PROVE  IInv'
<1> USE DEF IInv
<1> DEFINE i == run[c].slot
           l == run[c].lease
<1>1. /\ pc[c] = "releasing" /\ pool' = ReleaseLease(pool, i, l)
      /\ pc' = [pc EXCEPT ![c] = "idle"] /\ run' = [run EXCEPT ![c] = NoRun]
      /\ UNCHANGED <<mode, mu, surface, buffer, orphans, view, calls>>
  BY DEF Release, Goto
<1>2. /\ pc' \in [Caller -> PC] /\ pc'[c] = "idle"
      /\ \A d \in Caller \ {c} : pc'[d] = pc[d]
  BY <1>1 DEF TypeOK, PC, Holding, Running
<1>3. NoRun \in Run
  BY MaxDepthAssumption DEF NoRun, Run, SlotId
<1>4. run' \in [Caller -> Run] /\ \A d \in Caller \ {c} : run'[d] = run[d]
  BY <1>1, <1>3 DEF TypeOK
<1>5. pool \in Pool /\ i \in SlotId /\ l \in Nat
  BY DEF TypeOK, Run
<1>6. /\ pool' \in Pool /\ pool'.seq = pool.seq /\ pool'.lease = pool.lease
      /\ pool'.size = pool.size /\ pool'.depth = pool.depth
      /\ pool'.inUse = IF pool.lease[i] = l THEN pool.inUse \ {i} ELSE pool.inUse
  <2> HIDE DEF IInv, i, l
  <2>1. QED
    BY <1>1, <1>5, ReleaseLeaseFacts
<1>7. TypeOK'
  BY <1>1, <1>2, <1>4, <1>6 DEF TypeOK
<1>8. pc'[c] \notin Holding /\ pc[c] \in Holding
  BY <1>1, <1>2 DEF Holding, Running
<1>9. LeasesDistinct'
  BY <1>2, <1>4, <1>6, <1>8 DEF LeasesDistinct
<1>10. CurrentLeaseHeld'
  <2> SUFFICES ASSUME NEW d \in Caller, pc'[d] \in Holding,
                      pool'.lease[run'[d].slot] = run'[d].lease
               PROVE  run'[d].slot \in pool'.inUse
    BY DEF CurrentLeaseHeld
  <2>1. d # c /\ pc[d] \in Holding /\ run'[d] = run[d]
    BY <1>2, <1>4, <1>8
  <2>2. run[d].slot \in pool.inUse /\ pool.lease[run[d].slot] = run[d].lease
    BY <2>1, <1>6 DEF CurrentLeaseHeld
  <2>3. run[d].lease # l
    BY <2>1, <1>8 DEF LeasesDistinct
  <2>4. pool.lease[i] = l => run[d].slot # i
    BY <2>2, <2>3
  <2>5. QED
    BY <2>1, <2>2, <2>4, <1>6
<1>11. LockedByRunner' /\ OwnOutput'
  BY <1>1, <1>2, <1>4, <1>8 DEF LockedByRunner, OwnOutput, Running, Holding
<1>12. QED
  BY <1>7, <1>9, <1>10, <1>11

\* The rest of a call.
LEMMA AdvancePreserves ==
  ASSUME IInv, NEW c \in Caller, Advance(c)
  PROVE  IInv'
<1>1. TypeOK
  BY DEF IInv
<1>2. CASE SyncFails(c)
  <2>1. "idle" \in PC /\ "idle" \notin Holding /\ "idle" \notin Running
    BY DEF PC, Holding, Running
  <2>2. Goto(c, "idle") /\ UNCHANGED <<mode, pool, mu, surface, buffer, orphans, run, view, calls>>
    BY <1>2 DEF SyncFails
  <2>3. QED
    BY <1>1, <2>1, <2>2, MovePreserves DEF TypeOK
<1>3. CASE Reacquire(c)
  <2>1. PICK i \in SlotId : pool' = LeaseSlot(pool, i) /\ TakeLease(c, i)
    BY <1>3 DEF Reacquire
  <2>2. pool \in Pool /\ pool.size <= pool.depth /\ calls \in [Caller -> Nat]
    BY <1>1 DEF TypeOK
  <2>3. pc[c] \notin Holding
        /\ UNCHANGED <<mode, mu, surface, buffer, orphans, view, calls>>
    BY <1>3 DEF Reacquire, Holding, Running
  <2>4. QED
    BY <2>1, <2>2, <2>3, LeaseSlotFacts, TakeLeasePreserves
<1>4. CASE PrepareFails(c)
  BY <1>1, <1>4, UnlockPreserves DEF PrepareFails, Running, TypeOK
<1>5. CASE StartEval(c)
  <2>1. /\ Goto(c, "evaluating") /\ pc[c] = "locked"
        /\ UNCHANGED <<mode, pool, mu, surface, buffer, orphans, run, view, calls>>
    BY <1>5 DEF StartEval
  <2>2. "evaluating" \in PC /\ pc[c] \in Holding /\ pc[c] \in Running
    BY <2>1 DEF PC, Holding, Running
  <2>3. QED
    BY <1>1, <2>1, <2>2, MovePreserves DEF TypeOK
<1>6. CASE EvalOk(c)
  BY <1>6, EvalOkPreserves
<1>7. CASE EvalFails(c)
  BY <1>1, <1>7, UnlockPreserves DEF EvalFails, Running, TypeOK
<1>8. CASE AbortInFlight(c)
  <2>1. orphans' \subseteq (SlotId \X Nat)
    BY <1>1, <1>8 DEF AbortInFlight, TypeOK, Run
  <2>2. QED
    BY <1>1, <1>8, <2>1, UnlockPreserves DEF AbortInFlight, Running, TypeOK
<1>9. CASE CopyOut(c)
  BY <1>1, <1>9, UnlockPreserves DEF CopyOut, Running, TypeOK
<1>10. CASE Borrow(c)
  <2>1. \A m \in Mode : Borrowable(m) \subseteq {"owned", "surface", "buffer"}
    BY CallerAssumption DEF Borrowable
  <2>2. view' \in [Caller -> {"none", "owned", "surface", "buffer"}]
    BY <1>1, <1>10, <2>1 DEF Borrow, TypeOK
  <2>3. buffer' \in [SlotId -> Nat \cup {Orphan}]
    BY <1>1, <1>10 DEF Borrow, TypeOK, Run
  <2>4. QED
    BY <1>1, <1>10, <2>2, <2>3, UnlockPreserves DEF Borrow, Running, TypeOK
<1>11. CASE ForgetView(c)
  <2>1. "idle" \in PC /\ "idle" \notin Holding /\ "idle" \notin Running
    BY DEF PC, Holding, Running
  <2>2. NoRun \in Run
    BY MaxDepthAssumption DEF NoRun, Run, SlotId
  <2>3. /\ run' \in [Caller -> Run] /\ \A d \in Caller \ {c} : run'[d] = run[d]
        /\ view' \in [Caller -> {"none", "owned", "surface", "buffer"}]
    BY <1>1, <1>11, <2>2 DEF ForgetView, TypeOK
  <2>4. Goto(c, "idle") /\ UNCHANGED <<mode, pool, mu, surface, buffer, orphans, calls>>
    BY <1>11 DEF ForgetView
  <2>5. QED
    BY <1>1, <2>1, <2>3, <2>4, MovePreserves DEF TypeOK
<1>12. CASE DropView(c)
  <2>1. /\ Goto(c, "releasing") /\ pc[c] = "viewing"
        /\ UNCHANGED <<mode, pool, mu, surface, buffer, orphans, run, calls>>
        /\ view' \in [Caller -> {"none", "owned", "surface", "buffer"}]
    BY <1>1, <1>12 DEF DropView, TypeOK
  <2>2. "releasing" \in PC /\ "releasing" \notin Running /\ pc[c] \in Holding
    BY <2>1 DEF PC, Holding, Running
  <2>3. QED
    BY <1>1, <2>1, <2>2, MovePreserves DEF TypeOK
<1>13. CASE Release(c)
  BY <1>13, ReleasePreserves
<1>14. QED
  BY <1>2, <1>3, <1>4, <1>5, <1>6, <1>7, <1>8, <1>9, <1>10, <1>11, <1>12, <1>13 DEF Advance

\* An abandoned evaluation leaves nothing a run could take for its own output.
LEMMA OrphanLandsPreserves ==
  ASSUME IInv, OrphanLands
  PROVE  IInv'
<1> USE DEF IInv
<1>1. PICK o \in orphans :
        /\ orphans' = orphans \ {o}
        /\ surface' = [surface EXCEPT ![o[1]] = Orphan]
        /\ UNCHANGED <<mode, pool, mu, buffer, pc, run, view, calls>>
  BY DEF OrphanLands
<1>2. TypeOK'
  BY <1>1 DEF TypeOK
<1>3. LeasesDistinct' /\ CurrentLeaseHeld' /\ LockedByRunner'
  BY <1>1 DEF LeasesDistinct, CurrentLeaseHeld, LockedByRunner
<1>4. \A i \in SlotId : surface'[i] \in {surface[i], Orphan}
  BY <1>1 DEF TypeOK
<1>5. OwnOutput'
  BY <1>1, <1>4 DEF OwnOutput, TypeOK, Run
<1>6. QED
  BY <1>2, <1>3, <1>5

\* Every step of the stage and its callers keeps the invariant.
LEMMA NextInvariant == IInv /\ [Next]_vars => IInv'
<1> SUFFICES ASSUME IInv, [Next]_vars PROVE IInv'
  OBVIOUS
<1>1. ASSUME NEW c \in Caller, Begin(c) PROVE IInv'
  BY <1>1, BeginPreserves
<1>2. ASSUME NEW c \in Caller, LockSlot(c) PROVE IInv'
  BY <1>2, LockPreserves
<1>3. ASSUME NEW c \in Caller, Advance(c) PROVE IInv'
  BY <1>3, AdvancePreserves
<1>4. CASE OrphanLands
  BY <1>4, OrphanLandsPreserves
<1>5. CASE UNCHANGED vars
  BY <1>5 DEF vars, IInv, TypeOK, LeasesDistinct, CurrentLeaseHeld, LockedByRunner, OwnOutput
<1>6. QED
  BY <1>1, <1>2, <1>3, <1>4, <1>5 DEF Next, Finished

LEMMA InvariantHolds == Spec => []IInv
<1>1. QED
  BY InitInvariant, NextInvariant, PTL DEF Spec

-----------------------------------------------------------------------------
\* Types, and that the pool never outgrows its configured depth (pool.go acquireSlot).
THEOREM TypeCorrect == Spec => []TypeOK
<1>1. IInv => TypeOK
  BY DEF IInv
<1>2. QED
  BY <1>1, InvariantHolds, PTL

\* However slots are stolen, a run whose lease is current has its slot to itself in the
\* free list until it releases it (acquireSlot, releaseSlot).
THEOREM LeaseSafety == Spec => []CurrentLeaseHeld
<1>1. IInv => CurrentLeaseHeld
  BY DEF IInv
<1>2. QED
  BY <1>1, InvariantHolds, PTL

\* A run takes its own output off the slot, unless an evaluation abandoned by an
\* aborted run wrote over it (dispatch.go denseOutputFromInputs).
THEOREM OutputSafety == Spec => []OwnOutput
<1>1. IInv => OwnOutput
  BY DEF IInv
<1>2. QED
  BY <1>1, InvariantHolds, PTL

-----------------------------------------------------------------------------
\* A caller that has made no call is nowhere, so a view is only touched by its owner.
Untouched == \A d \in Caller : calls[d] = 0 => pc[d] = "idle"

Solo == Untouched /\ SoloViewIntact

\* One caller moves: the others are where they were, and it has made a call.
Stepped(c) ==
  /\ pc' \in [Caller -> PC] /\ \A d \in Caller \ {c} : pc'[d] = pc[d]
  /\ calls' \in [Caller -> Nat] /\ \A d \in Caller \ {c} : calls'[d] = calls[d]
  /\ calls'[c] # 0

LEMMA AdvanceStepped ==
  ASSUME IInv, Untouched, NEW c \in Caller, Advance(c) \/ LockSlot(c)
  PROVE  Stepped(c) /\ calls' = calls /\ pc[c] # "idle"
<1>1. TypeOK
  BY DEF IInv
<1>2. pc[c] # "idle" /\ calls' = calls
  BY DEF Advance, LockSlot, SyncFails, Reacquire, PrepareFails, StartEval, EvalOk, EvalFails,
         AbortInFlight, CopyOut, Borrow, ForgetView, DropView, Release
<1>3. \E to \in PC : pc' = [pc EXCEPT ![c] = to]
  BY DEF Advance, LockSlot, SyncFails, Reacquire, PrepareFails, StartEval, EvalOk, EvalFails,
         AbortInFlight, CopyOut, Borrow, ForgetView, DropView, Release, Goto, UnlockThen,
         TakeLease, PC, Holding, Running
<1> QED
  BY <1>1, <1>2, <1>3 DEF Stepped, TypeOK, Untouched

LEMMA BeginStepped ==
  ASSUME IInv, NEW c \in Caller, Begin(c)
  PROVE  Stepped(c) /\ pc[c] = "idle" /\ pc'[c] # "viewing" /\ UNCHANGED <<surface, buffer, view>>
<1>1. TypeOK
  BY DEF IInv
<1>2. /\ pc[c] = "idle" /\ calls' = [calls EXCEPT ![c] = @ + 1]
      /\ UNCHANGED <<surface, buffer, view>>
  BY DEF Begin, AcquireFree, AcquireBuild, BuildFails, Stall, BeginCall
<1>3. \E to \in {"idle", "waiting", "stalled"} : pc' = [pc EXCEPT ![c] = to]
  <2>1. pc' = pc => pc' = [pc EXCEPT ![c] = "idle"]
    BY <1>1, <1>2 DEF TypeOK
  <2> QED
    BY <2>1 DEF Begin, AcquireFree, AcquireBuild, BuildFails, Stall, Goto, TakeLease
<1> QED
  BY <1>1, <1>2, <1>3 DEF Stepped, TypeOK, PC, Holding

\* What a step of its own leaves behind a view.
LEMMA OwnStepKeepsView ==
  ASSUME IInv, SoloViewIntact, NEW c \in Caller, Advance(c) \/ LockSlot(c), pc'[c] = "viewing",
         \A d \in Caller \ {c} : calls[d] = 0
  PROVE  ViewData(c)' \in {run'[c].lease, Orphan}
<1>1. TypeOK /\ OwnOutput
  BY DEF IInv
<1>2. Borrow(c)
  BY <1>1 DEF Advance, LockSlot, SyncFails, Reacquire, PrepareFails, StartEval, EvalOk, EvalFails,
         AbortInFlight, CopyOut, ForgetView, DropView, Release, Goto, UnlockThen, TakeLease, TypeOK
<1>3. PICK k \in Borrowable(mode) :
        /\ view' = [view EXCEPT ![c] = k]
        /\ buffer' = IF k = "buffer"
                     THEN [buffer EXCEPT ![run[c].slot] = surface[run[c].slot]]
                     ELSE buffer
  BY <1>2 DEF Borrow
<1>4. pc[c] = "evaluated" /\ surface' = surface /\ run' = run
  BY <1>2 DEF Borrow
<1>5. surface[run[c].slot] \in {run[c].lease, Orphan} /\ run[c].slot \in SlotId
  BY <1>1, <1>4 DEF OwnOutput, TypeOK, Run
<1>6. view'[c] = k
  BY <1>1, <1>3 DEF TypeOK
<1>7. k = "buffer" => buffer'[run[c].slot] = surface[run[c].slot]
  BY <1>1, <1>3, <1>5 DEF TypeOK
<1> QED
  BY <1>4, <1>5, <1>6, <1>7 DEF ViewData

LEMMA SoloNext == IInv /\ Solo /\ [Next]_vars => Solo'
<1> SUFFICES ASSUME IInv, Solo, [Next]_vars PROVE Solo'
  OBVIOUS
<1> USE DEF Solo
<1>1. TypeOK
  BY DEF IInv
<1>2. ASSUME NEW c \in Caller, Begin(c) PROVE Solo'
  <2>1. /\ Stepped(c) /\ pc[c] = "idle" /\ pc'[c] # "viewing" /\ UNCHANGED <<surface, buffer, view>>
    BY <1>2, BeginStepped
  <2>2. Untouched'
    BY <2>1 DEF Untouched, Stepped
  <2>3. ASSUME NEW d \in Caller, pc'[d] = "viewing", \A e \in Caller \ {d} : calls'[e] = 0
        PROVE  FALSE
    BY <2>1, <2>3 DEF Stepped
  <2> QED
    BY <2>2, <2>3 DEF SoloViewIntact
<1>3. ASSUME NEW c \in Caller, Advance(c) \/ LockSlot(c) PROVE Solo'
  <2>1. Stepped(c) /\ calls' = calls /\ pc[c] # "idle"
    BY <1>3, AdvanceStepped
  <2>2. Untouched'
    BY <2>1 DEF Untouched, Stepped
  <2>3. ASSUME NEW d \in Caller, pc'[d] = "viewing", \A e \in Caller \ {d} : calls'[e] = 0
        PROVE  ViewData(d)' \in {run'[d].lease, Orphan}
    <3>1. d = c
      BY <2>1, <2>3 DEF Stepped
    <3> QED
      BY <1>3, <2>1, <2>3, <3>1, OwnStepKeepsView
  <2> QED
    BY <2>2, <2>3 DEF SoloViewIntact
<1>4. CASE OrphanLands
  <2>1. PICK o \in orphans :
          /\ surface' = [surface EXCEPT ![o[1]] = Orphan]
          /\ UNCHANGED <<mode, pool, mu, buffer, pc, run, view, calls>>
    BY <1>4 DEF OrphanLands
  <2>2. \A i \in SlotId : surface'[i] \in {surface[i], Orphan}
    BY <1>1, <2>1 DEF TypeOK
  <2>3. \A c \in Caller : run[c].slot \in SlotId
    BY <1>1 DEF TypeOK, Run
  <2>4. \A c \in Caller : ViewData(c)' \in {ViewData(c), Orphan}
    BY <2>1, <2>2, <2>3 DEF ViewData
  <2> QED
    BY <2>1, <2>4 DEF Untouched, SoloViewIntact
<1>5. CASE UNCHANGED vars
  BY <1>5 DEF vars, Untouched, SoloViewIntact, ViewData
<1> QED
  BY <1>2, <1>3, <1>4, <1>5 DEF Next, Finished

\* A decode loop that is alone keeps the view it works on, however many leases its
\* earlier views have leaked (outputHiddenView, acquireSlot).
THEOREM SoloViewSafety == Spec => []SoloViewIntact
<1>1. Init => Solo
  BY DEF Init, Solo, Untouched, SoloViewIntact
<1>2. Solo => SoloViewIntact
  BY DEF Solo
<1> QED
  BY <1>1, <1>2, SoloNext, InvariantHolds, PTL DEF Spec

-----------------------------------------------------------------------------
\* In copy mode, with a slot for every caller, each lease is current and in somebody's
\* hands, and so is each mutex.
Fits == mode = "copy" /\ Cardinality(Caller) <= pool.depth

Accounted ==
  /\ \A c \in Caller : pc[c] \notin {"viewing", "stalled"}
  /\ \A c \in Caller : pc[c] \in Holding => pool.lease[run[c].slot] = run[c].lease
  /\ pool.inUse \subseteq Slots(pool)
  /\ \A i \in pool.inUse : \E c \in Caller : pc[c] \in Holding /\ run[c].slot = i
  /\ \A i \in SlotId : mu[i] # None => /\ mu[i] \in Caller
                                       /\ pc[mu[i]] \in Running /\ run[mu[i]].slot = i

\* A caller without a lease finds the pool with a slot to spare.
LEMMA NotExhausted ==
  ASSUME IInv, Accounted, Fits, NEW c \in Caller, pc[c] = "idle"
  PROVE  ~Exhausted(pool)
<1> SUFFICES ASSUME Exhausted(pool) PROVE FALSE
  OBVIOUS
<1>1. /\ pool.depth \in Nat /\ pool.size \in Nat /\ pool.size = pool.depth
      /\ Slots(pool) \subseteq pool.inUse
  BY DEF IInv, TypeOK, Pool, SlotId, Exhausted, FreeSlots
<1>2. /\ IsFiniteSet(Caller \ {c}) /\ Cardinality(Caller \ {c}) = Cardinality(Caller) - 1
      /\ Cardinality(Caller) \in Nat
  BY CallerAssumption, FS_RemoveElement, FS_CardinalityType
<1>3. IsFiniteSet(1..pool.size) /\ Cardinality(1..pool.size) = pool.size
  BY <1>1, FS_Interval
<1>4. Cardinality(Caller \ {c}) < Cardinality(1..pool.size)
  BY <1>1, <1>2, <1>3 DEF Fits
<1> DEFINE f == [i \in 1..pool.size |-> CHOOSE d \in Caller : pc[d] \in Holding /\ run[d].slot = i]
<1>5. \A i \in 1..pool.size : f[i] \in Caller \ {c} /\ run[f[i]].slot = i
  BY <1>1 DEF Accounted, Slots, Holding, Running
<1>6. f \in [1..pool.size -> Caller \ {c}]
  BY <1>5
<1>7. \E i, j \in 1..pool.size : i # j /\ f[i] = f[j]
  <2> DEFINE S == 1..pool.size
             T == Caller \ {c}
  <2>1. IsFiniteSet(S) /\ IsFiniteSet(T) /\ Cardinality(T) < Cardinality(S) /\ f \in [S -> T]
    BY <1>2, <1>3, <1>4, <1>6
  <2> HIDE DEF f, S, T
  <2>2. \E i, j \in S : i # j /\ f[i] = f[j]
    BY <2>1, FS_PigeonHole
  <2> QED
    BY <2>2 DEF S
<1> QED
  BY <1>5, <1>7

\* A slot no run has is leased to c.
LEMMA LeaseAccounted ==
  ASSUME IInv, Accounted, NEW c \in Caller, pc[c] = "idle", NEW i \in SlotId,
         i \notin pool.inUse, i \in Slots(pool)',
         pool'.lease[i] = pool.seq + 1,
         \A j \in SlotId \ {i} : pool'.lease[j] = pool.lease[j],
         pool'.inUse = pool.inUse \cup {i}, Slots(pool) \subseteq Slots(pool)',
         TakeLease(c, i), mu' = mu
  PROVE  Accounted'
<1> USE DEF Accounted
<1>1. TypeOK /\ CurrentLeaseHeld
  BY DEF IInv
<1>2. /\ pc' = [pc EXCEPT ![c] = "waiting"]
      /\ run' = [run EXCEPT ![c] = [slot |-> i, lease |-> pool.seq + 1]]
  BY DEF TakeLease, Goto
<1>3. /\ pc'[c] = "waiting" /\ run'[c].slot = i /\ run'[c].lease = pool.seq + 1
      /\ \A d \in Caller \ {c} : pc'[d] = pc[d] /\ run'[d] = run[d]
  BY <1>1, <1>2 DEF TypeOK
<1>4. \A d \in Caller \ {c} : pc[d] \in Holding => run[d].slot \in SlotId /\ run[d].slot # i
  BY <1>1 DEF TypeOK, Run, CurrentLeaseHeld
<1>5. "waiting" \in Holding /\ "idle" \notin Running /\ "idle" \notin Holding
  BY DEF Holding, Running
<1>6. \A d \in Caller : pc'[d] \in Holding => pool'.lease[run'[d].slot] = run'[d].lease
  BY <1>3, <1>4, <1>5
<1>7. \A j \in pool'.inUse : \E d \in Caller : pc'[d] \in Holding /\ run'[d].slot = j
  BY <1>3, <1>5
<1>8. \A j \in SlotId : mu'[j] # None => mu[j] \in Caller \ {c}
  BY <1>5
<1>9. \A d \in Caller : pc'[d] \notin {"viewing", "stalled"}
  BY <1>3
<1>10. pool'.inUse \subseteq Slots(pool)'
  OBVIOUS
<1> QED
  BY <1>3, <1>6, <1>7, <1>8, <1>9, <1>10

\* A step of a run that keeps its lease.
LEMMA HoldingAccounted ==
  ASSUME IInv, Accounted, NEW c \in Caller, pc[c] \in Holding,
         NEW to \in Holding \ {"viewing"}, Goto(c, to), UNCHANGED <<pool, run>>,
         \/ mu' = mu /\ (pc[c] \in Running => to \in Running)
         \/ mu' = [mu EXCEPT ![run[c].slot] = c] /\ to \in Running
         \/ mu' = [mu EXCEPT ![run[c].slot] = None] /\ pc[c] \in Running
  PROVE  Accounted'
<1> USE DEF Accounted
<1>1. TypeOK /\ LockedByRunner
  BY DEF IInv
<1>2. pc'[c] = to /\ \A d \in Caller \ {c} : pc'[d] = pc[d]
  BY <1>1 DEF Goto, TypeOK
<1>3. \A d \in Caller : run[d].slot \in SlotId
  BY <1>1 DEF TypeOK, Run
<1>4. Slots(pool)' = Slots(pool)
  BY DEF Slots
<1>5. to \notin {"viewing", "stalled"}
  BY DEF Holding, Running
<1>6. /\ \A d \in Caller : pc'[d] \notin {"viewing", "stalled"}
      /\ \A d \in Caller : pc'[d] \in Holding <=> pc[d] \in Holding
  BY <1>2, <1>5
<1>7. \A j \in SlotId : mu'[j] # None =>
        mu'[j] \in Caller /\ pc'[mu'[j]] \in Running /\ run'[mu'[j]].slot = j
  <2>1. CASE mu' = mu /\ (pc[c] \in Running => to \in Running)
    BY <2>1, <1>2
  <2>2. CASE mu' = [mu EXCEPT ![run[c].slot] = c] /\ to \in Running
    BY <2>2, <1>1, <1>2, <1>3 DEF TypeOK
  <2>3. CASE mu' = [mu EXCEPT ![run[c].slot] = None] /\ pc[c] \in Running
    <3>1. \A j \in SlotId : mu'[j] # None => mu'[j] = mu[j] /\ j # run[c].slot
      BY <2>3, <1>1, <1>3 DEF TypeOK
    <3> QED
      BY <3>1, <1>2
  <2> QED
    BY <2>1, <2>2, <2>3
<1> QED
  BY <1>4, <1>6, <1>7

LEMMA ReleaseAccounted ==
  ASSUME IInv, Accounted, NEW c \in Caller, Release(c)
  PROVE  Accounted'
<1> USE DEF Accounted
<1>1. TypeOK /\ LeasesDistinct /\ CurrentLeaseHeld
  BY DEF IInv
<1> DEFINE i == run[c].slot
           l == run[c].lease
<1>2. /\ pc[c] = "releasing" /\ pool' = ReleaseLease(pool, i, l)
      /\ pc' = [pc EXCEPT ![c] = "idle"] /\ run' = [run EXCEPT ![c] = NoRun] /\ mu' = mu
  BY DEF Release, Goto
<1>3. i \in SlotId /\ l \in Nat /\ pool \in Pool
  BY <1>1 DEF TypeOK, Run
<1>4. pc[c] \in Holding /\ "idle" \notin Holding /\ pc[c] \notin Running
  BY <1>2 DEF Holding, Running
<1>5. pool'.lease = pool.lease /\ pool'.size = pool.size /\ pool'.inUse = pool.inUse \ {i}
  <2>1. pool.lease[i] = l
    BY <1>4
  <2> HIDE DEF i, l
  <2> QED
    BY <1>2, <1>3, <2>1, ReleaseLeaseFacts
<1>6. /\ pc'[c] = "idle"
      /\ \A d \in Caller \ {c} : pc'[d] = pc[d] /\ run'[d] = run[d]
  BY <1>1, <1>2 DEF TypeOK
<1>7. \A d \in Caller \ {c} : pc[d] \in Holding => run[d].slot # i
  BY <1>1, <1>4 DEF LeasesDistinct
<1>8. Slots(pool)' = Slots(pool)
  BY <1>5 DEF Slots
<1>9. \A j \in pool'.inUse : \E d \in Caller : pc'[d] \in Holding /\ run'[d].slot = j
  <2> SUFFICES ASSUME NEW j \in pool'.inUse
               PROVE  \E d \in Caller : pc'[d] \in Holding /\ run'[d].slot = j
    OBVIOUS
  <2>1. PICK d \in Caller : pc[d] \in Holding /\ run[d].slot = j
    BY <1>5
  <2> QED
    BY <1>5, <1>6, <2>1
<1>10. \A j \in SlotId : mu'[j] # None => mu[j] \in Caller \ {c}
  BY <1>2, <1>4
<1>11. \A d \in Caller : pc'[d] \notin {"viewing", "stalled"}
  BY <1>6
<1>12. \A d \in Caller : pc'[d] \in Holding => pool'.lease[run'[d].slot] = run'[d].lease
  BY <1>4, <1>5, <1>6
<1> QED
  BY <1>2, <1>5, <1>6, <1>8, <1>9, <1>10, <1>11, <1>12

LEMMA AccountedNext ==
  IInv /\ (Fits => Accounted) /\ [Next]_vars => (Fits => Accounted)'
<1> SUFFICES ASSUME IInv, Fits => Accounted, [Next]_vars, Fits' PROVE Accounted'
  OBVIOUS
<1>1. TypeOK /\ pool \in Pool /\ pool.size <= pool.depth
  BY DEF IInv, TypeOK
<1>2. mode' = mode
  BY DEF Next, Begin, AcquireFree, AcquireBuild, BuildFails, Stall, LockSlot, Advance, SyncFails,
         Reacquire, PrepareFails, StartEval, EvalOk, EvalFails, AbortInFlight, CopyOut, Borrow,
         ForgetView, DropView, Release, OrphanLands, Finished, vars
<1>3. ASSUME NEW c \in Caller, AcquireFree(c) PROVE Accounted'
  <2>1. PICK i \in SlotId : IsFirstFree(pool, i) /\ pool' = LeaseSlot(pool, i) /\ TakeLease(c, i)
    BY <1>3 DEF AcquireFree
  <2>2. pc[c] = "idle" /\ mu' = mu
    BY <1>3 DEF AcquireFree, BeginCall
  <2>3. /\ pool'.depth = pool.depth /\ pool'.size = pool.size
        /\ pool'.lease[i] = pool.seq + 1 /\ pool'.inUse = pool.inUse \cup {i}
        /\ \A j \in SlotId \ {i} : pool'.lease[j] = pool.lease[j]
    BY <1>1, <2>1, LeaseSlotFacts
  <2>4. i \in Slots(pool) /\ i \notin pool.inUse /\ Slots(pool)' = Slots(pool)
    BY <2>1, <2>3 DEF IsFirstFree, FreeSlots, Slots
  <2>5. Accounted
    BY <1>2, <2>3 DEF Fits
  <2> QED
    BY <2>1, <2>2, <2>3, <2>4, <2>5, LeaseAccounted
<1>4. ASSUME NEW c \in Caller, AcquireBuild(c) PROVE Accounted'
  <2> DEFINE i == pool.size + 1
  <2>1. /\ pc[c] = "idle" /\ mu' = mu /\ pool.size < pool.depth
        /\ pool' = BuildAndLease(pool) /\ TakeLease(c, i)
    BY <1>4 DEF AcquireBuild, BeginCall, CanBuild
  <2>2. /\ i \in SlotId /\ pool'.depth = pool.depth /\ pool'.size = pool.size + 1
        /\ pool'.lease[i] = pool.seq + 1 /\ pool'.inUse = pool.inUse \cup {i}
        /\ \A j \in SlotId \ {i} : pool'.lease[j] = pool.lease[j]
    BY <1>1, <2>1, BuildAndLeaseFacts
  <2>3. Accounted
    BY <1>2, <2>2 DEF Fits
  <2>4. pool.size \in Nat
    BY <1>1 DEF Pool, SlotId
  <2>5. i \in Slots(pool)' /\ i \notin Slots(pool) /\ Slots(pool) \subseteq Slots(pool)'
    BY <2>2, <2>4 DEF Slots
  <2>6. i \notin pool.inUse
    BY <2>3, <2>5 DEF Accounted
  <2> QED
    BY <2>1, <2>2, <2>3, <2>5, <2>6, LeaseAccounted
<1>5. ASSUME NEW c \in Caller, BuildFails(c) PROVE Accounted'
  BY <1>5, <1>2 DEF BuildFails, Fits, Accounted, Slots
<1>6. ASSUME NEW c \in Caller, Stall(c) PROVE Accounted'
  BY <1>6, <1>2, NotExhausted DEF Stall, BeginCall, Fits
<1>7. ASSUME NEW c \in Caller, LockSlot(c) \/ Advance(c) PROVE Accounted'
  <2>1. pool' = pool \/ Reacquire(c) \/ Release(c)
    BY <1>7 DEF LockSlot, Advance, SyncFails, PrepareFails, StartEval, EvalOk, EvalFails,
                AbortInFlight, CopyOut, Borrow, ForgetView, DropView
  <2>2. pool'.depth = pool.depth
    <3>1. CASE Reacquire(c)
      <4>1. PICK i \in SlotId : pool' = LeaseSlot(pool, i)
        BY <3>1 DEF Reacquire
      <4> QED
        BY <1>1, <4>1, LeaseSlotFacts
    <3>2. CASE Release(c)
      <4>1. pool' = ReleaseLease(pool, run[c].slot, run[c].lease)
        BY <3>2 DEF Release
      <4>2. run[c].slot \in SlotId /\ run[c].lease \in Nat
        BY <1>1 DEF TypeOK, Run
      <4> QED
        BY <1>1, <4>1, <4>2, ReleaseLeaseFacts
    <3> QED
      BY <2>1, <3>1, <3>2
  <2>3. Fits /\ Accounted /\ mode = "copy"
    BY <1>2, <2>2 DEF Fits
  <2>4. pc[c] \notin {"viewing", "stalled"} /\ Borrowable(mode) = {}
    BY <2>3 DEF Accounted, Borrowable
  <2>5. CASE LockSlot(c)
    <3>1. /\ pc[c] = "waiting" /\ Goto(c, "locked") /\ UNCHANGED <<pool, run>>
          /\ mu' = [mu EXCEPT ![run[c].slot] = c]
      BY <2>5 DEF LockSlot
    <3>2. "waiting" \in Holding /\ "locked" \in Holding \ {"viewing"} /\ "locked" \in Running
      BY DEF Holding, Running
    <3> QED
      BY <2>3, <3>1, <3>2, HoldingAccounted
  <2>6. CASE StartEval(c) \/ EvalOk(c)
    <3>1. PICK to \in {"evaluating", "evaluated"} :
            /\ pc[c] \in Running /\ Goto(c, to) /\ UNCHANGED <<pool, run, mu>>
      BY <2>6 DEF StartEval, EvalOk, Running
    <3>2. pc[c] \in Holding /\ to \in Holding \ {"viewing"} /\ to \in Running
      BY <3>1 DEF Holding, Running
    <3> QED
      BY <2>3, <3>1, <3>2, HoldingAccounted
  <2>7. CASE PrepareFails(c) \/ EvalFails(c) \/ AbortInFlight(c) \/ CopyOut(c)
    <3>1. /\ pc[c] \in Running /\ Goto(c, "releasing") /\ UNCHANGED <<pool, run>>
          /\ mu' = [mu EXCEPT ![run[c].slot] = None]
      BY <2>7 DEF PrepareFails, EvalFails, AbortInFlight, CopyOut, UnlockThen, Running
    <3>2. pc[c] \in Holding /\ "releasing" \in Holding \ {"viewing"}
      BY <3>1 DEF Holding, Running
    <3> QED
      BY <2>3, <3>1, <3>2, HoldingAccounted
  <2>8. CASE Release(c)
    BY <2>3, <2>8, ReleaseAccounted
  <2>9. ~(SyncFails(c) \/ Reacquire(c) \/ Borrow(c) \/ ForgetView(c) \/ DropView(c))
    BY <2>4 DEF SyncFails, Reacquire, Borrow, ForgetView, DropView
  <2> QED
    BY <1>7, <2>5, <2>6, <2>7, <2>8, <2>9 DEF Advance
<1>8. CASE OrphanLands
  BY <1>8, <1>2 DEF OrphanLands, Fits, Accounted, Slots
<1>9. CASE UNCHANGED vars
  BY <1>9 DEF vars, Fits, Accounted, Slots
<1> QED
  BY <1>3, <1>4, <1>5, <1>6, <1>7, <1>8, <1>9 DEF Next, Begin, Finished

\* In copy mode nothing leaks: with a slot for every caller nobody ever synchronizes the
\* stream or steals, and a slot in the free list is unlocked (acquireSlot, releaseSlot).
THEOREM CopyModeSafety == Spec => []CopyModeNeverStalls
<1>1. ASSUME Init PROVE Accounted
  <2>1. PICK d \in SlotId : pool = NewPool(d)
    BY <1>1 DEF Init
  <2>2. pool.inUse = {}
    BY <2>1 DEF NewPool
  <2> QED
    BY <1>1, <2>2 DEF Init, Accounted, Holding, Running
<1>2. ASSUME IInv, Fits => Accounted PROVE CopyModeNeverStalls
  <2>1. \A i \in Slots(pool) : i \in SlotId
    <3>1. pool.size \in 1..MaxDepth /\ MaxDepth \in Nat
      BY <1>2, MaxDepthAssumption DEF IInv, TypeOK, Pool, SlotId
    <3> QED
      BY <3>1 DEF SlotId, Slots
  <2>2. \A c \in Caller : pc[c] \in Running => pc[c] \in Holding
    BY DEF Holding
  <2> QED
    BY <1>2, <2>1, <2>2 DEF CopyModeNeverStalls, Fits, Accounted, IInv, CurrentLeaseHeld
<1> QED
  BY <1>1, <1>2, AccountedNext, InvariantHolds, PTL DEF Spec
=============================================================================
