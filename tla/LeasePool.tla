----------------------------- MODULE LeasePool -----------------------------
(***************************************************************************)
(* The slot pool of one ANE stage (decode/pool.go, type stage) as a value: *)
(* what acquireSlot and releaseSlot do to it while they hold poolMu.       *)
(* directBlock keeps a pool of the same shape with the same code.          *)
(*                                                                         *)
(* A pool is a record                                                      *)
(*   depth : poolDepth, the most slots it may build                        *)
(*   size  : len(slots); slot i is the i-th built                          *)
(*   seq   : leaseSeq of the stage, the last lease handed out              *)
(*   lease : leaseSeq of every slot, 0 before its first lease              *)
(*   inUse : the slots whose inUse flag is set                             *)
(***************************************************************************)
EXTENDS Integers

\* MaxDepth bounds the pool depths a model considers.
CONSTANT MaxDepth

ASSUME MaxDepthAssumption == MaxDepth \in Nat \ {0}

SlotId == 1..MaxDepth

Pool ==
  [depth : SlotId, size : SlotId, seq : Nat,
   lease : [SlotId -> Nat], inUse : SUBSET SlotId]

\* newStage builds one slot and leaves it free.
NewPool(d) ==
  [depth |-> d, size |-> 1, seq |-> 0,
   lease |-> [i \in SlotId |-> 0], inUse |-> {}]

Slots(p) == 1..p.size
FreeSlots(p) == Slots(p) \ p.inUse

\* "for _, slot := range s.slots { if !slot.inUse": the first free slot in build order.
IsFirstFree(p, i) ==
  /\ i \in FreeSlots(p)
  /\ \A j \in FreeSlots(p) : i <= j

\* "slot.leaseSeq < oldest.leaseSeq": the first slot with the smallest lease.
IsOldest(p, i) ==
  /\ i \in Slots(p)
  /\ \A j \in Slots(p) : p.lease[i] < p.lease[j] \/ (p.lease[i] = p.lease[j] /\ i <= j)

CanBuild(p) == FreeSlots(p) = {} /\ p.size < p.depth
Exhausted(p) == FreeSlots(p) = {} /\ p.size >= p.depth

\* slot i gets the next lease, whoever held it before.
LeaseSlot(p, i) ==
  [p EXCEPT !.seq = p.seq + 1,
            !.lease = [p.lease EXCEPT ![i] = p.seq + 1],
            !.inUse = p.inUse \cup {i}]

\* slotBuilder succeeded: the new slot is appended and leased at once.
BuildAndLease(p) == LeaseSlot([p EXCEPT !.size = @ + 1], p.size + 1)

\* After Synchronize: a slot freed meanwhile, or else the oldest lease is stolen.
IsReacquired(p, i) == IF FreeSlots(p) # {} THEN IsFirstFree(p, i) ELSE IsOldest(p, i)

\* Mutant of ReleaseLease: "if slot.leaseSeq != lease" is missing.
ReleaseAnyLease(p, i, l) == [p EXCEPT !.inUse = @ \ {i}]

\* releaseSlot is ignored when the slot was leased again since.
ReleaseLease(p, i, l) ==
  IF p.lease[i] = l THEN [p EXCEPT !.inUse = @ \ {i}] ELSE p
=============================================================================
