----------------------------- MODULE DirectSpan -----------------------------
(***************************************************************************)
(* Decoding through a direct block (decode/dispatch.go directBlockOutput   *)
(* and syncDirectBlockState, inside the layer loop of                      *)
(* forwardFromEmbeddingsWithHook).  A span of layers runs as one stateful  *)
(* ANE program that keeps K/V rows of its own; the external K/V caches of  *)
(* those layers only get zero rows, to keep their offsets in step.  Any    *)
(* failure sends the span back to the per-layer path for good.             *)
(*                                                                         *)
(* A K/V row is named by the sequence and the position of its token; the   *)
(* zero row has no sequence.  SlotPool has the life of a slot in full:     *)
(* here unlocking a slot and releasing its lease are one step.             *)
(***************************************************************************)
EXTENDS LeasePool, Sequences

CONSTANTS
  Sequence,     \* generations, each with K/V caches of its own
  NumLayers,    \* layers of the model
  First, Last,  \* the layers of the span
  MaxSeqLen,    \* rows the block keeps per layer
  Borrowing,    \* subset of BOOLEAN: does the output mode borrow the slot?
  FaultSets,    \* the sets of steps that may fail in a behaviour
  TokenLimit,   \* bound: tokens of each sequence
  None          \* no sequence

Layer == 1..NumLayers
Span == First..Last
Early == {"block", "build", "stall", "restore", "eval", "output"}
Late == {"advance", "position"}

ASSUME SpanAssumption ==
  /\ None \notin Sequence
  /\ NumLayers \in Nat /\ First \in Layer /\ Last \in Layer /\ First <= Last
  /\ MaxSeqLen \in Nat \ {0, 1}
  /\ Borrowing \subseteq BOOLEAN
  /\ FaultSets \subseteq SUBSET (Early \cup Late)
  /\ TokenLimit \in [Sequence -> Nat]

VARIABLES
  faulty,    \* the steps that may fail
  borrowing, \* the output mode of the block borrows the slot
  pool,      \* the slots of the block
  mu,        \* the sequence whose step holds slot.mu
  rows,      \* the K/V rows in the state surfaces, per slot and layer
  pos,       \* decodePos of the program in every slot
  alias,     \* whether slot.outputAlias is on the surface the program writes
  fallback,  \* the span is in directFallbacks
  cache,     \* rows of the external K/V caches, per sequence and layer
  tokens,    \* tokens the sequence has been given
  pc, layer, \* where the step of each sequence is, and its layer
  hooked,    \* the step has a hook, which keeps it off the direct path
  run        \* the slot and lease it works with

slotVars == <<pool, mu, rows, pos, alias>>
config == <<faulty, borrowing>>
vars == <<config, slotVars, fallback, cache, tokens, pc, layer, hooked, run>>

Zero == <<None, 0>>
Row == ((Sequence \cup {None}) \X Nat)

TypeOK ==
  /\ faulty \in FaultSets
  /\ borrowing \in Borrowing
  /\ pool \in Pool
  /\ mu \in [SlotId -> Sequence \cup {None}]
  /\ rows \in [SlotId -> [Span -> Seq(Row)]]
  /\ \A i \in SlotId, l \in Span : Len(rows[i][l]) <= MaxSeqLen
  /\ pos \in [SlotId -> Nat]
  /\ alias \in [SlotId -> {"none", "current", "stale"}]
  /\ fallback \in BOOLEAN
  /\ cache \in [Sequence -> [Layer -> Seq(Row)]]
  /\ tokens \in [Sequence -> Nat]
  /\ pc \in [Sequence -> {"idle", "loop", "entered", "stalled", "waiting", "synced",
                          "evaluated", "viewed", "advanced"}]
  /\ layer \in [Sequence -> Layer]
  /\ hooked \in [Sequence -> BOOLEAN]
  /\ run \in [Sequence -> [slot : SlotId, lease : Nat]]

Init ==
  /\ faulty \in FaultSets
  /\ borrowing \in Borrowing
  /\ \E d \in SlotId : pool = NewPool(d)
  /\ mu = [i \in SlotId |-> None]
  /\ rows = [i \in SlotId |-> [l \in Span |-> << >>]]
  /\ pos = [i \in SlotId |-> 0]
  /\ alias = [i \in SlotId |-> "none"]
  /\ fallback = FALSE
  /\ cache = [q \in Sequence |-> [l \in Layer |-> << >>]]
  /\ tokens = [q \in Sequence |-> 0]
  /\ pc = [q \in Sequence |-> "idle"]
  /\ layer = [q \in Sequence |-> 1]
  /\ hooked = [q \in Sequence |-> FALSE]
  /\ run = [q \in Sequence |-> [slot |-> 1, lease |-> 0]]

-----------------------------------------------------------------------------
At(q, place) == pc[q] = place
Goto(q, place) == pc' = [pc EXCEPT ![q] = place]
MyRow(q) == <<q, tokens[q]>>

\* RestoreStatefulMILState and the program keep the last MaxSeqLen rows.
Window(s) == IF Len(s) <= MaxSeqLen THEN s ELSE SubSeq(s, Len(s) - MaxSeqLen + 1, Len(s))

\* caches[layerIdx].Offset() of the first layer of the span.
Offset(q) == Len(cache[q][First])
SameOffsets(q) == \A l \in Span : Len(cache[q][l]) = Offset(q)

\* markDirectBlockFallback: the first error is kept, and the layer loop goes on with
\* layerForward for the same layer.
FallBack(q) == fallback' = TRUE /\ Goto(q, "loop")

Unlock(q) == mu' = [mu EXCEPT ![run[q].slot] = None]
GiveBack(q) == pool' = ReleaseLease(pool, run[q].slot, run[q].lease)
DropView(q) == IF borrowing THEN GiveBack(q) ELSE UNCHANGED pool

\* A forward pass over several tokens runs in the wrapped model: real rows everywhere.
Prefill(q) ==
  /\ At(q, "idle")
  /\ \E n \in 2..(TokenLimit[q] - tokens[q]) :
       /\ tokens' = [tokens EXCEPT ![q] = @ + n]
       /\ cache' = [cache EXCEPT ![q] =
            [l \in Layer |-> @[l] \o [j \in 1..n |-> <<q, tokens[q] + j>>]]]
  /\ UNCHANGED <<config, slotVars, fallback, pc, layer, hooked, run>>

\* A forward pass over one token enters the layer loop.
BeginToken(q) ==
  /\ At(q, "idle")
  /\ tokens[q] < TokenLimit[q]
  /\ tokens' = [tokens EXCEPT ![q] = @ + 1]
  /\ \E h \in BOOLEAN : hooked' = [hooked EXCEPT ![q] = h]
  /\ layer' = [layer EXCEPT ![q] = 1]
  /\ Goto(q, "loop")
  /\ UNCHANGED <<config, slotVars, fallback, cache, run>>

\* "i++" of the loop, after layer l.
NextLayer(q, l) ==
  IF l = NumLayers THEN Goto(q, "idle") /\ UNCHANGED layer
  ELSE Goto(q, "loop") /\ layer' = [layer EXCEPT ![q] = l + 1]

\* "if hook == nil" and shouldUseDirectSpan.
TryDirect(q) == layer[q] = First /\ ~hooked[q] /\ ~fallback

\* layerForward: attention on the GPU appends the token's row to the layer's cache.
LayerForward(q) ==
  /\ At(q, "loop")
  /\ ~TryDirect(q)
  /\ cache' = [cache EXCEPT ![q][layer[q]] = Append(@, MyRow(q))]
  /\ NextLayer(q, layer[q])
  /\ UNCHANGED <<config, slotVars, fallback, tokens, hooked, run>>

EnterSpan(q) ==
  /\ At(q, "loop")
  /\ TryDirect(q)
  /\ Goto(q, "entered")
  /\ UNCHANGED <<config, slotVars, fallback, cache, tokens, layer, hooked, run>>

\* getDirectBlock, slotBuilder or Synchronize fails before a slot is held.
NoSlot(q) ==
  /\ \/ At(q, "entered") /\ "block" \in faulty
     \/ At(q, "entered") /\ "build" \in faulty /\ CanBuild(pool)
     \/ At(q, "stalled") /\ "stall" \in faulty
  /\ FallBack(q)
  /\ UNCHANGED <<config, slotVars, cache, tokens, layer, hooked, run>>

Lease(q, i, p) ==
  /\ pool' = p
  /\ run' = [run EXCEPT ![q] = [slot |-> i, lease |-> pool.seq + 1]]
  /\ Goto(q, "waiting")
  /\ UNCHANGED <<config, mu, rows, pos, alias, fallback, cache, tokens, layer, hooked>>

AcquireFree(q) ==
  /\ At(q, "entered")
  /\ \E i \in SlotId : IsFirstFree(pool, i) /\ Lease(q, i, LeaseSlot(pool, i))

AcquireBuild(q) ==
  /\ At(q, "entered")
  /\ CanBuild(pool)
  /\ Lease(q, pool.size + 1, BuildAndLease(pool))

Stall(q) ==
  /\ At(q, "entered")
  /\ Exhausted(pool)
  /\ Goto(q, "stalled")
  /\ UNCHANGED <<config, slotVars, fallback, cache, tokens, layer, hooked, run>>

Reacquire(q) ==
  /\ At(q, "stalled")
  /\ \E i \in SlotId : IsReacquired(pool, i) /\ Lease(q, i, LeaseSlot(pool, i))

-----------------------------------------------------------------------------
\* slot.mu.Lock() and syncDirectBlockState, which looks at nothing but the position.
Lock(q) ==
  /\ At(q, "waiting")
  /\ mu[run[q].slot] = None
  /\ mu' = [mu EXCEPT ![run[q].slot] = q]
  /\ Goto(q, "synced")
  /\ UNCHANGED <<config, pool, fallback, cache, tokens, layer, hooked, run>>

\* "if stepper.DecodePosition() == wantPos"
SyncReady(q) ==
  /\ Lock(q)
  /\ SameOffsets(q)
  /\ pos[run[q].slot] = Offset(q)
  /\ UNCHANGED <<rows, pos, alias>>

\* "if wantPos == 0": Reset rebuilds the program on new surfaces.
SyncReset(q) ==
  LET i == run[q].slot IN
  /\ Lock(q)
  /\ SameOffsets(q)
  /\ Offset(q) = 0 /\ pos[i] # 0
  /\ rows' = [rows EXCEPT ![i] = [l \in Span |-> << >>]]
  /\ pos' = [pos EXCEPT ![i] = 0]
  /\ alias' = [alias EXCEPT ![i] = IF @ = "none" THEN "none" ELSE "stale"]

\* The slot is elsewhere in its sequence, or in another one: the rows of the caches
\* become its state.
NeedsRestore(q) ==
  /\ SameOffsets(q)
  /\ Offset(q) \in 1..MaxSeqLen
  /\ pos[run[q].slot] # Offset(q)

SyncRestore(q) ==
  LET i == run[q].slot IN
  /\ Lock(q)
  /\ NeedsRestore(q)
  /\ rows' = [rows EXCEPT ![i] = [l \in Span |-> cache[q][l]]]
  /\ pos' = [pos EXCEPT ![i] = Offset(q)]
  /\ UNCHANGED alias

\* Not ready, or an error: the slot is given back. A restore that fails has written the
\* layers before some layer and not the position.
SyncFails(q) ==
  LET i == run[q].slot IN
  /\ At(q, "waiting")
  /\ mu[i] = None
  /\ \/ /\ ~SameOffsets(q) \/ (pos[i] # Offset(q) /\ Offset(q) > MaxSeqLen)
        /\ UNCHANGED rows
     \/ /\ "restore" \in faulty
        /\ SameOffsets(q) /\ Offset(q) = 0 /\ pos[i] # 0
        /\ UNCHANGED rows
     \/ /\ "restore" \in faulty
        /\ NeedsRestore(q)
        /\ \E j \in Span : rows' = [rows EXCEPT ![i] =
             [l \in Span |-> IF l < j THEN cache[q][l] ELSE @[l]]]
  /\ GiveBack(q)
  /\ FallBack(q)
  /\ UNCHANGED <<config, mu, pos, alias, cache, tokens, layer, hooked, run>>

WithRow(q) == [l \in Span |-> Window(Append(rows[run[q].slot][l], MyRow(q)))]

\* RoPE row and input are written and EvalPreparedSurface appends the token's own row.
Eval(q) ==
  /\ At(q, "synced")
  /\ rows' = [rows EXCEPT ![run[q].slot] = WithRow(q)]
  /\ Goto(q, "evaluated")
  /\ UNCHANGED <<config, pool, mu, pos, alias, fallback, cache, tokens, layer, hooked, run>>

\* Any error up to and including the evaluation, which may have written its rows.
EvalFails(q) ==
  /\ At(q, "synced")
  /\ "eval" \in faulty
  /\ \/ UNCHANGED rows
     \/ rows' = [rows EXCEPT ![run[q].slot] = WithRow(q)]
  /\ Unlock(q)
  /\ GiveBack(q)
  /\ FallBack(q)
  /\ UNCHANGED <<config, pos, alias, cache, tokens, layer, hooked, run>>

\* outputHiddenView: the output is read through slot.outputAlias, made once per slot.
\* slot.mu is unlocked; the lease is kept if the view borrows the slot.
TakeOutput(q) ==
  LET i == run[q].slot IN
  /\ At(q, "evaluated")
  /\ alias' = [alias EXCEPT ![i] = IF @ = "none" THEN "current" ELSE @]
  /\ Unlock(q)
  /\ IF borrowing THEN UNCHANGED pool ELSE GiveBack(q)
  /\ Goto(q, "viewed")
  /\ UNCHANGED <<config, rows, pos, fallback, cache, tokens, layer, hooked, run>>

OutputFails(q) ==
  /\ At(q, "evaluated")
  /\ "output" \in faulty
  /\ Unlock(q)
  /\ GiveBack(q)
  /\ FallBack(q)
  /\ UNCHANGED <<config, rows, pos, alias, cache, tokens, layer, hooked, run>>

\* advanceDirectBlockCaches: a zero row for every layer of the span. The slot is no
\* longer locked.
ZeroFrom(q, S) ==
  cache' = [cache EXCEPT ![q] = [l \in Layer |-> IF l \in S THEN Append(@[l], Zero) ELSE @[l]]]

\* Mutant of AdvanceCaches: the last layer of the span gets no zero row.
AdvanceAllButLast(q) ==
  /\ At(q, "viewed")
  /\ ZeroFrom(q, First..(Last - 1))
  /\ Goto(q, "advanced")
  /\ UNCHANGED <<config, slotVars, fallback, tokens, layer, hooked, run>>

AdvanceCaches(q) ==
  /\ At(q, "viewed")
  /\ ZeroFrom(q, Span)
  /\ Goto(q, "advanced")
  /\ UNCHANGED <<config, slotVars, fallback, tokens, layer, hooked, run>>

\* zeroRows fails, or the cache of layer j does: the layers before j have their zero row.
AdvanceFails(q) ==
  /\ At(q, "viewed")
  /\ "advance" \in faulty
  /\ \E j \in Span : ZeroFrom(q, First..(j - 1))
  /\ DropView(q)
  /\ FallBack(q)
  /\ UNCHANGED <<config, mu, rows, pos, alias, tokens, layer, hooked, run>>

\* Mutant of AdvancePosition: stepper.AdvanceDecodePosition is missing.
AdvanceNoPosition(q) ==
  /\ At(q, "advanced")
  /\ NextLayer(q, Last)
  /\ UNCHANGED <<config, slotVars, fallback, cache, tokens, hooked, run>>

\* stepper.AdvanceDecodePosition(); "i = lastLayer; continue".
AdvancePosition(q) ==
  /\ At(q, "advanced")
  /\ pos' = [pos EXCEPT ![run[q].slot] = @ + 1]
  /\ NextLayer(q, Last)
  /\ UNCHANGED <<config, pool, mu, rows, alias, fallback, cache, tokens, hooked, run>>

PositionFails(q) ==
  /\ At(q, "advanced")
  /\ "position" \in faulty
  /\ DropView(q)
  /\ FallBack(q)
  /\ UNCHANGED <<config, mu, rows, pos, alias, cache, tokens, layer, hooked, run>>

-----------------------------------------------------------------------------
Finished ==
  /\ \A q \in Sequence : At(q, "idle") /\ tokens[q] = TokenLimit[q]
  /\ UNCHANGED vars

Next ==
  \/ \E q \in Sequence :
       \/ Prefill(q) \/ BeginToken(q) \/ LayerForward(q) \/ EnterSpan(q) \/ NoSlot(q)
       \/ AcquireFree(q) \/ AcquireBuild(q) \/ Stall(q) \/ Reacquire(q)
       \/ SyncReady(q) \/ SyncReset(q) \/ SyncRestore(q) \/ SyncFails(q)
       \/ Eval(q) \/ EvalFails(q) \/ TakeOutput(q) \/ OutputFails(q)
       \/ AdvanceCaches(q) \/ AdvanceFails(q) \/ AdvancePosition(q) \/ PositionFails(q)
  \/ Finished

Spec == Init /\ [][Next]_vars

-----------------------------------------------------------------------------
\* The rows the layer's cache of q should have by now.
Expected(q, l) ==
  IF At(q, "idle") \/ l < layer[q] \/ (At(q, "advanced") /\ l \in Span)
  THEN tokens[q] ELSE tokens[q] - 1

\* A token passes every layer once, on the direct path or on the GPU, whatever falls back
\* on the way: a layer the pass has left has a row per token, the others one less. Only a
\* failure after the caches were advanced leaves one row too many, once per sequence.
OneRowPerLayer ==
  \A q \in Sequence, l \in Layer :
    \/ Len(cache[q][l]) = Expected(q, l)
    \/ /\ fallback /\ faulty \cap Late # {} /\ l \in Span
       /\ Len(cache[q][l]) = Expected(q, l) + 1

\* No base-model pass has come after a direct step: zero rows are the last ones.
ZerosLast(q) ==
  \A l \in Span : \A i, j \in DOMAIN cache[q][l] :
    i < j /\ cache[q][l][i] = Zero => cache[q][l][j] = Zero

\* A sequence that is alone on a block which copies its outputs is decoded in its own,
\* complete context at its own position, although the caches it was prefilled into hold
\* zero rows for every token decoded since.
SoloContextExact ==
  \A q \in Sequence :
    /\ At(q, "synced")
    /\ ~borrowing
    /\ \A r \in Sequence \ {q} : tokens[r] = 0
    /\ ZerosLast(q)
    => /\ pos[run[q].slot] = tokens[q] - 1
       /\ \A l \in Span :
            rows[run[q].slot][l] = Window([j \in 1..(tokens[q] - 1) |-> <<q, j>>])
=============================================================================
