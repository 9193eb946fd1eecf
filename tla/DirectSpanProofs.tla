-------------------------- MODULE DirectSpanProofs --------------------------
(***************************************************************************)
(* Proofs about decoding through a direct block, for every number of       *)
(* generations, layers, slots and rows, and whatever may fail.             *)
(*                                                                         *)
(* OneRowPerLayer is not inductive: that the failures after the caches     *)
(* were advanced leave at most one row too many depends on the span being  *)
(* closed to everyone then, so that a step that is on the direct path has  *)
(* never failed there and has exact caches.                                *)
(*                                                                         *)
(* SoloContextExact needs what a sequence alone on its block finds there:  *)
(* slot 1, again and again, with its context up to the position (Context-  *)
(* Kept); and that zero rows, once there are some, end where the position  *)
(* is, so that the state is never rebuilt from them.                       *)
(***************************************************************************)
EXTENDS DirectSpan, SequenceTheorems, TLAPS

-----------------------------------------------------------------------------
\* What the operations on a slot pool do to its fields, for every pool: the proofs below
\* cite these facts and never expand the record.

\* A stage starts with one free slot that was never leased.
LEMMA NewPoolFacts ==
  ASSUME NEW d \in SlotId
  PROVE  NewPool(d) \in Pool /\ NewPool(d).size <= NewPool(d).depth
BY MaxDepthAssumption DEF NewPool, Pool, SlotId

\* What acquireSlot does to the pool when it leases slot i.
LEMMA LeaseSlotFacts ==
  ASSUME NEW p \in Pool, NEW i \in SlotId
  PROVE  /\ LeaseSlot(p, i) \in Pool
         /\ LeaseSlot(p, i).seq = p.seq + 1
         /\ LeaseSlot(p, i).lease[i] = p.seq + 1
         /\ \A j \in SlotId \ {i} : LeaseSlot(p, i).lease[j] = p.lease[j]
         /\ LeaseSlot(p, i).inUse = p.inUse \cup {i}
         /\ LeaseSlot(p, i).size = p.size
         /\ LeaseSlot(p, i).depth = p.depth
<1> DEFINE q == LeaseSlot(p, i)
           f == [p.lease EXCEPT ![i] = p.seq + 1]
<1>1. /\ q.depth = p.depth /\ q.size = p.size /\ q.seq = p.seq + 1
      /\ q.lease = f /\ q.inUse = p.inUse \cup {i}
  BY DEF LeaseSlot, Pool
<1>2. /\ f \in [SlotId -> Nat]
      /\ f[i] = p.seq + 1
      /\ \A j \in SlotId \ {i} : f[j] = p.lease[j]
  BY DEF Pool
<1>3. q \in Pool
  BY <1>2 DEF LeaseSlot, Pool
<1> HIDE DEF q
<1>4. QED
  BY <1>1, <1>2, <1>3 DEF q

\* What acquireSlot does to the pool when it builds a slot and leases it.
LEMMA BuildAndLeaseFacts ==
  ASSUME NEW p \in Pool, p.size < p.depth
  PROVE  LET i == p.size + 1
             q == BuildAndLease(p)
         IN  /\ i \in SlotId
             /\ q \in Pool
             /\ q.seq = p.seq + 1
             /\ q.lease[i] = p.seq + 1
             /\ \A j \in SlotId \ {i} : q.lease[j] = p.lease[j]
             /\ q.inUse = p.inUse \cup {i}
             /\ q.size = p.size + 1
             /\ q.depth = p.depth
<1> DEFINE i == p.size + 1
           r == [p EXCEPT !.size = @ + 1]
<1>1. i \in SlotId
  BY MaxDepthAssumption DEF SlotId, Pool
<1>2. r \in Pool /\ r.seq = p.seq /\ r.lease = p.lease /\ r.inUse = p.inUse
      /\ r.size = p.size + 1 /\ r.depth = p.depth
  BY <1>1 DEF Pool
<1>3. BuildAndLease(p) = LeaseSlot(r, i)
  BY DEF BuildAndLease
<1> HIDE DEF r, i
<1>4. QED
  BY <1>1, <1>2, <1>3, LeaseSlotFacts DEF i

\* What releaseSlot does to the pool.
LEMMA ReleaseLeaseFacts ==
  ASSUME NEW p \in Pool, NEW i \in SlotId, NEW l \in Nat
  PROVE  LET q == ReleaseLease(p, i, l)
         IN  /\ q \in Pool
             /\ q.seq = p.seq /\ q.lease = p.lease /\ q.size = p.size /\ q.depth = p.depth
             /\ q.inUse = IF p.lease[i] = l THEN p.inUse \ {i} ELSE p.inUse
BY DEF ReleaseLease, Pool
-----------------------------------------------------------------------------
Places == {"idle", "loop", "entered", "stalled", "waiting", "synced", "evaluated",
           "viewed", "advanced"}
OnSpan(q) == pc[q] \in Places \ {"idle", "loop"}

Exact(q) == \A l \in Layer : Len(cache[q][l]) = Expected(q, l)

\* A step on the direct path is at the first layer of the span, with exact caches.
SpanStepsExact == \A q \in Sequence : OnSpan(q) => layer[q] = First /\ Exact(q)

IInv == TypeOK /\ OneRowPerLayer /\ SpanStepsExact

\* What the caches need of the types.
Shape ==
  /\ pc \in [Sequence -> Places]
  /\ layer \in [Sequence -> Layer]
  /\ tokens \in [Sequence -> Nat]
  /\ cache \in [Sequence -> [Layer -> Seq(Row)]]

RowInv == OneRowPerLayer /\ SpanStepsExact

-----------------------------------------------------------------------------
LEMMA SpanInLayers == Span \subseteq Layer /\ First \in Span /\ Last \in Span /\ Layer \subseteq Nat
BY SpanAssumption DEF Span, Layer

LEMMA RowFacts ==
  /\ Zero \in Row
  /\ \A q \in Sequence : tokens \in [Sequence -> Nat] => MyRow(q) \in Row
BY DEF Zero, Row, MyRow

\* The window keeps rows and is no longer than the block's state.
LEMMA WindowFacts ==
  ASSUME NEW s \in Seq(Row)
  PROVE  Window(s) \in Seq(Row) /\ Len(Window(s)) <= MaxSeqLen
<1>1. CASE Len(s) <= MaxSeqLen
  BY <1>1 DEF Window
<1>2. CASE ~(Len(s) <= MaxSeqLen)
  <2> DEFINE m == Len(s) - MaxSeqLen + 1
  <2>1. Len(s) \in Nat /\ MaxSeqLen \in Nat /\ m \in 1..(Len(s) + 1)
    BY <1>2, SpanAssumption
  <2>2. SubSeq(s, m, Len(s)) \in Seq(Row)
    <3>1. \A j \in m..Len(s) : s[j] \in Row
      BY <2>1, ElementOfSeq
    <3>2. QED
      BY <2>1, <3>1
  <2>3. Len(SubSeq(s, m, Len(s))) = MaxSeqLen
    BY <2>1
  <2>4. QED
    BY <1>2, <2>1, <2>2, <2>3 DEF Window
<1>3. QED
  BY <1>1, <1>2

-----------------------------------------------------------------------------
\* A step that stays between two layers, or moves along the direct path, and leaves the
\* caches alone. It may enter the path only from an open span.
LEMMA QuietStep ==
  ASSUME Shape, RowInv, NEW q \in Sequence, NEW to \in Places \ {"idle", "advanced"},
         pc[q] \notin {"idle", "advanced"},
         pc' = [pc EXCEPT ![q] = to],
         fallback => fallback',
         to = "loop" \/ OnSpan(q) \/ (~fallback /\ layer[q] = First),
         UNCHANGED <<cache, tokens, layer, faulty>>
  PROVE  RowInv'
<1>1. \A r \in Sequence \ {q} : pc'[r] = pc[r]
  BY DEF Shape
<1>2. pc'[q] = to
  BY DEF Shape
<1>3. \A r \in Sequence, l \in Layer : Expected(r, l)' = Expected(r, l)
  BY <1>1, <1>2 DEF Expected, At
<1>4. OneRowPerLayer'
  BY <1>3 DEF RowInv, OneRowPerLayer
<1>5. \A r \in Sequence \ {q} : OnSpan(r)' => layer'[r] = First /\ Exact(r)'
  BY <1>1, <1>3 DEF RowInv, SpanStepsExact, OnSpan, Exact
<1>6. OnSpan(q)' => layer'[q] = First /\ Exact(q)'
  <2> SUFFICES ASSUME to # "loop" PROVE layer'[q] = First /\ Exact(q)'
    BY <1>2 DEF OnSpan
  <2>1. CASE OnSpan(q)
    BY <2>1, <1>3 DEF RowInv, SpanStepsExact, Exact
  <2>2. CASE ~fallback /\ layer[q] = First
    BY <2>2, <1>3 DEF RowInv, OneRowPerLayer, Exact
  <2>3. QED
    BY <2>1, <2>2
<1>7. QED
  BY <1>4, <1>5, <1>6 DEF RowInv, SpanStepsExact

\* A step of q that changes its caches leaves those of the others as they were.
LEMMA OthersKept ==
  ASSUME Shape, RowInv, NEW q \in Sequence,
         \A r \in Sequence \ {q} : /\ pc'[r] = pc[r] /\ layer'[r] = layer[r]
                                   /\ tokens'[r] = tokens[r] /\ cache'[r] = cache[r],
         fallback => fallback', faulty' = faulty
  PROVE  \A r \in Sequence \ {q} :
           /\ \A l \in Layer :
                \/ Len(cache'[r][l]) = Expected(r, l)'
                \/ /\ fallback' /\ faulty' \cap Late # {} /\ l \in Span
                   /\ Len(cache'[r][l]) = Expected(r, l)' + 1
           /\ OnSpan(r)' => layer'[r] = First /\ Exact(r)'
<1> TAKE r \in Sequence \ {q}
<1>1. \A l \in Layer : Expected(r, l)' = Expected(r, l)
  BY DEF Expected, At
<1>2. QED
  BY <1>1 DEF RowInv, OneRowPerLayer, SpanStepsExact, OnSpan, Exact

LEMMA PrefillRows ==
  ASSUME Shape, RowInv, NEW q \in Sequence, Prefill(q)
  PROVE  RowInv' /\ Shape'
<1>1. PICK n \in 2..(TokenLimit[q] - tokens[q]) :
        /\ tokens' = [tokens EXCEPT ![q] = tokens[q] + n]
        /\ cache' = [cache EXCEPT ![q] =
             [l \in Layer |-> cache[q][l] \o [j \in 1..n |-> <<q, tokens[q] + j>>]]]
  BY DEF Prefill
<1>2. n \in Nat /\ TokenLimit[q] \in Nat /\ tokens[q] \in Nat
  BY SpanAssumption DEF Shape
<1> DEFINE new == [j \in 1..n |-> <<q, tokens[q] + j>>]
<1>3. new \in Seq(Row) /\ Len(new) = n
  <2>1. new \in [1..n -> Row]
    BY <1>2 DEF Row
  <2>2. QED
    BY <2>1, <1>2, SeqDef
<1>4. \A l \in Layer : /\ cache'[q][l] = cache[q][l] \o new
                       /\ cache'[q][l] \in Seq(Row)
                       /\ Len(cache'[q][l]) = Len(cache[q][l]) + n
  <2> TAKE l \in Layer
  <2>1. cache[q][l] \in Seq(Row)
    BY DEF Shape
  <2>2. cache'[q][l] = cache[q][l] \o new
    BY <1>1 DEF Shape
  <2> HIDE DEF new
  <2>3. QED
    BY <2>1, <2>2, <1>3, ConcatProperties
<1>5. Shape'
  <2>1. cache' \in [Sequence -> [Layer -> Seq(Row)]]
    <3>1. cache'[q] \in [Layer -> Seq(Row)]
      BY <1>1, <1>4 DEF Shape
    <3>2. QED
      BY <1>1, <3>1 DEF Shape
  <2>2. QED
    BY <1>1, <1>2, <2>1 DEF Shape, Prefill
<1>6. At(q, "idle") /\ UNCHANGED <<pc, layer, fallback, faulty>>
  BY DEF Prefill, config
<1>7. \A r \in Sequence \ {q} : tokens'[r] = tokens[r] /\ cache'[r] = cache[r]
  BY <1>1 DEF Shape
<1>8. \A l \in Layer : Expected(q, l)' = Expected(q, l) + n
  BY <1>1, <1>2, <1>6 DEF Expected, At, Shape
<1>9. \A l \in Layer : /\ Len(cache[q][l]) \in Nat /\ Expected(q, l) \in Int
  BY <1>2 DEF Expected, Shape
<1>10. QED
  BY <1>4, <1>5, <1>6, <1>7, <1>8, <1>9, OthersKept
     DEF RowInv, OneRowPerLayer, SpanStepsExact, OnSpan, At

LEMMA BeginTokenRows ==
  ASSUME Shape, RowInv, NEW q \in Sequence, BeginToken(q)
  PROVE  RowInv' /\ Shape'
<1>1. /\ At(q, "idle") /\ tokens' = [tokens EXCEPT ![q] = tokens[q] + 1]
      /\ layer' = [layer EXCEPT ![q] = 1] /\ pc' = [pc EXCEPT ![q] = "loop"]
      /\ UNCHANGED <<cache, fallback, faulty>>
  BY DEF BeginToken, Goto, config
<1>2. 1 \in Layer
  BY SpanAssumption DEF Layer
<1>3. Shape'
  BY <1>1, <1>2 DEF Shape, Places
<1>4. \A r \in Sequence \ {q} : /\ pc'[r] = pc[r] /\ layer'[r] = layer[r]
                                /\ tokens'[r] = tokens[r]
  BY <1>1 DEF Shape
<1>5. \A l \in Layer : Expected(q, l)' = Expected(q, l)
  <2> TAKE l \in Layer
  <2>1. Expected(q, l) = tokens[q] /\ ~(l < 1)
    BY <1>1 DEF Expected, Layer
  <2>2. pc'[q] = "loop" /\ layer'[q] = 1 /\ tokens'[q] = tokens[q] + 1 /\ tokens[q] \in Nat
    BY <1>1 DEF Shape
  <2>3. QED
    BY <2>1, <2>2 DEF Expected, At
<1>6. ~OnSpan(q)'
  BY <1>1 DEF Shape, OnSpan
<1>7. QED
  BY <1>1, <1>3, <1>4, <1>5, <1>6, OthersKept DEF RowInv, OneRowPerLayer, SpanStepsExact

\* Where a step goes after layer l, and what its caches should have by then.
LEMMA NextLayerFacts ==
  ASSUME Shape, NEW q \in Sequence, NEW l \in Layer, NextLayer(q, l), UNCHANGED tokens
  PROVE  /\ pc' \in [Sequence -> Places] /\ layer' \in [Sequence -> Layer]
         /\ \A r \in Sequence \ {q} : pc'[r] = pc[r] /\ layer'[r] = layer[r]
         /\ pc'[q] \in {"idle", "loop"}
         /\ \A m \in Layer : Expected(q, m)' = IF m <= l THEN tokens[q] ELSE tokens[q] - 1
<1>1. CASE l = NumLayers
  <2>1. pc' = [pc EXCEPT ![q] = "idle"] /\ layer' = layer
    BY <1>1 DEF NextLayer, Goto
  <2>2. \A m \in Layer : m <= l
    BY <1>1, SpanAssumption DEF Layer
  <2>3. QED
    BY <2>1, <2>2 DEF Shape, Places, Expected, At
<1>2. CASE l # NumLayers
  <2>1. pc' = [pc EXCEPT ![q] = "loop"] /\ layer' = [layer EXCEPT ![q] = l + 1]
    BY <1>2 DEF NextLayer, Goto
  <2>2. l + 1 \in Layer
    BY <1>2, SpanAssumption DEF Layer
  <2>3. \A m \in Layer : m < l + 1 <=> m <= l
    BY DEF Layer
  <2>4. QED
    BY <2>1, <2>2, <2>3 DEF Shape, Places, Expected, At
<1>3. QED
  BY <1>1, <1>2

LEMMA LayerForwardRows ==
  ASSUME Shape, RowInv, NEW q \in Sequence, LayerForward(q)
  PROVE  RowInv' /\ Shape'
<1> DEFINE k == layer[q]
<1>1. /\ k \in Layer /\ pc[q] = "loop" /\ NextLayer(q, k)
      /\ cache' = [cache EXCEPT ![q] = [cache[q] EXCEPT ![k] = Append(cache[q][k], MyRow(q))]]
      /\ UNCHANGED <<tokens, fallback, faulty>>
  BY DEF LayerForward, At, Shape, config
<1>2. \A m \in Layer :
        /\ cache'[q][m] = IF m = k THEN Append(cache[q][k], MyRow(q)) ELSE cache[q][m]
        /\ cache'[q][m] \in Seq(Row)
        /\ Len(cache'[q][m]) = IF m = k THEN Len(cache[q][m]) + 1 ELSE Len(cache[q][m])
  <2> TAKE m \in Layer
  <2>1. cache[q][m] \in Seq(Row) /\ cache[q][k] \in Seq(Row) /\ MyRow(q) \in Row
    BY <1>1, RowFacts DEF Shape
  <2>2. cache'[q][m] = IF m = k THEN Append(cache[q][k], MyRow(q)) ELSE cache[q][m]
    BY <1>1 DEF Shape
  <2>3. QED
    BY <2>1, <2>2, AppendProperties
<1>3. cache' \in [Sequence -> [Layer -> Seq(Row)]]
  <2>1. cache'[q] \in [Layer -> Seq(Row)]
    BY <1>1, <1>2 DEF Shape
  <2>2. QED
    BY <1>1, <2>1 DEF Shape
<1>4. Shape'
  BY <1>1, <1>3, NextLayerFacts DEF Shape
<1>5. \A r \in Sequence \ {q} : pc'[r] = pc[r] /\ layer'[r] = layer[r] /\ cache'[r] = cache[r]
  BY <1>1, NextLayerFacts DEF Shape
<1>6. \A m \in Layer :
        Expected(q, m)' - Expected(q, m) = Len(cache'[q][m]) - Len(cache[q][m])
  <2> TAKE m \in Layer
  <2>1. Expected(q, m)' = IF m <= k THEN tokens[q] ELSE tokens[q] - 1
    BY <1>1, NextLayerFacts
  <2>2. Expected(q, m) = IF m < k THEN tokens[q] ELSE tokens[q] - 1
    BY <1>1 DEF Expected, At
  <2>3. k \in Nat /\ m \in Nat /\ tokens[q] \in Nat /\ Len(cache[q][m]) \in Nat
    <3>1. k \in Nat /\ m \in Nat
      BY <1>1, SpanInLayers
    <3>2. cache[q][m] \in Seq(Row) /\ tokens[q] \in Nat
      BY DEF Shape
    <3>3. QED
      BY <3>1, <3>2, LenProperties
  <2>4. Len(cache'[q][m]) = IF m = k THEN Len(cache[q][m]) + 1 ELSE Len(cache[q][m])
    BY <1>2
  <2> DEFINE before == Len(cache[q][m])
             after == Len(cache'[q][m])
  <2> HIDE DEF k, before, after
  <2>5. before \in Nat /\ after = IF m = k THEN before + 1 ELSE before
    BY <2>3, <2>4 DEF before, after
  <2>6. Expected(q, m)' - Expected(q, m) = after - before
    BY <2>1, <2>2, <2>3, <2>5
  <2>7. QED
    BY <2>6 DEF before, after
<1>7. ~OnSpan(q)'
  BY <1>1, NextLayerFacts DEF OnSpan
<1>8. \A m \in Layer : /\ Expected(q, m) \in Int /\ Expected(q, m)' \in Int
                      /\ Len(cache[q][m]) \in Int /\ Len(cache'[q][m]) \in Int
  BY <1>1, <1>2 DEF Expected, Shape
<1>9. \A m \in Layer :
        \/ Len(cache'[q][m]) = Expected(q, m)'
        \/ /\ fallback' /\ faulty' \cap Late # {} /\ m \in Span
           /\ Len(cache'[q][m]) = Expected(q, m)' + 1
  BY <1>1, <1>6, <1>8 DEF RowInv, OneRowPerLayer
<1>10. QED
  BY <1>1, <1>4, <1>5, <1>7, <1>9, OthersKept DEF RowInv, OneRowPerLayer, SpanStepsExact

\* Zero rows for the layers in S.
LEMMA ZeroFromFacts ==
  ASSUME Shape, NEW q \in Sequence, NEW S, ZeroFrom(q, S)
  PROVE  /\ cache' \in [Sequence -> [Layer -> Seq(Row)]]
         /\ \A r \in Sequence \ {q} : cache'[r] = cache[r]
         /\ \A m \in Layer :
              Len(cache'[q][m]) = IF m \in S THEN Len(cache[q][m]) + 1 ELSE Len(cache[q][m])
<1>1. cache' = [cache EXCEPT ![q] =
        [l \in Layer |-> IF l \in S THEN Append(cache[q][l], Zero) ELSE cache[q][l]]]
  BY DEF ZeroFrom
<1>2. \A m \in Layer :
        /\ cache'[q][m] \in Seq(Row)
        /\ Len(cache'[q][m]) = IF m \in S THEN Len(cache[q][m]) + 1 ELSE Len(cache[q][m])
  <2> TAKE m \in Layer
  <2>1. cache[q][m] \in Seq(Row) /\ Zero \in Row
    BY RowFacts DEF Shape
  <2>2. cache'[q][m] = IF m \in S THEN Append(cache[q][m], Zero) ELSE cache[q][m]
    BY <1>1 DEF Shape
  <2>3. QED
    BY <2>1, <2>2, AppendProperties
<1>3. cache'[q] \in [Layer -> Seq(Row)]
  BY <1>1, <1>2 DEF Shape
<1>4. QED
  BY <1>1, <1>2, <1>3 DEF Shape

LEMMA AdvanceCachesRows ==
  ASSUME Shape, RowInv, NEW q \in Sequence, AdvanceCaches(q)
  PROVE  RowInv' /\ Shape'
<1>1. /\ pc[q] = "viewed" /\ pc' = [pc EXCEPT ![q] = "advanced"] /\ ZeroFrom(q, Span)
      /\ UNCHANGED <<tokens, layer, fallback, faulty>>
  BY DEF AdvanceCaches, At, Goto, config
<1>2. Shape'
  BY <1>1, ZeroFromFacts DEF Shape, Places
<1>3. OnSpan(q) /\ layer[q] = First /\ Exact(q)
  BY <1>1 DEF OnSpan, Places, RowInv, SpanStepsExact
<1>4. \A m \in Layer : Len(cache'[q][m]) = Expected(q, m)'
  <2> TAKE m \in Layer
  <2>1. Expected(q, m) = IF m < First THEN tokens[q] ELSE tokens[q] - 1
    BY <1>1, <1>3 DEF Expected, At
  <2>2. Expected(q, m)' = IF m < First \/ m \in Span THEN tokens[q] ELSE tokens[q] - 1
    BY <1>1, <1>3 DEF Expected, At, Shape
  <2>3. Len(cache[q][m]) = Expected(q, m)
    BY <1>3 DEF Exact
  <2>4. m \in Span => ~(m < First)
    BY SpanAssumption DEF Span, Layer
  <2>5. QED
    BY <1>1, <2>1, <2>2, <2>3, <2>4, ZeroFromFacts DEF Shape
<1>5. \A r \in Sequence \ {q} : pc'[r] = pc[r] /\ cache'[r] = cache[r]
  BY <1>1, ZeroFromFacts DEF Shape
<1>6. QED
  BY <1>1, <1>2, <1>3, <1>4, <1>5, OthersKept
     DEF RowInv, OneRowPerLayer, SpanStepsExact, Exact

\* The caches were advanced for some layers of the span, and then the span falls back.
LEMMA AdvanceFailsRows ==
  ASSUME Shape, RowInv, NEW q \in Sequence, AdvanceFails(q)
  PROVE  RowInv' /\ Shape'
<1>1. PICK j \in Span : ZeroFrom(q, First..(j - 1))
  BY DEF AdvanceFails
<1>2. /\ pc[q] = "viewed" /\ pc' = [pc EXCEPT ![q] = "loop"]
      /\ "advance" \in faulty /\ fallback' = TRUE
      /\ UNCHANGED <<tokens, layer, faulty>>
  BY DEF AdvanceFails, FallBack, At, Goto, config
<1>3. Shape'
  BY <1>1, <1>2, ZeroFromFacts DEF Shape, Places
<1>4. Exact(q)
  BY <1>2 DEF OnSpan, Places, RowInv, SpanStepsExact
<1>5. \A m \in Layer : Expected(q, m)' = Expected(q, m)
  BY <1>2 DEF Expected, At, Shape
<1>6. \A m \in First..(j - 1) : m \in Span
  BY <1>1, SpanAssumption DEF Span, Layer
<1>7. faulty' \cap Late # {}
  BY <1>2 DEF Late
<1>8. \A r \in Sequence \ {q} : pc'[r] = pc[r] /\ cache'[r] = cache[r]
  BY <1>1, <1>2, ZeroFromFacts DEF Shape
<1>9. ~OnSpan(q)'
  BY <1>2 DEF OnSpan, Shape
<1>10. \A m \in Layer :
         \/ Len(cache'[q][m]) = Expected(q, m)'
         \/ m \in Span /\ Len(cache'[q][m]) = Expected(q, m)' + 1
  BY <1>1, <1>4, <1>5, <1>6, ZeroFromFacts DEF Exact
<1>11. QED
  BY <1>2, <1>3, <1>7, <1>8, <1>9, <1>10, OthersKept
     DEF RowInv, OneRowPerLayer, SpanStepsExact

LEMMA AdvancePositionRows ==
  ASSUME Shape, RowInv, NEW q \in Sequence, AdvancePosition(q)
  PROVE  RowInv' /\ Shape'
<1>1. /\ pc[q] = "advanced" /\ NextLayer(q, Last)
      /\ UNCHANGED <<cache, tokens, fallback, faulty>>
  BY DEF AdvancePosition, At, config
<1>2. Last \in Layer
  BY SpanInLayers
<1>3. Shape'
  BY <1>1, <1>2, NextLayerFacts DEF Shape
<1>4. layer[q] = First /\ Exact(q)
  BY <1>1 DEF OnSpan, Places, RowInv, SpanStepsExact
<1>5. \A m \in Layer : Expected(q, m)' = Expected(q, m)
  <2> TAKE m \in Layer
  <2>1. Expected(q, m) = IF m < First \/ m \in Span THEN tokens[q] ELSE tokens[q] - 1
    BY <1>1, <1>4 DEF Expected, At
  <2>2. m < First \/ m \in Span <=> m <= Last
    BY SpanAssumption DEF Span, Layer
  <2>3. QED
    BY <1>1, <1>2, <2>1, <2>2, NextLayerFacts
<1>6. ~OnSpan(q)'
  BY <1>1, <1>2, NextLayerFacts DEF OnSpan
<1>7. \A r \in Sequence \ {q} : pc'[r] = pc[r] /\ layer'[r] = layer[r]
  BY <1>1, <1>2, NextLayerFacts
<1>8. QED
  BY <1>1, <1>3, <1>4, <1>5, <1>6, <1>7, OthersKept
     DEF RowInv, OneRowPerLayer, SpanStepsExact, Exact

\* The caches were advanced for the whole span, and then the span falls back.
LEMMA PositionFailsRows ==
  ASSUME Shape, RowInv, NEW q \in Sequence, PositionFails(q)
  PROVE  RowInv' /\ Shape'
<1>1. /\ pc[q] = "advanced" /\ pc' = [pc EXCEPT ![q] = "loop"]
      /\ "position" \in faulty /\ fallback' = TRUE
      /\ UNCHANGED <<cache, tokens, layer, faulty>>
  BY DEF PositionFails, FallBack, At, Goto, config
<1>2. Shape'
  BY <1>1 DEF Shape, Places
<1>3. layer[q] = First /\ Exact(q)
  BY <1>1 DEF OnSpan, Places, RowInv, SpanStepsExact
<1>4. \A m \in Layer :
        \/ Len(cache'[q][m]) = Expected(q, m)'
        \/ m \in Span /\ Len(cache'[q][m]) = Expected(q, m)' + 1
  <2> TAKE m \in Layer
  <2>1. Expected(q, m) = IF m < First \/ m \in Span THEN tokens[q] ELSE tokens[q] - 1
    BY <1>1, <1>3 DEF Expected, At
  <2>2. Expected(q, m)' = IF m < First THEN tokens[q] ELSE tokens[q] - 1
    BY <1>1, <1>3 DEF Expected, At, Shape
  <2>3. tokens[q] \in Nat /\ Len(cache[q][m]) = Expected(q, m) /\ cache' = cache
    BY <1>1, <1>3 DEF Exact, Shape
  <2>4. QED
    BY <2>1, <2>2, <2>3
<1>5. faulty' \cap Late # {}
  BY <1>1 DEF Late
<1>6. ~OnSpan(q)'
  BY <1>1 DEF OnSpan, Shape
<1>7. \A r \in Sequence \ {q} : pc'[r] = pc[r]
  BY <1>1 DEF Shape
<1>8. QED
  BY <1>1, <1>2, <1>4, <1>5, <1>6, <1>7, OthersKept DEF RowInv, OneRowPerLayer, SpanStepsExact

-----------------------------------------------------------------------------
\* What the types say about the variables the direct path works on.
SlotsOK ==
  /\ rows \in [SlotId -> [Span -> Seq(Row)]]
  /\ \A i \in SlotId, l \in Span : Len(rows[i][l]) <= MaxSeqLen

RestOK ==
  /\ faulty \in FaultSets /\ borrowing \in Borrowing
  /\ pool \in Pool
  /\ mu \in [SlotId -> Sequence \cup {None}]
  /\ pos \in [SlotId -> Nat]
  /\ alias \in [SlotId -> {"none", "current", "stale"}]
  /\ fallback \in BOOLEAN
  /\ hooked \in [Sequence -> BOOLEAN]
  /\ run \in [Sequence -> [slot : SlotId, lease : Nat]]

LEMMA TypeParts == TypeOK <=> Shape /\ SlotsOK /\ RestOK
BY DEF TypeOK, Shape, SlotsOK, RestOK, Places

LEMMA InitType == Init => TypeOK /\ RowInv
<1> SUFFICES ASSUME Init PROVE TypeOK /\ RowInv
  OBVIOUS
<1>1. /\ << >> \in Seq(Row) /\ Len(<< >>) = 0 /\ 0 <= MaxSeqLen
      /\ 1 \in SlotId /\ 1 \in Layer
  BY SpanAssumption, MaxDepthAssumption DEF SlotId, Layer
<1>2. Shape
  BY <1>1 DEF Init, Shape, Places
<1>3. SlotsOK
  BY <1>1 DEF Init, SlotsOK
<1>4. RestOK
  BY <1>1, NewPoolFacts DEF Init, RestOK
<1>5. RowInv
  BY <1>1 DEF Init, RowInv, OneRowPerLayer, SpanStepsExact, OnSpan, Expected, At
<1>6. QED
  BY <1>2, <1>3, <1>4, <1>5, TypeParts

\* The pool after a lease is given back is a pool.
LEMMA GivenBack ==
  ASSUME RestOK, NEW q \in Sequence, GiveBack(q)
  PROVE  pool' \in Pool
<1>1. run[q].slot \in SlotId /\ run[q].lease \in Nat /\ pool \in Pool
  BY DEF RestOK
<1>2. QED
  BY <1>1, ReleaseLeaseFacts DEF GiveBack

\* New contents of a slot's state keep the state's type.
LEMMA NewRows ==
  ASSUME SlotsOK, NEW i \in SlotId, NEW F \in [Span -> Seq(Row)],
         \A l \in Span : Len(F[l]) <= MaxSeqLen,
         rows' = [rows EXCEPT ![i] = F]
  PROVE  SlotsOK'
<1>1. rows' \in [SlotId -> [Span -> Seq(Row)]]
  BY DEF SlotsOK
<1>2. \A j \in SlotId : rows'[j] = IF j = i THEN F ELSE rows[j]
  BY DEF SlotsOK
<1>3. \A j \in SlotId, l \in Span : Len(rows'[j][l]) <= MaxSeqLen
  BY <1>2 DEF SlotsOK
<1>4. QED
  BY <1>1, <1>3 DEF SlotsOK

\* The program's state after it appended the token's row.
LEMMA AppendedRow ==
  ASSUME Shape, SlotsOK, RestOK, NEW q \in Sequence
  PROVE  /\ WithRow(q) \in [Span -> Seq(Row)]
         /\ \A l \in Span : Len(WithRow(q)[l]) <= MaxSeqLen
<1> DEFINE grown(l) == Append(rows[run[q].slot][l], MyRow(q))
<1>1. \A l \in Span : grown(l) \in Seq(Row)
  <2>1. \A l \in Span : rows[run[q].slot][l] \in Seq(Row)
    BY DEF SlotsOK, RestOK
  <2>2. MyRow(q) \in Row
    BY RowFacts DEF Shape
  <2>3. QED
    BY <2>1, <2>2, AppendProperties
<1> HIDE DEF grown
<1>2. WithRow(q) = [l \in Span |-> Window(grown(l))]
  BY DEF WithRow, grown
<1>3. QED
  BY <1>1, <1>2, WindowFacts

LEMMA LeaseStep ==
  ASSUME Shape, SlotsOK, RestOK, RowInv, NEW q \in Sequence, OnSpan(q), pc[q] # "advanced",
         NEW i \in SlotId, NEW p \in Pool, Lease(q, i, p)
  PROVE  (Shape /\ SlotsOK /\ RestOK)' /\ RowInv'
<1>1. pool.seq + 1 \in Nat
  BY DEF RestOK, Pool
<1>2. /\ pc' = [pc EXCEPT ![q] = "waiting"] /\ pool' = p
      /\ run' = [run EXCEPT ![q] = [slot |-> i, lease |-> pool.seq + 1]]
      /\ UNCHANGED <<config, mu, rows, pos, alias, fallback, cache, tokens, layer, hooked>>
  BY DEF Lease, Goto
<1>3. RowInv'
  BY <1>2, QuietStep DEF OnSpan, Places, config
<1>4. QED
  BY <1>1, <1>2, <1>3 DEF Shape, SlotsOK, RestOK, Places, config

\* Every way to acquire a slot hands out a lease of a pool of the same depth.
LEMMA AcquireStep ==
  ASSUME Shape, SlotsOK, RestOK, RowInv, NEW q \in Sequence,
         AcquireFree(q) \/ AcquireBuild(q) \/ Reacquire(q)
  PROVE  (Shape /\ SlotsOK /\ RestOK)' /\ RowInv'
<1>1. OnSpan(q) /\ pc[q] # "advanced"
  BY DEF AcquireFree, AcquireBuild, Reacquire, At, OnSpan, Places
<1>2. pool \in Pool
  BY DEF RestOK
<1>3. CASE AcquireBuild(q)
  <2>1. pool.size < pool.depth
    BY <1>3 DEF AcquireBuild, CanBuild
  <2>2. pool.size + 1 \in SlotId /\ BuildAndLease(pool) \in Pool
    BY <1>2, <2>1, BuildAndLeaseFacts
  <2>3. QED
    BY <1>1, <1>3, <2>2, LeaseStep DEF AcquireBuild
<1>4. CASE AcquireFree(q) \/ Reacquire(q)
  <2>1. PICK i \in SlotId : Lease(q, i, LeaseSlot(pool, i))
    BY <1>4 DEF AcquireFree, Reacquire
  <2>2. LeaseSlot(pool, i) \in Pool
    BY <1>2, LeaseSlotFacts
  <2>3. QED
    BY <1>1, <2>1, <2>2, LeaseStep
<1>5. QED
  BY <1>3, <1>4

\* Lock: the slot becomes q's, and q goes on to evaluate.
LEMMA LockStep ==
  ASSUME Shape, RestOK, RowInv, NEW q \in Sequence, Lock(q)
  PROVE  Shape' /\ RowInv' /\ mu' \in [SlotId -> Sequence \cup {None}] /\ run[q].slot \in SlotId
<1>1. /\ pc[q] = "waiting" /\ pc' = [pc EXCEPT ![q] = "synced"]
      /\ mu' = [mu EXCEPT ![run[q].slot] = q]
      /\ UNCHANGED <<config, fallback, cache, tokens, layer>>
  BY DEF Lock, At, Goto
<1>2. RowInv'
  BY <1>1, QuietStep DEF OnSpan, Places, config
<1>3. QED
  BY <1>1, <1>2 DEF Shape, RestOK, Places

LEMMA SyncStep ==
  ASSUME Shape, SlotsOK, RestOK, RowInv, NEW q \in Sequence,
         SyncReady(q) \/ SyncReset(q) \/ SyncRestore(q)
  PROVE  (Shape /\ SlotsOK /\ RestOK)' /\ RowInv'
<1> DEFINE i == run[q].slot
<1>1. Lock(q)
  BY DEF SyncReady, SyncReset, SyncRestore
<1>2. /\ Shape' /\ RowInv' /\ mu' \in [SlotId -> Sequence \cup {None}] /\ i \in SlotId
      /\ UNCHANGED <<config, pool, fallback, hooked, run>>
  BY <1>1, LockStep DEF Lock
<1>3. CASE SyncReady(q)
  BY <1>2, <1>3 DEF SyncReady, SlotsOK, RestOK, config
<1>4. CASE SyncReset(q)
  <2> DEFINE F == [l \in Span |-> << >>]
  <2>1. F \in [Span -> Seq(Row)] /\ \A l \in Span : Len(F[l]) <= MaxSeqLen
    BY SpanAssumption
  <2>2. rows' = [rows EXCEPT ![i] = F]
    BY <1>4 DEF SyncReset
  <2>3. SlotsOK'
    BY <1>2, <2>1, <2>2, NewRows
  <2>4. /\ pos' = [pos EXCEPT ![i] = 0]
        /\ alias' = [alias EXCEPT ![i] = IF alias[i] = "none" THEN "none" ELSE "stale"]
    BY <1>4 DEF SyncReset
  <2>5. RestOK'
    BY <1>2, <2>4 DEF RestOK, config
  <2>6. QED
    BY <1>2, <2>3, <2>5
<1>5. CASE SyncRestore(q)
  <2> DEFINE F == [l \in Span |-> cache[q][l]]
  <2>1. /\ SameOffsets(q) /\ Offset(q) \in 1..MaxSeqLen
        /\ rows' = [rows EXCEPT ![i] = F] /\ pos' = [pos EXCEPT ![i] = Offset(q)]
        /\ alias' = alias
    BY <1>5 DEF SyncRestore, NeedsRestore
  <2>2. F \in [Span -> Seq(Row)] /\ \A l \in Span : Len(F[l]) <= MaxSeqLen
    BY <2>1, SpanInLayers, SpanAssumption DEF Shape, SameOffsets
  <2>3. SlotsOK'
    BY <1>2, <2>1, <2>2, NewRows
  <2>4. Offset(q) \in Nat
    BY <2>1, SpanAssumption
  <2>5. RestOK'
    BY <1>2, <2>1, <2>4 DEF RestOK, config
  <2>6. QED
    BY <1>2, <2>3, <2>5
<1>6. QED
  BY <1>3, <1>4, <1>5

\* The span falls back while its caches are as they were.
LEMMA FallBackStep ==
  ASSUME Shape, RowInv, NEW q \in Sequence, pc[q] \notin {"idle", "advanced"}, FallBack(q),
         UNCHANGED <<config, cache, tokens, layer>>
  PROVE  Shape' /\ RowInv' /\ fallback' \in BOOLEAN
<1>1. pc' = [pc EXCEPT ![q] = "loop"] /\ fallback' = TRUE
  BY DEF FallBack, Goto
<1>2. RowInv'
  BY <1>1, QuietStep DEF Places, config
<1>3. QED
  BY <1>1, <1>2 DEF Shape, Places

LEMMA SyncFailsStep ==
  ASSUME Shape, SlotsOK, RestOK, RowInv, NEW q \in Sequence, SyncFails(q)
  PROVE  (Shape /\ SlotsOK /\ RestOK)' /\ RowInv'
<1> DEFINE i == run[q].slot
<1>1. /\ pc[q] = "waiting" /\ GiveBack(q) /\ FallBack(q)
      /\ UNCHANGED <<config, mu, pos, alias, cache, tokens, layer, hooked, run>>
  BY DEF SyncFails, At
<1>2. i \in SlotId
  BY DEF RestOK
<1>3. SlotsOK'
  <2>1. CASE rows' = rows
    BY <2>1 DEF SlotsOK
  <2>2. CASE /\ NeedsRestore(q)
             /\ \E j \in Span : rows' = [rows EXCEPT ![i] =
                  [l \in Span |-> IF l < j THEN cache[q][l] ELSE rows[i][l]]]
    <3>1. PICK j \in Span : rows' = [rows EXCEPT ![i] =
                  [l \in Span |-> IF l < j THEN cache[q][l] ELSE rows[i][l]]]
      BY <2>2
    <3> DEFINE F == [l \in Span |-> IF l < j THEN cache[q][l] ELSE rows[i][l]]
    <3>2. F \in [Span -> Seq(Row)]
      BY <1>2, SpanInLayers DEF Shape, SlotsOK
    <3>3. \A l \in Span : Len(F[l]) <= MaxSeqLen
      BY <1>2, <2>2, SpanAssumption DEF NeedsRestore, SameOffsets, SlotsOK
    <3>4. QED
      BY <1>2, <3>1, <3>2, <3>3, NewRows
  <2>3. QED
    BY <2>1, <2>2 DEF SyncFails
<1>4. pool' \in Pool
  BY <1>1, GivenBack
<1>5. QED
  BY <1>1, <1>3, <1>4, FallBackStep DEF RestOK, config

LEMMA EvalStep ==
  ASSUME Shape, SlotsOK, RestOK, RowInv, NEW q \in Sequence, Eval(q) \/ EvalFails(q)
  PROVE  (Shape /\ SlotsOK /\ RestOK)' /\ RowInv'
<1>1. run[q].slot \in SlotId
  BY DEF RestOK
<1>2. SlotsOK'
  <2>1. CASE rows' = rows
    BY <2>1 DEF SlotsOK
  <2>2. CASE rows' = [rows EXCEPT ![run[q].slot] = WithRow(q)]
    BY <1>1, <2>2, AppendedRow, NewRows
  <2>3. QED
    BY <2>1, <2>2 DEF Eval, EvalFails
<1>3. CASE Eval(q)
  <2>1. /\ pc[q] = "synced" /\ pc' = [pc EXCEPT ![q] = "evaluated"]
        /\ UNCHANGED <<config, pool, mu, pos, alias, fallback, cache, tokens, layer, hooked, run>>
    BY <1>3 DEF Eval, At, Goto
  <2>2. RowInv'
    BY <2>1, QuietStep DEF OnSpan, Places, config
  <2>3. QED
    BY <1>2, <2>1, <2>2 DEF Shape, RestOK, Places, config
<1>4. CASE EvalFails(q)
  <2>1. /\ pc[q] = "synced" /\ FallBack(q) /\ GiveBack(q)
        /\ mu' = [mu EXCEPT ![run[q].slot] = None]
        /\ UNCHANGED <<config, pos, alias, cache, tokens, layer, hooked, run>>
    BY <1>4 DEF EvalFails, At, Unlock
  <2>2. pool' \in Pool
    BY <2>1, GivenBack
  <2>3. QED
    BY <1>1, <1>2, <2>1, <2>2, FallBackStep DEF RestOK, config
<1>5. QED
  BY <1>3, <1>4

LEMMA OutputStep ==
  ASSUME Shape, SlotsOK, RestOK, RowInv, NEW q \in Sequence, TakeOutput(q) \/ OutputFails(q)
  PROVE  (Shape /\ SlotsOK /\ RestOK)' /\ RowInv'
<1>1. /\ run[q].slot \in SlotId /\ pc[q] = "evaluated"
      /\ mu' = [mu EXCEPT ![run[q].slot] = None]
      /\ UNCHANGED <<config, rows, pos, cache, tokens, layer, hooked, run>>
  BY DEF RestOK, TakeOutput, OutputFails, At, Unlock
<1>2. pool' \in Pool
  BY GivenBack DEF TakeOutput, OutputFails, RestOK
<1>3. CASE TakeOutput(q)
  <2>1. /\ pc' = [pc EXCEPT ![q] = "viewed"] /\ fallback' = fallback
        /\ alias' \in [SlotId -> {"none", "current", "stale"}]
    BY <1>1, <1>3 DEF TakeOutput, Goto, RestOK
  <2>2. RowInv'
    BY <1>1, <2>1, QuietStep DEF OnSpan, Places, config
  <2>3. QED
    BY <1>1, <1>2, <2>1, <2>2 DEF Shape, SlotsOK, RestOK, Places, config
<1>4. CASE OutputFails(q)
  <2>1. FallBack(q) /\ alias' = alias
    BY <1>4 DEF OutputFails
  <2>2. QED
    BY <1>1, <1>2, <2>1, FallBackStep DEF SlotsOK, RestOK, config
<1>5. QED
  BY <1>3, <1>4

\* Entering the span, finding no slot, and waiting for one.
LEMMA EnterStep ==
  ASSUME Shape, SlotsOK, RestOK, RowInv, NEW q \in Sequence,
         EnterSpan(q) \/ NoSlot(q) \/ Stall(q)
  PROVE  (Shape /\ SlotsOK /\ RestOK)' /\ RowInv'
<1>1. UNCHANGED <<config, slotVars, cache, tokens, layer, hooked, run>>
  BY DEF EnterSpan, NoSlot, Stall
<1>2. CASE EnterSpan(q)
  <2>1. /\ pc[q] = "loop" /\ pc' = [pc EXCEPT ![q] = "entered"] /\ fallback' = fallback
        /\ ~fallback /\ layer[q] = First
    BY <1>2 DEF EnterSpan, TryDirect, At, Goto
  <2>2. RowInv'
    BY <1>1, <2>1, QuietStep DEF Places, config
  <2>3. QED
    BY <1>1, <2>1, <2>2 DEF Shape, SlotsOK, RestOK, Places, config, slotVars
<1>3. CASE NoSlot(q)
  <2>1. pc[q] \notin {"idle", "advanced"} /\ FallBack(q)
    BY <1>3 DEF NoSlot, At
  <2>2. QED
    BY <1>1, <2>1, FallBackStep DEF SlotsOK, RestOK, config, slotVars
<1>4. CASE Stall(q)
  <2>1. pc[q] = "entered" /\ pc' = [pc EXCEPT ![q] = "stalled"] /\ fallback' = fallback
    BY <1>4 DEF Stall, At, Goto
  <2>2. RowInv'
    BY <1>1, <2>1, QuietStep DEF OnSpan, Places, config
  <2>3. QED
    BY <1>1, <2>1, <2>2 DEF Shape, SlotsOK, RestOK, Places, config, slotVars
<1>5. QED
  BY <1>2, <1>3, <1>4

\* The steps whose effect on the caches is the subject of a lemma above touch little else.
LEMMA CacheStep ==
  ASSUME Shape, SlotsOK, RestOK, RowInv, NEW q \in Sequence,
         \/ Prefill(q) \/ BeginToken(q) \/ LayerForward(q)
         \/ AdvanceCaches(q) \/ AdvanceFails(q) \/ AdvancePosition(q) \/ PositionFails(q)
  PROVE  (Shape /\ SlotsOK /\ RestOK)' /\ RowInv'
<1>1. Shape' /\ RowInv'
  BY PrefillRows, BeginTokenRows, LayerForwardRows, AdvanceCachesRows, AdvanceFailsRows,
     AdvancePositionRows, PositionFailsRows
<1>2. UNCHANGED <<config, mu, rows, alias, run>>
  BY DEF Prefill, BeginToken, LayerForward, AdvanceCaches, AdvanceFails, AdvancePosition,
         PositionFails, slotVars
<1>3. pool' \in Pool
  <2>1. CASE AdvanceFails(q) \/ PositionFails(q)
    BY <2>1, GivenBack DEF AdvanceFails, PositionFails, DropView, RestOK
  <2>2. CASE ~(AdvanceFails(q) \/ PositionFails(q))
    BY <2>2 DEF Prefill, BeginToken, LayerForward, AdvanceCaches, AdvancePosition, slotVars, RestOK
  <2>3. QED
    BY <2>1, <2>2
<1>4. pos' \in [SlotId -> Nat]
  <2>1. CASE AdvancePosition(q)
    BY <2>1 DEF AdvancePosition, RestOK
  <2>2. CASE ~AdvancePosition(q)
    BY <2>2 DEF Prefill, BeginToken, LayerForward, AdvanceCaches, AdvanceFails, PositionFails,
                slotVars, RestOK
  <2>3. QED
    BY <2>1, <2>2
<1>5. fallback' \in BOOLEAN
  BY DEF Prefill, BeginToken, LayerForward, AdvanceCaches, AdvanceFails, AdvancePosition,
         PositionFails, FallBack, RestOK
<1>6. hooked' \in [Sequence -> BOOLEAN]
  BY DEF Prefill, BeginToken, LayerForward, AdvanceCaches, AdvanceFails, AdvancePosition,
         PositionFails, RestOK
<1>7. QED
  BY <1>1, <1>2, <1>3, <1>4, <1>5, <1>6 DEF SlotsOK, RestOK, config

LEMMA StepInvariant == IInv /\ [Next]_vars => IInv'
<1> SUFFICES ASSUME IInv, [Next]_vars PROVE IInv'
  OBVIOUS
<1>1. Shape /\ SlotsOK /\ RestOK /\ RowInv
  BY TypeParts DEF IInv, RowInv
<1>2. IInv' <=> (Shape /\ SlotsOK /\ RestOK)' /\ RowInv'
  <2>1. TypeOK' <=> Shape' /\ SlotsOK' /\ RestOK'
    BY DEF TypeOK, Shape, SlotsOK, RestOK, Places
  <2>2. QED
    BY <2>1 DEF IInv, RowInv
<1>3. CASE UNCHANGED vars
  BY <1>1, <1>2, <1>3 DEF Shape, SlotsOK, RestOK, RowInv, OneRowPerLayer, SpanStepsExact,
     OnSpan, Exact, Expected, At, vars, config, slotVars
<1>4. CASE Finished
  BY <1>3, <1>4 DEF Finished
<1>5. ASSUME NEW q \in Sequence,
             \/ Prefill(q) \/ BeginToken(q) \/ LayerForward(q)
             \/ AdvanceCaches(q) \/ AdvanceFails(q) \/ AdvancePosition(q) \/ PositionFails(q)
      PROVE  IInv'
  BY <1>1, <1>2, <1>5, CacheStep
<1>6. ASSUME NEW q \in Sequence, EnterSpan(q) \/ NoSlot(q) \/ Stall(q)
      PROVE  IInv'
  BY <1>1, <1>2, <1>6, EnterStep
<1>7. ASSUME NEW q \in Sequence, AcquireFree(q) \/ AcquireBuild(q) \/ Reacquire(q)
      PROVE  IInv'
  BY <1>1, <1>2, <1>7, AcquireStep
<1>8. ASSUME NEW q \in Sequence, SyncReady(q) \/ SyncReset(q) \/ SyncRestore(q)
      PROVE  IInv'
  BY <1>1, <1>2, <1>8, SyncStep
<1>9. ASSUME NEW q \in Sequence, SyncFails(q)
      PROVE  IInv'
  BY <1>1, <1>2, <1>9, SyncFailsStep
<1>10. ASSUME NEW q \in Sequence, Eval(q) \/ EvalFails(q)
       PROVE  IInv'
  BY <1>1, <1>2, <1>10, EvalStep
<1>11. ASSUME NEW q \in Sequence, TakeOutput(q) \/ OutputFails(q)
       PROVE  IInv'
  BY <1>1, <1>2, <1>11, OutputStep
<1>12. QED
  BY <1>3, <1>4, <1>5, <1>6, <1>7, <1>8, <1>9, <1>10, <1>11 DEF Next

LEMMA Invariant == Spec => []IInv
<1>1. Init => IInv
  BY InitType DEF IInv, RowInv
<1>2. QED
  BY <1>1, StepInvariant, PTL DEF Spec

\* Every variable keeps its type, and no layer of the block's state outgrows MaxSeqLen.
THEOREM TypeCorrect == Spec => []TypeOK
<1>1. IInv => TypeOK
  BY DEF IInv
<1>2. QED
  BY <1>1, Invariant, PTL

\* Whatever fails and whoever falls back, a token passes every layer once; only failures
\* after the caches were advanced leave one row too many, and at most one per sequence.
THEOREM RowsAligned == Spec => []OneRowPerLayer
<1>1. IInv => OneRowPerLayer
  BY DEF IInv
<1>2. QED
  BY <1>1, Invariant, PTL
-----------------------------------------------------------------------------
\* Only q has begun to decode, on a block that copies its outputs.
Alone(q) == ~borrowing /\ \A r \in Sequence \ {q} : tokens[r] = 0

Untouched == \A r \in Sequence : tokens[r] = 0 => pc[r] = "idle"

Holding == {"waiting", "synced", "evaluated"}

\* A sequence alone leases slot 1 again and again, and no other is built.
SlotAlone(q) ==
  /\ pool.size = 1
  /\ pc[q] \in Holding => pool.inUse = {1} /\ run[q].slot = 1 /\ run[q].lease = pool.lease[1]
  /\ pc[q] \notin Holding => pool.inUse = {}
  /\ pc[q] \in {"viewed", "advanced"} => run[q].slot = 1
  /\ pc[q] # "stalled"
  /\ OnSpan(q) => ~fallback

\* The rows of the first n tokens.
Context(q, n) == [j \in 1..n |-> <<q, j>>]

\* Where the program has the row of the token that its position does not count.
Ahead == {"evaluated", "viewed", "advanced"}

HasZero(q, l) == \E j \in 1..Len(cache[q][l]) : cache[q][l][j] = Zero

\* Slot 1 has the context up to its position, and as soon as there are zero rows that is
\* the end of the caches: then they cannot be restored from any more.
ContextKept(q) ==
  /\ \A l \in Span, j \in Nat : j \in 1..Len(cache[q][l]) => cache[q][l][j] \in {<<q, j>>, Zero}
  /\ \A l \in Span : HasZero(q, l) => HasZero(q, First)
  /\ HasZero(q, First) =>
       Len(cache[q][First]) = pos[1] + (IF pc[q] = "advanced" THEN 1 ELSE 0)
  /\ pc[q] \in {"synced"} \cup Ahead => pos[1] = tokens[q] - 1
  /\ \A l \in Span :
       rows[1][l] = Window(Context(q, pos[1] + (IF pc[q] \in Ahead THEN 1 ELSE 0)))

-----------------------------------------------------------------------------
LEMMA NotZero == \A q \in Sequence, j \in Nat : <<q, j>> # Zero
BY SpanAssumption DEF Zero

LEMMA ContextFacts ==
  ASSUME NEW q \in Sequence, NEW n \in Nat
  PROVE  /\ Context(q, n) \in Seq(Row) /\ Len(Context(q, n)) = n
         /\ \A j \in 1..n : Context(q, n)[j] = <<q, j>>
<1>1. Context(q, n) \in [1..n -> Row]
  BY DEF Context, Row
<1>2. Context(q, n) \in Seq(Row)
  BY <1>1, SeqDef
<1> QED
  BY <1>1, <1>2 DEF Context

\* What the window leaves out, and what it keeps.
Dropped(s) == IF Len(s) <= MaxSeqLen THEN 0 ELSE Len(s) - MaxSeqLen

LEMMA WindowRows ==
  ASSUME NEW s \in Seq(Row)
  PROVE  /\ Dropped(s) \in Nat
         /\ Window(s) \in Seq(Row) /\ Len(Window(s)) = Len(s) - Dropped(s)
         /\ \A k \in 1..Len(Window(s)) : Window(s)[k] = s[k + Dropped(s)]
<1>1. Len(s) \in Nat /\ MaxSeqLen \in Nat
  BY SpanAssumption
<1>4. Dropped(s) \in Nat
  BY <1>1 DEF Dropped
<1>2. CASE Len(s) <= MaxSeqLen
  BY <1>1, <1>2 DEF Window, Dropped
<1>3. CASE ~(Len(s) <= MaxSeqLen)
  <2> DEFINE m == Len(s) - MaxSeqLen + 1
             w == SubSeq(s, m, Len(s))
  <2>1. m \in 1..(Len(s) + 1) /\ m \in Int /\ Len(s) - m + 1 = MaxSeqLen
    BY <1>1, <1>3
  <2>2. \A j \in m..Len(s) : s[j] \in Row
    BY <1>1, <2>1, ElementOfSeq
  <2>3. /\ w \in Seq(Row) /\ Len(w) = IF m <= Len(s) THEN Len(s) - m + 1 ELSE 0
        /\ \A k \in 1..(Len(s) - m + 1) : w[k] = s[m + k - 1]
    BY <1>1, <2>1, <2>2, SubSeqProperties
  <2>4. Len(w) = MaxSeqLen
    BY <1>1, <1>3, <2>1, <2>3
  <2>5. \A k \in 1..MaxSeqLen : m + k - 1 = k + Dropped(s)
    BY <1>1, <1>3 DEF Dropped
  <2>6. Window(s) = w /\ Dropped(s) = Len(s) - MaxSeqLen
    BY <1>3 DEF Window, Dropped
  <2> HIDE DEF w, m
  <2> QED
    BY <1>1, <2>1, <2>3, <2>4, <2>5, <2>6
<1> QED
  BY <1>2, <1>3, <1>4

\* The program appends the next token's row to the last rows of a context, and has the
\* last rows of the longer one (Eval).
LEMMA WindowGrows ==
  ASSUME NEW q \in Sequence, NEW n \in Nat
  PROVE  Window(Append(Window(Context(q, n)), <<q, n + 1>>)) = Window(Context(q, n + 1))
<1> DEFINE s == Context(q, n)
           t == Context(q, n + 1)
           w == Window(s)
           g == Append(w, <<q, n + 1>>)
<1>1. n + 1 \in Nat /\ MaxSeqLen \in Nat /\ MaxSeqLen > 0 /\ <<q, n + 1>> \in Row
  BY SpanAssumption DEF Row
<1>2. s \in Seq(Row) /\ Len(s) = n /\ \A j \in 1..n : s[j] = <<q, j>>
  BY ContextFacts
<1>3. t \in Seq(Row) /\ Len(t) = n + 1 /\ \A j \in 1..(n + 1) : t[j] = <<q, j>>
  BY <1>1, ContextFacts
<1> HIDE DEF s, t
<1>4. w \in Seq(Row) /\ Len(w) = n - Dropped(s) /\ \A k \in 1..Len(w) : w[k] = s[k + Dropped(s)]
  BY <1>2, WindowRows
<1> HIDE DEF w
<1>5. /\ g \in Seq(Row) /\ Len(g) = Len(w) + 1 /\ g[Len(w) + 1] = <<q, n + 1>>
      /\ \A k \in 1..Len(w) : g[k] = w[k]
  BY <1>1, <1>4, AppendProperties
<1> HIDE DEF g
<1>6. /\ Window(g) \in Seq(Row) /\ Len(Window(g)) = Len(g) - Dropped(g)
      /\ \A k \in 1..Len(Window(g)) : Window(g)[k] = g[k + Dropped(g)]
  BY <1>5, WindowRows
<1>7. /\ Window(t) \in Seq(Row) /\ Len(Window(t)) = n + 1 - Dropped(t)
      /\ \A k \in 1..Len(Window(t)) : Window(t)[k] = t[k + Dropped(t)]
  <2>1. t \in Seq(Row)
    BY <1>3
  <2>2. /\ Dropped(t) \in Nat /\ Window(t) \in Seq(Row) /\ Len(Window(t)) = Len(t) - Dropped(t)
        /\ \A k \in 1..Len(Window(t)) : Window(t)[k] = t[k + Dropped(t)]
    BY <2>1, WindowRows
  <2>3. Len(t) = n + 1
    BY <1>3
  <2> QED
    BY <2>2, <2>3
<1>8. /\ Dropped(s) \in Nat /\ Dropped(s) <= n
      /\ Dropped(t) = Dropped(s) + Dropped(g) /\ Dropped(g) \in Nat
      /\ Len(Window(g)) = Len(Window(t))
  BY <1>1, <1>2, <1>3, <1>4, <1>5, <1>6, <1>7 DEF Dropped
<1>9. ASSUME NEW k \in 1..Len(Window(g)) PROVE Window(g)[k] = Window(t)[k]
  <2>0. /\ Dropped(s) \in Nat /\ Dropped(g) \in Nat /\ Dropped(s) <= n
        /\ Len(w) = n - Dropped(s) /\ Len(g) = Len(w) + 1
        /\ Dropped(t) \in Nat /\ Len(w) \in Nat /\ Dropped(t) = Dropped(s) + Dropped(g)
        /\ Len(Window(g)) = Len(g) - Dropped(g)
        /\ Len(Window(g)) = Len(Window(t))
    BY <1>4, <1>5, <1>6, <1>8
  <2>1. k + Dropped(g) \in 1..Len(g) /\ k + Dropped(t) \in 1..(n + 1) /\ k \in Nat
    BY <2>0, <1>9
  <2>2. Window(t)[k] = <<q, k + Dropped(t)>>
    BY <1>3, <1>7, <1>8, <1>9, <2>1
  <2>3. CASE k + Dropped(g) <= Len(w)
    <3>1. k + Dropped(g) \in 1..Len(w) /\ k + Dropped(g) + Dropped(s) \in 1..n
      BY <1>4, <1>8, <2>1, <2>3
    <3>2. Window(g)[k] = s[k + Dropped(g) + Dropped(s)]
      BY <1>4, <1>5, <1>6, <1>9, <3>1
    <3>3. k + Dropped(g) + Dropped(s) = k + Dropped(t)
      BY <1>8, <2>1
    <3> QED
      BY <1>2, <2>2, <3>1, <3>2, <3>3
  <2>4. CASE ~(k + Dropped(g) <= Len(w))
    <3>1. k + Dropped(g) = Len(w) + 1
      BY <1>4, <1>5, <1>8, <2>1, <2>4
    <3>2. k + Dropped(t) = n + 1
      <4> DEFINE dg == Dropped(g)
                 ds == Dropped(s)
                 dt == Dropped(t)
                 lw == Len(w)
      <4>1. /\ dg \in Nat /\ ds \in Nat /\ dt \in Nat /\ lw \in Nat /\ k \in Nat
            /\ lw = n - ds /\ dt = ds + dg /\ k + dg = lw + 1
        BY <2>0, <2>1, <3>1
      <4> HIDE DEF dg, ds, dt, lw
      <4>2. k + dt = n + 1
        BY <4>1
      <4> QED
        BY <4>2 DEF dt
    <3> QED
      BY <1>5, <1>6, <1>9, <2>2, <3>1, <3>2
  <2> QED
    BY <2>3, <2>4
<1>10. Window(g) = Window(t)
  BY <1>6, <1>7, <1>8, <1>9, SeqEqual
<1> QED
  BY <1>10 DEF g, w, s, t

-----------------------------------------------------------------------------
\* q's caches of the span have grown.
Grown(q) ==
  \A l \in Span :
    /\ Len(cache[q][l]) <= Len(cache'[q][l])
    /\ \A j \in 1..Len(cache[q][l]) : cache'[q][l][j] = cache[q][l][j]

LEMMA CacheLengths ==
  ASSUME Shape, NEW q \in Sequence
  PROVE  \A l \in Span : Len(cache[q][l]) \in Nat /\ DOMAIN cache[q][l] = 1..Len(cache[q][l])
BY SpanInLayers DEF Shape

\* Where zero rows are the last ones now they have been before.
LEMMA ZerosBefore ==
  ASSUME Shape, Shape', NEW q \in Sequence, Grown(q), ZerosLast(q)'
  PROVE  ZerosLast(q)
<1>1. \A l \in Span : Len(cache[q][l]) \in Nat /\ DOMAIN cache[q][l] = 1..Len(cache[q][l])
  BY CacheLengths
<1>2. \A l \in Span : Len(cache'[q][l]) \in Nat /\ DOMAIN cache'[q][l] = 1..Len(cache'[q][l])
  BY SpanInLayers DEF Shape
<1> SUFFICES ASSUME NEW l \in Span, NEW i \in DOMAIN cache[q][l], NEW j \in DOMAIN cache[q][l],
                    i < j, cache[q][l][i] = Zero
             PROVE  cache[q][l][j] = Zero
  BY DEF ZerosLast
<1>3. i \in 1..Len(cache[q][l]) /\ j \in 1..Len(cache[q][l])
  BY <1>1
<1>4. i \in DOMAIN cache'[q][l] /\ j \in DOMAIN cache'[q][l]
  BY <1>1, <1>2, <1>3 DEF Grown
<1>5. cache'[q][l][i] = Zero
  BY <1>3 DEF Grown
<1>6. cache'[q][l][j] = Zero
  BY <1>4, <1>5 DEF ZerosLast
<1> QED
  BY <1>3, <1>6 DEF Grown

\* Base-model passes add the rows of the tokens in their places: prefill, a hooked pass,
\* the layers outside of the span.
LEMMA RealRows ==
  ASSUME Shape, Shape', pos[1] \in Nat, NEW q \in Sequence, ContextKept(q), Grown(q), ZerosLast(q)',
         pc[q] \in {"idle", "loop"}, pc'[q] \in {"idle", "loop"},
         UNCHANGED <<rows, pos>>,
         \A l \in Span, j \in Nat :
           Len(cache[q][l]) < j /\ j <= Len(cache'[q][l]) => cache'[q][l][j] = <<q, j>>
  PROVE  ContextKept(q)'
<1>1. \A l \in Span : Len(cache[q][l]) \in Nat
  BY CacheLengths
<1>2. \A l \in Span : Len(cache'[q][l]) \in Nat /\ DOMAIN cache'[q][l] = 1..Len(cache'[q][l])
  BY SpanInLayers DEF Shape
<1>3. ASSUME NEW l \in Span, NEW j \in Nat, j \in 1..Len(cache'[q][l])
      PROVE  IF j <= Len(cache[q][l])
             THEN j \in 1..Len(cache[q][l]) /\ cache'[q][l][j] = cache[q][l][j]
             ELSE cache'[q][l][j] = <<q, j>>
  BY <1>1, <1>2, <1>3 DEF Grown
<1>4. \A l \in Span, j \in Nat : j \in 1..Len(cache'[q][l]) => cache'[q][l][j] \in {<<q, j>>, Zero}
  BY <1>3 DEF ContextKept
<1>5. ASSUME NEW l \in Span, HasZero(q, l)' PROVE HasZero(q, l)
  <2>1. PICK j \in 1..Len(cache'[q][l]) : cache'[q][l][j] = Zero
    BY <1>5 DEF HasZero
  <2>2. j \in Nat
    BY <1>2
  <2>3. j \in 1..Len(cache[q][l]) /\ cache[q][l][j] = Zero
    BY <1>3, <2>1, <2>2, NotZero
  <2> QED
    BY <2>3 DEF HasZero
<1>6. ASSUME NEW l \in Span, HasZero(q, l)
      PROVE  HasZero(q, l)' /\ Len(cache'[q][l]) = Len(cache[q][l])
  <2>1. PICK i \in 1..Len(cache[q][l]) : cache[q][l][i] = Zero
    BY <1>6 DEF HasZero
  <2>2. i \in 1..Len(cache'[q][l]) /\ cache'[q][l][i] = Zero
    BY <1>1, <1>2, <2>1 DEF Grown
  <2>3. ~(Len(cache[q][l]) < Len(cache'[q][l]))
    <3> SUFFICES ASSUME Len(cache[q][l]) < Len(cache'[q][l]) PROVE FALSE
      OBVIOUS
    <3> DEFINE j == Len(cache[q][l]) + 1
    <3>0. Len(cache[q][l]) \in Nat /\ Len(cache'[q][l]) \in Nat
      BY <1>1, <1>2
    <3>1. j \in Nat /\ j \in 1..Len(cache'[q][l]) /\ i < j /\ Len(cache[q][l]) < j
      BY <3>0, <2>1
    <3>2. cache'[q][l][j] = <<q, j>>
      BY <3>1
    <3>3. cache'[q][l][j] = Zero
      BY <1>2, <2>2, <3>1 DEF ZerosLast
    <3> QED
      BY <3>1, <3>2, <3>3, NotZero
  <2> QED
    BY <1>1, <1>2, <2>2, <2>3 DEF HasZero, Grown
<1>7. \A l \in Span : HasZero(q, l)' => HasZero(q, First)'
  BY <1>5, <1>6, SpanInLayers DEF ContextKept
<1>8. /\ HasZero(q, First) => Len(cache[q][First]) = pos[1]
      /\ \A l \in Span : rows[1][l] = Window(Context(q, pos[1]))
  BY DEF ContextKept, Ahead
<1>9. HasZero(q, First)' => Len(cache'[q][First]) = pos'[1]
  BY <1>5, <1>6, <1>8, SpanInLayers
<1> QED
  BY <1>4, <1>7, <1>8, <1>9 DEF ContextKept, Ahead

-----------------------------------------------------------------------------
Step(q) ==
  \/ Prefill(q) \/ BeginToken(q) \/ LayerForward(q) \/ EnterSpan(q) \/ NoSlot(q)
  \/ AcquireFree(q) \/ AcquireBuild(q) \/ Stall(q) \/ Reacquire(q)
  \/ SyncReady(q) \/ SyncReset(q) \/ SyncRestore(q) \/ SyncFails(q)
  \/ Eval(q) \/ EvalFails(q) \/ TakeOutput(q) \/ OutputFails(q)
  \/ AdvanceCaches(q) \/ AdvanceFails(q) \/ AdvancePosition(q) \/ PositionFails(q)

\* A step moves one sequence and keeps the configuration; only an idle one gets a token.
LEMMA ActorFacts ==
  ASSUME Shape, NEW q \in Sequence, Step(q)
  PROVE  /\ borrowing' = borrowing /\ (fallback => fallback')
         /\ \A r \in Sequence \ {q} : tokens'[r] = tokens[r] /\ pc'[r] = pc[r]
         /\ IF pc[q] = "idle" THEN tokens'[q] # 0 ELSE tokens' = tokens
<1>1. CASE Prefill(q)
  <2>1. PICK n \in 2..(TokenLimit[q] - tokens[q]) : tokens' = [tokens EXCEPT ![q] = tokens[q] + n]
    BY <1>1 DEF Prefill
  <2>2. tokens[q] \in Nat /\ n \in Nat /\ n > 0
    BY SpanAssumption DEF Shape
  <2>3. tokens'[q] # 0 /\ \A r \in Sequence \ {q} : tokens'[r] = tokens[r]
    BY <2>1, <2>2 DEF Shape
  <2> QED
    BY <1>1, <2>3 DEF Prefill, At, config
<1>2. CASE BeginToken(q)
  <2>1. /\ pc[q] = "idle" /\ tokens' = [tokens EXCEPT ![q] = tokens[q] + 1]
        /\ pc' = [pc EXCEPT ![q] = "loop"] /\ borrowing' = borrowing /\ fallback' = fallback
    BY <1>2 DEF BeginToken, At, Goto, config
  <2> QED
    BY <2>1 DEF Shape
<1>3. CASE LayerForward(q) \/ AdvancePosition(q)
  <2>1. PICK l \in Layer : NextLayer(q, l)
    BY <1>3, SpanInLayers DEF LayerForward, AdvancePosition, Shape
  <2>2. /\ pc[q] # "idle" /\ UNCHANGED <<tokens, borrowing, fallback>>
    BY <1>3 DEF LayerForward, AdvancePosition, At, config
  <2> QED
    BY <2>1, <2>2, NextLayerFacts
<1>4. CASE /\ ~Prefill(q) /\ ~BeginToken(q) /\ ~LayerForward(q) /\ ~AdvancePosition(q)
  <2>1. \E to \in Places : Goto(q, to)
    BY <1>4 DEF Step, EnterSpan, NoSlot, AcquireFree, AcquireBuild, Stall, Reacquire, Lease,
       SyncReady, SyncReset, SyncRestore, Lock, SyncFails, Eval, EvalFails, TakeOutput,
       OutputFails, AdvanceCaches, AdvanceFails, PositionFails, FallBack, Places
  <2>2. /\ pc[q] # "idle" /\ UNCHANGED <<tokens, borrowing>> /\ (fallback => fallback')
    BY <1>4 DEF Step, EnterSpan, NoSlot, AcquireFree, AcquireBuild, Stall, Reacquire, Lease,
       SyncReady, SyncReset, SyncRestore, Lock, SyncFails, Eval, EvalFails, TakeOutput,
       OutputFails, AdvanceCaches, AdvanceFails, PositionFails, FallBack, At, config
  <2>3. \A r \in Sequence \ {q} : pc'[r] = pc[r]
    BY <2>1 DEF Goto, Shape
  <2> QED
    BY <2>2, <2>3
<1> QED
  BY <1>1, <1>2, <1>3, <1>4

\* Whoever is alone after a step took it, and was alone before.
LEMMA AloneBefore ==
  ASSUME Shape, Untouched, NEW q \in Sequence, NEW r \in Sequence, Step(r), Alone(q)'
  PROVE  r = q /\ Alone(q)
<1>1. r = q
  <2> SUFFICES ASSUME r # q PROVE FALSE
    OBVIOUS
  <2>1. tokens'[r] = 0
    BY DEF Alone
  <2> QED
    BY <2>1, ActorFacts DEF Untouched
<1>2. Alone(q)
  BY <1>1, ActorFacts DEF Alone
<1> QED
  BY <1>1, <1>2

LEMMA UntouchedStep ==
  ASSUME Shape, Untouched, NEW q \in Sequence, Step(q)
  PROVE  Untouched'
<1> SUFFICES ASSUME NEW r \in Sequence, tokens'[r] = 0 PROVE pc'[r] = "idle"
  BY DEF Untouched
<1>1. CASE r = q
  BY <1>1, ActorFacts DEF Untouched
<1>2. CASE r # q
  BY <1>2, ActorFacts DEF Untouched
<1> QED
  BY <1>1, <1>2

-----------------------------------------------------------------------------
LEMMA GivenBackAlone ==
  ASSUME RestOK, NEW q \in Sequence, SlotAlone(q), pc[q] \in Holding, GiveBack(q)
  PROVE  pool'.size = 1 /\ pool'.inUse = {}
<1>1. /\ run[q].slot = 1 /\ run[q].lease = pool.lease[1] /\ pool.inUse = {1} /\ pool.size = 1
  BY DEF SlotAlone
<1>2. pool \in Pool /\ run[q].slot \in SlotId /\ run[q].lease \in Nat
  BY DEF RestOK
<1> QED
  BY <1>1, <1>2 DEF GiveBack, ReleaseLease, Pool

\* What is left of SlotAlone where the step is not on the slot.
LEMMA OffSlot ==
  ASSUME NEW q \in Sequence, pool'.size = 1, pool'.inUse = {},
         pc'[q] \in {"idle", "loop", "entered"}, pc'[q] = "entered" => ~fallback'
  PROVE  SlotAlone(q)'
BY DEF SlotAlone, Holding, OnSpan, Places

LEMMA SlotAloneStep ==
  ASSUME Shape, RestOK, NEW q \in Sequence, Alone(q), SlotAlone(q), Step(q)
  PROVE  SlotAlone(q)'
<1>1. /\ ~borrowing /\ pool.size = 1 /\ pool \in Pool
      /\ run \in [Sequence -> [slot : SlotId, lease : Nat]]
  BY DEF Alone, SlotAlone, RestOK
<1>2. CASE Prefill(q) \/ BeginToken(q) \/ LayerForward(q)
  <2>1. pc[q] \in {"idle", "loop"} /\ pc'[q] \in {"idle", "loop"} /\ pool' = pool
    BY <1>2, NextLayerFacts DEF Prefill, BeginToken, LayerForward, At, Goto, Shape, slotVars
  <2> QED
    BY <2>1, OffSlot DEF SlotAlone, Holding
<1>3. CASE EnterSpan(q)
  <2>1. pc[q] = "loop" /\ pc'[q] = "entered" /\ pool' = pool /\ ~fallback'
    BY <1>3 DEF EnterSpan, TryDirect, At, Goto, Shape, slotVars
  <2> QED
    BY <2>1, OffSlot DEF SlotAlone, Holding
<1>4. CASE NoSlot(q)
  <2>1. pc[q] = "entered" /\ pc'[q] = "loop" /\ pool' = pool
    BY <1>4 DEF NoSlot, FallBack, At, Goto, Shape, slotVars, SlotAlone
  <2> QED
    BY <2>1, OffSlot DEF SlotAlone, Holding
<1>5. CASE AcquireFree(q) \/ AcquireBuild(q) \/ Stall(q) \/ Reacquire(q)
  <2>1. pc[q] = "entered"
    BY <1>5 DEF AcquireFree, AcquireBuild, Stall, Reacquire, At, SlotAlone
  <2>2. pool.inUse = {} /\ ~fallback
    BY <2>1 DEF SlotAlone, Holding, OnSpan, Places
  <2>3. FreeSlots(pool) = {1}
    BY <1>1, <2>2 DEF FreeSlots, Slots
  <2>4. AcquireFree(q)
    BY <1>5, <2>1, <2>3 DEF AcquireBuild, CanBuild, Stall, Exhausted, Reacquire, At
  <2>5. PICK i \in SlotId : IsFirstFree(pool, i) /\ Lease(q, i, LeaseSlot(pool, i))
    BY <2>4 DEF AcquireFree
  <2>6. i = 1
    BY <2>3, <2>5 DEF IsFirstFree
  <2>7. /\ pool' = LeaseSlot(pool, 1) /\ pc' = [pc EXCEPT ![q] = "waiting"]
        /\ run' = [run EXCEPT ![q] = [slot |-> 1, lease |-> pool.seq + 1]]
        /\ fallback' = fallback
    BY <2>5, <2>6 DEF Lease, Goto
  <2>8. pool'.size = 1 /\ pool'.inUse = {1} /\ pool'.lease[1] = pool.seq + 1
    BY <1>1, <2>2, <2>6, <2>7, LeaseSlotFacts
  <2>9. pc'[q] = "waiting" /\ run'[q].slot = 1 /\ run'[q].lease = pool.seq + 1
    BY <1>1, <2>7 DEF Shape
  <2> QED
    BY <2>2, <2>7, <2>8, <2>9 DEF SlotAlone, Holding
<1>6. CASE SyncReady(q) \/ SyncReset(q) \/ SyncRestore(q) \/ Eval(q)
  <2>1. /\ pc[q] \in {"waiting", "synced"} /\ pc'[q] \in {"synced", "evaluated"}
        /\ UNCHANGED <<pool, run, fallback>>
    BY <1>6 DEF SyncReady, SyncReset, SyncRestore, Lock, Eval, At, Goto, Shape
  <2> QED
    BY <2>1 DEF SlotAlone, Holding, OnSpan, Places
<1>7. CASE SyncFails(q) \/ EvalFails(q) \/ OutputFails(q)
  <2>1. pc[q] \in Holding /\ pc'[q] = "loop" /\ GiveBack(q)
    BY <1>7 DEF SyncFails, EvalFails, OutputFails, FallBack, At, Goto, Shape, Holding
  <2> QED
    BY <2>1, GivenBackAlone, OffSlot
<1>8. CASE TakeOutput(q)
  <2>1. /\ pc[q] = "evaluated" /\ pc'[q] = "viewed" /\ GiveBack(q)
        /\ UNCHANGED <<run, fallback>>
    BY <1>1, <1>8 DEF TakeOutput, At, Goto, Shape
  <2>2. pool'.size = 1 /\ pool'.inUse = {} /\ run[q].slot = 1 /\ ~fallback
    BY <2>1, GivenBackAlone DEF SlotAlone, Holding, OnSpan, Places
  <2> QED
    BY <2>1, <2>2 DEF SlotAlone, Holding
<1>9. CASE AdvanceCaches(q)
  <2>1. /\ pc[q] = "viewed" /\ pc'[q] = "advanced" /\ UNCHANGED <<pool, run, fallback>>
    BY <1>9 DEF AdvanceCaches, At, Goto, Shape, slotVars
  <2> QED
    BY <2>1 DEF SlotAlone, Holding, OnSpan, Places
<1>10. CASE AdvanceFails(q) \/ AdvancePosition(q) \/ PositionFails(q)
  <2>1. Last \in Layer
    BY SpanInLayers
  <2>2. pc[q] \in {"viewed", "advanced"} /\ pc'[q] \in {"idle", "loop"} /\ pool' = pool
    BY <1>1, <1>10, <2>1, NextLayerFacts
       DEF AdvanceFails, AdvancePosition, PositionFails, DropView, FallBack, At, Goto, Shape
  <2> QED
    BY <2>2, OffSlot DEF SlotAlone, Holding
<1> QED
  BY <1>2, <1>3, <1>4, <1>5, <1>6, <1>7, <1>8, <1>9, <1>10 DEF Step

-----------------------------------------------------------------------------
\* The context of a sequence whose zero rows are the last ones, as long as nothing failed.
Kept(q) == ~fallback /\ ZerosLast(q) => ContextKept(q)

\* What the other parts of the invariant say of a sequence alone on slot 1.
Solo(q) == Shape /\ SlotsOK /\ RestOK /\ RowInv /\ SlotAlone(q)

LEMMA SoloFacts ==
  ASSUME NEW q \in Sequence, Solo(q)
  PROVE  /\ pos[1] \in Nat /\ 1 \in SlotId /\ tokens[q] \in Nat
         /\ OnSpan(q) => Offset(q) = IF pc[q] = "advanced" THEN tokens[q] ELSE tokens[q] - 1
<1>1. pos[1] \in Nat /\ 1 \in SlotId /\ tokens[q] \in Nat
  BY MaxDepthAssumption DEF Solo, Shape, RestOK, SlotId
<1>2. ASSUME OnSpan(q) PROVE Offset(q) = IF pc[q] = "advanced" THEN tokens[q] ELSE tokens[q] - 1
  <2>1. layer[q] = First /\ Len(cache[q][First]) = Expected(q, First)
    BY <1>2, SpanInLayers DEF Solo, RowInv, SpanStepsExact, Exact
  <2>2. pc[q] # "idle" /\ ~(First < First)
    BY <1>2, SpanInLayers DEF OnSpan
  <2> QED
    BY <2>1, <2>2, SpanInLayers DEF Expected, At, Offset
<1> QED
  BY <1>1, <1>2

\* A step that touches neither caches nor state, and does not cross an evaluation.
LEMMA QuietContext ==
  ASSUME NEW q \in Sequence, Solo(q), Kept(q), fallback => fallback',
         UNCHANGED <<cache, rows, pos>>,
         \/ pc[q] \notin Ahead \cup {"synced"} /\ pc'[q] \notin Ahead \cup {"synced"}
         \/ pc[q] = "evaluated" /\ pc'[q] = "viewed" /\ tokens' = tokens
  PROVE  Kept(q)'
<1> SUFFICES ASSUME ~fallback', ZerosLast(q)' PROVE ContextKept(q)'
  BY DEF Kept
<1>1. ContextKept(q)
  BY DEF Kept, ZerosLast
<1>2. \A l \in Span : HasZero(q, l)' = HasZero(q, l)
  BY DEF HasZero
<1>3. CASE pc[q] \notin Ahead \cup {"synced"} /\ pc'[q] \notin Ahead \cup {"synced"}
  BY <1>1, <1>2, <1>3, SpanInLayers DEF ContextKept, Ahead
<1>4. CASE pc[q] = "evaluated" /\ pc'[q] = "viewed" /\ tokens' = tokens
  BY <1>1, <1>2, <1>4, SpanInLayers DEF ContextKept, Ahead
<1> QED
  BY <1>3, <1>4

\* The program is where the caches are: it goes on.
LEMMA ReadyContext ==
  ASSUME NEW q \in Sequence, Solo(q), Kept(q), SyncReady(q)
  PROVE  Kept(q)'
<1> SUFFICES ASSUME ~fallback', ZerosLast(q)' PROVE ContextKept(q)'
  BY DEF Kept
<1>1. /\ pc[q] = "waiting" /\ pc' = [pc EXCEPT ![q] = "synced"]
      /\ UNCHANGED <<fallback, cache, tokens, rows, pos>>
      /\ pos[run[q].slot] = Offset(q)
  BY DEF SyncReady, Lock, At, Goto
<1>2. ContextKept(q)
  BY <1>1 DEF Kept, ZerosLast
<1>3. \A l \in Span : HasZero(q, l)' = HasZero(q, l)
  BY <1>1 DEF HasZero
<1>4. run[q].slot = 1 /\ pos[1] \in Nat /\ Offset(q) = tokens[q] - 1 /\ pc'[q] = "synced"
  BY <1>1, SoloFacts DEF Solo, SlotAlone, Holding, OnSpan, Places, Shape
<1>5. pos'[1] = tokens'[q] - 1
  BY <1>1, <1>4
<1> QED
  BY <1>1, <1>2, <1>3, <1>4, <1>5, SpanInLayers DEF ContextKept, Ahead

\* Nothing was decoded before: the state is empty, and so is the context.
LEMMA ResetContext ==
  ASSUME NEW q \in Sequence, Solo(q), SyncReset(q)
  PROVE  ContextKept(q)'
<1>1. /\ pc[q] = "waiting" /\ pc' = [pc EXCEPT ![q] = "synced"]
      /\ UNCHANGED <<cache, tokens>> /\ SameOffsets(q) /\ Offset(q) = 0
      /\ rows' = [rows EXCEPT ![run[q].slot] = [l \in Span |-> << >>]]
      /\ pos' = [pos EXCEPT ![run[q].slot] = 0]
  BY DEF SyncReset, Lock, At, Goto
<1>2. /\ run[q].slot = 1 /\ Offset(q) = tokens[q] - 1 /\ pc'[q] = "synced" /\ 1 \in SlotId
  BY <1>1, SoloFacts DEF Solo, SlotAlone, Holding, OnSpan, Places, Shape
<1>3. pos'[1] = 0 /\ \A l \in Span : rows'[1][l] = << >>
  BY <1>1, <1>2 DEF Solo, SlotsOK, RestOK
<1>4. \A l \in Span : Len(cache'[q][l]) = 0 /\ ~HasZero(q, l)'
  BY <1>1 DEF SameOffsets, HasZero
<1>5. Window(Context(q, 0)) = << >>
  <2>1. Context(q, 0) = << >>
    BY DEF Context
  <2> QED
    BY <2>1, SpanAssumption DEF Window
<1>6. \A l \in Span : rows'[1][l] = Window(Context(q, pos'[1]))
  BY <1>3, <1>5
<1> QED
  BY <1>1, <1>2, <1>3, <1>4, <1>6, SpanInLayers DEF ContextKept, Ahead

\* The caches have no zero row yet, or the position would be where they end: they have the
\* whole context.
LEMMA RestoreContext ==
  ASSUME NEW q \in Sequence, Solo(q), Kept(q), SyncRestore(q)
  PROVE  Kept(q)'
<1> SUFFICES ASSUME ~fallback', ZerosLast(q)' PROVE ContextKept(q)'
  BY DEF Kept
<1>1. /\ pc[q] = "waiting" /\ pc' = [pc EXCEPT ![q] = "synced"]
      /\ UNCHANGED <<fallback, cache, tokens>> /\ SameOffsets(q)
      /\ Offset(q) \in 1..MaxSeqLen /\ pos[run[q].slot] # Offset(q)
      /\ rows' = [rows EXCEPT ![run[q].slot] = [l \in Span |-> cache[q][l]]]
      /\ pos' = [pos EXCEPT ![run[q].slot] = Offset(q)]
  BY DEF SyncRestore, NeedsRestore, Lock, At, Goto
<1>2. /\ run[q].slot = 1 /\ Offset(q) = tokens[q] - 1 /\ pc'[q] = "synced" /\ 1 \in SlotId
      /\ pos[1] \in Nat
  BY <1>1, SoloFacts DEF Solo, SlotAlone, Holding, OnSpan, Places, Shape
<1>3. ContextKept(q)
  BY <1>1 DEF Kept, ZerosLast
<1>4. /\ HasZero(q, First) => Len(cache[q][First]) = pos[1]
      /\ \A l \in Span : HasZero(q, l) => HasZero(q, First)
      /\ \A l \in Span, j \in Nat : j \in 1..Len(cache[q][l]) => cache[q][l][j] \in {<<q, j>>, Zero}
  BY <1>1, <1>2, <1>3 DEF ContextKept
<1>5. \A l \in Span : ~HasZero(q, l)
  BY <1>1, <1>2, <1>4 DEF Offset
<1>6. pos'[1] = Offset(q) /\ \A l \in Span : rows'[1][l] = cache[q][l]
  BY <1>1, <1>2 DEF Solo, SlotsOK, RestOK
<1> DEFINE n == Offset(q)
<1>7. n \in Nat /\ n <= MaxSeqLen /\ MaxSeqLen \in Nat
  BY <1>1, SpanAssumption
<1>8. ASSUME NEW l \in Span PROVE cache[q][l] = Window(Context(q, n))
  <2>1. cache[q][l] \in Seq(Row) /\ Len(cache[q][l]) = n
    BY <1>1, SpanInLayers DEF SameOffsets, Solo, Shape
  <2>2. ASSUME NEW j \in 1..n PROVE cache[q][l][j] = <<q, j>>
    <3>1. j \in Nat /\ j \in 1..Len(cache[q][l])
      BY <2>1, <2>2
    <3> QED
      BY <1>4, <1>5, <3>1 DEF HasZero
  <2>3. /\ Context(q, n) \in Seq(Row) /\ Len(Context(q, n)) = n
        /\ \A j \in 1..n : Context(q, n)[j] = <<q, j>>
    BY <1>7, ContextFacts
  <2>4. Window(Context(q, n)) = Context(q, n)
    BY <1>7, <2>3 DEF Window
  <2>5. cache[q][l] = Context(q, n)
    BY <2>1, <2>2, <2>3, SeqEqual
  <2> QED
    BY <2>4, <2>5
<1>9. \A l \in Span : rows'[1][l] = Window(Context(q, pos'[1]))
  BY <1>6, <1>8
<1>10. \A l \in Span : ~HasZero(q, l)'
  BY <1>1, <1>5 DEF HasZero
<1> QED
  BY <1>1, <1>2, <1>4, <1>6, <1>9, <1>10, SpanInLayers DEF ContextKept, Ahead

LEMMA EvalContext ==
  ASSUME NEW q \in Sequence, Solo(q), Kept(q), Eval(q)
  PROVE  Kept(q)'
<1> SUFFICES ASSUME ~fallback', ZerosLast(q)' PROVE ContextKept(q)'
  BY DEF Kept
<1>1. /\ pc[q] = "synced" /\ pc' = [pc EXCEPT ![q] = "evaluated"]
      /\ UNCHANGED <<fallback, cache, tokens, pos>>
      /\ rows' = [rows EXCEPT ![run[q].slot] = WithRow(q)]
  BY DEF Eval, At, Goto
<1>2. /\ run[q].slot = 1 /\ pc'[q] = "evaluated" /\ 1 \in SlotId /\ pos[1] \in Nat
      /\ tokens[q] \in Nat
  BY <1>1, SoloFacts DEF Solo, SlotAlone, Holding, Shape
<1>3. ContextKept(q)
  BY <1>1 DEF Kept, ZerosLast
<1>4. pos[1] = tokens[q] - 1 /\ \A l \in Span : rows[1][l] = Window(Context(q, pos[1]))
  BY <1>1, <1>2, <1>3 DEF ContextKept, Ahead
<1>5. MyRow(q) = <<q, pos[1] + 1>>
  BY <1>2, <1>4 DEF MyRow
<1>6. \A l \in Span : rows'[1][l] = Window(Append(rows[1][l], MyRow(q)))
  BY <1>1, <1>2 DEF WithRow, Solo, SlotsOK
<1>7. \A l \in Span : rows'[1][l] = Window(Context(q, pos[1] + 1))
  BY <1>2, <1>4, <1>5, <1>6, WindowGrows
<1>8. \A l \in Span : HasZero(q, l)' = HasZero(q, l)
  BY <1>1 DEF HasZero
<1> QED
  BY <1>1, <1>2, <1>3, <1>4, <1>7, <1>8, SpanInLayers DEF ContextKept, Ahead

\* One zero row more in every cache of the span, at the position the program is about to
\* leave.
LEMMA ZeroContext ==
  ASSUME NEW q \in Sequence, Solo(q), Shape', Kept(q), AdvanceCaches(q)
  PROVE  Kept(q)'
<1> SUFFICES ASSUME ~fallback', ZerosLast(q)' PROVE ContextKept(q)'
  BY DEF Kept
<1>1. /\ pc[q] = "viewed" /\ pc' = [pc EXCEPT ![q] = "advanced"] /\ ZeroFrom(q, Span)
      /\ UNCHANGED <<fallback, tokens, rows, pos>>
  BY DEF AdvanceCaches, At, Goto, slotVars
<1>2. /\ pc'[q] = "advanced" /\ pos[1] \in Nat /\ tokens[q] \in Nat
      /\ Len(cache[q][First]) = tokens[q] - 1
  BY <1>1, SoloFacts DEF Solo, Shape, OnSpan, Places, Offset
<1>3. ASSUME NEW l \in Span
      PROVE  /\ cache[q][l] \in Seq(Row) /\ Len(cache[q][l]) \in Nat
             /\ Len(cache'[q][l]) = Len(cache[q][l]) + 1
             /\ cache'[q][l][Len(cache[q][l]) + 1] = Zero
             /\ \A j \in 1..Len(cache[q][l]) : cache'[q][l][j] = cache[q][l][j]
  <2>1. cache[q][l] \in Seq(Row) /\ Zero \in Row
    BY SpanInLayers, RowFacts DEF Solo, Shape
  <2>2. cache'[q][l] = Append(cache[q][l], Zero)
    BY <1>1, SpanInLayers DEF ZeroFrom, Solo, Shape
  <2> QED
    BY <2>1, <2>2, AppendProperties
<1>4. Grown(q)
  BY <1>3 DEF Grown
<1>5. ContextKept(q)
  <2>1. ZerosLast(q)
    BY <1>4, ZerosBefore DEF Solo
  <2> QED
    BY <1>1, <2>1 DEF Kept
<1>6. ASSUME NEW l \in Span, NEW j \in Nat, j \in 1..Len(cache'[q][l])
      PROVE  cache'[q][l][j] \in {<<q, j>>, Zero}
  <2>1. CASE j \in 1..Len(cache[q][l])
    BY <1>3, <1>5, <2>1 DEF ContextKept
  <2>2. CASE j = Len(cache[q][l]) + 1
    BY <1>3, <2>2
  <2>3. Len(cache[q][l]) \in Nat /\ Len(cache'[q][l]) = Len(cache[q][l]) + 1
    BY <1>3
  <2>4. j \in 1..Len(cache[q][l]) \/ j = Len(cache[q][l]) + 1
    BY <1>6, <2>3
  <2> QED
    BY <2>1, <2>2, <2>4
<1>7. HasZero(q, First)'
  <2>1. Len(cache'[q][First]) \in 1..Len(cache'[q][First])
    BY <1>3, SpanInLayers
  <2>2. cache'[q][First][Len(cache'[q][First])] = Zero
    BY <1>3, SpanInLayers
  <2> QED
    BY <2>1, <2>2 DEF HasZero
<1>8. pos[1] = tokens[q] - 1 /\ \A l \in Span : rows[1][l] = Window(Context(q, pos[1] + 1))
  BY <1>1, <1>5 DEF ContextKept, Ahead
<1>9. Len(cache'[q][First]) = pos'[1] + 1
  <2>1. Len(cache'[q][First]) = Len(cache[q][First]) + 1
    BY <1>3, SpanInLayers
  <2> QED
    BY <1>1, <1>2, <1>8, <2>1
<1> QED
  BY <1>1, <1>2, <1>6, <1>7, <1>8, <1>9 DEF ContextKept, Ahead

LEMMA AdvanceContext ==
  ASSUME NEW q \in Sequence, Solo(q), Kept(q), AdvancePosition(q)
  PROVE  Kept(q)'
<1> SUFFICES ASSUME ~fallback', ZerosLast(q)' PROVE ContextKept(q)'
  BY DEF Kept
<1>1. /\ pc[q] = "advanced" /\ NextLayer(q, Last)
      /\ UNCHANGED <<fallback, cache, tokens, rows>>
      /\ pos' = [pos EXCEPT ![run[q].slot] = pos[run[q].slot] + 1]
  BY DEF AdvancePosition, At
<1>2. run[q].slot = 1 /\ 1 \in SlotId /\ pos[1] \in Nat
  BY <1>1, SoloFacts DEF Solo, SlotAlone
<1>3. pc'[q] \in {"idle", "loop"}
  BY <1>1, SpanInLayers, NextLayerFacts DEF Solo
<1>4. ContextKept(q)
  BY <1>1 DEF Kept, ZerosLast
<1>5. pos'[1] = pos[1] + 1
  BY <1>1, <1>2 DEF Solo, RestOK
<1>6. \A l \in Span : HasZero(q, l)' = HasZero(q, l)
  BY <1>1 DEF HasZero
<1>7. /\ HasZero(q, First)' => Len(cache'[q][First]) = pos'[1]
      /\ \A l \in Span : rows'[1][l] = Window(Context(q, pos'[1]))
  BY <1>1, <1>4, <1>5, <1>6, SpanInLayers DEF ContextKept, Ahead
<1>8. pos'[1] + 0 = pos'[1]
  BY <1>2, <1>5
<1> QED
  BY <1>1, <1>3, <1>4, <1>6, <1>7, <1>8, SpanInLayers DEF ContextKept, Ahead

\* A forward pass over several tokens gives every layer the rows of its tokens.
LEMMA PrefillContext ==
  ASSUME NEW q \in Sequence, Solo(q), Shape', Kept(q), Prefill(q)
  PROVE  Kept(q)'
<1> SUFFICES ASSUME ~fallback', ZerosLast(q)' PROVE ContextKept(q)'
  BY DEF Kept
<1>1. /\ pc[q] = "idle" /\ UNCHANGED <<rows, pos, pc, fallback>>
  BY DEF Prefill, At, slotVars
<1>2. PICK n \in 2..(TokenLimit[q] - tokens[q]) :
        cache' = [cache EXCEPT ![q] =
          [l \in Layer |-> cache[q][l] \o [j \in 1..n |-> <<q, tokens[q] + j>>]]]
  BY DEF Prefill
<1> DEFINE new == [j \in 1..n |-> <<q, tokens[q] + j>>]
<1>3. n \in Nat /\ tokens[q] \in Nat /\ pos[1] \in Nat
  BY SoloFacts, SpanAssumption
<1>4. new \in Seq(Row) /\ Len(new) = n /\ \A j \in 1..n : new[j] = <<q, tokens[q] + j>>
  <2>1. new \in [1..n -> Row]
    BY <1>3 DEF Row
  <2> QED
    BY <2>1, <1>3, SeqDef
<1>5. ASSUME NEW l \in Span
      PROVE  /\ Len(cache[q][l]) = tokens[q] /\ Len(cache'[q][l]) = tokens[q] + n
             /\ \A j \in 1..tokens[q] : cache'[q][l][j] = cache[q][l][j]
             /\ \A j \in (tokens[q] + 1)..(tokens[q] + n) : cache'[q][l][j] = <<q, j>>
  <2>1. l \in Layer /\ cache[q][l] \in Seq(Row)
    BY SpanInLayers DEF Solo, Shape
  <2>2. Len(cache[q][l]) = tokens[q]
    BY <1>1, <2>1 DEF Solo, RowInv, OneRowPerLayer, Expected, At
  <2>3. cache'[q][l] = cache[q][l] \o new
    BY <1>2, <2>1 DEF Solo, Shape
  <2> HIDE DEF new
  <2>4. /\ Len(cache'[q][l]) = tokens[q] + n
        /\ \A j \in 1..(tokens[q] + n) :
             cache'[q][l][j] = IF j <= tokens[q] THEN cache[q][l][j] ELSE new[j - tokens[q]]
    <3> DEFINE old == cache[q][l]
    <3>1. old \in Seq(Row) /\ new \in Seq(Row) /\ Len(old) = tokens[q] /\ Len(new) = n
      BY <1>4, <2>1, <2>2
    <3> HIDE DEF old
    <3>2. /\ Len(old \o new) = Len(old) + Len(new)
          /\ \A j \in 1..(Len(old) + Len(new)) :
               (old \o new)[j] = IF j <= Len(old) THEN old[j] ELSE new[j - Len(old)]
      BY <3>1, ConcatProperties
    <3> QED
      BY <2>3, <3>1, <3>2 DEF old
  <2>5. \A j \in 1..tokens[q] : j \in 1..(tokens[q] + n) /\ j <= tokens[q]
    BY <1>3
  <2>6. \A j \in (tokens[q] + 1)..(tokens[q] + n) :
          /\ j \in 1..(tokens[q] + n) /\ ~(j <= tokens[q])
          /\ j - tokens[q] \in 1..n /\ tokens[q] + (j - tokens[q]) = j
    BY <1>3
  <2>7. \A j \in (tokens[q] + 1)..(tokens[q] + n) : cache'[q][l][j] = <<q, j>>
    BY <1>4, <2>4, <2>6
  <2> QED
    BY <2>2, <2>4, <2>5, <2>7
<1>6. Grown(q)
  BY <1>3, <1>5 DEF Grown
<1>7. \A l \in Span, j \in Nat :
        Len(cache[q][l]) < j /\ j <= Len(cache'[q][l]) => cache'[q][l][j] = <<q, j>>
  BY <1>3, <1>5
<1>8. ContextKept(q)
  <2>1. ZerosLast(q)
    BY <1>6, ZerosBefore DEF Solo
  <2> QED
    BY <1>1, <2>1 DEF Kept
<1> QED
  BY <1>1, <1>3, <1>6, <1>7, <1>8, RealRows DEF Solo

\* The token's row is the next one of the layer, on the span's layers too if a hook keeps
\* the pass off the direct path.
LEMMA LayerContext ==
  ASSUME NEW q \in Sequence, Solo(q), Shape', Kept(q), LayerForward(q)
  PROVE  Kept(q)'
<1> SUFFICES ASSUME ~fallback', ZerosLast(q)' PROVE ContextKept(q)'
  BY DEF Kept
<1> DEFINE k == layer[q]
<1>1. /\ k \in Layer /\ pc[q] = "loop" /\ NextLayer(q, k)
      /\ cache' = [cache EXCEPT ![q] = [cache[q] EXCEPT ![k] = Append(cache[q][k], MyRow(q))]]
      /\ UNCHANGED <<rows, pos, tokens, fallback>>
  BY DEF LayerForward, At, Solo, Shape, slotVars
<1>2. pc'[q] \in {"idle", "loop"}
  BY <1>1, NextLayerFacts DEF Solo
<1>3. tokens[q] \in Nat /\ pos[1] \in Nat
  BY SoloFacts
<1>4. ASSUME NEW l \in Span
      PROVE  /\ Len(cache[q][l]) \in Nat
             /\ \A j \in 1..Len(cache[q][l]) : cache'[q][l][j] = cache[q][l][j]
             /\ \/ Len(cache'[q][l]) = Len(cache[q][l])
                \/ /\ Len(cache'[q][l]) = Len(cache[q][l]) + 1
                   /\ cache'[q][l][Len(cache[q][l]) + 1] = <<q, Len(cache[q][l]) + 1>>
  <2>1. l \in Layer /\ cache[q][l] \in Seq(Row) /\ MyRow(q) \in Row
    BY SpanInLayers, RowFacts DEF Solo, Shape
  <2>2. CASE l = k
    <3>1. cache'[q][l] = Append(cache[q][l], MyRow(q))
      BY <1>1, <2>1, <2>2 DEF Solo, Shape
    <3>2. Len(cache[q][l]) = tokens[q] - 1
      <4>1. Len(cache[q][l]) = Expected(q, l)
        BY <1>1, <2>1 DEF Solo, RowInv, OneRowPerLayer
      <4>2. ~(l < layer[q])
        BY <1>1, <2>2, SpanInLayers
      <4> QED
        BY <1>1, <4>1, <4>2 DEF Expected, At
    <3>3. MyRow(q) = <<q, Len(cache[q][l]) + 1>>
      BY <1>3, <3>2 DEF MyRow
    <3> QED
      BY <2>1, <3>1, <3>3, AppendProperties
  <2>3. CASE l # k
    <3>1. cache'[q][l] = cache[q][l]
      BY <1>1, <2>1, <2>3 DEF Solo, Shape
    <3> QED
      BY <2>1, <3>1
  <2> QED
    BY <2>2, <2>3
<1>5. Grown(q)
  BY <1>4 DEF Grown
<1>6. \A l \in Span, j \in Nat :
        Len(cache[q][l]) < j /\ j <= Len(cache'[q][l]) => cache'[q][l][j] = <<q, j>>
  <2> TAKE l \in Span, j \in Nat
  <2> HAVE Len(cache[q][l]) < j /\ j <= Len(cache'[q][l])
  <2>1. Len(cache'[q][l]) = Len(cache[q][l]) + 1 /\ Len(cache[q][l]) \in Nat
    BY <1>4
  <2>2. j = Len(cache[q][l]) + 1
    BY <2>1
  <2> QED
    BY <1>4, <2>1, <2>2
<1>7. ContextKept(q)
  <2>1. ZerosLast(q)
    BY <1>5, ZerosBefore DEF Solo
  <2> QED
    BY <1>1, <2>1 DEF Kept
<1> QED
  BY <1>1, <1>2, <1>3, <1>5, <1>6, <1>7, RealRows DEF Solo

LEMMA KeptStep ==
  ASSUME NEW q \in Sequence, Solo(q), Shape', Alone(q), Kept(q), Step(q)
  PROVE  Kept(q)'
<1>1. fallback => fallback'
  BY ActorFacts DEF Solo
<1>2. CASE BeginToken(q)
  <2>1. /\ pc[q] = "idle" /\ pc'[q] = "loop" /\ UNCHANGED <<cache, rows, pos>>
    BY <1>2 DEF BeginToken, At, Goto, slotVars, Solo, Shape
  <2> QED
    BY <1>1, <2>1, QuietContext DEF Ahead
<1>3. CASE EnterSpan(q) \/ Stall(q)
  <2>1. /\ pc[q] \in {"loop", "entered"} /\ pc'[q] \in {"entered", "stalled"}
        /\ UNCHANGED <<cache, rows, pos>>
    BY <1>3 DEF EnterSpan, Stall, At, Goto, slotVars, Solo, Shape
  <2> QED
    BY <1>1, <2>1, QuietContext DEF Ahead
<1>4. CASE AcquireFree(q) \/ AcquireBuild(q) \/ Reacquire(q)
  <2>1. /\ pc[q] \in {"entered", "stalled"} /\ pc'[q] = "waiting"
        /\ UNCHANGED <<cache, rows, pos>>
    BY <1>4 DEF AcquireFree, AcquireBuild, Reacquire, Lease, At, Goto, Solo, Shape
  <2> QED
    BY <1>1, <2>1, QuietContext DEF Ahead
<1>5. CASE TakeOutput(q)
  <2>1. /\ pc[q] = "evaluated" /\ pc'[q] = "viewed" /\ UNCHANGED <<cache, rows, pos, tokens>>
    BY <1>5 DEF TakeOutput, At, Goto, Solo, Shape
  <2> QED
    BY <1>1, <2>1, QuietContext
<1>6. CASE \/ NoSlot(q) \/ SyncFails(q) \/ EvalFails(q) \/ OutputFails(q)
           \/ AdvanceFails(q) \/ PositionFails(q)
  BY <1>6 DEF NoSlot, SyncFails, EvalFails, OutputFails, AdvanceFails, PositionFails,
     FallBack, Kept
<1>7. CASE SyncReset(q)
  BY <1>7, ResetContext DEF Kept
<1>8. CASE \/ SyncReady(q) \/ SyncRestore(q) \/ Eval(q) \/ AdvanceCaches(q) \/ AdvancePosition(q)
           \/ Prefill(q) \/ LayerForward(q)
  BY <1>8, ReadyContext, RestoreContext, EvalContext, ZeroContext, AdvanceContext,
     PrefillContext, LayerContext
<1> QED
  BY <1>2, <1>3, <1>4, <1>5, <1>6, <1>7, <1>8 DEF Step

-----------------------------------------------------------------------------
SoloInv == \A q \in Sequence : Alone(q) => SlotAlone(q) /\ Kept(q)

LEMMA InitSolo == Init => Untouched /\ SoloInv
<1> SUFFICES ASSUME Init PROVE Untouched /\ SoloInv
  OBVIOUS
<1>1. Untouched
  BY DEF Init, Untouched
<1>2. pool.size = 1 /\ pool.inUse = {}
  BY DEF Init, NewPool
<1>3. /\ 1 \in SlotId /\ pos[1] = 0
      /\ \A q \in Sequence : pc[q] = "idle" /\ \A l \in Span : cache[q][l] = << >>
      /\ \A l \in Span : rows[1][l] = << >>
  BY SpanInLayers, MaxDepthAssumption DEF Init, SlotId
<1>4. ASSUME NEW q \in Sequence PROVE SlotAlone(q) /\ ContextKept(q)
  <2>1. SlotAlone(q)
    BY <1>2, <1>3 DEF SlotAlone, Holding, OnSpan
  <2>2. \A l \in Span : Len(cache[q][l]) = 0 /\ ~HasZero(q, l)
    BY <1>3 DEF HasZero
  <2>3. Context(q, 0) = << >> /\ Window(<< >>) = << >>
    BY SpanAssumption DEF Context, Window
  <2> QED
    BY <1>3, <2>1, <2>2, <2>3, SpanInLayers DEF ContextKept, Ahead
<1> QED
  BY <1>1, <1>4 DEF SoloInv, Kept

LEMMA SoloStep == IInv /\ IInv' /\ Untouched /\ SoloInv /\ [Next]_vars => Untouched' /\ SoloInv'
<1> SUFFICES ASSUME IInv, IInv', Untouched, SoloInv, [Next]_vars PROVE Untouched' /\ SoloInv'
  OBVIOUS
<1>1. Shape /\ SlotsOK /\ RestOK /\ RowInv
  BY TypeParts DEF IInv, RowInv
<1>2. Shape'
  BY DEF IInv, TypeOK, Shape, Places
<1>3. CASE UNCHANGED vars
  BY <1>3 DEF Untouched, SoloInv, Alone, SlotAlone, OnSpan, Kept, ZerosLast, ContextKept,
     HasZero, vars, config, slotVars
<1>4. ASSUME NEW r \in Sequence, Step(r) PROVE Untouched' /\ SoloInv'
  <2>1. Untouched'
    BY <1>1, <1>4, UntouchedStep
  <2>2. ASSUME NEW q \in Sequence, Alone(q)' PROVE SlotAlone(q)' /\ Kept(q)'
    <3>1. r = q /\ Alone(q)
      BY <1>1, <1>4, <2>2, AloneBefore
    <3>2. Step(q) /\ SlotAlone(q) /\ Kept(q)
      BY <1>4, <3>1 DEF SoloInv
    <3>3. SlotAlone(q)'
      BY <1>1, <3>1, <3>2, SlotAloneStep
    <3>4. Kept(q)'
      BY <1>1, <1>2, <3>1, <3>2, KeptStep DEF Solo
    <3> QED
      BY <3>3, <3>4
  <2> QED
    BY <2>1, <2>2 DEF SoloInv
<1>5. UNCHANGED vars \/ \E r \in Sequence : Step(r)
  BY DEF Next, Finished, Step
<1> QED
  BY <1>3, <1>4, <1>5

\* A sequence alone on a block that copies its outputs is decoded in its own, complete
\* context at its own position, whatever fails and however the passes of the wrapped model
\* mix with the direct ones, as long as none of them comes after a direct one.
THEOREM SoloSafety == Spec => []SoloContextExact
<1>1. Init => Untouched /\ SoloInv
  BY InitSolo
<1>2. ASSUME IInv, SoloInv PROVE SoloContextExact
  <2> SUFFICES ASSUME NEW q \in Sequence, At(q, "synced"), Alone(q), ZerosLast(q)
               PROVE  /\ pos[run[q].slot] = tokens[q] - 1
                      /\ \A l \in Span : rows[run[q].slot][l] = Window(Context(q, tokens[q] - 1))
    BY DEF SoloContextExact, Alone, Context
  <2>1. pc[q] = "synced" /\ SlotAlone(q) /\ Kept(q)
    BY <1>2 DEF At, SoloInv
  <2>2. run[q].slot = 1 /\ ContextKept(q)
    BY <2>1 DEF SlotAlone, Holding, OnSpan, Places, Kept
  <2>3. pos[1] \in Nat
    BY <1>2, MaxDepthAssumption DEF IInv, TypeOK, SlotId
  <2> QED
    BY <2>1, <2>2, <2>3 DEF ContextKept, Ahead
<1>3. IInv /\ SoloInv => SoloContextExact
  BY <1>2
<1> QED
  BY <1>1, <1>3, SoloStep, Invariant, PTL DEF Spec
=============================================================================
