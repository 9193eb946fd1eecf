--------------------------- MODULE SpanSelection ---------------------------
(***************************************************************************)
(* Which layers run as direct blocks (decode/plane.go).  A layer is        *)
(* "dense" when it has full attention and a dense FFN; "linear" attention  *)
(* and "moe" layers cannot be in a span.  Layers are numbered from 0.      *)
(***************************************************************************)
EXTENDS Integers, FiniteSets

Kind == {"dense", "linear", "moe"}

\* What MLXGO_ANE_DIRECT_BLOCK_OFFSETS asks for; "offsets" comes with a set of numbers,
\* empty when the list does not parse.
Rule == {"auto", "multi", "first", "all", "offsets"}

DenseLayers(kind) == {i \in DOMAIN kind : kind[i] = "dense"}

\* fullAttentionDenseOffsets: the dense layers, numbered as they come.
DenseOffsets(kind) ==
  [i \in DenseLayers(kind) |-> Cardinality({j \in DenseLayers(kind) : j < i})]

\* "j < numLayers", offsets has j, and its offset is the next one; j is i + 1.
Joined(n, offsets, i) ==
  i + 1 < n /\ i + 1 \in DOMAIN offsets /\ offsets[i + 1] = offsets[i] + 1

\* The inner loop: the last layer of a span that begins at i.
LastFrom(n, offsets) ==
  LET last[i \in 0..(n - 1)] == IF Joined(n, offsets, i) THEN last[i + 1] ELSE i
  IN  last

\* The outer loop: the first layers of the spans that begin at i or later.
StartsFrom(n, offsets) ==
  LET starts[i \in 0..n] ==
        IF i = n THEN {}
        ELSE IF i \notin DOMAIN offsets THEN starts[i + 1]
        ELSE {i} \cup starts[LastFrom(n, offsets)[i] + 1]
  IN  starts

\* Mutant of BuildSpans: the outer loop goes on inside of the span just built.
BuildSpansOverlapping(n, offsets) == [i \in DOMAIN offsets |-> LastFrom(n, offsets)[i]]

\* buildDirectSpans: from every dense layer not in a span yet, as far as the offsets go
\* on without a gap.  A span is the pair of its first and its last layer.
BuildSpans(n, offsets) == [i \in StartsFrom(n, offsets)[0] |-> LastFrom(n, offsets)[i]]

Several(spans) == {i \in DOMAIN spans : spans[i] > i}

\* selectDirectBlockSpans: first layer -> last layer of the spans to use.
SelectSpans(n, offsets, rule, allowed) ==
  LET spans == BuildSpans(n, offsets)
      starts ==
        CASE rule = "auto"    -> IF Several(spans) # {} THEN Several(spans) ELSE DOMAIN spans
          [] rule = "multi"   -> Several(spans)
          [] rule = "first"   -> {i \in DOMAIN spans : offsets[i] = 0}
          [] rule = "all"     -> DOMAIN spans
          [] rule = "offsets" -> {i \in DOMAIN spans : offsets[i] \in allowed}
  IN  [i \in starts |-> spans[i]]

-----------------------------------------------------------------------------
\* The maximal runs of dense layers, without a loop.
DenseRuns(kind) ==
  {r \in (DOMAIN kind) \X (DOMAIN kind) :
     /\ r[1] <= r[2]
     /\ r[1]..r[2] \subseteq DenseLayers(kind)
     /\ r[1] - 1 \notin DenseLayers(kind)
     /\ r[2] + 1 \notin DenseLayers(kind)}

\* What is selected, told from the runs: "auto" takes single layers only where there is
\* no longer run, and a number names the run whose first layer has that many dense
\* layers below it.
Wanted(kind, rule, allowed) ==
  LET long == {r \in DenseRuns(kind) : r[1] < r[2]}
      below(r) == Cardinality({i \in DenseLayers(kind) : i < r[1]})
  IN  CASE rule = "all" \/ (rule = "auto" /\ long = {}) -> DenseRuns(kind)
        [] rule = "multi" \/ (rule = "auto" /\ long # {}) -> long
        [] rule = "first"   -> {r \in DenseRuns(kind) : below(r) = 0}
        [] rule = "offsets" -> {r \in DenseRuns(kind) : below(r) \in allowed}

SelectsWanted(n, kind, rule, allowed) ==
  LET spans == SelectSpans(n, DenseOffsets(kind), rule, allowed)
  IN  {<<i, spans[i]>> : i \in DOMAIN spans} = Wanted(kind, rule, allowed)
=============================================================================
