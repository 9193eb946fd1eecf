---------------------------- MODULE DrafterProofs ----------------------------
(***************************************************************************)
(* Proofs about the drafter.  The text exists four times - as the text of  *)
(* the generation, as the drafter's history, in the draft model and in the *)
(* cache of the reference - and the inductive invariant says for every     *)
(* place how far each copy is.  What it says of a copy depends on which    *)
(* calls may fail; what keeps a replay from overrunning the model does     *)
(* not.                                                                    *)
(***************************************************************************)
EXTENDS Drafter, SequenceTheorems, TLAPS

USE DEF Kind, Face

-----------------------------------------------------------------------------
\* A surface has the size of its kind; a plain model has no rows.
Sized(x) ==
  /\ x.kind = "attention" => \A f \in Face : Len(x.state[f]) = Window
  /\ x.kind = "stateful" => \A f \in Face : Len(x.state[f]) <= Window
  /\ x.kind = "plain" => \A f \in Face : x.state[f] = << >>

\* The model is the configured one and open. Only a model compiled from ModelIR, which
\* is stateful, has snapshots. A rewind has something to take back.
Standing ==
  /\ m.kind = conf.kind /\ m.kv = conf.kv /\ ~m.closed
  /\ m.kvPos <= Window
  /\ Sized(m)
  /\ ~conf.direct => snaps = << >>
  /\ \A i \in 1..Len(snaps) : \A f \in Face : Len(snaps[i].state[f]) <= Window
  /\ ~conf.model => d.refOnly
  /\ d.refOnly => conf.runner
  /\ pc = "sync" => conf.runner
  /\ pc \in {"restore", "position", "rebuild"} => conf.model
  /\ pc \in {"rewind", "restore", "position"} => want > 0
  /\ pc = "rewind" => want <= Len(out)
  /\ pc \in {"drafting", "verify", "rewind"} => Len(out) <= Len(d.history)
  /\ pc \in {"draft", "ensure"} \/ (pc = "sync" /\ back = "ensure") => out = << >>
  /\ pc # "off" => Len(text) > 0
  /\ pc \notin {"off", "replay"} \/ (pc = "replay" /\ back = "idle") => Len(text) > 1
  /\ pc = "replay" => back \in {"prefill", "idle"}
  /\ pc = "sync" => back \in {"ensure", "idle"}

\* While the model drafts, the K/V position covers the history, so that a replay of the
\* history cannot run past the window.
Cut == IF pc \in {"restore", "position"} THEN want ELSE 0

Covered ==
  m.kv /\ ~d.refOnly =>
    /\ Len(d.history) + Cut <= m.kvPos
    /\ pc = "replay" /\ back = "idle" => Len(todo) + m.kvPos <= Window

BaseInv == TypeOK /\ Standing /\ Covered

-----------------------------------------------------------------------------
\* The text without its last token, which the next round feeds.
Before == ShorterBy(text, 1)

HistoryKept ==
  NoRepeats /\ NoneOf({"eval", "reference"}) =>
    /\ pc \in {"idle", "draft", "ensure", "sync", "restore", "position", "shadow", "rebuild"} =>
         d.history = Before
    /\ pc = "replay" => d.history \o todo = IF back = "prefill" THEN text ELSE Before
    /\ pc \in {"drafting", "verify"} => d.history = text \o out
    /\ pc = "rewind" => ShorterBy(d.history, want) = Before

\* Rounds that have been counted as corrections.
Counted ==
  conf.guard /\ ~conf.useRef /\ NoRepeats /\ NoneOf({"eval", "reference"}) =>
    /\ pc \in {"draft", "ensure", "sync"} => rounds <= d.corrections + 1
    /\ pc \notin {"off", "draft", "ensure", "sync"} => rounds <= d.corrections
    /\ pc = "sync" => back = "ensure"
    /\ pc \in {"ensure", "drafting", "verify"} /\ rounds > MinCorrections => d.refOnly

ReferenceKept ==
  NoneOf({"reference", "reset"}) =>
    /\ pc = "sync" => ref \o todo = d.history
    /\ NeedsReference =>
         /\ pc \in {"idle", "replay", "draft", "ensure", "drafting", "verify", "rewind"} =>
              ref = d.history
         /\ pc \in {"restore", "position", "shadow"} => ShorterBy(ref, want) = d.history

-----------------------------------------------------------------------------
\* The row of the token at p.
RowAt(h, p) == <<h[p], RoPERow(p - 1)>>

\* The rows a program with state surfaces has of the first n tokens of a text.
RowsOf(rows, h, n) ==
  /\ Len(rows) = Smaller(n, Window)
  /\ \A i \in 1..Len(rows) : rows[i] = RowAt(h, n - Len(rows) + i)

\* A model that has seen n tokens after a text, and rows that can be taken back.
Ahead(x, h, n) ==
  /\ x.pos = Len(h) + n
  /\ x.kind = "attention" =>
       /\ x.kvPos = x.pos
       /\ \A f \in Face : \A i \in 1..Len(h) : x.state[f][i] = RowAt(h, i)

Held(x, h) ==
  /\ Ahead(x, h, 0)
  /\ x.kind = "stateful" => \A f \in Face : RowsOf(x.state[f], h, Len(h))

SnapshotHeld(s, h, n) == s.pos = n /\ \A f \in Face : RowsOf(s.state[f], h, n)

\* The last k snapshots were taken before each of the last k tokens.
SnapshotsHeld(ss, h, k) ==
  /\ k <= Len(ss)
  /\ \A i \in 1..k : SnapshotHeld(ss[Len(ss) - k + i], h, Len(h) - k + i - 1)

ContextKept ==
  conf.model /\ ~d.refOnly /\ NoneOf({"eval", "capture", "reset"}) =>
    /\ pc \notin {"off", "restore", "position", "rebuild"} => Held(m, d.history)
    /\ pc \in {"restore", "position"} /\ m.kind # "stateful" => Ahead(m, d.history, want)
    /\ conf.direct /\ pc \in {"drafting", "verify", "rewind"} =>
         SnapshotsHeld(snaps, d.history, Len(out))
    /\ pc = "restore" /\ Len(snaps) >= want =>
         SnapshotHeld(snaps[Len(snaps) - want + 1], d.history, Len(d.history))

IInv == BaseInv /\ HistoryKept /\ Counted /\ ReferenceKept /\ ContextKept
-----------------------------------------------------------------------------
\* What the calls of the draft model do.
LEMMA RoPERowIs ==
  ASSUME NEW p \in Nat
  PROVE  RoPERow(p) \in 0..(Window - 1) /\ (p < Window => RoPERow(p) = p)
BY WindowAssumption DEF RoPERow

\* The row an evaluation adds, by kind.
LEMMA WithRowIs ==
  ASSUME NEW x, NEW f, NEW t
  PROVE  /\ x.kind = "attention" =>
              WithRow(x, f, t) = [x.state[f] EXCEPT ![x.kvPos + 1] = <<t, RoPERow(x.pos)>>]
         /\ x.kind = "stateful" => WithRow(x, f, t) = Append1(x.state[f], <<t, RoPERow(x.pos)>>)
         /\ x.kind = "plain" => WithRow(x, f, t) = x.state[f]
BY Zenon DEF WithRow

\* A program's state with a row more.
LEMMA Append1Is ==
  ASSUME NEW rows \in Seq(Cell), Len(rows) <= Window, NEW row \in Cell
  PROVE  /\ Append1(rows, row) \in Seq(Cell)
         /\ Len(rows) < Window => Append1(rows, row) = Append(rows, row)
         /\ Len(rows) = Window =>
              /\ Len(Append1(rows, row)) = Window
              /\ \A i \in 1..(Window - 1) : Append1(rows, row)[i] = rows[i + 1]
              /\ Append1(rows, row)[Window] = row
<1>0. Window \in Nat \ {0} /\ Len(rows) \in Nat
  BY WindowAssumption
<1>1. CASE Len(rows) < Window
  <2>1. Append1(rows, row) = Append(rows, row)
    BY <1>1 DEF Append1
  <2> QED
    BY <1>0, <1>1, <2>1
<1>2. CASE Len(rows) = Window
  <2>1. Append1(rows, row) = Append(Tail(rows), row)
    BY <1>0, <1>2 DEF Append1
  <2>2. Tail(rows) \in Seq(Cell) /\ Len(Tail(rows)) = Window - 1
    BY <1>0, <1>2
  <2>3. \A i \in 1..(Window - 1) : Tail(rows)[i] = rows[i + 1]
    BY <1>0, <1>2
  <2> QED
    BY <1>0, <1>2, <2>1, <2>2, <2>3
<1> QED
  BY <1>0, <1>1, <1>2

\* A surface has rows after an evaluation as well.
LEMMA WithRowType ==
  ASSUME NEW x \in Model, NEW f \in Face, NEW t \in Token, EvalOk(x),
         x.kind = "attention" => Len(x.state[f]) = Window,
         x.kind = "stateful" => Len(x.state[f]) <= Window
  PROVE  WithRow(x, f, t) \in Seq(Cell)
<1>0. x.state[f] \in Seq(Cell) /\ x.pos \in Nat /\ x.kvPos \in Nat /\ Window \in Nat
  BY WindowAssumption DEF Model
<1>1. <<t, RoPERow(x.pos)>> \in Cell
  BY <1>0, RoPERowIs DEF Cell, Row
<1>2. CASE x.kind = "attention"
  <2>1. x.kvPos + 1 \in 1..Window
    BY <1>0, <1>2 DEF EvalOk
  <2>2. WithRow(x, f, t) = [x.state[f] EXCEPT ![x.kvPos + 1] = <<t, RoPERow(x.pos)>>]
    BY <1>2, WithRowIs
  <2> DEFINE rows == x.state[f]
             row == <<t, RoPERow(x.pos)>>
  <2>3. rows \in Seq(Cell) /\ Len(rows) = Window /\ row \in Cell
    BY <1>0, <1>1, <1>2
  <2>4. WithRow(x, f, t) = [rows EXCEPT ![x.kvPos + 1] = row]
    BY <2>2
  <2> HIDE DEF rows, row
  <2>5. [rows EXCEPT ![x.kvPos + 1] = row] \in Seq(Cell)
    BY <2>1, <2>3, ExceptSeq
  <2> QED
    BY <2>4, <2>5
<1>3. CASE x.kind = "stateful"
  BY <1>0, <1>1, <1>3, WithRowIs, Append1Is
<1>4. CASE x.kind = "plain"
  <2>1. WithRow(x, f, t) = x.state[f]
    BY <1>4, WithRowIs, Zenon
  <2> QED
    BY <1>0, <2>1
<1> QED
  BY <1>2, <1>3, <1>4 DEF Model

\* The size of a surface.
SizedRow(x, rows) ==
  /\ x.kind = "attention" => Len(rows) = Window
  /\ x.kind = "stateful" => Len(rows) <= Window
  /\ x.kind = "plain" => rows = << >>

LEMMA WithRowSize ==
  ASSUME NEW x \in Model, NEW f \in Face, NEW t \in Token, EvalOk(x), Sized(x)
  PROVE  SizedRow(x, WithRow(x, f, t))
<1>0. x.state[f] \in Seq(Cell) /\ x.pos \in Nat /\ x.kvPos \in Nat /\ Window \in Nat
  BY WindowAssumption DEF Model
<1> DEFINE row == <<t, RoPERow(x.pos)>>
           rows == x.state[f]
<1>1. row \in Cell
  BY <1>0, RoPERowIs DEF Cell, Row
<1>2. rows \in Seq(Cell)
  BY <1>0
<1>3. CASE x.kind = "attention"
  <2>1. WithRow(x, f, t) = [rows EXCEPT ![x.kvPos + 1] = row]
    BY <1>3, WithRowIs
  <2>2. Len(rows) = Window
    BY <1>3 DEF Sized
  <2> HIDE DEF row, rows
  <2>3. Len([rows EXCEPT ![x.kvPos + 1] = row]) = Len(rows)
    BY <1>2
  <2> QED
    BY <1>3, <2>1, <2>2, <2>3 DEF SizedRow
<1>4. CASE x.kind = "stateful"
  <2>1. WithRow(x, f, t) = Append1(rows, row) /\ Len(rows) <= Window
    BY <1>4, WithRowIs DEF Sized
  <2> HIDE DEF row, rows
  <2>2. Len(Append1(rows, row)) <= Window
    <3>1. CASE Len(rows) < Window
      BY <1>0, <1>1, <1>2, <3>1, Append1Is
    <3>2. CASE Len(rows) = Window
      BY <1>0, <1>1, <1>2, <3>2, Append1Is
    <3> QED
      BY <1>0, <1>2, <2>1, <3>1, <3>2
  <2> QED
    BY <1>4, <2>1, <2>2 DEF SizedRow
<1>5. CASE x.kind = "plain"
  <2>1. WithRow(x, f, t) = x.state[f] /\ x.state[f] = << >>
    BY <1>5, WithRowIs DEF Sized
  <2> QED
    BY <1>5, <2>1 DEF SizedRow
<1> QED
  BY <1>3, <1>4, <1>5 DEF Model

\* A K surface of another content.
LEMMA TakesRows ==
  ASSUME NEW x \in Model, NEW rows \in Seq(Cell), NEW y, y = [x EXCEPT !.state["K"] = rows]
  PROVE  /\ y \in Model
         /\ y.kind = x.kind /\ y.kv = x.kv /\ y.closed = x.closed
         /\ y.pos = x.pos /\ y.kvPos = x.kvPos
         /\ y.state["K"] = rows /\ y.state["V"] = x.state["V"]
<1> DEFINE new == [x.state EXCEPT !["K"] = rows]
<1>1. new \in [Face -> Seq(Cell)] /\ new["K"] = rows /\ new["V"] = x.state["V"]
  BY DEF Model
<1>2. y = [x EXCEPT !.state = new]
  OBVIOUS
<1> HIDE DEF new
<1> QED
  BY <1>1, <1>2 DEF Model

\* A model that is the same but for its rows and its positions.
Like(y, x) ==
  /\ y \in Model
  /\ y.kind = x.kind /\ y.kv = x.kv /\ y.closed = x.closed
  /\ Sized(y)

\* An evaluation changes the state surfaces and nothing else.
LEMMA AfterEvalIs ==
  ASSUME NEW x \in Model, NEW t \in Token, EvalOk(x), Sized(x)
  PROVE  /\ Like(AfterEval(x, t), x)
         /\ AfterEval(x, t).pos = x.pos /\ AfterEval(x, t).kvPos = x.kvPos
         /\ \A f \in Face : AfterEval(x, t).state[f] = WithRow(x, f, t)
<1> DEFINE rows == [f \in Face |-> WithRow(x, f, t)]
           y == AfterEval(x, t)
<1>1. \A f \in Face : WithRow(x, f, t) \in Seq(Cell)
  BY WithRowType DEF Sized
<1>2. rows \in [Face -> Seq(Cell)] /\ \A f \in Face : rows[f] = WithRow(x, f, t)
  BY <1>1
<1>3. y = [x EXCEPT !.state = rows]
  BY DEF AfterEval
<1>4. \A f \in Face : SizedRow(x, WithRow(x, f, t))
  BY WithRowSize
<1> HIDE DEF rows, y
<1>5. /\ y \in Model /\ y.kind = x.kind /\ y.kv = x.kv /\ y.closed = x.closed
      /\ y.pos = x.pos /\ y.kvPos = x.kvPos /\ y.state = rows
  BY <1>2, <1>3 DEF Model
<1>6. Sized(y)
  BY <1>2, <1>4, <1>5 DEF Sized, SizedRow
<1> QED
  BY <1>2, <1>5, <1>6 DEF y, Like

\* A failing evaluation has written its row, or part of it, or nothing.
LEMMA AfterFailedEvalIs ==
  ASSUME NEW x \in Model, NEW t \in Token, Sized(x), NEW y \in AfterFailedEval(x, t)
  PROVE  Like(y, x) /\ y.pos = x.pos /\ y.kvPos = x.kvPos
<1>1. CASE ~EvalOk(x)
  <2>1. AfterFailedEval(x, t) = {x}
    BY <1>1 DEF AfterFailedEval
  <2> QED
    BY <2>1 DEF Like
<1>2. CASE EvalOk(x) /\ x.kind = "attention"
  <2>1. AfterFailedEval(x, t) = {x, [x EXCEPT !.state["K"] = WithRow(x, "K", t)]}
    BY <1>2 DEF AfterFailedEval
  <2>2. WithRow(x, "K", t) \in Seq(Cell) /\ SizedRow(x, WithRow(x, "K", t))
    BY <1>2, WithRowType, WithRowSize DEF Sized
  <2> DEFINE row == WithRow(x, "K", t)
  <2>3. y = x \/ y = [x EXCEPT !.state["K"] = row]
    BY <2>1
  <2>4. row \in Seq(Cell) /\ SizedRow(x, row)
    BY <2>2
  <2> HIDE DEF row
  <2>5. CASE y = x
    BY <2>5 DEF Like
  <2>6. CASE y = [x EXCEPT !.state["K"] = row]
    <3>1. Len(row) = Window
      BY <1>2, <2>4 DEF SizedRow
    <3> QED
      BY <1>2, <2>4, <2>6, <3>1, TakesRows DEF Sized, Like
  <2> QED
    BY <2>3, <2>5, <2>6
<1>3. CASE EvalOk(x) /\ x.kind # "attention"
  <2>1. AfterFailedEval(x, t) = {x, AfterEval(x, t)}
    BY <1>3 DEF AfterFailedEval
  <2> QED
    BY <1>3, <2>1, AfterEvalIs DEF Like
<1> QED
  BY <1>1, <1>2, <1>3

\* Advance moves the positions and nothing else.
LEMMA AfterAdvanceIs ==
  ASSUME NEW x \in Model, NEW y, y = AfterAdvance(x)
  PROVE  /\ y \in Model
         /\ y.kind = x.kind /\ y.kv = x.kv /\ y.closed = x.closed /\ y.state = x.state
         /\ y.pos = x.pos + 1
         /\ y.kvPos = IF x.kv THEN x.kvPos + 1 ELSE x.kvPos
<1> DEFINE next == IF x.kv THEN x.kvPos + 1 ELSE x.kvPos
<1>1. x.pos + 1 \in Nat /\ next \in Nat
  BY DEF Model
<1>2. y = [x EXCEPT !.pos = x.pos + 1, !.kvPos = next]
  BY DEF AfterAdvance
<1> HIDE DEF next
<1>3. y \in Model /\ y.kind = x.kind /\ y.kv = x.kv /\ y.closed = x.closed /\ y.state = x.state
      /\ y.pos = x.pos + 1 /\ y.kvPos = next
  BY <1>1, <1>2 DEF Model
<1> QED
  BY <1>3 DEF next

\* A surface whose last rows are zeroed.
LEMMA ZeroedLastIs ==
  ASSUME NEW x \in Model, Sized(x), NEW f \in Face, NEW n \in Nat
  PROVE  /\ ZeroedLast(x, f, n) \in Seq(Cell)
         /\ SizedRow(x, ZeroedLast(x, f, n))
         /\ x.kind # "attention" => ZeroedLast(x, f, n) = x.state[f]
         /\ x.kind = "attention" =>
              \A i \in 1..Window : i <= x.kvPos - n => ZeroedLast(x, f, n)[i] = x.state[f][i]
<1>0. x.state[f] \in Seq(Cell) /\ x.kvPos \in Nat /\ Window \in Nat
  BY WindowAssumption DEF Model
<1>1. CASE x.kind # "attention"
  <2>1. ZeroedLast(x, f, n) = x.state[f]
    BY <1>1 DEF ZeroedLast
  <2> QED
    BY <1>0, <1>1, <2>1 DEF Sized, SizedRow
<1>2. CASE x.kind = "attention"
  <2> DEFINE rows == x.state[f]
             new == [i \in 1..Window |-> IF i > x.kvPos - n /\ i <= x.kvPos THEN Blank ELSE rows[i]]
  <2>1. ZeroedLast(x, f, n) = new
    BY <1>2 DEF ZeroedLast
  <2>2. rows \in Seq(Cell) /\ Len(rows) = Window
    BY <1>0, <1>2 DEF Sized
  <2>3. \A i \in 1..Window : rows[i] \in Cell
    BY <2>2
  <2>4. new \in [1..Window -> Cell]
    BY <2>3 DEF Cell
  <2>5. new \in Seq(Cell) /\ Len(new) = Window
    BY <1>0, <2>4
  <2>6. \A i \in 1..Window : i <= x.kvPos - n => new[i] = rows[i]
    BY <1>0
  <2> HIDE DEF new
  <2> QED
    BY <1>2, <2>1, <2>5, <2>6 DEF SizedRow
<1> QED
  BY <1>1, <1>2

\* Surfaces of the size of the model's.
Surfaces(x, rows) == rows \in [Face -> Seq(Cell)] /\ \A f \in Face : SizedRow(x, rows[f])

LEMMA SurfacesSized ==
  ASSUME NEW x, NEW y, y.kind = x.kind, Surfaces(x, y.state)
  PROVE  Sized(y)
BY DEF Sized, SizedRow, Surfaces

LEMMA AfterRewindIs ==
  ASSUME NEW x \in Model, Sized(x), NEW n \in Nat, NEW y, y = AfterRewind(x, n)
  PROVE  /\ Like(y, x)
         /\ y.pos = Larger(x.pos - n, 0) /\ y.kvPos = Larger(x.kvPos - n, 0)
         /\ \A f \in Face : y.state[f] = ZeroedLast(x, f, n)
<1> DEFINE rows == [f \in Face |-> ZeroedLast(x, f, n)]
           p == Larger(x.pos - n, 0)
           q == Larger(x.kvPos - n, 0)
<1>1. p \in Nat /\ q \in Nat
  BY DEF Larger, Model
<1>2. Surfaces(x, rows)
  BY ZeroedLastIs DEF Surfaces
<1>3. y = [x EXCEPT !.state = rows, !.kvPos = q, !.pos = p]
  BY DEF AfterRewind
<1>4. \A f \in Face : rows[f] = ZeroedLast(x, f, n)
  OBVIOUS
<1> HIDE DEF rows, p, q
<1>5. /\ y \in Model /\ y.kind = x.kind /\ y.kv = x.kv /\ y.closed = x.closed
      /\ y.state = rows /\ y.pos = p /\ y.kvPos = q
  BY <1>1, <1>2, <1>3 DEF Model, Surfaces
<1>6. Sized(y)
  BY <1>2, <1>5, SurfacesSized
<1> QED
  BY <1>4, <1>5, <1>6 DEF p, q, Like

LEMMA AfterFailedRewindIs ==
  ASSUME NEW x \in Model, Sized(x), NEW n \in Nat, NEW y \in AfterFailedRewind(x, n)
  PROVE  Like(y, x) /\ y.pos = x.pos /\ y.kvPos = x.kvPos
<1> DEFINE row == ZeroedLast(x, "K", n)
<1>1. y = x \/ y = [x EXCEPT !.state["K"] = row]
  BY DEF AfterFailedRewind
<1>2. row \in Seq(Cell) /\ SizedRow(x, row)
  BY ZeroedLastIs
<1> HIDE DEF row
<1>3. CASE y = x
  BY <1>3 DEF Like
<1>4. CASE y = [x EXCEPT !.state["K"] = row]
  BY <1>2, <1>4, TakesRows DEF Sized, SizedRow, Like
<1> QED
  BY <1>1, <1>3, <1>4

LEMMA AfterResetIs ==
  ASSUME NEW x \in Model, Sized(x), NEW y, y = AfterReset(x)
  PROVE  /\ Like(y, x) /\ y.pos = 0 /\ y.kvPos = 0
         /\ x.kind = "stateful" => \A f \in Face : y.state[f] = << >>
<1> DEFINE rows == IF x.kind = "stateful" THEN NewState("stateful")
                   ELSE [f \in Face |-> ZeroedLast(x, f, x.kvPos)]
<1>1. Surfaces(x, rows) /\ (x.kind = "stateful" => \A f \in Face : rows[f] = << >>)
  <2>1. CASE x.kind = "stateful"
    <3>1. rows = [f \in Face |-> << >>]
      BY <2>1 DEF NewState
    <3> HIDE DEF rows
    <3>2. \A f \in Face : rows[f] = << >>
      BY <3>1
    <3>3. rows \in [Face -> Seq(Cell)]
      BY <3>1
    <3>4. Len(<< >>) <= Window
      BY WindowAssumption
    <3> QED
      BY <2>1, <3>2, <3>3, <3>4 DEF SizedRow, Surfaces
  <2>2. CASE x.kind # "stateful"
    <3>1. x.kvPos \in Nat
      BY DEF Model
    <3>2. rows = [f \in Face |-> ZeroedLast(x, f, x.kvPos)]
      BY <2>2
    <3> QED
      BY <2>2, <3>1, <3>2, ZeroedLastIs DEF Surfaces
  <2> QED
    BY <2>1, <2>2
<1>2. y = [x EXCEPT !.state = rows, !.kvPos = 0, !.pos = 0]
  BY DEF AfterReset
<1> HIDE DEF rows
<1>3. /\ y \in Model /\ y.kind = x.kind /\ y.kv = x.kv /\ y.closed = x.closed
      /\ y.state = rows /\ y.pos = 0 /\ y.kvPos = 0
  <2>1. rows \in [Face -> Seq(Cell)]
    BY <1>1 DEF Surfaces
  <2> DEFINE p == 0
  <2>2. p \in Nat /\ y = [x EXCEPT !.state = rows, !.kvPos = p, !.pos = p]
    BY <1>2
  <2> HIDE DEF p
  <2>3. /\ y \in Model /\ y.kind = x.kind /\ y.kv = x.kv /\ y.closed = x.closed
        /\ y.state = rows /\ y.pos = p /\ y.kvPos = p
    BY <2>1, <2>2 DEF Model
  <2> QED
    BY <2>3 DEF p
<1>4. Sized(y)
  BY <1>1, <1>3, SurfacesSized
<1> QED
  BY <1>1, <1>3, <1>4 DEF Like

LEMMA AfterFailedResetIs ==
  ASSUME NEW x \in Model, Sized(x), NEW y \in AfterFailedReset(x)
  PROVE  Like(y, x) /\ y.kvPos = x.kvPos
<1> DEFINE row == ZeroedLast(x, "K", x.kvPos)
<1>1. \/ y = x
      \/ y = [x EXCEPT !.pos = 0]
      \/ y = [x EXCEPT !.pos = 0, !.state["K"] = row]
  BY DEF AfterFailedReset
<1>2. row \in Seq(Cell) /\ SizedRow(x, row)
  BY ZeroedLastIs DEF Model
<1> HIDE DEF row
<1>3. CASE y = x
  BY <1>3 DEF Like
<1>4. CASE y = [x EXCEPT !.pos = 0]
  BY <1>4 DEF Like, Sized, Model
<1>5. CASE y = [x EXCEPT !.pos = 0, !.state["K"] = row]
  <2> DEFINE rows == [x.state EXCEPT !["K"] = row]
  <2>1. /\ rows \in [Face -> Seq(Cell)] /\ rows["K"] = row /\ rows["V"] = x.state["V"]
    BY <1>2 DEF Model
  <2>2. y = [x EXCEPT !.pos = 0, !.state = rows]
    BY <1>5
  <2>3. Surfaces(x, rows)
    BY <1>2, <2>1 DEF Sized, SizedRow, Surfaces
  <2> HIDE DEF rows
  <2>4. /\ y \in Model /\ y.kind = x.kind /\ y.kv = x.kv /\ y.closed = x.closed
        /\ y.kvPos = x.kvPos /\ y.state = rows
    BY <2>1, <2>2 DEF Model
  <2>5. Sized(y)
    BY <2>3, <2>4, SurfacesSized
  <2> QED
    BY <2>4, <2>5 DEF Like
<1> QED
  BY <1>1, <1>3, <1>4, <1>5

LEMMA AfterRestoreIs ==
  ASSUME NEW x \in Model, x.kind = "stateful", NEW s \in Snapshot,
         \A f \in Face : Len(s.state[f]) <= Window, NEW y, y = AfterRestore(x, s)
  PROVE  Like(y, x) /\ y.kvPos = x.kvPos /\ y.pos = s.pos /\ y.state = s.state
<1> DEFINE rows == s.state
           p == s.pos
           q == x.kvPos
<1>1. Surfaces(x, rows) /\ p \in Nat
  BY DEF Snapshot, SizedRow, Surfaces
<1>2. q \in Nat /\ y = [x EXCEPT !.state = rows, !.kvPos = q, !.pos = p]
  BY DEF AfterRestore, Model
<1> HIDE DEF rows, p, q
<1>3. /\ y \in Model /\ y.kind = x.kind /\ y.kv = x.kv /\ y.closed = x.closed
      /\ y.state = rows /\ y.pos = p /\ y.kvPos = q
  BY <1>1, <1>2 DEF Model, Surfaces
<1>4. Sized(y)
  BY <1>1, <1>3, SurfacesSized
<1> QED
  BY <1>3, <1>4 DEF rows, p, q, Like

LEMMA AfterFailedRestoreIs ==
  ASSUME NEW x \in Model, Sized(x), NEW s \in Snapshot,
         \A f \in Face : Len(s.state[f]) <= Window, NEW y \in AfterFailedRestore(x, s)
  PROVE  /\ Like(y, x) /\ y.kvPos = x.kvPos /\ y.pos = x.pos
         /\ x.kind # "stateful" => y = x
<1> DEFINE row == s.state["K"]
<1>1. y = x \/ (x.kind = "stateful" /\ y = [x EXCEPT !.state["K"] = row])
  BY DEF AfterFailedRestore, SnapshotOk
<1>2. row \in Seq(Cell) /\ Len(row) <= Window
  BY DEF Snapshot
<1> HIDE DEF row
<1>3. CASE y = x
  BY <1>3 DEF Like
<1>4. CASE x.kind = "stateful" /\ y = [x EXCEPT !.state["K"] = row]
  BY <1>2, <1>4, TakesRows DEF Sized, Like
<1> QED
  BY <1>1, <1>3, <1>4

-----------------------------------------------------------------------------
\* The drafter's own fields.
Fields == [history : Seq(Token), ready : BOOLEAN, refOnly : BOOLEAN, drafted : Nat,
           rewound : Nat, corrections : Nat]

LEMMA TypeIs ==
  TypeOK <=>
    /\ faulty \in FaultSets /\ conf \in Drafters
    /\ m \in Model /\ d \in Fields /\ snaps \in Seq(Snapshot)
    /\ ref \in Seq(Token) /\ text \in Seq(Token) /\ out \in Seq(Token) /\ todo \in Seq(Token)
    /\ want \in Nat
    /\ pc \in {"off", "idle", "replay", "sync", "draft", "ensure", "drafting", "verify",
               "rewind", "restore", "position", "shadow", "rebuild"}
    /\ back \in {"off", "prefill", "ensure", "idle"}
    /\ rounds \in Nat /\ started \in Nat
BY DEF TypeOK, Fields

\* The same of the next state.
LEMMA TypeIsNext ==
  TypeOK' <=>
    /\ faulty' \in FaultSets /\ conf' \in Drafters
    /\ m' \in Model /\ d' \in Fields /\ snaps' \in Seq(Snapshot)
    /\ ref' \in Seq(Token) /\ text' \in Seq(Token) /\ out' \in Seq(Token) /\ todo' \in Seq(Token)
    /\ want' \in Nat
    /\ pc' \in {"off", "idle", "replay", "sync", "draft", "ensure", "drafting", "verify",
                "rewind", "restore", "position", "shadow", "rebuild"}
    /\ back' \in {"off", "prefill", "ensure", "idle"}
    /\ rounds' \in Nat /\ started' \in Nat
BY DEF TypeOK, Fields

\* A drafter as NewANEDrafter may configure it.
LEMMA Configured ==
  ASSUME TypeOK
  PROVE  /\ conf \in Config
         /\ conf.kind \in Kind
         /\ {conf.kv, conf.model, conf.direct, conf.runner, conf.useRef, conf.taps, conf.guard,
             conf.prefer} \subseteq BOOLEAN
         /\ conf.direct => conf.kind = "stateful"
         /\ conf.kind = "attention" => conf.kv
         /\ conf.guard \/ conf.prefer => conf.runner
         /\ ~conf.model => conf.prefer
<1>1. conf \in Drafters
  BY TypeIs
<1>2. /\ conf \in Config
      /\ conf.direct => conf.kind = "stateful"
      /\ conf.kind = "attention" => conf.kv
      /\ conf.guard \/ conf.prefer => conf.runner
      /\ ~conf.model => conf.prefer
  BY <1>1, DrafterAssumption
<1> QED
  BY <1>2 DEF Config

\* The numbers of a state.
LEMMA Numbers ==
  ASSUME TypeOK
  PROVE  /\ Window \in Nat \ {0} /\ m.pos \in Nat /\ m.kvPos \in Nat
         /\ m.kv \in BOOLEAN /\ m.closed \in BOOLEAN
         /\ d.history \in Seq(Token) /\ Len(d.history) \in Nat
         /\ d.corrections \in Nat /\ d.drafted \in Nat /\ d.rewound \in Nat
         /\ d.refOnly \in BOOLEAN /\ d.ready \in BOOLEAN
         /\ Len(snaps) \in Nat /\ Len(ref) \in Nat /\ Len(text) \in Nat /\ Len(out) \in Nat
         /\ Len(todo) \in Nat /\ want \in Nat /\ rounds \in Nat
BY TypeIs, WindowAssumption DEF Model, Fields

\* What a feed that succeeds does, in the drafter e.
LEMMA FeedOkIs ==
  ASSUME TypeOK, Standing, NEW e \in Fields, e.refOnly = d.refOnly, NEW t \in Token, FeedOk(e, t)
  PROVE  /\ Like(m', m) /\ m'.kvPos <= Window
         /\ m.kv /\ ~d.refOnly => m'.kvPos = m.kvPos + 1
         /\ ref' \in Seq(Token)
         /\ d' \in Fields /\ d'.history = Append(e.history, t) /\ d'.ready
         /\ d'.refOnly = d.refOnly /\ d'.corrections = e.corrections
         /\ d.refOnly => ref' = Append(ref, t) /\ m' = m
         /\ ~d.refOnly => /\ EvalOk(m) /\ AdvanceOk(m) /\ m' = AfterAdvance(AfterEval(m, t))
                          /\ ref' \in Shadowed(t)
<1>0. m \in Model /\ ref \in Seq(Token) /\ Sized(m) /\ m.kvPos <= Window
  BY TypeIs DEF Standing
<1>1. d' \in Fields /\ d'.history = Append(e.history, t) /\ d'.ready
      /\ d'.refOnly = e.refOnly /\ d'.corrections = e.corrections
  <2> DEFINE h == Append(e.history, t)
             r == TRUE
  <2>1. h \in Seq(Token) /\ r \in BOOLEAN
    BY DEF Fields
  <2>2. d' = [e EXCEPT !.history = h, !.ready = r]
    BY DEF FeedOk
  <2> HIDE DEF h, r
  <2>3. d' \in Fields /\ d'.history = h /\ d'.ready = r
        /\ d'.refOnly = e.refOnly /\ d'.corrections = e.corrections
    BY <2>1, <2>2 DEF Fields
  <2> QED
    BY <2>3 DEF h, r
<1>2. CASE d.refOnly
  <2>1. m' = m /\ ref' = Append(ref, t)
    BY <1>2 DEF FeedOk
  <2> QED
    BY <1>0, <1>1, <1>2, <2>1 DEF Like
<1>3. CASE ~d.refOnly
  <2>1. EvalOk(m) /\ AdvanceOk(m) /\ m' = AfterAdvance(AfterEval(m, t)) /\ ref' \in Shadowed(t)
    BY <1>3 DEF FeedOk
  <2>2. ref' \in Seq(Token)
    BY <1>0, <2>1 DEF Shadowed
  <2> DEFINE x == AfterEval(m, t)
             y == AfterAdvance(x)
  <2>3. Like(x, m) /\ x.pos = m.pos /\ x.kvPos = m.kvPos
    BY <1>0, <2>1, AfterEvalIs
  <2>4. m' = y
    BY <2>1
  <2> HIDE DEF x
  <2>5. y \in Model /\ y.kind = x.kind /\ y.kv = x.kv /\ y.closed = x.closed /\ y.state = x.state
        /\ y.kvPos = IF x.kv THEN x.kvPos + 1 ELSE x.kvPos
    BY <2>3, AfterAdvanceIs DEF Like
  <2> HIDE DEF y
  <2>6. Like(y, m)
    BY <2>3, <2>5 DEF Like, Sized
  <2>7. m.kvPos \in Nat /\ Window \in Nat
    BY Numbers
  <2>8. y.kvPos <= Window /\ (m.kv => y.kvPos = m.kvPos + 1)
    BY <1>0, <2>1, <2>3, <2>5, <2>7 DEF AdvanceOk, Like
  <2> QED
    BY <1>1, <1>3, <2>1, <2>2, <2>4, <2>6, <2>8
<1> QED
  BY <1>2, <1>3

\* What a feed that fails does, and why it does.
LEMMA FeedFailsIs ==
  ASSUME TypeOK, Standing, NEW e \in Fields, e.refOnly = d.refOnly, NEW t \in Token,
         FeedFails(e, t)
  PROVE  /\ Like(m', m) /\ m'.kvPos = m.kvPos
         /\ ref' \in Seq(Token)
         /\ d' = e
         /\ d.refOnly => May("reference")
         /\ ~d.refOnly => May("eval") \/ ~EvalOk(m) \/ ~AdvanceOk(m)
<1>0. m \in Model /\ ref \in Seq(Token) /\ Sized(m)
  BY TypeIs DEF Standing
<1>1. ref' \in Seq(Token)
  BY <1>0 DEF FeedFails, Shadowed
<1>2. CASE m' = m
  BY <1>0, <1>1, <1>2 DEF FeedFails, Like
<1>3. CASE ~d.refOnly /\ m' \in AfterFailedEval(m, t)
  BY <1>0, <1>1, <1>3, AfterFailedEvalIs DEF FeedFails
<1>4. CASE ~d.refOnly /\ EvalOk(m) /\ ~AdvanceOk(m) /\ m' = AfterEval(m, t)
  BY <1>0, <1>1, <1>4, AfterEvalIs DEF FeedFails
<1> QED
  BY <1>2, <1>3, <1>4 DEF FeedFails

-----------------------------------------------------------------------------
\* A model as it is opened.
LEMMA OpenedIs ==
  ASSUME NEW kind \in Kind, NEW kv \in BOOLEAN, NEW x, x = Opened(kind, kv)
  PROVE  /\ x \in Model /\ x.kind = kind /\ x.kv = kv /\ x.pos = 0 /\ x.kvPos = 0 /\ ~x.closed
         /\ Sized(x)
<1> DEFINE rows == NewState(kind)
<1>1. rows \in [Face -> Seq(Cell)]
  BY WindowAssumption DEF NewState, Cell
<1>2. /\ kind = "attention" => \A f \in Face : Len(rows[f]) = Window
      /\ kind # "attention" => \A f \in Face : rows[f] = << >>
  BY WindowAssumption DEF NewState
<1>3. x = [kind |-> kind, kv |-> kv, state |-> rows, pos |-> 0, kvPos |-> 0, closed |-> FALSE]
  BY DEF Opened
<1>4. 0 \in Nat /\ FALSE \in BOOLEAN
  OBVIOUS
<1> HIDE DEF rows
<1>5. x \in Model
  BY <1>1, <1>3, <1>4 DEF Model
<1>6. /\ x.kind = kind /\ x.kv = kv /\ x.pos = 0 /\ x.kvPos = 0 /\ ~x.closed /\ x.state = rows
  BY <1>3
<1>7. Sized(x)
  BY <1>2, <1>6, WindowAssumption DEF Sized
<1> QED
  BY <1>5, <1>6, <1>7

\* The fields of a new generation.
LEMMA NewDrafterIs ==
  ASSUME TypeOK \/ conf.prefer \in BOOLEAN, NEW e, e = NewDrafter(conf)
  PROVE  /\ e \in Fields /\ e.history = << >> /\ ~e.ready /\ e.refOnly = conf.prefer
         /\ e.corrections = 0
<1>1. conf.prefer \in BOOLEAN
  BY Configured
<1> QED
  BY <1>1 DEF NewDrafter, Fields

LEMMA BaseInit ==
  Init => BaseInv
<1> SUFFICES ASSUME Init PROVE BaseInv
  OBVIOUS
<1>1. /\ conf \in Config
      /\ conf.kind \in Kind /\ conf.kv \in BOOLEAN /\ conf.prefer \in BOOLEAN
      /\ conf.prefer => conf.runner
      /\ ~conf.model => conf.prefer
  BY DrafterAssumption DEF Init, Config
<1> DEFINE kind == conf.kind
           kv == conf.kv
<1>2. kind \in Kind /\ kv \in BOOLEAN /\ m = Opened(kind, kv)
  BY <1>1 DEF Init
<1>3. /\ m \in Model /\ m.kind = kind /\ m.kv = kv /\ m.pos = 0 /\ m.kvPos = 0 /\ ~m.closed
      /\ Sized(m)
  <2> HIDE DEF kind, kv
  <2> QED
    BY <1>2, OpenedIs, Zenon
<1>4. d \in Fields /\ d.history = << >> /\ d.refOnly = conf.prefer
  BY <1>1, NewDrafterIs DEF Init
<1>5. TypeOK
  BY <1>3, <1>4, TypeIs DEF Init
<1>6. Standing
  BY <1>1, <1>3, <1>4, WindowAssumption DEF Init, Standing
<1>7. Covered
  BY <1>3, <1>4 DEF Init, Covered, Cut
<1> QED
  BY <1>5, <1>6, <1>7 DEF BaseInv

\* A step that begins a generation, or ends one; m is reset, or it cannot be.
LEMMA ClearedKeeps ==
  ASSUME BaseInv, Prefill \/ PrefillFails \/ Reset
  PROVE  BaseInv'
<1>0. TypeOK /\ Standing /\ Covered
  BY DEF BaseInv
<1>1. m \in Model /\ Sized(m) /\ m.kvPos \in Nat /\ m.kvPos <= Window /\ Window \in Nat
  BY <1>0, Numbers, TypeIs DEF Standing
<1>2. /\ Like(m', m) /\ m'.kvPos <= Window
      /\ m' = m \/ m' = AfterReset(m) \/ m'.kvPos = m.kvPos
  <2>1. m' = m \/ m' = AfterReset(m) \/ m' \in AfterFailedReset(m)
    BY DEF Prefill, PrefillFails, Reset
  <2>2. CASE m' = m
    BY <1>1, <2>2 DEF Like
  <2>3. CASE m' = AfterReset(m)
    BY <1>1, <2>3, AfterResetIs
  <2>4. CASE m' \in AfterFailedReset(m)
    BY <1>1, <2>4, AfterFailedResetIs
  <2> QED
    BY <2>1, <2>2, <2>3, <2>4
<1>3. m' \in Model /\ m'.kind = m.kind /\ m'.kv = m.kv /\ m'.closed = m.closed /\ Sized(m')
  BY <1>2 DEF Like
<1>4. CASE Prefill \/ Reset
  <2>1. /\ UNCHANGED <<faulty, conf, want>>
        /\ d' = NewDrafter(conf) /\ snaps' = << >> /\ ref' = << >> /\ out' = << >>
        /\ started' = started + 1 /\ rounds' = 0
        /\ pc' \in {"off", "replay"} /\ (pc' = "replay" => back' = "prefill" /\ Prefill)
    BY <1>4 DEF Prefill, Reset, Cleared, fixed
  <2>2. d' \in Fields /\ d'.history = << >> /\ d'.refOnly = conf.prefer
    BY <1>0, <2>1, NewDrafterIs
  <2>3. back' \in {back, "prefill"}
    BY <1>4 DEF Prefill, Reset
  <2>4. text' \in Seq(Token) /\ todo' \in Seq(Token) /\ (Prefill => Len(text') > 0)
    <3>1. CASE Prefill
      <4>1. PICK prompt \in {<<t>> : t \in Token} \cup (Token \X Token) :
              text' = prompt /\ todo' = prompt
        BY <3>1 DEF Prefill
      <4>2. prompt \in Seq(Token) /\ Len(prompt) > 0
        <5>1. CASE \E t \in Token : prompt = <<t>>
          BY <5>1
        <5>2. CASE \E t, u \in Token : prompt = <<t, u>>
          BY <5>2
        <5> QED
          BY <5>1, <5>2
      <4> QED
        BY <4>1, <4>2
    <3>2. CASE Reset /\ ~Prefill
      BY <1>0, <3>2, TypeIs DEF Reset
    <3> QED
      BY <1>4, <3>1, <3>2
  <2>5. TypeOK'
    BY <1>0, <1>3, <2>1, <2>2, <2>3, <2>4, TypeIs, TypeIsNext
  <2>6. Standing'
    BY <1>0, <1>2, <1>3, <2>1, <2>2, <2>4, Configured DEF Standing
  <2>7. Covered'
    <3>1. m.kv => 0 <= m'.kvPos
      BY <1>3 DEF Model
    <3> QED
      BY <1>3, <2>1, <2>2, <3>1 DEF Covered, Cut
  <2> QED
    BY <2>5, <2>6, <2>7 DEF BaseInv
<1>5. CASE PrefillFails
  <2>1. /\ UNCHANGED <<faulty, conf, d, snaps, ref, text, out, want, todo, back, rounds>>
        /\ pc' = "off" /\ started' = started + 1 /\ m' \in AfterFailedReset(m)
        /\ pc \in {"off", "idle"}
    BY <1>5 DEF PrefillFails, fixed
  <2>2. m'.kvPos = m.kvPos
    BY <1>1, <2>1, AfterFailedResetIs
  <2>3. TypeOK'
    BY <1>0, <1>3, <2>1, TypeIs, TypeIsNext
  <2>4. Standing'
    BY <1>0, <1>2, <1>3, <2>1 DEF Standing
  <2>5. Covered'
    BY <1>0, <1>3, <2>1, <2>2 DEF Covered, Cut
  <2> QED
    BY <2>3, <2>4, <2>5 DEF BaseInv
<1> QED
  BY <1>4, <1>5


-----------------------------------------------------------------------------
\* The counter of corrections is moved, or nothing is.
LEMMA CorrectedIs ==
  ASSUME TypeOK
  PROVE  /\ d \in Fields /\ Corrected \in Fields
         /\ Corrected.history = d.history /\ Corrected.refOnly = d.refOnly
         /\ Corrected.corrections =
              IF d.history # << >> THEN d.corrections + 1 ELSE d.corrections
<1> DEFINE n == IF d.history # << >> THEN d.corrections + 1 ELSE d.corrections
<1>1. d \in Fields /\ n \in Nat
  BY TypeIs, Numbers
<1>2. Corrected = [d EXCEPT !.corrections = n]
  BY DEF Corrected
<1> HIDE DEF n
<1>3. Corrected \in Fields /\ Corrected.history = d.history /\ Corrected.refOnly = d.refOnly
      /\ Corrected.corrections = n
  BY <1>1, <1>2 DEF Fields
<1> QED
  BY <1>1, <1>3 DEF n

\* While the last token of the text is looked for, there is one.
LEMMA LastTokenIs ==
  ASSUME TypeOK, Standing, pc = "ensure"
  PROVE  LastToken \in Token
BY TypeIs DEF Standing, LastToken

LEMMA ShorterByType ==
  ASSUME NEW S, NEW s \in Seq(S), NEW n \in Nat
  PROVE  ShorterBy(s, n) \in Seq(S)
BY DEF ShorterBy, Larger

\* Snapshots of a state with at most a window of rows.
LEMMA CapturedIs ==
  ASSUME TypeOK, Standing, NEW s \in Captured
  PROVE  /\ s \in Seq(Snapshot)
         /\ ~conf.direct => s = << >>
         /\ \A i \in 1..Len(s) : \A f \in Face : Len(s[i].state[f]) <= Window
<1> DEFINE now == SnapshotOf(m)
<1>1. snaps \in Seq(Snapshot) /\ m \in Model /\ (~conf.direct => snaps = << >>)
      /\ \A i \in 1..Len(snaps) : \A f \in Face : Len(snaps[i].state[f]) <= Window
  BY TypeIs DEF Standing
<1>2. s = snaps \/ (conf.direct /\ s = Append(snaps, now))
  BY DEF Captured
<1>3. now \in Snapshot /\ now.state = m.state
  BY <1>1 DEF SnapshotOf, Snapshot, Model
<1>4. conf.direct => \A f \in Face : Len(m.state[f]) <= Window
  BY Configured DEF Standing, Sized
<1> HIDE DEF now
<1>5. CASE s = snaps
  BY <1>1, <1>5
<1>6. CASE conf.direct /\ s = Append(snaps, now)
  <2>1. s \in Seq(Snapshot) /\ Len(s) = Len(snaps) + 1
    BY <1>1, <1>3, <1>6
  <2>2. \A i \in 1..Len(s) : s[i] = IF i <= Len(snaps) THEN snaps[i] ELSE now
    BY <1>1, <1>3, <1>6
  <2> QED
    BY <1>1, <1>3, <1>4, <1>6, <2>1, <2>2
<1> QED
  BY <1>2, <1>5, <1>6

\* A token of the prompt or of a replay is fed.
LEMMA ReplayKeeps ==
  ASSUME BaseInv, Replay
  PROVE  BaseInv'
<1> DEFINE t == Head(todo)
<1>0. TypeOK /\ Standing /\ Covered
  BY DEF BaseInv
<1>1. /\ pc = "replay" /\ todo # << >> /\ todo' = Tail(todo) /\ FeedOk(d, t)
      /\ UNCHANGED <<faulty, conf, snaps, text, rounds, started, out, want, pc, back>>
  BY DEF Replay, fixed, loop
<1>2. t \in Token /\ todo' \in Seq(Token) /\ Len(todo') = Len(todo) - 1
  BY <1>0, <1>1, TypeIs
<1> HIDE DEF t
<1>3. /\ Like(m', m) /\ m'.kvPos <= Window
      /\ m.kv /\ ~d.refOnly => m'.kvPos = m.kvPos + 1
      /\ ref' \in Seq(Token)
      /\ d' \in Fields /\ d'.history = Append(d.history, t) /\ d'.refOnly = d.refOnly
  BY <1>0, <1>1, <1>2, TypeIs, FeedOkIs
<1>4. TypeOK'
  BY <1>0, <1>1, <1>2, <1>3, TypeIs, TypeIsNext DEF Like
<1>5. Standing'
  BY <1>0, <1>1, <1>3 DEF Standing, Like
<1>6. Covered'
  <2>1. Len(d'.history) = Len(d.history) + 1
    BY <1>0, <1>2, <1>3, Numbers
  <2> QED
    BY <1>0, <1>1, <1>2, <1>3, <2>1, Numbers DEF Covered, Cut, Like
<1> QED
  BY <1>4, <1>5, <1>6 DEF BaseInv

\* The last token of the text is fed.
LEMMA EnsureFedKeeps ==
  ASSUME BaseInv, EnsureFed
  PROVE  BaseInv'
<1> DEFINE t == LastToken
           e == Corrected
<1>0. TypeOK /\ Standing /\ Covered
  BY DEF BaseInv
<1>1. /\ pc = "ensure" /\ pc' = "drafting" /\ FeedOk(e, t)
      /\ UNCHANGED <<faulty, conf, snaps, text, rounds, started, out, want, todo, back>>
  BY DEF EnsureFed, fixed, loop
<1>2. t \in Token /\ e \in Fields /\ e.refOnly = d.refOnly /\ e.history = d.history
  BY <1>0, <1>1, LastTokenIs, CorrectedIs
<1> HIDE DEF t, e
<1>3. /\ Like(m', m) /\ m'.kvPos <= Window
      /\ m.kv /\ ~d.refOnly => m'.kvPos = m.kvPos + 1
      /\ ref' \in Seq(Token)
      /\ d' \in Fields /\ d'.history = Append(d.history, t) /\ d'.refOnly = d.refOnly
  BY <1>0, <1>1, <1>2, FeedOkIs
<1>4. TypeOK'
  BY <1>0, <1>1, <1>3, TypeIs, TypeIsNext DEF Like
<1>5. Len(d'.history) = Len(d.history) + 1
  BY <1>0, <1>2, <1>3, Numbers
<1>6. Standing'
  <2>1. out' = << >> /\ Len(out') <= Len(d'.history)
    BY <1>0, <1>1, <1>5, Numbers DEF Standing
  <2> QED
    BY <1>0, <1>1, <1>3, <2>1 DEF Standing, Like
<1>7. Covered'
  BY <1>0, <1>1, <1>3, <1>5, Numbers DEF Covered, Cut, Like
<1> QED
  BY <1>4, <1>6, <1>7 DEF BaseInv

\* A draft is captured and fed.
LEMMA DraftTokenKeeps ==
  ASSUME BaseInv, DraftToken
  PROVE  BaseInv'
<1>0. TypeOK /\ Standing /\ Covered
  BY DEF BaseInv
<1>1. /\ pc = "drafting" /\ snaps' \in Captured
      /\ UNCHANGED <<faulty, conf, text, rounds, started, want, todo, pc, back>>
  BY DEF DraftToken, fixed, loop
<1>2. PICK t \in Token : FeedOk(d, t) /\ out' = Append(out, t)
  BY DEF DraftToken
<1>3. /\ Like(m', m) /\ m'.kvPos <= Window
      /\ m.kv /\ ~d.refOnly => m'.kvPos = m.kvPos + 1
      /\ ref' \in Seq(Token)
      /\ d' \in Fields /\ d'.history = Append(d.history, t) /\ d'.refOnly = d.refOnly
  BY <1>0, <1>2, TypeIs, FeedOkIs
<1>4. /\ snaps' \in Seq(Snapshot) /\ (~conf.direct => snaps' = << >>)
      /\ \A i \in 1..Len(snaps') : \A f \in Face : Len(snaps'[i].state[f]) <= Window
  BY <1>0, <1>1, CapturedIs
<1>5. /\ Len(d'.history) = Len(d.history) + 1
      /\ out' \in Seq(Token) /\ Len(out') = Len(out) + 1
  BY <1>0, <1>2, <1>3, TypeIs, Numbers
<1>6. TypeOK'
  BY <1>0, <1>1, <1>3, <1>4, <1>5, TypeIs, TypeIsNext DEF Like
<1>7. Standing'
  <2>1. Len(out') <= Len(d'.history)
    BY <1>0, <1>1, <1>5, Numbers DEF Standing
  <2> QED
    BY <1>0, <1>1, <1>3, <1>4, <2>1 DEF Standing, Like
<1>8. Covered'
  BY <1>0, <1>1, <1>3, <1>5, Numbers DEF Covered, Cut, Like
<1> QED
  BY <1>6, <1>7, <1>8 DEF BaseInv

\* A token cannot be fed.
LEMMA FeedFailureKeeps ==
  ASSUME BaseInv, ReplayFails \/ EnsureFails \/ DraftFails
  PROVE  BaseInv'
<1>0. TypeOK /\ Standing /\ Covered
  BY DEF BaseInv
<1>1. /\ UNCHANGED <<faulty, conf, text, rounds, started, out, want, back>>
      /\ todo' \in {todo, << >>}
      /\ \/ pc' = "off"
         \/ pc = "replay" /\ back = "idle" /\ pc' = "idle"
      /\ snaps' = snaps \/ snaps' \in Captured
  BY <1>0 DEF ReplayFails, EnsureFails, DraftFails, fixed, loop, Standing
<1>2. PICK e \in {d, Corrected}, t \in Token : FeedFails(e, t)
  <2>1. CASE ReplayFails
    <3>1. todo # << >> /\ FeedFails(d, Head(todo))
      BY <2>1 DEF ReplayFails
    <3>2. Head(todo) \in Token
      BY <1>0, <3>1, TypeIs
    <3> QED
      BY <3>1, <3>2
  <2>2. CASE EnsureFails
    <3>1. pc = "ensure" /\ FeedFails(Corrected, LastToken)
      BY <2>2 DEF EnsureFails
    <3> QED
      BY <1>0, <3>1, LastTokenIs
  <2>3. CASE DraftFails
    BY <2>3 DEF DraftFails
  <2> QED
    BY <2>1, <2>2, <2>3
<1>3. e \in Fields /\ e.refOnly = d.refOnly /\ e.history = d.history
  BY <1>0, CorrectedIs, TypeIs
<1>4. Like(m', m) /\ m'.kvPos = m.kvPos /\ ref' \in Seq(Token) /\ d' = e
  BY <1>0, <1>2, <1>3, FeedFailsIs
<1>5. /\ snaps' \in Seq(Snapshot) /\ (~conf.direct => snaps' = << >>)
      /\ \A i \in 1..Len(snaps') : \A f \in Face : Len(snaps'[i].state[f]) <= Window
  BY <1>0, <1>1, CapturedIs, TypeIs DEF Standing
<1>6. TypeOK'
  <2>0. todo \in Seq(Token) /\ << >> \in Seq(Token)
    BY <1>0, TypeIs
  <2>1. todo' \in Seq(Token) /\ m' \in Model /\ d' \in Fields /\ pc' \in {"off", "idle"}
    <3>1. todo' \in Seq(Token) /\ pc' \in {"off", "idle"}
      BY <1>1, <2>0
    <3>2. m' \in Model /\ d' \in Fields
      BY <1>3, <1>4 DEF Like
    <3> QED
      BY <3>1, <3>2
  <2>2. ref' \in Seq(Token) /\ snaps' \in Seq(Snapshot)
    BY <1>4, <1>5
  <2>3. UNCHANGED <<faulty, conf, text, rounds, started, out, want, back>>
    BY <1>1
  <2> QED
    BY <1>0, <2>1, <2>2, <2>3, TypeIs, TypeIsNext
<1>7. Standing'
  BY <1>0, <1>1, <1>3, <1>4, <1>5 DEF Standing, Like
<1>8. Covered'
  BY <1>0, <1>1, <1>3, <1>4, Numbers DEF Covered, Cut, Like
<1> QED
  BY <1>6, <1>7, <1>8 DEF BaseInv

\* The steps that leave the model, the snapshots and the history alone.
LEMMA QuietKeeps ==
  ASSUME BaseInv,
         \/ ReplayEnds \/ Draft \/ GuardPasses \/ GuardSyncs \/ Sync \/ SyncFails \/ SyncEnds
         \/ EnsureKnown \/ DraftReturns \/ Verify \/ RewindReference \/ RewindReferenceFails
         \/ UNCHANGED vars
  PROVE  BaseInv'
<1>0. TypeOK /\ Standing /\ Covered
  BY DEF BaseInv
<1>1. CASE ReplayEnds
  <2>1. /\ UNCHANGED <<faulty, conf, m, d, snaps, ref, out, want, todo, back, rounds, started>>
        /\ pc = "replay" /\ pc' = "idle"
        /\ IF back = "prefill" THEN \E t \in Token : text' = Append(text, t) ELSE text' = text
    BY <1>1 DEF ReplayEnds, fixed
  <2>2. text' \in Seq(Token) /\ Len(text') > 1
    <3>1. text \in Seq(Token) /\ Len(text) > 0 /\ (back # "prefill" => Len(text) > 1)
      BY <1>0, <2>1, TypeIs DEF Standing
    <3> QED
      BY <2>1, <3>1
  <2>3. TypeOK'
    BY <1>0, <2>1, <2>2, TypeIs, TypeIsNext
  <2>4. Standing' /\ Covered'
    BY <1>0, <2>1, <2>2 DEF Standing, Covered, Cut
  <2> QED
    BY <2>3, <2>4 DEF BaseInv
<1>2. CASE Draft
  <2>1. /\ UNCHANGED <<faulty, conf, m, d, snaps, ref, text, todo, back, started>>
        /\ pc = "idle" /\ pc' = "draft" /\ out' = << >> /\ want' \in 1..MaxDraft
        /\ rounds' = rounds + 1
    BY <1>2 DEF Draft, fixed
  <2>2. want' \in Nat /\ out' \in Seq(Token) /\ rounds' \in Nat
    BY <1>0, <2>1, DrafterAssumption, Numbers
  <2>3. TypeOK'
    BY <1>0, <2>1, <2>2, TypeIs, TypeIsNext
  <2>4. Standing' /\ Covered'
    BY <1>0, <2>1, <2>2 DEF Standing, Covered, Cut
  <2> QED
    BY <2>3, <2>4 DEF BaseInv
<1>3. CASE GuardPasses \/ EnsureKnown
  <2>1. /\ UNCHANGED <<faulty, conf, m, d, snaps, ref, text, rounds, started, out, want, todo, back>>
        /\ \/ pc = "draft" /\ pc' = "ensure"
           \/ pc = "ensure" /\ pc' = "drafting"
    BY <1>3 DEF GuardPasses, EnsureKnown, fixed, loop
  <2>2. TypeOK'
    BY <1>0, <2>1, TypeIs, TypeIsNext
  <2>3. Len(<< >>) <= Len(d.history)
    BY <1>0, Numbers
  <2>4. Standing' /\ Covered'
    BY <1>0, <2>1, <2>3 DEF Standing, Covered, Cut
  <2> QED
    BY <2>2, <2>4 DEF BaseInv
<1>4. CASE GuardSyncs
  <2>1. /\ UNCHANGED <<faulty, conf, m, d, snaps, text, rounds, started, out, want>>
        /\ pc = "draft" /\ pc' = "sync" /\ back' = "ensure" /\ conf.guard
        /\ ref' = << >> /\ todo' = d.history
    BY <1>4 DEF GuardSyncs, GuardTrips, StartSync, fixed, loop
  <2>2. TypeOK'
    BY <1>0, <2>1, Numbers, TypeIs, TypeIsNext
  <2>3. conf.runner
    BY <1>0, <2>1, Configured
  <2>4. Standing' /\ Covered'
    BY <1>0, <2>1, <2>3 DEF Standing, Covered, Cut
  <2> QED
    BY <2>2, <2>4 DEF BaseInv
<1>5. CASE Sync \/ SyncFails
  <2>1. /\ UNCHANGED <<faulty, conf, m, d, snaps, text, rounds, started, out, want, back>>
        /\ pc = "sync" /\ pc' \in {"sync", back} /\ todo # << >>
        /\ todo' \in {Tail(todo), << >>} /\ ref' \in {ref, Append(ref, Head(todo))}
    BY <1>5 DEF Sync, SyncFails, fixed, loop
  <2>2. todo' \in Seq(Token) /\ ref' \in Seq(Token)
    <3>1. todo \in Seq(Token) /\ ref \in Seq(Token)
      BY <1>0, TypeIs
    <3>2. Head(todo) \in Token /\ Tail(todo) \in Seq(Token) /\ << >> \in Seq(Token)
      BY <2>1, <3>1
    <3>3. Append(ref, Head(todo)) \in Seq(Token)
      BY <3>1, <3>2
    <3> QED
      BY <2>1, <3>1, <3>2, <3>3
  <2>3. TypeOK'
    BY <1>0, <2>1, <2>2, TypeIs, TypeIsNext DEF Standing
  <2>4. Standing' /\ Covered'
    BY <1>0, <2>1 DEF Standing, Covered, Cut
  <2> QED
    BY <2>3, <2>4 DEF BaseInv
<1>6. CASE SyncEnds
  <2> DEFINE r == d.history # << >>
             s == d.refOnly \/ back = "ensure"
  <2>1. /\ UNCHANGED <<faulty, conf, m, snaps, ref, text, rounds, started, out, want, todo, back>>
        /\ pc = "sync" /\ pc' = back /\ d' = [d EXCEPT !.ready = r, !.refOnly = s]
    BY <1>6 DEF SyncEnds, fixed, loop
  <2>2. r \in BOOLEAN /\ s \in BOOLEAN
    BY <1>0, Numbers
  <2> HIDE DEF r, s
  <2>3. d' \in Fields /\ d'.history = d.history /\ d'.refOnly = s
    BY <1>0, <2>1, <2>2, TypeIs DEF Fields
  <2>4. TypeOK'
    BY <1>0, <2>1, <2>3, TypeIs, TypeIsNext DEF Standing
  <2>5. Standing'
    BY <1>0, <2>1, <2>3 DEF Standing, s
  <2>6. Covered'
    BY <1>0, <2>1, <2>3 DEF Covered, Cut, Standing, s
  <2> QED
    BY <2>4, <2>5, <2>6 DEF BaseInv
<1>7. CASE DraftReturns
  <2> DEFINE n == d.drafted + Len(out)
  <2>1. /\ UNCHANGED <<faulty, conf, m, snaps, ref, text, rounds, started, out, want, todo, back>>
        /\ pc = "drafting" /\ pc' = "verify" /\ d' = [d EXCEPT !.drafted = n]
    BY <1>7 DEF DraftReturns, fixed, loop
  <2>2. n \in Nat
    BY <1>0, Numbers
  <2> HIDE DEF n
  <2>3. d' \in Fields /\ d'.history = d.history /\ d'.refOnly = d.refOnly
    BY <1>0, <2>1, <2>2, TypeIs DEF Fields
  <2>4. TypeOK'
    BY <1>0, <2>1, <2>3, TypeIs, TypeIsNext
  <2>5. Standing' /\ Covered'
    BY <1>0, <2>1, <2>3 DEF Standing, Covered, Cut
  <2> QED
    BY <2>4, <2>5 DEF BaseInv
<1>8. CASE Verify
  <2>1. /\ UNCHANGED <<faulty, conf, m, d, snaps, ref, out, todo, back, rounds, started>>
        /\ pc = "verify"
    BY <1>8 DEF Verify, fixed
  <2>2. PICK n \in 0..Len(out), t \in Token :
          /\ text' = text \o Append(SubSeq(out, 1, n), t)
          /\ want' = Len(out) - n
          /\ pc' = IF n = Len(out) THEN "idle" ELSE "rewind"
    BY <1>8 DEF Verify
  <2>3. text' \in Seq(Token) /\ Len(text') > 1
    <3>1. text \in Seq(Token) /\ Len(text) > 1 /\ out \in Seq(Token)
      BY <1>0, <2>1, TypeIs DEF Standing
    <3> DEFINE new == Append(SubSeq(out, 1, n), t)
    <3>2. new \in Seq(Token) /\ text' = text \o new
      BY <2>2, <3>1
    <3> HIDE DEF new
    <3> QED
      BY <3>1, <3>2
  <2>4. want' \in Nat /\ want' <= Len(out) /\ (pc' = "rewind" => want' > 0)
    BY <1>0, <2>2, Numbers
  <2>5. TypeOK'
    BY <1>0, <2>1, <2>2, <2>3, <2>4, TypeIs, TypeIsNext
  <2>6. Standing' /\ Covered'
    BY <1>0, <2>1, <2>2, <2>3, <2>4 DEF Standing, Covered, Cut
  <2> QED
    BY <2>5, <2>6 DEF BaseInv
<1>9. CASE RewindReference
  <2>1. /\ UNCHANGED <<faulty, conf, m, d, snaps, text, rounds, started, out, want, todo, back>>
        /\ pc = "shadow" /\ pc' = "idle" /\ ref' \in {ref, ShorterBy(ref, want)}
    BY <1>9 DEF RewindReference, fixed, loop
  <2>2. ref' \in Seq(Token)
    BY <1>0, <2>1, TypeIs, ShorterByType
  <2>3. TypeOK'
    BY <1>0, <2>1, <2>2, TypeIs, TypeIsNext
  <2>4. Standing' /\ Covered'
    BY <1>0, <2>1 DEF Standing, Covered, Cut
  <2> QED
    BY <2>3, <2>4 DEF BaseInv
<1>10. CASE RewindReferenceFails
  <2>1. /\ UNCHANGED <<faulty, conf, m, d, snaps, text, rounds, started, out, want>>
        /\ pc = "shadow" /\ NeedsReference /\ Len(ref) > want
    BY <1>10 DEF RewindReferenceFails, fixed, loop
  <2>2. PICK i \in 0..(Len(ref) - want) :
          IF conf.model
          THEN ref' = SubSeq(ref, 1, i) /\ pc' = "rebuild" /\ UNCHANGED <<todo, back>>
          ELSE StartSync("idle")
    BY <1>10 DEF RewindReferenceFails
  <2>3. conf.runner
    BY <2>1 DEF NeedsReference
  <2>4. CASE conf.model
    <3>1. ref' = SubSeq(ref, 1, i) /\ pc' = "rebuild" /\ UNCHANGED <<todo, back>>
      BY <2>2, <2>4
    <3>2. ref' \in Seq(Token)
      BY <1>0, <2>2, <3>1, TypeIs, Numbers
    <3>3. TypeOK'
      BY <1>0, <2>1, <3>1, <3>2, TypeIs, TypeIsNext
    <3>4. Standing' /\ Covered'
      BY <1>0, <2>1, <2>4, <3>1 DEF Standing, Covered, Cut
    <3> QED
      BY <3>3, <3>4 DEF BaseInv
  <2>5. CASE ~conf.model
    <3>1. ref' = << >> /\ todo' = d.history /\ pc' = "sync" /\ back' = "idle"
      BY <2>2, <2>5 DEF StartSync
    <3>2. TypeOK'
      BY <1>0, <2>1, <3>1, Numbers, TypeIs, TypeIsNext
    <3>3. Standing' /\ Covered'
      BY <1>0, <2>1, <2>3, <3>1 DEF Standing, Covered, Cut
    <3> QED
      BY <3>2, <3>3 DEF BaseInv
  <2> QED
    BY <2>4, <2>5
<1>11. CASE UNCHANGED vars
  BY <1>0, <1>11 DEF vars, BaseInv, TypeOK, Standing, Covered, Cut
<1> QED
  BY <1>1, <1>2, <1>3, <1>4, <1>5, <1>6, <1>7, <1>8, <1>9, <1>10, <1>11

\* The books of a rewind.
LEMMA RewindKeeps ==
  ASSUME BaseInv, Rewind
  PROVE  BaseInv'
<1> DEFINE h == ShorterBy(d.history, want)
           n == d.rewound + want
           r == FALSE
<1>0. TypeOK /\ Standing /\ Covered
  BY DEF BaseInv
<1>1. /\ UNCHANGED <<faulty, conf, m, snaps, ref, text, rounds, started, out, todo, back>>
      /\ pc = "rewind" /\ want' = Smaller(want, Len(d.history))
      /\ d' = [d EXCEPT !.rewound = n, !.history = h, !.ready = r]
      /\ pc' \in {"idle", "restore", "shadow"} /\ (pc' = "restore" => conf.model)
  BY DEF Rewind, fixed, loop
<1>2. want > 0 /\ want <= Len(out) /\ Len(out) <= Len(d.history)
  BY <1>0, <1>1 DEF Standing
<1>3. h \in Seq(Token) /\ Len(h) = Len(d.history) - want /\ want' = want
  BY <1>0, <1>1, <1>2, Numbers DEF ShorterBy, Smaller, Larger
<1>4. n \in Nat /\ r \in BOOLEAN
  BY <1>0, Numbers
<1> HIDE DEF h, n, r
<1>5. d' \in Fields /\ d'.history = h /\ d'.refOnly = d.refOnly
  BY <1>0, <1>1, <1>3, <1>4, TypeIs DEF Fields
<1>6. TypeOK'
  BY <1>0, <1>1, <1>3, <1>5, TypeIs, TypeIsNext
<1>7. Standing'
  BY <1>0, <1>1, <1>2, <1>3, <1>5 DEF Standing
<1>8. Covered'
  BY <1>0, <1>1, <1>2, <1>3, <1>5, Numbers DEF Covered, Cut
<1> QED
  BY <1>6, <1>7, <1>8 DEF BaseInv

\* The snapshot a rewind goes back to.
LEMMA SnapshotTaken ==
  ASSUME TypeOK, Standing, want > 0, Len(snaps) >= want
  PROVE  /\ conf.direct /\ m.kind = "stateful"
         /\ Len(snaps) - want + 1 \in 1..Len(snaps)
         /\ snaps[Len(snaps) - want + 1] \in Snapshot
         /\ \A f \in Face : Len(snaps[Len(snaps) - want + 1].state[f]) <= Window
<1>1. snaps \in Seq(Snapshot) /\ want \in Nat
  BY TypeIs
<1>2. Len(snaps) - want + 1 \in 1..Len(snaps)
  BY <1>1
<1>3. snaps # << >>
  BY <1>1
<1>4. conf.direct /\ m.kind = "stateful"
  BY <1>3, Configured DEF Standing
<1> QED
  BY <1>1, <1>2, <1>4 DEF Standing

\* The model goes back, or fails to.
LEMMA GoesBackKeeps ==
  ASSUME BaseInv, Restore \/ RestoreFails \/ RewindPosition \/ RewindPositionFails
  PROVE  BaseInv'
<1>0. TypeOK /\ Standing /\ Covered /\ m \in Model /\ Sized(m)
  BY TypeIs DEF BaseInv, Standing
<1>1. /\ UNCHANGED <<faulty, conf, d, ref, text, rounds, started, out, want, todo, back>>
      /\ pc \in {"restore", "position"}
      /\ want > 0 /\ conf.model
  BY <1>0 DEF Restore, RestoreFails, RewindPosition, RewindPositionFails, fixed, loop, Standing
<1>2. CASE Restore
  <2> DEFINE s == snaps[Len(snaps) - want + 1]
  <2>1. /\ pc = "restore" /\ Len(snaps) >= want /\ m' = AfterRestore(m, s)
        /\ snaps' = ShorterBy(snaps, want) /\ pc' = "shadow"
    BY <1>2 DEF Restore
  <2>2. s \in Snapshot /\ m.kind = "stateful" /\ \A f \in Face : Len(s.state[f]) <= Window
    BY <1>0, <1>1, <2>1, SnapshotTaken
  <2> HIDE DEF s
  <2>3. Like(m', m) /\ m'.kvPos = m.kvPos
    BY <1>0, <2>1, <2>2, AfterRestoreIs
  <2>4. /\ snaps' \in Seq(Snapshot) /\ Len(snaps') = Len(snaps) - want
        /\ \A i \in 1..Len(snaps') : snaps'[i] = snaps[i] /\ i \in 1..Len(snaps)
    <3>1. snaps \in Seq(Snapshot) /\ want \in Nat
      BY <1>0, TypeIs
    <3>2. snaps' = SubSeq(snaps, 1, Len(snaps) - want) /\ Len(snaps) - want \in 0..Len(snaps)
      BY <2>1, <3>1 DEF ShorterBy, Larger
    <3> QED
      BY <3>1, <3>2
  <2>5. conf.direct
    BY <1>0, <1>1, <2>1, SnapshotTaken
  <2>6. TypeOK'
    BY <1>0, <1>1, <2>1, <2>3, <2>4, TypeIs, TypeIsNext DEF Like
  <2>7. Standing'
    BY <1>0, <1>1, <2>1, <2>3, <2>4, <2>5 DEF Standing, Like
  <2>8. Covered'
    BY <1>0, <1>1, <2>1, <2>3, Numbers DEF Covered, Cut, Like
  <2> QED
    BY <2>6, <2>7, <2>8 DEF BaseInv
<1>3. CASE RestoreFails \/ RewindPositionFails
  <2>1. /\ snaps' = snaps
        /\ \/ pc = "restore" /\ pc' = "position"
           \/ pc = "position" /\ pc' = "rebuild"
    BY <1>3 DEF RestoreFails, RewindPositionFails
  <2>2. Like(m', m) /\ m'.kvPos = m.kvPos
    <3>1. CASE m' = m
      BY <1>0, <3>1 DEF Like
    <3>2. CASE RestoreFails /\ m' # m
      <4> DEFINE s == snaps[Len(snaps) - want + 1]
      <4>1. Len(snaps) >= want /\ m' \in AfterFailedRestore(m, s)
        BY <3>2 DEF RestoreFails
      <4>2. s \in Snapshot /\ \A f \in Face : Len(s.state[f]) <= Window
        BY <1>0, <1>1, <4>1, SnapshotTaken
      <4> HIDE DEF s
      <4> QED
        BY <1>0, <4>1, <4>2, AfterFailedRestoreIs
    <3>3. CASE RewindPositionFails
      <4>1. m' \in AfterFailedRewind(m, want) /\ want \in Nat
        BY <1>0, <3>3, Numbers DEF RewindPositionFails
      <4> QED
        BY <1>0, <4>1, AfterFailedRewindIs
    <3> QED
      BY <1>3, <3>1, <3>2, <3>3
  <2>3. TypeOK'
    BY <1>0, <1>1, <2>1, <2>2, TypeIs, TypeIsNext DEF Like
  <2>4. Standing'
    BY <1>0, <1>1, <2>1, <2>2 DEF Standing, Like
  <2>5. Covered'
    BY <1>0, <1>1, <2>1, <2>2, Numbers DEF Covered, Cut, Like
  <2> QED
    BY <2>3, <2>4, <2>5 DEF BaseInv
<1>4. CASE RewindPosition
  <2>1. pc = "position" /\ pc' = "shadow" /\ m' = AfterRewind(m, want) /\ snaps' = snaps
    BY <1>4 DEF RewindPosition
  <2>2. Like(m', m) /\ m'.kvPos = Larger(m.kvPos - want, 0)
    BY <1>0, <2>1, Numbers, AfterRewindIs
  <2>3. TypeOK'
    BY <1>0, <1>1, <2>1, <2>2, TypeIs, TypeIsNext DEF Like
  <2>4. Standing'
    <3>1. m'.kvPos <= Window
      BY <1>0, <2>2, Numbers DEF Larger, Standing
    <3> QED
      BY <1>0, <1>1, <2>1, <2>2, <3>1 DEF Standing, Like
  <2>5. Covered'
    BY <1>0, <1>1, <2>1, <2>2, Numbers DEF Covered, Cut, Larger, Like
  <2> QED
    BY <2>3, <2>4, <2>5 DEF BaseInv
<1> QED
  BY <1>2, <1>3, <1>4

\* Everything is reset for a replay, or cannot be.
LEMMA RebuildKeeps ==
  ASSUME BaseInv, Rebuild \/ RebuildFails
  PROVE  BaseInv'
<1>0. TypeOK /\ Standing /\ Covered /\ m \in Model /\ Sized(m)
  BY TypeIs DEF BaseInv, Standing
<1>1. /\ UNCHANGED <<faulty, conf, text, rounds, started, out, want>>
      /\ pc = "rebuild" /\ conf.model
  BY <1>0 DEF Rebuild, RebuildFails, fixed, loop, Standing
<1>2. CASE Rebuild
  <2> DEFINE h == << >>
             r == FALSE
  <2>1. /\ m' = AfterReset(m) /\ ref' \in {ref, << >>} /\ todo' = d.history /\ snaps' = << >>
        /\ pc' = "replay" /\ back' = "idle" /\ d' = [d EXCEPT !.history = h, !.ready = r]
    BY <1>2 DEF Rebuild
  <2>2. Like(m', m) /\ m'.kvPos = 0
    BY <1>0, <2>1, AfterResetIs
  <2>3. h \in Seq(Token) /\ Len(h) = 0 /\ r \in BOOLEAN
    OBVIOUS
  <2> HIDE DEF h, r
  <2>4. d' \in Fields /\ d'.history = h /\ d'.refOnly = d.refOnly
    BY <1>0, <2>1, <2>3, TypeIs DEF Fields
  <2>5. TypeOK'
    <3>1. ref \in Seq(Token) /\ << >> \in Seq(Token) /\ << >> \in Seq(Snapshot)
      BY <1>0, TypeIs
    <3>2. ref' \in Seq(Token) /\ todo' \in Seq(Token) /\ snaps' \in Seq(Snapshot)
      BY <1>0, <2>1, <3>1, Numbers
    <3> QED
      BY <1>0, <1>1, <2>1, <2>2, <2>4, <3>2, TypeIs, TypeIsNext DEF Like
  <2>6. Standing'
    BY <1>0, <1>1, <2>1, <2>2, <2>4, Numbers DEF Standing, Like
  <2>7. Covered'
    BY <1>0, <1>1, <2>1, <2>2, <2>3, <2>4, Numbers DEF Covered, Cut, Like, Standing
  <2> QED
    BY <2>5, <2>6, <2>7 DEF BaseInv
<1>3. CASE RebuildFails
  <2>1. /\ m' \in AfterFailedReset(m) /\ pc' = "idle"
        /\ UNCHANGED <<d, snaps, ref, todo, back>>
    BY <1>3 DEF RebuildFails
  <2>2. Like(m', m) /\ m'.kvPos = m.kvPos
    BY <1>0, <2>1, AfterFailedResetIs
  <2>3. TypeOK'
    BY <1>0, <1>1, <2>1, <2>2, TypeIs, TypeIsNext DEF Like
  <2>4. Standing' /\ Covered'
    BY <1>0, <1>1, <2>1, <2>2 DEF Standing, Covered, Cut, Like
  <2> QED
    BY <2>3, <2>4 DEF BaseInv
<1> QED
  BY <1>2, <1>3

LEMMA BaseKeeps ==
  ASSUME BaseInv, [Next]_vars
  PROVE  BaseInv'
<1>1. CASE Prefill \/ PrefillFails \/ Reset
  BY <1>1, ClearedKeeps
<1>2. CASE Replay \/ EnsureFed \/ DraftToken
  BY <1>2, ReplayKeeps, EnsureFedKeeps, DraftTokenKeeps
<1>3. CASE ReplayFails \/ EnsureFails \/ DraftFails
  BY <1>3, FeedFailureKeeps
<1>4. CASE \/ ReplayEnds \/ Draft \/ GuardPasses \/ GuardSyncs \/ Sync \/ SyncFails \/ SyncEnds
           \/ EnsureKnown \/ DraftReturns \/ Verify \/ RewindReference \/ RewindReferenceFails
           \/ UNCHANGED vars
  BY <1>4, QuietKeeps
<1>5. CASE Rewind \/ Rebuild \/ RebuildFails
  BY <1>5, RewindKeeps, RebuildKeeps
<1>6. CASE Restore \/ RestoreFails \/ RewindPosition \/ RewindPositionFails
  BY <1>6, GoesBackKeeps
<1>7. CASE Finished
  BY <1>7, QuietKeeps DEF Finished
<1> QED
  BY <1>1, <1>2, <1>3, <1>4, <1>5, <1>6, <1>7 DEF Next

-----------------------------------------------------------------------------
\* Sequences that are extended and cut.
LEMMA CutAppended ==
  ASSUME NEW S, NEW s \in Seq(S), NEW u \in Seq(S), NEW t \in S
  PROVE  /\ Append(s, t) \in Seq(S) /\ Len(Append(s, t)) = Len(s) + 1
         /\ ShorterBy(Append(s, t), 1) = s
         /\ s \o Append(u, t) = Append(s \o u, t)
         /\ s \o << >> = s /\ << >> \o s = s
<1>1. Append(s, t) \in Seq(S) /\ Len(Append(s, t)) = Len(s) + 1
  OBVIOUS
<1>2. ShorterBy(Append(s, t), 1) = s
  <2>1. ShorterBy(Append(s, t), 1) = SubSeq(Append(s, t), 1, Len(s))
    BY <1>1 DEF ShorterBy, Larger
  <2>2. SubSeq(Append(s, t), 1, Len(s)) \in Seq(S) /\ Len(SubSeq(Append(s, t), 1, Len(s))) = Len(s)
    BY <1>1
  <2>3. \A i \in 1..Len(s) : SubSeq(Append(s, t), 1, Len(s))[i] = s[i]
    BY <1>1
  <2> QED
    BY <2>1, <2>2, <2>3, SeqEqual
<1>3. s \o Append(u, t) = Append(s \o u, t)
  <2>1. Append(u, t) = u \o <<t>> /\ <<t>> \in Seq(S) /\ s \o u \in Seq(S)
    BY AppendIsConcat
  <2>2. Append(s \o u, t) = (s \o u) \o <<t>>
    BY <2>1, AppendIsConcat
  <2> QED
    BY <2>1, <2>2, ConcatAssociative
<1>4. s \o << >> = s /\ << >> \o s = s
  BY ConcatEmptySeq
<1> QED
  BY <1>1, <1>2, <1>3, <1>4

LEMMA CutConcatenated ==
  ASSUME NEW S, NEW s \in Seq(S), NEW u \in Seq(S), NEW n \in 0..Len(u)
  PROVE  /\ ShorterBy(s \o u, Len(u) - n) = s \o SubSeq(u, 1, n)
         /\ SubSeq(u, 1, n) \in Seq(S) /\ Len(SubSeq(u, 1, n)) = n
<1>1. /\ s \o u \in Seq(S) /\ Len(s \o u) = Len(s) + Len(u)
      /\ Len(s) \in Nat /\ Len(u) \in Nat
  BY ConcatProperties
<1>2. SubSeq(u, 1, n) \in Seq(S) /\ Len(SubSeq(u, 1, n)) = n
  BY <1>1
<1>3. ShorterBy(s \o u, Len(u) - n) = SubSeq(s \o u, 1, Len(s) + n)
  BY <1>1 DEF ShorterBy, Larger
<1>4. /\ SubSeq(s \o u, 1, Len(s) + n) \in Seq(S)
      /\ Len(SubSeq(s \o u, 1, Len(s) + n)) = Len(s) + n
  BY <1>1
<1>5. /\ s \o SubSeq(u, 1, n) \in Seq(S)
      /\ Len(s \o SubSeq(u, 1, n)) = Len(s) + n
  BY <1>2
<1>6. \A i \in 1..(Len(s) + n) : SubSeq(s \o u, 1, Len(s) + n)[i] = (s \o SubSeq(u, 1, n))[i]
  BY <1>1, <1>2
<1> QED
  BY <1>2, <1>3, <1>4, <1>5, <1>6, SeqEqual

\* A token moves from what is to be fed to what has been.
LEMMA HeadMoves ==
  ASSUME NEW S, NEW s \in Seq(S), NEW u \in Seq(S), u # << >>
  PROVE  /\ Head(u) \in S /\ Tail(u) \in Seq(S)
         /\ Append(s, Head(u)) \o Tail(u) = s \o u
<1> DEFINE h == Head(u)
           v == Tail(u)
<1>1. h \in S /\ v \in Seq(S) /\ u = <<h>> \o v
  <2>1. h \in S /\ v \in Seq(S) /\ Len(u) = Len(v) + 1
    OBVIOUS
  <2>2. <<h>> \o v \in Seq(S) /\ Len(<<h>> \o v) = Len(u)
    BY <2>1
  <2>3. \A i \in 1..Len(u) : u[i] = (<<h>> \o v)[i]
    BY <2>1
  <2> HIDE DEF h, v
  <2> QED
    BY <2>1, <2>2, <2>3, SeqEqual
<1> HIDE DEF h, v
<1>2. Append(s, h) = s \o <<h>> /\ <<h>> \in Seq(S)
  BY <1>1, AppendIsConcat
<1>3. (s \o <<h>>) \o v = s \o (<<h>> \o v)
  BY <1>1, <1>2, ConcatAssociative
<1> QED
  BY <1>1, <1>2, <1>3 DEF h, v

\* A part of a text without repeats has none.
LEMMA RepeatsStay ==
  ASSUME NEW new \in Seq(Token), text \in Seq(Token), text' = text \o new, NoRepeats'
  PROVE  NoRepeats
<1>1. \A i \in 1..(Len(text') - 1) : text'[i] # text'[i + 1]
  BY DEF NoRepeats
<1>2. /\ Len(text) \in Nat /\ Len(new) \in Nat /\ Len(text') = Len(text) + Len(new)
      /\ \A i \in 1..Len(text) : text'[i] = text[i]
  OBVIOUS
<1>3. ASSUME NEW i \in 1..(Len(text) - 1)
      PROVE  text[i] # text[i + 1]
  <2>1. text'[i] # text'[i + 1]
    BY <1>1, <1>2
  <2> QED
    BY <1>2, <2>1
<1> QED
  BY <1>3 DEF NoRepeats

\* In a text without repeats the history does not end with the last token of the text.
LEMMA LastUnknown ==
  ASSUME TypeOK, Standing, HistoryKept, NoRepeats, NoneOf({"eval", "reference"}), pc = "ensure"
  PROVE  ~Known(LastToken) /\ d.history # << >> /\ Append(d.history, LastToken) = text
<1>1. text \in Seq(Token) /\ Len(text) > 1 /\ d.history = Before
  BY TypeIs DEF Standing, HistoryKept
<1> DEFINE h == SubSeq(text, 1, Len(text) - 1)
           t == text[Len(text)]
<1>2. d.history = h
  BY <1>1 DEF Before, ShorterBy, Larger
<1>3. /\ h \in Seq(Token) /\ Len(h) = Len(text) - 1 /\ t \in Token
      /\ \A i \in 1..Len(h) : h[i] = text[i]
  BY <1>1
<1>4. h[Len(h)] # t
  <2>1. Len(text) - 1 \in 1..(Len(text) - 1) /\ Len(text) - 1 + 1 = Len(text)
    BY <1>1
  <2>2. text[Len(text) - 1] # text[Len(text)]
    BY <2>1 DEF NoRepeats
  <2> HIDE DEF h
  <2> QED
    BY <1>1, <1>3, <2>2
<1>5. Append(h, t) = text
  <2>1. Append(h, t) \in Seq(Token) /\ Len(Append(h, t)) = Len(text)
    BY <1>1, <1>3
  <2>2. \A i \in 1..Len(text) : Append(h, t)[i] = text[i]
    BY <1>1, <1>3
  <2> HIDE DEF h, t
  <2> QED
    BY <1>1, <2>1, <2>2, SeqEqual
<1>6. h # << >>
  <2>1. Len(h) # 0
    BY <1>1, <1>3
  <2> HIDE DEF h
  <2> QED
    BY <2>1
<1> QED
  BY <1>2, <1>4, <1>5, <1>6 DEF Known, LastToken

\* A replay of the history fails by a call that may fail, never by its length.
LEMMA ReplayFits ==
  ASSUME BaseInv, ReplayFails, back = "idle"
  PROVE  IF d.refOnly THEN May("reference") ELSE May("eval")
<1> DEFINE t == Head(todo)
<1>0. TypeOK /\ Standing /\ Covered
  BY DEF BaseInv
<1>1. pc = "replay" /\ todo # << >> /\ FeedFails(d, t)
  BY DEF ReplayFails
<1>2. t \in Token /\ Len(todo) > 0
  BY <1>0, <1>1, TypeIs
<1> HIDE DEF t
<1>3. /\ d.refOnly => May("reference")
      /\ ~d.refOnly => May("eval") \/ ~EvalOk(m) \/ ~AdvanceOk(m)
  BY <1>0, <1>1, <1>2, TypeIs, FeedFailsIs
<1>4. CASE ~d.refOnly
  <2>1. m.kv => m.kvPos < Window
    BY <1>0, <1>1, <1>2, <1>4, Numbers DEF Covered
  <2>2. m.kind = "attention" => m.kv
    BY <1>0, Configured DEF Standing
  <2>3. EvalOk(m) /\ AdvanceOk(m)
    BY <1>0, <2>1, <2>2 DEF Standing, EvalOk, AdvanceOk
  <2> QED
    BY <1>3, <1>4, <2>3
<1> QED
  BY <1>3, <1>4

-----------------------------------------------------------------------------
\* The calls that may fail never change.
LEMMA FixedStays ==
  ASSUME [Next]_vars
  PROVE  faulty' = faulty /\ conf' = conf
BY DEF Next, vars, fixed, Prefill, PrefillFails, Reset, Replay, ReplayFails, ReplayEnds, Draft,
       GuardPasses, GuardSyncs, Sync, SyncFails, SyncEnds, EnsureKnown, EnsureFed, EnsureFails,
       DraftToken, DraftFails, DraftReturns, Verify, Rewind, Restore, RestoreFails,
       RewindPosition, RewindPositionFails, RewindReference, RewindReferenceFails, Rebuild,
       RebuildFails, Finished

\* Where the text grows, what it was had no repeats either.
LEMMA TextGrows ==
  ASSUME TypeOK, ReplayEnds \/ Verify, NoRepeats'
  PROVE  NoRepeats
<1>0. text \in Seq(Token) /\ out \in Seq(Token)
  BY TypeIs
<1>1. CASE text' = text
  BY <1>1 DEF NoRepeats
<1>2. CASE \E t \in Token : text' = Append(text, t)
  <2>1. PICK t \in Token : text' = Append(text, t)
    BY <1>2
  <2>2. text' = text \o <<t>> /\ <<t>> \in Seq(Token)
    BY <1>0, <2>1, AppendIsConcat
  <2> QED
    BY <1>0, <2>2, RepeatsStay
<1>3. CASE Verify
  <2>1. PICK n \in 0..Len(out), t \in Token : text' = text \o Append(SubSeq(out, 1, n), t)
    BY <1>3 DEF Verify
  <2> DEFINE new == SubSeq(out, 1, n)
  <2>2. new \in Seq(Token) /\ text' = text \o Append(new, t)
    BY <1>0, <2>1, CutConcatenated
  <2> HIDE DEF new
  <2>3. Append(new, t) \in Seq(Token)
    BY <2>2
  <2> QED
    BY <1>0, <2>2, <2>3, RepeatsStay
<1> QED
  BY <1>1, <1>2, <1>3 DEF ReplayEnds

\* The history follows the text.
LEMMA HistoryStep ==
  ASSUME BaseInv, HistoryKept, [Next]_vars
  PROVE  HistoryKept'
<1> SUFFICES ASSUME NoRepeats', NoneOf({"eval", "reference"})'
             PROVE  /\ pc' \in {"idle", "draft", "ensure", "sync", "restore", "position",
                                "shadow", "rebuild"} => d'.history = Before'
                    /\ pc' = "replay" =>
                         d'.history \o todo' = IF back' = "prefill" THEN text' ELSE Before'
                    /\ pc' \in {"drafting", "verify"} => d'.history = text' \o out'
                    /\ pc' = "rewind" => ShorterBy(d'.history, want') = Before'
  BY DEF HistoryKept
<1>0. /\ TypeOK /\ Standing /\ Covered /\ TypeOK'
      /\ NoneOf({"eval", "reference"})
      /\ ~May("eval") /\ ~May("reference")
      /\ d.history \in Seq(Token) /\ text \in Seq(Token) /\ out \in Seq(Token)
      /\ todo \in Seq(Token)
  BY BaseKeeps, FixedStays, TypeIs, Numbers DEF BaseInv, NoneOf, May
<1>1. NoRepeats =>
        /\ pc \in {"idle", "draft", "ensure", "sync", "restore", "position", "shadow", "rebuild"} =>
             d.history = Before
        /\ pc = "replay" => d.history \o todo = IF back = "prefill" THEN text ELSE Before
        /\ pc \in {"drafting", "verify"} => d.history = text \o out
        /\ pc = "rewind" => ShorterBy(d.history, want) = Before
  BY <1>0 DEF HistoryKept
<1>2. text' = text => NoRepeats /\ Before' = Before
  BY DEF NoRepeats, Before
<1>3. CASE Prefill
  <2>1. d' = NewDrafter(conf) /\ pc' = "replay" /\ back' = "prefill" /\ text' = todo'
    BY <1>3 DEF Prefill, Cleared
  <2>2. d'.history = << >> /\ text' \in Seq(Token)
    BY <1>0, <2>1, NewDrafterIs, TypeIsNext
  <2> QED
    BY <2>1, <2>2, ConcatEmptySeq
<1>4. CASE PrefillFails \/ Reset \/ EnsureFails \/ DraftFails
  <2>1. pc' = "off"
    BY <1>4 DEF PrefillFails, Reset, EnsureFails, DraftFails
  <2> QED
    BY <2>1
<1>5. CASE Replay
  <2>1. /\ pc = "replay" /\ pc' = "replay" /\ todo # << >> /\ todo' = Tail(todo)
        /\ FeedOk(d, Head(todo)) /\ UNCHANGED <<text, back>>
    BY <1>5 DEF Replay, loop
  <2>2. Head(todo) \in Token /\ Append(d.history, Head(todo)) \o Tail(todo) = d.history \o todo
    BY <1>0, <2>1, HeadMoves
  <2>3. d'.history = Append(d.history, Head(todo))
    BY <1>0, <2>1, <2>2, TypeIs, FeedOkIs
  <2> QED
    BY <1>1, <1>2, <2>1, <2>2, <2>3
<1>6. CASE ReplayFails
  <2>1. back # "idle"
    BY <1>0, <1>6, ReplayFits
  <2>2. pc' = "off"
    BY <1>0, <1>6, <2>1 DEF ReplayFails, Standing
  <2> QED
    BY <2>2
<1>7. CASE ReplayEnds
  <2>1. /\ pc = "replay" /\ pc' = "idle" /\ todo = << >> /\ d' = d
        /\ IF back = "prefill" THEN \E t \in Token : text' = Append(text, t) ELSE text' = text
    BY <1>7 DEF ReplayEnds
  <2>2. d.history \o todo = d.history
    BY <1>0, <2>1, ConcatEmptySeq
  <2>3. CASE back = "prefill"
    <3>1. PICK t \in Token : text' = Append(text, t)
      BY <2>1, <2>3
    <3>2. NoRepeats
      BY <1>0, <1>7, TextGrows
    <3>3. Before' = text
      BY <1>0, <3>1, CutAppended DEF Before
    <3> QED
      BY <1>1, <2>1, <2>2, <2>3, <3>2, <3>3
  <2>4. CASE back # "prefill"
    BY <1>1, <1>2, <2>1, <2>2, <2>4
  <2> QED
    BY <2>3, <2>4
<1>8. CASE Draft \/ GuardPasses \/ GuardSyncs \/ Sync \/ SyncFails
  <2>1. /\ UNCHANGED <<text, d>>
        /\ pc \in {"idle", "draft", "sync"} /\ pc' \in {"draft", "ensure", "sync", "idle"}
    BY <1>0, <1>8 DEF Draft, GuardPasses, GuardSyncs, Sync, SyncFails, StartSync, Standing, loop
  <2> QED
    BY <1>1, <1>2, <2>1
<1>9. CASE SyncEnds
  <2>1. /\ UNCHANGED text /\ pc = "sync" /\ pc' \in {"ensure", "idle"}
        /\ d'.history = d.history
    <3>1. d' = [d EXCEPT !.ready = d.history # << >>, !.refOnly = @ \/ back = "ensure"]
      BY <1>9 DEF SyncEnds
    <3>2. d'.history = d.history
      BY <1>0, <3>1, TypeIs DEF Fields
    <3> QED
      BY <1>0, <1>9, <3>2 DEF SyncEnds, Standing, loop
  <2> QED
    BY <1>1, <1>2, <2>1
<1>10. CASE EnsureKnown
  <2>1. pc = "ensure" /\ Known(LastToken) /\ UNCHANGED text
    BY <1>10 DEF EnsureKnown, loop
  <2> QED
    BY <1>0, <1>2, <2>1, LastUnknown
<1>11. CASE EnsureFed
  <2>1. /\ pc = "ensure" /\ pc' = "drafting" /\ FeedOk(Corrected, LastToken)
        /\ UNCHANGED <<text, out>>
    BY <1>11 DEF EnsureFed, loop
  <2>2. LastToken \in Token /\ Append(d.history, LastToken) = text /\ out = << >>
    BY <1>0, <1>2, <2>1, LastTokenIs, LastUnknown DEF Standing
  <2>3. d'.history = Append(d.history, LastToken)
    <3>1. Corrected \in Fields /\ Corrected.history = d.history /\ Corrected.refOnly = d.refOnly
      BY <1>0, CorrectedIs
    <3> QED
      BY <1>0, <2>1, <2>2, <3>1, FeedOkIs
  <2>4. text \o << >> = text
    BY <1>0, ConcatEmptySeq
  <2> QED
    BY <2>1, <2>2, <2>3, <2>4
<1>12. CASE DraftToken
  <2>1. pc = "drafting" /\ pc' = "drafting" /\ UNCHANGED text
    BY <1>12 DEF DraftToken, loop
  <2>2. PICK t \in Token : FeedOk(d, t) /\ out' = Append(out, t)
    BY <1>12 DEF DraftToken
  <2>3. d'.history = Append(d.history, t)
    BY <1>0, <2>2, TypeIs, FeedOkIs
  <2>4. text \o Append(out, t) = Append(text \o out, t)
    BY <1>0, CutAppended
  <2> QED
    BY <1>1, <1>2, <2>1, <2>2, <2>3, <2>4
<1>13. CASE DraftReturns
  <2>1. /\ pc = "drafting" /\ pc' = "verify" /\ UNCHANGED <<text, out>>
        /\ d' = [d EXCEPT !.drafted = @ + Len(out)]
    BY <1>13 DEF DraftReturns, loop
  <2>2. d'.history = d.history
    BY <1>0, <2>1, TypeIs DEF Fields
  <2> QED
    BY <1>1, <1>2, <2>1, <2>2
<1>14. CASE Verify
  <2>1. pc = "verify" /\ UNCHANGED d
    BY <1>14 DEF Verify
  <2>2. PICK n \in 0..Len(out), t \in Token :
          /\ text' = text \o Append(SubSeq(out, 1, n), t)
          /\ want' = Len(out) - n
          /\ pc' = IF n = Len(out) THEN "idle" ELSE "rewind"
    BY <1>14 DEF Verify
  <2> DEFINE new == SubSeq(out, 1, n)
  <2>3. new \in Seq(Token) /\ ShorterBy(text \o out, Len(out) - n) = text \o new
        /\ (n = Len(out) => new = out)
    BY <1>0, CutConcatenated, SubSeqFull
  <2>4. text' = text \o Append(new, t)
    BY <2>2
  <2> HIDE DEF new
  <2>5. NoRepeats
    BY <1>0, <1>14, TextGrows
  <2>6. Before' = text \o new
    <3>1. text \o Append(new, t) = Append(text \o new, t) /\ text \o new \in Seq(Token)
      BY <1>0, <2>3, CutAppended, ConcatProperties
    <3> DEFINE u == text \o new
    <3>2. u \in Seq(Token) /\ text' = Append(u, t)
      BY <2>4, <3>1
    <3> HIDE DEF u
    <3>3. ShorterBy(Append(u, t), 1) = u
      BY <3>2, CutAppended
    <3> QED
      BY <3>2, <3>3 DEF Before, u
  <2>7. d'.history = text \o out
    BY <1>1, <2>1, <2>5
  <2> QED
    BY <2>2, <2>3, <2>6, <2>7
<1>15. CASE Rewind
  <2>1. /\ pc = "rewind" /\ pc' \in {"idle", "restore", "shadow"} /\ UNCHANGED text
        /\ d' = [d EXCEPT !.rewound = @ + want, !.history = ShorterBy(@, want), !.ready = FALSE]
    BY <1>15 DEF Rewind, loop
  <2>2. d'.history = ShorterBy(d.history, want)
    BY <1>0, <2>1, TypeIs DEF Fields
  <2> QED
    BY <1>1, <1>2, <2>1, <2>2
<1>16. CASE \/ Restore \/ RestoreFails \/ RewindPosition \/ RewindPositionFails
            \/ RewindReference \/ RewindReferenceFails \/ RebuildFails
  <2>1. /\ UNCHANGED <<text, d>>
        /\ pc \in {"restore", "position", "shadow", "rebuild"}
        /\ pc' \in {"idle", "sync", "position", "shadow", "rebuild"}
    BY <1>16 DEF Restore, RestoreFails, RewindPosition, RewindPositionFails,
                 RewindReference, RewindReferenceFails, RebuildFails, StartSync, loop
  <2> QED
    BY <1>1, <1>2, <2>1
<1>17. CASE Rebuild
  <2>1. /\ pc = "rebuild" /\ pc' = "replay" /\ back' = "idle" /\ todo' = d.history
        /\ d' = [d EXCEPT !.history = << >>, !.ready = FALSE] /\ UNCHANGED text
    BY <1>17 DEF Rebuild, loop
  <2>2. d'.history = << >> /\ << >> \o d.history = d.history
    BY <1>0, <2>1, TypeIs, ConcatEmptySeq DEF Fields
  <2> QED
    BY <1>1, <1>2, <2>1, <2>2
<1>18. CASE UNCHANGED vars \/ Finished
  <2>1. UNCHANGED <<pc, d, text, todo, back, out, want>>
    BY <1>18 DEF vars, Finished
  <2> QED
    BY <1>1, <1>2, <2>1
<1> QED
  BY <1>3, <1>4, <1>5, <1>6, <1>7, <1>8, <1>9, <1>10, <1>11, <1>12, <1>13, <1>14, <1>15, <1>16,
     <1>17, <1>18 DEF Next

-----------------------------------------------------------------------------
\* What a step does to the fields of the drafter.
LEMMA SyncEndsIs ==
  ASSUME TypeOK, SyncEnds
  PROVE  /\ d'.history = d.history /\ d'.corrections = d.corrections
         /\ d'.refOnly = (d.refOnly \/ back = "ensure")
<1> DEFINE r == d.history # << >>
           s == d.refOnly \/ back = "ensure"
<1>1. d' = [d EXCEPT !.ready = r, !.refOnly = s]
  BY DEF SyncEnds
<1> HIDE DEF r, s
<1>2. d'.history = d.history /\ d'.corrections = d.corrections /\ d'.refOnly = s
  BY <1>1, TypeIs DEF Fields
<1> QED
  BY <1>2 DEF s

LEMMA BooksIs ==
  ASSUME TypeOK, DraftReturns \/ Rewind \/ Rebuild
  PROVE  /\ d'.corrections = d.corrections /\ d'.refOnly = d.refOnly
         /\ DraftReturns => d'.history = d.history
         /\ Rewind => d'.history = ShorterBy(d.history, want)
         /\ Rebuild => d'.history = << >>
<1>0. d \in Fields
  BY TypeIs
<1>1. CASE DraftReturns
  <2>1. pc = "drafting" /\ d' = [d EXCEPT !.drafted = @ + Len(out)]
    BY <1>1 DEF DraftReturns
  <2>2. ~Rewind /\ ~Rebuild
    BY <2>1 DEF Rewind, Rebuild
  <2> QED
    BY <1>0, <2>1, <2>2 DEF Fields
<1>2. CASE Rewind
  <2>1. /\ pc = "rewind"
        /\ d' = [d EXCEPT !.rewound = @ + want, !.history = ShorterBy(@, want), !.ready = FALSE]
    BY <1>2 DEF Rewind
  <2>2. ~DraftReturns /\ ~Rebuild
    BY <2>1 DEF DraftReturns, Rebuild
  <2> QED
    BY <1>0, <2>1, <2>2 DEF Fields
<1>3. CASE Rebuild
  <2>1. pc = "rebuild" /\ d' = [d EXCEPT !.history = << >>, !.ready = FALSE]
    BY <1>3 DEF Rebuild
  <2>2. ~DraftReturns /\ ~Rewind
    BY <2>1 DEF DraftReturns, Rewind
  <2> QED
    BY <1>0, <2>1, <2>2 DEF Fields
<1> QED
  BY <1>1, <1>2, <1>3

\* Every feed that succeeds in one place: the history is longer by the token.
LEMMA FedIs ==
  ASSUME TypeOK, Standing, Replay \/ EnsureFed \/ DraftToken
  PROVE  /\ d'.refOnly = d.refOnly
         /\ Replay => d'.corrections = d.corrections
         /\ DraftToken => d'.corrections = d.corrections
         /\ EnsureFed /\ d.history # << >> => d'.corrections = d.corrections + 1
<1>0. d \in Fields /\ Corrected \in Fields /\ Corrected.refOnly = d.refOnly
      /\ (d.history # << >> => Corrected.corrections = d.corrections + 1)
  BY CorrectedIs
<1>1. CASE Replay
  <2>1. pc = "replay" /\ todo # << >> /\ FeedOk(d, Head(todo))
    BY <1>1 DEF Replay
  <2>2. Head(todo) \in Token
    BY <2>1, TypeIs
  <2>3. ~EnsureFed
    BY <2>1 DEF EnsureFed
  <2> QED
    BY <1>0, <2>1, <2>2, <2>3, FeedOkIs
<1>2. CASE DraftToken
  <2>1. pc = "drafting"
    BY <1>2 DEF DraftToken
  <2>2. PICK t \in Token : FeedOk(d, t)
    BY <1>2 DEF DraftToken
  <2>3. ~EnsureFed
    BY <2>1 DEF EnsureFed
  <2> QED
    BY <1>0, <2>2, <2>3, FeedOkIs
<1>3. CASE EnsureFed
  <2>1. pc = "ensure" /\ FeedOk(Corrected, LastToken)
    BY <1>3 DEF EnsureFed
  <2>2. ~Replay /\ ~DraftToken
    BY <2>1 DEF Replay, DraftToken
  <2>3. LastToken \in Token
    BY <2>1, LastTokenIs
  <2> QED
    BY <1>0, <2>1, <2>2, <2>3, FeedOkIs
<1> QED
  BY <1>1, <1>2, <1>3

\* Every round of a guarded drafter is a correction.
LEMMA CountedStep ==
  ASSUME BaseInv, HistoryKept, Counted, [Next]_vars
  PROVE  Counted'
<1> SUFFICES ASSUME conf'.guard, ~conf'.useRef, NoRepeats', NoneOf({"eval", "reference"})'
             PROVE  /\ pc' \in {"draft", "ensure", "sync"} => rounds' <= d'.corrections + 1
                    /\ pc' \notin {"off", "draft", "ensure", "sync"} => rounds' <= d'.corrections
                    /\ pc' = "sync" => back' = "ensure"
                    /\ pc' \in {"ensure", "drafting", "verify"} /\ rounds' > MinCorrections =>
                         d'.refOnly
  BY DEF Counted
<1>0. /\ TypeOK /\ Standing /\ Covered
      /\ conf.guard /\ ~conf.useRef
      /\ NoneOf({"eval", "reference"})
      /\ ~May("eval") /\ ~May("reference")
      /\ rounds \in Nat /\ d.corrections \in Nat /\ MinCorrections \in Nat
  BY FixedStays, Numbers, DrafterAssumption DEF BaseInv, NoneOf, May
<1>1. NoRepeats =>
        /\ pc \in {"draft", "ensure", "sync"} => rounds <= d.corrections + 1
        /\ pc \notin {"off", "draft", "ensure", "sync"} => rounds <= d.corrections
        /\ pc = "sync" => back = "ensure"
        /\ pc \in {"ensure", "drafting", "verify"} /\ rounds > MinCorrections => d.refOnly
  BY <1>0 DEF Counted
<1>2. text' = text => NoRepeats
  BY DEF NoRepeats
<1>3. CASE Prefill
  <2>1. d' = NewDrafter(conf) /\ pc' = "replay" /\ rounds' = 0
    BY <1>3 DEF Prefill, Cleared
  <2>2. d'.corrections = 0
    BY <1>0, <2>1, NewDrafterIs
  <2> QED
    BY <2>1, <2>2
<1>4. CASE PrefillFails \/ Reset \/ EnsureFails \/ DraftFails
  <2>1. pc' = "off"
    BY <1>4 DEF PrefillFails, Reset, EnsureFails, DraftFails
  <2> QED
    BY <2>1
<1>5. CASE Replay \/ DraftToken
  <2>1. UNCHANGED <<text, rounds, pc>> /\ pc \in {"replay", "drafting"}
    BY <1>5 DEF Replay, DraftToken, loop
  <2>2. d'.refOnly = d.refOnly /\ d'.corrections = d.corrections
    BY <1>0, <1>5, FedIs
  <2> QED
    BY <1>1, <1>2, <2>1, <2>2
<1>6. CASE ReplayFails
  <2>1. back # "idle"
    BY <1>0, <1>6, ReplayFits
  <2>2. pc' = "off"
    BY <1>0, <1>6, <2>1 DEF ReplayFails, Standing
  <2> QED
    BY <2>2
<1>7. CASE ReplayEnds \/ Verify
  <2>1. /\ UNCHANGED <<d, rounds>> /\ pc \in {"replay", "verify"} /\ pc' \in {"idle", "rewind"}
    BY <1>7 DEF ReplayEnds, Verify
  <2>2. NoRepeats
    BY <1>0, <1>7, TextGrows
  <2> QED
    BY <1>1, <2>1, <2>2
<1>8. CASE Draft
  <2>1. UNCHANGED <<text, d>> /\ pc = "idle" /\ pc' = "draft" /\ rounds' = rounds + 1
    BY <1>8 DEF Draft
  <2> QED
    BY <1>0, <1>1, <1>2, <2>1
<1>9. CASE GuardPasses
  <2>1. UNCHANGED <<text, d, rounds>> /\ pc = "draft" /\ pc' = "ensure" /\ ~GuardTrips
    BY <1>9 DEF GuardPasses, loop
  <2>2. d.refOnly \/ ~(d.corrections >= MinCorrections)
    BY <1>0, <2>1 DEF GuardTrips
  <2> QED
    BY <1>0, <1>1, <1>2, <2>1, <2>2
<1>10. CASE GuardSyncs
  <2>1. UNCHANGED <<text, d, rounds>> /\ pc = "draft" /\ pc' = "sync" /\ back' = "ensure"
    BY <1>10 DEF GuardSyncs, StartSync, loop
  <2> QED
    BY <1>1, <1>2, <2>1
<1>11. CASE Sync
  <2>1. UNCHANGED <<text, d, rounds, pc, back>> /\ pc = "sync"
    BY <1>11 DEF Sync, loop
  <2> QED
    BY <1>1, <1>2, <2>1
<1>12. CASE SyncEnds
  <2>1. UNCHANGED <<text, rounds>> /\ pc = "sync" /\ pc' = back
    BY <1>12 DEF SyncEnds, loop
  <2>2. d'.corrections = d.corrections /\ d'.refOnly = (d.refOnly \/ back = "ensure")
    BY <1>0, <1>12, SyncEndsIs
  <2> QED
    BY <1>1, <1>2, <2>1, <2>2
<1>13. CASE EnsureKnown
  <2>1. pc = "ensure" /\ Known(LastToken) /\ UNCHANGED text
    BY <1>13 DEF EnsureKnown, loop
  <2> QED
    BY <1>0, <1>2, <2>1, LastUnknown
<1>14. CASE EnsureFed
  <2>1. UNCHANGED <<text, rounds>> /\ pc = "ensure" /\ pc' = "drafting"
    BY <1>14 DEF EnsureFed, loop
  <2>2. d.history # << >>
    BY <1>0, <1>2, <2>1, LastUnknown
  <2>3. d'.refOnly = d.refOnly /\ d'.corrections = d.corrections + 1
    BY <1>0, <1>14, <2>2, FedIs
  <2> QED
    BY <1>0, <1>1, <1>2, <2>1, <2>3
<1>15. CASE DraftReturns
  <2>1. UNCHANGED <<text, rounds>> /\ pc = "drafting" /\ pc' = "verify"
    BY <1>15 DEF DraftReturns, loop
  <2>2. d'.corrections = d.corrections /\ d'.refOnly = d.refOnly
    BY <1>0, <1>15, BooksIs
  <2> QED
    BY <1>1, <1>2, <2>1, <2>2
<1>16. CASE Rewind \/ Rebuild
  <2>1. UNCHANGED <<text, rounds>> /\ pc \in {"rewind", "rebuild"}
        /\ pc' \in {"idle", "restore", "shadow", "replay"}
    BY <1>16 DEF Rewind, Rebuild, loop
  <2>2. d'.corrections = d.corrections /\ d'.refOnly = d.refOnly
    BY <1>0, <1>16, BooksIs
  <2> QED
    BY <1>1, <1>2, <2>1, <2>2
<1>17. CASE Restore \/ RestoreFails \/ RewindPosition \/ RewindPositionFails
            \/ RewindReference \/ RebuildFails
  <2>1. /\ UNCHANGED <<text, d, rounds>>
        /\ pc \in {"restore", "position", "shadow", "rebuild"}
        /\ pc' \in {"idle", "position", "shadow", "rebuild"}
    BY <1>17 DEF Restore, RestoreFails, RewindPosition, RewindPositionFails, RewindReference,
                 RebuildFails, loop
  <2> QED
    BY <1>1, <1>2, <2>1
<1>18. CASE SyncFails \/ RewindReferenceFails
  BY <1>0, <1>18 DEF SyncFails, RewindReferenceFails
<1>19. CASE UNCHANGED vars \/ Finished
  <2>1. UNCHANGED <<pc, d, text, rounds, back>>
    BY <1>19 DEF vars, Finished
  <2> QED
    BY <1>1, <1>2, <2>1
<1> QED
  BY <1>3, <1>4, <1>5, <1>6, <1>7, <1>8, <1>9, <1>10, <1>11, <1>12, <1>13, <1>14, <1>15, <1>16,
     <1>17, <1>18, <1>19 DEF Next

\* While the reference is watched it has the history.
LEMMA ReferenceStep ==
  ASSUME BaseInv, ReferenceKept, [Next]_vars
  PROVE  ReferenceKept'
<1> SUFFICES ASSUME NoneOf({"reference", "reset"})'
             PROVE  /\ pc' = "sync" => ref' \o todo' = d'.history
                    /\ NeedsReference' =>
                         /\ pc' \in {"idle", "replay", "draft", "ensure", "drafting", "verify",
                                     "rewind"} => ref' = d'.history
                         /\ pc' \in {"restore", "position", "shadow"} =>
                              ShorterBy(ref', want') = d'.history
  BY DEF ReferenceKept
<1>0. /\ TypeOK /\ Standing /\ Covered
      /\ ~May("reference") /\ ~May("reset")
      /\ d.history \in Seq(Token) /\ ref \in Seq(Token) /\ todo \in Seq(Token)
      /\ out \in Seq(Token) /\ want \in Nat
  BY FixedStays, TypeIs, Numbers DEF BaseInv, NoneOf, May
<1>1. /\ pc = "sync" => ref \o todo = d.history
      /\ NeedsReference =>
           /\ pc \in {"idle", "replay", "draft", "ensure", "drafting", "verify", "rewind"} =>
                ref = d.history
           /\ pc \in {"restore", "position", "shadow"} => ShorterBy(ref, want) = d.history
  BY FixedStays DEF ReferenceKept, NoneOf
<1>2. d'.refOnly = d.refOnly => (NeedsReference' => NeedsReference)
  BY FixedStays DEF NeedsReference
<1>3. CASE Prefill
  <2>1. d' = NewDrafter(conf) /\ pc' = "replay" /\ ref' = << >>
    BY <1>3 DEF Prefill, Cleared
  <2>2. d'.history = << >>
    BY <1>0, <2>1, NewDrafterIs
  <2> QED
    BY <2>1, <2>2
<1>4. CASE PrefillFails \/ Reset \/ EnsureFails \/ DraftFails
  <2>1. pc' = "off"
    BY <1>4 DEF PrefillFails, Reset, EnsureFails, DraftFails
  <2> QED
    BY <2>1
<1>5. CASE Replay \/ EnsureFed \/ DraftToken
  <2>1. pc \in {"replay", "ensure", "drafting"} /\ pc' \in {"replay", "drafting"}
    BY <1>5 DEF Replay, EnsureFed, DraftToken
  <2>2. PICK e \in {d, Corrected}, t \in Token : FeedOk(e, t)
    <3>1. CASE Replay
      <4>1. todo # << >> /\ FeedOk(d, Head(todo))
        BY <3>1 DEF Replay
      <4>2. Head(todo) \in Token
        BY <1>0, <4>1
      <4> QED
        BY <4>1, <4>2
    <3>2. CASE EnsureFed
      <4>1. pc = "ensure" /\ FeedOk(Corrected, LastToken)
        BY <3>2 DEF EnsureFed
      <4> QED
        BY <1>0, <4>1, LastTokenIs
    <3>3. CASE DraftToken
      BY <3>3 DEF DraftToken
    <3> QED
      BY <1>5, <3>1, <3>2, <3>3
  <2>3. e \in Fields /\ e.refOnly = d.refOnly /\ e.history = d.history
    BY <1>0, CorrectedIs
  <2>4. /\ d'.history = Append(d.history, t) /\ d'.refOnly = d.refOnly
        /\ d.refOnly => ref' = Append(ref, t)
        /\ ~d.refOnly => ref' \in Shadowed(t)
    BY <1>0, <2>2, <2>3, FeedOkIs
  <2>5. NeedsReference => ref' = Append(ref, t)
    BY <1>0, <2>4 DEF Shadowed
  <2> QED
    BY <1>1, <1>2, <2>1, <2>4, <2>5
<1>6. CASE ReplayFails
  <2>1. /\ pc = "replay" /\ pc' \in {"off", "idle"} /\ todo # << >> /\ FeedFails(d, Head(todo))
        /\ (pc' = "idle" => back = "idle")
    BY <1>0, <1>6 DEF ReplayFails, Standing
  <2>2. SUFFICES ASSUME back = "idle" PROVE ref' = ref /\ d' = d
    BY <1>1, <1>2, <2>1
  <2>3. ~d.refOnly /\ May("eval")
    BY <1>0, <1>6, <2>2, ReplayFits
  <2>4. d' = d
    BY <2>1 DEF FeedFails
  <2>5. EvalOk(m) => AdvanceOk(m)
    <3>1. Len(todo) > 0
      BY <1>0, <2>1
    <3>2. m.kv => m.kvPos < Window
      BY <1>0, <2>1, <2>2, <2>3, <3>1, Numbers DEF Covered
    <3> QED
      BY <1>0, <3>2 DEF Standing, AdvanceOk
  <2> QED
    BY <2>1, <2>3, <2>4, <2>5 DEF FeedFails
<1>7. CASE ReplayEnds \/ Draft \/ GuardPasses \/ EnsureKnown
  <2>1. /\ UNCHANGED <<ref, d>> /\ pc \in {"replay", "idle", "draft", "ensure"}
        /\ pc' \in {"idle", "draft", "ensure", "drafting"}
    BY <1>7 DEF ReplayEnds, Draft, GuardPasses, EnsureKnown
  <2> QED
    BY <1>1, <1>2, <2>1
<1>8. CASE GuardSyncs
  <2>1. UNCHANGED d /\ pc' = "sync" /\ ref' = << >> /\ todo' = d.history
    BY <1>8 DEF GuardSyncs, StartSync
  <2> QED
    BY <1>0, <2>1, ConcatEmptySeq
<1>9. CASE Sync
  <2>1. /\ UNCHANGED d /\ pc = "sync" /\ pc' = "sync" /\ todo # << >>
        /\ ref' = Append(ref, Head(todo)) /\ todo' = Tail(todo)
    BY <1>9 DEF Sync
  <2>2. Append(ref, Head(todo)) \o Tail(todo) = ref \o todo
    BY <1>0, <2>1, HeadMoves
  <2> QED
    BY <1>1, <2>1, <2>2
<1>10. CASE SyncEnds
  <2>1. pc = "sync" /\ todo = << >> /\ pc' \in {"ensure", "idle"} /\ UNCHANGED ref
    BY <1>0, <1>10 DEF SyncEnds, Standing
  <2>2. d'.history = d.history
    BY <1>0, <1>10, SyncEndsIs
  <2>3. ref \o todo = ref
    BY <1>0, <2>1, ConcatEmptySeq
  <2> QED
    BY <1>1, <2>1, <2>2, <2>3
<1>11. CASE DraftReturns
  <2>1. UNCHANGED ref /\ pc = "drafting" /\ pc' = "verify"
    BY <1>11 DEF DraftReturns
  <2>2. d'.history = d.history /\ d'.refOnly = d.refOnly
    BY <1>0, <1>11, BooksIs
  <2> QED
    BY <1>1, <1>2, <2>1, <2>2
<1>12. CASE Verify
  <2>1. UNCHANGED <<ref, d>> /\ pc = "verify" /\ pc' \in {"idle", "rewind"}
    BY <1>12 DEF Verify
  <2> QED
    BY <1>1, <1>2, <2>1
<1>13. CASE Rewind
  <2>1. /\ UNCHANGED ref /\ pc = "rewind" /\ want' = Smaller(want, Len(d.history))
        /\ pc' \in {"idle", "restore", "shadow"} /\ (pc' = "idle" => d.history = << >>)
    BY <1>13 DEF Rewind
  <2>2. want > 0 /\ want <= Len(out) /\ Len(out) <= Len(d.history)
    BY <1>0, <2>1 DEF Standing
  <2>3. want' = want /\ d.history # << >>
    BY <1>0, <2>1, <2>2, Numbers DEF Smaller
  <2>4. d'.history = ShorterBy(d.history, want) /\ d'.refOnly = d.refOnly
    BY <1>0, <1>13, BooksIs
  <2> QED
    BY <1>1, <1>2, <2>1, <2>3, <2>4
<1>14. CASE Restore \/ RestoreFails \/ RewindPosition
  <2>1. /\ UNCHANGED <<ref, d, want>> /\ pc \in {"restore", "position"}
        /\ pc' \in {"position", "shadow"}
    BY <1>14 DEF Restore, RestoreFails, RewindPosition
  <2> QED
    BY <1>1, <1>2, <2>1
<1>15. CASE RewindPositionFails
  <2>1. pc' = "rebuild"
    BY <1>15 DEF RewindPositionFails
  <2> QED
    BY <2>1
<1>16. CASE RewindReference
  <2>1. /\ UNCHANGED d /\ pc = "shadow" /\ pc' = "idle"
        /\ NeedsReference => ref' = ShorterBy(ref, want)
    BY <1>16 DEF RewindReference
  <2> QED
    BY <1>1, <1>2, <2>1
<1>17. CASE Rebuild
  <2>1. /\ pc' = "replay" /\ (conf.runner => ref' = << >>)
    BY <1>17 DEF Rebuild
  <2>2. d'.history = << >>
    BY <1>0, <1>17, BooksIs
  <2>3. NeedsReference' => conf.runner
    BY FixedStays DEF NeedsReference
  <2> QED
    BY <2>1, <2>2, <2>3
<1>18. CASE SyncFails \/ RewindReferenceFails \/ RebuildFails
  BY <1>0, <1>18 DEF SyncFails, RewindReferenceFails, RebuildFails
<1>19. CASE UNCHANGED vars \/ Finished
  <2>1. UNCHANGED <<pc, d, ref, todo, want>>
    BY <1>19 DEF vars, Finished
  <2> QED
    BY <1>1, <1>2, <2>1
<1> QED
  BY <1>3, <1>4, <1>5, <1>6, <1>7, <1>8, <1>9, <1>10, <1>11, <1>12, <1>13, <1>14, <1>15, <1>16,
     <1>17, <1>18, <1>19 DEF Next

-----------------------------------------------------------------------------
\* What a model remembers of a text.
LEMMA RowsAgree ==
  ASSUME NEW rows \in Seq(Cell), NEW h, NEW g, NEW n \in Nat, RowsOf(rows, h, n),
         \A p \in 1..n : g[p] = h[p]
  PROVE  RowsOf(rows, g, n)
<1>1. Len(rows) = Smaller(n, Window) /\ Len(rows) <= n /\ Len(rows) \in Nat
  BY WindowAssumption DEF RowsOf, Smaller
<1>2. ASSUME NEW i \in 1..Len(rows)
      PROVE  rows[i] = RowAt(g, n - Len(rows) + i)
  <2>1. n - Len(rows) + i \in 1..n
    BY <1>1
  <2>2. rows[i] = RowAt(h, n - Len(rows) + i)
    BY DEF RowsOf
  <2> QED
    BY <2>1, <2>2 DEF RowAt
<1> QED
  BY <1>1, <1>2 DEF RowsOf

LEMMA SnapshotAgrees ==
  ASSUME NEW s \in Snapshot, NEW h, NEW g, NEW n \in Nat, SnapshotHeld(s, h, n),
         \A p \in 1..n : g[p] = h[p]
  PROVE  SnapshotHeld(s, g, n)
<1>1. \A f \in Face : s.state[f] \in Seq(Cell)
  BY DEF Snapshot
<1>2. \A f \in Face : RowsOf(s.state[f], g, n)
  BY <1>1, RowsAgree DEF SnapshotHeld
<1> QED
  BY <1>2 DEF SnapshotHeld

\* The row the program appends is that of the next token.
LEMMA RowsMore ==
  ASSUME NEW rows \in Seq(Cell), NEW h \in Seq(Token), NEW t \in Token,
         RowsOf(rows, h, Len(h)), NEW row \in Cell, row = RowAt(Append(h, t), Len(h) + 1)
  PROVE  RowsOf(Append1(rows, row), Append(h, t), Len(h) + 1)
<1> DEFINE g == Append(h, t)
           n == Len(h)
           new == Append1(rows, row)
<1>0. /\ n \in Nat /\ Window \in Nat \ {0} /\ Len(rows) \in Nat
      /\ \A p \in 1..n : g[p] = h[p]
  BY WindowAssumption
<1>1. RowAt(g, n + 1) = row
  OBVIOUS
<1>2. RowsOf(rows, g, n)
  BY <1>0, RowsAgree
<1>5. row \in Cell /\ Len(rows) <= Window
  BY <1>0, <1>2 DEF RowsOf, Smaller
<1>6. /\ Len(rows) < Window => Append1(rows, row) = Append(rows, row)
      /\ Len(rows) = Window =>
           /\ Len(Append1(rows, row)) = Window
           /\ \A i \in 1..(Window - 1) : Append1(rows, row)[i] = rows[i + 1]
           /\ Append1(rows, row)[Window] = row
  BY <1>5, Append1Is, Zenon
<1> HIDE DEF g, n
<1>3. CASE n < Window
  <2>1. Len(rows) = n
    BY <1>0, <1>2, <1>3 DEF RowsOf, Smaller
  <2>2. new = Append(rows, row)
    BY <1>3, <1>6, <2>1
  <2>3. /\ Len(new) = n + 1 /\ new[n + 1] = row
        /\ \A i \in 1..n : new[i] = rows[i]
    BY <1>0, <2>1, <2>2
  <2>4. \A i \in 1..n : rows[i] = RowAt(g, i)
    BY <1>0, <1>2, <2>1 DEF RowsOf
  <2> HIDE DEF new
  <2>5. \A i \in 1..(n + 1) : new[i] = RowAt(g, i)
    <3>1. SUFFICES ASSUME NEW i \in 1..(n + 1) PROVE new[i] = RowAt(g, i)
      OBVIOUS
    <3>2. i = n + 1 \/ i \in 1..n
      BY <1>0
    <3> QED
      BY <1>1, <2>3, <2>4, <3>2
  <2>6. Smaller(n + 1, Window) = n + 1
    BY <1>0, <1>3 DEF Smaller
  <2>7. \A i \in 1..(n + 1) : (n + 1) - (n + 1) + i = i
    BY <1>0
  <2>8. RowsOf(new, g, n + 1)
    BY <2>3, <2>5, <2>6, <2>7 DEF RowsOf
  <2> QED
    BY <2>8 DEF new, g, n
<1>4. CASE n >= Window
  <2>1. Len(rows) = Window
    BY <1>0, <1>2, <1>4 DEF RowsOf, Smaller
  <2>2. /\ Len(new) = Window /\ new[Window] = row
        /\ \A i \in 1..(Window - 1) : new[i] = rows[i + 1]
    BY <1>6, <2>1, Zenon
  <2> HIDE DEF new
  <2>3. \A i \in 1..Window : new[i] = RowAt(g, (n + 1) - Window + i)
    <3>1. SUFFICES ASSUME NEW i \in 1..Window PROVE new[i] = RowAt(g, (n + 1) - Window + i)
      OBVIOUS
    <3>2. CASE i = Window
      <4>1. (n + 1) - Window + i = n + 1
        BY <1>0, <3>2
      <4> QED
        BY <1>1, <2>2, <3>2, <4>1
    <3>3. CASE i # Window
      <4>1. i \in 1..(Window - 1) /\ i + 1 \in 1..Len(rows)
        BY <1>0, <2>1, <3>3
      <4>2. rows[i + 1] = RowAt(g, n - Len(rows) + (i + 1))
        BY <1>2, <4>1 DEF RowsOf
      <4>3. n - Len(rows) + (i + 1) = (n + 1) - Window + i
        BY <1>0, <2>1
      <4> QED
        BY <2>2, <4>1, <4>2, <4>3
    <3> QED
      BY <3>2, <3>3
  <2>4. Smaller(n + 1, Window) = Window
    BY <1>0, <1>4 DEF Smaller
  <2>5. RowsOf(new, g, n + 1)
    BY <2>2, <2>3, <2>4 DEF RowsOf
  <2> QED
    BY <2>5 DEF new, g, n
<1> QED
  BY <1>0, <1>3, <1>4

\* A model that has been reset remembers nothing.
LEMMA HeldFromStart ==
  ASSUME NEW x \in Model, Sized(x), NEW y, y = AfterReset(x)
  PROVE  Held(y, << >>)
<1>1. /\ y.kind = x.kind /\ y.pos = 0 /\ y.kvPos = 0
      /\ x.kind = "stateful" => \A f \in Face : y.state[f] = << >>
  BY AfterResetIs DEF Like
<1> DEFINE h == << >>
<1>2. Len(h) = 0
  OBVIOUS
<1>3. RowsOf(h, h, 0)
  <2>1. Smaller(0, Window) = 0 /\ 1..0 = {}
    BY WindowAssumption DEF Smaller
  <2> HIDE DEF h
  <2> QED
    BY <1>2, <2>1 DEF RowsOf
<1>4. x.kind = "stateful" => \A f \in Face : y.state[f] = h
  BY <1>1
<1> HIDE DEF h
<1>5. Ahead(y, h, 0)
  BY <1>1, <1>2 DEF Ahead
<1>6. Held(y, h)
  BY <1>1, <1>2, <1>3, <1>4, <1>5 DEF Held
<1> QED
  BY <1>6 DEF h

\* A model that has evaluated a token remembers it.
LEMMA HeldMore ==
  ASSUME NEW x \in Model, Sized(x), EvalOk(x), x.kind = "attention" => x.kv,
         NEW h \in Seq(Token), Held(x, h), NEW t \in Token,
         NEW y, y = AfterAdvance(AfterEval(x, t))
  PROVE  Held(y, Append(h, t))
<1> DEFINE z == AfterEval(x, t)
           g == Append(h, t)
           n == Len(h)
<1>1. /\ Like(z, x) /\ z.pos = x.pos /\ z.kvPos = x.kvPos
      /\ \A f \in Face : z.state[f] = WithRow(x, f, t)
  BY AfterEvalIs
<1>2. y = AfterAdvance(z)
  OBVIOUS
<1> HIDE DEF z
<1>3. /\ y.kind = x.kind /\ y.state = z.state /\ y.pos = x.pos + 1
      /\ y.kvPos = IF x.kv THEN x.kvPos + 1 ELSE x.kvPos
  BY <1>1, <1>2, AfterAdvanceIs DEF Like
<1>4. /\ n \in Nat /\ Len(g) = n + 1 /\ x.pos = n
      /\ \A p \in 1..n : g[p] = h[p]
      /\ g[n + 1] = t
  BY DEF Held, Ahead
<1>5. <<t, RoPERow(x.pos)>> \in Cell
  BY <1>4, RoPERowIs DEF Cell, Row
<1>6. CASE x.kind = "attention"
  <2>1. x.kvPos = n /\ n < Window /\ Window \in Nat /\ y.kvPos = n + 1
    BY <1>3, <1>4, <1>6, WindowAssumption DEF Held, Ahead, EvalOk
  <2>2. ASSUME NEW f \in Face, NEW i \in 1..(n + 1)
        PROVE  y.state[f][i] = RowAt(g, i)
    <3> DEFINE rows == x.state[f]
               row == <<t, RoPERow(x.pos)>>
    <3>1. y.state[f] = [rows EXCEPT ![n + 1] = row]
      <4>1. y.state[f] = WithRow(x, f, t)
        BY <1>1, <1>3
      <4>2. WithRow(x, f, t) = [x.state[f] EXCEPT ![x.kvPos + 1] = <<t, RoPERow(x.pos)>>]
        BY <1>6, WithRowIs, Zenon
      <4> QED
        BY <2>1, <4>1, <4>2
    <3>2. rows \in Seq(Cell) /\ Len(rows) = Window
      BY <1>6 DEF Sized, Model
    <3>3. \A j \in 1..n : rows[j] = RowAt(h, j)
      BY <1>6 DEF Held, Ahead
    <3>4. row = RowAt(g, n + 1)
      BY <1>4 DEF RowAt
    <3> HIDE DEF rows, row, g, n
    <3>5. CASE i = n + 1
      <4>1. n + 1 \in 1..Len(rows)
        BY <1>4, <2>1, <3>2
      <4>2. n + 1 \in DOMAIN rows
        BY <3>2, <4>1
      <4> QED
        BY <3>1, <3>4, <3>5, <4>2
    <3>6. CASE i # n + 1
      <4>1. i \in 1..n /\ i \in 1..Len(rows)
        BY <1>4, <2>1, <3>2, <3>6
      <4>2. i \in DOMAIN rows
        BY <3>2, <4>1
      <4>3. y.state[f][i] = rows[i]
        BY <3>1, <3>6, <4>2
      <4>4. rows[i] = RowAt(h, i) /\ RowAt(h, i) = RowAt(g, i)
        BY <1>4, <3>3, <4>1 DEF RowAt
      <4> QED
        BY <4>3, <4>4
    <3> QED
      BY <3>5, <3>6
  <2> HIDE DEF g, n
  <2>3. Ahead(y, g, 0)
    BY <1>3, <1>4, <2>1, <2>2 DEF Ahead
  <2>4. Held(y, g)
    BY <1>3, <1>6, <2>3 DEF Held
  <2> QED
    BY <2>4 DEF g
<1>7. CASE x.kind = "stateful"
  <2>1. ASSUME NEW f \in Face
        PROVE  RowsOf(y.state[f], g, n + 1)
    <3> DEFINE rows == x.state[f]
               row == <<t, RoPERow(n)>>
    <3>1. y.state[f] = Append1(rows, row)
      BY <1>1, <1>3, <1>4, <1>7, WithRowIs
    <3>2. rows \in Seq(Cell) /\ row \in Cell /\ RowsOf(rows, h, n)
      BY <1>4, <1>5, <1>7 DEF Held, Model
    <3>4. row = RowAt(g, n + 1)
      BY <1>4 DEF RowAt
    <3> HIDE DEF rows, row
    <3>3. RowsOf(Append1(rows, row), g, n + 1)
      BY <3>2, <3>4, RowsMore
    <3> QED
      BY <3>1, <3>3
  <2> HIDE DEF g, n
  <2>2. Ahead(y, g, 0)
    BY <1>3, <1>4, <1>7 DEF Ahead
  <2>3. Held(y, g)
    BY <1>3, <1>4, <2>1, <2>2 DEF Held
  <2> QED
    BY <2>3 DEF g
<1>8. CASE x.kind = "plain"
  <2> HIDE DEF g, n
  <2>1. Ahead(y, g, 0)
    BY <1>3, <1>4, <1>8 DEF Ahead
  <2>2. Held(y, g)
    BY <1>3, <1>8, <2>1 DEF Held
  <2> QED
    BY <2>2 DEF g
<1> QED
  BY <1>6, <1>7, <1>8 DEF Model

\* The tokens that stay where a text is cut.
LEMMA CutAgrees ==
  ASSUME NEW h \in Seq(Token), NEW n \in Nat, n <= Len(h)
  PROVE  /\ ShorterBy(h, n) \in Seq(Token) /\ Len(ShorterBy(h, n)) = Len(h) - n
         /\ \A p \in 1..(Len(h) - n) : ShorterBy(h, n)[p] = h[p]
<1>1. ShorterBy(h, n) = SubSeq(h, 1, Len(h) - n)
  BY DEF ShorterBy, Larger
<1> QED
  BY <1>1

\* A model is ahead of a text that has been cut.
LEMMA AheadOfCut ==
  ASSUME NEW x, NEW h \in Seq(Token), Held(x, h), NEW n \in Nat, n <= Len(h)
  PROVE  Ahead(x, ShorterBy(h, n), n)
<1> DEFINE g == ShorterBy(h, n)
<1>1. Len(h) \in Nat /\ Len(g) = Len(h) - n /\ \A p \in 1..Len(g) : g[p] = h[p]
  BY CutAgrees
<1> HIDE DEF g
<1>2. x.pos = Len(h)
  BY <1>1 DEF Held, Ahead
<1>3. x.kind = "attention" =>
        /\ x.kvPos = x.pos
        /\ \A f \in Face : \A i \in 1..Len(g) : x.state[f][i] = RowAt(g, i)
  <2>1. \A i \in 1..Len(g) : i \in 1..Len(h) /\ RowAt(g, i) = RowAt(h, i)
    BY <1>1 DEF RowAt
  <2> QED
    BY <2>1 DEF Held, Ahead
<1>4. Ahead(x, g, n)
  BY <1>1, <1>2, <1>3 DEF Ahead
<1> QED
  BY <1>4 DEF g

\* The rewound model remembers the text that is left.
LEMMA HeldAfterRewind ==
  ASSUME NEW x \in Model, Sized(x), x.kind # "stateful", x.kind = "attention" => x.kvPos <= Window,
         NEW h \in Seq(Token), NEW n \in Nat, Ahead(x, h, n), NEW y, y = AfterRewind(x, n)
  PROVE  Held(y, h)
<1>1. /\ y.kind = x.kind
      /\ y.pos = Larger(x.pos - n, 0) /\ y.kvPos = Larger(x.kvPos - n, 0)
      /\ \A f \in Face : y.state[f] = ZeroedLast(x, f, n)
  BY AfterRewindIs DEF Like
<1>2. Len(h) \in Nat /\ x.pos = Len(h) + n /\ y.pos = Len(h) /\ Window \in Nat
  BY <1>1, WindowAssumption DEF Ahead, Larger
<1>3. CASE x.kind = "attention"
  <2>1. x.kvPos = Len(h) + n /\ y.kvPos = Len(h) /\ x.kvPos <= Window
    BY <1>1, <1>2, <1>3 DEF Ahead, Larger
  <2>2. ASSUME NEW f \in Face, NEW i \in 1..Len(h)
        PROVE  y.state[f][i] = RowAt(h, i)
    <3>1. i \in 1..Window /\ i <= x.kvPos - n
      BY <1>2, <2>1
    <3>2. ZeroedLast(x, f, n)[i] = x.state[f][i]
      BY <1>3, <3>1, ZeroedLastIs
    <3>3. x.state[f][i] = RowAt(h, i)
      BY <1>3 DEF Ahead
    <3> QED
      BY <1>1, <3>2, <3>3
  <2> QED
    BY <1>1, <1>2, <1>3, <2>1, <2>2 DEF Held, Ahead
<1>4. CASE x.kind = "plain"
  BY <1>1, <1>2, <1>4 DEF Held, Ahead
<1> QED
  BY <1>3, <1>4 DEF Model

\* A restored model remembers what the snapshot does.
LEMMA HeldAfterRestore ==
  ASSUME NEW x \in Model, x.kind = "stateful", NEW s \in Snapshot,
         \A f \in Face : Len(s.state[f]) <= Window,
         NEW h \in Seq(Token), SnapshotHeld(s, h, Len(h)), NEW y, y = AfterRestore(x, s)
  PROVE  Held(y, h)
<1>1. y.kind = "stateful" /\ y.pos = s.pos /\ y.state = s.state
  BY AfterRestoreIs DEF Like
<1>2. s.pos = Len(h) /\ \A f \in Face : RowsOf(s.state[f], h, Len(h))
  BY DEF SnapshotHeld
<1>3. Len(h) + 0 = Len(h)
  OBVIOUS
<1>4. Ahead(y, h, 0)
  BY <1>1, <1>2, <1>3 DEF Ahead
<1> QED
  BY <1>1, <1>2, <1>4 DEF Held

LEMMA SnapshotOfHeld ==
  ASSUME NEW x \in Model, x.kind = "stateful", NEW h \in Seq(Token), Held(x, h)
  PROVE  SnapshotOf(x) \in Snapshot /\ SnapshotHeld(SnapshotOf(x), h, Len(h))
<1>1. SnapshotOf(x) \in Snapshot /\ SnapshotOf(x).pos = x.pos /\ SnapshotOf(x).state = x.state
  BY DEF SnapshotOf, Snapshot, Model
<1>2. x.pos = Len(h)
  BY DEF Held, Ahead
<1> QED
  BY <1>1, <1>2 DEF SnapshotHeld, Held

\* A snapshot more, and a token more.
LEMMA SnapshotsMore ==
  ASSUME NEW ss \in Seq(Snapshot), NEW h \in Seq(Token), NEW k \in Nat, k <= Len(h),
         SnapshotsHeld(ss, h, k), NEW s \in Snapshot, SnapshotHeld(s, h, Len(h)), NEW t \in Token
  PROVE  SnapshotsHeld(Append(ss, s), Append(h, t), k + 1)
<1> DEFINE g == Append(h, t)
           tt == Append(ss, s)
<1>1. /\ Len(h) \in Nat /\ Len(g) = Len(h) + 1 /\ \A p \in 1..Len(h) : g[p] = h[p]
      /\ Len(ss) \in Nat /\ Len(tt) = Len(ss) + 1 /\ tt[Len(ss) + 1] = s
      /\ \A i \in 1..Len(ss) : tt[i] = ss[i] /\ ss[i] \in Snapshot
      /\ k <= Len(ss)
  BY DEF SnapshotsHeld
<1> HIDE DEF g, tt
<1>2. ASSUME NEW i \in 1..(k + 1)
      PROVE  SnapshotHeld(tt[Len(tt) - (k + 1) + i], g, Len(g) - (k + 1) + i - 1)
  <2>1. CASE i = k + 1
    <3>1. Len(tt) - (k + 1) + i = Len(ss) + 1 /\ Len(g) - (k + 1) + i - 1 = Len(h)
      BY <1>1, <2>1
    <3>2. SnapshotHeld(s, g, Len(h))
      BY <1>1, SnapshotAgrees
    <3> QED
      BY <1>1, <3>1, <3>2
  <2>2. CASE i # k + 1
    <3> DEFINE j == Len(ss) - k + i
               n == Len(h) - k + i - 1
    <3>1. /\ i \in 1..k /\ j \in 1..Len(ss) /\ n \in Nat /\ n <= Len(h)
          /\ Len(tt) - (k + 1) + i = j /\ Len(g) - (k + 1) + i - 1 = n
      BY <1>1, <2>2
    <3>2. SnapshotHeld(ss[j], h, n)
      BY <3>1 DEF SnapshotsHeld
    <3>3. tt[j] = ss[j] /\ ss[j] \in Snapshot
      BY <1>1, <3>1
    <3>4. \A p \in 1..n : g[p] = h[p]
      BY <1>1, <3>1
    <3> HIDE DEF j, n
    <3>5. SnapshotHeld(tt[j], g, n)
      BY <3>1, <3>2, <3>3, <3>4, SnapshotAgrees
    <3> QED
      BY <3>1, <3>5
  <2> QED
    BY <2>1, <2>2
<1>3. SnapshotsHeld(tt, g, k + 1)
  BY <1>1, <1>2 DEF SnapshotsHeld
<1> QED
  BY <1>3 DEF g, tt

\* The snapshot before the first of the n tokens that are cut.
LEMMA SnapshotOfCut ==
  ASSUME NEW ss \in Seq(Snapshot), NEW h \in Seq(Token), NEW k \in Nat, k <= Len(h),
         SnapshotsHeld(ss, h, k), NEW n \in 1..k
  PROVE  SnapshotHeld(ss[Len(ss) - n + 1], ShorterBy(h, n), Len(ShorterBy(h, n)))
<1> DEFINE g == ShorterBy(h, n)
           j == Len(ss) - n + 1
<1>1. /\ Len(h) \in Nat /\ Len(g) = Len(h) - n /\ \A p \in 1..(Len(h) - n) : g[p] = h[p]
      /\ Len(g) \in Nat
  BY CutAgrees
<1>2. /\ Len(ss) \in Nat /\ k <= Len(ss) /\ j \in 1..Len(ss) /\ ss[j] \in Snapshot
  BY DEF SnapshotsHeld
<1> HIDE DEF g
<1>3. /\ k - n + 1 \in 1..k /\ Len(ss) - k + (k - n + 1) = j
      /\ Len(h) - k + (k - n + 1) - 1 = Len(g)
  BY <1>1, <1>2
<1>4. SnapshotHeld(ss[j], h, Len(g))
  BY <1>3 DEF SnapshotsHeld
<1> HIDE DEF j
<1>5. SnapshotHeld(ss[j], g, Len(g))
  BY <1>1, <1>2, <1>4, SnapshotAgrees
<1> QED
  BY <1>5 DEF g, j

\* The model in use has seen the history, or is about to be taken back to it.
LEMMA ContextStep ==
  ASSUME BaseInv, ContextKept, [Next]_vars
  PROVE  ContextKept'
<1> SUFFICES ASSUME conf.model, ~d'.refOnly, NoneOf({"eval", "capture", "reset"})
             PROVE  /\ pc' \notin {"off", "restore", "position", "rebuild"} => Held(m', d'.history)
                    /\ pc' \in {"restore", "position"} /\ m'.kind # "stateful" =>
                         Ahead(m', d'.history, want')
                    /\ conf.direct /\ pc' \in {"drafting", "verify", "rewind"} =>
                         SnapshotsHeld(snaps', d'.history, Len(out'))
                    /\ pc' = "restore" /\ Len(snaps') >= want' =>
                         SnapshotHeld(snaps'[Len(snaps') - want' + 1], d'.history, Len(d'.history))
  BY FixedStays DEF ContextKept, NoneOf
<1>0. /\ TypeOK /\ Standing /\ Covered
      /\ ~May("eval") /\ ~May("capture") /\ ~May("reset")
      /\ d.history \in Seq(Token) /\ m \in Model /\ snaps \in Seq(Snapshot)
      /\ out \in Seq(Token) /\ want \in Nat /\ Sized(m)
      /\ Len(out) \in Nat /\ Len(d.history) \in Nat
  BY TypeIs, Numbers DEF BaseInv, NoneOf, May, Standing
<1>1. ~d.refOnly =>
        /\ pc \notin {"off", "restore", "position", "rebuild"} => Held(m, d.history)
        /\ pc \in {"restore", "position"} /\ m.kind # "stateful" => Ahead(m, d.history, want)
        /\ conf.direct /\ pc \in {"drafting", "verify", "rewind"} =>
             SnapshotsHeld(snaps, d.history, Len(out))
        /\ pc = "restore" /\ Len(snaps) >= want =>
             SnapshotHeld(snaps[Len(snaps) - want + 1], d.history, Len(d.history))
  BY DEF ContextKept
<1>2. CASE Prefill
  <2>1. d' = NewDrafter(conf) /\ pc' = "replay" /\ m' = AfterReset(m)
    BY <1>2 DEF Prefill, Cleared
  <2>2. d'.history = << >> /\ Held(m', << >>)
    BY <1>0, <2>1, NewDrafterIs, HeldFromStart
  <2> QED
    BY <2>1, <2>2
<1>3. CASE PrefillFails \/ Reset \/ EnsureFails \/ DraftFails
  <2>1. pc' = "off"
    BY <1>3 DEF PrefillFails, Reset, EnsureFails, DraftFails
  <2> QED
    BY <2>1
<1>4. ASSUME NEW e \in {d, Corrected}, NEW t \in Token, FeedOk(e, t),
             pc \in {"replay", "ensure", "drafting"}
      PROVE  ~d.refOnly /\ Held(m, d.history) /\ d'.history = Append(d.history, t)
             /\ Held(m', d'.history)
  <2>1. e \in Fields /\ e.refOnly = d.refOnly /\ e.history = d.history
    BY <1>0, CorrectedIs
  <2>2. /\ d'.history = Append(d.history, t) /\ d'.refOnly = d.refOnly
        /\ ~d.refOnly => EvalOk(m) /\ m' = AfterAdvance(AfterEval(m, t))
    BY <1>0, <1>4, <2>1, FeedOkIs
  <2>3. ~d.refOnly /\ Held(m, d.history)
    BY <1>1, <1>4, <2>2
  <2>4. m.kind = "attention" => m.kv
    BY <1>0, Configured DEF Standing
  <2>5. Held(m', Append(d.history, t))
    BY <1>0, <2>2, <2>3, <2>4, HeldMore
  <2> QED
    BY <2>2, <2>3, <2>5
<1>5. CASE Replay
  <2>1. pc = "replay" /\ pc' = "replay" /\ todo # << >> /\ FeedOk(d, Head(todo))
    BY <1>5 DEF Replay
  <2>2. Head(todo) \in Token
    BY <1>0, <2>1, TypeIs
  <2>3. Held(m', d'.history)
    BY <1>4, <2>1, <2>2
  <2> QED
    BY <2>1, <2>3
<1>6. CASE EnsureFed
  <2>1. /\ pc = "ensure" /\ pc' = "drafting" /\ FeedOk(Corrected, LastToken)
        /\ UNCHANGED <<snaps, out>>
    BY <1>6 DEF EnsureFed
  <2>2. Held(m', d'.history)
    BY <1>0, <1>4, <2>1, LastTokenIs
  <2>3. Len(out') = 0
    BY <1>0, <2>1 DEF Standing
  <2>4. SnapshotsHeld(snaps', d'.history, 0)
    BY <1>0, <2>1 DEF SnapshotsHeld
  <2> QED
    BY <2>1, <2>2, <2>3, <2>4
<1>7. CASE EnsureKnown
  <2>1. pc = "ensure" /\ pc' = "drafting" /\ UNCHANGED <<snaps, out, m, d>>
    BY <1>7 DEF EnsureKnown
  <2>2. Held(m', d'.history)
    BY <1>1, <2>1
  <2>3. Len(out') = 0
    BY <1>0, <2>1 DEF Standing
  <2>4. SnapshotsHeld(snaps', d'.history, 0)
    BY <1>0, <2>1 DEF SnapshotsHeld
  <2> QED
    BY <2>1, <2>2, <2>3, <2>4
<1>8. CASE DraftToken
  <2>1. PICK t \in Token : FeedOk(d, t) /\ out' = Append(out, t)
    BY <1>8 DEF DraftToken
  <2>2. pc = "drafting" /\ pc' = "drafting" /\ snaps' \in Captured
    BY <1>8 DEF DraftToken
  <2>3. /\ ~d.refOnly /\ Held(m, d.history) /\ d'.history = Append(d.history, t)
        /\ Held(m', d'.history)
    BY <1>4, <2>1, <2>2
  <2>4. ASSUME conf.direct
        PROVE  SnapshotsHeld(snaps', d'.history, Len(out'))
    <3> DEFINE s == SnapshotOf(m)
               h == d.history
               k == Len(out)
    <3>1. snaps' = Append(snaps, s)
      BY <1>0, <2>2, <2>4 DEF Captured
    <3>2. s \in Snapshot /\ SnapshotHeld(s, h, Len(h))
      <4>1. m.kind = "stateful"
        BY <1>0, <2>4, Configured DEF Standing
      <4> QED
        BY <1>0, <2>3, <4>1, SnapshotOfHeld
    <3>3. h \in Seq(Token) /\ k \in Nat /\ k <= Len(h) /\ SnapshotsHeld(snaps, h, k)
      BY <1>0, <1>1, <2>2, <2>3, <2>4 DEF Standing
    <3>4. Len(out') = k + 1
      BY <1>0, <2>1
    <3> HIDE DEF s, k
    <3>5. SnapshotsHeld(Append(snaps, s), Append(h, t), k + 1)
      BY <1>0, <3>2, <3>3, SnapshotsMore
    <3> QED
      BY <2>3, <3>1, <3>4, <3>5
  <2> QED
    BY <2>2, <2>3, <2>4
<1>9. CASE ReplayFails
  <2>1. /\ pc' \in {"off", "idle"} /\ (pc' = "idle" => back = "idle") /\ pc = "replay"
        /\ d' = d
    BY <1>0, <1>9 DEF ReplayFails, FeedFails, Standing
  <2>2. back = "idle" => d.refOnly
    BY <1>0, <1>9, ReplayFits
  <2> QED
    BY <2>1, <2>2
<1>10. CASE ReplayEnds \/ Draft \/ GuardPasses \/ GuardSyncs \/ Sync \/ SyncFails
            \/ RewindReference
  <2>1. /\ UNCHANGED <<m, d>>
        /\ pc \in {"replay", "idle", "draft", "sync", "shadow"}
        /\ pc' \in {"idle", "draft", "ensure", "sync"}
    BY <1>0, <1>10 DEF ReplayEnds, Draft, GuardPasses, GuardSyncs, StartSync, Sync, SyncFails,
                       RewindReference, Standing
  <2> QED
    BY <1>1, <2>1
<1>11. CASE SyncEnds
  <2>1. pc = "sync" /\ pc' \in {"ensure", "idle"} /\ UNCHANGED m
    BY <1>0, <1>11 DEF SyncEnds, Standing
  <2>2. d'.history = d.history /\ d'.refOnly = (d.refOnly \/ back = "ensure")
    BY <1>0, <1>11, SyncEndsIs
  <2>3. ~d.refOnly
    BY <2>2
  <2>4. Held(m', d'.history)
    BY <1>1, <2>1, <2>2, <2>3
  <2> QED
    BY <2>1, <2>4
<1>12. CASE DraftReturns \/ Verify
  <2>1. /\ pc \in {"drafting", "verify"} /\ pc' \in {"verify", "idle", "rewind"}
        /\ UNCHANGED <<m, snaps, out>>
    BY <1>12 DEF DraftReturns, Verify
  <2>2. d'.history = d.history /\ d'.refOnly = d.refOnly
    <3>1. CASE DraftReturns
      BY <1>0, <3>1, BooksIs
    <3>2. CASE Verify
      BY <3>2 DEF Verify
    <3> QED
      BY <1>12, <3>1, <3>2
  <2>3. ~d.refOnly
    BY <2>2
  <2> QED
    BY <1>1, <2>1, <2>2, <2>3
<1>13. CASE Rewind
  <2>1. /\ UNCHANGED <<m, snaps>> /\ pc = "rewind" /\ want' = Smaller(want, Len(d.history))
        /\ (d.history # << >> => pc' = "restore")
    BY <1>13 DEF Rewind
  <2>2. want > 0 /\ want <= Len(out) /\ Len(out) <= Len(d.history)
    BY <1>0, <2>1 DEF Standing
  <2>3. want' = want /\ d.history # << >>
    BY <1>0, <2>1, <2>2 DEF Smaller
  <2>4. d'.history = ShorterBy(d.history, want) /\ d'.refOnly = d.refOnly
    BY <1>0, <1>13, BooksIs
  <2>5. ~d.refOnly /\ Held(m, d.history)
    BY <1>1, <2>1, <2>4
  <2>6. Ahead(m', d'.history, want')
    BY <1>0, <2>1, <2>2, <2>3, <2>4, <2>5, AheadOfCut
  <2>7. ASSUME Len(snaps) >= want
        PROVE  SnapshotHeld(snaps[Len(snaps) - want + 1], d'.history, Len(d'.history))
    <3> DEFINE h == d.history
               k == Len(out)
    <3>1. conf.direct
      BY <1>0, <2>2, <2>7, SnapshotTaken
    <3>2. SnapshotsHeld(snaps, h, k) /\ k \in Nat /\ k <= Len(h) /\ want \in 1..k
      BY <1>0, <1>1, <2>1, <2>2, <2>5, <3>1
    <3> HIDE DEF k
    <3>3. SnapshotHeld(snaps[Len(snaps) - want + 1], ShorterBy(h, want), Len(ShorterBy(h, want)))
      BY <1>0, <3>2, SnapshotOfCut
    <3> QED
      BY <2>4, <3>3
  <2> QED
    BY <2>1, <2>3, <2>6, <2>7
<1>14. CASE Restore
  <2> DEFINE s == snaps[Len(snaps) - want + 1]
  <2>1. /\ pc = "restore" /\ pc' = "shadow" /\ Len(snaps) >= want /\ m' = AfterRestore(m, s)
        /\ UNCHANGED d
    BY <1>14 DEF Restore
  <2>2. s \in Snapshot /\ m.kind = "stateful" /\ \A f \in Face : Len(s.state[f]) <= Window
    BY <1>0, <2>1, SnapshotTaken DEF Standing
  <2>3. SnapshotHeld(s, d.history, Len(d.history))
    BY <1>1, <2>1
  <2> HIDE DEF s
  <2>4. Held(m', d.history)
    BY <1>0, <2>1, <2>2, <2>3, HeldAfterRestore
  <2> QED
    BY <2>1, <2>4
<1>15. CASE RestoreFails
  <2> DEFINE s == snaps[Len(snaps) - want + 1]
  <2>1. /\ pc = "restore" /\ pc' = "position" /\ UNCHANGED <<d, want>>
        /\ m' = m \/ (Len(snaps) >= want /\ m' \in AfterFailedRestore(m, s))
    BY <1>15 DEF RestoreFails
  <2>2. m'.kind # "stateful" => m' = m
    <3>1. SUFFICES ASSUME Len(snaps) >= want, m' \in AfterFailedRestore(m, s)
                   PROVE  m'.kind = "stateful"
      BY <2>1
    <3>2. s \in Snapshot /\ m.kind = "stateful" /\ \A f \in Face : Len(s.state[f]) <= Window
      BY <1>0, <2>1, <3>1, SnapshotTaken DEF Standing
    <3> HIDE DEF s
    <3> QED
      BY <1>0, <3>1, <3>2, AfterFailedRestoreIs DEF Like
  <2> QED
    BY <1>1, <2>1, <2>2
<1>16. CASE RewindPosition
  <2>1. /\ pc = "position" /\ pc' = "shadow" /\ RewindOk(m) /\ m' = AfterRewind(m, want)
        /\ UNCHANGED d
    BY <1>16 DEF RewindPosition
  <2>2. m.kind # "stateful" /\ m.kvPos <= Window
    BY <1>0, <2>1 DEF RewindOk, Standing
  <2>3. Ahead(m, d.history, want)
    BY <1>1, <2>1, <2>2
  <2>4. Held(m', d.history)
    BY <1>0, <2>1, <2>2, <2>3, HeldAfterRewind
  <2> QED
    BY <2>1, <2>4
<1>17. CASE RewindPositionFails \/ RewindReferenceFails
  <2>1. pc' = "rebuild"
    BY <1>17 DEF RewindPositionFails, RewindReferenceFails
  <2> QED
    BY <2>1
<1>18. CASE Rebuild
  <2>1. pc' = "replay" /\ m' = AfterReset(m)
    BY <1>18 DEF Rebuild
  <2>2. d'.history = << >>
    BY <1>0, <1>18, BooksIs
  <2>3. Held(m', << >>)
    BY <1>0, <2>1, HeldFromStart
  <2> QED
    BY <2>1, <2>2, <2>3
<1>19. CASE RebuildFails
  BY <1>0, <1>19 DEF RebuildFails
<1>20. CASE UNCHANGED vars \/ Finished
  <2>1. UNCHANGED <<pc, d, m, snaps, out, want>>
    BY <1>20 DEF vars, Finished
  <2> QED
    BY <1>1, <2>1
<1> QED
  BY <1>2, <1>3, <1>5, <1>6, <1>7, <1>8, <1>9, <1>10, <1>11, <1>12, <1>13, <1>14, <1>15, <1>16,
     <1>17, <1>18, <1>19, <1>20 DEF Next

-----------------------------------------------------------------------------
\* What a model that remembers a text attends to.
LEMMA VisibleIs ==
  ASSUME NEW x \in Model, Sized(x), x.kind = "attention" => x.kvPos <= Window,
         x.kind # "plain", NEW h \in Seq(Token), Held(x, h), NEW f \in Face
  PROVE  Visible(x, f) \in Seq(Cell) /\ RowsOf(Visible(x, f), h, Len(h))
<1>0. /\ Len(h) \in Nat /\ x.pos = Len(h) /\ Window \in Nat \ {0}
      /\ x.state[f] \in Seq(Cell)
  BY WindowAssumption DEF Held, Ahead, Model
<1>1. CASE x.kind = "attention"
  <2> DEFINE rows == x.state[f]
             n == Len(h)
  <2>1. /\ n \in Nat /\ n <= Window /\ Len(rows) = Window /\ rows \in Seq(Cell)
        /\ \A i \in 1..n : rows[i] = RowAt(h, i)
    BY <1>0, <1>1 DEF Held, Ahead, Sized
  <2>2. Smaller(n, Window) = n
    BY <1>0, <2>1 DEF Smaller
  <2>3. Visible(x, f) = SubSeq(rows, 1, n)
    BY <1>0, <1>1, <2>2 DEF Visible
  <2> HIDE DEF rows, n
  <2>4. /\ SubSeq(rows, 1, n) \in Seq(Cell) /\ Len(SubSeq(rows, 1, n)) = n
        /\ \A i \in 1..n : SubSeq(rows, 1, n)[i] = rows[i]
    BY <1>0, <2>1
  <2>5. \A i \in 1..n : n - n + i = i
    BY <2>1
  <2>6. RowsOf(SubSeq(rows, 1, n), h, n)
    BY <2>1, <2>2, <2>4, <2>5 DEF RowsOf
  <2> QED
    BY <2>3, <2>4, <2>6 DEF n
<1>2. CASE x.kind = "stateful"
  <2>1. Visible(x, f) = x.state[f]
    BY <1>2 DEF Visible
  <2> QED
    BY <1>0, <1>2, <2>1 DEF Held
<1> QED
  BY <1>1, <1>2 DEF Model

\* The tokens of the rows are the end of the text, and each row has its position.
LEMMA RowsAreLast ==
  ASSUME NEW rows \in Seq(Cell), NEW h \in Seq(Token), RowsOf(rows, h, Len(h))
  PROVE  /\ [i \in 1..Len(rows) |-> TokenOf(rows[i])] = LastOf(h)
         /\ Len(h) <= Window => \A i \in 1..Len(rows) : rows[i][2] = Len(h) - Len(rows) + i - 1
<1> DEFINE n == Len(h)
           k == Len(rows)
           tokens == [i \in 1..Len(rows) |-> TokenOf(rows[i])]
<1>1. /\ n \in Nat /\ k \in Nat /\ k <= n /\ Window \in Nat
      /\ n - k = Larger(n - Window, 0)
      /\ \A i \in 1..k : rows[i] = RowAt(h, n - k + i)
  <2>1. n \in Nat /\ Window \in Nat
    BY WindowAssumption
  <2>2. k = Smaller(n, Window) /\ \A i \in 1..k : rows[i] = RowAt(h, n - k + i)
    BY DEF RowsOf
  <2> HIDE DEF n, k
  <2> QED
    BY <2>1, <2>2 DEF Smaller, Larger
<1>2. ASSUME NEW i \in 1..k
      PROVE  /\ n - k + i \in 1..n /\ h[n - k + i] \in Token
             /\ TokenOf(rows[i]) = h[n - k + i]
             /\ rows[i][2] = RoPERow(n - k + i - 1)
  <2> DEFINE p == n - k + i
  <2>1. p \in 1..n /\ h[p] \in Token /\ p - 1 \in Nat
    BY <1>1
  <2>2. rows[i] = <<h[p], RoPERow(p - 1)>>
    BY <1>1 DEF RowAt
  <2> HIDE DEF p
  <2>3. RoPERow(p - 1) \in 0..(Window - 1)
    BY <2>1, RoPERowIs
  <2>4. rows[i] \in Row
    BY <2>1, <2>2, <2>3 DEF Row
  <2>5. rows[i] # Blank
    BY <2>4, BlankAssumption
  <2>6. TokenOf(rows[i]) = h[p] /\ rows[i][2] = RoPERow(p - 1)
    BY <2>2, <2>5 DEF TokenOf
  <2> QED
    BY <2>1, <2>6 DEF p
<1>3. tokens \in Seq(Token) /\ Len(tokens) = k /\ \A i \in 1..k : tokens[i] = h[n - k + i]
  <2>1. tokens \in [1..k -> Token] /\ \A i \in 1..k : tokens[i] = h[n - k + i]
    BY <1>2
  <2> QED
    BY <1>1, <2>1
<1>4. LastOf(h) \in Seq(Token) /\ Len(LastOf(h)) = k /\ \A i \in 1..k : LastOf(h)[i] = h[n - k + i]
  <2> DEFINE from == n - k + 1
  <2>1. LastOf(h) = SubSeq(h, from, n)
    BY <1>1 DEF LastOf
  <2>2. from \in 1..(n + 1) /\ n - from + 1 = k /\ \A i \in 1..k : from + i - 1 = n - k + i
    BY <1>1
  <2> HIDE DEF from
  <2>3. /\ SubSeq(h, from, n) \in Seq(Token) /\ Len(SubSeq(h, from, n)) = n - from + 1
        /\ \A i \in 1..(n - from + 1) : SubSeq(h, from, n)[i] = h[from + i - 1]
    BY <1>1, <2>2
  <2> QED
    BY <2>1, <2>2, <2>3
<1> HIDE DEF tokens
<1>5. tokens = LastOf(h)
  BY <1>3, <1>4, SeqEqual
<1>6. ASSUME n <= Window, NEW i \in 1..k
      PROVE  rows[i][2] = n - k + i - 1
  <2>1. n - k + i - 1 \in Nat /\ n - k + i - 1 < Window
    BY <1>1, <1>6
  <2> QED
    BY <1>2, <2>1, RoPERowIs
<1> QED
  BY <1>5, <1>6 DEF tokens

\* A model that remembers a text has it as its context, every row at its position.
LEMMA HeldIsContext ==
  ASSUME NEW x \in Model, Sized(x), x.kind = "attention" => x.kvPos <= Window,
         NEW h \in Seq(Token), Held(x, h)
  PROVE  HasContext(x, h) /\ RotatedByPosition(x)
<1>1. x.pos = Len(h) /\ Len(h) \in Nat
  BY DEF Held, Ahead
<1>2. CASE x.kind = "plain"
  <2>1. \A f \in Face : Visible(x, f) = << >>
    BY <1>2 DEF Visible, Sized
  <2>2. HasContext(x, h)
    BY <1>1, <1>2 DEF HasContext
  <2>3. RotatedByPosition(x)
    BY <2>1 DEF RotatedByPosition
  <2> QED
    BY <2>2, <2>3
<1>3. CASE x.kind # "plain"
  <2>1. ASSUME NEW f \in Face
        PROVE  /\ Context(x, f) = LastOf(h)
               /\ Len(h) <= Window =>
                    \A i \in DOMAIN Visible(x, f) :
                      Visible(x, f)[i][2] = Len(h) - Len(Visible(x, f)) + i - 1
    <3> DEFINE rows == Visible(x, f)
    <3>1. rows \in Seq(Cell) /\ RowsOf(rows, h, Len(h))
      BY <1>3, VisibleIs
    <3>2. Context(x, f) = [i \in 1..Len(rows) |-> TokenOf(rows[i])]
      BY DEF Context
    <3> HIDE DEF rows
    <3>3. DOMAIN rows = 1..Len(rows)
      BY <3>1
    <3>4. /\ Context(x, f) = LastOf(h)
          /\ Len(h) <= Window => \A i \in DOMAIN rows : rows[i][2] = Len(h) - Len(rows) + i - 1
      BY <3>1, <3>2, <3>3, RowsAreLast
    <3> QED
      BY <3>4 DEF rows
  <2>2. HasContext(x, h)
    BY <1>1, <2>1 DEF HasContext
  <2>3. RotatedByPosition(x)
    BY <1>1, <2>1 DEF RotatedByPosition
  <2> QED
    BY <2>2, <2>3
<1> QED
  BY <1>2, <1>3

-----------------------------------------------------------------------------
\* A drafter that has been built is off, and only a running one is spoken of.
LEMMA InitIsIInv ==
  Init => IInv
<1>1. SUFFICES ASSUME Init PROVE IInv
  OBVIOUS
<1>2. BaseInv
  BY <1>1, BaseInit
<1>3. pc = "off"
  BY <1>1 DEF Init
<1>4. HistoryKept
  BY <1>3 DEF HistoryKept
<1>5. Counted
  BY <1>3 DEF Counted
<1>6. ReferenceKept
  BY <1>3 DEF ReferenceKept
<1>7. ContextKept
  BY <1>3 DEF ContextKept
<1> QED
  BY <1>2, <1>4, <1>5, <1>6, <1>7 DEF IInv

LEMMA IInvIsInductive ==
  IInv /\ [Next]_vars => IInv'
BY BaseKeeps, HistoryStep, CountedStep, ReferenceStep, ContextStep DEF IInv

LEMMA IInvHolds ==
  Spec => []IInv
BY InitIsIInv, IInvIsInductive, PTL DEF Spec

\* Every field keeps its type: the positions and the books of the drafter are natural
\* numbers, and a failing call leaves a model behind (aneDraftDrafter, ANEDraftModel).
THEOREM TypeCorrect ==
  Spec => []TypeOK
<1>1. IInv => TypeOK
  BY DEF IInv, BaseInv
<1> QED
  BY <1>1, IInvHolds, PTL

\* Between two rounds the history of the drafter is the text without its last token,
\* through prompts, rounds, rewinds and rebuilds, for every vocabulary and window, as
\* long as no token repeats and the replays succeed (Prefill, Draft, Rewind, rebuildState).
THEOREM HistoryFollows ==
  Spec => []HistoryIsText
<1>1. IInv => HistoryIsText
  BY DEF IInv, HistoryKept, HistoryIsText, Before
<1> QED
  BY <1>1, IInvHolds, PTL

\* Between two rounds the reference that is used or watched has exactly the history, also
\* where the guard has just synchronized it (syncReferenceState, referenceRunner.Rewind).
THEOREM ReferenceFollows ==
  Spec => []ReferenceIsHistory
<1>1. IInv => ReferenceIsHistory
  BY DEF IInv, ReferenceKept, ReferenceIsHistory
<1> QED
  BY <1>1, IInvHolds, PTL

\* A guarded drafter has left the ANE model when a round after the MinCorrections-th is
\* verified, whatever the acceptance rate (maybeEnableReferenceOnly, ensureTokenState).
THEOREM GuardFollowsRounds ==
  Spec => []GuardTripsSoon
<1>1. IInv => GuardTripsSoon
  BY DEF IInv, Counted, GuardTripsSoon
<1> QED
  BY <1>1, IInvHolds, PTL

\* Between two rounds the model in use has seen exactly the history, on every surface and
\* every row rotated by its position, through snapshots that are restored, positions that
\* are rewound and rebuilds (captureDraftSnapshot, restoreDraftSnapshot,
\* RewindDecodePosition, rebuildState).
THEOREM ContextFollows ==
  Spec => []ContextIsHistory
<1>1. IInv => ContextIsHistory
  <2>1. SUFFICES ASSUME IInv, pc = "idle", conf.model, ~d.refOnly,
                        NoneOf({"eval", "capture", "reset"})
                 PROVE  HasContext(m, d.history) /\ RotatedByPosition(m)
    BY DEF ContextIsHistory
  <2>2. Held(m, d.history)
    BY <2>1 DEF IInv, ContextKept
  <2>3. m \in Model /\ Sized(m) /\ m.kvPos <= Window /\ d.history \in Seq(Token)
    BY <2>1, TypeIs, Numbers DEF IInv, BaseInv, Standing
  <2> QED
    BY <2>2, <2>3, HeldIsContext
<1> QED
  BY <1>1, IInvHolds, PTL

=============================================================================
