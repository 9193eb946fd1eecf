-------------------------- MODULE SpecDecodeProofs --------------------------
(***************************************************************************)
(* Proofs about speculative decoding.  The inductive invariant says of     *)
(* every place in a step how far the draft model is: how many rows it has, *)
(* which position rotated each of them, and, as long as every step has     *)
(* added exactly k tokens, which token each was computed from.  For the    *)
(* text it says that it is a prefix of the target's own, and of the        *)
(* verdict that it is the target's own wherever the drafts before it are.  *)
(***************************************************************************)
EXTENDS SpecDecode, NaturalsInduction, WellFoundedInduction, SequenceTheorems, TLAPS

USE DEF Kind, Face

\* How many rows the draft model has computed.
RowsIn == IF pc = "evaluated" THEN m.pos + 1 ELSE m.pos

\* The tokens given to the draft model if it has followed the text: the text and the
\* drafts, without the last of them.
FedLen == Len(text) + Len(drafts) - 1
FedToken(i) == IF i <= Len(text) THEN text[i] ELSE drafts[i - Len(text)]

\* Every step so far has added exactly k tokens.
InStep == failures = 0 /\ \A i \in DOMAIN batches : batches[i] = k

\* A program with state surfaces keeps at most a window of rows.
Sized(x) ==
  /\ x.kind = "attention" => \A f \in Face : Len(x.state[f]) = Window
  /\ x.kind = "stateful" => \A f \in Face : Len(x.state[f]) <= Window

\* The model is open, its positions agree, its surfaces have the size of their kind.
Standing ==
  /\ ~m.closed
  /\ m.kind = "attention" => m.kv
  /\ m.kv => m.kvPos = m.pos /\ m.kvPos <= Window
  /\ Sized(m)
  /\ m.kind = "attention" /\ pc = "evaluated" => m.kvPos < Window
  /\ m.kind = "plain" => \A f \in Face : m.state[f] = << >>

\* How far the step is.
Paced ==
  /\ pc = "idle" => Len(drafts) = 0
  /\ pc = "drafting" => Len(drafts) < k
  /\ pc = "evaluated" => Len(drafts) > 0
  /\ pc \in {"verifying", "merging"} => Len(drafts) = k

\* The text is the target's, and so is the verdict where the drafts before it are.
Own ==
  /\ Len(text) <= Horizon
  /\ pc # "idle" => Len(text) + k + 1 <= Horizon
  /\ \A i \in 1..Len(text) : text[i] = script[i]
  /\ pc = "merging" =>
       /\ Len(verdict) = k + 1
       /\ \A i \in 1..(k + 1) : OwnSoFar(i) => verdict[i] = script[Len(text) + i]

\* The rows of an attention model are rotated by the place they are in. Those of a
\* stateful one are while no evaluation has failed after its row was in, no Advance has
\* failed, and no row has left the window.
Placed ==
  /\ m.kind = "attention" =>
       \A f \in Face : \A i \in 1..Window : m.state[f][i] # Blank => m.state[f][i][2] = i - 1
  /\ m.kind = "stateful" /\ "eval" \notin faulty /\ (m.kv => m.kvPos < Window)
       /\ RowsIn <= Window =>
       \A f \in Face :
         /\ Len(m.state[f]) = RowsIn
         /\ \A i \in 1..RowsIn : m.state[f][i] # Blank => m.state[f][i][2] = i - 1

\* The rows are those of the tokens fed.
Following ==
  InStep =>
    /\ RowsIn = FedLen
    /\ m.kind = "attention" =>
         \A f \in Face : \A i \in 1..FedLen :
           m.state[f][i] # Blank /\ m.state[f][i][1] = FedToken(i)
    /\ m.kind = "stateful" =>
         \A f \in Face :
           /\ Len(m.state[f]) = Smaller(FedLen, Window)
           /\ \A i \in 1..Smaller(FedLen, Window) :
                /\ m.state[f][i] # Blank
                /\ m.state[f][i][1] = FedToken(FedLen - Smaller(FedLen, Window) + i)

\* Every completed step has added at most k + 1 tokens and moved the window by k.
Metered ==
  /\ Len(text) - 1 <= (k + 1) * Len(batches)
  /\ m.kv => k * Len(batches) + Len(drafts) <= RowsIn

IInv == TypeOK /\ Standing /\ Paced /\ Own /\ Placed /\ Following /\ Metered

-----------------------------------------------------------------------------
\* Facts about numbers.

\* A set of natural numbers that is not empty has a smallest one.
LEMMA Least ==
  ASSUME NEW S, S \subseteq Nat, S # {}
  PROVE  \E i \in S : \A j \in S : i <= j
<1> DEFINE Less == {ss \in Nat \X Nat : ss[1] < ss[2]}
<1>1. IsWellFoundedOn(Less, Nat)
  BY NatLessThanWellFounded DEF OpToRel
<1>2. \E x \in S : \A y \in S : <<y, x>> \notin Less
  <2> HIDE DEF Less
  <2> QED
    BY <1>1, WFMin
<1>3. PICK x \in S : \A y \in S : <<y, x>> \notin Less
  BY <1>2
<1>4. ASSUME NEW j \in S PROVE x <= j
  <2>1. x \in Nat /\ j \in Nat /\ <<j, x>> \notin Less
    BY <1>3
  <2> QED
    BY <2>1
<1> QED
  BY <1>4

\* And one that is bounded a largest one.
LEMMA Greatest ==
  ASSUME NEW n \in Nat, NEW S, S \subseteq 0..n, S # {}
  PROVE  \E i \in S : \A j \in S : j <= i
<1> DEFINE T == {n - i : i \in S}
<1>1. T \subseteq Nat /\ T # {}
  <2>1. \A i \in S : n - i \in Nat
    OBVIOUS
  <2>2. PICK i \in S : TRUE
    OBVIOUS
  <2>3. n - i \in T
    OBVIOUS
  <2> QED
    BY <2>1, <2>3
<1>2. PICK x \in T : \A y \in T : x <= y
  <2> HIDE DEF T
  <2> QED
    BY <1>1, Least
<1>3. PICK i \in S : x = n - i
  BY <1>2
<1>4. ASSUME NEW j \in S PROVE j <= i
  <2>1. n - j \in T
    OBVIOUS
  <2>2. x <= n - j
    BY <1>2, <2>1
  <2>3. i \in 0..n /\ j \in 0..n
    OBVIOUS
  <2> HIDE DEF T
  <2> QED
    BY <1>3, <2>2, <2>3
<1> QED
  BY <1>4

\* Multiplying keeps the order.
LEMMA Monotone ==
  ASSUME NEW a \in Nat, NEW b \in Nat, NEW c \in Nat, a <= b
  PROVE  c * a <= c * b
OBVIOUS

\* k rows fit into the window as often as the division says.
LEMMA Fits ==
  ASSUME NEW w \in Nat, NEW c \in Nat \ {0}, NEW n \in Nat, c * n <= w
  PROVE  n <= w \div c /\ w \div c \in Nat
OBVIOUS

-----------------------------------------------------------------------------
\* What mergeDraftWithTargetGreedy returns.
LEMMA AcceptedIs ==
  ASSUME NEW d \in Seq(Token), NEW v \in Seq(Token), Len(v) = Len(d) + 1
  PROVE  \E n \in 0..Len(d) :
           /\ \A j \in 1..n : d[j] = v[j]
           /\ Accepted(d, v) = Append(SubSeq(d, 1, n), v[n + 1])
<1> DEFINE agreed == {n \in 0..Len(d) : \A j \in 1..n : d[j] = v[j]}
<1>1. 0 \in agreed
  OBVIOUS
<1>2. \E n \in agreed : \A o \in agreed : o <= n
  <2>1. agreed \subseteq 0..Len(d) /\ agreed # {} /\ Len(d) \in Nat
    BY <1>1
  <2> HIDE DEF agreed
  <2> QED
    BY <2>1, Greatest
<1> DEFINE n == CHOOSE n \in agreed : \A o \in agreed : o <= n
<1>3. n \in agreed
  <2> HIDE DEF agreed
  <2> QED
    BY <1>2
<1>4. Accepted(d, v) = Append(SubSeq(d, 1, n), v[n + 1])
  BY DEF Accepted
<1> QED
  <2> HIDE DEF n
  <2> QED
    BY <1>3, <1>4

-----------------------------------------------------------------------------
\* What the calls of the draft model do.
LEMMA RoPERowIs ==
  ASSUME NEW p \in Nat
  PROVE  RoPERow(p) \in 0..(Window - 1) /\ (p < Window => RoPERow(p) = p)
BY WindowAssumption DEF RoPERow

\* The row an evaluation adds, by kind.
LEMMA WithRowIs ==
  ASSUME NEW x, NEW f, NEW t
  PROVE  /\ x.kind = "attention" =>
              WithRow(x, f, t) = [x.state[f] EXCEPT ![x.kvPos + 1] = <<t, RoPERow(x.pos)>>]
         /\ x.kind = "stateful" => WithRow(x, f, t) = Append1(x.state[f], <<t, RoPERow(x.pos)>>)
         /\ x.kind = "plain" => WithRow(x, f, t) = x.state[f]
BY Zenon DEF WithRow

\* A program's state with a row more.
LEMMA Append1Is ==
  ASSUME NEW rows \in Seq(Cell), Len(rows) <= Window, NEW row \in Cell
  PROVE  /\ Append1(rows, row) \in Seq(Cell)
         /\ Len(rows) < Window => Append1(rows, row) = Append(rows, row)
         /\ Len(rows) = Window =>
              /\ Len(Append1(rows, row)) = Window
              /\ \A i \in 1..(Window - 1) : Append1(rows, row)[i] = rows[i + 1]
              /\ Append1(rows, row)[Window] = row
<1>0. Window \in Nat \ {0} /\ Len(rows) \in Nat
  BY WindowAssumption
<1>1. CASE Len(rows) < Window
  <2>1. Append1(rows, row) = Append(rows, row)
    BY <1>1 DEF Append1
  <2> QED
    BY <1>0, <1>1, <2>1
<1>2. CASE Len(rows) = Window
  <2>1. Append1(rows, row) = Append(Tail(rows), row)
    BY <1>0, <1>2 DEF Append1
  <2>2. Tail(rows) \in Seq(Cell) /\ Len(Tail(rows)) = Window - 1
    BY <1>0, <1>2
  <2>3. \A i \in 1..(Window - 1) : Tail(rows)[i] = rows[i + 1]
    BY <1>0, <1>2
  <2> QED
    BY <1>0, <1>2, <2>1, <2>2, <2>3
<1> QED
  BY <1>0, <1>1, <1>2

\* A surface has rows after an evaluation as well.
LEMMA WithRowType ==
  ASSUME NEW x \in Model, NEW f \in Face, NEW t \in Token, EvalOk(x),
         x.kind = "attention" => Len(x.state[f]) = Window,
         x.kind = "stateful" => Len(x.state[f]) <= Window
  PROVE  WithRow(x, f, t) \in Seq(Cell)
<1>0. x.state[f] \in Seq(Cell) /\ x.pos \in Nat /\ x.kvPos \in Nat /\ Window \in Nat
  BY WindowAssumption DEF Model
<1>1. <<t, RoPERow(x.pos)>> \in Cell
  BY <1>0, RoPERowIs DEF Cell, Row
<1>2. CASE x.kind = "attention"
  <2>1. x.kvPos + 1 \in 1..Window
    BY <1>0, <1>2 DEF EvalOk
  <2>2. WithRow(x, f, t) = [x.state[f] EXCEPT ![x.kvPos + 1] = <<t, RoPERow(x.pos)>>]
    BY <1>2, WithRowIs
  <2> DEFINE rows == x.state[f]
             row == <<t, RoPERow(x.pos)>>
  <2>3. rows \in Seq(Cell) /\ Len(rows) = Window /\ row \in Cell
    BY <1>0, <1>1, <1>2
  <2>4. WithRow(x, f, t) = [rows EXCEPT ![x.kvPos + 1] = row]
    BY <2>2
  <2> HIDE DEF rows, row
  <2>5. [rows EXCEPT ![x.kvPos + 1] = row] \in Seq(Cell)
    BY <2>1, <2>3, ExceptSeq
  <2> QED
    BY <2>4, <2>5
<1>3. CASE x.kind = "stateful"
  BY <1>0, <1>1, <1>3, WithRowIs, Append1Is
<1>4. CASE x.kind = "plain"
  <2>1. WithRow(x, f, t) = x.state[f]
    BY <1>4, WithRowIs, Zenon
  <2> QED
    BY <1>0, <2>1
<1> QED
  BY <1>2, <1>3, <1>4 DEF Model

\* Everything but the state is kept.
Kept(y, x) ==
  /\ y \in Model
  /\ y.kind = x.kind /\ y.kv = x.kv /\ y.pos = x.pos /\ y.kvPos = x.kvPos
  /\ y.closed = x.closed

\* An evaluation changes the state surfaces and nothing else.
LEMMA AfterEvalIs ==
  ASSUME NEW x \in Model, NEW t \in Token, EvalOk(x), Sized(x)
  PROVE  /\ Kept(AfterEval(x, t), x)
         /\ \A f \in Face : AfterEval(x, t).state[f] = WithRow(x, f, t)
<1> DEFINE rows == [f \in Face |-> WithRow(x, f, t)]
           y == AfterEval(x, t)
<1>1. \A f \in Face : WithRow(x, f, t) \in Seq(Cell)
  BY WithRowType DEF Sized
<1>2. rows \in [Face -> Seq(Cell)] /\ \A f \in Face : rows[f] = WithRow(x, f, t)
  BY <1>1
<1>3. y = [x EXCEPT !.state = rows]
  BY DEF AfterEval
<1> HIDE DEF rows, y
<1>4. Kept(y, x) /\ y.state = rows
  BY <1>2, <1>3 DEF Model, Kept
<1> QED
  BY <1>2, <1>4 DEF y

\* A failing evaluation has written its row, or part of it, or nothing.
LEMMA AfterFailedEvalIs ==
  ASSUME NEW x \in Model, NEW t \in Token, Sized(x), NEW y \in AfterFailedEval(x, t)
  PROVE  /\ Kept(y, x)
         /\ y = x \/ EvalOk(x)
         /\ \A f \in Face : y.state[f] = x.state[f] \/ y.state[f] = WithRow(x, f, t)
<1>1. CASE ~EvalOk(x)
  <2>1. AfterFailedEval(x, t) = {x}
    BY <1>1 DEF AfterFailedEval
  <2> QED
    BY <2>1 DEF Kept
<1>2. CASE EvalOk(x) /\ x.kind = "attention"
  <2>1. AfterFailedEval(x, t) = {x, [x EXCEPT !.state["K"] = WithRow(x, "K", t)]}
    BY <1>2 DEF AfterFailedEval
  <2>2. WithRow(x, "K", t) \in Seq(Cell)
    BY <1>2, WithRowType DEF Sized
  <2> DEFINE row == WithRow(x, "K", t)
  <2>3. y = x \/ y = [x EXCEPT !.state["K"] = row]
    BY <2>1
  <2>4. row \in Seq(Cell) /\ row = WithRow(x, "K", t)
    BY <2>2
  <2> HIDE DEF row
  <2> QED
    BY <1>2, <2>3, <2>4 DEF Model, Kept
<1>3. CASE EvalOk(x) /\ x.kind # "attention"
  <2>1. AfterFailedEval(x, t) = {x, AfterEval(x, t)}
    BY <1>3 DEF AfterFailedEval
  <2> QED
    BY <1>3, <2>1, AfterEvalIs DEF Kept
<1> QED
  BY <1>1, <1>2, <1>3

\* Advance moves the positions and nothing else.
LEMMA AfterAdvanceIs ==
  ASSUME NEW x \in Model, NEW y, y = AfterAdvance(x)
  PROVE  /\ y \in Model
         /\ y.kind = x.kind /\ y.kv = x.kv /\ y.closed = x.closed /\ y.state = x.state
         /\ y.pos = x.pos + 1
         /\ y.kvPos = IF x.kv THEN x.kvPos + 1 ELSE x.kvPos
<1> DEFINE next == IF x.kv THEN x.kvPos + 1 ELSE x.kvPos
<1>1. x.pos + 1 \in Nat /\ next \in Nat
  BY DEF Model
<1>2. y = [x EXCEPT !.pos = x.pos + 1, !.kvPos = next]
  BY DEF AfterAdvance
<1> HIDE DEF next
<1>3. y \in Model /\ y.kind = x.kind /\ y.kv = x.kv /\ y.closed = x.closed /\ y.state = x.state
      /\ y.pos = x.pos + 1 /\ y.kvPos = next
  BY <1>1, <1>2 DEF Model
<1> QED
  BY <1>3 DEF next

-----------------------------------------------------------------------------
\* A draft model that has seen nothing.
Fresh(x, kind, kv) ==
  /\ x \in Model
  /\ x.kind = kind /\ x.kv = kv /\ x.pos = 0 /\ x.kvPos = 0 /\ ~x.closed
  /\ kind = "attention" =>
       \A f \in Face :
         x.state[f] \in Seq(Cell) /\ Len(x.state[f]) = Window
         /\ \A i \in 1..Window : x.state[f][i] = Blank
  /\ kind # "attention" => \A f \in Face : x.state[f] = << >>

\* A model is opened without a row.
LEMMA OpenedIs ==
  ASSUME NEW kind \in Kind, NEW kv \in BOOLEAN
  PROVE  Fresh(Opened(kind, kv), kind, kv)
<1> DEFINE x == Opened(kind, kv)
<1> DEFINE rows == NewState(kind)
<1>1. rows \in [Face -> Seq(Cell)]
  BY WindowAssumption DEF NewState, Cell
<1>2. kind = "attention" =>
        \A f \in Face :
          rows[f] \in Seq(Cell) /\ Len(rows[f]) = Window /\ \A i \in 1..Window : rows[f][i] = Blank
  BY WindowAssumption DEF NewState, Cell
<1>3. kind # "attention" => \A f \in Face : rows[f] = << >>
  BY DEF NewState
<1>4. x = [kind |-> kind, kv |-> kv, state |-> rows, pos |-> 0, kvPos |-> 0, closed |-> FALSE]
  BY DEF Opened
<1>5. 0 \in Nat /\ FALSE \in BOOLEAN
  OBVIOUS
<1> HIDE DEF rows, x
<1>6. x \in Model
  BY <1>1, <1>4, <1>5 DEF Model
<1>7. x.kind = kind /\ x.kv = kv /\ x.state = rows /\ x.pos = 0 /\ x.kvPos = 0 /\ ~x.closed
  BY <1>4
<1>8. Fresh(x, kind, kv)
  BY <1>2, <1>3, <1>6, <1>7 DEF Fresh
<1> QED
  BY <1>8 DEF x

\* Before the first step the text is the prompt's last token and the model has no row.
LEMMA Initially ==
  Init => IInv
<1> SUFFICES ASSUME Init PROVE IInv
  OBVIOUS
<1>1. PICK s \in Setups : m = Opened(s[1], s[2])
  BY DEF Init
<1> DEFINE kind == s[1]
           kv == s[2]
<1>2. kind \in Kind /\ kv \in BOOLEAN /\ (kind = "attention" => kv) /\ m = Opened(kind, kv)
  BY <1>1, SpecDecodeAssumption
<1> HIDE DEF kind, kv
<1>3. Fresh(m, kind, kv)
  BY <1>2, OpenedIs, Zenon
<1>4. k \in Nat \ {0} /\ Horizon \in Nat \ {0} /\ Window \in Nat \ {0}
  BY SpecDecodeAssumption, WindowAssumption DEF Init
<1>5. script[1] \in Token
  BY <1>4 DEF Init
<1>6. text \in Seq(Token) /\ Len(text) = 1 /\ text[1] = script[1]
  BY <1>5 DEF Init
<1>7. drafts = << >> /\ verdict = << >> /\ batches = << >> /\ pc = "idle" /\ failures = 0
  BY DEF Init
<1>8. TypeOK
  BY <1>3, <1>6, <1>7, <1>4 DEF TypeOK, Init, Fresh
<1>9. Standing
  BY <1>2, <1>3, <1>4, <1>7 DEF Standing, Sized, Model, Fresh
<1>10. Paced
  BY <1>7 DEF Paced
<1>11. Own
  BY <1>4, <1>6, <1>7 DEF Own
<1>12. Placed
  BY <1>3, <1>7 DEF Placed, RowsIn, Fresh
<1>13. Following
  BY <1>3, <1>4, <1>6, <1>7 DEF Following, RowsIn, FedLen, Smaller, Fresh
<1>14. Metered
  BY <1>3, <1>4, <1>6, <1>7 DEF Metered, RowsIn, Fresh
<1> QED
  BY <1>8, <1>9, <1>10, <1>11, <1>12, <1>13, <1>14 DEF IInv

-----------------------------------------------------------------------------
\* The numbers of a state.
LEMMA Numbers ==
  ASSUME TypeOK
  PROVE  /\ k \in Nat \ {0} /\ Horizon \in Nat \ {0} /\ Window \in Nat \ {0}
         /\ Len(text) \in Nat \ {0} /\ Len(drafts) \in 0..k /\ Len(batches) \in Nat
         /\ m \in Model /\ m.pos \in Nat /\ m.kvPos \in Nat /\ m.kind \in Kind
         /\ \A f \in Face : m.state[f] \in Seq(Cell)
         /\ RowsIn \in Nat /\ FedLen \in Nat
<1>1. /\ k \in Nat \ {0} /\ Horizon \in Nat \ {0} /\ Window \in Nat \ {0}
      /\ Len(text) \in Nat \ {0} /\ Len(drafts) \in 0..k /\ Len(batches) \in Nat
  BY SpecDecodeAssumption, WindowAssumption DEF TypeOK
<1>2. /\ m \in Model /\ m.pos \in Nat /\ m.kvPos \in Nat /\ m.kind \in Kind
      /\ \A f \in Face : m.state[f] \in Seq(Cell)
  BY DEF TypeOK, Model
<1> QED
  BY <1>1, <1>2 DEF RowsIn, FedLen

\* The step begins.
LEMMA BeginKeeps ==
  ASSUME IInv, Begin
  PROVE  IInv'
<1>0. TypeOK /\ Standing /\ Paced /\ Own /\ Placed /\ Following /\ Metered
  BY DEF IInv
<1>1. /\ pc = "idle" /\ pc' = "drafting" /\ Len(text) + k + 1 <= Horizon
      /\ UNCHANGED <<config, m, text, drafts, verdict, batches, failures>>
  BY DEF Begin, InBounds
<1>2. RowsIn' = RowsIn /\ FedLen' = FedLen /\ (InStep' <=> InStep)
  BY <1>1 DEF RowsIn, FedLen, InStep, config
<1>3. \A i : FedToken(i)' = FedToken(i)
  BY <1>1 DEF FedToken
<1>4. TypeOK'
  BY <1>0, <1>1 DEF TypeOK, config
<1>5. Standing'
  BY <1>0, <1>1 DEF Standing
<1>6. Paced'
  BY <1>0, <1>1, Numbers DEF Paced, config
<1>7. Own'
  BY <1>0, <1>1 DEF Own, config
<1>8. Placed'
  BY <1>0, <1>1, <1>2 DEF Placed, config
<1>9. Following'
  BY <1>0, <1>1, <1>2, <1>3 DEF Following
<1>10. Metered'
  BY <1>0, <1>1, <1>2 DEF Metered, config
<1> QED
  BY <1>4, <1>5, <1>6, <1>7, <1>8, <1>9, <1>10 DEF IInv

\* The step fails: whatever it has fed to the draft model stays there.
LEMMA FailKeeps ==
  ASSUME IInv, Fail, pc # "idle",
         Kept(m', m), Sized(m'),
         m.kind = "plain" => m'.state = m.state,
         m.kind = "attention" =>
           \A f \in Face : \A i \in 1..Window : m'.state[f][i] # Blank => m'.state[f][i][2] = i - 1,
         m.kind = "stateful" /\ "eval" \notin faulty =>
           m'.state = m.state /\ (pc = "evaluated" => m.kv /\ m.kvPos >= Window)
  PROVE  IInv'
<1>0. TypeOK /\ Standing /\ Paced /\ Own /\ Placed /\ Following /\ Metered
  BY DEF IInv
<1>1. /\ pc' = "idle" /\ drafts' = << >> /\ verdict' = << >> /\ failures' = failures + 1
      /\ UNCHANGED <<config, text, batches>>
  BY DEF Fail
<1>2. TypeOK'
  BY <1>0, <1>1, Numbers DEF TypeOK, config, Kept
<1>3. Standing'
  BY <1>0, <1>1 DEF Standing, Kept
<1>4. Paced'
  BY <1>0, <1>1 DEF Paced
<1>5. Own'
  BY <1>0, <1>1 DEF Own, config
<1>6. Placed'
  <2>1. RowsIn' = m.pos
    BY <1>1 DEF RowsIn, Kept
  <2>2. CASE m.kind = "attention"
    BY <2>2 DEF Placed, Kept
  <2>3. CASE m.kind = "stateful"
    <3>1. SUFFICES ASSUME "eval" \notin faulty, m.kv => m.kvPos < Window, m.pos <= Window
                   PROVE  \A f \in Face :
                            /\ Len(m.state[f]) = m.pos
                            /\ \A i \in 1..m.pos :
                                 m.state[f][i] # Blank => m.state[f][i][2] = i - 1
      BY <1>1, <2>1, <2>3 DEF Placed, config, Kept
    <3>2. pc # "evaluated"
      BY <2>3, <3>1, <1>0, Numbers
    <3>3. RowsIn = m.pos
      BY <3>2 DEF RowsIn
    <3> QED
      BY <1>0, <2>3, <3>1, <3>3 DEF Placed
  <2>4. CASE m.kind = "plain"
    BY <2>4 DEF Placed, Kept
  <2> QED
    BY <1>0, <2>2, <2>3, <2>4, Numbers
<1>7. Following'
  <2>1. ~InStep'
    BY <1>0, <1>1 DEF InStep, TypeOK
  <2> QED
    BY <2>1 DEF Following
<1>8. Metered'
  <2>1. RowsIn' = m.pos /\ Len(drafts') = 0
    BY <1>1 DEF RowsIn, Kept
  <2>2. m.kv => k * Len(batches) <= m.pos
    <3>1. k * Len(batches) \in Nat
      BY <1>0, Numbers
    <3> QED
      BY <1>0, <3>1, Numbers DEF Metered, RowsIn, Paced
  <2>3. UNCHANGED <<k, text, batches>>
    BY <1>1 DEF config
  <2>4. k * Len(batches) \in Nat
    BY <1>0, Numbers
  <2> QED
    BY <1>0, <2>1, <2>2, <2>3, <2>4 DEF Metered, Kept
<1> QED
  BY <1>2, <1>3, <1>4, <1>5, <1>6, <1>7, <1>8 DEF IInv

\* What a state surface of an attention model has after its row is written.
LEMMA AttentionRow ==
  ASSUME NEW x \in Model, NEW f \in Face, NEW t \in Token, EvalOk(x), x.kind = "attention",
         Len(x.state[f]) = Window, x.kvPos = x.pos
  PROVE  /\ Len(WithRow(x, f, t)) = Window
         /\ \A i \in 1..Window :
              WithRow(x, f, t)[i] = IF i = x.pos + 1 THEN <<t, x.pos>> ELSE x.state[f][i]
         /\ x.pos < Window
<1> DEFINE rows == x.state[f]
           row == <<t, RoPERow(x.pos)>>
<1>1. x.pos \in Nat /\ x.pos < Window /\ Window \in Nat /\ rows \in Seq(Cell) /\ Len(rows) = Window
  BY WindowAssumption DEF Model, EvalOk
<1>2. RoPERow(x.pos) = x.pos
  BY <1>1, RoPERowIs
<1>3. row \in Cell /\ row = <<t, x.pos>>
  BY <1>1, <1>2, RoPERowIs DEF Cell, Row
<1>4. WithRow(x, f, t) = [rows EXCEPT ![x.pos + 1] = row]
  <2>1. WithRow(x, f, t) = [rows EXCEPT ![x.kvPos + 1] = row]
    BY WithRowIs, Zenon
  <2> HIDE DEF rows, row
  <2> QED
    BY <2>1
<1>5. x.pos + 1 \in 1..Len(rows)
  BY <1>1
<1> HIDE DEF rows, row
<1>6. /\ Len([rows EXCEPT ![x.pos + 1] = row]) = Window
      /\ \A i \in 1..Window :
           [rows EXCEPT ![x.pos + 1] = row][i] = IF i = x.pos + 1 THEN row ELSE rows[i]
  BY <1>1, <1>3, <1>5, ExceptSeq
<1> QED
  BY <1>1, <1>3, <1>4, <1>6 DEF rows

\* A full window refuses the position after its row is in.
LEMMA AdvanceFailsKeeps ==
  ASSUME IInv, AdvanceDraftFails
  PROVE  IInv'
<1>0. TypeOK /\ Standing /\ Placed /\ m' = m /\ Fail /\ pc = "evaluated" /\ ~AdvanceOk(m)
  BY DEF IInv, AdvanceDraftFails
<1>1. m.kv /\ m.kvPos >= Window
  BY <1>0, Numbers DEF AdvanceOk, Standing
<1>2. Kept(m', m) /\ m'.state = m.state /\ Sized(m')
  BY <1>0, Numbers DEF Standing, Kept
<1>3. m.kind = "attention" =>
        \A f \in Face : \A i \in 1..Window : m'.state[f][i] # Blank => m'.state[f][i][2] = i - 1
  BY <1>0, <1>2 DEF Placed
<1>4. Fail /\ pc # "idle"
  BY <1>0
<1> QED
  BY <1>1, <1>2, <1>3, <1>4, FailKeeps

\* The target fails to verify the batch.
LEMMA VerifyFailsKeeps ==
  ASSUME IInv, VerifyFails
  PROVE  IInv'
<1>0. TypeOK /\ Standing /\ Placed /\ m' = m /\ Fail /\ pc = "verifying"
  BY DEF IInv, VerifyFails
<1>2. Kept(m', m) /\ m'.state = m.state /\ Sized(m')
  BY <1>0, Numbers DEF Standing, Kept
<1>3. m.kind = "attention" =>
        \A f \in Face : \A i \in 1..Window : m'.state[f][i] # Blank => m'.state[f][i][2] = i - 1
  BY <1>0, <1>2 DEF Placed
<1>4. Fail /\ pc # "idle" /\ pc # "evaluated"
  BY <1>0
<1> QED
  BY <1>2, <1>3, <1>4, FailKeeps

\* An evaluation fails after it has written a row, or half of one.
LEMMA EvalFailsKeeps ==
  ASSUME IInv, EvalDraftFails
  PROVE  IInv'
<1>0. /\ TypeOK /\ Standing /\ Placed /\ Fail /\ pc = "drafting"
      /\ ~EvalOk(m) \/ "eval" \in faulty
      /\ m' \in AfterFailedEval(m, Current)
  BY DEF IInv, EvalDraftFails
<1> DEFINE t == Current
           y == m'
<1>1. t \in Token /\ m \in Model /\ Sized(m) /\ y \in AfterFailedEval(m, t)
  BY <1>0, Numbers DEF TypeOK, Current, Standing
<1>2. /\ Kept(y, m) /\ (y = m \/ EvalOk(m))
      /\ \A f \in Face : y.state[f] = m.state[f] \/ y.state[f] = WithRow(m, f, t)
  <2> HIDE DEF t, y
  <2> QED
    BY <1>1, AfterFailedEvalIs, Zenon
<1> HIDE DEF t
<1>3. m.kind = "attention" =>
        \A f \in Face :
          /\ Len(y.state[f]) = Window
          /\ \A i \in 1..Window : y.state[f][i] # Blank => y.state[f][i][2] = i - 1
  <2> SUFFICES ASSUME m.kind = "attention", NEW f \in Face
               PROVE  /\ Len(y.state[f]) = Window
                      /\ \A i \in 1..Window : y.state[f][i] # Blank => y.state[f][i][2] = i - 1
    OBVIOUS
  <2>1. /\ Len(m.state[f]) = Window /\ m.kvPos = m.pos
        /\ \A i \in 1..Window : m.state[f][i] # Blank => m.state[f][i][2] = i - 1
    BY <1>0 DEF Standing, Sized, Placed
  <2>2. CASE y.state[f] = m.state[f]
    BY <2>1, <2>2
  <2>3. CASE y.state[f] = WithRow(m, f, t) /\ EvalOk(m)
    <3>1. /\ Len(WithRow(m, f, t)) = Window
          /\ \A i \in 1..Window :
               WithRow(m, f, t)[i] = IF i = m.pos + 1 THEN <<t, m.pos>> ELSE m.state[f][i]
      BY <1>1, <2>1, <2>3, AttentionRow
    <3>2. ASSUME NEW i \in 1..Window, y.state[f][i] # Blank PROVE y.state[f][i][2] = i - 1
      <4>1. y.state[f][i] = IF i = m.pos + 1 THEN <<t, m.pos>> ELSE m.state[f][i]
        BY <2>3, <3>1
      <4>2. m.pos \in Nat
        BY <1>0, Numbers
      <4>3. CASE i = m.pos + 1
        <5>1. y.state[f][i] = <<t, m.pos>>
          BY <4>1, <4>3
        <5> QED
          BY <4>2, <4>3, <5>1
      <4>4. CASE i # m.pos + 1
        BY <2>1, <3>2, <4>1, <4>4
      <4> QED
        BY <4>3, <4>4
    <3> QED
      BY <2>3, <3>1, <3>2
  <2> QED
    BY <1>2, <2>2, <2>3
<1>4. m.kind = "plain" => y.state = m.state
  <2> SUFFICES ASSUME m.kind = "plain" PROVE y.state = m.state
    OBVIOUS
  <2>0. \A f \in Face : WithRow(m, f, t) = m.state[f]
    BY WithRowIs, Zenon
  <2>1. \A f \in Face : y.state[f] = m.state[f]
    BY <1>2, <2>0
  <2>2. y.state \in [Face -> Seq(Cell)] /\ m.state \in [Face -> Seq(Cell)]
    BY <1>1, <1>2 DEF Model, Kept
  <2> QED
    BY <2>1, <2>2
<1>5. m.kind = "stateful" /\ "eval" \notin faulty =>
        y.state = m.state /\ (pc = "evaluated" => m.kv /\ m.kvPos >= Window)
  <2> SUFFICES ASSUME m.kind = "stateful", "eval" \notin faulty PROVE y = m
    BY <1>0
  <2>1. ~EvalOk(m)
    BY <1>0
  <2> QED
    BY <1>2, <2>1
<1>6. Sized(y)
  <2>1. m.kind = "stateful" => \A f \in Face : Len(y.state[f]) <= Window
    <3> SUFFICES ASSUME m.kind = "stateful", NEW f \in Face PROVE Len(y.state[f]) <= Window
      OBVIOUS
    <3>1. m.state[f] \in Seq(Cell) /\ Len(m.state[f]) <= Window /\ Window \in Nat
      BY <1>0, <1>1, Numbers DEF Sized
    <3> DEFINE row == <<t, RoPERow(m.pos)>>
    <3>2. row \in Cell
      BY <1>0, <1>1, Numbers, RoPERowIs DEF Cell, Row
    <3> HIDE DEF row
    <3>3. Len(Append1(m.state[f], row)) <= Window
      <4>1. CASE Len(m.state[f]) = Window
        BY <3>1, <3>2, <4>1, Append1Is
      <4>2. CASE Len(m.state[f]) < Window
        <5>1. Append1(m.state[f], row) = Append(m.state[f], row)
          BY <4>2 DEF Append1
        <5> QED
          BY <3>1, <3>2, <4>2, <5>1
      <4> QED
        BY <3>1, <4>1, <4>2
    <3>4. WithRow(m, f, t) = Append1(m.state[f], row)
      BY WithRowIs, Zenon DEF row
    <3> QED
      BY <1>2, <3>1, <3>3, <3>4
  <2> QED
    BY <1>2, <1>3, <2>1 DEF Sized, Kept
<1>7. Fail /\ pc # "idle"
  BY <1>0
<1> QED
  BY <1>2, <1>3, <1>4, <1>5, <1>6, <1>7, FailKeeps

\* The target verifies the batch.
LEMMA VerifyKeeps ==
  ASSUME IInv, VerifyBatch
  PROVE  IInv'
<1>0. TypeOK /\ Standing /\ Paced /\ Own /\ Placed /\ Following /\ Metered
  BY DEF IInv
<1>1. /\ pc = "verifying" /\ pc' = "merging"
      /\ UNCHANGED <<config, m, text, drafts, batches, failures>>
  BY DEF VerifyBatch
<1>2. PICK other \in Token :
        verdict' = [i \in 1..(k + 1) |-> IF OwnSoFar(i) THEN script[Len(text) + i] ELSE other]
  BY DEF VerifyBatch
<1>3. RowsIn' = RowsIn /\ FedLen' = FedLen /\ (InStep' <=> InStep)
  BY <1>1 DEF RowsIn, FedLen, InStep, config
<1>4. \A i : FedToken(i)' = FedToken(i)
  BY <1>1 DEF FedToken
<1>5. verdict' \in Seq(Token) /\ Len(verdict') = k + 1
  <2>1. \A i \in 1..(k + 1) : script[Len(text) + i] \in Token
    BY <1>0, <1>1, Numbers DEF TypeOK, Own
  <2>2. verdict' \in [1..(k + 1) -> Token]
    BY <1>2, <2>1
  <2>3. k + 1 \in Nat
    BY <1>0, Numbers
  <2> QED
    BY <2>2, <2>3
<1>6. TypeOK'
  BY <1>0, <1>1, <1>5 DEF TypeOK, config
<1>7. Standing'
  BY <1>0, <1>1 DEF Standing
<1>8. Paced'
  BY <1>0, <1>1 DEF Paced, config
<1>9. Own'
  <2>1. \A i \in 1..(k + 1) : OwnSoFar(i)' => verdict'[i] = script[Len(text) + i]
    <3>1. \A i : OwnSoFar(i)' <=> OwnSoFar(i)
      BY <1>1 DEF OwnSoFar, config
    <3> QED
      BY <1>2, <3>1
  <2> QED
    BY <1>0, <1>1, <1>5, <2>1 DEF Own, config
<1>10. Placed'
  BY <1>0, <1>1, <1>3 DEF Placed, config
<1>11. Following'
  BY <1>0, <1>1, <1>3, <1>4 DEF Following
<1>12. Metered'
  BY <1>0, <1>1, <1>3 DEF Metered, config
<1> QED
  BY <1>6, <1>7, <1>8, <1>9, <1>10, <1>11, <1>12 DEF IInv

\* The position moves past the row that has been written.
LEMMA AdvanceKeeps ==
  ASSUME IInv, AdvanceDraft
  PROVE  IInv'
<1>0. TypeOK /\ Standing /\ Paced /\ Own /\ Placed /\ Following /\ Metered
  BY DEF IInv
<1>1. /\ pc = "evaluated" /\ pc' \in {"verifying", "drafting"}
      /\ pc' = IF Len(drafts) = k THEN "verifying" ELSE "drafting"
      /\ UNCHANGED <<config, text, drafts, verdict, batches, failures>>
      /\ AdvanceOk(m) /\ m' = AfterAdvance(m)
  BY DEF AdvanceDraft
<1>2. /\ m' \in Model
      /\ m'.kind = m.kind /\ m'.kv = m.kv /\ m'.closed = m.closed /\ m'.state = m.state
      /\ m'.pos = m.pos + 1
      /\ m'.kvPos = IF m.kv THEN m.kvPos + 1 ELSE m.kvPos
  BY <1>0, <1>1, Numbers, AfterAdvanceIs
<1>3. RowsIn' = RowsIn /\ FedLen' = FedLen /\ (InStep' <=> InStep)
  BY <1>1, <1>2 DEF RowsIn, FedLen, InStep, config
<1>4. \A i : FedToken(i)' = FedToken(i)
  BY <1>1 DEF FedToken
<1>6. TypeOK'
  BY <1>0, <1>1, <1>2 DEF TypeOK, config
<1>7. Standing'
  BY <1>0, <1>1, <1>2, Numbers DEF Standing, Sized, AdvanceOk
<1>8. Paced'
  BY <1>0, <1>1, Numbers DEF Paced, config
<1>9. Own'
  BY <1>0, <1>1 DEF Own, config
<1>10. Placed'
  <2>1. (m'.kv => m'.kvPos < Window) => (m.kv => m.kvPos < Window)
    BY <1>0, <1>2, Numbers
  <2>2. faulty' = faulty
    BY <1>1 DEF config
  <2> QED
    BY <1>0, <1>2, <1>3, <2>1, <2>2 DEF Placed
<1>11. Following'
  BY <1>0, <1>1, <1>2, <1>3, <1>4 DEF Following
<1>12. Metered'
  BY <1>0, <1>1, <1>2, <1>3 DEF Metered, config
<1> QED
  BY <1>6, <1>7, <1>8, <1>9, <1>10, <1>11, <1>12 DEF IInv

\* Nothing happens.
LEMMA StutterKeeps ==
  ASSUME IInv, UNCHANGED vars
  PROVE  IInv'
<1>0. TypeOK /\ Standing /\ Paced /\ Own /\ Placed /\ Following /\ Metered
  BY DEF IInv
<1>1. UNCHANGED <<faulty, script, k, m, text, drafts, verdict, pc, batches, failures>>
  BY DEF vars, config
<1>2. RowsIn' = RowsIn /\ FedLen' = FedLen /\ (InStep' <=> InStep)
  BY <1>1 DEF RowsIn, FedLen, InStep
<1>3. \A i : FedToken(i)' = FedToken(i)
  BY <1>1 DEF FedToken
<1>4. TypeOK' /\ Standing' /\ Paced'
  BY <1>0, <1>1 DEF TypeOK, Standing, Paced
<1>5. Own'
  BY <1>0, <1>1 DEF Own, OwnSoFar
<1>6. Placed' /\ Metered'
  BY <1>0, <1>1, <1>2 DEF Placed, Metered
<1>7. Following'
  BY <1>0, <1>1, <1>2, <1>3 DEF Following
<1> QED
  BY <1>4, <1>5, <1>6, <1>7 DEF IInv

\* A row computed from a token at a position, and the rows that have it as the last.
RowOf(row, t, p) == row \in Row /\ row[1] = t /\ (p < Window => row[2] = p)

Extended(rows, row, new) ==
  /\ Len(new) = Smaller(Len(rows) + 1, Window)
  /\ Len(rows) < Window =>
       \A i \in 1..(Len(rows) + 1) : new[i] = IF i <= Len(rows) THEN rows[i] ELSE row
  /\ Len(rows) = Window =>
       \A i \in 1..Window : new[i] = IF i < Window THEN rows[i + 1] ELSE row

\* What a program with state surfaces has after an evaluation.
LEMMA StatefulRow ==
  ASSUME NEW x \in Model, NEW f \in Face, NEW t \in Token, x.kind = "stateful",
         Len(x.state[f]) <= Window
  PROVE  \E row : RowOf(row, t, x.pos) /\ Extended(x.state[f], row, WithRow(x, f, t))
<1> DEFINE rows == x.state[f]
           row == <<t, RoPERow(x.pos)>>
<1>1. rows \in Seq(Cell) /\ Len(rows) <= Window /\ Window \in Nat \ {0} /\ x.pos \in Nat
  BY WindowAssumption DEF Model
<1>2. RowOf(row, t, x.pos) /\ row \in Cell
  BY <1>1, RoPERowIs DEF Cell, Row, RowOf
<1>3. WithRow(x, f, t) = Append1(rows, row)
  BY WithRowIs, Zenon
<1> HIDE DEF rows, row
<1>4. CASE Len(rows) < Window
  <2>1. Append1(rows, row) = Append(rows, row)
    BY <1>4 DEF Append1
  <2>2. /\ Append(rows, row) \in Seq(Cell)
        /\ Len(Append(rows, row)) = Len(rows) + 1
        /\ \A i \in 1..(Len(rows) + 1) :
             Append(rows, row)[i] = IF i <= Len(rows) THEN rows[i] ELSE row
    BY <1>1, <1>2
  <2>3. Smaller(Len(rows) + 1, Window) = Len(rows) + 1
    BY <1>1, <1>4 DEF Smaller
  <2>4. Extended(rows, row, WithRow(x, f, t))
    BY <1>1, <1>3, <1>4, <2>1, <2>2, <2>3 DEF Extended
  <2> QED
    BY <1>2, <2>4 DEF rows
<1>5. CASE Len(rows) = Window
  <2>1. /\ Append1(rows, row) \in Seq(Cell)
        /\ Len(Append1(rows, row)) = Window
        /\ \A i \in 1..(Window - 1) : Append1(rows, row)[i] = rows[i + 1]
        /\ Append1(rows, row)[Window] = row
    BY <1>1, <1>2, <1>5, Append1Is
  <2>2. \A i \in 1..Window : Append1(rows, row)[i] = IF i < Window THEN rows[i + 1] ELSE row
    BY <1>1, <2>1
  <2>3. Smaller(Len(rows) + 1, Window) = Window
    BY <1>1, <1>5 DEF Smaller
  <2>4. Extended(rows, row, WithRow(x, f, t))
    BY <1>1, <1>3, <1>5, <2>1, <2>2, <2>3 DEF Extended
  <2> QED
    BY <1>2, <2>4 DEF rows
<1> QED
  BY <1>1, <1>4, <1>5

\* A draft is evaluated: its row is in, the position is not.
LEMMA EvalKeeps ==
  ASSUME IInv, EvalDraft
  PROVE  IInv'
<1> DEFINE c == Current
<1>0. TypeOK /\ Standing /\ Paced /\ Own /\ Placed /\ Following /\ Metered
  BY DEF IInv
<1>1. /\ pc = "drafting" /\ pc' = "evaluated" /\ EvalOk(m) /\ m' = AfterEval(m, c)
      /\ UNCHANGED <<config, text, verdict, batches, failures>>
  BY DEF EvalDraft
<1>2. PICK t \in Token : drafts' = Append(drafts, t)
  BY DEF EvalDraft
<1>3. Len(drafts) < k /\ Sized(m)
  BY <1>0, <1>1 DEF Paced, Standing
<1>4. c \in Token /\ c = FedToken(FedLen)'
  <2>1. /\ text' = text /\ text \in Seq(Token) /\ Len(text) \in Nat \ {0}
        /\ drafts \in Seq(Token) /\ drafts' = Append(drafts, drafts'[Len(drafts) + 1])
        /\ drafts' \in Seq(Token) /\ Len(drafts') = Len(drafts) + 1
        /\ \A i \in 1..Len(drafts) : drafts'[i] = drafts[i]
    BY <1>0, <1>1, <1>2, Numbers DEF TypeOK
  <2>2. FedLen' = Len(text) + Len(drafts)
    BY <2>1 DEF FedLen
  <2>3. CASE drafts = << >>
    <3>1. c = text[Len(text)]
      BY <2>3 DEF Current
    <3>2. FedLen' = Len(text')
      BY <2>1, <2>2, <2>3
    <3>3. FedToken(FedLen)' = text'[Len(text')]
      BY <2>1, <3>2 DEF FedToken
    <3> QED
      BY <2>1, <3>1, <3>3
  <2>4. CASE drafts # << >>
    <3>1. c = drafts[Len(drafts)] /\ Len(drafts) \in Nat \ {0}
      BY <2>1, <2>4 DEF Current
    <3>2. FedToken(FedLen)' = drafts'[FedLen' - Len(text')]
      BY <2>1, <2>2, <3>1 DEF FedToken
    <3>3. FedLen' - Len(text') = Len(drafts)
      BY <2>1, <2>2
    <3> QED
      BY <2>1, <3>1, <3>2, <3>3
  <2> QED
    BY <2>3, <2>4
<1> HIDE DEF c
<1> DEFINE y == m'
<1>5. Kept(y, m) /\ \A f \in Face : y.state[f] = WithRow(m, f, c)
  <2>1. m \in Model /\ y = AfterEval(m, c)
    BY <1>0, <1>1, Numbers
  <2> HIDE DEF y
  <2> QED
    BY <1>1, <1>3, <1>4, <2>1, AfterEvalIs
<1>6. /\ drafts' \in Seq(Token) /\ Len(drafts') = Len(drafts) + 1
      /\ \A i \in 1..Len(drafts) : drafts'[i] = drafts[i]
  BY <1>0, <1>2 DEF TypeOK
<1>7. RowsIn = m.pos /\ RowsIn' = m.pos + 1 /\ FedLen' = FedLen + 1 /\ (InStep' <=> InStep)
  <2>1. RowsIn = m.pos /\ RowsIn' = m.pos + 1
    BY <1>1, <1>5 DEF RowsIn, Kept
  <2>2. FedLen' = FedLen + 1
    BY <1>0, <1>1, <1>6, Numbers DEF FedLen
  <2>3. InStep' <=> InStep
    BY <1>1 DEF InStep, config
  <2> QED
    BY <2>1, <2>2, <2>3
<1>8. \A i \in 1..FedLen : FedToken(i)' = FedToken(i)
  <2> SUFFICES ASSUME NEW i \in 1..FedLen PROVE FedToken(i)' = FedToken(i)
    OBVIOUS
  <2>1. CASE i <= Len(text)
    BY <1>1, <2>1 DEF FedToken
  <2>2. CASE ~(i <= Len(text))
    <3>1. i - Len(text) \in 1..Len(drafts)
      BY <1>0, <2>2, Numbers DEF FedLen
    <3> QED
      BY <1>1, <1>6, <2>2, <3>1 DEF FedToken
  <2> QED
    BY <2>1, <2>2
<1>9. m.pos \in Nat /\ m.kvPos \in Nat /\ Window \in Nat \ {0} /\ FedLen \in Nat /\ m \in Model
  BY <1>0, Numbers
<1>10. m.kind = "attention" =>
         \A f \in Face :
           /\ Len(y.state[f]) = Window
           /\ \A i \in 1..Window :
                y.state[f][i] = IF i = m.pos + 1 THEN <<c, m.pos>> ELSE m.state[f][i]
           /\ m.pos < Window /\ <<c, m.pos>> \in Row
  <2> SUFFICES ASSUME m.kind = "attention", NEW f \in Face
               PROVE  /\ Len(y.state[f]) = Window
                      /\ \A i \in 1..Window :
                           y.state[f][i] = IF i = m.pos + 1 THEN <<c, m.pos>> ELSE m.state[f][i]
                      /\ m.pos < Window /\ <<c, m.pos>> \in Row
    OBVIOUS
  <2>1. Len(m.state[f]) = Window /\ m.kvPos = m.pos
    BY <1>0 DEF Standing, Sized
  <2>2. /\ Len(WithRow(m, f, c)) = Window
        /\ \A i \in 1..Window :
             WithRow(m, f, c)[i] = IF i = m.pos + 1 THEN <<c, m.pos>> ELSE m.state[f][i]
        /\ m.pos < Window
    BY <1>1, <1>4, <1>9, <2>1, AttentionRow
  <2>3. <<c, m.pos>> \in Row
    BY <1>4, <1>9, <2>2 DEF Row
  <2> QED
    BY <1>5, <2>2, <2>3
<1>11. m.kind = "stateful" =>
         \A f \in Face : \E row : RowOf(row, c, m.pos) /\ Extended(m.state[f], row, y.state[f])
  BY <1>3, <1>4, <1>5, <1>9, StatefulRow DEF Sized
<1>12. TypeOK'
  BY <1>0, <1>1, <1>3, <1>5, <1>6, Numbers DEF TypeOK, config, Kept
<1>13. Standing'
  <2>1. Sized(y)
    <3>1. m.kind = "stateful" => \A f \in Face : Len(y.state[f]) <= Window
      <4> SUFFICES ASSUME m.kind = "stateful", NEW f \in Face PROVE Len(y.state[f]) <= Window
        OBVIOUS
      <4>1. m.state[f] \in Seq(Cell)
        BY <1>0, Numbers
      <4>2. Len(y.state[f]) = Smaller(Len(m.state[f]) + 1, Window)
        BY <1>11 DEF Extended
      <4> QED
        BY <1>9, <4>1, <4>2 DEF Smaller
    <3> QED
      BY <1>5, <1>10, <3>1 DEF Sized, Kept
  <2>2. m.kind = "plain" => \A f \in Face : y.state[f] = << >>
    <3>1. m.kind = "plain" => \A f \in Face : WithRow(m, f, c) = m.state[f]
      BY WithRowIs, Zenon
    <3> QED
      BY <1>0, <1>5, <3>1 DEF Standing
  <2>3. m.kind = "attention" => m.kvPos < Window
    BY <1>1 DEF EvalOk
  <2> QED
    BY <1>0, <1>5, <2>1, <2>2, <2>3 DEF Standing, Kept
<1>14. Paced'
  BY <1>0, <1>1, <1>6, Numbers DEF Paced
<1>15. Own'
  BY <1>0, <1>1 DEF Own, config
<1>16. Placed'
  <2>1. ASSUME m.kind = "attention", NEW f \in Face, NEW i \in 1..Window, y.state[f][i] # Blank
        PROVE  y.state[f][i][2] = i - 1
    <3>1. CASE i = m.pos + 1
      <4>1. y.state[f][i] = <<c, m.pos>>
        BY <1>10, <2>1, <3>1
      <4> QED
        BY <1>9, <3>1, <4>1
    <3>2. CASE i # m.pos + 1
      <4>1. y.state[f][i] = m.state[f][i]
        BY <1>10, <2>1, <3>2
      <4> QED
        BY <1>0, <2>1, <4>1 DEF Placed
    <3> QED
      BY <3>1, <3>2
  <2>2. ASSUME m.kind = "stateful", "eval" \notin faulty, m.kv => m.kvPos < Window,
               m.pos + 1 <= Window, NEW f \in Face
        PROVE  /\ Len(y.state[f]) = m.pos + 1
               /\ \A i \in 1..(m.pos + 1) : y.state[f][i] # Blank => y.state[f][i][2] = i - 1
    <3>1. /\ Len(m.state[f]) = m.pos
          /\ \A i \in 1..m.pos : m.state[f][i] # Blank => m.state[f][i][2] = i - 1
      BY <1>0, <1>7, <1>9, <2>2 DEF Placed
    <3>2. PICK row : RowOf(row, c, m.pos) /\ Extended(m.state[f], row, y.state[f])
      BY <1>11, <2>2
    <3>3. Len(y.state[f]) = m.pos + 1
      BY <1>9, <2>2, <3>1, <3>2 DEF Smaller, Extended
    <3>4. ASSUME NEW i \in 1..(m.pos + 1), y.state[f][i] # Blank PROVE y.state[f][i][2] = i - 1
      <4>1. y.state[f][i] = IF i <= m.pos THEN m.state[f][i] ELSE row
        BY <1>9, <2>2, <3>1, <3>2 DEF Extended
      <4>2. CASE i <= m.pos
        BY <1>9, <3>1, <3>4, <4>1, <4>2
      <4>3. CASE ~(i <= m.pos)
        BY <1>9, <2>2, <3>2, <4>1, <4>3 DEF RowOf
      <4> QED
        BY <4>2, <4>3
    <3> QED
      BY <3>3, <3>4
  <2>3. faulty' = faulty
    BY <1>1 DEF config
  <2> QED
    BY <1>5, <1>7, <2>1, <2>2, <2>3 DEF Placed, Kept
<1>17. Following'
  <2> SUFFICES ASSUME InStep
               PROVE  /\ RowsIn' = FedLen'
                      /\ m.kind = "attention" =>
                           \A f \in Face : \A i \in 1..FedLen' :
                             y.state[f][i] # Blank /\ y.state[f][i][1] = FedToken(i)'
                      /\ m.kind = "stateful" =>
                           \A f \in Face :
                             /\ Len(y.state[f]) = Smaller(FedLen', Window)
                             /\ \A i \in 1..Smaller(FedLen', Window) :
                                  /\ y.state[f][i] # Blank
                                  /\ y.state[f][i][1] =
                                       FedToken(FedLen - Smaller(FedLen, Window) + i)'
    BY <1>5, <1>7 DEF Following, Kept
  <2>1. m.pos = FedLen /\ FedLen' = FedLen + 1
    BY <1>0, <1>7 DEF Following
  <2>2. ASSUME m.kind = "attention", NEW f \in Face, NEW i \in 1..FedLen'
        PROVE  y.state[f][i] # Blank /\ y.state[f][i][1] = FedToken(i)'
    <3>1. i \in 1..Window
      BY <1>9, <1>10, <2>1, <2>2
    <3>2. CASE i = m.pos + 1
      <4>1. y.state[f][i] = <<c, m.pos>> /\ y.state[f][i] \in Row
        BY <1>10, <2>2, <3>1, <3>2
      <4>2. y.state[f][i][1] = c
        BY <4>1
      <4> QED
        BY <1>4, <2>1, <3>2, <4>1, <4>2, BlankAssumption
    <3>3. CASE i # m.pos + 1
      <4>1. y.state[f][i] = m.state[f][i]
        BY <1>10, <2>2, <3>1, <3>3
      <4>2. i \in 1..FedLen
        BY <1>9, <2>1, <3>3
      <4> QED
        BY <1>0, <1>8, <2>2, <4>1, <4>2 DEF Following
    <3> QED
      BY <3>2, <3>3
  <2>3. ASSUME m.kind = "stateful", NEW f \in Face
        PROVE  /\ Len(y.state[f]) = Smaller(FedLen', Window)
               /\ \A i \in 1..Smaller(FedLen', Window) :
                    /\ y.state[f][i] # Blank
                    /\ y.state[f][i][1] = FedToken(FedLen - Smaller(FedLen, Window) + i)'
    <3>1. PICK row : RowOf(row, c, m.pos) /\ Extended(m.state[f], row, y.state[f])
      BY <1>11, <2>3
    <3>2. row # Blank /\ row[1] = FedToken(FedLen)'
      BY <1>4, <3>1, BlankAssumption DEF RowOf
    <3>3. /\ Len(m.state[f]) = Smaller(FedLen, Window)
          /\ \A i \in 1..Smaller(FedLen, Window) :
               /\ m.state[f][i] # Blank
               /\ m.state[f][i][1] = FedToken(FedLen - Smaller(FedLen, Window) + i)
      BY <1>0, <2>3 DEF Following
    <3>4. CASE FedLen < Window
      <4>1. Smaller(FedLen, Window) = FedLen /\ Smaller(FedLen, Window)' = FedLen + 1
        BY <1>9, <2>1, <3>4 DEF Smaller
      <4>2. /\ Len(y.state[f]) = FedLen + 1
            /\ \A i \in 1..(FedLen + 1) :
                 y.state[f][i] = IF i <= FedLen THEN m.state[f][i] ELSE row
        BY <1>9, <2>1, <3>1, <3>3, <3>4, <4>1 DEF Extended, Smaller
      <4>3. ASSUME NEW i \in 1..(FedLen + 1)
            PROVE  y.state[f][i] # Blank /\ y.state[f][i][1] = FedToken(i)'
        <5>1. CASE i <= FedLen
          <6>1. y.state[f][i] = m.state[f][i] /\ i \in 1..FedLen
            BY <1>9, <4>2, <5>1
          <6>2. FedLen - FedLen + i = i
            BY <1>9
          <6> QED
            BY <1>8, <3>3, <4>1, <6>1, <6>2
        <5>2. CASE i = FedLen + 1
          BY <1>9, <2>1, <3>2, <4>2, <5>2
        <5> QED
          BY <1>9, <5>1, <5>2
      <4>4. \A i \in 1..(FedLen + 1) : (FedLen - Smaller(FedLen, Window) + i)' = i
        BY <1>9, <2>1, <4>1
      <4> QED
        BY <2>1, <4>1, <4>2, <4>3, <4>4
    <3>5. CASE FedLen >= Window
      <4>1. Smaller(FedLen, Window) = Window /\ Smaller(FedLen, Window)' = Window
        BY <1>9, <2>1, <3>5 DEF Smaller
      <4>2. /\ Len(y.state[f]) = Window
            /\ \A i \in 1..Window : y.state[f][i] = IF i < Window THEN m.state[f][i + 1] ELSE row
        BY <1>9, <3>1, <3>3, <4>1 DEF Extended, Smaller
      <4>3. ASSUME NEW i \in 1..Window
            PROVE  /\ y.state[f][i] # Blank
                   /\ y.state[f][i][1] = FedToken(FedLen - Window + i)'
        <5>1. CASE i < Window
          <6>1. y.state[f][i] = m.state[f][i + 1] /\ i + 1 \in 1..Window
            BY <1>9, <4>2, <5>1
          <6>2. m.state[f][i + 1] # Blank
                /\ m.state[f][i + 1][1] = FedToken(FedLen - Window + (i + 1))
            BY <3>3, <4>1, <6>1
          <6>3. FedLen - Window + (i + 1) \in 1..FedLen
            BY <1>9, <3>5, <5>1
          <6>4. FedLen - Window + (i + 1) = (FedLen - Window + i)'
            BY <1>9, <2>1
          <6> QED
            BY <1>8, <6>1, <6>2, <6>3, <6>4
        <5>2. CASE i = Window
          <6>1. (FedLen - Window + i)' = FedLen'
            BY <1>9, <2>1, <5>2
          <6> QED
            BY <1>9, <3>2, <4>2, <5>2, <6>1
        <5> QED
          BY <1>9, <5>1, <5>2
      <4> QED
        BY <2>1, <4>1, <4>2, <4>3
    <3> QED
      BY <1>9, <3>4, <3>5
  <2> QED
    BY <1>7, <2>1, <2>2, <2>3
<1>18. Metered'
  <2>1. k * Len(batches) \in Nat
    BY <1>0, Numbers
  <2>2. UNCHANGED <<k, text, batches>>
    BY <1>1 DEF config
  <2> QED
    BY <1>0, <1>5, <1>6, <1>7, <1>9, <2>1, <2>2, Numbers DEF Metered, Kept
<1> QED
  BY <1>12, <1>13, <1>14, <1>15, <1>16, <1>17, <1>18 DEF IInv

\* What a merged batch is: as many drafts as agree and a token of the verdict, all of
\* them the target's own.
LEMMA MergedIs ==
  ASSUME IInv, pc = "merging"
  PROVE  \E n \in 0..k :
           /\ Accepted(drafts, verdict) \in Seq(Token)
           /\ Len(Accepted(drafts, verdict)) = n + 1
           /\ \A i \in 1..n : Accepted(drafts, verdict)[i] = drafts[i]
           /\ \A i \in 1..(n + 1) : Accepted(drafts, verdict)[i] = script[Len(text) + i]
<1>0. TypeOK /\ Paced /\ Own
  BY DEF IInv
<1>1. /\ drafts \in Seq(Token) /\ Len(drafts) = k /\ verdict \in Seq(Token)
      /\ Len(verdict) = k + 1 /\ k \in Nat \ {0} /\ Len(text) \in Nat
  BY <1>0, Numbers DEF TypeOK, Paced, Own
<1>2. \E n \in 0..Len(drafts) :
        /\ \A j \in 1..n : drafts[j] = verdict[j]
        /\ Accepted(drafts, verdict) = Append(SubSeq(drafts, 1, n), verdict[n + 1])
  BY <1>1, AcceptedIs
<1>3. PICK n \in 0..k :
        /\ \A j \in 1..n : drafts[j] = verdict[j]
        /\ Accepted(drafts, verdict) = Append(SubSeq(drafts, 1, n), verdict[n + 1])
  BY <1>1, <1>2
<1> DEFINE added == Accepted(drafts, verdict)
<1>4. /\ SubSeq(drafts, 1, n) \in Seq(Token) /\ Len(SubSeq(drafts, 1, n)) = n
      /\ \A i \in 1..n : SubSeq(drafts, 1, n)[i] = drafts[i]
      /\ verdict[n + 1] \in Token
  BY <1>1
<1>5. /\ added \in Seq(Token) /\ Len(added) = n + 1 /\ added[n + 1] = verdict[n + 1]
      /\ \A i \in 1..n : added[i] = drafts[i]
  BY <1>3, <1>4
<1>6. \A i \in 1..(n + 1) : added[i] = verdict[i]
  BY <1>1, <1>3, <1>5
<1> DEFINE wrong == {i \in 1..(n + 1) : verdict[i] # script[Len(text) + i]}
<1>7. wrong = {}
  <2> SUFFICES ASSUME wrong # {} PROVE FALSE
    OBVIOUS
  <2>1. wrong \subseteq Nat
    BY <1>1
  <2>2. PICK i \in wrong : \A j \in wrong : i <= j
    <3> HIDE DEF wrong
    <3> QED
      BY <2>1, Least
  <2>3. \A j \in 1..(i - 1) : verdict[j] = script[Len(text) + j] /\ drafts[j] = verdict[j]
    <3> SUFFICES ASSUME NEW j \in 1..(i - 1)
                 PROVE  verdict[j] = script[Len(text) + j] /\ drafts[j] = verdict[j]
      OBVIOUS
    <3>1. j \in 1..n /\ j < i
      BY <1>1, <2>2
    <3>2. j \notin wrong
      BY <1>1, <2>2, <3>1
    <3> QED
      BY <1>1, <1>3, <3>1, <3>2
  <2>4. OwnSoFar(i)
    BY <2>3 DEF OwnSoFar
  <2>5. i \in 1..(k + 1)
    BY <1>1, <2>2
  <2>6. verdict[i] = script[Len(text) + i]
    BY <1>0, <2>4, <2>5 DEF Own
  <2> QED
    BY <2>2, <2>6
<1> QED
  BY <1>5, <1>6, <1>7

\* The step returns its tokens and the caller appends them.
LEMMA MergeKeeps ==
  ASSUME IInv, Merge
  PROVE  IInv'
<1>0. TypeOK /\ Standing /\ Paced /\ Own /\ Placed /\ Following /\ Metered
  BY DEF IInv
<1> DEFINE added == Accepted(drafts, verdict)
<1>1. /\ pc = "merging" /\ pc' = "idle" /\ text' = text \o added
      /\ batches' = Append(batches, Len(added)) /\ drafts' = << >> /\ verdict' = << >>
      /\ UNCHANGED <<config, m, failures>>
  BY DEF Merge
<1>2. PICK n \in 0..k :
        /\ added \in Seq(Token) /\ Len(added) = n + 1
        /\ \A i \in 1..n : added[i] = drafts[i]
        /\ \A i \in 1..(n + 1) : added[i] = script[Len(text) + i]
  BY <1>1, MergedIs
<1> HIDE DEF added
<1>3. /\ k \in Nat \ {0} /\ Window \in Nat \ {0} /\ Horizon \in Nat /\ Len(text) \in Nat \ {0}
      /\ Len(drafts) = k /\ Len(batches) \in Nat /\ m.pos \in Nat /\ n \in Nat
      /\ text \in Seq(Token) /\ batches \in Seq(Nat) /\ drafts \in Seq(Token)
  BY <1>0, <1>1, Numbers DEF Paced, TypeOK
<1>4. /\ text' \in Seq(Token) /\ Len(text') = Len(text) + n + 1
      /\ \A i \in 1..Len(text) : text'[i] = text[i]
      /\ \A i \in 1..(n + 1) : text'[Len(text) + i] = added[i]
  <2>1. /\ text \o added \in Seq(Token) /\ Len(text \o added) = Len(text) + (n + 1)
        /\ \A i \in 1..(Len(text) + (n + 1)) :
             (text \o added)[i] = IF i <= Len(text) THEN text[i] ELSE added[i - Len(text)]
    <3>1. text \in Seq(Token) /\ added \in Seq(Token) /\ Len(added) = n + 1
      BY <1>2, <1>3
    <3>2. /\ text \o added \in Seq(Token) /\ Len(text \o added) = Len(text) + Len(added)
          /\ \A i \in 1..(Len(text) + Len(added)) :
               (text \o added)[i] = IF i <= Len(text) THEN text[i] ELSE added[i - Len(text)]
      BY <3>1, ConcatProperties, Zenon
    <3> QED
      BY <3>1, <3>2
  <2>2. \A i \in 1..(n + 1) : (text \o added)[Len(text) + i] = added[i]
    <3> SUFFICES ASSUME NEW i \in 1..(n + 1) PROVE (text \o added)[Len(text) + i] = added[i]
      OBVIOUS
    <3>1. /\ Len(text) + i \in 1..(Len(text) + (n + 1)) /\ ~(Len(text) + i <= Len(text))
          /\ (Len(text) + i) - Len(text) = i
      BY <1>3
    <3> QED
      BY <2>1, <3>1
  <2>3. \A i \in 1..Len(text) : (text \o added)[i] = text[i]
    BY <1>3, <2>1
  <2> QED
    BY <1>1, <1>3, <2>1, <2>2, <2>3
<1>5. /\ batches' \in Seq(Nat) /\ Len(batches') = Len(batches) + 1
      /\ batches'[Len(batches) + 1] = n + 1
      /\ \A i \in 1..Len(batches) : batches'[i] = batches[i]
  BY <1>1, <1>2, <1>3
<1>6. TypeOK'
  BY <1>0, <1>1, <1>3, <1>4, <1>5 DEF TypeOK, config
<1>7. Standing'
  BY <1>0, <1>1 DEF Standing
<1>8. Paced'
  BY <1>1 DEF Paced
<1>9. Own'
  <2>1. Len(text') <= Horizon
    BY <1>0, <1>1, <1>3, <1>4 DEF Own
  <2>2. \A i \in 1..Len(text') : text'[i] = script[i]
    <3> SUFFICES ASSUME NEW i \in 1..Len(text') PROVE text'[i] = script[i]
      OBVIOUS
    <3>1. CASE i <= Len(text)
      BY <1>0, <1>3, <1>4, <3>1 DEF Own
    <3>2. CASE i > Len(text)
      <4>1. i - Len(text) \in 1..(n + 1) /\ Len(text) + (i - Len(text)) = i
        BY <1>3, <1>4, <3>2
      <4> QED
        BY <1>2, <1>4, <4>1
    <3> QED
      BY <1>3, <1>4, <3>1, <3>2
  <2> QED
    BY <1>1, <2>1, <2>2 DEF Own, config
<1>10. RowsIn' = RowsIn /\ RowsIn = m.pos
  BY <1>1 DEF RowsIn
<1>11. Placed'
  BY <1>0, <1>1, <1>10 DEF Placed, config
<1>12. Following'
  <2> SUFFICES ASSUME InStep' PROVE Following'
    BY DEF Following
  <2>1. InStep /\ n + 1 = k
    <3>1. \A i \in 1..(Len(batches) + 1) : batches'[i] = k
      <4>1. DOMAIN batches' = 1..(Len(batches) + 1)
        BY <1>3, <1>5
      <4>2. \A i \in DOMAIN batches' : batches'[i] = k'
        BY DEF InStep
      <4> QED
        BY <1>1, <4>1, <4>2 DEF config
    <3>2. \A i \in 1..Len(batches) : batches[i] = k
      BY <1>3, <1>5, <3>1
    <3> QED
      BY <1>1, <1>3, <1>5, <3>1, <3>2 DEF InStep, config
  <2>2. FedLen' = FedLen
    <3>1. Len(drafts') = 0
      BY <1>1
    <3>2. Len(text') = Len(text) + k
      <4>1. Len(text') = Len(text) + n + 1 /\ n + 1 = k
        BY <1>4, <2>1
      <4>2. Len(text) \in Nat /\ n \in Nat /\ k \in Nat
        BY <1>3
      <4> QED
        BY <4>1, <4>2
    <3> QED
      BY <1>3, <3>1, <3>2 DEF FedLen
  <2>3. \A i \in 1..FedLen : FedToken(i)' = FedToken(i)
    <3> SUFFICES ASSUME NEW i \in 1..FedLen PROVE FedToken(i)' = FedToken(i)
      OBVIOUS
    <3>1. CASE i <= Len(text)
      BY <1>3, <1>4, <3>1 DEF FedToken
    <3>2. CASE i > Len(text)
      <4>1. i - Len(text) \in 1..n /\ Len(text) + (i - Len(text)) = i /\ i <= Len(text')
        BY <1>3, <1>4, <2>1, <3>2 DEF FedLen
      <4>2. FedToken(i)' = text'[i]
        BY <4>1 DEF FedToken
      <4>3. FedToken(i) = drafts[i - Len(text)]
        BY <1>3, <3>2 DEF FedToken
      <4>4. text'[Len(text) + (i - Len(text))] = added[i - Len(text)]
        BY <1>3, <1>4, <4>1
      <4> QED
        BY <1>2, <4>1, <4>2, <4>3, <4>4
    <3> QED
      BY <1>3, <3>1, <3>2 DEF FedLen
  <2>4. FedLen \in Nat
    BY <1>3 DEF FedLen
  <2>5. \A i \in 1..Smaller(FedLen, Window) :
          FedLen - Smaller(FedLen, Window) + i \in 1..FedLen
    BY <1>3, <2>4 DEF Smaller
  <2>6. m' = m
    BY <1>1
  <2>7. \A i \in 1..Smaller(FedLen, Window) :
          FedToken(FedLen - Smaller(FedLen, Window) + i)' =
            FedToken(FedLen - Smaller(FedLen, Window) + i)
    BY <2>2, <2>3, <2>5
  <2> QED
    BY <1>0, <1>10, <2>1, <2>2, <2>3, <2>6, <2>7 DEF Following
<1>13. Metered'
  <2>1. Len(text') - 1 <= (k + 1) * Len(batches')
    <3>1. (k + 1) * (Len(batches) + 1) = (k + 1) * Len(batches) + (k + 1)
      BY <1>3
    <3>2. (k + 1) * Len(batches) \in Nat
      BY <1>3
    <3>3. Len(text') - 1 = (Len(text) - 1) + (n + 1)
      BY <1>3, <1>4
    <3>4. Len(text) - 1 <= (k + 1) * Len(batches) /\ Len(batches') = Len(batches) + 1
      BY <1>0, <1>5 DEF Metered
    <3> QED
      BY <1>3, <3>1, <3>2, <3>3, <3>4
  <2>2. m.kv => k * Len(batches') + Len(drafts') <= RowsIn'
    <3>1. k * (Len(batches) + 1) = k * Len(batches) + k /\ k * Len(batches) \in Nat
      BY <1>3
    <3>2. m.kv => k * Len(batches) + k <= m.pos
      BY <1>0, <1>3, <1>10 DEF Metered
    <3>3. Len(batches') = Len(batches) + 1 /\ Len(drafts') = 0 /\ RowsIn' = m.pos
      BY <1>1, <1>5, <1>10
    <3> QED
      BY <1>3, <3>1, <3>2, <3>3
  <2> QED
    BY <1>1, <2>1, <2>2 DEF Metered, config
<1> QED
  BY <1>6, <1>7, <1>8, <1>9, <1>11, <1>12, <1>13 DEF IInv

\* Every step preserves the invariant.
LEMMA NextKeeps ==
  IInv /\ [Next]_vars => IInv'
BY BeginKeeps, EvalKeeps, EvalFailsKeeps, AdvanceKeeps, AdvanceFailsKeeps, VerifyKeeps,
   VerifyFailsKeeps, MergeKeeps, StutterKeeps DEF Next, Finished

\* The invariant holds of every reachable state.
LEMMA Invariance ==
  Spec => []IInv
BY Initially, NextKeeps, PTL DEF Spec

-----------------------------------------------------------------------------
\* The types of draft_model_darwin.go's SpeculativeDecoder and its draft model, and how
\* far a step is at each of its places.
THEOREM TypeCorrect ==
  Spec => [](TypeOK /\ Standing /\ Paced)
BY Invariance, PTL DEF IInv

\* A window on the host's side ends the text.
LEMMA WindowBounds ==
  IInv => WindowEndsText
<1> SUFFICES ASSUME IInv, m.kv PROVE Len(text) - 1 <= (Window \div k) * (k + 1)
  BY DEF WindowEndsText
<1>0. TypeOK /\ Standing /\ Paced /\ Metered
  BY DEF IInv
<1> DEFINE n == Len(batches)
<1>1. n \in Nat /\ k \in Nat \ {0} /\ Window \in Nat /\ Len(text) \in Nat /\ m.pos \in Nat
      /\ Len(drafts) \in Nat
  BY <1>0, Numbers
<1>2. m.pos <= Window /\ k * n + Len(drafts) <= RowsIn /\ Len(text) - 1 <= (k + 1) * n
  BY <1>0 DEF Standing, Metered
<1>3. k * n \in Nat /\ (k + 1) * n \in Nat /\ k + 1 \in Nat
  BY <1>1
<1>4. k * n <= m.pos
  BY <1>0, <1>1, <1>2, <1>3 DEF RowsIn, Paced
<1> HIDE DEF n
<1>5. k * n <= Window
  BY <1>1, <1>2, <1>3, <1>4
<1>6. n <= Window \div k /\ Window \div k \in Nat
  BY <1>1, <1>5, Fits
<1>7. (k + 1) * n <= (k + 1) * (Window \div k)
  BY <1>1, <1>3, <1>6, Monotone
<1> DEFINE q == Window \div k
<1>8. q \in Nat /\ (k + 1) * n <= (k + 1) * q
  BY <1>6, <1>7
<1> HIDE DEF q
<1>9. (k + 1) * q = q * (k + 1) /\ q * (k + 1) \in Nat
  BY <1>1, <1>8
<1> QED
  BY <1>1, <1>2, <1>3, <1>8, <1>9 DEF q

\* SpeculativeDecoder.Step with a window on the host's side: every completed step keeps
\* k of its rows for good, so the text ends after (k + 1) tokens for every k rows, for
\* every window and every k.
THEOREM WindowEnds ==
  Spec => []WindowEndsText
BY Invariance, WindowBounds, PTL

\* The rows an attention model looks at are the places before its position; those of a
\* stateful model are all it has.
LEMMA RowsAreRotated ==
  IInv => RowsRotated
<1> SUFFICES ASSUME IInv,
                    \/ m.kind = "attention"
                    \/ "eval" \notin faulty /\ pc # "evaluated" /\ (m.kv => m.kvPos < Window),
                    m.pos <= Window, NEW f \in Face, NEW i \in DOMAIN Visible(m, f),
                    Visible(m, f)[i] # Blank
             PROVE  Visible(m, f)[i][2] = m.pos - Len(Visible(m, f)) + i - 1
  BY DEF RowsRotated, RotatedByPosition
<1>0. TypeOK /\ Standing /\ Placed
  BY DEF IInv
<1>1. m.pos \in Nat /\ Window \in Nat /\ m.state[f] \in Seq(Cell) /\ m.kind \in Kind
  BY <1>0, Numbers
<1>2. CASE m.kind = "attention"
  <2>1. Visible(m, f) = SubSeq(m.state[f], 1, m.pos)
    BY <1>1, <1>2 DEF Visible, Smaller
  <2>2. Len(m.state[f]) = Window
    BY <1>0, <1>2 DEF Standing, Sized
  <2>3. /\ Len(SubSeq(m.state[f], 1, m.pos)) = m.pos
        /\ DOMAIN SubSeq(m.state[f], 1, m.pos) = 1..m.pos
        /\ \A j \in 1..m.pos : SubSeq(m.state[f], 1, m.pos)[j] = m.state[f][j]
    BY <1>1, <2>2
  <2>4. i \in 1..m.pos /\ i \in 1..Window /\ m.state[f][i] # Blank
    BY <1>1, <2>1, <2>3
  <2>5. m.state[f][i][2] = i - 1
    BY <1>0, <1>2, <2>4 DEF Placed
  <2> QED
    BY <1>1, <2>1, <2>3, <2>4, <2>5
<1>3. CASE m.kind = "stateful"
  <2>1. Visible(m, f) = m.state[f]
    BY <1>3 DEF Visible
  <2>2. RowsIn = m.pos
    BY <1>3 DEF RowsIn
  <2>3. /\ Len(m.state[f]) = m.pos
        /\ \A j \in 1..m.pos : m.state[f][j] # Blank => m.state[f][j][2] = j - 1
    BY <1>0, <1>3, <2>2 DEF Placed
  <2>4. i \in 1..m.pos
    BY <1>1, <2>1, <2>3
  <2>5. m.state[f][i][2] = i - 1
    BY <2>1, <2>3, <2>4
  <2> QED
    BY <1>1, <2>1, <2>3, <2>4, <2>5
<1>4. CASE m.kind = "plain"
  BY <1>0, <1>4 DEF Visible, Standing
<1> QED
  BY <1>1, <1>2, <1>3, <1>4

\* currentRoPESliceLocked, WriteLayerKV and advanceDecodePositionLocked: an attention
\* model never looks at a row that another position has rotated, also after evaluations
\* that wrote a K row and no V row; a stateful model neither, as long as no evaluation
\* has failed after its program had the row.
THEOREM Rotated ==
  Spec => []RowsRotated
BY Invariance, RowsAreRotated, PTL

\* Between two steps the rows are those of the text without its last token.
LEMMA InStepInContext ==
  IInv => LockstepContext
<1> DEFINE past == SubSeq(text, 1, Len(text) - 1)
<1> SUFFICES ASSUME IInv, pc = "idle", InStep PROVE HasContext(m, past)
  BY DEF LockstepContext, InStep
<1>0. TypeOK /\ Standing /\ Paced /\ Following
  BY DEF IInv
<1>1. /\ m.pos \in Nat /\ Window \in Nat \ {0} /\ m.kind \in Kind /\ text \in Seq(Token)
      /\ Len(text) \in Nat \ {0} /\ \A f \in Face : m.state[f] \in Seq(Cell)
  BY <1>0, Numbers DEF TypeOK
<1>2. FedLen = Len(text) - 1 /\ m.pos = FedLen
  BY <1>0, <1>1 DEF FedLen, RowsIn, Paced, Following
<1>3. /\ past \in Seq(Token) /\ Len(past) = FedLen
      /\ \A i \in 1..FedLen : past[i] = text[i] /\ FedToken(i) = text[i]
  BY <1>1, <1>2 DEF FedToken
<1> HIDE DEF past
<1>4. ASSUME m.kind = "attention", NEW f \in Face PROVE Context(m, f) = LastOf(past)
  <2>1. FedLen <= Window /\ Len(m.state[f]) = Window
    BY <1>0, <1>2, <1>4 DEF Standing, Sized
  <2>2. Visible(m, f) = SubSeq(m.state[f], 1, FedLen)
    BY <1>1, <1>2, <1>4, <2>1 DEF Visible, Smaller
  <2>3. /\ Len(Visible(m, f)) = FedLen
        /\ \A i \in 1..FedLen : Visible(m, f)[i] = m.state[f][i]
    BY <1>1, <1>2, <2>1, <2>2
  <2>4. \A i \in 1..FedLen : TokenOf(Visible(m, f)[i]) = past[i]
    BY <1>0, <1>3, <1>4, <2>3 DEF Following, TokenOf
  <2>5. LastOf(past) = SubSeq(past, 1, FedLen)
    BY <1>1, <1>2, <1>3, <2>1 DEF LastOf, Larger
  <2>6. SubSeq(past, 1, FedLen) = past
    BY <1>3
  <2>7. Context(m, f) = [i \in 1..FedLen |-> past[i]]
    BY <2>3, <2>4 DEF Context
  <2>8. past = [i \in 1..FedLen |-> past[i]]
    BY <1>3
  <2> QED
    BY <2>5, <2>6, <2>7, <2>8
<1>5. ASSUME m.kind = "stateful", NEW f \in Face PROVE Context(m, f) = LastOf(past)
  <2> DEFINE size == Smaller(FedLen, Window)
  <2>1. /\ size \in Nat /\ FedLen \in Nat /\ size <= FedLen
        /\ Larger(FedLen - Window, 0) = FedLen - size
    <3>1. FedLen \in Nat
      BY <1>1, <1>2
    <3> QED
      BY <1>1, <3>1 DEF Smaller, Larger
  <2>2. /\ Len(m.state[f]) = size
        /\ \A i \in 1..size :
             m.state[f][i] # Blank /\ m.state[f][i][1] = FedToken(FedLen - size + i)
    BY <1>0, <1>5 DEF Following
  <2>3. Visible(m, f) = m.state[f]
    BY <1>5 DEF Visible
  <2> HIDE DEF size
  <2>4. \A i \in 1..size : TokenOf(Visible(m, f)[i]) = past[FedLen - size + i]
    <3> SUFFICES ASSUME NEW i \in 1..size
                 PROVE  TokenOf(Visible(m, f)[i]) = past[FedLen - size + i]
      OBVIOUS
    <3>1. FedLen - size + i \in 1..FedLen
      BY <2>1
    <3> QED
      BY <1>3, <2>2, <2>3, <3>1 DEF TokenOf
  <2>5. Context(m, f) = [i \in 1..size |-> past[FedLen - size + i]]
    BY <2>2, <2>3, <2>4 DEF Context
  <2>6. LastOf(past) = SubSeq(past, FedLen - size + 1, FedLen)
    BY <1>3, <2>1 DEF LastOf
  <2>7. SubSeq(past, FedLen - size + 1, FedLen) =
          [i \in 1..size |-> past[(FedLen - size + 1) + i - 1]]
    BY <1>3, <2>1
  <2>8. \A i \in 1..size : (FedLen - size + 1) + i - 1 = FedLen - size + i
    BY <2>1
  <2> QED
    BY <2>5, <2>6, <2>7, <2>8
<1> QED
  BY <1>1, <1>2, <1>3, <1>4, <1>5 DEF HasContext

\* SpeculativeDecoder.Step without a rewind: while every step has added k tokens, the
\* draft model has the text before the input as its context, for every window and every k.
THEOREM Lockstep ==
  Spec => []LockstepContext
BY Invariance, InStepInContext, PTL

\* A step of the decoder is a step of the target, or none.
LEMMA StepsAreTargets ==
  ASSUME IInv, [Next]_vars
  PROVE  [Target!Step]_<<script, k, text>>
<1>0. TypeOK /\ Own
  BY DEF IInv
<1>1. CASE Merge
  <2> DEFINE added == Accepted(drafts, verdict)
  <2>1. pc = "merging" /\ text' = text \o added /\ UNCHANGED <<script, k>>
    BY <1>1 DEF Merge, config
  <2>2. PICK n \in 0..k :
          /\ added \in Seq(Token) /\ Len(added) = n + 1
          /\ \A i \in 1..(n + 1) : added[i] = script[Len(text) + i]
    BY <2>1, MergedIs
  <2>3. IInv'
    BY NextKeeps
  <2>4. TypeOK' /\ Own'
    BY <2>3 DEF IInv
  <2>5. Len(text') = Len(text) + (n + 1)
    <3>1. text \in Seq(Token) /\ added \in Seq(Token)
      BY <1>0, <2>2 DEF TypeOK
    <3> HIDE DEF added
    <3>2. Len(text \o added) = Len(text) + Len(added)
      BY <3>1, ConcatProperties, Zenon
    <3> QED
      BY <2>1, <2>2, <3>2
  <2>6. /\ Len(text') <= Horizon /\ \A i \in 1..Len(text') : text'[i] = script[i]
    BY <2>1, <2>4 DEF Own
  <2>7. script \in Seq(Token) /\ Len(script) = Horizon
    BY <1>0, SpecDecodeAssumption DEF TypeOK
  <2>8. text' \in Seq(Token) /\ Len(text') \in Nat
    BY <2>4 DEF TypeOK
  <2>9. text' = SubSeq(script, 1, Len(text'))
    BY <2>6, <2>7, <2>8
  <2>10. n + 1 \in 1..(k + 1)
    BY <1>0, Numbers
  <2> QED
    BY <2>1, <2>5, <2>6, <2>7, <2>9, <2>10 DEF Target!Step
<1>2. CASE ~Merge
  <2>1. UNCHANGED <<script, k, text>>
    BY <1>2 DEF Next, vars, config, Begin, EvalDraft, EvalDraftFails, AdvanceDraft,
      AdvanceDraftFails, VerifyBatch, VerifyFails, Fail, Finished
  <2> QED
    BY <2>1
<1> QED
  BY <1>1, <1>2

\* The decoder starts where the target does.
LEMMA StartIsTargets ==
  Init => Target!Init
<1> SUFFICES ASSUME Init PROVE Target!Init
  OBVIOUS
<1>1. script \in Seq(Token) /\ Len(script) = Horizon /\ Horizon \in Nat \ {0}
  BY SpecDecodeAssumption DEF Init
<1>2. SubSeq(script, 1, 1) = <<script[1]>>
  <2> DEFINE first == SubSeq(script, 1, 1)
             only == <<script[1]>>
  <2>1. first \in Seq(Token) /\ Len(first) = 1 /\ first[1] = script[1]
    BY <1>1
  <2>2. only \in Seq(Token) /\ Len(only) = 1 /\ only[1] = script[1]
    BY <1>1
  <2> HIDE DEF first, only
  <2>3. first = only
    BY <2>1, <2>2, SeqEqual
  <2> QED
    BY <2>3 DEF first, only
<1> QED
  BY <1>1, <1>2 DEF Init, Target!Init

\* mergeDraftWithTargetGreedy and SpeculativeDecoder.Step implement greedy decoding with
\* the target alone: whatever the draft model predicts and whichever calls fail, every
\* step extends the target's own text by one to k + 1 of its tokens.
THEOREM WritesTarget ==
  Spec => WritesTargetText
<1>1. Init => Target!Init
  BY StartIsTargets
<1>2. IInv /\ [Next]_vars => [Target!Step]_<<script, k, text>>
  BY StepsAreTargets
<1> QED
  BY <1>1, <1>2, Invariance, PTL DEF Spec, WritesTargetText, Target!Spec
=============================================================================
