----------------------------- MODULE DraftModel -----------------------------
(***************************************************************************)
(* The ANE draft model and its decode state as a value                     *)
(* (draft_model_darwin.go ANEDraftModel, draft_kv_state_darwin.go).  A     *)
(* module that uses a draft model has one of these records in a variable.  *)
(* A model comes in three kinds:                                           *)
(*   attention  K/V surfaces on the host's side, written row by row after  *)
(*              every evaluation and read through a mask;                  *)
(*   stateful   K/V rows in state surfaces the program itself appends to;  *)
(*   plain      no memory at all.                                          *)
(* For every call there is the condition under which the code refuses it,  *)
(* the model after a call that succeeds, and the set of models a failing   *)
(* call may leave behind.                                                  *)
(*                                                                         *)
(* A row is the token it was computed from and the row of the RoPE table   *)
(* that rotated it.                                                        *)
(***************************************************************************)
EXTENDS Integers, Sequences

CONSTANTS
  Token,   \* the vocabulary
  Window,  \* maxSeqLen: rows of a K/V surface, and of the RoPE table
  Blank    \* a row of zeros

ASSUME WindowAssumption == Window \in Nat \ {0}

Kind == {"attention", "stateful", "plain"}
Face == {"K", "V"}  \* a K surface and a V surface per layer
Row == Token \X (0..(Window - 1))
Cell == Row \cup {Blank}

ASSUME BlankAssumption == Blank \notin Row

Model == [kind : Kind, kv : BOOLEAN, state : [Face -> Seq(Cell)],
          pos : Nat, kvPos : Nat, closed : BOOLEAN]

Smaller(a, b) == IF a < b THEN a ELSE b
Larger(a, b) == IF a > b THEN a ELSE b

-----------------------------------------------------------------------------
\* State surfaces of a new program, K/V surfaces of a new DraftKVSurfaceState.
NewState(kind) ==
  [f \in Face |-> IF kind = "attention" THEN [i \in 1..Window |-> Blank] ELSE << >>]

\* A model as it is opened; an attention model always has host K/V surfaces, a plain
\* one has them if ConfigureKVState was called.
Opened(kind, kv) ==
  [kind |-> kind, kv |-> kv, state |-> NewState(kind), pos |-> 0, kvPos |-> 0,
   closed |-> FALSE]

\* Mutant of RoPERow: the row of the next position.
RoPERowAhead(pos) == IF pos + 1 >= Window THEN Window - 1 ELSE pos + 1

\* currentRoPESliceLocked: a position past the table gets its last row.
RoPERow(pos) == IF pos >= Window THEN Window - 1 ELSE pos

\* The program appends a row to its state and keeps the last Window rows.
Append1(rows, row) ==
  IF Len(rows) < Window THEN Append(rows, row) ELSE Append(Tail(rows), row)

\* WriteLayerKV writes at the position of the K/V state; a program with state
\* surfaces appends to them.
WithRow(m, f, t) ==
  CASE m.kind = "attention" -> [m.state[f] EXCEPT ![m.kvPos + 1] = <<t, RoPERow(m.pos)>>]
    [] m.kind = "stateful"  -> Append1(m.state[f], <<t, RoPERow(m.pos)>>)
    [] m.kind = "plain"     -> m.state[f]

\* writeCurrentAttentionMaskLocked: the rows the next token attends to, apart from its
\* own.
Visible(m, f) ==
  IF m.kind = "attention" THEN SubSeq(m.state[f], 1, Smaller(m.pos, Window))
  ELSE m.state[f]

-----------------------------------------------------------------------------
\* EvalToken. An attention model whose window is full has nowhere to write its row.
EvalOk(m) == ~m.closed /\ (m.kind = "attention" => m.kvPos < Window)

AfterEval(m, t) == [m EXCEPT !.state = [f \in Face |-> WithRow(m, f, t)]]

\* The evaluation fails, or what follows it does: the V row after the K row, the read
\* of the output after the program has extended its state.
AfterFailedEval(m, t) ==
  IF ~EvalOk(m) THEN {m}
  ELSE {m, IF m.kind = "attention" THEN [m EXCEPT !.state["K"] = WithRow(m, "K", t)]
           ELSE AfterEval(m, t)}

\* Mutant of AdvanceOk: one row past the last surface row.
AdvancePastEnd(m) == ~m.closed /\ (m.kv => m.kvPos <= Window)

\* advanceDecodePositionLocked: kvState.Advance, then decodePos++.
AdvanceOk(m) == ~m.closed /\ (m.kv => m.kvPos < Window)

AfterAdvance(m) == [m EXCEPT !.pos = @ + 1, !.kvPos = IF m.kv THEN @ + 1 ELSE @]

\* DraftKVSurfaceState.Rewind: the rows of the last n positions are zeroed.
ZeroedLast(m, f, n) ==
  IF m.kind # "attention" THEN m.state[f]
  ELSE [i \in 1..Window |-> IF i > m.kvPos - n /\ i <= m.kvPos THEN Blank ELSE m.state[f][i]]

\* RewindDecodePosition of n > 0 positions; it stops at zero.
RewindOk(m) == ~m.closed /\ m.kind # "stateful"

AfterRewind(m, n) ==
  [m EXCEPT !.state = [f \in Face |-> ZeroedLast(m, f, n)],
            !.kvPos = Larger(@ - n, 0),
            !.pos = Larger(@ - n, 0)]

\* Some surfaces are cleared, the position is not moved.
AfterFailedRewind(m, n) ==
  IF ~RewindOk(m) THEN {m}
  ELSE IF ~m.kv THEN {}
  ELSE {m, [m EXCEPT !.state["K"] = ZeroedLast(m, "K", n)]}

\* resetStatefulMILLocked builds the program anew; kvState.Reset clears the rows in use.
ResetOk(m) == ~m.closed

AfterReset(m) ==
  [m EXCEPT !.state = IF m.kind = "stateful" THEN NewState("stateful")
                      ELSE [f \in Face |-> ZeroedLast(m, f, m.kvPos)],
            !.kvPos = 0,
            !.pos = 0]

\* A program that cannot be rebuilt leaves the old one in place. Where kvState.Reset
\* fails, decodePos is zero already and the position of the K/V state is not.
AfterFailedReset(m) ==
  IF ~ResetOk(m) \/ m.kind = "stateful" THEN {m}
  ELSE IF ~m.kv THEN {}
  ELSE {[m EXCEPT !.pos = 0],
        [m EXCEPT !.pos = 0, !.state["K"] = ZeroedLast(m, "K", m.kvPos)]}

-----------------------------------------------------------------------------
\* SnapshotDecodeState copies position and state surfaces; only a stateful model has one.
Snapshot == [pos : Nat, state : [Face -> Seq(Cell)]]
SnapshotOk(m) == ~m.closed /\ m.kind = "stateful"
SnapshotOf(m) == [pos |-> m.pos, state |-> m.state]

\* RestoreDecodeState writes surface after surface and the position last.
AfterRestore(m, snap) == [m EXCEPT !.state = snap.state, !.pos = snap.pos]

AfterFailedRestore(m, snap) ==
  IF ~SnapshotOk(m) THEN {m} ELSE {m, [m EXCEPT !.state["K"] = snap.state["K"]]}

-----------------------------------------------------------------------------
\* The tokens of a sequence of rows; a blank row has none.
TokenOf(row) == IF row = Blank THEN Blank ELSE row[1]
Context(m, f) == [i \in 1..Len(Visible(m, f)) |-> TokenOf(Visible(m, f)[i])]

\* The last Window tokens of a text.
LastOf(text) == SubSeq(text, Larger(Len(text) - Window, 0) + 1, Len(text))

\* The model has seen exactly this text, on every surface.
HasContext(m, text) ==
  /\ m.pos = Len(text)
  /\ m.kind # "plain" => \A f \in Face : Context(m, f) = LastOf(text)

\* As long as the table has a row for every position, each visible row is rotated by
\* the position its token has.
RotatedByPosition(m) ==
  m.pos <= Window =>
    \A f \in Face : \A i \in DOMAIN Visible(m, f) :
      Visible(m, f)[i] # Blank =>
        Visible(m, f)[i][2] = m.pos - Len(Visible(m, f)) + i - 1
=============================================================================
