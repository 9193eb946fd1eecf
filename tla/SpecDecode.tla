----------------------------- MODULE SpecDecode -----------------------------
(***************************************************************************)
(* Speculative decoding with an ANE draft model (draft_model_darwin.go     *)
(* SpeculativeDecoder.Step).  A step drafts k tokens, has the target       *)
(* verify the input and the drafts in one batch, and returns the drafts    *)
(* the target agrees with and one token of the target.  The caller appends *)
(* them to the text and gives the last one to the next step.               *)
(*                                                                         *)
(* The target is an interface (TargetModel): with the text so far and the  *)
(* tokens of the batch before it, it has one greedy token per place.  The  *)
(* draft model may predict anything.                                       *)
(***************************************************************************)
EXTENDS DraftModel

CONSTANTS
  Widths,     \* the values of k
  Setups,     \* the models a decoder may be given: pairs of kind and kv
  FaultSets,  \* the sets of calls that may fail in a behaviour
  Horizon,    \* bound: tokens of the target's text
  MaxFailures \* bound: steps that fail

Fault == {"eval", "verify"}

ASSUME SpecDecodeAssumption ==
  /\ Widths \subseteq Nat \ {0}
  /\ Setups \subseteq {s \in Kind \X BOOLEAN : s[1] = "attention" => s[2]}
  /\ FaultSets \subseteq SUBSET Fault
  /\ Horizon \in Nat \ {0}
  /\ MaxFailures \in Nat

VARIABLES
  faulty,   \* the calls that may fail
  script,   \* the target's text
  k,        \* SpeculativeDecoder.k
  m,        \* the draft model
  text,     \* the text so far; its last token is the next input
  drafts,   \* draftTokenIDs of the step
  verdict,  \* the target's greedy token at every place of the batch
  pc,       \* where the step is
  batches,  \* auxiliary: how many tokens each completed step has added
  failures  \* auxiliary: how many steps have failed

config == <<faulty, script, k>>
vars == <<config, m, text, drafts, verdict, pc, batches, failures>>

TypeOK ==
  /\ faulty \in FaultSets
  /\ script \in [1..Horizon -> Token]
  /\ k \in Widths
  /\ m \in Model
  /\ text \in Seq(Token) /\ text # << >>
  /\ drafts \in Seq(Token) /\ Len(drafts) <= k
  /\ verdict \in Seq(Token)
  /\ pc \in {"idle", "drafting", "evaluated", "verifying", "merging"}
  /\ batches \in Seq(Nat)
  /\ failures \in Nat

Init ==
  /\ faulty \in FaultSets
  /\ script \in [1..Horizon -> Token]
  /\ k \in Widths
  /\ \E s \in Setups : m = Opened(s[1], s[2])
  /\ text = <<script[1]>>
  /\ drafts = << >>
  /\ verdict = << >>
  /\ pc = "idle"
  /\ batches = << >>
  /\ failures = 0

-----------------------------------------------------------------------------
\* The step returns an error: the text stays, the model as it is now.
Fail ==
  /\ pc' = "idle"
  /\ drafts' = << >>
  /\ verdict' = << >>
  /\ failures' = failures + 1
  /\ UNCHANGED <<config, text, batches>>

\* Step is called with the last token of the text. The target's text is long enough for
\* a full batch.
InBounds == Len(text) + k + 1 <= Horizon /\ failures < MaxFailures

Begin ==
  /\ pc = "idle"
  /\ InBounds
  /\ pc' = "drafting"
  /\ UNCHANGED <<config, m, text, drafts, verdict, batches, failures>>

\* Mutant of Current: the input is evaluated in every iteration.
CurrentInput == text[Len(text)]

\* "curr" of GenerateDraftWithTiming: the input first, then the token drafted last.
Current == IF drafts = << >> THEN text[Len(text)] ELSE drafts[Len(drafts)]

\* evalTokenLocked and argmaxFloat32.
EvalDraft ==
  /\ pc = "drafting"
  /\ EvalOk(m)
  /\ m' = AfterEval(m, Current)
  /\ \E t \in Token : drafts' = Append(drafts, t)
  /\ pc' = "evaluated"
  /\ UNCHANGED <<config, text, verdict, batches, failures>>

EvalDraftFails ==
  /\ pc = "drafting"
  /\ ~EvalOk(m) \/ "eval" \in faulty
  /\ m' \in AfterFailedEval(m, Current)
  /\ Fail

\* advanceDecodePositionLocked, and around the loop.
AdvanceDraft ==
  /\ pc = "evaluated"
  /\ AdvanceOk(m)
  /\ m' = AfterAdvance(m)
  /\ pc' = IF Len(drafts) = k THEN "verifying" ELSE "drafting"
  /\ UNCHANGED <<config, text, drafts, verdict, batches, failures>>

AdvanceDraftFails ==
  /\ pc = "evaluated"
  /\ ~AdvanceOk(m)
  /\ UNCHANGED m
  /\ Fail

\* VerifyBatch of the input and the drafts: at place i the target has seen i - 1 drafts.
\* Where they are its own tokens it goes on with its text, elsewhere with anything.
OwnSoFar(i) == \A j \in 1..(i - 1) : drafts[j] = script[Len(text) + j]

VerifyBatch ==
  /\ pc = "verifying"
  /\ \E other \in Token :
       verdict' = [i \in 1..(k + 1) |-> IF OwnSoFar(i) THEN script[Len(text) + i] ELSE other]
  /\ pc' = "merging"
  /\ UNCHANGED <<config, m, text, drafts, batches, failures>>

VerifyFails ==
  /\ pc = "verifying"
  /\ "verify" \in faulty
  /\ UNCHANGED m
  /\ Fail

\* Mutant of Accepted: the draft's token is kept where the two first differ.
AcceptedDraft(d, v) ==
  IF SubSeq(v, 1, Len(d)) = d THEN v
  ELSE LET i == CHOOSE i \in DOMAIN d : d[i] # v[i] /\ \A j \in 1..(i - 1) : d[j] = v[j]
       IN SubSeq(d, 1, i)

\* mergeDraftWithTargetGreedy: the drafts up to the first the target disagrees with,
\* and the target's token for the place after them.
Accepted(d, v) ==
  LET agreed == {n \in 0..Len(d) : \A j \in 1..n : d[j] = v[j]}
      n == CHOOSE n \in agreed : \A o \in agreed : o <= n
  IN Append(SubSeq(d, 1, n), v[n + 1])

Merge ==
  /\ pc = "merging"
  /\ text' = text \o Accepted(drafts, verdict)
  /\ batches' = Append(batches, Len(Accepted(drafts, verdict)))
  /\ drafts' = << >>
  /\ verdict' = << >>
  /\ pc' = "idle"
  /\ UNCHANGED <<config, m, failures>>

\* A bound ends the generation.
Finished ==
  /\ pc = "idle"
  /\ ~InBounds
  /\ UNCHANGED vars

Next ==
  \/ Begin \/ EvalDraft \/ EvalDraftFails \/ AdvanceDraft \/ AdvanceDraftFails
  \/ VerifyBatch \/ VerifyFails \/ Merge \/ Finished

Spec == Init /\ [][Next]_vars

-----------------------------------------------------------------------------
\* Whatever the draft model predicts, whichever step fails and however far the draft
\* model's own state has drifted from the text: the text is the one the target alone
\* would have written, extended by one to k + 1 tokens at a time.
Target == INSTANCE TargetDecode
WritesTargetText == Target!Spec

\* Step never takes back what it fed to the draft model. The model has the text before
\* the input as its context as long as every step has added exactly k tokens, that is,
\* the target has replaced the last draft every time; then all k tokens the step fed are
\* in the text and none is missing. (A step that agrees with every draft leaves the last
\* one out of the model for good, one that disagrees earlier leaves wrong tokens in it.)
LockstepContext ==
  (pc = "idle" /\ failures = 0 /\ \A i \in DOMAIN batches : batches[i] = k) =>
    HasContext(m, SubSeq(text, 1, Len(text) - 1))

\* A window on the host's side is never rewound, so it holds k positions of every step:
\* it ends the text after at most (k + 1) tokens for every k rows.
WindowEndsText ==
  m.kv => Len(text) - 1 <= (Window \div k) * (k + 1)

\* Every row an attention model looks at was written at its own position and rotated by
\* it, also after steps that failed half-way. A stateful model has that between two
\* evaluations, until one fails whose row is in the state already; with a host K/V state
\* beside its own, until that one is full: then Advance fails after the row is in.
RowsRotated ==
  \/ m.kind = "attention"
  \/ "eval" \notin faulty /\ pc # "evaluated" /\ (m.kv => m.kvPos < Window)
  => RotatedByPosition(m)
=============================================================================
