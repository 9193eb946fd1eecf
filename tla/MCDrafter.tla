------------------------------ MODULE MCDrafter -----------------------------
(***************************************************************************)
(* Two tokens and two drafts at a time on a window of five rows.  The      *)
(* drafters are one of each kind of model, alone and with the guard, two   *)
(* of them with a watched reference, and the one that has no model.        *)
(***************************************************************************)
EXTENDS Drafter, TLC

CONSTANTS a, b

MCToken == {a, b}
MCSymmetry == Permutations(MCToken)

Bare(kind, kv, direct) ==
  [kind |-> kind, kv |-> kv, model |-> TRUE, direct |-> direct, runner |-> FALSE,
   useRef |-> FALSE, taps |-> FALSE, guard |-> FALSE, prefer |-> FALSE]
Models == {Bare("attention", TRUE, FALSE), Bare("stateful", FALSE, TRUE),
           Bare("stateful", FALSE, FALSE), Bare("stateful", TRUE, FALSE),
           Bare("plain", TRUE, FALSE)}
MCDrafters ==
  Models
    \cup {[c EXCEPT !.runner = TRUE, !.guard = TRUE] : c \in Models}
    \cup {[c EXCEPT !.runner = TRUE, !.taps = TRUE] :
            c \in {Bare("attention", TRUE, FALSE), Bare("stateful", FALSE, TRUE)}}
    \cup {[Bare("plain", FALSE, FALSE) EXCEPT
             !.runner = TRUE, !.prefer = TRUE, !.model = FALSE]}
MCFaultSets ==
  {{}, {"restore", "rewind"}, {"reference", "capture"}, {"eval", "reset"}, {"reset"}}
=============================================================================
