---------------------------- MODULE TargetDecode ----------------------------
(***************************************************************************)
(* What speculative decoding promises: the text is the one the target      *)
(* model alone would write with greedy decoding, only faster.  A step adds *)
(* between one and k + 1 of the target's tokens.                           *)
(***************************************************************************)
EXTENDS Integers, Sequences

VARIABLES
  script,  \* the text the target model writes, starting with the prompt's last token
  k,       \* tokens drafted per step
  text     \* the text written so far

Init ==
  /\ Len(script) > 0
  /\ text = SubSeq(script, 1, 1)

Step ==
  /\ \E n \in 1..(k + 1) :
       /\ Len(text) + n <= Len(script)
       /\ text' = SubSeq(script, 1, Len(text) + n)
  /\ UNCHANGED <<script, k>>

Spec == Init /\ [][Step]_<<script, k, text>>
=============================================================================
