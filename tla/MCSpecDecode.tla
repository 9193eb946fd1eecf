---------------------------- MODULE MCSpecDecode ----------------------------
(***************************************************************************)
(* A vocabulary of two tokens, so that the draft agrees with the target by *)
(* chance; a window of three rows, which the second step of width two      *)
(* overfills.  Any model without a K/V state on the host's side can be     *)
(* given one (configureGeneratedANEDraftState), also a stateful one.       *)
(***************************************************************************)
EXTENDS SpecDecode

CONSTANTS a, b

MCToken == {a, b}
MCSetups == {<<"attention", TRUE>>, <<"stateful", FALSE>>, <<"stateful", TRUE>>, <<"plain", FALSE>>,
             <<"plain", TRUE>>}
MCFaultSets == {{}, {"verify"}, Fault}
=============================================================================
