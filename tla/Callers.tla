------------------------------ MODULE Callers -------------------------------
(***************************************************************************)
(* The goroutines that use the stages of a decode plane: forward passes    *)
(* and Prewarm.  StageCache has what they do to get a stage built,         *)
(* StageDispatch what they do with the stages of a layer.                  *)
(***************************************************************************)
EXTENDS Naturals

CONSTANTS
  Caller,     \* the goroutines
  CallLimit,  \* bound: calls each of them makes
  None        \* nobody, and nothing

ASSUME CallersAssumption == CallLimit \in [Caller -> Nat]

VARIABLES
  pc,    \* where each caller is
  calls  \* calls made, per caller
=============================================================================
