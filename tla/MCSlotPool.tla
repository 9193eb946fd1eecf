----------------------------- MODULE MCSlotPool -----------------------------
(***************************************************************************)
(* Two callers on a stage of one or two slots in every output mode.        *)
(***************************************************************************)
EXTENDS SlotPool, TLC

CONSTANTS c1, c2

MCCaller == {c1, c2}
MCMode == {"copy", "iosurface_alias", "gpu_materialize_f32", "gpu_materialize_native"}
MCCallLimit == (c1 :> 3) @@ (c2 :> 1)
=============================================================================
