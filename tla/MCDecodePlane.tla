--------------------------- MODULE MCDecodePlane ---------------------------
(***************************************************************************)
(* Two callers on models of three layers: a span at the beginning, one at  *)
(* the end with an MoE layer before it, and no span at all.                *)
(***************************************************************************)
EXTENDS DecodePlane, TLC

CONSTANTS c1, c2

MCCaller == {c1, c2}
MCCallLimit == (c1 :> 2) @@ (c2 :> 1)

Plain == [kind |-> (0 :> "dense") @@ (1 :> "dense") @@ (2 :> "moe"),
          rule |-> "auto", allowed |-> {}, gpu |-> FALSE, fast |-> {},
          caps |-> {"embeddings", "mlp", "router"},
          faults |-> {"block", "dispatch"}]

MCSetups ==
  { Plain,
    \* blocks and stages that cannot be built
    [Plain EXCEPT !.faults = {"blockbuild", "build"}, !.rule = "all",
                  !.kind = (0 :> "moe") @@ (1 :> "dense") @@ (2 :> "dense")],
    \* all fast paths, none of them needed by the layers in the middle
    [Plain EXCEPT !.fast = {"compiled", "fused"}, !.faults = {"dispatch"}, !.rule = "multi",
                  !.kind = (0 :> "dense") @@ (1 :> "linear") @@ (2 :> "moe")],
    [Plain EXCEPT !.fast = {"compiled", "residual"}, !.faults = {"dispatch", "gpu"},
                  !.kind = (0 :> "linear") @@ (1 :> "dense") @@ (2 :> "dense"),
                  !.rule = "offsets", !.allowed = {1}],
    \* a model without the optional interfaces
    [Plain EXCEPT !.caps = {}, !.faults = {"block"}, !.rule = "first"],
    \* the GPU alone
    [Plain EXCEPT !.gpu = TRUE, !.faults = {"gpu", "build"}] }
=============================================================================
