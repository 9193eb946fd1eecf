---------------------------- MODULE MCDraftStart ----------------------------
(***************************************************************************)
(* Two layers, one compile fallback profile, and plans with and without    *)
(* shared events.  The environments are those that make a difference to    *)
(* what is built, kept or refused, around each strategy.                   *)
(***************************************************************************)
EXTENDS DraftStart

Auto(strategy, output, flags) ==
  [modelc |-> "auto", strategy |-> strategy, output |-> output, layers |-> 2, flags |-> flags]
With(flags, more) == {flags \cup x : x \in SUBSET more}

MCEnvs ==
  {Auto("auto", "auto", {"extract", "lmHead", "runner"})}
    \cup {Auto("partial4", "auto", {"extract", "lmHead", "lowerable", "taps"})}
    \cup {Auto("full", "final_hidden", {"extract", "lowerable", "runner", "lowRef"})}
    \cup {Auto("auto", "auto", f) :
            f \in With({"widened", "noGuard", "extract", "gate", "rope", "runner"},
                       {"keep", "tryAttn", "useRef"})}
    \cup {Auto("partial1", "last_attn_residual", f) :
            f \in With({"widened", "extract", "force", "kv", "lowRef", "runner"}, {"keep"})}
    \cup {Auto("auto", "auto", f) : f \in With({"widened", "extract"}, {"runner"})}
    \cup {Auto("ffn", "auto", f) : f \in With({"runner"}, {"lowRef", "taps", "keep"})}
    \cup {Auto("full", "lm_head", {"extract", "lmHead", "kv"}), Auto("?", "auto", {}),
          [Auto("auto", "auto", {"runner", "useRef"}) EXCEPT !.modelc = "path"],
          [Auto("auto", "auto", {}) EXCEPT !.modelc = "bare"]}
=============================================================================
