--------------------------- MODULE MCClassicPipeline ---------------------------
(***************************************************************************)
(* The five phases of _run_classic_pipeline with all the modules that      *)
(* _MODULE_DEPENDENCIES names and, of the others of phase 2, one or two.   *)
(***************************************************************************)
EXTENDS ClassicPipeline

FivePhases ==
    <<<<"technical_indicators">>,
      <<"feature_standardization", "cross_asset_analysis", "liquidity_regime">>,
      <<"data_quality_audit", "portfolio_risk", "market_breadth", "asset_readiness">>,
      <<"ai_market_context">>,
      <<"pipeline_latency">>>>

PipelineModules == UNION {Range(FivePhases[p]) : p \in DOMAIN FivePhases}

PhaseTwo == {2}

ModuleDependencies ==
    [m \in PipelineModules |->
        CASE m \in {"feature_standardization", "cross_asset_analysis"} -> {"technical_indicators"}
          [] m = "portfolio_risk" -> {"cross_asset_analysis"}
          [] m = "asset_readiness" -> {"feature_standardization", "cross_asset_analysis"}
          [] m = "ai_market_context" -> {"portfolio_risk", "market_breadth", "asset_readiness"}
          [] m = "pipeline_latency" -> {"ai_market_context"}
          [] OTHER -> {}]

OneHangs == {"cross_asset_analysis"}

\* One that an operator switches off, and the one of phase 2 that is off by
\* default (core/feature_flags.py).
SwitchedOff == {"market_breadth", "liquidity_regime"}
==============================================================================
