---------------------------- MODULE MCDagScheduler ----------------------------
(***************************************************************************)
(* The spine of the graph that _run_dag_pipeline builds, with one module   *)
(* that depends on nothing, a dependency that names no node, and two       *)
(* modules that depend on each other, as an edit of the list might leave   *)
(* them.                                                                   *)
(***************************************************************************)
EXTENDS DagScheduler

Graph ==
    [technical_indicators    |-> {},
     macro_context           |-> {},
     market_breadth          |-> {},
     feature_standardization |-> {"technical_indicators"},
     cross_asset_analysis    |-> {"technical_indicators"},
     portfolio_risk          |-> {"cross_asset_analysis"},
     asset_readiness         |-> {"feature_standardization", "cross_asset_analysis"},
     ai_market_context       |-> {"portfolio_risk", "market_breadth", "asset_readiness",
                                  "data_quality_audit"},
     stablecoin_pulse        |-> {"technical_indicators", "unlock_impact"},
     unlock_impact           |-> {"stablecoin_pulse"}]

GraphModules == DOMAIN Graph

OneHangs == {"cross_asset_analysis"}
==============================================================================
