----------------------------- MODULE AnalysisJobs -----------------------------
(***************************************************************************)
(* The modules of logic_layer that are run by hand: how they use           *)
(* analytics.db.  Each run is a process of its own, which creates the      *)
(* tables, computes and closes its session; the tables of the collectors   *)
(* are read through sessions to the other files.                           *)
(***************************************************************************)
EXTENDS LogicJobs

SaveOne(table) == Insert(table) \o Commit

\* Signals come from other modules' tables, those that are missing are passed.
LoadAllSignals == Each(Attempt(Read))

ComputeDecay == LoadAllSignals \o Optional(SaveRows("signal_decay"))

ComputeCrowding == LoadAllSignals \o Optional(SaveOne("crowding_index"))

AlphaDecay == EnsureTables \o ComputeDecay \o ComputeCrowding

AnomalyDetection ==
    EnsureTables
    \o Each(Attempt(Read \o Optional(Read)) \o Each(SaveOne("anomaly_events")))

ComputeContagion == Read \o Optional(SaveRows("contagion_metrics"))

ComputeCascadeRisk == Read \o Read \o Optional(SaveRows("contagion_cascade_risk"))

ContagionRisk == EnsureTables \o ComputeContagion \o ComputeCascadeRisk

SaveDecomposition == SaveRows("flow_decomposition")

SaveVpin == AppendRows("vpin_history")

\* There is no table orderflow.
LoadOrderflow == Raise

ComputeDecomposition == LoadOrderflow \o Read \o Read \o SaveDecomposition \o SaveVpin

\* A symbol that fails is logged, and the next one has its turn.
FlowDecomposition == EnsureTables \o Each(Attempt(ComputeDecomposition))

FundingRateModel ==
    EnsureTables
    \o Each(Attempt(Read) \o Optional(SaveState("funding_model_snapshots"))
            \o Attempt(Read \o Read \o Optional(Read))
            \o Optional(SaveState("funding_basis_model")))

LiquidityAnalysis ==
    EnsureTables
    \o Each(Attempt(Read)
            \o Optional(SaveState("liquidity_profiles") \o Read
                        \o Each(SaveOne("liquidity_alerts"))))

ComputeNarratives == Read \o Optional(SaveRows("market_narratives"))

DetectTransitions == Read \o Optional(AppendRows("narrative_transitions"))

NarrativeRegime == EnsureTables \o ComputeNarratives \o DetectTransitions

BuildFeatures == Attempt(Read \o Optional(Attempt(Read \o Read)))

\* A change of regime is committed before the regime itself.
RegimeDetection ==
    EnsureTables
    \o Each(BuildFeatures
            \o Optional(Read \o Optional(SaveOne("regime_transitions"))
                        \o Read \o SaveState("regime_states")))

SentimentSignal ==
    EnsureTables
    \o Each(Attempt(Read \o Read)
            \o Optional(Each(SaveOne("sentiment_signals")) \o SaveState("causality_results")))

ComputePatterns ==
    Read \o Read \o AppendRows("temporal_patterns") \o AppendRows("seasonal_profiles")

TemporalPattern == EnsureTables \o Each(ComputePatterns)

FetchReturns == Attempt(Read)

VolatilityForecast ==
    EnsureTables
    \o Each(FetchReturns
            \o Optional(Attempt(Read) \o SaveState("volatility_snapshots") \o FetchReturns
                        \o Each(SaveState("volatility_cone"))))

AnalysisJobs ==
    [alpha_decay |-> AlphaDecay, anomaly_detection |-> AnomalyDetection,
     contagion_risk |-> ContagionRisk, flow_decomposition |-> FlowDecomposition,
     funding_rate_model |-> FundingRateModel, liquidity_analysis |-> LiquidityAnalysis,
     narrative_regime |-> NarrativeRegime, regime_detection |-> RegimeDetection,
     sentiment_signal |-> SentimentSignal, temporal_pattern |-> TemporalPattern,
     volatility_forecast |-> VolatilityForecast]
==============================================================================
