------------------------------ MODULE LogicJobs ------------------------------
(***************************************************************************)
(* The modules of logic_layer that the pipeline runs: how they use         *)
(* analytics.db.  Each run makes a service of its own, with a session that *)
(* also sees the tables of the two other files, and closes it in a         *)
(* finally.  What a module writes is committed by the save_* method that   *)
(* writes it; nothing is rolled back.                                      *)
(***************************************************************************)
EXTENDS StorePrograms

\* CREATE TABLE IF NOT EXISTS ..., commit
EnsureTables == Commit

\* for e in entries: INSERT OR REPLACE; commit
SaveRows(table) == Each(Put(table)) \o Commit

SaveState(table) == Put(table) \o Commit

AppendRows(table) == Each(Insert(table)) \o Commit

\* executemany, unless there are no rows
SaveMany(table) == Optional(Insert(table) \o Commit)

------------------------------------------------------------------------------
(***************************************************************************)
(* Phase 1.                                                                *)
(***************************************************************************)
SaveMergedKlines == SaveMany("merged_klines")

\* For each target: skipped when nothing newer has come.
MergeKlines == Read \o Each(Read \o Read \o Optional(Read \o Read \o SaveMergedKlines))

EnrichMarketContext == Read \o Read \o Read

SaveTechnicalIndicators == SaveMany("technical_indicators")

CalculateIndicators ==
    Read \o Each(Read \o Read
                 \o Optional(Read \o Read
                             \o Optional(EnrichMarketContext \o SaveTechnicalIndicators)))

TechnicalIndicators == MergeKlines \o CalculateIndicators

------------------------------------------------------------------------------
(***************************************************************************)
(* Phase 2, in parallel.                                                   *)
(***************************************************************************)
SaveDetails == SaveMany("feature_standardization_details")

SaveComposites == SaveMany("feature_standardization_composites")

\* Fault: the bundle is left for somebody else's commit.
SaveSnapshotBundleUncommitted == Insert("feature_standardization_snapshots")

SaveSnapshotBundle == Insert("feature_standardization_snapshots") \o Commit

FeatureStandardization == Read \o Optional(SaveDetails \o SaveComposites \o SaveSnapshotBundle)

LoadFundFlowData == Read \o Read

SaveCorrelationSnapshot == Insert("cross_asset_correlation_snapshots") \o Commit
SaveRelativeStrength == AppendRows("cross_asset_relative_strength")
SaveSectorRotation == AppendRows("cross_asset_sector_rotation")
SaveFundFlow == AppendRows("cross_asset_fund_flow")

ComputeFundFlow == LoadFundFlowData \o Optional(SaveFundFlow)

CrossAssetAnalysis ==
    Read \o LoadFundFlowData
    \o Optional(SaveCorrelationSnapshot) \o Optional(SaveRelativeStrength)
    \o Optional(SaveSectorRotation) \o Optional(ComputeFundFlow)

\* The newest row of each key, or of the history if latest_* is empty; funding
\* and order books are looked up in the history besides.
LoadTickers == Read \o Optional(Read)
LoadOrderbooks == Read \o Read
LoadFunding == Read \o Read

SaveComparisons == SaveMany("exchange_comparison_snapshots")

ExchangeComparison ==
    LoadTickers
    \o Optional(LoadOrderbooks \o Read \o LoadFunding \o Read \o SaveComparisons)

SaveContextSnapshots == SaveMany("macro_context_snapshots")

MacroSnapshot == Read \o Read

MacroContext == Read \o Optional(Each(MacroSnapshot) \o SaveContextSnapshots)

\* news_articles is a view here: its UPDATE fails, which is logged.
UpdateArticleSentiment == Attempt(Raise)

NewsSentiment ==
    Read \o Optional(SaveMany("news_sentiment_labels") \o Each(UpdateArticleSentiment))

SaveClusters == SaveRows("liquidation_clusters")
SaveCascadeRisk == SaveRows("cascade_risk")
SaveHeatmap == SaveRows("liquidation_heatmap")

\* price, positions, volume and open interest of an asset that has them
LoadPositionData == Read \o Optional(Read \o Optional(Read \o Read))

\* Each kind of result is committed by itself.
LiquidationCascade ==
    EnsureTables \o Each(LoadPositionData)
    \o Optional(SaveClusters) \o Optional(SaveCascadeRisk) \o Optional(SaveHeatmap)

LoadVenuePrices == Each(Read) \o Optional(Each(Read))

ComputePersistence == Each(Read \o Read)

SaveOpportunities == SaveRows("arb_opportunities")
SaveSpreads == SaveRows("venue_spreads")
SavePersistence == SaveRows("arb_persistence")

CrossVenueArbitrage ==
    EnsureTables
    \o Each(LoadVenuePrices \o Optional(ComputePersistence))
    \o Optional(SaveOpportunities) \o Optional(SaveSpreads) \o Optional(SavePersistence)

SaveLeadLagSignals == SaveRows("lead_lag_signals")
SavePriceRelations == SaveRows("onchain_price_relations")
SaveAlerts == SaveRows("signal_alerts")

\* Series that cannot be read are taken for empty.
LoadSignalSeries == Attempt(Read) \o Optional(Each(Attempt(Read)))

OnchainLeadLag ==
    EnsureTables \o Each(LoadSignalSeries)
    \o Optional(SaveLeadLagSignals) \o Optional(SavePriceRelations) \o Optional(SaveAlerts)

HolderBehavior ==
    EnsureTables \o Read \o Read
    \o Optional(Read \o SaveState("holder_behavior_states"))

\* staking, reserves, the two kinds of rates, stablecoins
LoadLiquidity == Read \o Read \o Read \o Read \o Read

LiquidityRegime == EnsureTables \o LoadLiquidity \o SaveState("liquidity_regime_states")

\* news_articles has no column sentiment_score: only questions without a word
\* are not looked up there.
LoadNewsSentiment == Optional(Raise)

EventProbability ==
    EnsureTables \o Read
    \o Optional(Each(Read \o LoadNewsSentiment) \o SaveRows("event_probability_states"))

MinerPressure ==
    EnsureTables \o Read \o Read \o Optional(Read \o SaveState("miner_pressure_states"))

MarketSentimentComposite ==
    EnsureTables \o Read \o Read \o Read \o Read \o Read \o Read
    \o SaveState("composite_sentiment_states")

StablecoinPulse ==
    EnsureTables \o Read \o Read \o Read \o Read \o SaveState("stablecoin_pulse_states")

\* klines and orderbook_snapshots are not in the file the market session reads.
LoadTokenVolume == Raise
LoadTokenDepth == Raise

UnlockImpact ==
    EnsureTables \o Read
    \o Each(LoadTokenVolume \o LoadTokenDepth \o SaveState("unlock_impact_states"))

LoadDepth == Read \o Read \o Read

DepthRegime == EnsureTables \o LoadDepth \o SaveState("depth_regime_states")

\* Rows are asked for values with get, which sqlite3.Row does not have.
LoadWhalePositions == Read \o Optional(Raise)

SmartMoneyConviction ==
    EnsureTables \o LoadWhalePositions \o Read \o Read
    \o SaveState("smart_money_conviction_states")

LoadLiquidationData == Read \o Optional(Raise)

DefiStress ==
    EnsureTables \o LoadLiquidationData \o Read \o Read \o SaveState("defi_stress_states")

RetailFomoIndex ==
    EnsureTables \o Read \o Read \o Read \o SaveState("retail_fomo_states")

------------------------------------------------------------------------------
(***************************************************************************)
(* Phase 3.                                                                *)
(***************************************************************************)
PortfolioRisk ==
    Read \o Read \o Optional(Insert("portfolio_risk_snapshots") \o Commit)

LogicJobs ==
    [technical_indicators |-> TechnicalIndicators,
     feature_standardization |-> FeatureStandardization,
     cross_asset_analysis |-> CrossAssetAnalysis, exchange_comparison |-> ExchangeComparison,
     macro_context |-> MacroContext, news_sentiment |-> NewsSentiment,
     liquidation_cascade |-> LiquidationCascade, cross_venue_arbitrage |-> CrossVenueArbitrage,
     onchain_lead_lag |-> OnchainLeadLag, holder_behavior_analysis |-> HolderBehavior,
     liquidity_regime |-> LiquidityRegime, event_probability |-> EventProbability,
     miner_pressure |-> MinerPressure, market_sentiment_composite |-> MarketSentimentComposite,
     stablecoin_pulse |-> StablecoinPulse, unlock_impact |-> UnlockImpact,
     depth_regime |-> DepthRegime, smart_money_conviction |-> SmartMoneyConviction,
     defi_stress |-> DefiStress, retail_fomo_index |-> RetailFomoIndex,
     portfolio_risk |-> PortfolioRisk]
==============================================================================
