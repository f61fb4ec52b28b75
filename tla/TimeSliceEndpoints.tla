------------------------- MODULE TimeSliceEndpoints --------------------------
(***************************************************************************)
(* The routers that look at one moment of the past, or at the newest time, *)
(* of every domain: logic_layer/time_slice and logic_layer/pipeline_latency *)
(* under them.  One domain that fails leaves the others alone.             *)
(***************************************************************************)
EXTENDS EndpointPaths, TLC

\* band_pit.py: a table that is not there, and a SELECT that fails, are no time.
LatestBandTime(band) == Tried(Market(band))

LatestExchangeTime == Tried(Analytics("merged_klines")) ** Tried(Exchange("klines"))

Bands ==
    <<"news_articles", "event_calendar_events", "onchain_timeseries", "tokenomics_timeseries",
      "options_timeseries", "alternative_timeseries", "macro_timeseries">>

\* The exchange band of BTC, then of each symbol.  Bound: one or two symbols.
BandReadinessAt ==
    InTurn([i \in DOMAIN Bands |-> LatestBandTime(Bands[i])])
        ** LatestExchangeTime
        ** LatestExchangeTime ** Maybe(LatestExchangeTime)

BarSlices ==
    [klines |-> Analytics("merged_klines"),
     technical_indicators |-> Analytics("technical_indicators"),
     feature_standardization |-> Analytics("feature_standardization_snapshots")]

\* The newest snapshot's time, then its rows.
NewestSnapshot(table) == Analytics(table) ** Maybe(Analytics(table))

CrossAssetSlice ==
    Analytics("cross_asset_correlation_snapshots")
        ** NewestSnapshot("cross_asset_relative_strength")
        ** NewestSnapshot("cross_asset_sector_rotation")
        ** NewestSnapshot("cross_asset_fund_flow")

RiskSlices ==
    [portfolio_risk |-> Analytics("portfolio_risk_snapshots"),
     macro_context |-> Analytics("macro_context_snapshots"),
     market_breadth |-> Analytics("market_breadth_snapshots")]

ContextSlices ==
    [asset_readiness |-> Analytics("asset_readiness_snapshots"),
     ai_market_context |-> Analytics("ai_market_context_snapshots"),
     exchange_comparison |-> Analytics("exchange_comparison_snapshots")]

\* When some band is ready, the time of the exchange band once more.
BandReadinessSlice == BandReadinessAt ** Maybe(LatestExchangeTime)

Slices ==
    BarSlices @@ RiskSlices @@ ContextSlices
        @@ [cross_asset |-> CrossAssetSlice, band_readiness |-> BandReadinessSlice]

\* An exception leaves the domain out of the answer.
DomainSlice(domain) == Tried(Slices[domain])

Domains ==
    <<"klines", "technical_indicators", "feature_standardization", "cross_asset",
      "portfolio_risk", "macro_context", "market_breadth", "asset_readiness",
      "ai_market_context", "exchange_comparison", "band_readiness">>

\* Bound: all domains, one, or none the service knows.
SliceAt ==
    InTurn([i \in DOMAIN Domains |-> DomainSlice(Domains[i])])
        \cup UNION {DomainSlice(d) : d \in DOMAIN Slices}
        \cup Nothing

\* Bound: at most two slices, of one domain.
SlicesRange == UNION {Each(DomainSlice(d)) : d \in DOMAIN Slices}

\* A source the service does not know has no rows.
FeatureHistory == UNION {BarSlices[d] : d \in DOMAIN BarSlices} \cup Nothing

\* On a connection of its own; a table that is not there has no rows.
PaperWorldModel == Tried(Analytics("paper_world_model_snapshots"))

TimeSliceRouter ==
    [get_time_slice |-> SliceAt,
     get_time_slice_range |-> SlicesRange,
     get_feature_history |-> FeatureHistory,
     get_paper_world_model |-> PaperWorldModel]

\* PipelineLatencyRepository, every query of which catches what it throws
Tracked ==
    <<"merged_klines", "technical_indicators", "feature_standardization_snapshots",
      "cross_asset_correlation_snapshots", "portfolio_risk_snapshots",
      "macro_context_snapshots", "market_breadth_snapshots", "asset_readiness_snapshots",
      "ai_market_context_snapshots", "exchange_comparison_snapshots", "news_articles">>

MeasureAll == InTurn([i \in DOMAIN Tracked |-> Tried(Analytics(Tracked[i]))])

DomainsRouter == [list_domains |-> MeasureAll]

TimeSliceRouters == [time_slice |-> TimeSliceRouter, domains |-> DomainsRouter]
==============================================================================
