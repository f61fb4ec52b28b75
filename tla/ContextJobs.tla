----------------------------- MODULE ContextJobs -----------------------------
(***************************************************************************)
(* The modules of logic_layer that put the bundles of the collectors       *)
(* together for the AI, and the audit of data_layer the pipeline runs with *)
(* them: how they use analytics.db.  The collectors' services they make    *)
(* have sessions of their own and are only read from.                      *)
(***************************************************************************)
EXTENDS StorePrograms

\* load_source_coverage: nothing if no sources are configured
ExchangeCoverage == Optional(Read \o Each(Read))
NewsCoverage == Optional(Read \o Read)
CalendarCoverage == Optional(Read \o Read)
OnchainCoverage == Optional(Read \o Read \o Read)
TokenomicsCoverage == Optional(Read \o Read \o Read)
OptionsCoverage == Optional(Read \o Read \o Read \o Read)
AlternativeCoverage == Optional(Read \o Read)

\* load_latest_context_bundle of each service; the latest_* tables in turn
ExchangeBundle == Each(Read) \o ExchangeCoverage
NewsBundle == NewsCoverage \o Optional(Read)
CalendarBundle == CalendarCoverage \o Read
OnchainBundle == Read \o OnchainCoverage
TokenomicsBundle == Read \o TokenomicsCoverage \o Read
OptionsBundle == Read \o OptionsCoverage
AlternativeBundle == Read \o AlternativeCoverage

\* A snapshot is read back when it has been saved.
SaveSnapshot(table) == Insert(table) \o Commit \o Read

MarketStructure == ExchangeBundle \o SaveSnapshot("market_structure_snapshots")

BreadthBundle == ExchangeBundle \o NewsBundle \o TokenomicsBundle

MarketBreadth == BreadthBundle \o SaveSnapshot("market_breadth_snapshots")

\* All sources but those of macro_data, whose coverage comes with the audit.
ReadinessBundle ==
    ExchangeBundle \o NewsBundle \o CalendarBundle \o OnchainBundle \o TokenomicsBundle
    \o OptionsBundle \o AlternativeBundle

\* A module whose coverage cannot be read has none.
ModuleCoverage == Attempt(Each(Read))

CountRows == Read \o Optional(Read)

BandReport == ModuleCoverage \o Each(CountRows)

MarketWorldAudit == Each(BandReport) \o Attempt(ReadinessBundle)

DataQualityAudit == MarketWorldAudit \o SaveSnapshot("data_quality_audit_snapshots")

AssetReadiness ==
    MarketWorldAudit \o ReadinessBundle \o SaveSnapshot("asset_readiness_snapshots")

PipelineLatency == Each(Attempt(Read))

\* What other modules have saved; what cannot be read is unavailable.
UpstreamContexts ==
    Attempt(Read) \o Attempt(Read) \o Attempt(Read) \o Attempt(Read) \o Attempt(PipelineLatency)

BundleForEntity ==
    ExchangeBundle \o NewsBundle \o CalendarBundle \o OnchainBundle \o TokenomicsBundle
    \o ExchangeBundle \o AlternativeBundle \o Read \o Read \o UpstreamContexts

AIMarketContext ==
    MarketWorldAudit \o BreadthBundle \o ReadinessBundle \o Each(BundleForEntity)
    \o Optional(Insert("ai_market_context_snapshots") \o Commit)

ContextJobs ==
    [market_structure |-> MarketStructure, data_quality_audit |-> DataQualityAudit,
     market_breadth |-> MarketBreadth, asset_readiness |-> AssetReadiness,
     ai_market_context |-> AIMarketContext, pipeline_latency |-> PipelineLatency]
==============================================================================
