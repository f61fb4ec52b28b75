---------------------------- MODULE CollectorJobs ----------------------------
(***************************************************************************)
(* The collectors of data_layer that schedule one job per source: how the  *)
(* jobs use market_data.db.  Each run opens a DBManager of its own and     *)
(* closes it in a finally; what a source answers is parsed as it is        *)
(* fetched, and nothing is written before that.                            *)
(***************************************************************************)
EXTENDS StorePrograms

Sync(catalog) == Optional(Put(catalog) \o Commit)

SavePoints(history, latest) == Insert(history) \o Latest(latest) \o Commit

------------------------------------------------------------------------------
(***************************************************************************)
(* options_data                                                            *)
(***************************************************************************)
SaveOptions == SavePoints("options_timeseries", "latest_options_timeseries")

VolSurface == Fetch \o Optional(SaveOptions)
RelativeValue == Fetch \o Optional(SaveOptions)
StrikeConcentration == Fetch \o Optional(SaveOptions)
GammaExposure == Fetch \o Optional(SaveOptions)
FlowActivity == Fetch \o Optional(SaveOptions)
ExpiryStructure == Fetch \o Optional(SaveOptions)
HedgePressure == Fetch \o Optional(SaveOptions)
Positioning == Fetch \o Optional(SaveOptions)

SyncOptions == Sync("options_factor_catalog")

\* collect_once for one source, which is how the scheduler calls it
OptionsJob(collect) == SyncOptions \o Optional(Recorded(collect))

OptionsJobs ==
    [options_vol_surface |-> OptionsJob(VolSurface),
     options_relative_value |-> OptionsJob(RelativeValue),
     options_strike_concentration |-> OptionsJob(StrikeConcentration),
     options_gamma_exposure |-> OptionsJob(GammaExposure),
     options_flow_activity |-> OptionsJob(FlowActivity),
     options_expiry_structure |-> OptionsJob(ExpiryStructure),
     options_hedge_pressure |-> OptionsJob(HedgePressure),
     options_positioning |-> OptionsJob(Positioning)]

------------------------------------------------------------------------------
(***************************************************************************)
(* onchain_data: a failing source is recorded and the next one has its     *)
(* turn.                                                                   *)
(***************************************************************************)
SaveOnchain == SavePoints("onchain_timeseries", "latest_onchain_timeseries")

ExchangeFlow == Fetch
WhaleActivity == Fetch
StablecoinInflow == Fetch
BridgeNetflow == Fetch
ExchangeReserves == Fetch
ProtocolTvl == Fetch
NetworkUsage == Fetch
StakingFlow == Fetch
DexVolume == Fetch
StablecoinSupplies == Fetch
MarketSentiment == Fetch
GlobalMarket == Fetch
DefiYields == Fetch

SyncOnchain == Sync("onchain_factor_catalog")

\* A source without endpoint is recorded as unconfigured.
OnchainJob(collect) == SyncOnchain \o Noted(Optional(collect \o Optional(SaveOnchain)))

OnchainJobs ==
    [onchain_exchange_flow |-> OnchainJob(ExchangeFlow),
     onchain_whale_activity |-> OnchainJob(WhaleActivity),
     onchain_stablecoin_flow |-> OnchainJob(StablecoinInflow),
     onchain_bridge_netflow |-> OnchainJob(BridgeNetflow),
     onchain_exchange_reserve |-> OnchainJob(ExchangeReserves),
     onchain_protocol_tvl |-> OnchainJob(ProtocolTvl),
     onchain_network_usage |-> OnchainJob(NetworkUsage),
     onchain_staking_flow |-> OnchainJob(StakingFlow),
     onchain_dex_volume |-> OnchainJob(DexVolume),
     onchain_stablecoin_supply |-> OnchainJob(StablecoinSupplies),
     onchain_market_sentiment |-> OnchainJob(MarketSentiment),
     onchain_global_market |-> OnchainJob(GlobalMarket),
     onchain_defi_yields |-> OnchainJob(DefiYields)]

------------------------------------------------------------------------------
(***************************************************************************)
(* alternative_data                                                        *)
(***************************************************************************)
SaveAlternative == SavePoints("alternative_timeseries", "latest_alternative_timeseries")

GoogleTrends == Each(Fetch) \o Optional(SaveAlternative)
GithubActivity == Each(Fetch) \o Optional(SaveAlternative)
StablecoinSupply == Fetch \o Optional(SaveAlternative)

SyncAlternative == Sync("alternative_factor_catalog")

\* A source whose registry is empty is recorded as unconfigured.
AlternativeJob(collect) == SyncAlternative \o Optional(Recorded(Optional(collect)))

\* Every source, each after the other; the first that fails ends it.
BootstrapAlternative ==
    SyncAlternative \o Each(Recorded(Optional(Each(Fetch) \o Optional(SaveAlternative))))

AlternativeJobs ==
    [alternative_google_trends |-> AlternativeJob(GoogleTrends),
     alternative_github |-> AlternativeJob(GithubActivity),
     alternative_stablecoin |-> AlternativeJob(StablecoinSupply),
     alternative_bootstrap |-> BootstrapAlternative]

------------------------------------------------------------------------------
(***************************************************************************)
(* tokenomics_data                                                         *)
(***************************************************************************)
SaveTokenomics == SavePoints("tokenomics_timeseries", "latest_tokenomics_timeseries")

SaveUnlockEvents == Put("token_unlock_events") \o Commit

CirculatingSupply == Fetch \o Optional(SaveTokenomics)
UnlockRealization == Fetch \o Optional(SaveTokenomics)
TreasuryWalletFlow == Fetch \o Optional(SaveTokenomics)
StakingRatio == Fetch \o Optional(SaveTokenomics)

\* The events are asked for when the points have been committed.
UnlockSchedule ==
    Fetch \o Optional(SaveTokenomics) \o Fetch \o Optional(SaveUnlockEvents)

SyncTokenomics == Sync("tokenomics_factor_catalog")

TokenomicsJob(collect) == SyncTokenomics \o Noted(Optional(collect))

TokenomicsJobs ==
    [tokenomics_circulating_supply |-> TokenomicsJob(CirculatingSupply),
     tokenomics_unlock_schedule |-> TokenomicsJob(UnlockSchedule),
     tokenomics_unlock_realization |-> TokenomicsJob(UnlockRealization),
     tokenomics_treasury_wallet_flow |-> TokenomicsJob(TreasuryWalletFlow),
     tokenomics_staking_ratio |-> TokenomicsJob(StakingRatio)]

------------------------------------------------------------------------------
(***************************************************************************)
(* macro_data: Yahoo's prices and FRED's levels go to the same tables.     *)
(***************************************************************************)
SaveMarketPoints == SavePoints("macro_timeseries", "latest_macro_timeseries")

SaveRatePoints == SavePoints("macro_timeseries", "latest_macro_timeseries")

CollectMarket == Each(Fetch) \o Optional(SaveMarketPoints)

\* continue_on_error: a series that fails is left out.
CollectRates == Each(Attempt(Fetch)) \o Optional(SaveRatePoints)

SyncMacro == Sync("macro_factor_catalog")

CollectMacro == SyncMacro \o Recorded(CollectMarket) \o Recorded(CollectRates)

\* The history of both kinds; these runs are not recorded.
BootstrapMacro ==
    SyncMacro \o Each(Fetch) \o Optional(SaveMarketPoints)
    \o Each(Fetch) \o Optional(SaveRatePoints)

MacroJobs ==
    [macro_market |-> Recorded(CollectMarket),
     macro_rate |-> Recorded(CollectRates),
     macro_once |-> CollectMacro,
     macro_bootstrap |-> BootstrapMacro]

------------------------------------------------------------------------------
(***************************************************************************)
(* news_data and event_calendar_data                                       *)
(***************************************************************************)
\* One row for each feed, and one commit.
RecordFeeds == Optional(Each(Step("record", "collection_runs", 0)) \o Commit)

SaveArticles == Put("news_articles") \o Commit

\* The feeds are recorded before their articles are saved.
CollectNews == Fetch \o RecordFeeds \o Optional(SaveArticles)

SaveEvents == Put("event_calendar_events") \o Commit

CollectEvents == Each(Noted(Optional(Fetch \o Optional(SaveEvents))))

CalendarJobs == [news_articles |-> CollectNews, event_calendar_events |-> CollectEvents]
==============================================================================
