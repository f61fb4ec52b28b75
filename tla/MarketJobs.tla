------------------------------ MODULE MarketJobs ------------------------------
(***************************************************************************)
(* The single-job services of data_layer, each a process of its own: how   *)
(* their collect_once uses market_data.db.  They execute and commit on the *)
(* session of the thread they run in; none rolls back or records a run.    *)
(* The clients answer an error with nothing.                               *)
(***************************************************************************)
EXTENDS StorePrograms

\* fetch, return if nothing came, save, commit
FetchAndSave(rows) == Fetch \o Optional(rows \o Commit)

BridgeOverview == Fetch \o Each(Put("bridge_flows")) \o Commit

ChainFlows == Each(Fetch \o Optional(Put("chain_net_flows"))) \o Commit

BridgeFlow == BridgeOverview \o ChainFlows

BinanceLending ==
    Each(Fetch \o Each(Put("cefi_lending_rates")) \o Fetch \o Optional(Put("cefi_lending_rates")))
    \o Commit

OkxLending == Fetch \o Each(Put("cefi_lending_rates")) \o Commit

BybitLending == Fetch \o Each(Put("cefi_lending_rates")) \o Commit

\* The other process's table may be missing.
LendingSpreads == Each(Read \o Attempt(Read) \o Put("lending_rate_spread")) \o Commit

CefiLending == BinanceLending \o OkxLending \o BybitLending \o LendingSpreads

OrderbookDepth ==
    Each(Fetch \o Optional(Put("depth_snapshots") \o Each(Put("depth_levels") \o Put("depth_levels"))))
    \o Commit

LayerZero == FetchAndSave(Each(Put("cross_chain_messages")))

Wormhole == FetchAndSave(Each(Put("cross_chain_messages")))

MessagingMetrics == Each(Read \o Optional(Put("messaging_metrics"))) \o Commit

CrossChainMessaging == LayerZero \o Wormhole \o MessagingMetrics

DefiLiquidations ==
    Fetch \o Each(Insert("defi_liquidations")) \o Fetch \o Each(Insert("defi_liquidations"))
    \o Commit

HealthFactors == Fetch \o Each(Put("health_factor_distribution")) \o Commit

DefiLiquidation == DefiLiquidations \o HealthFactors

DefiTvl == Fetch \o Each(Put("defi_tvl")) \o Commit

DefiLendingRates == Fetch \o Each(Put("defi_lending_rates")) \o Commit

DexVolumes == Fetch \o Each(Put("defi_dex_volume")) \o Commit

DefiProtocol == DefiTvl \o DefiLendingRates \o DexVolumes

FearGreed == FetchAndSave(Put("sentiment_index"))

DerivativesSentimentRow == Fetch \o Fetch \o Fetch \o Put("derivatives_sentiment") \o Commit

DerivativesSentiment == FearGreed \o DerivativesSentimentRow

\* Pools, then the ticks and the events of the largest, pool by pool.
Uniswap ==
    Fetch \o Optional(Each(Insert("dex_pools")) \o Commit
                      \o Each(Fetch \o Each(Insert("dex_tick_liquidity"))) \o Commit
                      \o Each(Fetch \o Each(Insert("dex_liquidity_events"))) \o Commit)

Curve == FetchAndSave(Each(Insert("dex_pools")))

DexLiquidity == Uniswap \o Curve

DexTrades == Fetch \o Fetch \o Each(Insert("dex_large_trades")) \o Commit

RouterStats == Fetch \o Each(Put("dex_router_stats")) \o Commit

DexTradeFlow == DexTrades \o RouterStats

EtfFlows == Fetch \o Each(Put("etf_daily_flows")) \o Commit

EtfSummaries == Each(Read \o Each(Read \o Read \o Put("etf_flow_summary")) \o Commit)

EtfFlow == Each(EtfFlows) \o EtfSummaries

Announcements ==
    Fetch \o Each(Insert("exchange_announcements") \o Each(Insert("listing_events"))) \o Commit

BinanceAnnouncements == Announcements

OkxAnnouncements == Announcements

BybitAnnouncements == Announcements

ExchangeAnnouncement == BinanceAnnouncements \o OkxAnnouncements \o BybitAnnouncements

ExchangeReserve ==
    FetchAndSave(Put("exchange_reserve_reports")
                 \o Each(Delete("exchange_reserves") \o Insert("exchange_reserves")))

FundingRounds == FetchAndSave(Each(Put("funding_rounds")))

InvestorActivity == FetchAndSave(Each(Put("investor_activity")))

FundingRound == FundingRounds \o InvestorActivity

\* Three sources in turn; the first with a block number is saved.
GasPrices ==
    LET save == Put("gas_prices") \o Commit
    IN Fetch \o Either(save, Fetch \o Either(save, Fetch \o Optional(save)))

Congestion == Fetch \o Fetch \o Read \o Put("network_congestion") \o Commit

Spikes == Read \o Optional(Read \o Optional(Put("gas_spikes") \o Commit))

GasNetwork == GasPrices \o Congestion \o Spikes

\* The votes of each proposal are fetched after the proposal is written.
Proposals ==
    Each(Put("governance_proposals") \o Fetch \o Each(Put("governance_votes")))

SnapshotProposals == Each(Fetch \o Fetch \o Optional(Proposals \o Commit))

TallyProposals == Optional(Each(Fetch \o Optional(Proposals \o Commit)))

GovernanceActivity ==
    Read \o Each(Read \o Read \o Read \o Read \o Put("governance_activity")) \o Commit

Governance == SnapshotProposals \o TallyProposals \o GovernanceActivity

LendingRows == Put("lending_pools") \o Put("utilization_snapshots")

AavePools == Fetch \o Each(LendingRows) \o Commit

CompoundMarkets == Fetch \o Each(LendingRows) \o Commit

MorphoMarkets == Fetch \o Each(LendingRows) \o Commit

LendingUtilization == AavePools \o CompoundMarkets \o MorphoMarkets

Lido == FetchAndSave(Put("staking_positions"))

RocketPool == FetchAndSave(Put("staking_positions"))

EigenLayer == FetchAndSave(Put("restaking_tvl"))

ValidatorQueue == FetchAndSave(Put("validator_queue"))

LiquidStaking == Lido \o RocketPool \o EigenLayer \o ValidatorQueue

Mempool ==
    Fetch \o Fetch \o Fetch \o Put("mempool_snapshots") \o Each(Put("pending_large_txs")) \o Commit

Flashbots == FetchAndSave(Each(Put("mev_blocks")))

EigenPhi == Fetch \o Optional(Fetch \o Optional(Read \o Each(Put("mev_blocks"))) \o Commit)

MevAggregations == Each(Read \o Optional(Read \o Put("mev_agg"))) \o Commit

Mev == Flashbots \o EigenPhi \o MevAggregations

\* The Puell multiple is looked up before the row is written.
MiningData == Fetch \o Fetch \o Optional(Read \o Put("miner_metrics") \o Commit)

HashrateHistory == FetchAndSave(Each(Put("hashrate_history")))

Miner == MiningData \o HashrateHistory

NftCollections == Fetch \o Each(Put("nft_collection_stats")) \o Commit

NftMetrics == Read \o Read \o Put("nft_market_metrics") \o Commit

NftMarket == NftCollections \o NftMetrics

AddressLabels == Each(Fetch \o Optional(Fetch) \o Optional(Put("address_labels"))) \o Commit

WhaleAlerts == FetchAndSave(Each(Attempt(Insert("whale_moves"))))

AddressFlows == FetchAndSave(Each(Attempt(Insert("address_flows"))))

OnchainAddress == AddressLabels \o WhaleAlerts \o Each(AddressFlows)

HolderDistribution == Fetch \o Optional(Fetch \o Each(Put("holder_distribution")) \o Commit)

HolderMetrics == FetchAndSave(Put("holder_metrics"))

OnchainHolder == HolderDistribution \o HolderMetrics

StoreTrades == Each(Insert("orderflow_trades")) \o Commit

OrderflowTrades == LET venue == Optional(Fetch \o StoreTrades) IN Each(venue \o venue \o venue)

OrderflowAggregations == Each(Each(Read \o Optional(Put("orderflow_agg")))) \o Commit

Orderflow == OrderflowTrades \o OrderflowAggregations

Contracts == Fetch \o Each(Insert("futures_term_structure"))

BinanceTerms == Fetch \o Optional(Contracts \o Contracts \o Commit)

OkxTerms == Fetch \o Optional(Contracts \o Commit)

BybitTerms == Fetch \o Optional(Contracts \o Commit)

CurveSnapshots == Each(Read \o Optional(Put("basis_curve_snapshot"))) \o Commit

BasisCurve == Each(BinanceTerms \o OkxTerms \o BybitTerms) \o CurveSnapshots

PerpRows == Put("perp_dex_funding") \o Put("perp_dex_volume")

Dydx == FetchAndSave(Each(PerpRows))

Hyperliquid == FetchAndSave(Each(PerpRows))

Gmx == FetchAndSave(Each(Put("perp_dex_funding")))

PerpetualDex == Dydx \o Hyperliquid \o Gmx

PredictionMarket ==
    FetchAndSave(Each(Put("prediction_markets") \o Put("prediction_market_history")))

Regulatory == Fetch \o Each(Insert("regulatory_events")) \o Commit

CryptoTrends == FetchAndSave(Each(Each(Put("trend_history"))))

KeywordInterest == FetchAndSave(Each(Read \o Put("search_trends")))

SearchTrend == CryptoTrends \o KeywordInterest

Santiment == Fetch \o Fetch \o Each(Put("social_sentiment_agg")) \o Commit

LunarCrush == Fetch \o Each(Put("social_sentiment_agg")) \o Commit

SentimentAggregations == Each(Read \o Optional(Put("social_sentiment_agg"))) \o Commit

SocialSentiment == Each(Santiment \o LunarCrush) \o SentimentAggregations

StablecoinChains == FetchAndSave(Each(Put("stablecoin_chain_flows")))

MintBurns ==
    FetchAndSave(Each(Fetch \o Optional(Each(Put("stablecoin_mint_burns")))))

StablecoinFlow == StablecoinChains \o MintBurns

TokenUnlock == FetchAndSave(Each(Put("upcoming_unlocks")))

WhaleAlert == Fetch \o Each(Insert("whale_transactions")) \o Commit

Arkham == Fetch \o Each(Insert("whale_transactions")) \o Commit

WhaleAggregations == Each(Read \o Optional(Put("whale_flow_agg"))) \o Commit

WhaleTracker == WhaleAlert \o Each(Arkham) \o WhaleAggregations

WhalePortfolios == Each(Fetch \o Optional(Put("whale_portfolios"))) \o Commit

SmallServices ==
    [bridge_flow_data |-> BridgeFlow, cefi_lending_rate |-> CefiLending,
     cex_orderbook_depth |-> OrderbookDepth, cross_chain_messaging |-> CrossChainMessaging,
     defi_liquidation_data |-> DefiLiquidation, defi_protocol_data |-> DefiProtocol,
     derivatives_sentiment_data |-> DerivativesSentiment, dex_liquidity_data |-> DexLiquidity,
     dex_trade_flow |-> DexTradeFlow, etf_flow_data |-> EtfFlow,
     exchange_announcement |-> ExchangeAnnouncement, exchange_reserve_data |-> ExchangeReserve,
     funding_round_data |-> FundingRound, gas_network_data |-> GasNetwork,
     governance_data |-> Governance, lending_utilization |-> LendingUtilization,
     liquid_staking_data |-> LiquidStaking, mempool_data |-> Mempool, mev_data |-> Mev,
     miner_data |-> Miner, nft_market_data |-> NftMarket, onchain_address_data |-> OnchainAddress,
     onchain_holder_data |-> OnchainHolder, orderflow_data |-> Orderflow,
     perpetual_basis_curve |-> BasisCurve, perpetual_dex_data |-> PerpetualDex,
     prediction_market_data |-> PredictionMarket, regulatory_data |-> Regulatory,
     search_trend_data |-> SearchTrend, social_sentiment_data |-> SocialSentiment,
     stablecoin_flow_data |-> StablecoinFlow, token_unlock_realtime |-> TokenUnlock,
     whale_tracker_data |-> WhaleTracker, whale_wallet_pnl |-> WhalePortfolios]
==============================================================================
