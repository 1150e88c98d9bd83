---------------------------- MODULE SdkEndpoints ----------------------------
(***************************************************************************)
(* The endpoints of the SDK (coinrithm_sdk/api): for each status an        *)
(* endpoint documents, the model classes its _parse_response tries in      *)
(* turn.  A documented status without a class is read as None or as text.  *)
(* The items of a list are read one by one, each by the class named here.  *)
(***************************************************************************)
EXTENDS SdkTradingModels, SdkAgentModels, SdkPublicPmModels, SdkPublicModels

\* An endpoint is put together from what it does with some statuses and with others.
e ++ f == [s \in DOMAIN e \union DOMAIN f |-> IF s \in DOMAIN e THEN e[s] ELSE f[s]]

Reads(statuses, models) == [s \in statuses |-> models]

NoModel(statuses) == Reads(statuses, <<>>)

close_futures_position ==
  Reads({200}, <<FuturesPositionEnvelope>>)
    ++ Reads({400, 401, 403, 404, 409, 422, 429}, <<Error>>)

futures_quote ==
  Reads({200}, <<FuturesQuoteResponse>>)
    ++ Reads({400, 401, 403, 404, 429}, <<Error>>)

\* Variant: a refusal that carries a body of its own is read as a position.
open_futures_position_any ==
  Reads({200, 201, 422}, <<FuturesPositionEnvelope>>)
    ++ Reads({400, 401, 403, 404, 409, 429, 503}, <<Error>>)

open_futures_position ==
  Reads({200, 201}, <<FuturesPositionEnvelope>>)
    ++ Reads({400, 401, 403, 404, 409, 429, 503}, <<Error>>)
    ++ Reads({422}, <<OpenFuturesPositionResponse422>>)

set_futures_sl_tp ==
  Reads({200}, <<FuturesPositionEnvelope>>)
    ++ Reads({400, 401, 403, 404, 409, 429}, <<Error>>)
    ++ Reads({422}, <<SetFuturesSlTpResponse422>>)

whoami ==
  Reads({200}, <<WhoamiResponse200>>)
    ++ Reads({401, 429}, <<Error>>)

export_agent_ledger ==
  Reads({200}, <<AgentLedgerExport>>)
    ++ Reads({401, 403, 429}, <<Error>>)

list_agent_ledger ==
  Reads({200}, <<AgentLedgerResponse>>)
    ++ Reads({401, 403, 429}, <<Error>>)

close_pm_paper_v2 ==
  Reads({200, 202, 404, 409}, <<PmPaperV2CloseResult>>)
    ++ Reads({400}, <<Error, PmPaperV2CloseResult>>)
    ++ Reads({401, 403, 429}, <<Error>>)
    ++ Reads({503}, <<PmPaperV2Failure>>)

discover_pm_paper_v2 ==
  Reads({200}, <<PmPaperV2DiscoveryResponse>>)
    ++ Reads({400, 401, 403, 429, 503}, <<Error>>)

discover_prediction_markets ==
  Reads({200}, <<PmDiscoveryResponse>>)
    ++ Reads({400, 401, 403, 429}, <<Error>>)

get_pm_paper_v2_positions ==
  Reads({200}, <<PmPaperV2PositionsResponse>>)
    ++ Reads({400, 401, 403, 429}, <<Error>>)
    ++ Reads({503}, <<GetPmPaperV2PositionsResponse503>>)

open_pm_paper_v2 ==
  Reads({200}, <<PmPaperV2Opened>>)
    ++ Reads({400}, <<PmPaperV2Failure, Error>>)
    ++ Reads({401, 403, 429}, <<Error>>)
    ++ Reads({409, 422}, <<PmPaperV2Refused>>)
    ++ Reads({503}, <<PmPaperV2Failure>>)

open_pm_position ==
  Reads({200, 201}, <<PmPositionEnvelope>>)
    ++ Reads({400, 401, 403, 404, 409, 429}, <<Error>>)
    ++ Reads({422}, <<OpenPmPositionResponse422>>)

pm_quote ==
  Reads({200}, <<PmQuoteResponse>>)
    ++ Reads({400, 401, 403, 404, 429}, <<Error>>)

replay_pm_paper_v2_open ==
  Reads({200}, <<PmPaperV2Opened>>)
    ++ Reads({400}, <<PmPaperV2Failure, Error>>)
    ++ Reads({401, 403, 429}, <<Error>>)
    ++ Reads({404, 409, 422}, <<PmPaperV2Refused>>)
    ++ Reads({503}, <<PmPaperV2Failure>>)

report_pm_opportunity ==
  Reads({200, 201}, <<PmOpportunityResponse>>)
    ++ Reads({400, 401, 403, 429, 500}, <<Error>>)

get_public_coin ==
  Reads({200}, <<PublicCoinDetail>>)
    ++ Reads({400, 429, 500}, <<Error>>)
    ++ Reads({404}, <<PublicMessageError>>)

get_public_coin_candles ==
  Reads({200}, <<PublicCoinCandles>>)
    ++ Reads({400, 404, 429, 500}, <<Error>>)

get_public_coin_price ==
  Reads({200}, <<PublicCoinPrice>>)
    ++ Reads({400, 429, 500}, <<Error>>)
    ++ Reads({404}, <<PublicMessageError>>)

get_public_market_snapshot ==
  Reads({200}, <<PublicMarketSnapshot>>)
    ++ Reads({404, 500}, <<PublicMessageError>>)
    ++ Reads({429}, <<Error>>)

get_public_top_gainers ==
  Reads({200}, <<PublicCryptoMover>>)
    ++ Reads({400, 500}, <<Error>>)

get_public_top_losers ==
  Reads({200}, <<PublicCryptoMover>>)
    ++ Reads({400, 500}, <<Error>>)

list_public_coins ==
  Reads({200}, <<PublicCoinListResponse>>)
    ++ Reads({400, 429, 500}, <<Error>>)

list_public_live_prices ==
  Reads({200}, <<PublicLivePricesResponse>>)
    ++ Reads({400, 429, 500, 502}, <<Error>>)

get_public_crypto_treasuries ==
  Reads({200}, <<PublicCryptoTreasuryResponse>>)
    ++ Reads({400, 404}, <<PublicMessageError>>)
    ++ NoModel({429})

get_public_instrument_markets ==
  Reads({200}, <<PublicInstrumentMarkets>>)
    ++ Reads({400, 404}, <<PublicMessageError>>)
    ++ NoModel({429})

get_public_large_trades ==
  Reads({200}, <<PublicLargeTradesResponse>>)
    ++ Reads({400, 500}, <<PublicMessageError>>)
    ++ NoModel({429})

get_public_liquidations ==
  Reads({200}, <<PublicLiquidationsResponse>>)
    ++ Reads({400, 500}, <<PublicMessageError>>)
    ++ NoModel({429})

get_public_notable_large_trades ==
  Reads({200}, <<PublicNotableLargeTradesResponse>>)
    ++ Reads({400, 500}, <<PublicMessageError>>)
    ++ NoModel({429})

get_public_tradfi_reference ==
  Reads({200}, <<PublicTradfiReferenceDetail>>)
    ++ Reads({400, 404, 500}, <<PublicMessageError>>)
    ++ NoModel({429})

get_public_tradfi_reference_filings ==
  Reads({200}, <<PublicSecFilingsResponse>>)
    ++ Reads({400, 404, 500}, <<PublicMessageError>>)
    ++ NoModel({429})

get_public_tradfi_reference_positioning ==
  Reads({200}, <<PublicCftcPositioningResponse>>)
    ++ Reads({400, 404}, <<PublicMessageError>>)
    ++ NoModel({429})

get_public_tradfi_reference_treasury ==
  Reads({200}, <<PublicTickerTreasuryResponse>>)
    ++ Reads({400, 404}, <<PublicMessageError>>)
    ++ NoModel({429})

list_public_tradfi_references ==
  Reads({200}, <<PublicTradfiReferenceCatalog>>)
    ++ Reads({400, 500}, <<PublicMessageError>>)
    ++ NoModel({429})

get_healthz ==
  NoModel({200})

get_public_prediction_market_calibration ==
  Reads({200}, <<PublicPmCalibrationResponse>>)
    ++ Reads({500}, <<Error>>)

get_public_prediction_market_canonical_event ==
  Reads({200}, <<PublicPmCanonicalDetailResponse>>)
    ++ Reads({400, 404, 500}, <<Error>>)

get_public_prediction_market_consensus_methodology ==
  Reads({200}, <<GetPublicPredictionMarketConsensusMethodologyResponse200>>)

get_public_prediction_market_disagreements ==
  Reads({200}, <<PublicPmDisagreementsResponse>>)
    ++ Reads({500}, <<Error>>)

get_public_prediction_market_event ==
  Reads({200}, <<PublicPmEventDetailResponse>>)
    ++ Reads({400, 404, 500}, <<Error>>)

get_public_prediction_market_event_holders ==
  Reads({200}, <<PublicPmEventHoldersResponse>>)
    ++ Reads({400, 404, 500}, <<Error>>)
    ++ Reads({503}, <<RetryableUnavailableError>>)

get_public_prediction_market_event_revisions ==
  Reads({200}, <<PublicPmEventRevisionsResponse>>)
    ++ Reads({400, 404, 500}, <<Error>>)

get_public_prediction_market_order_book ==
  Reads({200}, <<PublicPmOrderBookResponse>>)
    ++ Reads({400, 404, 500}, <<Error>>)
    ++ Reads({503}, <<RetryableUnavailableError>>)

get_public_prediction_market_overview ==
  Reads({200}, <<PublicPmOverviewResponse>>)
    ++ Reads({400, 500}, <<Error>>)

get_public_prediction_market_price_history ==
  Reads({200}, <<GetPublicPredictionMarketPriceHistoryResponse200>>)
    ++ Reads({400, 404, 500}, <<Error>>)

get_public_prediction_market_source_health ==
  Reads({200}, <<PublicPmSourcesHealthResponse>>)
    ++ NoModel({429})
    ++ Reads({500}, <<Error>>)

get_public_prediction_market_sources ==
  Reads({200}, <<PublicPmSourcesResponse>>)
    ++ NoModel({429})
    ++ Reads({500}, <<Error>>)

get_public_prediction_market_token_price_history ==
  Reads({200}, <<PublicPmPricesHistoryResponse>>)
    ++ Reads({400, 429, 500}, <<Error>>)
    ++ Reads({503}, <<RetryableUnavailableError>>)

get_public_prediction_market_trades ==
  Reads({200}, <<PublicPmTradesResponse>>)
    ++ Reads({400, 404, 500}, <<Error>>)
    ++ Reads({503}, <<RetryableUnavailableError>>)

get_public_prediction_market_volume_history ==
  Reads({200}, <<PublicPmVolumeHistoryResponse>>)
    ++ Reads({500}, <<Error>>)

get_public_prediction_market_whale_wallet ==
  Reads({200}, <<GetPublicPredictionMarketWhaleWalletResponse200>>)
    ++ Reads({400, 404, 500, 503}, <<Error>>)
    ++ NoModel({429})

get_public_prediction_market_whale_wallets ==
  Reads({200}, <<GetPublicPredictionMarketWhaleWalletsResponse200>>)
    ++ Reads({400, 500, 503}, <<Error>>)
    ++ NoModel({429})

get_public_prediction_market_whales ==
  Reads({200}, <<PublicPmWhalesResponse>>)
    ++ NoModel({429})
    ++ Reads({500}, <<Error>>)

list_public_expiring_prediction_markets ==
  Reads({200}, <<PublicPmExpiringEventsResponse>>)
    ++ Reads({400, 500}, <<Error>>)

list_public_prediction_market_canonical_events ==
  Reads({200}, <<PublicPmCanonicalListResponse>>)
    ++ Reads({500}, <<Error>>)

list_public_prediction_market_surprises ==
  Reads({200}, <<PublicPmSurprisesResponse>>)
    ++ Reads({400, 500}, <<Error>>)

list_public_resolved_prediction_markets ==
  Reads({200}, <<PublicPmResolvedEventsResponse>>)
    ++ Reads({400, 500}, <<Error>>)

search_public_prediction_market_events ==
  Reads({200}, <<PublicPmEventsResponse>>)
    ++ Reads({400, 500}, <<Error>>)

stream_public_prediction_market_events ==
  NoModel({200, 503})

get_agent_news ==
  Reads({200}, <<GetAgentNewsResponse200>>)
    ++ Reads({400}, <<Error>>)

get_agent_universe ==
  Reads({200}, <<AgentUniverseResponse>>)
    ++ Reads({400}, <<AgentUniverseValidationError>>)
    ++ Reads({401, 403, 429, 500}, <<Error>>)

get_agent_universe_sectors ==
  Reads({200}, <<AgentUniverseSectorsResponse>>)
    ++ Reads({401, 403, 429, 500}, <<Error>>)

get_arena_agent ==
  Reads({200}, <<GetArenaAgentResponse200>>)
    ++ Reads({404}, <<Error>>)

get_arena_decision_artifact ==
  Reads({200}, <<AgentDecisionArtifact>>)
    ++ Reads({404}, <<Error>>)

get_arena_decisions ==
  Reads({200}, <<GetArenaDecisionsResponse200>>)
    ++ NoModel({400})
    ++ Reads({429}, <<Error>>)

get_arena_leaderboard ==
  Reads({200}, <<GetArenaLeaderboardResponse200>>)
    ++ Reads({429}, <<Error>>)

get_arena_scorecard ==
  Reads({200}, <<AgentScorecardResponse>>)
    ++ Reads({400, 404}, <<Error>>)

get_arena_scorecard_run ==
  Reads({200}, <<ScorecardRunDetail>>)
    ++ Reads({404}, <<Error>>)

get_candles ==
  Reads({200}, <<GetCandlesResponse200>>)
    ++ Reads({400, 401, 403, 429}, <<Error>>)
    ++ NoModel({404})

get_competition_board ==
  Reads({200}, <<GetCompetitionBoardResponse200>>)
    ++ Reads({404}, <<Error>>)

get_equity_curve ==
  Reads({200}, <<GetEquityCurveResponse200>>)
    ++ Reads({401, 403, 429}, <<Error>>)

get_futures_positions ==
  Reads({200}, <<GetFuturesPositionsResponse200>>)
    ++ Reads({401, 403, 429}, <<Error>>)

get_market_context ==
  Reads({200}, <<GetMarketContextResponse200>>)
    ++ Reads({400, 401, 403, 429}, <<Error>>)
    ++ NoModel({404})

get_my_trades ==
  Reads({200}, <<GetMyTradesResponse200>>)
    ++ Reads({401, 403, 429}, <<Error>>)

get_performance ==
  Reads({200}, <<GetPerformanceResponse200>>)
    ++ Reads({401, 403, 429}, <<Error>>)

get_pm_positions ==
  Reads({200}, <<GetPmPositionsResponse200>>)
    ++ Reads({401, 403, 429}, <<Error>>)

get_portfolio ==
  Reads({200}, <<AgentPortfolio>>)
    ++ Reads({401, 403, 404, 429}, <<Error>>)

get_wallet ==
  Reads({200}, <<Wallet>>)
    ++ Reads({401, 403, 404, 429}, <<Error>>)

list_arena_scorecard_runs ==
  Reads({200}, <<ScorecardRunListPage>>)
    ++ Reads({400, 404}, <<Error>>)

list_competitions ==
  Reads({200}, <<ListCompetitionsResponse200>>)
    ++ Reads({429}, <<Error>>)

list_open_orders ==
  Reads({200}, <<ListOpenOrdersResponse200>>)
    ++ Reads({400, 401, 403, 404, 429}, <<Error>>)

resolve_symbol ==
  Reads({200}, <<ResolveSymbolResponse200>>)
    ++ Reads({400, 401, 403, 429}, <<Error>>)

cancel_spot_order ==
  Reads({200}, <<CancelSpotOrderResponse200>>)
    ++ Reads({400, 401, 403, 404, 429, 500}, <<Error>>)

get_spot_reference ==
  Reads({200}, <<SpotReferenceResponse>>)
    ++ Reads({400, 401, 403, 429, 503}, <<Error>>)
    ++ Reads({404}, <<GetSpotReferenceResponse404>>)

place_spot_order ==
  Reads({200}, <<SpotOrderResponse>>)
    ++ Reads({400}, <<PlaceSpotOrderResponse400>>)
    ++ Reads({401, 403, 409, 429, 500}, <<Error>>)
    ++ Reads({404}, <<PlaceSpotOrderResponse404>>)

spot_quote ==
  Reads({200}, <<SpotQuoteResponse>>)
    ++ Reads({400, 401, 403, 404, 429}, <<Error>>)

Endpoints ==
  {close_futures_position, futures_quote, open_futures_position, set_futures_sl_tp,
    whoami, export_agent_ledger, list_agent_ledger, close_pm_paper_v2,
    discover_pm_paper_v2, discover_prediction_markets, get_pm_paper_v2_positions,
    open_pm_paper_v2, open_pm_position, pm_quote, replay_pm_paper_v2_open,
    report_pm_opportunity, get_public_coin, get_public_coin_candles,
    get_public_coin_price, get_public_market_snapshot, get_public_top_gainers,
    get_public_top_losers, list_public_coins, list_public_live_prices,
    get_public_crypto_treasuries, get_public_instrument_markets, get_public_large_trades,
    get_public_liquidations, get_public_notable_large_trades,
    get_public_tradfi_reference, get_public_tradfi_reference_filings,
    get_public_tradfi_reference_positioning, get_public_tradfi_reference_treasury,
    list_public_tradfi_references, get_healthz, get_public_prediction_market_calibration,
    get_public_prediction_market_canonical_event,
    get_public_prediction_market_consensus_methodology,
    get_public_prediction_market_disagreements, get_public_prediction_market_event,
    get_public_prediction_market_event_holders,
    get_public_prediction_market_event_revisions,
    get_public_prediction_market_order_book, get_public_prediction_market_overview,
    get_public_prediction_market_price_history,
    get_public_prediction_market_source_health, get_public_prediction_market_sources,
    get_public_prediction_market_token_price_history,
    get_public_prediction_market_trades, get_public_prediction_market_volume_history,
    get_public_prediction_market_whale_wallet,
    get_public_prediction_market_whale_wallets, get_public_prediction_market_whales,
    list_public_expiring_prediction_markets,
    list_public_prediction_market_canonical_events,
    list_public_prediction_market_surprises, list_public_resolved_prediction_markets,
    search_public_prediction_market_events, stream_public_prediction_market_events,
    get_agent_news, get_agent_universe, get_agent_universe_sectors, get_arena_agent,
    get_arena_decision_artifact, get_arena_decisions, get_arena_leaderboard,
    get_arena_scorecard, get_arena_scorecard_run, get_candles, get_competition_board,
    get_equity_curve, get_futures_positions, get_market_context, get_my_trades,
    get_performance, get_pm_positions, get_portfolio, get_wallet,
    list_arena_scorecard_runs, list_competitions, list_open_orders, resolve_symbol,
    cancel_spot_order, get_spot_reference, place_spot_order, spot_quote}
=============================================================================
