-------------------------- MODULE SdkTradingModels --------------------------
(***************************************************************************)
(* Models of trading: requests, quotes, orders, positions and the reads an *)
(* agent trades on.  Each definition says of a class of                    *)
(* coinrithm_sdk/models what its from_dict demands and converts            *)
(* (SdkCodec).  Classes of which every attribute is optional and taken as  *)
(* it is are left out.                                                     *)
(***************************************************************************)
EXTENDS SdkCodec

AgentPortfolio ==
  [Model("AgentPortfolio") EXCEPT
    !.strict = {"equity", "pnl", "openOrders"},
    !.easy = {"progression"}]

AgentUniverseResponse ==
  [Model("AgentUniverseResponse") EXCEPT
    !.must = {"rows", "observation"},
    !.strict = {"rows", "observation"}]

AgentUniverseRow ==
  [Model("AgentUniverseRow") EXCEPT
    !.must = {"ucid", "symbol", "name", "slug", "marketCapRank", "priceUsd", "change1h",
              "change24h", "change7d", "volume24hUsd", "marketCapUsd", "priceUpdatedAt",
              "sectors", "priceAgeHours", "priceStale", "priceStaleAfterHours"},
    !.time = {"priceUpdatedAt"}]

AgentUniverseSector ==
  [Model("AgentUniverseSector") EXCEPT
    !.must = {"id", "label", "kind", "coinCount"},
    !.strict = {"kind", "tier"}]

AgentUniverseSectorsResponse ==
  [Model("AgentUniverseSectorsResponse") EXCEPT
    !.must = {"sectors"},
    !.strict = {"sectors"}]

AgentUniverseValidationError ==
  [Model("AgentUniverseValidationError") EXCEPT
    !.must = {"error"},
    !.strict = {"details"}]

CancelSpotOrderResponse200 == Model("CancelSpotOrderResponse200")

EdgeSizing == [Model("EdgeSizing") EXCEPT !.strict = {"basis"}]

EntryContext ==
  [Model("EntryContext") EXCEPT
    !.time = {"capturedAt"},
    !.easyTime = {"marketAsOf"}]

Error == [Model("Error") EXCEPT !.must = {"error"}]

Freshness ==
  [Model("Freshness") EXCEPT
    !.strict = {"basis"},
    !.easy = {"status"},
    !.easyTime = {"asOf"}]

FuturesCloseRequest ==
  [Model("FuturesCloseRequest") EXCEPT
    !.must = {"positionId", "idempotencyKey"},
    !.strict = {"agentTrace"}]

FuturesFundingQuote ==
  [Model("FuturesFundingQuote") EXCEPT
    !.must = {"venue", "symbol", "rate", "intervalHours", "nextFundingTime", "asOf",
              "estimatedPerIntervalMusd", "annualizedRate"},
    !.time = {"nextFundingTime", "asOf"}]

FuturesFundingSource ==
  [Model("FuturesFundingSource") EXCEPT
    !.must = {"venue", "symbol", "fundingIntervalHours"}]

FuturesOpenRequest ==
  [Model("FuturesOpenRequest") EXCEPT
    !.must = {"coinId", "side", "leverage", "marginMusd", "idempotencyKey"},
    !.strict = {"side", "agentTrace"}]

FuturesPerpetualReference ==
  [Model("FuturesPerpetualReference") EXCEPT
    !.must = {"listed", "venue", "symbol", "fundingIntervalHours", "fetchedAt", "stale"},
    !.easyTime = {"fetchedAt"}]

FuturesPosition ==
  [Model("FuturesPosition") EXCEPT
    !.strict = {"status", "coin", "side", "freshnessAtEntry"},
    !.time = {"createdAt"},
    !.easy = {"currentFundingReference"},
    !.easyTime = {"openedAt", "closedAt", "fundingAppliedThrough"}]

FuturesPositionEnvelope == [Model("FuturesPositionEnvelope") EXCEPT !.strict = {"position"}]

FuturesQuoteRequest ==
  [Model("FuturesQuoteRequest") EXCEPT
    !.must = {"coinId", "side", "leverage", "marginMusd"},
    !.strict = {"side", "agentTrace"}]

FuturesQuoteResponse ==
  [Model("FuturesQuoteResponse") EXCEPT
    !.strict = {"coin", "executionModel", "freshness", "observation"},
    !.easy = {"fill", "funding", "perpetual"}]

FuturesQuoteResponseFillType0 ==
  [Model("FuturesQuoteResponseFillType0") EXCEPT
    !.strict = {"impactBasis", "volumeCoverage"}]

GetAgentNewsResponse200 ==
  [Model("GetAgentNewsResponse200") EXCEPT
    !.strict = {"items"},
    !.time = {"asOf"}]

GetAgentNewsResponse200ItemsItem ==
  [Model("GetAgentNewsResponse200ItemsItem") EXCEPT
    !.time = {"publishedAt"}]

GetCandlesResponse200 ==
  [Model("GetCandlesResponse200") EXCEPT
    !.strict = {"coin", "range", "candles", "observation"}]

GetEquityCurveResponse200 ==
  [Model("GetEquityCurveResponse200") EXCEPT
    !.strict = {"window", "granularity", "points"}]

GetEquityCurveResponse200PointsItem ==
  [Model("GetEquityCurveResponse200PointsItem") EXCEPT
    !.strict = {"venue"},
    !.time = {"t"}]

GetEquityCurveResponse200Window ==
  [Model("GetEquityCurveResponse200Window") EXCEPT
    !.time = {"from"}]

GetFuturesPositionsResponse200 ==
  [Model("GetFuturesPositionsResponse200") EXCEPT
    !.strict = {"positions"},
    !.time = {"asOf"},
    !.easyTime = {"updatedSince"}]

GetMarketContextResponse200 ==
  [Model("GetMarketContextResponse200") EXCEPT
    !.strict = {"coin", "priceTiming", "derivatives", "sentiment",
                "futuresEntryEligibility", "relatedMarkets", "similarCoins", "observation"},
    !.time = {"asOf"},
    !.easy = {"price", "funding", "macro", "defi", "fearGreed"}]

GetMarketContextResponse200FearGreedType0 ==
  [Model("GetMarketContextResponse200FearGreedType0") EXCEPT
    !.easyTime = {"fetchedAt"}]

GetMarketContextResponse200FuturesEntryEligibility ==
  [Model("GetMarketContextResponse200FuturesEntryEligibility") EXCEPT
    !.must = {"status", "referenceRequired", "maxReferenceAgeHours", "evaluatedAt"},
    !.strict = {"status"},
    !.time = {"evaluatedAt"},
    !.easyTime = {"referenceFetchedAt"}]

GetMarketContextResponse200PriceType0 ==
  [Model("GetMarketContextResponse200PriceType0") EXCEPT
    !.easyTime = {"asOf"}]

GetMarketContextResponse200RelatedMarketsItem ==
  [Model("GetMarketContextResponse200RelatedMarketsItem") EXCEPT
    !.strict = {"decisionSupport"}]

GetMarketContextResponse200Sentiment ==
  [Model("GetMarketContextResponse200Sentiment") EXCEPT
    !.easyTime = {"dayUtc", "updatedAt"}]

GetMyTradesResponse200 ==
  [Model("GetMyTradesResponse200") EXCEPT
    !.strict = {"trades"},
    !.time = {"asOf"},
    !.easyTime = {"updatedSince"}]

GetMyTradesResponse200TradesItem ==
  [Model("GetMyTradesResponse200TradesItem") EXCEPT
    !.strict = {"venue", "detail"},
    !.easyTime = {"closedAt"}]

GetPerformanceResponse200 ==
  [Model("GetPerformanceResponse200") EXCEPT
    !.strict = {"totals", "byVenue", "evaluation", "auditStats"},
    !.time = {"asOf"}]

GetPerformanceResponse200ByVenue ==
  [Model("GetPerformanceResponse200ByVenue") EXCEPT
    !.strict = {"spot", "futures", "pm"}]

GetPmPaperV2PositionsResponse503 ==
  [Model("GetPmPaperV2PositionsResponse503") EXCEPT
    !.must = {"executionModel", "error"},
    !.strict = {"executionModel"}]

GetPmPositionsResponse200 ==
  [Model("GetPmPositionsResponse200") EXCEPT
    !.strict = {"positions"},
    !.time = {"asOf"},
    !.easyTime = {"updatedSince"}]

GetSpotReferenceResponse404 ==
  [Model("GetSpotReferenceResponse404") EXCEPT
    !.must = {"error", "coinId"}]

ListOpenOrdersResponse200 ==
  [Model("ListOpenOrdersResponse200") EXCEPT
    !.strict = {"rows"},
    !.time = {"asOf"},
    !.easyTime = {"updatedSince"}]

MarketChainTvlContext ==
  [Model("MarketChainTvlContext") EXCEPT
    !.must = {"chain", "tvlUsd", "publishedAt", "fetchedAt", "sourceObservedAt", "stale",
              "dayAt", "change1dPct", "change7dPct", "note"},
    !.easyTime = {"publishedAt", "fetchedAt", "dayAt"}]

MarketDefiContext ==
  [Model("MarketDefiContext") EXCEPT
    !.must = {"chainTvl", "stablecoinSupply"},
    !.easy = {"chainTvl", "stablecoinSupply"}]

MarketDepthContext ==
  [Model("MarketDepthContext") EXCEPT
    !.must = {"venue", "mid", "bid", "ask", "asOf", "ageSeconds", "stale", "note"},
    !.time = {"asOf"},
    !.easy = {"bid", "ask"}]

MarketDepthSide ==
  [Model("MarketDepthSide") EXCEPT
    !.must = {"usd", "reachPct", "levels", "complete"}]

MarketDerivativesContext ==
  [Model("MarketDerivativesContext") EXCEPT
    !.easy = {"fundingByVenue", "openInterest", "positioning", "liquidations", "depth"}]

MarketFundingByVenueContext ==
  [Model("MarketFundingByVenueContext") EXCEPT
    !.must = {"rates", "sameTime", "note"},
    !.strict = {"rates"}]

MarketFundingContext ==
  [Model("MarketFundingContext") EXCEPT
    !.must = {"venue", "symbol", "ratePct", "intervalHours", "annualizedPct",
              "nextFundingTime", "asOf", "ageSeconds", "stale"},
    !.time = {"nextFundingTime", "asOf"}]

MarketFundingVenueRate ==
  [Model("MarketFundingVenueRate") EXCEPT
    !.must = {"role", "venue", "symbol", "source", "rateFraction", "intervalHours",
              "hourlyEquivalentFraction", "nextFundingTime", "fetchedAt", "sourceAt",
              "ageSeconds", "stale", "freshnessBasis"},
    !.strict = {"role", "source", "freshnessBasis"},
    !.time = {"fetchedAt"},
    !.easyTime = {"nextFundingTime"}]

MarketLiquidationContext ==
  [Model("MarketLiquidationContext") EXCEPT
    !.must = {"venue", "instId", "note", "last1h", "last24h", "lastEventAt"},
    !.strict = {"venue", "last1h", "last24h"},
    !.easyTime = {"lastEventAt"}]

MarketLiquidationWindow ==
  [Model("MarketLiquidationWindow") EXCEPT
    !.must = {"longLiquidatedUsdt", "shortLiquidatedUsdt", "events", "capturedPct"}]

MarketMacroContext ==
  [Model("MarketMacroContext") EXCEPT
    !.must = {"note", "quotes"},
    !.strict = {"quotes"}]

MarketMacroQuote ==
  [Model("MarketMacroQuote") EXCEPT
    !.must = {"symbol", "label", "kind", "price", "change24hPct", "asOf", "ageSeconds",
              "stale"},
    !.time = {"asOf"}]

MarketOpenInterestContext ==
  [Model("MarketOpenInterestContext") EXCEPT
    !.must = {"totalUsd", "change1hPct", "change1hVenues", "change24hPct",
              "change24hVenues", "venues", "asOf", "ageSeconds", "stale"},
    !.strict = {"venues"},
    !.time = {"asOf"}]

MarketOpenInterestVenue ==
  [Model("MarketOpenInterestVenue") EXCEPT
    !.must = {"venue", "symbol", "openInterestUsd", "asOf"},
    !.time = {"asOf"}]

MarketPositioningContext ==
  [Model("MarketPositioningContext") EXCEPT
    !.must = {"venue", "symbol", "longShortAccountRatio", "longAccountPct",
              "topTraderPositionRatio", "takerBuySellRatio"},
    !.easy = {"longShortAccountRatio", "longAccountPct", "topTraderPositionRatio",
              "takerBuySellRatio"}]

MarketPositioningMetric ==
  [Model("MarketPositioningMetric") EXCEPT
    !.must = {"value", "asOf", "stale"},
    !.time = {"asOf"}]

MarketStablecoinContext ==
  [Model("MarketStablecoinContext") EXCEPT
    !.must = {"totalUsd", "dayAt", "change1dPct", "change7dPct", "stale", "publishedAt",
              "fetchedAt", "note"},
    !.time = {"dayAt"},
    !.easyTime = {"publishedAt", "fetchedAt"}]

OpenFuturesPositionResponse422 == Model("OpenFuturesPositionResponse422")

OpenOrder ==
  [Model("OpenOrder") EXCEPT
    !.strict = {"side", "orderType"},
    !.time = {"createdAt"}]

OpenPmPositionResponse422 == Model("OpenPmPositionResponse422")

OpportunityCohortContext ==
  [Model("OpportunityCohortContext") EXCEPT
    !.strict = {"kind"},
    !.time = {"capturedAt"}]

PlaceSpotOrderResponse400 == Model("PlaceSpotOrderResponse400")

PlaceSpotOrderResponse404 == Model("PlaceSpotOrderResponse404")

PmDiscoveryMarket ==
  [Model("PmDiscoveryMarket") EXCEPT
    !.strict = {"source", "freshness", "quality", "outcomes", "quoteHint"},
    !.easy = {"decisionSupport", "resolution"},
    !.easyTime = {"endDate"},
    !.deepList = {"resolution"}]

PmDiscoveryOutcome == [Model("PmDiscoveryOutcome") EXCEPT !.strict = {"rules"}]

PmDiscoveryOutcomeRule ==
  [Model("PmDiscoveryOutcomeRule") EXCEPT
    !.must = {"status", "basis", "marketId"},
    !.strict = {"status", "basis", "reason"}]

PmDiscoveryQuoteHint == [Model("PmDiscoveryQuoteHint") EXCEPT !.strict = {"source"}]

PmDiscoveryResolution ==
  [Model("PmDiscoveryResolution") EXCEPT
    !.must = {"published", "rules", "rulesTruncated", "settlementSource",
              "settlementSources"},
    !.strict = {"scope"},
    !.easyList = {"settlementSources"}]

PmDiscoveryResolutionSettlementSourcesType0Item ==
  [Model("PmDiscoveryResolutionSettlementSourcesType0Item") EXCEPT
    !.must = {"name", "url"}]

PmDiscoveryResponse ==
  [Model("PmDiscoveryResponse") EXCEPT
    !.strict = {"data", "pagination", "meta", "observation"},
    !.deepList = {"data"}]

PmDiscoveryResponseMeta ==
  [Model("PmDiscoveryResponseMeta") EXCEPT
    !.strict = {"source", "sources", "sourceHealth"}]

PmDiscoveryResponseMetaSourceHealthItem ==
  [Model("PmDiscoveryResponseMetaSourceHealthItem") EXCEPT
    !.strict = {"status"},
    !.easyTime = {"lastIngestAt"}]

PmOpenRequest ==
  [Model("PmOpenRequest") EXCEPT
    !.must = {"source", "slug", "outcomeExternalMarketId", "stakeMusd", "idempotencyKey"},
    !.strict = {"side", "agentTrace", "provenance"}]

PmOpportunityRequest ==
  [Model("PmOpportunityRequest") EXCEPT
    !.must = {"kind"},
    !.strict = {"kind", "cohort", "agentTrace", "provenance"}]

PmOpportunityResponse ==
  [Model("PmOpportunityResponse") EXCEPT
    !.strict = {"decisionUuid", "opportunityKind", "result"}]

PmPaperV2CloseRequest ==
  [Model("PmPaperV2CloseRequest") EXCEPT
    !.must = {"positionId", "idempotencyKey"},
    !.plain = {"detail"},
    !.open = FALSE]

PmPaperV2CloseResult ==
  [Model("PmPaperV2CloseResult") EXCEPT
    !.must = {"executionModel", "accepted", "executed", "kind"},
    !.strict = {"executionModel", "kind", "intent"}]

PmPaperV2CloseResultIntent ==
  [Model("PmPaperV2CloseResultIntent") EXCEPT
    !.must = {"id", "status"},
    !.strict = {"id", "status"}]

PmPaperV2DiscoveryMarket ==
  [Model("PmPaperV2DiscoveryMarket") EXCEPT
    !.strict = {"source", "freshness", "quality", "outcomes", "quoteHint"},
    !.easy = {"decisionSupport", "resolution"},
    !.easyTime = {"endDate"},
    !.deepList = {"resolution"}]

PmPaperV2DiscoveryOutcome ==
  [Model("PmPaperV2DiscoveryOutcome") EXCEPT
    !.must = {"nativeMarket", "nativeEndAt", "nativeEndBasis", "settlementTimeKnown"},
    !.strict = {"nativeMarket", "nativeEndBasis", "rules"},
    !.easyTime = {"nativeEndAt"}]

PmPaperV2DiscoveryResponse ==
  [Model("PmPaperV2DiscoveryResponse") EXCEPT
    !.must = {"executionModel", "data", "pagination", "meta"},
    !.strict = {"executionModel", "data", "pagination", "meta"},
    !.deepList = {"data"}]

PmPaperV2DiscoveryResponseMeta ==
  [Model("PmPaperV2DiscoveryResponseMeta") EXCEPT
    !.must = {"maxEndDays", "nativeIdentityBasis", "horizonBasis", "evaluatedAt",
              "boundedSelection", "note"},
    !.strict = {"nativeIdentityBasis", "horizonBasis", "boundedSelection", "source",
                "sources", "sourceHealth", "sort"},
    !.time = {"evaluatedAt"}]

PmPaperV2DiscoveryResponseMetaBoundedSelection ==
  [Model("PmPaperV2DiscoveryResponseMetaBoundedSelection") EXCEPT
    !.must = {"requestedEventLimit", "eventsBefore", "outcomesBefore", "eventsAfter",
              "outcomesAfter", "excluded", "allMarketCoverage"},
    !.strict = {"excluded"}]

PmPaperV2DiscoveryResponseMetaSourceHealthItem ==
  [Model("PmPaperV2DiscoveryResponseMetaSourceHealthItem") EXCEPT
    !.strict = {"status"},
    !.easyTime = {"lastIngestAt"}]

PmPaperV2DiscoveryResponsePagination ==
  [Model("PmPaperV2DiscoveryResponsePagination") EXCEPT
    !.strict = {"offset"}]

PmPaperV2Failure ==
  [Model("PmPaperV2Failure") EXCEPT
    !.must = {"executionModel", "accepted", "executed", "reason"},
    !.strict = {"executionModel"}]

PmPaperV2NativeIdentityType0 ==
  [Model("PmPaperV2NativeIdentityType0") EXCEPT
    !.must = {"venue", "market", "tokenId"},
    !.strict = {"venue"}]

PmPaperV2NativeIdentityType1 ==
  [Model("PmPaperV2NativeIdentityType1") EXCEPT
    !.must = {"venue", "requestedTicker", "side"},
    !.strict = {"venue", "side"}]

PmPaperV2NativeMarket ==
  [Model("PmPaperV2NativeMarket") EXCEPT
    !.must = {"venue", "key"},
    !.strict = {"venue"}]

PmPaperV2OpenReplayRequest ==
  [Model("PmPaperV2OpenReplayRequest") EXCEPT
    !.must = {"source", "slug", "outcomeExternalMarketId", "side", "maxCashBudget",
              "idempotencyKey"},
    !.strict = {"source", "side"},
    !.plain = {"forecastProbability", "minEntryProbabilityPct", "thesis"},
    !.open = FALSE]

PmPaperV2OpenRequest ==
  [Model("PmPaperV2OpenRequest") EXCEPT
    !.must = {"source", "slug", "outcomeExternalMarketId", "side", "maxCashBudget",
              "idempotencyKey", "forecastProbability"},
    !.strict = {"source", "side"},
    !.plain = {"minEntryProbabilityPct", "thesis"},
    !.open = FALSE]

PmPaperV2Opened ==
  [Model("PmPaperV2Opened") EXCEPT
    !.must = {"executionModel", "accepted", "executed", "kind", "positionId", "replayed"},
    !.strict = {"executionModel", "kind"}]

PmPaperV2Position ==
  [Model("PmPaperV2Position") EXCEPT
    !.must = {"id", "apiKeyId", "source", "slug", "title", "outcomeExternalMarketId",
              "side", "status", "openedAt", "settledAt", "accountingStatus",
              "quantityUnits2", "reservedCashQuanta6", "payoutQuanta6", "pnlQuanta6",
              "entry", "exit", "terminal"},
    !.strict = {"source", "side", "status", "accountingStatus", "entry"},
    !.time = {"openedAt"},
    !.easy = {"exit", "terminal"},
    !.easyTime = {"settledAt"}]

PmPaperV2PositionEntry ==
  [Model("PmPaperV2PositionEntry") EXCEPT
    !.must = {"nativeIdentity", "quantity", "notional", "netFee", "cashDebit",
              "bookReceivedAt", "bookProviderAt", "feeBasis"},
    !.strict = {"nativeIdentity"},
    !.easyTime = {"bookReceivedAt", "bookProviderAt"}]

PmPaperV2PositionExitType0 ==
  [Model("PmPaperV2PositionExitType0") EXCEPT
    !.must = {"id", "status", "accepted", "executed", "requestedAt", "nextAttemptAt",
              "lastError", "attentionHeld"},
    !.strict = {"id", "status"},
    !.time = {"requestedAt", "nextAttemptAt"}]

PmPaperV2PositionTerminalType0 ==
  [Model("PmPaperV2PositionTerminalType0") EXCEPT
    !.must = {"type", "evidenceBasis", "payoutQuanta6", "pnlQuanta6", "fee", "acquiredAt"},
    !.strict = {"type", "evidenceBasis"},
    !.easyTime = {"acquiredAt"}]

PmPaperV2PositionsResponse ==
  [Model("PmPaperV2PositionsResponse") EXCEPT
    !.must = {"executionModel", "positions", "hasMore", "nextBeforeId", "risk",
              "configuredHouse", "entryEnabled"},
    !.strict = {"executionModel", "positions", "risk"},
    !.easy = {"configuredHouse"}]

PmPaperV2PositionsResponseConfiguredHouseType0 ==
  [Model("PmPaperV2PositionsResponseConfiguredHouseType0") EXCEPT
    !.must = {"userId", "apiKeyId", "walletId", "houseAgentId"}]

PmPaperV2Refused ==
  [Model("PmPaperV2Refused") EXCEPT
    !.must = {"executionModel", "accepted", "executed", "kind", "reason"},
    !.strict = {"executionModel", "kind"}]

PmPaperV2Risk ==
  [Model("PmPaperV2Risk") EXCEPT
    !.must = {"asOf", "dayKey", "totalOpen", "openReservedCashQuanta6", "openedToday",
              "closedToday", "realizedPnlTodayQuanta6", "accountingComplete",
              "legacyExposurePresent"},
    !.strict = {"dayKey"},
    !.time = {"asOf"}]

PmPosition ==
  [Model("PmPosition") EXCEPT
    !.strict = {"outcome", "side", "freshnessAtEntry"},
    !.time = {"createdAt"},
    !.easy = {"entryOutcomesSnapshot"},
    !.easyTime = {"openedAt", "settledAt", "eventEndDate"}]

PmPositionEnvelope == [Model("PmPositionEnvelope") EXCEPT !.strict = {"position"}]

PmQuality == [Model("PmQuality") EXCEPT !.easyTime = {"assessedAt"}]

PmQuoteRequest ==
  [Model("PmQuoteRequest") EXCEPT
    !.must = {"source", "slug", "outcomeExternalMarketId", "stakeMusd"},
    !.strict = {"side", "agentTrace"}]

PmQuoteResponse ==
  [Model("PmQuoteResponse") EXCEPT
    !.strict = {"side", "frozenEntrySnapshot", "freshness", "decisionSupport", "quality",
                "executionModel", "eligibility", "event", "observation"},
    !.easy = {"edgeSizing"}]

RealizedPaperTrade ==
  [Model("RealizedPaperTrade") EXCEPT
    !.must = {"schema", "positionId", "stakeMusd", "realizedPnlMusd", "returnOnStakePct",
              "settledAt", "costBasis", "includedInDecisionHash"},
    !.strict = {"schema", "costBasis"},
    !.time = {"settledAt"}]

ResolveSymbolResponse200 ==
  [Model("ResolveSymbolResponse200") EXCEPT
    !.strict = {"alternatives"},
    !.easy = {"match"}]

RetryableUnavailableError ==
  [Model("RetryableUnavailableError") EXCEPT
    !.must = {"error", "message", "retryAfterSeconds"}]

SetFuturesSlTpBody ==
  [Model("SetFuturesSlTpBody") EXCEPT
    !.must = {"positionId"},
    !.strict = {"agentTrace"}]

SetFuturesSlTpResponse422 == Model("SetFuturesSlTpResponse422")

SpotOrderRequest ==
  [Model("SpotOrderRequest") EXCEPT
    !.must = {"coinId", "side", "orderType", "quantity", "idempotencyKey"},
    !.strict = {"side", "orderType", "agentTrace"}]

SpotOrderResponse == [Model("SpotOrderResponse") EXCEPT !.strict = {"summary"}]

SpotOrderResponseSummary ==
  [Model("SpotOrderResponseSummary") EXCEPT
    !.strict = {"executionModelStatus"},
    !.easy = {"executionModel"}]

SpotPriceTiming ==
  [Model("SpotPriceTiming") EXCEPT
    !.must = {"rowWrittenAt", "sourceObservedAt", "sourceAgeSeconds", "writeLagSeconds",
              "coverage", "basis"},
    !.strict = {"coverage", "basis"},
    !.easyTime = {"rowWrittenAt", "sourceObservedAt"}]

SpotQuoteRequest ==
  [Model("SpotQuoteRequest") EXCEPT
    !.must = {"coinId", "side", "quantity"},
    !.strict = {"side", "agentTrace"}]

SpotQuoteResponse ==
  [Model("SpotQuoteResponse") EXCEPT
    !.strict = {"coin", "side", "orderType", "executionModel", "available", "freshness",
                "priceTiming", "observation"},
    !.time = {"asOf"}]

SpotReferenceFallback ==
  [Model("SpotReferenceFallback") EXCEPT
    !.must = {"basis", "currency", "status", "priceUsd", "priceTiming", "expiresAt"},
    !.strict = {"basis", "currency", "status", "priceTiming"},
    !.easyTime = {"expiresAt"}]

SpotReferenceObservation ==
  [Model("SpotReferenceObservation") EXCEPT
    !.must = {"venue", "market", "basis", "pair", "base", "quoteCurrency", "price",
              "quoteVolume24h", "eventAt", "statisticsCloseAt", "receivedAt", "lastTradeAt",
              "localPriceChangedAt", "capturedAt", "expiresAt", "universeVerifiedAt",
              "universeRevision", "connectionGeneration"},
    !.strict = {"venue", "market", "basis", "quoteCurrency"},
    !.time = {"eventAt", "statisticsCloseAt", "receivedAt", "localPriceChangedAt",
              "capturedAt", "expiresAt", "universeVerifiedAt"}]

SpotReferenceResponse ==
  [Model("SpotReferenceResponse") EXCEPT
    !.must = {"version", "policyVersion", "coin", "evaluatedAt", "referenceOnly",
              "preferredSource", "stream", "fallback", "verification"},
    !.strict = {"version", "coin", "stream", "fallback", "verification"},
    !.time = {"evaluatedAt"},
    !.easy = {"preferredSource"}]

SpotReferenceResponseCoin ==
  [Model("SpotReferenceResponseCoin") EXCEPT
    !.must = {"coinId", "symbol", "name"}]

SpotReferenceResponseVerification ==
  [Model("SpotReferenceResponseVerification") EXCEPT
    !.must = {"identityCheckedAt", "mappingUpdatedAt", "policyUpdatedAt", "policyMode"},
    !.time = {"identityCheckedAt"},
    !.easyTime = {"mappingUpdatedAt", "policyUpdatedAt"}]

SpotReferenceStream ==
  [Model("SpotReferenceStream") EXCEPT
    !.must = {"status", "reason", "observation"},
    !.strict = {"status"},
    !.easy = {"observation"}]

Wallet == [Model("Wallet") EXCEPT !.strict = {"usdt"}, !.easy = {"coin"}]

WalletUsdt == [Model("WalletUsdt") EXCEPT !.strict = {"coinId"}]

WhoamiResponse200 == [Model("WhoamiResponse200") EXCEPT !.strict = {"scopes", "usage"}]

WhoamiResponse200Usage ==
  [Model("WhoamiResponse200Usage") EXCEPT
    !.must = {"period", "requests"}]

TradingModels ==
  {AgentPortfolio, AgentUniverseResponse, AgentUniverseRow, AgentUniverseSector,
    AgentUniverseSectorsResponse, AgentUniverseValidationError,
    CancelSpotOrderResponse200, EdgeSizing, EntryContext, Error, Freshness,
    FuturesCloseRequest, FuturesFundingQuote, FuturesFundingSource, FuturesOpenRequest,
    FuturesPerpetualReference, FuturesPosition, FuturesPositionEnvelope,
    FuturesQuoteRequest, FuturesQuoteResponse, FuturesQuoteResponseFillType0,
    GetAgentNewsResponse200, GetAgentNewsResponse200ItemsItem, GetCandlesResponse200,
    GetEquityCurveResponse200, GetEquityCurveResponse200PointsItem,
    GetEquityCurveResponse200Window, GetFuturesPositionsResponse200,
    GetMarketContextResponse200, GetMarketContextResponse200FearGreedType0,
    GetMarketContextResponse200FuturesEntryEligibility,
    GetMarketContextResponse200PriceType0, GetMarketContextResponse200RelatedMarketsItem,
    GetMarketContextResponse200Sentiment, GetMyTradesResponse200,
    GetMyTradesResponse200TradesItem, GetPerformanceResponse200,
    GetPerformanceResponse200ByVenue, GetPmPaperV2PositionsResponse503,
    GetPmPositionsResponse200, GetSpotReferenceResponse404, ListOpenOrdersResponse200,
    MarketChainTvlContext, MarketDefiContext, MarketDepthContext, MarketDepthSide,
    MarketDerivativesContext, MarketFundingByVenueContext, MarketFundingContext,
    MarketFundingVenueRate, MarketLiquidationContext, MarketLiquidationWindow,
    MarketMacroContext, MarketMacroQuote, MarketOpenInterestContext,
    MarketOpenInterestVenue, MarketPositioningContext, MarketPositioningMetric,
    MarketStablecoinContext, OpenFuturesPositionResponse422, OpenOrder,
    OpenPmPositionResponse422, OpportunityCohortContext, PlaceSpotOrderResponse400,
    PlaceSpotOrderResponse404, PmDiscoveryMarket, PmDiscoveryOutcome,
    PmDiscoveryOutcomeRule, PmDiscoveryQuoteHint, PmDiscoveryResolution,
    PmDiscoveryResolutionSettlementSourcesType0Item, PmDiscoveryResponse,
    PmDiscoveryResponseMeta, PmDiscoveryResponseMetaSourceHealthItem, PmOpenRequest,
    PmOpportunityRequest, PmOpportunityResponse, PmPaperV2CloseRequest,
    PmPaperV2CloseResult, PmPaperV2CloseResultIntent, PmPaperV2DiscoveryMarket,
    PmPaperV2DiscoveryOutcome, PmPaperV2DiscoveryResponse,
    PmPaperV2DiscoveryResponseMeta, PmPaperV2DiscoveryResponseMetaBoundedSelection,
    PmPaperV2DiscoveryResponseMetaSourceHealthItem, PmPaperV2DiscoveryResponsePagination,
    PmPaperV2Failure, PmPaperV2NativeIdentityType0, PmPaperV2NativeIdentityType1,
    PmPaperV2NativeMarket, PmPaperV2OpenReplayRequest, PmPaperV2OpenRequest,
    PmPaperV2Opened, PmPaperV2Position, PmPaperV2PositionEntry,
    PmPaperV2PositionExitType0, PmPaperV2PositionTerminalType0,
    PmPaperV2PositionsResponse, PmPaperV2PositionsResponseConfiguredHouseType0,
    PmPaperV2Refused, PmPaperV2Risk, PmPosition, PmPositionEnvelope, PmQuality,
    PmQuoteRequest, PmQuoteResponse, RealizedPaperTrade, ResolveSymbolResponse200,
    RetryableUnavailableError, SetFuturesSlTpBody, SetFuturesSlTpResponse422,
    SpotOrderRequest, SpotOrderResponse, SpotOrderResponseSummary, SpotPriceTiming,
    SpotQuoteRequest, SpotQuoteResponse, SpotReferenceFallback, SpotReferenceObservation,
    SpotReferenceResponse, SpotReferenceResponseCoin, SpotReferenceResponseVerification,
    SpotReferenceStream, Wallet, WalletUsdt, WhoamiResponse200, WhoamiResponse200Usage}
=============================================================================
