------------------------- MODULE SdkPublicPmModels --------------------------
(***************************************************************************)
(* Models of the keyless prediction-market data.  Each definition says of  *)
(* a class of coinrithm_sdk/models what its from_dict demands and converts *)
(* (SdkCodec).  Classes of which every attribute is optional and taken as  *)
(* it is are left out.                                                     *)
(***************************************************************************)
EXTENDS SdkCodec

GetPublicPredictionMarketConsensusMethodologyResponse200 ==
  [Model("GetPublicPredictionMarketConsensusMethodologyResponse200") EXCEPT
    !.strict = {"schema", "methodology"}]

GetPublicPredictionMarketConsensusMethodologyResponse200Methodology ==
  [Model("GetPublicPredictionMarketConsensusMethodologyResponse200Methodology") EXCEPT
    !.strict = {"weighting", "estimator", "previousVersions"}]

GetPublicPredictionMarketConsensusMethodologyResponse200MethodologyWeighting ==
  [Model("GetPublicPredictionMarketConsensusMethodologyResponse200MethodologyWeighting") EXCEPT
    !.strict = {"basis"}]

GetPublicPredictionMarketPriceHistoryResponse200 ==
  [Model("GetPublicPredictionMarketPriceHistoryResponse200") EXCEPT
    !.must = {"source", "slug", "interval", "points"},
    !.strict = {"points"},
    !.easy = {"outcome"}]

GetPublicPredictionMarketPriceHistoryResponse200PointsItem ==
  [Model("GetPublicPredictionMarketPriceHistoryResponse200PointsItem") EXCEPT
    !.must = {"t", "p"}]

GetPublicPredictionMarketWhaleWalletResponse200 ==
  [Model("GetPublicPredictionMarketWhaleWalletResponse200") EXCEPT
    !.strict = {"summary30d", "rollup", "daily", "topEvents30d", "recentFills", "meta"},
    !.time = {"asOf"},
    !.easy = {"enrichment"}]

GetPublicPredictionMarketWhaleWalletsResponse200 ==
  [Model("GetPublicPredictionMarketWhaleWalletsResponse200") EXCEPT
    !.strict = {"window", "wallets"}]

GetPublicPredictionMarketWhaleWalletsResponse200WalletsItem ==
  [Model("GetPublicPredictionMarketWhaleWalletsResponse200WalletsItem") EXCEPT
    !.strict = {"venues"},
    !.easyTime = {"firstSeen", "lastSeen"}]

PublicPmCalibrationResponse ==
  [Model("PublicPmCalibrationResponse") EXCEPT
    !.must = {"leadHours", "minSample", "scored", "pending"},
    !.strict = {"scored", "pending", "finalPrice", "ownCapture"},
    !.plain = {"methodology", "methodologyVersion"},
    !.open = FALSE]

PublicPmCalibrationResponsePendingItem ==
  [Model("PublicPmCalibrationResponsePendingItem") EXCEPT
    !.strict = {"excluded"}]

PublicPmCalibrationResponseScoredItem ==
  [Model("PublicPmCalibrationResponseScoredItem") EXCEPT
    !.strict = {"excluded", "reliability"}]

PublicPmCalibrationSeries ==
  [Model("PublicPmCalibrationSeries") EXCEPT
    !.must = {"methodology", "minSample", "scored"},
    !.strict = {"scored"}]

PublicPmCalibrationSeriesScoredItem ==
  [Model("PublicPmCalibrationSeriesScoredItem") EXCEPT
    !.strict = {"reliability", "byYear"}]

PublicPmCanonicalConsensus ==
  [Model("PublicPmCanonicalConsensus") EXCEPT
    !.must = {"kind", "outcomeName", "probability", "venueCount", "spreadPoints",
              "computedAt", "methodologyVersion", "listings"},
    !.strict = {"kind", "listings"},
    !.time = {"computedAt"},
    !.easy = {"weightBasis"},
    !.open = FALSE,
    !.shut = {"listings"}]

PublicPmCanonicalConsensusListingsItem ==
  [Model("PublicPmCanonicalConsensusListingsItem") EXCEPT
    !.must = {"source", "eventSlug"},
    !.open = FALSE]

PublicPmCanonicalConsensusPoint ==
  [Model("PublicPmCanonicalConsensusPoint") EXCEPT
    !.must = {"day", "kind", "outcomeName", "probability", "venueCount", "spreadPoints"},
    !.strict = {"day", "kind"},
    !.easy = {"weightBasis"},
    !.plain = {"methodologyVersion"},
    !.open = FALSE]

PublicPmCanonicalDetailResponse ==
  [Model("PublicPmCanonicalDetailResponse") EXCEPT
    !.must = {"canonical", "members", "lineage"},
    !.strict = {"canonical", "members", "lineage", "consensusHistory"},
    !.easy = {"mergedInto", "consensus"},
    !.open = FALSE,
    !.shut = {"consensus", "consensusHistory"}]

PublicPmCanonicalDetailResponseMembersItem ==
  [Model("PublicPmCanonicalDetailResponseMembersItem") EXCEPT
    !.strict = {"orientation"}]

PublicPmCanonicalListResponse ==
  [Model("PublicPmCanonicalListResponse") EXCEPT
    !.must = {"data", "pagination"},
    !.strict = {"data", "pagination"},
    !.open = FALSE]

PublicPmCanonicalListResponseDataItem ==
  [Model("PublicPmCanonicalListResponseDataItem") EXCEPT
    !.time = {"createdAt", "updatedAt"}]

PublicPmComparison ==
  [Model("PublicPmComparison") EXCEPT
    !.strict = {"summary", "outcomes"}]

PublicPmComparisonOutcome ==
  [Model("PublicPmComparisonOutcome") EXCEPT
    !.strict = {"pairing"}]

PublicPmCoverage ==
  [Model("PublicPmCoverage") EXCEPT
    !.strict = {"completenessClass"},
    !.time = {"computedAt"},
    !.easy = {"catalogFirstSeenDay", "probabilityHistoryStartDay", "historyStartDay",
              "missingFieldRates"},
    !.easyTime = {"lastFullReconciliationAt"}]

PublicPmDisagreementsResponse ==
  [Model("PublicPmDisagreementsResponse") EXCEPT
    !.must = {"data", "total", "hasMore", "pagination"},
    !.strict = {"data", "pagination", "meta"},
    !.open = FALSE]

PublicPmDisagreementsResponseDataItem ==
  [Model("PublicPmDisagreementsResponseDataItem") EXCEPT
    !.strict = {"comparisons"}]

PublicPmDisagreementsResponseDataItemComparisonsItem ==
  [Model("PublicPmDisagreementsResponseDataItemComparisonsItem") EXCEPT
    !.strict = {"pair"}]

PublicPmDisagreementsResponseDataItemComparisonsItemPair ==
  [Model("PublicPmDisagreementsResponseDataItemComparisonsItemPair") EXCEPT
    !.strict = {"comparison"}]

PublicPmEvent ==
  [Model("PublicPmEvent") EXCEPT
    !.must = {"id", "slug", "title", "status", "source", "outcomes"},
    !.strict = {"source", "outcomes", "freshness", "openInterestBasis",
                "representativeOutcomeBasis", "crossPlatform", "availability"},
    !.easy = {"probabilityBook", "representativeOutcome", "referenceProbability",
              "decisionSupport", "quality"},
    !.easyTime = {"startDate", "endDate", "resolvedAt"},
    !.deepShut = {"outcomes", "representativeOutcome"}]

PublicPmEventAvailability ==
  [Model("PublicPmEventAvailability") EXCEPT
    !.must = {"status", "lastCollectedAt"},
    !.strict = {"status"},
    !.easyTime = {"lastCollectedAt"}]

PublicPmEventDetailResponse ==
  [Model("PublicPmEventDetailResponse") EXCEPT
    !.must = {"event"},
    !.strict = {"event", "snapshots", "relatedEvents", "crossSourceMatches",
                "volumeHistory", "relatedNews", "recentWhaleTrades", "detailMode"},
    !.easy = {"resolution"},
    !.deepShut = {"event", "relatedEvents"}]

PublicPmEventDetailResponseCrossSourceMatchesItem ==
  [Model("PublicPmEventDetailResponseCrossSourceMatchesItem") EXCEPT
    !.strict = {"comparison"}]

PublicPmEventHolder ==
  [Model("PublicPmEventHolder") EXCEPT
    !.must = {"wallet", "walletShort", "shares"}]

PublicPmEventHoldersResponse ==
  [Model("PublicPmEventHoldersResponse") EXCEPT
    !.must = {"source", "slug", "available"},
    !.strict = {"reason", "provider", "outcomes"},
    !.time = {"asOf"}]

PublicPmEventHoldersResponseOutcomesItem ==
  [Model("PublicPmEventHoldersResponseOutcomesItem") EXCEPT
    !.strict = {"holders"}]

PublicPmEventRevision ==
  [Model("PublicPmEventRevision") EXCEPT
    !.strict = {"evidence"},
    !.time = {"observedAt"},
    !.easyTime = {"effectiveAt"}]

PublicPmEventRevisionsResponse ==
  [Model("PublicPmEventRevisionsResponse") EXCEPT
    !.must = {"subjectKey", "revisions"},
    !.strict = {"revisions", "reconstructed"},
    !.time = {"asOf"}]

PublicPmEventsResponse ==
  [Model("PublicPmEventsResponse") EXCEPT
    !.must = {"data", "pagination"},
    !.strict = {"data", "pagination", "meta"},
    !.open = FALSE,
    !.deepShut = {"data"}]

PublicPmExpiringEventsResponse ==
  [Model("PublicPmExpiringEventsResponse") EXCEPT
    !.must = {"data", "pagination", "meta"},
    !.strict = {"data", "pagination", "meta"},
    !.open = FALSE,
    !.shut = {"meta"},
    !.deepShut = {"data"}]

PublicPmExpiringEventsResponseMeta ==
  [Model("PublicPmExpiringEventsResponseMeta") EXCEPT
    !.must = {"totalExpiring", "window"},
    !.strict = {"window"},
    !.shut = {"window"}]

PublicPmExpiringEventsResponseMetaWindow ==
  [Model("PublicPmExpiringEventsResponseMetaWindow") EXCEPT
    !.must = {"from", "to"},
    !.time = {"from", "to"},
    !.open = FALSE]

PublicPmOrderBookAskEvidence ==
  [Model("PublicPmOrderBookAskEvidence") EXCEPT
    !.must = {"validated", "receivedAt"},
    !.time = {"receivedAt"},
    !.open = FALSE]

PublicPmOrderBookLevel ==
  [Model("PublicPmOrderBookLevel") EXCEPT
    !.must = {"price", "size"},
    !.open = FALSE]

PublicPmOrderBookResponse ==
  [Model("PublicPmOrderBookResponse") EXCEPT
    !.must = {"source", "slug", "outcome", "orderBook"},
    !.strict = {"source"},
    !.easy = {"outcome", "orderBook"},
    !.open = FALSE,
    !.shut = {"orderBook"}]

PublicPmOrderBookType0 ==
  [Model("PublicPmOrderBookType0") EXCEPT
    !.must = {"bid", "ask", "spread", "midpoint", "bids", "asks"},
    !.strict = {"bids", "asks", "askEvidence", "sideEvidence"},
    !.easyTime = {"receivedAt"},
    !.shut = {"askEvidence", "asks", "bids"}]

PublicPmOutcome ==
  [Model("PublicPmOutcome") EXCEPT
    !.must = {"name"},
    !.strict = {"venueTerms"},
    !.easy = {"sourceObservation", "lifecycle", "priorProbability", "quoteEvidence"},
    !.shut = {"sourceObservation", "venueTerms"}]

PublicPmOutcomeLifecycleType0 ==
  [Model("PublicPmOutcomeLifecycleType0") EXCEPT
    !.strict = {"state", "basis"},
    !.easy = {"result"},
    !.easyTime = {"closedAt", "resolvedAt", "observedAt"}]

PublicPmOutcomePairing ==
  [Model("PublicPmOutcomePairing") EXCEPT
    !.must = {"method", "confidence", "reason", "eventAName", "eventBName"}]

PublicPmOutcomePriorProbabilityType0 ==
  [Model("PublicPmOutcomePriorProbabilityType0") EXCEPT
    !.time = {"asOf", "cutoff"}]

PublicPmOutcomeSourceObservationType0 ==
  [Model("PublicPmOutcomeSourceObservationType0") EXCEPT
    !.must = {"version", "basis", "provider"},
    !.strict = {"basis", "provider"},
    !.easy = {"tradeDate"},
    !.easyTime = {"observedAt"},
    !.open = FALSE]

PublicPmOutcomeVenueTerms ==
  [Model("PublicPmOutcomeVenueTerms") EXCEPT
    !.must = {"orderMinSize", "tickSize", "feesEnabled", "canCloseEarly",
              "settlementTimerSeconds"},
    !.open = FALSE]

\* An item of categories is an object or kept as it came: any list of them reads.
PublicPmOverviewResponse ==
  [Model("PublicPmOverviewResponse") EXCEPT
    !.must = {"stats", "highlights", "categories", "bySource", "byCategory", "updatedAt"},
    !.strict = {"stats", "highlights", "categories", "bySource", "byCategory"},
    !.time = {"updatedAt"},
    !.open = FALSE,
    !.deepShut = {"highlights"}]

PublicPmPagination ==
  [Model("PublicPmPagination") EXCEPT
    !.must = {"limit", "offset", "hasMore"}]

PublicPmPricesHistoryResponse ==
  [Model("PublicPmPricesHistoryResponse") EXCEPT
    !.must = {"interval", "markets"},
    !.strict = {"markets", "freshness"}]

PublicPmPricesHistoryResponseFreshness ==
  [Model("PublicPmPricesHistoryResponseFreshness") EXCEPT
    !.must = {"status", "reason", "storedMarkets"},
    !.strict = {"status", "reason"}]

PublicPmPricesHistoryResponseMarketsItem ==
  [Model("PublicPmPricesHistoryResponseMarketsItem") EXCEPT
    !.must = {"market", "history"},
    !.strict = {"history", "historySource"},
    !.time = {"asOf"}]

PublicPmPricesHistoryResponseMarketsItemHistoryItem ==
  [Model("PublicPmPricesHistoryResponseMarketsItemHistoryItem") EXCEPT
    !.must = {"t", "p"}]

PublicPmResolutionOutcome ==
  [Model("PublicPmResolutionOutcome") EXCEPT
    !.must = {"externalMarketId", "name", "probability", "basis"}]

PublicPmResolvedEntry ==
  [Model("PublicPmResolvedEntry") EXCEPT
    !.must = {"event", "resolvedAtVerified", "resolutionOutcome"},
    !.strict = {"event", "resolutionOutcome"},
    !.easyTime = {"resolvedAt", "closedAt"},
    !.deepShut = {"event"}]

PublicPmResolvedEventsResponse ==
  [Model("PublicPmResolvedEventsResponse") EXCEPT
    !.must = {"data", "pagination", "meta"},
    !.strict = {"data", "pagination", "meta"},
    !.open = FALSE,
    !.shut = {"meta"},
    !.deepShut = {"data"}]

PublicPmResolvedEventsResponseMeta ==
  [Model("PublicPmResolvedEventsResponseMeta") EXCEPT
    !.must = {"totalResolved", "minVolume", "period"},
    !.easy = {"period"},
    !.shut = {"period"}]

PublicPmResolvedEventsResponseMetaPeriodType0 ==
  [Model("PublicPmResolvedEventsResponseMetaPeriodType0") EXCEPT
    !.plain = {"year", "month"},
    !.open = FALSE]

PublicPmSource ==
  [Model("PublicPmSource") EXCEPT
    !.must = {"id", "name"},
    !.strict = {"id"}]

PublicPmSourcesHealthResponse ==
  [Model("PublicPmSourcesHealthResponse") EXCEPT
    !.must = {"asOf", "summary", "degraded", "sources"},
    !.strict = {"summary", "degraded", "sources", "thresholds", "enrichment"},
    !.time = {"asOf"},
    !.open = FALSE]

PublicPmSourcesHealthResponseSourcesItem ==
  [Model("PublicPmSourcesHealthResponseSourcesItem") EXCEPT
    !.strict = {"id", "catalog"},
    !.easyTime = {"lastIngestAt"}]

PublicPmSourcesResponse ==
  [Model("PublicPmSourcesResponse") EXCEPT
    !.must = {"sources"},
    !.strict = {"sources"}]

PublicPmSourcesResponseSourcesItem ==
  [Model("PublicPmSourcesResponseSourcesItem") EXCEPT
    !.easy = {"coverage"}]

PublicPmSurpriseEntry ==
  [Model("PublicPmSurpriseEntry") EXCEPT
    !.must = {"event", "resolvedAtVerified", "resolutionOutcome", "surprise"},
    !.strict = {"event", "resolutionOutcome", "surprise"},
    !.easyTime = {"resolvedAt", "closedAt"},
    !.deepShut = {"event"}]

PublicPmSurpriseEntrySurprise ==
  [Model("PublicPmSurpriseEntrySurprise") EXCEPT
    !.must = {"t24hProbability", "t7dProbability"}]

PublicPmSurprisesResponse ==
  [Model("PublicPmSurprisesResponse") EXCEPT
    !.must = {"data", "window", "pagination"},
    !.strict = {"data", "pagination"},
    !.open = FALSE,
    !.deepShut = {"data"}]

PublicPmTrade ==
  [Model("PublicPmTrade") EXCEPT
    !.must = {"side", "price", "size", "usdValue", "outcome", "who", "timestamp"},
    !.time = {"timestamp"}]

PublicPmTradesResponse ==
  [Model("PublicPmTradesResponse") EXCEPT
    !.must = {"source", "slug", "outcome", "trades"},
    !.strict = {"source", "trades"},
    !.easy = {"outcome"},
    !.open = FALSE]

PublicPmVolumeHistoryResponse ==
  [Model("PublicPmVolumeHistoryResponse") EXCEPT
    !.must = {"days", "updatedAt"},
    !.strict = {"days", "meta"},
    !.time = {"updatedAt"},
    !.open = FALSE]

PublicPmVolumeHistoryResponseDaysItem ==
  [Model("PublicPmVolumeHistoryResponseDaysItem") EXCEPT
    !.strict = {"bySource"}]

PublicPmWhaleStats24H ==
  [Model("PublicPmWhaleStats24H") EXCEPT
    !.must = {"count", "totalUsd", "maxUsd", "bySource"},
    !.strict = {"bySource"},
    !.easy = {"maxTrade"}]

PublicPmWhaleTrade ==
  [Model("PublicPmWhaleTrade") EXCEPT
    !.must = {"source", "eventSlug", "side", "outcome", "usdValue", "price", "evidenceType",
              "availability", "observedAt"},
    !.strict = {"source", "availability", "event"},
    !.time = {"observedAt"},
    !.easyTime = {"tradedAt"}]

PublicPmWhaleTradeEvent ==
  [Model("PublicPmWhaleTradeEvent") EXCEPT
    !.easy = {"marketOutcomes"}]

PublicPmWhaleTradeEventMarketOutcomesType0 ==
  [Model("PublicPmWhaleTradeEventMarketOutcomesType0") EXCEPT
    !.strict = {"top"}]

PublicPmWhalesResponse ==
  [Model("PublicPmWhalesResponse") EXCEPT
    !.must = {"trades", "coverage"},
    !.strict = {"trades", "coverage", "minUsd", "stats24h"},
    !.open = FALSE]

PublicPmModels ==
  {GetPublicPredictionMarketConsensusMethodologyResponse200,
    GetPublicPredictionMarketConsensusMethodologyResponse200Methodology,
    GetPublicPredictionMarketConsensusMethodologyResponse200MethodologyWeighting,
    GetPublicPredictionMarketPriceHistoryResponse200,
    GetPublicPredictionMarketPriceHistoryResponse200PointsItem,
    GetPublicPredictionMarketWhaleWalletResponse200,
    GetPublicPredictionMarketWhaleWalletsResponse200,
    GetPublicPredictionMarketWhaleWalletsResponse200WalletsItem,
    PublicPmCalibrationResponse, PublicPmCalibrationResponsePendingItem,
    PublicPmCalibrationResponseScoredItem, PublicPmCalibrationSeries,
    PublicPmCalibrationSeriesScoredItem, PublicPmCanonicalConsensus,
    PublicPmCanonicalConsensusListingsItem, PublicPmCanonicalConsensusPoint,
    PublicPmCanonicalDetailResponse, PublicPmCanonicalDetailResponseMembersItem,
    PublicPmCanonicalListResponse, PublicPmCanonicalListResponseDataItem,
    PublicPmComparison, PublicPmComparisonOutcome, PublicPmCoverage,
    PublicPmDisagreementsResponse, PublicPmDisagreementsResponseDataItem,
    PublicPmDisagreementsResponseDataItemComparisonsItem,
    PublicPmDisagreementsResponseDataItemComparisonsItemPair, PublicPmEvent,
    PublicPmEventAvailability, PublicPmEventDetailResponse,
    PublicPmEventDetailResponseCrossSourceMatchesItem, PublicPmEventHolder,
    PublicPmEventHoldersResponse, PublicPmEventHoldersResponseOutcomesItem,
    PublicPmEventRevision, PublicPmEventRevisionsResponse, PublicPmEventsResponse,
    PublicPmExpiringEventsResponse, PublicPmExpiringEventsResponseMeta,
    PublicPmExpiringEventsResponseMetaWindow, PublicPmOrderBookAskEvidence,
    PublicPmOrderBookLevel, PublicPmOrderBookResponse, PublicPmOrderBookType0,
    PublicPmOutcome, PublicPmOutcomeLifecycleType0, PublicPmOutcomePairing,
    PublicPmOutcomePriorProbabilityType0, PublicPmOutcomeSourceObservationType0,
    PublicPmOutcomeVenueTerms, PublicPmOverviewResponse, PublicPmPagination,
    PublicPmPricesHistoryResponse, PublicPmPricesHistoryResponseFreshness,
    PublicPmPricesHistoryResponseMarketsItem,
    PublicPmPricesHistoryResponseMarketsItemHistoryItem, PublicPmResolutionOutcome,
    PublicPmResolvedEntry, PublicPmResolvedEventsResponse,
    PublicPmResolvedEventsResponseMeta, PublicPmResolvedEventsResponseMetaPeriodType0,
    PublicPmSource, PublicPmSourcesHealthResponse,
    PublicPmSourcesHealthResponseSourcesItem, PublicPmSourcesResponse,
    PublicPmSourcesResponseSourcesItem, PublicPmSurpriseEntry,
    PublicPmSurpriseEntrySurprise, PublicPmSurprisesResponse, PublicPmTrade,
    PublicPmTradesResponse, PublicPmVolumeHistoryResponse,
    PublicPmVolumeHistoryResponseDaysItem, PublicPmWhaleStats24H, PublicPmWhaleTrade,
    PublicPmWhaleTradeEvent, PublicPmWhaleTradeEventMarketOutcomesType0,
    PublicPmWhalesResponse}
=============================================================================
