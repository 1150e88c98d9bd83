-------------------------- MODULE SdkPublicModels ---------------------------
(***************************************************************************)
(* Models of the keyless crypto and TradFi data.  Each definition says of  *)
(* a class of coinrithm_sdk/models what its from_dict demands and converts *)
(* (SdkCodec).  Classes of which every attribute is optional and taken as  *)
(* it is are left out.                                                     *)
(***************************************************************************)
EXTENDS SdkCodec

PublicCftcChange ==
  [Model("PublicCftcChange") EXCEPT
    !.must = {"openInterest", "nonCommercialNet", "commercialNet"}]

PublicCftcContract ==
  [Model("PublicCftcContract") EXCEPT
    !.must = {"code", "market", "exchange", "units"}]

PublicCftcNonCommercialSide ==
  [Model("PublicCftcNonCommercialSide") EXCEPT
    !.must = {"long", "short", "net", "spreading"}]

PublicCftcPositioningResponse ==
  [Model("PublicCftcPositioningResponse") EXCEPT
    !.must = {"ticker", "coverage", "status", "contract", "reports", "asOf", "source",
              "meta"},
    !.strict = {"coverage", "status", "reports", "source", "meta"},
    !.easy = {"contract"},
    !.easyTime = {"asOf"}]

PublicCftcReport ==
  [Model("PublicCftcReport") EXCEPT
    !.must = {"reportDate", "openInterest", "nonCommercial", "commercial", "nonReportable",
              "change"},
    !.strict = {"nonCommercial", "commercial", "change"},
    !.easy = {"nonReportable"}]

PublicCftcSide == [Model("PublicCftcSide") EXCEPT !.must = {"long", "short", "net"}]

PublicCftcSource ==
  [Model("PublicCftcSource") EXCEPT
    !.must = {"name", "url", "publisher", "dataset", "datasetUrl", "note"}]

PublicCoinCandle ==
  [Model("PublicCoinCandle") EXCEPT
    !.must = {"t", "o", "h", "l", "c", "v"}]

PublicCoinCandles ==
  [Model("PublicCoinCandles") EXCEPT
    !.must = {"coin", "range", "fiat", "rateToUsd", "candles"},
    !.strict = {"coin", "range", "candles"}]

PublicCoinDetail ==
  [Model("PublicCoinDetail") EXCEPT
    !.must = {"ucid", "slug", "symbol", "name", "priceUpdatedAt", "priceAgeHours",
              "priceStale", "priceStaleAfterHours"},
    !.strict = {"socials"},
    !.easy = {"infoLinks"},
    !.easyTime = {"priceUpdatedAt", "athDate", "atlDate"},
    !.easyList = {"chains", "categories", "notices"}]

PublicCoinDetailChainsType0Item ==
  [Model("PublicCoinDetailChainsType0Item") EXCEPT
    !.strict = {"translations"}]

PublicCoinGeckoAttribution ==
  [Model("PublicCoinGeckoAttribution") EXCEPT
    !.must = {"name", "url", "attribution"}]

PublicCoinListItem ==
  [Model("PublicCoinListItem") EXCEPT
    !.must = {"ucid", "slug", "symbol", "name", "marketCapRank", "isActive"},
    !.strict = {"socials", "categories", "coinChains"},
    !.time = {"createdAt", "updatedAt"},
    !.easy = {"infoLinks"},
    !.easyTime = {"priceHistoryValidFrom"}]

PublicCoinListItemCategoriesItem ==
  [Model("PublicCoinListItemCategoriesItem") EXCEPT
    !.strict = {"translations"}]

PublicCoinListItemCoinChainsItem ==
  [Model("PublicCoinListItemCoinChainsItem") EXCEPT
    !.strict = {"chain"}]

PublicCoinListItemCoinChainsItemChain ==
  [Model("PublicCoinListItemCoinChainsItemChain") EXCEPT
    !.strict = {"translations"}]

PublicCoinListResponse ==
  [Model("PublicCoinListResponse") EXCEPT
    !.must = {"data", "totalRows"},
    !.strict = {"data"}]

PublicCoinPrice ==
  [Model("PublicCoinPrice") EXCEPT
    !.must = {"ucid", "slug", "symbol", "name", "priceUpdatedAt", "priceAgeHours",
              "priceStale", "priceStaleAfterHours"},
    !.easyTime = {"priceUpdatedAt", "athDate", "atlDate"}]

PublicCoinTranslatedName ==
  [Model("PublicCoinTranslatedName") EXCEPT
    !.strict = {"translations"}]

PublicCryptoMover ==
  [Model("PublicCryptoMover") EXCEPT
    !.must = {"ucid", "symbol", "name", "slug", "change24h", "currentPrice"},
    !.easyTime = {"priceUpdatedAt"},
    !.plain = {"priceAgeHours", "priceStale", "priceStaleAfterHours"},
    !.open = FALSE]

PublicCryptoTreasuryCompany ==
  [Model("PublicCryptoTreasuryCompany") EXCEPT
    !.must = {"name", "symbol", "country", "holdings", "valueUsd", "pctOfSupply",
              "tradfiTicker"}]

PublicCryptoTreasuryResponse ==
  [Model("PublicCryptoTreasuryResponse") EXCEPT
    !.must = {"coin", "status", "totalHoldings", "totalValueUsd", "companies", "asOf",
              "source", "meta"},
    !.strict = {"status", "companies", "source", "meta"},
    !.easyTime = {"asOf"}]

PublicFreshUntilMeta ==
  [Model("PublicFreshUntilMeta") EXCEPT
    !.must = {"freshUntil"},
    !.time = {"freshUntil"}]

PublicInstrumentMarketContract ==
  [Model("PublicInstrumentMarketContract") EXCEPT
    !.must = {"label", "comparator", "unit", "tradedRecently"},
    !.strict = {"comparator", "parse"}]

PublicInstrumentMarketGroup ==
  [Model("PublicInstrumentMarketGroup") EXCEPT
    !.must = {"expiresAt", "settlementSource", "settlementNote", "ladders"},
    !.strict = {"ladders"},
    !.time = {"expiresAt"}]

PublicInstrumentMarketLadder ==
  [Model("PublicInstrumentMarketLadder") EXCEPT
    !.must = {"venue", "venueName", "series", "expiresAt", "observation",
              "settlementSource", "settlementNote", "referenceRelation", "monotonic",
              "contracts"},
    !.strict = {"observation", "contracts", "events"},
    !.time = {"expiresAt"},
    !.easyTime = {"windowStartAt", "asOf"}]

PublicInstrumentMarkets ==
  [Model("PublicInstrumentMarkets") EXCEPT
    !.must = {"version", "instrument", "reference", "generatedAt", "horizon", "groups",
              "crossVenue", "shortTerm", "coverage", "disclaimer"},
    !.strict = {"instrument", "reference", "horizon", "groups", "crossVenue", "shortTerm",
                "coverage", "meta"},
    !.time = {"generatedAt"}]

PublicInstrumentMarketsCoverage ==
  [Model("PublicInstrumentMarketsCoverage") EXCEPT
    !.must = {"venues", "ladders", "contracts", "truncated"}]

PublicInstrumentMarketsInstrument ==
  [Model("PublicInstrumentMarketsInstrument") EXCEPT
    !.must = {"type", "id", "symbol", "name"}]

PublicInstrumentMarketsMeta ==
  [Model("PublicInstrumentMarketsMeta") EXCEPT
    !.time = {"freshUntil"}]

PublicInstrumentMarketsReference ==
  [Model("PublicInstrumentMarketsReference") EXCEPT
    !.must = {"kind", "key"},
    !.strict = {"kind"}]

PublicInstrumentMarketsShortTerm ==
  [Model("PublicInstrumentMarketsShortTerm") EXCEPT
    !.must = {"upDownOpen"},
    !.strict = {"venues", "items"},
    !.easyTime = {"nextExpiresAt"}]

PublicLargeTrade ==
  [Model("PublicLargeTrade") EXCEPT
    !.must = {"id", "venue", "symbol", "base", "assetClass", "side", "price", "qty",
              "notionalUsd", "fills", "thresholdUsd", "tradeTime", "ingestedAt", "buyer",
              "seller", "links"},
    !.strict = {"links"},
    !.time = {"tradeTime", "ingestedAt"},
    !.easy = {"taker"}]

PublicLargeTradeLinks ==
  [Model("PublicLargeTradeLinks") EXCEPT
    !.must = {"market", "buyer", "seller", "tx"}]

PublicLargeTradeTaker ==
  [Model("PublicLargeTradeTaker") EXCEPT
    !.must = {"address", "action", "dir", "filledQty", "realizedPnlUsd", "feeUsd",
              "positionNow"},
    !.easy = {"positionNow"}]

PublicLargeTradeTakerPosition ==
  [Model("PublicLargeTradeTakerPosition") EXCEPT
    !.must = {"size", "avgEntryPrice", "leverage", "liquidationPrice", "unrealizedPnlUsd",
              "asOf"},
    !.time = {"asOf"}]

PublicLargeTradesFilters ==
  [Model("PublicLargeTradesFilters") EXCEPT
    !.must = {"symbol", "venue", "assetClass", "limit"}]

PublicLargeTradesResponse ==
  [Model("PublicLargeTradesResponse") EXCEPT
    !.must = {"version", "generatedAt", "filters", "count", "items", "source"},
    !.strict = {"filters", "items", "source"},
    !.time = {"generatedAt"}]

PublicLiquidationEvent ==
  [Model("PublicLiquidationEvent") EXCEPT
    !.must = {"venue", "instId", "eventAt", "liquidatedSide", "contracts", "price",
              "notionalUsd", "marketUrl"},
    !.time = {"eventAt"}]

PublicLiquidationTotals ==
  [Model("PublicLiquidationTotals") EXCEPT
    !.must = {"longUsd", "shortUsd", "totalUsd", "longEvents", "shortEvents", "events"}]

PublicLiquidationVenueSummary ==
  [Model("PublicLiquidationVenueSummary") EXCEPT
    !.must = {"venue", "longUsd", "shortUsd", "totalUsd", "longEvents", "shortEvents",
              "events", "instIds", "capturedPct", "lastEventAt"},
    !.easyTime = {"lastEventAt"}]

PublicLiquidationsResponse ==
  [Model("PublicLiquidationsResponse") EXCEPT
    !.must = {"version", "generatedAt", "base", "venue", "window", "totals", "venues",
              "biggest", "latest", "truncated", "source"},
    !.strict = {"window", "totals", "venues", "biggest", "latest", "source"},
    !.time = {"generatedAt"}]

PublicLiquidationsWindow ==
  [Model("PublicLiquidationsWindow") EXCEPT
    !.must = {"from", "to", "hours"},
    !.time = {"from", "to"}]

PublicLivePriceRow ==
  [Model("PublicLivePriceRow") EXCEPT
    !.must = {"ucid", "slug", "symbol", "name", "currentPrice", "priceStale",
              "priceStaleAfterHours"},
    !.easyTime = {"priceUpdatedAt"}]

PublicLivePricesResponse ==
  [Model("PublicLivePricesResponse") EXCEPT
    !.must = {"data", "totalRows"},
    !.strict = {"data"}]

PublicMarketFeedSource ==
  [Model("PublicMarketFeedSource") EXCEPT
    !.must = {"provider", "venues", "method"},
    !.strict = {"venues"}]

PublicMarketFeedVenue ==
  [Model("PublicMarketFeedVenue") EXCEPT
    !.must = {"venue", "name", "url", "feed"}]

PublicMarketSnapshot ==
  [Model("PublicMarketSnapshot") EXCEPT
    !.must = {"date", "fiatcurrency", "fiatratetousd"},
    !.time = {"date", "createdat"}]

PublicMessageError == [Model("PublicMessageError") EXCEPT !.must = {"message"}]

PublicNotableLargeTrade ==
  [Model("PublicNotableLargeTrade") EXCEPT
    !.must = {"id", "venue", "symbol", "base", "assetClass", "side", "notionalUsd", "qty",
              "avgPrice", "fills", "trades", "firstTime", "lastTime", "largestTrade",
              "buyer", "seller", "sourceRef", "links", "significance"},
    !.strict = {"largestTrade", "links", "significance"},
    !.time = {"firstTime", "lastTime"},
    !.easy = {"taker"}]

PublicNotableLargeTradeLargestTrade ==
  [Model("PublicNotableLargeTradeLargestTrade") EXCEPT
    !.must = {"tradeId", "notionalUsd", "price", "qty", "tradeTime"},
    !.time = {"tradeTime"}]

PublicNotableLargeTradeSignificance ==
  [Model("PublicNotableLargeTradeSignificance") EXCEPT
    !.must = {"windowHours", "symbolTrades", "p50Usd", "p99Usd", "p999Usd", "maxUsd",
              "multipleOfP999", "isLargestInWindow", "rankInWindow", "thresholdUsd",
              "basis"}]

PublicNotableLargeTradesResponse ==
  [Model("PublicNotableLargeTradesResponse") EXCEPT
    !.must = {"version", "generatedAt", "statsAsOf", "rules", "candidatesTruncated",
              "totalNotable", "count", "items", "source"},
    !.strict = {"rules", "items", "source"},
    !.time = {"generatedAt", "statsAsOf"}]

PublicNotableLargeTradesResponseRules ==
  [Model("PublicNotableLargeTradesResponseRules") EXCEPT
    !.strict = {"classFloorsUsd", "smallHistoryMultiple"}]

PublicSecFilingsResponse ==
  [Model("PublicSecFilingsResponse") EXCEPT
    !.must = {"version", "generatedAt", "ticker", "name", "coverage", "insiderTransactions",
              "openMarketTransactions", "source"},
    !.strict = {"coverage", "insiderTransactions", "openMarketTransactions", "source"},
    !.time = {"generatedAt"}]

PublicSecFilingsSource ==
  [Model("PublicSecFilingsSource") EXCEPT
    !.must = {"name", "url", "publisher", "forms", "issuerFilingsUrl", "note"}]

PublicSecInsiderReporter ==
  [Model("PublicSecInsiderReporter") EXCEPT
    !.must = {"name", "cik", "count", "relationship", "isDirector", "isOfficer",
              "isTenPercentOwner", "isOther", "officerTitle"}]

PublicSecInsiderTransaction ==
  [Model("PublicSecInsiderTransaction") EXCEPT
    !.must = {"accessionNumber", "filingUrl", "filingIndexUrl", "filedAt",
              "transactionDate", "reporter", "securityTitle", "code", "codeLabel",
              "isOpenMarket", "acquiredDisposed", "shares", "pricePerShare", "valueUsd",
              "sharesOwnedAfter", "ownership", "is10b5One"},
    !.strict = {"reporter"}]

PublicTickerTreasury ==
  [Model("PublicTickerTreasury") EXCEPT
    !.must = {"name", "symbol", "country", "holdings"},
    !.strict = {"holdings"}]

PublicTickerTreasuryHolding ==
  [Model("PublicTickerTreasuryHolding") EXCEPT
    !.must = {"coin", "holdings", "valueUsd", "pctOfSupply"}]

PublicTickerTreasuryResponse ==
  [Model("PublicTickerTreasuryResponse") EXCEPT
    !.must = {"ticker", "status", "treasury", "asOf", "source", "meta"},
    !.strict = {"status", "source", "meta"},
    !.easy = {"treasury"},
    !.easyTime = {"asOf"}]

PublicTradfiReferenceCatalog ==
  [Model("PublicTradfiReferenceCatalog") EXCEPT
    !.must = {"version", "generatedAt", "methodology", "count", "items"},
    !.strict = {"methodology", "items"},
    !.time = {"generatedAt"}]

PublicTradfiReferenceCatalogItem ==
  [Model("PublicTradfiReferenceCatalogItem") EXCEPT
    !.must = {"instrument", "availability", "freshness", "latest", "change24h", "change7d",
              "range24h", "spark7d", "latestVenues", "live"},
    !.strict = {"instrument", "freshness"},
    !.easy = {"latest", "change24h", "change7d", "range24h", "live", "fundamentals"}]

PublicTradfiReferenceChange ==
  [Model("PublicTradfiReferenceChange") EXCEPT
    !.must = {"pct", "referencePrice", "referenceBucketStart"},
    !.time = {"referenceBucketStart"}]

PublicTradfiReferenceCorporateEvents ==
  [Model("PublicTradfiReferenceCorporateEvents") EXCEPT
    !.must = {"lastEarnings", "nextEarningsEstimate", "dividends", "upcomingDividend",
              "source"},
    !.strict = {"dividends", "source"},
    !.easy = {"lastEarnings", "nextEarningsEstimate", "upcomingDividend"}]

PublicTradfiReferenceCorporateEventsLastEarningsType0 ==
  [Model("PublicTradfiReferenceCorporateEventsLastEarningsType0") EXCEPT
    !.must = {"date", "timing", "url"},
    !.strict = {"date"},
    !.easy = {"timing"}]

PublicTradfiReferenceCorporateEventsNextEarningsEstimateType0 ==
  [Model("PublicTradfiReferenceCorporateEventsNextEarningsEstimateType0") EXCEPT
    !.must = {"date", "basis", "fromReleases"},
    !.strict = {"date", "basis"}]

PublicTradfiReferenceCorporateEventsSource ==
  [Model("PublicTradfiReferenceCorporateEventsSource") EXCEPT
    !.must = {"name", "url"},
    !.strict = {"name"}]

PublicTradfiReferenceDetail ==
  [Model("PublicTradfiReferenceDetail") EXCEPT
    !.must = {"version", "generatedAt", "methodology", "instrument", "availability",
              "freshness", "latest", "change24h", "change7d", "range24h", "live", "history",
              "historyWindow"},
    !.strict = {"methodology", "instrument", "freshness", "history", "historyWindow"},
    !.time = {"generatedAt"},
    !.easy = {"latest", "change24h", "change7d", "range24h", "live", "fundamentals",
              "week52", "corporateEvents"}]

PublicTradfiReferenceDividendEvent ==
  [Model("PublicTradfiReferenceDividendEvent") EXCEPT
    !.must = {"declaredDate", "dividendPerShare", "recordDate", "exDate", "exDateDerived",
              "payableDate", "url"},
    !.easy = {"declaredDate", "recordDate", "exDate", "payableDate"}]

PublicTradfiReferenceFreshness ==
  [Model("PublicTradfiReferenceFreshness") EXCEPT
    !.must = {"status", "basis", "asOf", "ageSeconds", "staleAt"},
    !.strict = {"status"},
    !.easyTime = {"asOf", "staleAt"}]

PublicTradfiReferenceFundamentals ==
  [Model("PublicTradfiReferenceFundamentals") EXCEPT
    !.must = {"marketCapUsd", "marketCapBasis", "referencePrice", "sharesOutstanding",
              "sharesAsOf", "sharesSource", "dividendPerShareTtm", "dividendTtmBasis",
              "dividendTtmPeriodEnd", "dividendYieldPct", "lastDividendPerShare",
              "lastDividendPeriodEnd", "revenueTtmUsd", "netIncomeTtmUsd", "epsDilutedTtm",
              "peRatio", "ttmBasis", "ttmPeriodEnd", "sector", "fiscalYearEnd",
              "latestFiling", "fetchedAt", "source"},
    !.strict = {"marketCapBasis", "source"},
    !.time = {"fetchedAt"},
    !.easy = {"sharesAsOf", "sharesSource", "dividendTtmBasis", "dividendTtmPeriodEnd",
              "lastDividendPeriodEnd", "ttmBasis", "ttmPeriodEnd", "latestFiling"}]

PublicTradfiReferenceFundamentalsLatestFilingType0 ==
  [Model("PublicTradfiReferenceFundamentalsLatestFilingType0") EXCEPT
    !.must = {"form", "date"},
    !.strict = {"date"}]

PublicTradfiReferenceFundamentalsSource ==
  [Model("PublicTradfiReferenceFundamentalsSource") EXCEPT
    !.must = {"name", "publisher", "url", "dataUrl", "note"},
    !.strict = {"name"}]

PublicTradfiReferenceHistoryWindow ==
  [Model("PublicTradfiReferenceHistoryWindow") EXCEPT
    !.must = {"window", "from", "to", "intervalSeconds"},
    !.time = {"from", "to"}]

PublicTradfiReferenceHomeListing ==
  [Model("PublicTradfiReferenceHomeListing") EXCEPT
    !.must = {"exchange", "currency", "code"}]

PublicTradfiReferenceInstrument ==
  [Model("PublicTradfiReferenceInstrument") EXCEPT
    !.must = {"ticker", "name", "assetClass", "unit", "venueQuoteAsset", "issuer",
              "leverage", "homeListing"},
    !.strict = {"unit"},
    !.easy = {"leverage", "homeListing"}]

PublicTradfiReferenceLeverage ==
  [Model("PublicTradfiReferenceLeverage") EXCEPT
    !.must = {"factor", "underlying"}]

PublicTradfiReferenceLive ==
  [Model("PublicTradfiReferenceLive") EXCEPT
    !.must = {"price", "minPrice", "maxPrice", "venueSpreadPct", "venueCount", "venues",
              "sourceAt", "ageSeconds", "change24hPct"},
    !.strict = {"venues"},
    !.time = {"sourceAt"}]

PublicTradfiReferenceLiveVenue ==
  [Model("PublicTradfiReferenceLiveVenue") EXCEPT
    !.must = {"venue", "indexPrice"}]

PublicTradfiReferenceMethodology ==
  [Model("PublicTradfiReferenceMethodology") EXCEPT
    !.must = {"basis", "aggregation", "minimumVenueCount", "maxVenueSpreadPct",
              "collectionIntervalSeconds", "freshnessThresholdSeconds", "retentionDays",
              "liveMaxAgeSeconds"}]

PublicTradfiReferenceRange ==
  [Model("PublicTradfiReferenceRange") EXCEPT
    !.must = {"low", "high", "observations"}]

PublicTradfiReferenceSnapshot ==
  [Model("PublicTradfiReferenceSnapshot") EXCEPT
    !.must = {"bucketStart", "fetchedAt", "consensusPrice", "minPrice", "maxPrice",
              "venueSpreadPct", "venueCount", "venues"},
    !.strict = {"venues"},
    !.time = {"bucketStart", "fetchedAt"}]

PublicTradfiReferenceSnapshotSummary ==
  [Model("PublicTradfiReferenceSnapshotSummary") EXCEPT
    !.must = {"bucketStart", "fetchedAt", "consensusPrice", "minPrice", "maxPrice",
              "venueSpreadPct", "venueCount"},
    !.time = {"bucketStart", "fetchedAt"}]

PublicTradfiReferenceUnit ==
  [Model("PublicTradfiReferenceUnit") EXCEPT
    !.must = {"status", "currency", "per"}]

PublicTradfiReferenceVenueQuote ==
  [Model("PublicTradfiReferenceVenueQuote") EXCEPT
    !.must = {"venue", "symbol", "label", "assetClass", "indexPrice", "sourceObservedAt"},
    !.easyTime = {"sourceObservedAt"}]

PublicTradfiReferenceWeek52 ==
  [Model("PublicTradfiReferenceWeek52") EXCEPT
    !.must = {"high", "low", "asOf", "days"},
    !.strict = {"asOf"}]

PublicModels ==
  {PublicCftcChange, PublicCftcContract, PublicCftcNonCommercialSide,
    PublicCftcPositioningResponse, PublicCftcReport, PublicCftcSide, PublicCftcSource,
    PublicCoinCandle, PublicCoinCandles, PublicCoinDetail,
    PublicCoinDetailChainsType0Item, PublicCoinGeckoAttribution, PublicCoinListItem,
    PublicCoinListItemCategoriesItem, PublicCoinListItemCoinChainsItem,
    PublicCoinListItemCoinChainsItemChain, PublicCoinListResponse, PublicCoinPrice,
    PublicCoinTranslatedName, PublicCryptoMover, PublicCryptoTreasuryCompany,
    PublicCryptoTreasuryResponse, PublicFreshUntilMeta, PublicInstrumentMarketContract,
    PublicInstrumentMarketGroup, PublicInstrumentMarketLadder, PublicInstrumentMarkets,
    PublicInstrumentMarketsCoverage, PublicInstrumentMarketsInstrument,
    PublicInstrumentMarketsMeta, PublicInstrumentMarketsReference,
    PublicInstrumentMarketsShortTerm, PublicLargeTrade, PublicLargeTradeLinks,
    PublicLargeTradeTaker, PublicLargeTradeTakerPosition, PublicLargeTradesFilters,
    PublicLargeTradesResponse, PublicLiquidationEvent, PublicLiquidationTotals,
    PublicLiquidationVenueSummary, PublicLiquidationsResponse, PublicLiquidationsWindow,
    PublicLivePriceRow, PublicLivePricesResponse, PublicMarketFeedSource,
    PublicMarketFeedVenue, PublicMarketSnapshot, PublicMessageError,
    PublicNotableLargeTrade, PublicNotableLargeTradeLargestTrade,
    PublicNotableLargeTradeSignificance, PublicNotableLargeTradesResponse,
    PublicNotableLargeTradesResponseRules, PublicSecFilingsResponse,
    PublicSecFilingsSource, PublicSecInsiderReporter, PublicSecInsiderTransaction,
    PublicTickerTreasury, PublicTickerTreasuryHolding, PublicTickerTreasuryResponse,
    PublicTradfiReferenceCatalog, PublicTradfiReferenceCatalogItem,
    PublicTradfiReferenceChange, PublicTradfiReferenceCorporateEvents,
    PublicTradfiReferenceCorporateEventsLastEarningsType0,
    PublicTradfiReferenceCorporateEventsNextEarningsEstimateType0,
    PublicTradfiReferenceCorporateEventsSource, PublicTradfiReferenceDetail,
    PublicTradfiReferenceDividendEvent, PublicTradfiReferenceFreshness,
    PublicTradfiReferenceFundamentals,
    PublicTradfiReferenceFundamentalsLatestFilingType0,
    PublicTradfiReferenceFundamentalsSource, PublicTradfiReferenceHistoryWindow,
    PublicTradfiReferenceHomeListing, PublicTradfiReferenceInstrument,
    PublicTradfiReferenceLeverage, PublicTradfiReferenceLive,
    PublicTradfiReferenceLiveVenue, PublicTradfiReferenceMethodology,
    PublicTradfiReferenceRange, PublicTradfiReferenceSnapshot,
    PublicTradfiReferenceSnapshotSummary, PublicTradfiReferenceUnit,
    PublicTradfiReferenceVenueQuote, PublicTradfiReferenceWeek52}
=============================================================================
