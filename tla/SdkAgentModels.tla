--------------------------- MODULE SdkAgentModels ---------------------------
(***************************************************************************)
(* Models of agents as such: ledger, decisions, Arena, scorecards, audit.  *)
(* Each definition says of a class of coinrithm_sdk/models what its        *)
(* from_dict demands and converts (SdkCodec).  Classes of which every      *)
(* attribute is optional and taken as it is are left out.                  *)
(***************************************************************************)
EXTENDS SdkCodec

AgentActionEvent ==
  [Model("AgentActionEvent") EXCEPT
    !.time = {"startedAt"},
    !.easy = {"requestSummary", "responseSummary"},
    !.easyTime = {"completedAt"}]

AgentDecisionArtifact ==
  [Model("AgentDecisionArtifact") EXCEPT
    !.strict = {"decisionUuid", "opportunityKind"},
    !.time = {"createdAt"},
    !.easy = {"decisionContext", "provenance"},
    !.easyTime = {"settledAt"}]

AgentExecutionAssumptions ==
  [Model("AgentExecutionAssumptions") EXCEPT
    !.strict = {"costModel", "executionTiming"}]

AgentForecastSkill ==
  [Model("AgentForecastSkill") EXCEPT
    !.strict = {"schema", "basis", "state", "metrics"},
    !.easy = {"cohorts"}]

AgentLedgerExport ==
  [Model("AgentLedgerExport") EXCEPT
    !.strict = {"data", "futures", "futuresEvents"},
    !.time = {"exportedAt"},
    !.easy = {"run"}]

AgentLedgerResponse ==
  [Model("AgentLedgerResponse") EXCEPT
    !.strict = {"data", "pagination", "filters"},
    !.time = {"asOf"}]

AgentObservation ==
  [Model("AgentObservation") EXCEPT
    !.strict = {"inputs", "dataset"},
    !.time = {"observedAt"},
    !.easy = {"freshness"},
    !.easyTime = {"sourceAsOf"}]

AgentRunEvidenceChecklist ==
  [Model("AgentRunEvidenceChecklist") EXCEPT
    !.strict = {"overallStatus", "items"}]

AgentRunEvidenceChecklistItemsItem ==
  [Model("AgentRunEvidenceChecklistItemsItem") EXCEPT
    !.strict = {"status"}]

AgentRunEvidenceManifest ==
  [Model("AgentRunEvidenceManifest") EXCEPT
    !.strict = {"retentionPolicy", "executionAssumptions", "evidenceChecklist", "summary"},
    !.time = {"generatedAt"},
    !.easy = {"outcomeSummary"}]

AgentRunEvidenceManifestSummary ==
  [Model("AgentRunEvidenceManifestSummary") EXCEPT
    !.strict = {"eventTypes", "venues", "ledgerStatuses", "relatedEntities"},
    !.easyTime = {"firstEventAt", "lastEventAt"}]

AgentRunOutcomeSummary ==
  [Model("AgentRunOutcomeSummary") EXCEPT
    !.strict = {"coverage", "byVenue"}]

AgentRunOutcomeSummaryByVenue ==
  [Model("AgentRunOutcomeSummaryByVenue") EXCEPT
    !.strict = {"spot", "futures", "pm"}]

AgentScorecardResponse ==
  [Model("AgentScorecardResponse") EXCEPT
    !.strict = {"calibrationBasis", "forecastSkill"},
    !.easy = {"scorecard", "latestRun"}]

ArenaAgent ==
  [Model("ArenaAgent") EXCEPT
    !.strict = {"source", "byVenue", "badges"},
    !.easy = {"auditStats"},
    !.easyTime = {"lastTradeAt"}]

ArenaAgentByVenue ==
  [Model("ArenaAgentByVenue") EXCEPT
    !.strict = {"spot", "futures", "pm"}]

ArenaContract ==
  [Model("ArenaContract") EXCEPT
    !.must = {"version", "ranking", "presentation", "capital", "evidence", "publicIdentity"},
    !.strict = {"version", "ranking", "presentation", "capital", "evidence",
                "publicIdentity"}]

ArenaContractCapital ==
  [Model("ArenaContractCapital") EXCEPT
    !.must = {"normalizedBaselineMusd", "startingEquityMusd", "executionWalletScope",
              "performanceAttributionScope", "independentWalletPerAgent",
              "independentWalletSince"},
    !.strict = {"normalizedBaselineMusd", "startingEquityMusd", "executionWalletScope",
                "performanceAttributionScope", "independentWalletSince"}]

ArenaContractEvidence ==
  [Model("ArenaContractEvidence") EXCEPT
    !.must = {"provesCoinrithmPaperExecutionRecords", "modelIdentity",
              "hiddenModelReasoningVerified"},
    !.strict = {"modelIdentity"}]

ArenaContractPresentation ==
  [Model("ArenaContractPresentation") EXCEPT
    !.must = {"smallSampleBelowDecidedTrades"},
    !.strict = {"smallSampleBelowDecidedTrades"}]

ArenaContractPublicIdentity ==
  [Model("ArenaContractPublicIdentity") EXCEPT
    !.must = {"participation", "keyRevocationOrUnpublishRemovesFromBoard",
              "reconnectPreservesKeyIdentity"},
    !.strict = {"participation"}]

ArenaContractRanking ==
  [Model("ArenaContractRanking") EXCEPT
    !.must = {"listingMinimumDecidedTrades", "qualificationDecidedTrades", "positiveScore",
              "nonPositiveScore", "unrealizedPnlAffectsRank"},
    !.strict = {"listingMinimumDecidedTrades", "qualificationDecidedTrades",
                "positiveScore", "nonPositiveScore"}]

ArenaDecision ==
  [Model("ArenaDecision") EXCEPT
    !.strict = {"result", "opportunityKind"},
    !.easy = {"realizedPaperTrade", "entryContext", "decisionUuid", "provenance"},
    !.easyTime = {"resolvedAt", "openedAt"}]

ArenaOpportunity ==
  [Model("ArenaOpportunity") EXCEPT
    !.strict = {"decisionUuid", "opportunityKind"},
    !.time = {"createdAt"},
    !.easy = {"entryContext", "cohort", "provenance"}]

AuditFuturesEvent == [Model("AuditFuturesEvent") EXCEPT !.time = {"createdAt"}]

AuditFuturesPosition ==
  [Model("AuditFuturesPosition") EXCEPT
    !.strict = {"side", "status"},
    !.time = {"createdAt"},
    !.easyTime = {"entryPriceAsOf", "openedAt", "closedAt"}]

CompetitionBoardRow ==
  [Model("CompetitionBoardRow") EXCEPT
    !.strict = {"byVenue"},
    !.time = {"joinedAt"}]

CompetitionBoardRowByVenue ==
  [Model("CompetitionBoardRowByVenue") EXCEPT
    !.strict = {"spot", "futures", "pm"}]

CompetitionMeta ==
  [Model("CompetitionMeta") EXCEPT
    !.strict = {"visibility", "status"},
    !.time = {"startsAt", "endsAt", "createdAt"}]

DecisionProvenance ==
  [Model("DecisionProvenance") EXCEPT
    !.easy = {"runtimeKind", "skillVersions", "evidenceRef"}]

DecisionProvenanceEvidenceRefType0 ==
  [Model("DecisionProvenanceEvidenceRefType0") EXCEPT
    !.easyTime = {"sourceCapturedAt"}]

DecisionProvenanceReport ==
  [Model("DecisionProvenanceReport") EXCEPT
    !.strict = {"runtimeKind", "skillVersions", "evidenceRef"}]

DecisionProvenanceReportEvidenceRef ==
  [Model("DecisionProvenanceReportEvidenceRef") EXCEPT
    !.time = {"sourceCapturedAt"}]

DecisionSupport ==
  [Model("DecisionSupport") EXCEPT
    !.strict = {"qualityTier", "spreadTier", "liquidityTier", "volumeTier", "flags"}]

GetArenaAgentResponse200 ==
  [Model("GetArenaAgentResponse200") EXCEPT
    !.strict = {"agent", "contract"}]

GetArenaDecisionsResponse200 ==
  [Model("GetArenaDecisionsResponse200") EXCEPT
    !.strict = {"decisions", "opportunities", "pagination"}]

GetArenaDecisionsResponse200Pagination ==
  [Model("GetArenaDecisionsResponse200Pagination") EXCEPT
    !.must = {"limit", "cursor", "nextCursor", "hasMore", "decisionsHasMore"}]

GetArenaLeaderboardResponse200 ==
  [Model("GetArenaLeaderboardResponse200") EXCEPT
    !.strict = {"contract", "window", "source", "rows"},
    !.time = {"asOf"}]

GetCompetitionBoardResponse200 ==
  [Model("GetCompetitionBoardResponse200") EXCEPT
    !.strict = {"competition", "rows"},
    !.time = {"asOf"}]

ListCompetitionsResponse200 ==
  [Model("ListCompetitionsResponse200") EXCEPT
    !.strict = {"competitions"},
    !.time = {"asOf"}]

Scorecard == [Model("Scorecard") EXCEPT !.strict = {"schema", "returnsBasis", "metrics"}]

ScorecardRunCohort == [Model("ScorecardRunCohort") EXCEPT !.strict = {"universe"}]

ScorecardRunContributionsSummary ==
  [Model("ScorecardRunContributionsSummary") EXCEPT
    !.strict = {"exclusionReasons"}]

ScorecardRunDetail ==
  [Model("ScorecardRunDetail") EXCEPT
    !.strict = {"resultJson", "contributions"},
    !.time = {"computedAt"},
    !.easy = {"cohort"}]

ScorecardRunListEntry == [Model("ScorecardRunListEntry") EXCEPT !.time = {"computedAt"}]

ScorecardRunListPage == [Model("ScorecardRunListPage") EXCEPT !.strict = {"runs"}]

ScorecardRunPointer ==
  [Model("ScorecardRunPointer") EXCEPT
    !.must = {"id", "computedAt", "contentHash"},
    !.time = {"computedAt"}]

AgentModels ==
  {AgentActionEvent, AgentDecisionArtifact, AgentExecutionAssumptions,
    AgentForecastSkill, AgentLedgerExport, AgentLedgerResponse, AgentObservation,
    AgentRunEvidenceChecklist, AgentRunEvidenceChecklistItemsItem,
    AgentRunEvidenceManifest, AgentRunEvidenceManifestSummary, AgentRunOutcomeSummary,
    AgentRunOutcomeSummaryByVenue, AgentScorecardResponse, ArenaAgent, ArenaAgentByVenue,
    ArenaContract, ArenaContractCapital, ArenaContractEvidence,
    ArenaContractPresentation, ArenaContractPublicIdentity, ArenaContractRanking,
    ArenaDecision, ArenaOpportunity, AuditFuturesEvent, AuditFuturesPosition,
    CompetitionBoardRow, CompetitionBoardRowByVenue, CompetitionMeta, DecisionProvenance,
    DecisionProvenanceEvidenceRefType0, DecisionProvenanceReport,
    DecisionProvenanceReportEvidenceRef, DecisionSupport, GetArenaAgentResponse200,
    GetArenaDecisionsResponse200, GetArenaDecisionsResponse200Pagination,
    GetArenaLeaderboardResponse200, GetCompetitionBoardResponse200,
    ListCompetitionsResponse200, Scorecard, ScorecardRunCohort,
    ScorecardRunContributionsSummary, ScorecardRunDetail, ScorecardRunListEntry,
    ScorecardRunListPage, ScorecardRunPointer}
=============================================================================
