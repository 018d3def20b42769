CONSTANTS
  MaxWindow = 8
  MaxSamples = 9
  MaxStep = 4
  MaxReplayWindow = 4
  MaxRuns = 4
  ChunksPerWorker = 2
  MemoryBudget = 60
  FoldedText <- MCFoldedText
  DottedText <- MCDottedText
  CatalogIds <- MCCatalogIds
  Metrics <- MCMetrics
  Outcomes <- MCOutcomes
  Campaigns <- MCCampaigns
SPECIFICATION Spec
INVARIANT DesignIsComplete
INVARIANT ResultsReproducible
INVARIANT EvidenceIsTrue
