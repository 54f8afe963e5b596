SPECIFICATION Spec
CONSTANTS
  NodeCount = 3
  BatchSize = 2
  MaxRetries = 1
  MaxResumes = 2
  MaxFaults = 1
  Selections <- MCSelections
  None = None
INVARIANTS BatchesInOrder UpdatedOnce SucceededMeansUpdated
PROPERTY CampaignComesToRest
CHECK_DEADLOCK FALSE
