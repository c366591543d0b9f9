SPECIFICATION ViewsSpec
CONSTANTS
  CandidateLimit = 3
  TopK = 1
  Kinds = {"list", "modal", "panel"}
  Collections <- CollectionsOf
  Self = 2
  Strategies = {semantic, financial}
  FirstStrategy = semantic
  PageSize = 2
  Slots = {s1, s2}
  Nothing = Nothing
  MaxChanges = 1
  MaxChoices = 2
  MaxFailures = 1
INVARIANTS
  ClientTypeOK
  ResultsMatchStrategy
  SearchIsExact
PROPERTY ViewSettles
CHECK_DEADLOCK FALSE
