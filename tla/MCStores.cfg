CONSTANTS
  Names = {1, 2}
  Settings = {s1, s2}
  MaxId = 3
  MaxOps = 3
  MaxCount = 1
  Horizon = 1
  JobRetention = 1
  DefaultPageSize = 1
  MaxPageSize = 2
  Filters <- MCFilters
SPECIFICATION MCSpec
INVARIANTS ReadsAgree PagesJoin
PROPERTY ImplementsMongo
VIEW State
