SPECIFICATION Spec
CHECK_DEADLOCK FALSE
CONSTANTS
  NBins = 3
  Edge <- EdgeDef
  Requests <- RequestsDef
  Threads = 2
  Agents = 1
  Traffics = {"gets", "mixed"}
  Statistic = {50, 95, Average}
  Average = Average
  Bound = 1500
  Knees = {1, 2, 3, 20, 49, 50, 51, 99, 100, 2500, 4999, 9000}
  Peaks = {40, 100, 250, 5000, 10000}
  Scans <- ScansDef
  Settings <- SettingsDef
  DefaultCapacity = 10
  DefaultReuse = 3
  DefaultRegen = 1
  IaDists <- IaDistsDef
  Lambdas = {0, 250, 500, 1000, 3000}
INVARIANTS
  MergedAsLogged
  NthIsRanked
  FindsLimit
  KeysLoaded
  RenewsEnough
  DiesOfExcess
  PaceFollowsLambda
PROPERTIES
  SearchEnds
