SPECIFICATION Spec
CHECK_DEADLOCK FALSE
CONSTANTS
  NBins = 3
  Edge <- EdgeDef
  Requests <- RequestsDef
  Threads = 2
  Agents = 1
  Traffics = {"sets"}
  Average = Average
  Statistic = {95}
  Bound = 1500
  Knees = {100, 2500}
  Peaks = {1000, 5000}
  Scans <- ScansDef
  Settings <- SettingsDef
  DefaultCapacity = 10
  DefaultReuse = 3
  DefaultRegen = 1
  IaDists <- IaDistsDef
  Lambdas = {0, 250, 500, 1000, 3000}
INVARIANT
  FindsLimit
