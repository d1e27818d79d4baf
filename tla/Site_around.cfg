SPECIFICATION Spec
CONSTANTS
  Address = {1, 2}
  Key = {1, 2}
  MaxHistory = 1
  PageRows = 1
  MaxAttempts = 2
  MaxChanges = 2
  MaxTrouble = 1
  Replica = {1, 2}
  Migrations = 2
  Password = {p, q}
  Session = {1}
  MaxStarts = 3
  MaxFailures = 1
  NoReplica = 0
  NoUser = nouser
  Page = {1, 2}
  KindsOf <- MCKindsOf
  Graph = {1, 2, 3}
  Before <- MCBefore
  MaxDashboards = 2
  MaxRows = 2
  MaxEdits = 2
  Absent = absent
  MaxAsked = 3
  MaxErrors = 1
  MaxShown = 3
  CycleEvery = 2
  RefreshEvery = 3
  MouseRest = 2
  MaxTouches = 2
  Client = {writer}
  Writers = {writer}
  Called = {"download", "search", "destructive", "unlisted"}
  MaxCalls = 3
  CallLimit = 1
  MaxEntries = 2
  MaxFaults = 1
  Boards <- MCBoards
  ChartKind <- MCChartKind
  TableKind <- MCTableKind
  Currencies = {"CAD", "USD"}
  LoadPlaces = 2
  MaxMounts = 3
  MaxNews = 1
  MaxFailed = 1
  Line = {la, lb}
  Windows = {1, 2}
  MaxTouched = 3
  MaxDrawn = 1
INVARIANT HistoryTrue
INVARIANT ChartsServed
 
INVARIANT StartupTrue
INVARIANT DeskTrue
INVARIANT LatestShown
 
 
PROPERTY EveryDashboardShown
CHECK_DEADLOCK FALSE
