SPECIFICATION UpkeepSpec
CONSTANTS
  Callers = {x1, x2}
  MaxTunnels = 2
  MaxEdits = 1
  Jobs = {x1, x2, x3}
  Stores = {x1, x2}
  MaxConfigs = 2
  Engines = {e1, e2}
  Features = {backup}
  Updates = {x1, x2}
  NoPlan = NoPlan
  Latest = 3
  Baselines = 2
  Added = 2
  MaxDeaths = 3
  Keys = {"q1", "q2"}
  Views <- MCViews
  Creations = {c1}
  NoTab = NoTab
  MaxChanges = 3
  MaxExecuted = 5
  MaxStatements = 2
  MaxDesigns = 2
  MaxOperations = 3
CONSTRAINT FewCrossed
SYMMETRY UpkeepSymmetry
INVARIANTS UpkeepTypeOK NothingLeftOpen EditsTakeHold DestinationsHold ModulesHold
  ServesMigrated BaselineOnce PanesShowTheirTabs ChangesAccounted DesignKept
CHECK_DEADLOCK FALSE
