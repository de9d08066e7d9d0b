SPECIFICATION UpgradeSpec
CONSTANTS
  Latest = 3
  Baselines = 2
  Added = 2
  MaxDeaths = 3
INVARIANTS ServesSeeded
CHECK_DEADLOCK FALSE
