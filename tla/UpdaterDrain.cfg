CONSTANTS
  v1 = v1
  v2 = v2
  NoVersion = NoVersion
  Versions <- MCVersions
  MaxQueued = 1
  MaxActs = 3
  MaxDeaths = 1
SPECIFICATION UpdaterFairSpec
INVARIANTS InstallsWhatIsWanted PanelIsNotStuck ArmingCallUndoes
PROPERTIES PendingIsDecided
