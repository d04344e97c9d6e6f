SPECIFICATION FairSpec
CONSTANTS
  MaxPackets = 1
  MaxSessions = 2
  Releases = "ready"
  Faults = {"refuse", "garbage", "connectFails", "drop", "mute", "muteAuth"}
INVARIANTS
  OneLink
  NobodySleepsOnWork
PROPERTIES
  LinkComesBack
  MuteLinkDropped
  ReleaseEnds
CHECK_DEADLOCK FALSE
