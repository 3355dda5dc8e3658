SPECIFICATION FairSpec
CONSTANTS
  Members <- MCMembers
  NetworkGate = "net"
  AppGate = "app"
  OnCf = {"bin"}
  Settings = {"conf"}
  Packages = {"v1", "v2"}
  MaxInstalls = 3
  MaxTroubles = 2
  MaxEdits = 1
INVARIANTS RunsWholeSet MixedIsGuarded SlotsUsable
PROPERTIES EditsSurviveRefusal MixedIsHealed
CHECK_DEADLOCK FALSE
