\* Main alone launches, as in GameServer.cpp.
SPECIFICATION GFairSpec
CONSTANTS
  Threads = {t1, t2, t3}
  Main = main
  None = None
  IdSpan = 8
  NestedLaunch = FALSE
INVARIANTS TypeOK UniqueIds JoinSafe GlobalsOutlive
PROPERTY JoinReturns
