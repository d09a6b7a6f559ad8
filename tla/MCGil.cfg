CONSTANTS
  Main = main
  Threads = {main, t1, t2}
  NoThread = NoThread
  SwitchMod = 2
SPECIFICATION FairSpec
INVARIANTS
  TypeOK
  MutualExclusion
  CurrentIsRunner
  SwitchWaiterHasContender
  RestoredThreadsExit
PROPERTIES
  YieldSwitches
  AbstractSpec
  HolderGivesWay
  FreeLockIsTaken
  SwitchWaitEnds
