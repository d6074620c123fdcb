\* Three commands; snapshots are sent twice, and a process starts again once.
SPECIFICATION FairSpec
CONSTANTS
  s1 = s1
  s2 = s2
  Server = {s1, s2}
  Keys = {k1}
  NoValue = NoValue
  m_maxRaftState = 0
  MaxIndex = 3
  MaxSends = 2
  MaxRestarts = 1
INVARIANTS TakenInOrder PassedOverIsCovered ArchiveIsState FilesInStep
PROPERTIES CommandsReachService
CHECK_DEADLOCK FALSE
