\* Both designs, three connections, one of them foreign.
CONSTANTS
  c1 = c1
  c2 = c2
  c3 = c3
  Conns = {c1, c2, c3}
  Loads <- MCLoads
  Requests <- MCRequests
  Cwd <- MCCwd
  Files <- MCFiles
  Dirs <- MCDirs
  Unreadable <- MCUnreadable
  Text <- MCText
  Buffer = 4
  Workers = 2
  MaxThreads = 2
  MaxFd = 2
  Backlog = 1
SPECIFICATION FairSpec
INVARIANTS
  TypeOK
  DescriptorsAccounted
  RepliesRight
  ShownIsBody
PROPERTY ClientsEnd
\* A server without peers waits.
CHECK_DEADLOCK FALSE
