SPECIFICATION FairSpec
CONSTANTS
  c1 = c1
  c2 = c2
  p1 = p1
  p2 = p2
  Conns <- MCConns
  Procs <- MCProcs1
  MaxNo = 2
  QueueCap = 1
  Attempts = 2
  MinTurns = 1
  Faults <- MCLive
PROPERTIES StopsWhenTold Served
