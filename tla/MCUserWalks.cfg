SPECIFICATION Spec
CONSTANTS
  t1 = t1
  t2 = t2
  Threads <- MCThreads
  Players <- MCPlayers
  Servers <- MCServers
  Jobs <- MCJobs
  NoUser = NoUser
  NoJob = NoJob
SYMMETRY MCSymmetry
INVARIANTS BroadcastReaches PageSound
