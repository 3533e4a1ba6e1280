SPECIFICATION FairSpec
CONSTANTS
  Runs = {r1}
  Workers = {w1, w2}
  NoWorker = NoWorker
  Lease = 2
  Grace = 0
  Slack = 0
  Strategies = {"reject"}
  Requests = {"interrupt"}
  Faults = {"crash"}
PROPERTIES
  OrphanIsReclaimed
  CancelIsHonoured
  CommittedRunEnds
