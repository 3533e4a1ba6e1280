SPECIFICATION Spec
CONSTANTS
  Runs = {r1}
  Workers = {w1, w2}
  NoWorker = NoWorker
  Lease = 2
  Grace = 1
  Slack = 1
  Strategies = {"reject"}
  Requests = {"rollback"}
  Faults = {"io", "crash", "agent"}
SYMMETRY Symmetry
INVARIANTS
  ReclaimedRunIsFenced
  FinalAckIsDurable
  EndedIsTerminal
PROPERTIES
  RowOutcomeIsFinal
