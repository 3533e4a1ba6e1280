SPECIFICATION Spec
CONSTANTS
  Runs = {r1}
  Workers = {w1, w2}
  NoWorker = NoWorker
  Lease = 2
  Grace = 1
  Slack = 1
  Strategies = {"reject"}
  Requests = {"interrupt", "rollback"}
  Faults = {"crash", "cleanup", "agent"}
SYMMETRY Symmetry
INVARIANTS
  OutcomeInvariant
  PublishedIsDurable
  CancelExcludesSuccess
