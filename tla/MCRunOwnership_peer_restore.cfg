SPECIFICATION Spec
CONSTANTS
  Runs = {r1, r2}
  Workers = {w1, w2}
  NoWorker = NoWorker
  Lease = 1
  Grace = 0
  Slack = 0
  Strategies = {"reject"}
  Requests = {"rollback"}
  Faults = {}
SYMMETRY Symmetry
CONSTRAINT Prompt
INVARIANTS
  NoRunDuringRestore
