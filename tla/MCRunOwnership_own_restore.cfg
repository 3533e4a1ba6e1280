SPECIFICATION Spec
CONSTANTS
  Runs = {r1, r2}
  Workers = {w1}
  NoWorker = NoWorker
  Lease = 1
  Grace = 0
  Slack = 0
  Strategies = {"interrupt"}
  Requests = {"rollback"}
  Faults = {"agent"}
SYMMETRY Symmetry
CONSTRAINT Prompt
INVARIANTS
  NoRunDuringRestore
