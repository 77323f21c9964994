SPECIFICATION Spec
CONSTANTS
  Credential = {root}
  Job = {j1, j2}
  Worker = {w1, w2}
  Editor = {e1}
  Fault = {}
  NoJob = NoJob
  NoForm = NoForm
SYMMETRY MCSymmetry
INVARIANTS
  SecretRecoverable
