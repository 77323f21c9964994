SPECIFICATION Spec
CONSTANTS
  Credential = {root, backup}
  Job = {j1, j2, j3}
  Worker = {w1, w2}
  Editor = {}
  Fault = {"crash", "loss", "duplicate"}
  NoJob = NoJob
  NoForm = NoForm
SYMMETRY MCSymmetry
INVARIANTS
  SecretRecoverable
  OneRotationAtATime
PROPERTIES
  PromotedOnlyAfterSuccess
