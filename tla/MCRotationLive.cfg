SPECIFICATION MCSpec
CONSTANTS
  Credential = {root}
  Job = {j1, j2}
  Worker = {w1, w2}
  Editor = {e1}
  Fault = {"duplicate"}
  NoJob = NoJob
  NoForm = NoForm
  Account = {a1, a2, a3}
  CreatedAt <- MCCreatedAt
  RoundLimit = 1
  MaxEdits = 2
PROPERTIES
  EveryJobEnds
  DueIsQueued
