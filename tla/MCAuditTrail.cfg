SPECIFICATION MCSpec
CONSTANTS
  Event = {e1, e2, e3}
  Forwarded = {e1, e2}
  w1 = w1
  Writer = {w1, w2}
  Verifier = {w2}
  Fault = {"damage"}
  NoEvent = NoEvent
  NoWriter = NoWriter
  elastic = elastic
  splunk = splunk
  Integration = {elastic, splunk}
  NameOrder <- MCNameOrder
  MaxRetries = 1
INVARIANTS
  ChainIntact
  FailedMeansDamagedOrMoved
  
  OnlyCommittedLeaves
  
PROPERTIES
  
  EveryTaskEnds
