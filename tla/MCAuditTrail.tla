---------------------------- MODULE MCAuditTrail ----------------------------
(* Small instances of AuditTrail for TLC: the log with its verifications,   *)
(* without a SIEM, and the SIEM without them, with one writer, fewer events *)
(* and one integration that is switched on and off.                         *)
EXTENDS AuditTrail, FiniteSets, TLC

CONSTANTS elastic, splunk, w1, Forwarded

VARIABLE siem  \* which of the two

MCNameOrder == elastic :> 1 @@ splunk :> 2

MCInit ==
  /\ TrailInit
  /\ siem \in BOOLEAN
  /\ enabled # {} => siem

MCNext ==
  /\ UNCHANGED siem
  /\ \/ ~siem /\ (Write \/ Verify)
     \/ /\ siem /\ Write
        /\ \A w \in Writer : draft'[w] # {} =>
             w = w1 /\ {r.event : r \in draft'[w]} \subseteq Forwarded
     \/ siem /\ Forward /\ (elastic \in enabled <=> elastic \in enabled')

MCSpec == MCInit /\ [][MCNext]_<<auditVars, siem>> /\ TrailFairness
=============================================================================
