----------------------------- MODULE RiskScore ------------------------------
(***************************************************************************)
(* The risk score of an access policy (score_access_policy in              *)
(* pamolive/operations/governance.py) as a sum of weights.                 *)
(***************************************************************************)
EXTENDS Integers

Weight(condition, points) == IF condition THEN points ELSE 0

\* The weight of a number that is large, or of some size.
Tier(n, large, points, some, fewer) ==
  IF n > large THEN points ELSE IF n > some THEN fewer ELSE 0

\* Mutant of Exposure: requiring an approval is no credit against its quorum.
ExposureMisweighed(q) ==
  Weight(~q.requires_approval, 5) + Weight(~q.requires_mfa, 25)
  + Weight(q.requires_approval /\ q.approval_quorum < 2, 8)

Exposure(q) ==
  Weight(~q.requires_approval, 25) + Weight(~q.requires_mfa, 25)
  + Weight(q.requires_approval /\ q.approval_quorum < 2, 8)

Uses(q) ==
  Weight("view_secret" \in q.actions, 15) + Weight("reveal_totp" \in q.actions, 20)
  + Weight("start_session" \in q.actions, 12)

Limits(q) ==
  Tier(q.max_duration_minutes, 480, 12, 120, 6) + Tier(q.max_concurrent_sessions, 3, 10, 1, 5)
  + Weight(q.time_frames = {}, 8) + Weight(q.source_cidrs = {}, 8)
  + Weight(q.allow_clipboard_copy, 5) + Weight(q.allow_clipboard_paste, 5)
  + Weight(("ssh" \in q.protocols \/ q.protocols = {}) /\ q.command_deny_patterns = {}, 5)

\* A policy that is switched off has no risk.
RiskScore(q, users, targets) ==
  IF ~q.enabled THEN 0
  ELSE LET sum == Exposure(q) + Uses(q) + Limits(q)
                  + Tier(users, 20, 12, 5, 6) + Tier(targets, 20, 12, 5, 6)
       IN  IF sum > 100 THEN 100 ELSE sum

RiskLevel(q, users, targets) ==
  LET score == RiskScore(q, users, targets)
  IN  CASE ~q.enabled  -> "inactive"
        [] q.enabled /\ score >= 70 -> "critical"
        [] q.enabled /\ score \in 45..69 -> "high"
        [] q.enabled /\ score \in 20..44 -> "medium"
        [] OTHER -> "low"
=============================================================================
