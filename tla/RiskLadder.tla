----------------------------- MODULE RiskLadder -----------------------------
(***************************************************************************)
(* An access policy that is edited step by step, each time to allow more,  *)
(* beside a rival policy: how score_access_policy follows, and what        *)
(* ranked_policy_risks and security_findings report of the two.            *)
(***************************************************************************)
EXTENDS RiskScore, Sequences

CONSTANTS
  Ladder,   \* the values of each of a policy's fields, from the strictest
  Rival,    \* the scores that the other policy may have
  TopRisks  \* the limit that security_findings ranks with

Restriction == {"requires_approval", "requires_mfa"}
Permission == {"enabled", "allow_clipboard_copy", "allow_clipboard_paste"}
Size == {"max_duration_minutes", "max_concurrent_sessions", "users", "targets"}
Scope == {"time_frames", "source_cidrs", "command_deny_patterns"}
Field == Restriction \cup Permission \cup Size \cup Scope
         \cup {"approval_quorum", "actions", "protocols"}

\* The values b of a field that allow at least what a does.  An empty scope
\* restricts nothing, and neither does an empty list of protocols.
Looser(f, a, b) ==
  /\ f \in Restriction => {a, b} \subseteq BOOLEAN /\ (b => a)
  /\ f \in Permission => {a, b} \subseteq BOOLEAN /\ (a => b)
  /\ f \in Size => {a, b} \subseteq Nat /\ a <= b
  /\ f = "approval_quorum" => {a, b} \subseteq Nat /\ b <= a
  /\ f = "actions" => a \subseteq b
  /\ f = "protocols" => b = {} \/ (a # {} /\ a \subseteq b)
  /\ f \in Scope => (a = {} => b = {})

ASSUME FindingsAssumption == Rival \subseteq Nat /\ TopRisks \in Nat \ {0}

ASSUME LadderAssumption ==
  /\ DOMAIN Ladder = Field
  /\ \A f \in Field :
       /\ Len(Ladder[f]) \in Nat \ {0}
       /\ Looser(f, Ladder[f][1], Ladder[f][1])
       /\ \A i \in 1..(Len(Ladder[f]) - 1) : Looser(f, Ladder[f][i], Ladder[f][i + 1])

VARIABLES
  rung,   \* where each field stands on its ladder
  rival   \* the score of the other policy, whose name comes first

ladderVars == <<rung, rival>>

Profile(r) == [f \in DOMAIN Ladder |-> Ladder[f][r[f]]]
Score(r) == LET q == Profile(r) IN RiskScore(q, q.users, q.targets)
Level(r) == LET q == Profile(r) IN RiskLevel(q, q.users, q.targets)

LadderInit ==
  /\ rung = [f \in DOMAIN Ladder |-> 1]
  /\ rival \in Rival

SaveLooser(f) ==
  /\ rung[f] < Len(Ladder[f])
  /\ rung' = [rung EXCEPT ![f] = @ + 1]
  /\ UNCHANGED rival

\* The slice [:limit] of a list.
FirstOf(s, limit) == SubSeq(s, 1, IF limit < Len(s) THEN limit ELSE Len(s))

\* Mutant of ranked_policy_risks: the least risk comes first.
RankedUpwards(limit) ==
  FirstOf(IF rival <= Score(rung) THEN <<"rival", "policy">> ELSE <<"policy", "rival">>, limit)

\* The riskiest policies, of equal scores the first by name.
ranked_policy_risks(limit) ==
  FirstOf(IF rival >= Score(rung) THEN <<"rival", "policy">> ELSE <<"policy", "rival">>, limit)

\* The policies that it reports as critical.
security_findings ==
  LET ranked == ranked_policy_risks(TopRisks) IN
  {p \in {ranked[i] : i \in DOMAIN ranked} :
     (IF p = "rival" THEN rival ELSE Score(rung)) >= 70}

LadderNext == \E f \in DOMAIN Ladder : SaveLooser(f)

LadderSpec == LadderInit /\ [][LadderNext]_ladderVars

-----------------------------------------------------------------------------
(* Properties.                                                             *)

Rank == [inactive |-> 0, low |-> 1, medium |-> 2, high |-> 3, critical |-> 4]

\* A policy that allows more is never reported as less of a risk: no edit that
\* loosens one field, in whatever order and on whatever combination of the
\* others, lowers the score or the level (the weights of score_access_policy,
\* where a quorum counts only beside an approval, and the cap of 100).
LooserIsRiskier ==
  [][rung' # rung =>
       Score(rung') >= Score(rung) /\ Rank[Level(rung')] >= Rank[Level(rung)]]_ladderVars

\* What is cut from the report is never worse than what is in it: a policy of
\* level critical is a finding, unless as many as the limit are at least as bad
\* (the ranking, its limit and the threshold of security_findings agree with the
\* level of score_access_policy).
CriticalIsReported ==
  Level(rung) = "critical" /\ "policy" \notin security_findings
    => security_findings = {"rival"} /\ rival >= Score(rung) /\ TopRisks = 1
=============================================================================
