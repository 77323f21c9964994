--------------------------- MODULE ConsoleProofs ----------------------------
(***************************************************************************)
(* What is proved of the console: of the risk shown for a policy, of its   *)
(* sessions and of the form for the permissions of a role.                 *)
(***************************************************************************)
EXTENDS WebSession, Roles, RiskLadder, TLAPS

-----------------------------------------------------------------------------
(***************************************************************************)
(* Proofs about the risk score: for all values of a policy's fields, and   *)
(* not only those of an instance, one that allows more scores no less.     *)
(***************************************************************************)

\* The policy r allows, field by field, at least what q does.
AllowsMore(q, r) == \A f \in Field : Looser(f, q[f], r[f])

\* To drop the approval weighs more than to lower its quorum.
LEMMA ExposureGrows ==
  ASSUME NEW q, NEW r, AllowsMore(q, r)
  PROVE  Exposure(q) \in Nat /\ Exposure(r) \in Nat /\ Exposure(q) <= Exposure(r)
<1>1. /\ r["requires_approval"] => q["requires_approval"]
      /\ r["requires_mfa"] => q["requires_mfa"]
      /\ r["approval_quorum"] \in Nat /\ q["approval_quorum"] \in Nat
      /\ r["approval_quorum"] <= q["approval_quorum"]
  BY Zenon DEF AllowsMore, Looser, Field, Restriction, Permission, Size, Scope
<1> QED
  BY <1>1 DEF Exposure, Weight

\* More actions weigh more.
LEMMA UsesGrow ==
  ASSUME NEW q, NEW r, AllowsMore(q, r)
  PROVE  Uses(q) \in Nat /\ Uses(r) \in Nat /\ Uses(q) <= Uses(r)
<1>1. q["actions"] \subseteq r["actions"]
  BY Zenon DEF AllowsMore, Looser, Field, Restriction, Permission, Size, Scope
<1> QED
  BY <1>1 DEF Uses, Weight

\* Wider limits weigh more.
LEMMA LimitsGrow ==
  ASSUME NEW q, NEW r, AllowsMore(q, r)
  PROVE  Limits(q) \in Nat /\ Limits(r) \in Nat /\ Limits(q) <= Limits(r)
<1>1. /\ q["max_duration_minutes"] \in Nat /\ r["max_duration_minutes"] \in Nat
      /\ q["max_duration_minutes"] <= r["max_duration_minutes"]
      /\ q["max_concurrent_sessions"] \in Nat /\ r["max_concurrent_sessions"] \in Nat
      /\ q["max_concurrent_sessions"] <= r["max_concurrent_sessions"]
  BY Zenon DEF AllowsMore, Looser, Field, Restriction, Permission, Size, Scope
<1>2. /\ q["allow_clipboard_copy"] => r["allow_clipboard_copy"]
      /\ q["allow_clipboard_paste"] => r["allow_clipboard_paste"]
  BY Zenon DEF AllowsMore, Looser, Field, Restriction, Permission, Size, Scope
<1>3. /\ q["time_frames"] = {} => r["time_frames"] = {}
      /\ q["source_cidrs"] = {} => r["source_cidrs"] = {}
      /\ q["command_deny_patterns"] = {} => r["command_deny_patterns"] = {}
      /\ r["protocols"] = {} \/ (q["protocols"] # {} /\ q["protocols"] \subseteq r["protocols"])
  BY Zenon DEF AllowsMore, Looser, Field, Restriction, Permission, Size, Scope
<1> QED
  BY <1>1, <1>2, <1>3 DEF Limits, Weight, Tier

\* A policy that allows more has no lower score, whatever its fields hold
\* (score_access_policy).
THEOREM ScoreGrows ==
  ASSUME NEW q, NEW r, AllowsMore(q, r)
  PROVE  /\ RiskScore(q, q.users, q.targets) \in Nat /\ RiskScore(r, r.users, r.targets) \in Nat
         /\ RiskScore(q, q.users, q.targets) <= RiskScore(r, r.users, r.targets)
<1>1. /\ q["users"] \in Nat /\ r["users"] \in Nat /\ q["users"] <= r["users"]
      /\ q["targets"] \in Nat /\ r["targets"] \in Nat /\ q["targets"] <= r["targets"]
      /\ q["enabled"] => r["enabled"]
  BY Zenon DEF AllowsMore, Looser, Field, Restriction, Permission, Size, Scope
<1> QED
  BY <1>1, ExposureGrows, UsesGrow, LimitsGrow DEF RiskScore, Tier

\* The level of a policy is the band its score is in.
LEMMA Bands ==
  ASSUME NEW p, NEW n, n = RiskScore(p, p.users, p.targets)
  PROVE  RiskLevel(p, p.users, p.targets) =
           IF ~p.enabled THEN "inactive" ELSE IF n >= 70 THEN "critical"
           ELSE IF n \in 45..69 THEN "high" ELSE IF n \in 20..44 THEN "medium" ELSE "low"
  BY DEF RiskLevel

\* Nor has it a lower level.
THEOREM LevelGrows ==
  ASSUME NEW q, NEW r, AllowsMore(q, r)
  PROVE  Rank[RiskLevel(q, q.users, q.targets)] <= Rank[RiskLevel(r, r.users, r.targets)]
<1>1. q["enabled"] => r["enabled"]
  BY Zenon DEF AllowsMore, Looser, Field, Restriction, Permission, Size, Scope
<1> DEFINE height(n) == IF n >= 70 THEN 4 ELSE IF n >= 45 THEN 3 ELSE IF n >= 20 THEN 2 ELSE 1
<1>2. ASSUME NEW p, RiskScore(p, p.users, p.targets) \in Nat
      PROVE  Rank[RiskLevel(p, p.users, p.targets)] =
               IF p.enabled THEN height(RiskScore(p, p.users, p.targets)) ELSE 0
  <2> DEFINE n == RiskScore(p, p.users, p.targets)
  <2>1. /\ Rank["inactive"] = 0 /\ Rank["low"] = 1 /\ Rank["medium"] = 2 /\ Rank["high"] = 3
        /\ Rank["critical"] = 4
    BY Zenon DEF Rank
  <2>2. RiskLevel(p, p.users, p.targets) =
          IF ~p.enabled THEN "inactive" ELSE IF n >= 70 THEN "critical"
          ELSE IF n \in 45..69 THEN "high" ELSE IF n \in 20..44 THEN "medium" ELSE "low"
    BY Zenon, Bands
  <2>3. n \in Nat
    BY Zenon, <1>2
  <2> HIDE DEF n
  <2>4. /\ n \in 45..69 <=> n >= 45 /\ ~(n >= 70)
        /\ n \in 20..44 <=> n >= 20 /\ ~(n >= 45)
        /\ n >= 45 => n >= 20
        /\ n >= 70 => n >= 45
    BY <2>3
  <2>h. /\ n >= 70 => height(n) = 4
        /\ ~(n >= 70) /\ n >= 45 => height(n) = 3
        /\ ~(n >= 45) /\ n >= 20 => height(n) = 2
        /\ ~(n >= 20) => height(n) = 1
    BY <2>3
  <2> HIDE DEF height
  <2>5. CASE ~p.enabled
    BY Zenon, <2>1, <2>2, <2>5 DEF n
  <2>6. CASE p.enabled /\ n >= 70
    BY Zenon, <2>1, <2>2, <2>6, <2>h DEF n
  <2>7. CASE p.enabled /\ ~(n >= 70) /\ n >= 45
    <3>1. RiskLevel(p, p.users, p.targets) = "high"
      <4>1. n \in 45..69
        BY Zenon, <2>4, <2>7
      <4> QED
        BY Zenon, <2>2, <2>7, <4>1
    <3>2. Rank[RiskLevel(p, p.users, p.targets)] = height(n)
      BY Zenon, <2>1, <2>7, <2>h, <3>1
    <3>3. p.enabled
      BY Zenon, <2>7
    <3> QED
      BY Zenon, <3>2, <3>3 DEF n
  <2>8. CASE p.enabled /\ ~(n >= 45) /\ n >= 20
    <3>1. RiskLevel(p, p.users, p.targets) = "medium" /\ ~(n >= 70)
      <4>1. n \in 20..44 /\ n \notin 45..69 /\ ~(n >= 70)
        BY Zenon, <2>4, <2>8
      <4> QED
        BY Zenon, <2>2, <2>8, <4>1
    <3>2. Rank[RiskLevel(p, p.users, p.targets)] = height(n)
      BY Zenon, <2>1, <2>8, <2>h, <3>1
    <3>3. p.enabled
      BY Zenon, <2>8
    <3> QED
      BY Zenon, <3>2, <3>3 DEF n
  <2>9. CASE p.enabled /\ ~(n >= 20)
    <3>1. RiskLevel(p, p.users, p.targets) = "low" /\ ~(n >= 45) /\ ~(n >= 70)
      <4>1. n \notin 20..44 /\ n \notin 45..69 /\ ~(n >= 70) /\ ~(n >= 45)
        BY Zenon, <2>4, <2>9
      <4> QED
        BY Zenon, <2>2, <2>9, <4>1
    <3>2. Rank[RiskLevel(p, p.users, p.targets)] = height(n)
      BY Zenon, <2>1, <2>9, <2>h, <3>1
    <3>3. p.enabled
      BY Zenon, <2>9
    <3> QED
      BY Zenon, <3>2, <3>3 DEF n
  <2> QED
    BY Zenon, <2>5, <2>6, <2>7, <2>8, <2>9
<1>3. \A m, n \in Nat : m <= n => height(m) <= height(n) /\ 0 <= height(m)
  OBVIOUS
<1> HIDE DEF height
<1>4. height(RiskScore(q, q.users, q.targets)) <= height(RiskScore(r, r.users, r.targets))
      /\ 0 <= height(RiskScore(r, r.users, r.targets))
  BY <1>3, ScoreGrows
<1> QED
  BY <1>1, <1>2, <1>4, ScoreGrows

-----------------------------------------------------------------------------
\* Every field stands on its ladder.
OnLadder ==
  /\ rung \in [Field -> Nat]
  /\ \A f \in Field : rung[f] \in 1..Len(Ladder[f])

\* Every value of a field is as loose as itself.
LEMMA SameIsLooser ==
  ASSUME OnLadder, NEW f \in Field PROVE Looser(f, Ladder[f][rung[f]], Ladder[f][rung[f]])
<1>1. \A a, b : Looser(f, a, b) => Looser(f, b, b)
  BY DEF Looser
<1>2. CASE rung[f] = 1
  BY Zenon, <1>2, LadderAssumption
<1>3. CASE rung[f] # 1
  <2> DEFINE i == rung[f] - 1
  <2>1. i \in 1..(Len(Ladder[f]) - 1) /\ i + 1 = rung[f]
    BY <1>3, LadderAssumption DEF OnLadder
  <2>2. Looser(f, Ladder[f][i], Ladder[f][i + 1])
    BY Zenon, <2>1, LadderAssumption
  <2> QED
    BY Zenon, <1>1, <2>1, <2>2
<1> QED
  BY Zenon, <1>2, <1>3

\* An edit by one rung makes the policy allow more.
LEMMA RungLoosens ==
  ASSUME OnLadder, NEW g \in Field, SaveLooser(g)
  PROVE  AllowsMore(Profile(rung), Profile(rung'))
<1>1. ASSUME NEW f \in Field PROVE Looser(f, Ladder[f][rung[f]], Ladder[f][rung'[f]])
  <2>1. CASE f # g
    BY Zenon, <2>1, SameIsLooser DEF SaveLooser, OnLadder
  <2>2. CASE f = g
    <3>1. rung'[f] = rung[f] + 1 /\ rung[f] \in 1..(Len(Ladder[f]) - 1)
      BY <2>2, LadderAssumption DEF SaveLooser, OnLadder
    <3> QED
      BY Zenon, <3>1, LadderAssumption
  <2> QED
    BY Zenon, <2>1, <2>2
<1>2. \A f \in Field : Profile(rung)[f] = Ladder[f][rung[f]]
                       /\ Profile(rung')[f] = Ladder[f][rung'[f]]
  BY Zenon, LadderAssumption DEF Profile
<1> QED
  BY Zenon, <1>1, <1>2 DEF AllowsMore

\* No edit that loosens a field lowers the score or the level, for ladders of any
\* values (the weights and the cap of score_access_policy).
THEOREM RiskIsMonotone == LadderSpec => LooserIsRiskier
<1>1. LadderInit => OnLadder
  BY LadderAssumption DEF LadderInit, OnLadder
<1>2. OnLadder /\ [LadderNext]_ladderVars => OnLadder'
  BY LadderAssumption DEF OnLadder, LadderNext, SaveLooser, ladderVars
<1>3. ASSUME OnLadder, NEW f \in Field, SaveLooser(f)
      PROVE  Score(rung') >= Score(rung) /\ Rank[Level(rung')] >= Rank[Level(rung)]
  <2> DEFINE q == Profile(rung)
             r == Profile(rung')
  <2>1. AllowsMore(q, r)
    BY <1>3, RungLoosens
  <2> HIDE DEF q, r
  <2>2. RiskScore(r, r.users, r.targets) >= RiskScore(q, q.users, q.targets)
        /\ Rank[RiskLevel(r, r.users, r.targets)] >= Rank[RiskLevel(q, q.users, q.targets)]
    BY Zenon, <2>1, ScoreGrows, LevelGrows
  <2> QED
    BY Zenon, <2>2 DEF Score, Level, q, r
<1>4. OnLadder /\ [LadderNext]_ladderVars =>
        [rung' # rung =>
           Score(rung') >= Score(rung) /\ Rank[Level(rung')] >= Rank[Level(rung)]]_ladderVars
  BY Zenon, <1>3, LadderAssumption DEF LadderNext, ladderVars
<1> QED
  BY <1>1, <1>2, <1>4, PTL DEF LadderSpec, LooserIsRiskier

\* What a ranking of two lists, cut at the limit.
LEMMA Listed ==
  ASSUME NEW a, NEW b, NEW limit \in Nat \ {0}, NEW ranked, ranked = FirstOf(<<a, b>>, limit)
  PROVE  {ranked[i] : i \in DOMAIN ranked} = IF limit = 1 THEN {a} ELSE {a, b}
<1>1. CASE limit = 1
  <2>1. DOMAIN ranked = {1} /\ ranked[1] = a
    BY <1>1 DEF FirstOf
  <2> QED BY <1>1, <2>1, Zenon
<1>2. CASE limit # 1
  <2>1. DOMAIN ranked = {1, 2} /\ ranked[1] = a /\ ranked[2] = b
    BY <1>2 DEF FirstOf
  <2> QED BY <1>2, <2>1, Zenon
<1> QED
  BY <1>1, <1>2

\* The level that score_access_policy gives as critical is the threshold of
\* security_findings, so a critical policy that is not reported was cut off by one
\* that is no better, whatever the two policies and the limit.
THEOREM NoCriticalIsHidden == LadderSpec => []CriticalIsReported
<1>1. LadderInit => OnLadder /\ rival \in Nat
  BY LadderAssumption, FindingsAssumption DEF LadderInit, OnLadder
<1>2. OnLadder /\ rival \in Nat /\ [LadderNext]_ladderVars => (OnLadder /\ rival \in Nat)'
  BY LadderAssumption DEF OnLadder, LadderNext, SaveLooser, ladderVars
<1>3. ASSUME OnLadder, rival \in Nat PROVE CriticalIsReported
  <2>1. Score(rung) \in Nat
    <3>1. \A f \in Field : Profile(rung)[f] = Ladder[f][rung[f]]
      BY LadderAssumption DEF Profile
    <3>2. AllowsMore(Profile(rung), Profile(rung))
      BY Zenon, <1>3, <3>1, SameIsLooser DEF AllowsMore
    <3> QED BY <3>2, ScoreGrows DEF Score
  <2>2. Level(rung) = "critical" => Score(rung) >= 70
    BY Zenon DEF Level, Score, RiskLevel
  <2> SUFFICES ASSUME Score(rung) >= 70, "policy" \notin security_findings
               PROVE  security_findings = {"rival"} /\ rival >= Score(rung) /\ TopRisks = 1
    BY <2>2 DEF CriticalIsReported
  <2> DEFINE ranked == ranked_policy_risks(TopRisks)
             named == {ranked[i] : i \in DOMAIN ranked}
  <2>3. security_findings = {p \in named : (IF p = "rival" THEN rival ELSE Score(rung)) >= 70}
    BY DEF security_findings
  <2>4. CASE rival >= Score(rung)
    <3>1. named = IF TopRisks = 1 THEN {"rival"} ELSE {"rival", "policy"}
      <4>1. ranked = FirstOf(<<"rival", "policy">>, TopRisks)
        BY <2>4 DEF ranked_policy_risks
      <4> HIDE DEF ranked
      <4>2. TopRisks \in Nat \ {0}
        BY FindingsAssumption
      <4> QED BY <4>1, <4>2, Listed
    <3> HIDE DEF named
    <3>2. rival >= 70
      BY <1>3, <2>1, <2>4
    <3> QED BY <2>3, <2>4, <3>1, <3>2
  <2>5. CASE ~(rival >= Score(rung))
    <3>1. "policy" \in named
      <4>1. ranked = FirstOf(<<"policy", "rival">>, TopRisks)
        BY <2>5 DEF ranked_policy_risks
      <4> HIDE DEF ranked
      <4>2. named = IF TopRisks = 1 THEN {"policy"} ELSE {"policy", "rival"}
        <5>1. TopRisks \in Nat \ {0}
          BY FindingsAssumption
        <5> QED BY <4>1, <5>1, Listed
      <4> QED BY <4>2
    <3> HIDE DEF named
    <3> QED BY <2>3, <3>1
  <2> QED BY <2>4, <2>5
<1> QED
  BY <1>1, <1>2, <1>3, PTL DEF LadderSpec

-----------------------------------------------------------------------------
(***************************************************************************)
(* Web sessions, for any number of threads and sessions.                   *)
(*                                                                         *)
(* A thread works on a copy of its session and saves the whole of it, so a *)
(* copy may bring back what another thread has changed.  The invariant     *)
(* says what no copy can bring back: a proof of identity that was not      *)
(* given, or a use that did not happen.                                    *)
(***************************************************************************)

WebTypes ==
  /\ web \in [Key -> Stored \cup {NoSession}]
  /\ thread \in [Thread -> Served \cup {NoRequest}]
  /\ security \in SecurityForm
  /\ logins \in 0..MaxLogin
  /\ clock \in Nat
  /\ proof \in [Key -> Moment]
  /\ used \in [Key -> Moment]

\* Time a of session k has been seen: at the latest at b, its last one.
SeenBy(a, b) == a # Never => b # Never /\ a <= b

\* What a copy s of session k claims was so: the proof and the use it holds are
\* no later than the last ones of the session.
Claims(s, k) == SeenBy(s.verified, proof[k]) /\ SeenBy(s.active, used[k])

\* Nothing has happened later than now.
NotAhead == \A k \in Key : SeenBy(proof[k], clock) /\ SeenBy(used[k], clock)

\* A session that is still to be created has not been used.
KeysAreNew ==
  /\ \A k \in Key : k > logins => web[k] = NoSession /\ used[k] = Never
  /\ \A t \in Thread : thread[t] # NoRequest => thread[t].key <= logins

\* The stored sessions and the copies in use claim nothing that was not so.
CopiesAreTrue ==
  /\ \A k \in Key : web[k] # NoSession => Claims(web[k], k)
  /\ \A t \in Thread : thread[t] # NoRequest =>
       Claims(thread[t].session, thread[t].key) /\ thread[t].session.active # Never

\* Once used and left alone, a session has its last activity stored.
UseIsStored ==
  \A k \in Key : web[k] # NoSession /\ used[k] # Never /\ ~InService(k) => web[k].active # Never

WebInv == /\ WebTypes /\ NotAhead /\ KeysAreNew /\ CopiesAreTrue /\ UseIsStored
          /\ ActsOnRecentProof /\ IdleSessionsEnd

\* The fields of a session and of a request.
LEMMA StoredFields ==
  /\ \A s \in Stored : s.started \in Moment /\ s.active \in Moment /\ s.verified \in Moment
  /\ \A s \in Stored, v \in Moment :
       /\ [s EXCEPT !.verified = v] \in Stored
       /\ [s EXCEPT !.verified = v].verified = v
       /\ [s EXCEPT !.verified = v].active = s.active
  /\ \A x \in Served : /\ x.key \in Key /\ x.session \in Stored /\ x.policy.window \in Nat
                       /\ x # NoRequest
  /\ \A s \in Stored : s # NoSession
  BY WebAssumption DEF Stored, Served

\* What the middleware leaves in a session.
LEMMA TouchedFields ==
  ASSUME clock \in Nat, NEW s \in Stored, NEW passive \in BOOLEAN
  PROVE  /\ Touched(s, passive) \in Stored
         /\ Touched(s, passive).verified = s.verified
         /\ Touched(s, passive).active = IF passive THEN s.active ELSE clock
  BY Zenon DEF Touched, Since, Stored, Moment

\* A time seen by one that was seen was seen.
LEMMA SeenTrans ==
  \A a, b, c \in Moment : SeenBy(a, b) /\ SeenBy(b, c) => SeenBy(a, c)
  BY WebAssumption DEF SeenBy, Moment

\* And so was one seen by an earlier one.
LEMMA SeenLater ==
  /\ \A a \in Moment : SeenBy(a, a) /\ SeenBy(Never, a)
  /\ \A a \in Moment, m, n \in Nat : SeenBy(a, m) /\ m <= n => SeenBy(a, n)
  /\ \A n \in Nat : n \in Moment /\ n # Never
  BY WebAssumption DEF SeenBy, Moment

\* The order of keys and of times.
LEMMA WebNumbers ==
  /\ \A k \in Key, n \in 0..MaxLogin : k > n \/ k <= n
  /\ \A c, a, u, i \in Nat : a <= u /\ ~(c - a >= i) => ~(c - u >= i)
  BY WebAssumption DEF Key

\* Finishing a request keeps the invariant when the session it saves claims what
\* was so, whoever else is being served from an older copy.
LEMMA SaveKeeps ==
  ASSUME WebInv, NEW t \in Thread, thread[t] # NoRequest,
         NEW s \in Stored, Save(t, s), s.active # Never,
         SeenBy(s.active, used[thread[t].key]), SeenBy(s.verified, proof'[thread[t].key]),
         proof' \in [Key -> Moment],
         \A k \in Key : SeenBy(proof[k], proof'[k]) /\ SeenBy(proof'[k], clock),
         security' \in SecurityForm, stale' = {}, UNCHANGED <<logins, clock, used, late>>
  PROVE  WebInv'
<1>t. /\ WebTypes /\ thread[t] \in Served
      /\ NotAhead /\ KeysAreNew /\ CopiesAreTrue /\ UseIsStored
  BY DEF WebInv, WebTypes
<1>k. PICK key \in Key : key = thread[t].key
  BY <1>t, StoredFields
<1>s. /\ web' = [web EXCEPT ![key] = IF @ = NoSession THEN @ ELSE s]
      /\ thread' = [thread EXCEPT ![t] = NoRequest]
  BY <1>k DEF Save
<1>w. /\ \A k \in Key : web'[k] # NoSession => web[k] # NoSession
      /\ \A k \in Key : k # key => web'[k] = web[k]
      /\ web'[key] \in {NoSession, s}
  BY <1>t, <1>s DEF WebTypes
<1>h. /\ \A u \in Thread : thread'[u] # NoRequest => thread'[u] = thread[u] /\ u # t
      /\ \A u \in Thread : u # t => thread'[u] = thread[u]
  BY <1>t, <1>s DEF WebTypes
<1>1. WebTypes'
  BY <1>t, <1>s DEF WebTypes
<1>2. NotAhead' /\ KeysAreNew'
  BY Zenon, <1>t, <1>w, <1>h DEF NotAhead, KeysAreNew
<1>3. CopiesAreTrue'
  <2>1. \A k \in Key, x \in Stored : Claims(x, k) => Claims(x, k)'
    BY <1>t, StoredFields, SeenTrans DEF Claims, WebTypes
  <2>2. Claims(s, key)'
    BY Zenon, <1>k DEF Claims
  <2>3. ASSUME NEW k \in Key, web'[k] # NoSession PROVE Claims(web[k], k)'
    <3>1. CASE k = key
      BY Zenon, <1>w, <2>2, <2>3, <3>1 DEF Claims
    <3>2. CASE k # key
      <4>1. web[k] \in Stored /\ web'[k] = web[k] /\ Claims(web[k], k)
        BY Zenon, <1>t, <1>w, <2>3, <3>2 DEF WebTypes, CopiesAreTrue
      <4> QED BY <2>1, <4>1 DEF Claims
    <3> QED BY Zenon, <3>1, <3>2
  <2>4. ASSUME NEW u \in Thread, thread'[u] # NoRequest
        PROVE  Claims(thread[u].session, thread[u].key)' /\ thread'[u].session.active # Never
    <3>1. /\ thread'[u] = thread[u] /\ thread[u] # NoRequest /\ thread[u] \in Served
          /\ Claims(thread[u].session, thread[u].key) /\ thread[u].session.active # Never
      BY Zenon, <1>t, <1>h, <2>4 DEF WebTypes, CopiesAreTrue
    <3>2. thread[u].session \in Stored /\ thread[u].key \in Key
      BY <3>1, StoredFields
    <3> QED BY Zenon, <2>1, <3>1, <3>2 DEF Claims
  <2> QED BY Zenon, <2>3, <2>4 DEF CopiesAreTrue
<1>4. UseIsStored'
  <2> SUFFICES ASSUME NEW k \in Key, web'[k] # NoSession, used'[k] # Never, ~InService(k)'
               PROVE  web'[k].active # Never
    BY DEF UseIsStored
  <2>1. CASE k = key
    BY Zenon, <1>w, <2>1
  <2>2. CASE k # key
    <3>1. ~InService(k)
      BY Zenon, <1>h, <1>k, <2>2 DEF InService
    <3> QED BY Zenon, <1>t, <1>w, <2>2, <3>1 DEF UseIsStored
  <2> QED BY <2>1, <2>2
<1> QED
  BY <1>1, <1>2, <1>3, <1>4 DEF WebInv, ActsOnRecentProof, IdleSessionsEnd

\* A view that saves the session as it came keeps the invariant.
LEMMA ReturnKeeps ==
  ASSUME WebInv, NEW t \in Thread, thread[t] # NoRequest, Save(t, thread[t].session),
         security' \in SecurityForm, stale' = {}, UNCHANGED <<logins, clock, proof, used, late>>
  PROVE  WebInv'
<1>1. /\ thread[t] \in Served /\ thread[t].session \in Stored /\ thread[t].key \in Key
      /\ Claims(thread[t].session, thread[t].key) /\ thread[t].session.active # Never
      /\ proof' \in [Key -> Moment]
  BY StoredFields DEF WebInv, WebTypes, CopiesAreTrue
<1>2. \A k \in Key : SeenBy(proof[k], proof'[k]) /\ SeenBy(proof'[k], clock)
  BY WebAssumption DEF WebInv, NotAhead, WebTypes, SeenBy, Moment
<1> QED
  BY Zenon, <1>1, <1>2, SaveKeeps DEF Claims

\* So does one that writes the proof it has just been given.
LEMMA MarkKeeps ==
  ASSUME WebInv, NEW t \in Thread, thread[t] # NoRequest, mark_mfa_verified(t),
         UNCHANGED <<security, logins, clock, used, stale, late>>
  PROVE  WebInv'
<1> DEFINE s == [thread[t].session EXCEPT !.verified = clock]
           key == thread[t].key
<1>1. /\ thread[t] \in Served /\ thread[t].session \in Stored /\ key \in Key /\ clock \in Moment
      /\ Claims(thread[t].session, key) /\ thread[t].session.active # Never
      /\ security \in SecurityForm /\ stale = {} /\ clock \in Nat
  BY StoredFields DEF WebInv, WebTypes, CopiesAreTrue, Moment, ActsOnRecentProof
<1>2. s \in Stored /\ s.verified = clock /\ s.active = thread[t].session.active
  BY <1>1, StoredFields
<1>3. Save(t, s) /\ proof' = [proof EXCEPT ![key] = clock]
  BY DEF mark_mfa_verified
<1> HIDE DEF s
<1>4. proof' \in [Key -> Moment]
  BY <1>1, <1>3 DEF WebInv, WebTypes
<1>5. \A k \in Key : SeenBy(proof[k], proof'[k]) /\ SeenBy(proof'[k], clock)
  <2>1. \A k \in Key : proof[k] \in Moment /\ SeenBy(proof[k], clock)
    BY Zenon DEF WebInv, NotAhead, WebTypes
  <2>2. \A k \in Key : proof'[k] = IF k = key THEN clock ELSE proof[k]
    BY Zenon, <1>3 DEF WebInv, WebTypes
  <2> QED BY Zenon, <1>1, <2>1, <2>2, SeenLater
<1>6. SeenBy(s.verified, proof'[key]) /\ SeenBy(s.active, used[key])
  <2>1. proof'[key] = clock
    BY Zenon, <1>1, <1>3 DEF WebInv, WebTypes
  <2> QED BY Zenon, <1>1, <1>2, <2>1, SeenLater DEF Claims
<1> QED
  BY Zenon, <1>1, <1>2, <1>3, <1>4, <1>5, <1>6, SaveKeeps

\* A sensitive view acts on a proof that its session gave within the window: the
\* copy claims no later proof than the last.
LEMMA NothingStale ==
  ASSUME WebInv, NEW t \in Thread, sensitive_mfa_required(t)
  PROVE  stale' = {}
<1> DEFINE key == thread[t].key
           v == thread[t].session.verified
           w == thread[t].policy.window
<1>1. /\ thread[t] \in Served /\ v # Never /\ clock - v <= w
      /\ stale' = stale \cup {k \in {key} : proof[k] # Never => clock - proof[k] > w}
  BY DEF sensitive_mfa_required, user_has_recent_mfa, WebInv, WebTypes
<1>2. /\ key \in Key /\ v \in Nat /\ w \in Nat /\ clock \in Nat /\ proof[key] \in Moment
      /\ SeenBy(v, proof[key]) /\ stale = {}
  BY <1>1, StoredFields DEF sensitive_mfa_required, WebInv, WebTypes, CopiesAreTrue, Claims,
     Moment, ActsOnRecentProof
<1> HIDE DEF key, v, w
<1>3. proof[key] \in Nat /\ clock - proof[key] <= w
  BY <1>1, <1>2, WebAssumption DEF SeenBy, Moment
<1>4. {k \in {key} : proof[k] # Never => clock - proof[k] > w} = {}
  BY <1>2, <1>3, WebAssumption
<1> QED
  BY <1>1, <1>2, <1>4

\* A new session claims nothing but the proof its sign-in gave.
LEMMA SignInKeeps ==
  ASSUME WebInv, NEW v \in {Never, clock}, SignIn(v)
  PROVE  WebInv'
<1> DEFINE k == logins + 1
           s == [started |-> Never, active |-> Never, verified |-> v]
<1>t. /\ WebTypes /\ NotAhead /\ KeysAreNew /\ CopiesAreTrue /\ UseIsStored
      /\ ActsOnRecentProof /\ IdleSessionsEnd
  BY DEF WebInv
<1>1. /\ logins' = k /\ web' = [web EXCEPT ![k] = s] /\ proof' = [proof EXCEPT ![k] = v]
      /\ UNCHANGED <<thread, security, clock, used, stale, late>>
      /\ k \in Key /\ k > logins /\ logins \in Nat /\ logins' \in 0..MaxLogin
  BY <1>t, WebAssumption DEF SignIn, WebTypes, Key
<1>2. /\ v \in Moment /\ clock \in Nat /\ s \in Stored /\ s.active = Never /\ s.verified = v
  BY <1>t DEF WebTypes, Moment, Stored
<1>3. used[k] = Never /\ \A t \in Thread : thread[t] # NoRequest => thread[t].key # k
  BY <1>t, <1>1, StoredFields DEF KeysAreNew, WebTypes, Key
<1>4. PICK n \in Key : n = k
  BY <1>1
<1>5. PICK x \in Stored : x = s
  BY <1>2
<1> HIDE DEF k, s
<1>6. WebTypes'
  BY <1>t, <1>1, <1>2 DEF WebTypes
<1>7. NotAhead'
  BY <1>t, <1>1, <1>2, WebAssumption DEF NotAhead, WebTypes, SeenBy, Moment
<1>8. KeysAreNew'
  <2>1. \A j \in Key : j > n => j > logins /\ j # n
    BY <1>1, <1>4, WebAssumption DEF Key, k
  <2>2. \A t \in Thread : thread[t] # NoRequest => thread[t].key <= n
    BY <1>t, <1>1, <1>4, StoredFields DEF KeysAreNew, WebTypes, Key, k
  <2> QED BY <1>t, <1>1, <1>4, <2>1, <2>2 DEF KeysAreNew, WebTypes
<1>9. CopiesAreTrue'
  <2>1. \A j \in Key : j # n => web'[j] = web[j] /\ proof'[j] = proof[j]
    BY <1>t, <1>1, <1>4 DEF WebTypes
  <2>2. web'[n] = x /\ proof'[n] = v
    BY <1>t, <1>1, <1>4, <1>5 DEF WebTypes
  <2>3. x.active = Never /\ x.verified = v
    BY <1>2, <1>5
  <2>4. ASSUME NEW j \in Key, web'[j] # NoSession PROVE Claims(web[j], j)'
    <3>1. CASE j = n
      BY <1>2, <2>2, <2>3, <3>1, WebAssumption DEF Claims, SeenBy, Moment
    <3>2. CASE j # n
      BY Zenon, <1>t, <1>1, <2>1, <2>4, <3>2 DEF CopiesAreTrue, Claims
    <3> QED BY <3>1, <3>2
  <2>5. ASSUME NEW t \in Thread, thread'[t] # NoRequest
        PROVE  Claims(thread[t].session, thread[t].key)' /\ thread'[t].session.active # Never
    <3>1. thread[t] \in Served /\ thread[t].key \in Key /\ thread[t].key # n
      BY <1>t, <1>1, <1>3, <1>4, <2>5, StoredFields DEF WebTypes
    <3>2. proof'[thread[t].key] = proof[thread[t].key] /\ thread' = thread /\ used' = used
      BY Zenon, <1>1, <2>1, <3>1
    <3>3. Claims(thread[t].session, thread[t].key) /\ thread[t].session.active # Never
      BY Zenon, <1>t, <2>5, <3>2 DEF CopiesAreTrue
    <3> QED BY Zenon, <3>2, <3>3 DEF Claims
  <2> QED BY <2>4, <2>5 DEF CopiesAreTrue
<1>10. UseIsStored'
  <2> SUFFICES ASSUME NEW j \in Key, web'[j] # NoSession, used'[j] # Never, ~InService(j)'
               PROVE  web'[j].active # Never
    BY DEF UseIsStored
  <2>1. j # n /\ ~InService(j)
    BY Zenon, <1>1, <1>3, <1>4 DEF InService
  <2> QED BY <1>t, <1>1, <1>4, <2>1 DEF UseIsStored, WebTypes
<1> QED
  BY <1>t, <1>1, <1>6, <1>7, <1>8, <1>9, <1>10 DEF WebInv, ActsOnRecentProof, IdleSessionsEnd

\* Ending a session takes nothing from the copies in use.
LEMMA EndKeeps ==
  ASSUME WebInv, NEW k \in Key, web' = [web EXCEPT ![k] = NoSession],
         UNCHANGED <<thread, security, logins, clock, proof, used, stale, late>>
  PROVE  WebInv'
<1>t. /\ WebTypes /\ NotAhead /\ KeysAreNew /\ CopiesAreTrue /\ UseIsStored
      /\ ActsOnRecentProof /\ IdleSessionsEnd
  BY DEF WebInv
<1>1. \A j \in Key : web'[j] # NoSession => web'[j] = web[j]
  BY <1>t DEF WebTypes
<1>2. WebTypes' /\ NotAhead' /\ KeysAreNew'
  BY <1>t, <1>1 DEF WebTypes, NotAhead, KeysAreNew
<1>3. CopiesAreTrue'
  BY Zenon, <1>t, <1>1 DEF CopiesAreTrue, Claims
<1>4. UseIsStored'
  BY Zenon, <1>t, <1>1 DEF UseIsStored, InService
<1> QED
  BY <1>t, <1>2, <1>3, <1>4 DEF WebInv, ActsOnRecentProof, IdleSessionsEnd

\* A request that is served finds a session that was used within the timeout.
LEMMA NotLate ==
  ASSUME WebInv, NEW k \in Key, web[k] # NoSession, ~Expired(web[k]),
         ~InService(k), used[k] # Never
  PROVE  ~(clock - used[k] >= security.idle)
<1>1. /\ web[k] \in Stored /\ web[k].active # Never /\ SeenBy(web[k].active, used[k])
      /\ SeenBy(used[k], clock) /\ used[k] \in Nat /\ clock \in Nat /\ security \in SecurityForm
  BY Zenon DEF WebInv, WebTypes, UseIsStored, CopiesAreTrue, Claims, NotAhead, Moment
<1>2. web[k].active \in Nat /\ security.idle \in Nat /\ web[k].active <= used[k]
  BY <1>1, StoredFields, WebAssumption DEF Moment, SeenBy
<1>3. ~(clock - web[k].active >= security.idle)
  BY Zenon, <1>1 DEF Expired, Active
<1> QED
  BY Zenon, <1>1, <1>2, <1>3, WebNumbers

\* Serving a request gives its thread a copy that claims what the stored session
\* claimed, and the use that it is.
LEMMA ServeKeeps ==
  ASSUME WebInv, NEW t \in Thread, NEW k \in Key, NEW passive \in BOOLEAN,
         thread[t] = NoRequest, web[k] # NoSession, passive => web[k].active # Never,
         ~Expired(web[k]), Serve(t, k, passive),
         UNCHANGED <<security, logins, clock, proof, stale>>
  PROVE  WebInv'
<1>t. /\ WebTypes /\ NotAhead /\ KeysAreNew /\ CopiesAreTrue /\ UseIsStored
      /\ ActsOnRecentProof /\ IdleSessionsEnd /\ web[k] \in Stored /\ clock \in Nat
  BY DEF WebInv, WebTypes
<1>1. PICK s \in Stored : s = Touched(web[k], passive)
  BY Zenon, <1>t, TouchedFields
<1>2. s.verified = web[k].verified /\ s.active = IF passive THEN web[k].active ELSE clock
  BY Zenon, <1>t, <1>1, TouchedFields
<1>3. PICK x \in Served : x.key = k /\ x.session = s /\ thread' = [thread EXCEPT ![t] = x]
  <2> DEFINE y == [key |-> k, session |-> s, policy |-> security,
                   limited |-> security.require /\ ~enrolled]
  <2>1. y \in Served
    BY Zenon, <1>t DEF Served, WebTypes
  <2>2. y.key = k /\ y.session = s /\ thread' = [thread EXCEPT ![t] = y]
    BY Zenon, <1>1 DEF Serve
  <2> HIDE DEF y
  <2> QED BY Zenon, <2>1, <2>2
<1>4. /\ used' = IF passive THEN used ELSE [used EXCEPT ![k] = clock]
      /\ web' = web
      /\ late' = {}
  <2>1. {l \in {k} : /\ ~InService(l) /\ used[l] # Never
                     /\ clock - used[l] >= security.idle} = {}
    BY Zenon, NotLate
  <2> QED BY Zenon, <1>t, <2>1 DEF Serve, IdleSessionsEnd
<1>5. /\ used' \in [Key -> Moment]
      /\ \A j \in Key : j # k => used'[j] = used[j]
      /\ used'[k] = IF passive THEN used[k] ELSE clock
  BY <1>t, <1>4 DEF WebTypes, Moment
<1>6. \A j \in Key : SeenBy(used[j], used'[j]) /\ SeenBy(used'[j], clock)
  <2>1. \A j \in Key : used[j] \in Moment /\ SeenBy(used[j], clock)
    BY Zenon, <1>t DEF NotAhead, WebTypes
  <2>2. \A j \in Key : used'[j] = used[j] \/ used'[j] = clock
    BY Zenon, <1>5
  <2> QED BY Zenon, <1>t, <2>1, <2>2, SeenLater
<1>7. /\ thread'[t] = x /\ \A u \in Thread : u # t => thread'[u] = thread[u]
  BY <1>t, <1>3 DEF WebTypes
<1>8. WebTypes'
  BY Zenon, <1>t, <1>3, <1>4, <1>5 DEF WebTypes
<1>9. NotAhead'
  BY Zenon, <1>t, <1>6 DEF NotAhead
<1>10. KeysAreNew'
  <2>1. k <= logins
    BY Zenon, <1>t, WebNumbers DEF KeysAreNew, WebTypes
  <2>2. \A j \in Key : j > logins => j # k /\ web[j] = NoSession /\ used[j] = Never
    BY Zenon, <1>t DEF KeysAreNew
  <2>3. \A j \in Key : j > logins => web'[j] = NoSession /\ used'[j] = Never
    BY Zenon, <1>4, <1>5, <2>2
  <2>4. \A u \in Thread : thread'[u] # NoRequest => thread'[u].key <= logins
    BY Zenon, <1>t, <1>3, <1>7, <2>1 DEF KeysAreNew
  <2> QED BY Zenon, <2>3, <2>4 DEF KeysAreNew
<1>11. CopiesAreTrue'
  <2>1. \A j \in Key, y \in Stored : Claims(y, j) => Claims(y, j)'
    BY <1>t, <1>5, <1>6, StoredFields, SeenTrans DEF Claims, WebTypes
  <2>2. Claims(s, k)' /\ s.active # Never
    <3>1. Claims(web[k], k) /\ clock # Never
      BY Zenon, <1>t, WebAssumption DEF CopiesAreTrue
    <3>2. SeenBy(s.active, used'[k])
      BY Zenon, <1>t, <1>2, <1>5, <3>1, SeenLater DEF Claims
    <3> QED BY Zenon, <1>2, <3>1, <3>2 DEF Claims
  <2>3. ASSUME NEW j \in Key, web'[j] # NoSession PROVE Claims(web[j], j)'
    <3>1. web[j] \in Stored /\ web'[j] = web[j] /\ Claims(web[j], j)
      BY <1>t, <1>4, <2>3 DEF WebTypes, CopiesAreTrue
    <3> QED BY Zenon, <2>1, <3>1 DEF Claims
  <2>4. ASSUME NEW u \in Thread, thread'[u] # NoRequest
        PROVE  Claims(thread[u].session, thread[u].key)' /\ thread'[u].session.active # Never
    <3>1. CASE u = t
      BY Zenon, <1>3, <1>7, <2>2, <3>1 DEF Claims
    <3>2. CASE u # t
      <4>1. /\ thread'[u] = thread[u] /\ thread[u] \in Served
            /\ Claims(thread[u].session, thread[u].key) /\ thread[u].session.active # Never
        BY Zenon, <1>t, <1>7, <2>4, <3>2 DEF WebTypes, CopiesAreTrue
      <4>2. thread[u].session \in Stored /\ thread[u].key \in Key
        BY <4>1, StoredFields
      <4> QED BY Zenon, <2>1, <4>1, <4>2 DEF Claims
    <3> QED BY Zenon, <3>1, <3>2
  <2> QED BY Zenon, <2>3, <2>4 DEF CopiesAreTrue
<1>12. UseIsStored'
  <2> SUFFICES ASSUME NEW j \in Key, web'[j] # NoSession, used'[j] # Never, ~InService(j)'
               PROVE  web'[j].active # Never
    BY Zenon DEF UseIsStored
  <2>1. x # NoRequest
    BY StoredFields
  <2>2. j # k
    BY Zenon, <1>3, <1>7, <2>1 DEF InService
  <2>3. ~InService(j)
    BY Zenon, <1>3, <1>7, <2>2 DEF InService
  <2> QED BY Zenon, <1>t, <1>4, <1>5, <2>2, <2>3 DEF UseIsStored
<1> QED
  BY <1>t, <1>4, <1>8, <1>9, <1>10, <1>11, <1>12 DEF WebInv, ActsOnRecentProof, IdleSessionsEnd

\* Every request, sign-in and tick preserves the invariant.
LEMMA NextWeb == WebInv /\ [WebNext]_webVars => WebInv'
<1> SUFFICES ASSUME WebInv, [WebNext]_webVars PROVE WebInv'
  OBVIOUS
<1>t. WebTypes /\ security \in SecurityForm /\ stale = {}
  BY DEF WebInv, WebTypes, ActsOnRecentProof
<1>1. ASSUME PAMOliveLoginView \/ oidc_callback PROVE WebInv'
  BY <1>1, SignInKeeps DEF PAMOliveLoginView, oidc_callback
<1>2. ASSUME NEW k \in Key, Logout(k) PROVE WebInv'
  BY Zenon, <1>2, EndKeeps DEF Logout
<1>3. ASSUME NEW k \in Key, NEW t \in Thread, NEW passive \in BOOLEAN, _apply_policy(t, k, passive)
      PROVE  WebInv'
  <2>1. CASE Expired(web[k])
    BY <1>3, <2>1, EndKeeps DEF _apply_policy
  <2>2. CASE ~Expired(web[k])
    BY <1>3, <2>2, ServeKeeps DEF _apply_policy
  <2> QED BY <2>1, <2>2
<1>4. ASSUME NEW t \in Thread, Return(t) \/ RestartEnrolment(t) PROVE WebInv'
  BY <1>t, <1>4, ReturnKeeps DEF Return, RestartEnrolment
<1>5. ASSUME NEW t \in Thread, StepUp(t) \/ ConfirmEnrolment(t) \/ ResetMfa(t) PROVE WebInv'
  BY <1>5, MarkKeeps DEF StepUp, ConfirmEnrolment, ResetMfa
<1>6. ASSUME NEW t \in Thread, SensitiveView(t) PROVE WebInv'
  <2>1. stale' = {} /\ thread[t] # NoRequest
    BY Zenon, <1>6, NothingStale DEF SensitiveView, sensitive_mfa_required
  <2> QED BY <1>t, <1>6, <2>1, ReturnKeeps DEF SensitiveView
<1>7. ASSUME NEW t \in Thread, NEW f \in SecurityForm, security_policy(t, f) PROVE WebInv'
  <2>1. stale' = {} /\ thread[t] # NoRequest
    BY Zenon, <1>7, NothingStale DEF security_policy, sensitive_mfa_required
  <2> QED BY <1>7, <2>1, ReturnKeeps DEF security_policy
<1>8. ASSUME WebTick \/ UNCHANGED webVars PROVE WebInv'
  <2>1. /\ UNCHANGED <<web, thread, security, logins, proof, used, stale, late>>
        /\ clock' \in Nat /\ clock <= clock' /\ clock \in Nat
    <3>1. clock \in Nat
      BY Zenon, <1>t DEF WebTypes
    <3>2. clock + 1 \in Nat /\ clock <= clock + 1 /\ clock <= clock
      BY <3>1
    <3>3. /\ UNCHANGED <<web, thread, security, logins, proof, used, stale, late>>
          /\ clock' = clock + 1 \/ clock' = clock
      BY Zenon, <1>8 DEF WebTick, webVars
    <3> QED
      BY Zenon, <3>1, <3>2, <3>3
  <2>2. NotAhead'
    <3>1. \A k \in Key : /\ proof[k] \in Moment /\ SeenBy(proof[k], clock)
                         /\ used[k] \in Moment /\ SeenBy(used[k], clock)
      BY Zenon DEF WebInv, NotAhead, WebTypes
    <3> QED BY Zenon, <2>1, <3>1, SeenLater DEF NotAhead
  <2> QED
    BY Zenon, <2>1, <2>2 DEF WebInv, WebTypes, KeysAreNew, CopiesAreTrue, Claims, UseIsStored, InService,
       ActsOnRecentProof, IdleSessionsEnd
<1> QED
  BY <1>1, <1>2, <1>3, <1>4, <1>5, <1>6, <1>7, <1>8 DEF WebNext

\* The sessions' invariant holds in every reachable state.
THEOREM WebInvariance == WebSpec => []WebInv
<1>1. WebInit => WebInv
  <2> SUFFICES ASSUME WebInit PROVE WebInv
    BY Zenon
  <2>1. logins \in 0..MaxLogin /\ clock \in Nat /\ clock \in Moment
    BY WebAssumption DEF WebInit, Moment
  <2>2. \A k \in Key : web[k] = NoSession /\ proof[k] = Never /\ used[k] = Never
    BY Zenon DEF WebInit
  <2>3. WebTypes
    BY Zenon, <2>1 DEF WebInit, WebTypes, Moment
  <2>4. NotAhead
    BY Zenon, <2>1, <2>2, SeenLater DEF NotAhead
  <2>5. KeysAreNew /\ CopiesAreTrue /\ UseIsStored
    BY Zenon, <2>2 DEF WebInit, KeysAreNew, CopiesAreTrue, UseIsStored
  <2>6. ActsOnRecentProof /\ IdleSessionsEnd
    BY Zenon DEF WebInit, ActsOnRecentProof, IdleSessionsEnd
  <2> QED BY Zenon, <2>3, <2>4, <2>5, <2>6 DEF WebInv
<1> QED
  BY <1>1, NextWeb, PTL DEF WebSpec

\* However many requests of however many sessions overlap and overwrite each
\* other's copy, a sensitive action is performed only by a session that itself
\* proved the second factor within the policy's window (sensitive_mfa_required).
THEOREM SensitiveNeedsProof == WebSpec => []ActsOnRecentProof
  BY WebInvariance, PTL DEF WebInv

\* A session left unused for the idle timeout serves no request, however its
\* requests overlap and whatever polls it answers (SessionSecurityMiddleware).
THEOREM IdleIsOver == WebSpec => []IdleSessionsEnd
  BY WebInvariance, PTL DEF WebInv

-----------------------------------------------------------------------------
(***************************************************************************)
(* Permission profiles, for any areas on the page.                         *)
(*                                                                         *)
(* The levels of an area need not be nested (the operations on secrets are *)
(* not), so the level shown need not have what the others have.  It does   *)
(* since two levels together are a third, which every area is shown to     *)
(* have.                                                                   *)
(***************************************************************************)

\* An area has two or three levels; a capability of a level has its view there
\* too; and two levels together are a third, no earlier than they are.
Regular(levels) ==
  /\ DOMAIN levels \in {1..2, 1..3}
  /\ \A i \in DOMAIN levels : \A c \in levels[i] : <<c[1], "view">> \in levels[i]
  /\ \A i, j \in DOMAIN levels :
       i <= j => \E k \in DOMAIN levels : k >= j /\ levels[k] = levels[i] \cup levels[j]

RegularAreas(areas) == \A a \in DOMAIN areas : Regular(areas[a])

\* A capability of an area has its view beside it in a set that has the view.
LEMMA ViewIsThere ==
  ASSUME NEW area, NEW verbs, "view" \in verbs, NEW c \in Of(area, verbs)
  PROVE  <<c[1], "view">> \in Of(area, verbs)
  BY DEF Of

\* Two levels are regular if the second has what the first has and more.
LEMMA TwoAreRegular ==
  ASSUME NEW area, NEW a, NEW b, "view" \in a, a \subseteq b
  PROVE  Regular(<<Of(area, a), Of(area, b)>>)
<1> DEFINE l == <<Of(area, a), Of(area, b)>>
<1>1. DOMAIN l = 1..2 /\ l[1] = Of(area, a) /\ l[2] = Of(area, b) /\ l[1] \subseteq l[2]
  BY DEF Of
<1> HIDE DEF l
<1>2. \A i \in DOMAIN l : \A c \in l[i] : <<c[1], "view">> \in l[i]
  <2>1. "view" \in b /\ \A i \in 1..2 : i = 1 \/ i = 2
    OBVIOUS
  <2>2. /\ \A c \in l[1] : <<c[1], "view">> \in l[1]
        /\ \A c \in l[2] : <<c[1], "view">> \in l[2]
    BY <1>1, <2>1, ViewIsThere
  <2> QED BY <1>1, <2>1, <2>2, Zenon
<1>3. ASSUME NEW i \in 1..2, NEW j \in 1..2, i <= j
      PROVE  \E k \in 1..2 : k >= j /\ l[k] = l[i] \cup l[j]
  <2>1. l[j] = l[i] \cup l[j]
    BY <1>1, <1>3
  <2> QED BY <2>1
<1> QED
  BY Zenon, <1>1, <1>2, <1>3 DEF Regular, l

\* Three are if the third has what the first two have, and no more unless the
\* second has what the first has.
LEMMA ThreeAreRegular ==
  ASSUME NEW area, NEW a, NEW b, NEW c, "view" \in a, "view" \in b, a \subseteq c, b \subseteq c,
         a \subseteq b \/ a \cup b = c
  PROVE  Regular(<<Of(area, a), Of(area, b), Of(area, c)>>)
<1> DEFINE l == <<Of(area, a), Of(area, b), Of(area, c)>>
<1>1. DOMAIN l = 1..3 /\ l[1] = Of(area, a) /\ l[2] = Of(area, b) /\ l[3] = Of(area, c)
  BY SMTT(30)
<1>2. /\ l[1] \subseteq l[3] /\ l[2] \subseteq l[3]
      /\ l[1] \subseteq l[2] \/ l[1] \cup l[2] = l[3]
  BY Zenon DEF Of
<1> HIDE DEF l
<1>3. \A i \in 1..3 : i = 1 \/ i = 2 \/ i = 3
  OBVIOUS
<1>4. \A i \in DOMAIN l : \A x \in l[i] : <<x[1], "view">> \in l[i]
  <2>1. "view" \in c
    OBVIOUS
  <2>2. /\ \A x \in l[1] : <<x[1], "view">> \in l[1]
        /\ \A x \in l[2] : <<x[1], "view">> \in l[2]
        /\ \A x \in l[3] : <<x[1], "view">> \in l[3]
    BY <1>1, <2>1, ViewIsThere
  <2> QED BY <1>1, <1>3, <2>2, Zenon
<1>5. ASSUME NEW i \in 1..3, NEW j \in 1..3, i <= j
      PROVE  \E k \in 1..3 : k >= j /\ l[k] = l[i] \cup l[j]
  <2>1. CASE i = j
    BY <2>1
  <2>2. CASE i # j /\ j = 3
    <3>1. l[3] = l[i] \cup l[3]
      BY <1>2, <1>3
    <3> QED BY <2>2, <3>1
  <2>3. CASE i # j /\ j # 3
    <3>1. i = 1 /\ j = 2
      BY <1>5, <2>3
    <3>2. l[2] = l[1] \cup l[2] \/ l[3] = l[1] \cup l[2]
      BY <1>2
    <3> QED BY <3>1, <3>2
  <2> QED BY <2>1, <2>2, <2>3
<1> QED
  BY Zenon, <1>1, <1>4, <1>5 DEF Regular, l

\* An area with a view and one more capability is regular.
LEMMA ViewThenIsRegular ==
  ASSUME NEW area, NEW verb
  PROVE  Regular(ViewThen(area, verb))
  BY TwoAreRegular DEF ViewThen

\* All of the areas are regular.
LEMMA AreasAreRegular == RegularAreas(PERMISSION_AREAS)
<1>1. RegularAreas(IdentityAreas)
  <2>1. /\ DOMAIN IdentityAreas = {"users", "groups", "roles", "identity_sources"}
        /\ IdentityAreas["users"] = ViewThen("users", "manage")
        /\ IdentityAreas["groups"] = ViewThen("groups", "manage")
        /\ IdentityAreas["roles"] = ViewThen("roles", "manage")
        /\ IdentityAreas["identity_sources"] =
             <<Of("identity_sources", {"view"}), Of("identity_sources", {"view", "manage"}),
               Of("identity_sources", {"view", "manage", "sync"})>>
    BY Zenon DEF IdentityAreas
  <2>2. Regular(IdentityAreas["identity_sources"])
    BY <2>1, ThreeAreRegular
  <2> QED BY <2>1, <2>2, ViewThenIsRegular DEF RegularAreas
<1>2. RegularAreas(ResourceAreas)
  BY ViewThenIsRegular DEF RegularAreas, ResourceAreas
<1>3. RegularAreas(SecretAreas)
  <2>1. /\ DOMAIN SecretAreas = {"credentials", "secret_operations", "policies"}
        /\ SecretAreas["credentials"] = ViewThen("credentials", "manage")
        /\ SecretAreas["policies"] = ViewThen("policies", "manage")
        /\ SecretAreas["secret_operations"] =
             <<Of("credentials", {"view", "reveal"}), Of("credentials", {"view", "rotate"}),
               Of("credentials", {"view", "reveal", "rotate"})>>
    BY Zenon DEF SecretAreas
  <2>2. {"view", "reveal"} \cup {"view", "rotate"} = {"view", "reveal", "rotate"}
    OBVIOUS
  <2>3. Regular(SecretAreas["secret_operations"])
    BY <2>1, <2>2, ThreeAreRegular
  <2> QED BY Zenon, <2>1, <2>3, ViewThenIsRegular DEF RegularAreas
<1>4. RegularAreas(ControlAreas)
  <2>1. /\ DOMAIN ControlAreas = {"approvals", "sessions", "audit", "system"}
        /\ ControlAreas["approvals"] = ViewThen("approvals", "decide")
        /\ ControlAreas["audit"] = ViewThen("audit", "export")
        /\ ControlAreas["system"] = ViewThen("system", "manage")
        /\ ControlAreas["sessions"] =
             <<Of("sessions", {"view"}), Of("sessions", {"view", "join", "terminate"})>>
    BY Zenon DEF ControlAreas
  <2>2. Regular(ControlAreas["sessions"])
    BY <2>1, TwoAreRegular
  <2> QED BY <2>1, <2>2, ViewThenIsRegular DEF RegularAreas
<1>5. ASSUME NEW f, NEW g, RegularAreas(f), RegularAreas(g) PROVE RegularAreas(Joined(f, g))
  BY <1>5 DEF RegularAreas, Joined
<1> QED
  BY <1>1, <1>2, <1>3, <1>4, <1>5 DEF PERMISSION_AREAS

\* The level that is shown is granted, and has all that the granted levels have.
LEMMA ShownLevel ==
  ASSUME NEW levels, Regular(levels), NEW granted,
         NEW top, top = level_for_capabilities(levels, granted)
  PROVE  /\ top \in DOMAIN levels \cup {0}
         /\ top > 0 => top \in DOMAIN levels /\ levels[top] \subseteq granted
         /\ \A i \in DOMAIN levels : levels[i] \subseteq granted =>
              top > 0 /\ levels[i] \subseteq levels[top]
<1> DEFINE held == {i \in DOMAIN levels : levels[i] \subseteq granted}
<1>1. DOMAIN levels \subseteq 1..3
  BY DEF Regular
<1>2. \E i \in held \cup {0} : \A j \in held : j <= i
  <2>1. held \subseteq 1..3
    BY <1>1
  <2> HIDE DEF held
  <2> QED BY <2>1
<1>3. top \in held \cup {0} /\ \A j \in held : j <= top
  BY <1>2, Zenon DEF level_for_capabilities
<1>4. ASSUME NEW i \in DOMAIN levels, levels[i] \subseteq granted
      PROVE  top > 0 /\ levels[i] \subseteq levels[top]
  <2>1. i \in held /\ i <= top /\ i \in 1..3
    BY <1>1, <1>3, <1>4
  <2>2. top > 0 /\ top \in held /\ top \in 1..3
    BY <1>1, <1>3, <2>1
  <2>3. PICK k \in DOMAIN levels : k >= top /\ levels[k] = levels[i] \cup levels[top]
    BY Zenon, <2>1, <2>2 DEF Regular
  <2>4. k \in held /\ k \in 1..3
    BY Zenon, <1>1, <1>4, <2>2, <2>3
  <2>5. k = top
    BY <1>3, <2>2, <2>3, <2>4
  <2> QED BY <2>2, <2>3, <2>5
<1> QED
  BY <1>1, <1>3, <1>4


-----------------------------------------------------------------------------
\* What a selection of levels stands for, before the console is added.
Granted(selected) ==
  UNION {PERMISSION_AREAS[a][selected[a]] : a \in {b \in page : selected[b] > 0}}

\* What the console saved last.
RolesInv ==
  /\ page \subseteq DOMAIN PERMISSION_AREAS
  /\ origin = "levels" =>
       \E selected \in [page -> Nat] :
         /\ \A a \in page : selected[a] \in DOMAIN PERMISSION_AREAS[a] \cup {0}
         /\ capabilities = WithConsole(Granted(selected))
  /\ origin = "list" => \E listed : capabilities = normalize_capabilities(listed)

\* The levels that are shown stand for nothing that is not granted.
LEMMA ShownIsGranted ==
  ASSUME page \subseteq DOMAIN PERMISSION_AREAS, NEW granted
  PROVE  Granted(Shown(granted)) \subseteq granted
<1> SUFFICES ASSUME NEW a \in page, Shown(granted)[a] > 0
             PROVE  PERMISSION_AREAS[a][Shown(granted)[a]] \subseteq granted
  BY DEF Granted
<1>1. Shown(granted)[a] = level_for_capabilities(PERMISSION_AREAS[a], granted)
  BY DEF Shown
<1>2. Regular(PERMISSION_AREAS[a])
  BY AreasAreRegular DEF RegularAreas
<1> QED
  BY Zenon, <1>1, <1>2, ShownLevel

\* And for all of what was selected.
LEMMA SelectedIsShown ==
  ASSUME page \subseteq DOMAIN PERMISSION_AREAS, NEW selected,
         \A a \in page : selected[a] \in DOMAIN PERMISSION_AREAS[a] \cup {0},
         NEW granted, Granted(selected) \subseteq granted
  PROVE  Granted(selected) \subseteq Granted(Shown(granted))
<1> SUFFICES ASSUME NEW a \in page, selected[a] > 0, NEW c \in PERMISSION_AREAS[a][selected[a]]
             PROVE  c \in Granted(Shown(granted))
  BY Zenon DEF Granted
<1>1. Shown(granted)[a] = level_for_capabilities(PERMISSION_AREAS[a], granted)
  BY DEF Shown
<1>2. Regular(PERMISSION_AREAS[a])
  BY AreasAreRegular DEF RegularAreas
<1>3. selected[a] \in DOMAIN PERMISSION_AREAS[a]
  OBVIOUS
<1>4. PERMISSION_AREAS[a][selected[a]] \subseteq granted
  BY DEF Granted
<1>5. /\ Shown(granted)[a] > 0
      /\ PERMISSION_AREAS[a][selected[a]] \subseteq PERMISSION_AREAS[a][Shown(granted)[a]]
  BY Zenon, <1>1, <1>2, <1>3, <1>4, ShownLevel
<1> QED
  BY Zenon, <1>5 DEF Granted

\* What a selection stands for has the views that its capabilities depend on.
LEMMA GrantedHasViews ==
  ASSUME page \subseteq DOMAIN PERMISSION_AREAS, NEW selected,
         \A a \in page : selected[a] \in DOMAIN PERMISSION_AREAS[a] \cup {0},
         NEW c \in Granted(selected)
  PROVE  <<c[1], "view">> \in Granted(selected)
<1>1. PICK a \in page : selected[a] > 0 /\ c \in PERMISSION_AREAS[a][selected[a]]
  BY Zenon DEF Granted
<1>2. Regular(PERMISSION_AREAS[a]) /\ selected[a] \in DOMAIN PERMISSION_AREAS[a]
  <2>1. selected[a] # 0
    BY <1>1
  <2> QED BY Zenon, <2>1, AreasAreRegular DEF RegularAreas
<1>3. <<c[1], "view">> \in PERMISSION_AREAS[a][selected[a]]
  BY Zenon, <1>1, <1>2 DEF Regular
<1> QED
  BY Zenon, <1>1, <1>3 DEF Granted

\* Normalising changes nothing that has its views and the console already.
LEMMA NormalForm ==
  ASSUME NEW G, \A c \in G \ Console : <<c[1], "view">> \in G \cup Console
  PROVE  normalize_capabilities(WithConsole(G)) = WithConsole(G)
<1>1. CASE G = {}
  BY <1>1 DEF normalize_capabilities, WithConsole
<1>2. CASE G # {}
  <2>1. WithConsole(G) = G \cup Console
    BY <1>2 DEF WithConsole
  <2>2. {<<c[1], "view">> : c \in (G \cup Console) \ Console} \subseteq G \cup Console
    OBVIOUS
  <2>3. (G \cup Console) \cup {<<c[1], "view">> : c \in (G \cup Console) \ Console} = G \cup Console
    BY <2>2
  <2> QED BY <1>2, <2>1, <2>3 DEF normalize_capabilities, WithConsole
<1> QED
  BY <1>1, <1>2

\* To normalise a list twice is to normalise it once, whatever it holds
\* (normalize_capabilities).
THEOREM NormalizingIsIdempotent ==
  ASSUME NEW listed
  PROVE  normalize_capabilities(normalize_capabilities(listed)) = normalize_capabilities(listed)
<1> DEFINE G == listed \cup {<<c[1], "view">> : c \in listed \ Console}
<1>1. ASSUME NEW c \in G PROVE <<c[1], "view">> \in G \cup Console \/ c \in Console
  <2>1. CASE c \in listed
    BY <2>1
  <2>2. CASE c \notin listed
    <3>1. PICK d \in listed \ Console : c = <<d[1], "view">>
      BY <2>2
    <3>2. <<c[1], "view">> = c
      BY <3>1
    <3> QED BY <3>2
  <2> QED BY <2>1, <2>2
<1>2. normalize_capabilities(listed) = WithConsole(G)
  BY DEF normalize_capabilities
<1> HIDE DEF G
<1> QED
  BY <1>1, <1>2, NormalForm

\* Opening a role and saving it gives nobody anything, for pages of any of the
\* areas and whatever was stored (level_for_capabilities and
\* capabilities_from_levels of permission_profiles.py).
THEOREM ReopeningIsHarmless == RolesSpec => []ReopeningAddsNothing
<1>1. RolesInit => RolesInv
  <2> SUFFICES ASSUME RolesInit PROVE RolesInv
    OBVIOUS
  <2>1. page \subseteq DOMAIN PERMISSION_AREAS /\ origin # "list"
        /\ (origin = "levels" => capabilities = {})
    BY RolesAssumption DEF RolesInit
  <2> DEFINE none == [a \in page |-> 0]
  <2>2. none \in [page -> Nat] /\ \A a \in page : none[a] = 0
    OBVIOUS
  <2>3. Granted(none) = {}
    BY <2>2 DEF Granted
  <2> HIDE DEF none
  <2>4. WithConsole(Granted(none)) = {}
    BY <2>3 DEF WithConsole
  <2> QED BY <2>1, <2>2, <2>4 DEF RolesInv
<1>2. RolesInv /\ [RolesNext]_roleVars => RolesInv'
  <2> SUFFICES ASSUME RolesInv, [RolesNext]_roleVars PROVE RolesInv'
    OBVIOUS
  <2>1. page' = page /\ page \subseteq DOMAIN PERMISSION_AREAS
    BY Zenon DEF RolesInv, RolesNext, roleVars, SaveLevels, SaveList, SaveInAdministration
  <2>2. ASSUME NEW selected \in Selections, SaveLevels(selected) PROVE RolesInv'
    <3>1. /\ selected \in [page -> Nat]
          /\ \A a \in page : selected[a] \in DOMAIN PERMISSION_AREAS[a] \cup {0}
      <4>1. selected \in [page -> 0..3] /\ \A a \in page : selected[a] <= Len(PERMISSION_AREAS[a])
        BY DEF Selections
      <4>2. ASSUME NEW a \in page
            PROVE  /\ Len(PERMISSION_AREAS[a]) \in Nat
                   /\ DOMAIN PERMISSION_AREAS[a] = 1..Len(PERMISSION_AREAS[a])
        <5>1. Regular(PERMISSION_AREAS[a])
          BY <2>1, AreasAreRegular DEF RegularAreas
        <5> QED BY <5>1 DEF Regular
      <4>3. \A i \in 0..3 : i \in Nat /\ \A n \in Nat : i <= n => i \in 1..n \cup {0}
        OBVIOUS
      <4> QED BY Zenon, <4>1, <4>2, <4>3
    <3>2. capabilities' = WithConsole(Granted(selected)) /\ origin' = "levels"
      BY <2>2 DEF SaveLevels, capabilities_from_levels, Granted
    <3>3. Granted(selected)' = Granted(selected)
      BY Zenon, <2>1 DEF Granted
    <3> QED BY Zenon, <2>1, <3>1, <3>2, <3>3 DEF RolesInv
  <2>3. ASSUME NEW listed, SaveList(listed) PROVE RolesInv'
    BY Zenon, <2>1, <2>3 DEF RolesInv, SaveList
  <2>4. ASSUME NEW listed, SaveInAdministration(listed) PROVE RolesInv'
    BY Zenon, <2>1, <2>4 DEF RolesInv, SaveInAdministration
  <2>5. CASE UNCHANGED roleVars
    BY Zenon, <2>5 DEF RolesInv, roleVars, Granted
  <2> QED BY Zenon, <2>2, <2>3, <2>4, <2>5 DEF RolesNext
<1>3. RolesInv => ReopeningAddsNothing
  <2> SUFFICES ASSUME RolesInv PROVE ReopeningAddsNothing
    OBVIOUS
  <2> DEFINE again == capabilities_from_levels(Shown(capabilities))
             V == Granted(Shown(capabilities))
  <2>1. page \subseteq DOMAIN PERMISSION_AREAS /\ again = WithConsole(V)
    BY Zenon DEF RolesInv, capabilities_from_levels, Granted
  <2>2. V \subseteq capabilities
    BY <2>1, ShownIsGranted
  <2> HIDE DEF V, again
  <2>3. again \subseteq capabilities \cup Console
    BY <2>1, <2>2 DEF WithConsole
  <2>4. ASSUME origin = "levels"
        PROVE  again = capabilities /\ normalize_capabilities(capabilities) = capabilities
    <3>1. PICK selected \in [page -> Nat] :
            /\ \A a \in page : selected[a] \in DOMAIN PERMISSION_AREAS[a] \cup {0}
            /\ capabilities = WithConsole(Granted(selected))
      BY Zenon, <2>4 DEF RolesInv
    <3> DEFINE U == Granted(selected)
    <3>2. U \subseteq capabilities
      BY Zenon, <3>1 DEF WithConsole
    <3>3. U \subseteq V
      BY Zenon, <2>1, <3>1, <3>2, SelectedIsShown DEF V
    <3>4. normalize_capabilities(capabilities) = capabilities
      BY <2>1, <3>1, GrantedHasViews, NormalForm
    <3> HIDE DEF U
    <3>5. again = capabilities
      BY Zenon, <2>1, <2>2, <3>1, <3>2, <3>3 DEF WithConsole, U
    <3> QED BY <3>4, <3>5
  <2>5. ASSUME origin = "list" PROVE normalize_capabilities(capabilities) = capabilities
    BY <2>5, NormalizingIsIdempotent DEF RolesInv
  <2> QED BY <2>3, <2>4, <2>5 DEF ReopeningAddsNothing, again
<1> QED
  BY <1>1, <1>2, <1>3, PTL DEF RolesSpec
=============================================================================
