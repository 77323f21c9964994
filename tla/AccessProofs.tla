---------------------------- MODULE AccessProofs ----------------------------
(***************************************************************************)
(* Proofs about schedules, requests and decisions, as Governance composes  *)
(* them with leases and access reviews: for any users, groups, policies    *)
(* and edits of them, and any number of requests, leases and campaigns.    *)
(*                                                                         *)
(* A lease rests on a request that was approved before, so the proofs come *)
(* in layers, each using those before it: the policies and what was        *)
(* decided on requests first, then what leases remember of both.           *)
(***************************************************************************)
EXTENDS Governance, TLAPS

\* The policies, those that reviews have cut off, and the clock.  The form never
\* leaves a quorum of none.
PolicyInv ==
  /\ policy \in [Policy -> PolicyRow]
  /\ now \in Nat
  /\ \A p \in cut : p \in Policy /\ ~policy[p].enabled
  /\ \A p \in Policy : policy[p].approval_quorum > 0

\* What DecisionsAgree says of one request.
Agree(row, votes) ==
  LET against == {u \in User : votes[u] = "reject"}
  IN  /\ votes[row.requester] = "none"
      /\ row.status = "rejected" <=> against # {}
      /\ row.status = "rejected" => against = {row.decided_by}
      /\ row.status = "approved" =>
           IF row.decided_by = NoUser THEN Approvers(votes) = {}
                                      ELSE row.decided_by \in Approvers(votes)
      /\ row.status = "pending" <=> row.decided_at = NoTime

\* Nobody decides on a request that has not been made.
NoVotesYet == \A r \in Request : request[r] = NoRow => \A u \in User : vote[r][u] = "none"

RequestInv == RequestTypeOK /\ NoVotesYet /\ DecisionsAgree

-----------------------------------------------------------------------------
(* The hours of a day.                                                     *)

\* A day has hours, and none of them is the time that is not set.
LEMMA DayNumbers == DayLength \in Nat /\ DayLength > 0 /\ \A t \in Nat : t # NoTime
  BY PoliciesAssumption

\* Counting the hours of a day starts again at midnight.
LEMMA Around ==
  /\ \A x \in 0..(DayLength - 1) : x % DayLength = x
  /\ \A x \in DayLength..(2 * DayLength - 1) : x % DayLength = x - DayLength
  BY DayNumbers

\* A window that starts before it ends is an interval of the day.
LEMMA PlainWindow ==
  ASSUME NEW s \in 0..(DayLength - 1), NEW e \in 0..(DayLength - 1), s <= e
  PROVE  Window(s, e) = s..(e - 1)
<1> USE DayNumbers
<1>1. (e + DayLength - s) % DayLength = e - s
  <2>1. e + DayLength - s \in DayLength..(2 * DayLength - 1)
    OBVIOUS
  <2> QED BY <2>1, Around
<1>2. \A k \in 0..(e - s - 1) : (s + k) % DayLength = s + k
  <2>1. \A k \in 0..(e - s - 1) : s + k \in 0..(DayLength - 1)
    OBVIOUS
  <2> QED BY <2>1, Around
<1>3. \A t \in s..(e - 1) : t - s \in 0..(e - s - 1) /\ s + (t - s) = t
  OBVIOUS
<1>4. \A k \in 0..(e - s - 1) : s + k \in s..(e - 1)
  OBVIOUS
<1>5. Window(s, e) = {(s + k) % DayLength : k \in 0..(e - s - 1)}
  BY Zenon, <1>1 DEF Window
<1>6. ASSUME NEW t \in Window(s, e) PROVE t \in s..(e - 1)
  BY <1>2, <1>4, <1>5
<1>7. ASSUME NEW t \in s..(e - 1) PROVE t \in Window(s, e)
  BY Zenon, <1>2, <1>3, <1>5
<1> QED
  BY Zenon, <1>6, <1>7

\* A window that ends before it starts is the end of one day and the beginning of
\* the next.
LEMMA NightWindow ==
  ASSUME NEW s \in 0..(DayLength - 1), NEW e \in 0..(DayLength - 1), e < s
  PROVE  Window(s, e) = (s..(DayLength - 1)) \cup (0..(e - 1))
<1> USE DayNumbers
<1> DEFINE n == e + DayLength - s
<1>1. n % DayLength = n /\ n \in Nat
  <2>1. n \in 0..(DayLength - 1)
    OBVIOUS
  <2> QED BY <2>1, Around
<1>2. \A k \in 0..(n - 1) : (s + k) % DayLength = IF s + k < DayLength THEN s + k ELSE s + k - DayLength
  <2>1. \A k \in 0..(n - 1) : s + k \in 0..(DayLength - 1) \/ s + k \in DayLength..(2 * DayLength - 1)
    OBVIOUS
  <2>2. \A k \in 0..(n - 1) : s + k < DayLength <=> s + k \in 0..(DayLength - 1)
    OBVIOUS
  <2> QED BY <2>1, <2>2, Around
<1>3. \A t \in s..(DayLength - 1) : t - s \in 0..(n - 1) /\ s + (t - s) = t /\ t < DayLength
  OBVIOUS
<1>4. \A t \in 0..(e - 1) : /\ t + DayLength - s \in 0..(n - 1)
                            /\ ~(s + (t + DayLength - s) < DayLength)
                            /\ s + (t + DayLength - s) - DayLength = t
  OBVIOUS
<1>5. \A k \in 0..(n - 1) : IF s + k < DayLength THEN s + k \in s..(DayLength - 1)
                                                 ELSE s + k - DayLength \in 0..(e - 1)
  OBVIOUS
<1>6. Window(s, e) = {(s + k) % DayLength : k \in 0..(n - 1)}
  BY Zenon, <1>1 DEF Window
<1> HIDE DEF n
<1>7. ASSUME NEW t \in Window(s, e) PROVE t \in (s..(DayLength - 1)) \cup (0..(e - 1))
  BY <1>2, <1>5, <1>6
<1>8. ASSUME NEW t \in s..(DayLength - 1) PROVE t \in Window(s, e)
  BY <1>2, <1>3, <1>6
<1>9. ASSUME NEW t \in 0..(e - 1) PROVE t \in Window(s, e)
  <2> DEFINE k == t + DayLength - s
  <2>1. k \in 0..(n - 1) /\ ~(s + k < DayLength) /\ s + k - DayLength = t
    BY <1>4
  <2> HIDE DEF k
  <2> QED BY <1>2, <1>6, <2>1
<1> QED
  BY <1>7, <1>8, <1>9

\* A window of hours counts from its start until its end comes round.
LEMMA HoursOfADay == PolicyInv => WindowsWrapAround
<1> SUFFICES ASSUME PolicyInv, NEW s \in 0..(DayLength - 1), NEW e \in 0..(DayLength - 1)
             PROVE  /\ _clock_is_current(Clock, s, e) <=> Clock \in Window(s, e)
                    /\ _clock_is_current(Clock, s, NoTime) <=> Clock \in s..(DayLength - 1)
                    /\ _clock_is_current(Clock, NoTime, e) <=> Clock \in 0..(e - 1)
  BY Zenon DEF WindowsWrapAround
<1>1. Clock \in 0..(DayLength - 1)
  BY DayNumbers DEF Clock, PolicyInv
<1>2. s # NoTime /\ e # NoTime
  BY DayNumbers
<1> HIDE DEF Clock
<1>3. /\ Clock \in s..(e - 1) <=> Clock >= s /\ Clock < e
      /\ Clock \in s..(DayLength - 1) <=> Clock >= s
      /\ Clock \in 0..(e - 1) <=> Clock < e
      /\ s > e <=> ~(s <= e)
      /\ s > e <=> e < s
  BY <1>1, DayNumbers
<1>4. CASE s <= e
  <2>1. Window(s, e) = s..(e - 1) /\ ~(s > e)
    BY Zenon, <1>3, <1>4, PlainWindow
  <2> QED BY Zenon, <1>2, <1>3, <2>1 DEF _clock_is_current
<1>5. CASE s > e
  <2>1. Window(s, e) = (s..(DayLength - 1)) \cup (0..(e - 1))
    BY Zenon, <1>3, <1>5, NightWindow
  <2> QED BY Zenon, <1>2, <1>3, <1>5, <2>1 DEF _clock_is_current
<1> QED BY Zenon, <1>3, <1>4, <1>5

-----------------------------------------------------------------------------
(* Policies.                                                               *)

\* What the form saves is a policy, with a quorum.
LEMMA CleanedIsRow ==
  ASSUME NEW f \in PolicyRow, NEW old \in PolicyRow
  PROVE  Cleaned(f, old) \in PolicyRow /\ Cleaned(f, old).approval_quorum > 0
<1> DEFINE quorum == IF f.approval_quorum = 0 THEN 1 ELSE f.approval_quorum
<1>1. quorum \in Nat /\ quorum > 0
  BY DEF PolicyRow
<1>2. /\ old.targets \in SUBSET Target
      /\ old.weekdays \in SUBSET (0..6)
      /\ old.access_start_time \in Moment /\ old.access_end_time \in Moment
  BY DEF PolicyRow
<1>3. Cleaned(f, old) \in PolicyRow
  BY <1>1, <1>2, ZenonT(60) DEF Cleaned, PolicyRow
<1>4. Cleaned(f, old).approval_quorum = quorum
  BY Zenon DEF Cleaned, PolicyRow
<1> QED
  BY <1>1, <1>3, <1>4

\* A policy that is switched off is one, and is off.
LEMMA OffIsRow ==
  ASSUME NEW f \in PolicyRow
  PROVE  /\ [f EXCEPT !.enabled = FALSE] \in PolicyRow
         /\ ~[f EXCEPT !.enabled = FALSE].enabled
         /\ [f EXCEPT !.enabled = FALSE].approval_quorum = f.approval_quorum
BY Zenon DEF PolicyRow

\* The steps of requests and leases leave the policies alone.
LEMMA PoliciesStay ==
  /\ ApprovalsNext => UNCHANGED policyVars
  /\ LeasesNext => UNCHANGED approvalVars
<1>1. ASSUME NEW r \in Request, NEW a \in Application, NEW source \in Address,
             requests_page(r, a, source)
      PROVE  UNCHANGED policyVars
  BY <1>1 DEF requests_page, policyVars
<1>2. ASSUME NEW r \in Request, NEW u \in User, approvals(r, u) PROVE UNCHANGED policyVars
  BY <1>2 DEF approvals, decide_access_request, Decide
<1>3. ASSUME NEW l \in Lease, NEW u \in User, NEW c \in Credential, NEW source \in Address,
             gateway_authorize(l, u, c, source) \/
               \E verified \in 0..now : reveal_target_credential(l, u, c, source, verified)
      PROVE  UNCHANGED approvalVars
  BY <1>3 DEF gateway_authorize, reveal_target_credential, issue_secret_lease, approvalVars,
              policyVars
<1>4. ASSUME NEW l \in Lease, consume_secret_lease(l) PROVE UNCHANGED approvalVars
  BY <1>4 DEF consume_secret_lease
<1> QED
  BY <1>1, <1>2, <1>3, <1>4, Zenon DEF ApprovalsNext, LeasesNext

\* No review has cut anything off at first.
LEMMA InitPolicy == Init => PolicyInv
BY PoliciesAssumption DEF Init, PoliciesInit, GovernanceInit, PolicyInv

\* A review that revokes a policy switches it off; a form that switches it on takes it
\* from those cut off.
LEMMA NextPolicy == PolicyInv /\ [Next]_vars => PolicyInv'
<1> SUFFICES ASSUME PolicyInv, [Next]_vars PROVE PolicyInv'
  OBVIOUS
<1>p. \A p \in Policy : PolicyForm[p] \subseteq PolicyRow
  BY Zenon, PoliciesAssumption
<1> USE DEF PolicyInv
<1>1. CASE PoliciesNext /\ cut' = {p \in cut : ~policy'[p].enabled}
  <2>1. \/ policy' = policy
        \/ \E p \in Policy, f \in PolicyRow : policy' = [policy EXCEPT ![p] = Cleaned(f, policy[p])]
    BY Zenon, <1>1, <1>p
       DEF PoliciesNext, Tick, SavePolicy, SaveTimeFrame, SaveUserGroup, SaveTargetGroup, Switch
  <2>2. policy' \in [Policy -> PolicyRow] /\ \A p \in Policy : policy'[p].approval_quorum > 0
    <3>1. CASE policy' = policy
      BY Zenon, <3>1
    <3>2. ASSUME NEW p \in Policy, NEW f \in PolicyRow,
                 policy' = [policy EXCEPT ![p] = Cleaned(f, policy[p])]
          PROVE  policy' \in [Policy -> PolicyRow] /\ \A q \in Policy : policy'[q].approval_quorum > 0
      <4>1. Cleaned(f, policy[p]) \in PolicyRow /\ Cleaned(f, policy[p]).approval_quorum > 0
        BY Zenon, CleanedIsRow
      <4> QED BY <3>2, <4>1
    <3> QED BY Zenon, <2>1, <3>1, <3>2
  <2>3. now' = now \/ now' = now + 1
    BY Zenon, <1>1 DEF PoliciesNext, Tick, SavePolicy, SaveTimeFrame, SaveUserGroup, SaveTargetGroup,
                Switch
  <2>4. now' \in Nat
    BY <2>3
  <2> QED
    BY <1>1, <2>2, <2>4
<1>2. CASE UNCHANGED <<policy, now, cut>>
  BY <1>2
<1>3. ASSUME NEW k \in Campaign, NEW p \in Policy, NEW decision \in {"keep", "revoke"},
             decide_access_review_item(k, p, decision)
      PROVE  PolicyInv'
  <2>1. CASE decision = "revoke"
    <3>1. policy' = [policy EXCEPT ![p] = [policy[p] EXCEPT !.enabled = FALSE]]
          /\ cut' = cut \cup {p} /\ now' = now
      BY <1>3, <2>1 DEF decide_access_review_item
    <3> QED
      BY <3>1, OffIsRow
  <2> QED
    BY <1>2, <1>3, <2>1 DEF decide_access_review_item
<1> HIDE DEF PolicyInv
<1>4. ASSUME NEW k \in Campaign, create_access_review_campaign(k) PROVE PolicyInv'
  BY <1>2, <1>4 DEF create_access_review_campaign, leaseVars, approvalVars, policyVars
<1>5. CASE UNCHANGED <<policyVars, cut>>
  BY <1>2, <1>5 DEF policyVars
<1> QED
  BY <1>1, <1>3, <1>4, <1>5, PoliciesStay
     DEF Next, GovernanceNext, vars, leaseVars, approvalVars

-----------------------------------------------------------------------------
(* Requests.                                                               *)

\* Writing one row of a table leaves the others.
LEMMA Written ==
  ASSUME NEW S, NEW T, NEW f \in [S -> T], NEW x \in S, NEW y
  PROVE  /\ [f EXCEPT ![x] = y][x] = y
         /\ \A k \in S : k # x => [f EXCEPT ![x] = y][k] = f[k]
BY Zenon

\* Writing one entry of a table of tables keeps it one.
LEMMA EntryWritten ==
  ASSUME NEW S, NEW T, NEW V, NEW f \in [S -> [T -> V]], NEW x \in S, NEW y \in T, NEW v \in V
  PROVE  [f EXCEPT ![x][y] = v] \in [S -> [T -> V]]
OBVIOUS

\* The arithmetic of a lease: it ends a lifetime later, what it is used for is
\* over when it is, and times stay times.
LEMMA LeaseTimes ==
  /\ \A n, at, duration \in Nat : n < at + duration =>
       n + LeaseLifetime < at + duration + LeaseLifetime
  /\ \A n, end, at, duration \in Nat :
       n < end /\ end < at + duration + LeaseLifetime => n < at + duration + LeaseLifetime
  /\ \A n \in Nat : n + LeaseLifetime \in Nat /\ n + TotpLifetime \in Nat
BY LeasesAssumption

\* Decisions agree where they do so for each request.
LEMMA Agreement ==
  /\ DecisionsAgree <=> \A r \in Request : request[r] # NoRow => Agree(request[r], vote[r])
  /\ DecisionsAgree' <=> \A r \in Request : request'[r] # NoRow => Agree(request'[r], vote'[r])
<1>1. DecisionsAgree <=> \A r \in Request : request[r] # NoRow => Agree(request[r], vote[r])
  BY Zenon DEF DecisionsAgree, Agree
<1>2. DecisionsAgree' <=> \A r \in Request : request'[r] # NoRow => Agree(request'[r], vote'[r])
  BY Zenon DEF DecisionsAgree, Agree
<1> QED
  BY <1>1, <1>2

\* No request has been made at first.
LEMMA InitRequest == Init => RequestInv
BY ApprovalsAssumption
   DEF Init, RequestInit, RequestInv, RequestTypeOK, NoVotesYet, DecisionsAgree, Vote

\* A new request is pending, or was approved by nobody and needed nobody.
LEMMA AskKeeps ==
  ASSUME PolicyInv, RequestInv, NEW r \in Request, NEW a \in Application, NEW source,
         requests_page(r, a, source)
  PROVE  RequestInv'
<1> USE PoliciesAssumption, ApprovalsAssumption
<1> DEFINE row == request'[r]
<1>1. /\ request' = [request EXCEPT ![r] = row]
      /\ row.requester = a.requester /\ row.policy = a.policy /\ row.target = a.target
      /\ row.duration = a.duration
      /\ row.decided_by = NoUser
      /\ \/ row.status = "approved" /\ row.decided_at = now
         \/ row.status = "pending" /\ row.decided_at = NoTime
      /\ row \in RequestRow
      /\ vote' = vote
  BY DEF requests_page, RequestInv, RequestTypeOK, RequestRow, Application, PolicyInv
<1>2. \A u \in User : vote[r][u] = "none"
  BY DEF requests_page, RequestInv, NoVotesYet
<1> HIDE DEF row
<1>3. Agree(row, vote[r])
  BY <1>1, <1>2 DEF Agree, Approvers, PolicyInv, RequestRow
<1>4. row # NoRow
  BY <1>1
<1>5. RequestTypeOK' /\ NoVotesYet'
  BY <1>1, <1>4 DEF RequestInv, RequestTypeOK, NoVotesYet
<1>6. DecisionsAgree'
  <2>1. ASSUME NEW q \in Request, request'[q] # NoRow PROVE Agree(request'[q], vote'[q])
    <3>1. CASE q = r
      BY Zenon, <1>1, <1>3, <3>1 DEF row
    <3>2. CASE q # r
      <4>1. request \in [Request -> RequestRow \cup {NoRow}]
        BY Zenon DEF RequestInv, RequestTypeOK
      <4>2. request'[q] = request[q]
        BY <1>1, <3>2, <4>1
      <4> QED
        BY Zenon, <1>1, <2>1, <4>2, Agreement DEF RequestInv
    <3> QED
      BY <3>1, <3>2
  <2> QED
    BY Zenon, <2>1, Agreement
<1> QED
  BY <1>5, <1>6 DEF RequestInv

\* What a decision does to the request and to the votes on it.
DecidedAs(r, u, choice) ==
  LET row == request[r]
      new == request'[r]
      votes == vote'[r]
  IN
  /\ row \in RequestRow /\ row.status = "pending" /\ u # row.requester
  /\ new \in RequestRow /\ new.requester = row.requester /\ new.policy = row.policy
  /\ request' = [request EXCEPT ![r] = new]
  /\ votes \in [User -> Vote] /\ votes[u] = choice
  /\ \A v \in User : v # u => votes[v] = vote[r][v]
  /\ vote' = [vote EXCEPT ![r] = votes]
  /\ \/ new = row /\ choice = "approve"
     \/ /\ new.status = (IF choice = "reject" THEN "rejected" ELSE "approved")
        /\ new.decided_at = now /\ new.decided_by = u
        /\ choice = "approve" => Cardinality(Approvers(votes)) >= Quorum(row.policy)

\* decide_access_request does that.
LEMMA DecideEffect ==
  ASSUME PolicyInv, RequestInv, NEW r \in Request, NEW u \in User,
         NEW choice \in {"approve", "reject"}, decide_access_request(r, u, choice)
  PROVE  DecidedAs(r, u, choice)
<1> DEFINE votes == [vote[r] EXCEPT ![u] = choice]
           enough == Cardinality(Approvers(votes)) >= Quorum(request[r].policy)
           status == IF choice = "reject" THEN "rejected"
                     ELSE IF enough THEN "approved" ELSE "pending"
           new == [request[r] EXCEPT !.status = status, !.decided_at = now, !.decided_by = u]
<1>1. /\ request[r] \in RequestRow /\ request[r].status = "pending" /\ u # request[r].requester
      /\ vote' = [vote EXCEPT ![r] = votes]
      /\ request' = IF status = "pending" THEN request ELSE [request EXCEPT ![r] = new]
  BY DEF decide_access_request, Decide, RequestInv, RequestTypeOK
<1>2. /\ votes \in [User -> Vote] /\ votes[u] = choice /\ vote'[r] = votes
      /\ \A v \in User : v # u => votes[v] = vote[r][v]
  BY <1>1 DEF RequestInv, RequestTypeOK, Vote
<1>3. status \in {"pending", "approved", "rejected"}
  OBVIOUS
<1> HIDE DEF votes
<1>4. CASE status = "pending"
  BY Zenon, <1>1, <1>2, <1>4 DEF DecidedAs, RequestInv, RequestTypeOK
<1>5. CASE status # "pending"
  <2>1. /\ new \in RequestRow /\ new.requester = request[r].requester
        /\ new.policy = request[r].policy
        /\ new.status = status /\ new.decided_at = now /\ new.decided_by = u
    BY Zenon, <1>1, <1>3 DEF PolicyInv, RequestRow
  <2>2. request'[r] = new
    BY <1>1, <1>5 DEF RequestInv, RequestTypeOK
  <2>3. status = "approved" => enough
    BY <1>5
  <2> HIDE DEF new
  <2> QED
    BY Zenon, <1>1, <1>2, <1>5, <2>1, <2>2, <2>3 DEF DecidedAs
<1> QED
  BY <1>4, <1>5

\* A decision agrees with the votes it counts.
LEMMA DecideKeeps ==
  ASSUME PolicyInv, RequestInv, NEW r \in Request, NEW u \in User,
         NEW choice \in {"approve", "reject"}, DecidedAs(r, u, choice)
  PROVE  RequestInv'
<1> DEFINE row == request[r]
           new == request'[r]
           votes == vote'[r]
<1>1. Agree(row, vote[r]) /\ now # NoTime /\ NoUser # u
  <2>1. row # NoRow
    BY Zenon, ApprovalsAssumption DEF DecidedAs
  <2> QED
    BY Zenon, <2>1, Agreement, PoliciesAssumption, ApprovalsAssumption DEF RequestInv, PolicyInv
<1>facts. /\ row.status = "pending" /\ row.requester \in User /\ u # row.requester
          /\ new.requester = row.requester
          /\ votes[u] = choice /\ \A v \in User : v # u => votes[v] = vote[r][v]
          /\ \/ new = row /\ choice = "approve"
             \/ /\ new.status = (IF choice = "reject" THEN "rejected" ELSE "approved")
                /\ new.decided_at = now /\ new.decided_by = u
  BY Zenon DEF DecidedAs, RequestRow
<1>2. Agree(new, votes)
  <2> HIDE DEF row, new, votes
  <2>1. /\ vote[r][row.requester] = "none" /\ row.decided_at = NoTime
        /\ \A v \in User : vote[r][v] # "reject"
    BY <1>1, <1>facts DEF Agree
  <2>2. votes[new.requester] = "none"
    BY Zenon, <1>facts, <2>1
  <2>3. CASE choice = "reject"
    <3>1. {v \in User : votes[v] = "reject"} = {u}
      BY Zenon, <1>facts, <2>1, <2>3
    <3>2. new.status = "rejected" /\ new.decided_at = now /\ new.decided_by = u
      BY <1>facts, <2>3
    <3> QED
      BY <1>1, <2>2, <3>1, <3>2 DEF Agree
  <2>4. CASE choice = "approve"
    <3>1. {v \in User : votes[v] = "reject"} = {} /\ u \in Approvers(votes)
      BY <1>facts, <2>1, <2>4 DEF Approvers
    <3>2. CASE new = row
      BY <1>facts, <2>1, <2>2, <3>1, <3>2 DEF Agree
    <3>3. CASE new.status = "approved" /\ new.decided_at = now /\ new.decided_by = u
      BY <1>1, <2>2, <3>1, <3>3 DEF Agree
    <3> QED
      BY <1>facts, <2>4, <3>2, <3>3
  <2> QED
    BY <2>3, <2>4
<1>3. RequestTypeOK'
  BY DEF DecidedAs, RequestInv, RequestTypeOK
<1>4. NoVotesYet'
  <2>1. new # NoRow
    BY Zenon, ApprovalsAssumption DEF DecidedAs
  <2>2. /\ new = request'[r] /\ \A q \in Request : q # r => request'[q] = request[q] /\ vote'[q] = vote[q]
    BY Zenon DEF DecidedAs, RequestInv, RequestTypeOK
  <2> QED
    BY Zenon, <2>1, <2>2 DEF RequestInv, NoVotesYet
<1>5. DecisionsAgree'
  <2>1. ASSUME NEW q \in Request, request'[q] # NoRow PROVE Agree(request'[q], vote'[q])
    <3>1. CASE q = r
      BY Zenon, <1>2, <3>1
    <3>2. CASE q # r
      <4>1. request'[q] = request[q] /\ vote'[q] = vote[q]
        BY Zenon, <3>2, Written DEF DecidedAs, RequestInv, RequestTypeOK
      <4> QED
        BY Zenon, <2>1, <4>1, Agreement DEF RequestInv
    <3> QED
      BY <3>1, <3>2
  <2> QED
    BY Zenon, <2>1, Agreement
<1> QED
  BY <1>3, <1>4, <1>5 DEF RequestInv

\* A step of the platform that touches requests or votes is an application or a
\* decision.
LEMMA RequestSteps ==
  ASSUME [Next]_vars
  PROVE  \/ \E r \in Request, a \in Application, source \in Address : requests_page(r, a, source)
         \/ \E r \in Request, u \in User, choice \in {"approve", "reject"} :
              decide_access_request(r, u, choice)
         \/ UNCHANGED <<request, vote>>
<1>1. ASSUME GovernanceNext PROVE UNCHANGED <<request, vote>>
  BY <1>1 DEF GovernanceNext, create_access_review_campaign, decide_access_review_item,
              leaseVars, approvalVars
<1> QED
  BY <1>1, PoliciesStay
     DEF Next, ApprovalsNext, approvals, vars, leaseVars, approvalVars

\* Every step keeps votes and decisions in agreement.
LEMMA NextRequest == PolicyInv /\ RequestInv /\ [Next]_vars => RequestInv'
<1> SUFFICES ASSUME PolicyInv, RequestInv, [Next]_vars PROVE RequestInv'
  OBVIOUS
<1>1. CASE UNCHANGED <<request, vote>>
  <2>1. RequestTypeOK' /\ NoVotesYet'
    BY <1>1 DEF RequestInv, RequestTypeOK, NoVotesYet
  <2>2. DecisionsAgree'
    BY Zenon, <1>1, Agreement DEF RequestInv
  <2> QED
    BY <2>1, <2>2 DEF RequestInv
<1> QED
  BY <1>1, AskKeeps, DecideEffect, DecideKeeps, RequestSteps

\* Policies and requests are as the invariants say in every reachable state.
THEOREM RequestInvariance == Spec => [](PolicyInv /\ RequestInv)
BY InitPolicy, InitRequest, NextPolicy, NextRequest, PTL DEF Spec

\* Requesters have no part in decisions on their requests, and status, approver and
\* votes agree, however many decide and whatever is edited (decide_access_request).
THEOREM DecisionsAlwaysAgree == Spec => []DecisionsAgree
BY RequestInvariance, PTL DEF RequestInv

\* No step touches a request that is decided.
LEMMA DecidedKept ==
  ASSUME PolicyInv, RequestInv, [Next]_vars,
         NEW r \in Request, request[r] # NoRow, request[r].status # "pending"
  PROVE  request'[r] = request[r] /\ vote'[r] = vote[r]
<1>1. ASSUME NEW q \in Request, NEW a \in Application, NEW source, requests_page(q, a, source)
      PROVE  request'[r] = request[r] /\ vote'[r] = vote[r]
  BY <1>1 DEF requests_page, RequestInv, RequestTypeOK
<1>2. ASSUME NEW q \in Request, NEW u \in User, NEW choice \in {"approve", "reject"},
             decide_access_request(q, u, choice)
      PROVE  request'[r] = request[r] /\ vote'[r] = vote[r]
  <2>1. /\ request[q].status = "pending" /\ request' = [request EXCEPT ![q] = request'[q]]
        /\ vote' = [vote EXCEPT ![q] = vote'[q]]
    <3>1. DecidedAs(q, u, choice)
      BY Zenon, <1>2, DecideEffect
    <3> QED
      BY Zenon, <3>1 DEF DecidedAs
  <2>2. DOMAIN request = Request /\ DOMAIN vote = Request /\ q # r
    BY Zenon, <2>1 DEF RequestInv, RequestTypeOK
  <2> QED
    BY Zenon, <2>1, <2>2
<1> QED
  BY <1>1, <1>2, RequestSteps

\* What is decided stays as it was decided (the status check under the lock).
THEOREM DecisionsAreFinal == Spec => DecidedStays
<1>1. PolicyInv /\ RequestInv /\ [Next]_vars =>
        [\A r \in Request : request[r] # NoRow /\ request[r].status # "pending" =>
           request'[r] = request[r] /\ vote'[r] = vote[r]]_approvalVars
  BY DecidedKept
<1> QED
  BY <1>1, RequestInvariance, PTL DEF Spec, DecidedStays

\* A request that waits for decisions is approved by as many users other than its
\* requester as the policy asks for at that moment (the count in
\* decide_access_request, whatever the quorum was before).
THEOREM QuorumApproves == Spec => ApprovedByQuorum
<1>1. ASSUME PolicyInv, RequestInv, [Next]_vars,
             NEW r \in Request, request[r] # NoRow, request[r].status = "pending",
             request'[r].status = "approved"
      PROVE  Cardinality(Approvers(vote'[r]) \ {request[r].requester})
               >= policy[request[r].policy].approval_quorum
  <2>1. RequestInv' /\ PolicyInv'
    BY <1>1, NextPolicy, NextRequest
  <2>2. PICK q \in Request, u \in User, choice \in {"approve", "reject"} :
          decide_access_request(q, u, choice)
    <3>1. ASSUME NEW q \in Request, NEW a \in Application, NEW source,
                 requests_page(q, a, source)
          PROVE  FALSE
      BY <1>1, <3>1 DEF requests_page, RequestInv, RequestTypeOK
    <3> QED
      BY <1>1, <3>1, RequestSteps
  <2>3. DecidedAs(q, u, choice)
    BY <1>1, <2>2, DecideEffect
  <2>4. q = r /\ choice = "approve"
    BY <1>1, <2>3 DEF DecidedAs, RequestInv, RequestTypeOK
  <2>5. Cardinality(Approvers(vote'[r])) >= Quorum(request[r].policy)
    BY <1>1, <2>3, <2>4 DEF DecidedAs
  <2>6. Approvers(vote'[r]) \ {request[r].requester} = Approvers(vote'[r])
    <3>1. vote'[r][request'[r].requester] = "none" /\ request'[r].requester = request[r].requester
      BY <2>1, <2>3, <2>4, ApprovalsAssumption DEF DecidedAs, RequestInv, DecisionsAgree
    <3> QED
      BY <3>1 DEF Approvers
  <2>7. request[r].policy \in Policy
    BY <1>1 DEF RequestInv, RequestTypeOK, RequestRow
  <2>8. Quorum(request[r].policy) = policy[request[r].policy].approval_quorum
    <3>1. /\ policy[request[r].policy].approval_quorum \in Nat
          /\ policy[request[r].policy].approval_quorum > 0
      BY <1>1, <2>7 DEF PolicyInv, PolicyRow
    <3> QED
      BY <3>1 DEF Quorum
  <2> QED
    BY <2>5, <2>6, <2>8
<1>2. PolicyInv /\ RequestInv /\ [Next]_vars =>
        [\A r \in Request :
           request[r] # NoRow /\ request[r].status = "pending" /\ request'[r].status = "approved" =>
             Cardinality(Approvers(vote'[r]) \ {request[r].requester})
               >= policy[request[r].policy].approval_quorum]_approvalVars
  BY <1>1
<1> QED
  BY <1>2, RequestInvariance, PTL DEF Spec, ApprovedByQuorum

-----------------------------------------------------------------------------
(***************************************************************************)
(* Leases of secrets, the TOTP codes shown after them and the policies cut *)
(* off by access reviews: the second layer, above the policies and         *)
(* requests.                                                               *)
(***************************************************************************)

\* What a lease x rests on, if anything: an approved request, within a lease's
\* lifetime of whose end the lease ends and is used.
Backed(x) ==
  /\ x.needed => x.request # NoRow
  /\ x.request # NoRow =>
       LET row == request[x.request]
       IN  /\ row # NoRow /\ row.status = "approved"
           /\ row.requester = x.user /\ row.policy = x.policy
           /\ row.target = TargetOf[x.credential]
           /\ x.expires_at < row.decided_at + row.duration + LeaseLifetime
           /\ x.consumed_at # NoTime => x.consumed_at < x.expires_at

LeaseInv ==
  /\ lease \in [Lease -> LeaseRow \cup {NoLease}]
  /\ \A l \in Lease : lease[l] # NoLease => Backed(lease[l])

\* No lease has been issued at first.
LEMMA InitLease == Init => LeaseInv
BY LeasesAssumption DEF Init, LeaseInit, LeaseInv

\* What a lease rests on was decided and stays.
LEMMA BackedStays ==
  ASSUME PolicyInv, RequestInv, [Next]_vars, NEW x \in LeaseRow, Backed(x)
  PROVE  Backed(x)'
<1>1. CASE x.request # NoRow
  <2>1. x.request \in Request
    BY <1>1 DEF LeaseRow
  <2>2. request'[x.request] = request[x.request]
    BY <1>1, <2>1, DecidedKept DEF Backed
  <2> QED
    BY <2>2 DEF Backed
<1> QED
  BY <1>1 DEF Backed

\* Writing one row that is backed keeps the others.
LEMMA OneLeaseWritten ==
  ASSUME LeaseInv, NEW l \in Lease, NEW y \in LeaseRow, Backed(y),
         lease' = [lease EXCEPT ![l] = y], request' = request
  PROVE  LeaseInv'
<1>1. ASSUME NEW x, Backed(x) PROVE Backed(x)'
  BY <1>1 DEF Backed
<1>2. lease' \in [Lease -> LeaseRow \cup {NoLease}]
  BY SMTT(30) DEF LeaseInv
<1>3. ASSUME NEW k \in Lease, lease'[k] # NoLease PROVE Backed(lease[k])'
  <2>1. PICK x : x = lease'[k] /\ Backed(x)
    BY <1>3 DEF LeaseInv
  <2>2. Backed(x)'
    BY <1>1, <2>1
  <2> QED
    BY Zenon, <2>1, <2>2 DEF Backed
<1> QED
  BY <1>2, <1>3 DEF LeaseInv

\* A lease is issued on an open approval wherever its policy requires one.
LEMMA IssueKeeps ==
  ASSUME PolicyInv, RequestInv, LeaseInv, NEW l \in Lease, NEW u \in User,
         NEW c \in Credential, NEW purpose \in {"reveal", "session"}, NEW source, NEW verified,
         NEW totp \in BOOLEAN, issue_secret_lease(l, u, c, purpose, source, verified, totp)
  PROVE  LeaseInv'
<1> USE PoliciesAssumption, ApprovalsAssumption, LeasesAssumption
<1> DEFINE action == IF purpose = "session" THEN "start_session" ELSE "view_secret"
<1>1. PICK p \in authorizing_policy_for(u, c, action, source, verified) :
        \E r \in _active_approval(u, c, p) :
          lease' = [lease EXCEPT ![l] =
            [user |-> u, credential |-> c, policy |-> p, request |-> r,
             purpose |-> purpose, expires_at |-> now + LeaseLifetime, consumed_at |-> NoTime,
             needed |-> policy[p].requires_approval, totp |-> totp]]
  BY Zenon DEF issue_secret_lease
<1>2. PICK r \in _active_approval(u, c, p) :
        lease' = [lease EXCEPT ![l] =
          [user |-> u, credential |-> c, policy |-> p, request |-> r,
           purpose |-> purpose, expires_at |-> now + LeaseLifetime, consumed_at |-> NoTime,
           needed |-> policy[p].requires_approval, totp |-> totp]]
  BY Zenon, <1>1
<1> DEFINE x == [user |-> u, credential |-> c, policy |-> p, request |-> r,
                 purpose |-> purpose, expires_at |-> now + LeaseLifetime,
                 consumed_at |-> NoTime, needed |-> policy[p].requires_approval, totp |-> totp]
<1>3. /\ p \in Policy /\ policy[p].requires_approval \in BOOLEAN
      /\ policy[p].requires_approval => OpenApprovals(u, c, p) # {}
  BY DEF authorizing_policy_for, policies_allowing, policies_for_user, PolicyInv, PolicyRow
<1>4. r \in OpenApprovals(u, c, p) \/ (r = NoRow /\ OpenApprovals(u, c, p) = {})
  BY Zenon DEF _active_approval
<1>5. x \in LeaseRow
  <2>1. r \in Request \cup {NoRow}
    BY <1>4 DEF OpenApprovals
  <2>2. now + LeaseLifetime \in Nat /\ NoTime \in Nat \cup {NoTime}
    BY DEF PolicyInv
  <2> QED
    BY ZenonT(60), <1>3, <2>1, <2>2 DEF LeaseRow
<1>fields. /\ x.needed = policy[p].requires_approval /\ x.request = r /\ x.user = u
           /\ x.policy = p /\ x.credential = c
           /\ x.expires_at = now + LeaseLifetime /\ x.consumed_at = NoTime
  OBVIOUS
<1>row. lease' = [lease EXCEPT ![l] = x]
  BY Zenon, <1>2
<1> HIDE DEF x
<1>6. Backed(x)
  <2>1. x.needed => x.request # NoRow
    BY Zenon, <1>3, <1>4, <1>fields DEF OpenApprovals
  <2>2. ASSUME r # NoRow
        PROVE  /\ request[r] # NoRow /\ request[r].status = "approved"
               /\ request[r].requester = u /\ request[r].policy = p
               /\ request[r].target = TargetOf[c]
               /\ now < request[r].decided_at + request[r].duration
               /\ request[r].decided_at \in Nat /\ request[r].duration \in Nat
    BY ZenonT(60), <1>4, <2>2 DEF OpenApprovals, RequestInv, RequestTypeOK, RequestRow, DecisionsAgree
  <2>3. r # NoRow =>
          now + LeaseLifetime < request[r].decided_at + request[r].duration + LeaseLifetime
    <3>1. now \in Nat
      BY Zenon DEF PolicyInv
    <3> QED
      BY Zenon, <2>2, <3>1, LeaseTimes
  <2> QED
    BY Zenon, <2>1, <2>2, <2>3, <1>fields DEF Backed
<1>7. request' = request
  BY Zenon DEF issue_secret_lease, approvalVars
<1> QED
  BY Zenon, <1>row, <1>5, <1>6, <1>7, OneLeaseWritten

\* A lease is used before it ends, and only once.
LEMMA ConsumeKeeps ==
  ASSUME PolicyInv, LeaseInv, NEW l \in Lease, consume_secret_lease(l)
  PROVE  LeaseInv'
<1> USE PoliciesAssumption, LeasesAssumption
<1> DEFINE x == [lease[l] EXCEPT !.consumed_at = now]
<1>1. /\ lease[l] \in LeaseRow /\ lease[l].expires_at > now
      /\ lease' = [lease EXCEPT ![l] = x] /\ request' = request
  BY DEF consume_secret_lease, Usable, LeaseInv, approvalVars
<1>2. /\ x \in LeaseRow /\ x.consumed_at = now
      /\ x.needed = lease[l].needed /\ x.request = lease[l].request /\ x.user = lease[l].user
      /\ x.policy = lease[l].policy /\ x.credential = lease[l].credential
      /\ x.expires_at = lease[l].expires_at
  BY <1>1 DEF LeaseRow, PolicyInv
<1> HIDE DEF x
<1>3. Backed(x)
  BY Zenon, <1>1, <1>2 DEF LeaseInv, Backed
<1> QED
  BY Zenon, <1>1, <1>2, <1>3, OneLeaseWritten

\* Every step keeps the leases backed.
LEMMA NextLease == PolicyInv /\ RequestInv /\ LeaseInv /\ [Next]_vars => LeaseInv'
<1> SUFFICES ASSUME PolicyInv, RequestInv, LeaseInv, [Next]_vars PROVE LeaseInv'
  OBVIOUS
<1>1. CASE LeasesNext
  <2>1. ASSUME NEW l \in Lease, NEW u \in User, NEW c \in Credential, NEW source \in Address,
               gateway_authorize(l, u, c, source)
        PROVE  LeaseInv'
    BY Zenon, <2>1, IssueKeeps DEF gateway_authorize
  <2>2. ASSUME NEW l \in Lease, NEW u \in User, NEW c \in Credential, NEW source \in Address,
               NEW verified \in 0..now, reveal_target_credential(l, u, c, source, verified)
        PROVE  LeaseInv'
    <3> DEFINE totp == c \in TotpCredential
                       /\ "reveal_totp" \in actions_for_target(u, TargetOf[c], source)
    <3>1. totp \in BOOLEAN
      OBVIOUS
    <3>2. issue_secret_lease(l, u, c, "reveal", source, verified, totp)
      BY <2>2 DEF reveal_target_credential
    <3> HIDE DEF totp
    <3> QED
      BY <3>1, <3>2, IssueKeeps
  <2> QED
    BY <1>1, <2>1, <2>2, ConsumeKeeps DEF LeasesNext
<1>2. CASE UNCHANGED lease
  <2>1. ASSUME NEW l \in Lease, lease[l] # NoLease PROVE Backed(lease[l])'
    <3>1. PICK y \in LeaseRow : y = lease[l] /\ Backed(y)
      BY <2>1 DEF LeaseInv
    <3>2. Backed(y)'
      BY <3>1, BackedStays
    <3> QED
      BY <1>2, <3>1, <3>2 DEF Backed
  <2> QED
    BY SMTT(30), <1>2, <2>1 DEF LeaseInv
<1> QED
  BY <1>1, <1>2
     DEF Next, GovernanceNext, create_access_review_campaign, decide_access_review_item,
         vars, leaseVars

\* The leases are backed in every reachable state.
THEOREM LeaseInvariance == Spec => []LeaseInv
BY InitLease, NextLease, RequestInvariance, PTL DEF Spec

\* A secret that needed an approval is handed out on an approved request of its own
\* user, not later than a lease's lifetime after the approved time, however the
\* policies, groups and schedules are edited between the check of the approval and
\* the use of the lease (_active_approval, consume_secret_lease).
THEOREM SecretsNeedApproval == Spec => []SecretsAreApproved
<1>1. PolicyInv /\ RequestInv /\ LeaseInv => SecretsAreApproved
  <2> SUFFICES ASSUME RequestInv, LeaseInv, NEW l \in Lease, lease[l] # NoLease
               PROVE  LET r == lease[l].request
                      IN  /\ lease[l].needed => r # NoRow
                          /\ r # NoRow =>
                               /\ request[r].status = "approved"
                               /\ request[r].requester = lease[l].user
                               /\ request[r].policy = lease[l].policy
                               /\ request[r].target = TargetOf[lease[l].credential]
                               /\ lease[l].user \notin Approvers(vote[r])
                               /\ lease[l].consumed_at # NoTime =>
                                    lease[l].consumed_at
                                      < request[r].decided_at + request[r].duration + LeaseLifetime
    BY DEF SecretsAreApproved
  <2>1. lease[l] \in LeaseRow /\ Backed(lease[l])
    BY DEF LeaseInv
  <2>2. CASE lease[l].request # NoRow
    <3> DEFINE r == lease[l].request
    <3>1. r \in Request /\ lease[l].expires_at \in Nat
          /\ lease[l].consumed_at \in Nat \cup {NoTime}
      BY <2>1, <2>2 DEF LeaseRow
    <3>2. request[r] \in RequestRow /\ request[r].decided_at \in Nat
          /\ vote[r][request[r].requester] = "none"
      BY ZenonT(60), <2>1, <2>2, <3>1 DEF Backed, RequestInv, RequestTypeOK, DecisionsAgree, RequestRow
    <3>3. request[r].duration \in Nat /\ LeaseLifetime \in Nat
      BY Zenon, <3>2, ApprovalsAssumption, LeasesAssumption DEF RequestRow
    <3>4. lease[l].user \notin Approvers(vote[r])
      BY Zenon, <2>1, <2>2, <3>2 DEF Backed, Approvers
    <3>5. /\ request[r].status = "approved" /\ request[r].requester = lease[l].user
          /\ request[r].policy = lease[l].policy
          /\ request[r].target = TargetOf[lease[l].credential]
          /\ lease[l].expires_at < request[r].decided_at + request[r].duration + LeaseLifetime
          /\ lease[l].consumed_at # NoTime => lease[l].consumed_at < lease[l].expires_at
      BY Zenon, <2>1, <2>2 DEF Backed
    <3>6. lease[l].consumed_at # NoTime =>
            lease[l].consumed_at < request[r].decided_at + request[r].duration + LeaseLifetime
      BY Zenon, <3>1, <3>2, <3>3, <3>5, LeaseTimes
    <3> QED
      BY <2>2, <3>4, <3>5, <3>6
  <2> QED
    BY ZenonT(60), <2>1, <2>2 DEF Backed
<1> QED
  BY <1>1, LeaseInvariance, RequestInvariance, PTL

\* Nothing is granted through a policy that a review has revoked, until a form
\* switches it on again (decide_access_review_item, policies_for_user).
THEOREM RevocationHolds == Spec => RevokedGrantsNothing
<1>1. ASSUME PolicyInv, RequestInv, LeaseInv, [Next]_vars, NEW p \in cut
      PROVE  /\ \A r \in Request : request[r] = NoRow /\ request'[r] # NoRow =>
                                     request'[r].policy # p
             /\ \A l \in Lease : lease[l] = NoLease /\ lease'[l] # NoLease =>
                                  lease'[l].policy # p
             /\ policy'[p].enabled => p \notin cut'
  <2>1. PolicyInv'
    BY <1>1, NextPolicy
  <2>2. \A u, action, source : p \notin policies_allowing(u, action, source)
    BY <1>1 DEF PolicyInv, policies_allowing, policies_for_user
  <2>3. ASSUME NEW r \in Request, request[r] = NoRow, request'[r] # NoRow
        PROVE  request'[r].policy # p
    <3>1. PICK q \in Request, a \in Application, source \in Address : requests_page(q, a, source)
      <4>1. ASSUME NEW q \in Request, NEW u \in User, NEW choice \in {"approve", "reject"},
                   decide_access_request(q, u, choice)
            PROVE  FALSE
        <5>1. DecidedAs(q, u, choice)
          BY Zenon, <1>1, <4>1, DecideEffect
        <5>2. request[q] # NoRow
          BY Zenon, <5>1, ApprovalsAssumption DEF DecidedAs
        <5>3. request'[r] = request[r]
          BY Zenon, <1>1, <2>3, <5>1, <5>2, Written DEF DecidedAs, RequestInv, RequestTypeOK
        <5> QED
          BY Zenon, <2>3, <5>3
      <4> QED
        BY SMTT(30), <1>1, <2>3, <4>1, RequestSteps
    <3>2. q = r
      BY <2>3, <3>1, <1>1 DEF requests_page, RequestInv, RequestTypeOK
    <3>3. a.policy # p
      BY Zenon, <2>2, <3>1 DEF requests_page, CleanApplication
    <3> QED
      BY <1>1, <3>1, <3>2, <3>3 DEF requests_page, RequestInv, RequestTypeOK
  <2>4. ASSUME NEW l \in Lease, lease[l] = NoLease, lease'[l] # NoLease
        PROVE  lease'[l].policy # p
    <3>1. ASSUME NEW k \in Lease, NEW u, NEW c, NEW purpose, NEW source, NEW verified, NEW totp,
                 issue_secret_lease(k, u, c, purpose, source, verified, totp)
          PROVE  lease'[l].policy # p
      <4> DEFINE action == IF purpose = "session" THEN "start_session" ELSE "view_secret"
      <4>1. p \notin authorizing_policy_for(u, c, action, source, verified)
        BY <2>2 DEF authorizing_policy_for
      <4>2. PICK q \in authorizing_policy_for(u, c, action, source, verified) :
              \E r \in _active_approval(u, c, q) :
                lease' = [lease EXCEPT ![k] =
                  [user |-> u, credential |-> c, policy |-> q, request |-> r,
                   purpose |-> purpose, expires_at |-> now + LeaseLifetime,
                   consumed_at |-> NoTime, needed |-> policy[q].requires_approval,
                   totp |-> totp]]
        BY Zenon, <3>1 DEF issue_secret_lease
      <4>3. k = l
        BY <1>1, <2>4, <4>2 DEF LeaseInv
      <4>4. lease'[l].policy = q
        <5> DEFINE Row(r) == [user |-> u, credential |-> c, policy |-> q, request |-> r,
                              purpose |-> purpose, expires_at |-> now + LeaseLifetime,
                              consumed_at |-> NoTime, needed |-> policy[q].requires_approval,
                              totp |-> totp]
        <5>1. PICK r : lease' = [lease EXCEPT ![l] = Row(r)]
          BY Zenon, <4>2, <4>3
        <5>2. Row(r).policy = q
          BY Zenon
        <5> HIDE DEF Row
        <5>3. lease'[l] = Row(r)
          BY Zenon, <1>1, <5>1, Written DEF LeaseInv
        <5> QED
          BY Zenon, <5>2, <5>3
      <4> QED
        BY <4>1, <4>4
    <3>2. ASSUME NEW k \in Lease, consume_secret_lease(k) PROVE FALSE
      BY <1>1, <2>4, <3>2 DEF consume_secret_lease, Usable, LeaseInv
    <3> QED
      BY ZenonT(60), <1>1, <2>4, <3>1, <3>2
         DEF Next, LeasesNext, gateway_authorize, reveal_target_credential, GovernanceNext,
             create_access_review_campaign, decide_access_review_item, vars, leaseVars
  <2> QED
    BY <2>1, <2>3, <2>4 DEF PolicyInv
<1>2. PolicyInv /\ RequestInv /\ LeaseInv /\ [Next]_vars =>
        [\A p \in cut :
           /\ \A r \in Request : request[r] = NoRow /\ request'[r] # NoRow =>
                                   request'[r].policy # p
           /\ \A l \in Lease : lease[l] = NoLease /\ lease'[l] # NoLease =>
                                lease'[l].policy # p
           /\ policy'[p].enabled => p \notin cut']_vars
  BY <1>1
<1> QED
  BY <1>2, LeaseInvariance, RequestInvariance, PTL DEF Spec, RevokedGrantsNothing

-----------------------------------------------------------------------------
(* TOTP codes.                                                             *)

\* The lease l handed out the secret of c to u in the portal.
Revealed(l, u, c) ==
  /\ lease[l] # NoLease /\ lease[l].user = u /\ lease[l].credential = c
  /\ lease[l].purpose = "reveal" /\ lease[l].consumed_at # NoTime

\* A TOTP grant dates from the use of a lease that was issued for a reveal.
GrantsFollowReveals ==
  /\ totpGrant \in [User -> [Credential -> Nat \cup {NoTime}]]
  /\ \A l \in Lease : lease[l] # NoLease /\ lease[l].totp => lease[l].purpose = "reveal"
  /\ \A u \in User, c \in Credential : totpGrant[u][c] # NoTime =>
       \E l \in Lease : Revealed(l, u, c) /\ totpGrant[u][c] = lease[l].consumed_at + TotpLifetime

\* Issuing a lease fills one row that did not exist.
LEMMA IssuedRow ==
  ASSUME NEW l \in Lease, NEW u \in User, NEW c \in Credential, NEW purpose, NEW source,
         NEW verified, NEW totp, issue_secret_lease(l, u, c, purpose, source, verified, totp)
  PROVE  \E x : /\ lease' = [lease EXCEPT ![l] = x] /\ x.purpose = purpose /\ x.totp = totp
                /\ lease[l] = NoLease /\ totpGrant' = totpGrant
<1> DEFINE action == IF purpose = "session" THEN "start_session" ELSE "view_secret"
           Row(p, r) == [user |-> u, credential |-> c, policy |-> p, request |-> r,
                         purpose |-> purpose, expires_at |-> now + LeaseLifetime,
                         consumed_at |-> NoTime, needed |-> policy[p].requires_approval,
                         totp |-> totp]
<1>1. PICK p \in authorizing_policy_for(u, c, action, source, verified) :
        \E r \in _active_approval(u, c, p) : lease' = [lease EXCEPT ![l] = Row(p, r)]
  BY Zenon DEF issue_secret_lease
<1>2. PICK r \in _active_approval(u, c, p) : lease' = [lease EXCEPT ![l] = Row(p, r)]
  BY Zenon, <1>1
<1>3. Row(p, r).purpose = purpose /\ Row(p, r).totp = totp
  OBVIOUS
<1>4. lease[l] = NoLease /\ totpGrant' = totpGrant
  BY Zenon DEF issue_secret_lease
<1> HIDE DEF Row
<1> QED
  BY Zenon, <1>2, <1>3, <1>4

\* A filled row keeps every grant on the lease it dates from.
LEMMA IssuesGrantNothing ==
  ASSUME LeaseInv, GrantsFollowReveals, NEW l \in Lease, NEW x, lease' = [lease EXCEPT ![l] = x],
         x.totp => x.purpose = "reveal", lease[l] = NoLease, totpGrant' = totpGrant
  PROVE  GrantsFollowReveals'
<1>1. \A k \in Lease : k # l => lease'[k] = lease[k]
  BY DEF LeaseInv
<1>2. lease'[l] = x
  BY DEF LeaseInv
<1>3. \A k \in Lease, u \in User, c \in Credential : Revealed(k, u, c) => lease'[k] = lease[k]
  BY <1>1 DEF Revealed
<1>4. ASSUME NEW u \in User, NEW c \in Credential, totpGrant'[u][c] # NoTime
      PROVE  \E k \in Lease :
               Revealed(k, u, c)' /\ totpGrant'[u][c] = lease'[k].consumed_at + TotpLifetime
  <2>1. PICK k \in Lease :
          Revealed(k, u, c) /\ totpGrant[u][c] = lease[k].consumed_at + TotpLifetime
    BY <1>4 DEF GrantsFollowReveals
  <2>2. lease'[k] = lease[k]
    BY Zenon, <1>3, <2>1
  <2>3. Revealed(k, u, c)'
    BY Zenon, <2>1, <2>2 DEF Revealed
  <2> QED BY <2>1, <2>2, <2>3
<1> QED
  BY <1>1, <1>2, <1>4 DEF GrantsFollowReveals

\* Using a lease for a reveal grants the codes from now on; the leases that other
\* grants date from were used before.
LEMMA UseGrants ==
  ASSUME PolicyInv, LeaseInv, GrantsFollowReveals, NEW l \in Lease, consume_secret_lease(l)
  PROVE  GrantsFollowReveals'
<1> USE PoliciesAssumption, LeasesAssumption
<1> DEFINE x == [lease[l] EXCEPT !.consumed_at = now]
           b == lease[l].user
           d == lease[l].credential
<1>1. /\ lease[l] \in LeaseRow /\ lease[l].consumed_at = NoTime
      /\ lease' = [lease EXCEPT ![l] = x] /\ now \in Nat
      /\ totpGrant' = IF lease[l].totp
                        THEN [totpGrant EXCEPT ![b][d] = now + TotpLifetime] ELSE totpGrant
  BY DEF consume_secret_lease, Usable, LeaseInv, PolicyInv
<1>2. /\ x \in LeaseRow /\ x.consumed_at = now /\ x.user = b /\ x.credential = d
      /\ x.totp = lease[l].totp /\ x.purpose = lease[l].purpose
      /\ b \in User /\ d \in Credential /\ lease[l].totp \in BOOLEAN
  BY <1>1 DEF LeaseRow
<1> HIDE DEF x, b, d
<1>3. lease'[l] = x /\ \A k \in Lease : k # l => lease'[k] = lease[k]
  BY <1>1 DEF LeaseInv
<1>4. totpGrant' \in [User -> [Credential -> Nat \cup {NoTime}]]
  <2>1. now + TotpLifetime \in Nat \cup {NoTime}
    BY Zenon, <1>1, LeaseTimes
  <2> QED
    BY Zenon, <1>1, <1>2, <2>1, EntryWritten DEF GrantsFollowReveals
<1>5. \A k \in Lease : lease'[k] # NoLease /\ lease'[k].totp => lease'[k].purpose = "reveal"
  BY ZenonT(60), <1>1, <1>2, <1>3 DEF GrantsFollowReveals
<1>6. ASSUME NEW u \in User, NEW c \in Credential, totpGrant'[u][c] # NoTime
      PROVE  \E k \in Lease :
               Revealed(k, u, c)' /\ totpGrant'[u][c] = lease'[k].consumed_at + TotpLifetime
  <2>1. CASE lease[l].totp /\ u = b /\ c = d
    <3>1. totpGrant'[u][c] = now + TotpLifetime
      BY ZenonT(60), <1>1, <1>2, <2>1 DEF GrantsFollowReveals
    <3>2. x # NoLease /\ x.purpose = "reveal"
      BY <1>1, <1>2, <2>1 DEF GrantsFollowReveals
    <3>3. Revealed(l, u, c)'
      BY <1>1, <1>2, <1>3, <2>1, <3>2 DEF Revealed
    <3> QED BY Zenon, <1>2, <1>3, <3>1, <3>3
  <2>2. CASE ~(lease[l].totp /\ u = b /\ c = d)
    <3>1. totpGrant'[u][c] = totpGrant[u][c]
      BY ZenonT(60), <1>1, <1>2, <2>2 DEF GrantsFollowReveals
    <3>2. PICK k \in Lease :
            Revealed(k, u, c) /\ totpGrant[u][c] = lease[k].consumed_at + TotpLifetime
      BY Zenon, <1>6, <3>1 DEF GrantsFollowReveals
    <3>3. lease'[k] = lease[k]
      BY <1>1, <1>3, <3>2 DEF Revealed
    <3>4. Revealed(k, u, c)'
      BY <3>2, <3>3 DEF Revealed
    <3> QED BY Zenon, <3>1, <3>2, <3>3, <3>4
  <2> QED BY ZenonT(60), <2>1, <2>2
<1> QED
  BY Zenon, <1>4, <1>5, <1>6 DEF GrantsFollowReveals

\* Every step keeps the TOTP grants on the leases they date from.
LEMMA NextGrants ==
  PolicyInv /\ LeaseInv /\ GrantsFollowReveals /\ [Next]_vars => GrantsFollowReveals'
<1> SUFFICES ASSUME PolicyInv, LeaseInv, GrantsFollowReveals, [Next]_vars
             PROVE  GrantsFollowReveals'
  OBVIOUS
<1>1. CASE LeasesNext
  <2>1. ASSUME NEW l \in Lease, NEW u \in User, NEW c \in Credential, NEW source \in Address,
               gateway_authorize(l, u, c, source)
        PROVE  GrantsFollowReveals'
    <3> DEFINE totp == FALSE
    <3>1. issue_secret_lease(l, u, c, "session", source, NoTime, totp)
      BY Zenon, <2>1 DEF gateway_authorize
    <3>none. ~totp
      OBVIOUS
    <3> HIDE DEF totp
    <3>2. PICK x : /\ lease' = [lease EXCEPT ![l] = x] /\ x.purpose = "session" /\ x.totp = totp
                   /\ lease[l] = NoLease /\ totpGrant' = totpGrant
      BY <3>1, IssuedRow
    <3> QED BY Zenon, <3>2, <3>none, IssuesGrantNothing
  <2>2. ASSUME NEW l \in Lease, NEW u \in User, NEW c \in Credential, NEW source \in Address,
               NEW verified \in 0..now, reveal_target_credential(l, u, c, source, verified)
        PROVE  GrantsFollowReveals'
    <3> DEFINE totp == c \in TotpCredential
                       /\ "reveal_totp" \in actions_for_target(u, TargetOf[c], source)
    <3>1. issue_secret_lease(l, u, c, "reveal", source, verified, totp)
      BY <2>2 DEF reveal_target_credential
    <3> HIDE DEF totp
    <3>2. PICK x : /\ lease' = [lease EXCEPT ![l] = x] /\ x.purpose = "reveal" /\ x.totp = totp
                   /\ lease[l] = NoLease /\ totpGrant' = totpGrant
      BY <3>1, IssuedRow
    <3> QED BY Zenon, <3>2, IssuesGrantNothing
  <2> QED
    BY <1>1, <2>1, <2>2, UseGrants DEF LeasesNext
<1>2. CASE UNCHANGED <<lease, totpGrant>>
  <2>1. \A l, u, c : Revealed(l, u, c)' <=> Revealed(l, u, c)
    BY Zenon, <1>2 DEF Revealed
  <2> QED
    BY Zenon, <1>2, <2>1 DEF GrantsFollowReveals
<1> QED
  BY <1>1, <1>2
     DEF Next, GovernanceNext, create_access_review_campaign, decide_access_review_item,
         vars, leaseVars

\* Whoever sees a TOTP code of a target was given that credential's password within
\* the lifetime of the grant, and a policy in force still allows the code, whatever
\* is edited in between (reveal_target_credential, target_credential_totp).
THEOREM CodesFollowReveals == Spec => []TotpFollowsReveal
<1>1. Init => GrantsFollowReveals
  BY DEF Init, LeaseInit, GrantsFollowReveals
<1>2. Spec => []GrantsFollowReveals
  BY <1>1, NextGrants, RequestInvariance, LeaseInvariance, PTL DEF Spec
<1>3. PolicyInv /\ LeaseInv /\ GrantsFollowReveals => TotpFollowsReveal
  <2> SUFFICES ASSUME PolicyInv, LeaseInv, GrantsFollowReveals, NEW u \in User, NEW c \in Credential,
                      NEW source \in Address, NEW verified \in 0..now,
                      ShowsTotp(u, c, source, verified)
               PROVE  /\ \E l \in Lease :
                           /\ lease[l] # NoLease /\ lease[l].user = u /\ lease[l].credential = c
                           /\ lease[l].purpose = "reveal" /\ lease[l].consumed_at # NoTime
                           /\ lease[l].consumed_at + TotpLifetime >= now
                      /\ \E p \in Policy : /\ policy[p].enabled /\ "reveal_totp" \in policy[p].actions
                                           /\ \E g \in policy[p].user_groups : u \in group[g].users
    BY Zenon DEF TotpFollowsReveal
  <2>1. PICK l \in Lease :
          Revealed(l, u, c) /\ totpGrant[u][c] = lease[l].consumed_at + TotpLifetime
    BY Zenon DEF ShowsTotp, GrantsFollowReveals
  <2>2. lease[l].consumed_at + TotpLifetime >= now
    BY <2>1 DEF ShowsTotp
  <2>3. PICK p \in policies_allowing(u, "reveal_totp", source) : TRUE
    BY Zenon DEF ShowsTotp, credential_allows_action
  <2>4. /\ p \in Policy /\ policy[p].enabled /\ "reveal_totp" \in policy[p].actions
        /\ policy[p].user_groups \cap GroupsOf(u) # {}
    BY DEF policies_allowing, policies_for_user
  <2>5. \E g \in policy[p].user_groups : u \in group[g].users
    BY <2>4 DEF GroupsOf
  <2> QED BY Zenon, <2>1, <2>2, <2>4, <2>5 DEF Revealed
<1> QED
  BY <1>2, <1>3, RequestInvariance, LeaseInvariance, PTL

-----------------------------------------------------------------------------
(* Schedules, at any time.                                                 *)

\* At every moment, and for days of any length, a window of hours counts exactly
\* from its start until its end comes round (_clock_is_current).
THEOREM HoursWrapAround == Spec => []WindowsWrapAround
  BY HoursOfADay, RequestInvariance, PTL
=============================================================================
