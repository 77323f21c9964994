----------------------------- MODULE Approvals ------------------------------
(***************************************************************************)
(* Requests for access and the decisions on them (pamolive/approvals),     *)
(* beside administrators who edit the policies, groups and time frames     *)
(* (Policies).                                                             *)
(*                                                                         *)
(* A request is decided by several approvers, one transaction each.  The   *)
(* transaction locks the request with its policy and requester, so that it *)
(* is one step; the groups of the approver are read as they are then.      *)
(***************************************************************************)
EXTENDS Policies

CONSTANTS
  Request,    \* the access requests, each made once
  Duration,   \* the durations that may be asked for
  NoUser, NoRow

VARIABLES
  request,   \* the AccessRequest rows, NoRow before they exist
  vote       \* the ApprovalDecision rows: request, approver -> decision

approvalVars == <<policyVars, request, vote>>

Vote == {"none", "approve", "reject"}

\* What AccessRequestForm collects, with the requester and the source address.
Application == [requester : User, policy : Policy, target : Target, duration : Duration,
                ticket : BOOLEAN]

RequestRow == [requester : User, policy : Policy, target : Target, duration : Duration,
               status : {"pending", "approved", "rejected"},
               decided_at : Nat \cup {NoTime}, decided_by : User \cup {NoUser}]

ASSUME ApprovalsAssumption ==
  /\ NoUser \notin User
  /\ NoRow \notin RequestRow
  /\ Duration \subseteq Nat

RequestInit ==
  /\ request = [r \in Request |-> NoRow]
  /\ vote = [r \in Request |-> [u \in User |-> "none"]]

-----------------------------------------------------------------------------
(* Asking.                                                                 *)

\* AccessRequestForm.clean: the policy lets the requester ask, covers the target
\* and allows the duration, and a ticket is given where it wants one.
CleanApplication(a, source) ==
  LET allowed == policies_allowing(a.requester, "request_access", source)
      p == policy[a.policy]
  IN  /\ a.policy \in allowed
      /\ a.target \in targets_for_policies(allowed)
      /\ Covers(a.policy, a.target)
      /\ a.duration <= p.max_duration_minutes
      /\ p.ticket_required => a.ticket

\* A policy without approval grants the request as it is made.
requests_page(r, a, source) ==
  /\ request[r] = NoRow
  /\ CleanApplication(a, source)
  /\ LET direct == ~policy[a.policy].requires_approval
     IN  request' = [request EXCEPT ![r] =
           [requester |-> a.requester, policy |-> a.policy, target |-> a.target,
            duration |-> a.duration,
            status |-> IF direct THEN "approved" ELSE "pending",
            decided_at |-> IF direct THEN now ELSE NoTime,
            decided_by |-> NoUser]]
  /\ UNCHANGED <<policyVars, vote>>

-----------------------------------------------------------------------------
(* Deciding.                                                               *)

\* Any user with the capability, if no enabled group is named.
_actor_may_decide(p, u) ==
  LET named == {g \in policy[p].approver_groups : group[g].enabled}
  IN  \/ u \in Superuser
      \/ /\ user_has_capability(u, "APPROVALS_DECIDE")
         /\ named = {} \/ \E g \in named : u \in group[g].users

Approvers(votes) == {u \in User : votes[u] = "approve"}

\* Mutant of Quorum: one approval is always enough.
QuorumOfOne(p) == 1

Quorum(p) == IF policy[p].approval_quorum > 1 THEN policy[p].approval_quorum ELSE 1

Decide(r, votes, status, u) ==
  /\ vote' = [vote EXCEPT ![r] = votes]
  /\ request' = IF status = "pending" THEN request
                ELSE [request EXCEPT ![r] =
                        [@ EXCEPT !.status = status, !.decided_at = now, !.decided_by = u]]
  /\ UNCHANGED policyVars

\* Mutant of decide_access_request: the requester is not told apart.
DecideOwn(r, u, choice) ==
  /\ request[r] # NoRow /\ request[r].status = "pending"
  /\ _actor_may_decide(request[r].policy, u)
  /\ vote[r][u] = "none"
  /\ LET votes == [vote[r] EXCEPT ![u] = choice]
         enough == Cardinality(Approvers(votes)) >= Quorum(request[r].policy)
     IN  Decide(r, votes, IF choice = "reject" THEN "rejected"
                          ELSE IF enough THEN "approved" ELSE "pending", u)

decide_access_request(r, u, choice) ==
  /\ request[r] # NoRow /\ request[r].status = "pending"
  /\ u # request[r].requester
  /\ _actor_may_decide(request[r].policy, u)
  /\ vote[r][u] = "none"
  /\ LET votes == [vote[r] EXCEPT ![u] = choice]
         enough == Cardinality(Approvers(votes)) >= Quorum(request[r].policy)
     IN  Decide(r, votes, IF choice = "reject" THEN "rejected"
                          ELSE IF enough THEN "approved" ELSE "pending", u)

\* The console's page, for users who see the requests and may decide.
approvals(r, u) ==
  /\ user_has_capability(u, "APPROVALS_VIEW") /\ user_has_capability(u, "APPROVALS_DECIDE")
  /\ \E choice \in {"approve", "reject"} : decide_access_request(r, u, choice)

ApprovalsNext ==
  \E r \in Request :
    \/ \E a \in Application, source \in Address : requests_page(r, a, source)
    \/ \E u \in User : approvals(r, u)

-----------------------------------------------------------------------------
(* Properties.                                                             *)

\* The rows of the tables.
RequestTypeOK ==
  /\ request \in [Request -> RequestRow \cup {NoRow}]
  /\ vote \in [Request -> [User -> Vote]]

\* However decisions follow each other, and whatever the policy's quorum and
\* approver groups become on the way: requesters have no part in the decision
\* on their own request, a single rejection decides, and a request that was
\* approved by decision was approved last by the approver on its row, nobody
\* having rejected it (decide_access_request).
DecisionsAgree ==
  \A r \in Request : request[r] # NoRow =>
    LET row == request[r]
        against == {u \in User : vote[r][u] = "reject"}
    IN  /\ vote[r][row.requester] = "none"
        /\ row.status = "rejected" <=> against # {}
        /\ row.status = "rejected" => against = {row.decided_by}
        /\ row.status = "approved" =>
             IF row.decided_by = NoUser THEN Approvers(vote[r]) = {}
                                        ELSE row.decided_by \in Approvers(vote[r])
        /\ row.status = "pending" <=> row.decided_at = NoTime

\* What a request waiting for decisions needs to be approved: the quorum in
\* force at that moment, of users other than its requester.
ApprovedByQuorum ==
  [][\A r \in Request :
       request[r] # NoRow /\ request[r].status = "pending" /\ request'[r].status = "approved" =>
         Cardinality(Approvers(vote'[r]) \ {request[r].requester})
           >= policy[request[r].policy].approval_quorum
    ]_approvalVars

\* A request that is decided stays as it was decided, and so do the decisions on
\* it: approvers who are late, and policies edited afterwards, change nothing
\* (the status check under the lock in decide_access_request).
DecidedStays ==
  [][\A r \in Request :
       request[r] # NoRow /\ request[r].status # "pending" =>
         request'[r] = request[r] /\ vote'[r] = vote[r]]_approvalVars
=============================================================================
