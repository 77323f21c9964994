----------------------------- MODULE Governance -----------------------------
(***************************************************************************)
(* Access review campaigns (pamolive/operations/governance.py) beside      *)
(* everything that policies authorize: a reviewer's REVOKE switches a      *)
(* policy off, and the policy form may switch it on again.                 *)
(*                                                                         *)
(* No code closes a campaign, so every campaign is open.  The risk score   *)
(* an item is created with is that of RiskScore; nothing reads it back.    *)
(***************************************************************************)
EXTENDS Leases

CONSTANTS Campaign, NoItem

VARIABLES
  item,   \* the decision on each campaign's AccessReviewItem rows
  cut     \* the policies revoked by a review that no form has switched on since

vars == <<leaseVars, item, cut>>

GovernanceInit ==
  /\ item = [k \in Campaign |-> [p \in Policy |-> NoItem]]
  /\ cut = {}

create_access_review_campaign(k) ==
  /\ Somebody({"SYSTEM_VIEW", "SYSTEM_MANAGE"})
  /\ \A p \in Policy : item[k][p] = NoItem
  /\ item' = [item EXCEPT ![k] =
       [p \in Policy |-> "pending"]]
  /\ UNCHANGED <<leaseVars, cut>>

\* Mutant of decide_access_review_item: to keep a policy switches it on.
DecideAndRestore(k, p, decision) ==
  /\ Somebody({"SYSTEM_MANAGE"})
  /\ item[k][p] # NoItem
  /\ item' = [item EXCEPT ![k][p] = decision]
  /\ policy' = [policy EXCEPT ![p].enabled = decision = "keep"]
  /\ cut' = IF decision = "revoke" THEN cut \cup {p} ELSE cut
  /\ UNCHANGED <<group, frame, targetGroup, disabled, now, request, vote, lease, totpGrant>>

\* An item may be decided more than once.
decide_access_review_item(k, p, decision) ==
  /\ Somebody({"SYSTEM_MANAGE"})
  /\ item[k][p] # NoItem
  /\ item' = [item EXCEPT ![k][p] = decision]
  /\ policy' = IF decision = "revoke" THEN [policy EXCEPT ![p].enabled = FALSE] ELSE policy
  /\ cut' = IF decision = "revoke" THEN cut \cup {p} ELSE cut
  /\ UNCHANGED <<group, frame, targetGroup, disabled, now, request, vote, lease, totpGrant>>

GovernanceNext ==
  \E k \in Campaign :
    \/ create_access_review_campaign(k)
    \/ \E p \in Policy, decision \in {"keep", "revoke"} : decide_access_review_item(k, p, decision)

-----------------------------------------------------------------------------
(* The composition.                                                        *)

Init == PoliciesInit /\ RequestInit /\ LeaseInit /\ GovernanceInit

Next ==
  \/ /\ PoliciesNext
     /\ cut' = {p \in cut : ~policy'[p].enabled}
     /\ UNCHANGED <<request, vote, lease, totpGrant, item>>
  \/ ApprovalsNext /\ UNCHANGED <<lease, totpGrant, item, cut>>
  \/ LeasesNext /\ UNCHANGED <<item, cut>>
  \/ GovernanceNext

Spec == Init /\ [][Next]_vars

-----------------------------------------------------------------------------
(* Properties.                                                             *)

\* From the moment a review revokes a policy until its form is saved, no
\* campaign, decision, approval or change of the clock brings it back: nobody
\* asks for access, leases a secret or is shown a TOTP code through it
\* (decide_access_review_item with policies_for_user).
RevokedGrantsNothing ==
  [][\A p \in cut :
       /\ \A r \in Request : request[r] = NoRow /\ request'[r] # NoRow => request'[r].policy # p
       /\ \A l \in Lease : lease[l] = NoLease /\ lease'[l] # NoLease => lease'[l].policy # p
       /\ policy'[p].enabled => p \notin cut']_vars
=============================================================================
