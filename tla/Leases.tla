------------------------------- MODULE Leases -------------------------------
(***************************************************************************)
(* Authorizing the use of a credential and leasing its secret              *)
(* (pamolive/vault/leases.py), for the two requests that do so: revealing  *)
(* a secret in the portal, and opening a session through a gateway.        *)
(*                                                                         *)
(* A request issues a lease and consumes it in a transaction of its own,   *)
(* with everybody else at work in between.  The time of the last MFA is    *)
(* the one in the user's web session: any earlier time.                    *)
(***************************************************************************)
EXTENDS Approvals

CONSTANTS
  Lease,          \* the leases, each issued once
  Enrolled,       \* the users with a confirmed MFA device
  TotpCredential, \* the credentials with a TOTP secret
  LeaseLifetime, TotpLifetime, MfaWindow,
  NoLease

VARIABLES
  lease,      \* the SecretLease rows, NoLease before they exist
  totpGrant   \* target_secret_grant of each user's web session: when it ends

leaseVars == <<approvalVars, lease, totpGrant>>

LeaseRow ==
  [user : User, credential : Credential, policy : Policy, request : Request \cup {NoRow},
   purpose : {"reveal", "session"}, expires_at : Nat, consumed_at : Nat \cup {NoTime},
   needed : BOOLEAN, totp : BOOLEAN]

ASSUME LeasesAssumption ==
  /\ {LeaseLifetime, TotpLifetime, MfaWindow} \subseteq Nat
  /\ NoLease \notin LeaseRow
  /\ NoRow \notin Request

LeaseInit ==
  /\ lease = [l \in Lease |-> NoLease]
  /\ totpGrant = [u \in User |-> [c \in Credential |-> NoTime]]

-----------------------------------------------------------------------------
mfa_timestamp_is_recent(verified) == verified # NoTime /\ now - verified <= MfaWindow

\* Mutant of OpenApprovals: an approval has no end.
EveryApproval(u, c, p) ==
  {r \in Request : /\ request[r] # NoRow
                   /\ request[r].requester = u /\ request[r].policy = p
                   /\ request[r].target = TargetOf[c]
                   /\ request[r].status = "approved"}

\* The approved requests whose time has not run out.
OpenApprovals(u, c, p) ==
  {r \in Request : /\ request[r] # NoRow
                   /\ request[r].requester = u /\ request[r].policy = p
                   /\ request[r].target = TargetOf[c]
                   /\ request[r].status = "approved"
                   /\ request[r].decided_at + request[r].duration > now}

\* The open approval decided last, if there is one.
_active_approval(u, c, p) ==
  LET open == OpenApprovals(u, c, p)
  IN  IF open = {} THEN {NoRow}
      ELSE {r \in open : \A q \in open : request[q].decided_at <= request[r].decided_at}

\* The policies any of which the loop may come to first.
authorizing_policy_for(u, c, action, source, verified) ==
  {p \in policies_allowing(u, action, source) :
     /\ Covers(p, TargetOf[c])
     /\ policy_allows_credential(p, c)
     /\ policy[p].requires_approval => OpenApprovals(u, c, p) # {}
     /\ policy[p].requires_mfa => u \in Enrolled /\ mfa_timestamp_is_recent(verified)}

\* A lease also remembers whether its policy required an approval, and whether
\* the request that issued it may show a TOTP code.
issue_secret_lease(l, u, c, purpose, source, verified, totp) ==
  /\ lease[l] = NoLease
  /\ {c, TargetOf[c]} \cap disabled = {}
  /\ LET action == IF purpose = "session" THEN "start_session" ELSE "view_secret"
     IN  \E p \in authorizing_policy_for(u, c, action, source, verified) :
         \E r \in _active_approval(u, c, p) :
           lease' = [lease EXCEPT ![l] =
             [user |-> u, credential |-> c, policy |-> p, request |-> r,
              purpose |-> purpose, expires_at |-> now + LeaseLifetime, consumed_at |-> NoTime,
              needed |-> policy[p].requires_approval, totp |-> totp]]
  /\ UNCHANGED <<approvalVars, totpGrant>>

\* The portal: the first half of the request, up to the lease.
reveal_target_credential(l, u, c, source, verified) ==
  /\ u \in Enrolled /\ mfa_timestamp_is_recent(verified)
  /\ LET actions == actions_for_target(u, TargetOf[c], source)
     IN  /\ "view_secret" \in actions
         /\ issue_secret_lease(l, u, c, "reveal", source, verified,
                               c \in TotpCredential /\ "reveal_totp" \in actions)

\* The gateway, which knows of no MFA.
gateway_authorize(l, u, c, source) ==
  issue_secret_lease(l, u, c, "session", source, NoTime, FALSE)

Usable(l) ==
  /\ lease[l] # NoLease
  /\ lease[l].consumed_at = NoTime
  /\ lease[l].expires_at > now

\* Mutant of consume_secret_lease: the TOTP grant is counted from the lease's end.
ConsumeAndExtend(l) ==
  /\ Usable(l)
  /\ lease' = [lease EXCEPT ![l].consumed_at = now]
  /\ totpGrant' = IF lease[l].totp
                    THEN [totpGrant EXCEPT ![lease[l].user][lease[l].credential] =
                            lease[l].expires_at + TotpLifetime]
                    ELSE totpGrant
  /\ UNCHANGED approvalVars

\* The secret is decrypted and returned.  The portal goes on to let the user
\* refresh the TOTP code for a while.
consume_secret_lease(l) ==
  /\ Usable(l)
  /\ lease' = [lease EXCEPT ![l].consumed_at = now]
  /\ totpGrant' = IF lease[l].totp
                    THEN [totpGrant EXCEPT ![lease[l].user][lease[l].credential] = now + TotpLifetime]
                    ELSE totpGrant
  /\ UNCHANGED approvalVars

LeasesNext ==
  \E l \in Lease :
    \/ consume_secret_lease(l)
    \/ \E u \in User, c \in Credential, source \in Address :
         \/ gateway_authorize(l, u, c, source)
         \/ \E verified \in 0..now : reveal_target_credential(l, u, c, source, verified)

\* target_credential_totp answers with a code.
ShowsTotp(u, c, source, verified) ==
  /\ u \in Enrolled /\ mfa_timestamp_is_recent(verified)
  /\ totpGrant[u][c] # NoTime /\ totpGrant[u][c] >= now
  /\ c \in TotpCredential
  /\ credential_allows_action(u, c, "reveal_totp", source)

-----------------------------------------------------------------------------
(* Properties.                                                             *)

\* A secret that needed an approval is handed out on the strength of a request
\* of its own user for its target and policy, which others approved or which
\* needed no approval when it was made, and at the latest a lease's lifetime
\* after the approved time is over, whatever is edited between the check of the
\* approval and the use of the lease (_active_approval, consume_secret_lease).
SecretsAreApproved ==
  \A l \in Lease : lease[l] # NoLease =>
    LET r == lease[l].request
    IN  /\ lease[l].needed => r # NoRow
        /\ r # NoRow =>
             /\ request[r].status = "approved"
             /\ request[r].requester = lease[l].user
             /\ request[r].policy = lease[l].policy
             /\ request[r].target = TargetOf[lease[l].credential]
             /\ lease[l].user \notin Approvers(vote[r])
             /\ lease[l].consumed_at # NoTime =>
                  lease[l].consumed_at < request[r].decided_at + request[r].duration + LeaseLifetime

\* Whoever sees a TOTP code of a target has been given the password of that
\* credential a short while ago, and a policy in force still allows the code
\* (target_secret_grant in reveal_target_credential and target_credential_totp).
TotpFollowsReveal ==
  \A u \in User, c \in Credential, source \in Address :
    (\E verified \in 0..now : ShowsTotp(u, c, source, verified)) =>
      /\ \E l \in Lease :
           /\ lease[l] # NoLease /\ lease[l].user = u /\ lease[l].credential = c
           /\ lease[l].purpose = "reveal" /\ lease[l].consumed_at # NoTime
           /\ lease[l].consumed_at + TotpLifetime >= now
      /\ \E p \in Policy : /\ policy[p].enabled /\ "reveal_totp" \in policy[p].actions
                           /\ \E g \in policy[p].user_groups : u \in group[g].users
=============================================================================
