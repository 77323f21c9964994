------------------------------ MODULE MCAccess ------------------------------
(* An instance of Governance, and of everything it composes, for TLC: Bob   *)
(* asks for access, and administers and decides as Ann and Cyd do.          *)
EXTENDS Governance, TLC

CONSTANTS ann, bob, cyd, ops, root, host, staff, leads, hosts, night

Lead == {"CONSOLE_ACCESS", "POLICIES_MANAGE", "GROUPS_MANAGE", "TARGET_GROUPS_MANAGE",
         "CREDENTIALS_MANAGE", "APPROVALS_VIEW", "APPROVALS_DECIDE",
         "SYSTEM_VIEW", "SYSTEM_MANAGE"}

MCRole == [lead |-> Lead]

\* Cyd is a lead until the end of the second unit of time.
MCRoleAssignment == {[user |-> cyd, role |-> "lead", valid_from |-> 0, valid_until |-> 2]}

MCTargetOf == [c \in {root} |-> host]

MCProtocolOf == [t \in {host} |-> "ssh"]

Guarded ==
  [enabled |-> TRUE, user_groups |-> {staff}, approver_groups |-> {leads},
   target_groups |-> {hosts}, targets |-> {}, credentials |-> {}, protocols |-> {},
   actions |-> Action, time_frames |-> {night}, requires_approval |-> TRUE,
   approval_quorum |-> 2, ticket_required |-> TRUE, requires_mfa |-> TRUE,
   max_duration_minutes |-> 1, valid_from |-> NoTime, valid_until |-> NoTime,
   weekdays |-> {}, access_start_time |-> NoTime, access_end_time |-> NoTime,
   source_cidrs |-> {{"office"}}]

\* The policy as it is, and without approval and MFA, the quorum left empty.
MCPolicyForm == [p \in {ops} |->
  {Guarded, [Guarded EXCEPT !.requires_approval = FALSE, !.requires_mfa = FALSE,
                            !.approval_quorum = 0, !.source_cidrs = {}]}]

MCGroupForm ==
  staff :> {[users |-> {bob}, roles |-> {}, enabled |-> TRUE]}
  @@ leads :> {[users |-> {ann, bob}, roles |-> {"lead"}, enabled |-> TRUE]}

Night == [enabled |-> TRUE, weekdays |-> {}, start_time |-> 2, end_time |-> 1,
          valid_from |-> NoTime, valid_until |-> NoTime]

MCFrameForm == [t \in {night} |-> {Night, [Night EXCEPT !.enabled = FALSE]}]

MCTargetGroupForm == [g \in {hosts} |-> {[targets |-> {host}, enabled |-> TRUE]}]

MCSymmetry == Permutations(Request)
=============================================================================
