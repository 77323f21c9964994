------------------------------ MODULE Policies ------------------------------
(***************************************************************************)
(* Who may do what, when and from where: access policies, the groups and   *)
(* time frames they name (pamolive/policies), the capabilities that roles  *)
(* give (pamolive/rbac), and the console forms that change them.           *)
(*                                                                         *)
(* Time is counted in units of which DayLength make a day: `now` is a date *)
(* and, modulo DayLength, a time of day.  A network is the set of its      *)
(* addresses.  NoTime is a date or time left empty.  The forms that may be *)
(* submitted are constants, so that an instance chooses the edits it is    *)
(* interested in.                                                          *)
(***************************************************************************)
EXTENDS Naturals, FiniteSets

CONSTANTS
  User, Superuser,          \* the users, and those with is_superuser
  UserGroup, TargetGroup, Target, Credential, Policy, TimeFrame,
  TargetOf,                 \* Credential.target
  ProtocolOf,               \* Target.protocol
  Role,                     \* the enabled roles and their capabilities
  RoleAssignment,           \* the roles users hold directly, with their dates
  Address,                  \* the source addresses
  PolicyForm, GroupForm, FrameForm, TargetGroupForm,  \* what the forms may hold
  Switchable,               \* the targets and credentials a form switches on and off
  DayLength, Horizon,
  NoTime

\* MANAGE_TARGETS is left out: no code asks for it.
Action == {"request_access", "start_session", "view_secret", "reveal_totp"}

Protocol == {"ssh", "rdp", "web", "vnc", "telnet", "raw_tcp"}
Moment == Nat \cup {NoTime}

\* AccessPolicy, without what only sessions and risk scores look at.
PolicyRow ==
  [enabled : BOOLEAN, user_groups : SUBSET UserGroup, approver_groups : SUBSET UserGroup,
   target_groups : SUBSET TargetGroup, targets : SUBSET Target,
   credentials : SUBSET Credential, protocols : SUBSET Protocol, actions : SUBSET Action,
   time_frames : SUBSET TimeFrame, requires_approval : BOOLEAN, approval_quorum : Nat,
   ticket_required : BOOLEAN, requires_mfa : BOOLEAN, max_duration_minutes : Nat,
   valid_from : Moment, valid_until : Moment, weekdays : SUBSET (0..6),
   access_start_time : Moment, access_end_time : Moment,
   source_cidrs : SUBSET SUBSET Address]

ASSUME PoliciesAssumption ==
  /\ IsFiniteSet(User)
  /\ Superuser \subseteq User
  /\ TargetOf \in [Credential -> Target]
  /\ PolicyForm \in [Policy -> SUBSET PolicyRow]
  /\ DayLength \in Nat \ {0}
  /\ Horizon \in Nat
  /\ NoTime \notin Nat

VARIABLES
  policy,       \* the AccessPolicy table
  group,        \* the UserGroup table: users, roles, enabled
  frame,        \* the TimeFrame table
  targetGroup,  \* the TargetGroup table: targets, enabled
  disabled,     \* targets without enabled, credentials without checkout_enabled
  now

policyVars == <<policy, group, frame, targetGroup, disabled, now>>

PoliciesInit ==
  /\ policy \in [Policy -> UNION {PolicyForm[p] : p \in Policy}]
  /\ \A p \in Policy : policy[p] \in PolicyForm[p] /\ policy[p].approval_quorum > 0
  /\ group \in [UserGroup -> UNION {GroupForm[g] : g \in UserGroup}]
  /\ \A g \in UserGroup : group[g] \in GroupForm[g]
  /\ frame \in [TimeFrame -> UNION {FrameForm[t] : t \in TimeFrame}]
  /\ \A t \in TimeFrame : frame[t] \in FrameForm[t]
  /\ targetGroup \in [TargetGroup -> UNION {TargetGroupForm[g] : g \in TargetGroup}]
  /\ \A g \in TargetGroup : targetGroup[g] \in TargetGroupForm[g]
  /\ disabled = {}
  /\ now = 0

Begun(valid_from) == valid_from # NoTime => now >= valid_from

NotOver(valid_until) == valid_until # NoTime => now < valid_until

-----------------------------------------------------------------------------
(* Capabilities.                                                           *)

GroupsOf(u) == {g \in UserGroup : group[g].enabled /\ u \in group[g].users}

DirectRoles(u) ==
  {a.role : a \in {b \in RoleAssignment :
     b.user = u /\ Begun(b.valid_from) /\ NotOver(b.valid_until)}}

user_capabilities(u) ==
  LET held == UNION {group[g].roles : g \in GroupsOf(u)} \cup DirectRoles(u)
  IN  UNION {Role[r] : r \in held \cap DOMAIN Role}

user_has_capability(u, capability) ==
  u \in Superuser \/ capability \in user_capabilities(u)

\* Somebody has all these capabilities, and may make a request that needs them.
Somebody(capabilities) ==
  {u \in User : \A capability \in capabilities : user_has_capability(u, capability)} # {}

\* _configuration_permission for a request that changes something.
Managed(capability) == Somebody({"CONSOLE_ACCESS", capability})

-----------------------------------------------------------------------------
(* Schedules.                                                              *)

Clock == now % DayLength

Weekday == (now \div DayLength) % 7

\* Mutant of _clock_is_current: a window that ends before it starts is empty.
ClockWithoutMidnight(t, start, end) ==
  /\ start # NoTime => t >= start
  /\ end # NoTime => t < end

_clock_is_current(t, start, end) ==
  IF start # NoTime /\ end # NoTime /\ start > end
    THEN t >= start \/ t < end
    ELSE /\ start # NoTime => t >= start
         /\ end # NoTime => t < end

_time_frame_is_current(f) ==
  /\ Begun(f.valid_from) /\ NotOver(f.valid_until)
  /\ f.weekdays = {} \/ Weekday \in f.weekdays
  /\ _clock_is_current(Clock, f.start_time, f.end_time)

_legacy_schedule_is_current(p) ==
  /\ policy[p].weekdays = {} \/ Weekday \in policy[p].weekdays
  /\ _clock_is_current(Clock, policy[p].access_start_time, policy[p].access_end_time)

\* A source that is not known is in no network.
_source_is_allowed(p, source) ==
  policy[p].source_cidrs = {} \/ \E network \in policy[p].source_cidrs : source \in network

policy_is_current(p, source) ==
  LET frames == {f \in policy[p].time_frames : frame[f].enabled}
  IN  /\ Begun(policy[p].valid_from) /\ NotOver(policy[p].valid_until)
      /\ IF frames # {} THEN \E f \in frames : _time_frame_is_current(frame[f])
                        ELSE _legacy_schedule_is_current(p)
      /\ _source_is_allowed(p, source)

-----------------------------------------------------------------------------
(* Authorization.                                                          *)

policies_for_user(u) ==
  {p \in Policy : policy[p].enabled /\ policy[p].user_groups \cap GroupsOf(u) # {}}

policies_allowing(u, action, source) ==
  {p \in policies_for_user(u) : action \in policy[p].actions /\ policy_is_current(p, source)}

\* The target is named by the policy or is in one of its enabled groups.
Covers(p, t) ==
  \/ t \in policy[p].targets
  \/ \E g \in policy[p].target_groups : targetGroup[g].enabled /\ t \in targetGroup[g].targets

ProtocolAllowed(p, t) == policy[p].protocols = {} \/ ProtocolOf[t] \in policy[p].protocols

policy_allows_credential(p, c) ==
  /\ ProtocolAllowed(p, TargetOf[c])
  /\ policy[p].credentials = {} \/ c \in policy[p].credentials

credential_allows_action(u, c, action, source) ==
  \E p \in policies_allowing(u, action, source) :
    Covers(p, TargetOf[c]) /\ policy_allows_credential(p, c)

actions_for_target(u, t, source) ==
  UNION {policy[p].actions : p \in {q \in policies_for_user(u) :
           policy_is_current(q, source) /\ ProtocolAllowed(q, t) /\ Covers(q, t)}}

targets_for_policies(ps) == {t \in Target \ disabled : \E p \in ps : Covers(p, t)}

-----------------------------------------------------------------------------
(* The console forms.                                                      *)

\* The dates of a policy or a time frame in the right order.
DatesInOrder(f) ==
  NoTime \notin {f.valid_from, f.valid_until} => f.valid_from < f.valid_until

\* AccessPolicyForm.clean; a quorum of 0 is an empty field.
CleanPolicy(f) ==
  /\ f.user_groups # {} /\ f.target_groups # {} /\ f.actions # {}
  /\ DatesInOrder(f)
  /\ f.approval_quorum \in 0..10

\* The form has no field for the targets and the older schedule of a policy.
Cleaned(f, old) ==
  [f EXCEPT !.approval_quorum = IF @ = 0 THEN 1 ELSE @,
            !.targets = old.targets, !.weekdays = old.weekdays,
            !.access_start_time = old.access_start_time,
            !.access_end_time = old.access_end_time]

SavePolicy(p, f) ==
  /\ Managed("POLICIES_MANAGE")
  /\ CleanPolicy(f)
  /\ policy' = [policy EXCEPT ![p] = Cleaned(f, policy[p])]
  /\ UNCHANGED <<group, frame, targetGroup, disabled, now>>

SaveTimeFrame(t, f) ==
  /\ Managed("POLICIES_MANAGE")
  /\ DatesInOrder(f)
  /\ frame' = [frame EXCEPT ![t] = f]
  /\ UNCHANGED <<policy, group, targetGroup, disabled, now>>

SaveUserGroup(g, f) ==
  /\ Managed("GROUPS_MANAGE")
  /\ group' = [group EXCEPT ![g] = f]
  /\ UNCHANGED <<policy, frame, targetGroup, disabled, now>>

SaveTargetGroup(g, f) ==
  /\ Managed("TARGET_GROUPS_MANAGE")
  /\ targetGroup' = [targetGroup EXCEPT ![g] = f]
  /\ UNCHANGED <<policy, group, frame, disabled, now>>

\* The enabled box of the target form, or the checkout_enabled box of the
\* credential form.
Switch(x) ==
  /\ Managed(IF x \in Target THEN "TARGETS_MANAGE" ELSE "CREDENTIALS_MANAGE")
  /\ disabled' \in {disabled \cup {x}, disabled \ {x}}
  /\ UNCHANGED <<policy, group, frame, targetGroup, now>>

Tick == /\ now < Horizon
        /\ now' = now + 1
        /\ UNCHANGED <<policy, group, frame, targetGroup, disabled>>

PoliciesNext ==
  \/ Tick
  \/ \E p \in Policy : \E f \in PolicyForm[p] : SavePolicy(p, f)
  \/ \E t \in TimeFrame : \E f \in FrameForm[t] : SaveTimeFrame(t, f)
  \/ \E g \in UserGroup : \E f \in GroupForm[g] : SaveUserGroup(g, f)
  \/ \E g \in TargetGroup : \E f \in TargetGroupForm[g] : SaveTargetGroup(g, f)
  \/ \E x \in Switchable : Switch(x)

-----------------------------------------------------------------------------
(* Properties.                                                             *)

\* The hours from start on, one after the other, until end comes round.
Window(start, end) ==
  {(start + k) % DayLength : k \in 0..(((end + DayLength - start) % DayLength) - 1)}

\* A window of hours holds exactly the times reached from its start before its
\* end comes, over midnight where it ends before it starts; of a window without
\* an end or without a start, the rest or the beginning of the day counts
\* (_clock_is_current).
WindowsWrapAround ==
  LET start == 0..(DayLength - 1)
  IN  \A s, e \in start :
        /\ _clock_is_current(Clock, s, e) <=> Clock \in Window(s, e)
        /\ _clock_is_current(Clock, s, NoTime) <=> Clock \in s..(DayLength - 1)
        /\ _clock_is_current(Clock, NoTime, e) <=> Clock \in 0..(e - 1)
=============================================================================
