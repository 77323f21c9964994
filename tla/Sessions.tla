------------------------------ MODULE Sessions ------------------------------
(***************************************************************************)
(* Privileged sessions, their single-use tickets and the concurrency quota *)
(* of an access policy, as pamolive/sessions/services.py keeps them in     *)
(* PostgreSQL (READ COMMITTED).                                            *)
(*                                                                         *)
(* A service function is one transaction.  A transaction that takes its    *)
(* row locks one after the other is cut where another transaction can get  *)
(* in between:                                                             *)
(*   - starting a session reads the authorization (Authorize), and only    *)
(*     then locks the policy, counts, and writes (issue_session_ticket,    *)
(*     start_web_session);                                                 *)
(*   - opening a session locks and checks ticket and session               *)
(*     (PresentTicket), and only then locks the policy, counts, and writes *)
(*     (consume_session_ticket).                                           *)
(* request[w] is the transaction worker w is in.  Expiry dates are kept as *)
(* the time left: ttl[s] is ticket.expires_at - now and life[s] is         *)
(* session.expires_at - now, both 0 once the date has passed.              *)
(***************************************************************************)
EXTENDS Naturals, FiniteSets

CONSTANTS
  User, Target, Policy,
  WebTarget,       \* the targets reached through a browser, without a ticket
  SessionId,       \* the primary keys sessions are created with
  Worker,          \* the web and API workers
  TicketLifetime,  \* lifetime_seconds
  Duration,        \* the values of min(policy's, request's) duration
  Quota,           \* the values an administrator gives max_concurrent_sessions
  NoGroup          \* the group of a session that does not exist yet

Group == [user : User, target : Target, policy : Policy]

ASSUME SessionAssumption ==
  /\ IsFiniteSet(SessionId)
  /\ WebTarget \subseteq Target
  /\ TicketLifetime \in Nat \ {0}
  /\ Duration \subseteq Nat \ {0}
  /\ Quota \subseteq Nat \ {0}
  /\ NoGroup \notin Group

VARIABLES
  status,      \* PrivilegedSession.status, "none" before the row exists
  group,       \* the session's user, target and policy
  life,        \* time left until session.expires_at
  ttl,         \* time left until ticket.expires_at, 0 without a ticket
  consumed,    \* the sessions whose ticket has consumed_at set
  revoked,     \* the sessions whose ticket has revoked_at set
  quota,       \* AccessPolicy.max_concurrent_sessions
  authorized,  \* the groups authorizing_policy_for accepts at this moment
  request      \* the transaction each worker is in

vars == <<status, group, life, ttl, consumed, revoked, quota, authorized, request>>

-----------------------------------------------------------------------------
Open == {"active", "terminating"}

Ended == {"closed", "failed"}

Status == {"none", "created"} \cup Open \cup Ended

Idle == [op |-> "idle"]

Starting(g) == [op |-> "start", group |-> g]

Presenting(s) == [op |-> "consume", session |-> s]

Request == {Idle} \cup {Starting(g) : g \in Group} \cup {Presenting(s) : s \in SessionId}

\* Mutant of Reserved: the count forgets ticket.expires_at.
ReservedForGood(s) == status[s] = "created" /\ s \notin consumed \cup revoked

\* A ticket that can still be presented holds a place in the quota.
Reserved(s) == /\ status[s] = "created"
               /\ ttl[s] > 0
               /\ s \notin consumed \cup revoked

OpenIn(g) == {s \in SessionId : group[s] = g /\ status[s] \in Open}

\* _active_session_count: the open sessions of the group and its live tickets.
Counted(g) == OpenIn(g) \cup {s \in SessionId : group[s] = g /\ Reserved(s)}

\* A transaction that presents the ticket of s holds the row locks of both.
RowLocked(s) == \E w \in Worker : request[w] = Presenting(s)

Finish(w) == request' = [request EXCEPT ![w] = Idle]

Init ==
  /\ status = [s \in SessionId |-> "none"]
  /\ group = [s \in SessionId |-> NoGroup]
  /\ life = [s \in SessionId |-> 0]
  /\ ttl = [s \in SessionId |-> 0]
  /\ consumed = {}
  /\ revoked = {}
  /\ quota \in [Policy -> Quota]
  /\ authorized \in SUBSET Group
  /\ request = [w \in Worker |-> Idle]

-----------------------------------------------------------------------------
(* Starting a session.                                                     *)

\* The checks of a start before the policy is locked.  A refused one writes nothing.
Authorize(w, g) ==
  /\ request[w] = Idle
  /\ g \in authorized
  /\ request' = [request EXCEPT ![w] = Starting(g)]
  /\ UNCHANGED <<status, group, life, ttl, consumed, revoked, quota, authorized>>

\* The policy is locked and the quota still has room for a session of group g.
HasRoom(g) == Cardinality(Counted(g)) < quota[g.policy]

Create(s, g, st, d, t) ==
  /\ status[s] = "none"
  /\ status' = [status EXCEPT ![s] = st]
  /\ group' = [group EXCEPT ![s] = g]
  /\ life' = [life EXCEPT ![s] = d]
  /\ ttl' = [ttl EXCEPT ![s] = t]
  /\ UNCHANGED <<consumed, revoked, quota, authorized>>

issue_session_ticket(w, s, g, d) ==
  /\ request[w] = Starting(g)
  /\ g.target \notin WebTarget
  /\ HasRoom(g)
  /\ Create(s, g, "created", d, TicketLifetime)
  /\ Finish(w)

start_web_session(w, s, g, d) ==
  /\ request[w] = Starting(g)
  /\ g.target \in WebTarget
  /\ HasRoom(g)
  /\ Create(s, g, "active", d, 0)
  /\ Finish(w)

RefuseStart(w, g) ==
  /\ request[w] = Starting(g)
  /\ ~HasRoom(g)
  /\ Finish(w)
  /\ UNCHANGED <<status, group, life, ttl, consumed, revoked, quota, authorized>>

-----------------------------------------------------------------------------
(* Opening a session with its ticket.                                      *)

\* The checks made once ticket and session are locked, against one reading of now.
Presentable(s) ==
  /\ s \notin revoked \cup consumed
  /\ ttl[s] > 0
  /\ status[s] = "created"
  /\ life[s] > 0

PresentTicket(w, s) ==
  /\ request[w] = Idle
  /\ ~RowLocked(s)
  /\ Presentable(s)
  /\ request' = [request EXCEPT ![w] = Presenting(s)]
  /\ UNCHANGED <<status, group, life, ttl, consumed, revoked, quota, authorized>>

\* Mutant of OthersOpen: a session being terminated no longer counts.
OthersActive(s) == {r \in OpenIn(group[s]) \ {s} : status[r] = "active"}

OthersOpen(s) == OpenIn(group[s]) \ {s}

\* Mutant of consume_session_ticket: consumed_at is not saved.
ConsumeUnmarked(w, s) ==
  /\ request[w] = Presenting(s)
  /\ Cardinality(OthersOpen(s)) < quota[group[s].policy]
  /\ status' = [status EXCEPT ![s] = "active"]
  /\ Finish(w)
  /\ UNCHANGED <<group, life, ttl, consumed, revoked, quota, authorized>>

consume_session_ticket(w, s) ==
  /\ request[w] = Presenting(s)
  /\ Cardinality(OthersOpen(s)) < quota[group[s].policy]
  /\ consumed' = consumed \cup {s}
  /\ status' = [status EXCEPT ![s] = "active"]
  /\ Finish(w)
  /\ UNCHANGED <<group, life, ttl, revoked, quota, authorized>>

RefuseTicket(w, s) ==
  /\ request[w] = Presenting(s)
  /\ Cardinality(OthersOpen(s)) >= quota[group[s].policy]
  /\ Finish(w)
  /\ UNCHANGED <<status, group, life, ttl, consumed, revoked, quota, authorized>>

-----------------------------------------------------------------------------
(* Ending a session.                                                       *)

\* Mutant of Endable: the session row is read without select_for_update.
EndableUnlocked(s) == status[s] \notin Ended \cup {"none"}

\* A session that has ended is returned as it is.
Endable(s) == /\ ~RowLocked(s)
              /\ status[s] \notin Ended \cup {"none"}

close_session(s, failed) ==
  /\ Endable(s)
  /\ status' = [status EXCEPT ![s] = IF failed THEN "failed" ELSE "closed"]
  /\ UNCHANGED <<group, life, ttl, consumed, revoked, quota, authorized, request>>

\* A session that has not been opened is closed at once and its ticket revoked;
\* an open one is marked, and the caller goes on to notify its broker.
request_session_termination(s) ==
  /\ Endable(s)
  /\ IF status[s] = "created"
       THEN /\ revoked' = revoked \cup ({s} \ consumed)
            /\ status' = [status EXCEPT ![s] = "closed"]
       ELSE /\ status' = [status EXCEPT ![s] = "terminating"]
            /\ UNCHANGED revoked
  /\ UNCHANGED <<group, life, ttl, consumed, quota, authorized, request>>

-----------------------------------------------------------------------------
(* What happens around the sessions.                                       *)

\* A transaction is rolled back: its worker or its connection died, or
\* PostgreSQL chose it to break a deadlock.
Rollback(w) ==
  /\ request[w] # Idle
  /\ Finish(w)
  /\ UNCHANGED <<status, group, life, ttl, consumed, revoked, quota, authorized>>

\* An administrator saves the policy form.
SetQuota(p, n) ==
  /\ quota' = [quota EXCEPT ![p] = n]
  /\ UNCHANGED <<status, group, life, ttl, consumed, revoked, authorized, request>>

\* Policies, approvals, roles, host keys, MFA freshness and schedules change.
ChangeAuthorization(g) ==
  /\ \/ authorized' = authorized \cup {g}
     \/ authorized' = authorized \ {g}
  /\ UNCHANGED <<status, group, life, ttl, consumed, revoked, quota, request>>

Less(n) == IF n = 0 THEN 0 ELSE n - 1

Tick ==
  /\ life' = [s \in SessionId |-> Less(life[s])]
  /\ ttl' = [s \in SessionId |-> Less(ttl[s])]
  /\ UNCHANGED <<status, group, consumed, revoked, quota, authorized, request>>

-----------------------------------------------------------------------------
Next ==
  \/ \E w \in Worker, g \in Group :
       \/ Authorize(w, g)
       \/ RefuseStart(w, g)
       \/ \E s \in SessionId, d \in Duration :
            \/ issue_session_ticket(w, s, g, d)
            \/ start_web_session(w, s, g, d)
  \/ \E w \in Worker, s \in SessionId :
       \/ PresentTicket(w, s)
       \/ consume_session_ticket(w, s)
       \/ RefuseTicket(w, s)
  \/ \E s \in SessionId :
       \/ \E failed \in BOOLEAN : close_session(s, failed)
       \/ request_session_termination(s)
  \/ \E w \in Worker : Rollback(w)
  \/ \E p \in Policy, n \in Quota : SetQuota(p, n)
  \/ \E g \in Group : ChangeAuthorization(g)
  \/ Tick

Spec == Init /\ [][Next]_vars

\* Time passes.  Nobody is obliged to finish a request or to present a ticket.
FairSpec == Spec /\ WF_vars(Tick)

-----------------------------------------------------------------------------
(* Properties.                                                             *)

\* The tables and the transactions in flight hold what their columns allow.
TypeOK ==
  /\ status \in [SessionId -> Status]
  /\ group \in [SessionId -> Group \cup {NoGroup}]
  /\ life \in [SessionId -> Nat]
  /\ ttl \in [SessionId -> Nat]
  /\ consumed \in SUBSET SessionId
  /\ revoked \in SUBSET SessionId
  /\ quota \in [Policy -> Quota]
  /\ authorized \in SUBSET Group
  /\ request \in [Worker -> Request]
  /\ \A s \in SessionId : status[s] # "none" => group[s] \in Group

\* While a ticket is being presented its session stays as the checks found it:
\* not opened, not ended, its ticket neither used nor revoked, and presented by
\* nobody else (the rows select_for_update locks in consume_session_ticket are
\* the rows close_session and request_session_termination wait for).
PresentedStaysPresentable ==
  \A w \in Worker, s \in SessionId :
    request[w] = Presenting(s) =>
      /\ status[s] = "created"
      /\ s \notin consumed \cup revoked
      /\ \A v \in Worker : request[v] = Presenting(s) => v = w

\* The session table and the ticket table agree (issue_session_ticket,
\* consume_session_ticket, request_session_termination): an open session of an
\* interactive target used its own ticket, a used ticket is never also
\* revoked, and neither a used nor a revoked ticket is left on a session that
\* could still be opened.
TicketMatchesSession ==
  \A s \in SessionId :
    /\ status[s] \in Open /\ group[s].target \notin WebTarget => s \in consumed
    /\ s \in consumed => status[s] \in Open \cup Ended /\ s \notin revoked
    /\ s \in revoked => status[s] = "closed"

\* The session, if open, is within what its policy allows its group.
WithinQuota(s) ==
  status[s] \in Open => Cardinality(OpenIn(group[s])) <= quota[group[s].policy]

\* Whatever tickets expire, are presented or are issued at the same moment, no
\* step opens a session beyond the max_concurrent_sessions its policy has then
\* (the counts under the policy lock in issue_session_ticket,
\* start_web_session and consume_session_ticket).
QuotaNeverExceeded ==
  [][\A s \in SessionId : status[s] \notin Open => WithinQuota(s)']_vars

\* Nothing brings a session back, not even its ticket being presented at the
\* moment it is ended: a closed or failed session stays so, and one marked for
\* termination can only end (the row locks of consume_session_ticket,
\* close_session and request_session_termination).
NoWayBack ==
  [][\A s \in SessionId :
       /\ status[s] \in Ended => status'[s] = status[s]
       /\ status[s] = "terminating" => status'[s] \in {"terminating"} \cup Ended]_vars

\* A ticket nobody presents gives its place in the quota back, whatever the
\* transactions around it do: reserving a place does not lose it
\* (_active_session_count against ticket.expires_at).
UnusedTicketsFreeTheirPlace ==
  \A s \in SessionId : Reserved(s) ~> ~Reserved(s)

-----------------------------------------------------------------------------
(* The service keeps its contract: a status is a stage of SessionContract, *)
(* and the groups of a policy are places of the capacity of its quota.     *)

StageOf(st) ==
  CASE st = "none" -> "none"
    [] st = "created" -> "pending"
    [] st \in Open -> "open"
    [] st \in Ended -> "ended"

stage == [s \in SessionId |-> StageOf(status[s])]

capacity == [g \in Group |-> quota[g.policy]]

Contract == INSTANCE SessionContract
              WITH Place <- Group, NoPlace <- NoGroup, place <- group

\* Sessions implements SessionContract: whatever is interleaved, every
\* transaction of services.py prepares, admits or ends one session, resizes a
\* quota, or is invisible.
KeepsContract == Contract!Spec
=============================================================================
