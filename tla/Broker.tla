------------------------------- MODULE Broker -------------------------------
(***************************************************************************)
(* The brokers that carry privileged sessions, composed with the session   *)
(* service: the SSH gateway (pamolive/gateway/asgi.py), the RDP launcher   *)
(* (pamolive/rdp/asgi.py), the internal API they call                      *)
(* (pamolive/api/gateway.py), and the console's termination request with   *)
(* the notice it sends the gateway (pamolive/sessions/control.py).         *)
(*                                                                         *)
(* A broker has no database: it opens a session by a call whose answer it  *)
(* may never get, and ends one by a report it sends once.  Connection c    *)
(* makes at most one authorize call; the API worker that serves the call   *)
(* is worker c of module Sessions.  The calls run to their end whether or  *)
(* not the broker still waits for them.                                    *)
(***************************************************************************)
EXTENDS Sessions

CONSTANTS
  Conn,        \* websockets of the SSH gateway and posts to the RDP launcher
  RdpTarget,   \* the targets reached through Guacamole
  MfaPolicy,   \* the policies with requires_mfa
  Fault,       \* what may go wrong: a subset of Faults
  NoConn, NoSession

Faults == {"timeout", "loss", "crash", "error"}

ASSUME BrokerAssumption ==
  /\ Conn \subseteq Worker
  /\ RdpTarget \subseteq Target \ WebTarget
  /\ MfaPolicy \subseteq Policy
  /\ Fault \subseteq Faults
  /\ NoConn \notin Conn
  /\ NoSession \notin SessionId

VARIABLES
  phase,          \* where each connection stands in the broker: "off", "waiting",
                  \* "calling", "bridging", "reporting" or "over"
  carries,        \* the session id each connection was opened for
  signalled,      \* the connections whose cancellation event is set
  cancellations,  \* GatewayApplication.cancellations, by session id
  call,           \* where the API stands with each connection's authorize call:
                  \* "none", "received", "opened", "granted", "refused" or "error"
  reports,        \* the close reports on their way to the API
  notices         \* the termination notices on their way to the gateway

brokerVars == <<phase, carries, signalled, cancellations, call, reports, notices>>

allVars == <<vars, brokerVars>>

-----------------------------------------------------------------------------
Rdp(s) == status[s] # "none" /\ group[s].target \in RdpTarget

Ssh(s) == status[s] # "none" /\ group[s].target \notin RdpTarget \cup WebTarget

\* A stream to the target exists for session s.
Bridged(s) == \E c \in Conn : phase[c] = "bridging" /\ carries[c] = s

BrokerInit ==
  /\ Init
  /\ phase = [c \in Conn |-> "off"]
  /\ carries = [c \in Conn |-> NoSession]
  /\ signalled = {}
  /\ cancellations = [s \in SessionId |-> NoConn]
  /\ call = [c \in Conn |-> "none"]
  /\ reports = {}
  /\ notices = {}

Move(c, to) == phase' = [phase EXCEPT ![c] = to]

\* The last lines of the gateway's handler: whatever entry the session id has
\* is removed.  The RDP launcher keeps no entry.
Leave(c) ==
  /\ Move(c, "over")
  /\ cancellations' = IF Rdp(carries[c]) THEN cancellations
                      ELSE [cancellations EXCEPT ![carries[c]] = NoConn]

-----------------------------------------------------------------------------
(* A connection up to its authorize call.                                  *)

\* Mutant of Accept: no event is registered before the authorize call.
AcceptUnregistered(c, s) ==
  /\ phase[c] = "off"
  /\ Ssh(s)
  /\ Move(c, "waiting")
  /\ carries' = [carries EXCEPT ![c] = s]
  /\ UNCHANGED <<vars, signalled, cancellations, call, reports, notices>>

\* The websocket is accepted and its cancellation event registered, under the
\* session id of its path.
Accept(c, s) ==
  /\ phase[c] = "off"
  /\ Ssh(s)
  /\ Move(c, "waiting")
  /\ carries' = [carries EXCEPT ![c] = s]
  /\ cancellations' = [cancellations EXCEPT ![s] = c]
  /\ UNCHANGED <<vars, signalled, call, reports, notices>>

\* Mutant of GiveUp: the finally block reports without looking at authorized.
GiveUpAndReport(c) ==
  /\ phase[c] = "waiting"
  /\ Leave(c)
  /\ reports' = reports \cup {[session |-> carries[c], failed |-> TRUE]}
  /\ UNCHANGED <<vars, carries, signalled, call, notices>>

\* No usable authorize message within ten seconds.
GiveUp(c) ==
  /\ phase[c] = "waiting"
  /\ Leave(c)
  /\ UNCHANGED <<vars, carries, signalled, call, reports, notices>>

SendTicket(c) ==
  /\ phase[c] = "waiting"
  /\ Move(c, "calling")
  /\ call' = [call EXCEPT ![c] = "received"]
  /\ UNCHANGED <<vars, carries, signalled, cancellations, reports, notices>>

\* The browser posts the ticket of an RDP session to the launcher.
Launch(c, s) ==
  /\ phase[c] = "off"
  /\ Rdp(s)
  /\ Move(c, "calling")
  /\ carries' = [carries EXCEPT ![c] = s]
  /\ call' = [call EXCEPT ![c] = "received"]
  /\ UNCHANGED <<vars, signalled, cancellations, reports, notices>>

-----------------------------------------------------------------------------
(* gateway_authorize: the ticket is consumed in a transaction of its own,  *)
(* and only then is the secret leased, with no MFA timestamp to show.      *)

Answer(c, a) == call' = [call EXCEPT ![c] = a]

RestOfBroker == UNCHANGED <<phase, carries, signalled, cancellations, reports, notices>>

ApiPresent(c) ==
  /\ call[c] = "received"
  /\ PresentTicket(c, carries[c])
  /\ RestOfBroker /\ UNCHANGED call

ApiInvalid(c) ==
  /\ call[c] = "received" /\ request[c] = Idle
  /\ ~RowLocked(carries[c]) /\ ~Presentable(carries[c])
  /\ Answer(c, "refused")
  /\ RestOfBroker /\ UNCHANGED vars

ApiOpen(c) ==
  /\ call[c] = "received"
  /\ consume_session_ticket(c, carries[c])
  /\ Answer(c, "opened")
  /\ RestOfBroker

ApiQuota(c) ==
  /\ call[c] = "received"
  /\ RefuseTicket(c, carries[c])
  /\ Answer(c, "refused")
  /\ RestOfBroker

\* Any policy may authorize the lease, but none that requires MFA can.
LeaseAllowed(s) ==
  \E p \in Policy \ MfaPolicy : [group[s] EXCEPT !.policy = p] \in authorized

ApiGrant(c) ==
  /\ call[c] = "opened"
  /\ LeaseAllowed(carries[c])
  /\ Answer(c, "granted")
  /\ RestOfBroker /\ UNCHANGED vars

\* close_session returns a session that has ended as it is.
Close(s, failed) ==
  IF status[s] \in Ended THEN UNCHANGED vars ELSE close_session(s, failed)

\* Mutant of ApiDeny: a lease that is refused leaves the session as it is.
ApiDenyWithoutClosing(c) ==
  /\ call[c] = "opened"
  /\ ~LeaseAllowed(carries[c])
  /\ Answer(c, "refused")
  /\ RestOfBroker /\ UNCHANGED vars

\* Mutant of ApiDeny: a lease that is refused gives the ticket back.
ApiDenyAndReturnTicket(c) ==
  /\ call[c] = "opened"
  /\ ~LeaseAllowed(carries[c])
  /\ status' = [status EXCEPT ![carries[c]] = "created"]
  /\ consumed' = consumed \ {carries[c]}
  /\ Answer(c, "refused")
  /\ RestOfBroker /\ UNCHANGED <<group, life, ttl, revoked, quota, authorized, request>>

ApiDeny(c) ==
  /\ call[c] = "opened"
  /\ ~LeaseAllowed(carries[c])
  /\ Close(carries[c], TRUE)
  /\ Answer(c, "refused")
  /\ RestOfBroker

\* An error the handler does not catch: the transaction in flight, if any, is
\* rolled back, one that has committed is not undone.
ApiError(c) ==
  /\ "error" \in Fault
  /\ call[c] \in {"received", "opened"}
  /\ IF request[c] = Idle THEN UNCHANGED vars ELSE Rollback(c)
  /\ Answer(c, "error")
  /\ RestOfBroker

-----------------------------------------------------------------------------
(* A connection from the answer to its end.                                *)

Authorized(c) ==
  /\ phase[c] = "calling" /\ call[c] = "granted"
  /\ Move(c, "bridging")
  /\ UNCHANGED <<vars, carries, signalled, cancellations, call, reports, notices>>

\* A refusal, or no answer in time: nothing is reported.
Unauthorized(c) ==
  /\ phase[c] = "calling"
  /\ call[c] \in {"refused", "error"} \/ "timeout" \in Fault
  /\ Leave(c)
  /\ UNCHANGED <<vars, carries, signalled, call, reports, notices>>

SendReport(c, failed) ==
  /\ Move(c, "reporting")
  /\ reports' = reports \cup {[session |-> carries[c], failed |-> failed]}
  /\ UNCHANGED <<vars, carries, signalled, cancellations, call, notices>>

\* The remote side, the browser, an error or a set cancellation event ends the
\* bridge; the gateway seals the recording and reports.
BridgeEnds(c, failed) ==
  /\ phase[c] = "bridging" /\ ~Rdp(carries[c])
  /\ SendReport(c, failed)

\* Guacamole refuses the connection the launcher prepared.
LaunchFails(c) ==
  /\ phase[c] = "calling" /\ call[c] = "granted" /\ Rdp(carries[c])
  /\ SendReport(c, TRUE)

\* Once Guacamole carries the session nobody tells PAM-olive of its end.
TunnelEnds(c) ==
  /\ phase[c] = "bridging" /\ Rdp(carries[c])
  /\ Move(c, "over")
  /\ UNCHANGED <<vars, carries, signalled, cancellations, call, reports, notices>>

\* The report was answered, or the broker no longer waits for the answer.
ReportDone(c) ==
  /\ phase[c] = "reporting"
  /\ (\A r \in reports : r.session # carries[c]) \/ "timeout" \in Fault
  /\ Leave(c)
  /\ UNCHANGED <<vars, carries, signalled, call, reports, notices>>

gateway_close(r) ==
  /\ r \in reports
  /\ Close(r.session, r.failed)
  /\ reports' = reports \ {r}
  /\ UNCHANGED <<phase, carries, signalled, cancellations, call, notices>>

-----------------------------------------------------------------------------
(* Termination by an administrator.                                        *)

terminate_session(s) ==
  /\ request_session_termination(s)
  /\ notices' = IF status[s] = "created" THEN notices ELSE notices \cup {s}
  /\ UNCHANGED <<phase, carries, signalled, cancellations, call, reports>>

\* The gateway's control endpoint sets the event registered for the session.
_control(s) ==
  /\ s \in notices
  /\ notices' = notices \ {s}
  /\ signalled' = signalled \cup ({cancellations[s]} \ {NoConn})
  /\ UNCHANGED <<vars, phase, carries, cancellations, call, reports>>

-----------------------------------------------------------------------------
(* Faults.                                                                 *)

Lose ==
  /\ "loss" \in Fault
  /\ \/ \E r \in reports : reports' = reports \ {r} /\ UNCHANGED notices
     \/ \E s \in notices : notices' = notices \ {s} /\ UNCHANGED reports
  /\ UNCHANGED <<vars, phase, carries, signalled, cancellations, call>>

\* The gateway process restarts with an empty registry.
Restart ==
  /\ "crash" \in Fault
  /\ \E c \in Conn : phase[c] \in {"waiting", "calling", "bridging", "reporting"}
                     /\ ~Rdp(carries[c])
  /\ phase' = [c \in Conn |-> IF phase[c] = "off" \/ Rdp(carries[c]) THEN phase[c]
                              ELSE "over"]
  /\ cancellations' = [s \in SessionId |-> NoConn]
  /\ signalled' = {}
  /\ UNCHANGED <<vars, carries, call, reports, notices>>

-----------------------------------------------------------------------------
\* The portal starts sessions while administrators and time change the rest.
Portal ==
  /\ \/ \E w \in Worker \ Conn, g \in Group :
          \/ Authorize(w, g)
          \/ RefuseStart(w, g)
          \/ \E s \in SessionId, d \in Duration :
               \/ issue_session_ticket(w, s, g, d)
               \/ start_web_session(w, s, g, d)
     \/ \E w \in Worker \ Conn : Rollback(w)
     \/ \E p \in Policy, n \in Quota : SetQuota(p, n)
     \/ \E g \in Group : ChangeAuthorization(g)
     \/ Tick
  /\ UNCHANGED brokerVars

Api(c) ==
  ApiPresent(c) \/ ApiInvalid(c) \/ ApiOpen(c) \/ ApiQuota(c) \/ ApiGrant(c) \/ ApiDeny(c)

BrokerNext ==
  \/ Portal
  \/ \E c \in Conn :
       \/ \E s \in SessionId : Accept(c, s) \/ Launch(c, s)
       \/ GiveUp(c) \/ SendTicket(c)
       \/ Api(c) \/ ApiError(c)
       \/ Authorized(c) \/ Unauthorized(c)
       \/ \E failed \in BOOLEAN : BridgeEnds(c, failed)
       \/ LaunchFails(c) \/ TunnelEnds(c) \/ ReportDone(c)
  \/ \E r \in reports : gateway_close(r)
  \/ \E s \in SessionId : terminate_session(s) \/ _control(s)
  \/ Lose
  \/ Restart

BrokerSpec == BrokerInit /\ [][BrokerNext]_allVars

\* Time passes; the API serves what it received; the gateway's coroutines run,
\* each of its waits having a timeout; a set cancellation event ends a bridge;
\* messages arrive unless lost.  A bridge that is left alone may run for ever,
\* and nobody is obliged to connect, terminate or log in.
BrokerFairness ==
  /\ WF_allVars(Tick /\ UNCHANGED brokerVars)
  /\ \A c \in Conn :
       /\ WF_allVars(GiveUp(c))
       /\ WF_allVars(Api(c))
       /\ WF_allVars(Authorized(c) \/ LaunchFails(c) \/ Unauthorized(c))
       /\ WF_allVars(c \in signalled /\ \E failed \in BOOLEAN : BridgeEnds(c, failed))
       /\ WF_allVars(ReportDone(c))
  /\ \A s \in SessionId :
       /\ WF_allVars(\E failed \in BOOLEAN :
                       gateway_close([session |-> s, failed |-> failed]))
       /\ WF_allVars(_control(s))

FairBrokerSpec == BrokerSpec /\ BrokerFairness

-----------------------------------------------------------------------------
(* Properties.                                                             *)

\* Whatever is lost, late or restarted, a stream to a target belongs to a
\* session the database has open (so that the quota counts it and an
\* administrator sees it), and no session has two streams (the single-use
\* ticket of consume_session_ticket, and a report only from the authorized
\* connection in gateway/asgi.py).
StreamsMatchSessions ==
  \A c \in Conn : phase[c] = "bridging" =>
    /\ status[carries[c]] \in Open
    /\ \A d \in Conn : phase[d] = "bridging" /\ carries[d] = carries[c] => d = c

\* The brokers drive the session service only through its transactions: every
\* step of the composed system is one of Sessions or leaves its tables alone
\* (the calls of api/gateway.py and console.views.terminate_session).
SessionServiceSpec == Spec

\* Without faults no SSH session stays open with nothing behind it: one that is
\* open without a stream gets its stream or ends (gateway_authorize closes what
\* it cannot grant, and the gateway's finally block reports what it ran).
OpenSessionsAreCarried ==
  \A s \in SessionId :
    Ssh(s) /\ status[s] \in Open /\ ~Bridged(s) ~> Bridged(s) \/ status[s] \in Ended

\* Without faults, and with one websocket per session, a termination requested
\* of an open SSH session takes effect, whether it finds the connection before,
\* during or after its authorize call (the event registered before the call in
\* gateway/asgi.py).
TerminationCompletes ==
  \A s \in SessionId : Ssh(s) /\ status[s] = "terminating" ~> status[s] \in Ended

\* A requested termination of a running SSH session stops its stream when
\* notices arrive and the gateway stays up: "signals active session" in
\* tests/test_gateway.py, on GatewayApplication._control.
TerminationReachesStream ==
  \A s \in SessionId :
    Ssh(s) /\ status[s] = "terminating" /\ Bridged(s) ~> ~Bridged(s)

\* A brokered SSH session runs only "until it ends or reaches its policy
\* limits" (docs/security.md): past session.expires_at it ends.
SessionsEndAtTheirLimit ==
  \A s \in SessionId :
    Ssh(s) /\ status[s] \in Open /\ life[s] = 0 ~> status[s] \in Ended

\* "The session ticket is issued only after the fresh-MFA check, then the
\* brokered session can run without additional MFA prompts" (docs/security.md):
\* gateway_authorize refuses an opened session only when what authorized its
\* ticket no longer holds.
TicketCarriesItsMfa ==
  [][\A c \in Conn : call[c] = "opened" /\ call'[c] = "refused" =>
       group[carries[c]] \notin authorized]_allVars
=============================================================================
