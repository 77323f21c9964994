---------------------------- MODULE BrokerProofs ----------------------------
(***************************************************************************)
(* What is proved of the brokers: that they keep to the session service,   *)
(* and to the keys of the hosts they connect to.                           *)
(***************************************************************************)
EXTENDS Broker, SessionsProofs, HostKeys, TLAPS

-----------------------------------------------------------------------------
(***************************************************************************)
(* Proofs about Broker, for every set of connections, sessions, policies   *)
(* and faults: the brokers drive the session service only through its      *)
(* transactions, and a stream to a target belongs to one open session.     *)
(***************************************************************************)

Phase == {"off", "waiting", "calling", "bridging", "reporting", "over"}

Answered == {"none", "received", "opened", "granted", "refused", "error"}

Report == [session : SessionId, failed : BOOLEAN]

BrokerTypes ==
  /\ phase \in [Conn -> Phase]
  /\ carries \in [Conn -> SessionId \cup {NoSession}]
  /\ call \in [Conn -> Answered]
  /\ reports \in SUBSET Report

\* The API opened the session of c and has not taken it back.
Holds(c) == call[c] \in {"opened", "granted"}

\* A connection past its accept names a session, one that called the API is past
\* its accept, and one with a stream was granted it.
CallsAreMade ==
  \A c \in Conn :
    /\ phase[c] # "off" => carries[c] \in SessionId
    /\ call[c] # "none" => phase[c] \notin {"off", "waiting"}
    /\ phase[c] = "bridging" => call[c] = "granted"

\* A session is opened for one connection, at the price of its ticket.
OneHolder ==
  \A c \in Conn : Holds(c) =>
    /\ carries[c] \in consumed
    /\ \A d \in Conn : Holds(d) /\ carries[d] = carries[c] => d = c

\* A report is about a session that was opened, by a connection done with it.
ReportsAreFinal ==
  \A r \in reports :
    /\ r.session \in consumed
    /\ \A c \in Conn : Holds(c) /\ carries[c] = r.session => phase[c] \in {"reporting", "over"}

\* Until its connection reports or leaves, an opened session stays open.
HeldIsOpen ==
  \A c \in Conn : Holds(c) /\ phase[c] \in {"calling", "bridging"} => status[carries[c]] \in Open

\* StreamsMatchSessions is about streams alone; whether a session may still be
\* closed behind a stream's back depends on who holds it and on what has been
\* reported.
BrokerInv == BrokerTypes /\ CallsAreMade /\ OneHolder /\ ReportsAreFinal /\ HeldIsOpen

-----------------------------------------------------------------------------
(* The brokers use the session service by its transactions alone.          *)

\* Closing is a transaction of the service, or finds the session ended.
LEMMA CloseIsAStep ==
  ASSUME NEW s \in SessionId, NEW failed \in BOOLEAN, Close(s, failed)
  PROVE  [Next]_vars
  BY DEF Close, Next

\* What the portal, administrators and time do is a step of the service.
LEMMA PortalIsAStep ==
  ASSUME Portal
  PROVE  [Next]_vars
<1> USE DEF Next
<1>1. ASSUME NEW w \in Worker \ Conn, NEW g \in Group, Authorize(w, g) \/ RefuseStart(w, g)
      PROVE  Next
  BY <1>1
<1>2. ASSUME NEW w \in Worker \ Conn, NEW g \in Group, NEW s \in SessionId, NEW d \in Duration,
             issue_session_ticket(w, s, g, d) \/ start_web_session(w, s, g, d)
      PROVE  Next
  BY <1>2
<1>3. ASSUME NEW w \in Worker \ Conn, Rollback(w) PROVE Next
  BY <1>3
<1>4. ASSUME NEW p \in Policy, NEW n \in Quota, SetQuota(p, n) PROVE Next
  BY <1>4
<1>5. ASSUME NEW g \in Group, ChangeAuthorization(g) PROVE Next
  BY <1>5
<1>6. ASSUME Tick PROVE Next
  BY <1>6
<1> HIDE DEF Next
<1> QED
  BY <1>1, <1>2, <1>3, <1>4, <1>5, <1>6 DEF Portal

\* Every step of the composed system is one of the service or leaves its tables
\* alone.
LEMMA BrokerStepsAreServiceSteps ==
  BrokerTypes /\ CallsAreMade /\ [BrokerNext]_allVars => [Next]_vars
<1> SUFFICES ASSUME BrokerTypes, CallsAreMade, [BrokerNext]_allVars PROVE [Next]_vars
  OBVIOUS
<1>1. ASSUME NEW c \in Conn, Api(c) \/ ApiError(c) PROVE [Next]_vars
  <2>1. call[c] # "none"
    BY Zenon, <1>1 DEF Api, ApiPresent, ApiInvalid, ApiOpen, ApiQuota, ApiGrant, ApiDeny, ApiError
  <2>2. c \in Worker /\ carries[c] \in SessionId
    BY <2>1, BrokerAssumption DEF CallsAreMade
  <2>3. ASSUME ApiPresent(c) \/ ApiOpen(c) \/ ApiQuota(c) PROVE Next
    BY <2>2, <2>3 DEF ApiPresent, ApiOpen, ApiQuota, Next
  <2>4. ASSUME ApiDeny(c) PROVE [Next]_vars
    BY Zenon, <2>2, <2>4, CloseIsAStep DEF ApiDeny
  <2>5. ASSUME ApiError(c) PROVE [Next]_vars
    BY <2>2, <2>5 DEF ApiError, Next
  <2>6. ASSUME ApiInvalid(c) \/ ApiGrant(c) PROVE UNCHANGED vars
    BY <2>6 DEF ApiInvalid, ApiGrant
  <2> QED BY <1>1, <2>3, <2>4, <2>5, <2>6 DEF Api
<1>2. ASSUME NEW r \in reports, gateway_close(r) PROVE [Next]_vars
  BY <1>2, CloseIsAStep DEF gateway_close, BrokerTypes, Report
<1>3. ASSUME NEW s \in SessionId, terminate_session(s) PROVE Next
  BY <1>3 DEF terminate_session, Next
<1>4. ASSUME NEW c \in Conn,
             \/ \E s \in SessionId : Accept(c, s) \/ Launch(c, s)
             \/ GiveUp(c) \/ SendTicket(c) \/ Authorized(c) \/ Unauthorized(c)
             \/ \E failed \in BOOLEAN : BridgeEnds(c, failed)
             \/ LaunchFails(c) \/ TunnelEnds(c) \/ ReportDone(c)
      PROVE  UNCHANGED vars
  BY Zenon, <1>4 DEF Accept, Launch, GiveUp, SendTicket, Authorized, Unauthorized, BridgeEnds,
     LaunchFails, SendReport, TunnelEnds, ReportDone
<1>5. ASSUME (\E s \in SessionId : _control(s)) \/ Lose \/ Restart PROVE UNCHANGED vars
  BY <1>5 DEF _control, Lose, Restart
<1>6. ASSUME UNCHANGED allVars PROVE UNCHANGED vars
  BY <1>6 DEF allVars
<1> QED
  BY <1>1, <1>2, <1>3, <1>4, <1>5, <1>6, PortalIsAStep DEF BrokerNext

-----------------------------------------------------------------------------
(* One holder per open session.                                            *)

\* What the invariant needs to know of the service's tables: a step that neither
\* frees a ticket nor ends a session that is open keeps it.
Kept == /\ consumed \subseteq consumed'
        /\ \A s \in SessionId : status[s] \in Open => status'[s] \in Open

\* A connection that moves on, without a new answer or report, keeps the
\* invariant: it leaves, or uses the stream it was granted.
LEMMA MovingOn ==
  ASSUME BrokerInv, Kept, NEW c \in Conn, phase[c] # "off",
         NEW to \in {"bridging", "over"}, to = "bridging" => call[c] = "granted" /\ phase[c] = "calling",
         phase' = [phase EXCEPT ![c] = to],
         UNCHANGED <<carries, call, reports>>
  PROVE  BrokerInv'
<1> USE DEF Kept, Holds
<1>1. BrokerTypes' /\ CallsAreMade'
  BY DEF BrokerInv, BrokerTypes, CallsAreMade, Phase
<1>2. OneHolder'
  BY DEF BrokerInv, OneHolder
<1>3. ReportsAreFinal'
  BY DEF BrokerInv, BrokerTypes, ReportsAreFinal
<1>4. HeldIsOpen'
  BY DEF BrokerInv, BrokerTypes, CallsAreMade, HeldIsOpen
<1> QED BY <1>1, <1>2, <1>3, <1>4 DEF BrokerInv

\* A step of the service that keeps what the brokers hold keeps the invariant.
LEMMA ServiceMoves ==
  ASSUME BrokerInv, Kept, UNCHANGED <<phase, carries, call>>, reports' \subseteq reports
  PROVE  BrokerInv'
<1> USE DEF Kept, Holds
<1>1. BrokerTypes' /\ CallsAreMade'
  BY DEF BrokerInv, BrokerTypes, CallsAreMade
<1>2. OneHolder' /\ ReportsAreFinal'
  BY DEF BrokerInv, OneHolder, ReportsAreFinal
<1>3. HeldIsOpen'
  BY DEF BrokerInv, BrokerTypes, CallsAreMade, HeldIsOpen
<1> QED BY <1>1, <1>2, <1>3 DEF BrokerInv

\* An answer that gives the connection nothing keeps the invariant, even if it
\* closes the session the connection held.
LEMMA Refusals ==
  ASSUME BrokerInv, NEW c \in Conn, call[c] # "none",
         NEW a \in {"received", "refused", "error"},
         call' = [call EXCEPT ![c] = a],
         consumed \subseteq consumed',
         \A s \in SessionId : status[s] \in Open =>
            status'[s] \in Open \/ (Holds(c) /\ s = carries[c]),
         UNCHANGED <<phase, carries, reports>>,
         phase[c] # "bridging"
  PROVE  BrokerInv'
<1> USE DEF Holds
<1>1. BrokerTypes' /\ CallsAreMade'
  BY DEF BrokerInv, BrokerTypes, CallsAreMade, Answered
<1>2. OneHolder'
  BY DEF BrokerInv, BrokerTypes, OneHolder
<1>3. ReportsAreFinal'
  BY DEF BrokerInv, BrokerTypes, ReportsAreFinal
<1>4. HeldIsOpen'
  BY DEF BrokerInv, BrokerTypes, CallsAreMade, OneHolder, HeldIsOpen
<1> QED BY <1>1, <1>2, <1>3, <1>4 DEF BrokerInv

\* The portal creates sessions and never touches one that exists.
LEMMA PortalKeeps ==
  ASSUME TypeOK, Portal
  PROVE  Kept
<1>1. ASSUME NEW w \in Worker \ Conn, NEW g \in Group, NEW s \in SessionId, NEW d \in Duration,
             issue_session_ticket(w, s, g, d) \/ start_web_session(w, s, g, d)
      PROVE  Kept
  BY <1>1 DEF issue_session_ticket, start_web_session, Create, TypeOK, Kept, Open
<1>2. ASSUME UNCHANGED <<status, consumed>> PROVE Kept
  BY <1>2 DEF Kept
<1> QED
  BY Zenon, <1>1, <1>2 DEF Portal, Authorize, RefuseStart, Rollback, SetQuota, ChangeAuthorization, Tick

\* Every step of the composed system preserves the invariant, given what the
\* session service guarantees of its own tables.
LEMMA NextBroker ==
  IInv /\ BrokerInv /\ [BrokerNext]_allVars => BrokerInv'
<1> SUFFICES ASSUME IInv, BrokerInv, [BrokerNext]_allVars PROVE BrokerInv'
  OBVIOUS
<1>t. /\ BrokerTypes /\ CallsAreMade /\ TypeOK
  BY DEF BrokerInv, IInv
<1> USE <1>t
<1>1. ASSUME Portal PROVE BrokerInv'
  BY <1>1, PortalKeeps, ServiceMoves DEF Portal, brokerVars
<1>2. ASSUME NEW c \in Conn, NEW s \in SessionId, Accept(c, s) PROVE BrokerInv'
  <2>1. /\ phase' = [phase EXCEPT ![c] = "waiting"] /\ carries' = [carries EXCEPT ![c] = s]
        /\ UNCHANGED <<status, consumed, call, reports>> /\ phase[c] = "off"
    BY <1>2 DEF Accept, Move, vars
  <2>2. call[c] = "none"
    BY <2>1 DEF CallsAreMade
  <2>3. BrokerTypes' /\ CallsAreMade'
    BY <2>1, <2>2 DEF BrokerTypes, CallsAreMade, Phase
  <2>4. OneHolder' /\ ReportsAreFinal' /\ HeldIsOpen'
    BY Zenon, <2>1, <2>2 DEF BrokerTypes, BrokerInv, Holds, OneHolder, ReportsAreFinal, HeldIsOpen
  <2> QED BY <2>3, <2>4 DEF BrokerInv
<1>3. ASSUME NEW c \in Conn, NEW s \in SessionId, Launch(c, s) PROVE BrokerInv'
  <2>1. /\ phase' = [phase EXCEPT ![c] = "calling"] /\ carries' = [carries EXCEPT ![c] = s]
        /\ call' = [call EXCEPT ![c] = "received"]
        /\ UNCHANGED <<status, consumed, reports>> /\ phase[c] = "off"
    BY <1>3 DEF Launch, Move, vars
  <2>2. call[c] = "none"
    BY <2>1 DEF CallsAreMade
  <2>3. BrokerTypes' /\ CallsAreMade'
    BY <2>1, <2>2 DEF BrokerTypes, CallsAreMade, Phase, Answered
  <2>4. OneHolder' /\ ReportsAreFinal' /\ HeldIsOpen'
    BY Zenon, <2>1, <2>2 DEF BrokerTypes, BrokerInv, Holds, OneHolder, ReportsAreFinal, HeldIsOpen
  <2> QED BY <2>3, <2>4 DEF BrokerInv
<1>4. ASSUME NEW c \in Conn, SendTicket(c) PROVE BrokerInv'
  <2>1. /\ phase' = [phase EXCEPT ![c] = "calling"] /\ call' = [call EXCEPT ![c] = "received"]
        /\ UNCHANGED <<status, consumed, carries, reports>> /\ phase[c] = "waiting"
    BY <1>4 DEF SendTicket, Move, vars
  <2>2. call[c] = "none" /\ carries[c] \in SessionId
    BY <2>1 DEF CallsAreMade
  <2>3. BrokerTypes' /\ CallsAreMade'
    BY <2>1, <2>2 DEF BrokerTypes, CallsAreMade, Phase, Answered
  <2>4. OneHolder' /\ ReportsAreFinal' /\ HeldIsOpen'
    BY Zenon, <2>1, <2>2 DEF BrokerTypes, BrokerInv, Holds, OneHolder, ReportsAreFinal, HeldIsOpen
  <2> QED BY <2>3, <2>4 DEF BrokerInv
<1>5. ASSUME NEW c \in Conn, GiveUp(c) \/ Unauthorized(c) \/ ReportDone(c) \/ TunnelEnds(c)
      PROVE  BrokerInv'
  <2>1. /\ phase' = [phase EXCEPT ![c] = "over"] /\ phase[c] # "off"
        /\ UNCHANGED <<status, consumed, carries, call, reports>>
    BY Zenon, <1>5 DEF GiveUp, Unauthorized, ReportDone, TunnelEnds, Leave, Move, vars
  <2> QED BY Zenon, <2>1, MovingOn DEF Kept
<1>6. ASSUME NEW c \in Conn, Authorized(c) PROVE BrokerInv'
  <2>1. /\ phase' = [phase EXCEPT ![c] = "bridging"] /\ phase[c] = "calling" /\ call[c] = "granted"
        /\ UNCHANGED <<status, consumed, carries, call, reports>>
    BY Zenon, <1>6 DEF Authorized, Move, vars
  <2> QED BY Zenon, <2>1, MovingOn DEF Kept
<1>7. ASSUME NEW c \in Conn, ApiPresent(c) PROVE BrokerInv'
  BY Zenon, <1>7, ServiceMoves DEF ApiPresent, PresentTicket, RestOfBroker, Kept
<1>8. ASSUME NEW c \in Conn, ApiInvalid(c) \/ ApiQuota(c) \/ ApiError(c) PROVE BrokerInv'
  <2>1. PICK a \in {"refused", "error"} : call' = [call EXCEPT ![c] = a]
    BY Zenon, <1>8 DEF ApiInvalid, ApiQuota, ApiError, Answer
  <2>2. /\ UNCHANGED <<status, consumed, phase, carries, reports>>
        /\ call[c] \in {"received", "opened"}
    BY Zenon, <1>8 DEF ApiInvalid, ApiQuota, ApiError, RefuseTicket, Rollback, RestOfBroker, vars
  <2>3. phase[c] # "bridging"
    BY <2>2 DEF CallsAreMade
  <2> QED BY Zenon, <2>1, <2>2, <2>3, Refusals
<1>9. ASSUME NEW c \in Conn, ApiDeny(c) PROVE BrokerInv'
  <2>1. /\ call' = [call EXCEPT ![c] = "refused"] /\ call[c] = "opened"
        /\ UNCHANGED <<phase, carries, reports>> /\ Close(carries[c], TRUE)
    BY Zenon, <1>9 DEF ApiDeny, Answer, RestOfBroker
  <2>2. /\ consumed' = consumed
        /\ \A s \in SessionId : s # carries[c] => status'[s] = status[s]
    BY Zenon, <2>1 DEF Close, close_session, vars, TypeOK
  <2>3. phase[c] # "bridging"
    BY <2>1 DEF CallsAreMade
  <2>4. \A s \in SessionId : status[s] \in Open =>
          status'[s] \in Open \/ (Holds(c) /\ s = carries[c])
    BY <2>1, <2>2 DEF Holds
  <2> QED BY Zenon, <2>1, <2>2, <2>3, <2>4, Refusals
<1>10. ASSUME NEW c \in Conn, ApiOpen(c) PROVE BrokerInv'
  <2> DEFINE s == carries[c]
  <2>1. /\ call' = [call EXCEPT ![c] = "opened"] /\ call[c] = "received"
        /\ UNCHANGED <<phase, carries, reports>>
        /\ consumed' = consumed \cup {s} /\ status' = [status EXCEPT ![s] = "active"]
        /\ request[c] = Presenting(s)
    BY Zenon, <1>10 DEF ApiOpen, Answer, RestOfBroker, consume_session_ticket
  <2>2. c \in Worker /\ s \in SessionId
    BY Zenon, <2>1, BrokerAssumption DEF CallsAreMade
  <2>3. s \notin consumed
    BY <2>1, <2>2 DEF IInv, PresentedStaysPresentable
  <2>4. BrokerTypes' /\ CallsAreMade'
    BY <2>1, <2>2 DEF BrokerTypes, CallsAreMade, Answered
  <2>5. OneHolder'
    BY Zenon, <2>1, <2>2, <2>3 DEF BrokerTypes, BrokerInv, Holds, OneHolder
  <2>6. ReportsAreFinal'
    BY Zenon, <2>1, <2>2, <2>3 DEF BrokerTypes, BrokerInv, Holds, ReportsAreFinal
  <2>7. HeldIsOpen'
    <3>1. ASSUME NEW d \in Conn, Holds(d)', phase'[d] \in {"calling", "bridging"}
          PROVE  status'[carries'[d]] \in Open
      <4>1. CASE d = c
        BY Zenon, <2>1, <2>2, <4>1 DEF TypeOK, Open
      <4>2. CASE d # c
        <5>1. Holds(d) /\ phase[d] # "off" /\ phase[d] \in {"calling", "bridging"}
          BY Zenon, <2>1, <3>1, <4>2 DEF BrokerInv, BrokerTypes, Holds
        <5>2. carries[d] # s /\ carries[d] \in SessionId /\ status[carries[d]] \in Open
          BY Zenon, <2>3, <5>1 DEF BrokerInv, CallsAreMade, OneHolder, HeldIsOpen
        <5> QED BY Zenon, <2>1, <5>2 DEF TypeOK
      <4> QED BY Zenon, <4>1, <4>2
    <3> QED BY Zenon, <3>1 DEF HeldIsOpen
  <2> QED BY <2>4, <2>5, <2>6, <2>7 DEF BrokerInv
<1>11. ASSUME NEW c \in Conn, ApiGrant(c) PROVE BrokerInv'
  <2>1. /\ call' = [call EXCEPT ![c] = "granted"] /\ call[c] = "opened"
        /\ UNCHANGED <<phase, carries, reports, consumed, status>>
    BY <1>11 DEF ApiGrant, Answer, RestOfBroker, vars
  <2>2. BrokerTypes' /\ CallsAreMade'
    BY <2>1 DEF BrokerTypes, CallsAreMade, Answered
  <2>3. \A d \in Conn : Holds(d)' <=> Holds(d)
    <3> SUFFICES ASSUME NEW d \in Conn PROVE Holds(d)' <=> Holds(d)
      BY Zenon
    <3> QED BY <2>1 DEF BrokerTypes, Holds
  <2>4. OneHolder' /\ ReportsAreFinal'
    BY Zenon, <2>1, <2>3 DEF BrokerInv, OneHolder, ReportsAreFinal
  <2>5. HeldIsOpen'
    BY Zenon, <2>1, <2>3 DEF BrokerInv, HeldIsOpen
  <2> QED BY Zenon, <2>2, <2>4, <2>5 DEF BrokerInv
<1>12. ASSUME NEW c \in Conn, NEW failed \in BOOLEAN, BridgeEnds(c, failed) \/ LaunchFails(c)
       PROVE  BrokerInv'
  <2>1. PICK f \in BOOLEAN : reports' = reports \cup {[session |-> carries[c], failed |-> f]}
    BY Zenon, <1>12 DEF BridgeEnds, LaunchFails, SendReport
  <2>2. /\ phase' = [phase EXCEPT ![c] = "reporting"] /\ phase[c] # "off" /\ call[c] = "granted"
        /\ UNCHANGED <<carries, call, status, consumed>>
    BY Zenon, <1>12 DEF BridgeEnds, LaunchFails, SendReport, Move, vars, CallsAreMade
  <2>3. Holds(c) /\ carries[c] \in SessionId
    BY <2>2 DEF Holds, CallsAreMade
  <2>4. BrokerTypes' /\ CallsAreMade'
    <3>1. [session |-> carries[c], failed |-> f] \in Report
      BY Zenon, <2>3 DEF Report
    <3>2. phase' \in [Conn -> Phase]
      BY Zenon, <2>2 DEF BrokerTypes, Phase
    <3>3. BrokerTypes'
      BY Zenon, <2>1, <2>2, <3>1, <3>2 DEF BrokerTypes
    <3>4. CallsAreMade'
      BY Zenon, <2>2 DEF BrokerTypes, CallsAreMade
    <3> QED BY <3>3, <3>4
  <2>5. OneHolder' /\ HeldIsOpen'
    BY Zenon, <2>2 DEF BrokerTypes, BrokerInv, Holds, OneHolder, HeldIsOpen
  <2>6. ReportsAreFinal'
    <3>1. \A d \in Conn : /\ Holds(d)' <=> Holds(d)
                          /\ carries'[d] = carries[d]
                          /\ phase'[d] = IF d = c THEN "reporting" ELSE phase[d]
      BY Zenon, <2>2 DEF BrokerTypes, Holds
    <3>2. ASSUME NEW r \in reports
          PROVE  /\ r.session \in consumed'
                 /\ \A d \in Conn : Holds(d)' /\ carries'[d] = r.session =>
                                     phase'[d] \in {"reporting", "over"}
      BY Zenon, <2>2, <3>1 DEF BrokerInv, ReportsAreFinal
    <3>3. /\ carries[c] \in consumed'
          /\ \A d \in Conn : Holds(d)' /\ carries'[d] = carries[c] =>
                              phase'[d] \in {"reporting", "over"}
      BY Zenon, <2>2, <2>3, <3>1 DEF BrokerInv, OneHolder
    <3>4. [session |-> carries[c], failed |-> f].session = carries[c]
      BY Zenon
    <3>5. ASSUME NEW r \in reports', r \notin reports PROVE r.session = carries[c]
      BY Zenon, <2>1, <3>4, <3>5
    <3> QED BY Zenon, <3>2, <3>3, <3>5 DEF ReportsAreFinal
  <2> QED BY <2>4, <2>5, <2>6 DEF BrokerInv
<1>13. ASSUME NEW r \in reports, gateway_close(r) PROVE BrokerInv'
  <2>1. /\ reports' = reports \ {r} /\ UNCHANGED <<phase, carries, call>>
        /\ Close(r.session, r.failed)
    BY <1>13 DEF gateway_close
  <2>2. /\ consumed' = consumed
        /\ \A s \in SessionId : s # r.session => status'[s] = status[s]
    BY Zenon, <2>1 DEF Close, close_session, vars, TypeOK
  <2>3. BrokerTypes' /\ CallsAreMade'
    BY <2>1 DEF BrokerTypes, CallsAreMade
  <2>4. OneHolder' /\ ReportsAreFinal'
    BY Zenon, <2>1, <2>2 DEF BrokerInv, Holds, OneHolder, ReportsAreFinal
  <2>5. HeldIsOpen'
    BY Zenon, <2>1, <2>2 DEF BrokerInv, CallsAreMade, Holds, ReportsAreFinal, HeldIsOpen
  <2> QED BY <2>3, <2>4, <2>5 DEF BrokerInv
<1>14. ASSUME NEW s \in SessionId, terminate_session(s) PROVE BrokerInv'
  <2>1. Kept
    BY Zenon, <1>14 DEF terminate_session, request_session_termination, Kept, TypeOK, Open
  <2> QED BY <1>14, <2>1, ServiceMoves DEF terminate_session
<1>15. ASSUME (\E s \in SessionId : _control(s)) \/ Lose PROVE BrokerInv'
  BY Zenon, <1>15, ServiceMoves DEF _control, Lose, vars, Kept
<1>16. ASSUME Restart PROVE BrokerInv'
  <2>1. /\ phase' = [c \in Conn |-> IF phase[c] = "off" \/ Rdp(carries[c]) THEN phase[c]
                                    ELSE "over"]
        /\ UNCHANGED <<carries, call, reports, status, consumed>>
    BY <1>16 DEF Restart, vars
  <2>2. \A c \in Conn : phase'[c] = phase[c] \/ (phase'[c] = "over" /\ phase[c] # "off")
    BY <2>1
  <2>3. BrokerTypes' /\ CallsAreMade'
    BY Zenon, <2>1, <2>2 DEF BrokerTypes, CallsAreMade, Phase
  <2>4. OneHolder' /\ ReportsAreFinal' /\ HeldIsOpen'
    BY Zenon, <2>1, <2>2 DEF BrokerInv, Holds, OneHolder, ReportsAreFinal, HeldIsOpen
  <2> QED BY <2>3, <2>4 DEF BrokerInv
<1>17. ASSUME UNCHANGED allVars PROVE BrokerInv'
  BY <1>17, ServiceMoves DEF allVars, vars, brokerVars, Kept
<1> QED
  BY Zenon, <1>1, <1>2, <1>3, <1>4, <1>5, <1>6, <1>7, <1>8, <1>9, <1>10, <1>11, <1>12, <1>13,
     <1>14, <1>15, <1>16, <1>17 DEF BrokerNext, Api

\* At the start there is no connection, no call and no report.
LEMMA InitBroker == BrokerInit => BrokerInv
  BY Zenon DEF BrokerInit, BrokerInv, BrokerTypes, CallsAreMade, OneHolder, ReportsAreFinal, HeldIsOpen,
     Holds, Phase, Answered

\* The brokers' invariant and the service's hold together in every reachable state.
THEOREM BrokerInvariance == BrokerSpec => [](IInv /\ BrokerInv)
<1>1. BrokerInit => IInv /\ BrokerInv
  BY InitInv, InitBroker DEF BrokerInit
<1>2. (IInv /\ BrokerInv) /\ [BrokerNext]_allVars => (IInv /\ BrokerInv)'
  BY NextInv, NextBroker, BrokerStepsAreServiceSteps DEF BrokerInv
<1> QED
  BY <1>1, <1>2, PTL DEF BrokerSpec

\* Composed with the brokers, whatever is lost, late or restarted, the session
\* service still behaves as Sessions says: api/gateway.py and the console reach
\* its tables only through services.py.
THEOREM BrokersUseTheService == BrokerSpec => SessionServiceSpec
<1>1. BrokerInit => Init
  BY DEF BrokerInit
<1>2. BrokerInv /\ [BrokerNext]_allVars => [Next]_vars
  BY BrokerStepsAreServiceSteps DEF BrokerInv
<1> QED
  BY <1>1, <1>2, BrokerInvariance, PTL DEF BrokerSpec, SessionServiceSpec, Spec

\* Every stream to a target belongs to a session the database has open, and no
\* session has two streams, for any number of connections and any faults
\* (gateway/asgi.py, rdp/asgi.py, api/gateway.py).
THEOREM StreamsBelongToSessions == BrokerSpec => []StreamsMatchSessions
<1>1. BrokerInv => StreamsMatchSessions
  BY Zenon DEF BrokerInv, CallsAreMade, OneHolder, HeldIsOpen, Holds, StreamsMatchSessions
<1> QED
  BY <1>1, BrokerInvariance, PTL

\* With the brokers in the loop too, no step opens a session beyond its quota and
\* none brings an ended session back.
THEOREM BrokersKeepTheQuota == BrokerSpec => QuotaNeverExceeded /\ NoWayBack
  BY BrokersUseTheService, QuotaRespected, EndIsFinal, PTL DEF SessionServiceSpec

\* A session that the API opened is refused only in a step of gateway_authorize
\* that has no lease for it.
LEMMA RefusalIsDenial ==
  ASSUME BrokerInv, BrokerNext, NEW c \in Conn, call[c] = "opened", call'[c] = "refused"
  PROVE  ApiDeny(c)
<1>1. call' # call
  BY Zenon
<1>2. ASSUME NEW d \in Conn, NEW a, call' = [call EXCEPT ![d] = a],
             call[d] # "opened" \/ a # "refused"
      PROVE  FALSE
  <2>1. call'[c] = IF c = d THEN a ELSE call[c]
    BY Zenon, <1>2 DEF BrokerInv, BrokerTypes
  <2> QED BY Zenon, <1>2, <2>1
<1>3. ASSUME NEW d \in Conn, SendTicket(d) \/ \E s \in SessionId : Launch(d, s) PROVE FALSE
  BY Zenon, <1>2, <1>3 DEF SendTicket, Launch
<1>4. ASSUME NEW d \in Conn,
             ApiPresent(d) \/ ApiInvalid(d) \/ ApiOpen(d) \/ ApiQuota(d) \/ ApiGrant(d) \/ ApiError(d)
      PROVE  FALSE
  <2>1. call[d] = "received" \/ call' = [call EXCEPT ![d] = "granted"] \/ call' = [call EXCEPT ![d] = "error"]
    BY Zenon, <1>4 DEF ApiPresent, ApiInvalid, ApiOpen, ApiQuota, ApiGrant, ApiError, Answer
  <2>2. \E a : call' = [call EXCEPT ![d] = a]
    BY Zenon, <1>1, <1>4 DEF ApiPresent, ApiInvalid, ApiOpen, ApiQuota, ApiGrant, ApiError, Answer
  <2>3. CASE call[d] = "received"
    BY Zenon, <1>2, <2>2, <2>3
  <2> QED BY Zenon, <1>2, <2>1, <2>3
<1>5. ASSUME NEW d \in Conn, ApiDeny(d) PROVE d = c
  <2>1. call' = [call EXCEPT ![d] = "refused"]
    BY Zenon, <1>5 DEF ApiDeny, Answer
  <2>2. call'[c] = IF c = d THEN "refused" ELSE call[c]
    BY Zenon, <2>1 DEF BrokerInv, BrokerTypes
  <2> QED BY Zenon, <2>2
<1>6. ASSUME NEW d \in Conn, NEW failed \in BOOLEAN,
             \/ GiveUp(d) \/ Authorized(d) \/ Unauthorized(d) \/ BridgeEnds(d, failed)
             \/ LaunchFails(d) \/ TunnelEnds(d) \/ ReportDone(d)
             \/ \E s \in SessionId : Accept(d, s)
      PROVE  FALSE
  BY Zenon, <1>1, <1>6 DEF GiveUp, Authorized, Unauthorized, BridgeEnds, LaunchFails, SendReport,
     TunnelEnds, ReportDone, Accept
<1>7. ASSUME \/ Portal \/ Lose \/ Restart \/ \E r \in reports : gateway_close(r)
             \/ \E s \in SessionId : terminate_session(s) \/ _control(s)
      PROVE  FALSE
  BY Zenon, <1>1, <1>7 DEF Portal, brokerVars, Lose, Restart, gateway_close, terminate_session, _control
<1> QED
  BY Zenon, <1>3, <1>4, <1>5, <1>6, <1>7 DEF BrokerNext, Api

\* While the user's grant stands, the lease of an opened session is refused only
\* if its policy asks for MFA.
LEMMA GrantsAreLeased ==
  ASSUME IInv, NEW s, group[s] \in authorized, group[s].policy \notin MfaPolicy
  PROVE  LeaseAllowed(s)
<1>1. group[s] \in Group
  BY Zenon DEF IInv, TypeOK
<1>2. group[s].policy \in Policy \ MfaPolicy
  BY Zenon, <1>1 DEF Group
<1>3. [group[s] EXCEPT !.policy = group[s].policy] = group[s]
  BY <1>1 DEF Group
<1> QED
  BY Zenon, <1>2, <1>3 DEF LeaseAllowed

\* A session that the API has opened is refused after all only when what authorized
\* its ticket no longer holds or when its policy asks for MFA, which the lease
\* without an MFA timestamp cannot show (gateway_authorize).
RefusalsHaveAReason ==
  [][\A c \in Conn : call[c] = "opened" /\ call'[c] = "refused" =>
       \/ group[carries[c]] \notin authorized
       \/ group[carries[c]].policy \in MfaPolicy]_allVars

\* Nothing else turns an opened session away, whatever quotas, terminations, faults
\* and other connections do meanwhile (gateway_authorize, issue_secret_lease).
THEOREM RefusalsAreExplained == BrokerSpec => RefusalsHaveAReason
<1>1. IInv /\ BrokerInv /\ [BrokerNext]_allVars =>
        [\A c \in Conn : call[c] = "opened" /\ call'[c] = "refused" =>
           \/ group[carries[c]] \notin authorized
           \/ group[carries[c]].policy \in MfaPolicy]_allVars
  <2> SUFFICES ASSUME IInv, BrokerInv, BrokerNext, NEW c \in Conn, call[c] = "opened",
                      call'[c] = "refused"
               PROVE  \/ group[carries[c]] \notin authorized
                      \/ group[carries[c]].policy \in MfaPolicy
    BY Zenon
  <2>1. ~LeaseAllowed(carries[c])
    BY Zenon, RefusalIsDenial DEF ApiDeny
  <2> QED
    BY Zenon, <2>1, GrantsAreLeased
<1> QED
  BY <1>1, BrokerInvariance, PTL DEF BrokerSpec, RefusalsHaveAReason

\* Where no policy asks for MFA, an authorized ticket carries its session through:
\* what docs/security.md says of tickets fails for the policies with requires_mfa
\* alone.
THEOREM TicketsCarryWithoutMfa ==
  ASSUME MfaPolicy = {}
  PROVE  BrokerSpec => TicketCarriesItsMfa
<1>1. [\A c \in Conn : call[c] = "opened" /\ call'[c] = "refused" =>
         \/ group[carries[c]] \notin authorized
         \/ group[carries[c]].policy \in MfaPolicy]_allVars
      => [\A c \in Conn : call[c] = "opened" /\ call'[c] = "refused" =>
            group[carries[c]] \notin authorized]_allVars
  BY Zenon
<1> QED
  BY <1>1, RefusalsAreExplained, PTL DEF RefusalsHaveAReason, TicketCarriesItsMfa

-----------------------------------------------------------------------------
(***************************************************************************)
(* Host keys, for any number of keys and connections.                      *)
(*                                                                         *)
(* That an open connection is vouched for is not inductive: the checks     *)
(* read the table of keys in one transaction and act on it in later ones,  *)
(* so the invariant says what a connection that has read the table may     *)
(* still rely on.                                                          *)
(***************************************************************************)

LinkSteps == {"idle", "read", "authorized", "observed", "checked", "open"}
LinkState == [step : LinkSteps, policy : HostKeyPolicy, known : SUBSET HostKey,
              key : HostKey \cup {NoKey}]

\* The tables and the connections hold what they may.
HostKeyTypes ==
  /\ hostPolicy \in HostKeyPolicy
  /\ trust \in [HostKey -> {"none", "active", "revoked"}]
  /\ link \in [Link -> LinkState]
  /\ learned \subseteq HostKey
  /\ vouched \in [Link -> SUBSET HostKey]

\* What is active, or was when the envelope was made, was so since the link's
\* authorization, and an observed key is one of the server's.
EnvelopesAreVouched ==
  \A l \in Link :
    /\ link[l].step # "idle" => link[l].known \cup TrustedKeys \subseteq vouched[l]
    /\ link[l].step \in {"observed", "checked"} => link[l].key \in HostKey

\* A key learned has a row, which stays when it is revoked.
LearnedHaveRows == \A k \in learned : trust[k] # "none"

HostKeyInv == /\ HostKeyTypes /\ EnvelopesAreVouched /\ OpensOnTrustedKeys
              /\ LearnedHaveRows /\ LearnsOneKey

-----------------------------------------------------------------------------
\* The policy is no part of what the invariant says of keys and connections.
LEMMA KeysUntouched ==
  ASSUME HostKeyInv, hostPolicy' \in HostKeyPolicy, UNCHANGED <<trust, link, learned, vouched>>
  PROVE  HostKeyInv'
<1>1. TrustedKeys' = TrustedKeys
  BY DEF TrustedKeys
<1>2. HostKeyTypes'
  BY Zenon DEF HostKeyInv, HostKeyTypes
<1>3. EnvelopesAreVouched' /\ OpensOnTrustedKeys'
  BY Zenon, <1>1 DEF HostKeyInv, EnvelopesAreVouched, OpensOnTrustedKeys
<1>4. LearnedHaveRows' /\ LearnsOneKey'
  BY Zenon, <1>1 DEF HostKeyInv, LearnedHaveRows, LearnsOneKey
<1> QED BY Zenon, <1>2, <1>3, <1>4 DEF HostKeyInv

\* A connection that ends leaves the others, and the keys, alone.
LEMMA EndIsIdle ==
  ASSUME HostKeyInv, NEW l \in Link, End(l), UNCHANGED <<hostPolicy, trust, learned>>
  PROVE  HostKeyInv'
<1>1. NoLink \in LinkState
  BY Zenon DEF NoLink, LinkState, LinkSteps, HostKeyPolicy
<1>2. HostKeyTypes'
  BY <1>1 DEF HostKeyInv, HostKeyTypes, End
<1>3. ASSUME NEW m \in Link
      PROVE  /\ m = l => link'[m].step = "idle"
             /\ m # l => link'[m] = link[m] /\ vouched'[m] = vouched[m]
  BY Zenon DEF HostKeyInv, HostKeyTypes, End, NoLink
<1>4. EnvelopesAreVouched' /\ OpensOnTrustedKeys'
  BY Zenon, <1>3 DEF HostKeyInv, HostKeyTypes, EnvelopesAreVouched, OpensOnTrustedKeys, TrustedKeys
<1>5. LearnedHaveRows' /\ LearnsOneKey'
  BY DEF HostKeyInv, LearnedHaveRows, LearnsOneKey, TrustedKeys
<1> QED BY <1>2, <1>4, <1>5 DEF HostKeyInv

\* A connection that moves to r keeps the invariant when r knows, and is open on,
\* nothing that was not vouched for.
LEMMA LinkMoves ==
  ASSUME HostKeyInv, NEW l \in Link, NEW r \in LinkState, link[l].step # "idle",
         link' = [link EXCEPT ![l] = r], UNCHANGED <<hostPolicy, trust, learned, vouched>>,
         r.known \subseteq vouched[l],
         r.step \in {"observed", "checked"} => r.key \in HostKey,
         r.step = "open" => r.key \in vouched[l]
  PROVE  HostKeyInv'
<1>1. HostKeyTypes'
  BY Zenon DEF HostKeyInv, HostKeyTypes
<1>2. ASSUME NEW m \in Link
      PROVE  link'[m] = IF m = l THEN r ELSE link[m]
  BY DEF HostKeyInv, HostKeyTypes
<1>t. TrustedKeys' = TrustedKeys
  BY Zenon DEF TrustedKeys
<1>3. EnvelopesAreVouched' /\ OpensOnTrustedKeys'
  BY Zenon, <1>t, <1>2 DEF HostKeyInv, EnvelopesAreVouched, OpensOnTrustedKeys
<1>4. LearnedHaveRows'
  BY Zenon DEF HostKeyInv, LearnedHaveRows
<1>5. LearnsOneKey'
  BY Zenon, <1>t DEF HostKeyInv, LearnsOneKey
<1> QED BY Zenon, <1>1, <1>3, <1>4, <1>5 DEF HostKeyInv

\* The first key is recorded while no other is trusted.
LEMMA RecordKeeps ==
  ASSUME HostKeyInv, NEW l \in Link, NEW k \in HostKey, link[l].step = "checked",
         link[l].key = k, TrustedKeys = {}, Record(l, k), UNCHANGED hostPolicy
  PROVE  HostKeyInv'
<1>0. PICK r \in LinkState :
        /\ link' = [link EXCEPT ![l] = r]
        /\ \/ r = NoLink
           \/ r = [link[l] EXCEPT !.step = "open"]
  <2>1. NoLink \in LinkState
    BY Zenon DEF NoLink, LinkState, LinkSteps, HostKeyPolicy
  <2>2. [link[l] EXCEPT !.step = "open"] \in LinkState
    <3>1. link[l] \in LinkState
      BY DEF HostKeyInv, HostKeyTypes
    <3> QED BY <3>1, Zenon DEF LinkState, LinkSteps
  <2> QED BY <2>1, <2>2 DEF Record, Opened
<1>t. TrustedKeys' = {k}
  BY Zenon DEF HostKeyInv, HostKeyTypes, TrustedKeys, Record, Trust
<1>1. /\ r.step = "idle" \/ (r.step = "open" /\ r.key = k /\ r.known = link[l].known)
      /\ r.step \in {"idle", "open"}
  <2>1. link[l] \in LinkState
    BY DEF HostKeyInv, HostKeyTypes
  <2> QED BY <1>0, <2>1 DEF NoLink, LinkState
<1>2. ASSUME NEW m \in Link
      PROVE  /\ link'[m] = IF m = l THEN r ELSE link[m]
             /\ link[m].step # "idle" => vouched'[m] = vouched[m] \cup {k}
  BY <1>0 DEF HostKeyInv, HostKeyTypes, Record, Trust
<1>3. HostKeyTypes'
  BY <1>0 DEF HostKeyInv, HostKeyTypes, Record, Trust
<1>4. EnvelopesAreVouched' /\ OpensOnTrustedKeys'
  <2>1. ASSUME NEW m \in Link, link'[m].step # "idle"
        PROVE  /\ link'[m].known \cup TrustedKeys' \subseteq vouched'[m]
               /\ link'[m].step \in {"observed", "checked"} => link'[m].key \in HostKey
               /\ link'[m].step = "open" => link'[m].key \in vouched'[m]
    <3>1. CASE m = l
      <4>1. /\ link'[m].step = "open" /\ link'[m].key = k /\ link'[m].known = link[l].known
            /\ vouched'[m] = vouched[l] \cup {k}
        BY Zenon, <1>1, <1>2, <2>1, <3>1
      <4>2. link[l].known \subseteq vouched[l]
        BY Zenon DEF HostKeyInv, EnvelopesAreVouched
      <4> QED BY Zenon, <1>t, <4>1, <4>2
    <3>2. CASE m # l
      BY Zenon, <1>t, <1>2, <2>1, <3>2 DEF HostKeyInv, EnvelopesAreVouched, OpensOnTrustedKeys
    <3> QED BY Zenon, <3>1, <3>2
  <2>2. \A m \in Link : link'[m].step = "open" => link'[m].step # "idle"
    BY Zenon
  <2> QED BY Zenon, <2>1, <2>2 DEF EnvelopesAreVouched, OpensOnTrustedKeys
<1>5. LearnedHaveRows' /\ LearnsOneKey'
  <2>1. \A j \in HostKey : trust'[j] = IF j = k THEN "active" ELSE trust[j]
    BY Zenon DEF HostKeyInv, HostKeyTypes, Record, Trust
  <2>2. learned' = learned \cup {k} /\ learned' \subseteq HostKey
    BY Zenon DEF HostKeyInv, HostKeyTypes, Record
  <2>3. LearnedHaveRows'
    BY Zenon, <2>1, <2>2 DEF HostKeyInv, LearnedHaveRows
  <2> QED BY Zenon, <1>t, <2>3 DEF LearnsOneKey
<1> QED BY <1>3, <1>4, <1>5 DEF HostKeyInv

-----------------------------------------------------------------------------
\* Every step keeps the invariant.
LEMMA HostKeyStep == HostKeyInv /\ [HostKeysNext]_hostKeyVars => HostKeyInv'
<1> SUFFICES ASSUME HostKeyInv, [HostKeysNext]_hostKeyVars
             PROVE  HostKeyInv'
  OBVIOUS
<1>0. \A l \in Link : link[l] \in LinkState
  BY DEF HostKeyInv, HostKeyTypes
<1>1. ASSUME NEW k \in HostKey, host_keys(k)
      PROVE  HostKeyInv'
  <2>1. HostKeyTypes'
    BY <1>1 DEF HostKeyInv, HostKeyTypes, host_keys, Trust
  <2>2. \A l \in Link : link[l].step # "idle" => vouched'[l] = vouched[l] \cup {k}
    BY <1>1 DEF host_keys, Trust
  <2>3. EnvelopesAreVouched' /\ OpensOnTrustedKeys'
    BY Zenon, <1>1, <2>2 DEF HostKeyInv, HostKeyTypes, EnvelopesAreVouched, OpensOnTrustedKeys,
       TrustedKeys, host_keys, Trust
  <2>4. k \notin learned
    BY <1>1 DEF HostKeyInv, LearnedHaveRows, host_keys
  <2>5. LearnedHaveRows' /\ LearnsOneKey'
    BY <1>1, <2>4 DEF HostKeyInv, HostKeyTypes, LearnedHaveRows, LearnsOneKey, TrustedKeys,
       host_keys, Trust
  <2> QED BY <2>1, <2>3, <2>5 DEF HostKeyInv
<1>2. ASSUME NEW k \in HostKey, revoke_host_key(k)
      PROVE  HostKeyInv'
  <2>1. HostKeyTypes'
    BY <1>2 DEF HostKeyInv, HostKeyTypes, revoke_host_key
  <2>2. EnvelopesAreVouched' /\ OpensOnTrustedKeys'
    BY Zenon, <1>2 DEF HostKeyInv, HostKeyTypes, EnvelopesAreVouched, OpensOnTrustedKeys,
       TrustedKeys, revoke_host_key
  <2>3. learned' = learned /\ \A j \in HostKey : trust'[j] = IF j = k THEN "revoked" ELSE trust[j]
    BY Zenon, <1>2 DEF HostKeyInv, HostKeyTypes, revoke_host_key
  <2>4. LearnedHaveRows'
    BY Zenon, <2>3 DEF HostKeyInv, HostKeyTypes, LearnedHaveRows
  <2>5. TrustedKeys' \subseteq TrustedKeys
    BY Zenon, <2>3 DEF TrustedKeys
  <2>6. LearnsOneKey'
    <3>1. ASSUME NEW i \in learned, NEW j \in learned, {i, j} \subseteq TrustedKeys' PROVE i = j
      <4>1. {i, j} \subseteq TrustedKeys
        BY Zenon, <2>5, <3>1
      <4> QED BY Zenon, <4>1 DEF HostKeyInv, LearnsOneKey
    <3> QED BY Zenon, <2>3, <3>1 DEF LearnsOneKey
  <2> QED BY Zenon, <2>1, <2>2, <2>4, <2>6 DEF HostKeyInv
<1>3. ASSUME NEW p \in HostKeyPolicy, SetHostKeyPolicy(p)
      PROVE  HostKeyInv'
  BY Zenon, <1>3, KeysUntouched DEF SetHostKeyPolicy
<1>4. ASSUME NEW l \in Link, ReadTarget(l)
      PROVE  HostKeyInv'
  <2> DEFINE r == [NoLink EXCEPT !.step = "read", !.policy = hostPolicy]
  <2>1. r \in LinkState /\ r.step = "read" /\ r.known = {}
    BY Zenon DEF NoLink, LinkState, LinkSteps, HostKeyPolicy, HostKeyInv, HostKeyTypes
  <2>2. HostKeyTypes'
    BY <1>4, <2>1 DEF HostKeyInv, HostKeyTypes, ReadTarget, TrustedKeys
  <2>3. ASSUME NEW m \in Link
        PROVE  /\ link'[m] = IF m = l THEN r ELSE link[m]
               /\ m # l => vouched'[m] = vouched[m]
    BY <1>4 DEF HostKeyInv, HostKeyTypes, ReadTarget
  <2> HIDE DEF r
  <2>4. EnvelopesAreVouched' /\ OpensOnTrustedKeys'
    BY <1>4, <2>1, <2>3, ZenonT(60) DEF HostKeyInv, HostKeyTypes, EnvelopesAreVouched, OpensOnTrustedKeys,
       TrustedKeys, ReadTarget
  <2>5. LearnedHaveRows' /\ LearnsOneKey'
    BY <1>4 DEF HostKeyInv, LearnedHaveRows, LearnsOneKey, TrustedKeys, ReadTarget
  <2> QED BY <2>2, <2>4, <2>5 DEF HostKeyInv
<1>5. ASSUME NEW l \in Link, gateway_authorize(l)
      PROVE  HostKeyInv'
  <2>1. CASE End(l)
    BY <1>5, <2>1, EndIsIdle DEF gateway_authorize
  <2>2. CASE ~End(l)
    <3> DEFINE r == [link[l] EXCEPT !.step = "authorized", !.known = TrustedKeys]
    <3>1. r \in LinkState /\ r.step = "authorized" /\ r.known = TrustedKeys
      BY Zenon, <1>0 DEF LinkState, LinkSteps, TrustedKeys
    <3>2. link' = [link EXCEPT ![l] = r] /\ UNCHANGED <<hostPolicy, trust, learned, vouched>>
      BY <1>5, <2>2 DEF gateway_authorize
    <3> HIDE DEF r
    <3>3. TrustedKeys \subseteq vouched[l]
      BY <1>5 DEF gateway_authorize, HostKeyInv, EnvelopesAreVouched
    <3> QED BY Zenon, <1>5, <3>1, <3>2, <3>3, LinkMoves DEF gateway_authorize
  <2> QED BY <2>1, <2>2
<1>6. ASSUME NEW l \in Link, NEW k \in HostKey, bridge_ssh(l, k)
      PROVE  HostKeyInv'
  <2>1. CASE End(l)
    BY <1>6, <2>1, EndIsIdle DEF bridge_ssh
  <2>2. CASE ~End(l)
    <3> DEFINE r == [link[l] EXCEPT !.step = IF link[l].known = {} THEN "observed" ELSE "open",
                                    !.key = k]
    <3>1. /\ r \in LinkState
          /\ r.key = k
          /\ r.known = link[l].known
          /\ r.step = IF link[l].known = {} THEN "observed" ELSE "open"
      BY Zenon, <1>0 DEF LinkState, LinkSteps
    <3>2. link' = [link EXCEPT ![l] = r] /\ UNCHANGED <<hostPolicy, trust, learned, vouched>>
      BY <1>6, <2>2 DEF bridge_ssh
    <3> HIDE DEF r
    <3>3. link[l].known \subseteq vouched[l] /\ (link[l].known # {} => k \in link[l].known)
      BY <1>6, <2>2 DEF bridge_ssh, Accepted, HostKeyInv, EnvelopesAreVouched
    <3> QED BY Zenon, <1>6, <3>1, <3>2, <3>3, LinkMoves DEF bridge_ssh
  <2> QED BY <2>1, <2>2
<1>7. ASSUME NEW l \in Link, CheckFirstUse(l)
      PROVE  HostKeyInv'
  <2>1. CASE End(l)
    BY <1>7, <2>1, EndIsIdle DEF CheckFirstUse
  <2>2. CASE ~End(l)
    <3> DEFINE r == [link[l] EXCEPT !.step = "checked"]
    <3>1. /\ r \in LinkState
          /\ r.key = link[l].key /\ r.known = link[l].known /\ r.step = "checked"
      BY <1>0 DEF LinkState, LinkSteps
    <3>2. link' = [link EXCEPT ![l] = r] /\ UNCHANGED <<hostPolicy, trust, learned, vouched>>
      BY <1>7, <2>2 DEF CheckFirstUse
    <3> HIDE DEF r
    <3>3. link[l].known \subseteq vouched[l] /\ link[l].key \in HostKey
      BY <1>7 DEF CheckFirstUse, HostKeyInv, EnvelopesAreVouched
    <3> QED BY ZenonT(60), <1>7, <3>1, <3>2, <3>3, LinkMoves DEF CheckFirstUse
  <2> QED BY <2>1, <2>2
<1>8. ASSUME NEW l \in Link, gateway_trust_host_key(l)
      PROVE  HostKeyInv'
  <2> DEFINE k == link[l].key
  <2>0. /\ link[l].step = "checked" /\ k \in HostKey
        /\ link[l].known \cup TrustedKeys \subseteq vouched[l]
    BY Zenon, <1>8 DEF gateway_trust_host_key, HostKeyInv, EnvelopesAreVouched
  <2>1. CASE trust[k] = "active" /\ link' = Opened(l) /\ UNCHANGED <<trust, learned, vouched>>
    <3> DEFINE r == [link[l] EXCEPT !.step = "open"]
    <3>1. r \in LinkState /\ r.key = k /\ r.known = link[l].known /\ r.step = "open"
      BY <1>0 DEF LinkState, LinkSteps
    <3>2. link' = [link EXCEPT ![l] = r] /\ UNCHANGED <<hostPolicy, trust, learned, vouched>>
      BY <1>8, <2>1 DEF Opened, gateway_trust_host_key
    <3>3. k \in TrustedKeys
      BY Zenon, <2>0, <2>1 DEF TrustedKeys
    <3> HIDE DEF r
    <3> QED BY Zenon, <2>0, <3>1, <3>2, <3>3, LinkMoves
  <2>2. CASE TrustedKeys = {} /\ trust[k] = "none" /\ Record(l, k)
    BY Zenon, <1>8, <2>0, <2>2, RecordKeeps DEF gateway_trust_host_key
  <2>3. CASE End(l) /\ UNCHANGED <<trust, learned>>
    BY Zenon, <1>8, <2>3, EndIsIdle DEF gateway_trust_host_key
  <2> QED BY Zenon, <1>8, <2>1, <2>2, <2>3 DEF gateway_trust_host_key
<1>9. ASSUME NEW l \in Link, Disconnect(l)
      PROVE  HostKeyInv'
  BY <1>9, EndIsIdle DEF Disconnect
<1>10. CASE UNCHANGED hostKeyVars
  BY Zenon, <1>10, KeysUntouched DEF hostKeyVars, HostKeyInv, HostKeyTypes
<1> QED BY <1>1, <1>2, <1>3, <1>4, <1>5, <1>6, <1>7, <1>8, <1>9, <1>10 DEF HostKeysNext

\* The invariant holds throughout.
LEMMA HostKeyInvariant == HostKeysSpec => []HostKeyInv
<1>1. HostKeysInit => HostKeyInv
  <2>1. NoLink \in LinkState /\ NoLink.step = "idle"
    BY Zenon DEF NoLink, LinkState, LinkSteps, HostKeyPolicy
  <2> QED BY Zenon, <2>1 DEF HostKeysInit, HostKeyInv, HostKeyTypes, EnvelopesAreVouched,
             OpensOnTrustedKeys, LearnedHaveRows, LearnsOneKey
<1> QED BY <1>1, HostKeyStep, PTL DEF HostKeysSpec

\* Nothing runs on a host whose key was not active since the authorization
\* (gateway_authorize, bridge_ssh).
THEOREM OpenLinksAreVouched == HostKeysSpec => []OpensOnTrustedKeys
<1>1. HostKeyInv => OpensOnTrustedKeys
  BY DEF HostKeyInv
<1> QED BY <1>1, HostKeyInvariant, PTL

\* First use leaves at most one key it recorded trusted (gateway_trust_host_key).
THEOREM FirstUseLearnsOne == HostKeysSpec => []LearnsOneKey
<1>1. HostKeyInv => LearnsOneKey
  BY DEF HostKeyInv
<1> QED BY <1>1, HostKeyInvariant, PTL

\* A revoked key stays revoked (TargetHostKey's unique constraint).
THEOREM RevocationIsFinal == HostKeysSpec => RevokedForGood
<1>1. HostKeyInv /\ [HostKeysNext]_hostKeyVars
        => [\A k \in HostKey : trust[k] = "revoked" => trust'[k] = "revoked"]_hostKeyVars
  <2> SUFFICES ASSUME HostKeyInv, [HostKeysNext]_hostKeyVars,
                      NEW k \in HostKey, trust[k] = "revoked"
               PROVE  trust'[k] = "revoked"
    OBVIOUS
  <2> USE DEF HostKeyInv, HostKeyTypes
  <2>1. CASE UNCHANGED trust
    BY <2>1
  <2>2. ASSUME NEW j \in HostKey, host_keys(j) \/ revoke_host_key(j)
        PROVE  trust'[k] = "revoked"
    BY <2>2 DEF host_keys, revoke_host_key, Trust
  <2>3. ASSUME NEW l \in Link, gateway_trust_host_key(l)
        PROVE  trust'[k] = "revoked"
    BY Zenon, <2>3 DEF gateway_trust_host_key, Record, Trust
  <2> QED BY Zenon, <2>1, <2>2, <2>3 DEF HostKeysNext, hostKeyVars, SetHostKeyPolicy, ReadTarget,
             gateway_authorize, CheckFirstUse, Disconnect, bridge_ssh
<1> QED BY <1>1, HostKeyInvariant, PTL DEF HostKeysSpec, RevokedForGood
=============================================================================
