--------------------------- MODULE SessionsProofs ---------------------------
(***************************************************************************)
(* Proofs about Sessions, for every set of users, targets, policies,       *)
(* workers and every finite set of sessions.                               *)
(***************************************************************************)
EXTENDS Sessions, FiniteSetTheorems, TLAPS

\* A transaction in flight is one of the three kinds, and each kind carries its
\* group or its session.
LEMMA RequestKinds ==
  /\ Idle \in Request
  /\ \A g \in Group : Starting(g) \in Request /\ Starting(g) # Idle
  /\ \A s \in SessionId : Presenting(s) \in Request /\ Presenting(s) # Idle
  /\ \A g \in Group, s \in SessionId : Starting(g) # Presenting(s)
  /\ \A s, t \in SessionId : Presenting(s) = Presenting(t) => s = t
  BY Zenon DEF Request, Idle, Starting, Presenting

\* Room for one more is room for it.
LEMMA RoomForOne ==
  \A m, n, q \in Nat : /\ m <= n + 1 /\ n < q => m <= q
                       /\ m <= n /\ n < q => m < q
  OBVIOUS

-----------------------------------------------------------------------------
(* The inductive invariant: well typed, and no lock holder finds its rows  *)
(* changed.  TypeOK alone is not inductive, because opening a session      *)
(* relies on the row the ticket's presentation locked.                     *)

IInv == TypeOK /\ PresentedStaysPresentable /\ TicketMatchesSession

\* The empty tables satisfy the inductive invariant.
LEMMA InitInv == Init => IInv
  BY RequestKinds DEF Init, IInv, TypeOK, Status, PresentedStaysPresentable,
     TicketMatchesSession, Open

\* Every transaction of services.py, and every tick of the clock, preserves it.
LEMMA NextInv == IInv /\ [Next]_vars => IInv'
<1> SUFFICES ASSUME IInv, [Next]_vars PROVE IInv'
  OBVIOUS
<1> USE SessionAssumption, RequestKinds DEF IInv
<1>1. ASSUME NEW w \in Worker, NEW g \in Group, Authorize(w, g) PROVE IInv'
  <2>1. TypeOK'
    BY <1>1 DEF TypeOK, Authorize
  <2>2. PresentedStaysPresentable'
    BY <1>1 DEF TypeOK, Authorize, PresentedStaysPresentable
  <2>3. TicketMatchesSession'
    BY <1>1 DEF Authorize, TicketMatchesSession
  <2> QED BY <2>1, <2>2, <2>3
<1>2. ASSUME NEW w \in Worker, NEW g \in Group, RefuseStart(w, g) PROVE IInv'
  <2>1. TypeOK'
    BY <1>2 DEF TypeOK, RefuseStart, Finish
  <2>2. PresentedStaysPresentable'
    BY <1>2 DEF TypeOK, RefuseStart, Finish, PresentedStaysPresentable
  <2>3. TicketMatchesSession'
    BY <1>2 DEF RefuseStart, TicketMatchesSession
  <2> QED BY <2>1, <2>2, <2>3
<1>3. ASSUME NEW w \in Worker, NEW g \in Group, NEW s \in SessionId, NEW d \in Duration,
             issue_session_ticket(w, s, g, d)
      PROVE  IInv'
  <2>1. TypeOK'
    BY <1>3 DEF TypeOK, issue_session_ticket, Create, Finish, Status
  <2>2. PresentedStaysPresentable'
    BY <1>3 DEF TypeOK, issue_session_ticket, Create, Finish, PresentedStaysPresentable
  <2>3. TicketMatchesSession'
    BY <1>3 DEF TypeOK, issue_session_ticket, Create, TicketMatchesSession, Open, Ended
  <2> QED BY <2>1, <2>2, <2>3
<1>4. ASSUME NEW w \in Worker, NEW g \in Group, NEW s \in SessionId, NEW d \in Duration,
             start_web_session(w, s, g, d)
      PROVE  IInv'
  <2>1. TypeOK'
    BY <1>4 DEF TypeOK, start_web_session, Create, Finish, Status, Open
  <2>2. PresentedStaysPresentable'
    BY <1>4 DEF TypeOK, start_web_session, Create, Finish, PresentedStaysPresentable
  <2>3. TicketMatchesSession'
    BY <1>4 DEF TypeOK, start_web_session, Create, TicketMatchesSession, Open, Ended
  <2> QED BY <2>1, <2>2, <2>3
<1>5. ASSUME NEW w \in Worker, NEW s \in SessionId, PresentTicket(w, s) PROVE IInv'
  <2>1. TypeOK'
    BY <1>5 DEF TypeOK, PresentTicket
  <2>2. PresentedStaysPresentable'
    BY <1>5 DEF TypeOK, PresentTicket, Presentable, RowLocked, PresentedStaysPresentable
  <2>3. TicketMatchesSession'
    BY <1>5 DEF PresentTicket, TicketMatchesSession
  <2> QED BY <2>1, <2>2, <2>3
<1>6. ASSUME NEW w \in Worker, NEW s \in SessionId, consume_session_ticket(w, s)
      PROVE  IInv'
  <2>1. status[s] = "created" /\ s \notin revoked
    BY <1>6 DEF consume_session_ticket, PresentedStaysPresentable
  <2>2. TypeOK'
    BY <1>6, <2>1 DEF TypeOK, consume_session_ticket, Finish, Status, Open
  <2>3. PresentedStaysPresentable'
    BY <1>6 DEF TypeOK, consume_session_ticket, Finish, PresentedStaysPresentable
  <2>4. TicketMatchesSession'
    BY <1>6, <2>1 DEF TypeOK, consume_session_ticket, TicketMatchesSession, Open, Ended
  <2> QED BY <2>2, <2>3, <2>4
<1>7. ASSUME NEW w \in Worker, NEW s \in SessionId, RefuseTicket(w, s) PROVE IInv'
  <2>1. TypeOK'
    BY <1>7 DEF TypeOK, RefuseTicket, Finish
  <2>2. PresentedStaysPresentable'
    BY <1>7 DEF TypeOK, RefuseTicket, Finish, PresentedStaysPresentable
  <2>3. TicketMatchesSession'
    BY <1>7 DEF RefuseTicket, TicketMatchesSession
  <2> QED BY <2>1, <2>2, <2>3
<1>8. ASSUME NEW s \in SessionId, NEW failed \in BOOLEAN, close_session(s, failed)
      PROVE  IInv'
  <2>1. TypeOK'
    BY <1>8 DEF TypeOK, close_session, Endable, Status, Ended
  <2>2. PresentedStaysPresentable'
    BY <1>8 DEF TypeOK, close_session, Endable, RowLocked, PresentedStaysPresentable
  <2>3. TicketMatchesSession'
    BY <1>8 DEF TypeOK, close_session, Endable, TicketMatchesSession, Open, Ended
  <2> QED BY <2>1, <2>2, <2>3
<1>9. ASSUME NEW s \in SessionId, request_session_termination(s) PROVE IInv'
  <2>1. TypeOK'
    BY <1>9 DEF TypeOK, request_session_termination, Endable, Status, Open, Ended
  <2>2. PresentedStaysPresentable'
    BY <1>9 DEF TypeOK, request_session_termination, Endable, RowLocked,
       PresentedStaysPresentable
  <2>3. TicketMatchesSession'
    BY <1>9 DEF TypeOK, request_session_termination, Endable, Status,
       TicketMatchesSession, Open, Ended
  <2> QED BY <2>1, <2>2, <2>3
<1>10. ASSUME NEW w \in Worker, Rollback(w) PROVE IInv'
  <2>1. TypeOK'
    BY <1>10 DEF TypeOK, Rollback, Finish
  <2>2. PresentedStaysPresentable'
    BY <1>10 DEF TypeOK, Rollback, Finish, PresentedStaysPresentable
  <2>3. TicketMatchesSession'
    BY <1>10 DEF Rollback, TicketMatchesSession
  <2> QED BY <2>1, <2>2, <2>3
<1>11. ASSUME NEW p \in Policy, NEW n \in Quota, SetQuota(p, n) PROVE IInv'
  BY <1>11 DEF TypeOK, SetQuota, PresentedStaysPresentable, TicketMatchesSession
<1>12. ASSUME NEW g \in Group, ChangeAuthorization(g) PROVE IInv'
  BY <1>12 DEF TypeOK, ChangeAuthorization, PresentedStaysPresentable, TicketMatchesSession
<1>13. ASSUME Tick PROVE IInv'
  BY <1>13 DEF TypeOK, Tick, Less, PresentedStaysPresentable, TicketMatchesSession
<1>14. ASSUME UNCHANGED vars PROVE IInv'
  BY <1>14 DEF TypeOK, vars, PresentedStaysPresentable, TicketMatchesSession
<1> QED
  BY <1>1, <1>2, <1>3, <1>4, <1>5, <1>6, <1>7, <1>8, <1>9, <1>10, <1>11, <1>12,
     <1>13, <1>14 DEF Next

\* The conjunction of the three holds in every reachable state.
THEOREM Invariance == Spec => []IInv
  BY InitInv, NextInv, PTL DEF Spec

\* Every state of the session service is well typed (the transactions of
\* pamolive/sessions/services.py).
THEOREM Typing == Spec => []TypeOK
  BY Invariance, PTL DEF IInv

\* No transaction ends, opens, revokes or presents a session while another one
\* holds the row locks of its ticket (consume_session_ticket).
THEOREM LocksProtectTickets == Spec => []PresentedStaysPresentable
  BY Invariance, PTL DEF IInv

\* Session and ticket tables always agree (issue_session_ticket,
\* consume_session_ticket, request_session_termination).
THEOREM TicketsMatch == Spec => []TicketMatchesSession
  BY Invariance, PTL DEF IInv

-----------------------------------------------------------------------------
(* What a step may never do.                                               *)

\* The sets the quota counts are finite, and the open sessions are among them.
LEMMA CountedFinite ==
  ASSUME NEW g
  PROVE  /\ IsFiniteSet(OpenIn(g)) /\ IsFiniteSet(Counted(g))
         /\ Cardinality(OpenIn(g)) \in Nat /\ Cardinality(Counted(g)) \in Nat
         /\ Cardinality(OpenIn(g)) <= Cardinality(Counted(g))
<1>1. OpenIn(g) \subseteq Counted(g) /\ Counted(g) \subseteq SessionId
  BY DEF OpenIn, Counted
<1> QED
  BY <1>1, FS_Subset, FS_CardinalityType, SessionAssumption

\* One more member makes a finite set larger by at most one.
LEMMA OneMore ==
  ASSUME NEW S, IsFiniteSet(S), NEW T, NEW x, T \subseteq S \cup {x}
  PROVE  IsFiniteSet(T) /\ Cardinality(T) <= Cardinality(S) + 1
<1>1. Cardinality(S) \in Nat
  BY FS_CardinalityType
<1>2. IsFiniteSet(S \cup {x}) /\ Cardinality(S \cup {x}) <= Cardinality(S) + 1
  <2>1. /\ IsFiniteSet(S \cup {x})
        /\ Cardinality(S \cup {x}) = IF x \in S THEN Cardinality(S) ELSE Cardinality(S) + 1
    BY FS_AddElement
  <2> QED BY <1>1, <2>1
<1>3. IsFiniteSet(T) /\ Cardinality(T) <= Cardinality(S \cup {x})
  BY <1>2, FS_Subset
<1>4. Cardinality(T) \in Nat /\ Cardinality(S \cup {x}) \in Nat
  BY <1>2, <1>3, FS_CardinalityType
<1> QED
  BY <1>1, <1>2, <1>3, <1>4

\* A step that turns no session of SessionId open satisfies the quota property.
LEMMA NothingOpens ==
  ASSUME \A s \in SessionId : status[s] \notin Open => status'[s] \notin Open
  PROVE  \A s \in SessionId : status[s] \notin Open => WithinQuota(s)'
  BY DEF WithinQuota, Open

\* No step of services.py opens a session beyond max_concurrent_sessions.
THEOREM QuotaRespected == Spec => QuotaNeverExceeded
<1> DEFINE Within == \A s \in SessionId : status[s] \notin Open => WithinQuota(s)'
<1>1. IInv /\ [Next]_vars => [Within]_vars
  <2> SUFFICES ASSUME IInv, Next PROVE Within
    OBVIOUS
  <2> USE SessionAssumption DEF IInv
  <2>1. ASSUME NEW w \in Worker, NEW g \in Group, NEW s \in SessionId, NEW d \in Duration,
               start_web_session(w, s, g, d)
        PROVE  Within
    <3>1. /\ status' = [status EXCEPT ![s] = "active"] /\ group' = [group EXCEPT ![s] = g]
          /\ quota' = quota /\ status[s] = "none"
      BY <2>1 DEF start_web_session, Create
    <3>2. OpenIn(g)' \subseteq OpenIn(g) \cup {s}
      BY <3>1 DEF TypeOK, OpenIn
    <3>3. Cardinality(OpenIn(g)') <= Cardinality(OpenIn(g)) + 1
      BY Zenon, <3>2, OneMore, CountedFinite
    <3>4. Cardinality(Counted(g)) < quota[g.policy]
      BY Zenon, <2>1 DEF start_web_session, HasRoom
    <3>5. Cardinality(OpenIn(g)') <= quota'[g.policy]
      <4>1. quota[g.policy] \in Nat
        BY Zenon DEF TypeOK, Group
      <4>2. Cardinality(OpenIn(g)') \in Nat
        BY Zenon, <3>2, OneMore, CountedFinite, FS_CardinalityType
      <4>3. /\ Cardinality(OpenIn(g)) \in Nat /\ Cardinality(Counted(g)) \in Nat
            /\ Cardinality(OpenIn(g)) <= Cardinality(Counted(g))
        BY CountedFinite
      <4> QED BY <4>1, <4>2, <4>3, <3>1, <3>3, <3>4
    <3>6. WithinQuota(s)'
      BY <3>1, <3>5 DEF WithinQuota, TypeOK
    <3>7. ASSUME NEW t \in SessionId, t # s, status[t] \notin Open PROVE WithinQuota(t)'
      BY <3>1, <3>7 DEF WithinQuota, TypeOK
    <3> QED BY <3>6, <3>7
  <2>2. ASSUME NEW w \in Worker, NEW s \in SessionId, consume_session_ticket(w, s)
        PROVE  Within
    <3> DEFINE g == group[s]
    <3>1. /\ status' = [status EXCEPT ![s] = "active"] /\ group' = group
          /\ quota' = quota /\ status[s] = "created"
      BY <2>2 DEF consume_session_ticket, PresentedStaysPresentable
    <3>2. OpenIn(g)' \subseteq OthersOpen(s) \cup {s}
      BY <3>1 DEF TypeOK, OpenIn, OthersOpen
    <3>3. IsFiniteSet(OthersOpen(s)) /\ Cardinality(OthersOpen(s)) \in Nat
      <4>1. OthersOpen(s) \subseteq SessionId
        BY DEF OthersOpen, OpenIn
      <4> QED BY <4>1, FS_Subset, FS_CardinalityType
    <3>4. IsFiniteSet(OpenIn(g)') /\ Cardinality(OpenIn(g)') <= Cardinality(OthersOpen(s)) + 1
      BY Zenon, <3>2, <3>3, OneMore
    <3>5. Cardinality(OthersOpen(s)) < quota[g.policy]
      BY Zenon, <2>2 DEF consume_session_ticket
    <3>6. quota[g.policy] \in Nat
      BY Zenon, <3>1 DEF TypeOK, Group
    <3>7. Cardinality(OpenIn(g)') <= quota'[g.policy]
      <4>1. Cardinality(OpenIn(g)') \in Nat
        BY Zenon, <3>4, FS_CardinalityType
      <4> QED BY Zenon, <3>1, <3>3, <3>4, <3>5, <3>6, <4>1, RoomForOne
    <3>8. WithinQuota(s)'
      BY <3>1, <3>7 DEF WithinQuota
    <3>9. ASSUME NEW t \in SessionId, t # s, status[t] \notin Open PROVE WithinQuota(t)'
      BY <3>1, <3>9 DEF WithinQuota, TypeOK
    <3> QED BY <3>8, <3>9
  <2>3. ASSUME NEW w \in Worker, NEW g \in Group, NEW s \in SessionId, NEW d \in Duration,
               issue_session_ticket(w, s, g, d)
        PROVE  Within
    BY <2>3, NothingOpens DEF issue_session_ticket, Create, TypeOK, Open
  <2>4. ASSUME NEW s \in SessionId, NEW failed \in BOOLEAN, close_session(s, failed)
        PROVE  Within
    BY <2>4, NothingOpens DEF close_session, TypeOK, Open
  <2>5. ASSUME NEW s \in SessionId, request_session_termination(s) PROVE Within
    BY <2>5, NothingOpens
       DEF request_session_termination, Endable, TypeOK, Status, Open, Ended
  <2>6. ASSUME UNCHANGED status PROVE Within
    BY <2>6, NothingOpens
  <2> QED
    BY Zenon, <2>1, <2>2, <2>3, <2>4, <2>5, <2>6
       DEF Next, Authorize, RefuseStart, PresentTicket, RefuseTicket, Rollback,
           SetQuota, ChangeAuthorization, Tick
<1> QED
  BY <1>1, Invariance, PTL DEF Spec, QuotaNeverExceeded

\* No step brings an ended session back or unmarks one marked for termination.
THEOREM EndIsFinal == Spec => NoWayBack
<1> DEFINE Forward == \A s \in SessionId :
             /\ status[s] \in Ended => status'[s] = status[s]
             /\ status[s] = "terminating" => status'[s] \in {"terminating"} \cup Ended
<1>1. IInv /\ [Next]_vars => [Forward]_vars
  <2> SUFFICES ASSUME IInv, Next PROVE Forward
    OBVIOUS
  <2> USE DEF IInv, TypeOK, Ended
  <2>1. ASSUME NEW w \in Worker, NEW g \in Group, NEW s \in SessionId, NEW d \in Duration,
               \/ issue_session_ticket(w, s, g, d)
               \/ start_web_session(w, s, g, d)
        PROVE  Forward
    BY <2>1 DEF issue_session_ticket, start_web_session, Create
  <2>2. ASSUME NEW w \in Worker, NEW s \in SessionId, consume_session_ticket(w, s)
        PROVE  Forward
    BY <2>2 DEF consume_session_ticket, PresentedStaysPresentable
  <2>3. ASSUME NEW s \in SessionId, NEW failed \in BOOLEAN, close_session(s, failed)
        PROVE  Forward
    BY <2>3 DEF close_session, Endable
  <2>4. ASSUME NEW s \in SessionId, request_session_termination(s) PROVE Forward
    BY <2>4 DEF request_session_termination, Endable
  <2>5. ASSUME UNCHANGED status PROVE Forward
    BY <2>5
  <2> QED
    BY Zenon, <2>1, <2>2, <2>3, <2>4, <2>5
       DEF Next, Authorize, RefuseStart, PresentTicket, RefuseTicket, Rollback,
           SetQuota, ChangeAuthorization, Tick
<1> QED
  BY <1>1, Invariance, PTL DEF Spec, NoWayBack

-----------------------------------------------------------------------------
(* Sessions implements SessionContract.                                    *)

\* A status and its stage.
LEMMA Stages ==
  /\ StageOf("none") = "none" /\ StageOf("created") = "pending"
  /\ StageOf("active") = "open" /\ StageOf("terminating") = "open"
  /\ StageOf("closed") = "ended" /\ StageOf("failed") = "ended"
  /\ \A st \in Status : StageOf(st) = "open" <=> st \in Open
  BY DEF StageOf, Open, Ended, Status

\* Changing the status of one session changes its stage alone.
LEMMA StageStep ==
  ASSUME TypeOK, NEW s \in SessionId, NEW st, status' = [status EXCEPT ![s] = st]
  PROVE  stage' = [stage EXCEPT ![s] = StageOf(st)]
  BY Zenon DEF stage, TypeOK

\* The sessions the contract counts at a place are the open ones of the group.
LEMMA OpenAtIsOpenIn ==
  ASSUME TypeOK, NEW g
  PROVE  Contract!OpenAt(g) = OpenIn(g)
  BY Stages DEF Contract!OpenAt, OpenIn, stage, TypeOK

\* Both modules count with the same operator.
LEMMA SameCardinality == ASSUME NEW S PROVE Contract!Cardinality(S) = Cardinality(S)
  BY DEF Contract!Cardinality, Cardinality, Contract!IsFiniteSet, IsFiniteSet

\* The capacities the contract sees are natural numbers, one for each group.
LEMMA CapacityIsQuota ==
  ASSUME TypeOK PROVE capacity \in [Group -> Nat]
  BY Zenon, SessionAssumption DEF capacity, TypeOK, Group

\* Every behaviour of the session service is one of SessionContract: the
\* transactions of services.py admit within capacity, once, and end for good.
THEOREM ContractKept == Spec => KeepsContract
<1>1. Init => Contract!Init
  <2> SUFFICES ASSUME Init PROVE Contract!Init
    OBVIOUS
  <2>1. TypeOK
    BY InitInv DEF IInv
  <2>2. stage = [s \in SessionId |-> "none"]
    BY Stages DEF Init, stage
  <2> QED
    BY <2>1, <2>2, CapacityIsQuota DEF Init, Contract!Init
<1>2. IInv /\ IInv' /\ [Next]_vars => [Contract!Next]_(Contract!contractVars)
  <2> SUFFICES ASSUME IInv, IInv', [Next]_vars
               PROVE  [Contract!Next]_(Contract!contractVars)
    OBVIOUS
  <2> USE SessionAssumption DEF IInv
  <2> DEFINE Seen == [Contract!Next]_(Contract!contractVars)
  <2>1. ASSUME UNCHANGED <<status, group, quota>> PROVE Seen
    BY <2>1 DEF Contract!contractVars, stage, capacity
  <2>2. ASSUME NEW w \in Worker, NEW g \in Group, NEW s \in SessionId, NEW d \in Duration,
               issue_session_ticket(w, s, g, d)
        PROVE  Seen
    <3>1. /\ status' = [status EXCEPT ![s] = "created"] /\ group' = [group EXCEPT ![s] = g]
          /\ quota' = quota /\ status[s] = "none"
      BY <2>2 DEF issue_session_ticket, Create
    <3>2. stage' = [stage EXCEPT ![s] = "pending"] /\ stage[s] = "none"
      <4>1. stage' = [stage EXCEPT ![s] = StageOf("created")]
        BY Zenon, <3>1, StageStep
      <4>2. stage[s] = StageOf("none")
        BY <3>1 DEF stage
      <4> QED BY Zenon, <4>1, <4>2, Stages
    <3>3. Contract!Prepare(s, g)
      BY Zenon, <3>1, <3>2 DEF Contract!Prepare, capacity
    <3> QED BY <3>3 DEF Contract!Next
  <2>3. ASSUME NEW w \in Worker, NEW g \in Group, NEW s \in SessionId, NEW d \in Duration,
               start_web_session(w, s, g, d)
        PROVE  Seen
    <3>1. /\ status' = [status EXCEPT ![s] = "active"] /\ group' = [group EXCEPT ![s] = g]
          /\ quota' = quota /\ status[s] = "none"
      BY <2>3 DEF start_web_session, Create
    <3>2. stage' = [stage EXCEPT ![s] = "open"] /\ stage[s] = "none"
      <4>1. stage' = [stage EXCEPT ![s] = StageOf("active")]
        BY Zenon, <3>1, StageStep
      <4>2. stage[s] = StageOf("none")
        BY <3>1 DEF stage
      <4> QED BY Zenon, <4>1, <4>2, Stages
    <3>3. Cardinality(Contract!OpenAt(g)) < capacity[g]
      <4>1. Cardinality(Counted(g)) < quota[g.policy]
        BY <2>3 DEF start_web_session, HasRoom
      <4>2. capacity[g] = quota[g.policy] /\ capacity[g] \in Nat
        BY CapacityIsQuota DEF capacity
      <4> QED BY Zenon, <4>1, <4>2, CountedFinite, OpenAtIsOpenIn, RoomForOne
    <3>4. capacity' = capacity
      BY <3>1 DEF capacity
    <3>5. Contract!Admit(s, g)
      BY <3>1, <3>2, <3>3, <3>4, SameCardinality DEF Contract!Admit
    <3> QED BY <3>5 DEF Contract!Next
  <2>4. ASSUME NEW w \in Worker, NEW s \in SessionId, consume_session_ticket(w, s)
        PROVE  Seen
    <3> DEFINE g == group[s]
    <3>1. /\ status' = [status EXCEPT ![s] = "active"] /\ group' = group
          /\ quota' = quota /\ status[s] = "created" /\ g \in Group
      BY Zenon, <2>4 DEF consume_session_ticket, PresentedStaysPresentable, TypeOK
    <3>2. stage' = [stage EXCEPT ![s] = "open"] /\ stage[s] = "pending"
      <4>1. stage' = [stage EXCEPT ![s] = StageOf("active")]
        BY Zenon, <3>1, StageStep
      <4>2. stage[s] = StageOf("created")
        BY <3>1 DEF stage
      <4> QED BY Zenon, <4>1, <4>2, Stages
    <3>3. Cardinality(Contract!OpenAt(g)) < capacity[g]
      <4>1. OthersOpen(s) = Contract!OpenAt(g)
        BY <3>1, OpenAtIsOpenIn DEF OthersOpen, OpenIn, Open
      <4>2. Cardinality(OthersOpen(s)) < quota[g.policy]
        BY Zenon, <2>4 DEF consume_session_ticket
      <4> QED BY <3>1, <4>1, <4>2 DEF capacity
    <3>4. group' = [group EXCEPT ![s] = g]
      BY Zenon, <3>1 DEF TypeOK
    <3>5. capacity' = capacity
      BY Zenon, <3>1 DEF capacity
    <3>6. Contract!Admit(s, g)
      BY <3>2, <3>3, <3>4, <3>5, SameCardinality DEF Contract!Admit
    <3> QED BY <3>1, <3>6 DEF Contract!Next
  <2>5. ASSUME NEW s \in SessionId, status[s] \in {"created"} \cup Open,
               NEW st \in Ended, status' = [status EXCEPT ![s] = st],
               UNCHANGED <<group, quota>>
        PROVE  Seen
    <3>1. StageOf(st) = "ended"
      BY <2>5, Stages DEF Ended
    <3>2. stage' = [stage EXCEPT ![s] = "ended"]
      BY Zenon, <2>5, <3>1, StageStep
    <3>3. stage[s] \in {"pending", "open"}
      BY <2>5, Stages DEF stage, Open
    <3>4. Contract!End(s)
      BY <2>5, <3>2, <3>3 DEF Contract!End, capacity
    <3> QED BY <3>4 DEF Contract!Next
  <2>6. ASSUME NEW s \in SessionId, NEW failed \in BOOLEAN, close_session(s, failed)
        PROVE  Seen
    <3>1. PICK st \in Ended : status' = [status EXCEPT ![s] = st]
      BY Zenon, <2>6 DEF close_session, Ended
    <3> QED
      BY Zenon, <2>5, <2>6, <3>1 DEF close_session, Endable, TypeOK, Status
  <2>7. ASSUME NEW s \in SessionId, request_session_termination(s) PROVE Seen
    <3>1. CASE status[s] = "created"
      BY <2>5, <2>7, <3>1 DEF request_session_termination, Ended
    <3>2. CASE status[s] # "created"
      <4>1. /\ status' = [status EXCEPT ![s] = "terminating"] /\ UNCHANGED <<group, quota>>
            /\ status[s] \in Open
        BY Zenon, <2>7, <3>2 DEF request_session_termination, Endable, TypeOK, Status
      <4>2. stage' = stage
        BY <4>1, StageStep, Stages DEF stage, Open
      <4> QED BY <4>1, <4>2 DEF Contract!contractVars, capacity
    <3> QED BY <3>1, <3>2
  <2>8. ASSUME NEW p \in Policy, NEW n \in Quota, SetQuota(p, n) PROVE Seen
    <3>1. capacity' \in [Group -> Nat]
      BY Zenon, CapacityIsQuota, <2>8 DEF SetQuota, capacity, TypeOK, Group
    <3>2. Contract!Resize
      BY SMTT(30), <2>8, <3>1 DEF SetQuota, Contract!Resize, stage
    <3> QED BY <3>2 DEF Contract!Next
  <2> HIDE DEF Seen
  <2>9. Seen
    BY Zenon, <2>1, <2>2, <2>3, <2>4, <2>6, <2>7, <2>8
       DEF Next, vars, Authorize, RefuseStart, PresentTicket, RefuseTicket, Rollback,
           ChangeAuthorization, Tick
  <2> QED BY <2>9 DEF Seen
<1> QED
  BY <1>1, <1>2, Invariance, PTL DEF Spec, KeepsContract, Contract!Spec
=============================================================================
