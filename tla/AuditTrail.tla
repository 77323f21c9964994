----------------------------- MODULE AuditTrail -----------------------------
(***************************************************************************)
(* What leaves the audit log: the export, which verifies the chain first,  *)
(* and the SIEM collectors that forward_audit_event sends each event to    *)
(* (pamolive/audit/siem.py and tasks.py, audit_export of the console).     *)
(*                                                                         *)
(* A task is queued when the transaction that recorded its event commits.  *)
(* It goes through the integrations enabled when it starts, in the order   *)
(* of their names; a failure ends the round, and after a network error     *)
(* celery starts another, from the first integration on.  Sending, and     *)
(* recording the outcome in SIEMDelivery, are two steps.                   *)
(***************************************************************************)
EXTENDS AuditChain

CONSTANTS
  Integration,  \* the SIEMIntegration rows
  NameOrder,    \* the place of each in the order of their names
  MaxRetries    \* max_retries of the task

ASSUME TrailAssumption ==
  /\ Verifier \subseteq Writer
  /\ NameOrder \in [Integration -> Nat]
  /\ \A i, j \in Integration : NameOrder[i] = NameOrder[j] => i = j

VARIABLES
  enabled,   \* the integrations that are enabled
  armed,     \* the events an open transaction will queue a task for
  task,      \* the task of each event
  ledger,    \* the status of each SIEMDelivery, "none" without a row
  received,  \* the events that each collector has taken in
  moved,     \* the verifications during which an event was committed (history)
  export,    \* the export that follows each verification
  spoilt     \* whether a row was damaged since each verification began (history)

trailVars == <<enabled, armed, task, ledger, received, moved, export, spoilt>>
auditVars == <<chainVars, trailVars>>

\* The integrations of a task's round, and those it has not come to yet.
NoTask == [state |-> "none", round |-> {}, left |-> {}, tries |-> 0]

\* The rows an export has read and the event it has recorded of itself.
NoExport == [state |-> "none", rows |-> {}, receipt |-> NoEvent]

TrailInit ==
  /\ Init
  /\ enabled \in SUBSET Integration
  /\ armed = [w \in Writer |-> {}]
  /\ task = [e \in Event |-> NoTask]
  /\ ledger = [i \in Integration |-> [e \in Event |-> "none"]]
  /\ received = [i \in Integration |-> {}]
  /\ moved = {}
  /\ export = [v \in Verifier |-> NoExport]
  /\ spoilt = [v \in Verifier |-> FALSE]

-----------------------------------------------------------------------------
(* The writers' transactions, with the tasks they queue.                   *)

\* A request that verifies or exports does nothing else meanwhile.
Busy(w) == w \in Verifier /\ (verdict[w] = "reading" \/ export[w].state \in {"read", "recording"})

\* Mutant of RecordAndArm: the task is queued at once, not on commit.
RecordAndQueue(w, e) ==
  /\ ~Busy(w)
  /\ record_event(w, e)
  /\ task' = [task EXCEPT ![e].state = IF enabled = {} THEN "none" ELSE "queued"]
  /\ UNCHANGED <<enabled, armed, ledger, received, moved, export, spoilt>>

RecordAndArm(w, e) ==
  /\ ~Busy(w)
  /\ record_event(w, e)
  /\ armed' = [armed EXCEPT ![w] = @ \cup {x \in {e} : enabled # {}}]
  /\ UNCHANGED <<enabled, task, ledger, received, moved, export, spoilt>>

CommitAndQueue(w) ==
  /\ Commit(w)
  /\ task' = [e \in Event |-> IF e \in armed[w] THEN [NoTask EXCEPT !.state = "queued"]
                              ELSE task[e]]
  /\ armed' = [armed EXCEPT ![w] = {}]
  /\ export' = [v \in Verifier |->
                  IF v = w /\ export[v].state = "recording"
                  THEN [export[v] EXCEPT !.state = "sent"] ELSE export[v]]
  /\ moved' = moved \cup {v \in Verifier : verdict[v] = "reading"}
  /\ UNCHANGED <<enabled, ledger, received, spoilt>>

\* An export that cannot record itself is an error and not sent.
RollbackAndForget(w) ==
  /\ Rollback(w)
  /\ armed' = [armed EXCEPT ![w] = {}]
  /\ export' = [v \in Verifier |-> IF v = w /\ export[v].state = "recording"
                                  THEN NoExport ELSE export[v]]
  /\ UNCHANGED <<enabled, task, ledger, received, moved, spoilt>>

-----------------------------------------------------------------------------
(* The export.                                                             *)

StartVerification(v) ==
  /\ ReadEvents(v)
  /\ draft[v] = {} /\ ~Busy(v)
  /\ moved' = moved \ {v}
  /\ export' = [export EXCEPT ![v] = NoExport]
  /\ spoilt' = [spoilt EXCEPT ![v] = FALSE]
  /\ UNCHANGED <<enabled, armed, task, ledger, received>>

EndVerification(v) ==
  /\ ReadHead(v)
  /\ UNCHANGED trailVars

\* The events are read once more for the export.
ReadExport(v) ==
  /\ export[v].state = "none" /\ draft[v] = {}
  /\ export' = [export EXCEPT ![v].state = "read", ![v].rows = rows]
  /\ UNCHANGED <<chainVars, enabled, armed, task, ledger, received, moved, spoilt>>

\* Mutant of audit_export: the export does not wait for the verification.
ExportUnverified(v) == verdict[v] # "reading" /\ ReadExport(v)

audit_export(v) == verdict[v] = "valid" /\ ReadExport(v)

\* The export records itself, and is sent once that is committed.
RecordExport(v, e) ==
  /\ export[v].state = "read"
  /\ record_event(v, e)
  /\ armed' = [armed EXCEPT ![v] = @ \cup {x \in {e} : enabled # {}}]
  /\ export' = [export EXCEPT ![v].state = "recording", ![v].receipt = e]
  /\ UNCHANGED <<enabled, task, ledger, received, moved, spoilt>>

\* record_event raises: the database or the signing key is out of reach.
ExportFails(v) ==
  /\ export[v].state = "read"
  /\ export' = [export EXCEPT ![v] = NoExport]
  /\ UNCHANGED <<chainVars, enabled, armed, task, ledger, received, moved, spoilt>>

DamageRow(r) ==
  /\ Damage(r)
  /\ spoilt' = [v \in Verifier |-> TRUE]
  /\ UNCHANGED <<enabled, armed, task, ledger, received, moved, export>>

-----------------------------------------------------------------------------
(* The tasks.                                                              *)

siem_integrations(i) ==
  /\ enabled' = IF i \in enabled THEN enabled \ {i} ELSE enabled \cup {i}
  /\ UNCHANGED <<chainVars, armed, task, ledger, received, moved, export, spoilt>>

\* The integration whose turn it is.
Current(e) == CHOOSE i \in task[e].left : \A j \in task[e].left : NameOrder[i] <= NameOrder[j]

Recorded(e) == \E r \in rows : r.event = e

\* The task reads its event, which it fails without, and the integrations.
forward_audit_event(e) ==
  /\ task[e].state = "queued"
  /\ task' = [task EXCEPT ![e].state = IF Recorded(e) THEN "running" ELSE "failed",
                          ![e].round = enabled, ![e].left = enabled]
  /\ UNCHANGED <<chainVars, enabled, armed, ledger, received, moved, export, spoilt>>

\* The payload reaches the collector, or the connection fails, perhaps after it
\* did, or something fails before it: the address, the token, the certificate.
_send(e, outcome, arrives) ==
  /\ task[e].state = "running" /\ task[e].left # {}
  /\ outcome = "sent" => arrives
  /\ outcome = "refused" => ~arrives
  /\ task' = [task EXCEPT ![e].state = outcome]
  /\ received' = [received EXCEPT ![Current(e)] = IF arrives THEN @ \cup {e} ELSE @]
  /\ UNCHANGED <<chainVars, enabled, armed, ledger, moved, export, spoilt>>

\* deliver_event records a delivery, and the loop goes on.
Deliver(e) ==
  /\ task[e].state = "sent"
  /\ ledger' = [ledger EXCEPT ![Current(e)][e] = "delivered"]
  /\ task' = [task EXCEPT ![e].state = "running", ![e].left = @ \ {Current(e)}]
  /\ UNCHANGED <<chainVars, enabled, armed, received, moved, export, spoilt>>

\* Mutant of Fail: the failure of one integration does not stop the others.
FailAndGoOn(e) ==
  /\ task[e].state \in {"unsure", "refused"}
  /\ ledger' = [ledger EXCEPT ![Current(e)][e] = "failed"]
  /\ task' = [task EXCEPT ![e].state = "running", ![e].left = @ \ {Current(e)}]
  /\ UNCHANGED <<chainVars, enabled, armed, received, moved, export, spoilt>>

\* Mutant of Fail: a network error is tried again without end.
FailForEver(e) ==
  /\ task[e].state \in {"unsure", "refused"}
  /\ ledger' = [ledger EXCEPT ![Current(e)][e] = "failed"]
  /\ task' = [task EXCEPT ![e].state = IF @ = "unsure" THEN "queued" ELSE "failed"]
  /\ UNCHANGED <<chainVars, enabled, armed, received, moved, export, spoilt>>

\* It records a failure, also over an earlier delivery, and raises it: a network
\* error is tried again from the start, up to MaxRetries times.
Fail(e) ==
  /\ task[e].state \in {"unsure", "refused"}
  /\ ledger' = [ledger EXCEPT ![Current(e)][e] = "failed"]
  /\ task' = [task EXCEPT ![e] =
       IF task[e].state = "unsure" /\ task[e].tries < MaxRetries
       THEN [@ EXCEPT !.state = "queued", !.tries = task[e].tries + 1]
       ELSE [@ EXCEPT !.state = "failed"]]
  /\ UNCHANGED <<chainVars, enabled, armed, received, moved, export, spoilt>>

EndTask(e) ==
  /\ task[e].state = "running" /\ task[e].left = {}
  /\ task' = [task EXCEPT ![e].state = "done"]
  /\ UNCHANGED <<chainVars, enabled, armed, ledger, received, moved, export, spoilt>>

TaskStep(e) ==
  \/ forward_audit_event(e) \/ Deliver(e) \/ Fail(e) \/ EndTask(e)
  \/ \E outcome \in {"sent", "unsure", "refused"}, arrives \in BOOLEAN : _send(e, outcome, arrives)

Write == \E w \in Writer : CommitAndQueue(w) \/ RollbackAndForget(w)
                           \/ \E e \in Event : RecordAndArm(w, e)
Verify == \/ \E v \in Verifier : \/ StartVerification(v) \/ EndVerification(v) \/ audit_export(v)
                               \/ ExportFails(v) \/ \E e \in Event : RecordExport(v, e)
          \/ \E r \in rows : DamageRow(r)
Forward == \/ \E e \in Event : TaskStep(e)
           \/ \E i \in Integration : siem_integrations(i)

TrailNext == Write \/ Verify \/ Forward

TrailSpec == TrailInit /\ [][TrailNext]_auditVars

\* Celery's workers go on with the tasks they have.
TrailFairness == \A e \in Event : WF_auditVars(TaskStep(e))

-----------------------------------------------------------------------------
(* Properties.                                                             *)

\* A verification fails for a reason: the table is not what was written, or an
\* event was committed between the verification's two statements, which blocks
\* an export of an intact log as tampering would (verify_audit_chain).
FailedMeansDamagedOrMoved ==
  \A v \in Verifier : verdict[v] = "failed" => rows # written \/ v \in moved

\* An export that was sent holds every event that its verification has read, as
\* it was written, unless the table was damaged in the meantime, and the log
\* holds the export: events committed while it runs are added to it, none is lost,
\* and what cannot be recorded is not sent (audit_export).
ExportsWhatWasVerified ==
  \A v \in Verifier : export[v].state = "sent" =>
    /\ \E r \in written : r.event = export[v].receipt
    /\ ~spoilt[v] => seen[v] \subseteq export[v].rows /\ export[v].rows \subseteq written

\* No collector hears of what did not happen, and no task looks for an event too
\* early to find it: an event has a task, and reaches a SIEM, only once its
\* transaction has committed (on_commit in record_event).
OnlyCommittedLeaves ==
  LET committed == {r.event : r \in written} IN
  /\ {e \in Event : task[e].state # "none"} \subseteq committed
  /\ \A i \in Integration : received[i] \subseteq committed

\* What counts as delivered was received, whatever failed or was retried before:
\* a collector has the events its deliveries record (deliver_event), and those
\* whose task ended well having set out for it, so that no collector's failure
\* is passed over (the loop of forward_audit_event).  A failure that is recorded
\* may yet have arrived.
DeliveredMeansReceived ==
  \A i \in Integration, e \in Event :
    ledger[i][e] = "delivered" \/ (task[e].state = "done" /\ i \in task[e].round)
      => e \in received[i]

\* Every task ends, delivered or given up, however its collectors fail.
EveryTaskEnds ==
  \A e \in Event : task[e].state = "queued" ~> task[e].state \in {"done", "failed"}
=============================================================================
