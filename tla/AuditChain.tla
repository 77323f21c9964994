----------------------------- MODULE AuditChain -----------------------------
(***************************************************************************)
(* The signed audit log: record_event appends to a hash chain inside the   *)
(* transaction of its caller, and verify_audit_chain recomputes the chain  *)
(* beside the writers (pamolive/audit/services.py).                        *)
(*                                                                         *)
(* A transaction that records an event holds the lock of the chain's only  *)
(* state row until it commits or is rolled back.  Hashes do not collide,   *)
(* so an event names its hash; a row whose content no longer has the hash  *)
(* or the signature it was written with is altered.  Every event is of the *)
(* signed hash_version 2, which damage leaves alone: those of version 1,   *)
(* older than the signatures, are only counted.  Verification is two       *)
(* statements, each with a snapshot of its own: the events, then the head. *)
(***************************************************************************)
EXTENDS Naturals

CONSTANTS
  Event,     \* the events that may be recorded, each once
  Writer,    \* the workers whose transactions record events
  Verifier,  \* the requests that verify the chain
  Fault,     \* what may go wrong: "damage"
  NoEvent,   \* the empty previous_hash of the first event
  NoWriter

Row == [event : Event, sequence : Nat \ {0}, previous : Event \cup {NoEvent},
        altered : BOOLEAN]

ASSUME AuditAssumption ==
  /\ NoEvent \notin Event
  /\ NoWriter \notin Writer

VARIABLES
  rows,     \* the AuditEvent table
  written,  \* every row ever committed, as it was committed (history)
  head,     \* AuditChainState: last_sequence and last_hash
  owner,    \* the transaction that holds the lock of the state row
  draft,    \* the rows each writer's open transaction has created
  tip,      \* the state row as each open transaction has saved it
  seen,     \* the events a verification has read
  verdict   \* AuditVerification.valid, "reading" between the two statements

chainVars == <<rows, written, head, owner, draft, tip, seen, verdict>>

Genesis == [sequence |-> 0, hash |-> NoEvent]

Init ==
  /\ rows = {}
  /\ written = {}
  /\ head = Genesis
  /\ owner = NoWriter
  /\ draft = [w \in Writer |-> {}]
  /\ tip = [w \in Writer |-> Genesis]
  /\ seen = [v \in Verifier |-> {}]
  /\ verdict = [v \in Verifier |-> "none"]

-----------------------------------------------------------------------------
(* Writers.                                                                *)

Fresh(e) == \A r \in written \cup UNION {draft[w] : w \in Writer} : r.event # e

\* The state row as worker w reads it: its own version once it has saved one.
StateOf(w) == IF draft[w] = {} THEN head ELSE tip[w]

\* The event continues the state st, and st moves on to it.
Append(w, e, st) ==
  /\ draft' = [draft EXCEPT ![w] = @ \cup {[event |-> e, sequence |-> st.sequence + 1,
                                            previous |-> st.hash, altered |-> FALSE]}]
  /\ tip' = [tip EXCEPT ![w] = [sequence |-> st.sequence + 1, hash |-> e]]
  /\ UNCHANGED <<rows, written, head, seen, verdict>>

\* Mutant of record_event: the state is read without select_for_update.
RecordUnlocked(w, e) ==
  /\ Fresh(e)
  /\ owner' = w
  /\ Append(w, e, StateOf(w))

record_event(w, e) ==
  /\ Fresh(e)
  /\ owner \in {NoWriter, w}
  /\ owner' = w
  /\ Append(w, e, StateOf(w))

Release(w) == /\ draft' = [draft EXCEPT ![w] = {}]
              /\ tip' = [tip EXCEPT ![w] = Genesis]
              /\ owner' = NoWriter

Commit(w) ==
  /\ draft[w] # {}
  /\ rows' = rows \cup draft[w]
  /\ written' = written \cup draft[w]
  /\ head' = tip[w]
  /\ Release(w)
  /\ UNCHANGED <<seen, verdict>>

Rollback(w) ==
  /\ draft[w] # {}
  /\ Release(w)
  /\ UNCHANGED <<rows, written, head, seen, verdict>>

-----------------------------------------------------------------------------
(* Verification.                                                           *)

\* What the loop over the events, ordered by sequence, finds nothing wrong with.
Intact(S) ==
  /\ \A r \in S : \A n \in 1..r.sequence : \E q \in S : q.sequence = n
  /\ \A r, q \in S :
       /\ r.sequence = q.sequence => r = q
       /\ r.sequence = q.sequence + 1 => r.previous = q.event
  /\ \A r \in S : ~r.altered /\ (r.sequence = 1 => r.previous = NoEvent)

\* Mutant of EndsAt: only the hashes of the events are looked at.
EndsAnywhere(S, st) == TRUE

\* Mutant of EndsAt: the state has to name the event to come.
EndsLater(S, st) ==
  \/ S = {} /\ st = Genesis
  \/ \E r \in S : /\ st = [sequence |-> r.sequence + 1, hash |-> r.event]
                  /\ \A q \in S : q.sequence <= r.sequence

\* The state is the one after the last event.
EndsAt(S, st) ==
  \/ S = {} /\ st = Genesis
  \/ \E r \in S : /\ st = [sequence |-> r.sequence, hash |-> r.event]
                  /\ \A q \in S : q.sequence <= r.sequence

ReadEvents(v) ==
  /\ verdict[v] # "reading"
  /\ seen' = [seen EXCEPT ![v] = rows]
  /\ verdict' = [verdict EXCEPT ![v] = "reading"]
  /\ UNCHANGED <<rows, written, head, owner, draft, tip>>

ReadHead(v) ==
  /\ verdict[v] = "reading"
  /\ verdict' = [verdict EXCEPT ![v] =
                   IF Intact(seen[v]) /\ EndsAt(seen[v], head) THEN "valid" ELSE "failed"]
  /\ UNCHANGED <<rows, written, head, owner, draft, tip, seen>>

-----------------------------------------------------------------------------
\* The models refuse to change or delete an event (AuditEvent.save, delete);
\* a row is altered or lost below them, in the database.
Damage(r) ==
  /\ "damage" \in Fault
  /\ \/ rows' = rows \ {r}
     \/ rows' = (rows \ {r}) \cup {[r EXCEPT !.altered = TRUE]}
  /\ UNCHANGED <<written, head, owner, draft, tip, seen, verdict>>

Next ==
  \/ \E w \in Writer : Commit(w) \/ Rollback(w) \/ \E e \in Event : record_event(w, e)
  \/ \E v \in Verifier : ReadEvents(v) \/ ReadHead(v)
  \/ \E r \in rows : Damage(r)

Spec == Init /\ [][Next]_chainVars

-----------------------------------------------------------------------------
(* Properties.                                                             *)

State == [sequence : Nat, hash : Event \cup {NoEvent}]

\* The tables, the open transactions and the verifications hold what they may.
TypeOK ==
  /\ rows \in SUBSET Row
  /\ written \in SUBSET Row
  /\ head \in State
  /\ owner \in Writer \cup {NoWriter}
  /\ draft \in [Writer -> SUBSET Row]
  /\ tip \in [Writer -> State]
  /\ seen \in [Verifier -> SUBSET Row]
  /\ verdict \in [Verifier -> {"none", "reading", "valid", "failed"}]

\* Whatever transactions record events at once, several each, and whichever of
\* them are rolled back, what is committed is one chain without a gap or a fork
\* that ends at the head (the select_for_update of the state in record_event).
ChainIntact == Intact(written) /\ EndsAt(written, head)

\* A verification that finds the chain valid has read every event committed by
\* then, exactly as it was written: no alteration and no loss goes unnoticed,
\* not even of the last events (verify_audit_chain).
ValidMeansComplete ==
  [][\A v \in Verifier :
       verdict[v] = "reading" /\ verdict'[v] = "valid" => seen[v] = written]_chainVars
=============================================================================
