---------------------------- MODULE AuditProofs -----------------------------
(***************************************************************************)
(* Proofs about AuditChain and AuditTrail, for any number of events,       *)
(* writers, verifiers, integrations and retries.                           *)
(*                                                                         *)
(* That what is committed is one chain is not inductive: a commit adds     *)
(* rows that were made earlier, against an older state.  The invariant     *)
(* says that every open transaction continues what is committed now, which *)
(* holds because only the holder of the state row's lock has one.          *)
(***************************************************************************)
EXTENDS AuditTrail, TLAPS

\* Only the holder of the lock has created rows.
LockHeld == \A w \in Writer : draft[w] # {} => owner = w

\* The committed rows and those of an open transaction are one chain.
DraftsContinue ==
  \A w \in Writer :
    Intact(written \cup draft[w]) /\ EndsAt(written \cup draft[w], StateOf(w))

\* A row that is not altered is a row that was written.
UnalteredIsWritten ==
  /\ \A r \in rows : ~r.altered => r \in written
  /\ \A v \in Verifier : \A r \in seen[v] : ~r.altered => r \in written

IInv == TypeOK /\ LockHeld /\ DraftsContinue /\ UnalteredIsWritten /\ ChainIntact

-----------------------------------------------------------------------------
\* The rows of a chain that ends at a state have the numbers up to it.
LEMMA NumbersTaken ==
  ASSUME NEW S \in SUBSET Row, NEW st \in State, Intact(S), EndsAt(S, st)
  PROVE  /\ \A r \in S : r.sequence \in 1..st.sequence
         /\ \A n \in 1..st.sequence : \E q \in S : q.sequence = n
<1>1. \A r \in S : r.sequence \in Nat \ {0}
  BY Zenon DEF Row
<1>2. CASE S = {} /\ st = Genesis
  BY <1>2 DEF Genesis
<1>3. CASE \E r \in S : st = [sequence |-> r.sequence, hash |-> r.event]
                        /\ \A q \in S : q.sequence <= r.sequence
  <2>1. PICK r \in S : st.sequence = r.sequence /\ \A q \in S : q.sequence <= r.sequence
    BY <1>3
  <2>2. \A q \in S : q.sequence \in 1..st.sequence
    BY <1>1, <2>1
  <2>3. \A n \in 1..r.sequence : \E q \in S : q.sequence = n
    BY Zenon DEF Intact
  <2> QED BY Zenon, <2>1, <2>2, <2>3
<1> QED
  BY Zenon, <1>2, <1>3 DEF EndsAt

\* The row that continues the last one of a chain makes a chain.
LEMMA AppendIntact ==
  ASSUME NEW S \in SUBSET Row, NEW st \in State, NEW e \in Event,
         Intact(S), EndsAt(S, st)
  PROVE  LET r == [event |-> e, sequence |-> st.sequence + 1,
                   previous |-> st.hash, altered |-> FALSE]
         IN  /\ r \in Row
             /\ Intact(S \cup {r})
             /\ EndsAt(S \cup {r}, [sequence |-> st.sequence + 1, hash |-> e])
<1> DEFINE r == [event |-> e, sequence |-> st.sequence + 1,
                 previous |-> st.hash, altered |-> FALSE]
           T == S \cup {r}
<1>1. r \in Row
  BY DEF Row, State
<1>2. \A q \in S : q.sequence \in Nat \ {0} /\ q.sequence <= st.sequence
  BY DEF EndsAt, Row, State, Genesis
<1>3. \A n \in 1..st.sequence : \E q \in S : q.sequence = n
  BY DEF EndsAt, Intact, State, Genesis, Row
<1>4. \A q \in S : q.sequence = st.sequence => st.hash = q.event
  <2> SUFFICES ASSUME NEW q \in S, q.sequence = st.sequence PROVE st.hash = q.event
    OBVIOUS
  <2>1. PICK p \in S : st = [sequence |-> p.sequence, hash |-> p.event]
    BY DEF EndsAt
  <2>2. p.sequence = q.sequence
    BY <2>1
  <2>3. p = q
    BY <2>2 DEF Intact
  <2> QED BY <2>1, <2>3
<1>5. st.sequence = 0 => st.hash = NoEvent
  BY <1>2 DEF EndsAt, Genesis
<1>6. \A x \in T : \A n \in 1..x.sequence : \E q \in T : q.sequence = n
  <2> SUFFICES ASSUME NEW x \in T, NEW n \in 1..x.sequence
               PROVE  \E q \in T : q.sequence = n
    OBVIOUS
  <2>1. CASE x \in S
    BY <2>1 DEF Intact
  <2>2. CASE x = r
    <3>1. CASE n = st.sequence + 1
      <4>1. r \in T /\ r.sequence = n
        BY <3>1
      <4> QED BY Zenon, <4>1
    <3>2. CASE n # st.sequence + 1
      <4>1. n \in 1..st.sequence
        BY <2>2, <3>2 DEF State
      <4> QED BY <4>1, <1>3
    <3> QED BY <3>1, <3>2
  <2> QED BY <2>1, <2>2
<1>7. ASSUME NEW x \in T, NEW q \in T
      PROVE  /\ x.sequence = q.sequence => x = q
             /\ x.sequence = q.sequence + 1 => x.previous = q.event
  <2>1. CASE x \in S /\ q \in S
    BY <2>1 DEF Intact
  <2>2. CASE x = r /\ q \in S
    BY <2>2, <1>2, <1>4 DEF State
  <2>3. CASE x \in S /\ q = r
    BY <2>3, <1>2 DEF State
  <2>4. CASE x = r /\ q = r
    BY <2>4 DEF State
  <2> QED BY <2>1, <2>2, <2>3, <2>4
<1>8. \A x \in T : ~x.altered /\ (x.sequence = 1 => x.previous = NoEvent)
  <2>1. ASSUME NEW x \in S PROVE ~x.altered /\ (x.sequence = 1 => x.previous = NoEvent)
    BY DEF Intact
  <2>2. ~r.altered /\ (r.sequence = 1 => r.previous = NoEvent)
    BY <1>5 DEF State
  <2> QED BY <2>1, <2>2
<1>9. Intact(T)
  BY <1>6, <1>7, <1>8 DEF Intact
<1>10. EndsAt(T, [sequence |-> st.sequence + 1, hash |-> e])
  <2>1. \A q \in T : q.sequence <= r.sequence
    BY <1>2 DEF State
  <2>2. [sequence |-> st.sequence + 1, hash |-> e] = [sequence |-> r.sequence, hash |-> r.event]
    OBVIOUS
  <2> QED BY Zenon, <2>1, <2>2 DEF EndsAt
<1> QED BY <1>1, <1>9, <1>10

\* The empty log is a chain.
LEMMA InitInv == Init => IInv
  BY AuditAssumption
     DEF Init, IInv, TypeOK, LockHeld, DraftsContinue, UnalteredIsWritten, ChainIntact,
         Intact, EndsAt, StateOf, Genesis, State

-----------------------------------------------------------------------------
\* Recording an event continues the chain its transaction sees.
LEMMA RecordInv ==
  ASSUME IInv, NEW w \in Writer, NEW e \in Event, record_event(w, e)
  PROVE  IInv'
<1> DEFINE st == StateOf(w)
           r == [event |-> e, sequence |-> st.sequence + 1,
                 previous |-> st.hash, altered |-> FALSE]
<1>1. st \in State
  BY DEF IInv, TypeOK, StateOf
<1>2. /\ r \in Row
      /\ Intact((written \cup draft[w]) \cup {r})
      /\ EndsAt((written \cup draft[w]) \cup {r}, [sequence |-> st.sequence + 1, hash |-> e])
  <2>1. written \cup draft[w] \in SUBSET Row
    BY DEF IInv, TypeOK
  <2>2. Intact(written \cup draft[w]) /\ EndsAt(written \cup draft[w], st)
    BY DEF IInv, DraftsContinue
  <2> HIDE DEF st
  <2> QED BY <1>1, <2>1, <2>2, AppendIntact
<1>3. /\ draft' = [draft EXCEPT ![w] = draft[w] \cup {r}]
      /\ tip' = [tip EXCEPT ![w] = [sequence |-> st.sequence + 1, hash |-> e]]
      /\ owner' = w
      /\ UNCHANGED <<rows, written, head, seen, verdict>>
  BY DEF record_event, Append
<1>4. \A x \in Writer : x # w => draft[x] = {}
  BY AuditAssumption DEF record_event, IInv, LockHeld
<1> HIDE DEF st
<1>5. TypeOK'
  <2>1. [sequence |-> st.sequence + 1, hash |-> e] \in State
    BY <1>1 DEF State
  <2>2. draft' \in [Writer -> SUBSET Row]
    <3> HIDE DEF r
    <3> QED BY <1>2, <1>3 DEF IInv, TypeOK
  <2>3. tip' \in [Writer -> State]
    BY <1>3, <2>1 DEF IInv, TypeOK
  <2> QED BY <1>3, <2>2, <2>3 DEF IInv, TypeOK
<1>6. LockHeld'
  BY <1>3, <1>4 DEF IInv, TypeOK, LockHeld
<1>7. ASSUME NEW x \in Writer
      PROVE  (Intact(written \cup draft[x]) /\ EndsAt(written \cup draft[x], StateOf(x)))'
  <2>1. CASE x = w
    <3>1. (written \cup draft[x])' = (written \cup draft[w]) \cup {r}
      BY <1>3, <2>1 DEF IInv, TypeOK
    <3>2. StateOf(x)' = [sequence |-> st.sequence + 1, hash |-> e]
      BY Zenon, <1>3, <2>1 DEF IInv, TypeOK, StateOf
    <3>3. Intact((written \cup draft[x])') /\ EndsAt((written \cup draft[x])', StateOf(x)')
      BY Zenon, <1>2, <3>1, <3>2
    <3> QED BY Zenon, <3>3 DEF Intact, EndsAt, Genesis
  <2>2. CASE x # w
    <3>1. draft'[x] = draft[x] /\ written' = written /\ StateOf(x)' = StateOf(x)
      BY <1>3, <2>2 DEF IInv, TypeOK, StateOf
    <3>2. Intact(written \cup draft[x]) /\ EndsAt(written \cup draft[x], StateOf(x))
      BY Zenon DEF IInv, DraftsContinue
    <3>3. Intact((written \cup draft[x])') /\ EndsAt((written \cup draft[x])', StateOf(x)')
      BY Zenon, <3>1, <3>2
    <3> QED BY Zenon, <3>3 DEF Intact, EndsAt, Genesis
  <2> QED BY Zenon, <2>1, <2>2
<1>8. DraftsContinue'
  BY <1>7 DEF DraftsContinue
<1>9. UnalteredIsWritten' /\ ChainIntact'
  BY Zenon, <1>3 DEF IInv, UnalteredIsWritten, ChainIntact, Intact, EndsAt, Genesis
<1> QED BY <1>5, <1>6, <1>8, <1>9 DEF IInv

\* A commit turns the chain its transaction saw into the committed one.
LEMMA CommitInv ==
  ASSUME IInv, NEW w \in Writer, Commit(w)
  PROVE  IInv'
<1>1. /\ draft[w] # {}
      /\ rows' = rows \cup draft[w]
      /\ written' = written \cup draft[w]
      /\ head' = tip[w]
      /\ draft' = [draft EXCEPT ![w] = {}]
      /\ tip' = [tip EXCEPT ![w] = Genesis]
      /\ owner' = NoWriter
      /\ UNCHANGED <<seen, verdict>>
  BY DEF Commit, Release
<1>2. \A x \in Writer : draft'[x] = {}
  BY <1>1 DEF IInv, TypeOK, LockHeld
<1>3. TypeOK'
  BY <1>1 DEF IInv, TypeOK, Genesis, State
<1>4. LockHeld'
  BY <1>2 DEF LockHeld
<1>5. Intact(written') /\ EndsAt(written', head')
  BY <1>1 DEF IInv, DraftsContinue, StateOf
<1>6. ChainIntact'
  BY <1>5 DEF ChainIntact, Intact, EndsAt, Genesis
<1>7. DraftsContinue'
  <2> SUFFICES ASSUME NEW x \in Writer
               PROVE  (Intact(written \cup draft[x]) /\ EndsAt(written \cup draft[x], StateOf(x)))'
    BY DEF DraftsContinue
  <2>1. (written \cup draft[x])' = written' /\ StateOf(x)' = head'
    BY <1>2 DEF StateOf
  <2>2. Intact((written \cup draft[x])') /\ EndsAt((written \cup draft[x])', StateOf(x)')
    BY Zenon, <1>5, <2>1
  <2> QED BY Zenon, <2>2 DEF Intact, EndsAt, Genesis
<1>8. UnalteredIsWritten'
  BY <1>1 DEF IInv, UnalteredIsWritten
<1> QED BY <1>3, <1>4, <1>6, <1>7, <1>8 DEF IInv

\* A rolled back transaction leaves the committed chain.
LEMMA RollbackInv ==
  ASSUME IInv, NEW w \in Writer, Rollback(w)
  PROVE  IInv'
<1>1. /\ draft[w] # {}
      /\ draft' = [draft EXCEPT ![w] = {}]
      /\ tip' = [tip EXCEPT ![w] = Genesis]
      /\ owner' = NoWriter
      /\ UNCHANGED <<rows, written, head, seen, verdict>>
  BY DEF Rollback, Release
<1>2. \A x \in Writer : draft'[x] = {}
  BY <1>1 DEF IInv, TypeOK, LockHeld
<1>3. TypeOK'
  BY <1>1 DEF IInv, TypeOK, Genesis, State
<1>4. LockHeld'
  BY <1>2 DEF LockHeld
<1>5. ChainIntact' /\ UnalteredIsWritten'
  BY Zenon, <1>1 DEF IInv, ChainIntact, UnalteredIsWritten, Intact, EndsAt, Genesis
<1>6. DraftsContinue'
  BY Zenon, <1>2, <1>5 DEF DraftsContinue, ChainIntact, StateOf, Intact, EndsAt, Genesis
<1> QED BY <1>3, <1>4, <1>5, <1>6 DEF IInv

\* A step that no writer takes leaves the chain and its continuations alone.
LEMMA ChainUnchanged ==
  ASSUME IInv, UNCHANGED <<written, head, owner, draft, tip>>
  PROVE  LockHeld' /\ DraftsContinue' /\ ChainIntact'
<1>1. LockHeld'
  BY DEF IInv, LockHeld
<1>2. ChainIntact'
  BY DEF IInv, ChainIntact, Intact, EndsAt, Genesis
<1>3. ASSUME NEW x \in Writer
      PROVE  (Intact(written \cup draft[x]) /\ EndsAt(written \cup draft[x], StateOf(x)))'
  <2>1. (written \cup draft[x])' = written \cup draft[x] /\ StateOf(x)' = StateOf(x)
    BY DEF StateOf
  <2>2. Intact((written \cup draft[x])') /\ EndsAt((written \cup draft[x])', StateOf(x)')
    BY <2>1 DEF IInv, DraftsContinue
  <2> QED BY Zenon, <2>2 DEF Intact, EndsAt, Genesis
<1>4. DraftsContinue'
  BY <1>3 DEF DraftsContinue
<1> QED BY <1>1, <1>2, <1>4

\* Every step of the writers, the verifiers and the database keeps the invariant.
LEMMA NextInv == IInv /\ [Next]_chainVars => IInv'
<1> SUFFICES ASSUME IInv, [Next]_chainVars PROVE IInv'
  OBVIOUS
<1>1. ASSUME NEW v \in Verifier, ReadEvents(v) \/ ReadHead(v) PROVE IInv'
  <2>1. TypeOK'
    BY <1>1 DEF IInv, TypeOK, ReadEvents, ReadHead
  <2>2. UnalteredIsWritten'
    BY <1>1 DEF IInv, TypeOK, UnalteredIsWritten, ReadEvents, ReadHead
  <2>3. UNCHANGED <<written, head, owner, draft, tip>>
    BY <1>1 DEF ReadEvents, ReadHead
  <2>4. LockHeld' /\ DraftsContinue' /\ ChainIntact'
    BY <2>3, ChainUnchanged
  <2> QED BY <2>1, <2>2, <2>4 DEF IInv
<1>2. ASSUME NEW r \in rows, Damage(r) PROVE IInv'
  <2>1. TypeOK'
    BY Zenon, <1>2 DEF IInv, TypeOK, Damage, Row
  <2>2. UnalteredIsWritten'
    BY <1>2 DEF IInv, TypeOK, UnalteredIsWritten, Damage, Row
  <2>3. UNCHANGED <<written, head, owner, draft, tip>>
    BY <1>2 DEF Damage
  <2>4. LockHeld' /\ DraftsContinue' /\ ChainIntact'
    BY <2>3, ChainUnchanged
  <2> QED BY <2>1, <2>2, <2>4 DEF IInv
<1>3. CASE UNCHANGED chainVars
  <2>1. LockHeld' /\ DraftsContinue' /\ ChainIntact'
    BY <1>3, ChainUnchanged DEF chainVars
  <2>2. TypeOK' /\ UnalteredIsWritten'
    BY Zenon, <1>3 DEF chainVars, IInv, TypeOK, UnalteredIsWritten
  <2> QED BY <2>1, <2>2 DEF IInv
<1> QED BY <1>1, <1>2, <1>3, RecordInv, CommitInv, RollbackInv DEF Next

\* The inductive invariant holds in every reachable state.
THEOREM Invariance == Spec => []IInv
  BY InitInv, NextInv, PTL DEF Spec

-----------------------------------------------------------------------------
\* What transactions commit through record_event is always one chain that ends
\* at the head, whatever they interleave and whichever are rolled back.
THEOREM ChainStaysIntact == Spec => []ChainIntact
<1>1. IInv => ChainIntact
  BY DEF IInv
<1> QED BY <1>1, Invariance, PTL

\* verify_audit_chain finds a chain valid only if it read exactly what had been
\* committed, whatever happened to the rows in the database.
THEOREM VerificationIsComplete == Spec => ValidMeansComplete
<1>1. IInv /\ [Next]_chainVars
        => [\A v \in Verifier :
              verdict[v] = "reading" /\ verdict'[v] = "valid" => seen[v] = written]_chainVars
  <2> SUFFICES ASSUME IInv, [Next]_chainVars, NEW v \in Verifier,
                      verdict[v] = "reading", verdict'[v] = "valid"
               PROVE  seen[v] = written
    BY Zenon
  <2>1. ReadHead(v)
    BY DEF Next, chainVars, record_event, Append, Commit, Rollback, ReadEvents, ReadHead,
           Damage, IInv, TypeOK
  <2>2. Intact(seen[v]) /\ EndsAt(seen[v], head)
    BY <2>1 DEF ReadHead, IInv, TypeOK
  <2>3. seen[v] \subseteq written
    BY Zenon, <2>2 DEF Intact, IInv, UnalteredIsWritten
  <2>4. ASSUME NEW r \in written PROVE r \in seen[v]
    <3>1. r.sequence \in 1..head.sequence
      BY Zenon, NumbersTaken DEF IInv, TypeOK, ChainIntact
    <3>2. PICK q \in seen[v] : q.sequence = r.sequence
      <4>1. seen[v] \in SUBSET Row /\ head \in State
        BY Zenon DEF IInv, TypeOK
      <4> QED BY Zenon, <2>2, <3>1, <4>1, NumbersTaken
    <3>3. q \in written
      BY <2>3
    <3> QED BY <3>2, <3>3 DEF IInv, ChainIntact, Intact
  <2> QED BY Zenon, <2>3, <2>4
<1> QED BY <1>1, Invariance, PTL DEF Spec, ValidMeansComplete

-----------------------------------------------------------------------------
(* Where the rows come from.                                               *)

\* The events of a set of rows.
EventsOf(S) == {r.event : r \in S}

\* Every row of an open transaction is of an event of its own, not committed yet.
DraftsAreNew ==
  \A w \in Writer : \A r \in draft[w] :
    /\ r.event \notin EventsOf(written)
    /\ \A q \in draft[w] : q.event = r.event => q = r

\* The table has at most one row of an event, and only of committed events.
RowsAreKnown ==
  /\ \A r, q \in rows : r.event = q.event => r = q
  /\ EventsOf(rows) \subseteq EventsOf(written)

Provenance == DraftsAreNew /\ RowsAreKnown

\* Only the transaction that holds the lock has rows.
LEMMA OneDraft ==
  ASSUME IInv, NEW w \in Writer, draft[w] # {}, NEW x \in Writer, x # w
  PROVE  draft[x] = {}
BY DEF IInv, LockHeld

\* An event that is recorded adds one row, of its own, to the transaction.
LEMMA RecordedRow ==
  ASSUME NEW w \in Writer, NEW e \in Event, record_event(w, e)
  PROVE  \E r : /\ r.event = e
                /\ draft' = [draft EXCEPT ![w] = @ \cup {r}]
                /\ written' = written
<1> DEFINE r == [event |-> e, sequence |-> StateOf(w).sequence + 1,
                 previous |-> StateOf(w).hash, altered |-> FALSE]
<1>1. r.event = e
  OBVIOUS
<1>2. draft' = [draft EXCEPT ![w] = @ \cup {r}] /\ written' = written
  BY DEF record_event, Append
<1> HIDE DEF r
<1> QED BY Zenon, <1>1, <1>2

\* No step makes two rows of one event, or a row of an event nobody recorded.
LEMMA ProvenanceStep == IInv /\ Provenance /\ [Next]_chainVars => Provenance'
<1> SUFFICES ASSUME IInv, Provenance, [Next]_chainVars PROVE Provenance'
  OBVIOUS
<1>t. draft \in [Writer -> SUBSET Row] /\ rows \in SUBSET Row
  BY DEF IInv, TypeOK
<1> USE <1>t DEF Provenance
<1>1. ASSUME NEW w \in Writer, NEW e \in Event, record_event(w, e) PROVE Provenance'
  <2>1. RowsAreKnown'
    BY Zenon, <1>1 DEF record_event, Append, RowsAreKnown, EventsOf
  <2>2. PICK r : /\ r.event = e /\ written' = written
                 /\ draft' = [draft EXCEPT ![w] = @ \cup {r}]
    BY <1>1, RecordedRow
  <2>3. \A q \in written \cup draft[w] : q.event # e
    BY <1>1 DEF record_event, Fresh
  <2>4. DraftsAreNew'
    BY <2>2, <2>3 DEF DraftsAreNew, EventsOf
  <2> QED BY <2>1, <2>4
<1>2. ASSUME NEW w \in Writer, Commit(w) PROVE Provenance'
  <2>1. /\ draft' = [draft EXCEPT ![w] = {}] /\ draft[w] # {}
        /\ rows' = rows \cup draft[w] /\ written' = written \cup draft[w]
    BY <1>2 DEF Commit, Release
  <2>2. \A x \in Writer : draft'[x] = {}
    BY <2>1, OneDraft
  <2>3. ASSUME NEW r \in rows, NEW q \in draft[w] PROVE r.event # q.event
    BY DEF RowsAreKnown, DraftsAreNew, EventsOf
  <2>4. \A r, q \in rows' : r.event = q.event => r = q
    BY <2>1, <2>3 DEF RowsAreKnown, DraftsAreNew
  <2>5. RowsAreKnown'
    <3>1. EventsOf(rows) \subseteq EventsOf(written)
      BY Zenon DEF RowsAreKnown, EventsOf
    <3>2. EventsOf(rows') \subseteq EventsOf(written')
      BY Zenon, <2>1, <3>1 DEF EventsOf
    <3> QED BY Zenon, <2>4, <3>2 DEF RowsAreKnown, EventsOf
  <2> QED BY Zenon, <2>2, <2>5 DEF DraftsAreNew
<1>3. ASSUME NEW w \in Writer, Rollback(w) PROVE Provenance'
  BY <1>3 DEF Rollback, Release, RowsAreKnown, DraftsAreNew, EventsOf
<1>4. ASSUME NEW v \in Verifier, ReadEvents(v) \/ ReadHead(v) PROVE Provenance'
  BY Zenon, <1>4 DEF ReadEvents, ReadHead, RowsAreKnown, DraftsAreNew, EventsOf
<1>5. ASSUME NEW r \in rows, Damage(r) PROVE Provenance'
  <2>1. [r EXCEPT !.altered = TRUE].event = r.event
    BY DEF Row
  <2>2. RowsAreKnown'
    BY Zenon, <1>5, <2>1 DEF Damage, RowsAreKnown, EventsOf
  <2> QED BY <1>5, <2>2 DEF Damage, DraftsAreNew, EventsOf
<1>6. CASE UNCHANGED chainVars
  BY Zenon, <1>6 DEF chainVars, RowsAreKnown, DraftsAreNew, EventsOf
<1> QED BY <1>1, <1>2, <1>3, <1>4, <1>5, <1>6 DEF Next

\* The table differs from what was written just when it lacks some of it.
LEMMA DamageIsLoss ==
  ASSUME RowsAreKnown, written \subseteq rows
  PROVE  rows = written
BY DEF RowsAreKnown, EventsOf

\* What the table once lacks it lacks for ever.
LEMMA LossIsFinal ==
  ASSUME IInv, Provenance, [Next]_chainVars, ~(written \subseteq rows)
  PROVE  ~(written' \subseteq rows')
<1>t. draft \in [Writer -> SUBSET Row] /\ rows \in SUBSET Row
  BY DEF IInv, TypeOK
<1> USE <1>t
<1>1. PICK r \in written : r \notin rows
  OBVIOUS
<1>2. r \in written' /\ ~r.altered
  BY DEF Next, chainVars, record_event, Append, Commit, Rollback, ReadEvents, ReadHead, Damage,
         IInv, ChainIntact, Intact
<1>3. r \notin rows'
  <2>1. ASSUME NEW w \in Writer, Commit(w) PROVE r \notin rows'
    BY <1>1, <2>1 DEF Commit, Provenance, DraftsAreNew, EventsOf
  <2>2. ASSUME NEW q \in rows, Damage(q) PROVE r \notin rows'
    <3>1. [q EXCEPT !.altered = TRUE].altered
      BY DEF Row
    <3> QED BY Zenon, <1>1, <1>2, <2>2, <3>1 DEF Damage
  <2> QED BY Zenon, <1>1, <2>1, <2>2 DEF Next, chainVars, record_event, Append, Rollback, ReadEvents,
                                  ReadHead
<1> QED BY <1>2, <1>3

-----------------------------------------------------------------------------
(* The trail drives the chain only through the chain's own operations.     *)

\* A task, or a change of an integration, leaves the log and its exports alone.
LEMMA ForwardOnly == Forward => UNCHANGED <<chainVars, armed, moved, export, spoilt>>
BY Zenon DEF Forward, TaskStep, forward_audit_event, Deliver, Fail, EndTask, _send, siem_integrations

\* Every step of the trail is a step of the chain or leaves it alone.
LEMMA TrailStepsAreChainSteps == [TrailNext]_auditVars => [Next]_chainVars
<1> SUFFICES ASSUME [TrailNext]_auditVars PROVE [Next]_chainVars
  OBVIOUS
<1>1. CASE Write
  BY <1>1 DEF Write, CommitAndQueue, RollbackAndForget, RecordAndArm, Next
<1>2. CASE Verify
  <2>1. ASSUME NEW v \in Verifier, StartVerification(v) \/ EndVerification(v)
        PROVE  Next
    BY Zenon, <2>1 DEF StartVerification, EndVerification, Next
  <2>2. ASSUME NEW v \in Verifier, audit_export(v) \/ ExportFails(v)
        PROVE  UNCHANGED chainVars
    BY <2>2 DEF audit_export, ReadExport, ExportFails
  <2>3. ASSUME NEW v \in Verifier, NEW e \in Event, RecordExport(v, e) PROVE Next
    BY <2>3, TrailAssumption DEF RecordExport, Next
  <2>4. ASSUME NEW r \in rows, DamageRow(r) PROVE Next
    BY <2>4 DEF DamageRow, Next
  <2> QED BY <1>2, <2>1, <2>2, <2>3, <2>4 DEF Verify
<1>3. CASE Forward
  BY <1>3, ForwardOnly
<1>4. CASE UNCHANGED auditVars
  BY <1>4 DEF auditVars
<1> QED BY <1>1, <1>2, <1>3, <1>4 DEF TrailNext

\* The log with its exports and its tasks is the log of AuditChain: no export and
\* no task writes to it other than through record_event (audit_export,
\* forward_audit_event).
THEOREM TrailKeepsChain == TrailSpec => Spec
<1>1. TrailInit => Init
  BY DEF TrailInit
<1> QED BY <1>1, TrailStepsAreChainSteps, PTL DEF TrailSpec, Spec

\* What is committed beside verifications, exports and tasks is one chain too.
THEOREM TrailChainStaysIntact == TrailSpec => []ChainIntact
  BY TrailKeepsChain, ChainStaysIntact, PTL

-----------------------------------------------------------------------------
(* The invariant of the trail.                                             *)

\* What a task may be doing.
Stage == {"none", "queued", "running", "sent", "unsure", "refused", "done", "failed"}

Task == [state : Stage, round : SUBSET Integration, left : SUBSET Integration, tries : Nat]
Export == [state : {"none", "read", "recording", "sent"}, rows : SUBSET Row,
           receipt : Event \cup {NoEvent}]

TrailTypes ==
  /\ enabled \in SUBSET Integration
  /\ armed \in [Writer -> SUBSET Event]
  /\ task \in [Event -> Task]
  /\ ledger \in [Integration -> [Event -> {"none", "delivered", "failed"}]]
  /\ received \in [Integration -> SUBSET Event]
  /\ moved \in SUBSET Verifier
  /\ export \in [Verifier -> Export]
  /\ spoilt \in [Verifier -> BOOLEAN]

\* A verification that still reads has read what is committed, unless the table
\* lacks a committed row or the log has moved on; one that failed had a reason.
ReasonToFail ==
  \A v \in Verifier :
    \/ v \in moved \/ ~(written \subseteq rows)
    \/ verdict[v] \in {"none", "valid"}
    \/ verdict[v] = "reading" /\ seen[v] = written

\* What a verification has read is still in the table, and what is there besides
\* was committed since, unless the table was damaged; a valid one read only rows
\* that were committed.
ReadsLast ==
  \A v \in Verifier :
    /\ verdict[v] # "none" /\ ~spoilt[v] => seen[v] \subseteq rows /\ rows \subseteq seen[v] \cup written
    /\ verdict[v] = "valid" => seen[v] \subseteq written

\* An export from its reading on, and the event it has recorded of itself.
ExportsHold ==
  \A v \in Verifier :
    /\ export[v].state # "none" /\ ~spoilt[v] =>
         seen[v] \subseteq export[v].rows /\ export[v].rows \subseteq written
    /\ export[v].state = "recording" => export[v].receipt \in EventsOf(draft[v])
    /\ export[v].state = "sent" => export[v].receipt \in EventsOf(written)

\* A task is queued only for an event that the committing transaction recorded.
ArmedIsDrafted == \A w \in Writer : armed[w] \subseteq EventsOf(draft[w])

\* Tasks and collectors know committed events only.
CommittedLeaves ==
  /\ \A e \in Event : task[e].state # "none" => e \in EventsOf(written)
  /\ \A i \in Integration : received[i] \subseteq EventsOf(written)

\* The collectors a round is done with have the event, and so has the current one
\* between the sending and the record of it.
RoundsDeliver ==
  \A e \in Event :
    /\ task[e].state \in {"running", "sent", "unsure", "refused", "done"} =>
         \A i \in task[e].round \ task[e].left : e \in received[i]
    /\ task[e].state = "sent" /\ Current(e) \in Integration => e \in received[Current(e)]
    /\ task[e].state = "done" => task[e].left = {}

LedgerIsTrue ==
  \A i \in Integration, e \in Event : ledger[i][e] = "delivered" => e \in received[i]

\* A step of the task of an event is about no other event, and what it sends, if
\* anything, is that event.
LEMMA TaskStepFrame ==
  ASSUME TrailTypes, NEW e \in Event, TaskStep(e)
  PROVE  /\ UNCHANGED <<chainVars, armed>>
         /\ \A x \in Event : x # e => task'[x] = task[x]
         /\ task[e].state # "none"
         /\ \A i \in Integration : /\ received[i] \subseteq received'[i]
                                   /\ received'[i] \subseteq received[i] \cup {e}
<1>0. task \in [Event -> Task] /\ received \in [Integration -> SUBSET Event]
  BY Zenon DEF TrailTypes
<1>1. CASE forward_audit_event(e)
  BY Zenon, <1>0, <1>1 DEF forward_audit_event
<1>2. CASE Deliver(e)
  <2> HIDE DEF Current
  <2> QED BY Zenon, <1>0, <1>2 DEF Deliver
<1>3. CASE Fail(e)
  BY Zenon, <1>0, <1>3 DEF Fail
<1>4. CASE EndTask(e)
  BY Zenon, <1>0, <1>4 DEF EndTask
<1>5. ASSUME NEW outcome, NEW arrives, _send(e, outcome, arrives)
      PROVE  /\ UNCHANGED <<chainVars, armed>>
             /\ \A x \in Event : x # e => task'[x] = task[x]
             /\ task[e].state # "none"
             /\ \A i \in Integration : /\ received[i] \subseteq received'[i]
                                       /\ received'[i] \subseteq received[i] \cup {e}
  <2>1. /\ UNCHANGED <<chainVars, armed>> /\ task[e].state = "running"
        /\ task' = [task EXCEPT ![e].state = outcome]
        /\ received' = [received EXCEPT ![Current(e)] = IF arrives THEN @ \cup {e} ELSE @]
    BY Zenon, <1>5 DEF _send
  <2> QED BY Zenon, <1>0, <2>1
<1> QED
  BY Zenon, <1>1, <1>2, <1>3, <1>4, <1>5 DEF TaskStep

\* One try more is a number of tries.
LEMMA TriesAreCounted == \A t \in Task : t.tries + 1 \in Nat
<1>1. \A t \in Task : t.tries \in Nat
  BY Zenon DEF Task
<1> QED
  BY <1>1

\* Tasks and exports stay what they are when fields of them are written.
LEMMA TaskFields ==
  ASSUME NEW t \in Task, NEW state \in Stage, NEW n \in Nat,
         NEW R \in SUBSET Integration, NEW L \in SUBSET Integration
  PROVE  /\ [t EXCEPT !.state = state] \in Task
         /\ [t EXCEPT !.state = state, !.tries = n] \in Task
         /\ [t EXCEPT !.state = state, !.left = L] \in Task
         /\ [t EXCEPT !.state = state, !.round = R, !.left = L] \in Task
         /\ NoTask \in Task
BY Zenon DEF Task, NoTask, Stage

LEMMA ExportFields ==
  ASSUME NEW x \in Export
  PROVE  /\ \A R \in SUBSET Row : [x EXCEPT !.state = "read", !.rows = R] \in Export
         /\ \A e \in Event : [x EXCEPT !.state = "recording", !.receipt = e] \in Export
         /\ [x EXCEPT !.state = "sent"] \in Export
BY Zenon DEF Export

\* The tables of the trail hold what they may.
LEMMA TrailTyping == IInv /\ TrailTypes /\ [TrailNext]_auditVars => TrailTypes'
<1> SUFFICES ASSUME IInv, TrailTypes, [TrailNext]_auditVars PROVE TrailTypes'
  OBVIOUS
<1> USE DEF IInv, TypeOK, TrailTypes
<1>0. {"queued", "running", "sent", "unsure", "refused", "done", "failed"} \subseteq Stage
  BY DEF Stage
<1>1. ASSUME NEW w \in Writer, CommitAndQueue(w) PROVE TrailTypes'
  <2>1. [NoTask EXCEPT !.state = "queued"] \in Task
    BY Zenon DEF Task, NoTask, Stage
  <2>2. task' \in [Event -> Task]
    BY <1>1, <2>1 DEF CommitAndQueue
  <2>3. export' \in [Verifier -> Export]
    BY Zenon, <1>1, ExportFields DEF CommitAndQueue
  <2> QED BY Zenon, <1>1, <2>2, <2>3 DEF CommitAndQueue
<1>2. ASSUME NEW w \in Writer, RollbackAndForget(w) PROVE TrailTypes'
  <2>1. NoExport \in Export
    BY Zenon DEF NoExport, Export
  <2> QED BY Zenon, <1>2, <2>1 DEF RollbackAndForget
<1>3. ASSUME NEW w \in Writer, NEW e \in Event, RecordAndArm(w, e) PROVE TrailTypes'
  BY Zenon, <1>3 DEF RecordAndArm
<1>4. ASSUME NEW v \in Verifier, StartVerification(v) PROVE TrailTypes'
  <2>1. NoExport \in Export
    BY Zenon DEF NoExport, Export
  <2> QED BY Zenon, <1>4, <2>1 DEF StartVerification
<1>5. ASSUME NEW v \in Verifier, EndVerification(v) PROVE TrailTypes'
  BY <1>5 DEF EndVerification, trailVars
<1>6. ASSUME NEW v \in Verifier, audit_export(v) PROVE TrailTypes'
  <2>1. export' = [export EXCEPT ![v] = [export[v] EXCEPT !.state = "read", !.rows = rows]]
    BY Zenon, <1>6 DEF audit_export, ReadExport
  <2>2. [export[v] EXCEPT !.state = "read", !.rows = rows] \in Export
    BY Zenon, ExportFields
  <2>3. export' \in [Verifier -> Export]
    BY <2>1, <2>2
  <2> QED BY <1>6, <2>3 DEF audit_export, ReadExport
<1>7. ASSUME NEW v \in Verifier, ExportFails(v) PROVE TrailTypes'
  <2>1. NoExport \in Export
    BY Zenon DEF NoExport, Export
  <2> QED BY Zenon, <1>7, <2>1 DEF ExportFails
<1>8. ASSUME NEW v \in Verifier, NEW e \in Event, RecordExport(v, e) PROVE TrailTypes'
  <2>1. export' = [export EXCEPT ![v] = [export[v] EXCEPT !.state = "recording", !.receipt = e]]
    BY Zenon, <1>8 DEF RecordExport
  <2>2. [export[v] EXCEPT !.state = "recording", !.receipt = e] \in Export
    BY Zenon, ExportFields
  <2>3. export' \in [Verifier -> Export]
    BY <2>1, <2>2
  <2> QED BY <1>8, <2>3, TrailAssumption DEF RecordExport
<1>9. ASSUME NEW r \in rows, DamageRow(r) PROVE TrailTypes'
  BY <1>9 DEF DamageRow
<1>10. ASSUME NEW e \in Event, TaskStep(e) PROVE TrailTypes'
  <2>1. CASE forward_audit_event(e)
    <3> DEFINE t == [task[e] EXCEPT !.state = IF Recorded(e) THEN "running" ELSE "failed",
                                    !.round = enabled, !.left = enabled]
    <3>1. task' = [task EXCEPT ![e] = t]
      BY Zenon, <2>1 DEF forward_audit_event
    <3>2. t \in Task
      BY Zenon, <1>0, TaskFields
    <3>3. task' \in [Event -> Task]
      BY <3>1, <3>2
    <3> QED BY <2>1, <3>3 DEF forward_audit_event
  <2>2. CASE Deliver(e)
    <3> DEFINE t == [task[e] EXCEPT !.state = "running", !.left = task[e].left \ {Current(e)}]
    <3>1. task' = [task EXCEPT ![e] = t]
      BY Zenon, <2>2 DEF Deliver
    <3>2. task[e].left \ {Current(e)} \in SUBSET Integration
      BY DEF Task
    <3>3. t \in Task
      BY Zenon, <1>0, <3>2, TaskFields
    <3>4. task' \in [Event -> Task]
      BY <3>1, <3>3
    <3> QED BY Zenon, <2>2, <3>4 DEF Deliver
  <2>3. CASE Fail(e)
    <3> DEFINE t == IF task[e].state = "unsure" /\ task[e].tries < MaxRetries
                    THEN [task[e] EXCEPT !.state = "queued", !.tries = task[e].tries + 1]
                    ELSE [task[e] EXCEPT !.state = "failed"]
    <3>1. task' = [task EXCEPT ![e] = t]
      BY <2>3 DEF Fail
    <3>2. task[e].tries + 1 \in Nat
      BY Zenon, TriesAreCounted
    <3>3. t \in Task
      BY Zenon, <1>0, <3>2, TaskFields
    <3>4. task' \in [Event -> Task]
      BY <3>1, <3>3
    <3> QED BY Zenon, <2>3, <3>4 DEF Fail
  <2>4. CASE EndTask(e)
    <3>1. task' = [task EXCEPT ![e] = [task[e] EXCEPT !.state = "done"]]
      BY <2>4 DEF EndTask
    <3>2. [task[e] EXCEPT !.state = "done"] \in Task
      BY Zenon, <1>0, TaskFields
    <3> QED BY <2>4, <3>1, <3>2 DEF EndTask
  <2>5. ASSUME NEW outcome \in {"sent", "unsure", "refused"}, NEW arrives \in BOOLEAN,
               _send(e, outcome, arrives)
        PROVE  TrailTypes'
    <3>1. task' = [task EXCEPT ![e] = [task[e] EXCEPT !.state = outcome]]
      BY <2>5 DEF _send
    <3>2. [task[e] EXCEPT !.state = outcome] \in Task
      BY Zenon, <1>0, TaskFields
    <3>3. task' \in [Event -> Task]
      BY <3>1, <3>2
    <3> QED BY ZenonT(60), <2>5, <3>3 DEF _send
  <2> QED BY Zenon, <1>10, <2>1, <2>2, <2>3, <2>4, <2>5 DEF TaskStep
<1>11. ASSUME NEW i \in Integration, siem_integrations(i) PROVE TrailTypes'
  BY Zenon, <1>11 DEF siem_integrations
<1>12. CASE UNCHANGED auditVars
  BY Zenon, <1>12 DEF auditVars, trailVars
<1> QED
  BY Zenon, <1>1, <1>2, <1>3, <1>4, <1>5, <1>6, <1>7, <1>8, <1>9, <1>10, <1>11, <1>12
     DEF TrailNext, Write, Verify, Forward

\* A verification fails only over a table that lacks something, or a log that has
\* moved on, at every step of the writers, the verifiers and the database.
LEMMA ReasonStep ==
  IInv /\ Provenance /\ TrailTypes /\ ReasonToFail /\ [TrailNext]_auditVars => ReasonToFail'
<1> SUFFICES ASSUME IInv, Provenance, TrailTypes, ReasonToFail, [TrailNext]_auditVars,
                    NEW v \in Verifier,
                    v \notin moved', written' \subseteq rows', verdict'[v] \notin {"none", "valid"}
             PROVE  verdict'[v] = "reading" /\ seen'[v] = written'
  BY DEF ReasonToFail
<1>t. /\ verdict \in [Verifier -> {"none", "reading", "valid", "failed"}]
      /\ seen \in [Verifier -> SUBSET Row]
  BY DEF IInv, TypeOK, TrailTypes
<1> USE <1>t
<1>1. [Next]_chainVars
  BY TrailStepsAreChainSteps
<1>2. written \subseteq rows
  BY <1>1, LossIsFinal
<1>3. rows = written
  BY <1>2, DamageIsLoss DEF Provenance
<1>4. ASSUME UNCHANGED <<moved, verdict, seen, written>>
      PROVE  verdict'[v] = "reading" /\ seen'[v] = written'
  BY <1>2, <1>4 DEF ReasonToFail
<1>5. ASSUME NEW w \in Writer, CommitAndQueue(w)
      PROVE  verdict'[v] = "reading" /\ seen'[v] = written'
  BY <1>2, <1>5 DEF CommitAndQueue, Commit, ReasonToFail
<1>6. ASSUME NEW x \in Verifier, StartVerification(x)
      PROVE  verdict'[v] = "reading" /\ seen'[v] = written'
  <2>1. CASE x = v
    BY Zenon, <1>3, <1>6, <2>1 DEF StartVerification, ReadEvents
  <2>2. CASE x # v
    BY Zenon, <1>2, <1>6, <2>2 DEF StartVerification, ReadEvents, ReasonToFail
  <2> QED BY <2>1, <2>2
<1>7. ASSUME NEW x \in Verifier, EndVerification(x)
      PROVE  verdict'[v] = "reading" /\ seen'[v] = written'
  <2>1. CASE x = v
    <3>1. v \notin moved /\ verdict[v] = "reading"
      BY <1>7, <2>1 DEF EndVerification, ReadHead, trailVars
    <3>2. seen[v] = written
      BY <1>2, <3>1 DEF ReasonToFail
    <3>3. verdict'[v] = "valid"
      BY <1>7, <2>1, <3>2 DEF EndVerification, ReadHead, IInv, ChainIntact
    <3> QED BY <3>3
  <2>2. CASE x # v
    BY Zenon, <1>2, <1>7, <2>2 DEF EndVerification, ReadHead, trailVars, ReasonToFail
  <2> QED BY <2>1, <2>2
<1>8. CASE Write
  <2>1. ASSUME NEW w \in Writer,
               RollbackAndForget(w) \/ \E e \in Event : RecordAndArm(w, e)
        PROVE  UNCHANGED <<moved, verdict, seen, written>>
    BY Zenon, <2>1 DEF RollbackAndForget, Rollback, RecordAndArm, record_event, Append
  <2> QED BY SMTT(30), <1>4, <1>5, <1>8, <2>1 DEF Write
<1>9. CASE Verify
  <2>1. ASSUME NEW x \in Verifier,
               audit_export(x) \/ ExportFails(x) \/ \E e \in Event : RecordExport(x, e)
        PROVE  UNCHANGED <<moved, verdict, seen, written>>
    BY <2>1 DEF audit_export, ReadExport, ExportFails, RecordExport, record_event, Append, chainVars
  <2>2. ASSUME NEW r \in rows, DamageRow(r) PROVE UNCHANGED <<moved, verdict, seen, written>>
    BY <2>2 DEF DamageRow, Damage
  <2> QED BY Zenon, <1>4, <1>6, <1>7, <1>9, <2>1, <2>2 DEF Verify
<1>10. CASE Forward \/ UNCHANGED auditVars
  <2>1. UNCHANGED <<moved, verdict, seen, written>>
    BY Zenon, <1>10, ForwardOnly DEF chainVars, auditVars, trailVars
  <2> QED BY <1>4, <2>1
<1> QED BY <1>8, <1>9, <1>10 DEF TrailNext

\* What was written stays written.
LEMMA WrittenGrows == [TrailNext]_auditVars => written \subseteq written'
<1> SUFFICES ASSUME [Next]_chainVars PROVE written \subseteq written'
  BY TrailStepsAreChainSteps
<1> QED
  BY DEF Next, chainVars, record_event, Append, Commit, Rollback, ReadEvents, ReadHead, Damage

\* Nothing but damage takes a row that a verification has read from the table.
LEMMA ReadsStep ==
  IInv /\ TrailTypes /\ ReadsLast /\ [TrailNext]_auditVars => ReadsLast'
<1> DEFINE Lasts(v) ==
      /\ verdict[v] # "none" /\ ~spoilt[v]
           => seen[v] \subseteq rows /\ rows \subseteq seen[v] \cup written
      /\ verdict[v] = "valid" => seen[v] \subseteq written
<1> SUFFICES ASSUME IInv, TrailTypes, ReadsLast, [TrailNext]_auditVars, NEW v \in Verifier
             PROVE  Lasts(v)'
  BY Zenon DEF ReadsLast
<1>t. /\ verdict \in [Verifier -> {"none", "reading", "valid", "failed"}]
      /\ seen \in [Verifier -> SUBSET Row]
      /\ spoilt \in [Verifier -> BOOLEAN]
  BY DEF IInv, TypeOK, TrailTypes
<1> USE <1>t
<1>0. Lasts(v)
  BY DEF ReadsLast
<1>1. ASSUME UNCHANGED <<verdict, seen, spoilt, rows, written>> PROVE Lasts(v)'
  BY Zenon, <1>0, <1>1
<1>2. ASSUME NEW w \in Writer, CommitAndQueue(w) PROVE Lasts(v)'
  BY <1>0, <1>2 DEF CommitAndQueue, Commit
<1>3. ASSUME NEW x \in Verifier, StartVerification(x) PROVE Lasts(v)'
  <2>1. CASE x = v
    BY Zenon, <1>3, <2>1 DEF StartVerification, ReadEvents
  <2>2. CASE x # v
    BY Zenon, <1>0, <1>3, <2>2 DEF StartVerification, ReadEvents
  <2> QED BY Zenon, <2>1, <2>2
<1>4. ASSUME NEW x \in Verifier, EndVerification(x) PROVE Lasts(v)'
  <2>1. CASE x = v
    <3>1. /\ verdict[v] = "reading"
          /\ verdict'[v] = "valid" => Intact(seen[v])
          /\ UNCHANGED <<seen, spoilt, rows, written>>
      BY <1>4, <2>1 DEF EndVerification, ReadHead, trailVars
    <3>2. Intact(seen[v]) => seen[v] \subseteq written
      BY Zenon DEF IInv, Intact, UnalteredIsWritten
    <3> QED BY <1>0, <3>1, <3>2
  <2>2. CASE x # v
    BY Zenon, <1>0, <1>4, <2>2 DEF EndVerification, ReadHead, trailVars
  <2> QED BY Zenon, <2>1, <2>2
<1>5. ASSUME NEW r \in rows, DamageRow(r) PROVE Lasts(v)'
  BY <1>0, <1>5 DEF DamageRow, Damage
<1>6. CASE Write
  <2>1. ASSUME NEW w \in Writer,
               RollbackAndForget(w) \/ \E e \in Event : RecordAndArm(w, e)
        PROVE  UNCHANGED <<verdict, seen, spoilt, rows, written>>
    BY Zenon, <2>1 DEF RollbackAndForget, Rollback, RecordAndArm, record_event, Append
  <2> QED BY Zenon, <1>1, <1>2, <1>6, <2>1 DEF Write
<1>7. CASE Verify
  <2>1. ASSUME NEW x \in Verifier,
               audit_export(x) \/ ExportFails(x) \/ \E e \in Event : RecordExport(x, e)
        PROVE  UNCHANGED <<verdict, seen, spoilt, rows, written>>
    BY <2>1 DEF audit_export, ReadExport, ExportFails, RecordExport, record_event, Append, chainVars
  <2> QED BY Zenon, <1>1, <1>3, <1>4, <1>5, <1>7, <2>1 DEF Verify
<1>8. CASE Forward \/ UNCHANGED auditVars
  <2>1. UNCHANGED <<verdict, seen, spoilt, rows, written>>
    BY Zenon, <1>8, ForwardOnly DEF chainVars, auditVars, trailVars
  <2> QED BY <1>1, <2>1
<1> QED BY Zenon, <1>6, <1>7, <1>8 DEF TrailNext

\* An export keeps what it has read, and its own event is committed before it
\* is sent.
LEMMA ExportStep ==
  IInv /\ TrailTypes /\ ReadsLast /\ ExportsHold /\ [TrailNext]_auditVars => ExportsHold'
<1> DEFINE Holds(v) ==
      /\ export[v].state # "none" /\ ~spoilt[v] =>
           seen[v] \subseteq export[v].rows /\ export[v].rows \subseteq written
      /\ export[v].state = "recording" => export[v].receipt \in EventsOf(draft[v])
      /\ export[v].state = "sent" => export[v].receipt \in EventsOf(written)
<1> SUFFICES ASSUME IInv, TrailTypes, ReadsLast, ExportsHold, [TrailNext]_auditVars,
                    NEW v \in Verifier
             PROVE  Holds(v)'
  BY Zenon DEF ExportsHold
<1>t. /\ verdict \in [Verifier -> {"none", "reading", "valid", "failed"}]
      /\ seen \in [Verifier -> SUBSET Row]
      /\ spoilt \in [Verifier -> BOOLEAN]
      /\ export \in [Verifier -> Export]
      /\ draft \in [Writer -> SUBSET Row]
      /\ Verifier \subseteq Writer
  BY Zenon, TrailAssumption DEF IInv, TypeOK, TrailTypes
<1> USE <1>t
<1>0. Holds(v) /\ v \in Writer
  BY Zenon DEF ExportsHold
<1>1. ASSUME UNCHANGED <<export, spoilt, seen, written>>, draft[v] \subseteq draft'[v]
      PROVE  Holds(v)'
  BY Zenon, <1>0, <1>1 DEF EventsOf
<1>2. ASSUME NEW w \in Writer, CommitAndQueue(w) PROVE Holds(v)'
  <2>1. /\ written' = written \cup draft[w] /\ UNCHANGED <<seen, spoilt>>
        /\ draft' = [draft EXCEPT ![w] = {}]
    BY <1>2 DEF CommitAndQueue, Commit, Release
  <2>2. export'[v] = IF v = w /\ export[v].state = "recording"
                     THEN [export[v] EXCEPT !.state = "sent"] ELSE export[v]
    BY SMTT(30), <1>2 DEF CommitAndQueue
  <2>3. CASE v = w /\ export[v].state = "recording"
    <3>1. /\ export'[v].state = "sent" /\ export'[v].rows = export[v].rows
          /\ export'[v].receipt = export[v].receipt
      BY SMTT(30), <2>2, <2>3 DEF Export
    <3>2. EventsOf(draft[v]) \subseteq EventsOf(written') /\ written \subseteq written'
      BY Zenon, <2>1, <2>3 DEF EventsOf
    <3> QED BY Zenon, <1>0, <2>1, <2>3, <3>1, <3>2
  <2>4. CASE ~(v = w /\ export[v].state = "recording")
    <3>1. export'[v] = export[v] /\ (v # w => draft'[v] = draft[v])
      BY SMTT(30), <2>1, <2>2, <2>4
    <3>2. EventsOf(written) \subseteq EventsOf(written') /\ written \subseteq written'
      BY Zenon, <2>1 DEF EventsOf
    <3>3. export'[v].state = "recording" => export'[v].receipt \in EventsOf(draft'[v])
      BY Zenon, <1>0, <2>4, <3>1
    <3> QED BY Zenon, <1>0, <2>1, <3>1, <3>2, <3>3 DEF EventsOf
  <2> QED BY Zenon, <2>3, <2>4
<1>3. ASSUME NEW w \in Writer, RollbackAndForget(w) PROVE Holds(v)'
  <2>1. UNCHANGED <<written, seen, spoilt>> /\ draft' = [draft EXCEPT ![w] = {}]
    BY Zenon, <1>3 DEF RollbackAndForget, Rollback, Release
  <2>2. export'[v] = IF v = w /\ export[v].state = "recording" THEN NoExport ELSE export[v]
    BY <1>3 DEF RollbackAndForget
  <2>3. NoExport.state = "none"
    BY SMTT(30) DEF NoExport
  <2> QED BY Zenon, <1>0, <2>1, <2>2, <2>3 DEF EventsOf
<1>4. ASSUME NEW w \in Writer, NEW e \in Event, RecordAndArm(w, e) PROVE Holds(v)'
  <2>1. UNCHANGED <<export, spoilt, seen, written>> /\ draft[v] \subseteq draft'[v]
    BY ZenonT(60), <1>0, <1>4 DEF RecordAndArm, record_event, Append
  <2> QED BY Zenon, <1>1, <2>1
<1>5. ASSUME NEW x \in Verifier, StartVerification(x) PROVE Holds(v)'
  <2>1. UNCHANGED <<draft, written>>
    BY Zenon, <1>5 DEF StartVerification, ReadEvents
  <2>2. CASE x = v
    <3>1. export'[v].state = "none"
      BY Zenon, <1>5, <2>2 DEF StartVerification, NoExport
    <3> QED BY Zenon, <3>1
  <2>3. CASE x # v
    BY ZenonT(60), <1>0, <1>5, <2>1, <2>3 DEF StartVerification, ReadEvents
  <2> QED BY Zenon, <2>2, <2>3
<1>6. ASSUME NEW x \in Verifier, EndVerification(x) PROVE Holds(v)'
  BY Zenon, <1>1, <1>6 DEF EndVerification, ReadHead, trailVars
<1>7. ASSUME NEW x \in Verifier, audit_export(x) PROVE Holds(v)'
  <2>1. /\ UNCHANGED <<draft, written, seen, spoilt>> /\ verdict[x] = "valid"
        /\ export' = [export EXCEPT ![x] = [export[x] EXCEPT !.state = "read", !.rows = rows]]
    BY Zenon, <1>7 DEF audit_export, ReadExport, chainVars
  <2>2. CASE x = v
    <3>1. export'[v].state = "read" /\ export'[v].rows = rows
      BY <2>1, <2>2 DEF Export
    <3>2. ~spoilt[v] => seen[v] \subseteq rows /\ rows \subseteq written
      BY <2>1, <2>2 DEF ReadsLast
    <3> QED BY <2>1, <3>1, <3>2
  <2>3. CASE x # v
    BY SMTT(30), <1>0, <2>1, <2>3
  <2> QED BY Zenon, <2>2, <2>3
<1>8. ASSUME NEW x \in Verifier, ExportFails(x) PROVE Holds(v)'
  <2>1. /\ UNCHANGED <<draft, written, seen, spoilt>>
        /\ export' = [export EXCEPT ![x] = NoExport]
    BY Zenon, <1>8 DEF ExportFails, chainVars
  <2>2. NoExport.state = "none"
    BY SMTT(30) DEF NoExport
  <2> QED BY Zenon, <1>0, <2>1, <2>2
<1>9. ASSUME NEW x \in Verifier, NEW e \in Event, RecordExport(x, e) PROVE Holds(v)'
  <2>1. /\ UNCHANGED <<written, seen, spoilt>> /\ export[x].state = "read"
        /\ export' = [export EXCEPT ![x] =
                        [export[x] EXCEPT !.state = "recording", !.receipt = e]]
        /\ draft[v] \subseteq draft'[v]
    BY Zenon, <1>0, <1>9 DEF RecordExport, record_event, Append
  <2>2. e \in EventsOf(draft'[x])
    <3>1. PICK r : /\ r.event = e
                   /\ draft' = [draft EXCEPT ![x] = @ \cup {r}]
                   /\ written' = written
      <4>1. x \in Writer /\ record_event(x, e)
        BY <1>9 DEF RecordExport
      <4> QED BY <4>1, RecordedRow
    <3> QED BY Zenon, <3>1 DEF EventsOf
  <2>3. CASE x = v
    <3>1. /\ export'[v].state = "recording" /\ export'[v].rows = export[v].rows
          /\ export'[v].receipt = e
      BY <2>1, <2>3 DEF Export
    <3> QED BY <1>0, <2>1, <2>2, <2>3, <3>1 DEF EventsOf
  <2>4. CASE x # v
    BY <1>0, <2>1, <2>4 DEF EventsOf
  <2> QED BY Zenon, <2>3, <2>4
<1>10. ASSUME NEW r \in rows, DamageRow(r) PROVE Holds(v)'
  BY SMTT(30), <1>0, <1>10 DEF DamageRow, Damage, EventsOf
<1>11. CASE Forward \/ UNCHANGED auditVars
  <2>1. UNCHANGED <<export, spoilt, seen, written, draft>>
    BY Zenon, <1>11, ForwardOnly DEF chainVars, auditVars, trailVars
  <2> QED BY Zenon, <1>1, <2>1
<1> QED
  BY Zenon, <1>2, <1>3, <1>4, <1>5, <1>6, <1>7, <1>8, <1>9, <1>10, <1>11 DEF TrailNext, Write, Verify

-----------------------------------------------------------------------------
\* What a transaction will queue is what it has recorded, and what it queues is
\* committed.
LEMMA LeavesStep ==
  IInv /\ TrailTypes /\ ArmedIsDrafted /\ CommittedLeaves /\ [TrailNext]_auditVars
    => ArmedIsDrafted' /\ CommittedLeaves'
<1> SUFFICES ASSUME IInv, TrailTypes, ArmedIsDrafted, CommittedLeaves, [TrailNext]_auditVars
             PROVE  ArmedIsDrafted' /\ CommittedLeaves'
  OBVIOUS
<1>t. /\ armed \in [Writer -> SUBSET Event]
      /\ draft \in [Writer -> SUBSET Row]
      /\ task \in [Event -> Task]
      /\ received \in [Integration -> SUBSET Event]
  BY DEF IInv, TypeOK, TrailTypes
<1> USE <1>t
<1>0. EventsOf(written) \subseteq EventsOf(written')
  BY WrittenGrows DEF EventsOf
<1>1. ASSUME UNCHANGED <<armed, draft, task, received>>
      PROVE  ArmedIsDrafted' /\ CommittedLeaves'
  BY Zenon, <1>0, <1>1 DEF ArmedIsDrafted, CommittedLeaves, EventsOf
<1>2. ASSUME NEW w \in Writer, CommitAndQueue(w) PROVE ArmedIsDrafted' /\ CommittedLeaves'
  <2>1. /\ written' = written \cup draft[w] /\ draft' = [draft EXCEPT ![w] = {}]
        /\ armed' = [armed EXCEPT ![w] = {}] /\ received' = received
        /\ \A e \in Event : e \notin armed[w] => task'[e] = task[e]
    BY SMTT(30), <1>2 DEF CommitAndQueue, Commit, Release
  <2>2. ArmedIsDrafted'
    BY Zenon, <2>1 DEF ArmedIsDrafted, EventsOf
  <2>3. armed[w] \subseteq EventsOf(written')
    BY Zenon, <2>1 DEF ArmedIsDrafted, EventsOf
  <2>4. CommittedLeaves'
    BY Zenon, <1>0, <2>1, <2>3 DEF CommittedLeaves, EventsOf
  <2> QED BY <2>2, <2>4
<1>3. ASSUME NEW w \in Writer, RollbackAndForget(w) PROVE ArmedIsDrafted' /\ CommittedLeaves'
  <2>1. /\ UNCHANGED <<written, task, received>> /\ draft' = [draft EXCEPT ![w] = {}]
        /\ armed' = [armed EXCEPT ![w] = {}]
    BY Zenon, <1>3 DEF RollbackAndForget, Rollback, Release
  <2> QED BY Zenon, <2>1 DEF ArmedIsDrafted, CommittedLeaves, EventsOf
<1>4. ASSUME NEW w \in Writer, NEW e \in Event, record_event(w, e),
             armed' = [armed EXCEPT ![w] = @ \cup {x \in {e} : enabled # {}}],
             UNCHANGED <<task, received>>
      PROVE  ArmedIsDrafted' /\ CommittedLeaves'
  <2>1. PICK r : /\ r.event = e /\ draft' = [draft EXCEPT ![w] = @ \cup {r}]
                 /\ written' = written
    BY Zenon, <1>4, RecordedRow
  <2>2. ArmedIsDrafted'
    <3>1. ASSUME NEW u \in Writer PROVE armed'[u] \subseteq EventsOf(draft'[u])
      <4>0. armed[u] \subseteq EventsOf(draft[u])
        BY Zenon DEF ArmedIsDrafted
      <4>1. CASE u = w
        <5>1. armed'[u] \subseteq armed[u] \cup {e}
          <6>1. armed'[u] = armed[u] \cup {x \in {e} : enabled # {}}
            BY Zenon, <1>4, <4>1
          <6> QED BY Zenon, <6>1
        <5>2. draft'[u] = draft[u] \cup {r}
          BY Zenon, <2>1, <4>1
        <5>3. e \in EventsOf(draft'[u])
          BY Zenon, <2>1, <5>2 DEF EventsOf
        <5>4. EventsOf(draft[u]) \subseteq EventsOf(draft'[u])
          BY Zenon, <5>2 DEF EventsOf
        <5> QED BY Zenon, <4>0, <5>1, <5>3, <5>4
      <4>2. CASE u # w
        BY Zenon, <1>4, <2>1, <4>0, <4>2
      <4> QED BY Zenon, <4>1, <4>2
    <3> QED BY Zenon, <3>1 DEF ArmedIsDrafted, EventsOf
  <2> QED BY Zenon, <1>0, <1>4, <2>1, <2>2 DEF CommittedLeaves, EventsOf
<1>5. CASE Write
  BY Zenon, <1>2, <1>3, <1>4, <1>5 DEF Write, RecordAndArm
<1>6. CASE Verify
  <2>1. ASSUME NEW v \in Verifier, StartVerification(v) \/ EndVerification(v)
        PROVE  UNCHANGED <<armed, draft, task, received>>
    BY Zenon, <2>1 DEF StartVerification, ReadEvents, EndVerification, ReadHead, trailVars
  <2>2. ASSUME NEW v \in Verifier, audit_export(v) \/ ExportFails(v)
        PROVE  UNCHANGED <<armed, draft, task, received>>
    BY <2>2 DEF audit_export, ReadExport, ExportFails, chainVars
  <2>3. ASSUME NEW r \in rows, DamageRow(r) PROVE UNCHANGED <<armed, draft, task, received>>
    BY <2>3 DEF DamageRow, Damage
  <2>4. ASSUME NEW v \in Verifier, NEW e \in Event, RecordExport(v, e)
        PROVE  ArmedIsDrafted' /\ CommittedLeaves'
    BY <1>4, <2>4, TrailAssumption DEF RecordExport
  <2> QED BY Zenon, <1>1, <1>6, <2>1, <2>2, <2>3, <2>4 DEF Verify
<1>7. ASSUME NEW e \in Event, TaskStep(e) PROVE ArmedIsDrafted' /\ CommittedLeaves'
  <2>1. /\ UNCHANGED <<armed, draft, written>>
        /\ \A x \in Event : x # e => task'[x] = task[x]
        /\ task[e].state # "none"
        /\ \A i \in Integration : received'[i] \subseteq received[i] \cup {e}
    BY Zenon, <1>7, TaskStepFrame DEF chainVars
  <2> QED BY Zenon, <2>1 DEF ArmedIsDrafted, CommittedLeaves, EventsOf
<1>8. ASSUME NEW i \in Integration, siem_integrations(i)
      PROVE  UNCHANGED <<armed, draft, task, received>>
  BY <1>8 DEF siem_integrations, chainVars
<1>9. CASE UNCHANGED auditVars
  BY Zenon, <1>1, <1>9 DEF auditVars, chainVars, trailVars
<1> QED BY Zenon, <1>1, <1>5, <1>6, <1>7, <1>8, <1>9 DEF TrailNext, Forward

\* A collector is counted as served only once it has the event.
LEMMA DeliveryStep ==
  IInv /\ TrailTypes /\ RoundsDeliver /\ LedgerIsTrue /\ [TrailNext]_auditVars
    => RoundsDeliver' /\ LedgerIsTrue'
<1> DEFINE Serves(e) ==
      /\ task[e].state \in {"running", "sent", "unsure", "refused", "done"} =>
           \A i \in task[e].round \ task[e].left : e \in received[i]
      /\ task[e].state = "sent" /\ Current(e) \in Integration => e \in received[Current(e)]
      /\ task[e].state = "done" => task[e].left = {}
<1> SUFFICES ASSUME IInv, TrailTypes, RoundsDeliver, LedgerIsTrue, [TrailNext]_auditVars
             PROVE  RoundsDeliver' /\ LedgerIsTrue'
  OBVIOUS
<1>t. /\ task \in [Event -> Task]
      /\ ledger \in [Integration -> [Event -> {"none", "delivered", "failed"}]]
      /\ received \in [Integration -> SUBSET Event]
  BY Zenon DEF IInv, TypeOK, TrailTypes
<1> USE <1>t
<1>0. \A x \in Event : Serves(x)
  BY Zenon DEF RoundsDeliver
<1>1. ASSUME NEW x \in Event, task'[x] = task[x],
             \A i \in Integration : received[i] \subseteq received'[i]
      PROVE  Serves(x)'
  <2>1. Current(x)' = Current(x)
    BY <1>1 DEF Current
  <2>2. task[x].round \subseteq Integration
    BY SMTT(30) DEF Task
  <2> HIDE DEF Current
  <2> QED BY Zenon, <1>0, <1>1, <2>1, <2>2
<1>2. ASSUME UNCHANGED <<ledger, received>>, \A x \in Event : task'[x] # task[x] => Serves(x)'
      PROVE  RoundsDeliver' /\ LedgerIsTrue'
  BY Zenon, <1>1, <1>2 DEF RoundsDeliver, LedgerIsTrue
<1>3. ASSUME NEW w \in Writer, CommitAndQueue(w) PROVE RoundsDeliver' /\ LedgerIsTrue'
  <2>1. ASSUME NEW x \in Event, task'[x] # task[x] PROVE task'[x].state = "queued"
    BY <1>3, <2>1 DEF CommitAndQueue, NoTask
  <2>2. UNCHANGED <<ledger, received>>
    BY <1>3 DEF CommitAndQueue
  <2> QED BY Zenon, <1>2, <2>1, <2>2
<1>4. ASSUME NEW e \in Event, TaskStep(e) PROVE RoundsDeliver' /\ LedgerIsTrue'
  <2>0. /\ \A x \in Event : x # e => task'[x] = task[x]
        /\ \A i \in Integration : received[i] \subseteq received'[i]
    BY Zenon, <1>4, TaskStepFrame
  <2>1. SUFFICES Serves(e)' /\ LedgerIsTrue'
    <3>1. ASSUME Serves(e)', NEW x \in Event PROVE Serves(x)'
      <4>1. CASE x = e
        BY Zenon, <3>1, <4>1
      <4>2. CASE x # e
        BY Zenon, <1>1, <2>0, <4>2
      <4> QED BY Zenon, <4>1, <4>2
    <3> QED BY Zenon, <3>1 DEF RoundsDeliver
  <2>2. CASE forward_audit_event(e)
    <3>1. /\ task'[e].state \in {"running", "failed"} /\ task'[e].round = task'[e].left
          /\ UNCHANGED <<ledger, received>>
      BY SMTT(30), <2>2 DEF forward_audit_event, Task
    <3> QED BY Zenon, <3>1 DEF LedgerIsTrue
  <2>3. CASE Deliver(e)
    <3>1. /\ task'[e].state = "running" /\ task'[e].round = task[e].round
          /\ task'[e].left = task[e].left \ {Current(e)} /\ task[e].state = "sent"
          /\ ledger' = [ledger EXCEPT ![Current(e)][e] = "delivered"] /\ received' = received
      BY SMTT(30), <2>3 DEF Deliver, Task
    <3>2. task[e].round \subseteq Integration
      BY DEF Task
    <3> HIDE DEF Current
    <3>3. Serves(e)'
      BY Zenon, <1>0, <3>1, <3>2
    <3>4. LedgerIsTrue'
      <4>1. ASSUME NEW i \in Integration, NEW x \in Event, ledger'[i][x] = "delivered"
            PROVE  x \in received'[i]
        <5>1. CASE i = Current(e) /\ x = e
          BY Zenon, <1>0, <3>1, <5>1
        <5>2. CASE ~(i = Current(e) /\ x = e)
          <6>1. ledger'[i][x] = ledger[i][x]
            BY Zenon, <3>1, <5>2
          <6> QED BY Zenon, <3>1, <4>1, <6>1 DEF LedgerIsTrue
        <5> QED BY Zenon, <5>1, <5>2
      <4> QED BY Zenon, <4>1 DEF LedgerIsTrue
    <3> QED BY Zenon, <3>3, <3>4
  <2>4. CASE Fail(e)
    <3>1. /\ task'[e].state \in {"queued", "failed"}
          /\ ledger' = [ledger EXCEPT ![Current(e)][e] = "failed"] /\ received' = received
      BY SMTT(30), <2>4 DEF Fail, Task
    <3> HIDE DEF Current
    <3> QED BY Zenon, <3>1 DEF LedgerIsTrue
  <2>5. CASE EndTask(e)
    <3>1. /\ task'[e].state = "done" /\ task'[e].left = {} /\ task[e].left = {}
          /\ task'[e].round = task[e].round /\ task[e].state = "running"
          /\ UNCHANGED <<ledger, received>>
      BY SMTT(30), <2>5 DEF EndTask, Task
    <3> QED BY Zenon, <1>0, <3>1 DEF LedgerIsTrue
  <2>6. ASSUME NEW outcome \in {"sent", "unsure", "refused"}, NEW arrives \in BOOLEAN,
               _send(e, outcome, arrives)
        PROVE  Serves(e)' /\ LedgerIsTrue'
    <3>1. /\ task'[e].state = outcome /\ task'[e].left = task[e].left
          /\ task'[e].round = task[e].round /\ task[e].state = "running" /\ ledger' = ledger
          /\ Current(e) \in Integration /\ outcome = "sent" => e \in received'[Current(e)]
      BY SMTT(30), <2>6 DEF _send, Task
    <3>2. Current(e)' = Current(e)
      BY Zenon, <3>1 DEF Current
    <3>3. task[e].round \subseteq Integration
      BY SMTT(30) DEF Task
    <3> HIDE DEF Current
    <3> QED BY Zenon, <1>0, <2>0, <3>1, <3>2, <3>3 DEF LedgerIsTrue
  <2> QED BY Zenon, <1>4, <2>2, <2>3, <2>4, <2>5, <2>6 DEF TaskStep
<1>5. CASE Write
  <2>1. ASSUME NEW w \in Writer,
               RollbackAndForget(w) \/ \E e \in Event : RecordAndArm(w, e)
        PROVE  UNCHANGED <<task, ledger, received>>
    BY Zenon, <2>1 DEF RollbackAndForget, RecordAndArm
  <2> QED BY Zenon, <1>2, <1>3, <1>5, <2>1 DEF Write
<1>6. CASE Verify \/ UNCHANGED auditVars
  <2>1. UNCHANGED <<task, ledger, received>>
    BY Zenon, <1>6 DEF Verify, StartVerification, EndVerification, audit_export, ReadExport, ExportFails,
                RecordExport, DamageRow, auditVars, trailVars
  <2> QED BY Zenon, <1>2, <2>1
<1>7. ASSUME NEW i \in Integration, siem_integrations(i) PROVE RoundsDeliver' /\ LedgerIsTrue'
  BY Zenon, <1>2, <1>7 DEF siem_integrations
<1> QED BY <1>4, <1>5, <1>6, <1>7 DEF TrailNext, Forward

-----------------------------------------------------------------------------
TrailInv ==
  /\ IInv /\ Provenance /\ TrailTypes
  /\ ReasonToFail /\ ReadsLast /\ ExportsHold
  /\ ArmedIsDrafted /\ CommittedLeaves /\ RoundsDeliver /\ LedgerIsTrue

\* The inductive invariant of the trail holds in every reachable state.
THEOREM TrailInvariance == TrailSpec => []TrailInv
<1>1. TrailInit => TrailInv
  <2> SUFFICES ASSUME TrailInit PROVE TrailInv
    OBVIOUS
  <2>1. IInv
    BY InitInv DEF TrailInit
  <2>2. Provenance /\ ArmedIsDrafted
    BY Zenon DEF TrailInit, Init, Provenance, DraftsAreNew, RowsAreKnown, ArmedIsDrafted, EventsOf
  <2>3. TrailTypes
    BY Zenon DEF TrailInit, TrailTypes, NoTask, NoExport, Task, Stage, Export
  <2>4. ReasonToFail /\ ReadsLast
    BY Zenon DEF TrailInit, Init, ReasonToFail, ReadsLast
  <2>5. ExportsHold
    BY Zenon DEF TrailInit, ExportsHold, NoExport
  <2>6. CommittedLeaves /\ RoundsDeliver /\ LedgerIsTrue
    BY Zenon DEF TrailInit, CommittedLeaves, RoundsDeliver, LedgerIsTrue, NoTask
  <2> QED BY <2>1, <2>2, <2>3, <2>4, <2>5, <2>6 DEF TrailInv
<1>2. TrailInv /\ [TrailNext]_auditVars => TrailInv'
  BY Zenon, TrailStepsAreChainSteps, NextInv, ProvenanceStep, TrailTyping, ReasonStep, ReadsStep,
     ExportStep, LeavesStep, DeliveryStep DEF TrailInv
<1> QED BY <1>1, <1>2, PTL DEF TrailSpec

\* verify_audit_chain fails only if the table is not what was written, or an event
\* was committed while it ran.
THEOREM FailuresHaveAReason == TrailSpec => []FailedMeansDamagedOrMoved
<1>1. TrailInv => FailedMeansDamagedOrMoved
  BY DEF TrailInv, ReasonToFail, FailedMeansDamagedOrMoved
<1> QED BY <1>1, TrailInvariance, PTL

\* What audit_export sends holds all that its verification has read, as written,
\* unless the table was damaged meanwhile, and is itself in the log.
THEOREM ExportsAreVerified == TrailSpec => []ExportsWhatWasVerified
<1>1. TrailInv => ExportsWhatWasVerified
  BY Zenon DEF TrailInv, ExportsHold, ExportsWhatWasVerified, EventsOf
<1> QED BY <1>1, TrailInvariance, PTL

\* forward_audit_event runs, and collectors hear, of committed events only.
THEOREM LeavesOnCommit == TrailSpec => []OnlyCommittedLeaves
<1>1. TrailInv => OnlyCommittedLeaves
  BY Zenon DEF TrailInv, CommittedLeaves, OnlyCommittedLeaves, EventsOf
<1> QED BY <1>1, TrailInvariance, PTL

\* A delivery on record, and a task that ended well, mean that the collectors have
\* the event, whatever was retried (deliver_event, forward_audit_event).
THEOREM DeliveriesAreReal == TrailSpec => []DeliveredMeansReceived
<1>1. TrailInv => DeliveredMeansReceived
  BY Zenon DEF TrailInv, TrailTypes, RoundsDeliver, LedgerIsTrue, DeliveredMeansReceived
<1> QED BY <1>1, TrailInvariance, PTL
=============================================================================
