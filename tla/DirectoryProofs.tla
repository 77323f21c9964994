-------------------------- MODULE DirectoryProofs ---------------------------
(***************************************************************************)
(* Memberships from directories, for any number of sources, mappings and   *)
(* groups.                                                                 *)
(*                                                                         *)
(* What a person is owed is not inductive: a record that is deleted takes  *)
(* the membership with it unless its preserve_membership_on_unlink says    *)
(* otherwise.  The invariant says what that column may hold: TRUE on every *)
(* record of a group that is their own, FALSE on the one record of a group *)
(* that was given.                                                         *)
(***************************************************************************)
EXTENDS Directory, TLAPS, FiniteSetTheorems

Row == [mapping : Mapping, preserve : BOOLEAN]
Fallback == [group : UserGroup, preserve : BOOLEAN]

DirectoryTypes ==
  /\ managed \subseteq Row
  /\ fallback \in [Source -> SUBSET Fallback]
  /\ member \subseteq UserGroup /\ byHand \subseteq UserGroup /\ mixed \subseteq UserGroup
  /\ mapping \in [Mapping -> Columns]
  /\ source \in [Source -> [enabled : BOOLEAN, default : UserGroup \cup {NoUserGroup}]]
  /\ syncing \in [Syncer -> [source : Source \cup {NoEntry}, entry : Entry \cup {NoEntry},
                             fetched : BOOLEAN]]

\* Some record manages the group.
Gives(rows, defaults, g) ==
  Giving(rows, g) # {} \/ \E s \in Source : \E f \in defaults[s] : f.group = g

\* Every record that manages the group leaves the person in it.
Preserved(rows, defaults, g) ==
  /\ \A r \in Giving(rows, g) : r.preserve
  /\ \A s \in Source : \A f \in defaults[s] : f.group = g => f.preserve

\* Every record that manages the group takes the person out of it with it.
Revocable(rows, defaults, g) ==
  /\ \A r \in Giving(rows, g) : ~r.preserve
  /\ \A s \in Source : \A f \in defaults[s] : f.group = g => ~f.preserve

\* One record manages the group, at most.
Single(rows, defaults, g) ==
  /\ \A r, q \in Giving(rows, g) : r = q
  /\ \A s, t \in Source :
       (\E f \in defaults[s] : f.group = g) /\ (\E f \in defaults[t] : f.group = g) => s = t
  /\ \A s \in Source : \A f \in defaults[s] : f.group = g => Giving(rows, g) = {}

\* What the person was put in by hand is only ever managed to be left alone.  What
\* they were not put in by hand is theirs through one record, which takes it away
\* when it goes.
Owed(rows, defaults, groups, own, mix) ==
  /\ \A g \in own \ mix : g \in groups /\ Preserved(rows, defaults, g)
  /\ \A g \in UserGroup \ (own \cup mix) :
       /\ g \in groups => Gives(rows, defaults, g)
       /\ Revocable(rows, defaults, g)
       /\ Single(rows, defaults, g)

DirectoryInv == DirectoryTypes /\ Owed(managed, fallback, member, byHand, mixed)

-----------------------------------------------------------------------------
\* Records are finitely many.
LEMMA FiniteRows == IsFiniteSet(Row)
<1> DEFINE f == [r \in Row |-> <<r.mapping, r.preserve>>]
<1>1. IsFiniteSet(BOOLEAN)
  <2>1. BOOLEAN = {TRUE, FALSE} /\ {TRUE, FALSE} = {TRUE} \cup {FALSE}
    BY Zenon
  <2>2. IsFiniteSet({TRUE}) /\ IsFiniteSet({TRUE} \cup {FALSE})
    BY FS_Singleton, FS_AddElement, Zenon
  <2> QED BY <2>1, <2>2, Zenon
<1>2. IsFiniteSet(Mapping \X BOOLEAN)
  BY <1>1, FS_Product, DirectoryAssumption, Zenon
<1>3. f \in [Row -> Mapping \X BOOLEAN] /\ \A a, b \in Row : f[a] = f[b] => a = b
  <2>1. \A r \in Row : <<r.mapping, r.preserve>> \in Mapping \X BOOLEAN
    BY DEF Row
  <2>2. ASSUME NEW a \in Row, NEW b \in Row, f[a] = f[b] PROVE a = b
    <3>1. a.mapping = b.mapping /\ a.preserve = b.preserve
      BY <2>2
    <3>2. a = [mapping |-> a.mapping, preserve |-> a.preserve]
          /\ b = [mapping |-> b.mapping, preserve |-> b.preserve]
      BY Zenon DEF Row
    <3> QED BY <3>1, <3>2, Zenon
  <2> QED BY <2>1, <2>2, Zenon
<1>4. f \in Injection(Row, Mapping \X BOOLEAN)
  BY <1>3, Zenon DEF Injection, IsInjective
<1> QED
  BY <1>2, <1>4, FS_Injection, Zenon

\* Two things are more than one.
LEMMA AtMostOne ==
  ASSUME NEW S, IsFiniteSet(S), Cardinality(S) <= 1, NEW x \in S, NEW y \in S
  PROVE  x = y
<1> SUFFICES ASSUME x # y PROVE FALSE
  OBVIOUS
<1>1. IsFiniteSet({x}) /\ Cardinality({x}) = 1
  BY FS_Singleton, Zenon
<1>2. IsFiniteSet({x} \cup {y}) /\ Cardinality({x} \cup {y}) = 1 + 1
  <2>1. y \notin {x}
    OBVIOUS
  <2> QED BY <1>1, <2>1, FS_AddElement, Zenon
<1>3. Cardinality({x} \cup {y}) <= Cardinality(S)
  <2>1. {x} \cup {y} \in SUBSET S
    OBVIOUS
  <2> QED BY <2>1, FS_Subset, Zenon
<1>4. Cardinality(S) \in Nat
  BY FS_CardinalityType, Zenon
<1> QED
  BY <1>2, <1>3, <1>4

\* A group that is not counted among the overlapping ones has one record.
LEMMA NoOverlap ==
  ASSUME NEW rows \in SUBSET Row, NEW defaults, NEW g \in UserGroup, g \notin Overlaps(rows, defaults)
  PROVE  Single(rows, defaults, g)
<1> DEFINE A == Giving(rows, g)
           B == {s \in Source : \E f \in defaults[s] : f.group = g}
<1>1. IsFiniteSet(A)
  <2>1. A \in SUBSET Row
    BY DEF Giving
  <2> QED BY <2>1, FiniteRows, FS_Subset, Zenon
<1>2. IsFiniteSet(B)
  <2>1. B \in SUBSET Source
    OBVIOUS
  <2> QED BY <2>1, DirectoryAssumption, FS_Subset, Zenon
<1>3. ~(Cardinality(A) + Cardinality(B) > 1)
  BY DEF Overlaps
<1>4. \A s \in Source : s \in B <=> \E f \in defaults[s] : f.group = g
  OBVIOUS
<1> HIDE DEF A, B
<1>5. Cardinality(A) \in Nat /\ Cardinality(B) \in Nat
  BY <1>1, <1>2, FS_CardinalityType, Zenon
<1>6. Cardinality(A) <= 1 /\ Cardinality(B) <= 1 /\ (Cardinality(A) = 0 \/ Cardinality(B) = 0)
  BY <1>3, <1>5
<1>7. \A r, q \in A : r = q
  BY <1>1, <1>6, AtMostOne, Zenon
<1>8. \A s, t \in B : s = t
  BY <1>2, <1>6, AtMostOne, Zenon
<1>9. A = {} \/ B = {}
  BY <1>1, <1>2, <1>6, FS_EmptySet, Zenon
<1> QED
  BY <1>4, <1>7, <1>8, <1>9, Zenon DEF Single, A

\* What is left of the rows of an identity, and of the memberships.
Reconciliation(s, matched, R, gone, left) ==
  LET existing == RowsOf(s, managed)
      old == {r \in existing : r.mapping \notin matched}
      new == Unmanaged(matched, existing)
  IN  /\ R \subseteq [mapping : new, preserve : BOOLEAN]
      /\ Created(new, member, R)
      /\ gone \subseteq UserGroup
      /\ left.rows = (managed \ old) \cup R
      /\ left.groups = (member \cup {GroupOf(r) : r \in R}) \ gone
      /\ Unlinked(old, left.rows, gone)

LEMMA ReconcileParts ==
  ASSUME NEW s, NEW matched, NEW left \in reconcile_external_memberships(s, matched)
  PROVE  \E R, gone : Reconciliation(s, matched, R, gone, left)
<1> DEFINE existing == RowsOf(s, managed)
           old == {r \in existing : r.mapping \notin matched}
           new == Unmanaged(matched, existing)
           made == {R \in SUBSET [mapping : new, preserve : BOOLEAN] : Created(new, member, R)}
           Kept(R) == (managed \ old) \cup R
<1>1. PICK p \in {q \in made \X SUBSET UserGroup : Unlinked(old, Kept(q[1]), q[2])} :
        left = [rows |-> Kept(p[1]), groups |-> (member \cup {GroupOf(r) : r \in p[1]}) \ p[2]]
  BY Zenon DEF reconcile_external_memberships
<1>2. p[1] \in made /\ p[2] \in SUBSET UserGroup /\ Unlinked(old, Kept(p[1]), p[2])
  BY <1>1
<1>3. left.rows = Kept(p[1]) /\ left.groups = (member \cup {GroupOf(r) : r \in p[1]}) \ p[2]
  BY <1>1
<1>4. Reconciliation(s, matched, p[1], p[2], left)
  BY <1>2, <1>3, Zenon DEF Reconciliation
<1> QED
  BY <1>4

\* The memberships once the mappings have been reconciled, before a default group.
Settled(left) ==
  /\ left.rows \subseteq Row /\ left.groups \subseteq UserGroup
  /\ Owed(left.rows, fallback, left.groups, byHand,
          mixed \cup Overlaps(managed \cup left.rows, fallback))

\* reconcile_external_memberships keeps what is the person's own, and takes away
\* what only the rows it deletes gave.
LEMMA Reconciling ==
  ASSUME DirectoryInv, NEW s, NEW matched \in SUBSET Mapping, \A m \in matched : SourceOf[m] = s,
         NEW left \in reconcile_external_memberships(s, matched)
  PROVE  Settled(left)
<1>1. PICK R, gone : Reconciliation(s, matched, R, gone, left)
  BY ReconcileParts
<1>2. PICK old, new : 
        /\ old = {r \in RowsOf(s, managed) : r.mapping \notin matched}
        /\ new = Unmanaged(matched, RowsOf(s, managed))
  BY Zenon
<1>3. /\ R \subseteq [mapping : new, preserve : BOOLEAN]
      /\ Created(new, member, R)
      /\ gone \subseteq UserGroup
      /\ left.rows = (managed \ old) \cup R
      /\ left.groups = (member \cup {GroupOf(r) : r \in R}) \ gone
      /\ Unlinked(old, left.rows, gone)
  BY <1>1, <1>2, Zenon DEF Reconciliation
<1>4. /\ managed \subseteq Row /\ member \subseteq UserGroup /\ mapping \in [Mapping -> Columns]
  BY DEF DirectoryInv, DirectoryTypes
<1>5. new \subseteq Mapping /\ new \subseteq matched /\ old \subseteq managed
  BY <1>2 DEF Unmanaged, RowsOf
<1>6. R \subseteq Row
  BY <1>3, <1>5 DEF Row
<1>7. \A r \in R : r \notin managed
  <2> SUFFICES ASSUME NEW r \in R, r \in managed PROVE FALSE
    OBVIOUS
  <2>1. r.mapping \in new
    BY <1>3
  <2>2. r.mapping \in matched /\ r.mapping \notin MappingsOf(RowsOf(s, managed))
    BY <1>2, <2>1 DEF Unmanaged
  <2>3. r \in RowsOf(s, managed)
    BY <2>2 DEF RowsOf
  <2> QED BY <2>2, <2>3 DEF MappingsOf
<1>8. \A r \in Row : GroupOf(r) \in UserGroup
  BY <1>4 DEF GroupOf, Row, Columns
<1>9. left.rows \subseteq Row /\ left.groups \subseteq UserGroup
  BY <1>3, <1>4, <1>6, <1>8
<1>10. ASSUME NEW g \in byHand \ mixed
       PROVE  g \in left.groups /\ Preserved(left.rows, fallback, g)
  <2>1. g \in member /\ Preserved(managed, fallback, g) /\ g \in UserGroup
    BY DEF DirectoryInv, Owed, DirectoryTypes
  <2>2. g \notin gone
    BY <1>3, <1>5, <2>1 DEF Unlinked, Preserved, Giving
  <2>3. \A r \in Giving(R, g) : r.preserve
    <3> DEFINE N == {r \in Giving(R, g) : ~r.preserve}
    <3> SUFFICES N = {}
      OBVIOUS
    <3>1. N \in SUBSET Row
      BY <1>6 DEF Giving
    <3>2. Giving(R, g) # {} => Cardinality(N) = 0
      BY <1>3, <2>1 DEF Created
    <3>3. IsFiniteSet(N)
      BY <3>1, FiniteRows, FS_Subset, Zenon
    <3>4. Cardinality(N) = 0 => N = {}
      BY <3>3, FS_EmptySet, Zenon
    <3> QED BY <3>2, <3>4
  <2> QED BY <1>3, <2>1, <2>2, <2>3 DEF Preserved, Giving
<1>11. ASSUME NEW g \in UserGroup \ (byHand \cup mixed \cup Overlaps(managed \cup left.rows, fallback))
       PROVE  /\ g \in left.groups => Gives(left.rows, fallback, g)
              /\ Revocable(left.rows, fallback, g)
              /\ Single(left.rows, fallback, g)
  <2>1. /\ g \in member => Gives(managed, fallback, g)
        /\ Revocable(managed, fallback, g)
    BY DEF DirectoryInv, Owed
  <2>2. Single(managed \cup left.rows, fallback, g)
    <3>1. managed \cup left.rows \in SUBSET Row
      BY <1>4, <1>9
    <3> QED BY <3>1, NoOverlap
  <2>3. Single(left.rows, fallback, g)
    BY <2>2 DEF Single, Giving
  <2>4. ASSUME g \in left.groups PROVE Gives(left.rows, fallback, g)
    <3>1. CASE \E r \in R : g = GroupOf(r)
      BY <1>3, <3>1 DEF Gives, Giving
    <3>2. CASE ~ \E r \in R : g = GroupOf(r)
      <4>1. g \in member /\ g \notin gone
        BY <1>3, <2>4, <3>2
      <4> SUFFICES ASSUME Giving(left.rows, g) = {}, Giving(managed, g) # {} PROVE FALSE
        BY <2>1, <4>1 DEF Gives
      <4>2. \A r \in Giving(managed, g) : r \in old
        BY <1>3 DEF Giving
      <4>3. Giving(old, g) # {} /\ \A r \in Giving(old, g) : ~r.preserve
        BY <1>5, <2>1, <4>2 DEF Giving, Revocable
      <4> QED BY Zenon, <1>3, <4>1, <4>3 DEF Unlinked
    <3> QED BY <3>1, <3>2
  <2>5. ASSUME NEW r \in Giving(R, g) PROVE ~r.preserve
    <3>1. r \in R /\ r \in Giving(managed \cup left.rows, g)
      BY <1>3 DEF Giving
    <3>2. Giving(managed, g) = {}
      <4> SUFFICES ASSUME NEW q \in Giving(managed, g) PROVE FALSE
        OBVIOUS
      <4>1. q \in Giving(managed \cup left.rows, g) /\ q \in managed
        BY DEF Giving
      <4>2. q = r
        BY <2>2, <3>1, <4>1 DEF Single
      <4> QED BY <1>7, <3>1, <4>1, <4>2
    <3>3. g \notin member
      BY Zenon, <2>1, <2>2, <3>1, <3>2 DEF Gives, Single
    <3> DEFINE N == {x \in Giving(R, g) : ~x.preserve}
    <3>4. Cardinality(N) = 1
      BY <1>3, <3>3 DEF Created
    <3>5. N # {}
      <4> HIDE DEF N
      <4>1. Cardinality({}) = 0
        BY FS_EmptySet, Zenon
      <4> QED BY <3>4, <4>1
    <3>6. PICK x \in N : TRUE
      BY <3>5
    <3>7. x \in Giving(managed \cup left.rows, g) /\ ~x.preserve
      BY <1>3 DEF Giving
    <3> QED BY <2>2, <3>1, <3>7 DEF Single
  <2>6. Revocable(left.rows, fallback, g)
    BY <1>3, <2>1, <2>5 DEF Revocable, Giving
  <2> QED BY <2>3, <2>4, <2>6
<1> QED
  BY <1>9, <1>10, <1>11 DEF Settled, Owed

\* A change of the default group keeps what is the person's own, and takes away
\* what only the record that it deletes gave.
LEMMA DefaultKeeps ==
  ASSUME DirectoryInv, NEW s \in Source, NEW left, Settled(left),
         NEW default \in UserGroup \cup {NoUserGroup},
         reconcile_oidc_default_membership(s, default, left.rows, left.groups),
         NEW mix, mix = mixed \cup Overlaps(managed \cup left.rows, fallback)
                              \cup Overlaps(left.rows, fallback')
  PROVE  /\ fallback' \in [Source -> SUBSET Fallback] /\ member' \subseteq UserGroup
         /\ Owed(left.rows, fallback', member', byHand, mix)
<1> DEFINE remain == left.groups \ LosesDefault(s, default, left.rows)
<1>1. /\ left.rows \subseteq Row /\ left.groups \subseteq UserGroup
      /\ fallback \in [Source -> SUBSET Fallback] /\ byHand \subseteq UserGroup
  BY DEF Settled, DirectoryInv, DirectoryTypes
<1>2. \A g \in byHand \ mix : g \in left.groups /\ Preserved(left.rows, fallback, g)
  BY Zenon DEF Settled, Owed
<1>3. \A g \in UserGroup \ (byHand \cup mix) :
        /\ g \in left.groups => Gives(left.rows, fallback, g)
        /\ Revocable(left.rows, fallback, g)
        /\ Single(left.rows, fallback, g)
  BY Zenon DEF Settled, Owed
<1>4. \A g \in UserGroup \ (byHand \cup mix) : Single(left.rows, fallback', g)
  <2>1. left.rows \in SUBSET Row
    BY <1>1
  <2> QED BY <2>1, NoOverlap
<1>5. CASE \E f \in fallback[s] : f.group = default
  <2>1. member' = left.groups /\ fallback' = fallback
    BY <1>5 DEF reconcile_oidc_default_membership
  <2> QED BY <1>1, <1>2, <1>3, <2>1, Zenon DEF Owed
<1>6. CASE ~ \E f \in fallback[s] : f.group = default
  <2>1. /\ member' = remain \cup ({default} \ {NoUserGroup})
        /\ fallback' = [fallback EXCEPT ![s] =
                         IF default = NoUserGroup THEN {}
                         ELSE {[group |-> default, preserve |-> default \in remain]}]
    BY <1>6 DEF reconcile_oidc_default_membership
  <2>2. /\ fallback' \in [Source -> SUBSET Fallback] /\ member' \subseteq UserGroup
    BY <1>1, <2>1 DEF Fallback
  <2>3. /\ \A t \in Source : t # s => fallback'[t] = fallback[t]
        /\ \A f \in fallback'[s] : /\ default # NoUserGroup /\ f.group = default
                                   /\ f.preserve <=> default \in remain
        /\ default # NoUserGroup => \E f \in fallback'[s] : f.group = default
    <3>1. \A t \in Source : t # s => fallback'[t] = fallback[t]
      BY Zenon, <1>1, <2>1
    <3>3. fallback'[s] = IF default = NoUserGroup THEN {}
                         ELSE {[group |-> default, preserve |-> default \in remain]}
      BY <1>1, <2>1
    <3>4. CASE default = NoUserGroup
      BY Zenon, <3>1, <3>3, <3>4
    <3>5. CASE default # NoUserGroup
      <4>1. PICK f : f = [group |-> default, preserve |-> default \in remain]
        BY Zenon
      <4>2. fallback'[s] = {f} /\ f.group = default /\ (f.preserve <=> default \in remain)
        BY <3>3, <3>5, <4>1, Zenon
      <4> QED BY <3>1, <3>5, <4>2, Zenon
    <3> QED BY Zenon, <3>4, <3>5
  <2>4. \A g \in UserGroup :
          g \in LosesDefault(s, default, left.rows) <=>
            /\ g # default
            /\ \E f \in fallback[s] : f.group = g /\ ~f.preserve
            /\ Giving(left.rows, g) = {}
            /\ \A t \in Source : t # s => ~ \E f \in fallback[t] : f.group = g
    BY DEF LosesDefault, FallbacksTo
  <2>5. \A g \in UserGroup : g \in remain <=> g \in left.groups
                                 /\ g \notin LosesDefault(s, default, left.rows)
    OBVIOUS
  <2>6. \A g \in UserGroup : g \in member' <=> g \in remain \/ g = default
    BY Zenon, <2>1, DirectoryAssumption
  <2> HIDE DEF remain
  <2>7. ASSUME NEW g \in byHand \ mix PROVE g \in member' /\ Preserved(left.rows, fallback', g)
    <3>1. g \in UserGroup /\ g \in left.groups /\ Preserved(left.rows, fallback, g)
      BY SMTT(30), <1>1, <1>2
    <3>2. g \in remain
      BY <2>4, <2>5, <3>1 DEF Preserved
    <3> QED BY Zenon, <2>3, <2>6, <3>1, <3>2 DEF Preserved
  <2>8. ASSUME NEW g \in UserGroup \ (byHand \cup mix)
        PROVE  /\ g \in member' => Gives(left.rows, fallback', g)
               /\ Revocable(left.rows, fallback', g)
               /\ Single(left.rows, fallback', g)
    <3>1. /\ g \in left.groups => Gives(left.rows, fallback, g)
          /\ Revocable(left.rows, fallback, g)
          /\ Single(left.rows, fallback', g)
      BY <1>3, <1>4
    <3>2. ASSUME g \in member' PROVE Gives(left.rows, fallback', g)
      <4>1. CASE g = default
        BY Zenon, <2>3, <4>1, DirectoryAssumption DEF Gives
      <4>2. CASE g # default
        <5>1. g \in left.groups /\ g \notin LosesDefault(s, default, left.rows)
          BY <2>5, <2>6, <3>2, <4>2
        <5>2. Gives(left.rows, fallback, g)
          BY <3>1, <5>1
        <5>3. CASE Giving(left.rows, g) # {}
          BY Zenon, <5>3 DEF Gives
        <5>4. CASE Giving(left.rows, g) = {}
          <6>1. PICK t \in Source : \E f \in fallback[t] : f.group = g
            BY Zenon, <5>2, <5>4 DEF Gives
          <6>2. CASE t # s
            BY Zenon, <2>3, <6>1, <6>2 DEF Gives
          <6>3. CASE t = s
            <7>1. \E f \in fallback[s] : f.group = g /\ ~f.preserve
              BY Zenon, <3>1, <6>1, <6>3 DEF Revocable
            <7>2. PICK u \in Source : u # s /\ \E f \in fallback[u] : f.group = g
              BY Zenon, <2>4, <4>2, <5>1, <5>4, <7>1
            <7> QED BY Zenon, <2>3, <7>2 DEF Gives
          <6> QED BY Zenon, <6>2, <6>3
        <5> QED BY Zenon, <5>3, <5>4
      <4> QED BY <4>1, <4>2
    <3>3. ASSUME g = default PROVE g \notin remain
      <4> SUFFICES ASSUME g \in remain PROVE FALSE
        OBVIOUS
      <4>1. Gives(left.rows, fallback, g)
        BY <2>5, <3>1
      <4>2. \E f \in fallback'[s] : f.group = g
        BY Zenon, <2>3, <3>3, DirectoryAssumption
      <4>3. Giving(left.rows, g) = {}
        BY <3>1, <4>2 DEF Single
      <4>4. PICK t \in Source : \E f \in fallback[t] : f.group = g
        BY <4>1, <4>3 DEF Gives
      <4>5. t # s
        BY Zenon, <1>6, <3>3, <4>4
      <4>6. \E f \in fallback'[t] : f.group = g
        BY <2>3, <4>4, <4>5
      <4> QED BY <3>1, <4>2, <4>5, <4>6 DEF Single
    <3>4. Revocable(left.rows, fallback', g)
      BY Zenon, <2>3, <3>1, <3>3 DEF Revocable
    <3> QED BY <3>1, <3>2, <3>4
  <2> QED BY Zenon, <2>2, <2>7, <2>8 DEF Owed
<1> QED
  BY <1>5, <1>6

\* While no mapping changes, what is owed afterwards may be told by what they are.
LEMMA SameMapping ==
  ASSUME mapping' = mapping, Owed(managed', fallback', member', byHand', mixed')
  PROVE  Owed(managed, fallback, member, byHand, mixed)'
<1>1. \A g : Giving(managed, g)' = Giving(managed', g)
  BY DEF Giving, GroupOf
<1>2. ASSUME NEW g \in byHand' \ mixed'
      PROVE  g \in member' /\ Preserved(managed, fallback, g)'
  <2>1. g \in member' /\ Preserved(managed', fallback', g)
    BY Zenon DEF Owed
  <2> QED BY Zenon, <1>1, <2>1 DEF Preserved
<1>3. ASSUME NEW g \in UserGroup \ (byHand' \cup mixed')
      PROVE  /\ g \in member' => Gives(managed, fallback, g)'
             /\ Revocable(managed, fallback, g)'
             /\ Single(managed, fallback, g)'
  <2>1. /\ g \in member' => Gives(managed', fallback', g)
        /\ Revocable(managed', fallback', g) /\ Single(managed', fallback', g)
    BY Zenon DEF Owed
  <2> QED BY Zenon, <1>1, <2>1 DEF Gives, Revocable, Single
<1> QED
  BY Zenon, <1>2, <1>3 DEF Owed

\* Every step keeps the invariant.
LEMMA NextDirectory == DirectoryInv /\ [DirectoryNext]_directoryVars => DirectoryInv'
<1> SUFFICES ASSUME DirectoryInv, [DirectoryNext]_directoryVars PROVE DirectoryInv'
  OBVIOUS
<1>t. DirectoryTypes /\ Owed(managed, fallback, member, byHand, mixed)
  BY DEF DirectoryInv
<1>1. ASSUME UNCHANGED <<managed, fallback, member, byHand, mixed, mapping>>, DirectoryTypes'
      PROVE  DirectoryInv'
  BY <1>t, <1>1, SameMapping DEF DirectoryInv
<1>2. ASSUME NEW w \in Syncer, NEW s \in Ldap, StartSync(w, s) PROVE DirectoryInv'
  <2>1. DirectoryTypes'
    BY Zenon, <1>t, <1>2 DEF DirectoryTypes, StartSync, NotSyncing, Source
  <2> QED BY <1>1, <1>2, <2>1 DEF StartSync
<1>3. ASSUME NEW w \in Syncer, NEW e \in Entry \cup {NoEntry}, fetch_users(w, e)
      PROVE  DirectoryInv'
  <2>1. DirectoryTypes'
    BY <1>t, <1>3 DEF DirectoryTypes, fetch_users
  <2> QED BY <1>1, <1>3, <2>1 DEF fetch_users
<1>4. ASSUME NEW w \in Syncer, SyncFails(w) PROVE DirectoryInv'
  <2>1. DirectoryTypes'
    BY <1>t, <1>4 DEF DirectoryTypes, SyncFails, NotSyncing
  <2> QED BY <1>1, <1>4, <2>1 DEF SyncFails
<1>5. ASSUME NEW w \in Syncer, _apply_directory_users(w) PROVE DirectoryInv'
  <2>1. PICK s, e : s = syncing[w].source /\ e = syncing[w].entry
    BY SMTT(30)
  <2>2. /\ syncing' = [syncing EXCEPT ![w] = NotSyncing]
        /\ UNCHANGED <<fallback, mapping, source, byHand>>
        /\ e \in Entry \cup {NoEntry}
    BY Zenon, <1>t, <1>5, <2>1 DEF _apply_directory_users, DirectoryTypes
  <2>3. syncing' \in [Syncer -> [source : Source \cup {NoEntry}, entry : Entry \cup {NoEntry},
                                 fetched : BOOLEAN]]
    BY <1>t, <2>2 DEF DirectoryTypes, NotSyncing
  <2>4. CASE UNCHANGED <<managed, member, mixed>>
    <3>1. DirectoryTypes'
      BY <1>t, <2>2, <2>3, <2>4 DEF DirectoryTypes
    <3> QED BY <1>1, <2>2, <2>4, <3>1
  <2>5. CASE e # NoEntry /\ \E left \in reconcile_external_memberships(s, Matched(s, e)) :
               /\ managed' = left.rows
               /\ member' = left.groups
               /\ mixed' = mixed \cup Overlaps(managed \cup left.rows, fallback)
    <3>1. PICK left \in reconcile_external_memberships(s, Matched(s, e)) :
               /\ managed' = left.rows
               /\ member' = left.groups
               /\ mixed' = mixed \cup Overlaps(managed \cup left.rows, fallback)
      BY Zenon, <2>5
    <3>2. Matched(s, e) \in SUBSET Mapping /\ \A m \in Matched(s, e) : SourceOf[m] = s
      BY Zenon, <2>2, <2>5 DEF Matched, Entry
    <3>3. Settled(left)
      BY <3>1, <3>2, Reconciling
    <3>4. Overlaps(managed \cup left.rows, fallback) \subseteq UserGroup
      BY DEF Overlaps
    <3>5. DirectoryTypes'
      BY Zenon, <1>t, <2>2, <2>3, <3>1, <3>3, <3>4 DEF DirectoryTypes, Settled
    <3>6. Owed(managed', fallback', member', byHand', mixed')
      BY Zenon, <2>2, <3>1, <3>3 DEF Settled
    <3> QED BY <2>2, <3>5, <3>6, SameMapping DEF DirectoryInv
  <2> QED BY Zenon, <1>5, <2>1, <2>4, <2>5 DEF _apply_directory_users
<1>6. ASSUME NEW s \in Oidc, NEW e \in Entry, _provision_oidc_identity(s, e) PROVE DirectoryInv'
  <2>1. PICK default : default = IF e.allowed_email THEN source[s].default ELSE NoUserGroup
    OBVIOUS
  <2>2. /\ UNCHANGED <<mapping, source, syncing, byHand>>
        /\ \E left \in reconcile_external_memberships(s, Matched(s, e)) :
             /\ managed' = left.rows
             /\ reconcile_oidc_default_membership(s, default, left.rows, left.groups)
             /\ mixed' = mixed \cup Overlaps(managed \cup left.rows, fallback)
                            \cup Overlaps(left.rows, fallback')
    BY Zenon, <1>6, <2>1 DEF _provision_oidc_identity
  <2>3. PICK left \in reconcile_external_memberships(s, Matched(s, e)) :
             /\ managed' = left.rows
             /\ reconcile_oidc_default_membership(s, default, left.rows, left.groups)
             /\ mixed' = mixed \cup Overlaps(managed \cup left.rows, fallback)
                            \cup Overlaps(left.rows, fallback')
    BY ZenonT(60), <2>2
  <2>4. Matched(s, e) \in SUBSET Mapping /\ \A m \in Matched(s, e) : SourceOf[m] = s
    BY DEF Matched, Entry
  <2>5. Settled(left)
    BY <2>4, Reconciling
  <2>6. s \in Source /\ default \in UserGroup \cup {NoUserGroup}
    BY <1>t, <2>1 DEF DirectoryTypes, Source
  <2>7. /\ fallback' \in [Source -> SUBSET Fallback] /\ member' \subseteq UserGroup
        /\ Owed(left.rows, fallback', member', byHand, mixed')
    BY Zenon, <2>3, <2>5, <2>6, DefaultKeeps
  <2>8. mixed' \subseteq UserGroup
    BY Zenon, <1>t, <2>3 DEF DirectoryTypes, Overlaps
  <2>9. DirectoryTypes'
    BY ZenonT(60), <1>t, <2>2, <2>3, <2>5, <2>7, <2>8 DEF DirectoryTypes, Settled
  <2> QED BY Zenon, <2>2, <2>3, <2>7, <2>9, SameMapping DEF DirectoryInv
<1>7. ASSUME NEW m \in Mapping, NEW c \in MappingForm[m], directory_mappings(m, c)
      PROVE  DirectoryInv'
  <2>1. /\ mapping' = [mapping EXCEPT ![m] = c] /\ c \in Columns
        /\ UNCHANGED <<managed, fallback, member, source, syncing, byHand>>
        /\ mixed' = mixed \cup
             {g \in UserGroup : /\ m \in MappingsOf(managed) /\ mapping[m].group # c.group
                                /\ g \in {mapping[m].group, c.group}}
    BY Zenon, <1>7, DirectoryAssumption DEF directory_mappings, Columns
  <2>2. DirectoryTypes'
    BY Zenon, <1>t, <2>1 DEF DirectoryTypes
  <2>3. ASSUME NEW g \in UserGroup, g \notin mixed' PROVE Giving(managed, g)' = Giving(managed, g)
    <3> SUFFICES ASSUME NEW r \in managed PROVE GroupOf(r)' = g <=> GroupOf(r) = g
      BY Zenon, <2>1 DEF Giving
    <3>1. r.mapping \in Mapping /\ r.mapping \in MappingsOf(managed)
      BY <1>t DEF DirectoryTypes, Row, MappingsOf
    <3>2. CASE r.mapping # m
      BY Zenon, <1>t, <2>1, <3>1, <3>2 DEF GroupOf, DirectoryTypes
    <3>3. CASE r.mapping = m
      BY Zenon, <1>t, <2>1, <2>3, <3>1, <3>3 DEF GroupOf, DirectoryTypes
    <3> QED BY <3>2, <3>3
  <2>4. ASSUME NEW g \in byHand \ mixed'
        PROVE  g \in member /\ Preserved(managed, fallback, g)'
    <3>1. g \in UserGroup /\ g \in byHand \ mixed
      BY Zenon, <1>t, <2>1 DEF DirectoryTypes
    <3>2. Giving(managed, g)' = Giving(managed, g)
      BY <2>3, <3>1
    <3> QED BY Zenon, <1>t, <2>1, <3>1, <3>2 DEF Owed, Preserved
  <2>5. ASSUME NEW g \in UserGroup \ (byHand \cup mixed')
        PROVE  /\ g \in member => Gives(managed, fallback, g)'
               /\ Revocable(managed, fallback, g)' /\ Single(managed, fallback, g)'
    <3>1. Giving(managed, g)' = Giving(managed, g) /\ g \notin mixed
      BY Zenon, <2>1, <2>3
    <3>2. /\ g \in member => Gives(managed, fallback, g)
          /\ Revocable(managed, fallback, g) /\ Single(managed, fallback, g)
      BY Zenon, <1>t, <3>1 DEF Owed
    <3> QED BY Zenon, <2>1, <3>1, <3>2 DEF Gives, Revocable, Single
  <2>6. Owed(managed, fallback, member, byHand, mixed)'
    BY Zenon, <2>1, <2>4, <2>5 DEF Owed
  <2> QED BY <2>2, <2>6 DEF DirectoryInv
<1>8. ASSUME NEW s \in Source, NEW f \in SourceForm[s], _identity_sources(s, f)
      PROVE  DirectoryInv'
  <2>1. f \in [enabled : BOOLEAN, default : UserGroup \cup {NoUserGroup}]
    BY DirectoryAssumption
  <2>2. DirectoryTypes'
    BY Zenon, <1>t, <1>8, <2>1 DEF DirectoryTypes, _identity_sources
  <2> QED BY <1>1, <1>8, <2>2 DEF _identity_sources
<1>9. ASSUME NEW g \in UserGroup, NEW in \in BOOLEAN, user_groups(g, in) PROVE DirectoryInv'
  <2>1. /\ UNCHANGED <<managed, fallback, mapping, source, syncing>>
        /\ mixed' = mixed \cup {h \in {g} : Given(h) /\ member' # member}
    BY <1>9 DEF user_groups
  <2>2. \A h : Given(h) <=> Gives(managed, fallback, h)
    BY Zenon DEF Given, Gives
  <2>3. ~Gives(managed, fallback, g) =>
          /\ Preserved(managed, fallback, g) /\ Revocable(managed, fallback, g)
          /\ Single(managed, fallback, g)
    BY DEF Gives, Preserved, Revocable, Single
  <2>4. CASE in
    <3>1. /\ member' = member \cup {g}
          /\ byHand' = byHand \cup {h \in {g} : h \notin member /\ ~Given(h)}
      BY <1>9, <2>4 DEF user_groups
    <3>2. DirectoryTypes'
      BY <1>t, <2>1, <3>1 DEF DirectoryTypes
    <3>3. Owed(managed', fallback', member', byHand', mixed')
      BY Zenon, <1>t, <2>1, <2>2, <2>3, <3>1 DEF Owed, DirectoryTypes
    <3> QED BY <2>1, <3>2, <3>3, SameMapping DEF DirectoryInv
  <2>5. CASE ~in
    <3>1. member' = member \ {g} /\ byHand' = byHand \ {g}
      BY <1>9, <2>5 DEF user_groups
    <3>2. DirectoryTypes'
      BY <1>t, <2>1, <3>1 DEF DirectoryTypes
    <3>3. Owed(managed', fallback', member', byHand', mixed')
      BY Zenon, <1>t, <2>1, <2>2, <2>3, <3>1 DEF Owed, DirectoryTypes
    <3> QED BY <2>1, <3>2, <3>3, SameMapping DEF DirectoryInv
  <2> QED BY <2>4, <2>5
<1>10. ASSUME NEW state, users(state) PROVE DirectoryInv'
  <2>1. DirectoryTypes'
    BY <1>t, <1>10 DEF DirectoryTypes, users
  <2> QED BY <1>1, <1>10, <2>1 DEF users
<1>11. ASSUME NEW s \in Source, NEW state, LinkIdentity(s, state) PROVE DirectoryInv'
  <2>1. DirectoryTypes'
    BY <1>t, <1>11 DEF DirectoryTypes, LinkIdentity
  <2> QED BY <1>1, <1>11, <2>1 DEF LinkIdentity
<1>12. CASE UNCHANGED directoryVars
  <2>1. DirectoryTypes'
    BY <1>t, <1>12 DEF DirectoryTypes, directoryVars
  <2> QED BY <1>1, <1>12, <2>1 DEF directoryVars
<1> QED
  BY <1>2, <1>3, <1>4, <1>5, <1>6, <1>7, <1>8, <1>9, <1>10, <1>11, <1>12 DEF DirectoryNext

\* What is the person's own, and what a record gives them, stay apart through all
\* of the synchronisations, sign-ins and forms.
THEOREM DirectoryInvariance == DirectorySpec => []DirectoryInv
<1>1. DirectoryInit => DirectoryInv
  <2> SUFFICES ASSUME DirectoryInit PROVE DirectoryInv
    OBVIOUS
  <2>1. managed = {} /\ member = {} /\ byHand = {} /\ mixed = {} /\ \A s \in Source : fallback[s] = {}
    BY DEF DirectoryInit
  <2>2. DirectoryTypes
    BY Zenon DEF DirectoryInit, DirectoryTypes, NotSyncing
  <2>3. Owed(managed, fallback, member, byHand, mixed)
    BY Zenon, <2>1 DEF Owed, Preserved, Gives, Revocable, Single, Giving
  <2> QED BY <2>2, <2>3 DEF DirectoryInv
<1> QED
  BY <1>1, NextDirectory, PTL DEF DirectorySpec

\* For any number of sources, mappings, groups and workers, a membership that was
\* made by hand outlives every source that manages it later, and one that a source
\* gave ends with its record (reconcile_external_memberships and
\* reconcile_oidc_default_membership).
THEOREM MembershipsAreOwed == DirectorySpec => []MembershipIsOwed
<1>1. DirectoryInv => MembershipIsOwed
  BY DEF DirectoryInv, DirectoryTypes, Owed, MembershipIsOwed, Given, Gives
<1> QED
  BY <1>1, DirectoryInvariance, PTL
=============================================================================
