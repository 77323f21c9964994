----------------------------- MODULE Directory -----------------------------
(***************************************************************************)
(* Accounts and group memberships that come from a directory (LDAP) or an  *)
(* identity provider (OIDC), for one person (pamolive/connectors).         *)
(*                                                                         *)
(* A mapping names the external group it is for; group names differ after  *)
(* their normalisation.  The records that say which memberships a source   *)
(* manages are ExternalGroupMembership (managed) and                       *)
(* OIDCDefaultGroupMembership (fallback), each with its                    *)
(* preserve_membership_on_unlink.  A synchronisation fetches the directory *)
(* first and applies what it has read in one transaction later.  The       *)
(* columns that only report on it (last_sync_status, last_error) are left  *)
(* out.                                                                    *)
(***************************************************************************)
EXTENDS Naturals, FiniteSets

CONSTANTS
  Ldap,       \* the sources that are synchronised
  Oidc,       \* the sources that people sign in with
  Mapping,    \* the DirectoryGroupMapping rows, and the external groups they are for
  SourceOf,   \* [Mapping -> Source]
  UserGroup,
  MappingForm,  \* what the form of each mapping may be submitted with
  SourceForm,   \* and of each source: whether it is enabled, and its default group
  Syncer,     \* the workers that run sync_identity_source
  NoUserGroup,
  NoEntry

Source == Ldap \cup Oidc

ASSUME DirectoryAssumption ==
  /\ IsFiniteSet(Source) /\ IsFiniteSet(Mapping)
  /\ Ldap \cap Oidc = {}
  /\ SourceOf \in [Mapping -> Source]
  /\ NoUserGroup \notin UserGroup
  /\ \A m \in Mapping : MappingForm[m] \subseteq
       [group : UserGroup, enabled : BOOLEAN, auto_create_users : BOOLEAN]
  /\ \A s \in Source : SourceForm[s] \subseteq
       [enabled : BOOLEAN, default : UserGroup \cup {NoUserGroup}]

VARIABLES
  account,   \* the person's User row: "none", "active" or "inactive"
  identity,  \* the person's ExternalIdentity in each source: "none", "enabled", "disabled"
  managed,   \* the person's ExternalGroupMembership rows: mapping and preserve
  fallback,  \* the OIDCDefaultGroupMembership of each identity, as a set: group, preserve
  member,    \* the groups that the person is a member of
  mapping,   \* the columns of each mapping that its form changes
  source,    \* whether each source is enabled, and its default_user_group
  syncing,   \* the source and the entry that each worker works with
  byHand,    \* the groups the person was put in by hand, unmanaged then (history)
  mixed      \* the groups that two records managed at once, or whose mapping or
             \* members a form changed while a record managed them (history)

directoryVars == <<account, identity, managed, fallback, member, mapping, source, syncing,
                   byHand, mixed>>

Columns == [group : UserGroup, enabled : BOOLEAN, auto_create_users : BOOLEAN]

\* DirectoryUser or the claims of a token: the groups it names, and whether it
\* has a verified e-mail that the source allows.  NoEntry: the person is gone.
Entry == [groups : SUBSET Mapping, allowed_email : BOOLEAN]

NotSyncing == [source |-> NoEntry, entry |-> NoEntry, fetched |-> FALSE]

DirectoryInit ==
  /\ account \in {"none", "active"}
  /\ identity = [s \in Source |-> "none"]
  /\ managed = {}
  /\ fallback = [s \in Source |-> {}]
  /\ member = {}
  /\ mapping \in [Mapping -> Columns]
  /\ \A m \in Mapping : mapping[m] \in MappingForm[m]
  /\ source = [s \in Source |-> [enabled |-> TRUE, default |-> NoUserGroup]]
  /\ syncing = [w \in Syncer |-> NotSyncing]
  /\ byHand = {}
  /\ mixed = {}

-----------------------------------------------------------------------------
(* Reconciliation, as what it leaves behind.                               *)

GroupOf(r) == mapping[r.mapping].group
RowsOf(s, R) == {r \in R : SourceOf[r.mapping] = s}
MappingsOf(R) == {r.mapping : r \in R}
Giving(R, g) == {r \in R : GroupOf(r) = g}

\* The rows the first loop creates: whichever new mapping to a group comes first
\* makes the person a member, the others find a membership to preserve.
Created(new, members, rows) ==
  /\ MappingsOf(rows) = new
  /\ \A r, q \in rows : r.mapping = q.mapping => r = q
  /\ \A g \in UserGroup :
       LET R == Giving(rows, g) IN
       R # {} => Cardinality({r \in R : ~r.preserve}) = IF g \in members THEN 0 ELSE 1

\* Mutant of Unlinked: other rows are looked for before the row is deleted,
\* which then finds itself.
UnlinkedTooLate(old, rest, gone) == gone = {}

\* The groups the second loop takes the person out of.  Of several rows that
\* give a group the last one to go decides, and their order is not defined.
Unlinked(old, rest, gone) ==
  \A g \in UserGroup :
    LET R == Giving(old, g) IN
    /\ (R # {} /\ Giving(rest, g) = {} /\ \A r \in R : ~r.preserve) => g \in gone
    /\ g \in gone => Giving(rest, g) = {} /\ \E r \in R : ~r.preserve

\* The matched mappings that have no row of the identity yet.
Unmanaged(matched, existing) == matched \ MappingsOf(existing)

\* The rows and the groups that reconcile_external_memberships may leave for the
\* identity of source s and the mappings it matched.
reconcile_external_memberships(s, matched) ==
  LET existing == RowsOf(s, managed)
      old == {r \in existing : r.mapping \notin matched}
      new == Unmanaged(matched, existing)
      made == {R \in SUBSET [mapping : new, preserve : BOOLEAN] : Created(new, member, R)}
      Kept(R) == (managed \ old) \cup R
  IN  {[rows |-> Kept(p[1]), groups |-> (member \cup {GroupOf(r) : r \in p[1]}) \ p[2]] :
         p \in {q \in made \X SUBSET UserGroup : Unlinked(old, Kept(q[1]), q[2])}}

FallbacksTo(g, except) ==
  {s \in Source \ {except} : \E f \in fallback[s] : f.group = g}

\* The previous default group, unless something else gives it.
LosesDefault(s, default, rows) ==
  {g \in UserGroup :
     /\ g # default
     /\ \E f \in fallback[s] : f.group = g /\ ~f.preserve
     /\ Giving(rows, g) = {} /\ FallbacksTo(g, s) = {}}

reconcile_oidc_default_membership(s, default, rows, groups) ==
  LET left == groups \ LosesDefault(s, default, rows) IN
  IF \E f \in fallback[s] : f.group = default
  THEN member' = groups /\ UNCHANGED fallback
  ELSE /\ member' = left \cup ({default} \ {NoUserGroup})
       /\ fallback' = [fallback EXCEPT ![s] =
                         IF default = NoUserGroup THEN {}
                         ELSE {[group |-> default, preserve |-> default \in left]}]

\* The groups that more than one of the records manages.
Overlaps(rows, defaults) ==
  {g \in UserGroup :
     Cardinality(Giving(rows, g)) + Cardinality({s \in Source : \E f \in defaults[s] : f.group = g})
       > 1}

About(s, e) == e # NoEntry => /\ \A m \in e.groups : SourceOf[m] = s
                              /\ e.allowed_email => s \in Oidc
Matched(s, e) == {m \in e.groups : SourceOf[m] = s /\ mapping[m].enabled}
MayCreate(matched) == \E m \in matched : mapping[m].auto_create_users

-----------------------------------------------------------------------------
(* Synchronisation with a directory.                                       *)

StartSync(w, s) ==
  /\ syncing[w] = NotSyncing
  /\ source[s].enabled
  /\ syncing' = [syncing EXCEPT ![w] = [NotSyncing EXCEPT !.source = s]]
  /\ UNCHANGED <<account, identity, managed, fallback, member, mapping, source, byHand, mixed>>

\* The directory may have changed in any way since it was last read.
fetch_users(w, e) ==
  /\ syncing[w] # NotSyncing /\ ~syncing[w].fetched
  /\ About(syncing[w].source, e)
  /\ syncing' = [syncing EXCEPT ![w].entry = e, ![w].fetched = TRUE]
  /\ UNCHANGED <<account, identity, managed, fallback, member, mapping, source, byHand,
                 mixed>>

\* The directory does not answer, or what it says cannot be applied: an account
\* of that name exists, or the licence allows no further one.  Nothing is kept
\* of the transaction.
SyncFails(w) ==
  /\ syncing[w] # NotSyncing
  /\ syncing[w].fetched =>
       /\ syncing[w].entry # NoEntry
       /\ identity[syncing[w].source] = "none"
       /\ MayCreate(Matched(syncing[w].source, syncing[w].entry))
  /\ syncing' = [syncing EXCEPT ![w] = NotSyncing]
  /\ UNCHANGED <<account, identity, managed, fallback, member, mapping, source, byHand, mixed>>

\* The person, if the directory still lists them, has an identity or gets one.
_apply_directory_users(w) ==
  LET s == syncing[w].source  e == syncing[w].entry IN
  /\ syncing[w].fetched
  /\ \/ /\ e = NoEntry
        /\ UNCHANGED <<account, identity, managed, member, mixed>>
     \/ /\ e # NoEntry
        /\ identity[s] = "none" /\ ~MayCreate(Matched(s, e))
        /\ UNCHANGED <<account, identity, managed, member, mixed>>
     \/ /\ e # NoEntry
        /\ \/ identity[s] # "none" /\ UNCHANGED account
           \/ /\ identity[s] = "none" /\ MayCreate(Matched(s, e))
              /\ account = "none" /\ account' = "active"
        /\ identity' = [identity EXCEPT ![s] = "enabled"]
        /\ \E left \in reconcile_external_memberships(s, Matched(s, e)) :
             /\ managed' = left.rows
             /\ member' = left.groups
             /\ mixed' = mixed \cup Overlaps(managed \cup left.rows, fallback)
  /\ syncing' = [syncing EXCEPT ![w] = NotSyncing]
  /\ UNCHANGED <<fallback, mapping, source, byHand>>

-----------------------------------------------------------------------------
(* Sign-in with an identity provider.                                      *)

\* The memberships are brought up to date even if the sign-in is refused in the
\* end because nothing authorises it any more.
_provision_oidc_identity(s, e) ==
  LET matched == Matched(s, e)
      default == IF e.allowed_email THEN source[s].default ELSE NoUserGroup
  IN
  /\ source[s].enabled
  /\ About(s, e)
  /\ \/ /\ identity[s] = "none"
        /\ MayCreate(matched) \/ default # NoUserGroup
        /\ account = "none" /\ account' = "active"
        /\ identity' = [identity EXCEPT ![s] = "enabled"]
     \/ /\ identity[s] = "enabled" /\ account = "active"
        /\ UNCHANGED <<account, identity>>
  /\ \E left \in reconcile_external_memberships(s, matched) :
       /\ managed' = left.rows
       /\ reconcile_oidc_default_membership(s, default, left.rows, left.groups)
       /\ mixed' = mixed \cup Overlaps(managed \cup left.rows, fallback)
                      \cup Overlaps(left.rows, fallback')
  /\ UNCHANGED <<mapping, source, syncing, byHand>>

-----------------------------------------------------------------------------
(* The forms, and the directories themselves.                              *)

\* A mapping that is saved with another group leaves its members where they are.
directory_mappings(m, c) ==
  /\ mapping[m] # c
  /\ mapping' = [mapping EXCEPT ![m] = c]
  /\ mixed' = mixed \cup
       {g \in UserGroup : /\ m \in MappingsOf(managed) /\ mapping[m].group # c.group
                          /\ g \in {mapping[m].group, c.group}}
  /\ UNCHANGED <<account, identity, managed, fallback, member, source, syncing, byHand>>

_identity_sources(s, f) ==
  /\ f.default # NoUserGroup => s \in Oidc
  /\ source' = [source EXCEPT ![s].enabled = f.enabled, ![s].default = f.default]
  /\ source' # source
  /\ UNCHANGED <<account, identity, managed, fallback, member, mapping, syncing, byHand,
                 mixed>>

Given(g) == Giving(managed, g) # {} \/ \E s \in Source : \E f \in fallback[s] : f.group = g

\* The members of a group as its form has them.
user_groups(g, in) ==
  /\ account # "none"
  /\ IF in THEN /\ member' = member \cup {g}
                /\ byHand' = byHand \cup {h \in {g} : h \notin member /\ ~Given(h)}
     ELSE member' = member \ {g} /\ byHand' = byHand \ {g}
  /\ mixed' = mixed \cup {h \in {g} : Given(h) /\ member' # member}
  /\ UNCHANGED <<account, identity, managed, fallback, mapping, source, syncing>>

\* The account form, and the identities in the technical administration.
users(state) ==
  /\ account \notin {"none", state}
  /\ account' = state
  /\ UNCHANGED <<identity, managed, fallback, member, mapping, source, syncing, byHand,
                 mixed>>

LinkIdentity(s, state) ==
  /\ account # "none"
  /\ identity[s] # state
  /\ identity' = [identity EXCEPT ![s] = state]
  /\ UNCHANGED <<account, managed, fallback, member, mapping, source, syncing, byHand,
                 mixed>>

DirectoryNext ==
  \/ \E w \in Syncer :
       \/ \E s \in Ldap : StartSync(w, s)
       \/ \E e \in Entry \cup {NoEntry} : fetch_users(w, e)
       \/ SyncFails(w) \/ _apply_directory_users(w)
  \/ \E s \in Oidc, e \in Entry : _provision_oidc_identity(s, e)
  \/ \E m \in Mapping : \E c \in MappingForm[m] : directory_mappings(m, c)
  \/ \E s \in Source : \E f \in SourceForm[s] : _identity_sources(s, f)
  \/ \E g \in UserGroup, in \in BOOLEAN : user_groups(g, in)
  \/ \E state \in {"active", "inactive"} : users(state)
  \/ \E s \in Source, state \in {"enabled", "disabled"} : LinkIdentity(s, state)

DirectorySpec == DirectoryInit /\ [][DirectoryNext]_directoryVars

-----------------------------------------------------------------------------
(* Properties.                                                             *)

\* The person is in just the groups that somebody put them in.  "without removing
\* pre-existing manual membership" (CHANGELOG.md:73): a group they were in before
\* any source managed it is theirs until the group's form takes it away, through
\* every link, unlink and change of default group.  "so stale access is revoked"
\* (CHANGELOG.md:72): a membership that a source gave, and that one record at a
\* time managed, ends with that record.
MembershipIsOwed ==
  /\ byHand \ mixed \subseteq member
  /\ \A g \in member : g \in byHand \cup mixed \/ Given(g)
=============================================================================
