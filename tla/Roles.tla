------------------------------- MODULE Roles --------------------------------
(***************************************************************************)
(* Permission profiles: a role's capabilities as the form shows them, a    *)
(* level per area, and as it saves them (pamolive/rbac and the RoleForm of *)
(* the console).                                                           *)
(*                                                                         *)
(* A capability is an area's name and a verb; credentials.view_metadata is *)
(* the view of the credentials.  A level is the set of its capabilities;   *)
(* level 0 is "none".                                                      *)
(***************************************************************************)
EXTENDS Naturals, Sequences, FiniteSets

CONSTANT
  Page  \* the sets of areas that the edits of one role are about

VARIABLES
  page,         \* the areas, all others staying at level none
  capabilities, \* those of the role
  is_system,    \* whether a migration has seeded it
  origin        \* who saved it: "migration", "administration", "levels" or "list"

roleVars == <<page, capabilities, is_system, origin>>

Of(area, verbs) == {<<area, verb>> : verb \in verbs}
ViewThen(area, verb) == <<Of(area, {"view"}), Of(area, {"view", verb})>>

IdentityAreas ==
  [users |-> ViewThen("users", "manage"),
   groups |-> ViewThen("groups", "manage"),
   roles |-> ViewThen("roles", "manage"),
   identity_sources |-> <<Of("identity_sources", {"view"}),
                          Of("identity_sources", {"view", "manage"}),
                          Of("identity_sources", {"view", "manage", "sync"})>>]

ResourceAreas ==
  [targets |-> ViewThen("targets", "manage"),
   target_groups |-> ViewThen("target_groups", "manage"),
   domains |-> ViewThen("domains", "manage")]

\* The operations on secrets are an area of their own, on the credentials.
SecretAreas ==
  [credentials |-> ViewThen("credentials", "manage"),
   secret_operations |-> <<Of("credentials", {"view", "reveal"}),
                           Of("credentials", {"view", "rotate"}),
                           Of("credentials", {"view", "reveal", "rotate"})>>,
   policies |-> ViewThen("policies", "manage")]

ControlAreas ==
  [approvals |-> ViewThen("approvals", "decide"),
   sessions |-> <<Of("sessions", {"view"}), Of("sessions", {"view", "join", "terminate"})>>,
   audit |-> ViewThen("audit", "export"),
   system |-> ViewThen("system", "manage")]

Joined(f, g) == [a \in DOMAIN f \cup DOMAIN g |-> IF a \in DOMAIN f THEN f[a] ELSE g[a]]

PERMISSION_AREAS ==
  Joined(Joined(IdentityAreas, ResourceAreas), Joined(SecretAreas, ControlAreas))

ASSUME RolesAssumption == \A p \in Page : p \subseteq DOMAIN PERMISSION_AREAS

Console == {<<"console", "access">>, <<"configuration", "view">>}
CapabilitiesOf(areas) ==
  UNION {UNION {PERMISSION_AREAS[a][i] : i \in DOMAIN PERMISSION_AREAS[a]} : a \in areas}

-----------------------------------------------------------------------------
\* Mutant of level_for_capabilities: a level is shown for any of its capabilities.
LevelByAny(levels, granted) ==
  LET held == {i \in DOMAIN levels : levels[i] \cap granted # {}} IN
  CHOOSE i \in held \cup {0} : \A j \in held : j <= i

\* The last level all of whose capabilities are granted.
level_for_capabilities(levels, granted) ==
  LET held == {i \in DOMAIN levels : levels[i] \subseteq granted} IN
  CHOOSE i \in held \cup {0} : \A j \in held : j <= i

WithConsole(granted) == IF granted = {} THEN {} ELSE granted \cup Console

capabilities_from_levels(selected) ==
  WithConsole(UNION {PERMISSION_AREAS[a][selected[a]] : a \in {b \in page : selected[b] > 0}})

\* What each capability that is not a view depends on is the view of its area.
normalize_capabilities(granted) ==
  WithConsole(granted \cup {<<c[1], "view">> : c \in granted \ Console})

\* The levels that the form opens with.
Shown(granted) == [a \in page |-> level_for_capabilities(PERMISSION_AREAS[a], granted)]

\* The roles of the migration, in the areas of the page.
expand_system_roles ==
  LET all == CapabilitiesOf(page)
      view == {c \in all : c[2] = "view"}
  IN  {Console \cup all,
       Console \cup view \cup (all \cap {<<"audit", "export">>}),
       {<<"console", "access">>} \cup {c \in all : c[1] = "approvals"},
       {}}

RolesInit ==
  /\ page \in Page
  /\ \/ is_system = TRUE /\ capabilities \in expand_system_roles /\ origin = "migration"
     \/ is_system = FALSE /\ capabilities = {} /\ origin = "levels"

\* RoleForm.clean: what is listed may not differ on a seeded role.
CleanRole(listed) == is_system => listed = capabilities

\* The form posts a level for each area, and no list.
SaveLevels(selected) ==
  /\ CleanRole({})
  /\ capabilities' = capabilities_from_levels(selected)
  /\ origin' = "levels"
  /\ UNCHANGED <<page, is_system>>

\* A form without levels posts the list of capabilities, as it did before them.
SaveList(listed) ==
  /\ CleanRole(listed)
  /\ capabilities' = normalize_capabilities(listed)
  /\ origin' = "list"
  /\ UNCHANGED <<page, is_system>>

\* The technical administration stores any list as it is.
SaveInAdministration(listed) ==
  /\ capabilities' = listed
  /\ origin' = "administration"
  /\ UNCHANGED <<page, is_system>>

Selections == {f \in [page -> 0..3] : \A a \in page : f[a] <= Len(PERMISSION_AREAS[a])}

RolesNext ==
  \/ \E selected \in Selections : SaveLevels(selected)
  \/ \E listed \in SUBSET CapabilitiesOf(page) :
       SaveList(listed) \/ SaveList(listed \cup Console) \/ SaveInAdministration(listed)

RolesSpec == RolesInit /\ [][RolesNext]_roleVars

-----------------------------------------------------------------------------
(* Properties.                                                             *)

\* Opening a role and saving what it shows gives nobody anything: whatever list
\* is stored, its levels add no capability of an area, and a role that was saved
\* from levels is the same again, though two areas share the view of the
\* credentials (level_for_capabilities against capabilities_from_levels).  Saved
\* again as a list, a role that the console saved either way is the same too: it
\* already has the views that its capabilities depend on (normalize_capabilities).
ReopeningAddsNothing ==
  LET again == capabilities_from_levels(Shown(capabilities)) IN
  /\ again \subseteq capabilities \cup Console
  /\ origin = "levels" => again = capabilities
  /\ origin \in {"levels", "list"} => normalize_capabilities(capabilities) = capabilities
=============================================================================
