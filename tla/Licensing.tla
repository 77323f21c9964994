----------------------------- MODULE Licensing ------------------------------
(***************************************************************************)
(* Editions, signed licences and the limits they put on active users and   *)
(* on targets (pamolive/licensing).                                        *)
(*                                                                         *)
(* The settings are read when the platform starts; only the expiry of a    *)
(* licence changes its status while it runs.  A limit is checked by a      *)
(* pre_save signal that counts the other rows, and the row is written      *)
(* after it, without a lock: the two are steps of their own.               *)
(***************************************************************************)
EXTENDS Naturals, FiniteSets

CONSTANTS
  Saver,        \* the workers that save users and targets
  Settings,     \* what the platform may be started with
  MaxRows,      \* bound on the rows of a kind
  NoLimit,      \* a limit of None
  NoDocument    \* no licence is configured, or it cannot be read

Kind == {"user", "target"}
Edition == {"community", "lab", "business", "enterprise"}

\* A licence may name a limit for each kind.
ASSUME LicensingAssumption ==
  /\ IsFiniteSet(Saver)
  /\ MaxRows \in Nat
  /\ NoLimit \notin Nat
  /\ \A s \in Settings :
       s.document # NoDocument => s.document.max \in [Kind -> Nat \cup {NoLimit}]

VARIABLES
  settings,  \* PAMOLIVE_EDITION, PAMOLIVE_LICENSE and PAMOLIVE_CLUSTER_ENABLED
  expired,   \* whether the expires_at of the licence has passed
  count,     \* the active users and the targets
  saving,    \* the kind of row each worker has checked and not yet written
  crowded,   \* kinds that two saves overlapped for, or were too many at a start (history)
  refused    \* kinds of which the save of an existing row was refused (history)

licenceVars == <<settings, expired, count, saving, crowded, refused>>

\* A misspelt edition is the community's.
configured_edition(s) == IF s.edition \in Edition THEN s.edition ELSE "community"

cluster_enabled(s) == s.cluster

\* The payload, if the document is signed by the key and has not expired.
_verify_signed_license(s, late) == s.document # NoDocument /\ s.document.signed /\ ~late

Unlimited == [k \in Kind |-> NoLimit]

get_license_status(s, late) ==
  LET edition == configured_edition(s)
      Built(max, features) == [valid |-> TRUE, max |-> max, features |-> features]
  IN
  CASE edition = "community" -> Built(Unlimited, {})
    [] edition = "lab" ->
         Built([k \in Kind |-> IF k = "user" THEN 5 ELSE 2], {"cluster"})
    [] edition \in {"business", "enterprise"} ->
         IF _verify_signed_license(s, late) /\ s.document.edition = edition
         THEN Built(s.document.max, s.document.features)
         ELSE [valid |-> FALSE, max |-> Unlimited, features |-> {}]

assert_cluster_allowed(s) ==
  LET status == get_license_status(s, FALSE) IN
  cluster_enabled(s) => "cluster" \in status.features /\ status.valid

\* The errors of the system checks, which keep the platform from starting.
licensing_checks(s) ==
  /\ assert_cluster_allowed(s)
  /\ configured_edition(s) \in {"business", "enterprise"} => get_license_status(s, FALSE).valid

Status == get_license_status(settings, expired)

\* Mutant of Exceeds: one row too many.
ExceedsLate(status, k, others) ==
  status.valid /\ status.max[k] # NoLimit /\ others > status.max[k]

\* enforce_active_user_limit and enforce_target_limit, with the other rows.  A
\* licence that is not valid limits nothing.
Exceeds(status, k, others) ==
  status.valid /\ status.max[k] # NoLimit /\ others >= status.max[k]

\* The rows besides an existing one that is saved again.
Others(k) == count[k] - 1

TooMany(s) == {k \in Kind : LET max == get_license_status(s, FALSE).max[k] IN
                            max # NoLimit /\ count[k] > max}

LicensingInit ==
  /\ settings \in {s \in Settings : licensing_checks(s)}
  /\ expired = FALSE
  /\ count = [k \in Kind |-> IF k = "user" THEN 1 ELSE 0]
  /\ saving = [w \in Saver |-> "none"]
  /\ crowded = TooMany(settings)
  /\ refused = {}

-----------------------------------------------------------------------------
\* A user is created or activated, or a target is created: the signal first.
enforce_license_limit(w, k) ==
  /\ saving[w] = "none"
  /\ count[k] < MaxRows
  /\ ~Exceeds(Status, k, count[k])
  /\ saving' = [saving EXCEPT ![w] = k]
  /\ crowded' = crowded \cup {c \in {k} : \E v \in Saver : saving[v] = c}
  /\ UNCHANGED <<settings, expired, count, refused>>

Insert(w) ==
  /\ saving[w] # "none"
  /\ count' = [count EXCEPT ![saving[w]] = @ + 1]
  /\ saving' = [saving EXCEPT ![w] = "none"]
  /\ UNCHANGED <<settings, expired, crowded, refused>>

\* An active user or a target is saved again; every sign-in saves its user.
SaveExisting(k) ==
  /\ count[k] > 0
  /\ Exceeds(Status, k, Others(k))
  /\ refused' = refused \cup {k}
  /\ UNCHANGED <<settings, expired, count, saving, crowded>>

\* A user is deactivated, which is never refused, or a target is deleted.
Remove(k) ==
  /\ count[k] > IF k = "user" THEN 1 ELSE 0
  /\ count' = [count EXCEPT ![k] = @ - 1]
  /\ UNCHANGED <<settings, expired, saving, crowded, refused>>

Expire ==
  /\ settings.document # NoDocument /\ settings.document.expires
  /\ expired' = TRUE
  /\ UNCHANGED <<settings, count, saving, crowded, refused>>

\* The platform stops, whatever it was saving, and starts with settings s.
Start(s) ==
  /\ licensing_checks(s)
  /\ settings' = s
  /\ expired' = FALSE
  /\ saving' = [w \in Saver |-> "none"]
  /\ crowded' = crowded \cup TooMany(s)
  /\ UNCHANGED <<count, refused>>

LicensingNext ==
  \/ \E w \in Saver : Insert(w) \/ \E k \in Kind : enforce_license_limit(w, k)
  \/ \E k \in Kind : SaveExisting(k) \/ Remove(k)
  \/ Expire
  \/ \E s \in Settings : Start(s)

LicensingSpec == LicensingInit /\ [][LicensingNext]_licenceVars

-----------------------------------------------------------------------------
(* Properties.                                                             *)

Pending(k) == Cardinality({w \in Saver : saving[w] = k})

\* Under a limit the saves that race past its check go beyond it by less than
\* the number of workers, however often users come and go meanwhile and whatever
\* was started with before (limits.py counts and writes without a lock).
OvershootIsBounded ==
  \A k \in Kind :
    Status.max[k] # NoLimit /\ Pending(k) > 0
      => count[k] + Pending(k) <= Status.max[k] - 1 + Cardinality(Saver)

\* The limit never gets in the way of those who are within it: saving an active
\* user again, as every sign-in does, or a target is refused only after two new
\* rows raced past the check or the platform was started with too many.
OnlyCrowdedIsRefused == refused \subseteq crowded
=============================================================================
