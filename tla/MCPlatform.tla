----------------------------- MODULE MCPlatform -----------------------------
(* The components that share no state with each other, side by side: part   *)
(* names the one that moves in a behaviour, and the others stay as they     *)
(* were.                                                                    *)
EXTENDS Mfa, WebSession, Directory, Licensing, Roles, RiskLadder,
        HostKeys, Keyring, TLC

CONSTANTS ad, idp, wheel, team, staff, ops

VARIABLE part

vars == <<part, mfaVars, webVars, directoryVars, licenceVars, roleVars, ladderVars, hostKeyVars,
          keyringVars>>

\* Two forms that are saved and one that is refused.
Form(idle, absolute, require, window) ==
  [idle |-> idle, absolute |-> absolute, require |-> require, window |-> window]
MCSecurityForm == {Form(2, 3, TRUE, 1), Form(3, 2, TRUE, 1), Form(1, 3, FALSE, 2)}

\* A group of the directory, and one of the identity provider that is switched
\* off and given another group; the provider has a default group, or is off.
MCSourceOf == wheel :> ad @@ team :> idp
Give(g, on) == [group |-> g, enabled |-> on, auto_create_users |-> on]
MCMappingForm == wheel :> {Give(staff, TRUE)} @@ team :> {Give(staff, TRUE), Give(ops, FALSE)}
SourceIs(on, g) == [enabled |-> on, default |-> g]
MCSourceForm ==
  ad :> {SourceIs(TRUE, NoUserGroup)}
  @@ idp :> {SourceIs(TRUE, staff), SourceIs(FALSE, NoUserGroup)}

\* Every edition, a misspelt one, and licences that are unsigned or another's.
Licence(edition, signed, expires, people, hosts, features) ==
  [edition |-> edition, signed |-> signed, expires |-> expires, features |-> features,
   max |-> [k \in Kind |-> IF k = "user" THEN people ELSE hosts]]
Setting(edition, document, cluster) ==
  [edition |-> edition, document |-> document, cluster |-> cluster]
MCSettings ==
  {Setting("comunity", NoDocument, FALSE), Setting("community", NoDocument, TRUE),
   Setting("lab", NoDocument, TRUE), Setting("business", NoDocument, FALSE),
   Setting("business", Licence("business", TRUE, TRUE, 2, NoLimit, {}), FALSE),
   Setting("business", Licence("business", FALSE, TRUE, 2, 3, {}), FALSE),
   Setting("enterprise", Licence("enterprise", TRUE, FALSE, 3, 3, {"cluster"}), TRUE),
   Setting("enterprise", Licence("business", TRUE, FALSE, 3, 3, {"cluster"}), TRUE)}

MCPage == {{"credentials", "secret_operations", "approvals"}, {"identity_sources", "sessions"},
           {"audit", "users"}, {"groups", "roles"}, {"targets", "target_groups"},
           {"domains", "policies"}, {"system"}}

MCLadder ==
  [enabled |-> <<FALSE, TRUE>>, requires_approval |-> <<TRUE, FALSE>>,
   approval_quorum |-> <<2, 1>>, requires_mfa |-> <<TRUE, FALSE>>,
   actions |-> <<{"start_session"}, {"start_session", "view_secret", "reveal_totp"}>>,
   max_duration_minutes |-> <<120, 480, 481>>, max_concurrent_sessions |-> <<1, 4>>,
   time_frames |-> <<{1}, {}>>, source_cidrs |-> <<{}>>,
   allow_clipboard_copy |-> <<TRUE>>, allow_clipboard_paste |-> <<FALSE>>,
   command_deny_patterns |-> <<{1}, {}>>, protocols |-> <<{"rdp"}, {}>>,
   users |-> <<5, 21>>, targets |-> <<20, 21>>]

-----------------------------------------------------------------------------
MCInit ==
  /\ part \in {"mfa", "web", "directory", "licensing", "roles", "risk", "hosts",
               "keyring"}
  /\ MfaInit
  /\ WebInit /\ (part # "web" => security = Form(2, 3, TRUE, 1) /\ ~enrolled)
  /\ DirectoryInit
  /\ part # "directory" => /\ account = "none"
                           /\ mapping = [m \in Mapping |-> Give(staff, TRUE)]
  /\ LicensingInit /\ (part # "licensing" => settings.edition = "lab")
  /\ RolesInit /\ (part # "roles" => page = {"system"} /\ ~is_system)
  /\ LadderInit /\ (part # "risk" => rival = 80)
  /\ HostKeysInit /\ (part # "hosts" => hostPolicy = "tofu")
  /\ KeyringInit

MCNext ==
  \/ /\ part = "mfa" /\ MfaNext
     /\ UNCHANGED <<part, webVars, directoryVars, licenceVars, roleVars,
                    ladderVars, hostKeyVars, keyringVars>>
  \/ /\ part = "web" /\ WebNext
     /\ UNCHANGED <<part, mfaVars, directoryVars, licenceVars, roleVars,
                    ladderVars, hostKeyVars, keyringVars>>
  \/ /\ part = "directory" /\ DirectoryNext
     /\ UNCHANGED <<part, mfaVars, webVars, licenceVars, roleVars,
                    ladderVars, hostKeyVars, keyringVars>>
  \/ /\ part = "licensing" /\ LicensingNext
     /\ UNCHANGED <<part, mfaVars, webVars, directoryVars, roleVars,
                    ladderVars, hostKeyVars, keyringVars>>
  \/ /\ part = "roles" /\ RolesNext
     /\ UNCHANGED <<part, mfaVars, webVars, directoryVars, licenceVars,
                    ladderVars, hostKeyVars, keyringVars>>
  \/ /\ part = "risk" /\ LadderNext
     /\ UNCHANGED <<part, mfaVars, webVars, directoryVars, licenceVars,
                    roleVars, hostKeyVars, keyringVars>>
  \/ /\ part = "hosts" /\ HostKeysNext
     /\ UNCHANGED <<part, mfaVars, webVars, directoryVars, licenceVars,
                    roleVars, ladderVars, keyringVars>>
  \/ /\ part = "keyring" /\ KeyringNext
     /\ UNCHANGED <<part, mfaVars, webVars, directoryVars, licenceVars,
                    roleVars, ladderVars, hostKeyVars>>

MCSpec == MCInit /\ [][MCNext]_vars

\* The workers of the platform are interchangeable.
MCSymmetry == Permutations(MfaWorker) \cup Permutations(HostKey)
=============================================================================
