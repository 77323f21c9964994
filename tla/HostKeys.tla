------------------------------ MODULE HostKeys ------------------------------
(***************************************************************************)
(* The host keys of one SSH target: what the console trusts and revokes,   *)
(* what an authorization hands the gateway, and the first-use registration *)
(* the gateway asks for once it is connected (pamolive/targets, the        *)
(* gateway API and gateway/ssh.py).                                        *)
(*                                                                         *)
(* A key is named by its fingerprint, unique per target whether revoked or *)
(* not.  A transaction that creates a key row and one that has locked the  *)
(* target exclude each other (the reference to the target is a key lock),  *)
(* so each is one step.  The policy is read before the lock is taken, and  *)
(* an answer may be lost on its way back to the gateway.                   *)
(***************************************************************************)
EXTENDS Naturals

CONSTANTS
  HostKey,  \* the keys the server may present
  Link,     \* the gateway connections to the target
  NoKey

ASSUME HostKeyAssumption == NoKey \notin HostKey

HostKeyPolicy == {"strict", "tofu"}

VARIABLES
  hostPolicy,  \* Target.ssh_host_key_policy
  trust,       \* the TargetHostKey row of each key: "none", "active", "revoked"
  link,        \* each connection: its step, the envelope's policy and
               \* known_hosts, and the key the server presented
  learned,     \* the keys recorded on first use (history)
  vouched      \* the keys active at some time since a link was authorized (history)

hostKeyVars == <<hostPolicy, trust, link, learned, vouched>>

NoLink == [step |-> "idle", policy |-> "strict", known |-> {}, key |-> NoKey]

HostKeysInit ==
  /\ hostPolicy \in HostKeyPolicy
  /\ trust = [k \in HostKey |-> "none"]
  /\ link = [l \in Link |-> NoLink]
  /\ learned = {}
  /\ vouched = [l \in Link |-> {}]

TrustedKeys == {k \in HostKey : trust[k] = "active"}

-----------------------------------------------------------------------------
(* The console.                                                            *)

\* The key's row is written, and every link under way sees it vouched for.
Trust(k) ==
  /\ trust' = [trust EXCEPT ![k] = "active"]
  /\ vouched' = [l \in Link |-> IF link[l].step = "idle" THEN {} ELSE vouched[l] \cup {k}]

\* The page of host keys: a fingerprint the target already has, revoked or
\* not, breaks the unique constraint and the request fails.
host_keys(k) ==
  /\ trust[k] = "none"
  /\ Trust(k)
  /\ UNCHANGED <<hostPolicy, link, learned>>

revoke_host_key(k) ==
  /\ trust[k] = "active"
  /\ trust' = [trust EXCEPT ![k] = "revoked"]
  /\ UNCHANGED <<hostPolicy, link, learned, vouched>>

\* The target's form.
SetHostKeyPolicy(p) ==
  /\ hostPolicy' = p
  /\ UNCHANGED <<trust, link, learned, vouched>>

-----------------------------------------------------------------------------
(* An authorization.                                                       *)

ReadTarget(l) ==
  /\ link[l].step = "idle"
  /\ link' = [link EXCEPT ![l] = [NoLink EXCEPT !.step = "read", !.policy = hostPolicy]]
  /\ vouched' = [vouched EXCEPT ![l] = TrustedKeys]
  /\ UNCHANGED <<hostPolicy, trust, learned>>

End(l) == /\ link' = [link EXCEPT ![l] = NoLink]
          /\ vouched' = [vouched EXCEPT ![l] = {}]

\* The envelope takes the active keys; a strict target without one is refused.
gateway_authorize(l) ==
  /\ link[l].step = "read"
  /\ IF TrustedKeys = {} /\ link[l].policy = "strict"
     THEN End(l)
     ELSE /\ link' = [link EXCEPT ![l] = [@ EXCEPT !.step = "authorized", !.known = TrustedKeys]]
          /\ UNCHANGED vouched
  /\ UNCHANGED <<hostPolicy, trust, learned>>

-----------------------------------------------------------------------------
(* The connection.                                                         *)

\* Mutant of Accepted: a host unknown to the envelope is taken as it comes.
AcceptedAnyway(e, k) == TRUE

\* The key exchange accepts the key: the known_hosts, when there are any, decide.
Accepted(e, k) == e.known = {} \/ k \in e.known

\* The server presents k.  Without known_hosts only a first-use target goes on,
\* and the key is registered before anything runs.
bridge_ssh(l, k) ==
  /\ link[l].step = "authorized"
  /\ IF Accepted(link[l], k) /\ (link[l].known = {} => link[l].policy = "tofu")
     THEN /\ link' = [link EXCEPT ![l] =
                        [@ EXCEPT !.step = IF link[l].known = {} THEN "observed" ELSE "open",
                                  !.key = k]]
          /\ UNCHANGED vouched
     ELSE End(l)
  /\ UNCHANGED <<hostPolicy, trust, learned>>

\* gateway_trust_host_key, before its transaction: the policy as it is now.
CheckFirstUse(l) ==
  /\ link[l].step = "observed"
  /\ IF hostPolicy = "tofu"
     THEN link' = [link EXCEPT ![l] = [@ EXCEPT !.step = "checked"]] /\ UNCHANGED vouched
     ELSE End(l)
  /\ UNCHANGED <<hostPolicy, trust, learned>>

Opened(l) == [link EXCEPT ![l] = [@ EXCEPT !.step = "open"]]

\* The key is recorded, and the answer reaches the gateway or is lost.
Record(l, k) ==
  /\ Trust(k)
  /\ learned' = learned \cup {k}
  /\ link' \in {Opened(l), [link EXCEPT ![l] = NoLink]}

\* Mutant of gateway_trust_host_key: the rows are not read under the lock, and
\* the empty known_hosts of the envelope stands for them.
TrustUnlocked(l) ==
  /\ link[l].step = "checked"
  /\ LET k == link[l].key IN
       \/ trust[k] = "active" /\ link' = Opened(l) /\ UNCHANGED <<trust, learned, vouched>>
       \/ trust[k] = "none" /\ Record(l, k)
       \/ trust[k] # "none" /\ End(l) /\ UNCHANGED <<trust, learned>>
  /\ UNCHANGED hostPolicy

\* The transaction that has locked the target: the key is known, or another one
\* is, or it is the first; a row that was revoked fails the request, and the
\* gateway takes any failure, a lost answer included, for a refusal.
gateway_trust_host_key(l) ==
  /\ link[l].step = "checked"
  /\ LET k == link[l].key IN
       \/ trust[k] = "active" /\ link' = Opened(l) /\ UNCHANGED <<trust, learned, vouched>>
       \/ TrustedKeys = {} /\ trust[k] = "none" /\ Record(l, k)
       \/ (TrustedKeys # {} \/ trust[k] = "revoked") /\ End(l) /\ UNCHANGED <<trust, learned>>
  /\ UNCHANGED hostPolicy

\* The connection ends, at any point of it.
Disconnect(l) ==
  /\ link[l].step # "idle"
  /\ End(l)
  /\ UNCHANGED <<hostPolicy, trust, learned>>

HostKeysNext ==
  \/ \E k \in HostKey : host_keys(k) \/ revoke_host_key(k)
  \/ \E p \in HostKeyPolicy : SetHostKeyPolicy(p)
  \/ \E l \in Link : \/ ReadTarget(l) \/ gateway_authorize(l) \/ CheckFirstUse(l)
                     \/ gateway_trust_host_key(l) \/ Disconnect(l)
                     \/ \E k \in HostKey : bridge_ssh(l, k)

HostKeysSpec == HostKeysInit /\ [][HostKeysNext]_hostKeyVars

-----------------------------------------------------------------------------
(* Properties.                                                             *)

\* Nothing runs on a host that was not vouched for: the key of an open
\* connection was active at some time since its authorization, whatever the
\* console and the other connections did meanwhile (the known_hosts of
\* gateway_authorize, and the answer bridge_ssh waits for).
OpensOnTrustedKeys == \A l \in Link : link[l].step = "open" => link[l].key \in vouched[l]

\* First use learns one key: connections that meet different keys at once never
\* leave two of them trusted, and a later first use finds the first one (the
\* lock of the target in gateway_trust_host_key).
LearnsOneKey == \A j, k \in learned : {j, k} \subseteq TrustedKeys => j = k

\* A revoked key is never trusted again, by hand or by being met on a host that
\* has no other key left (the unique constraint of TargetHostKey).
RevokedForGood == [][\A k \in HostKey : trust[k] = "revoked" => trust'[k] = "revoked"]_hostKeyVars
=============================================================================
