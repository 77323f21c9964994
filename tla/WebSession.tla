----------------------------- MODULE WebSession -----------------------------
(***************************************************************************)
(* The browser sessions of one account: sign-in, the middlewares that end  *)
(* them and that enforce enrolment, and the recent MFA proof that          *)
(* sensitive actions ask for (pamolive/accounts).                          *)
(*                                                                         *)
(* Django loads the session of a request before the middlewares run and    *)
(* saves the whole of it after the view, so a request works on a copy and  *)
(* the last one to finish wins; it cannot save a session that is gone.     *)
(* Whether a code is good is the business of Mfa: here a proof succeeds or *)
(* not.  Every duration is in steps of one clock.                          *)
(***************************************************************************)
EXTENDS Naturals

CONSTANTS
  Thread,        \* the threads that serve requests
  MaxLogin,      \* how often somebody may sign in
  SecurityForm,  \* what the session policy form may be submitted with
  WebHorizon,    \* the clock stops here
  NoSession,
  NoRequest,
  Never          \* a time that a session does not hold

Key == 1..MaxLogin

Moment == Nat \cup {Never}

\* The data of a session, and a request with its copy of them.
Stored == [started : Moment, active : Moment, verified : Moment]

Served == [key : Key, session : Stored, policy : SecurityForm, limited : BOOLEAN]

ASSUME WebAssumption ==
  /\ MaxLogin \in Nat /\ WebHorizon \in Nat
  /\ Never \notin Nat
  /\ NoSession \notin Stored /\ NoRequest \notin Served
  /\ \A f \in SecurityForm : f.idle \in Nat /\ f.absolute \in Nat /\ f.window \in Nat
                             /\ f.require \in BOOLEAN

VARIABLES
  web,       \* the stored sessions, by key: started, active and verified are
             \* pam_session_started_at, pam_last_activity_at and pam_mfa_verified_at
  thread,    \* the request each thread serves: its session and its policy
  security,  \* the PlatformSecurityPolicy row
  enrolled,  \* User.mfa_enrolled
  logins,    \* how many sessions have been created
  clock,
  proof,     \* when each session last proved the second factor (history)
  used,      \* when each session was last used, polls apart (history)
  stale,     \* the sessions that acted without a recent proof (history)
  late       \* the sessions served after they had been idle too long (history)

webVars == <<web, thread, security, enrolled, logins, clock, proof, used, stale, late>>

\* PlatformSecurityPolicy.clean and the validators.
CleanSecurity(f) == f.idle > 0 /\ f.absolute >= f.idle

WebInit ==
  /\ web = [k \in Key |-> NoSession]
  /\ thread = [t \in Thread |-> NoRequest]
  /\ security \in {f \in SecurityForm : CleanSecurity(f)}
  /\ enrolled \in BOOLEAN
  /\ logins = 0
  /\ clock = 0
  /\ proof = [k \in Key |-> Never]
  /\ used = [k \in Key |-> Never]
  /\ stale = {}
  /\ late = {}

-----------------------------------------------------------------------------
(* Sign-in and sign-out.                                                   *)

SignIn(verified) ==
  /\ logins < MaxLogin
  /\ logins' = logins + 1
  /\ web' = [web EXCEPT ![logins + 1] =
               [started |-> Never, active |-> Never, verified |-> verified]]
  /\ proof' = [proof EXCEPT ![logins + 1] = verified]
  /\ UNCHANGED <<thread, security, enrolled, clock, used, stale, late>>

\* The form asks an enrolled account for a code (PAMOliveAuthenticationForm.clean).
PAMOliveLoginView == SignIn(IF enrolled THEN clock ELSE Never)

\* A sign-in with an identity provider proves nothing to this platform.
oidc_callback == SignIn(Never)

Logout(k) ==
  /\ web[k] # NoSession
  /\ web' = [web EXCEPT ![k] = NoSession]
  /\ UNCHANGED <<thread, security, enrolled, logins, clock, proof, used, stale, late>>

-----------------------------------------------------------------------------
(* The middlewares.                                                        *)

Since(s) == IF s.started = Never THEN clock ELSE s.started
Active(s) == IF s.active = Never THEN clock ELSE s.active

Expired(s) == \/ clock - Since(s) >= security.absolute
              \/ clock - Active(s) >= security.idle

\* Mutant of Touched: a poll of the status counts as activity.
TouchedByPolls(s, passive) == [s EXCEPT !.started = Since(s), !.active = clock]

\* The session after _apply_policy; a poll of /admin/status/ is no activity.
Touched(s, passive) ==
  [s EXCEPT !.started = Since(s), !.active = IF passive THEN @ ELSE clock]

InService(k) == \E t \in {u \in Thread : thread[u] # NoRequest} : thread[t].key = k

\* The request reaches its view, under the policy read now.  It is limited to
\* the enrolment pages when the policy asks for an MFA the account lacks.
Serve(t, k, passive) ==
  /\ thread' = [thread EXCEPT ![t] =
                  [key |-> k, session |-> Touched(web[k], passive), policy |-> security,
                   limited |-> security.require /\ ~enrolled]]
  /\ used' = IF passive THEN used ELSE [used EXCEPT ![k] = clock]
  /\ late' = late \cup {l \in {k} : /\ ~InService(l) /\ used[l] # Never
                                   /\ clock - used[l] >= security.idle}
  /\ UNCHANGED web

\* SessionSecurityMiddleware and MFAEnrollmentMiddleware.  Polls come from a page
\* that was served before.
_apply_policy(t, k, passive) ==
  /\ thread[t] = NoRequest
  /\ web[k] # NoSession
  /\ passive => web[k].active # Never
  /\ \/ /\ Expired(web[k])
        /\ web' = [web EXCEPT ![k] = NoSession]
        /\ UNCHANGED <<thread, used, late>>
     \/ ~Expired(web[k]) /\ Serve(t, k, passive)
  /\ UNCHANGED <<security, enrolled, logins, clock, proof, stale>>

-----------------------------------------------------------------------------
(* The views.                                                              *)

\* The session as the view leaves it replaces the stored one, if there is one.
Save(t, s) ==
  /\ web' = [web EXCEPT ![thread[t].key] = IF @ = NoSession THEN @ ELSE s]
  /\ thread' = [thread EXCEPT ![t] = NoRequest]

\* A view that changes nothing of this, or that refuses.
Return(t) ==
  /\ thread[t] # NoRequest
  /\ Save(t, thread[t].session)
  /\ UNCHANGED <<security, enrolled, logins, clock, proof, used, stale, late>>

\* mark_mfa_verified, after which the session is saved.
mark_mfa_verified(t) ==
  /\ Save(t, [thread[t].session EXCEPT !.verified = clock])
  /\ proof' = [proof EXCEPT ![thread[t].key] = clock]

\* mfa_verify.
StepUp(t) ==
  /\ thread[t] # NoRequest
  /\ enrolled
  /\ mark_mfa_verified(t)
  /\ UNCHANGED <<security, enrolled, logins, clock, used, stale, late>>

\* mfa_confirm.
ConfirmEnrolment(t) ==
  /\ thread[t] # NoRequest
  /\ ~enrolled
  /\ enrolled' = TRUE
  /\ mark_mfa_verified(t)
  /\ UNCHANGED <<security, logins, clock, used, stale, late>>

\* mfa_setup: an enrolment that starts again leaves the account without a confirmed device.
RestartEnrolment(t) ==
  /\ thread[t] # NoRequest
  /\ enrolled' = FALSE
  /\ Save(t, thread[t].session)
  /\ UNCHANGED <<security, logins, clock, proof, used, stale, late>>

\* mfa_reset.
ResetMfa(t) ==
  /\ thread[t] # NoRequest
  /\ enrolled
  /\ enrolled' = FALSE
  /\ mark_mfa_verified(t)
  /\ UNCHANGED <<security, logins, clock, used, stale, late>>

\* Mutant of user_has_recent_mfa: any proof will do.
HasProof(t) == enrolled /\ thread[t].session.verified # Never

user_has_recent_mfa(t) ==
  /\ enrolled
  /\ thread[t].session.verified # Never
  /\ clock - thread[t].session.verified <= thread[t].policy.window

\* What a view behind sensitive_mfa_required or require_recent_mfa begins with.
sensitive_mfa_required(t) ==
  /\ thread[t] # NoRequest
  /\ ~thread[t].limited
  /\ user_has_recent_mfa(t)
  /\ stale' = stale \cup
       {k \in {thread[t].key} : proof[k] # Never => clock - proof[k] > thread[t].policy.window}

SensitiveView(t) ==
  /\ sensitive_mfa_required(t)
  /\ Save(t, thread[t].session)
  /\ UNCHANGED <<security, enrolled, logins, clock, proof, used, late>>

security_policy(t, f) ==
  /\ sensitive_mfa_required(t)
  /\ CleanSecurity(f)
  /\ security' = f
  /\ Save(t, thread[t].session)
  /\ UNCHANGED <<enrolled, logins, clock, proof, used, late>>

-----------------------------------------------------------------------------
WebTick ==
  /\ clock < WebHorizon
  /\ clock' = clock + 1
  /\ UNCHANGED <<web, thread, security, enrolled, logins, proof, used, stale, late>>

WebNext ==
  \/ PAMOliveLoginView \/ oidc_callback
  \/ \E k \in Key : \/ Logout(k)
                    \/ \E t \in Thread, passive \in BOOLEAN : _apply_policy(t, k, passive)
  \/ \E t \in Thread :
       \/ Return(t) \/ StepUp(t) \/ ConfirmEnrolment(t) \/ RestartEnrolment(t) \/ ResetMfa(t)
       \/ SensitiveView(t)
       \/ \E f \in SecurityForm : security_policy(t, f)
  \/ WebTick

WebSpec == WebInit /\ [][WebNext]_webVars

-----------------------------------------------------------------------------
(* Properties.                                                             *)

\* A sensitive action is only ever performed by a session that itself proved
\* the second factor no longer ago than the policy's window, however its
\* requests overlap and overwrite each other's session (sensitive_mfa_required).
ActsOnRecentProof == stale = {}

\* A session that nobody has used for the idle timeout, and that no request is
\* using, serves no request, polls of the status page notwithstanding (SessionSecurityMiddleware.passive_paths).
IdleSessionsEnd == late = {}
=============================================================================
