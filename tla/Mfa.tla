-------------------------------- MODULE Mfa --------------------------------
(***************************************************************************)
(* The second factor of one account: enrolment, confirmation, verification *)
(* and reset of its TOTP device and its recovery codes                     *)
(* (pamolive/mfa/services.py and the MFA views of pamolive/api/views.py).  *)
(*                                                                         *)
(* Time is counted in TOTP intervals, so counter is also the counter of    *)
(* the code that an authenticator shows.  A code is a secret and a         *)
(* counter: codes of different secrets or counters do not collide.  A view *)
(* is cut where it goes from one transaction to the next; what it carries  *)
(* over the cut is in request.                                             *)
(***************************************************************************)
EXTENDS Naturals, FiniteSets

CONSTANTS
  MfaWorker,     \* the workers that serve the account's MFA views
  Device,        \* the keys that MFADevice rows may get, a set of naturals
  MaxSecret,     \* how many secrets may be generated
  MaxBatch,      \* how many batches of recovery codes may be generated
  LastCounter,   \* the clock stops here
  NoDevice,
  NoCounter

ASSUME MfaAssumption ==
  /\ Device \subseteq Nat
  /\ MaxSecret \in Nat /\ MaxBatch \in Nat /\ LastCounter \in Nat
  /\ NoDevice \notin [secret : Nat, confirmed : BOOLEAN, last : Nat \cup {NoCounter}]
  /\ NoCounter \notin Nat

VARIABLES
  device,    \* the MFADevice rows
  secrets,   \* how many secrets have been generated
  codes,     \* the unused MFARecoveryCode rows
  batches,   \* how many batches of them have been generated
  request,   \* where each worker stands in a view
  counter,   \* the current TOTP counter
  accepted,  \* the codes accepted since the last confirmation of their secret (history)
  replayed,  \* the codes that verify_user_totp has accepted again since then (history)
  spent      \* the recovery codes ever accepted (history)

mfaVars == <<device, secrets, codes, batches, request, counter, accepted, replayed,
             spent>>

\* MFADevice: which secret it holds, and the last counter that was accepted.
DeviceRow == [secret : 1..MaxSecret, confirmed : BOOLEAN,
              last : (0..(LastCounter + 1)) \cup {NoCounter}]

\* MFARecoveryCode: one code stands for the codes of its batch.
RecoveryCode == [device : Device, batch : 1..MaxBatch]

Idle == [step |-> "idle", device |-> 0, doomed |-> {}]

MfaInit ==
  /\ device = [d \in Device |-> NoDevice]
  /\ secrets = 0
  /\ codes = {}
  /\ batches = 0
  /\ request = [w \in MfaWorker |-> Idle]
  /\ counter = 0
  /\ accepted = {}
  /\ replayed = {}
  /\ spent = {}

Rows == {d \in Device : device[d] # NoDevice}
Confirmed == {d \in Rows : device[d].confirmed}
First(D) == CHOOSE d \in D : \A e \in D : d <= e

Goto(w, step, d) == request' = [request EXCEPT ![w] = [Idle EXCEPT !.step = step, !.device = d]]
Finish(w) == request' = [request EXCEPT ![w] = Idle]

-----------------------------------------------------------------------------
(* Enrolment.                                                              *)

NewRow == [secret |-> secrets + 1, confirmed |-> FALSE, last |-> NoCounter]

\* The default values of update_or_create written to the row d.
Enroll(d) ==
  /\ secrets < MaxSecret
  /\ device' = [device EXCEPT ![d] = NewRow]
  /\ secrets' = secrets + 1
  /\ UNCHANGED <<codes, batches, counter, accepted, replayed, spent>>

\* update_or_create holds the lock of the only row from its SELECT to its
\* UPDATE; with several rows it raises MultipleObjectsReturned.
begin_totp_enrollment(w) ==
  /\ request[w] = Idle
  /\ \/ /\ Cardinality(Rows) = 1
        /\ Enroll(First(Rows))
        /\ UNCHANGED request
     \/ /\ Rows = {}
        /\ Goto(w, "creating", 0)
        /\ UNCHANGED <<device, secrets, codes, batches, counter, accepted, replayed, spent>>

\* The INSERT of update_or_create: nothing keeps a second row out by now.
CreateDevice(w, d) ==
  /\ request[w].step = "creating"
  /\ d \notin Rows
  /\ Enroll(d)
  /\ Finish(w)

\* The page creates a device only for an account that has none at all.
mfa_enrollment_required(w) == Rows = {} /\ begin_totp_enrollment(w)

-----------------------------------------------------------------------------
(* Verification.                                                           *)

\* A TOTP code is in the window when its counter is the current one or a
\* neighbour of it.
matching_totp_counter(d, code) ==
  /\ code.secret = device[d].secret
  /\ code.counter <= counter + 1 /\ counter <= code.counter + 1

\* Mutant of Newer: the last accepted counter may be used again.
NotOlder(d, code) == device[d].last # NoCounter => code.counter >= device[d].last

Newer(d, code) == device[d].last # NoCounter => code.counter > device[d].last

\* Only the first confirmed device is looked at.
verify_user_totp(code) ==
  /\ Confirmed # {}
  /\ matching_totp_counter(First(Confirmed), code)
  /\ Newer(First(Confirmed), code)
  /\ device' = [device EXCEPT ![First(Confirmed)].last = code.counter]
  /\ accepted' = accepted \cup {code}
  /\ replayed' = replayed \cup ({code} \cap accepted)
  /\ UNCHANGED <<codes, spent>>

\* The rows that an open replace_recovery_codes has deleted are locked.
Locked == UNION {request[w].doomed : w \in MfaWorker}

\* Mutant of consume_recovery_code: used_at is not saved.
ConsumeUnmarked(c) ==
  /\ c \in codes \ Locked
  /\ device[c.device].confirmed
  /\ spent' = spent \cup {c}
  /\ UNCHANGED <<codes, device, accepted, replayed>>

consume_recovery_code(c) ==
  /\ c \in codes \ Locked
  /\ device[c.device].confirmed
  /\ codes' = codes \ {c}
  /\ spent' = spent \cup {c}
  /\ UNCHANGED <<device, accepted, replayed>>

\* The codes that may be typed: of any secret shown, for any counter up to one
\* that is beyond the window.
TotpCode == [secret : 1..secrets, counter : 0..(counter + 2)]

verify_user_mfa ==
  /\ \/ \E code \in TotpCode : verify_user_totp(code)
     \/ \E c \in codes : consume_recovery_code(c)
  /\ UNCHANGED <<secrets, batches, counter>>

\* The sign-in form and the step-up page: one verification, no other row.
mfa_verify == Confirmed # {} /\ verify_user_mfa /\ UNCHANGED request

-----------------------------------------------------------------------------
(* Confirmation, and the recovery codes that come with it.                 *)

\* The view reads the device before confirm_totp_device locks it.
mfa_confirm(w, d) ==
  /\ request[w] = Idle
  /\ d \in Rows \ Confirmed
  /\ Goto(w, "confirming", d)
  /\ UNCHANGED <<device, secrets, codes, batches, counter, accepted, replayed, spent>>

\* Mutant of confirm_totp_device: the code is compared with any secret shown
\* so far, as when the row is not read again under its lock.
ConfirmUnread(w, code) ==
  LET d == request[w].device IN
  /\ request[w].step = "confirming"
  /\ d \in Rows
  /\ code.counter <= counter + 1 /\ counter <= code.counter + 1
  /\ device' = [device EXCEPT ![d] = [@ EXCEPT !.confirmed = TRUE, !.last = code.counter]]
  /\ accepted' = {a \in accepted : a.secret # code.secret} \cup {code}
  /\ Goto(w, "confirmed", d)
  /\ UNCHANGED <<secrets, codes, batches, counter, replayed, spent>>

\* The locked row is confirmed by a code of its present secret, whichever
\* counters were accepted before.
confirm_totp_device(w, code) ==
  LET d == request[w].device IN
  /\ request[w].step = "confirming"
  /\ d \in Rows
  /\ matching_totp_counter(d, code)
  /\ device' = [device EXCEPT ![d] = [@ EXCEPT !.confirmed = TRUE, !.last = code.counter]]
  /\ accepted' = {a \in accepted : a.secret # code.secret} \cup {code}
  /\ Goto(w, "confirmed", d)
  /\ UNCHANGED <<secrets, codes, batches, counter, replayed, spent>>

\* A wrong code, or a device that is gone by now, ends the view.
Refuse(w) ==
  /\ request[w].step \in {"confirming", "renewing"}
  /\ Finish(w)
  /\ UNCHANGED <<device, secrets, codes, batches, counter, accepted, replayed, spent>>

CodesOf(d) == {c \in codes : c.device = d}

\* The DELETE of replace_recovery_codes waits for the rows another open one has
\* deleted; it does not see the rows that the other has yet to commit.
DeleteCodes(w) ==
  /\ request[w].step \in {"confirmed", "renewed"}
  /\ CodesOf(request[w].device) \cap Locked = {}
  /\ request' = [request EXCEPT ![w] =
                   [@ EXCEPT !.step = "replacing", !.doomed = CodesOf(request[w].device)]]
  /\ UNCHANGED <<device, secrets, codes, batches, counter, accepted, replayed, spent>>

\* The INSERTs and the commit: codes of a device that is gone are refused by
\* the foreign key, and the transaction is rolled back.
replace_recovery_codes(w) ==
  LET d == request[w].device IN
  /\ request[w].step = "replacing"
  /\ \/ /\ d \in Rows
        /\ batches < MaxBatch
        /\ batches' = batches + 1
        /\ codes' = (codes \ request[w].doomed) \cup {[device |-> d, batch |-> batches + 1]}
     \/ /\ d \notin Rows
        /\ UNCHANGED <<batches, codes>>
  /\ Finish(w)
  /\ UNCHANGED <<device, secrets, counter, accepted, replayed, spent>>

\* The view finds the confirmed device, and only then reads the form.
mfa_recovery_regenerate(w) ==
  /\ request[w] = Idle
  /\ Cardinality(Confirmed) = 1
  /\ Goto(w, "renewing", First(Confirmed))
  /\ UNCHANGED <<device, secrets, codes, batches, counter, accepted, replayed, spent>>

Regenerate(w) ==
  /\ request[w].step = "renewing"
  /\ verify_user_mfa
  /\ request' = [request EXCEPT ![w].step = "renewed"]

-----------------------------------------------------------------------------
(* Reset.                                                                  *)

mfa_reset(w) ==
  /\ request[w] = Idle
  /\ verify_user_mfa
  /\ Goto(w, "resetting", 0)

\* Every device goes, and with it its recovery codes.
reset_user_mfa(w) ==
  /\ request[w].step = "resetting"
  /\ Locked = {}
  /\ device' = [d \in Device |-> NoDevice]
  /\ codes' = {}
  /\ Finish(w)
  /\ UNCHANGED <<secrets, batches, counter, accepted, replayed, spent>>

\* Codes inserted between its statements make the foreign key refuse the reset.
ResetFails(w) ==
  /\ request[w].step = "resetting"
  /\ \E v \in MfaWorker : request[v].step = "replacing"
  /\ Finish(w)
  /\ UNCHANGED <<device, secrets, codes, batches, counter, accepted, replayed, spent>>

-----------------------------------------------------------------------------
NextInterval ==
  /\ counter < LastCounter
  /\ counter' = counter + 1
  /\ UNCHANGED <<device, secrets, codes, batches, request, accepted, replayed, spent>>

MfaNext ==
  \/ \E w \in MfaWorker :
       \/ begin_totp_enrollment(w) \/ mfa_enrollment_required(w)
       \/ \E d \in Device : CreateDevice(w, d) \/ mfa_confirm(w, d)
       \/ \E code \in TotpCode : confirm_totp_device(w, code)
       \/ Refuse(w) \/ DeleteCodes(w) \/ replace_recovery_codes(w)
       \/ mfa_recovery_regenerate(w) \/ Regenerate(w)
       \/ mfa_reset(w) \/ reset_user_mfa(w) \/ ResetFails(w)
  \/ mfa_verify
  \/ NextInterval

MfaSpec == MfaInit /\ [][MfaNext]_mfaVars

-----------------------------------------------------------------------------
(* Properties.                                                             *)

\* The rows, the codes and the open views are of their types.
MfaTypeOK ==
  /\ device \in [Device -> DeviceRow \cup {NoDevice}]
  /\ secrets \in 0..MaxSecret
  /\ codes \in SUBSET RecoveryCode
  /\ batches \in 0..MaxBatch
  /\ counter \in 0..LastCounter
  /\ accepted \in SUBSET [secret : 1..MaxSecret, counter : 0..(LastCounter + 1)]
  /\ replayed \in SUBSET accepted
  /\ spent \in SUBSET RecoveryCode
  /\ \A w \in MfaWorker :
       request[w].device \in Device \cup {0} /\ request[w].doomed \in SUBSET RecoveryCode

\* A confirmed device holds a secret that its owner has shown to possess: a
\* code of that very secret was accepted, even if the enrolment was started
\* again between the view's read of the device and its confirmation
\* (confirm_totp_device reads the row again under its lock).
ConfirmedByItsSecret ==
  \A d \in Confirmed : \E a \in accepted : a.secret = device[d].secret

\* No code is accepted twice by verify_user_totp since its secret was last
\* confirmed: of the concurrent sign-ins, step-ups, resets and renewals that
\* bring it, the row lock and last_accepted_totp_counter let one pass.  (A late
\* confirmation of an already confirmed device may set the counter back.)
AcceptedOnce == replayed = {}

\* A recovery code is accepted once, and none outlives its device: whatever
\* renewals and resets overlap, an unused row was never used before and belongs
\* to a device that exists (consume_recovery_code, the cascade of the reset).
RecoveryCodesOnce ==
  /\ codes \cap spent = {}
  /\ \A c \in codes : device[c.device] # NoDevice
=============================================================================
