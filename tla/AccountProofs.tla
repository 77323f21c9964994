--------------------------- MODULE AccountProofs ----------------------------
(***************************************************************************)
(* What is proved of the accounts: how many a licence lets be created, and *)
(* what holds of their second factor.                                      *)
(***************************************************************************)
EXTENDS Mfa, Licensing, TLAPS, WellFoundedInduction, FiniteSetTheorems

-----------------------------------------------------------------------------
(***************************************************************************)
(* Proofs about Licensing, for any settings, any licences and any number   *)
(* of workers.                                                             *)
(*                                                                         *)
(* Both properties rest on the sum of the rows there are and the rows that *)
(* are checked but not yet written: an insertion leaves it alone, and only *)
(* a check raises it, by one, when the rows are below the limit.           *)
(***************************************************************************)

LicenceTypes ==
  /\ settings \in Settings
  /\ expired \in BOOLEAN
  /\ count \in [Kind -> Nat]
  /\ saving \in [Saver -> Kind \cup {"none"}]

\* Unless two saves overlapped, what is written and what is to be fits the limit.
FitsUnlessCrowded ==
  \A k \in Kind \ crowded : Status.max[k] # NoLimit => count[k] + Pending(k) <= Status.max[k]

LicenceInv == LicenceTypes /\ OvershootIsBounded /\ FitsUnlessCrowded /\ OnlyCrowdedIsRefused

\* A status limits each kind or does not, and one that is not valid limits none.
LEMMA StatusType ==
  ASSUME NEW s \in Settings, NEW late \in BOOLEAN
  PROVE  LET status == get_license_status(s, late)
         IN  /\ status.max \in [Kind -> Nat \cup {NoLimit}]
             /\ \A k \in Kind : status.max[k] # NoLimit => status.valid
BY LicensingAssumption
   DEF get_license_status, configured_edition, Edition, Unlimited, Kind, _verify_signed_license

\* An expiry lifts the limits of a licence and changes no other.
LEMMA ExpiryLifts ==
  ASSUME NEW s \in Settings, NEW k \in Kind, get_license_status(s, TRUE).max[k] # NoLimit
  PROVE  \A late \in BOOLEAN : get_license_status(s, late).max[k] = get_license_status(s, TRUE).max[k]
BY DEF get_license_status, configured_edition, Edition, Unlimited, Kind, _verify_signed_license

\* The number of rows of a kind that are about to be written.
LEMMA PendingType ==
  ASSUME NEW k PROVE Pending(k) \in Nat /\ Pending(k) <= Cardinality(Saver)
                     /\ Cardinality(Saver) \in Nat
BY LicensingAssumption, FS_Subset, FS_CardinalityType DEF Pending

\* Nobody is saving when the platform starts.
LEMMA NonePending ==
  ASSUME NEW k \in Kind, \A w \in Saver : saving[w] # k PROVE Pending(k) = 0
<1>1. {w \in Saver : saving[w] = k} = {}
  OBVIOUS
<1> QED
  BY <1>1, FS_EmptySet DEF Pending

\* A worker that checks a row makes one more pending of its kind.
LEMMA PendingMore ==
  ASSUME LicenceTypes, NEW w \in Saver, NEW k \in Kind, saving[w] = "none",
         saving' = [saving EXCEPT ![w] = k]
  PROVE  /\ Pending(k)' = Pending(k) + 1
         /\ \A j \in Kind \ {k} : Pending(j)' = Pending(j)
<1> DEFINE P(j) == {v \in Saver : saving[v] = j}
<1>1. P(k)' = P(k) \cup {w} /\ w \notin P(k)
  BY DEF LicenceTypes, Kind
<1>2. \A j \in Kind \ {k} : P(j)' = P(j)
  BY DEF LicenceTypes, Kind
<1>3. IsFiniteSet(P(k))
  BY FS_Subset, LicensingAssumption
<1>4. Cardinality(P(k)') = Cardinality(P(k)) + 1
  BY <1>1, <1>3, FS_AddElement
<1> QED
  BY <1>2, <1>4 DEF Pending

\* A worker that writes its row makes one less.
LEMMA PendingLess ==
  ASSUME LicenceTypes, NEW w \in Saver, NEW k \in Kind, saving[w] = k,
         saving' = [saving EXCEPT ![w] = "none"]
  PROVE  /\ Pending(k)' = Pending(k) - 1
         /\ \A j \in Kind \ {k} : Pending(j)' = Pending(j)
<1> DEFINE P(j) == {v \in Saver : saving[v] = j}
<1>1. P(k)' = P(k) \ {w} /\ w \in P(k)
  BY DEF LicenceTypes, Kind
<1>2. \A j \in Kind \ {k} : P(j)' = P(j)
  BY DEF LicenceTypes, Kind
<1>3. IsFiniteSet(P(k))
  BY FS_Subset, LicensingAssumption
<1>4. Cardinality(P(k)') = Cardinality(P(k)) - 1
  BY <1>1, <1>3, FS_RemoveElement
<1> QED
  BY <1>2, <1>4 DEF Pending

\* Settings under which a kind is not too many allow its rows.
LEMMA NotTooMany ==
  ASSUME LicenceTypes, NEW s \in Settings, NEW k \in Kind \ TooMany(s),
         get_license_status(s, FALSE).max[k] # NoLimit
  PROVE  count[k] <= get_license_status(s, FALSE).max[k]
<1> DEFINE max == get_license_status(s, FALSE).max
<1>1. max[k] \in Nat /\ count[k] \in Nat
  BY Zenon, StatusType DEF LicenceTypes
<1>2. ~ (count[k] > max[k])
  BY Zenon DEF TooMany
<1> HIDE DEF max
<1>3. count[k] <= max[k]
  BY <1>1, <1>2
<1> QED
  BY Zenon, <1>3 DEF max

-----------------------------------------------------------------------------
\* At the start one user is there, and nobody is saving.
LEMMA InitLicence == LicensingInit => LicenceInv
<1> SUFFICES ASSUME LicensingInit PROVE LicenceInv
  OBVIOUS
<1>1. LicenceTypes
  BY Zenon DEF LicensingInit, LicenceTypes, Kind
<1>2. \A k \in Kind : Pending(k) = 0
  BY NonePending DEF LicensingInit, Kind
<1>3. FitsUnlessCrowded
  <2>1. Status = get_license_status(settings, FALSE)
    BY Zenon DEF LicensingInit, Status
  <2>2. ASSUME NEW k \in Kind \ crowded, Status.max[k] # NoLimit
        PROVE  count[k] + Pending(k) <= Status.max[k]
    <3>1. count[k] <= Status.max[k]
      BY Zenon, <1>1, <2>1, <2>2, NotTooMany DEF LicensingInit
    <3> QED
      BY <1>1, <1>2, <3>1 DEF LicenceTypes
  <2> QED
    BY <2>2 DEF FitsUnlessCrowded
<1> QED
  BY <1>1, <1>2, <1>3
     DEF LicensingInit, LicenceInv, OvershootIsBounded, OnlyCrowdedIsRefused

\* Only a check that found the rows below the limit raises the sum.
LEMMA NextLicence == LicenceInv /\ [LicensingNext]_licenceVars => LicenceInv'
<1> SUFFICES ASSUME LicenceInv, [LicensingNext]_licenceVars PROVE LicenceInv'
  OBVIOUS
<1> USE LicensingAssumption DEF LicenceInv
<1>1. /\ Status.max \in [Kind -> Nat \cup {NoLimit}]
      /\ \A k \in Kind : Status.max[k] # NoLimit => Status.valid
  BY StatusType DEF LicenceTypes, Status
<1>2. \A k \in Kind : /\ Pending(k) \in Nat /\ Pending(k)' \in Nat /\ count[k] \in Nat
                     /\ Pending(k) <= Cardinality(Saver) /\ Pending(k)' <= Cardinality(Saver)
                     /\ Cardinality(Saver) \in Nat
  <2>1. \A k \in Kind : Pending(k) \in Nat /\ Pending(k) <= Cardinality(Saver)
                       /\ Cardinality(Saver) \in Nat
    BY PendingType
  <2>2. \A k \in Kind : Pending(k)' \in Nat /\ Pending(k)' <= Cardinality(Saver)
    BY FS_Subset, FS_CardinalityType DEF Pending
  <2> QED
    BY <2>1, <2>2 DEF LicenceTypes
<1>3. ASSUME NEW w \in Saver, NEW k \in Kind, enforce_license_limit(w, k) PROVE LicenceInv'
  <2>1. /\ LicenceTypes' /\ Status' = Status /\ count' = count /\ crowded \subseteq crowded'
        /\ refused' = refused
    BY SMTT(30), <1>3 DEF enforce_license_limit, LicenceTypes, Status
  <2>2. /\ Pending(k)' = Pending(k) + 1
        /\ \A j \in Kind \ {k} : Pending(j)' = Pending(j)
    BY Zenon, <1>3, PendingMore DEF enforce_license_limit
  <2>3. Status.max[k] # NoLimit => count[k] < Status.max[k]
    BY <1>1, <1>2, <1>3 DEF enforce_license_limit, Exceeds
  <2>4. OvershootIsBounded'
    BY <1>1, <1>2, <2>1, <2>2, <2>3 DEF OvershootIsBounded
  <2>5. k \notin crowded' => Pending(k) = 0
    BY <1>3, NonePending DEF enforce_license_limit
  <2>6. FitsUnlessCrowded'
    BY SMTT(30), <1>1, <1>2, <2>1, <2>2, <2>3, <2>5 DEF FitsUnlessCrowded
  <2> QED
    BY <2>1, <2>4, <2>6 DEF OnlyCrowdedIsRefused
<1>4. ASSUME NEW w \in Saver, Insert(w) PROVE LicenceInv'
  <2>1. PICK k \in Kind : saving[w] = k
    BY <1>4 DEF Insert, LicenceTypes
  <2>2. /\ Pending(k)' = Pending(k) - 1
        /\ \A j \in Kind \ {k} : Pending(j)' = Pending(j)
    BY ZenonT(60), <1>4, <2>1, PendingLess DEF Insert
  <2>3. /\ LicenceTypes' /\ Status' = Status /\ crowded' = crowded /\ refused' = refused
        /\ count'[k] = count[k] + 1
        /\ \A j \in Kind \ {k} : count'[j] = count[j]
    BY <1>4, <2>1 DEF Insert, LicenceTypes, Status
  <2> QED
    BY <1>1, <1>2, <2>2, <2>3 DEF OvershootIsBounded, FitsUnlessCrowded, OnlyCrowdedIsRefused
<1>5. ASSUME NEW k \in Kind, SaveExisting(k) PROVE LicenceInv'
  <2>1. /\ LicenceTypes' /\ Status' = Status /\ crowded' = crowded /\ count' = count
        /\ refused' = refused \cup {k} /\ \A j \in Kind : Pending(j)' = Pending(j)
    BY <1>5 DEF SaveExisting, LicenceTypes, Status, Pending
  <2>2. Status.max[k] # NoLimit /\ count[k] > Status.max[k]
    BY <1>1, <1>2, <1>5 DEF SaveExisting, Exceeds, Others
  <2>3. k \in crowded
    BY <1>1, <1>2, <2>2 DEF FitsUnlessCrowded
  <2> QED
    BY <2>1, <2>3 DEF OvershootIsBounded, FitsUnlessCrowded, OnlyCrowdedIsRefused
<1>6. ASSUME NEW k \in Kind, Remove(k) PROVE LicenceInv'
  <2>1. /\ LicenceTypes' /\ Status' = Status /\ crowded' = crowded /\ refused' = refused
        /\ \A j \in Kind : Pending(j)' = Pending(j) /\ count'[j] <= count[j] /\ count'[j] \in Nat
    BY <1>6 DEF Remove, LicenceTypes, Status, Pending, Kind
  <2> QED
    BY <1>1, <1>2, <2>1 DEF OvershootIsBounded, FitsUnlessCrowded, OnlyCrowdedIsRefused
<1>7. CASE Expire
  <2>1. /\ LicenceTypes' /\ crowded' = crowded /\ refused' = refused /\ count' = count
        /\ \A j \in Kind : Pending(j)' = Pending(j)
    BY <1>7 DEF Expire, LicenceTypes, Pending
  <2>2. \A k \in Kind : Status'.max[k] # NoLimit => Status.max[k] = Status'.max[k]
    BY Zenon, <1>7, ExpiryLifts DEF Expire, Status, LicenceTypes
  <2> QED
    BY <2>1, <2>2 DEF OvershootIsBounded, FitsUnlessCrowded, OnlyCrowdedIsRefused
<1>8. ASSUME NEW s \in Settings, Start(s) PROVE LicenceInv'
  <2>1. LicenceTypes' /\ crowded' = crowded \cup TooMany(s) /\ refused' = refused /\ count' = count
    BY Zenon, <1>8 DEF Start, LicenceTypes
  <2>2. \A k \in Kind : Pending(k)' = 0
    <3>1. \A k \in Kind : {w \in Saver : saving'[w] = k} = {}
      BY <1>8 DEF Start, Kind
    <3> QED
      BY Zenon, <3>1, FS_EmptySet DEF Pending
  <2>3. Status' = get_license_status(s, FALSE)
    BY Zenon, <1>8 DEF Start, Status
  <2>4. FitsUnlessCrowded'
    <3>1. ASSUME NEW k \in Kind \ crowded', Status'.max[k] # NoLimit
          PROVE  count'[k] + Pending(k)' <= Status'.max[k]
      <4>1. count[k] <= Status'.max[k]
        BY Zenon, <2>1, <2>3, <3>1, NotTooMany
      <4> QED
        BY <1>2, <2>1, <2>2, <4>1
    <3> QED
      BY <3>1 DEF FitsUnlessCrowded
  <2> QED
    BY <2>1, <2>2, <2>4 DEF OvershootIsBounded, OnlyCrowdedIsRefused
<1>9. CASE UNCHANGED licenceVars
  BY <1>9 DEF licenceVars, LicenceTypes, OvershootIsBounded, FitsUnlessCrowded, OnlyCrowdedIsRefused,
              Status, Pending
<1> QED
  BY <1>3, <1>4, <1>5, <1>6, <1>7, <1>8, <1>9 DEF LicensingNext

\* The invariant holds of every reachable state.
THEOREM LicenceInvariance == LicensingSpec => []LicenceInv
BY InitLicence, NextLicence, PTL DEF LicensingSpec

\* The saves that race past the check of a limit go beyond it by less than the
\* number of workers (enforce_active_user_limit, enforce_target_limit).
THEOREM OvershootBound == LicensingSpec => []OvershootIsBounded
BY LicenceInvariance, PTL DEF LicenceInv

\* The save of an existing row, as at every sign-in, is refused only after saves
\* overlapped or the platform was started with too many rows.
THEOREM RefusalsNeedACrowd == LicensingSpec => []OnlyCrowdedIsRefused
BY LicenceInvariance, PTL DEF LicenceInv

-----------------------------------------------------------------------------
(***************************************************************************)
(* Proofs about Mfa, for any number of workers and devices, however many   *)
(* secrets and recovery codes are generated and however long the clock     *)
(* runs.                                                                   *)
(*                                                                         *)
(* That no code is accepted twice is not inductive.  The counter of a      *)
(* confirmed device bounds only the codes of the secret it holds, so two   *)
(* devices may not share a secret, and a secret still to be generated may  *)
(* have no accepted codes: every secret in use is one generated before.    *)
(* Recovery codes are told apart by their batch in the same way.           *)
(***************************************************************************)

\* Where a worker may stand in a view.
MfaStep == {"idle", "creating", "confirming", "confirmed", "replacing", "renewing", "renewed",
         "resetting"}
MfaView == [step : MfaStep, device : Device \cup {0}, doomed : SUBSET RecoveryCode]

MfaTypes ==
  /\ device \in [Device -> DeviceRow \cup {NoDevice}]
  /\ secrets \in 0..MaxSecret
  /\ codes \in SUBSET RecoveryCode
  /\ batches \in 0..MaxBatch
  /\ request \in [MfaWorker -> MfaView]
  /\ counter \in 0..LastCounter
  /\ accepted \in SUBSET [secret : 1..MaxSecret, counter : 0..(LastCounter + 1)]
  /\ spent \in SUBSET RecoveryCode

\* Every secret was generated once, for one device.
SecretsAreOwned ==
  /\ \A d \in Rows : device[d].secret <= secrets
  /\ \A d, e \in Rows : device[d].secret = device[e].secret => d = e
  /\ \A a \in accepted : a.secret <= secrets

\* The counter of a confirmed device has reached every code accepted of its secret.
CounterBounds ==
  \A d \in Confirmed :
    /\ device[d].last # NoCounter
    /\ \A a \in accepted : a.secret = device[d].secret => a.counter <= device[d].last

\* Every recovery code is of a batch generated before.
BatchesAreOld == \A c \in codes \cup spent : c.batch <= batches

TotpInv == MfaTypes /\ SecretsAreOwned /\ CounterBounds /\ ConfirmedByItsSecret /\ AcceptedOnce
RecoveryInv == BatchesAreOld /\ RecoveryCodesOnce

-----------------------------------------------------------------------------
\* A set of devices that is not empty has a first one.
LEMMA FirstIsIn == ASSUME NEW D \in SUBSET Device, D # {} PROVE First(D) \in D
<1>1. PICK d \in D : \A e \in D : ~ (<<e, d>> \in OpToRel(<, Nat))
  BY Zenon, NatLessThanWellFounded, WFMin, MfaAssumption
<1>2. D \subseteq Nat
  BY MfaAssumption
<1>3. \A e, f \in Nat : ~ (<<e, f>> \in OpToRel(<, Nat)) => ~ (e < f)
  BY Zenon DEF OpToRel
<1>4. \A e \in D : ~ (e < d)
  BY <1>1, <1>2, <1>3, Zenon
<1>5. \A e \in D : d <= e
  BY <1>2, <1>4
<1> QED
  BY <1>5 DEF First

\* Counters of codes are numbers, and the batch after the last is a batch.
LEMMA CodeNumbers ==
  /\ \A code \in [secret : 1..MaxSecret, counter : 0..(LastCounter + 1)] :
       code.counter # NoCounter /\ code.counter <= code.counter
  /\ \A n \in 0..MaxBatch : n < MaxBatch => n + 1 \in 0..MaxBatch /\ n + 1 \in 1..MaxBatch
BY MfaAssumption

\* No code is of the batch after the last.
LEMMA NextBatch ==
  ASSUME MfaTypes, BatchesAreOld
  PROVE  /\ \A c \in codes \cup spent : c.batch # batches + 1 /\ c.batch <= batches + 1
         /\ batches + 1 <= batches + 1
<1>1. batches \in Nat /\ \A c \in codes \cup spent : c.batch \in Nat
  BY MfaAssumption DEF MfaTypes, RecoveryCode
<1> QED
  BY <1>1 DEF BatchesAreOld

\* Nor is a set with one element empty.
LEMMA OnlyIsIn ==
  ASSUME NEW D \in SUBSET Device, Cardinality(D) = 1 PROVE First(D) \in Device
<1>1. D # {}
  BY FS_EmptySet
<1> QED
  BY <1>1, FirstIsIn

\* The account starts without a device.
LEMMA InitMfa == MfaInit => TotpInv /\ RecoveryInv
<1> SUFFICES ASSUME MfaInit PROVE TotpInv /\ RecoveryInv
  OBVIOUS
<1> USE MfaAssumption DEF MfaInit
<1>1. MfaTypes
  <2>1. Idle \in MfaView
    BY DEF Idle, MfaView, MfaStep
  <2> QED
    BY <2>1 DEF MfaTypes
<1>2. Rows = {} /\ Confirmed = {}
  BY DEF Rows, Confirmed
<1> QED
  BY <1>1, <1>2
     DEF TotpInv, RecoveryInv, SecretsAreOwned, CounterBounds, ConfirmedByItsSecret,
         AcceptedOnce, BatchesAreOld, RecoveryCodesOnce

\* A device that is enrolled gets a secret of its own.
LEMMA EnrollKeeps ==
  ASSUME TotpInv, NEW d \in Device, Enroll(d), request' \in [MfaWorker -> MfaView]
  PROVE  TotpInv'
<1> USE MfaAssumption DEF TotpInv, Enroll, NewRow
<1>1. MfaTypes'
  BY DEF MfaTypes, DeviceRow
<1>2. SecretsAreOwned'
  BY DEF MfaTypes, DeviceRow, SecretsAreOwned, Rows
<1>3. CounterBounds' /\ ConfirmedByItsSecret'
  BY DEF MfaTypes, DeviceRow, CounterBounds, ConfirmedByItsSecret, Rows, Confirmed
<1> QED
  BY <1>1, <1>2, <1>3 DEF AcceptedOnce

\* A code that is verified is newer than the codes accepted of its secret.
LEMMA VerifyKeeps ==
  ASSUME TotpInv, verify_user_mfa, request' \in [MfaWorker -> MfaView]
  PROVE  TotpInv'
<1> USE MfaAssumption DEF TotpInv, verify_user_mfa
<1>1. ASSUME NEW code \in TotpCode, verify_user_totp(code) PROVE TotpInv'
  <2> DEFINE d == First(Confirmed)
  <2>1. d \in Confirmed /\ d \in Device
    BY <1>1, FirstIsIn, ZenonT(60) DEF verify_user_totp, Confirmed, Rows
  <2> HIDE DEF d
  <2>2. /\ code \in [secret : 1..MaxSecret, counter : 0..(LastCounter + 1)]
        /\ code.secret = device[d].secret
        /\ device' = [device EXCEPT ![d].last = code.counter]
        /\ accepted' = accepted \cup {code}
        /\ replayed' = replayed \cup ({code} \cap accepted)
        /\ UNCHANGED <<secrets, codes, batches, counter, spent>>
    BY <1>1 DEF verify_user_totp, matching_totp_counter, TotpCode, MfaTypes, d
  <2>3. device[d].last # NoCounter => code.counter > device[d].last
    BY Zenon, <1>1 DEF verify_user_totp, Newer, d
  <2>4. device[d] \in DeviceRow /\ device[d] # NoDevice
    BY <2>1 DEF MfaTypes, Rows, Confirmed
  <2>5. MfaTypes'
    BY <2>1, <2>2, <2>4 DEF MfaTypes, DeviceRow
  <2>6. Rows' = Rows /\ Confirmed' = Confirmed
    BY <2>1, <2>2, <2>4, <2>5 DEF Rows, Confirmed, MfaTypes, DeviceRow
  <2>7. \A e \in Rows : device'[e].secret = device[e].secret
    BY <2>1, <2>2, <2>4 DEF Rows, MfaTypes, DeviceRow
  <2>8. SecretsAreOwned'
    BY <2>1, <2>2, <2>6, <2>7 DEF SecretsAreOwned, Confirmed
  <2>9. code \notin accepted
    BY <2>1, <2>2, <2>3, <2>4 DEF CounterBounds, DeviceRow
  <2>10. CounterBounds'
    BY <2>1, <2>2, <2>3, <2>4, <2>6, <2>7
       DEF CounterBounds, SecretsAreOwned, Confirmed, DeviceRow, MfaTypes
  <2>11. ConfirmedByItsSecret'
    BY <2>2, <2>6, <2>7 DEF ConfirmedByItsSecret, Confirmed
  <2> QED
    BY <2>2, <2>5, <2>8, <2>9, <2>10, <2>11 DEF AcceptedOnce
<1>2. ASSUME NEW c \in codes, consume_recovery_code(c) PROVE TotpInv'
  BY Zenon, <1>2 DEF consume_recovery_code, MfaTypes, SecretsAreOwned, CounterBounds,
              ConfirmedByItsSecret, AcceptedOnce, Rows, Confirmed
<1> QED
  BY <1>1, <1>2

\* A step that changes neither devices nor accepted codes keeps the invariant.
LEMMA OthersKeep ==
  ASSUME TotpInv, request' \in [MfaWorker -> MfaView], codes' \in SUBSET RecoveryCode,
         batches' \in 0..MaxBatch, counter' \in 0..LastCounter,
         UNCHANGED <<device, secrets, accepted, replayed, spent>>
  PROVE  TotpInv'
<1>1. MfaTypes'
  BY Zenon DEF TotpInv, MfaTypes
<1>2. Rows' = Rows /\ Confirmed' = Confirmed
  BY Zenon DEF Rows, Confirmed
<1>3. SecretsAreOwned'
  BY Zenon, <1>2 DEF TotpInv, SecretsAreOwned
<1>4. CounterBounds'
  BY Zenon, <1>2 DEF TotpInv, CounterBounds
<1>5. ConfirmedByItsSecret' /\ AcceptedOnce'
  BY Zenon, <1>2 DEF TotpInv, ConfirmedByItsSecret, AcceptedOnce
<1> QED
  BY Zenon, <1>1, <1>3, <1>4, <1>5 DEF TotpInv

\* What the steps of a view carry over is of its type.
LEMMA ViewsKeep ==
  ASSUME MfaTypes, NEW w \in MfaWorker
  PROVE  /\ Finish(w) => request' \in [MfaWorker -> MfaView]
         /\ \A step \in MfaStep, d \in Device \cup {0} :
              Goto(w, step, d) => request' \in [MfaWorker -> MfaView]
<1>1. Idle \in MfaView /\ \A step \in MfaStep, d \in Device \cup {0} :
                        [Idle EXCEPT !.step = step, !.device = d] \in MfaView
  BY Zenon DEF Idle, MfaView, MfaStep
<1> QED
  BY ZenonT(60), <1>1 DEF MfaTypes, Finish, Goto

\* A confirmation starts the history of its secret again with its own code.
LEMMA ConfirmKeeps ==
  ASSUME TotpInv, NEW w \in MfaWorker, NEW code \in TotpCode, confirm_totp_device(w, code)
  PROVE  TotpInv'
<1> USE MfaAssumption DEF TotpInv
<1> DEFINE d == request[w].device
<1>1. /\ d \in Rows /\ d \in Device
      /\ code \in [secret : 1..MaxSecret, counter : 0..(LastCounter + 1)]
      /\ code.secret = device[d].secret
      /\ accepted' = {a \in accepted : a.secret # code.secret} \cup {code}
      /\ UNCHANGED <<secrets, codes, batches, counter, replayed, spent>>
  BY DEF confirm_totp_device, matching_totp_counter, TotpCode, MfaTypes, Rows
<1>2. request' \in [MfaWorker -> MfaView]
  <2>1. Goto(w, "confirmed", d)
    BY DEF confirm_totp_device
  <2> QED
    BY Zenon, <1>1, <2>1, ViewsKeep DEF MfaStep
<1>3. device[d] \in DeviceRow /\ device[d] # NoDevice
  BY Zenon, <1>1 DEF MfaTypes, Rows
<1>4. /\ device' = [device EXCEPT ![d] = device'[d]]
      /\ device'[d] \in DeviceRow /\ device'[d] # NoDevice
      /\ device'[d].secret = device[d].secret
      /\ device'[d].confirmed
      /\ device'[d].last = code.counter
  <2> DEFINE row == [device[d] EXCEPT !.confirmed = TRUE, !.last = code.counter]
  <2>1. device' = [device EXCEPT ![d] = row] /\ device'[d] = row
    BY Zenon, <1>1 DEF confirm_totp_device, MfaTypes
  <2>2. row \in DeviceRow /\ row.secret = device[d].secret /\ row.confirmed
        /\ row.last = code.counter
    BY Zenon, <1>1, <1>3 DEF DeviceRow
  <2> HIDE DEF row
  <2>3. row # NoDevice
    BY <2>2 DEF DeviceRow
  <2> QED
    BY Zenon, <2>1, <2>2, <2>3
<1>5. /\ code \in accepted'
      /\ \A a \in accepted' : a # code => a \in accepted /\ a.secret # code.secret
      /\ \A a \in accepted : a.secret # code.secret => a \in accepted'
  BY Zenon, <1>1
<1> HIDE DEF d
<1>6. MfaTypes'
  BY <1>1, <1>2, <1>4 DEF MfaTypes
<1>7. Rows' = Rows /\ Confirmed' = Confirmed \cup {d}
  <2>1. \A e \in Device : e # d => device'[e] = device[e]
    BY <1>4 DEF MfaTypes
  <2>2. Rows' = Rows
    BY Zenon, <1>1, <1>3, <1>4, <2>1 DEF Rows
  <2> QED
    BY Zenon, <1>1, <1>4, <2>1, <2>2 DEF Confirmed, Rows
<1>8. /\ \A e \in Rows : device'[e].secret = device[e].secret
      /\ \A e \in Rows : e # d => device'[e] = device[e]
  BY <1>4 DEF Rows, MfaTypes
<1>9. SecretsAreOwned'
  <2>1. secrets' = secrets /\ code.secret <= secrets
    BY Zenon, <1>1 DEF SecretsAreOwned
  <2>2. \A a \in accepted' : a.secret <= secrets'
    BY <1>5, <2>1 DEF SecretsAreOwned
  <2>3. \A e \in Rows' : device'[e].secret <= secrets'
    BY <1>7, <1>8, <2>1 DEF SecretsAreOwned
  <2>4. \A e, f \in Rows' : device'[e].secret = device'[f].secret => e = f
    BY <1>7, <1>8 DEF SecretsAreOwned
  <2> QED
    BY <2>2, <2>3, <2>4 DEF SecretsAreOwned
<1>10. CounterBounds'
  <2>1. device'[d].last # NoCounter
    BY Zenon, <1>1, <1>4, CodeNumbers
  <2>2. \A a \in accepted' : a.secret = device'[d].secret => a.counter <= device'[d].last
    BY Zenon, <1>1, <1>4, <1>5, CodeNumbers
  <2>3. ASSUME NEW e \in Confirmed, e # d
        PROVE  /\ device'[e].last # NoCounter
               /\ \A a \in accepted' :
                    a.secret = device'[e].secret => a.counter <= device'[e].last
    <3>1. e \in Rows /\ device'[e] = device[e] /\ device[e].secret # code.secret
      <4>1. e \in Rows
        BY Zenon, <2>3 DEF Confirmed
      <4> QED
        BY Zenon, <1>1, <1>8, <2>3, <4>1 DEF SecretsAreOwned
    <3> QED
      BY Zenon, <1>5, <2>3, <3>1 DEF CounterBounds
  <2> QED
    BY Zenon, <1>7, <2>1, <2>2, <2>3 DEF CounterBounds
<1>11. ConfirmedByItsSecret'
  <2>1. ASSUME NEW e \in Confirmed' PROVE \E a \in accepted' : a.secret = device'[e].secret
    <3>1. CASE e = d
      BY Zenon, <1>1, <1>4, <1>5, <3>1
    <3>2. CASE e # d
      <4>1. e \in Confirmed /\ e \in Rows
        BY Zenon, <1>7, <2>1, <3>2 DEF Confirmed
      <4>2. PICK a \in accepted : a.secret = device[e].secret
        BY Zenon, <4>1 DEF ConfirmedByItsSecret
      <4>3. device[e].secret # code.secret
        BY Zenon, <1>1, <3>2, <4>1 DEF SecretsAreOwned
      <4> QED
        BY Zenon, <1>5, <1>8, <4>1, <4>2, <4>3
    <3> QED
      BY Zenon, <3>1, <3>2
  <2> QED
    BY Zenon, <2>1 DEF ConfirmedByItsSecret
<1> QED
  BY Zenon, <1>1, <1>6, <1>9, <1>10, <1>11 DEF AcceptedOnce

\* Every step keeps the invariant on devices and their codes.
LEMMA NextTotp == TotpInv /\ [MfaNext]_mfaVars => TotpInv'
<1> SUFFICES ASSUME TotpInv, [MfaNext]_mfaVars PROVE TotpInv'
  OBVIOUS
<1> USE MfaAssumption
<1> MfaTypes
  BY DEF TotpInv
<1>1. ASSUME NEW w \in MfaWorker, begin_totp_enrollment(w) PROVE TotpInv'
  <2>1. CASE Enroll(First(Rows)) /\ Cardinality(Rows) = 1 /\ UNCHANGED request
    <3>1. First(Rows) \in Device
      BY <2>1, OnlyIsIn DEF Rows
    <3> QED
      BY Zenon, <2>1, <3>1, EnrollKeeps DEF MfaTypes
  <2>2. CASE Goto(w, "creating", 0) /\ UNCHANGED <<device, secrets, codes, batches, counter,
                                                   accepted, replayed, spent>>
    BY Zenon, <2>2, ViewsKeep, OthersKeep DEF MfaTypes, MfaStep
  <2> QED
    BY <1>1, <2>1, <2>2 DEF begin_totp_enrollment
<1>2. ASSUME NEW w \in MfaWorker, NEW d \in Device, CreateDevice(w, d) PROVE TotpInv'
  BY <1>2, ViewsKeep, EnrollKeeps DEF CreateDevice
<1>3. ASSUME NEW w \in MfaWorker, NEW d \in Device, mfa_confirm(w, d) PROVE TotpInv'
  BY Zenon, <1>3, ViewsKeep, OthersKeep DEF mfa_confirm, MfaTypes, MfaStep
<1>4. ASSUME NEW w \in MfaWorker, NEW code \in TotpCode, confirm_totp_device(w, code)
      PROVE  TotpInv'
  BY Zenon, <1>4, ConfirmKeeps
<1>5. ASSUME NEW w \in MfaWorker, Refuse(w) \/ ResetFails(w) PROVE TotpInv'
  BY Zenon, <1>5, ViewsKeep, OthersKeep DEF Refuse, ResetFails, MfaTypes
<1>6. ASSUME NEW w \in MfaWorker, DeleteCodes(w) PROVE TotpInv'
  <2> DEFINE row == [request[w] EXCEPT !.step = "replacing",
                                       !.doomed = CodesOf(request[w].device)]
  <2>1. request' \in [MfaWorker -> MfaView]
    <3>1. row \in MfaView
      BY Zenon DEF MfaTypes, MfaView, MfaStep, CodesOf
    <3> QED
      BY <1>6, <3>1 DEF DeleteCodes, MfaTypes
  <2> QED
    BY <1>6, <2>1, OthersKeep DEF DeleteCodes, MfaTypes
<1>7. ASSUME NEW w \in MfaWorker, replace_recovery_codes(w) PROVE TotpInv'
  <2>1. codes' \in SUBSET RecoveryCode /\ batches' \in 0..MaxBatch
    <3> DEFINE c == [device |-> request[w].device, batch |-> batches + 1]
    <3>1. CASE /\ request[w].device \in Rows /\ batches < MaxBatch /\ batches' = batches + 1
               /\ codes' = (codes \ request[w].doomed) \cup {c}
      <4>1. batches' \in 0..MaxBatch /\ batches + 1 \in 1..MaxBatch
        BY Zenon, <3>1, CodeNumbers DEF MfaTypes
      <4>2. c \in RecoveryCode
        BY Zenon, <3>1, <4>1 DEF RecoveryCode, Rows
      <4> HIDE DEF c
      <4> QED
        BY Zenon, <3>1, <4>1, <4>2 DEF MfaTypes
    <3>2. CASE UNCHANGED <<batches, codes>>
      BY Zenon, <3>2 DEF MfaTypes
    <3> QED
      BY Zenon, <1>7, <3>1, <3>2 DEF replace_recovery_codes
  <2> QED
    BY Zenon, <1>7, <2>1, ViewsKeep, OthersKeep DEF replace_recovery_codes, MfaTypes
<1>8. ASSUME NEW w \in MfaWorker, mfa_recovery_regenerate(w) PROVE TotpInv'
  <2>1. First(Confirmed) \in Device
    BY Zenon, <1>8, OnlyIsIn DEF mfa_recovery_regenerate, Confirmed, Rows
  <2> QED
    BY Zenon, <1>8, <2>1, ViewsKeep, OthersKeep DEF mfa_recovery_regenerate, MfaTypes, MfaStep
<1>9. ASSUME NEW w \in MfaWorker, Regenerate(w) PROVE TotpInv'
  <2>1. request' \in [MfaWorker -> MfaView]
    BY <1>9 DEF Regenerate, MfaTypes, MfaView, MfaStep
  <2> QED
    BY <1>9, <2>1, VerifyKeeps DEF Regenerate
<1>10. ASSUME NEW w \in MfaWorker, mfa_reset(w) PROVE TotpInv'
  BY Zenon, <1>10, ViewsKeep, VerifyKeeps DEF mfa_reset, MfaStep
<1>11. ASSUME NEW w \in MfaWorker, reset_user_mfa(w) PROVE TotpInv'
  <2>1. MfaTypes'
    BY <1>11, ViewsKeep DEF reset_user_mfa, MfaTypes
  <2>2. Rows' = {} /\ Confirmed' = {}
    BY Zenon, <1>11 DEF reset_user_mfa, Rows, Confirmed
  <2> QED
    BY Zenon, <1>11, <2>1, <2>2 DEF reset_user_mfa, TotpInv, SecretsAreOwned, CounterBounds,
                             ConfirmedByItsSecret, AcceptedOnce
<1>12. CASE mfa_verify
  BY <1>12, VerifyKeeps DEF mfa_verify, MfaTypes
<1>13. CASE NextInterval
  BY <1>13, OthersKeep DEF NextInterval, MfaTypes
<1>14. CASE UNCHANGED mfaVars
  BY <1>14, OthersKeep DEF mfaVars, MfaTypes
<1> QED
  BY <1>1, <1>2, <1>3, <1>4, <1>5, <1>6, <1>7, <1>8, <1>9, <1>10, <1>11, <1>12, <1>13, <1>14
     DEF MfaNext, mfa_enrollment_required

\* The invariant on devices and codes holds of every reachable state.
THEOREM TotpInvariance == MfaSpec => []TotpInv
BY InitMfa, NextTotp, PTL DEF MfaSpec

\* The tables, the views and the histories are always of their types.
THEOREM MfaTypeCorrect == MfaSpec => []MfaTypeOK
<1>1. TotpInv => MfaTypeOK
  BY DEF TotpInv, MfaTypes, MfaView, AcceptedOnce, MfaTypeOK
<1> QED
  BY <1>1, TotpInvariance, PTL

\* Whichever enrolments and confirmations overlap, a confirmed device holds a
\* secret of which a code was accepted (confirm_totp_device).
THEOREM PossessionIsShown == MfaSpec => []ConfirmedByItsSecret
BY TotpInvariance, PTL DEF TotpInv

\* verify_user_totp accepts no code twice since its secret was last confirmed, for
\* any number of concurrent verifications.
THEOREM CodesPassOnce == MfaSpec => []AcceptedOnce
BY TotpInvariance, PTL DEF TotpInv

-----------------------------------------------------------------------------
\* Every step keeps the invariant on recovery codes.
LEMMA NextRecovery == TotpInv /\ RecoveryInv /\ [MfaNext]_mfaVars => RecoveryInv'
<1> SUFFICES ASSUME TotpInv, RecoveryInv, [MfaNext]_mfaVars PROVE RecoveryInv'
  OBVIOUS
<1> USE MfaAssumption DEF RecoveryInv, BatchesAreOld, RecoveryCodesOnce
<1> MfaTypes
  BY DEF TotpInv
<1> DEFINE Gone(d) == device[d] # NoDevice /\ device'[d] = NoDevice
<1>1. ASSUME \A d \in Device : ~Gone(d), UNCHANGED batches, codes' \subseteq codes,
             spent' \subseteq spent \cup (codes \ codes')
      PROVE  RecoveryInv'
  BY Zenon, <1>1 DEF MfaTypes, RecoveryCode
<1>2. ASSUME NEW d \in Device, Enroll(d) PROVE \A e \in Device : ~Gone(e)
  <2>1. NewRow \in DeviceRow
    BY <1>2 DEF Enroll, NewRow, MfaTypes, DeviceRow
  <2>2. NewRow # NoDevice
    BY <2>1 DEF DeviceRow
  <2> QED
    BY Zenon, <1>2, <2>2 DEF Enroll, MfaTypes
<1>3. ASSUME verify_user_mfa PROVE RecoveryInv'
  <2>1. ASSUME NEW code \in TotpCode, verify_user_totp(code) PROVE \A e \in Device : ~Gone(e)
    <3> DEFINE row == [device[First(Confirmed)] EXCEPT !.last = code.counter]
    <3>1. First(Confirmed) \in Confirmed /\ First(Confirmed) \in Device
      BY <2>1, FirstIsIn DEF verify_user_totp, Confirmed, Rows
    <3>2. row \in DeviceRow
      <4>1. code.counter \in 0..(LastCounter + 1)
        BY <2>1 DEF verify_user_totp, matching_totp_counter, TotpCode, MfaTypes
      <4>2. device[First(Confirmed)] \in DeviceRow
        BY Zenon, <3>1 DEF Confirmed, Rows, MfaTypes
      <4> QED
        BY <4>1, <4>2 DEF DeviceRow
    <3>3. device' = [device EXCEPT ![First(Confirmed)] = row]
      BY <2>1, <3>1 DEF verify_user_totp
    <3> HIDE DEF row
    <3>4. row # NoDevice
      BY <3>2 DEF DeviceRow
    <3> QED
      BY Zenon, <3>1, <3>3, <3>4 DEF MfaTypes
  <2>2. ASSUME NEW c \in codes, consume_recovery_code(c) PROVE RecoveryInv'
    BY Zenon, <1>3, <2>2 DEF consume_recovery_code, verify_user_mfa, MfaTypes, RecoveryCode
  <2> QED
    BY <1>1, <1>3, <2>1, <2>2 DEF verify_user_mfa, verify_user_totp
<1>4. ASSUME NEW w \in MfaWorker, begin_totp_enrollment(w) PROVE RecoveryInv'
  <2>1. CASE Enroll(First(Rows)) /\ Cardinality(Rows) = 1
    <3>1. First(Rows) \in Device
      BY <2>1, OnlyIsIn DEF Rows
    <3> QED
      BY Zenon, <1>1, <1>2, <2>1, <3>1 DEF Enroll
  <2> QED
    BY Zenon, <1>1, <1>4, <2>1 DEF begin_totp_enrollment
<1>5. ASSUME NEW w \in MfaWorker, NEW d \in Device, CreateDevice(w, d) PROVE RecoveryInv'
  BY Zenon, <1>1, <1>2, <1>5 DEF CreateDevice, Enroll
<1>6. ASSUME NEW w \in MfaWorker, NEW code \in TotpCode, confirm_totp_device(w, code)
      PROVE  RecoveryInv'
  <2> DEFINE d == request[w].device
             row == [device[d] EXCEPT !.confirmed = TRUE, !.last = code.counter]
  <2>1. d \in Device /\ device[d] \in DeviceRow /\ device' = [device EXCEPT ![d] = row]
    BY <1>6 DEF confirm_totp_device, Rows, MfaTypes
  <2>2. row \in DeviceRow
    <3>1. code.counter \in 0..(LastCounter + 1)
      BY <1>6 DEF confirm_totp_device, matching_totp_counter, TotpCode, MfaTypes
    <3> QED
      BY Zenon, <2>1, <3>1 DEF DeviceRow
  <2> HIDE DEF row, d
  <2>3. row # NoDevice
    BY <2>2 DEF DeviceRow
  <2>4. \A e \in Device : ~Gone(e)
    BY <2>1, <2>3 DEF MfaTypes
  <2> QED
    BY <1>1, <1>6, <2>4 DEF confirm_totp_device
<1>7. ASSUME NEW w \in MfaWorker, replace_recovery_codes(w) PROVE RecoveryInv'
  <2> DEFINE c == [device |-> request[w].device, batch |-> batches + 1]
  <2>1. CASE request[w].device \in Rows /\ batches' = batches + 1
             /\ codes' = (codes \ request[w].doomed) \cup {c}
    <3>1. c.device = request[w].device /\ c.batch = batches + 1
      BY Zenon
    <3> HIDE DEF c
    <3>2. c \notin spent /\ device[c.device] # NoDevice
      BY Zenon, <2>1, <3>1, NextBatch DEF Rows
    <3>3. device' = device /\ spent' = spent
      BY Zenon, <1>7 DEF replace_recovery_codes
    <3> QED
      BY Zenon, <2>1, <3>1, <3>2, <3>3, NextBatch
  <2> QED
    BY Zenon, <1>7, <2>1 DEF replace_recovery_codes
<1>8. ASSUME NEW w \in MfaWorker, reset_user_mfa(w) PROVE RecoveryInv'
  BY <1>8 DEF reset_user_mfa
<1>9. CASE UNCHANGED <<device, codes, batches, spent>>
  BY <1>9
<1> HIDE DEF RecoveryInv
<1>10. ASSUME NEW w \in MfaWorker, Refuse(w) \/ ResetFails(w) \/ DeleteCodes(w)
                                  \/ mfa_recovery_regenerate(w)
       PROVE  RecoveryInv'
  BY <1>9, <1>10 DEF Refuse, ResetFails, DeleteCodes, mfa_recovery_regenerate
<1>11. ASSUME NEW w \in MfaWorker, NEW d \in Device, mfa_confirm(w, d) PROVE RecoveryInv'
  BY <1>9, <1>11 DEF mfa_confirm
<1>12. CASE NextInterval \/ UNCHANGED mfaVars
  BY <1>9, <1>12 DEF NextInterval, mfaVars
<1> QED
  BY <1>3, <1>4, <1>5, <1>6, <1>7, <1>8, <1>10, <1>11, <1>12
     DEF MfaNext, mfa_enrollment_required, Regenerate, mfa_reset, mfa_verify

\* A recovery code is accepted once and none outlives its device, whatever
\* renewals, resets and uses overlap (consume_recovery_code, reset_user_mfa).
THEOREM RecoveryIsOnce == MfaSpec => []RecoveryCodesOnce
<1>1. MfaSpec => []RecoveryInv
  BY InitMfa, NextRecovery, TotpInvariance, PTL DEF MfaSpec
<1> QED
  BY <1>1, PTL DEF RecoveryInv
=============================================================================
