------------------------------ MODULE Rotation ------------------------------
(***************************************************************************)
(* Rotation of target credentials: pamolive/operations/services.py, the    *)
(* Celery tasks that run it (operations/tasks.py), and the console form    *)
(* that edits a credential (console/forms.py) beside it.                   *)
(*                                                                         *)
(* execute_rotation is three steps with the world in between: a            *)
(* transaction that stores the candidate, the connector's call to the      *)
(* target, and a transaction that promotes the candidate or records the    *)
(* failure.  A worker can die between any two of them, and the queue may   *)
(* lose a task or deliver it twice.                                        *)
(*                                                                         *)
(* Candidates are generated fresh, so a job names its own candidate        *)
(* secret, and a credential the secret it was created with.                *)
(***************************************************************************)
EXTENDS Naturals, FiniteSets

CONSTANTS
  Credential, Job,
  Worker,    \* the Celery workers
  Editor,    \* the web workers that serve the credential form
  Fault,     \* what may go wrong: a subset of Faults
  NoJob, NoForm

Faults == {"crash", "loss", "duplicate"}

Secret == Credential \cup Job

ASSUME RotationAssumption ==
  /\ Credential \cap Job = {}
  /\ Fault \subseteq Faults
  /\ NoJob \notin Job
  /\ NoForm \notin [credential : Credential, secret : Secret]

VARIABLES
  vault,     \* the secret Credential.encrypted_secret holds
  accepted,  \* the secret the target accepts
  due,       \* the credentials whose next rotation is due
  status,    \* RotationJob.status, "none" before the row exists
  subject,   \* RotationJob.credential
  stored,    \* the jobs whose encrypted_candidate_secret is not empty
  unsent,    \* the jobs created whose task has not been published yet
  queue,     \* the jobs whose task is in the Celery queue
  working,   \* the job each worker executes past its first transaction
  outcome,   \* what the connector told each worker
  form       \* the credential instance each editor's request has loaded

vars == <<vault, accepted, due, status, subject, stored, unsent, queue, working,
          outcome, form>>

-----------------------------------------------------------------------------
Active == {"pending", "running"}

Done == {"succeeded", "failed", "action_required"}

Status == {"none"} \cup Active \cup Done

Outcome == {"none", "changed", "raised"}

Form == [credential : Credential, secret : Secret]

ActiveJobs(c) == {j \in Job : subject[j] = c /\ status[j] \in Active}

Init ==
  /\ vault = [c \in Credential |-> c]
  /\ accepted = [c \in Credential |-> c]
  /\ due \in SUBSET Credential
  /\ status = [j \in Job |-> "none"]
  /\ subject \in [Job -> Credential]
  /\ stored = {}
  /\ unsent = {}
  /\ queue = {}
  /\ working = [w \in Worker |-> NoJob]
  /\ outcome = [w \in Worker |-> "none"]
  /\ form = [e \in Editor |-> NoForm]

-----------------------------------------------------------------------------
(* Queueing.                                                               *)

\* Mutant of queue_rotation: the jobs that are running are not looked up.
QueueBesideRunning(j) ==
  /\ status[j] = "none"
  /\ \A k \in ActiveJobs(subject[j]) : status[k] = "running"
  /\ status' = [status EXCEPT ![j] = "pending"]
  /\ unsent' = unsent \cup {j}
  /\ UNCHANGED <<vault, accepted, due, subject, stored, queue, working, outcome, form>>

\* A job is created for its credential unless one is pending or running.
queue_rotation(j) ==
  /\ status[j] = "none"
  /\ ActiveJobs(subject[j]) = {}
  /\ status' = [status EXCEPT ![j] = "pending"]
  /\ unsent' = unsent \cup {j}
  /\ UNCHANGED <<vault, accepted, due, subject, stored, queue, working, outcome, form>>

\* The console button: whether or not a rotation is due.
rotate_credential(j) == queue_rotation(j)

schedule_due_rotations(j) == subject[j] \in due /\ queue_rotation(j)

\* execute_rotation_job.delay: on commit in the console, after the last job is
\* created in dispatch_due_rotation_jobs.  A publication that fails is not retried.
delay(j) ==
  /\ j \in unsent
  /\ unsent' = unsent \ {j}
  /\ \/ queue' = queue \cup {j}
     \/ "loss" \in Fault /\ UNCHANGED queue
  /\ UNCHANGED <<vault, accepted, due, status, subject, stored, working, outcome, form>>

-----------------------------------------------------------------------------
(* execute_rotation.                                                       *)

\* A worker takes a task; one delivered twice stays in the queue.
Take(w, j) ==
  /\ working[w] = NoJob
  /\ j \in queue
  /\ \/ queue' = queue \ {j}
     \/ "duplicate" \in Fault /\ UNCHANGED queue

\* A task whose job is no longer pending has nothing to do.
Skip(w, j) ==
  /\ Take(w, j)
  /\ status[j] # "pending"
  /\ UNCHANGED <<vault, accepted, due, status, subject, stored, unsent, working,
                 outcome, form>>

\* The first transaction: the candidate is stored and the job runs.
Prepare(w, j) ==
  /\ Take(w, j)
  /\ status[j] = "pending"
  /\ status' = [status EXCEPT ![j] = "running"]
  /\ stored' = stored \cup {j}
  /\ working' = [working EXCEPT ![w] = j]
  /\ UNCHANGED <<vault, accepted, due, subject, unsent, outcome, form>>

\* The end of a job without a rotation: the next attempt is set in the future.
_finish_without_rotation(j, st) ==
  IF status[j] \in Active
    THEN /\ status' = [status EXCEPT ![j] = st]
         /\ due' = due \ {subject[j]}
    ELSE UNCHANGED <<status, due>>

\* No connector, no candidate, or a vault that cannot be read.
CannotPrepare(w, j, st) ==
  /\ Take(w, j)
  /\ status[j] = "pending"
  /\ _finish_without_rotation(j, st)
  /\ UNCHANGED <<vault, accepted, subject, stored, unsent, working, outcome, form>>

\* backend.rotate changes the target's secret and returns, or raises, having
\* changed it or not.
rotate(w) ==
  /\ working[w] # NoJob /\ outcome[w] = "none"
  /\ \/ /\ accepted' = [accepted EXCEPT ![subject[working[w]]] = working[w]]
        /\ outcome' \in {[outcome EXCEPT ![w] = "changed"], [outcome EXCEPT ![w] = "raised"]}
     \/ /\ outcome' = [outcome EXCEPT ![w] = "raised"]
        /\ UNCHANGED accepted
  /\ UNCHANGED <<vault, due, status, subject, stored, unsent, queue, working, form>>

Rest(w) == /\ working' = [working EXCEPT ![w] = NoJob]
           /\ outcome' = [outcome EXCEPT ![w] = "none"]

\* Mutant of RecordFailure: a job that failed drops its candidate.
RecordFailureAndForget(w) ==
  /\ outcome[w] = "raised"
  /\ _finish_without_rotation(working[w], "failed")
  /\ stored' = stored \ {working[w]}
  /\ Rest(w)
  /\ UNCHANGED <<vault, accepted, subject, unsent, queue, form>>

\* The candidate of a job that failed is kept.
RecordFailure(w) ==
  /\ outcome[w] = "raised"
  /\ _finish_without_rotation(working[w], "failed")
  /\ Rest(w)
  /\ UNCHANGED <<vault, accepted, subject, stored, unsent, queue, form>>

\* Mutant of Promote: the candidate is promoted whatever the connector said.
PromoteUnchecked(w) ==
  /\ outcome[w] # "none"
  /\ vault' = [vault EXCEPT ![subject[working[w]]] = working[w]]
  /\ stored' = stored \ {working[w]}
  /\ status' = [status EXCEPT ![working[w]] = "succeeded"]
  /\ due' = due \ {subject[working[w]]}
  /\ Rest(w)
  /\ UNCHANGED <<accepted, subject, unsent, queue, form>>

\* Mutant of Promote: the job is left running.
PromoteWithoutFinishing(w) ==
  /\ outcome[w] = "changed"
  /\ vault' = [vault EXCEPT ![subject[working[w]]] = working[w]]
  /\ stored' = stored \ {working[w]}
  /\ Rest(w)
  /\ UNCHANGED <<accepted, due, status, subject, unsent, queue, form>>

\* The last transaction: the candidate becomes the credential's secret.  The
\* next rotation is an interval away, or at once where there is no interval.
Promote(w) ==
  /\ outcome[w] = "changed"
  /\ LET j == working[w] IN
       IF status[j] = "running"
         THEN /\ vault' = [vault EXCEPT ![subject[j]] = j]
              /\ stored' = stored \ {j}
              /\ status' = [status EXCEPT ![j] = "succeeded"]
              /\ due' \in {due \ {subject[j]}, due \cup {subject[j]}}
         ELSE UNCHANGED <<vault, stored, status, due>>
  /\ Rest(w)
  /\ UNCHANGED <<accepted, subject, unsent, queue, form>>

-----------------------------------------------------------------------------
(* The credential form: the instance is loaded without a lock, and every   *)
(* column of it is saved.                                                  *)

LoadForm(e, c) ==
  /\ form[e] = NoForm
  /\ form' = [form EXCEPT ![e] = [credential |-> c, secret |-> vault[c]]]
  /\ UNCHANGED <<vault, accepted, due, status, subject, stored, unsent, queue, working,
                 outcome>>

\* The secret is left as it was loaded, or replaced by the one the operator
\* knows the target accepts.
SaveForm(e) ==
  /\ form[e] # NoForm
  /\ LET c == form[e].credential IN
       /\ \E secret \in {form[e].secret, accepted[c]} : vault' = [vault EXCEPT ![c] = secret]
       /\ due' \in {due \ {c}, due \cup {c}}
  /\ form' = [form EXCEPT ![e] = NoForm]
  /\ UNCHANGED <<accepted, status, subject, stored, unsent, queue, working, outcome>>

-----------------------------------------------------------------------------
\* next_rotation_at passes.
BecomeDue(c) ==
  /\ due' = due \cup {c}
  /\ UNCHANGED <<vault, accepted, status, subject, stored, unsent, queue, working,
                 outcome, form>>

\* A worker dies in its first transaction, or the candidate cannot be encrypted:
\* the transaction is rolled back, and its task was acknowledged when taken.
Abort(w, j) ==
  /\ "crash" \in Fault
  /\ Take(w, j)
  /\ UNCHANGED <<vault, accepted, due, status, subject, stored, unsent, working,
                 outcome, form>>

\* A worker dies, or its last transaction is rolled back, with a job running.
Crash(w) ==
  /\ "crash" \in Fault
  /\ working[w] # NoJob
  /\ Rest(w)
  /\ UNCHANGED <<vault, accepted, due, status, subject, stored, unsent, queue, form>>

execute_rotation(w) ==
  \/ \E j \in Job : \/ Skip(w, j)
                    \/ Prepare(w, j)
                    \/ \E st \in {"failed", "action_required"} : CannotPrepare(w, j, st)
  \/ rotate(w)
  \/ RecordFailure(w)
  \/ Promote(w)

Next ==
  \/ \E j \in Job : rotate_credential(j) \/ schedule_due_rotations(j) \/ delay(j)
  \/ \E w \in Worker : execute_rotation(w) \/ Crash(w) \/ \E j \in Job : Abort(w, j)
  \/ \E e \in Editor : SaveForm(e) \/ \E c \in Credential : LoadForm(e, c)
  \/ \E c \in Credential : BecomeDue(c)

Spec == Init /\ [][Next]_vars

\* Tasks are published and executed; the connector answers; due dates are
\* looked at every five minutes.  Nobody is obliged to use the console.
FairSpec ==
  /\ Spec
  /\ \A j \in Job : WF_vars(delay(j)) /\ WF_vars(schedule_due_rotations(j))
  /\ \A w \in Worker : WF_vars(execute_rotation(w))

-----------------------------------------------------------------------------
(* Properties.                                                             *)

\* Jobs, credentials and tasks hold what their columns allow; in particular a
\* job is only ever given the statuses of RotationJob.Status that have a writer.
TypeOK ==
  /\ vault \in [Credential -> Secret]
  /\ accepted \in [Credential -> Secret]
  /\ due \in SUBSET Credential
  /\ status \in [Job -> Status]
  /\ subject \in [Job -> Credential]
  /\ stored \in SUBSET Job
  /\ unsent \in SUBSET Job
  /\ queue \in SUBSET Job
  /\ working \in [Worker -> Job \cup {NoJob}]
  /\ outcome \in [Worker -> Outcome]
  /\ form \in [Editor -> Form \cup {NoForm}]

\* Whenever a worker dies, a connector raises after it changed the secret, or a
\* task is delivered twice, the secret a target accepts is in the database: as
\* the credential's secret or as the stored candidate of a job of the same
\* credential (execute_rotation stores the candidate before backend.rotate and
\* _finish_without_rotation keeps it).
SecretRecoverable ==
  \A c \in Credential :
    accepted[c] = vault[c] \/ \E j \in stored : subject[j] = c /\ accepted[c] = j

\* Two workers never change the secret of one credential at the same time,
\* whatever tasks are delivered twice and whatever jobs are queued meanwhile
\* (the lookup of queue_rotation and the status check of execute_rotation).
OneRotationAtATime ==
  \A v, w \in Worker :
    /\ working[v] # NoJob /\ working[w] # NoJob
    /\ subject[working[v]] = subject[working[w]]
    => v = w

\* The vault never replaces a secret by one the target does not accept: a
\* candidate is promoted only after the target took it (execute_rotation).
PromotedOnlyAfterSuccess ==
  [][\A c \in Credential : vault'[c] # vault[c] => vault'[c] = accepted[c]]_vars

\* A job that has ended stays as it ended, its task delivered again or not
\* (the status checks of execute_rotation and _finish_without_rotation).
EndedJobsStay ==
  [][\A j \in Job : status[j] \in Done => status'[j] = status[j]]_vars

\* While no worker dies and no task is lost, every job that is queued ends, so
\* that it cannot hold back the later rotations of its credential.
EveryJobEnds == \A j \in Job : status[j] \in Active ~> status[j] \in Done
=============================================================================
