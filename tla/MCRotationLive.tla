--------------------------- MODULE MCRotationLive ---------------------------
(***************************************************************************)
(* Instances of Rotation and of Schedule for TLC, side by side: a          *)
(* behaviour is one of the part that its initial state selects.            *)
(***************************************************************************)
EXTENDS Rotation, Schedule

VARIABLE part

MCCreatedAt == CHOOSE f \in [Account -> 1..3] : \A c, d \in Account : f[c] = f[d] => c = d

MCInit ==
  /\ part \in {"rotation", "schedule"}
  /\ Init
  /\ ScheduleInit
  /\ part = "rotation" => overdue = 0 /\ line = CHOOSE s \in SetToSeqs(Account) : TRUE
  /\ part = "schedule" => due = {} /\ subject = CHOOSE f \in [Job -> Credential] : TRUE

InRotation(A) == part = "rotation" /\ A /\ UNCHANGED <<part, scheduleVars>>
InSchedule(A) == part = "schedule" /\ A /\ UNCHANGED <<part, vars>>

MCNext == InRotation(Next) \/ InSchedule(ScheduleNext)

MCVars == <<part, vars, scheduleVars>>

\* The fairness of FairSpec; rounds go on and jobs end.
MCSpec ==
  /\ MCInit
  /\ [][MCNext]_MCVars
  /\ \A j \in Job : WF_MCVars(InRotation(delay(j))) /\ WF_MCVars(InRotation(schedule_due_rotations(j)))
  /\ \A w \in Worker : WF_MCVars(InRotation(execute_rotation(w)))
  /\ WF_MCVars(InSchedule(Round))
  /\ \A c \in Account : WF_MCVars(InSchedule(JobEnds(c)))
=============================================================================
