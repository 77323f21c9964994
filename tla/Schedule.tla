------------------------------ MODULE Schedule ------------------------------
(***************************************************************************)
(* The rounds of the rotation schedule: schedule_due_rotations in          *)
(* pamolive/operations/services.py reads the first credentials in the      *)
(* order of next_rotation_at, up to a limit, and then queues a job for     *)
(* each that was due, while jobs end and operators edit credentials.       *)
(*                                                                         *)
(* Dates are kept as the order they stand in: the credentials that have    *)
(* one, from the earliest, of which the first are due.  Each has a policy, *)
(* which gives the interval while it is enabled, and one without a date    *)
(* was rotated when its policy was disabled.  No worker dies and no task   *)
(* is lost, so every job ends (EveryJobEnds of Rotation).                  *)
(***************************************************************************)
EXTENDS Naturals, SequencesExt

CONSTANTS
  Account,     \* the credentials with a rotation policy
  CreatedAt,   \* the order they were created in
  RoundLimit,  \* the limit of a round
  MaxEdits     \* bound: how often operators change a policy or a credential

ASSUME ScheduleAssumption ==
  /\ CreatedAt \in [Account -> Nat]
  /\ RoundLimit \in Nat \ {0}

VARIABLES
  line,     \* the credentials with a next_rotation_at, in its order
  overdue,  \* how many of them are due
  on,       \* the credentials whose policy is enabled
  held,     \* the credentials with a pending or running job
  batch,    \* what the round has read and not come to yet
  edits     \* how often an operator made a change

scheduleVars == <<line, overdue, on, held, batch, edits>>

Dated == ToSet(line)
Due(c) == \E i \in 1..overdue : line[i] = c

ScheduleInit ==
  /\ line \in SetToSeqs(Account)
  /\ overdue \in 0..Len(line)
  /\ on = Account
  /\ held = {}
  /\ batch = <<>>
  /\ edits = 0

-----------------------------------------------------------------------------
(* Dates.                                                                  *)

\* How many credentials but c are due.
OthersDue(c) == overdue - (IF Due(c) THEN 1 ELSE 0)

\* next_rotation_at of c becomes a time in the future, one that has passed, or null.
Later(c) ==
  /\ overdue' = OthersDue(c)
  /\ \E i \in (OthersDue(c) + 1)..(Len(Remove(line, c)) + 1) :
       line' = InsertAt(Remove(line, c), i, c)

Passed(c) ==
  /\ overdue' = OthersDue(c) + 1
  /\ \E i \in 1..(OthersDue(c) + 1) : line' = InsertAt(Remove(line, c), i, c)

Undate(c) == overdue' = OthersDue(c) /\ line' = Remove(line, c)

TimePasses ==
  /\ overdue < Len(line)
  /\ overdue' = overdue + 1
  /\ UNCHANGED <<line, on, held, batch, edits>>

-----------------------------------------------------------------------------
(* A round.                                                                *)

\* Mutant of InOrder: the latest date comes first.
InReverse == Reverse(line) \o SetToSortSeq(on \ Dated, LAMBDA c, d : CreatedAt[c] < CreatedAt[d])

\* The order of next_rotation_at, where null comes last, then of created_at.
InOrder == line \o SetToSortSeq(on \ Dated, LAMBDA c, d : CreatedAt[c] < CreatedAt[d])

ReadCredentials ==
  /\ batch = <<>>
  /\ LET found == SelectSeq(InOrder, LAMBDA c : c \in on) IN
       batch' = [i \in 1..(IF Len(found) < RoundLimit THEN Len(found) ELSE RoundLimit) |->
                   [credential |-> found[i], dated |-> found[i] \in Dated, due |-> Due(found[i])]]
  /\ UNCHANGED <<line, overdue, on, held, edits>>

\* The next one that was read: without a date it is given the one its last
\* rotation leads to, whatever was saved meanwhile; when that is due, or the date
\* it was read with, a job is queued unless it has one.
queue_due ==
  /\ batch # <<>>
  /\ LET c == Head(batch).credential IN
       /\ \/ Head(batch).dated /\ UNCHANGED <<line, overdue>>
                               /\ held' = held \cup {x \in {c} : Head(batch).due}
          \/ ~Head(batch).dated /\ Passed(c) /\ held' = held \cup {c}
          \/ ~Head(batch).dated /\ Later(c) /\ UNCHANGED held
  /\ batch' = Tail(batch)
  /\ UNCHANGED <<on, edits>>

\* A job of c ends: it failed, and is tried again after some hours, or it
\* succeeded, and the next one is an interval away, if rotation is still on.
JobEnds(c) ==
  /\ c \in held
  /\ held' = held \ {c}
  /\ \/ Later(c)
     \/ c \notin on /\ Undate(c)
  /\ UNCHANGED <<on, batch, edits>>

-----------------------------------------------------------------------------
(* Operators.                                                              *)

\* A rotation policy is switched on or off, which leaves the dates alone.
SwitchPolicy(c) ==
  /\ edits < MaxEdits
  /\ on' = IF c \in on THEN on \ {c} ELSE on \cup {c}
  /\ edits' = edits + 1
  /\ UNCHANGED <<line, overdue, held, batch>>

\* The credential form: without a date it is due now, and a new policy counts
\* its interval from the last rotation.
SaveCredential(c) ==
  /\ edits < MaxEdits
  /\ IF c \in Dated THEN Later(c) \/ Passed(c)
                    ELSE /\ overdue' = overdue + 1
                         /\ line' = InsertAt(line, overdue + 1, c)
  /\ edits' = edits + 1
  /\ UNCHANGED <<on, held, batch>>

\* An operator rotates a credential by hand.
RotateByHand(c) ==
  /\ edits < MaxEdits
  /\ held' = held \cup {c}
  /\ edits' = edits + 1
  /\ UNCHANGED <<line, overdue, on, batch>>

Round == ReadCredentials \/ queue_due

ScheduleNext ==
  \/ Round
  \/ TimePasses
  \/ \E c \in Account : JobEnds(c) \/ SwitchPolicy(c) \/ SaveCredential(c) \/ RotateByHand(c)

-----------------------------------------------------------------------------
(* Properties.                                                             *)

\* No credential waits for ever behind the limit of a round: one whose date has
\* passed gets a job, or its date or its policy is changed, however many others
\* are due again and again (the order and the limit of schedule_due_rotations,
\* and that every end of a job moves the date into the future).
DueIsQueued ==
  \A c \in Account : (Due(c) /\ c \in on) ~> (c \in held \/ ~Due(c) \/ c \notin on)
=============================================================================
