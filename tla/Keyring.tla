------------------------------- MODULE Keyring -------------------------------
(***************************************************************************)
(* The sliding-window limiter in front of the keyring's operations         *)
(* (keyring/rate_limit.py, enforce_rate_limit in keyring/app.py).          *)
(*                                                                         *)
(* The operations have windows of their own, so one stands for each.       *)
(* Requests are served by the threads of a pool.  A thread reads the clock *)
(* before it takes the lock, so the queue need not be in order of time.    *)
(* Delay bounds how long a thread stays between the two.                   *)
(***************************************************************************)
EXTENDS Integers, Sequences, FiniteSets

CONSTANTS
  Caller,          \* the threads that serve requests
  Limit,           \* requests a window admits
  Window,          \* window_seconds
  Delay,           \* the longest a thread waits for the lock
  KeyringHorizon,  \* when the clock stops
  NoStamp

ASSUME KeyringAssumption ==
  /\ Limit \in Nat \ {0}
  /\ Delay \in Nat
  /\ Window \in Nat \ 0..Delay
  /\ KeyringHorizon \in Nat
  /\ NoStamp \notin Nat

VARIABLES
  uptime,    \* time.monotonic
  stamp,     \* the time each thread has read
  events,    \* the times of the requests in the window, as they were queued
  retry,     \* the Retry-After each thread answered last, 0 when admitted
  admitted   \* when the requests that passed did so (history)

keyringVars == <<uptime, stamp, events, retry, admitted>>

KeyringInit ==
  /\ uptime = 0
  /\ stamp = [c \in Caller |-> NoStamp]
  /\ events = << >>
  /\ retry = [c \in Caller |-> 0]
  /\ admitted = << >>

ReadClock(c) ==
  /\ stamp[c] = NoStamp
  /\ stamp' = [stamp EXCEPT ![c] = uptime]
  /\ UNCHANGED <<uptime, events, retry, admitted>>

\* Mutant of InWindow: a time on the edge still counts.
InWindowToTheEdge(s, cutoff) == s >= cutoff

\* A queued time that is not over yet.
InWindow(s, cutoff) == s > cutoff

\* What is left once the times at the front that are over have been taken off;
\* the ones behind the first that is not stay, whatever they are.
Kept(cutoff) ==
  LET Stays == {i \in 1..Len(events) : \E j \in 1..i : InWindow(events[j], cutoff)}
  IN SubSeq(events, Len(events) - Cardinality(Stays) + 1, Len(events))

\* Mutant of Full: one request too many.
FullTooLate(q) == Len(q) > Limit

Full(q) == Len(q) >= Limit

\* The steps under the lock, with the time the thread has read.
acquire(c) ==
  /\ stamp[c] # NoStamp
  /\ LET q == Kept(stamp[c] - Window) IN
       IF Full(q)
       THEN /\ events' = q
            /\ retry' = [retry EXCEPT ![c] = Head(q) + Window - stamp[c]]
            /\ UNCHANGED admitted
       ELSE /\ events' = Append(q, stamp[c])
            /\ retry' = [retry EXCEPT ![c] = 0]
            /\ admitted' = Append(admitted, uptime)
  /\ stamp' = [stamp EXCEPT ![c] = NoStamp]
  /\ UNCHANGED uptime

\* Time passes while no thread has waited for as long as it may.
KeyringTick ==
  /\ uptime < KeyringHorizon
  /\ \A c \in Caller : stamp[c] # NoStamp => uptime - stamp[c] < Delay
  /\ uptime' = uptime + 1
  /\ UNCHANGED <<stamp, events, retry, admitted>>

KeyringNext == KeyringTick \/ \E c \in Caller : ReadClock(c) \/ acquire(c)

KeyringSpec == KeyringInit /\ [][KeyringNext]_keyringVars

-----------------------------------------------------------------------------
(* Properties.                                                             *)

\* No more than the limit passes in less than a window, but for the time a
\* thread may wait with an old reading of the clock, although such threads put
\* the queue out of order and drop each other's times (acquire).
AdmitsTheLimit ==
  \A i \in 1..(Len(admitted) - Limit) : admitted[i + Limit] - admitted[i] >= Window - Delay

\* A request is refused only when the limit did pass within the last window and
\* that wait, so a time queued behind a later one holds nobody up for longer;
\* and the Retry-After it gets is no longer either (acquire).
OnlyBusyIsRefused ==
  [][\A c \in Caller :
       stamp[c] # NoStamp /\ stamp'[c] = NoStamp /\ admitted' = admitted =>
         /\ retry'[c] \in 1..(Window + Delay)
         /\ Cardinality({i \in 1..Len(admitted) : admitted[i] > uptime - Window - Delay})
              >= Limit]_keyringVars
=============================================================================
