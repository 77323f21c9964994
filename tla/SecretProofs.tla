---------------------------- MODULE SecretProofs ----------------------------
(***************************************************************************)
(* What is proved of secrets: of the limit on opening them and of their    *)
(* rotation.                                                               *)
(***************************************************************************)
EXTENDS Keyring, Rotation, TLAPS, FiniteSetTheorems, SequenceTheorems

-----------------------------------------------------------------------------
(***************************************************************************)
(* The limiter of the keyring, for any number of threads, any limit and    *)
(* window.                                                                 *)
(*                                                                         *)
(* That no more than the limit passes in a window is not inductive, since  *)
(* the queue that acquire looks at is neither in order nor all that        *)
(* passed.  The invariant ties it to what passed: the queue holds a time   *)
(* for each of the latest requests, read at most Delay before it passed,   *)
(* and what was taken off the queue passed a window ago, but for that      *)
(* delay.                                                                  *)
(***************************************************************************)

KeyringTypes ==
  /\ uptime \in Nat
  /\ stamp \in [Caller -> Nat \cup {NoStamp}]
  /\ events \in Seq(Nat)
  /\ retry \in [Caller -> Int]
  /\ admitted \in Seq(Nat)

\* A thread reads the clock no longer than Delay before it has the lock.
StampsAreFresh ==
  \A c \in Caller : stamp[c] # NoStamp => stamp[c] <= uptime /\ uptime <= stamp[c] + Delay

\* Requests pass one after the other.
AdmittedInOrder ==
  /\ \A i \in 1..Len(admitted) : admitted[i] <= uptime
  /\ \A i, j \in 1..Len(admitted) : i <= j => admitted[i] <= admitted[j]

\* How many of the requests that passed are queued no longer.
Gone == Len(admitted) - Len(events)

\* The queue holds a time for each of the latest requests, read at most Delay
\* before it passed, and whatever was taken off passed a window ago, but for that
\* delay.
QueueIsRecent ==
  /\ Gone \in Nat
  /\ \A j \in 1..Len(events) : /\ events[j] <= admitted[Gone + j]
                               /\ admitted[Gone + j] <= events[j] + Delay
  /\ \A i \in 1..Gone : admitted[i] <= uptime - Window + Delay

KeyringInv == /\ KeyringTypes /\ StampsAreFresh /\ AdmittedInOrder /\ QueueIsRecent
              /\ AdmitsTheLimit

\* The entries of a sequence of times.
LEMMA Times ==
  ASSUME NEW s \in Seq(Nat)
  PROVE  Len(s) \in Nat /\ \A i \in 1..Len(s) : s[i] \in Nat
  OBVIOUS

\* How long a caller waits whom a full queue sends away: the oldest entry h is at
\* most as late as a request that passed at a, no later than now.
LEMMA WaitIsBounded ==
  ASSUME NEW h \in Nat, NEW at \in Nat, NEW up \in Nat, NEW a \in Nat, NEW wide \in Nat,
         NEW late \in Nat, h > at - wide, up <= at + late, h <= a, a <= up
  PROVE  h + wide - at \in 1..(wide + late)
  OBVIOUS

\* What is taken off the front of the queue is over, and the first that stays is
\* not, whatever the order of the times.
LEMMA KeptSuffix ==
  ASSUME events \in Seq(Nat), NEW cutoff \in Int
  PROVE  \E d \in 0..Len(events) :
           /\ Kept(cutoff) \in Seq(Nat)
           /\ Len(Kept(cutoff)) = Len(events) - d
           /\ \A i \in 1..(Len(events) - d) : Kept(cutoff)[i] = events[d + i]
           /\ \A i \in 1..d : events[i] <= cutoff
           /\ d < Len(events) => events[d + 1] > cutoff
<1> DEFINE n == Len(events)
           Stays == {i \in 1..n : \E j \in 1..i : InWindow(events[j], cutoff)}
           d == n - Cardinality(Stays)
<1>1. n \in Nat /\ \A i \in 1..n : events[i] \in Nat
  OBVIOUS
<1> HIDE DEF n
<1>s. /\ Stays \subseteq 1..n
      /\ \A i \in 1..n : i \in Stays <=> \E j \in 1..i : InWindow(events[j], cutoff)
  OBVIOUS
<1>q. Kept(cutoff) = SubSeq(events, d + 1, n)
  BY DEF Kept, n
<1> HIDE DEF Stays
<1>2. \A a, b \in 1..n : a \in Stays /\ a <= b => b \in Stays
  <2> SUFFICES ASSUME NEW a \in 1..n, NEW b \in 1..n, a \in Stays, a <= b PROVE b \in Stays
    OBVIOUS
  <2>1. PICK j \in 1..a : InWindow(events[j], cutoff)
    BY <1>s
  <2>2. j \in 1..b
    BY <1>1
  <2> QED BY <1>s, <2>1, <2>2
<1>3. /\ IsFiniteSet(1..n) /\ IsFiniteSet(Stays)
      /\ Cardinality(Stays) \in Nat /\ Cardinality(Stays) <= n
  <2>1. IsFiniteSet(1..n) /\ Cardinality(1..n) = n
    BY <1>1, FS_Interval
  <2>2. IsFiniteSet(Stays) /\ Cardinality(Stays) <= n
    BY ZenonT(60), <1>s, <2>1, FS_Subset
  <2> QED BY <2>1, <2>2, FS_CardinalityType
<1>4. ASSUME NEW i \in 1..n, i \in Stays PROVE n - i + 1 <= Cardinality(Stays)
  <2>1. i..n \subseteq Stays
    BY <1>1, <1>2, <1>4
  <2>2. Cardinality(i..n) = n - i + 1
    BY <1>1, FS_Interval
  <2>3. Cardinality(i..n) <= Cardinality(Stays)
    BY Zenon, <1>3, <2>1, FS_Subset
  <2> QED BY <2>2, <2>3
<1>5. d \in 0..n /\ Cardinality(Stays) = n - d
  BY <1>1, <1>3
<1> HIDE DEF d
<1>6. ASSUME NEW i \in 1..d PROVE i \notin Stays
  BY <1>1, <1>3, <1>4, <1>5
<1>7. ASSUME NEW i \in 1..d PROVE events[i] <= cutoff
  <2>1. i \in 1..n /\ i \in 1..i
    BY <1>1, <1>5
  <2>2. ~InWindow(events[i], cutoff) /\ events[i] \in Nat
    BY <1>1, <1>s, <1>6, <2>1
  <2> QED BY <2>2 DEF InWindow
<1>8. ASSUME d < n PROVE events[d + 1] > cutoff
  <2>1. d + 1 \in 1..n
    BY <1>1, <1>5, <1>8
  <2>2. d + 1 \in Stays
    <3> SUFFICES ASSUME d + 1 \notin Stays PROVE FALSE
      OBVIOUS
    <3>1. ASSUME NEW i \in Stays PROVE i \in (d + 2)..n
      BY <1>1, <1>s, <1>2, <1>5, <2>1, <3>1
    <3>2. IsFiniteSet((d + 2)..n) /\ Cardinality((d + 2)..n) <= n - d - 1
      <4>1. d + 2 \in Int /\ n \in Int
        BY <1>1, <1>5
      <4>2. /\ IsFiniteSet((d + 2)..n)
            /\ Cardinality((d + 2)..n) = IF d + 2 > n THEN 0 ELSE n - (d + 2) + 1
        BY Zenon, <4>1, FS_Interval
      <4> QED BY <1>1, <1>5, <1>8, <4>2
    <3>3. Cardinality(Stays) <= Cardinality((d + 2)..n)
      BY Zenon, <3>1, <3>2, FS_Subset
    <3>4. Cardinality((d + 2)..n) \in Nat
      BY <3>2, FS_CardinalityType
    <3> QED BY <1>1, <1>5, <3>2, <3>3, <3>4
  <2>3. PICK j \in 1..(d + 1) : InWindow(events[j], cutoff)
    BY <1>s, <2>1, <2>2
  <2>4. j = d + 1
    <3>1. CASE j \in 1..d
      <4>1. j \in Stays
        <5>1. j \in 1..n /\ j \in 1..j
          BY <1>1, <1>5, <3>1
        <5> QED BY <1>s, <2>3, <5>1
      <4> QED BY <1>6, <3>1, <4>1
    <3> QED BY <1>5, <3>1
  <2> QED BY <2>3, <2>4 DEF InWindow
<1>9. /\ Kept(cutoff) \in Seq(Nat)
      /\ Len(Kept(cutoff)) = n - d
      /\ \A i \in 1..(n - d) : Kept(cutoff)[i] = events[d + i]
  <2>1. \A i \in (d + 1)..n : events[i] \in Nat
    BY <1>1, <1>5
  <2>2. /\ SubSeq(events, d + 1, n) \in Seq(Nat)
        /\ Len(SubSeq(events, d + 1, n)) = IF d + 1 <= n THEN n - (d + 1) + 1 ELSE 0
        /\ \A i \in 1..(n - (d + 1) + 1) : SubSeq(events, d + 1, n)[i] = events[(d + 1) + i - 1]
    BY <1>1, <1>5, <2>1, SubSeqProperties
  <2>3. \A i \in 1..(n - d) : i \in 1..(n - (d + 1) + 1) /\ (d + 1) + i - 1 = d + i
    BY <1>1, <1>5
  <2> QED BY <1>1, <1>5, <1>q, <2>2, <2>3
<1> QED
  BY Zenon, <1>5, <1>7, <1>8, <1>9 DEF n

\* The constants are natural numbers.
LEMMA KeyringNumbers == Limit \in Nat /\ Limit > 0 /\ Delay \in Nat /\ Window \in Nat /\ Window > Delay
  BY KeyringAssumption

\* What thread c finds under the lock: the queue q is the events but for d that
\* are over, each of which passed a window ago, but for the delay.
LEMMA UnderTheLock ==
  ASSUME KeyringInv, NEW c \in Caller, stamp[c] # NoStamp
  PROVE  \E d \in 0..Len(events) :
           /\ Kept(stamp[c] - Window) \in Seq(Nat)
           /\ Len(Kept(stamp[c] - Window)) = Len(events) - d
           /\ \A i \in 1..(Len(events) - d) : Kept(stamp[c] - Window)[i] = events[d + i]
           /\ \A i \in 1..(Gone + d) : admitted[i] <= uptime - Window + Delay
           /\ d < Len(events) => events[d + 1] > stamp[c] - Window
<1> DEFINE cutoff == stamp[c] - Window
           q == Kept(cutoff)
           n == Len(events)
           g == Gone
<1>1. /\ events \in Seq(Nat) /\ admitted \in Seq(Nat) /\ uptime \in Nat /\ stamp[c] \in Nat
      /\ stamp[c] <= uptime /\ g \in Nat /\ n \in Nat
  BY DEF KeyringInv, KeyringTypes, StampsAreFresh, QueueIsRecent
<1>2. cutoff \in Int /\ cutoff + Delay <= uptime - Window + Delay
  BY <1>1, KeyringNumbers
<1>3. Len(admitted) = g + n
  <2>1. Len(admitted) \in Nat /\ g = Len(admitted) - n
    BY <1>1 DEF Gone
  <2> QED BY <1>1, <2>1
<1>4. PICK d \in 0..n :
        /\ q \in Seq(Nat) /\ Len(q) = n - d
        /\ \A i \in 1..(n - d) : q[i] = events[d + i]
        /\ \A i \in 1..d : events[i] <= cutoff
        /\ d < n => events[d + 1] > cutoff
  <2> HIDE DEF cutoff
  <2> QED BY Zenon, <1>1, <1>2, KeptSuffix
<1> HIDE DEF cutoff, q, n, g
<1>5. ASSUME NEW i \in 1..(g + d) PROVE admitted[i] <= uptime - Window + Delay
  <2>1. CASE i \in 1..g
    BY <2>1 DEF KeyringInv, QueueIsRecent, g
  <2>2. CASE i \notin 1..g
    <3>1. PICK j \in 1..d : g + j = i /\ j \in 1..n
      BY <1>1, <1>4, <2>2
    <3>2. admitted[i] <= events[j] + Delay
      BY <3>1 DEF KeyringInv, QueueIsRecent, g, n
    <3>3. events[j] \in Nat /\ events[j] <= cutoff
      BY SMTT(30), <1>1, <1>4, <3>1 DEF n
    <3>4. i \in 1..(g + n)
      BY <1>1, <3>1
    <3>5. admitted[i] \in Nat
      BY <1>1, <1>3, <3>4
    <3> QED BY SMTT(30), <1>1, <1>2, <3>2, <3>3, <3>5, KeyringNumbers
  <2> QED BY <2>1, <2>2
<1> QED
  BY Zenon, <1>4, <1>5 DEF cutoff, q, n, g

\* A position of a list with one more entry is the last one or was there before.
LEMMA LastOrBefore ==
  ASSUME NEW m \in Nat
  PROVE  \A i \in 1..(m + 1) : i \in 1..m \/ i = m + 1
  OBVIOUS

\* What Append makes of a sequence of times.
LEMMA Appended ==
  ASSUME NEW s \in Seq(Nat), NEW x \in Nat
  PROVE  /\ Append(s, x) \in Seq(Nat) /\ Len(Append(s, x)) = Len(s) + 1
         /\ Append(s, x)[Len(s) + 1] = x
         /\ \A i \in 1..Len(s) : Append(s, x)[i] = s[i] /\ s[i] \in Nat
  OBVIOUS

\* The queue that stays, and what was taken off it.
Taken(d, q) ==
  /\ q \in Seq(Nat) /\ Len(q) = Len(events) - d
  /\ \A i \in 1..(Len(events) - d) : q[i] = events[d + i]
  /\ \A i \in 1..(Gone + d) : admitted[i] <= uptime - Window + Delay

\* What the steps under the lock count with.
LEMMA Counts ==
  ASSUME KeyringInv, NEW d \in 0..Len(events), NEW q, Taken(d, q)
  PROVE  /\ Gone \in Nat /\ Len(events) \in Nat /\ Len(q) \in Nat /\ Len(admitted) \in Nat
         /\ Len(q) = Len(events) - d
         /\ Len(admitted) = Gone + Len(events) /\ Len(admitted) = Gone + d + Len(q)
         /\ \A j \in 1..Len(q) : /\ q[j] \in Nat /\ admitted[Gone + d + j] \in Nat
                                 /\ q[j] <= admitted[Gone + d + j]
                                 /\ admitted[Gone + d + j] <= q[j] + Delay
<1> DEFINE n == Len(events)
           g == Gone
           l == Len(q)
           m == Len(admitted)
<1>1. /\ events \in Seq(Nat) /\ admitted \in Seq(Nat) /\ q \in Seq(Nat) /\ g \in Nat
      /\ l = n - d
  BY DEF KeyringInv, KeyringTypes, QueueIsRecent, Taken
<1>2. n \in Nat /\ l \in Nat /\ m \in Nat /\ g = m - n /\ d \in Nat /\ d <= n
  BY <1>1 DEF Gone
<1>3. \A j \in 1..n : events[j] <= admitted[g + j] /\ admitted[g + j] <= events[j] + Delay
  BY DEF KeyringInv, QueueIsRecent
<1>4. \A j \in 1..(n - d) : q[j] = events[d + j]
  BY DEF Taken
<1>5. /\ \A j \in 1..m : admitted[j] \in Nat
      /\ \A j \in 1..n : events[j] \in Nat
  BY Zenon, <1>1, Times
<1> HIDE DEF n, g, l, m
<1>6. m = g + n /\ m = g + d + l
  BY <1>1, <1>2
<1>7. ASSUME NEW j \in 1..l
      PROVE  /\ q[j] \in Nat /\ admitted[g + d + j] \in Nat
             /\ q[j] <= admitted[g + d + j] /\ admitted[g + d + j] <= q[j] + Delay
  <2>1. /\ d + j \in 1..n /\ j \in 1..(n - d) /\ g + (d + j) = g + d + j
        /\ g + d + j \in 1..m
    BY <1>1, <1>2, <1>6
  <2>2. events[d + j] <= admitted[g + (d + j)] /\ admitted[g + (d + j)] <= events[d + j] + Delay
    BY <1>3, <2>1
  <2>3. q[j] = events[d + j] /\ events[d + j] \in Nat /\ admitted[g + d + j] \in Nat
    BY <1>4, <1>5, <2>1
  <2> QED BY <2>1, <2>2, <2>3
<1> QED
  BY <1>1, <1>2, <1>6, <1>7 DEF n, g, l, m

\* A thread that finds the queue full leaves what stays of it.
LEMMA RefusalKeeps ==
  ASSUME KeyringInv, NEW d \in 0..Len(events), NEW q, Taken(d, q),
         events' = q, UNCHANGED <<uptime, admitted>>
  PROVE  QueueIsRecent'
<1>1. /\ Gone \in Nat /\ Len(q) \in Nat /\ Len(admitted) = Gone + d + Len(q)
      /\ \A j \in 1..Len(q) : /\ q[j] <= admitted[Gone + d + j]
                              /\ admitted[Gone + d + j] <= q[j] + Delay
  BY Counts
<1>2. PICK g \in Nat : g = Gone
  BY <1>1
<1>3. Gone' = g + d /\ Gone' \in Nat
  BY <1>1, <1>2 DEF Gone
<1> QED
  BY <1>1, <1>2, <1>3 DEF QueueIsRecent, Taken

\* A thread that finds room passes, and what passed a limit ago passed a window
\* ago, but for the delay.
LEMMA AdmissionKeeps ==
  ASSUME KeyringInv, NEW c \in Caller, stamp[c] # NoStamp,
         NEW d \in 0..Len(events), NEW q, Taken(d, q), ~Full(q),
         events' = Append(q, stamp[c]), admitted' = Append(admitted, uptime), uptime' = uptime
  PROVE  /\ events' \in Seq(Nat) /\ admitted' \in Seq(Nat)
         /\ AdmittedInOrder' /\ QueueIsRecent' /\ AdmitsTheLimit'
<1>1. PICK m \in Nat, l \in Nat, g \in Nat, at \in Nat, up \in Nat :
        m = Len(admitted) /\ l = Len(q) /\ g = Gone /\ at = stamp[c] /\ up = uptime
  BY SMTT(30), Counts DEF KeyringInv, KeyringTypes
<1>2. /\ admitted \in Seq(Nat) /\ q \in Seq(Nat) /\ at <= up /\ up <= at + Delay
      /\ d \in Nat /\ m = g + d + l
  <2>1. at <= up /\ up <= at + Delay
    BY <1>1 DEF KeyringInv, StampsAreFresh
  <2>2. m = g + d + l
    BY <1>1, Counts
  <2> QED BY <2>1, <2>2 DEF KeyringInv, KeyringTypes, Taken
<1>3. /\ admitted' \in Seq(Nat) /\ Len(admitted') = m + 1 /\ admitted'[m + 1] = up
      /\ \A i \in 1..m : admitted'[i] = admitted[i] /\ admitted[i] \in Nat
  <2>1. admitted' = Append(admitted, up) /\ m = Len(admitted)
    BY <1>1
  <2>2. /\ Append(admitted, up) \in Seq(Nat) /\ Len(Append(admitted, up)) = m + 1
        /\ Append(admitted, up)[m + 1] = up
        /\ \A i \in 1..m : Append(admitted, up)[i] = admitted[i] /\ admitted[i] \in Nat
    <3>1. up \in Nat /\ admitted \in Seq(Nat)
      BY <1>2
    <3>2. /\ Append(admitted, up) \in Seq(Nat)
          /\ Len(Append(admitted, up)) = Len(admitted) + 1
          /\ Append(admitted, up)[Len(admitted) + 1] = up
          /\ \A i \in 1..Len(admitted) :
               Append(admitted, up)[i] = admitted[i] /\ admitted[i] \in Nat
      BY <3>1, Appended, Zenon
    <3> QED BY <2>1, <3>2, Zenon
  <2> QED BY <2>1, <2>2, Zenon
<1>4. /\ events' \in Seq(Nat) /\ Len(events') = l + 1 /\ events'[l + 1] = at
      /\ \A i \in 1..l : events'[i] = q[i]
  <2>1. events' = Append(q, at)
    BY <1>1
  <2> QED BY <1>1, <1>2, <2>1, Appended
<1>5. /\ \A i \in 1..m : admitted[i] <= up
      /\ \A i, j \in 1..m : i <= j => admitted[i] <= admitted[j]
      /\ \A i \in 1..(m - Limit) : admitted[i + Limit] - admitted[i] >= Window - Delay
  BY <1>1 DEF KeyringInv, AdmittedInOrder, AdmitsTheLimit
<1>6. /\ \A j \in 1..l : /\ q[j] <= admitted[g + d + j]
                         /\ admitted[g + d + j] <= q[j] + Delay
      /\ \A i \in 1..(g + d) : admitted[i] <= up - Window + Delay
  BY Zenon, <1>1, Counts DEF Taken
<1>7. Gone' = g + d
  BY <1>2, <1>3, <1>4 DEF Gone
<1>8. l < Limit
  BY <1>1, KeyringNumbers DEF Full
<1>9. AdmittedInOrder'
  <2>1. \A i \in 1..(m + 1) : i \in 1..m \/ i = m + 1
    BY LastOrBefore
  <2>2. ASSUME NEW i \in 1..(m + 1) PROVE admitted'[i] <= up
    BY <1>3, <1>5, <2>1
  <2>3. ASSUME NEW i \in 1..(m + 1), NEW j \in 1..(m + 1), i <= j
        PROVE  admitted'[i] <= admitted'[j]
    <3>1. CASE j = m + 1
      BY <1>3, <2>2, <3>1
    <3>2. CASE j \in 1..m
      <4>1. i \in 1..m
        BY <2>3, <3>2
      <4> QED BY <1>3, <1>5, <2>3, <3>2, <4>1
    <3> QED BY Zenon, <2>1, <3>1, <3>2
  <2> QED BY Zenon, <1>1, <1>3, <2>2, <2>3 DEF AdmittedInOrder
<1>10. QueueIsRecent'
  <2>1. ASSUME NEW j \in 1..(l + 1)
        PROVE  /\ events'[j] <= admitted'[(g + d) + j]
               /\ admitted'[(g + d) + j] <= events'[j] + Delay
    <3>1. CASE j \in 1..l
      <4>1. (g + d) + j = g + d + j /\ g + d + j \in 1..m
        BY <1>2, <3>1
      <4> QED BY Zenon, <1>3, <1>4, <1>6, <3>1, <4>1
    <3>2. CASE j = l + 1
      <4>1. (g + d) + j = m + 1
        BY <1>2, <3>2
      <4> QED BY <1>2, <1>3, <1>4, <3>2, <4>1
    <3> QED BY Zenon, <3>1, <3>2, LastOrBefore
  <2>2. ASSUME NEW i \in 1..(g + d) PROVE admitted'[i] <= up - Window + Delay
    <3>1. i \in 1..m
      BY <1>2
    <3>2. admitted'[i] = admitted[i] /\ admitted[i] <= up - Window + Delay
      BY <1>3, <1>6, <3>1
    <3> QED BY <3>2
  <2>3. g + d \in Nat
    BY <1>2
  <2> QED BY Zenon, <1>1, <1>4, <1>7, <2>1, <2>2, <2>3 DEF QueueIsRecent
<1>11. AdmitsTheLimit'
  <2>1. ASSUME NEW i \in 1..(m + 1 - Limit)
        PROVE  admitted'[i + Limit] - admitted'[i] >= Window - Delay
    <3>1. CASE i + Limit <= m
      <4>1. i \in 1..(m - Limit) /\ i \in 1..m /\ i + Limit \in 1..m
        BY <3>1, KeyringNumbers
      <4> QED BY <1>3, <1>5, <4>1
    <3>2. CASE i + Limit > m
      <4>1. i + Limit = m + 1 /\ i \in 1..m /\ i \in 1..(g + d)
        BY <1>2, <1>8, <3>2, KeyringNumbers
      <4>2. admitted[i] <= up - Window + Delay /\ admitted[i] \in Nat
        BY <1>3, <1>6, <4>1
      <4>3. up - admitted[i] >= Window - Delay
        BY <4>2, KeyringNumbers
      <4> QED BY SMTT(30), <1>3, <4>1, <4>3
    <3>3. i + Limit <= m \/ i + Limit > m
      BY KeyringNumbers
    <3> QED BY Zenon, <3>1, <3>2, <3>3
  <2>2. Len(admitted') = m + 1
    BY <1>3
  <2>3. \A i \in 1..(Len(admitted') - Limit) : i \in 1..(m + 1 - Limit)
    <3>1. Len(admitted') - Limit = m + 1 - Limit
      BY <2>2, KeyringNumbers
    <3> QED BY <3>1, Zenon
  <2> QED BY Zenon, <2>1, <2>3 DEF AdmitsTheLimit
<1> QED
  BY <1>3, <1>4, <1>9, <1>10, <1>11

\* What acquire does with the queue q that it finds, of which d times are over.
AcquireWith(c, d, q) ==
  /\ Taken(d, q)
  /\ q = Kept(stamp[c] - Window)
  /\ d < Len(events) => events[d + 1] > stamp[c] - Window
  /\ stamp' = [stamp EXCEPT ![c] = NoStamp]
  /\ uptime' = uptime
  /\ \/ /\ Full(q) /\ events' = q /\ admitted' = admitted
        /\ retry' = [retry EXCEPT ![c] = Head(q) + Window - stamp[c]]
     \/ /\ ~Full(q) /\ events' = Append(q, stamp[c]) /\ admitted' = Append(admitted, uptime)
        /\ retry' = [retry EXCEPT ![c] = 0]

\* Each of acquire's steps is one with such a queue.
LEMMA AcquireHasQueue ==
  ASSUME KeyringInv, NEW c \in Caller, acquire(c)
  PROVE  \E d \in 0..Len(events), q \in Seq(Nat) : AcquireWith(c, d, q)
<1>1. PICK d \in 0..Len(events) :
        /\ Kept(stamp[c] - Window) \in Seq(Nat)
        /\ Len(Kept(stamp[c] - Window)) = Len(events) - d
        /\ \A i \in 1..(Len(events) - d) : Kept(stamp[c] - Window)[i] = events[d + i]
        /\ \A i \in 1..(Gone + d) : admitted[i] <= uptime - Window + Delay
        /\ d < Len(events) => events[d + 1] > stamp[c] - Window
  BY UnderTheLock DEF acquire
<1>2. AcquireWith(c, d, Kept(stamp[c] - Window))
  BY <1>1, Zenon DEF AcquireWith, Taken, acquire
<1> QED
  BY <1>1, <1>2

\* A full queue starts with a time that is not over.
LEMMA FullQueue ==
  ASSUME KeyringInv, NEW c \in Caller, stamp[c] # NoStamp, NEW d \in 0..Len(events),
         NEW q \in Seq(Nat), AcquireWith(c, d, q), Full(q)
  PROVE  /\ Head(q) = q[1] /\ 1 \in 1..Len(q)
         /\ Head(q) \in Nat /\ stamp[c] \in Nat
         /\ Head(q) > stamp[c] - Window
<1>1. stamp[c] \in Nat
  BY DEF KeyringInv, KeyringTypes
<1>2. Len(q) \in Nat /\ Len(events) \in Nat /\ Len(q) = Len(events) - d /\ Len(q) >= Limit
  BY Counts DEF AcquireWith, Full
<1>3. Len(q) >= 1 /\ d < Len(events) /\ 1 \in 1..Len(q) /\ 1 \in 1..(Len(events) - d)
  BY <1>2, KeyringNumbers
<1>4. Head(q) = q[1] /\ q[1] \in Nat
  BY <1>3
<1>5. q[1] = events[d + 1] /\ events[d + 1] > stamp[c] - Window
  BY <1>3 DEF AcquireWith, Taken
<1> QED
  BY <1>1, <1>3, <1>4, <1>5

\* Every step keeps the invariant.
LEMMA NextKeyring == KeyringInv /\ [KeyringNext]_keyringVars => KeyringInv'
<1> SUFFICES ASSUME KeyringInv, [KeyringNext]_keyringVars PROVE KeyringInv'
  OBVIOUS
<1>1. CASE KeyringTick
  <2>1. /\ uptime \in Nat /\ uptime' = uptime + 1 /\ uptime' \in Nat
        /\ stamp' = stamp /\ events' = events /\ retry' = retry /\ admitted' = admitted
        /\ Gone' = Gone
    BY <1>1 DEF KeyringTick, KeyringInv, KeyringTypes, Gone
  <2>2. KeyringTypes'
    BY <2>1 DEF KeyringInv, KeyringTypes
  <2>3. StampsAreFresh'
    <3> SUFFICES ASSUME NEW c \in Caller, stamp[c] # NoStamp
                 PROVE  stamp[c] <= uptime + 1 /\ uptime + 1 <= stamp[c] + Delay
      BY <2>1 DEF StampsAreFresh
    <3>1. stamp[c] \in Nat /\ stamp[c] <= uptime /\ uptime - stamp[c] < Delay
      BY <1>1 DEF KeyringTick, KeyringInv, KeyringTypes, StampsAreFresh
    <3> QED BY <2>1, <3>1, KeyringNumbers
  <2>4. \A i \in 1..Len(admitted) : admitted[i] \in Nat
    BY DEF KeyringInv, KeyringTypes
  <2>5. AdmittedInOrder'
    BY <2>1, <2>4 DEF KeyringInv, AdmittedInOrder
  <2>6. QueueIsRecent'
    <3>1. ASSUME NEW i \in 1..Gone PROVE admitted[i] <= uptime + 1 - Window + Delay
      <4>1. admitted[i] <= uptime - Window + Delay
        BY DEF KeyringInv, QueueIsRecent
      <4>3. Gone \in Nat /\ Len(admitted) \in Nat /\ Len(events) \in Nat
            /\ Gone = Len(admitted) - Len(events)
        BY DEF Gone, KeyringInv, KeyringTypes, QueueIsRecent
      <4>4. i \in 1..Len(admitted)
        BY <4>3
      <4>5. admitted[i] \in Nat /\ uptime \in Nat
        BY <2>1, <2>4, <4>4
      <4> QED BY <4>1, <4>5, KeyringNumbers
    <3>2. /\ Gone \in Nat
          /\ \A j \in 1..Len(events) : /\ events[j] <= admitted[Gone + j]
                                       /\ admitted[Gone + j] <= events[j] + Delay
      BY DEF KeyringInv, QueueIsRecent
    <3>3. \A i \in 1..Gone' : admitted'[i] <= uptime' - Window + Delay
      <4> SUFFICES ASSUME NEW i \in 1..Gone' PROVE admitted'[i] <= uptime' - Window + Delay
        OBVIOUS
      <4>1. i \in 1..Gone /\ admitted' = admitted /\ uptime' = uptime + 1
        BY <2>1
      <4>2. admitted[i] <= uptime + 1 - Window + Delay
        BY <3>1, <4>1
      <4> QED BY <2>1, <4>1, <4>2, KeyringNumbers
    <3>4. /\ Gone' \in Nat
          /\ \A j \in 1..Len(events') : /\ events'[j] <= admitted'[Gone' + j]
                                        /\ admitted'[Gone' + j] <= events'[j] + Delay
      BY <2>1, <3>2, Zenon
    <3> QED BY <3>3, <3>4, Zenon DEF QueueIsRecent
  <2>7. AdmitsTheLimit'
    BY <2>1 DEF KeyringInv, AdmitsTheLimit
  <2> QED BY <2>2, <2>3, <2>5, <2>6, <2>7 DEF KeyringInv
<1>2. ASSUME NEW c \in Caller, ReadClock(c) PROVE KeyringInv'
  <2>1. /\ uptime' = uptime /\ events' = events /\ retry' = retry /\ admitted' = admitted
        /\ Gone' = Gone /\ stamp' = [stamp EXCEPT ![c] = uptime] /\ uptime \in Nat
    BY <1>2 DEF ReadClock, KeyringInv, KeyringTypes, Gone
  <2>2. KeyringTypes'
    BY <2>1 DEF KeyringInv, KeyringTypes
  <2>3. StampsAreFresh'
    BY <2>1, KeyringNumbers DEF KeyringInv, KeyringTypes, StampsAreFresh
  <2>4. AdmittedInOrder' /\ QueueIsRecent' /\ AdmitsTheLimit'
    BY <2>1 DEF KeyringInv, AdmittedInOrder, QueueIsRecent, AdmitsTheLimit
  <2> QED BY <2>2, <2>3, <2>4 DEF KeyringInv
<1>3. ASSUME NEW c \in Caller, acquire(c) PROVE KeyringInv'
  <2>1. PICK d \in 0..Len(events), q \in Seq(Nat) : AcquireWith(c, d, q)
    BY <1>3, AcquireHasQueue
  <2>2. /\ stamp[c] # NoStamp /\ Taken(d, q)
        /\ stamp' = [stamp EXCEPT ![c] = NoStamp] /\ uptime' = uptime
    BY Zenon, <1>3, <2>1 DEF acquire, AcquireWith
  <2>3. /\ stamp' \in [Caller -> Nat \cup {NoStamp}] /\ uptime' \in Nat
        /\ StampsAreFresh'
    BY <2>2 DEF KeyringInv, KeyringTypes, StampsAreFresh
  <2>4. CASE Full(q)
    <3>1. events' = q /\ admitted' = admitted
          /\ retry' = [retry EXCEPT ![c] = Head(q) + Window - stamp[c]]
      BY <2>1, <2>4 DEF AcquireWith
    <3>2. Head(q) + Window - stamp[c] \in Int
      <4>1. Head(q) \in Nat /\ stamp[c] \in Nat
        BY <2>1, <2>2, <2>4, FullQueue
      <4> QED BY <4>1, KeyringNumbers
    <3>3. KeyringTypes'
      BY <2>3, <3>1, <3>2 DEF KeyringInv, KeyringTypes
    <3>4. QueueIsRecent'
      BY <2>2, <3>1, RefusalKeeps
    <3>5. AdmittedInOrder' /\ AdmitsTheLimit'
      BY <2>2, <3>1 DEF KeyringInv, AdmittedInOrder, AdmitsTheLimit
    <3> QED BY <2>3, <3>3, <3>4, <3>5 DEF KeyringInv
  <2>5. CASE ~Full(q)
    <3>1. events' = Append(q, stamp[c]) /\ admitted' = Append(admitted, uptime)
          /\ retry' = [retry EXCEPT ![c] = 0]
      BY <2>1, <2>5 DEF AcquireWith
    <3>2. /\ events' \in Seq(Nat) /\ admitted' \in Seq(Nat)
          /\ AdmittedInOrder' /\ QueueIsRecent' /\ AdmitsTheLimit'
      BY <2>2, <2>5, <3>1, AdmissionKeeps
    <3>3. KeyringTypes'
      BY <2>3, <3>1, <3>2 DEF KeyringInv, KeyringTypes
    <3> QED BY <2>3, <3>2, <3>3 DEF KeyringInv
  <2> QED BY <2>4, <2>5
<1>4. CASE UNCHANGED keyringVars
  BY Zenon, <1>4 DEF keyringVars, KeyringInv, KeyringTypes, StampsAreFresh, AdmittedInOrder, Gone,
     QueueIsRecent, AdmitsTheLimit
<1> QED
  BY <1>1, <1>2, <1>3, <1>4 DEF KeyringNext

\* The queue stays a window of the requests that passed, with the times that the
\* threads have read, as requests are refused and admitted (acquire).
THEOREM KeyringInvariance == KeyringSpec => []KeyringInv
<1>1. KeyringInit => KeyringInv
  <2> SUFFICES ASSUME KeyringInit PROVE KeyringInv
    OBVIOUS
  <2>1. /\ uptime = 0 /\ stamp = [c \in Caller |-> NoStamp] /\ events = << >>
        /\ retry = [c \in Caller |-> 0] /\ admitted = << >>
    BY DEF KeyringInit
  <2>2. Len(admitted) = 0 /\ Len(events) = 0 /\ Gone = 0
    BY <2>1 DEF Gone
  <2>3. KeyringTypes /\ StampsAreFresh
    BY <2>1 DEF KeyringTypes, StampsAreFresh
  <2>4. AdmittedInOrder /\ QueueIsRecent
    BY <2>2 DEF AdmittedInOrder, QueueIsRecent
  <2>5. AdmitsTheLimit
    BY <2>2, KeyringNumbers DEF AdmitsTheLimit
  <2> QED BY <2>3, <2>4, <2>5 DEF KeyringInv
<1> QED
  BY <1>1, NextKeyring, PTL DEF KeyringSpec

\* No more than the limit passes in less than a window, but for the time that a
\* thread waits for the lock, however many threads there are and however they put
\* the queue out of order (acquire).
THEOREM LimitIsKept == KeyringSpec => []AdmitsTheLimit
<1>1. KeyringInv => AdmitsTheLimit
  BY DEF KeyringInv
<1> QED
  BY <1>1, KeyringInvariance, PTL

\* A refused thread found the limit's worth of requests that passed lately, and
\* is told to wait no longer than a window and the delay.
LEMMA RefusedWhenBusy ==
  ASSUME KeyringInv, NEW c \in Caller, stamp[c] # NoStamp, NEW d \in 0..Len(events),
         NEW q \in Seq(Nat), AcquireWith(c, d, q), Full(q)
  PROVE  /\ Head(q) + Window - stamp[c] \in 1..(Window + Delay)
         /\ Cardinality({i \in 1..Len(admitted) : admitted[i] > uptime - Window - Delay})
              >= Limit
<1>1. PICK m \in Nat, l \in Nat, g \in Nat, at \in Nat, up \in Nat, h \in Nat :
        /\ m = Len(admitted) /\ l = Len(q) /\ g = Gone /\ at = stamp[c] /\ up = uptime
        /\ h = Head(q)
  BY Zenon, Counts, FullQueue DEF KeyringInv, KeyringTypes, AcquireWith
<1>2. /\ m = g + d + l /\ l >= Limit /\ d \in Nat
      /\ h = q[1] /\ 1 \in 1..l /\ h > at - Window
  <2>1. m = g + d + l /\ Len(events) \in Nat
    BY Zenon, <1>1, Counts DEF AcquireWith
  <2>2. l >= Limit
    BY <1>1 DEF Full
  <2>3. h = q[1] /\ 1 \in 1..l /\ h > at - Window
    BY <1>1, FullQueue
  <2>4. d \in Nat
    BY <2>1
  <2> QED BY Zenon, <2>1, <2>2, <2>3, <2>4
<1>3. at <= up /\ up <= at + Delay
  BY <1>1 DEF KeyringInv, StampsAreFresh
<1>4. \A j \in 1..l : /\ q[j] <= admitted[g + d + j] /\ admitted[g + d + j] \in Nat
  BY Zenon, <1>1, Counts DEF AcquireWith
<1>5. /\ \A i \in 1..m : admitted[i] <= up
      /\ \A i, j \in 1..m : i <= j => admitted[i] <= admitted[j]
      /\ \A i \in 1..m : admitted[i] \in Nat
  BY Zenon, <1>1, Times DEF KeyringInv, KeyringTypes, AdmittedInOrder
<1>6. PICK f \in 1..m : f = g + d + 1
  BY <1>2
<1>7. h <= admitted[f] /\ admitted[f] <= up /\ admitted[f] \in Nat
  BY <1>2, <1>4, <1>5, <1>6
<1>8. h + Window - at \in 1..(Window + Delay)
  BY Zenon, <1>2, <1>3, <1>7, KeyringNumbers, WaitIsBounded
<1> DEFINE Busy == {i \in 1..m : admitted[i] > up - Window - Delay}
<1>9. f..m \subseteq Busy
  <2> SUFFICES ASSUME NEW i \in f..m PROVE i \in 1..m /\ admitted[i] > up - Window - Delay
    OBVIOUS
  <2>1. i \in 1..m /\ f <= i
    OBVIOUS
  <2>2. admitted[f] <= admitted[i] /\ admitted[i] \in Nat
    BY <1>5, <2>1
  <2> QED BY SMTT(30), <1>2, <1>3, <1>7, <2>1, <2>2, KeyringNumbers
<1>10. IsFiniteSet(1..m) /\ Busy \subseteq 1..m
  BY FS_Interval
<1> HIDE DEF Busy
<1>11. IsFiniteSet(Busy) /\ Cardinality(Busy) \in Nat
  BY Zenon, <1>10, FS_Subset, FS_CardinalityType
<1>12. Cardinality(f..m) <= Cardinality(Busy) /\ Cardinality(f..m) \in Nat
  <2>1. IsFiniteSet(f..m)
    BY <1>9, <1>11, FS_Subset
  <2> QED BY <1>9, <1>11, <2>1, FS_Subset, FS_CardinalityType
<1>13. Cardinality(f..m) = m - f + 1
  BY FS_Interval
<1>14. Cardinality(Busy) >= Limit
  BY <1>2, <1>6, <1>11, <1>12, <1>13, KeyringNumbers
<1> QED
  BY <1>1, <1>8, <1>14 DEF Busy

\* A request is refused only when the limit passed within the last window and the
\* delay, and its Retry-After is no longer either (acquire).
THEOREM RefusedOnlyWhenBusy == KeyringSpec => OnlyBusyIsRefused
<1> DEFINE Refused(c) == stamp[c] # NoStamp /\ stamp'[c] = NoStamp /\ admitted' = admitted
           Answer(c) ==
             /\ retry'[c] \in 1..(Window + Delay)
             /\ Cardinality({i \in 1..Len(admitted) : admitted[i] > uptime - Window - Delay})
                  >= Limit
<1>1. ASSUME KeyringInv, [KeyringNext]_keyringVars, NEW c \in Caller, Refused(c)
      PROVE  Answer(c)
  <2>1. acquire(c)
    <3>1. stamp' # stamp
      BY <1>1
    <3>2. PICK b \in Caller : ReadClock(b) \/ acquire(b)
      BY <1>1, <3>1 DEF KeyringNext, KeyringTick, keyringVars
    <3>3. stamp'[c] # stamp[c] /\ stamp \in [Caller -> Nat \cup {NoStamp}]
      BY <1>1 DEF KeyringInv, KeyringTypes
    <3>4. b = c
      BY <3>2, <3>3 DEF ReadClock, acquire
    <3> QED BY <1>1, <3>2, <3>4 DEF ReadClock
  <2>2. PICK d \in 0..Len(events), q \in Seq(Nat) : AcquireWith(c, d, q)
    BY <1>1, <2>1, AcquireHasQueue
  <2>3. Full(q)
    <3>1. admitted \in Seq(Nat) /\ uptime \in Nat
      BY <1>1 DEF KeyringInv, KeyringTypes
    <3>2. Append(admitted, uptime) # admitted
      BY <3>1, Appended
    <3> QED BY Zenon, <1>1, <2>2, <3>2 DEF AcquireWith
  <2>4. retry \in [Caller -> Int] /\ retry' = [retry EXCEPT ![c] = Head(q) + Window - stamp[c]]
    BY Zenon, <1>1, <2>2, <2>3 DEF AcquireWith, KeyringInv, KeyringTypes
  <2>5. /\ Head(q) + Window - stamp[c] \in 1..(Window + Delay)
        /\ Cardinality({i \in 1..Len(admitted) : admitted[i] > uptime - Window - Delay})
             >= Limit
    BY Zenon, <1>1, <2>2, <2>3, RefusedWhenBusy
  <2> QED BY <2>4, <2>5
<1>2. KeyringInv /\ [KeyringNext]_keyringVars =>
        [\A c \in Caller : Refused(c) => Answer(c)]_keyringVars
  BY Zenon, <1>1
<1> QED
  BY <1>2, KeyringInvariance, PTL DEF KeyringSpec, OnlyBusyIsRefused

-----------------------------------------------------------------------------
(***************************************************************************)
(* Proofs about Rotation, for any number of credentials, jobs and workers. *)
(*                                                                         *)
(* That a secret is recoverable is not inductive: promoting a candidate    *)
(* empties the row it was stored in, so the target must accept it by then, *)
(* and nobody else may be changing the same target.  The invariant adds    *)
(* who owns a running job, that a credential has one active job, and what  *)
(* a connector that returned has done.                                     *)
(***************************************************************************)

\* A worker past its first transaction is alone with a job that is running and
\* whose candidate is stored.
JobsAreOwned ==
  \A w \in Worker : working[w] # NoJob =>
    /\ status[working[w]] = "running"
    /\ working[w] \in stored
    /\ \A v \in Worker : working[v] = working[w] => v = w

\* A credential has at most one pending or running job.
OneActiveJob ==
  \A j, k \in Job :
    status[j] \in Active /\ status[k] \in Active /\ subject[j] = subject[k] => j = k

\* A connector that returned left its job's candidate on the target.
ReturnedMeansChanged ==
  \A w \in Worker :
    /\ outcome[w] # "none" => working[w] # NoJob
    /\ outcome[w] = "changed" => accepted[subject[working[w]]] = working[w]

RotationInv == TypeOK /\ JobsAreOwned /\ OneActiveJob /\ ReturnedMeansChanged

-----------------------------------------------------------------------------
\* Nothing is queued, running or changed in an initial state.
LEMMA InitRotation == Init => RotationInv /\ SecretRecoverable
<1> SUFFICES ASSUME Init PROVE RotationInv /\ SecretRecoverable
  BY Zenon
<1>1. TypeOK
  BY Zenon DEF Init, TypeOK, Secret, Status, Outcome
<1>2. /\ \A w \in Worker : working[w] = NoJob /\ outcome[w] = "none"
      /\ \A j \in Job : status[j] \notin Active
  BY Zenon DEF Init, Active
<1>3. JobsAreOwned /\ OneActiveJob /\ ReturnedMeansChanged
  BY Zenon, <1>2 DEF JobsAreOwned, OneActiveJob, ReturnedMeansChanged
<1>4. SecretRecoverable
  BY Zenon DEF Init, SecretRecoverable
<1> QED
  BY Zenon, <1>1, <1>3, <1>4 DEF RotationInv

\* What the columns of the jobs and the state of the workers hold.
LEMMA RotationColumns ==
  ASSUME RotationInv
  PROVE  /\ accepted \in [Credential -> Secret] /\ vault \in [Credential -> Secret]
         /\ status \in [Job -> Status] /\ subject \in [Job -> Credential] /\ stored \subseteq Job
         /\ working \in [Worker -> Job \cup {NoJob}] /\ outcome \in [Worker -> Outcome]
         /\ \A w \in Worker : working[w] # NoJob => working[w] \in Job
  BY Zenon DEF RotationInv, TypeOK

\* The statuses differ, and a running job is active.
LEMMA Statuses ==
  /\ "running" \in Active /\ "pending" \in Active /\ "none" \notin Active
  /\ \A st \in Done : st \notin Active
  /\ Active \subseteq Status /\ Done \subseteq Status
  BY Zenon DEF Active, Done, Status

\* Two workers never work on jobs of the same credential.
LEMMA WorkersApart ==
  ASSUME RotationInv, NEW v \in Worker, NEW w \in Worker, working[v] # NoJob,
         working[w] # NoJob, subject[working[v]] = subject[working[w]]
  PROVE  v = w
<1>1. working[v] \in Job /\ working[w] \in Job
  BY Zenon, RotationColumns
<1>2. status[working[v]] \in Active /\ status[working[w]] \in Active
  BY Zenon, Statuses DEF RotationInv, JobsAreOwned
<1>3. working[v] = working[w]
  BY Zenon, <1>1, <1>2 DEF RotationInv, OneActiveJob
<1> QED
  BY Zenon, <1>3 DEF RotationInv, JobsAreOwned

-----------------------------------------------------------------------------
\* What the workers do leaves one active job when it makes none active.
LEMMA ActiveShrinks ==
  ASSUME RotationInv, subject' = subject,
         \A k \in Job : status'[k] \in Active => status[k] \in Active
  PROVE  OneActiveJob'
  BY Zenon DEF RotationInv, OneActiveJob

\* Jobs and workers that are left alone stay as they were.
LEMMA JobsAlone ==
  ASSUME RotationInv, UNCHANGED <<accepted, status, subject, stored, working, outcome>>
  PROVE  JobsAreOwned' /\ OneActiveJob' /\ ReturnedMeansChanged'
<1>1. JobsAreOwned'
  BY Zenon DEF RotationInv, JobsAreOwned
<1>2. OneActiveJob'
  BY Zenon, ActiveShrinks
<1>3. ReturnedMeansChanged'
  BY Zenon DEF RotationInv, ReturnedMeansChanged
<1> QED
  BY Zenon, <1>1, <1>2, <1>3

\* A job is queued beside no active one.
LEMMA QueueKeeps ==
  ASSUME RotationInv, NEW j \in Job, queue_rotation(j)
  PROVE  RotationInv'
<1>1. /\ status[j] = "none" /\ ActiveJobs(subject[j]) = {}
      /\ status' = [status EXCEPT ![j] = "pending"] /\ unsent' = unsent \cup {j}
      /\ UNCHANGED <<vault, accepted, due, subject, stored, queue, working, outcome, form>>
  BY Zenon DEF queue_rotation
<1>2. \A k \in Job : status'[k] = IF k = j THEN "pending" ELSE status[k]
  BY Zenon, <1>1, RotationColumns
<1>3. TypeOK'
  <2>1. status' \in [Job -> Status]
    BY Zenon, <1>1, RotationColumns, Statuses
  <2> QED
    BY Zenon, <1>1, <2>1 DEF RotationInv, TypeOK
<1>4. JobsAreOwned'
  BY Zenon, <1>1, <1>2, RotationColumns DEF RotationInv, JobsAreOwned
<1>5. OneActiveJob'
  <2>1. ASSUME NEW k \in Job, NEW l \in Job, status'[k] \in Active, status'[l] \in Active,
               subject'[k] = subject'[l]
        PROVE  k = l
    <3>0. subject' = subject /\ \A i \in Job : i # j => status'[i] = status[i]
      BY Zenon, <1>1, <1>2
    <3>1. ASSUME NEW i \in Job, i # j, subject[i] = subject[j] PROVE status'[i] \notin Active
      BY Zenon, <1>1, <3>0, <3>1 DEF ActiveJobs
    <3>2. CASE k # j /\ l # j
      BY Zenon, <2>1, <3>0, <3>2 DEF RotationInv, OneActiveJob
    <3> QED
      BY Zenon, <2>1, <3>0, <3>1, <3>2
  <2> QED
    BY Zenon, <2>1 DEF OneActiveJob
<1>6. ReturnedMeansChanged'
  BY Zenon, <1>1 DEF RotationInv, ReturnedMeansChanged
<1> QED
  BY Zenon, <1>3, <1>4, <1>5, <1>6 DEF RotationInv

\* The first transaction gives the worker a job that no other one has.
LEMMA PrepareKeeps ==
  ASSUME RotationInv, NEW w \in Worker, NEW j \in Job, Prepare(w, j)
  PROVE  RotationInv'
<1>1. /\ working[w] = NoJob /\ status[j] = "pending"
      /\ status' = [status EXCEPT ![j] = "running"] /\ stored' = stored \cup {j}
      /\ working' = [working EXCEPT ![w] = j] /\ queue' \subseteq queue
      /\ UNCHANGED <<vault, accepted, due, subject, unsent, outcome, form>>
  BY Zenon DEF Prepare, Take
<1>2. /\ status'[j] = "running" /\ \A k \in Job : k # j => status'[k] = status[k]
      /\ working'[w] = j /\ \A v \in Worker : v # w => working'[v] = working[v]
  BY Zenon, <1>1, RotationColumns
<1>3. TypeOK'
  <2>1. status' \in [Job -> Status] /\ working' \in [Worker -> Job \cup {NoJob}]
    BY Zenon, <1>1, RotationColumns, Statuses
  <2> QED
    BY Zenon, <1>1, <2>1 DEF RotationInv, TypeOK
<1>4. \A v \in Worker : working[v] # NoJob => status[working[v]] = "running" /\ working[v] # j
  BY Zenon, <1>1 DEF RotationInv, JobsAreOwned
<1>5. JobsAreOwned'
  <2>1. ASSUME NEW v \in Worker, working'[v] # NoJob
        PROVE  /\ status'[working'[v]] = "running" /\ working'[v] \in stored'
               /\ \A u \in Worker : working'[u] = working'[v] => u = v
    <3>0. \A u \in Worker : u # w => working'[u] # j
      BY Zenon, <1>2, <1>4, RotationAssumption
    <3>1. CASE v = w
      <4>1. working'[v] = j /\ j \in stored'
        BY Zenon, <1>1, <1>2, <3>1
      <4> QED
        BY Zenon, <1>2, <3>0, <3>1, <4>1
    <3>2. CASE v # w
      <4>1. working'[v] = working[v] /\ working[v] # NoJob /\ working[v] \in Job /\ working[v] # j
        BY Zenon, <1>2, <1>4, <2>1, <3>2, RotationColumns
      <4>2. /\ status[working[v]] = "running" /\ working[v] \in stored
            /\ \A u \in Worker : working[u] = working[v] => u = v
        BY Zenon, <4>1 DEF RotationInv, JobsAreOwned
      <4>3. status'[working[v]] = "running" /\ working[v] \in stored'
        BY Zenon, <1>1, <1>2, <4>1, <4>2
      <4>4. \A u \in Worker : working'[u] = working[v] => u = v
        BY Zenon, <1>2, <4>1, <4>2
      <4> QED
        BY Zenon, <4>1, <4>3, <4>4
    <3> QED
      BY Zenon, <3>1, <3>2
  <2> QED
    BY Zenon, <2>1 DEF JobsAreOwned
<1>6. OneActiveJob'
  BY Zenon, <1>1, <1>2, ActiveShrinks, Statuses
<1>7. ReturnedMeansChanged'
  <2>1. ASSUME NEW v \in Worker
        PROVE  /\ outcome[v] # "none" => working'[v] # NoJob
               /\ outcome[v] = "changed" => accepted[subject[working'[v]]] = working'[v]
    <3>1. /\ outcome[v] # "none" => working[v] # NoJob
          /\ outcome[v] = "changed" => accepted[subject[working[v]]] = working[v]
      BY Zenon DEF RotationInv, ReturnedMeansChanged
    <3>2. v = w => outcome[v] = "none"
      BY Zenon, <1>1, <3>1
    <3> QED
      BY Zenon, <1>2, <3>1, <3>2
  <2> QED
    BY Zenon, <1>1, <2>1 DEF ReturnedMeansChanged
<1> QED
  BY Zenon, <1>3, <1>5, <1>6, <1>7 DEF RotationInv

\* A job that ends before it runs is nobody's.
LEMMA CannotPrepareKeeps ==
  ASSUME RotationInv, NEW w \in Worker, NEW j \in Job, NEW st \in {"failed", "action_required"},
         CannotPrepare(w, j, st)
  PROVE  RotationInv'
<1>1. /\ status[j] = "pending" /\ status' = [status EXCEPT ![j] = st]
      /\ due' \subseteq due /\ queue' \subseteq queue
      /\ UNCHANGED <<vault, accepted, subject, stored, unsent, working, outcome, form>>
  BY Zenon, Statuses DEF CannotPrepare, Take, _finish_without_rotation
<1>2. \A k \in Job : status'[k] = IF k = j THEN st ELSE status[k]
  BY Zenon, <1>1, RotationColumns
<1>3. st \in Done
  BY Zenon DEF Done
<1>4. TypeOK'
  <2>1. status' \in [Job -> Status]
    BY Zenon, <1>1, <1>3, RotationColumns, Statuses
  <2> QED
    BY Zenon, <1>1, <2>1 DEF RotationInv, TypeOK
<1>5. JobsAreOwned'
  BY Zenon, <1>1, <1>2, RotationColumns DEF RotationInv, JobsAreOwned
<1>6. OneActiveJob'
  BY Zenon, <1>1, <1>2, <1>3, ActiveShrinks, Statuses
<1>7. ReturnedMeansChanged'
  BY Zenon, <1>1 DEF RotationInv, ReturnedMeansChanged
<1> QED
  BY Zenon, <1>4, <1>5, <1>6, <1>7 DEF RotationInv

\* A connector changes the secret of a credential that no other one is at.
LEMMA RotateKeeps ==
  ASSUME RotationInv, NEW w \in Worker, rotate(w)
  PROVE  RotationInv'
<1> DEFINE c == subject[working[w]]
<1>1. /\ working[w] # NoJob
      /\ UNCHANGED <<vault, due, status, subject, stored, unsent, queue, working, form>>
  BY Zenon DEF rotate
<1>2. working[w] \in Job /\ c \in Credential
  BY Zenon, <1>1, RotationColumns
<1>3. PICK o \in {"changed", "raised"} :
        /\ outcome' = [outcome EXCEPT ![w] = o]
        /\ \/ accepted' = [accepted EXCEPT ![c] = working[w]]
           \/ o = "raised" /\ accepted' = accepted
  BY Zenon DEF rotate
<1> HIDE DEF c
<1>4. /\ \A v \in Worker : outcome'[v] = IF v = w THEN o ELSE outcome[v]
      /\ \A d \in Credential : d # c => accepted'[d] = accepted[d]
      /\ o = "changed" => accepted'[c] = working[w]
  BY Zenon, <1>2, <1>3, RotationColumns
<1>5. TypeOK'
  <2>1. outcome' \in [Worker -> Outcome]
    BY Zenon, <1>3, RotationColumns DEF Outcome
  <2>2. accepted' \in [Credential -> Secret]
    BY Zenon, <1>2, <1>3, RotationColumns DEF Secret
  <2> QED
    BY Zenon, <1>1, <2>1, <2>2 DEF RotationInv, TypeOK
<1>6. JobsAreOwned'
  BY Zenon, <1>1 DEF RotationInv, JobsAreOwned
<1>7. OneActiveJob'
  BY Zenon, <1>1, ActiveShrinks
<1>8. ReturnedMeansChanged'
  <2>1. ASSUME NEW v \in Worker
        PROVE  /\ outcome'[v] # "none" => working[v] # NoJob
               /\ outcome'[v] = "changed" => accepted'[subject[working[v]]] = working[v]
    <3>1. CASE v = w
      BY Zenon, <1>1, <1>4, <3>1 DEF c
    <3>2. CASE v # w
      <4>1. outcome'[v] = outcome[v]
        BY Zenon, <1>4, <3>2
      <4>2. outcome[v] # "none" => working[v] # NoJob
        BY Zenon DEF RotationInv, ReturnedMeansChanged
      <4>3. ASSUME outcome[v] = "changed"
            PROVE  accepted'[subject[working[v]]] = working[v]
        <5>1. working[v] # NoJob /\ accepted[subject[working[v]]] = working[v]
          BY Zenon, <4>2, <4>3 DEF RotationInv, ReturnedMeansChanged
        <5>2. subject[working[v]] # c /\ subject[working[v]] \in Credential
          BY Zenon, <1>1, <3>2, <5>1, WorkersApart, RotationColumns DEF c
        <5> QED
          BY Zenon, <1>4, <5>1, <5>2
      <4> QED
        BY Zenon, <4>1, <4>2, <4>3
    <3> QED
      BY Zenon, <3>1, <3>2
  <2> QED
    BY Zenon, <1>1, <2>1 DEF ReturnedMeansChanged
<1> QED
  BY Zenon, <1>5, <1>6, <1>7, <1>8 DEF RotationInv

\* A worker that lays its job down leaves the others theirs.
LEMMA RestKeeps ==
  ASSUME RotationInv, NEW w \in Worker, working[w] # NoJob, Rest(w),
         UNCHANGED <<accepted, subject>>,
         \A k \in Job : k # working[w] => status'[k] = status[k] /\ (k \in stored => k \in stored'),
         status'[working[w]] \in Active => status[working[w]] \in Active
  PROVE  JobsAreOwned' /\ OneActiveJob' /\ ReturnedMeansChanged'
<1>1. /\ \A v \in Worker : working'[v] = IF v = w THEN NoJob ELSE working[v]
      /\ \A v \in Worker : outcome'[v] = IF v = w THEN "none" ELSE outcome[v]
  BY Zenon, RotationColumns DEF Rest
<1>2. JobsAreOwned'
  <2>1. ASSUME NEW v \in Worker, working'[v] # NoJob
        PROVE  /\ status'[working'[v]] = "running" /\ working'[v] \in stored'
               /\ \A u \in Worker : working'[u] = working'[v] => u = v
    <3>1. v # w /\ working'[v] = working[v] /\ working[v] # NoJob /\ working[v] \in Job
      BY Zenon, <1>1, <2>1, RotationColumns
    <3>2. /\ status[working[v]] = "running" /\ working[v] \in stored
          /\ \A u \in Worker : working[u] = working[v] => u = v
      BY Zenon, <3>1 DEF RotationInv, JobsAreOwned
    <3>3. working[v] # working[w]
      BY Zenon, <3>1, <3>2
    <3> QED
      BY Zenon, <1>1, <3>1, <3>2, <3>3
  <2> QED
    BY Zenon, <2>1 DEF JobsAreOwned
<1>3. OneActiveJob'
  <2>1. \A k \in Job : status'[k] \in Active => status[k] \in Active
    BY Zenon
  <2> QED
    BY Zenon, <2>1, ActiveShrinks
<1>4. ReturnedMeansChanged'
  BY Zenon, <1>1 DEF RotationInv, ReturnedMeansChanged
<1> QED
  BY Zenon, <1>2, <1>3, <1>4

\* And so the columns keep what they may hold.
LEMMA RestTypes ==
  ASSUME RotationInv, NEW w \in Worker, Rest(w)
  PROVE  working' \in [Worker -> Job \cup {NoJob}] /\ outcome' \in [Worker -> Outcome]
  BY Zenon, RotationColumns DEF Rest, Outcome

\* A failure ends the job of its worker.
LEMMA FailureKeeps ==
  ASSUME RotationInv, NEW w \in Worker, RecordFailure(w)
  PROVE  RotationInv'
<1>1. PICK j \in Job : j = working[w] /\ j # NoJob /\ status[j] = "running"
  <2>1. working[w] # NoJob
    BY Zenon DEF RecordFailure, RotationInv, ReturnedMeansChanged
  <2> QED
    BY Zenon, <2>1, RotationColumns DEF RotationInv, JobsAreOwned
<1>2. /\ status' = [status EXCEPT ![j] = "failed"] /\ due' \subseteq due /\ Rest(w)
      /\ UNCHANGED <<vault, accepted, subject, stored, unsent, queue, form>>
  BY Zenon, <1>1, Statuses DEF RecordFailure, _finish_without_rotation
<1>3. \A k \in Job : status'[k] = IF k = j THEN "failed" ELSE status[k]
  BY Zenon, <1>2, RotationColumns
<1>4. TypeOK'
  <2>1. status' \in [Job -> Status]
    BY Zenon, <1>2, RotationColumns DEF Status, Done
  <2> QED
    BY Zenon, <1>2, <2>1, RestTypes DEF RotationInv, TypeOK
<1>5. status[j] \in Active
  BY Zenon, <1>1, Statuses
<1> QED
  BY Zenon, <1>1, <1>2, <1>3, <1>4, <1>5, RestKeeps DEF RotationInv

\* A promotion ends the job of its worker and empties its candidate.
LEMMA PromoteKeeps ==
  ASSUME RotationInv, NEW w \in Worker, Promote(w)
  PROVE  RotationInv'
<1>1. PICK j \in Job : j = working[w] /\ j # NoJob /\ status[j] = "running"
  <2>1. working[w] # NoJob
    BY Zenon DEF Promote, RotationInv, ReturnedMeansChanged
  <2> QED
    BY Zenon, <2>1, RotationColumns DEF RotationInv, JobsAreOwned
<1>2. /\ vault' = [vault EXCEPT ![subject[j]] = j] /\ stored' = stored \ {j}
      /\ status' = [status EXCEPT ![j] = "succeeded"]
      /\ due' \in {due \ {subject[j]}, due \cup {subject[j]}} /\ Rest(w)
      /\ UNCHANGED <<accepted, subject, unsent, queue, form>>
  BY Zenon, <1>1 DEF Promote
<1>3. \A k \in Job : status'[k] = IF k = j THEN "succeeded" ELSE status[k]
  BY Zenon, <1>2, RotationColumns
<1>4. TypeOK'
  <2>1. status' \in [Job -> Status]
    BY Zenon, <1>2, RotationColumns DEF Status, Done
  <2>2. vault' \in [Credential -> Secret] /\ subject[j] \in Credential
    BY Zenon, <1>2, RotationColumns DEF Secret
  <2>3. due' \in SUBSET Credential
    BY Zenon, <1>2, <2>2 DEF RotationInv, TypeOK
  <2> QED
    BY Zenon, <1>2, <2>1, <2>2, <2>3, RestTypes DEF RotationInv, TypeOK
<1>5. status[j] \in Active
  BY Zenon, <1>1, Statuses
<1>6. \A k \in Job : k # j => status'[k] = status[k] /\ (k \in stored => k \in stored')
  BY Zenon, <1>2, <1>3
<1> QED
  BY Zenon, <1>1, <1>2, <1>4, <1>5, <1>6, RestKeeps DEF RotationInv

\* The invariant without the secrets is inductive.
LEMMA NextRotation == RotationInv /\ [Next]_vars => RotationInv'
<1> SUFFICES ASSUME RotationInv, [Next]_vars PROVE RotationInv'
  BY Zenon
<1>1. ASSUME NEW j \in Job, delay(j) PROVE RotationInv'
  <2>1. queue' \subseteq Job
    BY Zenon, <1>1 DEF delay, RotationInv, TypeOK
  <2>2. TypeOK'
    BY Zenon, <1>1, <2>1 DEF delay, RotationInv, TypeOK
  <2> QED
    BY Zenon, <1>1, <2>2, JobsAlone DEF delay, RotationInv
<1>2. ASSUME NEW w \in Worker, NEW j \in Job, Skip(w, j) \/ Abort(w, j) PROVE RotationInv'
  <2>1. /\ queue' \subseteq queue
        /\ UNCHANGED <<vault, accepted, due, status, subject, stored, unsent, working, outcome, form>>
    BY Zenon, <1>2 DEF Skip, Abort, Take
  <2>2. TypeOK'
    BY Zenon, <2>1 DEF RotationInv, TypeOK
  <2> QED
    BY Zenon, <2>1, <2>2, JobsAlone DEF RotationInv
<1>3. ASSUME NEW e \in Editor, NEW c \in Credential, LoadForm(e, c) PROVE RotationInv'
  <2>1. [credential |-> c, secret |-> vault[c]] \in Form
    BY Zenon, RotationColumns DEF Form
  <2>2. form' \in [Editor -> Form \cup {NoForm}]
    BY Zenon, <1>3, <2>1 DEF LoadForm, RotationInv, TypeOK
  <2>3. TypeOK'
    BY Zenon, <1>3, <2>2 DEF LoadForm, RotationInv, TypeOK
  <2> QED
    BY Zenon, <1>3, <2>3, JobsAlone DEF LoadForm, RotationInv
<1>4. ASSUME NEW e \in Editor, SaveForm(e) PROVE RotationInv'
  <2>1. form[e] \in Form
    BY Zenon, <1>4 DEF SaveForm, RotationInv, TypeOK
  <2>2. PICK c \in Credential, secret \in Secret :
          /\ vault' = [vault EXCEPT ![c] = secret] /\ due' \in {due \ {c}, due \cup {c}}
    <3>1. /\ form[e].credential \in Credential /\ form[e].secret \in Secret
          /\ accepted[form[e].credential] \in Secret
      BY Zenon, <2>1, RotationColumns DEF Form
    <3> QED
      BY Zenon, <1>4, <3>1 DEF SaveForm
  <2>3. vault' \in [Credential -> Secret] /\ due' \in SUBSET Credential
    BY Zenon, <2>2 DEF RotationInv, TypeOK
  <2>4. form' \in [Editor -> Form \cup {NoForm}]
    BY Zenon, <1>4 DEF SaveForm, RotationInv, TypeOK
  <2>5. TypeOK'
    BY Zenon, <1>4, <2>3, <2>4 DEF SaveForm, RotationInv, TypeOK
  <2> QED
    BY Zenon, <1>4, <2>5, JobsAlone DEF SaveForm, RotationInv
<1>5. ASSUME NEW c \in Credential, BecomeDue(c) PROVE RotationInv'
  <2>1. TypeOK'
    BY Zenon, <1>5 DEF BecomeDue, RotationInv, TypeOK
  <2> QED
    BY Zenon, <1>5, <2>1, JobsAlone DEF BecomeDue, RotationInv
<1>6. ASSUME NEW w \in Worker, Crash(w) PROVE RotationInv'
  <2>1. TypeOK'
    BY Zenon, <1>6, RestTypes DEF Crash, RotationInv, TypeOK
  <2> QED
    BY Zenon, <1>6, <2>1, RestKeeps DEF Crash, RotationInv
<1>7. CASE UNCHANGED vars
  <2>1. TypeOK'
    BY Zenon, <1>7 DEF vars, RotationInv, TypeOK
  <2> QED
    BY Zenon, <1>7, <2>1, JobsAlone DEF vars, RotationInv
<1>8. ASSUME NEW w \in Worker, execute_rotation(w) PROVE RotationInv'
  BY Zenon, <1>2, <1>8, PrepareKeeps, CannotPrepareKeeps, RotateKeeps, FailureKeeps, PromoteKeeps
     DEF execute_rotation
<1> QED
  BY Zenon, <1>1, <1>2, <1>3, <1>4, <1>5, <1>6, <1>7, <1>8, QueueKeeps
     DEF Next, rotate_credential, schedule_due_rotations

\* The invariant holds of every reachable state.
THEOREM RotationInvariance == Spec => []RotationInv
BY InitRotation, NextRotation, PTL DEF Spec

\* No two workers ever rotate one credential at the same time, for any number of
\* workers, jobs, crashes and repeated deliveries (execute_rotation).
THEOREM RotationsExclude == Spec => []OneRotationAtATime
<1>1. RotationInv => OneRotationAtATime
  BY Zenon, WorkersApart DEF OneRotationAtATime
<1> QED
  BY <1>1, RotationInvariance, PTL

\* A job that has ended is never touched again (the status checks of
\* execute_rotation and _finish_without_rotation).
THEOREM EndIsFinal == Spec => EndedJobsStay
<1>1. RotationInv /\ [Next]_vars => [\A j \in Job : status[j] \in Done => status'[j] = status[j]]_vars
  <2> SUFFICES ASSUME RotationInv, Next PROVE \A j \in Job : status[j] \in Done => status'[j] = status[j]
    OBVIOUS
  <2> USE DEF RotationInv, TypeOK, JobsAreOwned, ReturnedMeansChanged, Active, Done
  <2>1. ASSUME NEW j \in Job, queue_rotation(j)
        PROVE  \A k \in Job : status[k] \in Done => status'[k] = status[k]
    BY Zenon, <2>1 DEF queue_rotation
  <2>2. ASSUME NEW w \in Worker, NEW j \in Job,
               Prepare(w, j) \/ \E st \in {"failed", "action_required"} : CannotPrepare(w, j, st)
        PROVE  \A k \in Job : status[k] \in Done => status'[k] = status[k]
    BY Zenon, <2>2 DEF Prepare, CannotPrepare, _finish_without_rotation
  <2>3. ASSUME NEW w \in Worker, RecordFailure(w) \/ Promote(w)
        PROVE  \A k \in Job : status[k] \in Done => status'[k] = status[k]
    BY Zenon, <2>3 DEF RecordFailure, Promote, _finish_without_rotation
  <2> QED
    BY Zenon, <2>1, <2>2, <2>3
       DEF Next, execute_rotation, rotate_credential, schedule_due_rotations, delay, Skip,
           Abort, Crash, rotate, LoadForm, SaveForm, BecomeDue
<1> QED
  BY <1>1, RotationInvariance, PTL DEF Spec, EndedJobsStay

-----------------------------------------------------------------------------
\* Without edits of the credential in between, a step keeps what a target
\* accepts in the database.
LEMMA NextRecoverable ==
  ASSUME Editor = {}, RotationInv, SecretRecoverable, [Next]_vars
  PROVE  SecretRecoverable'
<1>1. ASSUME NEW w \in Worker, rotate(w) PROVE SecretRecoverable'
  <2> DEFINE c == subject[working[w]]
  <2>1. /\ vault' = vault /\ stored' = stored /\ subject' = subject
        /\ accepted' = accepted \/ accepted' = [accepted EXCEPT ![c] = working[w]]
        /\ working[w] # NoJob
    BY Zenon, <1>1 DEF rotate
  <2>2. working[w] \in stored /\ c \in Credential
    BY Zenon, <2>1, RotationColumns DEF RotationInv, JobsAreOwned
  <2>4. \/ accepted' = accepted
        \/ accepted'[c] = working[w] /\ \A d \in Credential : d # c => accepted'[d] = accepted[d]
    BY Zenon, <2>1, <2>2, RotationColumns
  <2>5. CASE accepted' = accepted
    BY Zenon, <2>1, <2>5 DEF SecretRecoverable
  <2>6. CASE accepted'[c] = working[w] /\ \A d \in Credential : d # c => accepted'[d] = accepted[d]
    <3>1. ASSUME NEW d \in Credential
          PROVE  accepted'[d] = vault[d] \/ \E j \in stored : subject[j] = d /\ accepted'[d] = j
      <4>1. CASE d = c
        BY Zenon, <2>2, <2>6, <4>1
      <4>2. CASE d # c
        <5>1. accepted'[d] = accepted[d]
          BY Zenon, <2>6, <4>2
        <5> QED
          BY Zenon, <5>1 DEF SecretRecoverable
      <4> QED
        BY Zenon, <4>1, <4>2
    <3> QED
      BY Zenon, <2>1, <3>1 DEF SecretRecoverable
  <2> QED
    BY Zenon, <2>4, <2>5, <2>6
<1>2. ASSUME NEW w \in Worker, Promote(w) PROVE SecretRecoverable'
  <2>1. PICK j \in Job : /\ j = working[w] /\ j # NoJob /\ status[j] = "running"
                        /\ accepted[subject[j]] = j
    <3>1. working[w] # NoJob /\ accepted[subject[working[w]]] = working[w]
      BY Zenon, <1>2 DEF Promote, RotationInv, ReturnedMeansChanged
    <3> QED
      BY Zenon, <3>1, RotationColumns DEF RotationInv, JobsAreOwned
  <2>2. /\ vault' = [vault EXCEPT ![subject[j]] = j] /\ stored' = stored \ {j}
        /\ UNCHANGED <<accepted, subject>>
    BY Zenon, <1>2, <2>1 DEF Promote
  <2>3. \A d \in Credential : vault'[d] = IF d = subject[j] THEN j ELSE vault[d]
    BY Zenon, <2>2, RotationColumns
  <2>4. ASSUME NEW d \in Credential, d # subject[j]
        PROVE  accepted[d] = vault[d] \/ \E k \in stored \ {j} : subject[k] = d /\ accepted[d] = k
    BY Zenon, <2>4 DEF SecretRecoverable
  <2>5. ASSUME NEW d \in Credential
        PROVE  accepted[d] = vault'[d] \/ \E k \in stored' : subject[k] = d /\ accepted[d] = k
    <3>1. CASE d = subject[j]
      BY Zenon, <2>1, <2>3, <3>1
    <3>2. CASE d # subject[j]
      BY Zenon, <2>2, <2>3, <2>4, <3>2
    <3> QED
      BY Zenon, <3>1, <3>2
  <2> QED
    BY Zenon, <2>2, <2>5 DEF SecretRecoverable
<1>3. ASSUME UNCHANGED <<vault, accepted, subject>>, stored \subseteq stored'
      PROVE  SecretRecoverable'
  BY Zenon, <1>3 DEF SecretRecoverable
<1>4. CASE UNCHANGED vars
  BY Zenon, <1>3, <1>4 DEF vars
<1> QED
  BY Zenon, <1>1, <1>2, <1>3, <1>4
     DEF Next, execute_rotation, rotate_credential, schedule_due_rotations, queue_rotation,
         delay, Skip, Prepare, CannotPrepare, RecordFailure, Abort, Crash, BecomeDue

\* Whatever crashes, raises or is delivered twice, the secret a target accepts
\* is never lost, as long as no credential form is saved meanwhile (the
\* candidate stored before backend.rotate in execute_rotation).
THEOREM SecretsAreRecoverable ==
  ASSUME Editor = {}
  PROVE  Spec => []SecretRecoverable
<1>1. RotationInv /\ SecretRecoverable /\ [Next]_vars => SecretRecoverable'
  BY NextRecoverable
<1> QED
  BY <1>1, InitRotation, RotationInvariance, PTL DEF Spec

\* A secret enters the vault only once its target accepts it, as long as no
\* credential form is saved meanwhile (the promotion of execute_rotation).
THEOREM PromotionFollowsSuccess ==
  ASSUME Editor = {}
  PROVE  Spec => PromotedOnlyAfterSuccess
<1>1. RotationInv /\ [Next]_vars =>
        [\A c \in Credential : vault'[c] # vault[c] => vault'[c] = accepted[c]]_vars
  <2> SUFFICES ASSUME RotationInv, Next
               PROVE  \A c \in Credential : vault'[c] # vault[c] => vault'[c] = accepted[c]
    OBVIOUS
  <2>1. ASSUME NEW w \in Worker, Promote(w)
        PROVE  \A c \in Credential : vault'[c] # vault[c] => vault'[c] = accepted[c]
    BY Zenon, <2>1 DEF Promote, RotationInv, TypeOK, ReturnedMeansChanged
  <2> QED
    BY Zenon, <2>1
       DEF Next, execute_rotation, rotate_credential, schedule_due_rotations, queue_rotation,
           delay, Skip, Prepare, CannotPrepare, rotate, RecordFailure, Abort, Crash, BecomeDue
<1> QED
  BY <1>1, RotationInvariance, PTL DEF Spec, PromotedOnlyAfterSuccess
=============================================================================
