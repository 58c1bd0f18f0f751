-------------------------- MODULE FifoSemaphoreProofs --------------------------
(* What each operation of the semaphore does to its permits and its waiters. *)
EXTENDS FifoSemaphore, FiniteSetTheorems, SequenceTheorems, TLAPS

Queued  == {queue[i] : i \in DOMAIN queue}
Waiters == Queued \cup woken

\* The permits that no call inside has: free, or on their way.
Free == value + Cardinality(woken)

SemInv ==
  /\ SemTypeOK /\ NoLostWakeup
  /\ \A i, j \in DOMAIN queue : queue[i] = queue[j] => i = j
  /\ Queued \cap woken = {}

\* A set of woken waiters can be counted.
LEMMA WokenCounts ==
  ASSUME NEW S \in SUBSET Calls
  PROVE  /\ IsFiniteSet(S) /\ Cardinality(S) \in Nat
         /\ \A c : c \in S => Cardinality(S \ {c}) = Cardinality(S) - 1
         /\ \A c : c \notin S => Cardinality(S \cup {c}) = Cardinality(S) + 1
<1>1. IsFiniteSet(S)
  BY SemaphoreAssumption, FS_Subset
<1> QED
  BY <1>1, FS_CardinalityType, FS_RemoveElement, FS_AddElement

\* Popping the oldest waiter: it leaves the queue, the others stay, once each.
LEMMA PopQueue ==
  ASSUME SemInv, queue # <<>>, queue' = Tail(queue)
  PROVE  /\ queue' \in Seq(Calls) /\ Head(queue) \in Calls
         /\ Head(queue) \in Queued
         /\ Queued' = Queued \ {Head(queue)}
         /\ \A i, j \in DOMAIN queue' : queue'[i] = queue'[j] => i = j
<1> USE DEF SemInv, SemTypeOK, Queued
<1>1. /\ Len(queue) \in Nat /\ Len(queue) > 0 /\ DOMAIN queue = 1..Len(queue)
      /\ Head(queue) = queue[1] /\ Head(queue) \in Calls
  OBVIOUS
<1>2. /\ queue' \in Seq(Calls) /\ Len(queue') = Len(queue) - 1 /\ DOMAIN queue' = 1..Len(queue')
      /\ \A i \in 1..Len(queue') : queue'[i] = queue[i + 1]
  BY <1>1
<1>3. \A i, j \in DOMAIN queue' : queue'[i] = queue'[j] => i = j
  BY <1>1, <1>2
<1>4. ASSUME NEW i \in DOMAIN queue' PROVE queue'[i] \in Queued \ {Head(queue)}
  BY <1>1, <1>2, <1>4
<1>5. ASSUME NEW c \in Queued \ {Head(queue)} PROVE \E i \in DOMAIN queue' : queue'[i] = c
  <2>1. PICK k \in 1..Len(queue) : queue[k] = c
    BY <1>1, <1>5
  <2>2. k - 1 \in 1..Len(queue') /\ queue'[k - 1] = c
    BY <1>1, <1>2, <1>5, <2>1
  <2> QED BY <1>2, <2>2
<1> QED BY <1>1, <1>2, <1>3, <1>4, <1>5

\* acquire() without suspending takes one free permit.
LEMMA TakeKeeps ==
  ASSUME SemInv, Take
  PROVE  SemInv' /\ Free' = Free - 1 /\ Waiters' = Waiters /\ Free \in Nat \ {0}
<1>1. value \in Nat /\ value > 0 /\ queue = <<>> /\ woken = {}
  BY DEF SemInv, SemTypeOK, Take, Locked
<1> QED
  BY <1>1, SemaphoreAssumption, FS_EmptySet
  DEF SemInv, SemTypeOK, NoLostWakeup, Take, Free, Waiters, Queued

\* A call that suspends in acquire() joins the waiters and takes nothing.
LEMMA EnqueueKeeps ==
  ASSUME SemInv, NEW c \in Calls, c \notin Waiters, Enqueue(c)
  PROVE  SemInv' /\ Free' = Free /\ Waiters' = Waiters \cup {c}
<1> USE DEF SemInv, SemTypeOK
<1>1. /\ Len(queue) \in Nat /\ DOMAIN queue = 1..Len(queue) /\ queue' = Append(queue, c)
      /\ UNCHANGED <<value, woken>>
  BY DEF Enqueue
<1>2. /\ queue' \in Seq(Calls) /\ Len(queue') = Len(queue) + 1 /\ DOMAIN queue' = 1..Len(queue')
      /\ \A i \in 1..Len(queue) : queue'[i] = queue[i]
      /\ queue'[Len(queue) + 1] = c
  BY <1>1
<1>3. \A i \in 1..Len(queue) : queue[i] # c
  BY <1>1 DEF Waiters, Queued
<1>4. \A i, j \in DOMAIN queue' : queue'[i] = queue'[j] => i = j
  <2> SUFFICES ASSUME NEW i \in 1..(Len(queue) + 1), NEW j \in 1..(Len(queue) + 1), queue'[i] = queue'[j]
               PROVE  i = j
    BY <1>2
  <2>1. CASE i \in 1..Len(queue) /\ j \in 1..Len(queue)
    BY <1>1, <1>2, <2>1
  <2>2. CASE i = Len(queue) + 1 \/ j = Len(queue) + 1
    BY <1>1, <1>2, <1>3, <2>2
  <2> QED BY <1>1, <2>1, <2>2
<1>5. Queued' = Queued \cup {c}
  <2>1. \A x : (\E i \in 1..(Len(queue) + 1) : queue'[i] = x) <=> ((\E i \in 1..Len(queue) : queue[i] = x) \/ x = c)
    BY <1>1, <1>2
  <2>2. \A x : x \in Queued' <=> (\E i \in 1..(Len(queue) + 1) : queue'[i] = x)
    BY <1>2 DEF Queued
  <2>3. \A x : x \in Queued <=> (\E i \in 1..Len(queue) : queue[i] = x)
    BY <1>1 DEF Queued
  <2> QED BY <2>1, <2>2, <2>3
<1>6. NoLostWakeup'
  BY <1>1 DEF NoLostWakeup, Enqueue, Locked
<1> QED
  BY <1>1, <1>2, <1>4, <1>5, <1>6 DEF Free, Waiters

\* Passing a permit on: one more is free or on its way, and nobody is lost.
LEMMA HandOnKeeps ==
  ASSUME SemInv, NEW awake \in SUBSET woken, HandOn(awake),
         value + Cardinality(awake) < Max
  PROVE  /\ SemInv'
         /\ Free' = value + Cardinality(awake) + 1
         /\ Waiters' = Queued \cup awake
<1>1. /\ awake \in SUBSET Calls /\ Cardinality(awake) \in Nat /\ value \in Nat /\ Max \in Nat
      /\ Queued \cap awake = {}
  BY WokenCounts, SemaphoreAssumption DEF SemInv, SemTypeOK
<1>2. CASE queue = <<>>
  <2>1. value' = value + 1 /\ woken' = awake /\ queue' = queue
    BY <1>2 DEF HandOn
  <2> QED
    BY <1>1, <1>2, <2>1 DEF SemInv, SemTypeOK, NoLostWakeup, Free, Waiters, Queued
<1>3. CASE queue # <<>>
  <2>1. value' = value /\ woken' = awake \cup {Head(queue)} /\ queue' = Tail(queue)
    BY <1>3 DEF HandOn
  <2>2. /\ queue' \in Seq(Calls) /\ Head(queue) \in Calls /\ Head(queue) \in Queued
        /\ Queued' = Queued \ {Head(queue)}
        /\ \A i, j \in DOMAIN queue' : queue'[i] = queue'[j] => i = j
    BY <1>3, <2>1, PopQueue
  <2>3. Cardinality(woken') = Cardinality(awake) + 1
    BY <1>1, <2>1, <2>2, WokenCounts
  <2>4. value' \in 0..Max /\ woken' \in SUBSET Calls /\ Queued' \cap woken' = {} /\ woken' # {}
    BY <1>1, <2>1, <2>2 DEF SemInv, SemTypeOK
  <2> QED
    BY <1>1, <2>1, <2>2, <2>3, <2>4 DEF SemInv, SemTypeOK, NoLostWakeup, Free, Waiters
<1> QED BY <1>2, <1>3

\* A waiter that resumes takes its permit in; what it wakes stays waiting.
LEMMA ResumeKeeps ==
  ASSUME SemInv, NEW c \in Calls, Resume(c)
  PROVE  SemInv' /\ Free' = Free - 1 /\ Waiters' = Waiters \ {c} /\ Free \in Nat \ {0}
<1>1. /\ c \in woken /\ value \in Nat /\ woken \in SUBSET Calls /\ woken \ {c} \in SUBSET Calls
      /\ Cardinality(woken) \in Nat /\ Cardinality(woken \ {c}) = Cardinality(woken) - 1
      /\ Cardinality(woken \ {c}) \in Nat /\ c \notin Queued
  BY WokenCounts DEF SemInv, SemTypeOK, Resume
<1>2. CASE value > 0 /\ queue # <<>>
  <2>1. value' = value - 1 /\ woken' = (woken \ {c}) \cup {Head(queue)} /\ queue' = Tail(queue)
    BY <1>2 DEF Resume
  <2>2. /\ queue' \in Seq(Calls) /\ Head(queue) \in Calls /\ Head(queue) \in Queued
        /\ Queued' = Queued \ {Head(queue)}
        /\ \A i, j \in DOMAIN queue' : queue'[i] = queue'[j] => i = j
    BY <1>2, <2>1, PopQueue
  <2>3. Head(queue) \notin woken
    BY <2>2 DEF SemInv
  <2>4. Cardinality(woken') = Cardinality(woken)
    <3>1. Head(queue) \notin woken \ {c}
      BY <2>3
    <3>2. Cardinality((woken \ {c}) \cup {Head(queue)}) = Cardinality(woken \ {c}) + 1
      BY <1>1, <3>1, WokenCounts
    <3> QED BY <1>1, <2>1, <3>2
  <2>5. value' \in 0..Max /\ woken' \in SUBSET Calls /\ woken' # {}
    BY <1>1, <1>2, <2>1, <2>2, SemaphoreAssumption DEF SemInv, SemTypeOK
  <2>6. Queued' \cap woken' = {}
    BY <2>1, <2>2 DEF SemInv
  <2> QED
    BY <1>1, <2>1, <2>2, <2>3, <2>4, <2>5, <2>6 DEF SemInv, SemTypeOK, NoLostWakeup, Free, Waiters
<1>3. CASE ~(value > 0 /\ queue # <<>>)
  <2>1. woken' = woken \ {c} /\ value' = value /\ queue' = queue
    BY <1>3 DEF Resume
  <2> QED
    BY <1>1, <1>3, <2>1 DEF SemInv, SemTypeOK, NoLostWakeup, Free, Waiters, Queued
<1> QED BY <1>2, <1>3

\* A sequence without its k-th element.
LEMMA WithoutOne ==
  ASSUME NEW S, NEW q \in Seq(S), NEW k \in 1..Len(q)
  PROVE  LET r == SubSeq(q, 1, k - 1) \o SubSeq(q, k + 1, Len(q))
         IN  /\ r \in Seq(S) /\ Len(r) = Len(q) - 1
             /\ \A i \in 1..(Len(q) - 1) : r[i] = IF i < k THEN q[i] ELSE q[i + 1]
<1> DEFINE P == SubSeq(q, 1, k - 1)
           R == SubSeq(q, k + 1, Len(q))
<1>1. Len(q) \in Nat /\ \A i \in 1..Len(q) : q[i] \in S
  OBVIOUS
<1>2. P \in Seq(S) /\ Len(P) = k - 1 /\ \A i \in 1..(k - 1) : P[i] = q[i]
  <2>1. \A i \in 1..(k - 1) : q[i] \in S
    BY <1>1
  <2> QED BY <1>1, <2>1, SubSeqProperties
<1>3. R \in Seq(S) /\ Len(R) = Len(q) - k /\ \A i \in 1..(Len(q) - k) : R[i] = q[k + i]
  <2>1. /\ \A i \in (k + 1)..Len(q) : q[i] \in S
        /\ k + 1 \in Int /\ Len(q) \in Int
    BY <1>1
  <2>2. /\ R \in Seq(S) /\ Len(R) = IF k + 1 <= Len(q) THEN Len(q) - (k + 1) + 1 ELSE 0
        /\ \A i \in 1..(Len(q) - (k + 1) + 1) : R[i] = q[(k + 1) + i - 1]
    BY <2>1, SubSeqProperties
  <2> QED BY <1>1, <2>2
<1> HIDE DEF P, R
<1>4. /\ P \o R \in Seq(S) /\ Len(P \o R) = Len(P) + Len(R)
      /\ \A i \in 1..(Len(P) + Len(R)) : (P \o R)[i] = IF i <= Len(P) THEN P[i] ELSE R[i - Len(P)]
  <2>1. P \in Seq(S) /\ R \in Seq(S)
    BY <1>2, <1>3
  <2> QED BY <2>1, ConcatProperties, Zenon
<1>5. Len(P) + Len(R) = Len(q) - 1
  <2>1. Len(P) = k - 1 /\ Len(R) = Len(q) - k
    BY <1>2, <1>3
  <2> QED BY <1>1, <2>1
<1>6. ASSUME NEW i \in 1..(Len(q) - 1) PROVE (P \o R)[i] = IF i < k THEN q[i] ELSE q[i + 1]
  <2>1. (P \o R)[i] = IF i <= k - 1 THEN P[i] ELSE R[i - (k - 1)]
    BY <1>2, <1>4, <1>5
  <2>2. CASE i < k
    <3>1. i <= k - 1 /\ i \in 1..(k - 1)
      BY <1>1, <2>2
    <3>2. P[i] = q[i]
      BY <1>2, <3>1
    <3> QED BY <2>1, <2>2, <3>1, <3>2
  <2>3. CASE ~(i < k)
    <3>1. i - (k - 1) \in 1..(Len(q) - k) /\ k + (i - (k - 1)) = i + 1 /\ ~(i <= k - 1)
      BY <1>1, <2>3
    <3>2. R[i - (k - 1)] = q[k + (i - (k - 1))]
      BY <1>3, <3>1
    <3> QED BY <2>1, <2>3, <3>1, <3>2
  <2> QED BY <2>2, <2>3
<1> QED BY <1>4, <1>5, <1>6 DEF P, R

\* Taking one waiter out of the middle of the queue.
LEMMA DropFromQueue ==
  ASSUME SemInv, NEW k \in DOMAIN queue,
         queue' = SubSeq(queue, 1, k - 1) \o SubSeq(queue, k + 1, Len(queue))
  PROVE  /\ queue' \in Seq(Calls)
         /\ Queued' = Queued \ {queue[k]}
         /\ \A i, j \in DOMAIN queue' : queue'[i] = queue'[j] => i = j
<1>1. /\ queue \in Seq(Calls) /\ Len(queue) \in Nat /\ DOMAIN queue = 1..Len(queue) /\ k \in 1..Len(queue)
      /\ \A i, j \in 1..Len(queue) : queue[i] = queue[j] => i = j
  BY DEF SemInv, SemTypeOK
<1>2. /\ queue' \in Seq(Calls) /\ Len(queue') = Len(queue) - 1
      /\ \A i \in 1..(Len(queue) - 1) : queue'[i] = IF i < k THEN queue[i] ELSE queue[i + 1]
  BY <1>1, WithoutOne, Zenon
<1>3. DOMAIN queue' = 1..(Len(queue) - 1)
  BY <1>2
<1>4. \A i, j \in 1..(Len(queue) - 1) : queue'[i] = queue'[j] => i = j
  <2> SUFFICES ASSUME NEW i \in 1..(Len(queue) - 1), NEW j \in 1..(Len(queue) - 1), queue'[i] = queue'[j]
               PROVE  i = j
    OBVIOUS
  <2> DEFINE I == IF i < k THEN i ELSE i + 1
             J == IF j < k THEN j ELSE j + 1
  <2>1. /\ I \in 1..Len(queue) /\ J \in 1..Len(queue)
        /\ queue'[i] = queue[I] /\ queue'[j] = queue[J]
    <3>1. I \in 1..Len(queue) /\ J \in 1..Len(queue)
      BY <1>1
    <3>2. queue'[i] = IF i < k THEN queue[i] ELSE queue[i + 1]
      BY <1>2
    <3>3. queue'[j] = IF j < k THEN queue[j] ELSE queue[j + 1]
      BY <1>2
    <3> QED BY <3>1, <3>2, <3>3
  <2>2. I = J
    BY <1>1, <2>1
  <2> QED BY <1>1, <2>2
<1>5. \A i \in 1..(Len(queue) - 1) : \E m \in 1..Len(queue) : m # k /\ queue'[i] = queue[m]
  <2> SUFFICES ASSUME NEW i \in 1..(Len(queue) - 1)
               PROVE  \E m \in 1..Len(queue) : m # k /\ queue'[i] = queue[m]
    OBVIOUS
  <2> DEFINE I == IF i < k THEN i ELSE i + 1
  <2>1. I \in 1..Len(queue) /\ I # k /\ queue'[i] = queue[I]
    <3>1. I \in 1..Len(queue) /\ I # k
      BY <1>1
    <3>2. queue'[i] = IF i < k THEN queue[i] ELSE queue[i + 1]
      BY <1>2
    <3> QED BY <3>1, <3>2
  <2> QED BY <2>1
<1>6. \A m \in 1..Len(queue) : m # k => \E i \in 1..(Len(queue) - 1) : queue'[i] = queue[m]
  <2> SUFFICES ASSUME NEW m \in 1..Len(queue), m # k
               PROVE  \E i \in 1..(Len(queue) - 1) : queue'[i] = queue[m]
    OBVIOUS
  <2> DEFINE M == IF m < k THEN m ELSE m - 1
  <2>1. M \in 1..(Len(queue) - 1) /\ (IF M < k THEN M ELSE M + 1) = m
    BY <1>1
  <2>2. queue'[M] = queue[m]
    BY <1>2, <2>1
  <2> QED BY <2>1, <2>2
<1>7. Queued' = Queued \ {queue[k]}
  <2>1. \A x : x \in Queued' <=> \E i \in 1..(Len(queue) - 1) : queue'[i] = x
    BY <1>3 DEF Queued
  <2>2. \A x : x \in Queued <=> \E m \in 1..Len(queue) : queue[m] = x
    BY <1>1 DEF Queued
  <2>3. \A m \in 1..Len(queue) : queue[m] = queue[k] => m = k
    BY <1>1
  <2>4. ASSUME NEW x PROVE x \in Queued' <=> x \in Queued /\ x # queue[k]
    <3>1. ASSUME x \in Queued' PROVE x \in Queued /\ x # queue[k]
      <4>1. PICK i \in 1..(Len(queue) - 1) : queue'[i] = x
        BY <2>1, <3>1
      <4>2. PICK m \in 1..Len(queue) : m # k /\ queue'[i] = queue[m]
        BY <1>5
      <4> QED BY <2>2, <2>3, <4>1, <4>2
    <3>2. ASSUME x \in Queued, x # queue[k] PROVE x \in Queued'
      <4>1. PICK m \in 1..Len(queue) : queue[m] = x
        BY <2>2, <3>2
      <4> QED BY <1>6, <2>1, <3>2, <4>1
    <3> QED BY <3>1, <3>2
  <2> QED BY <2>4
<1> QED BY <1>2, <1>3, <1>4, <1>7

\* A cancelled waiter leaves, and a permit it was handed goes to the next one.
LEMMA WithdrawKeeps ==
  ASSUME SemInv, NEW c \in Calls, Withdraw(c), Free <= Max
  PROVE  SemInv' /\ Free' = Free /\ Waiters' = Waiters \ {c}
<1>1. CASE c \in woken /\ HandOn(woken \ {c})
  <2>1. /\ value \in Nat /\ Max \in Nat /\ Cardinality(woken) \in Nat
        /\ Cardinality(woken \ {c}) = Cardinality(woken) - 1
        /\ c \notin Queued
    BY <1>1, WokenCounts, SemaphoreAssumption DEF SemInv, SemTypeOK
  <2>2. /\ SemInv' /\ Free' = value + Cardinality(woken \ {c}) + 1
        /\ Waiters' = Queued \cup (woken \ {c})
    BY <1>1, <2>1, HandOnKeeps DEF Free
  <2> QED BY <2>1, <2>2 DEF Free, Waiters
<1>2. CASE \E k \in DOMAIN queue :
             /\ queue[k] = c
             /\ queue' = SubSeq(queue, 1, k - 1) \o SubSeq(queue, k + 1, Len(queue))
             /\ UNCHANGED <<value, woken>>
  <2>1. PICK k \in DOMAIN queue :
          /\ queue[k] = c
          /\ queue' = SubSeq(queue, 1, k - 1) \o SubSeq(queue, k + 1, Len(queue))
          /\ UNCHANGED <<value, woken>>
    BY <1>2
  <2>2. /\ queue' \in Seq(Calls) /\ Queued' = Queued \ {c}
        /\ \A i, j \in DOMAIN queue' : queue'[i] = queue'[j] => i = j
    BY <2>1, DropFromQueue
  <2>3. c \in Queued /\ queue # <<>>
    BY <2>1 DEF Queued
  <2>4. c \notin woken
    BY <2>3 DEF SemInv
  <2> QED
    BY <2>1, <2>2, <2>3, <2>4 DEF SemInv, SemTypeOK, NoLostWakeup, Free, Waiters
<1> QED BY <1>1, <1>2 DEF Withdraw

-----------------------------------------------------------------------------
(* The order of the waiters *)

\* When nobody leaves the queue nobody changes place.
LEMMA QueueStands ==
  ASSUME SemInv, queue' = queue
  PROVE  \A i \in DOMAIN queue, j \in DOMAIN queue' : queue'[j] = queue[i] => j <= i
<1>1. /\ DOMAIN queue = 1..Len(queue) /\ Len(queue) \in Nat
      /\ \A i, j \in DOMAIN queue : queue[j] = queue[i] => j = i
  BY DEF SemInv, SemTypeOK
<1> QED BY <1>1

\* When the oldest waiter leaves the others move up by one.
LEMMA QueueMovesUp ==
  ASSUME SemInv, queue # <<>>, queue' = Tail(queue)
  PROVE  \A i \in DOMAIN queue, j \in DOMAIN queue' : queue'[j] = queue[i] => j <= i
<1>1. /\ queue \in Seq(Calls) /\ Len(queue) \in Nat /\ DOMAIN queue = 1..Len(queue)
      /\ \A i, j \in DOMAIN queue : queue[j] = queue[i] => j = i
  BY DEF SemInv, SemTypeOK
<1>2. DOMAIN queue' = 1..(Len(queue) - 1) /\ \A j \in DOMAIN queue' : queue'[j] = queue[j + 1]
  BY <1>1
<1> QED BY <1>1, <1>2

\* When a waiter gives up those behind it move up by one.
LEMMA QueueCloses ==
  ASSUME SemInv, NEW k \in DOMAIN queue,
         queue' = SubSeq(queue, 1, k - 1) \o SubSeq(queue, k + 1, Len(queue))
  PROVE  \A i \in DOMAIN queue, j \in DOMAIN queue' : queue'[j] = queue[i] => j <= i
<1>1. /\ queue \in Seq(Calls) /\ Len(queue) \in Nat /\ DOMAIN queue = 1..Len(queue)
      /\ \A i, j \in 1..Len(queue) : queue[j] = queue[i] => j = i
  BY DEF SemInv, SemTypeOK
<1>2. /\ queue' \in Seq(Calls) /\ Len(queue') = Len(queue) - 1
      /\ \A j \in 1..(Len(queue) - 1) : queue'[j] = IF j < k THEN queue[j] ELSE queue[j + 1]
  BY <1>1, WithoutOne, Zenon
<1>3. DOMAIN queue' = 1..(Len(queue) - 1)
  BY <1>2
<1>4. ASSUME NEW i \in 1..Len(queue), NEW j \in 1..(Len(queue) - 1), queue'[j] = queue[i]
      PROVE  j <= i
  <2>1. CASE j < k
    BY <1>1, <1>2, <1>4, <2>1
  <2>2. CASE ~(j < k)
    <3>1. queue'[j] = queue[j + 1] /\ j + 1 \in 1..Len(queue)
      <4>1. queue'[j] = IF j < k THEN queue[j] ELSE queue[j + 1]
        BY <1>2
      <4>2. queue'[j] = queue[j + 1]
        BY <2>2, <4>1
      <4>3. Len(queue) \in Nat
        BY <1>1
      <4>4. j + 1 \in 1..Len(queue)
        BY <4>3
      <4> QED BY <4>2, <4>4
    <3>2. i = j + 1
      BY <1>1, <1>4, <3>1
    <3> QED BY <3>2
  <2> QED BY <2>1, <2>2
<1>5. DOMAIN queue = 1..Len(queue)
  BY <1>1
<1> QED BY <1>3, <1>4, <1>5, Zenon

\* A permit goes to the oldest waiter, and the others move up.
LEMMA HandOnInTurn ==
  ASSUME SemInv, NEW awake \in SUBSET woken, HandOn(awake)
  PROVE  InTurn
<1>1. CASE queue = <<>>
  BY <1>1, QueueStands DEF HandOn, InTurn
<1>2. CASE queue # <<>>
  <2>1. woken' = awake \cup {Head(queue)} /\ queue' = Tail(queue)
    BY <1>2 DEF HandOn
  <2> QED BY <1>2, <2>1, QueueMovesUp DEF InTurn
<1> QED BY <1>1, <1>2

\* Every operation of the semaphore serves its waiters in turn.
LEMMA ServedInTurn ==
  ASSUME SemInv, NEW c \in Calls,
         Take \/ Release \/ (c \notin Waiters /\ Enqueue(c)) \/ Resume(c) \/ Withdraw(c)
  PROVE  InTurn
<1>1. CASE Take
  BY <1>1, QueueStands DEF Take, InTurn
<1>2. CASE Release
  BY <1>2, HandOnInTurn DEF Release
<1>3. CASE c \notin Waiters /\ Enqueue(c)
  <2>1. /\ queue \in Seq(Calls) /\ Len(queue) \in Nat /\ DOMAIN queue = 1..Len(queue)
        /\ \A i, j \in DOMAIN queue : queue[j] = queue[i] => j = i
        /\ \A i \in DOMAIN queue : queue[i] # c
    BY <1>3 DEF SemInv, SemTypeOK, Waiters, Queued
  <2>2. /\ DOMAIN queue' = 1..(Len(queue) + 1) /\ queue'[Len(queue) + 1] = c
        /\ \A j \in 1..Len(queue) : queue'[j] = queue[j]
    BY <1>3, <2>1 DEF Enqueue
  <2>3. \A i \in DOMAIN queue, j \in DOMAIN queue' : queue'[j] = queue[i] => j <= i
    BY <2>1, <2>2
  <2> QED BY <1>3, <2>3 DEF Enqueue, InTurn
<1>4. CASE Resume(c)
  <2>1. CASE value > 0 /\ queue # <<>>
    BY <1>4, <2>1, QueueMovesUp DEF Resume, InTurn
  <2>2. CASE ~(value > 0 /\ queue # <<>>)
    BY <1>4, <2>2, QueueStands DEF Resume, InTurn
  <2> QED BY <2>1, <2>2
<1>5. CASE Withdraw(c)
  <2>1. CASE c \in woken /\ HandOn(woken \ {c})
    BY <2>1, HandOnInTurn
  <2>2. ASSUME NEW k \in DOMAIN queue,
               queue' = SubSeq(queue, 1, k - 1) \o SubSeq(queue, k + 1, Len(queue)), woken' = woken
        PROVE  InTurn
    BY <2>2, QueueCloses DEF InTurn
  <2> QED BY <1>5, <2>1, <2>2 DEF Withdraw
<1> QED BY <1>1, <1>2, <1>3, <1>4, <1>5
=============================================================================
