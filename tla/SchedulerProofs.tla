--------------------------- MODULE SchedulerProofs --------------------------
(***************************************************************************)
(* Proofs about Scheduler for any number of threads, levels and frames,    *)
(* with and without `debug'.                                               *)
(*                                                                         *)
(* With `debug' off `round' stays 1 and threadPriority_scan is never due   *)
(* (ScanNeverDue); only PrioritiesOnlyFall needs that.  With it on the     *)
(* scan rebuilds every queue from the ones it empties: what Among keeps    *)
(* (AmongKeeps) is proved by induction along a queue, on the set of the    *)
(* positions up to which it holds (Induct).                                *)
(***************************************************************************)
EXTENDS Scheduler, FiniteSetTheorems, WellFoundedInduction, TLAPS

USE DEF Preempted, Degraded, NextRound, queue_push, multiQueue_pop,
        SomethingPending, AfterUnprotect

-----------------------------------------------------------------------------
(* Arithmetic and queue lemmas.                                            *)

LEMMA ThreadsFinite == IsFiniteSet(Threads)
  <1>1. NumThreads \in Nat
    BY ThreadsAssumption
  <1>. QED
    BY <1>1, FS_Interval DEF Threads

\* Nothing but 1 divides 1, so round 1 is never a multiple of 2*pending + 1.
LEMMA ScanNeverDue ==
  ASSUME round = 1, total_pendingThread \in Nat, total_pendingThread > 0
  PROVE  ~ ScanDue
  <1>. DEFINE k == total_pendingThread * QUEUECHECK + 1
  <1>1. k \in Nat /\ k > 1
    BY QueueAssumption
  <1>2. ASSUME NEW m \in Nat, m > 1
        PROVE  1 % m # 0
    BY <1>2
  <1>3. 1 % k # 0
    <2>. HIDE DEF k
    <2>. QED  BY <1>1, <1>2
  <1>4. round % k # 0
    <2>. HIDE DEF k
    <2>. QED  BY <1>3
  <1>. QED
    BY <1>4, Zenon DEF ScanDue

\* After multiQueue_push the queue of level l has t behind what it had.
LEMMA PushLemma ==
  ASSUME NEW q \in [Levels -> Seq(Threads)], NEW t \in Threads, NEW l \in Levels,
         NEW q2, q2 = [q EXCEPT ![l] = Append(@, t)]
  PROVE  /\ q2 \in [Levels -> Seq(Threads)]
         /\ \A k \in Levels : k # l => q2[k] = q[k]
         /\ Len(q2[l]) = Len(q[l]) + 1
         /\ \A i \in 1 .. Len(q[l]) : q2[l][i] = q[l][i]
         /\ q2[l][Len(q[l]) + 1] = t
  OBVIOUS

\* After multiQueue_pop from level l its queue has lost its first element.
LEMMA PopLemma ==
  ASSUME NEW q \in [Levels -> Seq(Threads)], NEW l \in Levels, q[l] # <<>>,
         NEW q2, q2 = [q EXCEPT ![l] = Tail(@)]
  PROVE  /\ q2 \in [Levels -> Seq(Threads)]
         /\ Head(q[l]) \in Threads
         /\ Head(q[l]) = q[l][1]
         /\ Len(q[l]) >= 1
         /\ \A k \in Levels : k # l => q2[k] = q[k]
         /\ Len(q2[l]) = Len(q[l]) - 1
         /\ \A i \in 1 .. Len(q2[l]) : q2[l][i] = q[l][i + 1]
  OBVIOUS

-----------------------------------------------------------------------------
(* The scan.                                                               *)

(* Induction up to n, for a set of numbers. *)
LEMMA Induct ==
  ASSUME NEW n \in Nat, NEW T, 0 \in T, \A k \in 1 .. n : k - 1 \in T => k \in T
  PROVE  0 .. n \subseteq T
  <1>. DEFINE Rest == (0 .. n) \ T
  <1>. SUFFICES ASSUME Rest # {} PROVE FALSE
    OBVIOUS
  <1>1. Rest \in SUBSET Nat
    OBVIOUS
  <1>2. PICK k \in Rest : \A m \in Rest : <<m, k>> \notin OpToRel(<, Nat)
    BY <1>1, NatLessThanWellFounded, WFMin
  <1>3. k \in 1 .. n /\ k - 1 \in 0 .. n /\ k - 1 < k /\ k \in Nat /\ k - 1 \in Nat
    OBVIOUS
  <1>4. k - 1 \notin Rest
    BY <1>2, <1>3 DEF OpToRel
  <1>. QED
    BY <1>3, <1>4

\* The recursion of Among, as far as the m-th element of s.
Filtering(f, s, S, m) ==
    f = [i \in 0 .. m |->
           IF i = 0 THEN <<>>
           ELSE IF s[i] \in S THEN Append(f[i - 1], s[i]) ELSE f[i - 1]]

(* There is a function that Among's recursion describes. *)
LEMMA FilteringExists ==
  ASSUME NEW X, NEW s \in Seq(X), NEW S
  PROVE  \E f : Filtering(f, s, S, Len(s))
  <1>0. PICK n \in Nat : n = Len(s)
    OBVIOUS
  <1>. DEFINE T == {m \in 0 .. n : \E f : Filtering(f, s, S, m)}
  <1>1. 0 \in T
    <2>1. PICK f : f = [i \in 0 .. 0 |-> <<>>]
      OBVIOUS
    <2>2. Filtering(f, s, S, 0)
      BY <2>1 DEF Filtering
    <2>. QED
      BY <2>2
  <1>2. ASSUME NEW m \in 1 .. n, m - 1 \in T
        PROVE  m \in T
    <2>1. PICK f : Filtering(f, s, S, m - 1)
      BY <1>2
    <2>2. PICK last : last = IF s[m] \in S THEN Append(f[m - 1], s[m]) ELSE f[m - 1]
      OBVIOUS
    <2>3. PICK g : g = [i \in 0 .. m |-> IF i = m THEN last ELSE f[i]]
      OBVIOUS
    <2>4. m \in Nat /\ m - 1 \in Nat /\ m - 1 \in 0 .. m - 1 /\ m # 0 /\ m - 1 # m
      OBVIOUS
    <2>5. \A i \in 0 .. m : i # m => i \in 0 .. m - 1 /\ g[i] = f[i]
      BY <2>3, <2>4
    <2>6. g[m] = last /\ g[m - 1] = f[m - 1]
      BY <2>3, <2>4
    <2>7. ASSUME NEW i \in 0 .. m
          PROVE  g[i] = IF i = 0 THEN <<>>
                        ELSE IF s[i] \in S THEN Append(g[i - 1], s[i]) ELSE g[i - 1]
      <3>1. CASE i = m
        BY <2>2, <2>4, <2>6, <3>1
      <3>2. CASE i # m
        <4>1. i \in 0 .. m - 1 /\ g[i] = f[i]
          BY <2>5, <3>2
        <4>2. f[i] = IF i = 0 THEN <<>>
                     ELSE IF s[i] \in S THEN Append(f[i - 1], s[i]) ELSE f[i - 1]
          BY <2>1, <4>1 DEF Filtering
        <4>3. i # 0 => g[i - 1] = f[i - 1]
          <5>1. i # 0 => i - 1 \in 0 .. m /\ i - 1 # m
            BY <2>4, <4>1
          <5>. QED
            BY <2>5, <5>1
        <4>. QED
          BY <4>1, <4>2, <4>3
      <3>. QED
        BY <3>1, <3>2
    <2>8. Filtering(g, s, S, m)
      BY <2>3, <2>7 DEF Filtering
    <2>. QED
      BY <2>8
  <1>. HIDE DEF T
  <1>3. n \in T
    <2>1. n \in 0 .. n
      OBVIOUS
    <2>. QED
      BY <1>1, <1>2, <2>1, Induct
  <1>. QED
    BY <1>0, <1>3 DEF T

\* Where x occurs in s, and that nothing occurs twice.
Occurs(s, x) == \E i \in 1 .. Len(s) : s[i] = x
NoTwice(s) == \A i, j \in 1 .. Len(s) : s[i] = s[j] => i = j

(* An append adds its element and nothing else. *)
LEMMA AppendOccurs ==
  ASSUME NEW X, NEW s \in Seq(X), NEW x \in X
  PROVE  /\ Append(s, x) \in Seq(X)
         /\ \A y : Occurs(Append(s, x), y) <=> Occurs(s, y) \/ y = x
         /\ NoTwice(s) /\ ~ Occurs(s, x) => NoTwice(Append(s, x))
  <1>1. PICK n \in Nat : n = Len(s)
    OBVIOUS
  <1>0. Append(s, x) \in Seq(X)
    OBVIOUS
  <1>2. PICK r \in Seq(X) : r = Append(s, x)
    BY <1>0
  <1>3. Len(r) = n + 1 /\ r[n + 1] = x /\ \A i \in 1 .. n : r[i] = s[i]
    BY <1>1, <1>2
  <1>4. \A i \in 1 .. n + 1 : i \in 1 .. n \/ i = n + 1
    OBVIOUS
  <1>5. n + 1 \in 1 .. n + 1 /\ \A i \in 1 .. n : i \in 1 .. n + 1
    OBVIOUS
  <1>6. \A y : Occurs(r, y) <=> Occurs(s, y) \/ y = x
    BY <1>1, <1>3, <1>4, <1>5 DEF Occurs
  <1>7. NoTwice(s) /\ ~ Occurs(s, x) => NoTwice(r)
    BY <1>1, <1>3, <1>4, <1>5 DEF Occurs, NoTwice
  <1>. QED
    BY <1>2, <1>6, <1>7

(* What is in a concatenation. *)
LEMMA ConcatOccurs ==
  ASSUME NEW X, NEW a \in Seq(X), NEW b \in Seq(X)
  PROVE  /\ a \o b \in Seq(X)
         /\ \A y : Occurs(a \o b, y) <=> Occurs(a, y) \/ Occurs(b, y)
         /\ NoTwice(a) /\ NoTwice(b) /\ (\A y : ~ (Occurs(a, y) /\ Occurs(b, y)))
              => NoTwice(a \o b)
  <1>1. PICK n \in Nat : n = Len(a)
    OBVIOUS
  <1>2. PICK m \in Nat : m = Len(b)
    OBVIOUS
  <1>0. a \o b \in Seq(X)
    OBVIOUS
  <1>3. PICK r \in Seq(X) : r = a \o b
    BY <1>0
  <1>4. /\ Len(r) = n + m
        /\ \A i \in 1 .. n : r[i] = a[i]
        /\ \A i \in 1 .. n + m : i \notin 1 .. n => r[i] = b[i - n]
    BY <1>1, <1>2, <1>3
  <1>5. \A i \in 1 .. n + m : i \notin 1 .. n => i - n \in 1 .. m
    OBVIOUS
  <1>6. \A i \in 1 .. n : i \in 1 .. n + m
    OBVIOUS
  <1>7. \A i \in 1 .. m : /\ i + n \in 1 .. n + m /\ i + n \notin 1 .. n
                          /\ (i + n) - n = i
    OBVIOUS
  <1>8. \A y : Occurs(r, y) <=> Occurs(a, y) \/ Occurs(b, y)
    <2>. SUFFICES ASSUME NEW y PROVE Occurs(r, y) <=> Occurs(a, y) \/ Occurs(b, y)
      OBVIOUS
    <2>1. Occurs(r, y) => Occurs(a, y) \/ Occurs(b, y)
      BY <1>1, <1>2, <1>4, <1>5 DEF Occurs
    <2>2. Occurs(a, y) => Occurs(r, y)
      BY <1>1, <1>4, <1>6 DEF Occurs
    <2>3. Occurs(b, y) => Occurs(r, y)
      <3>. SUFFICES ASSUME NEW i \in 1 .. m, b[i] = y PROVE Occurs(r, y)
        BY <1>2 DEF Occurs
      <3>1. r[i + n] = y
        BY <1>4, <1>7
      <3>. QED
        BY <1>4, <1>7, <3>1 DEF Occurs
    <2>. QED
      BY <2>1, <2>2, <2>3
  <1>9. ASSUME NoTwice(a), NoTwice(b), \A y : ~ (Occurs(a, y) /\ Occurs(b, y))
        PROVE  NoTwice(r)
    <2>. SUFFICES ASSUME NEW i \in 1 .. n + m, NEW j \in 1 .. n + m, r[i] = r[j]
                  PROVE  i = j
      BY <1>4 DEF NoTwice
    <2>1. CASE i \in 1 .. n /\ j \in 1 .. n
      BY <1>1, <1>4, <1>9, <2>1 DEF NoTwice
    <2>2. CASE i \notin 1 .. n /\ j \notin 1 .. n
      <3>1. i - n \in 1 .. m /\ j - n \in 1 .. m /\ b[i - n] = b[j - n]
        BY <1>4, <1>5, <2>2
      <3>2. i - n = j - n
        BY <1>2, <1>9, <3>1 DEF NoTwice
      <3>. QED
        BY <3>2
    <2>3. ASSUME NEW k \in 1 .. n, NEW h \in 1 .. n + m, h \notin 1 .. n, r[k] = r[h]
          PROVE  FALSE
      <3>1. h - n \in 1 .. m /\ b[h - n] = r[h] /\ a[k] = r[h]
        BY <1>4, <1>5, <2>3
      <3>2. Occurs(a, r[h]) /\ Occurs(b, r[h])
        BY <1>1, <1>2, <3>1 DEF Occurs
      <3>. QED
        BY <1>9, <3>2
    <2>. QED
      BY <2>1, <2>2, <2>3
  <1>. QED
    BY <1>3, <1>8, <1>9

(* Among keeps exactly the elements that are in S, and none twice that was
   there once. *)
LEMMA AmongKeeps ==
  ASSUME NEW X, NEW s \in Seq(X), NEW S
  PROVE  /\ Among(s, S) \in Seq(X)
         /\ NoTwice(s) => NoTwice(Among(s, S))
         /\ \A x : Occurs(Among(s, S), x) <=> Occurs(s, x) /\ x \in S
  <1>1. PICK n \in Nat : n = Len(s)
    OBVIOUS
  <1>8. PICK f : f = CHOOSE h : Filtering(h, s, S, Len(s))
    OBVIOUS
  <1>9. Filtering(f, s, S, Len(s))
    BY <1>8, FilteringExists
  <1>10. Among(s, S) = f[Len(s)]
    BY <1>8 DEF Among, Filtering
  <1>2. Filtering(f, s, S, n) /\ Among(s, S) = f[n]
    BY <1>1, <1>9, <1>10
  <1>3. /\ f[0] = <<>>
        /\ \A i \in 1 .. n : f[i] = IF s[i] \in S THEN Append(f[i - 1], s[i]) ELSE f[i - 1]
    <2>1. 0 \in 0 .. n /\ \A i \in 1 .. n : i \in 0 .. n /\ i # 0
      OBVIOUS
    <2>. QED
      BY <1>2, <2>1 DEF Filtering
  <1>. DEFINE Good(k) == /\ f[k] \in Seq(X)
                         /\ NoTwice(s) => NoTwice(f[k])
                         /\ \A x : Occurs(f[k], x) <=>
                                     x \in S /\ \E i \in 1 .. k : s[i] = x
              T == {k \in 0 .. n : Good(k)}
  <1>4. 0 \in T
    <2>1. Len(<<>>) = 0 /\ <<>> \in Seq(X)
      OBVIOUS
    <2>2. Good(0)
      BY <1>3, <2>1 DEF NoTwice, Occurs
    <2>. QED
      BY <2>2
  <1>5. ASSUME NEW k \in 1 .. n, k - 1 \in T
        PROVE  k \in T
    <2>1. Good(k - 1)
      BY <1>5
    <2>2. s[k] \in X
      BY <1>1
    <2>3. /\ \A i \in 1 .. k : i \in 1 .. k - 1 \/ i = k
          /\ \A i \in 1 .. k - 1 : i \in 1 .. k /\ i # k /\ i \in 1 .. n
          /\ k \in 1 .. k /\ k \in 0 .. n
      OBVIOUS
    <2>4. NoTwice(s) => \A i \in 1 .. k - 1 : s[i] # s[k]
      BY <1>1, <2>3 DEF NoTwice
    <2>5. CASE s[k] \in S
      <3>1. f[k] = Append(f[k - 1], s[k])
        BY <1>3, <2>5
      <3>2. NoTwice(s) => ~ Occurs(f[k - 1], s[k])
        BY <2>1, <2>4
      <3>3. PICK p \in Seq(X) : p = f[k - 1]
        BY <2>1
      <3>4. /\ f[k] \in Seq(X)
            /\ \A y : Occurs(f[k], y) <=> Occurs(f[k - 1], y) \/ y = s[k]
            /\ NoTwice(s) => NoTwice(f[k])
        <4>1. /\ Append(p, s[k]) \in Seq(X)
              /\ \A y : Occurs(Append(p, s[k]), y) <=> Occurs(p, y) \/ y = s[k]
              /\ NoTwice(p) /\ ~ Occurs(p, s[k]) => NoTwice(Append(p, s[k]))
          BY <2>2, AppendOccurs
        <4>. QED
          BY <2>1, <3>1, <3>2, <3>3, <4>1
      <3>. QED
        BY <2>1, <2>3, <2>5, <3>4
    <2>6. CASE s[k] \notin S
      <3>1. f[k] = f[k - 1]
        BY <1>3, <2>6
      <3>. QED
        BY <2>1, <2>3, <2>6, <3>1
    <2>. QED
      BY <2>5, <2>6
  <1>6. n \in T
    <2>. HIDE DEF T
    <2>1. n \in 0 .. n
      OBVIOUS
    <2>. QED
      BY <1>4, <1>5, <2>1, Induct
  <1>7. \A x : Occurs(s, x) <=> \E i \in 1 .. n : s[i] = x
    BY <1>1 DEF Occurs
  <1>. QED
    BY <1>2, <1>6, <1>7

\* Queued(t), for any value of the queues, and the second half of NoThreadLost.
InQueue(q, t) == \E l \in Levels : \E i \in 1 .. Len(q[l]) : q[l][i] = t

WellQueued(q, pr) ==
    \A l \in Levels : \A i, j \in 1 .. Len(q[l]) :
        pr[q[l][i]] = l /\ (q[l][i] = q[l][j] => i = j)

\* Each queue in itself, and the level of the threads in it.
LEMMA WellQueuedMeans ==
  ASSUME NEW q, NEW pr
  PROVE  /\ WellQueued(q, pr) <=>
              \A l \in Levels : /\ NoTwice(q[l])
                                /\ \A t : Occurs(q[l], t) => pr[t] = l
         /\ \A t : InQueue(q, t) <=> \E l \in Levels : Occurs(q[l], t)
  BY DEF WellQueued, InQueue, NoTwice, Occurs

\* What the scan makes of the queues q, raising the threads of R ...
Scanned(q, R) ==
    [l \in Levels |-> Among(q[l], Threads \ R)
                        \o (IF l = 0 THEN <<>> ELSE Among(q[l - 1], R))]

\* ... and of their priorities.
Lifted(q, pr, R) ==
    [t \in Threads |-> IF InQueue(q, t) /\ t \in R THEN pr[t] + 1 ELSE pr[t]]

(* Queues and priorities keep their types. *)
LEMMA ScanKeepsTypes ==
  ASSUME NEW q \in [Levels -> Seq(Threads)], NEW pr \in [Threads -> Levels],
         NEW R \in SUBSET Threads, \A t \in R : pr[t] < QUEUELEVEL - 1
  PROVE  /\ Scanned(q, R) \in [Levels -> Seq(Threads)]
         /\ Lifted(q, pr, R) \in [Threads -> Levels]
  <1>1. \A l \in Levels : /\ l # 0 => l - 1 \in Levels
                          /\ l < QUEUELEVEL - 1 => l + 1 \in Levels
    BY QueueAssumption DEF Levels
  <1>2. ASSUME NEW l \in Levels
        PROVE  Scanned(q, R)[l] \in Seq(Threads)
    <2>1. PICK a \in Seq(Threads) : a = Among(q[l], Threads \ R)
      BY AmongKeeps
    <2>2. l # 0 => Among(q[l - 1], R) \in Seq(Threads)
      BY <1>1, AmongKeeps
    <2>3. (IF l = 0 THEN <<>> ELSE Among(q[l - 1], R)) \in Seq(Threads)
      <3>1. <<>> \in Seq(Threads)
        OBVIOUS
      <3>. QED
        BY <2>2, <3>1
    <2>4. PICK b \in Seq(Threads) : b = IF l = 0 THEN <<>> ELSE Among(q[l - 1], R)
      BY <2>3
    <2>5. a \o b \in Seq(Threads) /\ Scanned(q, R)[l] = a \o b
      BY <2>1, <2>4 DEF Scanned
    <2>. QED
      BY <2>5
  <1>3. Scanned(q, R) \in [Levels -> Seq(Threads)]
    BY <1>2 DEF Scanned
  <1>4. Lifted(q, pr, R) \in [Threads -> Levels]
    BY <1>1 DEF Lifted
  <1>. QED
    BY <1>3, <1>4

\* The scan keeps every thread in its one place.
LEMMA ScanKeepsQueues ==
  ASSUME NEW q \in [Levels -> Seq(Threads)], NEW pr \in [Threads -> Levels],
         WellQueued(q, pr), NEW R \in SUBSET Threads,
         \A t \in R : pr[t] < QUEUELEVEL - 1
  PROVE  /\ WellQueued(Scanned(q, R), Lifted(q, pr, R))
         /\ \A t \in Threads : InQueue(Scanned(q, R), t) <=> InQueue(q, t)
  <1>1. PICK stays : stays = [l \in Levels |-> Among(q[l], Threads \ R)]
    OBVIOUS
  <1>2. PICK rises : rises = [l \in Levels |-> Among(q[l], R)]
    OBVIOUS
  <1>3. /\ \A l \in Levels : NoTwice(q[l]) /\ \A t : Occurs(q[l], t) => pr[t] = l
        /\ \A t : InQueue(q, t) <=> \E l \in Levels : Occurs(q[l], t)
    BY WellQueuedMeans
  <1>4. \A l \in Levels : \A t : Occurs(q[l], t) => t \in Threads
    BY DEF Occurs
  <1>5. ASSUME NEW l \in Levels
        PROVE  /\ stays[l] \in Seq(Threads) /\ NoTwice(stays[l])
               /\ \A t : Occurs(stays[l], t) <=> Occurs(q[l], t) /\ t \notin R
               /\ rises[l] \in Seq(Threads) /\ NoTwice(rises[l])
               /\ \A t : Occurs(rises[l], t) <=> Occurs(q[l], t) /\ t \in R
    <2>1. q[l] \in Seq(Threads) /\ NoTwice(q[l])
      BY <1>3
    <2>2. /\ Among(q[l], R) \in Seq(Threads) /\ NoTwice(Among(q[l], R))
          /\ \A t : Occurs(Among(q[l], R), t) <=> Occurs(q[l], t) /\ t \in R
      BY <2>1, AmongKeeps
    <2>3. /\ Among(q[l], Threads \ R) \in Seq(Threads) /\ NoTwice(Among(q[l], Threads \ R))
          /\ \A t : Occurs(Among(q[l], Threads \ R), t) <=>
                      Occurs(q[l], t) /\ t \in Threads \ R
      BY <2>1, AmongKeeps
    <2>. QED
      BY <1>1, <1>2, <1>4, <2>2, <2>3
  <1>6. PICK q2 : q2 = [l \in Levels |-> stays[l] \o (IF l = 0 THEN <<>> ELSE rises[l - 1])]
    OBVIOUS
  <1>7. \A l \in Levels : /\ l \in Int /\ l < QUEUELEVEL
                          /\ l # 0 => l - 1 \in Levels /\ (l - 1) + 1 = l
                          /\ l < QUEUELEVEL - 1 => l + 1 \in Levels /\ l + 1 # 0
                                                   /\ (l + 1) - 1 = l
    BY QueueAssumption DEF Levels
  <1>8. q2 = Scanned(q, R)
    BY <1>1, <1>2, <1>6, <1>7 DEF Scanned
  <1>9. PICK p2 : p2 = Lifted(q, pr, R)
    OBVIOUS
  <1>10. \A t \in Threads : p2[t] = IF InQueue(q, t) /\ t \in R THEN pr[t] + 1 ELSE pr[t]
    BY <1>9 DEF Lifted
  <1>12. ASSUME NEW l \in Levels
         PROVE  /\ q2[l] \in Seq(Threads) /\ NoTwice(q2[l])
                /\ \A t : Occurs(q2[l], t) <=>
                            \/ Occurs(q[l], t) /\ t \notin R
                            \/ l # 0 /\ Occurs(q[l - 1], t) /\ t \in R
    <2>1. PICK b \in Seq(Threads) : b = IF l = 0 THEN <<>> ELSE rises[l - 1]
      <3>1. <<>> \in Seq(Threads) /\ (l # 0 => rises[l - 1] \in Seq(Threads))
        BY <1>5, <1>7
      <3>2. (IF l = 0 THEN <<>> ELSE rises[l - 1]) \in Seq(Threads)
        BY <3>1
      <3>. QED
        BY <3>2
    <2>2. NoTwice(b) /\ \A t : Occurs(b, t) <=> l # 0 /\ Occurs(q[l - 1], t) /\ t \in R
      <3>1. CASE l = 0
        <4>1. Len(b) = 0
          BY <2>1, <3>1
        <4>. QED
          BY <3>1, <4>1 DEF NoTwice, Occurs
      <3>2. CASE l # 0
        BY <1>5, <1>7, <2>1, <3>2
      <3>. QED
        BY <3>1, <3>2
    <2>3. PICK a \in Seq(Threads) : a = stays[l]
      BY <1>5
    <2>4. NoTwice(a) /\ \A t : Occurs(a, t) <=> Occurs(q[l], t) /\ t \notin R
      BY <1>5, <2>3
    <2>5. \A t : ~ (Occurs(a, t) /\ Occurs(b, t))
      BY <2>2, <2>4
    <2>6. /\ a \o b \in Seq(Threads) /\ NoTwice(a \o b)
          /\ \A t : Occurs(a \o b, t) <=> Occurs(a, t) \/ Occurs(b, t)
      BY <2>2, <2>4, <2>5, ConcatOccurs
    <2>7. q2[l] = a \o b
      BY <1>6, <2>1, <2>3
    <2>. QED
      BY <2>2, <2>4, <2>6, <2>7
  <1>14. \A l \in Levels : NoTwice(q2[l]) /\ \A t : Occurs(q2[l], t) => p2[t] = l
    <2>. SUFFICES ASSUME NEW l \in Levels, NEW t, Occurs(q2[l], t) PROVE p2[t] = l
      BY <1>12
    <2>1. CASE Occurs(q[l], t) /\ t \notin R
      BY <1>3, <1>4, <1>10, <2>1
    <2>2. CASE l # 0 /\ Occurs(q[l - 1], t) /\ t \in R
      <3>1. pr[t] = l - 1 /\ InQueue(q, t) /\ t \in Threads
        BY <1>3, <1>4, <1>7, <2>2
      <3>. QED
        BY <1>7, <1>10, <2>2, <3>1
    <2>. QED
      BY <1>12, <2>1, <2>2
  <1>15. ASSUME NEW t \in Threads
         PROVE  (\E l \in Levels : Occurs(q2[l], t)) <=> (\E l \in Levels : Occurs(q[l], t))
    <2>1. ASSUME NEW l \in Levels, Occurs(q2[l], t)
          PROVE  \E k \in Levels : Occurs(q[k], t)
      BY <1>7, <1>12, <2>1
    <2>2. ASSUME NEW l \in Levels, Occurs(q[l], t)
          PROVE  \E k \in Levels : Occurs(q2[k], t)
      <3>1. CASE t \notin R
        BY <1>12, <2>2, <3>1
      <3>2. CASE t \in R
        <4>1. pr[t] = l /\ pr[t] < QUEUELEVEL - 1
          BY <1>3, <2>2, <3>2
        <4>2. PICK k \in Levels : k = l + 1 /\ k # 0 /\ k - 1 = l
          BY <1>7, <4>1
        <4>3. Occurs(q2[k], t)
          BY <1>12, <2>2, <3>2, <4>2
        <4>. QED
          BY <4>3
      <3>. QED
        BY <3>1, <3>2
    <2>. QED
      BY <2>1, <2>2
  <1>16. WellQueued(q2, p2) /\ \A t : InQueue(q2, t) <=> \E l \in Levels : Occurs(q2[l], t)
    BY <1>14, WellQueuedMeans
  <1>17. \A t \in Threads : InQueue(q2, t) <=> InQueue(q, t)
    BY <1>3, <1>15, <1>16
  <1>. QED
    BY <1>8, <1>9, <1>16, <1>17

\* What a scan does.
LEMMA ScanEffect ==
  ASSUME TypeOK, threadPriority_scan,
         NEW R, R = {t \in Threads : Raised(t)}
  PROVE  /\ pendingThreadQueue' = Scanned(pendingThreadQueue, R)
         /\ priority' = Lifted(pendingThreadQueue, priority, R)
         /\ R \in SUBSET Threads /\ \A t \in R : priority[t] < QUEUELEVEL - 1
         /\ runningCounter' \in [Threads -> 0 .. 1]
         /\ context = "pick" /\ context' = "dispatch" /\ total_pendingThread > 0
         /\ UNCHANGED <<runningThread, total_thread, state, total_pendingThread,
                        finishedThreadQueue, round, memVars, clientVars>>
  <1>1. PICK queued : queued = UNION {ToSet(pendingThreadQueue[l]) : l \in Levels}
    OBVIOUS
  <1>2. \A t : t \in queued <=> InQueue(pendingThreadQueue, t)
    <2>1. \A l \in Levels : DOMAIN pendingThreadQueue[l] = 1 .. Len(pendingThreadQueue[l])
      BY DEF TypeOK
    <2>. QED
      BY <1>1, <2>1 DEF ToSet, InQueue
  <1>3. /\ pendingThreadQueue' = [l \in Levels |-> AfterScan(l)]
        /\ priority' = [t \in Threads |->
              IF t \in queued /\ Raised(t) THEN priority[t] + 1 ELSE priority[t]]
        /\ runningCounter' = [t \in Threads |->
              IF t \in queued THEN 0 ELSE runningCounter[t]]
    BY <1>1 DEF threadPriority_scan
  <1>4. pendingThreadQueue' = Scanned(pendingThreadQueue, R)
    BY <1>3 DEF AfterScan, Scanned
  <1>5. priority' = Lifted(pendingThreadQueue, priority, R)
    BY <1>2, <1>3 DEF Lifted
  <1>6. runningCounter' \in [Threads -> 0 .. 1]
    BY <1>3 DEF TypeOK
  <1>. QED
    BY <1>4, <1>5, <1>6 DEF threadPriority_scan, Raised

-----------------------------------------------------------------------------
(* Type correctness.                                                       *)

\* After a scan there is a thread to switch to.
Due == context = "dispatch" => total_pendingThread > 0

(* The types hold at the start. *)
LEMMA TypeInit == Init => TypeOK /\ Due
  <1>. SUFFICES ASSUME Init PROVE TypeOK /\ Due
    OBVIOUS
  <1>. USE ThreadsAssumption, QueueAssumption, RoundAssumption
           DEF Init, TypeOK, Due, Threads, Levels, Frames, NoThread, NoFrame,
               Contexts, States, PCs
  <1>1. Due /\ context \in Contexts /\ runningThread \in Threads \cup {NoThread}
    OBVIOUS
  <1>2. total_thread \in 0 .. NumThreads /\ round \in 0 .. RoundPeriod - 1
    OBVIOUS
  <1>3. priority \in [Threads -> Levels]
    OBVIOUS
  <1>. QED
    BY <1>1, <1>2, <1>3


\* Every step keeps the types, and scans only when a thread waits.
LEMMA TypeStep ==
  ASSUME TypeOK, Due, [Next]_vars
  PROVE  TypeOK' /\ Due'
  <1>. USE DEF TypeOK, Due, NoThread, Contexts, States, PCs, NoFrame
  <1>1. CASE my_pthread_create
    <2>1. total_thread \in Threads /\ QUEUELEVEL - 1 \in Levels
      BY <1>1, ThreadsAssumption, QueueAssumption
         DEF my_pthread_create, Threads, Levels
    <2>2. /\ state' \in [Threads -> States]
          /\ priority' \in [Threads -> Levels]
          /\ runningCounter' \in [Threads -> 0 .. 1]
          /\ frame' \in [Threads -> Frames \cup {NoFrame}]
      BY <1>1, <2>1 DEF my_pthread_create
    <2>3. /\ pendingThreadQueue' \in [Levels -> Seq(Threads)]
          /\ total_pendingThread' \in Nat
      BY <1>1, <2>1, PushLemma DEF my_pthread_create, multiQueue_push
    <2>4. total_thread' \in 0 .. NumThreads
      BY <1>1, ThreadsAssumption DEF my_pthread_create
    <2>. QED
      BY <1>1, <2>2, <2>3, <2>4 DEF my_pthread_create, clientVars
  <1>2. CASE MainTick
    BY <1>2 DEF MainTick, threadVars, queueVars, memVars, clientVars
  <1>3. ASSUME NEW t \in Threads, signal_handler(t)
        PROVE  TypeOK' /\ Due'
    <2>1. state' \in [Threads -> States]
      BY <1>3 DEF signal_handler
    <2>2. priority' \in [Threads -> Levels]
      <3>1. priority[t] >= 1 => priority[t] - 1 \in Levels
        BY QueueAssumption DEF Levels
      <3>2. priority' = [priority EXCEPT ![t] = IF @ >= 1 THEN @ - 1 ELSE @]
        BY <1>3 DEF signal_handler
      <3>. QED
        BY <3>1, <3>2
    <2>. QED
      BY <1>3, <2>1, <2>2 DEF signal_handler, queueVars, memVars, clientVars
  <1>4. CASE HandleRunningThread
    <2>1. /\ state' \in [Threads -> States]
          /\ pendingThreadQueue' \in [Levels -> Seq(Threads)]
          /\ total_pendingThread' \in Nat
          /\ finishedThreadQueue' \in Seq(Threads)
      <3>1. CASE runningThread = NoThread
        BY <1>4, <3>1 DEF HandleRunningThread, queueVars
      <3>2. CASE runningThread # NoThread /\ state[runningThread] \in {"READY", "RUNNING"}
        <4>1. runningThread \in Threads /\ priority[runningThread] \in Levels
          BY <3>2
        <4>2. /\ state' = [state EXCEPT ![runningThread] = "READY"]
              /\ multiQueue_push(runningThread, priority[runningThread])
              /\ UNCHANGED finishedThreadQueue
          BY <1>4, <3>2, Zenon DEF HandleRunningThread
        <4>3. /\ pendingThreadQueue' \in [Levels -> Seq(Threads)]
              /\ total_pendingThread' \in Nat
          BY <4>1, <4>2, PushLemma DEF multiQueue_push
        <4>. QED
          BY <4>1, <4>2, <4>3
      <3>3. CASE runningThread # NoThread /\ state[runningThread] = "TERMINATED"
        <4>1. runningThread \in Threads
          BY <3>3
        <4>2. /\ finishedThreadQueue' = Append(finishedThreadQueue, runningThread)
              /\ UNCHANGED <<state, pendingThreadQueue, total_pendingThread>>
          BY <1>4, <3>3 DEF HandleRunningThread
        <4>. QED
          BY <4>1, <4>2
      <3>. QED
        BY <1>4, <3>1, <3>2, <3>3, Zenon DEF HandleRunningThread
    <2>2. round' \in 0 .. RoundPeriod - 1
      <3>1. round' = IF Debug THEN (round + 1) % RoundPeriod ELSE round
        BY <1>4 DEF HandleRunningThread
      <3>2. \A n \in Nat : n % RoundPeriod \in 0 .. RoundPeriod - 1
        BY RoundAssumption
      <3>3. round + 1 \in Nat
        BY RoundAssumption
      <3>. QED
        BY <3>1, <3>2, <3>3
    <2>. QED
      BY <1>4, <2>1, <2>2 DEF HandleRunningThread, memVars, clientVars
  <1>5. CASE threadPriority_scan
    <2>1. PICK R : R = {t \in Threads : Raised(t)}
      OBVIOUS
    <2>2. /\ pendingThreadQueue' \in [Levels -> Seq(Threads)]
          /\ priority' \in [Threads -> Levels]
      <3>1. PICK q \in [Levels -> Seq(Threads)] : q = pendingThreadQueue
        OBVIOUS
      <3>2. PICK pr \in [Threads -> Levels] : pr = priority
        OBVIOUS
      <3>3. /\ pendingThreadQueue' = Scanned(q, R) /\ priority' = Lifted(q, pr, R)
            /\ R \in SUBSET Threads /\ \A t \in R : pr[t] < QUEUELEVEL - 1
        BY <1>5, <2>1, <3>1, <3>2, ScanEffect
      <3>. QED
        BY <3>3, ScanKeepsTypes
    <2>. QED
      BY <1>5, <2>1, <2>2, ScanEffect DEF memVars, clientVars
  <1>6. CASE Dispatch
    <2>1. total_pendingThread > 0
      BY <1>6 DEF Dispatch
    <2>2. PICK l \in Levels :
             /\ pendingThreadQueue[l] # <<>>
             /\ pendingThreadQueue' = [pendingThreadQueue EXCEPT ![l] = Tail(@)]
             /\ runningThread' = Head(pendingThreadQueue[l])
             /\ state' = [state EXCEPT ![runningThread'] = "RUNNING"]
             /\ runningCounter' = [runningCounter EXCEPT ![runningThread'] = 1]
             /\ protected' = (IF runningThread = NoThread THEN protected
                              ELSE protected \ NotUsable(runningThread))
                             \cup NotUsable(runningThread')
      BY <1>6 DEF Dispatch, IsTopLevel
    <2>3. runningThread' \in Threads /\ pendingThreadQueue' \in [Levels -> Seq(Threads)]
      BY <2>2, PopLemma
    <2>4. state' \in [Threads -> States] /\ runningCounter' \in [Threads -> 0 .. 1]
      BY <2>2, <2>3
    <2>5. protected' \in SUBSET Frames
      BY <2>2 DEF NotUsable
    <2>. QED
      BY <1>6, <2>1, <2>3, <2>4, <2>5 DEF Dispatch, clientVars
  <1>7. CASE FinishAll
    BY <1>7 DEF FinishAll, threadVars, queueVars, memVars, clientVars
  <1>8. ASSUME NEW t \in Threads, ThreadStep(t)
        PROVE  TypeOK' /\ Due'
    <2>. USE DEF At, Goto, Runs, schedulerVars, threadVars, queueVars, memVars
    <2>1. CASE my_pthread_yield(t)
      BY <2>1 DEF my_pthread_yield
    <2>2. CASE CallLock(t)
      BY <2>2 DEF CallLock
    <2>3. CASE my_pthread_mutex_lock(t)
      <3>1. CASE flag = 0
        <4>1. inCrit' \in [Threads -> BOOLEAN] /\ pc' \in [Threads -> PCs]
          BY <2>3, <3>1 DEF my_pthread_mutex_lock
        <4>. QED
          BY <2>3, <3>1, <4>1 DEF my_pthread_mutex_lock
      <3>2. CASE flag = 1
        BY <2>3, <3>2 DEF my_pthread_mutex_lock
      <3>3. flag = 0 \/ flag = 1
        OBVIOUS
      <3>. QED
        BY <3>1, <3>2, <3>3, Zenon
    <2>4. CASE my_pthread_mutex_unlock(t)
      BY <2>4 DEF my_pthread_mutex_unlock
    <2>5. ASSUME NEW u \in Created, CallJoin(t, u)
          PROVE  TypeOK' /\ Due'
      BY <2>5 DEF CallJoin, Created
    <2>6. CASE my_pthread_join(t)
      BY <2>6 DEF my_pthread_join
    <2>7. CASE my_pthread_exit(t)
      BY <2>7 DEF my_pthread_exit
    <2>8. CASE ExitSwitch(t)
      BY <2>8 DEF ExitSwitch, clientVars
    <2>. QED
      BY <1>8, <2>1, <2>2, <2>3, <2>4, <2>5, <2>6, <2>7, <2>8 DEF ThreadStep
  <1>9. CASE Done \/ UNCHANGED vars
    BY <1>9 DEF Done, vars, threadVars, queueVars, memVars, clientVars
  <1>. QED
    BY <1>1, <1>2, <1>3, <1>4, <1>5, <1>6, <1>7, <1>8, <1>9
       DEF Next, Tick, schedule

\* The types of the library's variables hold in every reachable state.
THEOREM TypeCorrect ==
  Spec => [](TypeOK /\ Due)
  <1>1. Init => TypeOK /\ Due
    BY TypeInit
  <1>2. TypeOK /\ Due /\ [Next]_vars => (TypeOK /\ Due)'
    BY TypeStep
  <1>. QED
    BY <1>1, <1>2, PTL DEF Spec

-----------------------------------------------------------------------------
(* The mutex.  Only lock and unlock touch its flag, so mutual exclusion    *)
(* needs no hypothesis about `debug'.                                      *)

MutexInv ==
    /\ flag \in 0 .. 1
    /\ inCrit \in [Threads -> BOOLEAN]
    /\ MutualExclusion

(* Every step keeps the flag of the mutex telling whether a thread is between
   lock and unlock. *)
LEMMA MutexStep ==
  ASSUME MutexInv, [Next]_vars
  PROVE  MutexInv'
  <1>. USE DEF MutexInv, MutualExclusion
  <1>1. ASSUME NEW t \in Threads, my_pthread_mutex_lock(t)
        PROVE  MutexInv'
    <2>1. CASE flag = 0
      <3>1. flag' = 1 /\ inCrit' = [inCrit EXCEPT ![t] = TRUE]
        BY <1>1, <2>1 DEF my_pthread_mutex_lock
      <3>2. \A u \in Threads : ~ inCrit[u]
        BY <2>1
      <3>. QED
        BY <3>1, <3>2
    <2>2. CASE flag = 1
      BY <1>1, <2>2 DEF my_pthread_mutex_lock
    <2>. QED
      BY <2>1, <2>2
  <1>2. ASSUME NEW t \in Threads, my_pthread_mutex_unlock(t)
        PROVE  MutexInv'
    <2>1. flag' = 0 /\ inCrit' = [inCrit EXCEPT ![t] = FALSE] /\ inCrit[t]
      BY <1>2 DEF my_pthread_mutex_unlock
    <2>2. \A u \in Threads : inCrit[u] => u = t
      BY <2>1
    <2>. QED
      BY <2>1, <2>2
  <1>3. ASSUME UNCHANGED <<flag, inCrit>>
        PROVE  MutexInv'
    BY <1>3
  <1>4. CASE my_pthread_create \/ Tick \/ schedule
    <2>1. UNCHANGED <<flag, inCrit>>
      BY <1>4 DEF my_pthread_create, Tick, MainTick, signal_handler, schedule,
           HandleRunningThread, threadPriority_scan, Dispatch, FinishAll, clientVars
    <2>. QED
      BY <2>1, <1>3
  <1>5. ASSUME NEW t \in Threads, ThreadStep(t)
        PROVE  MutexInv'
    <2>1. CASE my_pthread_mutex_lock(t) \/ my_pthread_mutex_unlock(t)
      BY <2>1, <1>1, <1>2
    <2>2. CASE ~ (my_pthread_mutex_lock(t) \/ my_pthread_mutex_unlock(t))
      <3>1. UNCHANGED <<flag, inCrit>>
        BY <1>5, <2>2 DEF ThreadStep, my_pthread_yield, CallLock, CallJoin,
             my_pthread_join, my_pthread_exit, ExitSwitch, clientVars
      <3>. QED
        BY <3>1, <1>3
    <2>. QED
      BY <2>1, <2>2
  <1>6. CASE Done \/ UNCHANGED vars
    <2>1. UNCHANGED <<flag, inCrit>>
      BY <1>6 DEF Done, vars, clientVars
    <2>. QED
      BY <2>1, <1>3
  <1>. QED
    BY <1>4, <1>5, <1>6 DEF Next

\* Two threads are never inside the same mutex, and its flag tells whether
\* one is: for any number of threads, any interleaving of ticks and yields.
THEOREM MutexCorrect == Spec => []MutualExclusion
  <1>1. Init => MutexInv
    BY DEF Init, MutexInv, MutualExclusion
  <1>2. MutexInv /\ [Next]_vars => MutexInv'
    BY MutexStep
  <1>3. MutexInv => MutualExclusion
    BY DEF MutexInv
  <1>. QED
    BY <1>1, <1>2, <1>3, PTL DEF Spec

-----------------------------------------------------------------------------
(* The run queue.                                                          *)

\* What multiQueue_push and multiQueue_pop do to the queues.
Pushed(q, q2, t, l) == q2 = [q EXCEPT ![l] = Append(@, t)]
Popped(q, q2, l) == q[l] # <<>> /\ q2 = [q EXCEPT ![l] = Tail(@)]

(* A thread is queued, in the sense of the property, if some ready queue has it. *)
LEMMA QueuedIsInQueue ==
  ASSUME NEW t \in Threads
  PROVE  Queued(t) <=> InQueue(pendingThreadQueue, t)
  BY DEF Queued, InQueue, Contains

\* A push of a thread that is not queued, at the level of its priority.
LEMMA PushKeepsQueues ==
  ASSUME NEW q \in [Levels -> Seq(Threads)], NEW pr, NEW t \in Threads,
         NEW l \in Levels, WellQueued(q, pr), ~ InQueue(q, t), pr[t] = l,
         NEW q2, Pushed(q, q2, t, l)
  PROVE  /\ WellQueued(q2, pr)
         /\ \A u \in Threads : InQueue(q2, u) <=> InQueue(q, u) \/ u = t
  <1>. q2 = [q EXCEPT ![l] = Append(@, t)]
    BY DEF Pushed
  <1>1. /\ q2 \in [Levels -> Seq(Threads)]
        /\ \A k \in Levels : k # l => q2[k] = q[k]
        /\ Len(q2[l]) = Len(q[l]) + 1
        /\ \A i \in 1 .. Len(q[l]) : q2[l][i] = q[l][i]
        /\ q2[l][Len(q[l]) + 1] = t
    BY PushLemma
  <1>2. Len(q[l]) \in Nat
    OBVIOUS
  <1>3. \A i \in 1 .. Len(q2[l]) : i \in 1 .. Len(q[l]) \/ i = Len(q[l]) + 1
    BY <1>1, <1>2
  <1>4. \A i \in 1 .. Len(q[l]) : q[l][i] # t
    BY DEF InQueue
  <1>5. WellQueued(q2, pr)
    <2>1. \A i, j \in 1 .. Len(q2[l]) :
             pr[q2[l][i]] = l /\ (q2[l][i] = q2[l][j] => i = j)
      BY <1>1, <1>2, <1>3, <1>4 DEF WellQueued
    <2>. QED
      BY <1>1, <2>1 DEF WellQueued
  <1>6. ASSUME NEW u \in Threads
        PROVE  InQueue(q2, u) <=> InQueue(q, u) \/ u = t
    <2>1. \A i \in 1 .. Len(q[l]) : i \in 1 .. Len(q2[l])
      BY <1>1, <1>2
    <2>2. Len(q[l]) + 1 \in 1 .. Len(q2[l])
      BY <1>1, <1>2
    <2>3. InQueue(q, u) => InQueue(q2, u)
      BY <1>1, <2>1 DEF InQueue
    <2>4. InQueue(q2, t)
      BY <1>1, <2>2 DEF InQueue
    <2>5. InQueue(q2, u) => InQueue(q, u) \/ u = t
      BY <1>1, <1>3 DEF InQueue
    <2>. QED
      BY <2>3, <2>4, <2>5
  <1>. QED
    BY <1>5, <1>6

\* A pop removes the head of its queue and nothing else.
LEMMA PopKeepsQueues ==
  ASSUME NEW q \in [Levels -> Seq(Threads)], NEW pr, NEW l \in Levels,
         WellQueued(q, pr), NEW q2, Popped(q, q2, l)
  PROVE  /\ WellQueued(q2, pr)
         /\ InQueue(q, Head(q[l]))
         /\ \A u \in Threads :
               InQueue(q2, u) <=> InQueue(q, u) /\ u # Head(q[l])
  <1>. q[l] # <<>> /\ q2 = [q EXCEPT ![l] = Tail(@)]
    BY DEF Popped
  <1>1. /\ q2 \in [Levels -> Seq(Threads)]
        /\ Head(q[l]) = q[l][1]
        /\ Len(q[l]) >= 1
        /\ \A k \in Levels : k # l => q2[k] = q[k]
        /\ Len(q2[l]) = Len(q[l]) - 1
        /\ \A i \in 1 .. Len(q2[l]) : q2[l][i] = q[l][i + 1]
    BY PopLemma
  <1>2. Len(q[l]) \in Nat
    OBVIOUS
  <1>3. \A i \in 1 .. Len(q2[l]) : i + 1 \in 1 .. Len(q[l]) /\ i + 1 # 1
    BY <1>1, <1>2
  <1>4. \A i \in 1 .. Len(q[l]) : i = 1 \/ (i - 1 \in 1 .. Len(q2[l]) /\ i - 1 + 1 = i)
    BY <1>1, <1>2
  <1>5. 1 \in 1 .. Len(q[l])
    BY <1>1, <1>2
  <1>6. WellQueued(q2, pr)
    <2>1. \A i, j \in 1 .. Len(q2[l]) :
             pr[q2[l][i]] = l /\ (q2[l][i] = q2[l][j] => i = j)
      BY <1>1, <1>3 DEF WellQueued
    <2>. QED
      BY <1>1, <2>1 DEF WellQueued
  <1>7. InQueue(q, Head(q[l]))
    BY <1>1, <1>5 DEF InQueue
  <1>8. ASSUME NEW u \in Threads
        PROVE  InQueue(q2, u) <=> InQueue(q, u) /\ u # Head(q[l])
    <2>1. InQueue(q2, u) => InQueue(q, u)
      BY <1>1, <1>3 DEF InQueue
    <2>2. ASSUME InQueue(q2, u), u = Head(q[l])
          PROVE  FALSE
      <3>0. PICK k \in Levels : \E i \in 1 .. Len(q2[k]) : q2[k][i] = u
        BY <2>2, Zenon DEF InQueue
      <3>1. PICK i \in 1 .. Len(q2[k]) : q2[k][i] = u
        BY <3>0
      <3>2. CASE k = l
        BY <3>1, <3>2, <2>2, <1>1, <1>3, <1>5 DEF WellQueued
      <3>3. CASE k # l
        BY <3>1, <3>3, <2>2, <1>1, <1>5 DEF WellQueued
      <3>. QED
        BY <3>2, <3>3
    <2>3. ASSUME InQueue(q, u), u # Head(q[l])
          PROVE  InQueue(q2, u)
      <3>0. PICK k \in Levels : \E i \in 1 .. Len(q[k]) : q[k][i] = u
        BY <2>3, Zenon DEF InQueue
      <3>1. PICK i \in 1 .. Len(q[k]) : q[k][i] = u
        BY <3>0
      <3>2. CASE k = l
        <4>1. i - 1 \in 1 .. Len(q2[l]) /\ q2[l][i - 1] = u
          BY <3>1, <3>2, <2>3, <1>1, <1>4
        <4>. QED
          BY <4>1 DEF InQueue
      <3>3. CASE k # l
        BY <3>1, <3>3, <1>1 DEF InQueue
      <3>. QED
        BY <3>2, <3>3
    <2>. QED
      BY <2>1, <2>2, <2>3
  <1>. QED
    BY <1>6, <1>7, <1>8

-----------------------------------------------------------------------------
(* No thread is lost.                                                      *)

\* Which thread has the processor, and in which state it can be there.
Ownership ==
    /\ context = "main" => runningThread = NoThread
    /\ context = "thread" =>
          /\ runningThread \in Threads
          /\ state[runningThread] \in {"RUNNING", "TERMINATED"}
    /\ context = "schedule" /\ runningThread # NoThread =>
          state[runningThread] # "NEW"
    /\ \A t \in Threads :
          /\ state[t] = "RUNNING" => Holds(t)
          /\ state[t] = "NEW" <=> t >= total_thread
          /\ pc[t] = "exit" <=> state[t] = "TERMINATED"

QueueInv ==
    /\ WellQueued(pendingThreadQueue, priority)
    /\ \A t \in Threads :
          InQueue(pendingThreadQueue, t) <=> state[t] = "READY" /\ ~ Holds(t)

Waiting == {t \in Threads : InQueue(pendingThreadQueue, t)}

CountInv ==
    /\ total_pendingThread = Cardinality(Waiting)
    /\ context = "finished" => total_pendingThread = 0

IInv == TypeOK /\ Due /\ Ownership /\ QueueInv /\ CountInv /\ FinishedQueueSound

\* What a switch does, whichever level the next thread comes from.
LEMMA DispatchEffect ==
  ASSUME TypeOK, QueueInv, Dispatch
  PROVE  /\ runningThread' \in Threads
         /\ state[runningThread'] = "READY"
         /\ state' = [state EXCEPT ![runningThread'] = "RUNNING"]
         /\ WellQueued(pendingThreadQueue', priority)
         /\ InQueue(pendingThreadQueue, runningThread')
         /\ \A u \in Threads : InQueue(pendingThreadQueue', u) <=>
               InQueue(pendingThreadQueue, u) /\ u # runningThread'
         /\ context \in {"pick", "dispatch"} /\ context' = "thread"
         /\ total_pendingThread' = total_pendingThread - 1
         /\ UNCHANGED <<total_thread, priority, finishedThreadQueue, pc>>
  <1>1. PICK l \in Levels :
           /\ pendingThreadQueue[l] # <<>>
           /\ pendingThreadQueue' = [pendingThreadQueue EXCEPT ![l] = Tail(@)]
           /\ runningThread' = Head(pendingThreadQueue[l])
           /\ state' = [state EXCEPT ![runningThread'] = "RUNNING"]
    BY DEF Dispatch, IsTopLevel
  <1>2. /\ context \in {"pick", "dispatch"} /\ context' = "thread"
        /\ total_pendingThread' = total_pendingThread - 1
        /\ UNCHANGED <<total_thread, priority, finishedThreadQueue, pc>>
    BY DEF Dispatch, clientVars
  <1>3. /\ pendingThreadQueue \in [Levels -> Seq(Threads)]
        /\ WellQueued(pendingThreadQueue, priority)
    BY DEF TypeOK, QueueInv
  <1>4. runningThread' \in Threads
    BY <1>1, <1>3, PopLemma
  <1>5. Popped(pendingThreadQueue, pendingThreadQueue', l)
    BY <1>1 DEF Popped
  <1>6. /\ WellQueued(pendingThreadQueue', priority)
        /\ InQueue(pendingThreadQueue, Head(pendingThreadQueue[l]))
        /\ \A u \in Threads : InQueue(pendingThreadQueue', u) <=>
              InQueue(pendingThreadQueue, u) /\ u # Head(pendingThreadQueue[l])
    BY <1>3, <1>5, PopKeepsQueues
  <1>7. state[runningThread'] = "READY"
    BY <1>1, <1>4, <1>6 DEF QueueInv
  <1>. QED
    BY <1>1, <1>2, <1>4, <1>6, <1>7

(* Every step keeps the owner of each frame and the frame of each thread. *)
LEMMA OwnershipStep ==
  ASSUME IInv, [Next]_vars
  PROVE  Ownership'
  <1>. USE DEF Ownership, Holds, NoThread
  <1>. TypeOK /\ Due /\ Ownership
    BY DEF IInv
  <1>1. CASE my_pthread_create
    <2>1. /\ context = "main" /\ context' = "main" /\ runningThread = NoThread
          /\ runningThread' = NoThread /\ total_thread \in Threads
          /\ total_thread' = total_thread + 1
          /\ state' = [state EXCEPT ![total_thread] = "READY"] /\ pc' = pc
      BY <1>1, ThreadsAssumption
         DEF my_pthread_create, clientVars, TypeOK, Threads
    <2>2. ASSUME NEW t \in Threads
          PROVE  /\ state'[t] = "RUNNING" => Holds(t)'
                 /\ state'[t] = "NEW" <=> t >= total_thread'
                 /\ pc'[t] = "exit" <=> state'[t] = "TERMINATED"
      <3>1. state[total_thread] = "NEW"
        BY <2>1 DEF Threads
      <3>2. t \in Int /\ total_thread \in Int
        BY <2>1 DEF Threads
      <3>3. CASE t = total_thread
        BY <2>1, <3>1, <3>2, <3>3 DEF TypeOK
      <3>4. CASE t # total_thread
        BY <2>1, <3>2, <3>4 DEF TypeOK
      <3>. QED
        BY <3>3, <3>4
    <2>. QED
      BY <2>1, <2>2
  <1>2. CASE MainTick
    BY <1>2 DEF MainTick, threadVars, clientVars
  <1>3. ASSUME NEW t \in Threads, signal_handler(t)
        PROVE  Ownership'
    <2>1. /\ context = "thread" /\ runningThread = t /\ context' = "schedule"
          /\ state' = [state EXCEPT ![t] = IF @ = "RUNNING" THEN "READY" ELSE @]
          /\ UNCHANGED <<runningThread, total_thread, pc>>
      BY <1>3 DEF signal_handler, Runs, clientVars
    <2>. QED
      BY <2>1 DEF TypeOK
  <1>4. CASE HandleRunningThread
    <2>1. /\ context = "schedule" /\ context' = "pick"
          /\ UNCHANGED <<runningThread, total_thread, pc>>
      BY <1>4 DEF HandleRunningThread, clientVars
    <2>2. CASE runningThread # NoThread /\ state[runningThread] \in {"READY", "RUNNING"}
      <3>1. state' = [state EXCEPT ![runningThread] = "READY"]
        BY <1>4, <2>2, Zenon DEF HandleRunningThread
      <3>. QED
        BY <2>1, <2>2, <3>1 DEF TypeOK
    <2>3. CASE runningThread = NoThread \/ state[runningThread] = "TERMINATED"
      <3>1. state' = state
        BY <1>4, <2>3 DEF HandleRunningThread
      <3>. QED
        BY <2>1, <2>3, <3>1 DEF TypeOK, Threads
    <2>. QED
      BY <1>4, <2>2, <2>3, Zenon DEF HandleRunningThread
  <1>5. CASE threadPriority_scan
    BY <1>5, ScanEffect DEF clientVars
  <1>6. CASE Dispatch
    BY <1>6, DispatchEffect DEF IInv, TypeOK
  <1>7. CASE FinishAll
    BY <1>7 DEF FinishAll, threadVars, clientVars
  <1>8. ASSUME NEW t \in Threads, ThreadStep(t)
        PROVE  Ownership'
    <2>. USE DEF At, Goto, Runs, schedulerVars, threadVars
    <2>1. CASE my_pthread_exit(t)
      <3>1. /\ context = "thread" /\ runningThread = t
            /\ UNCHANGED <<context, runningThread, total_thread>>
            /\ state' = [state EXCEPT ![t] = "TERMINATED"]
            /\ pc' = [pc EXCEPT ![t] = "exit"] /\ pc[t] = "user"
        BY <2>1 DEF my_pthread_exit
      <3>. QED
        BY <3>1 DEF TypeOK
    <2>2. CASE ~ my_pthread_exit(t)
      <3>1. /\ context = "thread" /\ runningThread = t
            /\ context' \in {"thread", "schedule"}
            /\ UNCHANGED <<runningThread, total_thread, state>>
        BY <1>8, <2>2 DEF ThreadStep, my_pthread_yield, CallLock,
             my_pthread_mutex_lock, my_pthread_mutex_unlock, CallJoin,
             my_pthread_join, ExitSwitch
      <3>2. \A u \in Threads : pc'[u] = "exit" <=> pc[u] = "exit"
        BY <1>8, <2>2 DEF ThreadStep, my_pthread_yield, CallLock,
             my_pthread_mutex_lock, my_pthread_mutex_unlock, CallJoin,
             my_pthread_join, ExitSwitch, clientVars, TypeOK
      <3>. QED
        BY <3>1, <3>2
    <2>. QED
      BY <2>1, <2>2
  <1>9. CASE Done \/ UNCHANGED vars
    BY <1>9 DEF Done, vars, threadVars, clientVars
  <1>. QED
    BY <1>1, <1>2, <1>3, <1>4, <1>5, <1>6, <1>7, <1>8, <1>9
       DEF Next, Tick, schedule

(* Every step keeps each created thread in one place. *)
LEMMA QueueStep ==
  ASSUME IInv, [Next]_vars
  PROVE  QueueInv'
  <1>. USE DEF NoThread
  <1>. TypeOK /\ Due /\ Ownership /\ QueueInv
    BY DEF IInv
  <1>0. ASSUME UNCHANGED <<pendingThreadQueue, priority>>,
               \A t \in Threads : (state[t] = "READY" /\ ~ Holds(t))'
                                    <=> state[t] = "READY" /\ ~ Holds(t)
        PROVE  QueueInv'
    BY <1>0 DEF QueueInv
  <1>1. CASE my_pthread_create
    <2>1. /\ context = "main" /\ context' = "main" /\ total_thread \in Threads
          /\ QUEUELEVEL - 1 \in Levels
          /\ state' = [state EXCEPT ![total_thread] = "READY"]
          /\ priority' = [priority EXCEPT ![total_thread] = QUEUELEVEL - 1]
          /\ pendingThreadQueue' = [pendingThreadQueue EXCEPT
               ![QUEUELEVEL - 1] = Append(@, total_thread)]
      BY <1>1, ThreadsAssumption, QueueAssumption
         DEF my_pthread_create, multiQueue_push, TypeOK, Threads, Levels
    <2>2. state[total_thread] = "NEW"
      BY <2>1 DEF Ownership, Threads
    <2>3. ~ InQueue(pendingThreadQueue, total_thread)
      BY <2>1, <2>2 DEF QueueInv
    <2>4. WellQueued(pendingThreadQueue, priority')
      <3>1. \A l \in Levels : \A i \in 1 .. Len(pendingThreadQueue[l]) :
               /\ pendingThreadQueue[l][i] \in Threads
               /\ pendingThreadQueue[l][i] # total_thread
        BY <2>1, <2>3 DEF InQueue, TypeOK
      <3>. QED
        BY <2>1, <3>1 DEF WellQueued, QueueInv, TypeOK
    <2>5. priority'[total_thread] = QUEUELEVEL - 1
      BY <2>1 DEF TypeOK
    <2>6. /\ WellQueued(pendingThreadQueue', priority')
          /\ \A u \in Threads : InQueue(pendingThreadQueue', u) <=>
                InQueue(pendingThreadQueue, u) \/ u = total_thread
      <3>1. pendingThreadQueue \in [Levels -> Seq(Threads)]
        BY DEF TypeOK
      <3>2. Pushed(pendingThreadQueue, pendingThreadQueue', total_thread, QUEUELEVEL - 1)
        BY <2>1 DEF Pushed
      <3>3. ASSUME NEW l \in Levels, priority'[total_thread] = l,
                   Pushed(pendingThreadQueue, pendingThreadQueue', total_thread, l)
            PROVE  /\ WellQueued(pendingThreadQueue', priority')
                   /\ \A u \in Threads : InQueue(pendingThreadQueue', u) <=>
                         InQueue(pendingThreadQueue, u) \/ u = total_thread
        <4>1. total_thread \in Threads
          BY <2>1
        <4>. QED
          BY <4>1, <2>3, <2>4, <3>1, <3>3, PushKeepsQueues
      <3>. QED
        BY <2>1, <2>5, <3>2, <3>3
    <2>. QED
      BY <2>1, <2>6 DEF QueueInv, Holds, TypeOK
  <1>2. CASE MainTick
    BY <1>0, <1>2 DEF MainTick, threadVars, queueVars, Holds, Ownership, Threads
  <1>3. ASSUME NEW t \in Threads, signal_handler(t)
        PROVE  QueueInv'
    <2>1. /\ context = "thread" /\ runningThread = t /\ context' = "schedule"
          /\ state' = [state EXCEPT ![t] = IF @ = "RUNNING" THEN "READY" ELSE @]
          /\ priority' = [priority EXCEPT ![t] = IF @ >= 1 THEN @ - 1 ELSE @]
          /\ UNCHANGED <<runningThread, pendingThreadQueue>>
      BY <1>3 DEF signal_handler, Runs, queueVars
    <2>2. ~ InQueue(pendingThreadQueue, t)
      BY <2>1 DEF QueueInv, Holds
    <2>3. WellQueued(pendingThreadQueue, priority')
      <3>1. \A l \in Levels : \A i \in 1 .. Len(pendingThreadQueue[l]) :
               /\ pendingThreadQueue[l][i] \in Threads
               /\ pendingThreadQueue[l][i] # t
        BY <2>2 DEF InQueue, TypeOK
      <3>2. \A u \in Threads : u # t => priority'[u] = priority[u]
        BY <2>1 DEF TypeOK
      <3>. QED
        BY <3>1, <3>2 DEF WellQueued, QueueInv
    <2>. QED
      BY <2>1, <2>3 DEF QueueInv, Holds, TypeOK
  <1>4. CASE HandleRunningThread
    <2>1. /\ context = "schedule" /\ context' = "pick"
          /\ UNCHANGED <<runningThread, priority>>
      BY <1>4 DEF HandleRunningThread
    <2>2. CASE runningThread # NoThread /\ state[runningThread] \in {"READY", "RUNNING"}
      <3>1. /\ state' = [state EXCEPT ![runningThread] = "READY"]
            /\ multiQueue_push(runningThread, priority[runningThread])
        BY <1>4, <2>2, Zenon DEF HandleRunningThread
      <3>2. runningThread \in Threads /\ priority[runningThread] \in Levels
        BY <2>2 DEF TypeOK
      <3>3. ~ InQueue(pendingThreadQueue, runningThread)
        BY <2>1, <3>2 DEF QueueInv, Holds
      <3>4. /\ WellQueued(pendingThreadQueue', priority)
            /\ \A u \in Threads : InQueue(pendingThreadQueue', u) <=>
                  InQueue(pendingThreadQueue, u) \/ u = runningThread
        <4>1. /\ pendingThreadQueue \in [Levels -> Seq(Threads)]
              /\ WellQueued(pendingThreadQueue, priority)
          BY DEF TypeOK, QueueInv
        <4>2. Pushed(pendingThreadQueue, pendingThreadQueue', runningThread,
                     priority[runningThread])
          BY <3>1 DEF multiQueue_push, Pushed
        <4>. QED
          BY <3>2, <3>3, <4>1, <4>2, PushKeepsQueues
      <3>. QED
        BY <2>1, <3>1, <3>2, <3>4 DEF QueueInv, Holds, TypeOK
    <2>3. CASE runningThread = NoThread \/ state[runningThread] = "TERMINATED"
      <3>1. UNCHANGED <<state, pendingThreadQueue>>
        BY <1>4, <2>3 DEF HandleRunningThread, queueVars
      <3>. QED
        BY <1>0, <2>1, <2>3, <3>1 DEF Holds, Threads
    <2>. QED
      BY <1>4, <2>2, <2>3, Zenon DEF HandleRunningThread
  <1>5. CASE threadPriority_scan
    <2>1. PICK R : R = {t \in Threads : Raised(t)}
      OBVIOUS
    <2>2. PICK q \in [Levels -> Seq(Threads)] : q = pendingThreadQueue
      BY DEF TypeOK
    <2>3. PICK pr \in [Threads -> Levels] : pr = priority
      BY DEF TypeOK
    <2>4. /\ pendingThreadQueue' = Scanned(q, R) /\ priority' = Lifted(q, pr, R)
          /\ R \in SUBSET Threads /\ \A t \in R : pr[t] < QUEUELEVEL - 1
      BY <1>5, <2>1, <2>2, <2>3, ScanEffect
    <2>5. /\ WellQueued(Scanned(q, R), Lifted(q, pr, R))
          /\ \A t \in Threads : InQueue(Scanned(q, R), t) <=> InQueue(q, t)
      BY <2>2, <2>3, <2>4, ScanKeepsQueues DEF QueueInv
    <2>6. \A t \in Threads : (state[t] = "READY" /\ ~ Holds(t))'
                                <=> state[t] = "READY" /\ ~ Holds(t)
      BY <1>5, ScanEffect DEF Holds
    <2>. QED
      BY <2>2, <2>4, <2>5, <2>6 DEF QueueInv
  <1>6. CASE Dispatch
    BY <1>6, DispatchEffect DEF QueueInv, Holds, TypeOK
  <1>7. CASE FinishAll
    BY <1>0, <1>7 DEF FinishAll, threadVars, queueVars, Holds
  <1>8. ASSUME NEW t \in Threads, ThreadStep(t)
        PROVE  QueueInv'
    <2>. USE DEF At, Goto, Runs, schedulerVars, threadVars, queueVars
    <2>1. CASE my_pthread_exit(t)
      <3>1. /\ context = "thread" /\ runningThread = t
            /\ UNCHANGED <<context, runningThread, pendingThreadQueue, priority>>
            /\ state' = [state EXCEPT ![t] = "TERMINATED"]
        BY <2>1 DEF my_pthread_exit
      <3>. QED
        BY <1>0, <3>1 DEF Holds, TypeOK
    <2>2. CASE ~ my_pthread_exit(t)
      <3>1. /\ context = "thread" /\ runningThread = t
            /\ context' \in {"thread", "schedule"}
            /\ UNCHANGED <<runningThread, state, pendingThreadQueue, priority>>
        BY <1>8, <2>2 DEF ThreadStep, my_pthread_yield, CallLock,
             my_pthread_mutex_lock, my_pthread_mutex_unlock, CallJoin,
             my_pthread_join, ExitSwitch
      <3>. QED
        BY <1>0, <3>1 DEF Holds
    <2>. QED
      BY <2>1, <2>2
  <1>9. CASE Done \/ UNCHANGED vars
    BY <1>0, <1>9 DEF Done, vars, threadVars, queueVars, Holds
  <1>. QED
    BY <1>1, <1>2, <1>3, <1>4, <1>5, <1>6, <1>7, <1>8, <1>9
       DEF Next, Tick, schedule

(* Only finitely many threads wait in the ready queues. *)
LEMMA WaitingFinite == IsFiniteSet(Waiting)
  BY ThreadsFinite, FS_Subset DEF Waiting

\* A step that leaves the queues alone leaves the set of waiting threads alone.
LEMMA CountStep ==
  ASSUME IInv, [Next]_vars
  PROVE  CountInv'
  <1>. USE DEF NoThread
  <1>. TypeOK /\ Due /\ Ownership /\ QueueInv /\ CountInv
    BY DEF IInv
  <1>0. ASSUME UNCHANGED <<pendingThreadQueue, total_pendingThread>>,
               context' = "finished" => total_pendingThread = 0
        PROVE  CountInv'
    BY <1>0 DEF CountInv, Waiting
  \* A push of a thread that was not waiting counts one more.
  <1>p. ASSUME NEW t \in Threads, NEW l \in Levels, multiQueue_push(t, l),
               ~ InQueue(pendingThreadQueue, t), context' # "finished",
               \A u \in Threads : InQueue(pendingThreadQueue', u) <=>
                  InQueue(pendingThreadQueue, u) \/ u = t
        PROVE  CountInv'
    <2>1. Waiting' = Waiting \cup {t} /\ t \notin Waiting
      BY <1>p DEF Waiting
    <2>2. Cardinality(Waiting \cup {t}) = Cardinality(Waiting) + 1
      BY <2>1, WaitingFinite, FS_AddElement
    <2>. QED
      BY <1>p, <2>1, <2>2 DEF CountInv, multiQueue_push
  <1>1. CASE my_pthread_create
    <2>1. /\ context = "main" /\ context' = "main" /\ total_thread \in Threads
          /\ QUEUELEVEL - 1 \in Levels
          /\ multiQueue_push(total_thread, QUEUELEVEL - 1)
          /\ state' = [state EXCEPT ![total_thread] = "READY"]
      BY <1>1, ThreadsAssumption, QueueAssumption
         DEF my_pthread_create, TypeOK, Threads, Levels
    <2>2. state[total_thread] = "NEW"
      BY <2>1 DEF Ownership, Threads
    <2>3. ~ InQueue(pendingThreadQueue, total_thread)
      BY <2>1, <2>2 DEF QueueInv
    <2>4. QueueInv'
      BY QueueStep
    <2>5. \A u \in Threads : InQueue(pendingThreadQueue', u) <=>
             InQueue(pendingThreadQueue, u) \/ u = total_thread
      BY <2>1, <2>4 DEF QueueInv, Holds, TypeOK
    <2>. QED
      BY <2>1, <2>3, <2>5, <1>p
  <1>2. CASE MainTick
    BY <1>0, <1>2 DEF MainTick, queueVars
  <1>3. ASSUME NEW t \in Threads, signal_handler(t)
        PROVE  CountInv'
    BY <1>0, <1>3 DEF signal_handler, queueVars
  <1>4. CASE HandleRunningThread
    <2>1. /\ context = "schedule" /\ context' = "pick"
          /\ UNCHANGED runningThread
      BY <1>4 DEF HandleRunningThread
    <2>2. CASE runningThread # NoThread /\ state[runningThread] \in {"READY", "RUNNING"}
      <3>1. /\ state' = [state EXCEPT ![runningThread] = "READY"]
            /\ multiQueue_push(runningThread, priority[runningThread])
        BY <1>4, <2>2, Zenon DEF HandleRunningThread
      <3>2. runningThread \in Threads /\ priority[runningThread] \in Levels
        BY <2>2 DEF TypeOK
      <3>3. ~ InQueue(pendingThreadQueue, runningThread)
        BY <2>1, <3>2 DEF QueueInv, Holds
      <3>4. QueueInv'
        BY QueueStep
      <3>5. \A u \in Threads : InQueue(pendingThreadQueue', u) <=>
               InQueue(pendingThreadQueue, u) \/ u = runningThread
        BY <2>1, <3>1, <3>2, <3>4 DEF QueueInv, Holds, TypeOK
      <3>. QED
        BY <2>1, <3>1, <3>2, <3>3, <3>5, <1>p
    <2>3. CASE runningThread = NoThread \/ state[runningThread] = "TERMINATED"
      <3>1. UNCHANGED <<pendingThreadQueue, total_pendingThread>>
        BY <1>4, <2>3 DEF HandleRunningThread, queueVars
      <3>. QED
        BY <1>0, <2>1, <3>1
    <2>. QED
      BY <1>4, <2>2, <2>3, Zenon DEF HandleRunningThread
  <1>5. CASE threadPriority_scan
    <2>1. QueueInv'
      BY QueueStep
    <2>2. /\ UNCHANGED <<state, total_pendingThread>>
          /\ context = "pick" /\ context' = "dispatch"
      BY <1>5, ScanEffect
    <2>3. \A u \in Threads : InQueue(pendingThreadQueue', u) <=>
             InQueue(pendingThreadQueue, u)
      BY <2>1, <2>2 DEF QueueInv, Holds
    <2>4. Waiting' = Waiting
      BY <2>3 DEF Waiting
    <2>. QED
      BY <2>2, <2>4 DEF CountInv
  <1>6. CASE Dispatch
    <2>1. Waiting' = Waiting \ {runningThread'} /\ runningThread' \in Waiting
      BY <1>6, DispatchEffect DEF Waiting
    <2>2. Cardinality(Waiting \ {runningThread'}) = Cardinality(Waiting) - 1
      BY <2>1, WaitingFinite, FS_RemoveElement
    <2>. QED
      BY <1>6, <2>1, <2>2, DispatchEffect DEF CountInv
  <1>7. CASE FinishAll
    BY <1>0, <1>7 DEF FinishAll, queueVars, TypeOK
  <1>8. ASSUME NEW t \in Threads, ThreadStep(t)
        PROVE  CountInv'
    <2>1. UNCHANGED <<pendingThreadQueue, total_pendingThread>>
      BY <1>8 DEF ThreadStep, schedulerVars, queueVars, my_pthread_yield, CallLock,
           my_pthread_mutex_lock, my_pthread_mutex_unlock, CallJoin,
           my_pthread_join, my_pthread_exit, ExitSwitch
    <2>2. context' # "finished"
      BY <1>8 DEF ThreadStep, At, Runs, my_pthread_yield, CallLock,
           my_pthread_mutex_lock, my_pthread_mutex_unlock, CallJoin,
           my_pthread_join, my_pthread_exit, ExitSwitch
    <2>. QED
      BY <2>1, <2>2, <1>0
  <1>9. CASE Done \/ UNCHANGED vars
    BY <1>0, <1>9 DEF Done, vars, queueVars, CountInv
  <1>. QED
    BY <1>1, <1>2, <1>3, <1>4, <1>5, <1>6, <1>7, <1>8, <1>9
       DEF Next, Tick, schedule

(* Every step keeps the finished queue made of exited threads, each once. *)
LEMMA FinishedStep ==
  ASSUME IInv, [Next]_vars
  PROVE  FinishedQueueSound'
  <1>. USE DEF NoThread
  <1>. TypeOK /\ Due /\ Ownership /\ FinishedQueueSound
    BY DEF IInv
  <1>0. ASSUME UNCHANGED finishedThreadQueue,
               \A t \in Threads : (state[t] = "TERMINATED" /\ ~ Holds(t))'
                                    <=> state[t] = "TERMINATED" /\ ~ Holds(t)
        PROVE  FinishedQueueSound'
    BY <1>0 DEF FinishedQueueSound, Contains
  <1>1. CASE my_pthread_create
    <2>1. /\ context = "main" /\ context' = "main" /\ total_thread \in Threads
          /\ state' = [state EXCEPT ![total_thread] = "READY"]
          /\ UNCHANGED finishedThreadQueue
      BY <1>1, ThreadsAssumption DEF my_pthread_create, TypeOK, Threads
    <2>2. state[total_thread] = "NEW"
      BY <2>1 DEF Ownership, Threads
    <2>. QED
      BY <1>0, <2>1, <2>2 DEF Holds, TypeOK
  <1>2. CASE MainTick
    BY <1>0, <1>2 DEF MainTick, threadVars, queueVars, Holds, Ownership, Threads
  <1>3. ASSUME NEW t \in Threads, signal_handler(t)
        PROVE  FinishedQueueSound'
    <2>1. /\ context = "thread" /\ runningThread = t /\ context' = "schedule"
          /\ state' = [state EXCEPT ![t] = IF @ = "RUNNING" THEN "READY" ELSE @]
          /\ UNCHANGED <<runningThread, finishedThreadQueue>>
      BY <1>3 DEF signal_handler, Runs, queueVars
    <2>. QED
      BY <1>0, <2>1 DEF Holds, TypeOK
  <1>4. CASE HandleRunningThread
    <2>1. /\ context = "schedule" /\ context' = "pick" /\ UNCHANGED runningThread
      BY <1>4 DEF HandleRunningThread
    <2>2. CASE runningThread # NoThread /\ state[runningThread] \in {"READY", "RUNNING"}
      <3>1. /\ state' = [state EXCEPT ![runningThread] = "READY"]
            /\ UNCHANGED finishedThreadQueue
        BY <1>4, <2>2, Zenon DEF HandleRunningThread
      <3>. QED
        BY <1>0, <2>1, <2>2, <3>1 DEF Holds, TypeOK
    <2>3. CASE runningThread # NoThread /\ state[runningThread] = "TERMINATED"
      <3>1. /\ runningThread \in Threads
            /\ finishedThreadQueue' = Append(finishedThreadQueue, runningThread)
            /\ UNCHANGED state
        BY <1>4, <2>3 DEF HandleRunningThread, TypeOK
      <3>2. \A u \in Threads : Contains(finishedThreadQueue', u) <=>
               Contains(finishedThreadQueue, u) \/ u = runningThread
        <4>1. /\ Len(finishedThreadQueue) \in Nat
              /\ Len(finishedThreadQueue') = Len(finishedThreadQueue) + 1
              /\ \A i \in 1 .. Len(finishedThreadQueue) :
                    finishedThreadQueue'[i] = finishedThreadQueue[i]
              /\ finishedThreadQueue'[Len(finishedThreadQueue) + 1] = runningThread
          BY <3>1 DEF TypeOK
        <4>2. \A i \in 1 .. Len(finishedThreadQueue') :
                 i \in 1 .. Len(finishedThreadQueue) \/ i = Len(finishedThreadQueue) + 1
          BY <4>1
        <4>3. \A i \in 1 .. Len(finishedThreadQueue) + 1 :
                 i \in 1 .. Len(finishedThreadQueue')
          BY <4>1
        <4>. QED
          BY <4>1, <4>2, <4>3 DEF Contains
      <3>. QED
        BY <2>1, <2>3, <3>1, <3>2 DEF FinishedQueueSound, Holds
    <2>4. CASE runningThread = NoThread
      <3>1. UNCHANGED <<state, finishedThreadQueue>>
        BY <1>4, <2>4 DEF HandleRunningThread, queueVars
      <3>. QED
        BY <1>0, <2>1, <2>4, <3>1 DEF Holds, Threads
    <2>. QED
      BY <1>4, <2>2, <2>3, <2>4, Zenon DEF HandleRunningThread
  <1>5. CASE threadPriority_scan
    BY <1>0, <1>5, ScanEffect DEF Holds
  <1>6. CASE Dispatch
    <2>. QueueInv
      BY DEF IInv
    <2>. QED
      BY <1>0, <1>6, DispatchEffect DEF Holds, TypeOK
  <1>7. CASE FinishAll
    BY <1>0, <1>7 DEF FinishAll, threadVars, queueVars, Holds
  <1>8. ASSUME NEW t \in Threads, ThreadStep(t)
        PROVE  FinishedQueueSound'
    <2>. USE DEF At, Goto, Runs, schedulerVars, threadVars, queueVars
    <2>1. CASE my_pthread_exit(t)
      <3>1. /\ context = "thread" /\ runningThread = t
            /\ UNCHANGED <<context, runningThread, finishedThreadQueue>>
            /\ state' = [state EXCEPT ![t] = "TERMINATED"]
        BY <2>1 DEF my_pthread_exit
      <3>. QED
        BY <1>0, <3>1 DEF Holds, TypeOK
    <2>2. CASE ~ my_pthread_exit(t)
      <3>1. /\ context = "thread" /\ runningThread = t
            /\ context' \in {"thread", "schedule"}
            /\ UNCHANGED <<runningThread, state, finishedThreadQueue>>
        BY <1>8, <2>2 DEF ThreadStep, my_pthread_yield, CallLock,
             my_pthread_mutex_lock, my_pthread_mutex_unlock, CallJoin,
             my_pthread_join, ExitSwitch
      <3>. QED
        BY <1>0, <3>1 DEF Holds
    <2>. QED
      BY <2>1, <2>2
  <1>9. CASE Done \/ UNCHANGED vars
    BY <1>0, <1>9 DEF Done, vars, threadVars, queueVars, Holds
  <1>. QED
    BY <1>1, <1>2, <1>3, <1>4, <1>5, <1>6, <1>7, <1>8, <1>9
       DEF Next, Tick, schedule

(* The whole invariant holds at the start. *)
LEMMA InvInit == Init => IInv
  <1>. SUFFICES ASSUME Init PROVE IInv
    OBVIOUS
  <1>1. TypeOK /\ Due
    BY TypeInit
  <1>2. Ownership
    BY ThreadsAssumption DEF Init, Ownership, Threads, Holds, NoThread
  <1>3. QueueInv /\ Waiting = {}
    BY DEF Init, QueueInv, InQueue, WellQueued, Waiting, Threads, NoThread
  <1>4. CountInv
    BY <1>3, FS_EmptySet DEF Init, CountInv
  <1>5. FinishedQueueSound
    BY DEF Init, FinishedQueueSound, Contains
  <1>. QED
    BY <1>1, <1>2, <1>3, <1>4, <1>5 DEF IInv

(* Every step keeps the whole invariant. *)
LEMMA InvStep ==
  ASSUME IInv, [Next]_vars
  PROVE  IInv'
  <1>1. TypeOK' /\ Due'
    BY TypeStep DEF IInv
  <1>. QED
    BY <1>1, OwnershipStep, QueueStep, CountStep, FinishedStep DEF IInv

(* The whole invariant holds in every state. *)
LEMMA Invariance ==
  Spec => []IInv
  <1>1. IInv /\ [Next]_vars => IInv'
    BY InvStep
  <1>. QED
    BY InvInit, <1>1, PTL DEF Spec

\* What IInv says, in the terms of module Scheduler.
LEMMA InvImplies ==
  ASSUME IInv
  PROVE  /\ NoThreadLost
         /\ FinishedQueueSound
         /\ PendingCount
         /\ NoNullPop
         /\ FinishedMeansDone
  <1>. /\ TypeOK /\ Due /\ Ownership /\ QueueInv /\ CountInv
       /\ FinishedQueueSound
    BY DEF IInv
  <1>1. \A t \in Threads : Queued(t) <=> InQueue(pendingThreadQueue, t)
    BY QueuedIsInQueue
  <1>2. NoThreadLost
    <2>1. \A l \in Levels : DOMAIN pendingThreadQueue[l] = 1 .. Len(pendingThreadQueue[l])
      BY DEF TypeOK
    <2>. QED
      BY <1>1, <2>1 DEF NoThreadLost, QueueInv, WellQueued
  <1>3. PendingCount
    <2>1. {t \in Threads : Queued(t)} = Waiting
      BY <1>1 DEF Waiting
    <2>. QED
      BY <2>1 DEF PendingCount, CountInv
  <1>4. NoNullPop
    <2>1. ASSUME total_pendingThread > 0
          PROVE  ~ multiQueue_empty
      <3>1. Waiting # {}
        BY <2>1, FS_EmptySet DEF CountInv
      <3>2. PICK t \in Threads : InQueue(pendingThreadQueue, t)
        BY <3>1 DEF Waiting
      <3>. QED
        BY <3>2 DEF InQueue, multiQueue_empty
    <2>. QED
      BY <2>1 DEF NoNullPop, Due
  <1>5. FinishedMeansDone
    <2>. SUFFICES ASSUME context = "finished", NEW t \in Created
                  PROVE  state[t] = "TERMINATED"
      BY DEF FinishedMeansDone
    <2>1. Waiting = {}
      BY WaitingFinite, FS_EmptySet DEF CountInv
    <2>2. ~ Holds(t) /\ t \in Threads /\ state[t] # "NEW" /\ state[t] \in States
      BY DEF Holds, Created, TypeOK
    <2>3. state[t] # "READY"
      BY <2>1, <2>2 DEF QueueInv, Waiting
    <2>. QED
      BY <2>2, <2>3 DEF Ownership, States
  <1>. QED
    BY <1>2, <1>3, <1>4, <1>5

\* Ticks, yields and exits in any order lose no thread and queue none twice;
\* the counter that schedule() trusts is exact, so it neither pops an empty
\* queue nor ends the process while a thread is left.
THEOREM QueueCorrect ==
  Spec => [](/\ NoThreadLost
             /\ FinishedQueueSound
             /\ PendingCount
             /\ NoNullPop
             /\ FinishedMeansDone)
  <1>1. IInv => /\ NoThreadLost
                /\ FinishedQueueSound
                /\ PendingCount
                /\ NoNullPop
                /\ FinishedMeansDone
    BY InvImplies
  <1>. QED
    BY <1>1, Invariance, PTL

\* total_pendingThread, which ends the process when it falls to 0 and which
\* schedule() and the timer handler count up and down, is the number of threads
\* in the queues.
THEOREM CountCorrect ==
  Spec => []PendingCount
  <1>1. IInv => PendingCount
    BY InvImplies
  <1>. QED
    BY <1>1, Invariance, PTL

-----------------------------------------------------------------------------
(* Frames.                                                                 *)

FrameInv ==
    /\ \A t, u \in Threads : frame[t] = frame[u] /\ t # u => frame[t] = NoFrame
    /\ protected = IF runningThread = NoThread THEN {} ELSE NotUsable(runningThread)

(* Every step leaves exactly the running thread's frame open. *)
LEMMA FrameStep ==
  ASSUME IInv, FrameInv, [Next]_vars
  PROVE  FrameInv'
  <1>. USE DEF NoThread
  <1>. TypeOK /\ Ownership
    BY DEF IInv
  <1>0. ASSUME UNCHANGED <<frame, protected, runningThread>>
        PROVE  FrameInv'
    BY <1>0 DEF FrameInv, NotUsable
  <1>1. CASE my_pthread_create
    <2>1. /\ total_thread \in Threads /\ runningThread = NoThread
          /\ UNCHANGED <<runningThread, protected>>
      BY <1>1, ThreadsAssumption DEF my_pthread_create, Ownership, TypeOK, Threads
    <2>2. PICK f \in Frames \cup {NoFrame} :
             find_free_frame(f) /\ frame' = [frame EXCEPT ![total_thread] = f]
      BY <1>1 DEF my_pthread_create
    <2>3. f # NoFrame => \A t \in Threads : frame[t] # f
      BY <2>2 DEF find_free_frame, Owned
    <2>. QED
      BY <2>1, <2>2, <2>3 DEF FrameInv, TypeOK
  <1>2. CASE Dispatch
    <2>1. /\ frame' = frame
          /\ runningThread' \in Threads
          /\ protected' = (IF runningThread = NoThread THEN protected
                           ELSE protected \ NotUsable(runningThread))
                          \cup NotUsable(runningThread')
      BY <1>2, DispatchEffect DEF Dispatch, IInv
    <2>2. NotUsable(runningThread)' = NotUsable(runningThread')
      BY <2>1 DEF NotUsable
    <2>3. protected' = NotUsable(runningThread')
      BY <2>1 DEF FrameInv
    <2>4. runningThread' # NoThread
      BY <2>1 DEF Threads
    <2>. QED
      BY <2>1, <2>2, <2>3, <2>4 DEF FrameInv
  <1>3. CASE Tick \/ HandleRunningThread \/ threadPriority_scan \/ FinishAll
    <2>1. UNCHANGED <<frame, protected, runningThread>>
      BY <1>3 DEF Tick, MainTick, signal_handler, HandleRunningThread,
           threadPriority_scan, FinishAll, memVars
    <2>. QED
      BY <1>0, <2>1
  <1>4. ASSUME NEW t \in Threads, ThreadStep(t)
        PROVE  FrameInv'
    <2>1. UNCHANGED <<frame, protected, runningThread>>
      BY <1>4 DEF ThreadStep, schedulerVars, memVars, my_pthread_yield, CallLock,
           my_pthread_mutex_lock, my_pthread_mutex_unlock, CallJoin,
           my_pthread_join, my_pthread_exit, ExitSwitch
    <2>. QED
      BY <1>0, <2>1
  <1>5. CASE Done \/ UNCHANGED vars
    BY <1>0, <1>5 DEF Done, vars, memVars
  <1>. QED
    BY <1>1, <1>2, <1>3, <1>4, <1>5 DEF Next, schedule

\* Whatever was switched to whatever, the two page_protect calls leave the
\* running thread its own frame and nobody else's.
THEOREM FramesCorrect ==
  Spec => []FrameIsolation
  <1>1. Init => FrameInv
    BY DEF Init, FrameInv
  <1>2. IInv /\ FrameInv /\ [Next]_vars => FrameInv'
    BY FrameStep
  <1>3. IInv /\ FrameInv => FrameIsolation
    BY DEF IInv, Ownership, FrameInv, FrameIsolation, Threads, NoThread
  <1>. QED
    BY <1>1, <1>2, <1>3, Invariance, PTL DEF Spec

-----------------------------------------------------------------------------
(* Action properties.                                                      *)

\* With `debug' off `round' never leaves 1 and schedule() never scans.
NoScan == round = 1 /\ context # "dispatch"

(* Every step keeps out of the scan. *)
LEMMA NoScanStep ==
  ASSUME Debug = FALSE, TypeOK, NoScan, [Next]_vars
  PROVE  NoScan'
  <1>. USE DEF NoScan
  <1>1. CASE threadPriority_scan
    BY <1>1, ScanNeverDue DEF threadPriority_scan, TypeOK
  <1>2. CASE my_pthread_create \/ Tick \/ HandleRunningThread \/ Dispatch \/ FinishAll
    BY <1>2 DEF my_pthread_create, Tick, MainTick, signal_handler,
         HandleRunningThread, Dispatch, FinishAll
  <1>3. ASSUME NEW t \in Threads, ThreadStep(t)
        PROVE  NoScan'
    BY <1>3 DEF ThreadStep, At, Runs, schedulerVars, my_pthread_yield, CallLock,
         my_pthread_mutex_lock, my_pthread_mutex_unlock, CallJoin,
         my_pthread_join, my_pthread_exit, ExitSwitch
  <1>4. CASE Done \/ UNCHANGED vars
    BY <1>4 DEF Done, vars
  <1>. QED
    BY <1>1, <1>2, <1>3, <1>4 DEF Next, schedule

\* Without the scan nothing raises the priority of a created thread: a tick
\* lowers it and everything else leaves it alone.
THEOREM PrioritiesOnlyFall ==
  ASSUME Debug = FALSE
  PROVE  Spec => PriorityNeverRises
  <1>1. ASSUME IInv, NoScan, [Next]_vars
        PROVE  [\A t \in Created : priority'[t] <= priority[t]]_vars
    <2>. TypeOK /\ Ownership
      BY <1>1 DEF IInv
    <2>0. \A t \in Created : t \in Threads /\ priority[t] \in Int
      BY DEF Created, TypeOK, Levels
    <2>1. CASE my_pthread_create
      <3>1. /\ priority' = [priority EXCEPT ![total_thread] = QUEUELEVEL - 1]
            /\ total_thread \in Threads
        BY <2>1, ThreadsAssumption DEF my_pthread_create, TypeOK, Threads
      <3>2. total_thread \notin Created
        BY <3>1 DEF Ownership, Created, Threads
      <3>. QED
        BY <2>0, <3>1, <3>2 DEF TypeOK
    <2>2. ASSUME NEW t \in Threads, signal_handler(t)
          PROVE  \A u \in Created : priority'[u] <= priority[u]
      BY <2>0, <2>2 DEF signal_handler, TypeOK
    <2>3. CASE threadPriority_scan
      BY <1>1, <2>3, ScanNeverDue DEF threadPriority_scan, TypeOK, NoScan
    <2>4. CASE UNCHANGED priority
      BY <2>0, <2>4
    <2>5. ASSUME NEW t \in Threads, ThreadStep(t)
          PROVE  UNCHANGED priority
      BY <2>5 DEF ThreadStep, schedulerVars, threadVars, my_pthread_yield, CallLock,
           my_pthread_mutex_lock, my_pthread_mutex_unlock, CallJoin,
           my_pthread_join, my_pthread_exit, ExitSwitch
    <2>6. MainTick \/ HandleRunningThread \/ Dispatch \/ FinishAll \/ Done
            => UNCHANGED priority
      BY DEF MainTick, HandleRunningThread, Dispatch, FinishAll, Done, vars, threadVars
    <2>. QED
      BY <1>1, <2>1, <2>2, <2>3, <2>4, <2>5, <2>6 DEF Next, Tick, schedule
  <1>2. Init => NoScan
    BY DEF Init, NoScan
  <1>3. IInv /\ NoScan /\ [Next]_vars => NoScan'
    BY NoScanStep DEF IInv
  <1>. QED
    BY <1>1, <1>2, <1>3, Invariance, PTL DEF Spec, PriorityNeverRises

\* my_pthread_join returns only after the thread it names has exited: the
\* finished queue it searches holds nobody else.
THEOREM JoinCorrect ==
  Spec => JoinWaits
  <1>1. ASSUME IInv, [Next]_vars
        PROVE  [\A t \in Threads : pc[t] = "join" /\ pc'[t] = "user" =>
                  state[target[t]] = "TERMINATED" /\ ~ Holds(target[t])]_vars
    <2>. TypeOK /\ FinishedQueueSound
      BY <1>1 DEF IInv
    <2>1. ASSUME NEW t \in Threads, pc[t] = "join", pc'[t] = "user"
          PROVE  state[target[t]] = "TERMINATED" /\ ~ Holds(target[t])
      <3>1. ~ UNCHANGED pc
        BY <2>1
      <3>2. PICK u \in Threads : ThreadStep(u)
        BY <1>1, <3>1 DEF Next, Tick, schedule, my_pthread_create, MainTick,
           signal_handler, HandleRunningThread, threadPriority_scan, Dispatch,
           FinishAll, Done, vars, clientVars
      <3>3. my_pthread_join(t)
        BY <2>1, <3>2 DEF ThreadStep, At, Goto, Runs, my_pthread_yield, CallLock,
           my_pthread_mutex_lock, my_pthread_mutex_unlock, CallJoin,
           my_pthread_join, my_pthread_exit, ExitSwitch, clientVars, TypeOK
      <3>4. queue_findThread(target[t])
        BY <2>1, <3>3 DEF my_pthread_join, Goto, TypeOK
      <3>5. target[t] \in Threads
        <4>1. PICK i \in 1 .. Len(finishedThreadQueue) :
                 finishedThreadQueue[i] = target[t]
          BY <3>4 DEF queue_findThread, Contains
        <4>. QED
          BY <4>1 DEF TypeOK
      <3>. QED
        BY <3>4, <3>5 DEF queue_findThread, FinishedQueueSound
    <2>. QED
      BY <2>1
  <1>. QED
    BY <1>1, Invariance, PTL DEF Spec, JoinWaits

\* A thread that has exited is never switched to.
THEOREM ExitIsFinal ==
  Spec => TerminatedForGood
  <1>1. ASSUME IInv, [Next]_vars
        PROVE  [\A t \in Threads : state[t] = "TERMINATED"
                                     => state'[t] = "TERMINATED"]_vars
    <2>. TypeOK /\ Ownership /\ QueueInv
      BY <1>1 DEF IInv
    <2>1. CASE my_pthread_create
      <3>1. /\ state' = [state EXCEPT ![total_thread] = "READY"]
            /\ total_thread \in Threads
        BY <2>1, ThreadsAssumption DEF my_pthread_create, TypeOK, Threads
      <3>2. state[total_thread] = "NEW"
        BY <3>1 DEF Ownership, Threads
      <3>. QED
        BY <3>1, <3>2 DEF TypeOK
    <2>2. ASSUME NEW t \in Threads, signal_handler(t)
          PROVE  \A u \in Threads : state[u] = "TERMINATED" => state'[u] = "TERMINATED"
      BY <2>2 DEF signal_handler, TypeOK
    <2>3. CASE HandleRunningThread
      BY <2>3 DEF HandleRunningThread, TypeOK
    <2>4. CASE Dispatch
      BY <2>4, DispatchEffect DEF TypeOK
    <2>5. ASSUME NEW t \in Threads, ThreadStep(t)
          PROVE  \A u \in Threads : state[u] = "TERMINATED" => state'[u] = "TERMINATED"
      <3>1. CASE my_pthread_exit(t)
        BY <3>1 DEF my_pthread_exit, TypeOK
      <3>2. CASE ~ my_pthread_exit(t)
        BY <2>5, <3>2 DEF ThreadStep, schedulerVars, threadVars, my_pthread_yield,
           CallLock, my_pthread_mutex_lock, my_pthread_mutex_unlock, CallJoin,
           my_pthread_join, ExitSwitch
      <3>. QED
        BY <3>1, <3>2
    <2>6. MainTick \/ threadPriority_scan \/ FinishAll \/ Done \/ UNCHANGED vars
            => UNCHANGED state
      BY DEF MainTick, threadPriority_scan, FinishAll, Done, vars, threadVars
    <2>. QED
      BY <1>1, <2>1, <2>2, <2>3, <2>4, <2>5, <2>6 DEF Next, Tick, schedule
  <1>. QED
    BY <1>1, Invariance, PTL DEF Spec, TerminatedForGood

\* A switch never passes over a waiting thread of a higher level.
THEOREM HighestLevelFirst ==
  Spec => HighestFirst
  <1>1. ASSUME IInv, [Next]_vars
        PROVE  [context # "thread" /\ context' = "thread" =>
                  \A t \in Threads : state'[t] = "READY" =>
                     priority'[t] <= priority'[runningThread']]_vars
    <2>. SUFFICES ASSUME context # "thread", context' = "thread",
                         NEW t \in Threads, state'[t] = "READY"
                  PROVE  priority'[t] <= priority'[runningThread']
      OBVIOUS
    <2>. TypeOK /\ QueueInv
      BY <1>1 DEF IInv
    <2>1. Dispatch
      BY <1>1 DEF Next, Tick, schedule, my_pthread_create, MainTick, signal_handler,
         HandleRunningThread, threadPriority_scan, FinishAll, Done, vars, ThreadStep,
         At, Runs, my_pthread_yield, CallLock, my_pthread_mutex_lock,
         my_pthread_mutex_unlock, CallJoin, my_pthread_join, my_pthread_exit, ExitSwitch
    <2>2. PICK l \in Levels :
             /\ IsTopLevel(l)
             /\ runningThread' = Head(pendingThreadQueue[l])
      BY <2>1 DEF Dispatch
    <2>3. priority' = priority
      BY <2>1, DispatchEffect
    <2>4. priority[runningThread'] = l
      <3>1. Head(pendingThreadQueue[l]) = pendingThreadQueue[l][1]
            /\ 1 \in 1 .. Len(pendingThreadQueue[l])
        BY <2>2 DEF IsTopLevel, TypeOK
      <3>. QED
        BY <2>2, <3>1 DEF QueueInv, WellQueued
    <2>5. InQueue(pendingThreadQueue, t)
      <3>1. state[t] = "READY" /\ ~ Holds(t)
        BY <2>1, DispatchEffect DEF TypeOK, Holds
      <3>. QED
        BY <3>1 DEF QueueInv
    <2>6. PICK k \in Levels : \E i \in 1 .. Len(pendingThreadQueue[k]) :
                                 pendingThreadQueue[k][i] = t
      BY <2>5, Zenon DEF InQueue
    <2>7. priority[t] = k /\ pendingThreadQueue[k] # <<>>
      BY <2>6 DEF QueueInv, WellQueued
    <2>8. k <= l
      BY <2>2, <2>7 DEF IsTopLevel
    <2>. QED
      BY <2>3, <2>4, <2>7, <2>8
  <1>. QED
    BY <1>1, Invariance, PTL DEF Spec, HighestFirst

-----------------------------------------------------------------------------
(* Refinement.                                                             *)

LEMMA PoolStep ==
  ASSUME IInv, [Next]_vars
  PROVE  [Pool!Next]_(Pool!poolVars)
  <1>. DEFINE ready   == {t \in Threads : state[t] = "READY" /\ ~ Holds(t)}
              current == IF context \in {"thread", "schedule"} THEN runningThread
                         ELSE NoThread
              exited  == {t \in Threads : state[t] = "TERMINATED" /\ ~ Holds(t)}
              phase   == IF context = "main" THEN "setup"
                         ELSE IF context = "finished" THEN "over" ELSE "running"
  <1>. TypeOK /\ Due /\ Ownership /\ QueueInv /\ CountInv
    BY DEF IInv
  <1>n. NoThread \notin Threads
    BY DEF Threads, NoThread
  <1>0. ASSUME UNCHANGED <<ready, current, exited, phase>>
        PROVE  [Pool!Next]_(Pool!poolVars)
    BY <1>0 DEF Pool!poolVars
  <1>1. CASE my_pthread_create
    <2>1. /\ context = "main" /\ context' = "main" /\ total_thread \in Threads
          /\ runningThread = NoThread /\ runningThread' = NoThread
          /\ state' = [state EXCEPT ![total_thread] = "READY"]
      BY <1>1, ThreadsAssumption DEF my_pthread_create, Ownership, TypeOK, Threads
    <2>2. state[total_thread] = "NEW"
      BY <2>1 DEF Ownership, Threads
    <2>3. /\ total_thread \notin ready
          /\ ready' = ready \cup {total_thread}
          /\ UNCHANGED <<current, exited, phase>> /\ phase = "setup"
      BY <2>1, <2>2 DEF TypeOK, Holds
    <2>4. PICK t \in Threads : t = total_thread
      BY <2>1
    <2>5. Pool!Create(t)
      BY <2>3, <2>4 DEF Pool!Create
    <2>. QED
      BY <2>5 DEF Pool!Next
  <1>2. CASE MainTick
    <2>1. /\ context = "main" /\ context' = "schedule" /\ runningThread = NoThread
          /\ UNCHANGED <<runningThread, state>>
      BY <1>2 DEF MainTick, threadVars, Ownership
    <2>2. /\ phase = "setup" /\ phase' = "running"
          /\ UNCHANGED <<ready, current, exited>>
      BY <1>n, <2>1 DEF Holds
    <2>3. Pool!Start
      BY <2>2 DEF Pool!Start
    <2>. QED
      BY <2>3 DEF Pool!Next
  <1>3. ASSUME NEW t \in Threads, signal_handler(t)
        PROVE  [Pool!Next]_(Pool!poolVars)
    <2>1. /\ context = "thread" /\ runningThread = t /\ context' = "schedule"
          /\ state' = [state EXCEPT ![t] = IF @ = "RUNNING" THEN "READY" ELSE @]
          /\ UNCHANGED runningThread
      BY <1>3 DEF signal_handler, Runs
    <2>. QED
      BY <1>0, <2>1 DEF Holds, TypeOK
  <1>4. CASE HandleRunningThread
    <2>1. /\ context = "schedule" /\ context' = "pick" /\ UNCHANGED runningThread
      BY <1>4 DEF HandleRunningThread
    <2>2. current = runningThread /\ current' = NoThread /\ UNCHANGED phase
      BY <2>1
    <2>3. CASE runningThread # NoThread /\ state[runningThread] \in {"READY", "RUNNING"}
      <3>1. state' = [state EXCEPT ![runningThread] = "READY"]
        BY <1>4, <2>3, Zenon DEF HandleRunningThread
      <3>2. ready' = ready \cup {runningThread} /\ exited' = exited
        BY <2>1, <2>3, <3>1 DEF Holds, TypeOK
      <3>3. Pool!Release
        BY <2>2, <2>3, <3>2 DEF Pool!Release
      <3>. QED
        BY <3>3 DEF Pool!Next
    <2>4. CASE runningThread # NoThread /\ state[runningThread] = "TERMINATED"
      <3>1. state' = state
        BY <1>4, <2>4 DEF HandleRunningThread
      <3>2. exited' = exited \cup {runningThread} /\ ready' = ready
        BY <2>1, <2>4, <3>1 DEF Holds, TypeOK
      <3>3. Pool!Exit
        BY <2>2, <2>4, <3>2 DEF Pool!Exit
      <3>. QED
        BY <3>3 DEF Pool!Next
    <2>5. CASE runningThread = NoThread
      <3>1. state' = state
        BY <1>4, <2>5 DEF HandleRunningThread
      <3>. QED
        BY <1>0, <1>n, <2>1, <2>5, <3>1 DEF Holds
    <2>. QED
      BY <1>4, <2>3, <2>4, <2>5, Zenon DEF HandleRunningThread
  <1>5. CASE threadPriority_scan
    BY <1>0, <1>5, ScanEffect DEF Holds
  <1>6. CASE Dispatch
    <2>1. /\ phase = "running" /\ phase' = "running"
          /\ current = NoThread /\ current' = runningThread'
          /\ runningThread' \in ready
          /\ ready' = ready \ {runningThread'}
          /\ exited' = exited
      BY <1>6, DispatchEffect DEF Holds, TypeOK
    <2>2. PICK t \in Threads : t = runningThread'
      BY <1>6, DispatchEffect
    <2>3. Pool!Dispatch(t)
      BY <2>1, <2>2 DEF Pool!Dispatch
    <2>. QED
      BY <2>3 DEF Pool!Next
  <1>7. CASE FinishAll
    <2>1. /\ context = "pick" /\ context' = "finished" /\ total_pendingThread = 0
          /\ UNCHANGED <<runningThread, state>>
      BY <1>7 DEF FinishAll, threadVars, IInv, TypeOK
    <2>2. Waiting = {}
      BY <2>1, WaitingFinite, FS_EmptySet DEF CountInv
    <2>3. /\ phase = "running" /\ phase' = "over" /\ current = NoThread
          /\ ready = {} /\ UNCHANGED <<ready, current, exited>>
      BY <2>1, <2>2 DEF Waiting, QueueInv, Holds
    <2>4. Pool!Finish
      BY <2>3 DEF Pool!Finish
    <2>. QED
      BY <2>4 DEF Pool!Next
  <1>8. ASSUME NEW t \in Threads, ThreadStep(t)
        PROVE  [Pool!Next]_(Pool!poolVars)
    <2>. USE DEF At, Goto, Runs, schedulerVars, threadVars
    <2>1. CASE my_pthread_exit(t)
      <3>1. /\ context = "thread" /\ runningThread = t
            /\ UNCHANGED <<context, runningThread>>
            /\ state' = [state EXCEPT ![t] = "TERMINATED"]
        BY <2>1 DEF my_pthread_exit
      <3>. QED
        BY <1>0, <3>1 DEF Holds, TypeOK
    <2>2. CASE ~ my_pthread_exit(t)
      <3>1. /\ context = "thread" /\ runningThread = t
            /\ context' \in {"thread", "schedule"}
            /\ UNCHANGED <<runningThread, state>>
        BY <1>8, <2>2 DEF ThreadStep, my_pthread_yield, CallLock,
             my_pthread_mutex_lock, my_pthread_mutex_unlock, CallJoin,
             my_pthread_join, ExitSwitch
      <3>. QED
        BY <1>0, <3>1 DEF Holds
    <2>. QED
      BY <2>1, <2>2
  <1>9. CASE Done \/ UNCHANGED vars
    BY <1>0, <1>9 DEF Done, vars, threadVars, Holds
  <1>. QED
    BY <1>1, <1>2, <1>3, <1>4, <1>5, <1>6, <1>7, <1>8, <1>9
       DEF Next, Tick, schedule

\* The scheduler implements the thread pool: every step of it is a step of
\* the pool or invisible there (the pool's fairness is left to the runs).
THEOREM PoolRefinement ==
  Spec => PoolSafety
  <1>1. Init => Pool!Init
    BY DEF Init, Pool!Init
  <1>2. IInv /\ [Next]_vars => [Pool!Next]_(Pool!poolVars)
    BY PoolStep
  <1>. QED
    BY <1>1, <1>2, Invariance, PTL DEF Spec, PoolSafety, Pool!Spec
=============================================================================
