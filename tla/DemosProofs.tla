---------------------------- MODULE DemosProofs -----------------------------
(***************************************************************************)
(* Theorems about the demo programs, for any number of threads: the        *)
(* barriers of test1 over the current library, and the queues of the       *)
(* earlier one.                                                            *)
(***************************************************************************)
EXTENDS MCDemos, Sequences, FiniteSetTheorems, TLAPS

USE DemoAssumption, QueuesAssumption

-----------------------------------------------------------------------------
(* test1: the counter never says more arrivals than there were, so it      *)
(* opens no barrier too early.                                             *)

Places == {"arrive", "arrived", "first_page", "first_barrier", "depart", "departed",
           "second_page", "second_barrier", "lock", "wait", "unlock", "done"}

Kinds ==
    /\ program \in {"test1", "test2"}
    /\ times \in Nat
    /\ pc \in [Threads -> Places]
    /\ register \in [Threads -> Nat]

\* The threads whose first, and whose second, increment has been stored.
Arrived  == {t \in Threads : HasArrived(t)}
Departed == {t \in Threads : HasDeparted(t)}
Stores   == Cardinality(Arrived) + Cardinality(Departed)

\* No thread counts, or remembers, more than the stores there were: a lost
\* increment makes it less.
Counted == times <= Stores /\ \A t \in Threads : register[t] <= Stores

\* Whoever is past a barrier has left nobody behind.
Past(t) == pc[t] \in {"depart", "departed"} \/ HasDeparted(t)
FirstOpen  == \A t, u \in Threads : Past(t) => HasArrived(u)
SecondOpen == \A t, u \in Threads : pc[t] = "done" => HasDeparted(u)

ClientsInv == Kinds /\ (program = "test1" => Counted /\ FirstOpen /\ SecondOpen)

-----------------------------------------------------------------------------
(* Counting.                                                               *)

\* The threads are NumThreads, and so many in a part of them that they are all.
LEMMA CountingThreads ==
  ASSUME NEW S \in SUBSET Threads
  PROVE  /\ IsFiniteSet(S)
         /\ Cardinality(S) \in Nat
         /\ Cardinality(S) <= NumThreads
         /\ Cardinality(S) = NumThreads => S = Threads
         /\ S = {} => Cardinality(S) = 0
<1>1. IsFiniteSet(Threads) /\ Cardinality(Threads) = NumThreads
  BY FS_Interval DEF Threads
<1>. QED
  BY <1>1, FS_Subset, FS_CardinalityType, FS_EmptySet

\* What a store does to the number of stores; no other step of a thread
\* changes it.
LEMMA StoreCounts ==
  ASSUME NEW S \in SUBSET Threads, NEW t \in Threads, t \notin S
  PROVE  Cardinality(S \cup {t}) = Cardinality(S) + 1
BY CountingThreads, FS_AddElement

(* The number of increments stored so far is a natural number. *)
LEMMA StoresNat == Stores \in Nat
<1>1. Arrived \in SUBSET Threads /\ Departed \in SUBSET Threads
  BY DEF Arrived, Departed
<1>. QED
  BY <1>1, CountingThreads DEF Stores

-----------------------------------------------------------------------------
(* The steps of test1.                                                     *)

\* A step from one place to another that is on the same side of both stores
\* and leads through no barrier.
SameSide(from, to) ==
    \/ from = "arrive" /\ to = "arrived"
    \/ from = "first_page" /\ to = "first_barrier"
    \/ from = "depart" /\ to = "departed"
    \/ from = "second_page" /\ to = "second_barrier"

(* A step that stays on one side of a barrier keeps the invariant: it counts
   no thread and opens no barrier. *)
LEMMA SameSideKeeps ==
  ASSUME NEW t \in Threads, NEW from, NEW to, SameSide(from, to),
         Kinds, FirstOpen, SecondOpen, pc[t] = from, Goto(t, to)
  PROVE  /\ pc' \in [Threads -> Places]
         /\ Stores' = Stores
         /\ FirstOpen' /\ SecondOpen'
<1>1. /\ pc \in [Threads -> Places] /\ pc' = [pc EXCEPT ![t] = to]
      /\ from \in Places /\ to \in Places
  BY DEF Kinds, Goto, SameSide, Places
<1>2. \A u \in Threads : pc'[u] = IF u = t THEN to ELSE pc[u]
  BY <1>1
<1>3. \A u \in Threads : /\ HasArrived(u)' = HasArrived(u)
                         /\ HasDeparted(u)' = HasDeparted(u)
                         /\ Past(u)' = Past(u)
                         /\ (pc[u] = "done")' = (pc[u] = "done")
  <2>. TAKE u \in Threads
  <2>1. CASE u = t
    BY <1>2, <2>1 DEF SameSide, HasArrived, HasDeparted, Past
  <2>2. CASE u # t
    BY <1>2, <2>2 DEF HasArrived, HasDeparted, Past
  <2>. QED
    BY <2>1, <2>2
<1>4. Arrived' = Arrived /\ Departed' = Departed
  BY <1>3 DEF Arrived, Departed
<1>5. Stores' = Stores
  BY <1>4 DEF Stores
<1>6. FirstOpen'
  BY <1>3 DEF FirstOpen
<1>7. SecondOpen'
  BY <1>3 DEF SecondOpen
<1>. QED
  BY <1>1, <1>5, <1>6, <1>7

\* An increment is stored: there is one store more, in all and nowhere less.
LEMMA StoreKeeps ==
  ASSUME ClientsInv, program = "test1", NEW t \in Threads,
         Store(t, "arrived", "first_page") \/ Store(t, "departed", "second_page")
  PROVE  ClientsInv'
<1>0. Kinds /\ Counted /\ FirstOpen /\ SecondOpen
  BY DEF ClientsInv
<1>1. PICK from \in {"arrived", "departed"}, to \in {"first_page", "second_page"} :
        /\ \/ from = "arrived" /\ to = "first_page"
           \/ from = "departed" /\ to = "second_page"
        /\ pc[t] = from
        /\ pc' = [pc EXCEPT ![t] = to]
        /\ times' = register[t] + 1
        /\ register' = register /\ program' = program
  BY DEF Store, At, Goto
<1>2. pc \in [Threads -> Places] /\ to \in Places /\ pc' \in [Threads -> Places]
  BY <1>0, <1>1 DEF Kinds, Places
<1>3. \A u \in Threads : pc'[u] = IF u = t THEN to ELSE pc[u]
  BY <1>1, <1>2
<1>4. Stores' = Stores + 1
  <2>1. CASE from = "arrived"
    <3>1. Arrived' = Arrived \cup {t} /\ t \notin Arrived /\ Departed' = Departed
      BY <1>1, <1>3, <2>1 DEF Arrived, Departed, HasArrived, HasDeparted
    <3>. QED
      <4>1. Arrived \in SUBSET Threads /\ Departed \in SUBSET Threads
        BY DEF Arrived, Departed
      <4>. QED
        BY <3>1, <4>1, StoreCounts, CountingThreads DEF Stores
  <2>2. CASE from = "departed"
    <3>1. Departed' = Departed \cup {t} /\ t \notin Departed /\ Arrived' = Arrived
      BY <1>1, <1>3, <2>2 DEF Arrived, Departed, HasArrived, HasDeparted
    <3>. QED
      <4>1. Arrived \in SUBSET Threads /\ Departed \in SUBSET Threads
        BY DEF Arrived, Departed
      <4>. QED
        BY <3>1, <4>1, StoreCounts, CountingThreads DEF Stores
  <2>. QED
    BY <1>1, <2>1, <2>2
<1>5. Counted'
  BY <1>0, <1>1, <1>4, StoresNat DEF Counted, Kinds
<1>6. \A u \in Threads : /\ HasArrived(u) => HasArrived(u)'
                         /\ HasDeparted(u) => HasDeparted(u)'
                         /\ Past(u)' => Past(u)
                         /\ (pc[u] = "done")' => pc[u] = "done"
  <2>. TAKE u \in Threads
  <2>1. CASE u = t
    BY <1>1, <1>3, <2>1 DEF HasArrived, HasDeparted, Past
  <2>2. CASE u # t
    BY <1>3, <2>2 DEF HasArrived, HasDeparted, Past
  <2>. QED
    BY <2>1, <2>2
<1>7. FirstOpen' /\ SecondOpen'
  BY <1>0, <1>6 DEF FirstOpen, SecondOpen
<1>8. Kinds'
  BY <1>0, <1>1, <1>2 DEF Kinds
<1>. QED
  BY <1>5, <1>7, <1>8 DEF ClientsInv

\* The counter lets nobody through a barrier before all have come to it.
LEMMA BarrierOpens ==
  ASSUME Kinds, Counted, FirstOpen
  PROVE  /\ times >= NumThreads => \A u \in Threads : HasArrived(u)
         /\ times >= 2 * NumThreads => \A u \in Threads : HasDeparted(u)
<1>. DEFINE a == Cardinality(Arrived)  d == Cardinality(Departed)
<1>1. /\ a \in Nat /\ a <= NumThreads /\ (a = NumThreads => Arrived = Threads)
      /\ d \in Nat /\ d <= NumThreads /\ (d = NumThreads => Departed = Threads)
      /\ Departed = {} => d = 0
  <2>1. Arrived \in SUBSET Threads /\ Departed \in SUBSET Threads
    BY DEF Arrived, Departed
  <2>. QED
    BY <2>1, CountingThreads
<1>2. times <= a + d /\ times \in Nat
  BY DEF Counted, Stores, Kinds
<1>. HIDE DEF a, d
<1>3. ASSUME times >= NumThreads
      PROVE  \A u \in Threads : HasArrived(u)
  <2>1. CASE \E t \in Threads : Past(t)
    BY <2>1 DEF FirstOpen
  <2>2. CASE ~ \E t \in Threads : Past(t)
    <3>1. Departed = {}
      BY <2>2 DEF Departed, Past
    <3>2. a = NumThreads
      BY <1>1, <1>2, <1>3, <3>1
    <3>. QED
      BY <1>1, <3>2 DEF Arrived
  <2>. QED
    BY <2>1, <2>2
<1>4. ASSUME times >= 2 * NumThreads
      PROVE  \A u \in Threads : HasDeparted(u)
  <2>1. d = NumThreads
    BY <1>1, <1>2, <1>4
  <2>. QED
    BY <1>1, <2>1 DEF Departed
<1>. QED
  BY <1>3, <1>4

\* Every step of a thread of test1.
LEMMA test1Keeps ==
  ASSUME ClientsInv, NEW t \in Threads, test1(t)
  PROVE  ClientsInv'
<1>0. program = "test1" /\ Kinds /\ Counted /\ FirstOpen /\ SecondOpen
  BY DEF test1, ClientsInv
<1>1. CASE \/ Load(t, "arrive", "arrived") \/ Load(t, "depart", "departed")
           \/ Pass(t, "first_page", "first_barrier")
           \/ Pass(t, "second_page", "second_barrier")
  <2>1. PICK from \in Places, to \in Places :
          SameSide(from, to) /\ (Load(t, from, to) \/ Pass(t, from, to))
    BY <1>1 DEF SameSide, Places
  <2>2. pc[t] = from /\ Goto(t, to) /\ program' = program /\ times' = times
    BY <2>1 DEF Load, Pass, At
  <2>3. pc' \in [Threads -> Places] /\ Stores' = Stores /\ FirstOpen' /\ SecondOpen'
    BY <1>0, <2>1, <2>2, SameSideKeeps
  <2>4. register' = register \/ register' = [register EXCEPT ![t] = times]
    BY <2>1 DEF Load, Pass
  <2>5. register' \in [Threads -> Nat] /\ \A u \in Threads : register'[u] <= Stores
    BY <1>0, <2>4 DEF Kinds, Counted
  <2>. QED
    BY <1>0, <2>2, <2>3, <2>5 DEF ClientsInv, Kinds, Counted
<1>2. CASE Store(t, "arrived", "first_page") \/ Store(t, "departed", "second_page")
  BY <1>0, <1>2, StoreKeeps
<1>3. CASE FirstBarrier(t) \/ SecondBarrier(t)
  <2>1. PICK to \in {"depart", "done"} :
          /\ pc' = [pc EXCEPT ![t] = to]
          /\ to = "depart" => pc[t] = "first_barrier" /\ times >= NumThreads
          /\ to = "done" => pc[t] = "second_barrier" /\ times >= 2 * NumThreads
          /\ UNCHANGED <<program, times, register>>
    BY <1>3 DEF FirstBarrier, SecondBarrier, Pass, At, Goto
  <2>2. pc \in [Threads -> Places] /\ pc' \in [Threads -> Places]
    BY <1>0, <2>1 DEF Kinds, Places
  <2>3. \A u \in Threads : pc'[u] = IF u = t THEN to ELSE pc[u]
    BY <2>1, <2>2
  <2>4. \A u \in Threads : HasArrived(u)' = HasArrived(u) /\ HasDeparted(u)' = HasDeparted(u)
    BY <2>1, <2>3 DEF HasArrived, HasDeparted
  <2>5. Stores' = Stores
    <3>1. Arrived' = Arrived /\ Departed' = Departed
      BY <2>4 DEF Arrived, Departed
    <3>. QED
      BY <3>1 DEF Stores
  <2>6. FirstOpen'
    <3>. SUFFICES ASSUME NEW x \in Threads, NEW u \in Threads, Past(x)'
                  PROVE  HasArrived(u)'
      BY DEF FirstOpen
    <3>1. CASE x = t /\ to = "depart"
      BY <1>0, <2>1, <2>4, <3>1, BarrierOpens
    <3>2. CASE x # t \/ to = "done"
      <4>1. Past(x)
        BY <2>1, <2>3, <3>2 DEF Past, HasDeparted
      <4>. QED
        BY <1>0, <2>4, <4>1 DEF FirstOpen
    <3>. QED
      BY <2>1, <3>1, <3>2
  <2>7. SecondOpen'
    <3>. SUFFICES ASSUME NEW x \in Threads, NEW u \in Threads, pc'[x] = "done"
                  PROVE  HasDeparted(u)'
      BY DEF SecondOpen
    <3>1. CASE x = t
      <4>1. to = "done"
        BY <2>3, <3>1
      <4>. QED
        BY <1>0, <2>1, <2>4, <4>1, BarrierOpens
    <3>2. CASE x # t
      BY <1>0, <2>3, <2>4, <3>2 DEF SecondOpen
    <3>. QED
      BY <3>1, <3>2
  <2>. QED
    BY <1>0, <2>1, <2>2, <2>5, <2>6, <2>7 DEF ClientsInv, Kinds, Counted
<1>. QED
  BY <1>1, <1>2, <1>3 DEF test1

\* test2 keeps the kinds; of test2 no more is said.
LEMMA test2Keeps ==
  ASSUME ClientsInv, NEW t \in Threads, test2(t)
  PROVE  ClientsInv'
<1>1. program = "test2" /\ program' = program /\ Kinds
  BY DEF test2, ClientsInv, Load, Store, my_pthread_mutex_lock, WaitForAll, Pass,
         my_pthread_mutex_unlock
<1>2. Kinds'
  BY <1>1 DEF test2, Kinds, Load, Store, my_pthread_mutex_lock, WaitForAll, Pass,
              my_pthread_mutex_unlock, Goto, At, Places
<1>. QED
  BY <1>1, <1>2 DEF ClientsInv

(* The invariant holds before the first increment. *)
LEMMA ClientsInvInit == InitClients => ClientsInv
<1>. SUFFICES ASSUME InitClients PROVE ClientsInv
  OBVIOUS
<1>1. Kinds
  BY DEF InitClients, Kinds, Places
<1>2. \A t \in Threads : pc[t] = "arrive" /\ register[t] = 0
  BY DEF InitClients
<1>3. Counted
  BY <1>2, StoresNat DEF Counted, InitClients
<1>4. FirstOpen /\ SecondOpen
  BY <1>2 DEF FirstOpen, SecondOpen, Past, HasDeparted
<1>. QED
  BY <1>1, <1>3, <1>4 DEF ClientsInv

\* Nobody gets past a barrier of test1 before all have arrived there, whatever
\* increments are lost and however the scheduler switches.
THEOREM BarriersHoldCorrect == SpecClients => []BarriersHold
<1>1. ClientsInv /\ [NextClients]_clientVars => ClientsInv'
  <2>. SUFFICES ASSUME ClientsInv, [NextClients]_clientVars PROVE ClientsInv'
    OBVIOUS
  <2>1. CASE \E u \in Threads : Switch(u)
    BY <2>1 DEF Switch, ClientsInv, Kinds, Counted, FirstOpen, SecondOpen, Past, Stores,
                Arrived, Departed, HasArrived, HasDeparted
  <2>2. CASE UNCHANGED clientVars
    BY <2>2 DEF clientVars, ClientsInv, Kinds, Counted, FirstOpen, SecondOpen, Past, Stores,
                Arrived, Departed, HasArrived, HasDeparted
  <2>. QED
    BY <2>1, <2>2, test1Keeps, test2Keeps DEF NextClients
<1>2. ClientsInv => BarriersHold
  BY DEF ClientsInv, BarriersHold, FirstOpen, SecondOpen, Past
<1>. QED
  BY ClientsInvInit, <1>1, <1>2, PTL DEF SpecClients
-----------------------------------------------------------------------------
(* The queues of test.c.                                                   *)

Numbers  == 1 .. NumThreads
Created  == 1 .. total_thread
Stages   == {"arrive", "arrived", "lock", "wait", "unlock", "yield", "leaving", "return"}
Contexts == [who : Numbers, at : Stages, seen : Int]

\* A thread that will only ever go back to schedule().
Leaving(context) == context.at = "leaving"

\* Of a family of queues: t is in one of them; no thread is in two places.
Has(queues, t) ==
    \E l \in Queues!Levels : \E i \in 1 .. Len(queues[l]) : queues[l][i] = t
Once(queues) ==
    \A l, m \in Queues!Levels : \A i \in 1 .. Len(queues[l]), j \in 1 .. Len(queues[m]) :
        queues[l][i] = queues[m][j] => l = m /\ i = j

\* The created threads are in the queues, or they have returned or yielded;
\* so has every RUNNING one that does not run.
Placed(queues, contexts, done)   == \A t \in Created : t \in done \/ Leaving(contexts[t]) \/ Has(queues, t)
Idling(states, contexts, done, but) ==
    \A t \in Numbers \ {but} : states[t] = "RUNNING" => t \in done \/ Leaving(contexts[t])

\* The processor runs the code of the running thread, which goes on from a
\* yield only to leave.
OnCPU ==
    IF runningThread = 0 THEN cpu = Queues!InMain
    ELSE cpu \in Contexts /\ (Leaving(saved[runningThread]) <=> Leaving(cpu))

Shapes ==
    /\ total_thread \in 0 .. NumThreads
    /\ runningThread \in 0 .. NumThreads
    /\ enterTime \in Int
    /\ saved \in [Numbers -> Contexts]
    /\ state \in [Numbers -> {"READY", "RUNNING"}]
    /\ pendingThreadQueue \in [Queues!Levels -> Seq(Created)]

QueuesInv ==
    over = "no" =>
        /\ Shapes /\ OnCPU
        /\ Once(pendingThreadQueue)
        /\ Placed(pendingThreadQueue, saved, returned)
        /\ Idling(state, saved, returned, runningThread)

\* n are queues of threads of T: what there was in queues, and t.
Pushed(queues, n, T, t) ==
    /\ n \in [Queues!Levels -> Seq(T)] /\ Once(n)
    /\ \A u : Has(n, u) <=> u = t \/ Has(queues, u)

(* Pushing a thread that is in no queue. *)
LEMMA PushOnce ==
  ASSUME NEW T, NEW queues \in [Queues!Levels -> Seq(T)], Once(queues),
         NEW t \in T, ~ Has(queues, t), NEW l \in Queues!Levels,
         NEW n, n = [queues EXCEPT ![l] = Append(@, t)]
  PROVE  Pushed(queues, n, T, t)
<1>1. n \in [Queues!Levels -> Seq(T)]
  OBVIOUS
<1>2. \A k \in Queues!Levels : k # l => n[k] = queues[k]
  OBVIOUS
<1>3. PICK s \in Seq(T) : s = queues[l]
  OBVIOUS
<1>4. /\ n[l] = Append(s, t) /\ Len(n[l]) = Len(s) + 1 /\ Len(s) \in Nat
      /\ n[l][Len(s) + 1] = t /\ \A i \in 1 .. Len(s) : n[l][i] = s[i]
  BY <1>3
<1>5. ASSUME NEW k \in Queues!Levels, NEW i \in 1 .. Len(n[k])
      PROVE  (k = l /\ i = Len(s) + 1) \/ (i \in 1 .. Len(queues[k]) /\ n[k][i] = queues[k][i])
  <2>1. CASE k = l
    BY <1>3, <1>4, <2>1
  <2>2. CASE k # l
    BY <1>2, <2>2
  <2>. QED
    BY <2>1, <2>2
<1>6. ASSUME NEW k \in Queues!Levels, NEW i \in 1 .. Len(queues[k])
      PROVE  i \in 1 .. Len(n[k]) /\ n[k][i] = queues[k][i]
  <2>1. CASE k = l
    BY <1>3, <1>4, <2>1
  <2>2. CASE k # l
    BY <1>2, <2>2
  <2>. QED
    BY <2>1, <2>2
<1>7. \A k \in Queues!Levels : \A i \in 1 .. Len(queues[k]) : queues[k][i] # t
  BY DEF Has
<1>8. Once(n)
  <2>. SUFFICES ASSUME NEW k \in Queues!Levels, NEW m \in Queues!Levels,
                       NEW i \in 1 .. Len(n[k]), NEW j \in 1 .. Len(n[m]), n[k][i] = n[m][j]
                PROVE  k = m /\ i = j
    BY DEF Once
  <2>1. CASE k = l /\ i = Len(s) + 1
    <3>1. ~ (j \in 1 .. Len(queues[m]) /\ n[m][j] = queues[m][j])
      BY <1>4, <1>7, <2>1
    <3>. QED
      BY <1>5, <2>1, <3>1
  <2>2. CASE m = l /\ j = Len(s) + 1
    <3>1. ~ (i \in 1 .. Len(queues[k]) /\ n[k][i] = queues[k][i])
      BY <1>4, <1>7, <2>2
    <3>. QED
      BY <1>5, <2>2, <3>1
  <2>3. CASE ~ (k = l /\ i = Len(s) + 1) /\ ~ (m = l /\ j = Len(s) + 1)
    <3>1. i \in 1 .. Len(queues[k]) /\ n[k][i] = queues[k][i]
      BY <1>5, <2>3
    <3>2. j \in 1 .. Len(queues[m]) /\ n[m][j] = queues[m][j]
      BY <1>5, <2>3
    <3>3. queues[k][i] = queues[m][j]
      BY <3>1, <3>2
    <3>. QED
      BY <3>1, <3>2, <3>3 DEF Once
  <2>. QED
    BY <2>1, <2>2, <2>3
<1>9. ASSUME NEW u PROVE Has(n, u) <=> u = t \/ Has(queues, u)
  <2>1. Has(queues, u) => Has(n, u)
    BY <1>6 DEF Has
  <2>2. Has(n, t)
    <3>1. Len(s) + 1 \in 1 .. Len(n[l])
      BY <1>4
    <3>. QED
      BY <1>4, <3>1 DEF Has
  <2>3. Has(n, u) => u = t \/ Has(queues, u)
    BY <1>4, <1>5 DEF Has
  <2>. QED
    BY <2>1, <2>2, <2>3
<1>. QED
  BY <1>1, <1>8, <1>9 DEF Pushed

(* Popping the first of a queue. *)
LEMMA PopOnce ==
  ASSUME NEW T, NEW queues \in [Queues!Levels -> Seq(T)], Once(queues),
         NEW l \in Queues!Levels, queues[l] # <<>>
  PROVE  LET n == [queues EXCEPT ![l] = Tail(@)]
         IN  /\ n \in [Queues!Levels -> Seq(T)] /\ Once(n)
             /\ Head(queues[l]) \in T /\ ~ Has(n, Head(queues[l]))
             /\ \A u : Has(queues, u) => u = Head(queues[l]) \/ Has(n, u)
<1>. DEFINE n == [queues EXCEPT ![l] = Tail(@)]
<1>1. n \in [Queues!Levels -> Seq(T)]
  OBVIOUS
<1>2. \A k \in Queues!Levels : k # l => n[k] = queues[k]
  OBVIOUS
<1>3. PICK s \in Seq(T) : s = queues[l]
  OBVIOUS
<1>4. /\ n[l] = Tail(s) /\ Len(s) \in Nat /\ Len(s) >= 1 /\ Len(n[l]) = Len(s) - 1
      /\ Head(s) = s[1] /\ s[1] \in T
      /\ \A i \in 1 .. Len(s) - 1 : n[l][i] = s[i + 1]
  BY <1>3
<1>. HIDE DEF n
<1>5. ASSUME NEW k \in Queues!Levels, NEW i \in 1 .. Len(n[k])
      PROVE  \E j \in 1 .. Len(queues[k]) :
                /\ n[k][i] = queues[k][j]
                /\ j = IF k = l THEN i + 1 ELSE i
  <2>1. CASE k = l
    <3>1. i + 1 \in 1 .. Len(s) /\ n[l][i] = s[i + 1]
      BY <1>4, <2>1
    <3>. QED
      BY <1>3, <2>1, <3>1
  <2>2. CASE k # l
    BY <1>2, <2>2
  <2>. QED
    BY <2>1, <2>2
<1>6. Once(n)
  <2>. SUFFICES ASSUME NEW k \in Queues!Levels, NEW m \in Queues!Levels,
                       NEW i \in 1 .. Len(n[k]), NEW j \in 1 .. Len(n[m]), n[k][i] = n[m][j]
                PROVE  k = m /\ i = j
    BY DEF Once
  <2>1. PICK a \in 1 .. Len(queues[k]) : n[k][i] = queues[k][a] /\ a = IF k = l THEN i + 1 ELSE i
    BY <1>5
  <2>2. PICK b \in 1 .. Len(queues[m]) : n[m][j] = queues[m][b] /\ b = IF m = l THEN j + 1 ELSE j
    BY <1>5
  <2>3. k = m /\ a = b
    <3>1. queues[k][a] = queues[m][b]
      BY <2>1, <2>2
    <3>. QED
      BY <3>1 DEF Once
  <2>4. i \in Int /\ j \in Int
    OBVIOUS
  <2>. QED
    BY <2>1, <2>2, <2>3, <2>4
<1>7. ~ Has(n, Head(queues[l]))
  <2>. SUFFICES ASSUME NEW k \in Queues!Levels, NEW i \in 1 .. Len(n[k]), n[k][i] = s[1]
                PROVE  FALSE
    BY <1>3, <1>4 DEF Has
  <2>1. PICK a \in 1 .. Len(queues[k]) : n[k][i] = queues[k][a] /\ a = IF k = l THEN i + 1 ELSE i
    BY <1>5
  <2>2. 1 \in 1 .. Len(queues[l])
    BY <1>3, <1>4
  <2>3. k = l /\ a = 1
    BY <1>3, <2>1, <2>2 DEF Once
  <2>4. i \in Int /\ i >= 1
    OBVIOUS
  <2>. QED
    BY <2>1, <2>3, <2>4
<1>8. ASSUME NEW u, Has(queues, u) PROVE u = Head(queues[l]) \/ Has(n, u)
  <2>0. PICK k \in Queues!Levels : \E i \in 1 .. Len(queues[k]) : queues[k][i] = u
    BY <1>8 DEF Has
  <2>1. PICK i \in 1 .. Len(queues[k]) : queues[k][i] = u
    BY <2>0
  <2>2. CASE k # l
    BY <1>2, <2>1, <2>2 DEF Has
  <2>3. CASE k = l /\ i = 1
    BY <1>3, <1>4, <2>1, <2>3
  <2>4. CASE k = l /\ i # 1
    <3>1. i - 1 \in 1 .. Len(n[l]) /\ n[l][i - 1] = s[i]
      BY <1>3, <1>4, <2>1, <2>4
    <3>. QED
      BY <1>3, <2>1, <2>4, <3>1 DEF Has
  <2>. QED
    BY <2>2, <2>3, <2>4
<1>. QED
  BY <1>1, <1>3, <1>4, <1>6, <1>7, <1>8 DEF n

\* What schedule() leaves behind when it runs a thread, and the process goes on.
Scheduled(contexts, done) ==
    /\ pendingThreadQueue' \in [Queues!Levels -> Seq(Created)]
    /\ Once(pendingThreadQueue')
    /\ Placed(pendingThreadQueue', contexts, done)
    /\ runningThread' \in Created
    /\ state' \in [Numbers -> {"READY", "RUNNING"}]
    /\ Idling(state', contexts, done, runningThread')
    /\ cpu' = contexts[runningThread']

(* schedule() loses no thread, if only threads that have returned or yielded *)
(* are RUNNING when it is called.                                            *)
LEMMA ScheduleKeeps ==
  ASSUME NEW contexts, NEW st \in [Numbers -> {"READY", "RUNNING"}], NEW pr, NEW done,
         total_thread \in 0 .. NumThreads,
         pendingThreadQueue \in [Queues!Levels -> Seq(Created)],
         Once(pendingThreadQueue), Placed(pendingThreadQueue, contexts, done),
         Idling(st, contexts, done, 0),
         over = "no", over' = "no", Queues!schedule(contexts, st, pr)
  PROVE  Scheduled(contexts, done)
<1>1. PICK l \in Queues!Levels :
        LET t == Head(pendingThreadQueue[l]) IN
        /\ Queues!IsTopLevel(l)
        /\ Queues!PushBack(t, Queues!multiQueue_pop(l), st, pr)
        /\ runningThread' = t
        /\ state' = [st EXCEPT ![t] = "RUNNING"]
        /\ cpu' = contexts[t]
  BY DEF Queues!schedule
<1>2. pendingThreadQueue[l] # <<>>
  BY <1>1 DEF Queues!IsTopLevel
<1>3. PICK q : q = pendingThreadQueue
  OBVIOUS
<1>4. PICK n : n = [q EXCEPT ![l] = Tail(@)]
  OBVIOUS
<1>5. PICK t : t = Head(q[l])
  OBVIOUS
<1>6. /\ n \in [Queues!Levels -> Seq(Created)] /\ Once(n) /\ t \in Created /\ ~ Has(n, t)
      /\ \A u : Has(q, u) => u = t \/ Has(n, u)
  BY <1>2, <1>3, <1>4, <1>5, PopOnce
<1>7. /\ Queues!PushBack(t, n, st, pr) /\ runningThread' = t
      /\ state' = [st EXCEPT ![t] = "RUNNING"] /\ cpu' = contexts[t]
  BY <1>1, <1>3, <1>4, <1>5 DEF Queues!multiQueue_pop
<1>8. t \in Numbers /\ Created \subseteq Numbers /\ t # 0
  BY <1>6 DEF Created, Numbers
<1>9. state' \in [Numbers -> {"READY", "RUNNING"}] /\ Idling(state', contexts, done, t)
  <2>1. \A u \in Numbers : u # t => state'[u] = st[u]
    BY <1>7, <1>8
  <2>2. Idling(state', contexts, done, t)
    <3>. SUFFICES ASSUME NEW u \in Numbers \ {t}, state'[u] = "RUNNING"
                  PROVE  u \in done \/ Leaving(contexts[u])
      BY DEF Idling
    <3>1. u # 0
      BY DEF Numbers
    <3>. QED
      BY <1>8, <2>1, <3>1 DEF Idling
  <2>. QED
    BY <1>7, <1>8, <2>2
<1>10. /\ pendingThreadQueue' \in [Queues!Levels -> Seq(Created)]
       /\ Once(pendingThreadQueue') /\ Placed(pendingThreadQueue', contexts, done)
  <2>1. CASE st[t] = "READY"
    <3>1. pr[t] \in Queues!Levels
          /\ pendingThreadQueue' = [n EXCEPT ![pr[t]] = Append(@, t)]
      BY <1>7, <2>1 DEF Queues!PushBack
    <3>2. Pushed(n, pendingThreadQueue', Created, t)
      BY <1>6, <3>1, PushOnce
    <3>3. Placed(pendingThreadQueue', contexts, done)
      BY <1>3, <1>6, <3>2 DEF Placed, Pushed
    <3>. QED
      BY <3>2, <3>3 DEF Pushed
  <2>2. CASE st[t] = "RUNNING"
    <3>1. pendingThreadQueue' = n
      BY <1>7, <2>2 DEF Queues!PushBack
    <3>2. t \in done \/ Leaving(contexts[t])
      BY <1>6, <1>8, <2>2 DEF Idling
    <3>3. Placed(n, contexts, done)
      BY <1>3, <1>6, <3>2 DEF Placed
    <3>. QED
      BY <1>6, <3>1, <3>3
  <2>. QED
    BY <1>8, <2>1, <2>2
<1>. QED
  BY <1>6, <1>7, <1>9, <1>10 DEF Scheduled

(* So the invariant holds again after any caller of schedule(). *)
LEMMA ScheduledInv ==
  ASSUME total_thread' = total_thread, Shapes, enterTime' = enterTime,
         saved' \in [Numbers -> Contexts], Scheduled(saved', returned')
  PROVE  QueuesInv'
<1>1. PICK c \in [Numbers -> Contexts] : c = saved'
  OBVIOUS
<1>9. PICK d : d = returned'
  OBVIOUS
<1>2. Scheduled(c, d)
  BY <1>1, <1>9
<1>3. Created' = Created
  BY DEF Created
<1>4. runningThread' \in Numbers /\ runningThread' # 0 /\ runningThread' \in 0 .. NumThreads
  BY <1>2 DEF Scheduled, Created, Shapes, Numbers
<1>5. cpu' = saved'[runningThread'] /\ cpu' \in Contexts
  BY <1>1, <1>9, <1>2, <1>4 DEF Scheduled
<1>6. OnCPU'
  BY <1>4, <1>5 DEF OnCPU
<1>7. Shapes'
  BY <1>2, <1>3, <1>4, <1>5 DEF Shapes, Scheduled
<1>8. Placed(pendingThreadQueue, saved, returned)' /\ Idling(state, saved, returned, runningThread)'
      /\ Once(pendingThreadQueue)'
  BY <1>1, <1>9, <1>2, <1>3 DEF Scheduled, Placed, Idling, Once, Has
<1>. QED
  BY <1>6, <1>7, <1>8 DEF QueuesInv

\* A new thread is in the top queue.
LEMMA CreateKeeps ==
  ASSUME QueuesInv, Queues!my_pthread_create
  PROVE  QueuesInv'
<1>1. /\ over = "no" /\ over' = "no" /\ total_thread < NumThreads
      /\ total_thread' = total_thread + 1 /\ cpu.who = 0
      /\ UNCHANGED <<cpu, enterTime, state, runningThread, saved, returned>>
  BY DEF Queues!my_pthread_create, Queues!InMain, Queues!Main
<1>2. /\ Shapes /\ OnCPU /\ Once(pendingThreadQueue)
      /\ Placed(pendingThreadQueue, saved, returned)
      /\ Idling(state, saved, returned, runningThread)
  BY <1>1 DEF QueuesInv
<1>3. PICK t : t = total_thread + 1
  OBVIOUS
<1>4. PICK q : q = pendingThreadQueue
  OBVIOUS
<1>5. PICK T : T = Created \cup {t}
  OBVIOUS
<1>6. t \in Numbers /\ t \notin Created /\ Created' = T /\ total_thread' \in 0 .. NumThreads
  BY <1>1, <1>2, <1>3, <1>5 DEF Shapes, Created, Numbers
<1>7. q \in [Queues!Levels -> Seq(T)] /\ Once(q)
  <2>1. Seq(Created) \subseteq Seq(T)
    BY <1>5
  <2>2. q \in [Queues!Levels -> Seq(Created)]
    BY <1>2, <1>4 DEF Shapes
  <2>. QED
    BY <1>2, <1>4, <2>1, <2>2
<1>8. ~ Has(q, t)
  <2>. SUFFICES ASSUME NEW k \in Queues!Levels, NEW i \in 1 .. Len(q[k]) PROVE q[k][i] \in Created
    BY <1>6 DEF Has
  <2>1. q[k] \in Seq(Created)
    BY <1>2, <1>4 DEF Shapes
  <2>. QED
    BY <2>1
<1>9. PICK l \in Queues!Levels : l = QUEUELEVEL - 1
  BY DEF Queues!Levels
<1>10. PICK n : n = [q EXCEPT ![l] = Append(@, t)]
  OBVIOUS
<1>11. pendingThreadQueue' = n
  BY <1>9, <1>10, <1>1, <1>3, <1>4 DEF Queues!my_pthread_create
<1>12. /\ pendingThreadQueue' \in [Queues!Levels -> Seq(T)] /\ Once(pendingThreadQueue')
       /\ \A u : Has(pendingThreadQueue', u) <=> u = t \/ Has(q, u)
  <2>1. t \in T
    BY <1>5
  <2>2. Pushed(q, n, T, t)
    BY <1>7, <1>8, <1>9, <1>10, <2>1, PushOnce
  <2>. QED
    BY <1>11, <2>2 DEF Pushed
<1>13. Shapes'
  BY <1>1, <1>2, <1>6, <1>12 DEF Shapes
<1>14. OnCPU'
  BY <1>1, <1>2 DEF OnCPU
<1>15. Placed(pendingThreadQueue, saved, returned)'
  <2>1. \A u \in T : u \in returned \/ Leaving(saved[u]) \/ Has(pendingThreadQueue', u)
    BY <1>2, <1>4, <1>5, <1>12 DEF Placed
  <2>. QED
    BY <1>1, <1>6, <2>1 DEF Placed, Has
<1>16. Idling(state, saved, returned, runningThread)'
  <2>1. runningThread = 0
    BY <1>1, <1>2 DEF OnCPU, Contexts, Numbers
  <2>. QED
    BY <1>1, <1>2, <2>1 DEF Idling
<1>. QED
  BY <1>12, <1>13, <1>14, <1>15, <1>16 DEF QueuesInv, Once

\* A tick: the preempted thread is READY, so that it is not the one thread too
\* many of those that are RUNNING.
LEMMA TickKeeps ==
  ASSUME QueuesInv, over' = "no", Queues!signal_handler
  PROVE  QueuesInv'
<1>1. /\ over = "no"
      /\ UNCHANGED <<enterTime, total_thread, returned>>
  BY DEF Queues!signal_handler
<1>2. /\ Shapes /\ OnCPU /\ Once(pendingThreadQueue)
      /\ Placed(pendingThreadQueue, saved, returned)
      /\ Idling(state, saved, returned, runningThread)
  BY <1>1 DEF QueuesInv
<1>3. PICK st, pr, c :
        /\ Queues!schedule(c, st, pr) /\ saved' = c
        /\ \/ /\ runningThread # 0 /\ st = [state EXCEPT ![runningThread] = "READY"]
              /\ c = [saved EXCEPT ![runningThread] = cpu]
           \/ runningThread = 0 /\ st = state /\ c = saved
  <2>1. CASE runningThread # 0
    <3>1. PICK st, pr, c : st = Queues!Preempted /\ pr = priority' /\ c = saved'
      OBVIOUS
    <3>2. Queues!schedule(saved', Queues!Preempted, priority')
          /\ saved' = [saved EXCEPT ![runningThread] = cpu]
      BY <2>1 DEF Queues!signal_handler, Queues!Main
    <3>. QED
      BY <2>1, <3>1, <3>2 DEF Queues!Preempted
  <2>2. CASE runningThread = 0
    <3>1. Queues!schedule(saved, state, priority) /\ saved' = saved
      BY <2>2 DEF Queues!signal_handler, Queues!Main
    <3>. QED
      BY <2>2, <3>1
  <2>. QED
    BY <2>1, <2>2
<1>4. runningThread # 0 => runningThread \in Numbers
  BY <1>2 DEF Shapes, Numbers
<1>5. st \in [Numbers -> {"READY", "RUNNING"}] /\ c \in [Numbers -> Contexts]
  BY <1>2, <1>3, <1>4 DEF Shapes, OnCPU
<1>6. \A t \in Numbers : Leaving(c[t]) <=> Leaving(saved[t])
  <2>1. CASE runningThread = 0
    BY <1>3, <2>1
  <2>2. CASE runningThread # 0
    <3>1. c[runningThread] = cpu /\ \A t \in Numbers : t # runningThread => c[t] = saved[t]
      BY <1>2, <1>3, <1>4, <2>2 DEF Shapes
    <3>. QED
      BY <1>2, <1>4, <2>2, <3>1 DEF OnCPU
  <2>. QED
    BY <2>1, <2>2
<1>7. Placed(pendingThreadQueue, c, returned)
  BY <1>2, <1>6 DEF Placed, Created, Numbers, Shapes
<1>8. Idling(st, c, returned, 0)
  <2>. SUFFICES ASSUME NEW t \in Numbers, st[t] = "RUNNING"
                PROVE  t \in returned \/ Leaving(c[t])
    BY DEF Idling
  <2>1. t # runningThread /\ state[t] = "RUNNING"
    BY <1>2, <1>3, <1>4 DEF Shapes, Numbers
  <2>. QED
    BY <1>2, <1>6, <2>1 DEF Idling
<1>9. Scheduled(c, returned)
  BY <1>1, <1>2, <1>3, <1>5, <1>7, <1>8, ScheduleKeeps DEF Shapes
<1>10. Scheduled(saved', returned')
  BY <1>1, <1>3, <1>9
<1>. QED
  BY <1>1, <1>2, <1>3, <1>5, <1>10, ScheduledInv

\* A thread that yields is READY, and leaves the next time it runs.
LEMMA YieldKeeps ==
  ASSUME QueuesInv, over' = "no", Queues!my_pthread_yield
  PROVE  QueuesInv'
<1>1. /\ over = "no" /\ cpu.at = "yield" /\ cpu' = [cpu EXCEPT !.at = "leaving"]
      /\ state' = [state EXCEPT ![runningThread] = "READY"]
      /\ saved' = [saved EXCEPT ![runningThread] = cpu']
      /\ UNCHANGED <<enterTime, total_thread, pendingThreadQueue, runningThread, returned>>
  BY DEF Queues!my_pthread_yield, Queues!GoesOn, Queues!Preempted
<1>2. /\ Shapes /\ OnCPU /\ Once(pendingThreadQueue)
      /\ Placed(pendingThreadQueue, saved, returned)
      /\ Idling(state, saved, returned, runningThread)
  BY <1>1 DEF QueuesInv
<1>3. runningThread \in Numbers /\ runningThread # 0
  <2>1. runningThread # 0
    BY <1>1, <1>2 DEF OnCPU, Queues!InMain
  <2>. QED
    BY <1>2, <2>1 DEF Shapes, Numbers
<1>4. cpu \in Contexts /\ cpu' \in Contexts /\ Leaving(cpu')
  <2>1. cpu \in Contexts
    BY <1>2, <1>3 DEF OnCPU
  <2>. QED
    BY <1>1, <2>1 DEF Contexts, Stages, Leaving
<1>5. /\ \A t \in Numbers : t # runningThread => saved'[t] = saved[t] /\ state'[t] = state[t]
      /\ saved'[runningThread] = cpu' /\ state'[runningThread] = "READY"
      /\ saved' \in [Numbers -> Contexts] /\ state' \in [Numbers -> {"READY", "RUNNING"}]
  BY <1>1, <1>2, <1>3, <1>4 DEF Shapes
<1>6. Created' = Created /\ Created \subseteq Numbers
  BY <1>1, <1>2 DEF Created, Numbers, Shapes
<1>7. Shapes'
  BY <1>1, <1>2, <1>5, <1>6 DEF Shapes
<1>8. OnCPU'
  BY <1>1, <1>3, <1>4, <1>5 DEF OnCPU
<1>9. Placed(pendingThreadQueue, saved, returned)'
  <2>. SUFFICES ASSUME NEW t \in Created
                PROVE  t \in returned \/ Leaving(saved'[t]) \/ Has(pendingThreadQueue, t)
    BY <1>1, <1>6 DEF Placed, Has
  <2>. QED
    BY <1>2, <1>4, <1>5, <1>6 DEF Placed
<1>10. Idling(state, saved, returned, runningThread)'
  BY <1>1, <1>2, <1>5 DEF Idling
<1>. QED
  BY <1>1, <1>2, <1>7, <1>8, <1>9, <1>10 DEF QueuesInv, Once

\* The thread that leaves, or returns for the first time, stays RUNNING; but it
\* is one of those that may be lost.
LEMMA LeaveKeeps ==
  ASSUME QueuesInv, over' = "no", Queues!LeaveForScheduler \/ Queues!Return
  PROVE  QueuesInv'
<1>1. /\ over = "no" /\ cpu.at \in {"leaving", "return"}
      /\ Queues!schedule(saved, state, priority)
      /\ UNCHANGED <<enterTime, total_thread, saved>>
      /\ returned \subseteq returned'
      /\ cpu.at = "return" => runningThread \in returned'
  BY DEF Queues!LeaveForScheduler, Queues!Return
<1>2. /\ Shapes /\ OnCPU /\ Once(pendingThreadQueue)
      /\ Placed(pendingThreadQueue, saved, returned)
      /\ Idling(state, saved, returned, runningThread)
  BY <1>1 DEF QueuesInv
<1>3. runningThread # 0
  BY <1>1, <1>2 DEF OnCPU, Queues!InMain
<1>4. PICK d : d = returned'
  OBVIOUS
<1>5. Placed(pendingThreadQueue, saved, d)
  BY <1>1, <1>2, <1>4 DEF Placed
<1>6. runningThread \in d \/ Leaving(saved[runningThread])
  BY <1>1, <1>2, <1>3, <1>4 DEF OnCPU, Leaving
<1>7. Idling(state, saved, d, 0)
  BY <1>1, <1>2, <1>4, <1>6 DEF Idling
<1>8. Scheduled(saved, d)
  BY <1>1, <1>2, <1>5, <1>7, ScheduleKeeps DEF Shapes
<1>9. Scheduled(saved', returned')
  BY <1>1, <1>4, <1>8
<1>. QED
  BY <1>1, <1>2, <1>9, ScheduledInv DEF Shapes

\* A thread's own steps of test2 neither take it to "leaving" nor away from it.
LEMMA DemoKeeps ==
  ASSUME QueuesInv, over = "no", Queues!test2,
         UNCHANGED <<total_thread, pendingThreadQueue, state, runningThread, saved, returned>>
  PROVE  QueuesInv'
<1>1. /\ Shapes /\ OnCPU /\ Once(pendingThreadQueue)
      /\ Placed(pendingThreadQueue, saved, returned)
      /\ Idling(state, saved, returned, runningThread)
  BY DEF QueuesInv
<1>2. cpu.at # "leaving" /\ cpu.at # "main" /\ enterTime' \in {enterTime, cpu.seen + 1}
  BY DEF Queues!test2, Queues!Load, Queues!Store, Queues!my_pthread_mutex_lock,
         Queues!WaitForAll, Queues!my_pthread_mutex_unlock, Queues!GoesOn
<1>3. runningThread # 0
  BY <1>1, <1>2 DEF OnCPU, Queues!InMain
<1>4. cpu \in Contexts /\ cpu' \in Contexts /\ ~ Leaving(cpu') /\ ~ Leaving(cpu)
  <2>1. cpu \in Contexts /\ enterTime \in Int
    BY <1>1, <1>3 DEF OnCPU, Shapes
  <2>2. cpu.who \in Numbers /\ cpu.seen \in Int
    BY <2>1 DEF Contexts
  <2>3. PICK to \in Stages \ {"leaving"} :
            cpu' = [cpu EXCEPT !.at = to] \/ cpu' = [cpu EXCEPT !.at = to, !.seen = enterTime]
    BY DEF Queues!test2, Queues!Load, Queues!Store, Queues!my_pthread_mutex_lock,
         Queues!WaitForAll, Queues!my_pthread_mutex_unlock, Queues!GoesOn, Stages
  <2>. QED
    BY <1>2, <2>1, <2>3 DEF Contexts, Leaving
<1>5. enterTime' \in Int
  BY <1>1, <1>2, <1>4 DEF Shapes, Contexts
<1>6. Created' = Created
  BY DEF Created
<1>. QED
  BY <1>1, <1>3, <1>4, <1>5, <1>6
     DEF QueuesInv, Shapes, OnCPU, Once, Placed, Idling, Has

\* Each thread is at most once in a queue, so that no queue is longer than there
\* are threads, and every place in it is one of those QueuedAt looks at.
LEMMA QueuesAreShort ==
  ASSUME Shapes, Once(pendingThreadQueue), NEW l \in Queues!Levels
  PROVE  Len(pendingThreadQueue[l]) <= NumThreads
<1>1. PICK s \in Seq(Created) : s = pendingThreadQueue[l]
  BY DEF Shapes
<1>2. \A i, j \in 1 .. Len(s) : s[i] = s[j] => i = j
  BY <1>1 DEF Once
<1>3. Len(s) \in Nat /\ \A i \in 1 .. Len(s) : s[i] \in Created
  OBVIOUS
<1>4. IsFiniteSet(Created) /\ Cardinality(Created) = total_thread /\ total_thread \in Nat
  BY FS_Interval DEF Created, Shapes
<1>8. \A n \in Nat : IsFiniteSet(1 .. n) /\ Cardinality(1 .. n) = n
  BY FS_Interval
<1>5. IsFiniteSet(1 .. Len(s)) /\ Cardinality(1 .. Len(s)) = Len(s)
  BY <1>3, <1>8, Zenon
<1>6. s \in Injection(1 .. Len(s), Created)
  BY <1>2, <1>3 DEF Injection, IsInjective
<1>7. Cardinality(1 .. Len(s)) <= Cardinality(Created)
  BY <1>4, <1>5, <1>6, FS_Injection
<1>. QED
  BY <1>1, <1>3, <1>4, <1>5, <1>7 DEF Shapes

(* What the invariant says of a created thread. *)
LEMMA InvStaysQueued == QueuesInv => Queues!StaysQueued
<1>. SUFFICES ASSUME QueuesInv, over = "no", NEW t \in Created
              PROVE  /\ t \in returned \/ saved[t].at = "leaving" \/ Queues!QueuedAt(t) # {}
                     /\ \A x, y \in Queues!QueuedAt(t) : x = y
  BY DEF Queues!StaysQueued, Created
<1>1. Shapes /\ Once(pendingThreadQueue) /\ Placed(pendingThreadQueue, saved, returned)
  BY DEF QueuesInv
<1>2. ASSUME Has(pendingThreadQueue, t) PROVE Queues!QueuedAt(t) # {}
  <2>1. PICK l \in Queues!Levels :
          \E i \in 1 .. Len(pendingThreadQueue[l]) : pendingThreadQueue[l][i] = t
    BY <1>2 DEF Has
  <2>2. PICK i \in 1 .. Len(pendingThreadQueue[l]) : pendingThreadQueue[l][i] = t
    BY <2>1
  <2>3. Len(pendingThreadQueue[l]) \in Nat
    BY <1>1 DEF Shapes
  <2>4. i \in 1 .. NumThreads /\ i <= Len(pendingThreadQueue[l])
    BY <1>1, <2>3, QueuesAreShort
  <2>5. <<l, i>> \in Queues!Levels \X (1 .. NumThreads) /\ <<l, i>>[1] = l /\ <<l, i>>[2] = i
    BY <2>4
  <2>6. <<l, i>> \in Queues!QueuedAt(t)
    BY <2>2, <2>4, <2>5 DEF Queues!QueuedAt
  <2>. QED
    BY <2>6
<1>3. ASSUME NEW x \in Queues!QueuedAt(t), NEW y \in Queues!QueuedAt(t) PROVE x = y
  <2>1. /\ x \in Queues!Levels \X (1 .. NumThreads) /\ y \in Queues!Levels \X (1 .. NumThreads)
        /\ x[2] <= Len(pendingThreadQueue[x[1]]) /\ pendingThreadQueue[x[1]][x[2]] = t
        /\ y[2] <= Len(pendingThreadQueue[y[1]]) /\ pendingThreadQueue[y[1]][y[2]] = t
    BY DEF Queues!QueuedAt
  <2>2. /\ x[1] \in Queues!Levels /\ x[2] \in 1 .. Len(pendingThreadQueue[x[1]])
        /\ y[1] \in Queues!Levels /\ y[2] \in 1 .. Len(pendingThreadQueue[y[1]])
    BY <1>1, <2>1 DEF Shapes
  <2>3. x[1] = y[1] /\ x[2] = y[2]
    BY <1>1, <2>1, <2>2 DEF Once
  <2>. QED
    BY <2>1, <2>3
<1>. QED
  BY <1>1, <1>2, <1>3 DEF Placed, Leaving

(* Before main creates the first thread. *)
LEMMA QueuesInvInit == Queues!Init => QueuesInv
<1>. SUFFICES ASSUME Queues!Init PROVE QueuesInv
  OBVIOUS
<1>1. /\ total_thread = 0 /\ runningThread = 0 /\ cpu = Queues!InMain /\ enterTime = 0
      /\ saved = [t \in Numbers |-> Queues!Start(t)]
      /\ state = [t \in Numbers |-> "READY"]
      /\ pendingThreadQueue = [l \in Queues!Levels |-> <<>>]
  BY DEF Queues!Init, Queues!DemoInit, Queues!EmptyQueues, Queues!Main, Queues!Threads, Numbers
<1>2. saved \in [Numbers -> Contexts]
  <2>1. \A t \in Numbers : Queues!Start(t) \in Contexts
    BY DEF Queues!Start, Contexts, Stages
  <2>. QED
    BY <1>1, <2>1
<1>3. Shapes /\ OnCPU
  BY <1>1, <1>2 DEF Shapes, OnCPU
<1>4. \A l \in Queues!Levels : Len(pendingThreadQueue[l]) = 0
  BY <1>1
<1>5. Once(pendingThreadQueue)
  BY <1>4 DEF Once
<1>6. Created = {}
  BY <1>1 DEF Created
<1>7. Placed(pendingThreadQueue, saved, returned) /\ Idling(state, saved, returned, runningThread)
  BY <1>1, <1>6 DEF Placed, Idling
<1>. QED
  BY <1>3, <1>5, <1>7 DEF QueuesInv

(* Every step of the earlier library keeps the invariant. *)
LEMMA QueuesKeep ==
  ASSUME QueuesInv, Queues!Next
  PROVE  QueuesInv'
<1>1. CASE over' # "no"
  BY <1>1 DEF QueuesInv
<1>2. CASE Queues!Ended /\ over' = "no"
  BY <1>2 DEF Queues!Ended, Queues!queuesVars
<1>3. CASE Queues!ClientStep /\ over' = "no"
  BY <1>3, YieldKeeps, LeaveKeeps, DemoKeeps DEF Queues!ClientStep
<1>. QED
  BY <1>1, <1>2, <1>3, CreateKeeps, TickKeeps DEF Queues!Next

\* Created threads stay in the queues of test.c, once, unless they have returned
\* or yielded, for any number of threads and of queues: what a tick loses are
\* only threads that were to leave anyway.
THEOREM StaysQueuedCorrect == Spec => []StaysQueued
<1>. DEFINE IInv == IF version = "queues" THEN QueuesInv ELSE over = "unused"
<1>1. Init => IInv
  BY QueuesInvInit DEF Init, NoQueues, NoLibrary
<1>2. IInv /\ [Next]_vars => IInv'
  <2>. SUFFICES ASSUME IInv, [Next]_vars PROVE IInv'
    OBVIOUS
  <2>1. CASE version = "queues" /\ Next
    <3>1. version' = "queues" /\ Queues!Next
      BY <2>1 DEF Next
    <3>. QED
      BY <2>1, <3>1, QueuesKeep
  <2>2. CASE version # "queues" /\ Next
    BY <2>2 DEF Next, onlyQueues, libraries
  <2>3. CASE UNCHANGED vars
    BY <2>3 DEF vars, libraries, onlyQueues, earlier, QueuesInv, Shapes, OnCPU, Once, Placed,
                Idling, Has, Created
  <2>. QED
    BY <2>1, <2>2, <2>3
<1>3. IInv => StaysQueued
  BY InvStaysQueued DEF StaysQueued, Queues!StaysQueued
<1>. QED
  BY <1>1, <1>2, <1>3, PTL DEF Spec
=============================================================================
