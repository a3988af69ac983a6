--------------------------- MODULE StartupProofs ----------------------------
(***************************************************************************)
(* Theorems about Startup, for any number of threads and levels, wherever  *)
(* the first tick cuts main() off.                                         *)
(***************************************************************************)
EXTENDS Startup, FiniteSetTheorems, SequenceTheorems, WellFoundedInduction, TLAPS

USE StartupAssumption

Top == QUEUELEVEL - 1

-----------------------------------------------------------------------------
(* The chain from each sentinel, as a sequence of cells.  Everything here  *)
(* is about links nx and threads th that need not be the current ones.     *)

Chain(s, l, nx) ==
    /\ s[1] = l
    /\ \A i \in 2 .. Len(s) : s[i] \in Nodes
    /\ \A i \in 1 .. Len(s) - 1 : nx[s[i]] = s[i + 1]
    /\ nx[s[Len(s)]] = Nil

\* No thread is queued twice; so no node is, either.
Distinct(p, th) ==
    \A l, m \in Levels : \A i \in 2 .. Len(p[l]), j \in 2 .. Len(p[m]) :
        th[p[l][i]] = th[p[m][j]] => l = m /\ i = j

Chains(p, nx, th) ==
    /\ p \in [Levels -> Seq(Cells)]
    /\ \A l \in Levels : Len(p[l]) >= 1 /\ Chain(p[l], l, nx)
    /\ \A l \in Levels : \A i \in 2 .. Len(p[l]) : th[p[l][i]] \in Threads
    /\ Distinct(p, th)

Queued(p, th) == {t \in Threads : \E l \in Levels : \E i \in 2 .. Len(p[l]) : th[p[l][i]] = t}

(* Sentinels and nodes are integers, and apart. *)
LEMMA CellFacts ==
  /\ Cells = 0 .. 2 * QUEUELEVEL + NumThreads
  /\ Levels \subseteq Int /\ Nodes \subseteq Int /\ Levels \cap Nodes = {}
  /\ Nil \notin Cells /\ Top \in Levels
BY DEF Cells, Nodes, Levels, Nil, Top

\* No cell is in two places.
LEMMA CellsApart ==
  ASSUME NEW p, NEW nx, NEW th, Chains(p, nx, th), NEW l \in Levels, NEW m \in Levels,
         NEW i \in 1 .. Len(p[l]), NEW j \in 1 .. Len(p[m]), p[l][i] = p[m][j]
  PROVE  l = m /\ i = j
<1>1. /\ p[l][1] = l /\ (i # 1 => i \in 2 .. Len(p[l]) /\ p[l][i] \in Nodes)
      /\ p[m][1] = m /\ (j # 1 => j \in 2 .. Len(p[m]) /\ p[m][j] \in Nodes)
  <2>1. Len(p[l]) \in Nat /\ Len(p[m]) \in Nat
    BY DEF Chains
  <2>2. i # 1 => i \in 2 .. Len(p[l])
    BY <2>1
  <2>3. j # 1 => j \in 2 .. Len(p[m])
    BY <2>1
  <2>. QED
    BY <2>2, <2>3 DEF Chains, Chain
<1>2. CASE i = 1
  BY <1>1, <1>2, CellFacts
<1>3. CASE j = 1
  BY <1>1, <1>3, CellFacts
<1>4. CASE i # 1 /\ j # 1
  <2>1. th[p[l][i]] = th[p[m][j]]
    OBVIOUS
  <2>. QED
    BY <1>1, <1>4, <2>1 DEF Chains, Distinct
<1>. QED
  BY <1>2, <1>3, <1>4

-----------------------------------------------------------------------------
(* A push.  The new node is linked behind the cell at place k: the last, or*)
(* the one before the last if the tail has been left behind.               *)

Pushed(p, l, k, node, q) ==
    /\ \A m \in Levels : m # l => q[m] = p[m]
    /\ q \in [Levels -> Seq(Cells)]
    /\ Len(q[l]) = k + 1 /\ q[l][k + 1] = node
    /\ \A i \in 1 .. k : q[l][i] = p[l][i]

(* There are the sequences that a push leaves. *)
LEMMA PushShape ==
  ASSUME NEW p \in [Levels -> Seq(Cells)], NEW l \in Levels, NEW k \in 1 .. Len(p[l]),
         NEW node \in Nodes
  PROVE  \E q : Pushed(p, l, k, node, q)
<1>1. PICK s \in Seq(Cells) : s = p[l]
  OBVIOUS
<1>2. node \in Cells /\ k \in Nat /\ Len(s) \in Nat /\ k <= Len(s)
  BY <1>1 DEF Cells
<1>3. PICK u : u = [i \in 1 .. k + 1 |-> IF i = k + 1 THEN node ELSE s[i]]
  OBVIOUS
<1>4. \A i \in 1 .. k + 1 : u[i] = IF i = k + 1 THEN node ELSE s[i]
  BY <1>3
<1>5. u \in Seq(Cells) /\ Len(u) = k + 1
  <2>1. \A i \in 1 .. k + 1 : u[i] \in Cells
    BY <1>2, <1>4
  <2>. QED
    BY <1>2, <1>3, <2>1
<1>6. PICK q : q = [p EXCEPT ![l] = u]
  OBVIOUS
<1>7. q \in [Levels -> Seq(Cells)] /\ q[l] = u /\ \A m \in Levels : m # l => q[m] = p[m]
  BY <1>5, <1>6
<1>8. k + 1 \in 1 .. k + 1 /\ \A i \in 1 .. k : i \in 1 .. k + 1 /\ i # k + 1
  BY <1>2
<1>. QED
  BY <1>1, <1>4, <1>5, <1>7, <1>8 DEF Pushed

\* What the two stores of LinkNode make of the cells.
Linked(nx, th, from, node, t, nx2, th2) ==
    /\ nx2[from] = node /\ nx2[node] = Nil /\ th2[node] = t
    /\ \A c \in Cells : c # from /\ c # node => nx2[c] = nx[c]
    /\ \A n \in Nodes : n # node => th2[n] = th[n]

(* A push keeps the chains. *)
LEMMA PushKeepsChains ==
  ASSUME NEW p, NEW nx, NEW th, Chains(p, nx, th), NEW l \in Levels, NEW k \in 1 .. Len(p[l]),
         NEW node \in Nodes, \A m \in Levels : \A i \in 1 .. Len(p[m]) : p[m][i] # node,
         NEW t \in Threads, t \notin Queued(p, th),
         NEW nx2, NEW th2, Linked(nx, th, p[l][k], node, t, nx2, th2),
         NEW q, Pushed(p, l, k, node, q)
  PROVE  Chains(q, nx2, th2)
<1>1. p \in [Levels -> Seq(Cells)] /\ q \in [Levels -> Seq(Cells)]
  BY DEF Chains, Pushed
<1>2. \A m \in Levels : Len(p[m]) \in Nat /\ Len(q[m]) \in Nat
  BY <1>1
<1>3. k \in Nat /\ k >= 1 /\ k <= Len(p[l]) /\ Len(q[l]) = k + 1
  BY <1>2 DEF Pushed
<1>4. ASSUME NEW m \in Levels, NEW i \in 1 .. Len(q[m])
      PROVE  \/ m = l /\ i = k + 1 /\ q[m][i] = node
             \/ i \in 1 .. Len(p[m]) /\ q[m][i] = p[m][i] /\ (m = l => i <= k)
  <2>1. CASE m = l
    BY <1>2, <1>3, <2>1 DEF Pushed
  <2>2. CASE m # l
    BY <2>2 DEF Pushed
  <2>. QED
    BY <2>1, <2>2
<1>5. ASSUME NEW m \in Levels, NEW i \in 2 .. Len(q[m])
      PROVE  \/ m = l /\ i = k + 1 /\ q[m][i] = node /\ th2[q[m][i]] = t
             \/ /\ i \in 2 .. Len(p[m]) /\ q[m][i] = p[m][i] /\ q[m][i] \in Nodes
                /\ th2[q[m][i]] = th[p[m][i]] /\ th[p[m][i]] \in Threads /\ th[p[m][i]] # t
  <2>1. i \in 1 .. Len(q[m]) /\ i \in Nat /\ i >= 2
    BY <1>2
  <2>2. CASE m = l /\ i = k + 1 /\ q[m][i] = node
    BY <2>2 DEF Linked
  <2>3. CASE i \in 1 .. Len(p[m]) /\ q[m][i] = p[m][i]
    <3>1. i \in 2 .. Len(p[m])
      BY <1>2, <2>1, <2>3
    <3>2. p[m][i] \in Nodes /\ p[m][i] # node /\ th[p[m][i]] \in Threads
      BY <2>3, <3>1 DEF Chains, Chain
    <3>3. th[p[m][i]] # t
      BY <3>1 DEF Queued
    <3>. QED
      BY <2>3, <3>1, <3>2, <3>3 DEF Linked
  <2>. QED
    BY <1>4, <2>1, <2>2, <2>3
<1>6. ASSUME NEW m \in Levels
      PROVE  Len(q[m]) >= 1 /\ Chain(q[m], m, nx2)
  <2>0. Len(p[m]) >= 1 /\ Chain(p[m], m, nx)
    BY DEF Chains
  <2>1. Len(q[m]) >= 1 /\ q[m][1] = m
    <3>1. CASE m = l
      BY <1>3, <2>0, <3>1 DEF Pushed, Chain
    <3>2. CASE m # l
      BY <2>0, <3>2 DEF Pushed, Chain
    <3>. QED
      BY <3>1, <3>2
  <2>2. \A i \in 2 .. Len(q[m]) : q[m][i] \in Nodes
    BY <1>5
  <2>3. ASSUME NEW i \in 1 .. Len(p[m]), m # l \/ i # k
        PROVE  nx2[p[m][i]] = nx[p[m][i]]
    <3>1. p[m][i] # p[l][k]
      BY <2>3, CellsApart
    <3>2. p[m][i] \in Cells
      BY <1>1
    <3>. QED
      BY <3>1, <3>2 DEF Linked
  <2>4. ASSUME NEW i \in 1 .. Len(q[m]) - 1
        PROVE  nx2[q[m][i]] = q[m][i + 1]
    <3>1. i \in Nat /\ i \in 1 .. Len(q[m]) /\ i + 1 \in 1 .. Len(q[m]) /\ i + 1 <= Len(q[m])
      BY <1>2
    <3>2. CASE m = l /\ i = k
      BY <1>3, <3>2 DEF Pushed, Linked
    <3>3. CASE m = l /\ i # k
      <4>1. i \in 1 .. k /\ i + 1 \in 1 .. k /\ i \in 1 .. Len(p[m]) - 1 /\ i \in 1 .. Len(p[m])
        BY <1>2, <1>3, <3>1, <3>3
      <4>. QED
        BY <2>0, <2>3, <3>3, <4>1 DEF Pushed, Chain
    <3>4. CASE m # l
      <4>1. q[m] = p[m]
        BY <3>4 DEF Pushed
      <4>. QED
        BY <2>0, <2>3, <3>1, <3>4, <4>1 DEF Chain
    <3>. QED
      BY <3>2, <3>3, <3>4
  <2>5. nx2[q[m][Len(q[m])]] = Nil
    <3>1. CASE m = l
      BY <1>3, <3>1 DEF Pushed, Linked
    <3>2. CASE m # l
      <4>1. q[m] = p[m] /\ Len(p[m]) \in 1 .. Len(p[m])
        BY <1>2, <2>0, <3>2 DEF Pushed
      <4>. QED
        BY <2>0, <2>3, <3>2, <4>1 DEF Chain
    <3>. QED
      BY <3>1, <3>2
  <2>. QED
    BY <2>1, <2>2, <2>4, <2>5 DEF Chain
<1>7. \A m \in Levels : \A i \in 2 .. Len(q[m]) : th2[q[m][i]] \in Threads
  BY <1>5
<1>8. Distinct(q, th2)
  <2>. SUFFICES ASSUME NEW a \in Levels, NEW b \in Levels, NEW i \in 2 .. Len(q[a]),
                       NEW j \in 2 .. Len(q[b]), th2[q[a][i]] = th2[q[b][j]]
                PROVE  a = b /\ i = j
    BY DEF Distinct
  <2>1. CASE a = l /\ i = k + 1 /\ th2[q[a][i]] = t
    <3>1. ~ (th2[q[b][j]] = th[p[b][j]] /\ th[p[b][j]] # t)
      BY <2>1
    <3>. QED
      BY <1>5, <2>1, <3>1
  <2>2. CASE b = l /\ j = k + 1 /\ th2[q[b][j]] = t
    <3>1. ~ (th2[q[a][i]] = th[p[a][i]] /\ th[p[a][i]] # t)
      BY <2>2
    <3>. QED
      BY <1>5, <2>2, <3>1
  <2>3. CASE /\ i \in 2 .. Len(p[a]) /\ th2[q[a][i]] = th[p[a][i]]
             /\ j \in 2 .. Len(p[b]) /\ th2[q[b][j]] = th[p[b][j]]
    <3>1. th[p[a][i]] = th[p[b][j]]
      BY <2>3
    <3>. QED
      BY <2>3, <3>1 DEF Chains, Distinct
  <2>. QED
    BY <1>5, <2>1, <2>2, <2>3
<1>. QED
  BY <1>1, <1>6, <1>7, <1>8 DEF Chains

\* A push at the last cell queues its thread; one cell earlier it drops the last.
QueuedAfterPush(p, th, l, k, t, q, th2) ==
    /\ k = Len(p[l]) => Queued(q, th2) = Queued(p, th) \cup {t}
    /\ k = Len(p[l]) - 1 =>
         /\ th[p[l][Len(p[l])]] \in Queued(p, th)
         /\ Queued(q, th2) = (Queued(p, th) \ {th[p[l][Len(p[l])]]}) \cup {t}

(* What a push queues and, at a tail left behind, drops. *)
LEMMA PushQueues ==
  ASSUME NEW p, NEW nx, NEW th, Chains(p, nx, th), NEW l \in Levels, NEW k \in 1 .. Len(p[l]),
         NEW node \in Nodes, \A m \in Levels : \A i \in 1 .. Len(p[m]) : p[m][i] # node,
         NEW t \in Threads, t \notin Queued(p, th),
         NEW nx2, NEW th2, Linked(nx, th, p[l][k], node, t, nx2, th2),
         NEW q, Pushed(p, l, k, node, q)
  PROVE  QueuedAfterPush(p, th, l, k, t, q, th2)
<1>1. p \in [Levels -> Seq(Cells)] /\ q \in [Levels -> Seq(Cells)]
  BY DEF Chains, Pushed
<1>2. \A m \in Levels : Len(p[m]) \in Nat /\ Len(q[m]) \in Nat
  BY <1>1
<1>3. k \in Nat /\ k >= 1 /\ k <= Len(p[l]) /\ Len(q[l]) = k + 1
  BY <1>2 DEF Pushed
<1>4. \A m \in Levels : \A i \in 2 .. Len(p[m]) :
        p[m][i] \in Nodes /\ p[m][i] # node /\ th2[p[m][i]] = th[p[m][i]] /\ th[p[m][i]] \in Threads
  <2>. SUFFICES ASSUME NEW m \in Levels, NEW i \in 2 .. Len(p[m])
                PROVE  p[m][i] \in Nodes /\ p[m][i] # node /\ th2[p[m][i]] = th[p[m][i]]
                       /\ th[p[m][i]] \in Threads
    OBVIOUS
  <2>1. i \in 1 .. Len(p[m])
    BY <1>2
  <2>. QED
    BY <2>1 DEF Chains, Chain, Linked
<1>5. t \in Queued(q, th2)
  <2>1. k + 1 \in 2 .. Len(q[l]) /\ th2[q[l][k + 1]] = t
    BY <1>3 DEF Pushed, Linked
  <2>. QED
    BY <2>1 DEF Queued
<1>6. ASSUME NEW m \in Levels, NEW i \in 2 .. Len(p[m]), m # l \/ i <= k
      PROVE  th[p[m][i]] \in Queued(q, th2)
  <2>1. i \in 2 .. Len(q[m]) /\ q[m][i] = p[m][i]
    <3>1. CASE m # l
      BY <3>1 DEF Pushed
    <3>2. CASE m = l
      BY <1>2, <1>3, <1>6, <3>2 DEF Pushed
    <3>. QED
      BY <3>1, <3>2
  <2>2. th2[q[m][i]] = th[p[m][i]] /\ th[p[m][i]] \in Threads
    BY <1>4, <2>1
  <2>. QED
    BY <2>1, <2>2 DEF Queued
<1>7. ASSUME NEW u \in Queued(q, th2), u # t
      PROVE  \E m \in Levels : \E i \in 2 .. Len(p[m]) : th[p[m][i]] = u /\ (m # l \/ i <= k)
  <2>1. PICK m \in Levels : \E i \in 2 .. Len(q[m]) : th2[q[m][i]] = u
    BY DEF Queued
  <2>2. PICK i \in 2 .. Len(q[m]) : th2[q[m][i]] = u
    BY <2>1
  <2>3. CASE m # l
    <3>1. q[m] = p[m]
      BY <2>3 DEF Pushed
    <3>. QED
      BY <1>4, <2>2, <2>3, <3>1
  <2>4. CASE m = l
    <3>1. i # k + 1
      BY <1>7, <2>2, <2>4 DEF Pushed, Linked
    <3>2. i \in 2 .. Len(p[m]) /\ i \in 1 .. k /\ i <= k
      BY <1>2, <1>3, <2>4, <3>1
    <3>3. q[m][i] = p[m][i]
      BY <2>4, <3>2 DEF Pushed
    <3>. QED
      BY <1>4, <2>2, <3>2, <3>3
  <2>. QED
    BY <2>3, <2>4
<1>8. ASSUME NEW u \in Queued(p, th)
      PROVE  \E m \in Levels : \E i \in 2 .. Len(p[m]) : th[p[m][i]] = u
  BY DEF Queued
<1>9. \A u \in Queued(q, th2) : u # t => u \in Queued(p, th)
  BY <1>7, <1>4 DEF Queued
<1>10. CASE k = Len(p[l])
  <2>1. ASSUME NEW u \in Queued(p, th) PROVE u \in Queued(q, th2)
    <3>1. PICK m \in Levels : \E i \in 2 .. Len(p[m]) : th[p[m][i]] = u
      BY <1>8
    <3>2. PICK i \in 2 .. Len(p[m]) : th[p[m][i]] = u
      BY <3>1
    <3>3. m # l \/ i <= k
      BY <1>2, <1>10
    <3>. QED
      BY <1>6, <3>2, <3>3
  <2>2. k # Len(p[l]) - 1
    BY <1>3, <1>10
  <2>. QED
    BY <1>5, <1>9, <1>10, <2>1, <2>2 DEF QueuedAfterPush
<1>11. CASE k = Len(p[l]) - 1
  <2>1. PICK n : n = Len(p[l])
    OBVIOUS
  <2>2. n \in 2 .. Len(p[l]) /\ n = k + 1 /\ k # n
    BY <1>2, <1>3, <1>11, <2>1
  <2>3. PICK x : x = th[p[l][n]]
    OBVIOUS
  <2>4. x \in Queued(p, th)
    BY <1>4, <2>2, <2>3 DEF Queued
  <2>5. ASSUME NEW u \in Queued(p, th), u # x PROVE u \in Queued(q, th2)
    <3>1. PICK m \in Levels : \E i \in 2 .. Len(p[m]) : th[p[m][i]] = u
      BY <1>8
    <3>2. PICK i \in 2 .. Len(p[m]) : th[p[m][i]] = u
      BY <3>1
    <3>3. m # l \/ i <= k
      <4>. SUFFICES ASSUME m = l PROVE i <= k
        OBVIOUS
      <4>1. i # n
        BY <2>3, <2>5, <3>2
      <4>2. i \in 2 .. n /\ n \in Nat
        BY <1>2, <2>1
      <4>. QED
        BY <1>3, <2>2, <4>1, <4>2
    <3>. QED
      BY <1>6, <3>2, <3>3
  <2>6. ASSUME x \in Queued(q, th2), x # t PROVE FALSE
    <3>1. PICK m \in Levels : \E i \in 2 .. Len(p[m]) : th[p[m][i]] = x /\ (m # l \/ i <= k)
      BY <1>7, <2>6
    <3>2. PICK i \in 2 .. Len(p[m]) : th[p[m][i]] = x /\ (m # l \/ i <= k)
      BY <3>1
    <3>3. m = l /\ i = n
      BY <2>2, <2>3, <3>2 DEF Chains, Distinct
    <3>. QED
      BY <1>3, <2>2, <3>2, <3>3
  <2>7. Queued(q, th2) = (Queued(p, th) \ {x}) \cup {t}
    BY <1>5, <1>9, <2>5, <2>6
  <2>. QED
    BY <1>11, <2>1, <2>2, <2>3, <2>4, <2>7 DEF QueuedAfterPush
<1>. QED
  BY <1>10, <1>11 DEF QueuedAfterPush

-----------------------------------------------------------------------------
(* A pop.                                                                  *)

Popped(p, l, q) ==
    /\ \A m \in Levels : m # l => q[m] = p[m]
    /\ q \in [Levels -> Seq(Cells)]
    /\ Len(q[l]) = Len(p[l]) - 1 /\ q[l][1] = l
    /\ \A i \in 2 .. Len(p[l]) - 1 : q[l][i] = p[l][i + 1]

(* There are the sequences that a pop leaves. *)
LEMMA PopShape ==
  ASSUME NEW p \in [Levels -> Seq(Cells)], NEW l \in Levels, Len(p[l]) >= 2
  PROVE  \E q : Popped(p, l, q)
<1>1. PICK s \in Seq(Cells) : s = p[l]
  OBVIOUS
<1>2. PICK n \in Nat : n = Len(s) /\ n >= 2
  BY <1>1
<1>3. PICK u : u = [i \in 1 .. n - 1 |-> IF i = 1 THEN l ELSE s[i + 1]]
  OBVIOUS
<1>4. \A i \in 1 .. n - 1 : u[i] = IF i = 1 THEN l ELSE s[i + 1]
  BY <1>3
<1>5. u \in Seq(Cells) /\ Len(u) = n - 1
  <2>1. \A i \in 1 .. n - 1 : i + 1 \in 1 .. n
    BY <1>2
  <2>2. \A i \in 1 .. n - 1 : u[i] \in Cells
    BY <1>2, <1>4, <2>1 DEF Cells
  <2>3. n - 1 \in Nat
    BY <1>2
  <2>. QED
    BY <1>3, <2>2, <2>3
<1>6. PICK q : q = [p EXCEPT ![l] = u]
  OBVIOUS
<1>7. q \in [Levels -> Seq(Cells)] /\ q[l] = u /\ \A m \in Levels : m # l => q[m] = p[m]
  BY <1>5, <1>6
<1>8. 1 \in 1 .. n - 1 /\ \A i \in 2 .. n - 1 : i \in 1 .. n - 1 /\ i # 1
  BY <1>2
<1>. QED
  BY <1>1, <1>2, <1>4, <1>5, <1>7, <1>8 DEF Popped

(* A pop keeps the chains, and takes the first thread out of them. *)
LEMMA PopKeepsChains ==
  ASSUME NEW p, NEW nx, NEW th, Chains(p, nx, th), NEW l \in Levels, Len(p[l]) >= 2,
         NEW nx2, nx2[l] = nx[nx[l]], \A c \in Cells : c # l => nx2[c] = nx[c],
         NEW q, Popped(p, l, q)
  PROVE  /\ Chains(q, nx2, th) /\ nx[l] = p[l][2]
         /\ th[p[l][2]] \in Queued(p, th)
         /\ Queued(q, th) = Queued(p, th) \ {th[p[l][2]]}
<1>1. p \in [Levels -> Seq(Cells)] /\ q \in [Levels -> Seq(Cells)]
  BY DEF Chains, Popped
<1>2. \A m \in Levels : Len(p[m]) \in Nat /\ Len(q[m]) \in Nat
  BY <1>1
<1>3. PICK n \in Nat : n = Len(p[l]) /\ n >= 2 /\ Len(q[l]) = n - 1
  BY <1>2 DEF Popped
<1>4. ASSUME NEW m \in Levels, NEW i \in 2 .. Len(q[m])
      PROVE  /\ q[m][i] = p[m][IF m = l THEN i + 1 ELSE i]
             /\ (IF m = l THEN i + 1 ELSE i) \in 2 .. Len(p[m])
  <2>1. CASE m = l
    <3>1. i + 1 \in 2 .. n /\ i \in 2 .. n - 1
      BY <1>3, <2>1
    <3>. QED
      BY <1>3, <2>1, <3>1 DEF Popped
  <2>2. CASE m # l
    BY <2>2 DEF Popped
  <2>. QED
    BY <2>1, <2>2
<1>5. /\ 1 \in 1 .. n - 1 /\ 2 \in 2 .. n /\ p[l][1] = l /\ nx[l] = p[l][2]
      /\ Chain(p[l], l, nx)
  <2>1. 1 \in 1 .. n - 1 /\ 2 \in 2 .. n /\ 1 + 1 = 2
    BY <1>3
  <2>2. Chain(p[l], l, nx)
    BY DEF Chains
  <2>. QED
    BY <1>3, <2>1, <2>2 DEF Chain
<1>6. ASSUME NEW m \in Levels, NEW i \in 2 .. Len(p[m]) PROVE nx2[p[m][i]] = nx[p[m][i]]
  <2>1. p[m][i] \in Nodes
    BY DEF Chains, Chain
  <2>. QED
    BY <2>1, CellFacts DEF Cells
<1>7. ASSUME NEW m \in Levels, m # l
      PROVE  Len(q[m]) >= 1 /\ Chain(q[m], m, nx2)
  <2>1. q[m] = p[m] /\ Len(p[m]) >= 1 /\ Chain(p[m], m, nx)
    BY <1>7 DEF Popped, Chains
  <2>2. ASSUME NEW i \in 1 .. Len(p[m]) PROVE nx2[p[m][i]] = nx[p[m][i]]
    <3>1. CASE i = 1
      BY <1>7, <2>1, <3>1, CellFacts DEF Chain, Cells
    <3>2. CASE i # 1
      <4>1. i \in 2 .. Len(p[m])
        BY <1>2, <3>2
      <4>. QED
        BY <1>6, <4>1
    <3>. QED
      BY <3>1, <3>2
  <2>3. Len(p[m]) \in 1 .. Len(p[m]) /\ \A i \in 1 .. Len(p[m]) - 1 : i \in 1 .. Len(p[m])
    BY <1>2, <2>1
  <2>. QED
    BY <2>1, <2>2, <2>3 DEF Chain
<1>8. Len(q[l]) >= 1 /\ Chain(q[l], l, nx2)
  <2>0. n \in Nat /\ n >= 2
    BY <1>3
  <2>1. \A i \in 2 .. n - 1 : q[l][i] = p[l][i + 1] /\ i + 1 \in 2 .. n
    BY <1>3 DEF Popped
  <2>2. Len(q[l]) >= 1 /\ q[l][1] = l
    BY <1>3 DEF Popped
  <2>3. \A i \in 2 .. n - 1 : q[l][i] \in Nodes
    BY <1>3, <1>5, <2>1 DEF Chain
  <2>4. \A i \in 1 .. n - 1 : nx[p[l][i]] = p[l][i + 1]
    BY <1>3, <1>5 DEF Chain
  <2>5. nx2[l] = nx[p[l][2]]
    BY <1>5
  <2>6. ASSUME NEW i \in 1 .. n - 2 PROVE nx2[q[l][i]] = q[l][i + 1]
    <3>1. CASE i = 1
      <4>1. 2 \in 1 .. n - 1 /\ 2 \in 2 .. n - 1 /\ i + 1 = 2 /\ 2 + 1 = 3
        BY <1>3, <3>1
      <4>2. nx2[l] = p[l][3]
        BY <2>4, <2>5, <4>1
      <4>3. q[l][2] = p[l][3]
        BY <2>1, <4>1
      <4>. QED
        BY <2>2, <3>1, <4>1, <4>2, <4>3
    <3>2. CASE i # 1
      <4>1. PICK j : j = i + 1
        OBVIOUS
      <4>2. i \in 2 .. n - 1 /\ j \in 2 .. n - 1 /\ j \in 2 .. n /\ j \in 1 .. n - 1
        BY <1>3, <3>2, <4>1
      <4>3. q[l][i] = p[l][j] /\ q[l][j] = p[l][j + 1]
        BY <2>1, <4>1, <4>2
      <4>4. nx2[p[l][j]] = p[l][j + 1]
        BY <1>3, <1>6, <2>4, <4>2
      <4>. QED
        BY <4>1, <4>3, <4>4
    <3>. QED
      BY <3>1, <3>2
  <2>7. nx2[q[l][n - 1]] = Nil
    <3>1. nx[p[l][n]] = Nil
      BY <1>3, <1>5 DEF Chain
    <3>2. CASE n = 2
      BY <1>3, <2>2, <2>5, <3>1, <3>2
    <3>3. CASE n # 2
      <4>0. n \in Nat /\ n >= 3
        BY <2>0, <3>3
      <4>1. n - 1 \in 2 .. n - 1 /\ (n - 1) + 1 = n /\ n \in 2 .. n
        BY <4>0
      <4>2. q[l][n - 1] = p[l][n]
        BY <2>1, <4>1
      <4>. QED
        BY <1>3, <1>6, <3>1, <4>1, <4>2
    <3>. QED
      BY <3>2, <3>3
  <2>8. (n - 1) - 1 = n - 2
    BY <1>3
  <2>. QED
    BY <1>3, <2>2, <2>3, <2>6, <2>7, <2>8 DEF Chain
<1>9. \A m \in Levels : \A i \in 2 .. Len(q[m]) : th[q[m][i]] \in Threads
  BY <1>4 DEF Chains
<1>10. Distinct(q, th)
  <2>. SUFFICES ASSUME NEW a \in Levels, NEW b \in Levels, NEW i \in 2 .. Len(q[a]),
                       NEW j \in 2 .. Len(q[b]), th[q[a][i]] = th[q[b][j]]
                PROVE  a = b /\ i = j
    BY DEF Distinct
  <2>1. PICK x : x = IF a = l THEN i + 1 ELSE i
    OBVIOUS
  <2>2. PICK y : y = IF b = l THEN j + 1 ELSE j
    OBVIOUS
  <2>3. x \in 2 .. Len(p[a]) /\ y \in 2 .. Len(p[b]) /\ th[p[a][x]] = th[p[b][y]]
    BY <1>4, <2>1, <2>2
  <2>4. a = b /\ x = y
    BY <2>3 DEF Chains, Distinct
  <2>5. i \in Int /\ j \in Int
    OBVIOUS
  <2>. QED
    BY <2>1, <2>2, <2>4, <2>5
<1>11. th[p[l][2]] \in Queued(p, th)
  BY <1>3, <1>5 DEF Queued, Chains
<1>12. ASSUME NEW u \in Queued(q, th) PROVE u \in Queued(p, th) /\ u # th[p[l][2]]
  <2>1. PICK m \in Levels : \E i \in 2 .. Len(q[m]) : th[q[m][i]] = u
    BY DEF Queued
  <2>2. PICK i \in 2 .. Len(q[m]) : th[q[m][i]] = u
    BY <2>1
  <2>3. PICK x : x = IF m = l THEN i + 1 ELSE i
    OBVIOUS
  <2>4. x \in 2 .. Len(p[m]) /\ th[p[m][x]] = u
    BY <1>4, <2>2, <2>3
  <2>5. u \in Queued(p, th)
    BY <2>4 DEF Queued
  <2>6. ASSUME u = th[p[l][2]] PROVE FALSE
    <3>1. m = l /\ x = 2
      BY <1>3, <1>5, <2>4, <2>6 DEF Chains, Distinct
    <3>2. i \in Int /\ i >= 2
      OBVIOUS
    <3>. QED
      BY <2>3, <3>1, <3>2
  <2>. QED
    BY <2>5, <2>6
<1>13. ASSUME NEW u \in Queued(p, th), u # th[p[l][2]] PROVE u \in Queued(q, th)
  <2>1. PICK m \in Levels : \E i \in 2 .. Len(p[m]) : th[p[m][i]] = u
    BY DEF Queued
  <2>2. PICK i \in 2 .. Len(p[m]) : th[p[m][i]] = u
    BY <2>1
  <2>3. CASE m # l
    BY <2>2, <2>3 DEF Queued, Popped
  <2>4. CASE m = l
    <3>1. i # 2
      BY <1>13, <2>2, <2>4
    <3>2. PICK j : j = i - 1
      OBVIOUS
    <3>3. j \in 2 .. n - 1 /\ j + 1 = i /\ j \in 2 .. Len(q[l])
      BY <1>3, <2>4, <3>1, <3>2
    <3>4. q[l][j] = p[l][i]
      BY <1>3, <3>3 DEF Popped
    <3>. QED
      BY <2>2, <2>4, <3>3, <3>4 DEF Queued
  <2>. QED
    BY <2>3, <2>4
<1>. QED
  BY <1>1, <1>5, <1>7, <1>8, <1>9, <1>10, <1>11, <1>12, <1>13 DEF Chains

-----------------------------------------------------------------------------
(* Functions defined by recursion on a number.                             *)

(* Induction up to n, for a set of numbers. *)
LEMMA Induct ==
  ASSUME NEW n \in Nat, NEW T, 0 \in T, \A k \in 1 .. n : k - 1 \in T => k \in T
  PROVE  0 .. n \subseteq T
<1>. DEFINE Rest == (0 .. n) \ T
<1>. SUFFICES ASSUME Rest # {} PROVE FALSE
  OBVIOUS
<1>1. Rest \in SUBSET Nat
  OBVIOUS
<1>2. PICK k \in Rest : \A m \in Rest : <<m, k>> \notin OpToRel(<, Nat)
  BY <1>1, NatLessThanWellFounded, WFMin
<1>3. k \in 1 .. n /\ k - 1 \in 0 .. n /\ k - 1 < k /\ k \in Nat /\ k - 1 \in Nat
  OBVIOUS
<1>4. k - 1 \notin Rest
  BY <1>2, <1>3 DEF OpToRel
<1>. QED
  BY <1>3, <1>4

Iteration(f, a, succ, n) == f[0] = a /\ \A k \in 1 .. n : f[k] = succ[f[k - 1]]

(* The iterates of a function. *)
LEMMA Iterates ==
  ASSUME NEW S, NEW a \in S, NEW succ \in [S -> S], NEW n \in Nat
  PROVE  \E f \in [0 .. n -> S] : Iteration(f, a, succ, n)
<1>. DEFINE T == {m \in 0 .. n : \E f \in [0 .. m -> S] : Iteration(f, a, succ, m)}
<1>1. 0 \in T
  <2>1. PICK f : f = [k \in 0 .. 0 |-> a]
    OBVIOUS
  <2>2. f \in [0 .. 0 -> S] /\ Iteration(f, a, succ, 0)
    BY <2>1 DEF Iteration
  <2>3. 0 \in 0 .. n
    OBVIOUS
  <2>. QED
    BY <2>2, <2>3
<1>2. ASSUME NEW m \in 1 .. n, m - 1 \in T PROVE m \in T
  <2>0. PICK f \in [0 .. m - 1 -> S] : Iteration(f, a, succ, m - 1)
    BY <1>2
  <2>1. f[0] = a /\ \A k \in 1 .. m - 1 : f[k] = succ[f[k - 1]]
    BY <2>0 DEF Iteration
  <2>2. m \in Nat /\ m >= 1 /\ m - 1 \in 0 .. m - 1 /\ m \in 0 .. n
    OBVIOUS
  <2>3. PICK g : g = [k \in 0 .. m |-> IF k = m THEN succ[f[m - 1]] ELSE f[k]]
    OBVIOUS
  <2>4. \A k \in 0 .. m - 1 : g[k] = f[k] /\ k \in 0 .. m
    BY <2>2, <2>3
  <2>5. g[m] = succ[f[m - 1]] /\ f[m - 1] \in S
    BY <2>2, <2>3
  <2>6. g \in [0 .. m -> S]
    <3>1. \A k \in 0 .. m : (IF k = m THEN succ[f[m - 1]] ELSE f[k]) \in S
      BY <2>2, <2>5
    <3>. QED
      BY <2>3, <3>1
  <2>7. g[0] = a
    BY <2>1, <2>2, <2>4
  <2>8. ASSUME NEW k \in 1 .. m PROVE g[k] = succ[g[k - 1]]
    <3>1. k - 1 \in 0 .. m - 1 /\ (k # m => k \in 1 .. m - 1 /\ k \in 0 .. m - 1)
      BY <2>2
    <3>. QED
      BY <2>1, <2>4, <2>5, <3>1
  <2>. QED
    BY <2>2, <2>6, <2>7, <2>8 DEF Iteration
<1>. HIDE DEF T
<1>3. n \in T
  BY <1>1, <1>2, Induct
<1>. QED
  BY <1>3 DEF T

(* There are more nodes than threads. *)
LEMMA Sizes ==
  /\ Cardinality(Nodes) = QUEUELEVEL + NumThreads + 1 /\ IsFiniteSet(Nodes)
  /\ Cardinality(Threads) = NumThreads /\ IsFiniteSet(Threads)
  /\ Cardinality(Nodes) \in Nat
<1>1. /\ IsFiniteSet(Nodes)
      /\ Cardinality(Nodes) = (2 * QUEUELEVEL + NumThreads) - QUEUELEVEL + 1
  BY FS_Interval DEF Nodes
<1>2. IsFiniteSet(Threads) /\ Cardinality(Threads) = NumThreads
  BY FS_Interval DEF Threads
<1>. QED
  BY <1>1, <1>2

\* No chain is longer than there are threads.
LEMMA ChainsAreShort ==
  ASSUME NEW p, NEW nx, NEW th, Chains(p, nx, th), NEW l \in Levels
  PROVE  Len(p[l]) \in Nat /\ Len(p[l]) >= 1 /\ Len(p[l]) - 1 <= NumThreads
<1>1. PICK n \in Nat : n = Len(p[l])
  BY DEF Chains
<1>2. n >= 1
  BY <1>1 DEF Chains
<1>3. PICK f : f = [i \in 2 .. n |-> th[p[l][i]]]
  OBVIOUS
<1>4. f \in Injection(2 .. n, Threads)
  <2>1. f \in [2 .. n -> Threads]
    BY <1>1, <1>3 DEF Chains
  <2>2. \A i, j \in 2 .. n : f[i] = f[j] => i = j
    BY <1>1, <1>3 DEF Chains, Distinct
  <2>. QED
    BY <2>1, <2>2 DEF Injection, IsInjective
<1>5. IsFiniteSet(2 .. n) /\ Cardinality(2 .. n) = n - 1
  BY <1>2, FS_Interval
<1>6. Cardinality(2 .. n) <= Cardinality(Threads)
  BY <1>4, <1>5, Sizes, FS_Injection
<1>. QED
  BY <1>1, <1>2, <1>5, <1>6, Sizes

\* Some node is in no chain.
LEMMA FreeNode ==
  ASSUME NEW p, NEW nx, NEW th, Chains(p, nx, th)
  PROVE  \E node \in Nodes : \A l \in Levels : \A i \in 1 .. Len(p[l]) : p[l][i] # node
<1>. DEFINE U == {c \in Nodes : \E l \in Levels : \E i \in 1 .. Len(p[l]) : p[l][i] = c}
<1>1. \A c \in U : \E l \in Levels : \E i \in 2 .. Len(p[l]) : p[l][i] = c
  <2>. SUFFICES ASSUME NEW c \in U
                PROVE  \E l \in Levels : \E i \in 2 .. Len(p[l]) : p[l][i] = c
    OBVIOUS
  <2>1. PICK l \in Levels : \E i \in 1 .. Len(p[l]) : p[l][i] = c
    OBVIOUS
  <2>2. PICK i \in 1 .. Len(p[l]) : p[l][i] = c
    BY <2>1
  <2>3. i # 1
    BY <2>2, CellFacts DEF Chains, Chain
  <2>4. Len(p[l]) \in Nat
    BY DEF Chains
  <2>5. i \in 2 .. Len(p[l])
    BY <2>3, <2>4
  <2>. QED
    BY <2>2, <2>5
<1>2. PICK f : f = [c \in U |-> th[c]]
  OBVIOUS
<1>3. f \in [U -> Threads]
  <2>. HIDE DEF U
  <2>. SUFFICES ASSUME NEW c \in U PROVE th[c] \in Threads
    BY <1>2
  <2>1. PICK l \in Levels : \E i \in 2 .. Len(p[l]) : p[l][i] = c
    BY <1>1
  <2>2. PICK i \in 2 .. Len(p[l]) : p[l][i] = c
    BY <2>1
  <2>. QED
    BY <2>2 DEF Chains
<1>4. \A c, d \in U : f[c] = f[d] => c = d
  <2>. HIDE DEF U
  <2>. SUFFICES ASSUME NEW c \in U, NEW d \in U, th[c] = th[d] PROVE c = d
    BY <1>2
  <2>1. PICK l \in Levels : \E i \in 2 .. Len(p[l]) : p[l][i] = c
    BY <1>1
  <2>2. PICK i \in 2 .. Len(p[l]) : p[l][i] = c
    BY <2>1
  <2>3. PICK m \in Levels : \E j \in 2 .. Len(p[m]) : p[m][j] = d
    BY <1>1
  <2>4. PICK j \in 2 .. Len(p[m]) : p[m][j] = d
    BY <2>3
  <2>5. th[p[l][i]] = th[p[m][j]]
    BY <2>2, <2>4
  <2>6. l = m /\ i = j
    BY <2>5 DEF Chains, Distinct
  <2>. QED
    BY <2>2, <2>4, <2>6
<1>5. f \in Injection(U, Threads)
  BY <1>3, <1>4 DEF Injection, IsInjective
<1>6. U \subseteq Nodes
  OBVIOUS
<1>. HIDE DEF U
<1>7. Cardinality(U) <= Cardinality(Threads) /\ IsFiniteSet(U)
  BY <1>5, Sizes, FS_Injection
<1>8. U # Nodes
  <2>1. Cardinality(U) # Cardinality(Nodes)
    BY <1>7, Sizes, FS_CardinalityType
  <2>. QED
    BY <2>1
<1>9. PICK node \in Nodes : node \notin U
  BY <1>6, <1>8
<1>. QED
  BY <1>9 DEF U

-----------------------------------------------------------------------------
(* The node that malloc finds, and what a list holds.                      *)

\* The tails are cells of the chains.
InChains(p, tl) == \A l \in Levels : \E i \in 1 .. Len(p[l]) : tl[l] = p[l][i]

\* g is the function `reach` of NewNode.
IsReach(g) ==
    g = [k \in 0 .. Cardinality(Nodes) |->
            IF k = 0 THEN Levels \cup {tail[l] : l \in Levels}
            ELSE g[k - 1] \cup {next[c] : c \in g[k - 1] \ {Nil}}]

(* There is such a function. *)
LEMMA ReachExists ==
  ASSUME NEW p, Chains(p, next, thread), InChains(p, tail),
         next \in [Cells -> Nodes \cup {Nil}]
  PROVE  \E g : IsReach(g)
<1>. DEFINE S    == SUBSET (Cells \cup {Nil})
            more == [s \in S |-> s \cup {next[c] : c \in s \ {Nil}}]
            a    == Levels \cup {tail[l] : l \in Levels}
<1>1. a \in S
  <2>1. \A l \in Levels : tail[l] \in Cells
    BY DEF InChains, Chains
  <2>. QED
    BY <2>1 DEF Cells
<1>2. more \in [S -> S]
  BY DEF Cells
<1>3. \A s \in S : more[s] = s \cup {next[c] : c \in s \ {Nil}}
  OBVIOUS
<1>. HIDE DEF more, a
<1>0. PICK N \in Nat : N = Cardinality(Nodes)
  BY Sizes
<1>7. PICK f \in [0 .. N -> S] : Iteration(f, a, more, N)
  <2>. HIDE DEF S
  <2>. QED
    BY <1>1, <1>2, Iterates
<1>4. /\ f \in [0 .. Cardinality(Nodes) -> S] /\ f[0] = a
      /\ \A k \in 1 .. Cardinality(Nodes) : f[k] = more[f[k - 1]]
  BY <1>0, <1>7 DEF Iteration
<1>5. \A k \in 0 .. Cardinality(Nodes) :
        f[k] = IF k = 0 THEN a ELSE f[k - 1] \cup {next[c] : c \in f[k - 1] \ {Nil}}
  <2>. SUFFICES ASSUME NEW k \in 0 .. Cardinality(Nodes), k # 0
                PROVE  f[k] = f[k - 1] \cup {next[c] : c \in f[k - 1] \ {Nil}}
    BY <1>4
  <2>1. k \in 1 .. Cardinality(Nodes) /\ k - 1 \in 0 .. Cardinality(Nodes)
    BY Sizes
  <2>. QED
    BY <1>3, <1>4, <2>1
<1>6. IsReach(f)
  BY <1>4, <1>5 DEF IsReach, a
<1>. QED
  BY <1>6

(* What is reached: the cells of the chains, and Nil. *)
LEMMA ReachesAll ==
  ASSUME NEW p, Chains(p, next, thread), InChains(p, tail), NEW g, IsReach(g)
  PROVE  \A l \in Levels : \A i \in 1 .. Len(p[l]) : p[l][i] \in g[Cardinality(Nodes)]
<1>1. PICK N \in Nat : N = Cardinality(Nodes) /\ N >= NumThreads
  BY Sizes
<1>2. /\ \A l \in Levels : l \in g[0]
      /\ \A k \in 1 .. N : g[k - 1] \subseteq g[k] /\ \A c \in g[k - 1] \ {Nil} : next[c] \in g[k]
  <2>1. 0 \in 0 .. N /\ \A k \in 1 .. N : k \in 0 .. N /\ k # 0
    BY <1>1
  <2>. QED
    BY <1>1, <2>1 DEF IsReach
<1>. SUFFICES ASSUME NEW l \in Levels, NEW i \in 1 .. Len(p[l]) PROVE p[l][i] \in g[N]
  BY <1>1
<1>. DEFINE T == {k \in 0 .. N : \A j \in 1 .. Len(p[l]) : j <= k + 1 => p[l][j] \in g[k]}
<1>3. PICK n \in Nat : n = Len(p[l]) /\ n <= N + 1
  BY <1>1, ChainsAreShort
<1>4. Chain(p[l], l, next) /\ \A j \in 1 .. n : p[l][j] # Nil
  <2>1. \A j \in 1 .. Len(p[l]) : p[l][j] \in Cells
    BY DEF Chains
  <2>. QED
    BY <1>3, <2>1, CellFacts DEF Chains
<1>5. 0 \in T
  <2>1. \A j \in 1 .. n : j <= 0 + 1 => j = 1
    OBVIOUS
  <2>2. p[l][1] \in g[0]
    BY <1>2, <1>4 DEF Chain
  <2>3. 0 \in 0 .. N
    BY <1>1
  <2>. QED
    BY <1>3, <2>1, <2>2, <2>3
<1>6. ASSUME NEW k \in 1 .. N, k - 1 \in T PROVE k \in T
  <2>1. k \in 0 .. N
    OBVIOUS
  <2>. SUFFICES ASSUME NEW j \in 1 .. n, j <= k + 1 PROVE p[l][j] \in g[k]
    BY <1>3, <2>1
  <2>2. \A m \in 1 .. n : m <= k => p[l][m] \in g[k - 1]
    BY <1>3, <1>6
  <2>3. CASE j <= k
    BY <1>2, <2>2, <2>3
  <2>4. CASE j = k + 1
    <3>1. k \in 1 .. n /\ k \in 1 .. n - 1
      BY <2>4
    <3>2. p[l][k] \in g[k - 1] /\ p[l][k] # Nil /\ next[p[l][k]] = p[l][k + 1]
      BY <1>3, <1>4, <2>2, <3>1 DEF Chain
    <3>. QED
      BY <1>2, <2>4, <3>2
  <2>. QED
    BY <2>3, <2>4
<1>. HIDE DEF T
<1>7. N \in T
  <2>1. N \in Nat
    OBVIOUS
  <2>2. 0 .. N \subseteq T
    BY <1>5, <1>6, <2>1, Induct
  <2>. QED
    BY <2>1, <2>2
<1>8. i \in 1 .. n /\ i <= N + 1
  BY <1>3
<1>. QED
  BY <1>3, <1>7, <1>8 DEF T

(* Nothing else is: cells in no chain stay free. *)
LEMMA ReachesNoMore ==
  ASSUME NEW p, Chains(p, next, thread), InChains(p, tail), NEW g, IsReach(g),
         NEW node \in Nodes, \A l \in Levels : \A i \in 1 .. Len(p[l]) : p[l][i] # node
  PROVE  node \notin g[Cardinality(Nodes)]
<1>1. PICK N \in Nat : N = Cardinality(Nodes)
  BY Sizes
<1>. DEFINE InUse == {c \in Cells : \E l \in Levels : \E i \in 1 .. Len(p[l]) : p[l][i] = c}
            T == {k \in 0 .. N : g[k] \subseteq InUse \cup {Nil}}
<1>2. \A k \in 0 .. N : g[k] = IF k = 0 THEN Levels \cup {tail[l] : l \in Levels}
                               ELSE g[k - 1] \cup {next[c] : c \in g[k - 1] \ {Nil}}
  BY <1>1 DEF IsReach
<1>3. \A l \in Levels : l \in InUse /\ tail[l] \in InUse
  <2>. SUFFICES ASSUME NEW l \in Levels PROVE l \in InUse /\ tail[l] \in InUse
    OBVIOUS
  <2>1. 1 \in 1 .. Len(p[l]) /\ p[l][1] = l /\ l \in Cells
    BY DEF Chains, Chain, Cells
  <2>2. PICK i \in 1 .. Len(p[l]) : tail[l] = p[l][i]
    BY DEF InChains
  <2>3. p[l][i] \in Cells
    BY DEF Chains
  <2>. QED
    BY <2>1, <2>2, <2>3
<1>4. \A c \in InUse : next[c] \in InUse \cup {Nil}
  <2>. SUFFICES ASSUME NEW c \in InUse PROVE next[c] \in InUse \cup {Nil}
    OBVIOUS
  <2>1. PICK l \in Levels : \E i \in 1 .. Len(p[l]) : p[l][i] = c
    OBVIOUS
  <2>2. PICK i \in 1 .. Len(p[l]) : p[l][i] = c
    BY <2>1
  <2>3. Len(p[l]) \in Nat /\ Chain(p[l], l, next)
    BY DEF Chains
  <2>4. CASE i = Len(p[l])
    BY <2>2, <2>3, <2>4 DEF Chain
  <2>5. CASE i # Len(p[l])
    <3>1. i \in 1 .. Len(p[l]) - 1 /\ i + 1 \in 1 .. Len(p[l])
      BY <2>3, <2>5
    <3>2. next[c] = p[l][i + 1] /\ p[l][i + 1] \in Cells
      BY <2>2, <2>3, <3>1 DEF Chain, Chains
    <3>. QED
      BY <3>1, <3>2
  <2>. QED
    BY <2>4, <2>5
<1>5. node \notin InUse /\ node # Nil
  BY CellFacts DEF Cells
<1>. HIDE DEF InUse
<1>6. 0 \in T
  <2>1. 0 \in 0 .. N
    BY <1>1
  <2>2. g[0] = Levels \cup {tail[l] : l \in Levels}
    BY <1>2, <2>1
  <2>3. g[0] \subseteq InUse
    BY <1>3, <2>2
  <2>. QED
    BY <2>1, <2>3
<1>7. ASSUME NEW k \in 1 .. N, k - 1 \in T PROVE k \in T
  <2>1. k \in 0 .. N /\ k # 0
    OBVIOUS
  <2>2. g[k] = g[k - 1] \cup {next[c] : c \in g[k - 1] \ {Nil}}
    BY <1>2, <2>1
  <2>3. \A c \in g[k - 1] : c \in InUse \cup {Nil}
    BY <1>7
  <2>4. g[k] \subseteq InUse \cup {Nil}
    BY <1>4, <2>2, <2>3
  <2>. QED
    BY <2>1, <2>4
<1>. HIDE DEF T
<1>8. N \in T
  <2>1. N \in Nat
    OBVIOUS
  <2>2. 0 .. N \subseteq T
    BY <1>6, <1>7, <2>1, Induct
  <2>. QED
    BY <2>1, <2>2
<1>. QED
  BY <1>1, <1>5, <1>8 DEF T

(* The node of malloc is a node of no chain. *)
LEMMA NewNodeIsNew ==
  ASSUME NEW p, Chains(p, next, thread), InChains(p, tail),
         next \in [Cells -> Nodes \cup {Nil}]
  PROVE  NewNode \in Nodes /\ \A l \in Levels : \A i \in 1 .. Len(p[l]) : p[l][i] # NewNode
<1>1. PICK g : g = CHOOSE h : IsReach(h)
  OBVIOUS
<1>2. IsReach(g)
  BY <1>1, ReachExists
<1>3. PICK free : free = Nodes \ g[Cardinality(Nodes)]
  OBVIOUS
<1>4. NewNode = CHOOSE n \in free : \A m \in free : n <= m
  BY <1>1, <1>3 DEF NewNode, IsReach
<1>5. free # {} /\ free \in SUBSET Nat
  <2>1. PICK node \in Nodes : \A l \in Levels : \A i \in 1 .. Len(p[l]) : p[l][i] # node
    BY FreeNode
  <2>2. node \in free
    BY <1>2, <1>3, <2>1, ReachesNoMore
  <2>3. Nodes \subseteq Nat
    BY DEF Nodes
  <2>. QED
    BY <1>3, <2>2, <2>3
<1>6. \E n \in free : \A m \in free : n <= m
  <2>1. PICK n \in free : \A m \in free : <<m, n>> \notin OpToRel(<, Nat)
    BY <1>5, NatLessThanWellFounded, WFMin
  <2>2. \A m \in free : m \in Nat /\ n \in Nat /\ ~ (m < n)
    BY <1>5, <2>1 DEF OpToRel
  <2>. QED
    BY <2>2
<1>7. NewNode \in free
  BY <1>4, <1>6
<1>. QED
  BY <1>2, <1>3, <1>7, ReachesAll

-----------------------------------------------------------------------------
(* What the list of a level holds.                                         *)

\* g is the function `from' of Contents, for links nx and threads th.
IsFrom(g, nx, th) ==
    g = [k \in 0 .. Cardinality(Nodes) |-> [c \in Nodes \cup {Nil} |->
            IF c = Nil \/ k = 0 THEN <<>> ELSE <<th[c]>> \o g[k - 1][nx[c]]]]

(* There is such a function, and it yields sequences of threads. *)
LEMMA FromExists ==
  ASSUME NEW nx \in [Cells -> Nodes \cup {Nil}], NEW th \in [Nodes -> Threads \cup {NoThread}]
  PROVE  \E g : IsFrom(g, nx, th)
<1>1. PICK N \in Nat : N = Cardinality(Nodes)
  BY Sizes
<1>2. PICK D : D = Nodes \cup {Nil}
  OBVIOUS
<1>3. PICK S : S = [D -> Seq(Threads \cup {NoThread})]
  OBVIOUS
<1>4. PICK a : a = [c \in D |-> <<>>]
  OBVIOUS
<1>5. PICK succ : succ = [h \in S |-> [c \in D |-> IF c = Nil THEN <<>> ELSE <<th[c]>> \o h[nx[c]]]]
  OBVIOUS
<1>6. a \in S
  <2>1. <<>> \in Seq(Threads \cup {NoThread})
    OBVIOUS
  <2>. QED
    BY <1>3, <1>4, <2>1
<1>7. succ \in [S -> S]
  <2>1. ASSUME NEW h \in S, NEW c \in D
        PROVE  (IF c = Nil THEN <<>> ELSE <<th[c]>> \o h[nx[c]]) \in Seq(Threads \cup {NoThread})
    <3>1. CASE c = Nil
      BY <3>1
    <3>2. CASE c # Nil
      <4>1. c \in Nodes /\ nx[c] \in D
        BY <1>2, <3>2 DEF Cells
      <4>2. th[c] \in Threads \cup {NoThread} /\ h[nx[c]] \in Seq(Threads \cup {NoThread})
        BY <1>3, <4>1
      <4>. QED
        BY <3>2, <4>2
    <3>. QED
      BY <3>1, <3>2
  <2>. QED
    BY <1>3, <1>5, <2>1
<1>8. PICK f \in [0 .. N -> S] : Iteration(f, a, succ, N)
  BY <1>6, <1>7, Iterates
<1>9. \A k \in 0 .. N : f[k] = [c \in D |-> IF c = Nil \/ k = 0 THEN <<>> ELSE <<th[c]>> \o f[k - 1][nx[c]]]
  <2>. SUFFICES ASSUME NEW k \in 0 .. N
                PROVE  f[k] = [c \in D |-> IF c = Nil \/ k = 0 THEN <<>> ELSE <<th[c]>> \o f[k - 1][nx[c]]]
    OBVIOUS
  <2>1. CASE k = 0
    BY <1>4, <1>8, <2>1 DEF Iteration
  <2>2. CASE k # 0
    <3>1. k \in 1 .. N /\ k - 1 \in 0 .. N
      BY <2>2
    <3>2. f[k] = succ[f[k - 1]] /\ f[k - 1] \in S
      BY <1>8, <3>1 DEF Iteration
    <3>3. f[k] = [c \in D |-> IF c = Nil THEN <<>> ELSE <<th[c]>> \o f[k - 1][nx[c]]]
      BY <1>5, <3>2
    <3>. QED
      BY <2>2, <3>3
  <2>. QED
    BY <2>1, <2>2
<1>10. f = [k \in 0 .. N |-> f[k]]
  OBVIOUS
<1>11. IsFrom(f, nx, th)
  BY <1>1, <1>2, <1>9, <1>10 DEF IsFrom
<1>. QED
  BY <1>11

\* s holds the threads of the chain c behind place i.
Holds(s, c, th, i) ==
    /\ s \in Seq(Threads) /\ Len(s) = Len(c) - i
    /\ \A j \in 1 .. Len(c) - i : s[j] = th[c[i + j]]

(* Every such function collects the threads of a chain. *)
LEMMA FromHolds ==
  ASSUME NEW p, NEW nx, NEW th, Chains(p, nx, th), NEW l \in Levels, NEW g, IsFrom(g, nx, th)
  PROVE  Holds(g[Cardinality(Nodes)][nx[l]], p[l], th, 1)
<1>1. PICK N \in Nat : N = Cardinality(Nodes) /\ N >= NumThreads
  BY Sizes
<1>2. PICK c \in Seq(Cells) : c = p[l]
  BY DEF Chains
<1>3. PICK n \in Nat : n = Len(c) /\ n >= 1 /\ n - 1 <= N
  BY <1>1, <1>2, ChainsAreShort
<1>4. PICK D : D = Nodes \cup {Nil}
  OBVIOUS
<1>5. \A k \in 0 .. N : \A d \in D :
        g[k][d] = IF d = Nil \/ k = 0 THEN <<>> ELSE <<th[d]>> \o g[k - 1][nx[d]]
  <2>1. \A k \in 0 .. N : g[k] = [d \in D |->
            IF d = Nil \/ k = 0 THEN <<>> ELSE <<th[d]>> \o g[k - 1][nx[d]]]
    BY <1>1, <1>4 DEF IsFrom
  <2>. QED
    BY <2>1
<1>6. /\ c[1] = l /\ nx[c[n]] = Nil
      /\ \A i \in 1 .. n - 1 : nx[c[i]] = c[i + 1]
      /\ \A i \in 2 .. n : c[i] \in Nodes /\ c[i] # Nil /\ th[c[i]] \in Threads
  <2>1. Chain(c, l, nx) /\ Len(c) = n
    BY <1>2, <1>3 DEF Chains
  <2>2. \A i \in 2 .. n : th[c[i]] \in Threads
    BY <1>2, <2>1 DEF Chains
  <2>3. \A d \in Nodes : d # Nil
    BY CellFacts DEF Cells
  <2>. QED
    BY <2>1, <2>2, <2>3 DEF Chain
<1>. DEFINE T == {k \in 0 .. N : \A i \in 1 .. n : n - i <= k => Holds(g[k][nx[c[i]]], c, th, i)}
<1>7. ASSUME NEW k \in 0 .. N PROVE Holds(g[k][nx[c[n]]], c, th, n)
  <2>1. g[k][nx[c[n]]] = <<>>
    BY <1>4, <1>5, <1>6
  <2>2. \A j \in 1 .. n - n : FALSE
    OBVIOUS
  <2>3. n - n = 0 /\ Len(c) = n
    BY <1>3
  <2>. QED
    BY <2>1, <2>2, <2>3 DEF Holds
<1>8. 0 \in T
  <2>1. \A i \in 1 .. n : n - i <= 0 => i = n
    OBVIOUS
  <2>2. 0 \in 0 .. N
    OBVIOUS
  <2>. QED
    BY <1>7, <2>1, <2>2
<1>9. ASSUME NEW k \in 1 .. N, k - 1 \in T PROVE k \in T
  <2>1. k \in 0 .. N /\ k # 0
    OBVIOUS
  <2>. SUFFICES ASSUME NEW i \in 1 .. n, n - i <= k PROVE Holds(g[k][nx[c[i]]], c, th, i)
    BY <2>1
  <2>2. CASE i = n
    BY <1>7, <2>1, <2>2
  <2>3. CASE i # n
    <3>1. PICK j : j = i + 1
      OBVIOUS
    <3>2. i \in 1 .. n - 1 /\ j \in 2 .. n /\ j \in 1 .. n /\ n - j <= k - 1
      BY <2>3, <3>1
    <3>3. nx[c[i]] = c[j] /\ c[j] \in D /\ c[j] # Nil /\ th[c[j]] \in Threads
      BY <1>4, <1>6, <3>1, <3>2
    <3>4. PICK r : r = g[k - 1][nx[c[j]]]
      OBVIOUS
    <3>5. Holds(r, c, th, j)
      BY <1>9, <3>2, <3>4
    <3>6. g[k][nx[c[i]]] = <<th[c[j]]>> \o r
      BY <1>5, <2>1, <3>3, <3>4
    <3>7. PICK x \in Threads : x = th[c[j]]
      BY <3>3
    <3>8. PICK m \in Nat : m = n - j
      BY <3>2
    <3>9. r \in Seq(Threads) /\ Len(r) = m /\ \A y \in 1 .. m : r[y] = th[c[j + y]]
      BY <1>3, <3>5, <3>8 DEF Holds
    <3>10. PICK s : s = <<x>> \o r
      OBVIOUS
    <3>11. /\ s \in Seq(Threads) /\ Len(s) = m + 1 /\ s[1] = x
           /\ \A y \in 2 .. m + 1 : s[y] = r[y - 1]
      BY <3>9, <3>10
    <3>12. ASSUME NEW y \in 1 .. m + 1 PROVE s[y] = th[c[i + y]]
      <4>1. CASE y = 1
        BY <3>1, <3>7, <3>11, <4>1
      <4>2. CASE y # 1
        <5>1. y \in 2 .. m + 1 /\ y - 1 \in 1 .. m /\ j + (y - 1) = i + y
          BY <3>1, <4>2
        <5>. QED
          BY <3>9, <3>11, <5>1
      <4>. QED
        BY <4>1, <4>2
    <3>13. m + 1 = n - i
      BY <3>1, <3>8
    <3>14. Len(c) - i = m + 1
      BY <1>3, <3>13
    <3>15. Holds(s, c, th, i)
      BY <3>11, <3>12, <3>14 DEF Holds
    <3>. QED
      BY <3>6, <3>7, <3>10, <3>15
  <2>. QED
    BY <2>2, <2>3
<1>. HIDE DEF T
<1>10. N \in T
  <2>1. N \in Nat
    OBVIOUS
  <2>2. 0 .. N \subseteq T
    BY <1>8, <1>9, <2>1, Induct
  <2>. QED
    BY <2>1, <2>2
<1>11. 1 \in 1 .. n /\ n - 1 <= N
  BY <1>3
<1>12. Holds(g[N][nx[c[1]]], c, th, 1)
  BY <1>10, <1>11 DEF T
<1>. QED
  BY <1>1, <1>2, <1>6, <1>12

\* Contents of links and threads that need not be the current ones.
ContentsOf(nx, th, l) ==
    LET from[k \in 0 .. Cardinality(Nodes)] ==
          [c \in Nodes \cup {Nil} |->
             IF c = Nil \/ k = 0 THEN <<>> ELSE <<th[c]>> \o from[k - 1][nx[c]]]
    IN  from[Cardinality(Nodes)][nx[l]]

(* It holds the threads of the nodes behind the sentinel. *)
LEMMA ContentsHold ==
  ASSUME NEW p, NEW nx \in [Cells -> Nodes \cup {Nil}],
         NEW th \in [Nodes -> Threads \cup {NoThread}], Chains(p, nx, th), NEW l \in Levels
  PROVE  Holds(ContentsOf(nx, th, l), p[l], th, 1)
<1>1. PICK g : g = CHOOSE h : IsFrom(h, nx, th)
  OBVIOUS
<1>2. IsFrom(g, nx, th)
  BY <1>1, FromExists
<1>3. ContentsOf(nx, th, l) = g[Cardinality(Nodes)][nx[l]]
  BY <1>1 DEF ContentsOf, IsFrom
<1>. QED
  BY <1>2, <1>3, FromHolds

(* The lists of this state and of the next one. *)
LEMMA ContentsAre ==
  ASSUME NEW l \in Levels
  PROVE  /\ Contents(l) = ContentsOf(next, thread, l)
         /\ Contents(l)' = ContentsOf(next', thread', l)
BY DEF Contents, ContentsOf

-----------------------------------------------------------------------------
(* The invariant.                                                          *)

Kinds ==
    /\ context \in {"main", "thread", "schedule", "pick", "finished", "crashed"}
    /\ step \in {"unarmed", "armed", "files", "between", "registered", "linked", "appended", "pushed"}
    /\ runningThread \in Threads \cup {NoThread}
    /\ total_thread \in 0 .. NumThreads
    /\ state \in [Threads -> {"NEW", "READY", "RUNNING", "TERMINATED"}]
    /\ priority \in [Threads -> Levels]
    /\ next \in [Cells -> Nodes \cup {Nil}]
    /\ thread \in [Nodes -> Threads \cup {NoThread}]
    /\ tail \in [Levels -> Cells]
    /\ total_pendingThread \in Int

\* The threads that were created and have not exited, and the one that has the
\* processor or, in schedule(), had it last.
Alive   == {t \in Threads : state[t] \in {"READY", "RUNNING"}}
Current == {t \in Threads : /\ t = runningThread /\ state[t] # "TERMINATED"
                            /\ context \in {"thread", "schedule", "crashed"}}

\* The queued threads of p.
Waiting(p) == Queued(p, thread)

\* A push cut off between its two pointer updates: the tail is one cell behind,
\* and the count one short.
Behind(p) ==
    /\ step = "linked"
    /\ Len(p[Top]) >= 2 /\ tail[Top] = p[Top][Len(p[Top]) - 1]
    /\ total_pendingThread + 1 = Cardinality(Waiting(p))

Tails(p) == \A l \in Levels : tail[l] = p[l][Len(p[l])] \/ (l = Top /\ Behind(p))

Counted(p) ==
    \/ total_pendingThread = Cardinality(Waiting(p))
    \/ total_pendingThread + 1 = Cardinality(Waiting(p)) /\ step \in {"linked", "appended"}

\* Every live thread waits, runs, or is lost; and one is lost only if the tick
\* cut its create, or a push, off, and the count is not short for it.
NoneMissing(p, lost) ==
    /\ Alive = Waiting(p) \cup Current \cup lost
    /\ Waiting(p) \cap Current = {} /\ Waiting(p) \cap lost = {} /\ Current \cap lost = {}
    /\ \/ lost = {}
       \/ /\ \E t \in Threads : lost = {t}
          /\ step \in {"registered", "linked"}
          /\ total_pendingThread = Cardinality(Waiting(p))

InMainOnly(p, lost) ==
    context = "main" =>
        /\ runningThread = NoThread
        /\ \A t \in Threads : priority[t] = Top
        /\ step \in {"registered", "linked", "appended", "pushed"} => total_thread >= 1
        /\ step = "linked" => Behind(p)
        /\ step = "appended" => total_pendingThread + 1 = Cardinality(Waiting(p))
        /\ step \notin {"linked", "appended"} => total_pendingThread = Cardinality(Waiting(p))
        /\ lost = IF step = "registered" THEN {Last} ELSE {}

Others ==
    /\ context = "finished" => total_pendingThread <= 0
    /\ context = "thread" => runningThread \in Threads /\ state[runningThread] = "RUNNING"
    /\ \A t \in Threads : t >= total_thread => state[t] = "NEW"

Fits(p, lost) ==
    /\ Kinds /\ Chains(p, next, thread) /\ Tails(p) /\ Counted(p)
    /\ NoneMissing(p, lost) /\ InMainOnly(p, lost) /\ Others

StartupInv == \E p, lost : Fits(p, lost)

(* The queued threads are finitely many. *)
LEMMA WaitingFinite ==
  ASSUME NEW p, NEW th
  PROVE  /\ Queued(p, th) \subseteq Threads /\ IsFiniteSet(Queued(p, th))
         /\ Cardinality(Queued(p, th)) \in Nat
         /\ \A t : t \notin Queued(p, th) =>
              Cardinality(Queued(p, th) \cup {t}) = Cardinality(Queued(p, th)) + 1
         /\ \A t \in Queued(p, th) :
              Cardinality(Queued(p, th) \ {t}) = Cardinality(Queued(p, th)) - 1
<1>1. Queued(p, th) \subseteq Threads
  BY DEF Queued
<1>2. IsFiniteSet(Queued(p, th))
  BY <1>1, Sizes, FS_Subset
<1>. QED
  BY <1>1, <1>2, FS_CardinalityType, FS_AddElement, FS_RemoveElement

(* Wherever the tails are, they are cells of the chains. *)
LEMMA TailsInChains ==
  ASSUME NEW p, NEW lost, Fits(p, lost)
  PROVE  InChains(p, tail)
<1>. SUFFICES ASSUME NEW l \in Levels PROVE \E i \in 1 .. Len(p[l]) : tail[l] = p[l][i]
  BY DEF InChains
<1>1. Len(p[l]) \in Nat /\ Len(p[l]) >= 1
  BY DEF Fits, Chains
<1>2. CASE tail[l] = p[l][Len(p[l])]
  <2>1. Len(p[l]) \in 1 .. Len(p[l])
    BY <1>1
  <2>. QED
    BY <1>2, <2>1
<1>3. CASE l = Top /\ Behind(p)
  <2>1. Len(p[l]) - 1 \in 1 .. Len(p[l]) /\ tail[l] = p[l][Len(p[l]) - 1]
    BY <1>1, <1>3 DEF Behind
  <2>. QED
    BY <2>1
<1>. QED
  BY <1>2, <1>3 DEF Fits, Tails

\* What linking a node for t behind the cell at place k of level l leaves.
AfterLink(p, l, k, t, node, q) ==
    /\ node \in Nodes
    /\ Pushed(p, l, k, node, q)
    /\ Linked(next, thread, p[l][k], node, t, next', thread')
    /\ Chains(q, next', thread')
    /\ next' \in [Cells -> Nodes \cup {Nil}]
    /\ thread' \in [Nodes -> Threads \cup {NoThread}]
    /\ QueuedAfterPush(p, thread, l, k, t, q, thread')

(* LinkNode with the node of malloc. *)
LEMMA LinkStep ==
  ASSUME NEW p, NEW lost, Fits(p, lost), NEW l \in Levels, NEW k \in 1 .. Len(p[l]),
         tail[l] = p[l][k], NEW t \in Threads, t \notin Waiting(p), LinkNode(t, l, NewNode)
  PROVE  \E q : AfterLink(p, l, k, t, NewNode, q)
<1>1. PICK node : node = NewNode
  OBVIOUS
<1>2. PICK tl : tl = tail[l]
  OBVIOUS
<1>3. Kinds /\ Chains(p, next, thread) /\ InChains(p, tail)
  BY TailsInChains DEF Fits
<1>4. node \in Nodes /\ \A m \in Levels : \A i \in 1 .. Len(p[m]) : p[m][i] # node
  BY <1>1, <1>3, NewNodeIsNew DEF Kinds
<1>5. tl \in Cells /\ tl # node /\ node \in Cells /\ tl = p[l][k]
  BY <1>2, <1>3, <1>4 DEF Kinds, Cells
<1>6. /\ thread' = [thread EXCEPT ![node] = t]
      /\ next' = [next EXCEPT ![node] = Nil, ![tl] = node]
  BY <1>1, <1>2 DEF LinkNode
<1>7. /\ next' \in [Cells -> Nodes \cup {Nil}] /\ thread' \in [Nodes -> Threads \cup {NoThread}]
      /\ Linked(next, thread, p[l][k], node, t, next', thread')
  BY <1>3, <1>4, <1>5, <1>6 DEF Kinds, Linked
<1>8. PICK q : Pushed(p, l, k, node, q)
  BY <1>3, <1>4, PushShape DEF Chains
<1>9. PICK nx2, th2 : nx2 = next' /\ th2 = thread'
  OBVIOUS
<1>10. PICK nx, th : nx = next /\ th = thread
  OBVIOUS
<1>11. Chains(p, nx, th) /\ t \notin Queued(p, th) /\ Linked(nx, th, p[l][k], node, t, nx2, th2)
  BY <1>3, <1>7, <1>9, <1>10 DEF Waiting
<1>12. Chains(q, nx2, th2)
  BY <1>4, <1>8, <1>11, PushKeepsChains
<1>13. QueuedAfterPush(p, th, l, k, t, q, th2)
  BY <1>4, <1>8, <1>11, PushQueues
<1>. QED
  BY <1>1, <1>4, <1>7, <1>8, <1>9, <1>10, <1>12, <1>13 DEF AfterLink, Waiting

-----------------------------------------------------------------------------
(* The steps of main().                                                    *)

\* The steps before the first create, and the tick that ends main().
LEMMA StartKeeps ==
  ASSUME NEW p, NEW lost, Fits(p, lost), Start \/ GetPageTable \/ MainTick
  PROVE  Fits(p, lost)'
<1>1. UNCHANGED <<runningThread, total_thread, state, priority, next, thread, tail, total_pendingThread>>
  BY DEF Start, signal_init, file_init, mem_init, GetPageTable, MainTick, listVars
<1>2. /\ context = "main" /\ context' \in {"main", "schedule", "crashed"} /\ step' \in {step, "armed", "files", "between"}
      /\ step' # step => step \in {"unarmed", "armed", "files", "pushed"}
      /\ context' # "main" => step' = step
  BY DEF Start, signal_init, file_init, mem_init, GetPageTable, MainTick, InMain
<1>3. Kinds' /\ Chains(p, next, thread)' /\ Waiting(p)' = Waiting(p)
  BY <1>1, <1>2 DEF Fits, Kinds, Waiting
<1>4. Alive' = Alive /\ Current' = {} /\ Current = {}
  BY <1>1, <1>2 DEF Alive, Current, Fits, InMainOnly, NoThread, Threads
<1>5. step \in {"linked"} => step' = step
  BY <1>2
<1>6. Behind(p) => Behind(p)'
  BY <1>1, <1>3, <1>5 DEF Behind
<1>7. Tails(p)'
  BY <1>1, <1>6 DEF Tails, Fits
<1>8. Counted(p)' /\ NoneMissing(p, lost)'
  BY <1>1, <1>2, <1>3, <1>4 DEF Counted, NoneMissing, Fits
<1>9. InMainOnly(p, lost)'
  BY <1>1, <1>2, <1>3, <1>6 DEF InMainOnly, Fits, Last
<1>10. Others'
  BY <1>1, <1>2 DEF Others, Fits
<1>. QED
  BY <1>3, <1>7, <1>8, <1>9, <1>10 DEF Fits

\* A registered thread is not queued yet.
LEMMA RegisterKeeps ==
  ASSUME NEW p, NEW lost, Fits(p, lost), Register
  PROVE  \E d : Fits(p, d)'
<1>1. /\ context = "main" /\ step = "between" /\ step' = "registered" /\ context' = context
      /\ total_thread < NumThreads /\ total_thread' = total_thread + 1
      /\ state' = [state EXCEPT ![total_thread] = "READY"]
      /\ priority' = [priority EXCEPT ![total_thread] = Top]
      /\ UNCHANGED <<runningThread, next, thread, tail, total_pendingThread>>
  BY DEF Register, InMain, listVars, Top
<1>2. total_thread \in Threads /\ total_thread' \in 0 .. NumThreads /\ total_thread' >= 1
  BY <1>1 DEF Fits, Kinds, Threads
<1>3. Top \in Levels
  BY CellFacts
<1>4. Kinds' /\ Chains(p, next, thread)' /\ Waiting(p)' = Waiting(p)
  BY <1>1, <1>2, <1>3 DEF Fits, Kinds, Waiting
<1>5. state[total_thread] = "NEW" /\ total_thread \notin Alive
  BY <1>2 DEF Fits, Others, Alive, Kinds
<1>6. Alive' = Alive \cup {total_thread}
  BY <1>1, <1>2 DEF Alive, Fits, Kinds
<1>7. Current' = {} /\ Current = {}
  BY <1>1 DEF Current
<1>8. Tails(p)'
  BY <1>1 DEF Tails, Fits, Behind
<1>9. lost = {} /\ total_pendingThread = Cardinality(Waiting(p))
  BY <1>1 DEF Fits, InMainOnly
<1>10. PICK x \in Threads : x = total_thread
  BY <1>2
<1>11. Counted(p)' /\ NoneMissing(p, {x})'
  <2>1. Alive = Waiting(p)
    BY <1>7, <1>9 DEF Fits, NoneMissing
  <2>. QED
    BY <1>1, <1>4, <1>5, <1>6, <1>7, <1>9, <1>10, <2>1 DEF Counted, NoneMissing
<1>12. InMainOnly(p, {x})'
  <2>1. \A t \in Threads : priority'[t] = Top
    BY <1>1, <1>2 DEF Fits, InMainOnly, Kinds
  <2>2. Last' = x
    BY <1>1, <1>2, <1>10 DEF Last, Threads
  <2>. QED
    BY <1>1, <1>2, <1>4, <1>9, <2>1, <2>2 DEF InMainOnly, Fits
<1>13. Others'
  BY <1>1, <1>2 DEF Others, Fits, Threads, Kinds
<1>. QED
  BY <1>4, <1>8, <1>11, <1>12, <1>13 DEF Fits

\* A linked thread is queued, but behind the tail, and not yet counted.
LEMMA LinkKeeps ==
  ASSUME NEW p, NEW lost, Fits(p, lost), Link
  PROVE  \E q : /\ AfterLink(p, Top, Len(p[Top]), Last, NewNode, q)
                /\ Fits(q, {})'
<1>1. /\ context = "main" /\ step = "registered" /\ step' = "linked" /\ context' = context
      /\ LinkNode(Last, priority[Last], NewNode)
      /\ UNCHANGED <<runningThread, total_thread, state, priority, tail, total_pendingThread>>
  BY DEF Link, InMain
<1>2. /\ Kinds /\ total_thread >= 1 /\ lost = {Last} /\ total_pendingThread = Cardinality(Waiting(p))
      /\ \A t \in Threads : priority[t] = Top
  BY <1>1 DEF Fits, InMainOnly
<1>3. Last \in Threads /\ priority[Last] = Top /\ Top \in Levels
  BY <1>2, CellFacts DEF Last, Kinds, Threads
<1>4. Last \notin Waiting(p)
  BY <1>2 DEF Fits, NoneMissing
<1>5. PICK k : k = Len(p[Top])
  OBVIOUS
<1>6. k \in 1 .. Len(p[Top]) /\ k \in Nat /\ k >= 1
  BY <1>3, <1>5 DEF Fits, Chains
<1>7. tail[Top] = p[Top][k]
  BY <1>1, <1>3, <1>5 DEF Fits, Tails, Behind
<1>8. PICK t : t = Last
  OBVIOUS
<1>9. PICK q : AfterLink(p, Top, k, t, NewNode, q)
  BY <1>1, <1>3, <1>4, <1>6, <1>7, <1>8, LinkStep
<1>10. PICK th2 : th2 = thread'
  OBVIOUS
<1>11. /\ Pushed(p, Top, k, NewNode, q) /\ Chains(q, next', thread')
       /\ next' \in [Cells -> Nodes \cup {Nil}] /\ thread' \in [Nodes -> Threads \cup {NoThread}]
       /\ Queued(q, th2) = Waiting(p) \cup {t}
  BY <1>5, <1>9, <1>10 DEF AfterLink, QueuedAfterPush, Waiting
<1>12. Cardinality(Queued(q, th2)) = Cardinality(Waiting(p)) + 1 /\ Cardinality(Waiting(p)) \in Nat
  BY <1>4, <1>8, <1>11, WaitingFinite DEF Waiting
<1>13. Waiting(q)' = Queued(q, th2)
  BY <1>10 DEF Waiting
<1>14. Kinds'
  BY <1>1, <1>2, <1>11 DEF Kinds
<1>15. \A l \in Levels : l # Top => q[l] = p[l]
  BY <1>11 DEF Pushed
<1>16. Behind(q)'
  <2>1. Len(q[Top]) = k + 1 /\ q[Top][k] = p[Top][k]
    BY <1>6, <1>11 DEF Pushed
  <2>2. Len(q[Top]) >= 2 /\ Len(q[Top]) - 1 = k
    BY <1>6, <2>1
  <2>. QED
    BY <1>1, <1>2, <1>7, <1>12, <1>13, <2>1, <2>2 DEF Behind
<1>17. Tails(q)'
  BY <1>1, <1>15, <1>16 DEF Tails, Fits, Behind
<1>18. Alive' = Alive /\ Current' = {} /\ Current = {}
  BY <1>1 DEF Alive, Current
<1>19. NoneMissing(q, {})'
  BY <1>2, <1>8, <1>11, <1>13, <1>18 DEF NoneMissing, Fits
<1>20. Counted(q)' /\ InMainOnly(q, {})'
  BY <1>1, <1>2, <1>12, <1>13, <1>16 DEF Counted, InMainOnly, Fits
<1>21. Others'
  BY <1>1 DEF Others, Fits
<1>. QED
  BY <1>5, <1>8, <1>9, <1>11, <1>14, <1>17, <1>19, <1>20, <1>21 DEF Fits

\* AdvanceTail brings the tail up, and Count the count.
LEMMA CountKeeps ==
  ASSUME NEW p, NEW lost, Fits(p, lost), AdvanceTail \/ Count
  PROVE  Fits(p, lost)'
<1>1. /\ context = "main" /\ context' = context /\ step' \in {"appended", "pushed"}
      /\ step' = "appended" => step = "linked" /\ UNCHANGED total_pendingThread
      /\ step' = "pushed" => /\ step = "appended" /\ UNCHANGED tail
                             /\ total_pendingThread' = total_pendingThread + 1
      /\ UNCHANGED <<runningThread, total_thread, state, priority, next, thread>>
  BY DEF AdvanceTail, Count, InMain, CountPush
<1>2. Kinds /\ Waiting(p)' = Waiting(p) /\ Chains(p, next, thread)'
  BY <1>1 DEF Fits, Waiting
<1>3. Cardinality(Waiting(p)) \in Nat /\ total_pendingThread \in Int
  BY <1>2, WaitingFinite DEF Waiting, Kinds
<1>4. /\ total_pendingThread + 1 = Cardinality(Waiting(p))
      /\ total_thread >= 1 /\ lost = {} /\ runningThread = NoThread
      /\ \A t \in Threads : priority[t] = Top
  BY <1>1 DEF Fits, InMainOnly, Behind
<1>5. /\ tail' \in [Levels -> Cells]
      /\ \A l \in Levels : tail'[l] = p[l][Len(p[l])]
  <2>1. CASE step' = "appended"
    <3>1. Behind(p) /\ Last \in Threads /\ Top \in Levels
      BY <1>1, <1>4, <2>1, CellFacts DEF Fits, InMainOnly, Last, Threads, Kinds
    <3>2. tail' = [tail EXCEPT ![Top] = next[tail[Top]]]
      BY <1>1, <1>4, <2>1, <3>1 DEF AdvanceTail, Count, InMain, MoveTail
    <3>3. PICK n : n = Len(p[Top])
      OBVIOUS
    <3>4. n \in Nat /\ n >= 2 /\ tail[Top] = p[Top][n - 1]
      BY <3>1, <3>3 DEF Behind, Fits, Chains
    <3>5. n - 1 \in 1 .. Len(p[Top]) - 1 /\ (n - 1) + 1 = n
      BY <3>3, <3>4
    <3>6. next[tail[Top]] = p[Top][n]
      BY <3>1, <3>4, <3>5 DEF Fits, Chains, Chain
    <3>7. p[Top][n] \in Cells
      BY <3>1, <3>3, <3>4 DEF Fits, Chains
    <3>. QED
      BY <1>2, <3>1, <3>2, <3>3, <3>6, <3>7 DEF Fits, Tails, Kinds
  <2>2. CASE step' = "pushed"
    BY <1>1, <1>2, <2>2 DEF Fits, Tails, Behind, Kinds
  <2>. QED
    BY <1>1, <2>1, <2>2
<1>6. Kinds' /\ Tails(p)'
  <2>1. total_pendingThread' \in Int
    BY <1>1, <1>3
  <2>2. Kinds'
    BY <1>1, <1>2, <1>5, <2>1 DEF Kinds
  <2>3. Tails(p)'
    BY <1>5 DEF Tails
  <2>. QED
    BY <2>2, <2>3
<1>7. Counted(p)' /\ InMainOnly(p, lost)'
  BY <1>1, <1>2, <1>3, <1>4 DEF Counted, InMainOnly
<1>8. Alive' = Alive /\ Current' = {} /\ Current = {}
  BY <1>1 DEF Alive, Current
<1>9. NoneMissing(p, lost)' /\ Others'
  BY <1>1, <1>2, <1>4, <1>8 DEF NoneMissing, Others, Fits
<1>. QED
  BY <1>2, <1>6, <1>7, <1>9 DEF Fits

-----------------------------------------------------------------------------
(* Afterwards.                                                             *)

\* A thread that leaves the processor.
LEMMA LeaveKeeps ==
  ASSUME NEW p, NEW lost, Fits(p, lost), NEW t \in Threads,
         signal_handler(t) \/ my_pthread_yield(t) \/ my_pthread_exit(t)
  PROVE  Fits(p, lost)'
<1>1. /\ context = "thread" /\ context' = "schedule" /\ runningThread = t
      /\ UNCHANGED <<step, runningThread, total_thread, next, thread, tail, total_pendingThread>>
  BY DEF signal_handler, my_pthread_yield, my_pthread_exit, LeaveThread, listVars
<1>2. Kinds /\ state[t] = "RUNNING"
  BY <1>1 DEF Fits, Others
<1>3. PICK now \in {"READY", "RUNNING", "TERMINATED"} : state' = [state EXCEPT ![t] = now]
  <2>1. state = [state EXCEPT ![t] = "RUNNING"]
    BY <1>2 DEF Kinds
  <2>. QED
    BY <2>1 DEF signal_handler, my_pthread_yield, my_pthread_exit
<1>4. priority' \in [Threads -> Levels]
  BY <1>2 DEF signal_handler, my_pthread_yield, my_pthread_exit, Kinds, Levels
<1>5. Kinds' /\ Chains(p, next, thread)' /\ Waiting(p)' = Waiting(p)
  BY <1>1, <1>2, <1>3, <1>4 DEF Fits, Kinds, Waiting
<1>6. Tails(p)' /\ Counted(p)'
  BY <1>1, <1>5 DEF Fits, Tails, Behind, Counted
<1>7. Current = {t} /\ Current' = {t} \cap Alive' /\ Alive' \cup {t} = Alive
  <2>1. Current = {t}
    BY <1>1, <1>2 DEF Current
  <2>2. Alive' \cup {t} = Alive
    BY <1>2, <1>3 DEF Alive, Kinds
  <2>3. Current' = {t} \cap Alive'
    BY <1>1, <1>2, <1>3 DEF Current, Alive, Kinds
  <2>. QED
    BY <2>1, <2>2, <2>3
<1>8. NoneMissing(p, lost)'
  BY <1>1, <1>5, <1>7 DEF NoneMissing, Fits
<1>9. InMainOnly(p, lost)' /\ Others'
  BY <1>1, <1>2, <1>3 DEF InMainOnly, Others, Fits, Kinds
<1>. QED
  BY <1>5, <1>6, <1>8, <1>9 DEF Fits

\* Nothing to push, nothing to pop, or nothing more to do.
LEMMA IdleKeeps ==
  ASSUME NEW p, NEW lost, Fits(p, lost),
         \/ FinishAll \/ Over
         \/ HandleRunningThread /\ Current = {}
  PROVE  Fits(p, lost)'
<1>1. /\ UNCHANGED <<step, runningThread, total_thread, state, priority, listVars>>
      /\ \/ context = "pick" /\ context' = "finished" /\ ~ SomethingPending
         \/ context \in {"finished", "crashed"} /\ context' = context
         \/ context = "schedule" /\ context' = "pick" /\ Current = {}
  <2>1. CASE FinishAll
    BY <2>1 DEF FinishAll
  <2>2. CASE Over
    BY <2>2 DEF Over, vars
  <2>3. CASE HandleRunningThread /\ Current = {}
    <3>1. ~ (runningThread # NoThread /\ state[runningThread] # "TERMINATED")
      BY <2>3 DEF HandleRunningThread, Current, Fits, Kinds
    <3>. QED
      BY <2>3, <3>1 DEF HandleRunningThread
  <2>. QED
    BY <2>1, <2>2, <2>3
<1>2. Kinds' /\ Chains(p, next, thread)' /\ Waiting(p)' = Waiting(p)
  BY <1>1 DEF Fits, Kinds, Waiting, listVars
<1>3. Tails(p)' /\ Counted(p)'
  BY <1>1, <1>2 DEF Fits, Tails, Behind, Counted, listVars
<1>4. Alive' = Alive /\ Current' = Current
  BY <1>1 DEF Alive, Current
<1>5. NoneMissing(p, lost)'
  BY <1>1, <1>2, <1>4 DEF NoneMissing, Fits, listVars
<1>6. InMainOnly(p, lost)' /\ Others'
  BY <1>1 DEF InMainOnly, Others, Fits, SomethingPending, listVars, Kinds
<1>. QED
  BY <1>2, <1>3, <1>5, <1>6 DEF Fits

\* schedule() puts the running thread back.  If main() left the tail behind in
\* its queue, the last thread of the queue is lost: but that is counted now.
LEMMA PushBackKeeps ==
  ASSUME NEW p, NEW lost, Fits(p, lost), HandleRunningThread, Current # {}
  PROVE  \E l \in Levels, t \in Threads : \E k \in 1 .. Len(p[l]) : \E q, d :
            /\ Current = {t} /\ AfterLink(p, l, k, t, NewNode, q)
            /\ k = Len(p[l]) \/ Behind(p)
            /\ total_pendingThread' = total_pendingThread + 1
            /\ Fits(q, d)'
<1>1. /\ context = "schedule" /\ context' = "pick"
      /\ runningThread # NoThread /\ state[runningThread] # "TERMINATED"
      /\ state' = [state EXCEPT ![runningThread] = "READY"]
      /\ multiQueue_push(runningThread)
      /\ UNCHANGED <<step, runningThread, total_thread, priority>>
  <2>1. runningThread # NoThread /\ state[runningThread] # "TERMINATED"
    BY DEF Current, NoThread, Threads
  <2>. QED
    BY <2>1 DEF HandleRunningThread
<1>2. PICK t \in Threads : t = runningThread
  BY <1>1 DEF Fits, Kinds
<1>3. Current = {t} /\ Kinds
  BY <1>1, <1>2 DEF Current, Fits
<1>4. t \in Alive /\ t \notin Waiting(p) /\ t \notin lost
  BY <1>3 DEF Fits, NoneMissing
<1>5. PICK l \in Levels : l = priority[t]
  BY <1>3 DEF Kinds
<1>6. PICK node : node = NewNode
  OBVIOUS
<1>7. /\ LinkNode(t, l, NewNode) /\ tail' = [tail EXCEPT ![l] = node]
      /\ total_pendingThread' = total_pendingThread + 1
  BY <1>1, <1>2, <1>5, <1>6 DEF multiQueue_push, MoveTail, CountPush
<1>8. Len(p[l]) \in Nat /\ Len(p[l]) >= 1
  BY DEF Fits, Chains
<1>9. PICK k \in 1 .. Len(p[l]) :
        /\ tail[l] = p[l][k]
        /\ k = Len(p[l]) \/ (k = Len(p[l]) - 1 /\ l = Top /\ Behind(p))
  <2>1. CASE tail[l] = p[l][Len(p[l])]
    <3>1. Len(p[l]) \in 1 .. Len(p[l])
      BY <1>8
    <3>. QED
      BY <2>1, <3>1
  <2>2. CASE l = Top /\ Behind(p)
    <3>1. Len(p[l]) - 1 \in 1 .. Len(p[l])
      BY <1>8, <2>2 DEF Behind
    <3>. QED
      BY <2>2, <3>1 DEF Behind
  <2>. QED
    BY <2>1, <2>2 DEF Fits, Tails
<1>10. PICK q : AfterLink(p, l, k, t, NewNode, q)
  BY <1>4, <1>7, <1>9, LinkStep
<1>11. PICK th2, n : th2 = thread' /\ n = Len(p[l])
  OBVIOUS
<1>12. PICK x : x = thread[p[l][n]]
  OBVIOUS
<1>13. /\ Pushed(p, l, k, node, q) /\ node \in Nodes
       /\ Chains(q, next', thread') /\ next' \in [Cells -> Nodes \cup {Nil}]
       /\ thread' \in [Nodes -> Threads \cup {NoThread}]
       /\ k = n => Queued(q, th2) = Waiting(p) \cup {t}
       /\ k = n - 1 => x \in Waiting(p) /\ Queued(q, th2) = (Waiting(p) \ {x}) \cup {t}
  BY <1>6, <1>10, <1>11, <1>12 DEF AfterLink, QueuedAfterPush, Waiting
<1>14. Waiting(q)' = Queued(q, th2)
  BY <1>11 DEF Waiting
<1>15. PICK w : w = Waiting(p)
  OBVIOUS
<1>16. /\ w \subseteq Threads /\ IsFiniteSet(w) /\ Cardinality(w) \in Nat
       /\ Cardinality(w \cup {t}) = Cardinality(w) + 1
       /\ x \in w => Cardinality((w \ {x}) \cup {t}) = Cardinality(w)
  <2>1. w \subseteq Threads /\ IsFiniteSet(w) /\ Cardinality(w) \in Nat
    BY <1>15, WaitingFinite DEF Waiting
  <2>2. Cardinality(w \cup {t}) = Cardinality(w) + 1
    BY <1>4, <1>15, <2>1, FS_AddElement
  <2>3. ASSUME x \in w PROVE Cardinality((w \ {x}) \cup {t}) = Cardinality(w)
    <3>1. IsFiniteSet(w \ {x}) /\ Cardinality(w \ {x}) = Cardinality(w) - 1
      BY <2>1, <2>3, FS_RemoveElement
    <3>2. Cardinality((w \ {x}) \cup {t}) = Cardinality(w \ {x}) + 1
      BY <1>4, <1>15, <3>1, FS_AddElement
    <3>. QED
      BY <2>1, <3>1, <3>2
  <2>. QED
    BY <2>1, <2>2, <2>3
<1>17. Kinds'
  <2>1. tail' \in [Levels -> Cells]
    BY <1>3, <1>7, <1>13 DEF Kinds, Cells
  <2>2. state' \in [Threads -> {"NEW", "READY", "RUNNING", "TERMINATED"}]
    BY <1>1, <1>3 DEF Kinds
  <2>3. total_pendingThread' \in Int
    BY <1>3, <1>7 DEF Kinds
  <2>. QED
    BY <1>1, <1>3, <1>13, <2>1, <2>2, <2>3 DEF Kinds
<1>18. /\ \A m \in Levels : m # l => q[m] = p[m] /\ tail'[m] = tail[m]
       /\ Len(q[l]) = k + 1 /\ tail'[l] = q[l][k + 1]
  BY <1>3, <1>7, <1>13 DEF Pushed, Kinds
<1>19. Alive' = Alive /\ Current' = {}
  <2>1. state'[t] = "READY" /\ \A u \in Threads : u # t => state'[u] = state[u]
    BY <1>1, <1>2, <1>3 DEF Kinds
  <2>2. Current' = {}
    BY <1>1 DEF Current
  <2>. QED
    BY <1>4, <2>1, <2>2 DEF Alive
<1>20. InMainOnly(q, lost)' /\ InMainOnly(q, {x})'
  BY <1>1 DEF InMainOnly
<1>21. Others'
  BY <1>1, <1>2, <1>4 DEF Others, Fits, Kinds, Alive
<1>22. CASE k = n
  <2>1. Cardinality(Queued(q, th2)) = Cardinality(w) + 1 /\ Waiting(q)' = w \cup {t}
    BY <1>13, <1>14, <1>15, <1>16, <1>22
  <2>2. Behind(p) /\ l # Top => Behind(q)'
    BY <1>1, <1>3, <1>7, <1>14, <1>15, <1>16, <1>18, <2>1, CellFacts DEF Behind, Kinds
  <2>3. l = Top => tail[Top] = p[Top][n]
    BY <1>9, <1>11, <1>22
  <2>4. Tails(q)'
    <3>. SUFFICES ASSUME NEW m \in Levels
                  PROVE  tail'[m] = q[m][Len(q[m])] \/ (m = Top /\ Behind(q)')
      BY DEF Tails
    <3>1. CASE m = l
      BY <1>18, <3>1
    <3>2. CASE m # l
      BY <1>18, <2>2, <3>2 DEF Fits, Tails
    <3>. QED
      BY <3>1, <3>2
  <2>5. Counted(q)'
    BY <1>1, <1>3, <1>7, <1>14, <1>15, <1>16, <2>1 DEF Counted, Fits, Kinds
  <2>6. NoneMissing(q, lost)'
    BY <1>1, <1>3, <1>4, <1>7, <1>14, <1>15, <1>16, <1>19, <2>1 DEF NoneMissing, Fits, Kinds
  <2>7. Fits(q, lost)'
    BY <1>13, <1>17, <1>20, <1>21, <2>4, <2>5, <2>6 DEF Fits
  <2>. QED
    BY <1>3, <1>7, <1>10, <1>11, <1>22, <2>7
<1>23. CASE k = n - 1 /\ l = Top /\ Behind(p)
  <2>1. /\ x \in w /\ Waiting(q)' = (w \ {x}) \cup {t}
        /\ Cardinality(Queued(q, th2)) = Cardinality(w) /\ total_pendingThread + 1 = Cardinality(w)
    BY <1>13, <1>14, <1>15, <1>16, <1>23 DEF Behind
  <2>2. lost = {} /\ step = "linked"
    BY <1>3, <1>15, <1>16, <1>23, <2>1 DEF Fits, NoneMissing, Behind, Kinds
  <2>3. Tails(q)'
    <3>. SUFFICES ASSUME NEW m \in Levels PROVE tail'[m] = q[m][Len(q[m])]
      BY DEF Tails
    <3>1. CASE m = l
      BY <1>18, <3>1
    <3>2. CASE m # l
      BY <1>18, <1>23, <3>2 DEF Fits, Tails
    <3>. QED
      BY <3>1, <3>2
  <2>4. Counted(q)'
    BY <1>7, <1>14, <2>1 DEF Counted
  <2>5. NoneMissing(q, {x})'
    <3>1. Alive = w \cup {t}
      BY <1>3, <1>15, <2>2 DEF Fits, NoneMissing
    <3>2. x # t /\ x \in Threads
      BY <1>4, <1>15, <1>16, <2>1
    <3>. QED
      BY <1>1, <1>7, <1>14, <1>19, <2>1, <2>2, <3>1, <3>2 DEF NoneMissing
  <2>6. Fits(q, {x})'
    BY <1>13, <1>17, <1>20, <1>21, <2>3, <2>4, <2>5 DEF Fits
  <2>. QED
    BY <1>3, <1>7, <1>10, <1>23, <2>6
<1>. QED
  BY <1>9, <1>11, <1>22, <1>23

\* What popping the first thread t of level l leaves.
AfterPop(p, l, t, q) ==
    /\ Popped(p, l, q) /\ Len(p[l]) >= 2
    /\ next[l] = p[l][2] /\ t = thread[p[l][2]] /\ t \in Waiting(p)
    /\ Chains(q, next', thread) /\ Queued(q, thread) = Waiting(p) \ {t}

\* schedule() takes the first thread of the highest level that has one.
LEMMA DispatchKeeps ==
  ASSUME NEW p, NEW lost, Fits(p, lost), Dispatch
  PROVE  \E l \in Levels, t \in Threads : \E q :
            /\ AfterPop(p, l, t, q) /\ runningThread' = t
            /\ \A k \in Levels : k > l => next[k] = Nil
            /\ total_pendingThread' = total_pendingThread - 1 /\ thread' = thread
            /\ Fits(q, lost)'
<1>1. /\ context = "pick" /\ SomethingPending /\ context' \in {"thread", "crashed"}
      /\ state' = [state EXCEPT ![runningThread'] = "RUNNING"]
      /\ UNCHANGED <<step, total_thread, priority, hasTable>>
  BY DEF Dispatch
<1>2. PICK l \in Levels : multiQueue_pop(l) /\ runningThread' = thread[next[l]]
  BY DEF Dispatch
<1>3. Kinds /\ Chains(p, next, thread) /\ Len(p[l]) \in Nat /\ Len(p[l]) >= 1 /\ Chain(p[l], l, next)
  BY DEF Fits, Chains
<1>4. PICK n \in Nat : n = Len(p[l])
  BY <1>3
<1>5. n >= 2
  <2>1. next[l] # Nil
    BY <1>2 DEF multiQueue_pop, IsTopLevel
  <2>2. n = 1 => next[l] = Nil
    BY <1>3, <1>4 DEF Chain
  <2>3. n >= 1
    BY <1>3, <1>4
  <2>4. n # 1
    BY <2>1, <2>2
  <2>. QED
    BY <2>3, <2>4
<1>6. /\ next' = [next EXCEPT ![l] = next[next[l]]] /\ thread' = thread
      /\ tail' = TailAfterPop(l, next[l]) /\ total_pendingThread' = total_pendingThread - 1
  BY <1>2 DEF multiQueue_pop
<1>7. PICK q : Popped(p, l, q)
  BY <1>3, <1>4, <1>5, PopShape DEF Chains
<1>8. PICK nx, nx2, th : nx = next /\ nx2 = next' /\ th = thread
  OBVIOUS
<1>9. nx2[l] = nx[nx[l]] /\ \A c \in Cells : c # l => nx2[c] = nx[c]
  BY <1>3, <1>6, <1>8 DEF Kinds, Cells
<1>10. /\ Chains(q, nx2, th) /\ nx[l] = p[l][2] /\ th[p[l][2]] \in Queued(p, th)
       /\ Queued(q, th) = Queued(p, th) \ {th[p[l][2]]}
  BY <1>3, <1>4, <1>5, <1>7, <1>8, <1>9, PopKeepsChains
<1>11. PICK t : t = th[p[l][2]]
  OBVIOUS
<1>12. PICK w : w = Waiting(p)
  OBVIOUS
<1>13. /\ t \in w /\ t \in Threads /\ Queued(q, th) = w \ {t} /\ Waiting(q)' = w \ {t}
       /\ Cardinality(w) \in Nat /\ Cardinality(w \ {t}) = Cardinality(w) - 1
  BY <1>6, <1>8, <1>10, <1>11, <1>12, WaitingFinite DEF Waiting
<1>14. AfterPop(p, l, t, q) /\ runningThread' = t
  BY <1>2, <1>4, <1>5, <1>7, <1>8, <1>10, <1>11, <1>12, <1>13 DEF AfterPop, Waiting
<1>15. /\ q[l][1] = l /\ Len(q[l]) = n - 1
       /\ \A i \in 2 .. n - 1 : q[l][i] = p[l][i + 1]
       /\ \A m \in Levels : m # l => q[m] = p[m]
  BY <1>4, <1>7 DEF Popped
<1>16. tail' \in [Levels -> Cells] /\ next' \in [Cells -> Nodes \cup {Nil}]
  <2>1. tail' \in [Levels -> Cells]
    BY <1>3, <1>6 DEF TailAfterPop, Kinds, Cells
  <2>2. next[next[l]] \in Nodes \cup {Nil}
    <3>1. next[l] \in Nodes
      BY <1>2, <1>3 DEF multiQueue_pop, IsTopLevel, Kinds, Cells
    <3>. QED
      BY <1>3, <3>1 DEF Kinds, Cells
  <2>. QED
    BY <1>3, <1>6, <2>1, <2>2 DEF Kinds
<1>17. \A m \in Levels : m # l => tail'[m] = tail[m]
  BY <1>3, <1>6 DEF TailAfterPop, Kinds
<1>18. tail'[l] = IF tail[l] = p[l][2] THEN l ELSE tail[l]
  BY <1>3, <1>6, <1>8, <1>10 DEF TailAfterPop, Kinds
<1>19. \A i \in 1 .. n : p[l][i] = p[l][2] => i = 2
  <2>1. 2 \in 1 .. Len(p[l])
    BY <1>4, <1>5
  <2>. QED
    BY <1>3, <1>4, <2>1, CellsApart
<1>20. \/ tail'[l] = q[l][n - 1]
       \/ n - 1 >= 2 /\ tail'[l] = q[l][n - 2] /\ l = Top /\ Behind(p)
  <2>1. CASE tail[l] = p[l][n]
    <3>1. CASE n = 2
      BY <1>15, <1>18, <2>1, <3>1
    <3>2. CASE n # 2
      <4>1. n \in 1 .. n /\ n - 1 \in 2 .. n - 1 /\ (n - 1) + 1 = n
        BY <1>5, <3>2
      <4>2. p[l][n] # p[l][2]
        BY <1>19, <3>2, <4>1
      <4>. QED
        BY <1>15, <1>18, <2>1, <4>1, <4>2
    <3>. QED
      BY <3>1, <3>2
  <2>2. CASE l = Top /\ Behind(p)
    <3>0. tail[l] = p[l][n - 1] /\ n - 1 \in 1 .. n
      BY <1>4, <1>5, <2>2 DEF Behind
    <3>1. CASE n = 2
      <4>1. p[l][1] # p[l][2]
        BY <1>19, <3>1
      <4>. QED
        BY <1>3, <1>15, <1>18, <3>0, <3>1, <4>1 DEF Chain
    <3>2. CASE n = 3
      BY <1>15, <1>18, <2>2, <3>0, <3>2
    <3>3. CASE n # 2 /\ n # 3
      <4>1. n - 2 \in 2 .. n - 1 /\ (n - 2) + 1 = n - 1 /\ n - 1 # 2 /\ n - 1 >= 2
        BY <1>5, <3>3
      <4>2. p[l][n - 1] # p[l][2]
        BY <1>19, <3>0, <4>1
      <4>. QED
        BY <1>15, <1>18, <2>2, <3>0, <4>1, <4>2
    <3>. QED
      BY <3>1, <3>2, <3>3
  <2>. QED
    BY <1>4, <2>1, <2>2 DEF Fits, Tails
<1>21. total_pendingThread \in Int /\ step' = step
  BY <1>1, <1>3 DEF Kinds
<1>22. Tails(q)'
  <2>. SUFFICES ASSUME NEW m \in Levels
                PROVE  tail'[m] = q[m][Len(q[m])] \/ (m = Top /\ Behind(q)')
    BY DEF Tails
  <2>1. CASE m = l /\ tail'[l] = q[l][n - 1]
    BY <1>15, <2>1
  <2>2. CASE m = l /\ n - 1 >= 2 /\ tail'[l] = q[l][n - 2] /\ l = Top /\ Behind(p)
    <3>1. Len(q[Top]) >= 2 /\ tail'[Top] = q[Top][Len(q[Top]) - 1]
      <4>1. (n - 1) - 1 = n - 2
        BY <1>5
      <4>. QED
        BY <1>15, <2>2, <4>1
    <3>2. total_pendingThread' + 1 = Cardinality(w \ {t}) /\ step' = "linked"
      BY <1>6, <1>12, <1>13, <1>21, <2>2 DEF Behind
    <3>. QED
      BY <1>13, <2>2, <3>1, <3>2 DEF Behind
  <2>3. CASE m # l
    <3>1. q[m] = p[m] /\ tail'[m] = tail[m]
      BY <1>15, <1>17, <2>3
    <3>2. Behind(p) => total_pendingThread' + 1 = Cardinality(w \ {t}) /\ step' = "linked"
      BY <1>6, <1>12, <1>13, <1>21 DEF Behind
    <3>3. m = Top /\ Behind(p) => Behind(q)'
      BY <1>13, <3>1, <3>2 DEF Behind
    <3>. QED
      BY <3>1, <3>3 DEF Fits, Tails
  <2>. QED
    BY <1>20, <2>1, <2>2, <2>3
<1>23. Counted(q)'
  BY <1>6, <1>12, <1>13, <1>21 DEF Counted, Fits
<1>24. \A u \in Threads : state'[u] = IF u = t THEN "RUNNING" ELSE state[u]
  BY <1>1, <1>3, <1>13, <1>14 DEF Kinds
<1>25. Current = {} /\ Current' = {t} /\ Alive' = Alive
  <2>1. t \in Alive
    BY <1>12, <1>13 DEF Fits, NoneMissing
  <2>2. Alive' = Alive
    BY <1>24, <2>1 DEF Alive
  <2>3. Current = {} /\ Current' = {t}
    BY <1>1, <1>13, <1>14, <1>24 DEF Current
  <2>. QED
    BY <2>2, <2>3
<1>26. NoneMissing(q, lost)'
  <2>1. /\ Alive = w \cup lost /\ w \cap lost = {}
        /\ \/ lost = {}
           \/ /\ \E u \in Threads : lost = {u}
              /\ step \in {"registered", "linked"}
              /\ total_pendingThread = Cardinality(w)
    BY <1>12, <1>25 DEF Fits, NoneMissing
  <2>2. total_pendingThread = Cardinality(w) => total_pendingThread' = Cardinality(w \ {t})
    BY <1>6, <1>13
  <2>. QED
    BY <1>13, <1>21, <1>25, <2>1, <2>2 DEF NoneMissing
<1>27. Kinds'
  <2>1. state' \in [Threads -> {"NEW", "READY", "RUNNING", "TERMINATED"}]
    BY <1>1, <1>3, <1>13, <1>14 DEF Kinds
  <2>2. total_pendingThread' \in Int /\ runningThread' \in Threads
    BY <1>6, <1>13, <1>14, <1>21
  <2>. QED
    BY <1>1, <1>3, <1>6, <1>16, <2>1, <2>2 DEF Kinds
<1>28. InMainOnly(q, lost)'
  BY <1>1 DEF InMainOnly
<1>29. Others'
  <2>1. state'[t] = "RUNNING"
    BY <1>13, <1>24
  <2>2. state[t] # "NEW"
    BY <1>12, <1>13 DEF Fits, NoneMissing, Alive
  <2>. QED
    BY <1>1, <1>13, <1>14, <1>24, <2>1, <2>2 DEF Others, Fits
<1>30. Chains(q, next', thread')
  BY <1>6, <1>8, <1>10
<1>31. Fits(q, lost)'
  BY <1>22, <1>23, <1>26, <1>27, <1>28, <1>29, <1>30 DEF Fits
<1>32. \A k \in Levels : k > l => next[k] = Nil
  BY <1>2 DEF multiQueue_pop, IsTopLevel
<1>. QED
  BY <1>6, <1>13, <1>14, <1>31, <1>32

-----------------------------------------------------------------------------
(* The theorems about the states.                                          *)

(* Before main() has done anything. *)
LEMMA StartupInvInit == Init => StartupInv
<1>. SUFFICES ASSUME Init PROVE StartupInv
  OBVIOUS
<1>1. PICK p : p = [l \in Levels |-> <<l>>]
  OBVIOUS
<1>2. Kinds
  BY CellFacts DEF Init, Kinds, NoThread, Cells, Top, Threads
<1>3. \A l \in Levels : p[l] = <<l>> /\ Len(p[l]) = 1 /\ p[l][1] = l /\ p[l] \in Seq(Cells)
  BY <1>1 DEF Cells
<1>4. p \in [Levels -> Seq(Cells)]
  BY <1>1, <1>3
<1>5. \A l \in Levels : Chain(p[l], l, next)
  BY <1>3 DEF Chain, Init, Cells
<1>6. Chains(p, next, thread)
  BY <1>3, <1>4, <1>5 DEF Chains, Distinct
<1>7. Waiting(p) = {} /\ Cardinality(Waiting(p)) = 0
  <2>3. \A n : n = 1 => 2 .. n = {}
    OBVIOUS
  <2>1. \A l \in Levels : 2 .. Len(p[l]) = {}
    BY <1>3, <2>3, Zenon
  <2>2. Waiting(p) = {}
    BY <2>1 DEF Waiting, Queued
  <2>. QED
    BY <2>2, FS_EmptySet
<1>8. Alive = {} /\ Current = {}
  BY DEF Init, Alive, Current
<1>9. Tails(p) /\ Counted(p) /\ NoneMissing(p, {})
  BY <1>3, <1>7, <1>8 DEF Tails, Counted, NoneMissing, Init
<1>10. InMainOnly(p, {}) /\ Others
  BY <1>7 DEF InMainOnly, Others, Init, Top
<1>11. Fits(p, {})
  BY <1>2, <1>6, <1>9, <1>10 DEF Fits
<1>. QED
  BY <1>11 DEF StartupInv

(* Every step keeps the invariant. *)
LEMMA StartupInvKept == StartupInv /\ [Next]_vars => StartupInv'
<1>. SUFFICES ASSUME StartupInv, [Next]_vars PROVE StartupInv'
  OBVIOUS
<1>1. PICK p, lost : Fits(p, lost)
  BY DEF StartupInv
<1>2. CASE Fits(p, lost)'
  BY <1>2 DEF StartupInv
<1>3. CASE Register
  BY <1>1, <1>3, RegisterKeeps DEF StartupInv
<1>4. CASE Link
  <2>1. PICK q : Fits(q, {})'
    BY <1>1, <1>4, LinkKeeps
  <2>. QED
    BY <2>1 DEF StartupInv
<1>5. CASE HandleRunningThread /\ Current # {}
  <2>1. \E q, d : Fits(q, d)'
    BY <1>1, <1>5, PushBackKeeps
  <2>. QED
    BY <2>1 DEF StartupInv
<1>6. CASE Dispatch
  <2>1. \E q : Fits(q, lost)'
    BY <1>1, <1>6, DispatchKeeps
  <2>. QED
    BY <2>1 DEF StartupInv
<1>7. CASE UNCHANGED vars
  <2>1. Fits(p, lost)' = Fits(p, lost)
    BY <1>7 DEF vars, listVars, Fits, Kinds, Tails, Behind, Counted, NoneMissing, InMainOnly,
                Others, Waiting, Alive, Current, Last
  <2>. QED
    BY <1>1, <1>2, <2>1
<1>8. CASE Start \/ GetPageTable \/ MainTick
  BY <1>1, <1>2, <1>8, StartKeeps
<1>9. CASE AdvanceTail \/ Count
  BY <1>1, <1>2, <1>9, CountKeeps
<1>10. CASE \E t \in Threads : signal_handler(t) \/ my_pthread_yield(t) \/ my_pthread_exit(t)
  BY <1>1, <1>2, <1>10, LeaveKeeps
<1>11. CASE FinishAll \/ Over \/ (HandleRunningThread /\ Current = {})
  BY <1>1, <1>2, <1>11, IdleKeeps
<1>. QED
  BY <1>3, <1>4, <1>5, <1>6, <1>7, <1>8, <1>9, <1>10, <1>11 DEF Next, Create

(* The invariant holds always. *)
LEMMA StartupAlways == Spec => []StartupInv
BY StartupInvInit, StartupInvKept, PTL DEF Spec

-----------------------------------------------------------------------------
(* What the lists hold, in this state and in the next.                     *)

(* They hold the chains. *)
LEMMA ListsHold ==
  ASSUME NEW p, Kinds, Chains(p, next, thread)
  PROVE  \A l \in Levels : Holds(Contents(l), p[l], thread, 1)
<1>1. PICK nx, th : nx = next /\ th = thread
  OBVIOUS
<1>2. /\ nx \in [Cells -> Nodes \cup {Nil}] /\ th \in [Nodes -> Threads \cup {NoThread}]
      /\ Chains(p, nx, th)
  BY <1>1 DEF Kinds
<1>3. \A l \in Levels : Holds(ContentsOf(nx, th, l), p[l], th, 1)
  BY <1>2, ContentsHold
<1>. QED
  BY <1>1, <1>3, ContentsAre

(* And after a step they hold the new chains. *)
LEMMA ListsHoldNext ==
  ASSUME NEW q, Kinds', Chains(q, next', thread')
  PROVE  \A l \in Levels : Holds(Contents(l)', q[l], thread', 1)
<1>1. PICK nx, th : nx = next' /\ th = thread'
  OBVIOUS
<1>2. /\ nx \in [Cells -> Nodes \cup {Nil}] /\ th \in [Nodes -> Threads \cup {NoThread}]
      /\ Chains(q, nx, th)
  BY <1>1 DEF Kinds
<1>3. \A l \in Levels : Holds(ContentsOf(nx, th, l), q[l], th, 1)
  BY <1>2, ContentsHold
<1>. QED
  BY <1>1, <1>3, ContentsAre

(* The threads in the lists are the waiting ones. *)
LEMMA InTheLists ==
  ASSUME NEW p, Kinds, Chains(p, next, thread)
  PROVE  {t \in Threads : \E l \in Levels : \E i \in DOMAIN Contents(l) : Contents(l)[i] = t}
            = Waiting(p)
<1>1. PICK c : \A l \in Levels : c[l] = Contents(l)
  <2>1. \A l \in Levels : [m \in Levels |-> Contents(m)][l] = Contents(l)
    OBVIOUS
  <2>. QED
    BY <2>1
<1>2. ASSUME NEW l \in Levels
      PROVE  /\ DOMAIN c[l] = 1 .. Len(p[l]) - 1 /\ Len(p[l]) \in Nat
             /\ \A j \in 1 .. Len(p[l]) - 1 : c[l][j] = thread[p[l][1 + j]]
  <2>1. Holds(c[l], p[l], thread, 1) /\ Len(p[l]) \in Nat
    BY <1>1, ListsHold DEF Chains
  <2>. QED
    BY <2>1 DEF Holds
<1>3. ASSUME NEW t \in Threads
      PROVE  (\E l \in Levels : \E i \in DOMAIN c[l] : c[l][i] = t)
               <=> (\E l \in Levels : \E i \in 2 .. Len(p[l]) : thread[p[l][i]] = t)
  <2>1. ASSUME NEW l \in Levels, NEW i \in DOMAIN c[l], c[l][i] = t
        PROVE  \E j \in 2 .. Len(p[l]) : thread[p[l][j]] = t
    <3>1. 1 + i \in 2 .. Len(p[l]) /\ thread[p[l][1 + i]] = t
      BY <1>2, <2>1
    <3>. QED
      BY <3>1
  <2>2. ASSUME NEW l \in Levels, NEW i \in 2 .. Len(p[l]), thread[p[l][i]] = t
        PROVE  \E j \in DOMAIN c[l] : c[l][j] = t
    <3>1. i - 1 \in DOMAIN c[l] /\ 1 + (i - 1) = i
      BY <1>2
    <3>2. c[l][i - 1] = t
      BY <1>2, <2>2, <3>1
    <3>. QED
      BY <3>1, <3>2
  <2>. QED
    BY <2>1, <2>2
<1>. QED
  BY <1>1, <1>3 DEF Waiting, Queued

(* Even with a push cut off in its middle, the count never exceeds the     *)
(* number of threads in the lists.                                         *)
THEOREM CountCoveredCorrect == Spec => []CountCovered
<1>1. StartupInv => CountCovered
  <2>. SUFFICES ASSUME StartupInv PROVE CountCovered
    OBVIOUS
  <2>1. PICK p, lost : Fits(p, lost)
    BY DEF StartupInv
  <2>2. PICK w : w = Waiting(p)
    OBVIOUS
  <2>3. {t \in Threads : \E l \in Levels : \E i \in DOMAIN Contents(l) : Contents(l)[i] = t} = w
    BY <2>1, <2>2, InTheLists DEF Fits
  <2>4. Cardinality(w) \in Nat /\ total_pendingThread \in Int
    BY <2>1, <2>2, WaitingFinite DEF Waiting, Fits, Kinds
  <2>5. total_pendingThread <= Cardinality(w)
    BY <2>1, <2>2, <2>4 DEF Fits, Counted
  <2>. QED
    BY <2>3, <2>5 DEF CountCovered
<1>. QED
  BY <1>1, StartupAlways, PTL

(* When schedule() says that all is finished, a create that the first tick *)
(* cut off has cost at most one thread its run; a tick between two creates,*)
(* none.                                                                   *)
THEOREM AtMostOneLostCorrect == Spec => []AtMostOneLost
<1>1. StartupInv => AtMostOneLost
  <2>. SUFFICES ASSUME StartupInv, context = "finished"
                PROVE  Cardinality(Alive) <= IF step = "between" THEN 0 ELSE 1
    BY DEF AtMostOneLost, Alive
  <2>1. PICK p, lost : Fits(p, lost)
    BY DEF StartupInv
  <2>2. PICK w : w = Waiting(p)
    OBVIOUS
  <2>3. IsFiniteSet(w) /\ Cardinality(w) \in Nat /\ total_pendingThread \in Int
    BY <2>1, <2>2, WaitingFinite DEF Waiting, Fits, Kinds
  <2>4. total_pendingThread <= 0 /\ Current = {}
    BY <2>1 DEF Fits, Others, Current
  <2>5. Alive = w \cup lost /\ w \cap lost = {}
    BY <2>1, <2>2, <2>4 DEF Fits, NoneMissing
  <2>6. \/ total_pendingThread = Cardinality(w)
        \/ total_pendingThread + 1 = Cardinality(w) /\ step \in {"linked", "appended"}
    BY <2>1, <2>2 DEF Fits, Counted
  <2>7. CASE lost = {}
    <3>1. Alive = w
      BY <2>5, <2>7
    <3>2. CASE step = "between"
      <4>1. Cardinality(w) <= 0
        BY <2>3, <2>4, <2>6, <3>2
      <4>. QED
        BY <3>1, <3>2, <4>1
    <3>3. CASE step # "between"
      <4>1. Cardinality(w) <= 1
        BY <2>3, <2>4, <2>6
      <4>. QED
        BY <3>1, <3>3, <4>1
    <3>. QED
      BY <3>2, <3>3
  <2>8. CASE lost # {}
    <3>1. step # "between" /\ total_pendingThread = Cardinality(w) /\ \E t \in Threads : lost = {t}
      BY <2>1, <2>2, <2>8 DEF Fits, NoneMissing
    <3>2. PICK t \in Threads : lost = {t}
      BY <3>1
    <3>3. t \notin w /\ Alive = w \cup {t}
      BY <2>5, <3>2
    <3>4. Cardinality(w) = 0
      BY <2>3, <2>4, <3>1
    <3>5. Cardinality(w \cup {t}) = Cardinality(w) + 1
      BY <2>3, <3>3, FS_AddElement
    <3>6. Cardinality(Alive) = 1
      BY <3>3, <3>4, <3>5
    <3>. QED
      BY <3>1, <3>6
  <2>. QED
    BY <2>7, <2>8
<1>. QED
  BY <1>1, StartupAlways, PTL

-----------------------------------------------------------------------------
(* The lists as FIFO queues.                                               *)

(* A sequence that holds what another one holds is that one. *)
LEMMA SameContents ==
  ASSUME NEW c, NEW d, NEW s, NEW th, NEW th2, Len(s) \in Nat, Len(s) >= 1,
         Holds(c, s, th, 1), Holds(d, s, th2, 1),
         \A i \in 2 .. Len(s) : th2[s[i]] = th[s[i]]
  PROVE  d = c
<1>1. c \in Seq(Threads) /\ d \in Seq(Threads) /\ Len(c) = Len(d) /\ Len(c) = Len(s) - 1
  BY DEF Holds
<1>2. ASSUME NEW j \in 1 .. Len(d) PROVE d[j] = c[j]
  <2>1. j \in 1 .. Len(s) - 1 /\ 1 + j \in 2 .. Len(s)
    BY <1>1
  <2>2. th2[s[1 + j]] = th[s[1 + j]]
    BY <2>1
  <2>. QED
    BY <2>1, <2>2 DEF Holds
<1>. QED
  BY <1>1, <1>2, SeqEqual

(* One cell more at the end is one thread more at the end. *)
LEMMA OneMore ==
  ASSUME NEW c, NEW d, NEW s, NEW s2, NEW th, NEW th2, NEW k \in Nat, k >= 1, NEW t \in Threads,
         Holds(c, s, th, 1), Holds(d, s2, th2, 1), Len(s) = k, Len(s2) = k + 1,
         \A i \in 2 .. k : th2[s2[i]] = th[s[i]], th2[s2[k + 1]] = t
  PROVE  d = Append(c, t)
<1>1. /\ c \in Seq(Threads) /\ d \in Seq(Threads) /\ Len(c) = k - 1 /\ Len(d) = k
      /\ \A j \in 1 .. k - 1 : c[j] = th[s[1 + j]]
      /\ \A j \in 1 .. k : d[j] = th2[s2[1 + j]]
  BY DEF Holds
<1>2. PICK a \in Seq(Threads) : a = Append(c, t)
  BY <1>1
<1>3. Len(a) = k /\ a[k] = t /\ \A j \in 1 .. k - 1 : a[j] = c[j]
  BY <1>1, <1>2
<1>4. ASSUME NEW j \in 1 .. Len(d) PROVE d[j] = a[j]
  <2>1. CASE j = k
    <3>1. 1 + k = k + 1 /\ k \in 1 .. k
      OBVIOUS
    <3>. QED
      BY <1>1, <1>3, <2>1, <3>1
  <2>2. CASE j # k
    <3>1. j \in 1 .. k - 1 /\ j \in 1 .. k /\ 1 + j \in 2 .. k
      BY <1>1, <2>2
    <3>2. th2[s2[1 + j]] = th[s[1 + j]]
      BY <3>1
    <3>. QED
      BY <1>1, <1>3, <3>1, <3>2
  <2>. QED
    BY <2>1, <2>2
<1>5. Len(d) = Len(a)
  BY <1>1, <1>3
<1>6. d = a
  BY <1>1, <1>4, <1>5, SeqEqual
<1>. QED
  BY <1>2, <1>6

(* One cell less at the front is one thread less at the front. *)
LEMMA OneLess ==
  ASSUME NEW c, NEW d, NEW s, NEW s2, NEW th, NEW k \in Nat, k >= 2,
         Holds(c, s, th, 1), Holds(d, s2, th, 1), Len(s) = k, Len(s2) = k - 1,
         \A i \in 2 .. k - 1 : s2[i] = s[i + 1]
  PROVE  c # <<>> /\ d = Tail(c)
<1>1. /\ c \in Seq(Threads) /\ d \in Seq(Threads) /\ Len(c) = k - 1 /\ Len(d) = k - 2
      /\ \A j \in 1 .. k - 1 : c[j] = th[s[1 + j]]
      /\ \A j \in 1 .. k - 2 : d[j] = th[s2[1 + j]]
  BY DEF Holds
<1>2. c # <<>>
  <2>1. Len(c) # 0
    BY <1>1
  <2>. QED
    BY <2>1
<1>3. PICK a : a = Tail(c)
  OBVIOUS
<1>4. a \in Seq(Threads) /\ Len(a) = k - 2 /\ \A j \in 1 .. Len(a) : a[j] = c[j + 1]
  BY <1>1, <1>2, <1>3, HeadTailProperties
<1>5. ASSUME NEW j \in 1 .. Len(d) PROVE d[j] = a[j]
  <2>1. /\ j \in 1 .. k - 2 /\ 1 + j \in 2 .. k - 1 /\ j + 1 \in 1 .. k - 1 /\ j \in 1 .. Len(a)
        /\ (1 + j) + 1 = 1 + (j + 1)
    BY <1>1, <1>4
  <2>2. s2[1 + j] = s[1 + (j + 1)]
    BY <2>1
  <2>3. d[j] = th[s2[1 + j]]
    BY <1>1, <2>1
  <2>4. a[j] = c[j + 1]
    BY <1>4, <2>1
  <2>5. c[j + 1] = th[s[1 + (j + 1)]]
    BY <1>1, <2>1
  <2>. QED
    BY <2>2, <2>3, <2>4, <2>5
<1>6. Len(d) = Len(a)
  BY <1>1, <1>4
<1>7. d = a
  BY <1>1, <1>4, <1>5, <1>6, SeqEqual
<1>. QED
  BY <1>2, <1>3, <1>7

\* The ready queues, and the count that FifoQueues sees.
Lists == [l \in Levels |-> Contents(l)]
Bar   == total_pendingThread + (IF step \in {"linked", "appended"} THEN 1 ELSE 0)

(* Linking a node behind the last cell of level l is a push. *)
LEMMA LinkIsPush ==
  ASSUME NEW p, NEW q, Kinds, Kinds', Chains(p, next, thread), NEW l \in Levels, NEW t \in Threads,
         NEW node, AfterLink(p, l, Len(p[l]), t, node, q), Bar' = Bar + 1
  PROVE  Queues!Next
<1>1. PICK k \in Nat : k = Len(p[l]) /\ k >= 1
  BY DEF Chains
<1>2. /\ node \in Nodes /\ Pushed(p, l, k, node, q) /\ Chains(q, next', thread')
      /\ Linked(next, thread, p[l][k], node, t, next', thread')
  BY <1>1 DEF AfterLink
<1>3. PICK c : c = [m \in Levels |-> Contents(m)]
  OBVIOUS
<1>4. PICK d : d = [m \in Levels |-> Contents(m)']
  OBVIOUS
<1>5. PICK th, th2, nx2 : th = thread /\ th2 = thread' /\ nx2 = next'
  OBVIOUS
<1>6. \A m \in Levels : Holds(c[m], p[m], th, 1) /\ Holds(d[m], q[m], th2, 1)
  <2>1. \A m \in Levels : Holds(Contents(m), p[m], th, 1)
    BY <1>5, ListsHold
  <2>2. \A m \in Levels : Holds(Contents(m)', q[m], th2, 1)
    BY <1>2, <1>5, ListsHoldNext
  <2>. QED
    BY <1>3, <1>4, <2>1, <2>2
<1>7. Len(q[l]) = k + 1 /\ q[l][k + 1] = node /\ \A i \in 1 .. k : q[l][i] = p[l][i]
  BY <1>2 DEF Pushed
<1>8. ASSUME NEW m \in Levels, NEW i \in 2 .. Len(p[m])
      PROVE  q[m][i] = p[m][i] /\ th2[p[m][i]] = th[p[m][i]]
  <2>1. i \in 1 .. Len(q[m]) /\ q[m][i] = p[m][i] /\ (m = l => i # k + 1)
    <3>1. Len(p[m]) \in Nat
      BY DEF Chains
    <3>2. CASE m = l
      <4>1. i \in 1 .. k /\ i \in 1 .. k + 1 /\ i # k + 1
        BY <1>1, <3>2
      <4>. QED
        BY <1>7, <3>2, <4>1
    <3>3. CASE m # l
      <4>1. q[m] = p[m]
        BY <1>2, <3>3 DEF Pushed
      <4>. QED
        BY <3>1, <3>3, <4>1
    <3>. QED
      BY <3>2, <3>3
  <2>2. k + 1 \in 1 .. Len(q[l])
    BY <1>7
  <2>3. q[m][i] # q[l][k + 1]
    <3>1. Chains(q, nx2, th2)
      BY <1>2, <1>5
    <3>. QED
      BY <2>1, <2>2, <3>1, CellsApart
  <2>4. p[m][i] \in Nodes
    BY DEF Chains, Chain
  <2>. QED
    BY <1>2, <1>5, <1>7, <2>1, <2>3, <2>4 DEF Linked
<1>9. th2[node] = t
  BY <1>2, <1>5 DEF Linked
<1>10. d[l] = Append(c[l], t)
  <2>1. PICK x, y, u, v : x = c[l] /\ y = d[l] /\ u = p[l] /\ v = q[l]
    OBVIOUS
  <2>2. \A i \in 2 .. k : th2[v[i]] = th[u[i]]
    BY <1>1, <1>8, <2>1
  <2>3. Len(v) = k + 1 /\ th2[v[k + 1]] = t
    BY <1>7, <1>9, <2>1
  <2>4. Holds(x, u, th, 1) /\ Holds(y, v, th2, 1)
    BY <1>6, <2>1
  <2>5. k >= 1 /\ Len(u) = k
    BY <1>1, <2>1
  <2>6. y = Append(x, t)
    BY <2>2, <2>3, <2>4, <2>5, OneMore
  <2>. QED
    BY <2>1, <2>6
<1>11. ASSUME NEW m \in Levels, m # l PROVE d[m] = c[m]
  <2>1. q[m] = p[m] /\ Len(p[m]) \in Nat /\ Len(p[m]) >= 1
    BY <1>2, <1>11 DEF Pushed, Chains
  <2>2. Holds(c[m], p[m], th, 1) /\ Holds(d[m], p[m], th2, 1)
    BY <1>6, <2>1
  <2>3. \A i \in 2 .. Len(p[m]) : th2[p[m][i]] = th[p[m][i]]
    BY <1>8
  <2>. QED
    BY <2>1, <2>2, <2>3, SameContents
<1>12. d = [c EXCEPT ![l] = Append(@, t)]
  BY <1>3, <1>4, <1>10, <1>11
<1>13. Queues!Push(t, l)
  BY <1>3, <1>4, <1>12 DEF Queues!Push, Bar
<1>. QED
  BY <1>13 DEF Queues!Next

(* Taking the first node of the highest level that has one is a pop. *)
LEMMA DispatchIsPop ==
  ASSUME NEW p, NEW q, Kinds, Kinds', Chains(p, next, thread), NEW l \in Levels, NEW t \in Threads,
         AfterPop(p, l, t, q), thread' = thread, \A m \in Levels : m > l => next[m] = Nil,
         Bar' = Bar - 1
  PROVE  Queues!Next
<1>1. PICK k \in Nat : k = Len(p[l]) /\ k >= 2
  BY DEF Chains, AfterPop
<1>2. Popped(p, l, q) /\ Chains(q, next', thread')
  BY DEF AfterPop
<1>3. PICK c : c = [m \in Levels |-> Contents(m)]
  OBVIOUS
<1>4. PICK d : d = [m \in Levels |-> Contents(m)']
  OBVIOUS
<1>5. PICK th : th = thread
  OBVIOUS
<1>6. \A m \in Levels : Holds(c[m], p[m], th, 1) /\ Holds(d[m], q[m], th, 1)
  <2>1. \A m \in Levels : Holds(Contents(m), p[m], th, 1)
    BY <1>5, ListsHold
  <2>2. \A m \in Levels : Holds(Contents(m)', q[m], th, 1)
    BY <1>2, <1>5, ListsHoldNext
  <2>. QED
    BY <1>3, <1>4, <2>1, <2>2
<1>7. c[l] # <<>> /\ d[l] = Tail(c[l])
  <2>1. Len(q[l]) = k - 1 /\ \A i \in 2 .. k - 1 : q[l][i] = p[l][i + 1]
    BY <1>1, <1>2 DEF Popped
  <2>. QED
    BY <1>1, <1>6, <2>1, OneLess
<1>8. ASSUME NEW m \in Levels, m # l PROVE d[m] = c[m]
  <2>1. q[m] = p[m] /\ Len(p[m]) \in Nat /\ Len(p[m]) >= 1
    BY <1>2, <1>8 DEF Popped, Chains
  <2>2. Holds(c[m], p[m], th, 1) /\ Holds(d[m], p[m], th, 1)
    BY <1>6, <2>1
  <2>. QED
    BY <2>1, <2>2, SameContents
<1>9. ASSUME NEW m \in Levels, m > l PROVE c[m] = <<>>
  <2>1. PICK n \in Nat : n = Len(p[m]) /\ n >= 1
    BY DEF Chains
  <2>2. n < 2
    <3>1. n >= 2 => next[m] \in Nodes
      <4>1. n >= 2 => 2 \in 2 .. Len(p[m]) /\ 1 \in 1 .. Len(p[m]) - 1 /\ 1 + 1 = 2
        BY <2>1
      <4>2. Chain(p[m], m, next)
        BY DEF Chains
      <4>. QED
        BY <4>1, <4>2 DEF Chain
    <3>2. next[m] \notin Nodes
      BY <1>9, CellFacts DEF Cells
    <3>. QED
      BY <2>1, <3>1, <3>2
  <2>3. n = 1
    <3>1. n >= 1
      BY <2>1
    <3>. QED
      BY <2>2, <3>1
  <2>4. c[m] \in Seq(Threads) /\ Len(c[m]) = n - 1
    BY <1>6, <2>1 DEF Holds
  <2>5. Len(c[m]) = 0
    BY <2>3, <2>4
  <2>. QED
    BY <2>4, <2>5
<1>10. d = [c EXCEPT ![l] = Tail(@)]
  BY <1>3, <1>4, <1>7, <1>8
<1>11. Queues!Pop(l)
  <2>1. c[l] # <<>> /\ \A m \in Levels : m > l => c[m] = <<>>
    BY <1>7, <1>9
  <2>. QED
    BY <1>3, <1>4, <1>10, <2>1 DEF Queues!Pop, Bar
<1>. QED
  BY <1>11 DEF Queues!Next

(* A step that leaves the links, the threads and the count alone changes   *)
(* no queue.                                                               *)
LEMMA StaysTheSame ==
  ASSUME next' = next, thread' = thread, Bar' = Bar
  PROVE  UNCHANGED Queues!fifoVars
<1>1. [l \in Levels |-> Contents(l)]' = [l \in Levels |-> Contents(l)]
  BY DEF Contents
<1>. QED
  BY <1>1 DEF Queues!fifoVars, Bar

(* The lists start empty. *)
LEMMA QueuesInit == Init => Queues!Init
<1>. SUFFICES ASSUME Init PROVE Queues!Init
  OBVIOUS
<1>1. PICK p, lost : Fits(p, lost)
  BY StartupInvInit DEF StartupInv
<1>2. ASSUME NEW l \in Levels PROVE Contents(l) = <<>>
  <2>1. PICK c : c = Contents(l)
    OBVIOUS
  <2>2. PICK n \in Nat : n = Len(p[l]) /\ n >= 1
    BY <1>1 DEF Fits, Chains
  <2>3. n < 2
    <3>1. n >= 2 => 2 \in 2 .. Len(p[l]) /\ 1 \in 1 .. Len(p[l]) - 1 /\ 1 + 1 = 2
      BY <2>2
    <3>2. Chain(p[l], l, next) /\ next[l] = Nil
      BY <1>1 DEF Fits, Chains, Init, Cells
    <3>3. n >= 2 => Nil \in Nodes
      BY <3>1, <3>2 DEF Chain
    <3>. QED
      BY <2>2, <3>3, CellFacts DEF Cells
  <2>4. Holds(c, p[l], thread, 1)
    BY <1>1, <2>1, ListsHold DEF Fits
  <2>5. n = 1
    <3>1. n >= 1
      BY <2>2
    <3>. QED
      BY <2>3, <3>1
  <2>6. c \in Seq(Threads) /\ Len(c) = n - 1
    BY <2>2, <2>4 DEF Holds
  <2>7. Len(c) = 0
    BY <2>5, <2>6
  <2>. QED
    BY <2>1, <2>6, <2>7
<1>3. Bar = 0
  BY DEF Init, Bar
<1>. QED
  BY <1>2, <1>3 DEF Queues!Init, Bar

(* Every step of the program is a step of the queues, or is taken with a   *)
(* tail left behind.                                                       *)
LEMMA StepsOfQueues ==
  StartupInv /\ [Next]_vars => [TailBehind \/ Queues!Next]_(Queues!fifoVars)
<1>. SUFFICES ASSUME StartupInv, [Next]_vars, ~ TailBehind
              PROVE  Queues!Next \/ UNCHANGED Queues!fifoVars
  OBVIOUS
<1>1. PICK p, lost : Fits(p, lost)
  BY DEF StartupInv
<1>2. Kinds /\ Chains(p, next, thread) /\ total_pendingThread \in Int
  BY <1>1 DEF Fits, Kinds
<1>3. CASE Link
  <2>1. PICK q : AfterLink(p, Top, Len(p[Top]), Last, NewNode, q) /\ Fits(q, {})'
    BY <1>1, <1>3, LinkKeeps
  <2>2. PICK t, node : t = Last /\ node = NewNode
    OBVIOUS
  <2>3. Kinds' /\ Top \in Levels
    BY <2>1, CellFacts DEF Fits
  <2>4. t \in Threads
    BY <1>1, <1>3, <2>2 DEF Link, InMain, Fits, InMainOnly, Kinds, Last, Threads
  <2>5. Bar' = Bar + 1
    BY <1>2, <1>3 DEF Link, InMain, Bar
  <2>6. AfterLink(p, Top, Len(p[Top]), t, node, q)
    BY <2>1, <2>2
  <2>. QED
    BY <1>2, <2>3, <2>4, <2>5, <2>6, LinkIsPush
<1>4. CASE HandleRunningThread /\ Current # {}
  <2>1. PICK l \in Levels, t \in Threads : \E k \in 1 .. Len(p[l]) : \E q, d :
            /\ Current = {t} /\ AfterLink(p, l, k, t, NewNode, q)
            /\ k = Len(p[l]) \/ Behind(p)
            /\ total_pendingThread' = total_pendingThread + 1
            /\ Fits(q, d)'
    BY <1>1, <1>4, PushBackKeeps
  <2>2. PICK k \in 1 .. Len(p[l]) : \E q, d :
            /\ AfterLink(p, l, k, t, NewNode, q)
            /\ k = Len(p[l]) \/ Behind(p)
            /\ total_pendingThread' = total_pendingThread + 1
            /\ Fits(q, d)'
    BY <2>1
  <2>3. PICK q, d :
            /\ AfterLink(p, l, k, t, NewNode, q)
            /\ k = Len(p[l]) \/ Behind(p)
            /\ total_pendingThread' = total_pendingThread + 1
            /\ Fits(q, d)'
    BY <2>2
  <2>4. context = "schedule" /\ step' = step
    BY <1>4 DEF HandleRunningThread
  <2>5. k = Len(p[l])
    BY <2>3, <2>4 DEF Behind, TailBehind
  <2>6. PICK node : node = NewNode
    OBVIOUS
  <2>7. Kinds' /\ AfterLink(p, l, Len(p[l]), t, node, q)
    BY <2>3, <2>5, <2>6 DEF Fits
  <2>8. Bar' = Bar + 1
    BY <1>2, <2>3, <2>4 DEF Bar
  <2>. QED
    BY <1>2, <2>7, <2>8, LinkIsPush
<1>5. CASE Dispatch
  <2>1. PICK l \in Levels, t \in Threads : \E q :
            /\ AfterPop(p, l, t, q) /\ runningThread' = t
            /\ \A k \in Levels : k > l => next[k] = Nil
            /\ total_pendingThread' = total_pendingThread - 1 /\ thread' = thread
            /\ Fits(q, lost)'
    BY <1>1, <1>5, DispatchKeeps
  <2>2. PICK q :
            /\ AfterPop(p, l, t, q)
            /\ \A k \in Levels : k > l => next[k] = Nil
            /\ total_pendingThread' = total_pendingThread - 1 /\ thread' = thread
            /\ Fits(q, lost)'
    BY <2>1
  <2>3. step' = step
    BY <1>5 DEF Dispatch
  <2>4. Bar' = Bar - 1
    BY <1>2, <2>2, <2>3 DEF Bar
  <2>5. Kinds'
    BY <2>2 DEF Fits
  <2>. QED
    BY <1>2, <2>2, <2>4, <2>5, DispatchIsPop
<1>6. CASE \/ Start \/ Register \/ GetPageTable \/ MainTick \/ AdvanceTail \/ Count
           \/ \E t \in Threads : signal_handler(t) \/ my_pthread_yield(t) \/ my_pthread_exit(t)
           \/ HandleRunningThread /\ Current = {}
           \/ FinishAll \/ Over \/ UNCHANGED vars
  <2>1. next' = next /\ thread' = thread
    <3>1. CASE HandleRunningThread /\ Current = {}
      <4>1. ~ (runningThread # NoThread /\ state[runningThread] # "TERMINATED")
        BY <1>2, <3>1 DEF HandleRunningThread, Current, Kinds
      <4>. QED
        BY <3>1, <4>1 DEF HandleRunningThread, listVars
    <3>2. CASE ~ (HandleRunningThread /\ Current = {})
      BY <1>6, <3>2 DEF Start, signal_init, file_init, mem_init, Register, GetPageTable, MainTick, AdvanceTail,
              Count, signal_handler, my_pthread_yield, my_pthread_exit, LeaveThread, FinishAll, Over,
              vars, listVars
    <3>. QED
      BY <3>1, <3>2
  <2>2. Bar' = Bar
    <3>1. CASE HandleRunningThread /\ Current = {}
      <4>1. ~ (runningThread # NoThread /\ state[runningThread] # "TERMINATED")
        BY <1>2, <3>1 DEF HandleRunningThread, Current, Kinds
      <4>. QED
        BY <3>1, <4>1 DEF HandleRunningThread, listVars, Bar
    <3>2. CASE Start \/ Register \/ GetPageTable \/ MainTick \/ AdvanceTail
      <4>1. /\ total_pendingThread' = total_pendingThread
            /\ step \in {"linked", "appended"} <=> step' \in {"linked", "appended"}
        BY <3>2 DEF Start, signal_init, file_init, mem_init, Register, GetPageTable, MainTick,
                    AdvanceTail, InMain, listVars
      <4>. QED
        BY <4>1 DEF Bar
    <3>3. CASE Count
      <4>1. /\ total_pendingThread' = total_pendingThread + 1
            /\ step \in {"linked", "appended"} /\ step' \notin {"linked", "appended"}
        BY <3>3 DEF Count, InMain, CountPush
      <4>. QED
        BY <1>2, <4>1 DEF Bar
    <3>4. CASE \/ \E t \in Threads : signal_handler(t) \/ my_pthread_yield(t) \/ my_pthread_exit(t)
               \/ FinishAll \/ Over \/ UNCHANGED vars
      BY <3>4 DEF signal_handler, my_pthread_yield, my_pthread_exit, LeaveThread, FinishAll, Over,
                  vars, listVars, Bar
    <3>. QED
      BY <1>6, <3>1, <3>2, <3>3, <3>4
  <2>. QED
    BY <2>1, <2>2, StaysTheSame
<1>. QED
  BY <1>3, <1>4, <1>5, <1>6 DEF Next, Create

(* The linked lists implement FIFO queues, whatever the order of pushes and *)
(* pops, unless the first tick came between the two pointer updates of     *)
(* main()'s push.                                                          *)
THEOREM ListsAreQueuesCorrect == Spec => ListsAreQueues
BY QueuesInit, StepsOfQueues, StartupAlways, PTL DEF Spec, ListsAreQueues
=============================================================================
