----------------------------- MODULE SfsProofs ------------------------------
(***************************************************************************)
(* Theorems about Sfs for any number of inodes and slots.                  *)
(***************************************************************************)
EXTENDS Sfs, FiniteSetTheorems, SequenceTheorems, WellFoundedInduction, TLAPS

-----------------------------------------------------------------------------
(* Chains of links.                                                        *)

\* Sfs's operators, of any inode table.
FollowsIn(nodes, c) ==
    /\ \A k \in 1 .. Len(c) - 1 : c[k + 1] = nodes[c[k]].link
    /\ IsInjective(c)
    /\ nodes[Last(c)].link \notin Inodes \ ToSet(c)

LinkedIn(nodes) == {nodes[i].link : i \in Inodes} \ {NoLink}

ChainIn(nodes, i) ==
    CHOOSE c \in {<<i>> \o links : links \in BoundedSeq(LinkedIn(nodes), Cardinality(LinkedIn(nodes)))} :
        FollowsIn(nodes, c)

\* A link leads to a later inode: findFreeInode gives inodes in their order,
\* and the directory had its own before it was linked.
Rising(nodes) ==
    \A i \in Inodes : nodes[i].link = NoLink \/ (nodes[i].link \in Inodes /\ i < nodes[i].link)

\* c goes along the links from i to their end.
Ends(nodes, i, c) ==
    /\ c \in Seq(Inodes) /\ c # <<>> /\ c[1] = i
    /\ \A k \in 1 .. Len(c) - 1 : c[k + 1] = nodes[c[k]].link
    /\ nodes[c[Len(c)]].link = NoLink

Increasing(c) == \A a, b \in 1 .. Len(c) : a < b => c[a] < c[b]

(* The least element of a set of natural numbers. *)
LEMMA LeastNumber ==
  ASSUME NEW T \in SUBSET Nat, T # {}
  PROVE  \E n \in T : \A m \in T : ~ (m < n)
<1>1. PICK n \in T : \A m \in T : <<m, n>> \notin OpToRel(<, Nat)
  BY NatLessThanWellFounded, WFMin
<1>. QED
  BY <1>1 DEF OpToRel

(* Along rising links the inodes of a chain get larger. *)
LEMMA ChainsIncrease ==
  ASSUME NEW nodes, Rising(nodes), NEW c \in Seq(Inodes),
         \A k \in 1 .. Len(c) - 1 : c[k + 1] = nodes[c[k]].link
  PROVE  Increasing(c)
<1>0. Inodes \subseteq Nat /\ NoLink \notin Inodes /\ Len(c) \in Nat
  BY SfsAssumption DEF Inodes, NoLink
<1>. DEFINE T == {b \in 1 .. Len(c) : \E a \in 1 .. Len(c) : a < b /\ ~ (c[a] < c[b])}
<1>1. SUFFICES ASSUME T # {} PROVE FALSE
  BY DEF Increasing
<1>2. PICK b \in T : \A m \in T : ~ (m < b)
  <2>1. T \in SUBSET Nat
    BY <1>0
  <2>. QED
    BY <2>1, <1>1, LeastNumber
<1>3. PICK a \in 1 .. Len(c) : a < b /\ ~ (c[a] < c[b])
  BY <1>2
<1>4. b \in 1 .. Len(c) /\ b - 1 \in 1 .. Len(c) - 1 /\ (b - 1) + 1 = b /\ b - 1 \in 1 .. Len(c)
  BY <1>0, <1>2, <1>3
<1>5. c[b] = nodes[c[b - 1]].link /\ c[b - 1] \in Inodes /\ c[b] \in Inodes /\ c[a] \in Inodes
  BY <1>0, <1>3, <1>4
<1>6. c[b - 1] < c[b]
  BY <1>0, <1>5 DEF Rising
<1>7. a = b - 1 \/ (a < b - 1 /\ c[a] < c[b - 1])
  <2>1. b \in Nat /\ b - 1 < b
    BY <1>0, <1>4
  <2>2. b - 1 \notin T
    BY <1>2, <2>1
  <2>3. a < b - 1 => c[a] < c[b - 1]
    BY <1>4, <2>2
  <2>4. a \in Nat /\ a < b
    BY <1>0, <1>3
  <2>. QED
    BY <2>1, <2>3, <2>4
<1>8. c[a] \in Nat /\ c[b] \in Nat /\ c[b - 1] \in Nat /\ ~ (c[a] < c[b])
  BY <1>0, <1>3, <1>5
<1>. QED
  BY <1>6, <1>7, <1>8

(* From every inode rising links lead to an end. *)
LEMMA ChainsEnd ==
  ASSUME NEW nodes, Rising(nodes), NEW i \in Inodes
  PROVE  \E c : Ends(nodes, i, c)
<1>0. Inodes \subseteq Nat /\ NoLink \notin Inodes /\ NumInodes \in Nat
      /\ \A j \in Inodes : NumInodes - j \in Nat
  BY SfsAssumption DEF Inodes, NoLink
<1>. DEFINE T == {n \in Nat : \E j \in Inodes : n = NumInodes - j /\ ~ \E c : Ends(nodes, j, c)}
<1>1. SUFFICES ASSUME T # {} PROVE FALSE
  BY <1>0
<1>2. PICK n \in T : \A m \in T : ~ (m < n)
  BY <1>1, LeastNumber
<1>3. PICK j \in Inodes : n = NumInodes - j /\ ~ \E c : Ends(nodes, j, c)
  BY <1>2
<1>4. CASE nodes[j].link = NoLink
  <2>1. /\ <<j>> \in Seq(Inodes) /\ Len(<<j>>) = 1 /\ <<j>>[1] = j /\ <<j>> # <<>>
    OBVIOUS
  <2>2. Ends(nodes, j, <<j>>)
    BY <1>4, <2>1 DEF Ends
  <2>. QED
    BY <1>3, <2>2
<1>5. CASE nodes[j].link # NoLink
  <2>. DEFINE l == nodes[j].link
  <2>1. l \in Inodes /\ j < l
    BY <1>5 DEF Rising
  <2>2. NumInodes - l < n /\ NumInodes - l \in Nat
    <3>1. j \in Nat /\ l \in Nat /\ n = NumInodes - j /\ NumInodes - l \in Nat
      BY <1>0, <1>3, <2>1
    <3>. HIDE DEF l
    <3>. QED
      BY <1>0, <2>1, <3>1
  <2>3. PICK c : Ends(nodes, l, c)
    BY <1>2, <2>1, <2>2
  <2>. DEFINE d == <<j>> \o c
  <2>4. /\ c \in Seq(Inodes) /\ Len(c) \in Nat \ {0} /\ c[1] = l
        /\ \A k \in 1 .. Len(c) - 1 : c[k + 1] = nodes[c[k]].link
        /\ nodes[c[Len(c)]].link = NoLink
    BY <2>3, EmptySeq DEF Ends
  <2>5. /\ d \in Seq(Inodes) /\ Len(d) = 1 + Len(c) /\ d[1] = j
        /\ \A k \in 2 .. Len(d) : d[k] = c[k - 1]
    <3>1. <<j>> \in Seq(Inodes) /\ Len(<<j>>) = 1 /\ <<j>>[1] = j
      OBVIOUS
    <3>. QED
      BY <2>4, <3>1, ConcatProperties
  <2>. HIDE DEF d, l
  <2>6. \A k \in 1 .. Len(d) - 1 : d[k + 1] = nodes[d[k]].link
    <3>. TAKE k \in 1 .. Len(d) - 1
    <3>1. CASE k = 1
      BY <2>4, <2>5, <3>1 DEF l
    <3>2. CASE k # 1
      <4>1. k - 1 \in 1 .. Len(c) - 1 /\ k \in 2 .. Len(d) /\ k + 1 \in 2 .. Len(d)
            /\ (k - 1) + 1 = k /\ (k + 1) - 1 = k
        BY <2>4, <2>5, <3>2
      <4>2. c[k] = nodes[c[k - 1]].link
        BY <2>4, <4>1
      <4>. QED
        BY <2>5, <4>1, <4>2
    <3>. QED
      BY <3>1, <3>2
  <2>7. Ends(nodes, j, d)
    <3>1. Len(d) \in 2 .. Len(d) /\ Len(d) - 1 = Len(c)
      BY <2>4, <2>5
    <3>2. d[Len(d)] = c[Len(c)]
      BY <2>5, <3>1
    <3>3. d # <<>>
      BY <2>4, <2>5, EmptySeq
    <3>. QED
      BY <2>4, <2>5, <2>6, <3>2, <3>3 DEF Ends
  <2>. QED
    BY <1>3, <2>7
<1>. QED
  BY <1>4, <1>5

(* There is only one such chain. *)
LEMMA OneEnd ==
  ASSUME NEW nodes, NEW i \in Inodes, NEW c, NEW d, Ends(nodes, i, c), Ends(nodes, i, d)
  PROVE  c = d
<1>0. /\ c \in Seq(Inodes) /\ d \in Seq(Inodes) /\ NoLink \notin Inodes
      /\ Len(c) \in Nat \ {0} /\ Len(d) \in Nat \ {0}
  BY EmptySeq, SfsAssumption DEF Ends, Inodes, NoLink
<1>. DEFINE T == {k \in Nat : k \in 1 .. Len(c) /\ k \in 1 .. Len(d) /\ c[k] # d[k]}
<1>1. T = {}
  <2>. SUFFICES ASSUME T # {} PROVE FALSE
    OBVIOUS
  <2>1. PICK k \in T : \A m \in T : ~ (m < k)
    BY LeastNumber
  <2>2. k # 1
    BY <2>1 DEF Ends
  <2>3. k - 1 \in 1 .. Len(c) - 1 /\ k - 1 \in 1 .. Len(d) - 1 /\ (k - 1) + 1 = k /\ k - 1 < k
    BY <1>0, <2>1, <2>2
  <2>4. c[k - 1] = d[k - 1]
    BY <1>0, <2>1, <2>3
  <2>5. c[k] = nodes[c[k - 1]].link /\ d[k] = nodes[d[k - 1]].link
    BY <2>3 DEF Ends
  <2>. QED
    BY <2>1, <2>4, <2>5
<1>2. \A k \in 1 .. Len(c) : k \in 1 .. Len(d) => c[k] = d[k]
  BY <1>0, <1>1
<1>3. ~ (Len(c) < Len(d))
  <2>. SUFFICES ASSUME Len(c) < Len(d) PROVE FALSE
    OBVIOUS
  <2>1. Len(c) \in 1 .. Len(d) - 1 /\ Len(c) \in 1 .. Len(c) /\ Len(c) \in 1 .. Len(d)
        /\ Len(c) + 1 \in 1 .. Len(d)
    BY <1>0
  <2>2. d[Len(c) + 1] = nodes[c[Len(c)]].link
    BY <1>2, <2>1 DEF Ends
  <2>. QED
    BY <1>0, <2>1, <2>2 DEF Ends
<1>4. ~ (Len(d) < Len(c))
  <2>. SUFFICES ASSUME Len(d) < Len(c) PROVE FALSE
    OBVIOUS
  <2>1. Len(d) \in 1 .. Len(c) - 1 /\ Len(d) \in 1 .. Len(c) /\ Len(d) \in 1 .. Len(d)
        /\ Len(d) + 1 \in 1 .. Len(c)
    BY <1>0
  <2>2. c[Len(d) + 1] = nodes[d[Len(d)]].link
    BY <1>2, <2>1 DEF Ends
  <2>. QED
    BY <1>0, <2>1, <2>2 DEF Ends
<1>. QED
  <2>1. Len(c) = Len(d)
    BY <1>0, <1>3, <1>4
  <2>. QED
    BY <1>0, <1>2, <2>1, SeqEqual

(* There are no more links in a chain than inodes that are linked to. *)
LEMMA ChainFits ==
  ASSUME NEW nodes, Rising(nodes), NEW i \in Inodes, NEW c, Ends(nodes, i, c)
  PROVE  \E links \in BoundedSeq(LinkedIn(nodes), Cardinality(LinkedIn(nodes))) :
            c = <<i>> \o links
<1>. DEFINE L == LinkedIn(nodes)
            p == Tail(c)
<1>0. /\ c \in Seq(Inodes) /\ Len(c) \in Nat \ {0} /\ c # <<>> /\ c[1] = i
      /\ Inodes \subseteq Nat /\ NoLink \notin Inodes
  BY EmptySeq, SfsAssumption DEF Ends, Inodes, NoLink
<1>1. L \subseteq Inodes /\ IsFiniteSet(L) /\ Cardinality(L) \in Nat
  <2>1. L \subseteq Inodes
    BY DEF LinkedIn, Rising
  <2>2. IsFiniteSet(Inodes)
    BY FS_Interval, SfsAssumption DEF Inodes
  <2>. QED
    BY <2>1, <2>2, FS_Subset, FS_CardinalityType
<1>2. /\ p \in Seq(Inodes) /\ Len(p) = Len(c) - 1
      /\ \A k \in 1 .. Len(p) : p[k] = c[k + 1]
  BY <1>0, HeadTailProperties
<1>3. \A k \in 1 .. Len(p) : p[k] \in L
  <2>. TAKE k \in 1 .. Len(p)
  <2>1. k \in 1 .. Len(c) - 1 /\ k \in 1 .. Len(c) /\ k + 1 \in 1 .. Len(c)
    BY <1>0, <1>2
  <2>2. p[k] = nodes[c[k]].link /\ c[k] \in Inodes /\ p[k] \in Inodes
    BY <1>0, <1>2, <2>1 DEF Ends
  <2>. QED
    BY <1>0, <2>2 DEF LinkedIn
<1>4. p \in [1 .. Len(p) -> L]
  <2>1. p \in [1 .. Len(p) -> Inodes]
    BY <1>2, LenProperties
  <2>. HIDE DEF p, L
  <2>. QED
    BY <1>3, <2>1
<1>5. Increasing(c)
  BY <1>0, ChainsIncrease DEF Ends
<1>6. Len(p) \in 0 .. Cardinality(L)
  <2>. HIDE DEF L, p
  <2>0. Len(p) \in Nat
    BY <1>0, <1>2
  <2>. SUFFICES ASSUME Cardinality(L) < Len(p) PROVE FALSE
    BY <1>1, <2>0
  <2>1. IsFiniteSet(1 .. Len(p)) /\ Cardinality(1 .. Len(p)) = Len(p)
    BY <1>0, <1>2, <1>1, FS_Interval
  <2>2. \E x, y \in 1 .. Len(p) : x # y /\ p[x] = p[y]
    BY <1>1, <1>4, <2>1, FS_PigeonHole
  <2>3. PICK x, y \in 1 .. Len(p) : x # y /\ p[x] = p[y]
    BY <2>2
  <2>4. /\ x + 1 \in 1 .. Len(c) /\ y + 1 \in 1 .. Len(c) /\ x + 1 # y + 1
        /\ (x + 1 < y + 1 \/ y + 1 < x + 1)
    BY <1>0, <1>2, <2>3
  <2>5. c[x + 1] = c[y + 1] /\ c[x + 1] \in Nat
    <3>1. p[x] = c[x + 1] /\ p[y] = c[y + 1]
      BY <1>2
    <3>2. c[x + 1] \in Inodes
      BY <1>0, <2>4
    <3>. QED
      BY <1>0, <2>3, <3>1, <3>2
  <2>6. c[x + 1] < c[y + 1] \/ c[y + 1] < c[x + 1]
    BY <1>5, <2>4 DEF Increasing
  <2>. QED
    BY <2>5, <2>6
<1>7. c = <<i>> \o p
  <2>1. <<i>> \in Seq(Inodes) /\ Len(<<i>>) = 1 /\ <<i>>[1] = i
    OBVIOUS
  <2>2. /\ <<i>> \o p \in Seq(Inodes) /\ Len(<<i>> \o p) = Len(c)
        /\ (<<i>> \o p)[1] = i
        /\ \A k \in 2 .. Len(c) : (<<i>> \o p)[k] = p[k - 1]
    BY <1>0, <1>2, <2>1, ConcatProperties
  <2>3. \A k \in 2 .. Len(c) : p[k - 1] = c[k]
    BY <1>0, <1>2
  <2>4. \A k \in 1 .. Len(c) : (<<i>> \o p)[k] = c[k]
    BY <1>0, <2>2, <2>3
  <2>. QED
    BY <1>0, <2>2, <2>4, SeqEqual
<1>8. p \in BoundedSeq(L, Cardinality(L))
  BY <1>4, <1>6 DEF BoundedSeq, SeqOf
<1>. QED
  BY <1>7, <1>8

(* LinksFrom, of a table with rising links, goes from i to the end. *)
LEMMA TheChain ==
  ASSUME NEW nodes, Rising(nodes), NEW i \in Inodes
  PROVE  Ends(nodes, i, ChainIn(nodes, i)) /\ Increasing(ChainIn(nodes, i))
<1>. DEFINE L == LinkedIn(nodes)
            n == Cardinality(L)
            d == ChainIn(nodes, i)
<1>0. Inodes \subseteq Nat /\ NoLink \notin Inodes /\ \A j \in Inodes : nodes[j].link \in Inodes \cup {NoLink}
  BY SfsAssumption DEF Inodes, NoLink, Rising
<1>1. PICK c : Ends(nodes, i, c)
  BY ChainsEnd
<1>2. FollowsIn(nodes, c)
  <2>1. Increasing(c)
    BY <1>1, ChainsIncrease DEF Ends
  <2>2. Len(c) \in Nat /\ DOMAIN c = 1 .. Len(c) /\ \A k \in DOMAIN c : c[k] \in Nat
    <3>1. c \in Seq(Inodes)
      BY <1>1 DEF Ends
    <3>. QED
      BY <1>0, <3>1, LenProperties
  <2>3. IsInjective(c)
    <3>1. \A a, b \in DOMAIN c : a < b \/ b < a \/ a = b
      BY <2>2
    <3>2. \A a, b \in DOMAIN c : c[a] = c[b] => ~ (a < b) /\ ~ (b < a)
      BY <2>1, <2>2 DEF Increasing
    <3>. QED
      BY <3>1, <3>2 DEF IsInjective
  <2>. QED
    BY <1>0, <1>1, <2>3 DEF FollowsIn, Ends, Last
<1>3. \E links \in BoundedSeq(L, n) : c = <<i>> \o links
  BY <1>1, ChainFits
<1>4. /\ \E links \in BoundedSeq(L, n) : d = <<i>> \o links
      /\ FollowsIn(nodes, d)
  BY <1>2, <1>3 DEF ChainIn
<1>5. PICK links \in BoundedSeq(L, n) : d = <<i>> \o links
  BY <1>4
<1>. HIDE DEF d
<1>6. d \in Seq(Inodes) /\ Len(d) \in Nat \ {0} /\ d[1] = i /\ d # <<>>
  <2>1. L \subseteq Inodes
    BY <1>0 DEF LinkedIn
  <2>2. PICK m \in 0 .. n : links \in [1 .. m -> L]
    BY DEF BoundedSeq, SeqOf
  <2>3. n \in Nat
    <3>1. IsFiniteSet(Inodes)
      BY FS_Interval, SfsAssumption DEF Inodes
    <3>. QED
      BY <2>1, <3>1, FS_Subset, FS_CardinalityType
  <2>4. links \in Seq(Inodes)
    <3>. HIDE DEF L, n
    <3>1. m \in Nat
      BY <2>2, <2>3
    <3>. QED
      BY <2>1, <2>2, <3>1
  <2>5. <<i>> \in Seq(Inodes) /\ Len(<<i>>) = 1 /\ <<i>>[1] = i
    OBVIOUS
  <2>6. d \in Seq(Inodes) /\ Len(d) = 1 + Len(links) /\ d[1] = i /\ Len(links) \in Nat
    BY <1>5, <2>4, <2>5, ConcatProperties
  <2>. QED
    BY <2>6, EmptySeq
<1>7. \A k \in 1 .. Len(d) - 1 : d[k + 1] = nodes[d[k]].link
  BY <1>4 DEF FollowsIn
<1>8. Increasing(d)
  BY <1>6, <1>7, ChainsIncrease
<1>9. nodes[d[Len(d)]].link = NoLink
  <2>. SUFFICES ASSUME nodes[d[Len(d)]].link # NoLink PROVE FALSE
    OBVIOUS
  <2>. DEFINE e == d[Len(d)]  l == nodes[e].link
  <2>1. Len(d) \in 1 .. Len(d) /\ e \in Inodes
    BY <1>6
  <2>2. l \in Inodes /\ e < l
    BY <2>1 DEF Rising
  <2>3. l \in ToSet(d)
    BY <1>4, <2>2 DEF FollowsIn, Last
  <2>4. PICK k \in 1 .. Len(d) : l = d[k]
    BY <1>6, <2>3 DEF ToSet
  <2>5. k = Len(d) \/ k < Len(d)
    BY <1>6
  <2>6. d[k] = e \/ d[k] < e
    BY <1>8, <2>1, <2>5 DEF Increasing
  <2>7. e \in Nat /\ l \in Nat
    BY <1>0, <2>1, <2>2
  <2>. HIDE DEF e, l
  <2>. QED
    BY <2>2, <2>4, <2>6, <2>7
<1>10. Ends(nodes, i, d) /\ Increasing(d)
  BY <1>6, <1>7, <1>8, <1>9 DEF Ends
<1>. QED
  BY <1>10 DEF d
-----------------------------------------------------------------------------
(* The links of the directory end, through crashes.                        *)

Slot == [name : {Stored[n] : n \in Names}, ino : Inodes]

\* What an inode block can hold.
Node ==
    {r \in [iid : Inodes, flag : {"DIR", "FILE", "LINK"}, entries : Seq(Slot),
            link : Inodes \cup {NoLink}] :
        /\ Len(r.entries) < PtrNum
        /\ r.link # NoLink => r.iid < r.link}

Writes ==
    {Superblock, ClearBitmap, FreshBitmap}
        \cup {MarkUsed(i) : i \in Inodes} \cup {PutInode(data) : data \in Node}

\* i is in use, or will be when the k-th write to come is made.
UsedBy(q, k, i) == i \notin free \/ \E m \in 1 .. k - 1 : q[m] = MarkUsed(i)

\* A write that may come as the k-th of q.
MayCome(q, k) ==
    \/ q[k] = Superblock
    \/ q[k] = ClearBitmap
    \/ /\ q[k] = FreshBitmap
       /\ inode = [i \in Inodes |-> Zeros]
       /\ \A m \in 1 .. k - 1 : q[m].block # "inode"
       /\ \A m \in k + 1 .. Len(q) : q[m] = PutInode(Zeros)
    \/ \E i \in Inodes :
         q[k] = MarkUsed(i) /\ \A j \in Inodes : j < i => UsedBy(q, k, j)
    \/ \E data \in Node :
         q[k] = PutInode(data) /\ (data.flag # "FILE" => UsedBy(q, k, data.iid))

Nodes   == inode \in [Inodes -> Node] /\ \A i \in Inodes : inode[i] = Zeros \/ inode[i].iid = i
InOrder == /\ free \in SUBSET Inodes /\ 0 \notin free
           /\ \A i \in Inodes \ free, j \in free : i < j
InUse   == \A i \in Inodes : inode[i].flag # "FILE" => inode[i].iid \notin free
Blank   == ~ touched => inode = [i \in Inodes |-> Zeros]
Asked   == ino \in Inodes /\ sought \in SUBSET Names
ToCome  == todo \in Seq(Writes) /\ \A k \in 1 .. Len(todo) : MayCome(todo, k)

LinksInv == Nodes /\ InOrder /\ InUse /\ Blank /\ Asked /\ ToCome

(* What the blocks of zeros and the numbers of the inodes are. *)
LEMMA Basics ==
  /\ Inodes \subseteq Nat /\ 0 \in Inodes /\ Root \in Inodes
  /\ NoLink \notin Inodes /\ NoLink \in Nat /\ NumInodes \in Nat \ {0}
  /\ \A i \in Nat : i < NumInodes => i \in Inodes
  /\ \A i \in Inodes : i < NumInodes
  /\ Zeros \in Node /\ Zeros.iid = 0 /\ Zeros.link = NoLink /\ Zeros.flag = "DIR"
<1>1. <<>> \in Seq(Slot) /\ Len(<<>>) = 0
  BY EmptySeq
<1>. QED
  BY <1>1, SfsAssumption DEF Inodes, Root, NoLink, Zeros, NewInode, Node

(* Which write a record is, its kind tells. *)
LEMMA WriteKinds ==
  /\ Superblock.block = "super"
  /\ ClearBitmap.block = "bitmap" /\ ClearBitmap.data = Inodes
  /\ FreshBitmap.block = "fresh_bitmap"
  /\ \A i : MarkUsed(i).block = "bitmap" /\ MarkUsed(i).data = {i}
  /\ \A data : PutInode(data).block = "inode" /\ PutInode(data).data = data
BY DEF Superblock, ClearBitmap, FreshBitmap, MarkUsed, PutInode

(* When a write has been made, those behind it may come as they might before,
   if it has freed no inode and moved no table under a formatting. *)
LEMMA RestMayCome ==
  ASSUME ToCome, todo # <<>>, todo' = Tail(todo),
         \A i \in Inodes : i \notin free => i \notin free',
         \A i \in Inodes : todo[1] = MarkUsed(i) => i \notin free',
         todo[1].block # "inode" => inode' = inode
  PROVE  ToCome'
<1>. DEFINE q == todo
            r == Tail(todo)
<1>0. /\ todo' = r /\ q \in Seq(Writes) /\ Len(q) \in Nat \ {0} /\ r \in Seq(Writes) /\ Len(r) = Len(q) - 1
      /\ \A k \in 1 .. Len(r) : r[k] = q[k + 1] /\ k + 1 \in 1 .. Len(q)
  BY EmptySeq, HeadTailProperties DEF ToCome
<1>. HIDE DEF q, r
<1>1. ASSUME NEW k \in 1 .. Len(r), NEW i \in Inodes, UsedBy(q, k + 1, i)
      PROVE  i \notin free' \/ \E m \in 1 .. k - 1 : r[m] = MarkUsed(i)
  <2>1. CASE i \notin free
    BY <2>1
  <2>2. CASE \E m \in 1 .. (k + 1) - 1 : q[m] = MarkUsed(i)
    <3>1. PICK m \in 1 .. (k + 1) - 1 : q[m] = MarkUsed(i)
      BY <2>2
    <3>2. CASE m = 1
      BY <3>1, <3>2 DEF q
    <3>3. CASE m # 1
      <4>1. m - 1 \in 1 .. k - 1 /\ m - 1 \in 1 .. Len(r) /\ (m - 1) + 1 = m
        BY <1>0, <3>3
      <4>2. r[m - 1] = MarkUsed(i)
        BY <1>0, <3>1, <4>1
      <4>. QED
        BY <4>1, <4>2
    <3>. QED
      BY <3>2, <3>3
  <2>. QED
    BY <1>1, <2>1, <2>2 DEF UsedBy
<1>1a. ASSUME NEW k \in 1 .. Len(r), NEW i \in Inodes, UsedBy(q, k + 1, i)
       PROVE  UsedBy(todo, k, i)'
  BY <1>0, <1>1, <1>1a DEF UsedBy
<1>2. ASSUME NEW k \in 1 .. Len(r) PROVE MayCome(todo, k)'
  <2>1. MayCome(q, k + 1) /\ r[k] = q[k + 1] /\ k \in Nat \ {0}
    BY <1>0 DEF ToCome, q
  <2>2. CASE q[k + 1] = Superblock \/ q[k + 1] = ClearBitmap
    BY <1>0, <2>1, <2>2 DEF MayCome
  <2>3. CASE /\ q[k + 1] = FreshBitmap
             /\ inode = [i \in Inodes |-> Zeros]
             /\ \A m \in 1 .. (k + 1) - 1 : q[m].block # "inode"
             /\ \A m \in (k + 1) + 1 .. Len(q) : q[m] = PutInode(Zeros)
    <3>1. 1 \in 1 .. (k + 1) - 1
      BY <2>1
    <3>2. inode' = [i \in Inodes |-> Zeros]
      BY <2>3, <3>1 DEF q
    <3>3. \A m \in 1 .. k - 1 : r[m].block # "inode"
      <4>. TAKE m \in 1 .. k - 1
      <4>1. m \in 1 .. Len(r) /\ m + 1 \in 1 .. (k + 1) - 1
        BY <1>0
      <4>. QED
        BY <1>0, <2>3, <4>1
    <3>4. \A m \in k + 1 .. Len(r) : r[m] = PutInode(Zeros)
      <4>. TAKE m \in k + 1 .. Len(r)
      <4>1. m \in 1 .. Len(r) /\ m + 1 \in (k + 1) + 1 .. Len(q)
        BY <1>0
      <4>. QED
        BY <1>0, <2>3, <4>1
    <3>. QED
      BY <1>0, <2>1, <2>3, <3>2, <3>3, <3>4 DEF MayCome
  <2>4. CASE \E i \in Inodes :
               q[k + 1] = MarkUsed(i) /\ \A j \in Inodes : j < i => UsedBy(q, k + 1, j)
    <3>1. PICK i \in Inodes :
             q[k + 1] = MarkUsed(i) /\ \A j \in Inodes : j < i => UsedBy(q, k + 1, j)
      BY <2>4
    <3>2. \A j \in Inodes : j < i => UsedBy(todo, k, j)'
      BY <1>1a, <3>1
    <3>3. todo'[k] = MarkUsed(i)
      BY <1>0, <2>1, <3>1
    <3>. QED
      BY <3>2, <3>3 DEF MayCome
  <2>5. CASE \E data \in Node :
               q[k + 1] = PutInode(data) /\ (data.flag # "FILE" => UsedBy(q, k + 1, data.iid))
    <3>1. \A data \in Node : data.iid \in Inodes
      BY DEF Node
    <3>2. PICK data \in Node :
             q[k + 1] = PutInode(data) /\ (data.flag # "FILE" => UsedBy(q, k + 1, data.iid))
      BY <2>5
    <3>3. data.flag # "FILE" => UsedBy(todo, k, data.iid)'
      BY <1>1a, <3>1, <3>2
    <3>4. todo'[k] = PutInode(data)
      BY <1>0, <2>1, <3>2
    <3>. QED
      BY <3>3, <3>4 DEF MayCome
  <2>. QED
    BY <2>1, <2>2, <2>3, <2>4, <2>5 DEF MayCome
<1>. QED
  BY <1>0, <1>2 DEF ToCome

(* Each block write of a call keeps the invariant. *)
LEMMA WriteBlockKeepsLinks ==
  ASSUME LinksInv, WriteBlock
  PROVE  LinksInv'
<1>. DEFINE w == todo[1]
<1>0. /\ Nodes /\ InOrder /\ InUse /\ Blank /\ Asked /\ ToCome
      /\ todo # <<>> /\ todo' = Tail(todo) /\ touched' = TRUE
      /\ UNCHANGED <<ino, sought>>
  BY DEF LinksInv, WriteBlock, Write, client
<1>1. MayCome(todo, 1)
  <2>1. 1 \in 1 .. Len(todo)
    BY <1>0, EmptySeq DEF ToCome
  <2>. QED
    BY <1>0, <2>1 DEF ToCome
<1>2. \A i : UsedBy(todo, 1, i) <=> i \notin free
  BY DEF UsedBy
<1>3. Head(todo) = w
  BY <1>0 DEF ToCome
<1>. HIDE DEF w
<1>4. /\ inode' = IF w.block = "inode" THEN [inode EXCEPT ![w.data.iid] = w.data] ELSE inode
      /\ free' = CASE w.block = "bitmap" -> free \ w.data
                   [] w.block = "fresh_bitmap" -> Inodes \ {Root}
                   [] OTHER -> free
  BY <1>3 DEF WriteBlock, Write
<1>5. /\ w.block = "bitmap" => \A i \in Inodes : w # MarkUsed(i) \/ w.data = {i}
      /\ Asked' /\ Blank'
  BY <1>0, WriteKinds DEF Asked, Blank
<1>6. ASSUME UNCHANGED <<inode, free>>, \A i \in Inodes : w # MarkUsed(i) PROVE LinksInv'
  <2>1. ToCome'
    BY <1>0, <1>6, RestMayCome DEF w
  <2>. QED
    BY <1>0, <1>5, <1>6, <2>1 DEF LinksInv, Nodes, InOrder, InUse
<1>7. CASE w = Superblock
  BY <1>4, <1>6, <1>7, WriteKinds
<1>8. ASSUME NEW D \in SUBSET Inodes, w.block = "bitmap", w.data = D,
             \A i \in Inodes \ D, j \in D : j \in free => \A k \in free \ D : j < k,
             \A i \in Inodes : w = MarkUsed(i) => i \in D
      PROVE  LinksInv'
  <2>1. inode' = inode /\ free' = free \ D
    BY <1>4, <1>8
  <2>2. ToCome'
    <3>1. /\ \A i \in Inodes : i \notin free => i \notin free'
          /\ \A i \in Inodes : todo[1] = MarkUsed(i) => i \notin free'
      BY <1>8, <2>1 DEF w
    <3>. QED
      BY <1>0, <2>1, <3>1, RestMayCome
  <2>3. InOrder'
    <3>1. free' \in SUBSET Inodes /\ 0 \notin free'
      BY <1>0, <2>1 DEF InOrder
    <3>2. ASSUME NEW i \in Inodes \ free', NEW j \in free' PROVE i < j
      <4>1. CASE i \notin free
        BY <1>0, <2>1, <3>2, <4>1 DEF InOrder
      <4>2. CASE i \in free
        <5>1. i \in D /\ j \in free \ D /\ j \in Inodes \ D
          BY <1>0, <2>1, <3>2, <4>2 DEF InOrder
        <5>. QED
          BY <1>8, <4>2, <5>1
      <4>. QED
        BY <4>1, <4>2
    <3>. QED
      BY <3>1, <3>2 DEF InOrder
  <2>. QED
    BY <1>0, <1>5, <2>1, <2>2, <2>3 DEF LinksInv, Nodes, InUse
<1>9. CASE w = ClearBitmap
  <2>1. free \subseteq Inodes
    BY <1>0 DEF InOrder
  <2>. QED
    BY <1>8, <1>9, <2>1, WriteKinds
<1>10. CASE \E i \in Inodes :
              w = MarkUsed(i) /\ \A j \in Inodes : j < i => UsedBy(todo, 1, j)
  <2>1. PICK i \in Inodes : w = MarkUsed(i) /\ \A j \in Inodes : j < i => j \notin free
    BY <1>2, <1>10
  <2>2. \A k \in free \ {i} : i < k
    <3>1. \A k \in free \ {i} : k \in Nat /\ i \in Nat /\ k # i /\ ~ (k < i)
      BY <1>0, <2>1, Basics DEF InOrder
    <3>. QED
      BY <3>1
  <2>3. ASSUME NEW k \in Inodes, w = MarkUsed(k) PROVE k \in {i}
    <3>1. MarkUsed(k).data = {k} /\ MarkUsed(i).data = {i} /\ MarkUsed(k) = MarkUsed(i)
      BY <2>1, <2>3, WriteKinds
    <3>. QED
      BY <3>1
  <2>4. w.block = "bitmap" /\ w.data = {i}
    BY <2>1, WriteKinds
  <2>. QED
    BY <1>8, <2>2, <2>3, <2>4
<1>11. CASE /\ w = FreshBitmap /\ inode = [i \in Inodes |-> Zeros]
            /\ \A m \in 2 .. Len(todo) : todo[m] = PutInode(Zeros)
  <2>1. inode' = inode /\ free' = Inodes \ {0}
    BY <1>4, <1>11, WriteKinds DEF Root
  <2>2. InOrder'
    <3>1. \A j \in free' : 0 < j
      BY <2>1, Basics
    <3>. QED
      BY <2>1, <3>1 DEF InOrder
  <2>3. InUse' /\ Nodes'
    BY <1>0, <1>11, <2>1, Basics DEF InUse, Nodes
  <2>4. ToCome'
    <3>1. /\ todo' \in Seq(Writes) /\ \A k \in 1 .. Len(todo') : todo'[k] = PutInode(Zeros)
      <4>1. /\ Tail(todo) \in Seq(Writes) /\ Len(Tail(todo)) = Len(todo) - 1
            /\ \A k \in 1 .. Len(Tail(todo)) : Tail(todo)[k] = todo[k + 1]
            /\ Len(todo) \in Nat
        BY <1>0, HeadTailProperties DEF ToCome
      <4>2. \A k \in 1 .. Len(todo) - 1 : todo[k + 1] = PutInode(Zeros)
        BY <1>11, <4>1
      <4>. QED
        BY <1>0, <4>1, <4>2
    <3>2. \A k : UsedBy(todo, k, 0)'
      BY <2>1 DEF UsedBy
    <3>3. \A k \in 1 .. Len(todo') : MayCome(todo, k)'
      BY <3>1, <3>2, Basics DEF MayCome
    <3>. QED
      BY <3>1, <3>3 DEF ToCome
  <2>. QED
    BY <1>5, <2>2, <2>3, <2>4 DEF LinksInv
<1>12. CASE \E data \in Node :
              w = PutInode(data) /\ (data.flag # "FILE" => UsedBy(todo, 1, data.iid))
  <2>1. PICK data \in Node :
           w = PutInode(data) /\ (data.flag # "FILE" => data.iid \notin free)
    BY <1>2, <1>12
  <2>2. w.block = "inode" /\ w.data = data /\ data.iid \in Inodes
        /\ \A i \in Inodes : todo[1] # MarkUsed(i)
    BY <2>1, WriteKinds DEF Node, w
  <2>3. inode' = [inode EXCEPT ![data.iid] = data] /\ free' = free
    BY <1>4, <2>2
  <2>4. Nodes' /\ InUse' /\ InOrder'
    BY <1>0, <2>1, <2>2, <2>3 DEF Nodes, InUse, InOrder
  <2>5. ToCome'
    BY <1>0, <2>2, <2>3, RestMayCome DEF w
  <2>. QED
    BY <1>5, <2>4, <2>5 DEF LinksInv
<1>13. CASE w = FreshBitmap /\ inode = [i \in Inodes |-> Zeros]
            /\ \A m \in 1 + 1 .. Len(todo) : todo[m] = PutInode(Zeros)
  BY <1>11, <1>13
<1>. QED
  BY <1>1, <1>7, <1>9, <1>10, <1>12, <1>13 DEF MayCome, w

(* findFreeInode takes the first free inode. *)
LEMMA FirstFree ==
  ASSUME NEW S \in SUBSET Inodes, S # {}
  PROVE  findFreeInode(S) \in S /\ \A i \in S : findFreeInode(S) <= i
<1>1. S \in SUBSET Nat
  BY Basics
<1>2. PICK n \in S : \A m \in S : ~ (m < n)
  BY <1>1, LeastNumber
<1>3. \A m \in S : n <= m
  BY <1>1, <1>2
<1>4. Min(S) \in S /\ \A m \in S : Min(S) <= m
  BY <1>3 DEF Min
<1>. QED
  BY <1>4 DEF findFreeInode

(* A client that creates a file finds two free inodes. *)
LEMMA TwoFree ==
  ASSUME Reserve >= 2, free \in SUBSET Inodes, Cardinality(free) >= Reserve
  PROVE  \A i : free \ {i} # {}
<1>. TAKE i
<1>1. IsFiniteSet(free) /\ Cardinality(free) \in Nat
  <2>1. IsFiniteSet(Inodes)
    BY FS_Interval, SfsAssumption DEF Inodes
  <2>. QED
    BY <2>1, FS_Subset, FS_CardinalityType
<1>2. Cardinality(free \ {i}) >= 1 /\ IsFiniteSet(free \ {i})
  BY <1>1, FS_RemoveElement, SfsAssumption
<1>. QED
  BY <1>2, FS_EmptySet

(* Links that rise, from what the blocks hold. *)
LEMMA NodesRise == ASSUME Nodes PROVE Rising(inode)
<1>. SUFFICES ASSUME NEW i \in Inodes, inode[i].link # NoLink
              PROVE  inode[i].link \in Inodes /\ i < inode[i].link
  BY DEF Rising
<1>1. inode[i] \in Node /\ inode[i].iid = i
  BY Basics DEF Nodes
<1>. QED
  BY <1>1 DEF Node

(* The writes of AddEntry, given what it takes. *)
LEMMA AddEntryComes ==
  ASSUME InOrder, NEW dir \in Node, NEW name \in Names, dir.flag # "FILE",
         Len(dir.entries) < PtrNum - 1, free \ {dir.iid} # {},
         \A j \in Inodes : j < dir.iid => j \notin free
  PROVE  LET W == AddEntry(dir, name)
         IN  /\ W \in Seq(Writes) /\ Len(W) = 4
             /\ \A k \in 1 .. 4 : MayCome(W, k) /\ W[k].block # "fresh_bitmap"
             /\ W[1] = MarkUsed(dir.iid)
<1>. DEFINE child == findFreeInode(free \ {dir.iid})
            entry == [name |-> Stored[name], ino |-> child]
            new   == [dir EXCEPT !.entries = Append(@, entry)]
            W     == AddEntry(dir, name)
<1>1. child \in free /\ child \in Inodes /\ child # dir.iid /\ dir.iid \in Inodes
      /\ \A i \in free \ {dir.iid} : child <= i
  <2>1. free \ {dir.iid} \in SUBSET Inodes /\ dir.iid \in Inodes
    BY DEF InOrder, Node
  <2>2. child \in free \ {dir.iid} /\ \A i \in free \ {dir.iid} : child <= i
    BY <2>1, FirstFree
  <2>. QED
    BY <2>1, <2>2
<1>. HIDE DEF child
<1>2. entry \in Slot
  BY <1>1 DEF Slot
<1>. HIDE DEF entry
<1>3. new \in Node /\ new.iid = dir.iid /\ new.flag = dir.flag
  <2>1. dir.entries \in Seq(Slot) /\ PtrNum \in Nat
    BY SfsAssumption DEF Node
  <2>2. Append(dir.entries, entry) \in Seq(Slot)
        /\ Len(Append(dir.entries, entry)) = Len(dir.entries) + 1
        /\ Len(dir.entries) \in Nat
    BY <1>2, <2>1
  <2>. DEFINE es == Append(dir.entries, entry)
  <2>3. new = [dir EXCEPT !.entries = es]
    OBVIOUS
  <2>. HIDE DEF es, new
  <2>4. es \in Seq(Slot) /\ Len(es) < PtrNum
    BY <2>1, <2>2 DEF es
  <2>. QED
    BY <2>3, <2>4 DEF Node
<1>. HIDE DEF new
<1>4. NewInode(child, "FILE") \in Node /\ NewInode(child, "FILE").flag = "FILE"
  <2>1. <<>> \in Seq(Slot) /\ Len(<<>>) = 0 /\ 0 < PtrNum
    BY EmptySeq, SfsAssumption
  <2>. QED
    BY <1>1, <2>1 DEF NewInode, Node
<1>5. W = <<MarkUsed(dir.iid), PutInode(new), PutInode(NewInode(child, "FILE")), MarkUsed(child)>>
  BY DEF AddEntry, new, entry, child
<1>. DEFINE file == NewInode(child, "FILE")
<1>. HIDE DEF W, file
<1>6. /\ W \in Seq(Writes) /\ Len(W) = 4
      /\ W[1] = MarkUsed(dir.iid) /\ W[2] = PutInode(new)
      /\ W[3] = PutInode(file) /\ W[4] = MarkUsed(child)
  <2>1. /\ MarkUsed(dir.iid) \in Writes /\ PutInode(new) \in Writes
        /\ PutInode(file) \in Writes /\ MarkUsed(child) \in Writes
    BY <1>1, <1>3, <1>4 DEF Writes, file
  <2>. QED
    BY <1>5, <2>1 DEF file
<1>7. MayCome(W, 1)
  BY <1>1, <1>6 DEF MayCome, UsedBy
<1>8. MayCome(W, 2)
  <2>1. UsedBy(W, 2, dir.iid)
    <3>1. 1 \in 1 .. 2 - 1
      OBVIOUS
    <3>. QED
      BY <1>6, <3>1 DEF UsedBy
  <2>. QED
    BY <1>3, <1>6, <2>1 DEF MayCome
<1>9. MayCome(W, 3)
  BY <1>4, <1>6 DEF MayCome, file
<1>10. MayCome(W, 4)
  <2>1. ASSUME NEW j \in Inodes, j < child PROVE UsedBy(W, 4, j)
    <3>1. j \notin free \ {dir.iid}
      BY <1>1, <2>1, Basics
    <3>2. 1 \in 1 .. 4 - 1
      OBVIOUS
    <3>. QED
      BY <1>6, <3>1, <3>2 DEF UsedBy
  <2>. QED
    BY <1>1, <1>6, <2>1 DEF MayCome
<1>11. \A k \in 1 .. 4 : k = 1 \/ k = 2 \/ k = 3 \/ k = 4
  OBVIOUS
<1>12. \A k \in 1 .. 4 : MayCome(W, k) /\ W[k].block # "fresh_bitmap"
  <2>1. /\ W[1].block # "fresh_bitmap" /\ W[2].block # "fresh_bitmap"
        /\ W[3].block # "fresh_bitmap" /\ W[4].block # "fresh_bitmap"
    BY <1>6, WriteKinds
  <2>. QED
    BY <1>7, <1>8, <1>9, <1>10, <1>11, <2>1
<1>. QED
  BY <1>6, <1>12 DEF W

(* Writes that may come, followed by inodes that are in use by then. *)
LEMMA JoinedMayCome ==
  ASSUME NEW A \in Seq(Writes), NEW B \in Seq(Writes),
         \A k \in 1 .. Len(A) : MayCome(A, k) /\ A[k].block # "fresh_bitmap",
         \A k \in 1 .. Len(B) : \E data \in Node :
            /\ B[k] = PutInode(data)
            /\ data.flag # "FILE" =>
                 data.iid \notin free \/ \E m \in 1 .. Len(A) : A[m] = MarkUsed(data.iid)
  PROVE  /\ A \o B \in Seq(Writes)
         /\ Len(A \o B) = Len(A) + Len(B)
         /\ \A k \in 1 .. Len(A \o B) : MayCome(A \o B, k) /\ (A \o B)[k].block # "fresh_bitmap"
<1>. DEFINE q == A \o B
<1>1. /\ q \in Seq(Writes) /\ Len(q) = Len(A) + Len(B)
      /\ \A k \in 1 .. Len(A) + Len(B) : q[k] = IF k <= Len(A) THEN A[k] ELSE B[k - Len(A)]
      /\ Len(A) \in Nat /\ Len(B) \in Nat
  BY ConcatProperties
<1>. HIDE DEF q
<1>2. \A k \in 1 .. Len(A) : q[k] = A[k]
  BY <1>1
<1>3. ASSUME NEW k \in 1 .. Len(A) PROVE MayCome(q, k) /\ q[k].block # "fresh_bitmap"
  <2>1. MayCome(A, k) /\ A[k].block # "fresh_bitmap" /\ q[k] = A[k] /\ A[k] # FreshBitmap
    BY <1>2, WriteKinds
  <2>2. ASSUME NEW i, UsedBy(A, k, i) PROVE UsedBy(q, k, i)
    <3>1. \A m \in 1 .. k - 1 : m \in 1 .. Len(A)
      BY <1>1
    <3>. QED
      BY <1>2, <2>2, <3>1 DEF UsedBy
  <2>3. CASE q[k] = Superblock \/ q[k] = ClearBitmap
    BY <2>1, <2>3 DEF MayCome
  <2>4. CASE \E i \in Inodes :
               A[k] = MarkUsed(i) /\ \A j \in Inodes : j < i => UsedBy(A, k, j)
    <3>1. \E i \in Inodes : q[k] = MarkUsed(i) /\ \A j \in Inodes : j < i => UsedBy(q, k, j)
      BY <2>1, <2>2, <2>4
    <3>. QED
      BY <2>1, <3>1 DEF MayCome
  <2>5. CASE \E data \in Node :
               A[k] = PutInode(data) /\ (data.flag # "FILE" => UsedBy(A, k, data.iid))
    <3>1. \E data \in Node :
             q[k] = PutInode(data) /\ (data.flag # "FILE" => UsedBy(q, k, data.iid))
      BY <2>1, <2>2, <2>5
    <3>. QED
      BY <2>1, <3>1 DEF MayCome
  <2>. QED
    BY <2>1, <2>3, <2>4, <2>5 DEF MayCome
<1>4. ASSUME NEW k \in 1 .. Len(q), Len(A) < k PROVE MayCome(q, k) /\ q[k].block # "fresh_bitmap"
  <2>1. k - Len(A) \in 1 .. Len(B) /\ q[k] = B[k - Len(A)]
    BY <1>1, <1>4
  <2>2. PICK data \in Node :
            /\ q[k] = PutInode(data)
            /\ data.flag # "FILE" =>
                 data.iid \notin free \/ \E m \in 1 .. Len(A) : A[m] = MarkUsed(data.iid)
    BY <2>1
  <2>3. data.flag # "FILE" => UsedBy(q, k, data.iid)
    <3>1. \A m \in 1 .. Len(A) : m \in 1 .. k - 1
      BY <1>1, <1>4
    <3>. QED
      BY <1>2, <2>2, <3>1 DEF UsedBy
  <2>. QED
    BY <2>2, <2>3, WriteKinds DEF MayCome
<1>5. \A k \in 1 .. Len(q) : k \in 1 .. Len(A) \/ Len(A) < k
  BY <1>1
<1>. QED
  BY <1>1, <1>3, <1>4, <1>5 DEF q

(* The writes of AddLink: a directory that is in use is linked to the first
   free inode, which comes after it. *)
LEMMA AddLinkComes ==
  ASSUME Reserve >= 2, InOrder, Cardinality(free) >= Reserve,
         NEW dir \in Node, NEW name \in Names, dir.flag # "FILE", dir.iid \notin free
  PROVE  LET W == AddLink(dir, name)
         IN  /\ W \in Seq(Writes) /\ Len(W) \in Nat
             /\ \A k \in 1 .. Len(W) : MayCome(W, k) /\ W[k].block # "fresh_bitmap"
<1>. DEFINE n == findFreeInode(free)
            new == NewInode(n, "LINK")
            linked == [dir EXCEPT !.link = n]
            A == AddEntry(new, name)
            B == <<PutInode(linked)>>
<1>0. free \in SUBSET Inodes /\ dir.iid \in Inodes
  BY DEF InOrder, Node
<1>1. n \in free /\ n \in Inodes /\ \A i \in free : n <= i
  <2>1. free # {}
    BY <1>0, TwoFree
  <2>. QED
    BY <1>0, <2>1, FirstFree
<1>2. dir.iid < n
  BY <1>0, <1>1 DEF InOrder
<1>. HIDE DEF n
<1>3. new \in Node /\ new.iid = n /\ new.flag = "LINK" /\ Len(new.entries) < PtrNum - 1
  <2>1. <<>> \in Seq(Slot) /\ Len(<<>>) = 0 /\ 0 < PtrNum - 1 /\ 0 < PtrNum
    BY EmptySeq, SfsAssumption
  <2>. QED
    BY <1>1, <2>1 DEF NewInode, Node
<1>4. linked \in Node /\ linked.iid = dir.iid
  BY <1>1, <1>2 DEF Node
<1>5. AddLink(dir, name) = A \o B
  BY <1>3 DEF AddLink, n, NewInode
<1>. HIDE DEF new, linked
<1>6. /\ A \in Seq(Writes) /\ Len(A) = 4
      /\ \A k \in 1 .. 4 : MayCome(A, k) /\ A[k].block # "fresh_bitmap"
  <2>1. free \ {n} # {}
    BY <1>0, TwoFree
  <2>2. \A j \in Inodes : j < n => j \notin free
    BY <1>1, Basics
  <2>. QED
    BY <1>3, <2>1, <2>2, AddEntryComes
<1>. HIDE DEF A
<1>7. B \in Seq(Writes) /\ Len(B) = 1 /\ B[1] = PutInode(linked)
  BY <1>4 DEF Writes
<1>8. \A k \in 1 .. Len(B) : \E data \in Node :
            /\ B[k] = PutInode(data)
            /\ data.flag # "FILE" =>
                 data.iid \notin free \/ \E m \in 1 .. Len(A) : A[m] = MarkUsed(data.iid)
  BY <1>4, <1>7
<1>. HIDE DEF B
<1>9. /\ A \o B \in Seq(Writes)
      /\ Len(A \o B) = Len(A) + Len(B)
      /\ \A k \in 1 .. Len(A \o B) : MayCome(A \o B, k) /\ (A \o B)[k].block # "fresh_bitmap"
  BY <1>6, <1>7, <1>8, JoinedMayCome
<1>. QED
  BY <1>5, <1>6, <1>7, <1>9

(* LinksFrom, where the invariant holds. *)
LEMMA LinksLead ==
  ASSUME Nodes, NEW i \in Inodes
  PROVE  Ends(inode, i, LinksFrom(i)) /\ Increasing(LinksFrom(i))
<1>1. LinksFrom(i) = ChainIn(inode, i)
  BY DEF LinksFrom, ChainIn, FollowsLinks, FollowsIn, Linked, LinkedIn
<1>. QED
  BY <1>1, NodesRise, TheChain

(* What create_inode_real writes back on its way out is in use. *)
LEMMA BackComes ==
  ASSUME Nodes, InUse, NEW c \in Seq(Inodes), c # <<>>
  PROVE  LET back == [k \in 1 .. Len(c) - 1 |-> PutInode(inode[c[Len(c) - k]])]
         IN  /\ back \in Seq(Writes) /\ Len(back) = Len(c) - 1
             /\ \A k \in 1 .. Len(back) : \E data \in Node :
                   /\ back[k] = PutInode(data)
                   /\ data.flag # "FILE" => data.iid \notin free
<1>. DEFINE back == [k \in 1 .. Len(c) - 1 |-> PutInode(inode[c[Len(c) - k]])]
<1>1. Len(c) \in Nat \ {0}
  BY EmptySeq
<1>2. ASSUME NEW k \in 1 .. Len(c) - 1
      PROVE  /\ inode[c[Len(c) - k]] \in Node
             /\ inode[c[Len(c) - k]].flag # "FILE" => inode[c[Len(c) - k]].iid \notin free
  <2>1. Len(c) - k \in 1 .. Len(c)
    BY <1>1
  <2>2. c[Len(c) - k] \in Inodes
    BY <2>1
  <2>. QED
    BY <2>2 DEF Nodes, InUse
<1>3. \A k \in 1 .. Len(c) - 1 : PutInode(inode[c[Len(c) - k]]) \in Writes
  BY <1>2 DEF Writes
<1>4. back \in Seq(Writes) /\ Len(back) = Len(c) - 1
  BY <1>1, <1>3
<1>. QED
  BY <1>2, <1>4

(* The writes of a create. *)
LEMMA CreateComes ==
  ASSUME Reserve >= 2, Nodes, InOrder, InUse, NEW i \in Inodes, NEW name \in Names,
         Cardinality(free) >= Reserve
  PROVE  LET W == create_inode_real(i, name)
         IN  W \in Seq(Writes) /\ \A k \in 1 .. Len(W) : MayCome(W, k)
<1>. DEFINE c == LinksFrom(i)
            dir == inode[Last(c)]
            back == [k \in 1 .. Len(c) - 1 |-> PutInode(inode[c[Len(c) - k]])]
            A == CASE dir.flag = "FILE" -> <<>>
                   [] dir.flag # "FILE" /\ Len(dir.entries) = PtrNum - 1 -> AddLink(dir, name)
                   [] dir.flag # "FILE" /\ Len(dir.entries) < PtrNum - 1 -> AddEntry(dir, name)
<1>1. c \in Seq(Inodes) /\ c # <<>> /\ Last(c) \in Inodes
  <2>1. c \in Seq(Inodes) /\ c # <<>>
    BY LinksLead DEF Ends
  <2>2. Len(c) \in 1 .. Len(c)
    BY <2>1, EmptySeq
  <2>. QED
    BY <2>1, <2>2, ElementOfSeq DEF Last
<1>2. create_inode_real(i, name) = A \o back
  BY DEF create_inode_real
<1>3. /\ back \in Seq(Writes) /\ Len(back) = Len(c) - 1
      /\ \A k \in 1 .. Len(back) : \E data \in Node :
            back[k] = PutInode(data) /\ (data.flag # "FILE" => data.iid \notin free)
  BY <1>1, BackComes
<1>4. /\ dir \in Node /\ dir.iid \in Inodes /\ (dir.flag # "FILE" => dir.iid \notin free)
      /\ Len(dir.entries) \in Nat /\ PtrNum \in Nat /\ Len(dir.entries) < PtrNum
  <2>1. dir \in Node /\ (dir.flag # "FILE" => dir.iid \notin free)
    BY <1>1 DEF Nodes, InUse
  <2>. HIDE DEF dir
  <2>. QED
    BY <2>1, SfsAssumption DEF Node
<1>. HIDE DEF c, dir, back
<1>5. A \in Seq(Writes) /\ \A k \in 1 .. Len(A) : MayCome(A, k) /\ A[k].block # "fresh_bitmap"
  <2>1. CASE dir.flag = "FILE"
    <3>1. A = <<>>
      BY <2>1
    <3>2. <<>> \in Seq(Writes) /\ \A k \in 1 .. Len(<<>>) : FALSE
      BY EmptySeq
    <3>. HIDE DEF A
    <3>. QED
      BY <3>1, <3>2
  <2>2. CASE dir.flag # "FILE" /\ Len(dir.entries) = PtrNum - 1
    <3>1. A = AddLink(dir, name)
      BY <1>4, <2>2
    <3>. HIDE DEF A
    <3>. QED
      BY <1>4, <2>2, <3>1, AddLinkComes
  <2>3. CASE dir.flag # "FILE" /\ Len(dir.entries) < PtrNum - 1
    <3>1. A = AddEntry(dir, name)
      BY <1>4, <2>3
    <3>2. free \ {dir.iid} # {} /\ \A j \in Inodes : j < dir.iid => j \notin free
      <4>1. \A j \in free : dir.iid < j /\ j \in Nat /\ dir.iid \in Nat
        BY <1>4, <2>3, Basics DEF InOrder
      <4>. QED
        BY <4>1, TwoFree DEF InOrder
    <3>. HIDE DEF A
    <3>. QED
      BY <1>4, <2>3, <3>1, <3>2, AddEntryComes
  <2>. QED
    BY <1>4, <2>1, <2>2, <2>3
<1>. HIDE DEF A
<1>. QED
  BY <1>2, <1>3, <1>5, JoinedMayCome

(* What a path is looked up to is an inode, or nothing. *)
LEMMA SignIsInode ==
  ASSUME Nodes, ino \in Inodes, NEW name
  PROVE  LET sign == path_ino_mapping(name)
         IN  sign \in Inodes \cup {Missing} /\ (~ NotFound(sign) => sign \in Inodes)
<1>1. CASE Matches(name) = {}
  BY <1>1, SfsAssumption DEF path_ino_mapping, Missing, NotFound
<1>2. CASE Matches(name) # {}
  <2>1. inode[ino].entries \in Seq(Slot)
    BY DEF Nodes, Node
  <2>2. Matches(name) \in SUBSET Nat /\ Matches(name) \subseteq DOMAIN inode[ino].entries
    BY <2>1 DEF Matches
  <2>3. PICK n \in Matches(name) : \A m \in Matches(name) : ~ (m < n)
    BY <1>2, <2>2, LeastNumber
  <2>4. \A m \in Matches(name) : n <= m
    BY <2>2, <2>3
  <2>5. Min(Matches(name)) \in Matches(name)
    BY <2>4 DEF Min
  <2>6. inode[ino].entries[Min(Matches(name))] \in Slot
    BY <2>1, <2>2, <2>5
  <2>. QED
    BY <1>2, <2>6 DEF path_ino_mapping, Slot
<1>. QED
  BY <1>1, <1>2

(* The invariant holds on an empty disk. *)
LEMMA LinksInvInit == Init => LinksInv
<1>. SUFFICES ASSUME Init PROVE LinksInv
  OBVIOUS
<1>1. Nodes /\ InOrder /\ InUse /\ Blank /\ Asked
  BY Basics DEF Init, Nodes, InOrder, InUse, Blank, Asked
<1>2. todo = <<>> /\ <<>> \in Seq(Writes) /\ Len(<<>>) = 0
  BY EmptySeq DEF Init
<1>3. ToCome
  BY <1>2 DEF ToCome
<1>. QED
  BY <1>1, <1>3 DEF LinksInv

(* The writes of a formatting may come on a disk without bytes. *)
LEMMA FormatComes ==
  ASSUME InOrder, inode = [i \in Inodes |-> Zeros]
  PROVE  Format \in Seq(Writes) /\ \A k \in 1 .. Len(Format) : MayCome(Format, k)
<1>1. /\ Superblock \in Writes /\ ClearBitmap \in Writes
      /\ FreshBitmap \in Writes /\ PutInode(Zeros) \in Writes
  BY Basics DEF Writes
<1>2. /\ Format \in Seq(Writes) /\ Len(Format) = 4
      /\ Format[1] = Superblock /\ Format[2] = ClearBitmap
      /\ Format[3] = FreshBitmap /\ Format[4] = PutInode(Zeros)
  BY <1>1 DEF Format
<1>3. MayCome(Format, 1) /\ MayCome(Format, 2)
  BY <1>2 DEF MayCome
<1>4. MayCome(Format, 3)
  <2>1. \A m \in 1 .. 3 - 1 : m = 1 \/ m = 2
    OBVIOUS
  <2>2. \A m \in 3 + 1 .. 4 : m = 4
    OBVIOUS
  <2>3. \A m \in 1 .. 3 - 1 : Format[m].block # "inode"
    BY <1>2, <2>1, WriteKinds
  <2>4. \A m \in 3 + 1 .. Len(Format) : Format[m] = PutInode(Zeros)
    BY <1>2, <2>2
  <2>. QED
    BY <1>2, <2>3, <2>4 DEF MayCome
<1>5. MayCome(Format, 4)
  BY <1>2, Basics DEF MayCome, UsedBy, InOrder
<1>6. \A k \in 1 .. 4 : k = 1 \/ k = 2 \/ k = 3 \/ k = 4
  OBVIOUS
<1>7. \A k \in 1 .. 4 : MayCome(Format, k)
  BY <1>3, <1>4, <1>5, <1>6
<1>. QED
  BY <1>2, <1>7

(* Every step keeps the invariant, a crash too. *)
LEMMA LinksInvStep ==
  ASSUME Reserve >= 2, LinksInv, [Next]_vars
  PROVE  LinksInv'
<1>0. Nodes /\ InOrder /\ InUse /\ Blank /\ Asked /\ ToCome
  BY DEF LinksInv
<1>1. ASSUME UNCHANGED disk, ino' \in Inodes, sought' \in SUBSET Names,
             todo' \in Seq(Writes), \A k \in 1 .. Len(todo') : MayCome(todo', k)
      PROVE  LinksInv'
  <2>1. Nodes' /\ InOrder' /\ InUse' /\ Blank' /\ Asked'
    BY <1>0, <1>1 DEF disk, Nodes, InOrder, InUse, Blank, Asked
  <2>2. UNCHANGED <<inode, free>>
    BY <1>1 DEF disk
  <2>3. ASSUME NEW k \in 1 .. Len(todo') PROVE MayCome(todo, k)'
    <3>1. MayCome(todo', k)
      BY <1>1
    <3>. QED
      BY <2>2, <3>1 DEF MayCome, UsedBy
  <2>. QED
    BY <1>1, <2>1, <2>3 DEF LinksInv, ToCome
<1>2. ASSUME UNCHANGED <<disk, todo>>, ino' \in Inodes, sought' \in SUBSET Names
      PROVE  LinksInv'
  BY <1>0, <1>1, <1>2 DEF ToCome
<1>3. <<>> \in Seq(Writes) /\ Len(<<>>) = 0
  BY EmptySeq
<1>4. ino \in Inodes /\ sought \in SUBSET Names /\ 0 \in Inodes
  BY <1>0, Basics DEF Asked
<1>5. CASE sfs_init
  <2>1. UNCHANGED disk /\ ino' = 0 /\ sought' = sought
        /\ todo' = IF touched THEN <<>> ELSE Format
    BY <1>5 DEF sfs_init, client
  <2>2. CASE touched
    <3>1. todo' = <<>> /\ \A k \in 1 .. 0 : FALSE
      BY <2>1, <2>2
    <3>. QED
      BY <1>1, <1>3, <1>4, <2>1, <3>1
  <2>3. CASE ~ touched
    <3>1. todo' = Format
      BY <2>1, <2>3
    <3>2. Format \in Seq(Writes) /\ \A k \in 1 .. Len(Format) : MayCome(Format, k)
      BY <1>0, <2>3, FormatComes DEF Blank
    <3>. HIDE DEF Format
    <3>. QED
      BY <1>1, <1>4, <2>1, <3>1, <3>2
  <2>. QED
    BY <2>2, <2>3
<1>6. CASE sfs_destroy
  BY <1>2, <1>4, <1>6 DEF sfs_destroy
<1>7. CASE WriteBlock
  BY <1>7, WriteBlockKeepsLinks
<1>8. CASE Crash
  <2>1. UNCHANGED <<disk, ino>> /\ todo' = <<>> /\ sought' = {}
    BY <1>8 DEF Crash
  <2>2. \A k \in 1 .. 0 : FALSE
    OBVIOUS
  <2>. QED
    BY <1>1, <1>3, <1>4, <2>1, <2>2
<1>9. CASE GetattrRoot
  BY <1>2, <1>4, <1>9 DEF GetattrRoot, client
<1>10. CASE LookupCreated
  <2>. DEFINE name == CHOOSE n \in opening : TRUE
              sign == path_ino_mapping(name)
  <2>1. ~ NotFound(sign) => sign \in Inodes
    BY <1>0, <1>4, SignIsInode
  <2>2. /\ UNCHANGED <<disk, todo, sought>>
        /\ NotFound(sign) => ino' = 0
        /\ ~ NotFound(sign) => ino' = sign
    BY <1>10 DEF LookupCreated
  <2>. QED
    BY <1>2, <1>4, <2>1, <2>2
<1>11. CASE sfs_release
  BY <1>2, <1>4, <1>11 DEF sfs_release
<1>12. ASSUME NEW name \in Names, sfs_getattr(name)
       PROVE  LinksInv'
  <2>. DEFINE sign == path_ino_mapping(name)
  <2>1. ~ NotFound(sign) => sign \in Inodes
    BY <1>0, <1>4, SignIsInode
  <2>2. /\ UNCHANGED <<disk, todo>> /\ sought' \in SUBSET Names
        /\ NotFound(sign) => ino' = ino
        /\ ~ NotFound(sign) => ino' = sign
    BY <1>4, <1>12 DEF sfs_getattr
  <2>. QED
    BY <1>2, <1>4, <2>1, <2>2
<1>13. ASSUME NEW name \in Names, sfs_create(name)
       PROVE  LinksInv'
  <2>1. /\ UNCHANGED <<disk, ino>> /\ sought' \in SUBSET Names
        /\ todo' = create_inode_real(ino, name) /\ Cardinality(free) >= Reserve
    BY <1>4, <1>13 DEF sfs_create
  <2>2. /\ create_inode_real(ino, name) \in Seq(Writes)
        /\ \A k \in 1 .. Len(create_inode_real(ino, name)) :
              MayCome(create_inode_real(ino, name), k)
    BY <1>0, <1>4, <2>1, CreateComes
  <2>. QED
    BY <1>1, <1>4, <2>1, <2>2
<1>14. CASE UNCHANGED vars
  BY <1>2, <1>4, <1>14 DEF vars, client
<1>. QED
  BY <1>5, <1>6, <1>7, <1>8, <1>9, <1>10, <1>11, <1>12, <1>13, <1>14 DEF Next

(* The invariant holds in every state, also after any number of crashes.   *)
LEMMA LinksAlways ==
  ASSUME Reserve >= 2
  PROVE  Spec => []LinksInv
<1>1. Init => LinksInv
  BY LinksInvInit
<1>2. LinksInv /\ [Next]_vars => LinksInv'
  BY LinksInvStep
<1>. QED
  BY <1>1, <1>2, PTL DEF Spec

(* The links of the directory come to an end, and with them the recursion  *)
(* of create_inode_real (inode.c:55-73), through any number of crashes     *)
(* amid creates: as long as two inodes are free when a file is created, a  *)
(* link leads to a later inode.                                            *)
THEOREM DirectoryEndsCorrect ==
  ASSUME Reserve >= 2
  PROVE  Spec => []DirectoryEnds
<1>1. LinksInv => DirectoryEnds
  <2>. SUFFICES ASSUME LinksInv PROVE DirectoryEnds
    OBVIOUS
  <2>1. Ends(inode, Root, LinksFrom(Root))
    BY LinksLead, Basics DEF LinksInv
  <2>. QED
    BY <2>1 DEF Ends, DirectoryEnds, Last
<1>. QED
  BY <1>1, LinksAlways, PTL

-----------------------------------------------------------------------------
(* The tree and the bitmap, while no create has been cut short.            *)

Used   == Inodes \ free
Bottom == Last(LinksFrom(Root))

\* What create_inode_real makes of a name, a directory and the inodes it finds.
EntryOf(name, x) == [name |-> Stored[name], ino |-> x]
With(dir, e)     == [dir EXCEPT !.entries = Append(@, e)]
FileNode(x)      == NewInode(x, "FILE")
LinkNode(n)      == NewInode(n, "LINK")
LinkedTo(n)      == [inode[Bottom] EXCEPT !.link = n]

\* The writes to come are those of plan, and then directory inodes as they are.
Begins(plan) ==
    /\ Len(todo) >= Len(plan)
    /\ \A k \in 1 .. Len(plan) : todo[k] = plan[k]
    /\ \A k \in Len(plan) + 1 .. Len(todo) :
         \E j \in DirInodes \ {Bottom} : todo[k] = PutInode(inode[j])

Written(S) == \A e \in S : inode[e.ino] = FileNode(e.ino)

Formatting ==
    /\ inode = [i \in Inodes |-> Zeros]
    /\ opening = {}
    /\ \/ ~ mounted /\ ~ touched /\ todo = <<>>
       \/ todo = Format
       \/ todo = <<ClearBitmap, FreshBitmap, PutInode(Zeros)>>
       \/ todo = <<FreshBitmap, PutInode(Zeros)>>

Settled ==
    /\ Used = Tree
    /\ Written(Entries)
    /\ \A k \in 1 .. Len(todo) : \E j \in DirInodes : todo[k] = PutInode(inode[j])

\* The writes of AddEntry for a file x are under way.
Adding(name, x) ==
    LET e == EntryOf(name, x)
    IN  \/ /\ Begins(<<MarkUsed(Bottom), PutInode(With(inode[Bottom], e)), PutInode(FileNode(x)), MarkUsed(x)>>)
           /\ Used = Tree /\ Written(Entries)
        \/ /\ Begins(<<PutInode(With(inode[Bottom], e)), PutInode(FileNode(x)), MarkUsed(x)>>)
           /\ Used = Tree /\ Written(Entries)
        \/ /\ Begins(<<PutInode(FileNode(x)), MarkUsed(x)>>)
           /\ e \in Entries /\ Tree = Used \cup {x} /\ Written(Entries \ {e})
        \/ /\ Begins(<<MarkUsed(x)>>)
           /\ e \in Entries /\ Tree = Used \cup {x} /\ Written(Entries)

\* The writes of AddLink for a link n and a file x are under way.
Linking(name, n, x) ==
    LET new == With(LinkNode(n), EntryOf(name, x))
    IN  /\ n \notin Tree /\ x \notin Tree /\ Written(Entries)
        /\ \/ /\ Begins(<<MarkUsed(n), PutInode(new), PutInode(FileNode(x)), MarkUsed(x), PutInode(LinkedTo(n))>>)
              /\ Used = Tree
           \/ /\ Begins(<<PutInode(new), PutInode(FileNode(x)), MarkUsed(x), PutInode(LinkedTo(n))>>)
              /\ Used = Tree \cup {n}
           \/ /\ Begins(<<PutInode(FileNode(x)), MarkUsed(x), PutInode(LinkedTo(n))>>)
              /\ Used = Tree \cup {n} /\ inode[n] = new
           \/ /\ Begins(<<MarkUsed(x), PutInode(LinkedTo(n))>>)
              /\ Used = Tree \cup {n} /\ inode[n] = new /\ inode[x] = FileNode(x)
           \/ /\ Begins(<<PutInode(LinkedTo(n))>>)
              /\ Used = Tree \cup {n, x} /\ inode[n] = new /\ inode[x] = FileNode(x)

\* The directory inodes are no files, and its files no directory inodes.
Dirs ==
    /\ \A j \in DirInodes : inode[j].iid = j /\ inode[j].flag # "FILE"
    /\ \A e \in Entries : e.ino \notin DirInodes

Where == ino = Root \/ \E e \in Entries : ino = e.ino

\* A create is amid its writes.
Unfinished ==
    \/ \E name \in Names : \E x \in free : opening = {name} /\ Adding(name, x)
    \/ \E name \in Names : \E n, x \in Inodes : n # x /\ opening = {name} /\ Linking(name, n, x)

Arrived == \A name \in opening : \E e \in Entries : e.name = Stored[name]

\* No file loses its inode, and the root at most gets an entry.
Keeps ==
    /\ inode'[Root].flag = inode[Root].flag
    /\ \A e \in Entries : inode[e.ino] = FileNode(e.ino) => inode'[e.ino] = FileNode(e.ino)
    /\ \/ inode'[Root].entries = inode[Root].entries
       \/ \E e : inode'[Root].entries = Append(inode[Root].entries, e)

TreeInv == Dirs /\ (Formatting \/ Settled \/ Unfinished)

-----------------------------------------------------------------------------
(* The directory inodes.                                                   *)

(* LinksFrom in the next state is the one chain that ends there. *)
LEMMA NextChain ==
  ASSUME Nodes', NEW c, Ends(inode', Root, c)
  PROVE  LinksFrom(Root)' = c
<1>1. LinksFrom(Root)' = ChainIn(inode', Root)
  BY DEF LinksFrom, ChainIn, FollowsLinks, FollowsIn, Linked, LinkedIn
<1>2. Rising(inode')
  <2>. SUFFICES ASSUME NEW i \in Inodes, inode'[i].link # NoLink
                PROVE  inode'[i].link \in Inodes /\ i < inode'[i].link
    BY DEF Rising
  <2>1. inode'[i] \in Node /\ inode'[i].iid = i
    BY Basics DEF Nodes
  <2>. QED
    BY <2>1 DEF Node
<1>3. Root \in Inodes
  BY Basics
<1>4. Ends(inode', Root, ChainIn(inode', Root))
  BY <1>2, <1>3, TheChain
<1>. QED
  BY <1>1, <1>3, <1>4, OneEnd

(* The inodes of the directory, from the root to the bottom. *)
LEMMA DirFacts ==
  ASSUME Nodes
  PROVE  /\ Root \in DirInodes /\ Bottom \in DirInodes
         /\ DirInodes \in SUBSET Inodes
         /\ inode[Bottom].link = NoLink
<1>. DEFINE c == LinksFrom(Root)
<1>1. Ends(inode, Root, c)
  BY LinksLead, Basics
<1>. HIDE DEF c
<1>2. c \in Seq(Inodes) /\ Len(c) \in Nat \ {0} /\ DOMAIN c = 1 .. Len(c) /\ c[1] = Root
      /\ inode[c[Len(c)]].link = NoLink
  BY <1>1, EmptySeq, LenProperties DEF Ends
<1>3. 1 \in DOMAIN c /\ Len(c) \in DOMAIN c /\ \A k \in DOMAIN c : c[k] \in Inodes
  BY <1>2
<1>. QED
  BY <1>2, <1>3 DEF DirInodes, Bottom, ToSet, Last, c

(* What leaves the links of the directory alone leaves its inodes the same. *)
LEMMA SameLinks ==
  ASSUME Nodes, Nodes', \A j \in DirInodes : inode'[j].link = inode[j].link
  PROVE  DirInodes' = DirInodes /\ Bottom' = Bottom
<1>. DEFINE c == LinksFrom(Root)
<1>1. Ends(inode, Root, c)
  BY LinksLead, Basics
<1>2. c \in Seq(Inodes) /\ Len(c) \in Nat \ {0} /\ DOMAIN c = 1 .. Len(c)
  BY <1>1, EmptySeq, LenProperties DEF Ends
<1>3. \A k \in 1 .. Len(c) : inode'[c[k]].link = inode[c[k]].link
  BY <1>2 DEF DirInodes, ToSet
<1>4. Ends(inode', Root, c)
  <2>. HIDE DEF c
  <2>1. \A k \in 1 .. Len(c) - 1 : k \in 1 .. Len(c)
    BY <1>2
  <2>2. Len(c) \in 1 .. Len(c)
    BY <1>2
  <2>. QED
    BY <1>1, <1>3, <2>1, <2>2 DEF Ends
<1>5. LinksFrom(Root)' = c
  BY <1>4, NextChain
<1>. QED
  BY <1>5 DEF DirInodes, Bottom

(* A link written at the bottom adds one inode to the directory. *)
LEMMA NewBottom ==
  ASSUME Nodes, Nodes', NEW n \in Inodes \ DirInodes,
         inode'[Bottom].link = n, inode'[n].link = NoLink,
         \A j \in DirInodes \ {Bottom} : inode'[j].link = inode[j].link
  PROVE  DirInodes' = DirInodes \cup {n} /\ Bottom' = n
<1>. DEFINE c == LinksFrom(Root)
            d == c \o <<n>>
<1>1. Ends(inode, Root, c) /\ Increasing(c)
  BY LinksLead, Basics
<1>2. c \in Seq(Inodes) /\ Len(c) \in Nat \ {0} /\ DOMAIN c = 1 .. Len(c)
  BY <1>1, EmptySeq, LenProperties DEF Ends
<1>3. ASSUME NEW k \in 1 .. Len(c) - 1 PROVE inode'[c[k]].link = c[k + 1]
  <2>1. k \in 1 .. Len(c) /\ k < Len(c) /\ Len(c) \in 1 .. Len(c)
    BY <1>2
  <2>2. c[k] < c[Len(c)] /\ c[k] \in Inodes /\ Bottom = c[Len(c)]
    BY <1>1, <1>2, <2>1 DEF Increasing, Bottom, Last
  <2>3. c[k] # Bottom
    <3>. HIDE DEF c
    <3>1. c[k] \in Nat
      BY <2>2, Basics
    <3>. QED
      BY <2>2, <3>1
  <2>4. c[k] \in DirInodes
    BY <1>2, <2>1 DEF DirInodes, ToSet
  <2>. QED
    BY <1>1, <2>3, <2>4 DEF Ends
<1>4. /\ d \in Seq(Inodes) /\ Len(d) = Len(c) + 1 /\ d[Len(c) + 1] = n
      /\ \A k \in 1 .. Len(c) : d[k] = c[k]
  <2>1. <<n>> \in Seq(Inodes) /\ Len(<<n>>) = 1 /\ <<n>>[1] = n
    OBVIOUS
  <2>. HIDE DEF c
  <2>2. /\ d \in Seq(Inodes) /\ Len(d) = Len(c) + 1
        /\ \A k \in 1 .. Len(c) + 1 : d[k] = IF k <= Len(c) THEN c[k] ELSE <<n>>[k - Len(c)]
    BY <1>2, <2>1, ConcatProperties
  <2>3. Len(c) + 1 \in 1 .. Len(c) + 1 /\ ~ (Len(c) + 1 <= Len(c)) /\ Len(c) + 1 - Len(c) = 1
    BY <1>2
  <2>. QED
    BY <1>2, <2>1, <2>2, <2>3
<1>5. d[Len(d)] = n /\ c[Len(c)] = Bottom
  BY <1>4 DEF Bottom, Last
<1>. HIDE DEF d
<1>6. Ends(inode', Root, d)
  <2>1. \A k \in 1 .. Len(d) - 1 : d[k + 1] = inode'[d[k]].link
    <3>. TAKE k \in 1 .. Len(d) - 1
    <3>. HIDE DEF c
    <3>1. k \in 1 .. Len(c) /\ Len(d) - 1 = Len(c) /\ Len(c) \in Nat
      BY <1>2, <1>4
    <3>2. CASE k = Len(c)
      BY <1>4, <1>5, <3>1, <3>2
    <3>3. CASE k # Len(c)
      <4>1. k \in 1 .. Len(c) - 1 /\ k + 1 \in 1 .. Len(c)
        BY <3>1, <3>3
      <4>. QED
        BY <1>3, <1>4, <3>1, <4>1
    <3>. QED
      BY <3>2, <3>3
  <2>2. d # <<>> /\ d[1] = Root
    <3>1. 1 \in 1 .. Len(c) /\ c[1] = Root
      BY <1>1, <1>2 DEF Ends
    <3>2. Len(d) # 0
      BY <1>2, <1>4
    <3>. QED
      BY <1>4, <3>1, <3>2, EmptySeq
  <2>. QED
    BY <1>4, <1>5, <2>1, <2>2 DEF Ends
<1>7. LinksFrom(Root)' = d
  BY <1>6, NextChain
<1>8. DirInodes' = ToSet(d) /\ Bottom' = n
  BY <1>5, <1>7 DEF DirInodes, Bottom, Last
<1>9. ToSet(d) = ToSet(c) \cup {n}
  <2>. HIDE DEF c
  <2>1. DOMAIN d = 1 .. Len(c) + 1
    BY <1>4, LenProperties
  <2>2. \A k \in DOMAIN d : k \in 1 .. Len(c) \/ k = Len(c) + 1
    BY <1>2, <2>1
  <2>3. \A k \in 1 .. Len(c) : k \in DOMAIN d
    BY <1>2, <2>1
  <2>4. Len(c) + 1 \in DOMAIN d
    BY <1>2, <2>1
  <2>5. ASSUME NEW y \in ToSet(d) PROVE y \in ToSet(c) \cup {n}
    <3>1. PICK k \in DOMAIN d : y = d[k]
      BY <2>5 DEF ToSet
    <3>2. CASE k \in 1 .. Len(c)
      BY <1>2, <1>4, <3>1, <3>2 DEF ToSet
    <3>3. CASE k = Len(c) + 1
      BY <1>4, <3>1, <3>3
    <3>. QED
      BY <2>2, <3>2, <3>3
  <2>6. ASSUME NEW y \in ToSet(c) PROVE y \in ToSet(d)
    BY <1>2, <1>4, <2>3, <2>6 DEF ToSet
  <2>7. n \in ToSet(d)
    BY <1>4, <2>4 DEF ToSet
  <2>. QED
    BY <2>5, <2>6, <2>7
<1>. QED
  BY <1>8, <1>9 DEF DirInodes

-----------------------------------------------------------------------------
(* The files of the directory.                                             *)

(* What an inode block holds, of its type. *)
LEMMA NodeParts ==
  ASSUME NEW r \in Node
  PROVE  /\ r.entries \in Seq(Slot) /\ r.iid \in Inodes
         /\ \A e \in ToSet(r.entries) : e \in Slot /\ e.ino \in Inodes
<1>1. r.entries \in Seq(Slot) /\ r.iid \in Inodes
  BY DEF Node
<1>2. ASSUME NEW e \in ToSet(r.entries) PROVE e \in Slot
  BY <1>1, <1>2, LenProperties DEF ToSet
<1>3. \A e \in Slot : e.ino \in Inodes
  BY DEF Slot
<1>. QED
  BY <1>1, <1>2, <1>3

(* A file's inode, and a link's. *)
LEMMA NewNodes ==
  /\ \A x : FileNode(x).iid = x /\ FileNode(x).flag = "FILE"
            /\ FileNode(x).link = NoLink /\ FileNode(x).entries = <<>>
  /\ \A n : LinkNode(n).iid = n /\ LinkNode(n).flag = "LINK" /\ LinkNode(n).link = NoLink
BY DEF FileNode, LinkNode, NewInode

(* A link's inode with its first entry. *)
LEMMA LinkNodeWith ==
  ASSUME NEW n, NEW e
  PROVE  /\ With(LinkNode(n), e).iid = n /\ With(LinkNode(n), e).flag = "LINK"
         /\ With(LinkNode(n), e).link = NoLink /\ ToSet(With(LinkNode(n), e).entries) = {e}
<1>1. With(LinkNode(n), e) = [iid |-> n, flag |-> "LINK", entries |-> <<e>>, link |-> NoLink]
  BY DEF With, LinkNode, NewInode
<1>2. ToSet(<<e>>) = {e}
  BY DEF ToSet
<1>. QED
  BY <1>1, <1>2

(* An inode with one more entry. *)
LEMMA NodeWith ==
  ASSUME NEW r \in Node, NEW e
  PROVE  /\ With(r, e).iid = r.iid /\ With(r, e).flag = r.flag /\ With(r, e).link = r.link
         /\ ToSet(With(r, e).entries) = ToSet(r.entries) \cup {e}
<1>1. /\ With(r, e).iid = r.iid /\ With(r, e).flag = r.flag /\ With(r, e).link = r.link
      /\ With(r, e).entries = Append(r.entries, e)
  BY DEF With, Node
<1>. DEFINE q == r.entries  p == Append(q, e)
<1>2. q \in Seq(Slot)
  BY NodeParts
<1>. HIDE DEF q
<1>3. /\ DOMAIN q = 1 .. Len(q) /\ Len(q) \in Nat /\ DOMAIN p = 1 .. Len(q) + 1
      /\ p[Len(q) + 1] = e /\ \A k \in 1 .. Len(q) : p[k] = q[k]
  BY <1>2
<1>. HIDE DEF p
<1>4. \A k \in DOMAIN p : k \in DOMAIN q \/ k = Len(q) + 1
  BY <1>3
<1>5. Len(q) + 1 \in DOMAIN p /\ \A k \in DOMAIN q : k \in DOMAIN p
  BY <1>3
<1>6. ToSet(p) = ToSet(q) \cup {e}
  <2>1. ASSUME NEW y \in ToSet(p) PROVE y \in ToSet(q) \cup {e}
    <3>1. PICK k \in DOMAIN p : y = p[k]
      BY <2>1 DEF ToSet
    <3>. QED
      BY <1>3, <1>4, <3>1 DEF ToSet
  <2>2. ASSUME NEW y \in ToSet(q) PROVE y \in ToSet(p)
    BY <1>3, <1>5, <2>2 DEF ToSet
  <2>3. e \in ToSet(p)
    BY <1>3, <1>5 DEF ToSet
  <2>. QED
    BY <2>1, <2>2, <2>3
<1>. QED
  BY <1>1, <1>6 DEF p, q

(* The entries of a directory are slots of its inodes. *)
LEMMA EntryFacts ==
  ASSUME Nodes
  PROVE  /\ \A e \in Entries : e \in Slot /\ e.ino \in Inodes
         /\ Tree \in SUBSET Inodes
<1>1. ASSUME NEW e \in Entries PROVE e \in Slot /\ e.ino \in Inodes
  <2>1. PICK j \in DirInodes : e \in ToSet(inode[j].entries)
    BY DEF Entries
  <2>2. inode[j] \in Node
    BY DirFacts DEF Nodes
  <2>. QED
    BY <2>1, <2>2, NodeParts
<1>. QED
  BY <1>1, DirFacts DEF Tree

(* What leaves the inodes of the directory alone leaves the tree the same. *)
LEMMA SameTree ==
  ASSUME Nodes, Nodes', \A j \in DirInodes : inode'[j] = inode[j]
  PROVE  DirInodes' = DirInodes /\ Bottom' = Bottom /\ Entries' = Entries /\ Tree' = Tree
<1>1. DirInodes' = DirInodes /\ Bottom' = Bottom
  BY SameLinks
<1>2. Entries' = Entries
  BY <1>1 DEF Entries
<1>. QED
  BY <1>1, <1>2 DEF Tree

(* An entry written at the bottom is one more file. *)
LEMMA GrownTree ==
  ASSUME Nodes, Nodes', NEW e, inode'[Bottom] = With(inode[Bottom], e),
         \A j \in DirInodes \ {Bottom} : inode'[j] = inode[j]
  PROVE  /\ DirInodes' = DirInodes /\ Bottom' = Bottom /\ Entries' = Entries \cup {e}
         /\ Tree' = Tree \cup {e.ino}
<1>1. Bottom \in DirInodes /\ DirInodes \in SUBSET Inodes /\ inode[Bottom] \in Node
  BY DirFacts DEF Nodes
<1>2. inode'[Bottom].link = inode[Bottom].link
      /\ ToSet(inode'[Bottom].entries) = ToSet(inode[Bottom].entries) \cup {e}
  <2>. DEFINE r == inode[Bottom]
  <2>1. /\ With(r, e).link = r.link
        /\ ToSet(With(r, e).entries) = ToSet(r.entries) \cup {e}
    BY <1>1, NodeWith
  <2>. QED
    BY <2>1
<1>3. DirInodes' = DirInodes /\ Bottom' = Bottom
  BY <1>2, SameLinks
<1>4. Entries' = Entries \cup {e}
  <2>1. Entries' = UNION {ToSet(inode'[j].entries) : j \in DirInodes}
    BY <1>3 DEF Entries
  <2>2. ASSUME NEW y PROVE y \in Entries' <=> y \in Entries \/ y = e
    <3>1. y \in Entries' <=> \E j \in DirInodes : y \in ToSet(inode'[j].entries)
      BY <2>1
    <3>2. y \in Entries <=> \E j \in DirInodes : y \in ToSet(inode[j].entries)
      BY DEF Entries
    <3>. QED
      BY <1>1, <1>2, <3>1, <3>2
  <2>. QED
    BY <2>2
<1>. QED
  BY <1>3, <1>4 DEF Tree

(* A link inode with one entry, linked to at the bottom, is one more file. *)
LEMMA LinkedTree ==
  ASSUME Nodes, Nodes', NEW n \in Inodes \ DirInodes, NEW e,
         inode'[Bottom] = LinkedTo(n), inode'[n] = With(LinkNode(n), e),
         \A j \in DirInodes \ {Bottom} : inode'[j] = inode[j]
  PROVE  /\ DirInodes' = DirInodes \cup {n} /\ Bottom' = n /\ Entries' = Entries \cup {e}
         /\ Tree' = Tree \cup {n, e.ino}
<1>1. Bottom \in DirInodes /\ DirInodes \in SUBSET Inodes /\ inode[Bottom] \in Node
  BY DirFacts DEF Nodes
<1>2. inode'[Bottom].link = n /\ inode'[Bottom].entries = inode[Bottom].entries
  BY <1>1 DEF LinkedTo, Node
<1>3. inode'[n].link = NoLink /\ ToSet(inode'[n].entries) = {e}
  <2>1. With(LinkNode(n), e).link = NoLink /\ ToSet(With(LinkNode(n), e).entries) = {e}
    BY LinkNodeWith
  <2>. QED
    BY <2>1
<1>4. DirInodes' = DirInodes \cup {n} /\ Bottom' = n
  BY <1>2, <1>3, NewBottom
<1>5. Entries' = Entries \cup {e}
  <2>1. Entries' = UNION {ToSet(inode'[j].entries) : j \in DirInodes \cup {n}}
    BY <1>4 DEF Entries
  <2>2. ASSUME NEW y PROVE y \in Entries' <=> y \in Entries \/ y = e
    <3>1. y \in Entries' <=> \E j \in DirInodes \cup {n} : y \in ToSet(inode'[j].entries)
      BY <2>1
    <3>2. y \in Entries <=> \E j \in DirInodes : y \in ToSet(inode[j].entries)
      BY DEF Entries
    <3>. QED
      BY <1>1, <1>2, <1>3, <3>1, <3>2
  <2>. QED
    BY <2>2
<1>. QED
  BY <1>4, <1>5 DEF Tree

(* The tree of an empty disk is the root. *)
LEMMA BlankTree ==
  ASSUME Nodes, inode = [i \in Inodes |-> Zeros]
  PROVE  DirInodes = {Root} /\ Bottom = Root /\ Entries = {} /\ Tree = {Root}
<1>. DEFINE c == LinksFrom(Root)  d == <<Root>>
<1>1. Ends(inode, Root, c)
  BY LinksLead, Basics
<1>2. d \in Seq(Inodes) /\ Len(d) = 1 /\ d[1] = Root /\ d # <<>> /\ ToSet(d) = {Root}
  BY Basics DEF ToSet
<1>3. Ends(inode, Root, d)
  BY <1>2, Basics DEF Ends
<1>. HIDE DEF c, d
<1>4. c = d
  BY <1>1, <1>3, OneEnd, Basics
<1>5. DirInodes = {Root} /\ Bottom = Root
  BY <1>2, <1>4 DEF DirInodes, Bottom, Last, c
<1>6. Entries = {}
  <2>1. inode[Root].entries = <<>> /\ ToSet(<<>>) = {}
    BY Basics DEF Zeros, NewInode, ToSet
  <2>. QED
    BY <1>5, <2>1 DEF Entries
<1>. QED
  BY <1>5, <1>6 DEF Tree

-----------------------------------------------------------------------------
(* The writes of a create.                                                 *)

(* What a block write does, and the writes that are left. *)
LEMMA WriteDoes ==
  ASSUME ToCome, WriteBlock
  PROVE  /\ Len(todo) \in Nat \ {0} /\ Len(todo') = Len(todo) - 1
         /\ \A k \in 1 .. Len(todo') : todo'[k] = todo[k + 1]
         /\ \A i : todo[1] = MarkUsed(i) => inode' = inode /\ free' = free \ {i}
         /\ \A data : todo[1] = PutInode(data) =>
              free' = free /\ inode' = [inode EXCEPT ![data.iid] = data]
         /\ UNCHANGED <<ino, mounted, client, crashes>>
<1>1. /\ todo # <<>> /\ todo \in Seq(Writes) /\ todo' = Tail(todo) /\ Write(Head(todo))
      /\ UNCHANGED <<ino, mounted, client, crashes>>
  BY DEF WriteBlock, ToCome
<1>2. /\ Len(todo) \in Nat \ {0} /\ Len(todo') = Len(todo) - 1
      /\ \A k \in 1 .. Len(todo') : todo'[k] = todo[k + 1]
  BY <1>1, EmptySeq, HeadTailProperties
<1>3. Write(todo[1])
  BY <1>1
<1>4. ASSUME NEW i, todo[1] = MarkUsed(i) PROVE inode' = inode /\ free' = free \ {i}
  <2>1. todo[1].block = "bitmap" /\ todo[1].data = {i}
    BY <1>4, WriteKinds
  <2>. QED
    BY <1>3, <2>1 DEF Write
<1>5. ASSUME NEW data, todo[1] = PutInode(data)
      PROVE  free' = free /\ inode' = [inode EXCEPT ![data.iid] = data]
  <2>1. todo[1].block = "inode" /\ todo[1].data = data
    BY <1>5, WriteKinds
  <2>. QED
    BY <1>3, <2>1 DEF Write
<1>. QED
  BY <1>1, <1>2, <1>4, <1>5

(* The first write of a plan is the next, *)
LEMMA FirstOfPlan ==
  ASSUME NEW p, NEW m \in Nat, Len(p) = m + 1, Begins(p)
  PROVE  todo[1] = p[1]
<1>1. 1 \in 1 .. m + 1
  OBVIOUS
<1>. QED
  BY <1>1 DEF Begins

\* The writes that are left are those of q, and then directory inodes as they are.
Leaves(q) ==
    /\ Len(todo') >= Len(q)
    /\ \A k \in 1 .. Len(q) : todo'[k] = q[k]
    /\ \A k \in Len(q) + 1 .. Len(todo') :
         \E j \in DirInodes \ {Bottom} : todo'[k] = PutInode(inode'[j])

(* and the others are left then. *)
LEMMA RestOfPlan ==
  ASSUME ToCome, WriteBlock, NEW p, NEW q, NEW m \in Nat, Len(p) = m + 1, Len(q) = m,
         \A k \in 1 .. m : q[k] = p[k + 1], Begins(p),
         \A j \in DirInodes \ {Bottom} : inode'[j] = inode[j]
  PROVE  Leaves(q) /\ (DirInodes' = DirInodes /\ Bottom' = Bottom => Begins(q)')
<1>1. /\ Len(todo) \in Nat \ {0} /\ Len(todo') = Len(todo) - 1
      /\ \A k \in 1 .. Len(todo') : todo'[k] = todo[k + 1]
  BY WriteDoes
<1>2. /\ Len(todo) >= m + 1
      /\ \A k \in 1 .. m + 1 : todo[k] = p[k]
      /\ \A k \in m + 2 .. Len(todo) : \E j \in DirInodes \ {Bottom} : todo[k] = PutInode(inode[j])
  BY DEF Begins
<1>3. Len(todo') >= m
  BY <1>1, <1>2
<1>4. ASSUME NEW k \in 1 .. m PROVE todo'[k] = q[k]
  <2>1. k \in 1 .. Len(todo') /\ k + 1 \in 1 .. m + 1
    BY <1>1, <1>2
  <2>. QED
    BY <1>1, <1>2, <2>1
<1>5. ASSUME NEW k \in m + 1 .. Len(todo')
      PROVE  \E j \in DirInodes \ {Bottom} : todo'[k] = PutInode(inode'[j])
  <2>1. k \in 1 .. Len(todo') /\ k + 1 \in m + 2 .. Len(todo)
    BY <1>1, <1>2
  <2>2. PICK j \in DirInodes \ {Bottom} : todo[k + 1] = PutInode(inode[j])
    BY <1>2, <2>1
  <2>3. todo'[k] = PutInode(inode'[j])
    BY <1>1, <2>1, <2>2
  <2>. QED
    BY <2>3
<1>. QED
  BY <1>3, <1>4, <1>5 DEF Begins, Leaves

(* The last write of a plan leaves inodes of the directory. *)
LEMMA PlanOfOne ==
  ASSUME ToCome, WriteBlock, NEW a, Begins(<<a>>)
  PROVE  /\ todo[1] = a
         /\ (\A j \in DirInodes \ {Bottom} : inode'[j] = inode[j]) =>
              \A k \in 1 .. Len(todo') : \E j \in DirInodes \ {Bottom} : todo'[k] = PutInode(inode'[j])
<1>. DEFINE p == <<a>>  q == <<>>
<1>. PICK m \in Nat : m = 0
  OBVIOUS
<1>1. /\ Len(p) = m + 1 /\ Len(q) = m /\ p[1] = a
      /\ \A k \in 1 .. m : q[k] = p[k + 1]
  OBVIOUS
<1>2. Begins(p)
  OBVIOUS
<1>. HIDE DEF p, q
<1>3. todo[1] = a
  BY <1>1, <1>2, FirstOfPlan
<1>4. ASSUME \A j \in DirInodes \ {Bottom} : inode'[j] = inode[j]
      PROVE  \A k \in 1 .. Len(todo') :
                \E j \in DirInodes \ {Bottom} : todo'[k] = PutInode(inode'[j])
  <2>1. Leaves(q)
    BY <1>1, <1>2, <1>4, RestOfPlan
  <2>2. Len(q) + 1 = 1
    BY <1>1
  <2>. QED
    BY <2>1, <2>2 DEF Leaves
<1>. QED
  BY <1>3, <1>4

(* The same for a plan of two writes. *)
LEMMA PlanOfTwo ==
  ASSUME ToCome, WriteBlock, NEW a, NEW b, Begins(<<a, b>>)
  PROVE  /\ todo[1] = a
         /\ /\ DirInodes' = DirInodes /\ Bottom' = Bottom
            /\ \A j \in DirInodes \ {Bottom} : inode'[j] = inode[j]
            => Begins(<<b>>)'
<1>. DEFINE p == <<a, b>>  q == <<b>>
<1>1. /\ Len(p) = 1 + 1 /\ Len(q) = 1 /\ p[1] = a
      /\ \A k \in 1 .. 1 : q[k] = p[k + 1]
  OBVIOUS
<1>2. Begins(p)
  OBVIOUS
<1>. HIDE DEF p, q
<1>3. todo[1] = a
  BY <1>1, <1>2, FirstOfPlan
<1>4. /\ DirInodes' = DirInodes /\ Bottom' = Bottom
      /\ \A j \in DirInodes \ {Bottom} : inode'[j] = inode[j]
      => Begins(q)'
  BY <1>1, <1>2, RestOfPlan
<1>. QED
  BY <1>3, <1>4 DEF q

(* The same for a plan of three writes. *)
LEMMA PlanOfThree ==
  ASSUME ToCome, WriteBlock, NEW a, NEW b, NEW c, Begins(<<a, b, c>>)
  PROVE  /\ todo[1] = a
         /\ /\ DirInodes' = DirInodes /\ Bottom' = Bottom
            /\ \A j \in DirInodes \ {Bottom} : inode'[j] = inode[j]
            => Begins(<<b, c>>)'
<1>. DEFINE p == <<a, b, c>>  q == <<b, c>>
<1>1. /\ Len(p) = 2 + 1 /\ Len(q) = 2 /\ p[1] = a
      /\ \A k \in 1 .. 2 : q[k] = p[k + 1]
  OBVIOUS
<1>2. Begins(p)
  OBVIOUS
<1>. HIDE DEF p, q
<1>3. todo[1] = a
  BY <1>1, <1>2, FirstOfPlan
<1>4. /\ DirInodes' = DirInodes /\ Bottom' = Bottom
      /\ \A j \in DirInodes \ {Bottom} : inode'[j] = inode[j]
      => Begins(q)'
  BY <1>1, <1>2, RestOfPlan
<1>. QED
  BY <1>3, <1>4 DEF q

(* The same for a plan of four writes. *)
LEMMA PlanOfFour ==
  ASSUME ToCome, WriteBlock, NEW a, NEW b, NEW c, NEW d, Begins(<<a, b, c, d>>)
  PROVE  /\ todo[1] = a
         /\ /\ DirInodes' = DirInodes /\ Bottom' = Bottom
            /\ \A j \in DirInodes \ {Bottom} : inode'[j] = inode[j]
            => Begins(<<b, c, d>>)'
<1>. DEFINE p == <<a, b, c, d>>  q == <<b, c, d>>
<1>1. /\ Len(p) = 3 + 1 /\ Len(q) = 3 /\ p[1] = a
      /\ \A k \in 1 .. 3 : q[k] = p[k + 1]
  OBVIOUS
<1>2. Begins(p)
  OBVIOUS
<1>. HIDE DEF p, q
<1>3. todo[1] = a
  BY <1>1, <1>2, FirstOfPlan
<1>4. /\ DirInodes' = DirInodes /\ Bottom' = Bottom
      /\ \A j \in DirInodes \ {Bottom} : inode'[j] = inode[j]
      => Begins(q)'
  BY <1>1, <1>2, RestOfPlan
<1>. QED
  BY <1>3, <1>4 DEF q

(* The same for a plan of five writes. *)
LEMMA PlanOfFive ==
  ASSUME ToCome, WriteBlock, NEW a, NEW b, NEW c, NEW d, NEW f, Begins(<<a, b, c, d, f>>)
  PROVE  /\ todo[1] = a
         /\ /\ DirInodes' = DirInodes /\ Bottom' = Bottom
            /\ \A j \in DirInodes \ {Bottom} : inode'[j] = inode[j]
            => Begins(<<b, c, d, f>>)'
<1>. DEFINE p == <<a, b, c, d, f>>  q == <<b, c, d, f>>
<1>1. /\ Len(p) = 4 + 1 /\ Len(q) = 4 /\ p[1] = a
      /\ \A k \in 1 .. 4 : q[k] = p[k + 1]
  OBVIOUS
<1>2. Begins(p)
  OBVIOUS
<1>. HIDE DEF p, q
<1>3. todo[1] = a
  BY <1>1, <1>2, FirstOfPlan
<1>4. /\ DirInodes' = DirInodes /\ Bottom' = Bottom
      /\ \A j \in DirInodes \ {Bottom} : inode'[j] = inode[j]
      => Begins(q)'
  BY <1>1, <1>2, RestOfPlan
<1>. QED
  BY <1>3, <1>4 DEF q

(* The writes of AddEntry: each leads to the next state of the create, and
   the last to a settled disk that has the file. *)
LEMMA AddingStep ==
  ASSUME LinksInv, Dirs, WriteBlock, NEW name \in Names, NEW x \in free, Adding(name, x)
  PROVE  /\ Dirs' /\ Keeps
         /\ \/ x \in free' /\ Adding(name, x)'
            \/ Settled' /\ EntryOf(name, x) \in Entries'
         /\ \/ Entries' = Entries
            \/ x \notin Tree /\ Entries' = Entries \cup {EntryOf(name, x)}
<1>. DEFINE e == EntryOf(name, x)
            b == inode[Bottom]
            W1 == MarkUsed(Bottom)
            W2 == PutInode(With(b, e))
            W3 == PutInode(FileNode(x))
            W4 == MarkUsed(x)
<1>0. Nodes /\ Nodes' /\ ToCome /\ InOrder
  BY WriteBlockKeepsLinks DEF LinksInv
<1>1. /\ Bottom \in DirInodes /\ DirInodes \in SUBSET Inodes /\ b \in Node
      /\ b.iid = Bottom /\ e.ino = x
      /\ free \in SUBSET Inodes /\ x \in Inodes
  BY <1>0, DirFacts DEF Nodes, Dirs, EntryOf, InOrder
<1>2. DirInodes \in SUBSET Tree /\ \A f \in Entries : f.ino \in Tree /\ f.ino \in Inodes
  BY <1>0, EntryFacts DEF Tree
<1>2a. inode \in [Inodes -> Node]
  BY <1>0 DEF Nodes
<1>3. CASE /\ Begins(<<W1, W2, W3, W4>>)
           /\ Used = Tree /\ Written(Entries)
  <2>1. inode' = inode /\ free' = free
    <3>1. todo[1] = W1
      BY <1>0, <1>3, PlanOfFour
    <3>2. Bottom \notin free
      BY <1>1, <1>2, <1>3 DEF Used
    <3>. QED
      BY <1>0, <3>1, <3>2, WriteDoes
  <2>2. DirInodes' = DirInodes /\ Bottom' = Bottom /\ Entries' = Entries /\ Tree' = Tree
    BY <1>0, <2>1, SameTree
  <2>3. Begins(<<W2, W3, W4>>)'
    <3>1. PICK w2 : w2 = W2
      OBVIOUS
    <3>2. Begins(<<w2, W3, W4>>)'
      BY <1>0, <1>3, <2>1, <2>2, <3>1, PlanOfFour
    <3>3. W2' = w2
      BY <2>1, <2>2, <3>1
    <3>. QED
      BY <3>2, <3>3
  <2>4. Used' = Tree' /\ Written(Entries)'
    BY <1>3, <2>1, <2>2 DEF Used, Written
  <2>5. Dirs'
    BY <2>1, <2>2 DEF Dirs
  <2>6. Adding(name, x)'
    BY <2>3, <2>4 DEF Adding
  <2>7. Keeps
    BY <2>1 DEF Keeps
  <2>. QED
    BY <2>1, <2>2, <2>5, <2>6, <2>7
<1>4. CASE /\ Begins(<<W2, W3, W4>>)
           /\ Used = Tree /\ Written(Entries)
  <2>1. inode' = [inode EXCEPT ![Bottom] = With(b, e)] /\ free' = free
    <3>1. todo[1] = W2
      BY <1>0, <1>4, PlanOfThree
    <3>2. With(b, e).iid = Bottom
      BY <1>1, NodeWith
    <3>. QED
      BY <1>0, <3>1, <3>2, WriteDoes
  <2>2. /\ inode'[Bottom] = With(b, e)
        /\ \A j \in Inodes \ {Bottom} : inode'[j] = inode[j]
    BY <1>1, <1>2a, <2>1
  <2>3. /\ DirInodes' = DirInodes /\ Bottom' = Bottom /\ Entries' = Entries \cup {e}
        /\ Tree' = Tree \cup {x}
    BY <1>0, <1>1, <2>2, GrownTree
  <2>4. Begins(<<W3, W4>>)'
    BY <1>0, <1>1, <1>4, <2>2, <2>3, PlanOfThree
  <2>5. x \notin Tree
    BY <1>4 DEF Used
  <2>6. Tree' = Used' \cup {x}
    BY <1>4, <2>1, <2>3 DEF Used
  <2>7. \A f \in Entries : f.ino # Bottom /\ f.ino \in Inodes
    BY <1>1, <1>2 DEF Dirs
  <2>8. Written(Entries \ {e})'
    BY <1>4, <2>2, <2>3, <2>7 DEF Written
  <2>9. Dirs'
    <3>1. /\ inode'[Bottom].iid = b.iid /\ inode'[Bottom].flag = b.flag
      BY <1>1, <2>2, NodeWith
    <3>2. \A j \in DirInodes : inode'[j].iid = j /\ inode'[j].flag # "FILE"
      BY <1>1, <2>2, <3>1 DEF Dirs
    <3>3. \A f \in Entries' : f.ino \notin DirInodes
      BY <1>1, <1>2, <2>3, <2>5 DEF Dirs
    <3>. QED
      BY <2>3, <3>2, <3>3 DEF Dirs
  <2>10. Adding(name, x)'
    BY <2>3, <2>4, <2>6, <2>8 DEF Adding
  <2>11. Keeps
    <3>1. With(b, e).entries = Append(b.entries, e)
      BY <1>1 DEF With, Node
    <3>2. \A f \in Entries : inode'[f.ino] = inode[f.ino]
      BY <2>2, <2>7
    <3>3. inode'[Bottom].flag = b.flag
      BY <1>1, <2>2, NodeWith
    <3>. QED
      BY <2>2, <3>1, <3>2, <3>3, Basics DEF Keeps
  <2>. QED
    BY <2>1, <2>3, <2>5, <2>9, <2>10, <2>11
<1>5. CASE /\ Begins(<<W3, W4>>)
           /\ e \in Entries /\ Tree = Used \cup {x} /\ Written(Entries \ {e})
  <2>1. inode' = [inode EXCEPT ![x] = FileNode(x)] /\ free' = free
    <3>1. todo[1] = W3
      BY <1>0, <1>5, PlanOfTwo
    <3>. QED
      BY <1>0, <3>1, WriteDoes, NewNodes
  <2>2. /\ inode'[x] = FileNode(x)
        /\ \A j \in Inodes \ {x} : inode'[j] = inode[j]
    BY <1>1, <1>2a, <2>1
  <2>3. x \notin DirInodes
    BY <1>1, <1>5 DEF Dirs
  <2>4. DirInodes' = DirInodes /\ Bottom' = Bottom /\ Entries' = Entries /\ Tree' = Tree
    BY <1>0, <1>1, <2>2, <2>3, SameTree
  <2>5. Begins(<<W4>>)'
    BY <1>0, <1>1, <1>5, <2>2, <2>3, <2>4, PlanOfTwo
  <2>6. Written(Entries)'
    <3>1. \A f \in Entries : f.ino = x \/ (f \in Entries \ {e} /\ f.ino \in Inodes \ {x})
      BY <1>1, <1>2
    <3>. QED
      BY <1>5, <2>2, <2>4, <3>1 DEF Written
  <2>7. Dirs'
    BY <1>1, <2>2, <2>3, <2>4 DEF Dirs
  <2>8. Adding(name, x)'
    BY <1>5, <2>1, <2>4, <2>5, <2>6 DEF Adding, Used
  <2>9. Keeps
    BY <1>2, <2>2, <2>3, <1>0, DirFacts DEF Keeps
  <2>. QED
    BY <2>1, <2>4, <2>7, <2>8, <2>9
<1>6. CASE /\ Begins(<<W4>>)
           /\ e \in Entries /\ Tree = Used \cup {x} /\ Written(Entries)
  <2>1. inode' = inode /\ free' = free \ {x}
    <3>1. todo[1] = W4
      BY <1>0, <1>6, PlanOfOne
    <3>. QED
      BY <1>0, <3>1, WriteDoes
  <2>2. DirInodes' = DirInodes /\ Bottom' = Bottom /\ Entries' = Entries /\ Tree' = Tree
    BY <1>0, <2>1, SameTree
  <2>3. \A k \in 1 .. Len(todo') : \E j \in DirInodes : todo'[k] = PutInode(inode'[j])
    BY <1>0, <1>6, <2>1, PlanOfOne
  <2>4. Settled'
    <3>1. Used' = Tree'
      BY <1>1, <1>6, <2>1, <2>2 DEF Used
    <3>2. Written(Entries)'
      BY <1>6, <2>1, <2>2 DEF Written
    <3>. QED
      BY <2>2, <2>3, <3>1, <3>2 DEF Settled
  <2>5. Dirs'
    BY <2>1, <2>2 DEF Dirs
  <2>6. Keeps
    BY <2>1 DEF Keeps
  <2>. QED
    BY <1>6, <2>2, <2>4, <2>5, <2>6
<1>. QED
  BY <1>3, <1>4, <1>5, <1>6 DEF Adding

(* The writes of AddLink: the new inodes are out of reach until the last,
   which leads to a settled disk that has the file. *)
LEMMA LinkingStep ==
  ASSUME LinksInv, Dirs, WriteBlock, NEW name \in Names, NEW n \in Inodes, NEW x \in Inodes,
         n # x, Linking(name, n, x)
  PROVE  /\ Dirs' /\ Keeps
         /\ Linking(name, n, x)' \/ (Settled' /\ EntryOf(name, x) \in Entries')
         /\ \/ Entries' = Entries
            \/ x \notin Tree /\ Entries' = Entries \cup {EntryOf(name, x)}
<1>. DEFINE e == EntryOf(name, x)
            new == With(LinkNode(n), e)
            W1 == MarkUsed(n)
            W2 == PutInode(new)
            W3 == PutInode(FileNode(x))
            W4 == MarkUsed(x)
            W5 == PutInode(LinkedTo(n))
            Same == DirInodes' = DirInodes /\ Bottom' = Bottom /\ Entries' = Entries /\ Tree' = Tree
<1>0. Nodes /\ Nodes' /\ ToCome /\ InOrder
  BY WriteBlockKeepsLinks DEF LinksInv
<1>1. /\ Bottom \in DirInodes /\ DirInodes \in SUBSET Inodes
      /\ inode[Bottom] \in Node /\ inode[Bottom].iid = Bottom /\ e.ino = x
      /\ free \in SUBSET Inodes /\ inode \in [Inodes -> Node]
  BY <1>0, DirFacts DEF Nodes, Dirs, EntryOf, InOrder
<1>2. /\ DirInodes \in SUBSET Tree /\ \A f \in Entries : f.ino \in Tree /\ f.ino \in Inodes
      /\ n \notin Tree /\ x \notin Tree /\ Written(Entries)
  BY <1>0, EntryFacts DEF Tree, Linking
<1>3. /\ LinkedTo(n).iid = Bottom /\ LinkedTo(n).flag = inode[Bottom].flag
      /\ new.iid = n /\ FileNode(x).iid = x
  <2>1. LinkedTo(n).iid = Bottom /\ LinkedTo(n).flag = inode[Bottom].flag
    BY <1>1 DEF LinkedTo, Node
  <2>. QED
    BY <2>1, NewNodes, LinkNodeWith
<1>4. ASSUME \A j \in Tree : inode'[j] = inode[j]
      PROVE  /\ Same /\ Dirs' /\ LinkedTo(n)' = LinkedTo(n) /\ Written(Entries)'
             /\ \A j \in DirInodes \ {Bottom} : inode'[j] = inode[j]
             /\ n \notin Tree' /\ x \notin Tree' /\ Keeps
  <2>1. Same
    BY <1>0, <1>2, <1>4, SameTree
  <2>2. Dirs'
    BY <1>2, <1>4, <2>1 DEF Dirs
  <2>3. LinkedTo(n)' = LinkedTo(n)
    BY <1>1, <1>2, <1>4, <2>1 DEF LinkedTo
  <2>4. Written(Entries)'
    BY <1>2, <1>4, <2>1 DEF Written
  <2>5. Keeps
    BY <1>2, <1>4, <1>0, DirFacts DEF Keeps
  <2>. QED
    BY <1>2, <1>4, <2>1, <2>2, <2>3, <2>4, <2>5
<1>6. CASE Begins(<<W1, W2, W3, W4, W5>>) /\ Used = Tree
  <2>1. inode' = inode /\ free' = free \ {n}
    <3>1. todo[1] = W1
      BY <1>0, <1>6, PlanOfFive
    <3>. QED
      BY <1>0, <3>1, WriteDoes
  <2>2. /\ Same /\ Dirs' /\ LinkedTo(n)' = LinkedTo(n) /\ Written(Entries)'
        /\ n \notin Tree' /\ x \notin Tree' /\ Keeps
    BY <1>4, <2>1
  <2>3. Begins(<<W2, W3, W4, W5>>)'
    BY <1>0, <1>6, <2>1, <2>2, PlanOfFive
  <2>4. Used' = Tree' \cup {n}
    BY <1>6, <2>1, <2>2 DEF Used
  <2>. QED
    BY <2>2, <2>3, <2>4 DEF Linking
<1>7. CASE Begins(<<W2, W3, W4, W5>>) /\ Used = Tree \cup {n}
  <2>1. inode' = [inode EXCEPT ![n] = new] /\ free' = free
    <3>1. todo[1] = W2
      BY <1>0, <1>7, PlanOfFour
    <3>. QED
      BY <1>0, <1>3, <3>1, WriteDoes
  <2>2. inode'[n] = new /\ \A j \in Tree : inode'[j] = inode[j]
    BY <1>1, <1>2, <2>1
  <2>3. /\ Same /\ Dirs' /\ LinkedTo(n)' = LinkedTo(n) /\ Written(Entries)'
        /\ \A j \in DirInodes \ {Bottom} : inode'[j] = inode[j]
        /\ n \notin Tree' /\ x \notin Tree' /\ Keeps
    BY <1>4, <2>2
  <2>4. Begins(<<W3, W4, W5>>)'
    BY <1>0, <1>7, <2>3, PlanOfFour
  <2>5. Used' = Tree' \cup {n}
    BY <1>7, <2>1, <2>3 DEF Used
  <2>. QED
    BY <2>2, <2>3, <2>4, <2>5 DEF Linking
<1>8. CASE /\ Begins(<<W3, W4, W5>>)
           /\ Used = Tree \cup {n} /\ inode[n] = new
  <2>1. inode' = [inode EXCEPT ![x] = FileNode(x)] /\ free' = free
    <3>1. todo[1] = W3
      BY <1>0, <1>8, PlanOfThree
    <3>. QED
      BY <1>0, <1>3, <3>1, WriteDoes
  <2>2. /\ inode'[x] = FileNode(x) /\ inode'[n] = new
        /\ \A j \in Tree : inode'[j] = inode[j]
    BY <1>1, <1>2, <1>8, <2>1
  <2>3. /\ Same /\ Dirs' /\ LinkedTo(n)' = LinkedTo(n) /\ Written(Entries)'
        /\ \A j \in DirInodes \ {Bottom} : inode'[j] = inode[j]
        /\ n \notin Tree' /\ x \notin Tree' /\ Keeps
    BY <1>4, <2>2
  <2>4. Begins(<<W4, W5>>)'
    BY <1>0, <1>8, <2>3, PlanOfThree
  <2>5. Used' = Tree' \cup {n}
    BY <1>8, <2>1, <2>3 DEF Used
  <2>. QED
    BY <2>2, <2>3, <2>4, <2>5 DEF Linking
<1>9. CASE /\ Begins(<<W4, W5>>)
           /\ Used = Tree \cup {n} /\ inode[n] = new /\ inode[x] = FileNode(x)
  <2>1. inode' = inode /\ free' = free \ {x}
    <3>1. todo[1] = W4
      BY <1>0, <1>9, PlanOfTwo
    <3>. QED
      BY <1>0, <3>1, WriteDoes
  <2>2. /\ Same /\ Dirs' /\ LinkedTo(n)' = LinkedTo(n) /\ Written(Entries)'
        /\ n \notin Tree' /\ x \notin Tree' /\ Keeps
    BY <1>4, <2>1
  <2>3. Begins(<<W5>>)'
    BY <1>0, <1>9, <2>1, <2>2, PlanOfTwo
  <2>4. Used' = Tree' \cup {n, x}
    BY <1>9, <2>1, <2>2 DEF Used
  <2>5. inode'[n] = new /\ inode'[x] = FileNode(x)
    BY <1>9, <2>1
  <2>. QED
    BY <2>2, <2>3, <2>4, <2>5 DEF Linking
<1>10. CASE /\ Begins(<<W5>>)
            /\ Used = Tree \cup {n, x} /\ inode[n] = new /\ inode[x] = FileNode(x)
  <2>1. inode' = [inode EXCEPT ![Bottom] = LinkedTo(n)] /\ free' = free
    <3>1. todo[1] = W5
      BY <1>0, <1>10, PlanOfOne
    <3>. QED
      BY <1>0, <1>3, <3>1, WriteDoes
  <2>2. /\ inode'[Bottom] = LinkedTo(n) /\ n # Bottom /\ x # Bottom
        /\ \A j \in Inodes \ {Bottom} : inode'[j] = inode[j]
    BY <1>1, <1>2, <2>1
  <2>3. /\ DirInodes' = DirInodes \cup {n} /\ Bottom' = n /\ Entries' = Entries \cup {e}
        /\ Tree' = Tree \cup {n, x}
    <3>1. n \in Inodes \ DirInodes /\ inode'[n] = With(LinkNode(n), e)
      BY <1>2, <1>10, <2>2
    <3>. QED
      BY <1>0, <1>1, <2>2, <3>1, LinkedTree
  <2>4. \A k \in 1 .. Len(todo') : \E j \in DirInodes : todo'[k] = PutInode(inode'[j])
    BY <1>0, <1>1, <1>10, <2>2, PlanOfOne
  <2>5. Used' = Tree'
    BY <1>10, <2>1, <2>3 DEF Used
  <2>6. \A f \in Entries' : f.ino # Bottom /\ f.ino \in Inodes /\ inode[f.ino] = FileNode(f.ino)
    BY <1>1, <1>2, <1>10, <2>2, <2>3 DEF Dirs, Written
  <2>7. Written(Entries)'
    BY <2>2, <2>6 DEF Written
  <2>8. Settled'
    BY <2>3, <2>4, <2>5, <2>7 DEF Settled
  <2>9. Dirs'
    <3>1. \A j \in DirInodes \ {Bottom} : inode'[j].iid = j /\ inode'[j].flag # "FILE"
      BY <1>1, <2>2 DEF Dirs
    <3>2. inode'[Bottom].iid = Bottom /\ inode'[Bottom].flag # "FILE"
      BY <1>1, <1>3, <2>2 DEF Dirs
    <3>3. inode'[n].iid = n /\ inode'[n].flag # "FILE"
      <4>1. new.iid = n /\ new.flag = "LINK"
        BY LinkNodeWith
      <4>. QED
        BY <1>10, <2>2, <4>1
    <3>4. \A f \in Entries : f.ino \notin DirInodes /\ f.ino # n
      BY <1>2 DEF Dirs
    <3>5. \A f \in Entries' : f.ino \notin DirInodes /\ f.ino # n
      BY <1>1, <1>2, <2>3, <3>4
    <3>. QED
      BY <2>3, <3>1, <3>2, <3>3, <3>5 DEF Dirs
  <2>10. Keeps
    <3>1. \A f \in Entries : f.ino # Bottom /\ f.ino \in Inodes
      BY <2>3, <2>6
    <3>2. \A f \in Entries : inode'[f.ino] = inode[f.ino]
      BY <2>2, <3>1
    <3>3. LinkedTo(n).entries = inode[Bottom].entries
      BY <1>1 DEF LinkedTo, Node
    <3>4. inode'[Root].entries = inode[Root].entries /\ inode'[Root].flag = inode[Root].flag
      BY <1>3, <2>2, <3>3, Basics
    <3>. QED
      BY <3>2, <3>4 DEF Keeps
  <2>. QED
    BY <1>2, <2>3, <2>8, <2>9, <2>10
<1>. QED
  BY <1>6, <1>7, <1>8, <1>9, <1>10 DEF Linking

(* What create_inode_real writes back on its way out is on the disk already. *)
LEMMA SettledStep ==
  ASSUME LinksInv, Dirs, WriteBlock, Settled
  PROVE  Dirs' /\ Settled' /\ inode' = inode /\ Entries' = Entries
<1>0. Nodes /\ Nodes' /\ ToCome
  BY WriteBlockKeepsLinks DEF LinksInv
<1>1. /\ Len(todo) \in Nat \ {0} /\ Len(todo') = Len(todo) - 1
      /\ \A k \in 1 .. Len(todo') : todo'[k] = todo[k + 1]
  BY <1>0, WriteDoes
<1>2. PICK j \in DirInodes : todo[1] = PutInode(inode[j])
  <2>1. 1 \in 1 .. Len(todo)
    BY <1>1
  <2>. QED
    BY <2>1 DEF Settled
<1>3. inode' = inode /\ free' = free
  <2>1. j \in Inodes /\ inode[j].iid = j /\ inode \in [Inodes -> Node]
    BY <1>0, DirFacts DEF Dirs, Nodes
  <2>2. free' = free /\ inode' = [inode EXCEPT ![j] = inode[j]]
    BY <1>0, <1>2, <2>1, WriteDoes
  <2>. QED
    BY <2>1, <2>2
<1>4. DirInodes' = DirInodes /\ Entries' = Entries /\ Tree' = Tree
  BY <1>0, <1>3, SameTree
<1>5. \A k \in 1 .. Len(todo') : \E i \in DirInodes : todo'[k] = PutInode(inode[i])
  <2>. TAKE k \in 1 .. Len(todo')
  <2>1. k + 1 \in 1 .. Len(todo)
    BY <1>1
  <2>. QED
    BY <1>1, <2>1 DEF Settled
<1>6. Settled'
  BY <1>3, <1>4, <1>5 DEF Settled, Used, Written
<1>7. Dirs'
  BY <1>3, <1>4 DEF Dirs
<1>. QED
  BY <1>3, <1>4, <1>6, <1>7

(* The writes of a formatting lead to a disk whose tree is the root. *)
LEMMA FormattingStep ==
  ASSUME LinksInv, Dirs, WriteBlock, Formatting
  PROVE  /\ Dirs' /\ (Formatting' \/ Settled') /\ Entries' = Entries /\ opening' = {}
         /\ inode' = inode
<1>. DEFINE F2 == <<ClearBitmap, FreshBitmap, PutInode(Zeros)>>
            F3 == <<FreshBitmap, PutInode(Zeros)>>
<1>0. Nodes /\ Nodes' /\ ToCome /\ InOrder
  BY WriteBlockKeepsLinks DEF LinksInv
<1>1. /\ todo # <<>> /\ todo' = Tail(todo) /\ Write(Head(todo))
      /\ opening' = opening /\ opening = {} /\ mounted' = mounted
      /\ inode = [i \in Inodes |-> Zeros]
  BY DEF WriteBlock, client, Formatting
<1>2. ASSUME inode' = inode
      PROVE  /\ DirInodes' = DirInodes /\ Entries' = Entries /\ Tree' = Tree /\ Dirs'
             /\ inode' = [i \in Inodes |-> Zeros]
  <2>1. DirInodes' = DirInodes /\ Entries' = Entries /\ Tree' = Tree
    BY <1>0, <1>2, SameTree
  <2>. QED
    BY <1>1, <1>2, <2>1 DEF Dirs
<1>3. CASE todo = Format
  <2>1. Head(todo) = Superblock /\ Tail(todo) = F2
    BY <1>3 DEF Format
  <2>2. inode' = inode
    BY <1>1, <2>1, WriteKinds DEF Write
  <2>. HIDE DEF F2
  <2>3. todo' = F2
    BY <1>1, <2>1
  <2>. QED
    BY <1>1, <1>2, <2>2, <2>3 DEF Formatting, F2
<1>4. CASE todo = F2
  <2>1. Head(todo) = ClearBitmap /\ Tail(todo) = F3
    BY <1>4
  <2>2. inode' = inode
    BY <1>1, <2>1, WriteKinds DEF Write
  <2>. HIDE DEF F3
  <2>3. todo' = F3
    BY <1>1, <2>1
  <2>. QED
    BY <1>1, <1>2, <2>2, <2>3 DEF Formatting, F3
<1>5. CASE todo = F3
  <2>1. Head(todo) = FreshBitmap /\ Tail(todo) = <<PutInode(Zeros)>>
    BY <1>5
  <2>2. inode' = inode /\ free' = Inodes \ {Root}
    BY <1>1, <2>1, WriteKinds DEF Write
  <2>3. \A k \in 1 .. Len(todo') : todo'[k] = PutInode(Zeros)
    <3>1. todo' = <<PutInode(Zeros)>>
      BY <1>1, <2>1
    <3>2. \A z : \A k \in 1 .. Len(<<z>>) : <<z>>[k] = z
      OBVIOUS
    <3>. QED
      BY <3>1, <3>2
  <2>4. DirInodes = {Root} /\ Entries = {} /\ Tree = {Root}
    BY <1>0, <1>1, BlankTree
  <2>5. Used' = {Root} /\ inode'[Root] = Zeros
    BY <1>1, <2>2, Basics DEF Used
  <2>6. Settled'
    <3>1. DirInodes' = {Root} /\ Entries' = {} /\ Tree' = {Root}
      BY <1>2, <2>2, <2>4
    <3>2. \A k \in 1 .. Len(todo') : todo'[k] = PutInode(inode'[Root])
      BY <2>3, <2>5
    <3>. QED
      BY <2>5, <3>1, <3>2 DEF Settled, Written
  <2>. QED
    BY <1>1, <1>2, <2>2, <2>6
<1>. QED
  BY <1>1, <1>3, <1>4, <1>5 DEF Formatting

(* The inode of a file has no link. *)
LEMMA FileAlone ==
  ASSUME Nodes, NEW i \in Inodes, inode[i] = FileNode(i)
  PROVE  LinksFrom(i) = <<i>>
<1>. DEFINE c == LinksFrom(i)  d == <<i>>
<1>1. Ends(inode, i, c)
  BY LinksLead
<1>2. d \in Seq(Inodes) /\ Len(d) = 1 /\ d[1] = i /\ d # <<>>
  OBVIOUS
<1>3. Ends(inode, i, d)
  BY <1>2, NewNodes DEF Ends
<1>. HIDE DEF c, d
<1>4. c = d
  BY <1>1, <1>3, OneEnd
<1>. QED
  BY <1>4 DEF c, d

\* What a create in the root directory writes back on its way out.
WayOut ==
    LET c == LinksFrom(Root)
    IN  [k \in 1 .. Len(c) - 1 |-> PutInode(inode[c[Len(c) - k]])]

(* The writes of a plan and those on the way out, as a create begins. *)
LEMMA PlanBegins ==
  ASSUME Nodes, Nodes', inode' = inode, NEW A, NEW m \in Nat, Len(A) = m, A \in Seq(Writes),
         todo' = A \o WayOut
  PROVE  Begins(A)'
<1>. DEFINE c == LinksFrom(Root)
            back == [k \in 1 .. Len(c) - 1 |-> PutInode(inode[c[Len(c) - k]])]
<1>1. Ends(inode, Root, c) /\ Increasing(c)
  BY LinksLead, Basics
<1>2. c \in Seq(Inodes) /\ Len(c) \in Nat \ {0} /\ DOMAIN c = 1 .. Len(c) /\ Bottom = c[Len(c)]
  BY <1>1, EmptySeq, LenProperties DEF Ends, Bottom, Last
<1>3. \A k \in 1 .. Len(c) - 1 : \E j \in DirInodes \ {Bottom} :
         PutInode(inode[c[Len(c) - k]]) = PutInode(inode[j])
  <2>. TAKE k \in 1 .. Len(c) - 1
  <2>. HIDE DEF c
  <2>1. Len(c) - k \in 1 .. Len(c) /\ Len(c) - k < Len(c) /\ Len(c) \in 1 .. Len(c)
    BY <1>2
  <2>2. c[Len(c) - k] < c[Len(c)] /\ c[Len(c) - k] \in Inodes
    BY <1>1, <1>2, <2>1 DEF Increasing
  <2>3. c[Len(c) - k] \in Nat
    BY <2>2, Basics
  <2>4. c[Len(c) - k] # Bottom
    BY <1>2, <2>2, <2>3
  <2>5. c[Len(c) - k] \in DirInodes
    BY <1>2, <2>1 DEF DirInodes, ToSet, c
  <2>. QED
    BY <2>4, <2>5
<1>4. Len(back) = Len(c) - 1 /\ back \in Seq(Writes)
  <2>1. \A k \in 1 .. Len(c) - 1 : c[Len(c) - k] \in Inodes
    BY <1>2
  <2>2. \A k \in 1 .. Len(c) - 1 : PutInode(inode[c[Len(c) - k]]) \in Writes
    BY <2>1 DEF Writes, Nodes
  <2>. HIDE DEF c
  <2>. QED
    BY <1>2, <2>2
<1>5. \A k \in 1 .. Len(back) : \E j \in DirInodes \ {Bottom} : back[k] = PutInode(inode[j])
  BY <1>3, <1>4
<1>6. todo' = A \o back
  BY DEF WayOut
<1>. HIDE DEF back, c
<1>7. Len(back) \in Nat /\ Len(A) \in Nat
  BY <1>4, LenProperties
<1>8. /\ Len(todo') = m + Len(back)
      /\ \A k \in 1 .. m : todo'[k] = A[k]
      /\ \A k \in 1 .. m + Len(back) : ~ (k <= m) => todo'[k] = back[k - m]
  <2>. DEFINE t == A \o back
  <2>1. /\ Len(t) = Len(A) + Len(back)
        /\ \A k \in 1 .. Len(A) + Len(back) : t[k] = IF k <= Len(A) THEN A[k] ELSE back[k - Len(A)]
    BY <1>4, ConcatProperties
  <2>. HIDE DEF t
  <2>2. \A k \in 1 .. m : k \in 1 .. m + Len(back) /\ k <= m
    BY <1>7
  <2>3. todo' = t
    BY <1>6 DEF t
  <2>. QED
    BY <2>1, <2>2, <2>3
<1>9. \A k \in m + 1 .. Len(todo') : \E j \in DirInodes \ {Bottom} : todo'[k] = PutInode(inode[j])
  <2>. TAKE k \in m + 1 .. Len(todo')
  <2>1. \A u, v \in Nat : \A i \in u + 1 .. u + v :
           i \in 1 .. u + v /\ ~ (i <= u) /\ i - u \in 1 .. v
    OBVIOUS
  <2>2. k \in m + 1 .. m + Len(back)
    BY <1>8
  <2>3. k \in 1 .. m + Len(back) /\ ~ (k <= m) /\ k - m \in 1 .. Len(back)
    BY <1>7, <2>1, <2>2
  <2>. QED
    BY <1>5, <1>8, <2>3
<1>10. Len(todo') >= m
  <2>1. \A u, v \in Nat : u + v >= u
    OBVIOUS
  <2>2. Len(todo') = m + Len(back)
    BY <1>8
  <2>. QED
    BY <1>7, <2>1, <2>2
<1>11. DirInodes' = DirInodes /\ Bottom' = Bottom
  BY SameTree
<1>. QED
  BY <1>8, <1>9, <1>10, <1>11 DEF Begins

(* Four writes and one are five. *)
LEMMA FiveInARow ==
  ASSUME NEW a, NEW b, NEW c, NEW d, NEW f
  PROVE  <<a, b, c, d>> \o <<f>> = <<a, b, c, d, f>>
<1>. DEFINE S == {a, b, c, d, f}
            p == <<a, b, c, d>>  q == <<f>>  r == <<a, b, c, d, f>>
<1>1. /\ p \in Seq(S) /\ Len(p) = 4 /\ q \in Seq(S) /\ Len(q) = 1 /\ r \in Seq(S) /\ Len(r) = 5
      /\ p[1] = r[1] /\ p[2] = r[2] /\ p[3] = r[3] /\ p[4] = r[4] /\ q[1] = r[5]
  OBVIOUS
<1>. HIDE DEF S, p, q, r
<1>2. /\ p \o q \in Seq(S) /\ Len(p \o q) = 5
      /\ \A i \in 1 .. 5 : (p \o q)[i] = IF i <= 4 THEN p[i] ELSE q[i - 4]
  <2>1. /\ p \o q \in Seq(S) /\ Len(p \o q) = Len(p) + Len(q)
        /\ \A i \in 1 .. Len(p) + Len(q) : (p \o q)[i] = IF i <= Len(p) THEN p[i] ELSE q[i - Len(p)]
    BY <1>1, ConcatProperties
  <2>2. Len(p) + Len(q) = 5
    BY <1>1
  <2>. QED
    BY <1>1, <2>1, <2>2
<1>3. \A i \in 1 .. 5 : (p \o q)[i] = r[i]
  <2>1. \A i \in 1 .. 5 : i = 1 \/ i = 2 \/ i = 3 \/ i = 4 \/ i = 5
    OBVIOUS
  <2>. QED
    BY <1>1, <1>2, <2>1
<1>4. p \o q = r
  BY <1>1, <1>2, <1>3, SeqEqual
<1>. QED
  BY <1>4 DEF p, q, r

(* A create in the root directory leaves the writes of a plan to come, one in
   a file leaves none. *)
LEMMA CreateStep ==
  ASSUME Reserve >= 2, LinksInv, LinksInv', Dirs, Settled, Where, NEW name \in Names,
         sfs_create(name)
  PROVE  /\ Dirs' /\ Entries' = Entries
         /\ Unfinished' \/ (Settled' /\ ino # Root)
<1>0. Nodes /\ Nodes' /\ ToCome /\ InOrder
  BY DEF LinksInv
<1>1. /\ inode' = inode /\ free' = free /\ todo' = create_inode_real(ino, name)
      /\ opening' = {name} /\ Cardinality(free) >= Reserve
  BY DEF sfs_create, disk
<1>2. DirInodes' = DirInodes /\ Bottom' = Bottom /\ Entries' = Entries /\ Tree' = Tree
  BY <1>0, <1>1, SameTree
<1>3. Dirs' /\ Used' = Used /\ Written(Entries)'
  BY <1>1, <1>2 DEF Dirs, Used, Settled, Written
<1>4. CASE ino = Root
  <2>. DEFINE dir == inode[Bottom]
              K == CASE dir.flag = "FILE" -> <<>>
                     [] dir.flag # "FILE" /\ Len(dir.entries) = PtrNum - 1 -> AddLink(dir, name)
                     [] dir.flag # "FILE" /\ Len(dir.entries) < PtrNum - 1 -> AddEntry(dir, name)
  <2>1. /\ dir \in Node /\ dir.flag # "FILE" /\ dir.iid = Bottom
        /\ Len(dir.entries) \in Nat /\ PtrNum \in Nat /\ Len(dir.entries) < PtrNum
        /\ Bottom \in Tree /\ free \in SUBSET Inodes
    <3>1. dir \in Node /\ dir.flag # "FILE" /\ dir.iid = Bottom /\ Bottom \in Tree
      BY <1>0, DirFacts DEF Nodes, Dirs, Tree
    <3>. HIDE DEF dir
    <3>. QED
      BY <1>0, <3>1, SfsAssumption DEF Node, InOrder
  <2>2. Bottom \notin free
    BY <2>1 DEF Settled, Used
  <2>3. todo' = K \o WayOut
    BY <1>1, <1>4 DEF create_inode_real, Bottom, WayOut
  <2>4. CASE Len(dir.entries) = PtrNum - 1
    <3>. DEFINE n == findFreeInode(free)
                x == findFreeInode(free \ {n})
                e == EntryOf(name, x)
                A == <<MarkUsed(n), PutInode(With(LinkNode(n), e)), PutInode(FileNode(x)),
                       MarkUsed(x), PutInode(LinkedTo(n))>>
    <3>1. todo' = AddLink(dir, name) \o WayOut
      <4>1. K = AddLink(dir, name)
        BY <2>1, <2>4
      <4>. HIDE DEF K
      <4>. QED
        BY <2>3, <4>1
    <3>2. AddLink(dir, name) = A
      <4>1. /\ LinkNode(n).iid = n /\ LinkNode(n) = NewInode(n, "LINK")
        BY NewNodes DEF LinkNode
      <4>2. AddEntry(LinkNode(n), name) =
               <<MarkUsed(n), PutInode(With(LinkNode(n), e)), PutInode(FileNode(x)), MarkUsed(x)>>
        BY <4>1 DEF AddEntry, With, EntryOf, FileNode
      <4>3. AddLink(dir, name) = AddEntry(LinkNode(n), name) \o <<PutInode(LinkedTo(n))>>
        BY <4>1 DEF AddLink, LinkedTo
      <4>. QED
        BY <4>2, <4>3, FiveInARow
    <3>3. n \in free /\ x \in free \ {n}
      <4>1. free # {} /\ free \ {n} # {}
        BY <1>1, <2>1, TwoFree
      <4>. QED
        BY <2>1, <4>1, FirstFree
    <3>4. A \in Seq(Writes)
      BY <1>0, <1>1, <2>1, <2>2, <3>2, AddLinkComes
    <3>5. \E m \in Nat : Len(A) = m
      <4>1. \A a, b, c, d, f : Len(<<a, b, c, d, f>>) = 5
        OBVIOUS
      <4>. QED
        BY <4>1
    <3>6. Begins(A)'
      <4>1. PICK B : B = A
        OBVIOUS
      <4>2. Begins(B)'
        <5>. HIDE DEF A
        <5>. QED
          BY <1>0, <1>1, <3>1, <3>2, <3>4, <3>5, <4>1, PlanBegins
      <4>3. n' = n
        BY <1>1
      <4>4. LinkedTo(n)' = LinkedTo(n)
        BY <1>1, <1>2 DEF LinkedTo
      <4>5. A' = B
        BY <1>1, <4>1, <4>3, <4>4
      <4>. QED
        BY <4>2, <4>5
    <3>7. PICK nn, xx : nn = n /\ xx = x
      OBVIOUS
    <3>8. Linking(name, nn, xx)'
      <4>1. nn \notin Tree' /\ xx \notin Tree' /\ Used' = Tree'
        BY <1>2, <1>3, <3>3, <3>7 DEF Settled, Used
      <4>2. Begins(<<MarkUsed(nn), PutInode(With(LinkNode(nn), EntryOf(name, xx))),
                     PutInode(FileNode(xx)), MarkUsed(xx), PutInode(LinkedTo(nn))>>)'
        <5>1. n' = nn /\ x' = xx
          BY <1>1, <3>7
        <5>. HIDE DEF n, x
        <5>. QED
          BY <3>6, <5>1
      <4>. QED
        BY <1>3, <4>1, <4>2 DEF Linking
    <3>. QED
      BY <1>1, <1>2, <1>3, <2>1, <3>3, <3>7, <3>8 DEF Unfinished
  <2>5. CASE Len(dir.entries) < PtrNum - 1
    <3>. DEFINE x == findFreeInode(free)
                e == EntryOf(name, x)
                A == <<MarkUsed(Bottom), PutInode(With(dir, e)), PutInode(FileNode(x)), MarkUsed(x)>>
    <3>1. todo' = AddEntry(dir, name) \o WayOut
      <4>1. K = AddEntry(dir, name)
        BY <2>1, <2>5
      <4>. HIDE DEF K
      <4>. QED
        BY <2>3, <4>1
    <3>2. AddEntry(dir, name) = A
      <4>1. free \ {Bottom} = free
        BY <2>2
      <4>. QED
        BY <2>1, <4>1 DEF AddEntry, With, EntryOf, FileNode
    <3>3. x \in free
      <4>1. free # {}
        BY <1>1, <2>1, TwoFree
      <4>. QED
        BY <2>1, <4>1, FirstFree
    <3>4. A \in Seq(Writes)
      <4>1. free \ {dir.iid} # {} /\ \A j \in Inodes : j < dir.iid => j \notin free
        <5>1. Bottom \in Inodes \ free /\ \A j \in Inodes : j \in Nat
          BY <2>1, <2>2, Basics DEF Node
        <5>2. \A j \in free : ~ (j < Bottom)
          BY <1>0, <5>1, <2>1 DEF InOrder
        <5>. QED
          BY <1>1, <2>1, <5>2, TwoFree
      <4>. QED
        BY <1>0, <2>1, <2>5, <3>2, <4>1, AddEntryComes
    <3>5. \E m \in Nat : Len(A) = m
      <4>1. \A a, b, c, d : Len(<<a, b, c, d>>) = 4
        OBVIOUS
      <4>. QED
        BY <4>1
    <3>6. Begins(A)'
      <4>1. PICK B : B = A
        OBVIOUS
      <4>2. Begins(B)'
        <5>. HIDE DEF A
        <5>. QED
          BY <1>0, <1>1, <3>1, <3>2, <3>4, <3>5, <4>1, PlanBegins
      <4>3. A' = B
        BY <1>1, <1>2, <4>1
      <4>. QED
        BY <4>2, <4>3
    <3>7. PICK xx : xx = x
      OBVIOUS
    <3>8. Adding(name, xx)'
      <4>1. Begins(<<MarkUsed(Bottom), PutInode(With(inode[Bottom], EntryOf(name, xx))),
                     PutInode(FileNode(xx)), MarkUsed(xx)>>)'
        <5>1. x' = xx
          BY <1>1, <3>7
        <5>. HIDE DEF x
        <5>. QED
          BY <3>6, <5>1
      <4>2. Used' = Tree'
        BY <1>2, <1>3 DEF Settled
      <4>. QED
        BY <1>3, <4>1, <4>2 DEF Adding
    <3>. QED
      BY <1>1, <1>2, <1>3, <3>3, <3>7, <3>8 DEF Unfinished
  <2>6. Len(dir.entries) = PtrNum - 1 \/ Len(dir.entries) < PtrNum - 1
    BY <2>1
  <2>. QED
    BY <2>4, <2>5, <2>6
<1>5. CASE \E e \in Entries : ino = e.ino
  <2>1. ino \in Inodes /\ inode[ino] = FileNode(ino) /\ ino # Root
    BY <1>0, <1>5, EntryFacts, DirFacts DEF Settled, Written, Dirs
  <2>2. LinksFrom(ino) = <<ino>>
    BY <1>0, <2>1, FileAlone
  <2>3. inode[ino].flag = "FILE"
    BY <2>1, NewNodes
  <2>4. todo' = <<>>
    <3>1. \A i : Last(<<i>>) = i /\ Len(<<i>>) = 1
      BY DEF Last
    <3>2. \A i : [k \in 1 .. Len(<<i>>) - 1 |-> PutInode(inode[(<<i>>)[Len(<<i>>) - k]])] = <<>>
      OBVIOUS
    <3>3. <<>> \o <<>> = <<>>
      OBVIOUS
    <3>. QED
      BY <1>1, <2>2, <2>3, <3>1, <3>2, <3>3 DEF create_inode_real
  <2>5. Settled'
    <3>1. \A k \in 1 .. Len(<<>>) : FALSE
      OBVIOUS
    <3>. QED
      BY <1>2, <1>3, <2>4, <3>1 DEF Settled
  <2>. QED
    BY <1>2, <1>3, <2>1, <2>5
<1>. QED
  BY <1>4, <1>5 DEF Where

-----------------------------------------------------------------------------
(* The tree and the bitmap, in every state that no crash has come before.  *)

Uncut ==
    /\ crashes \in Nat
    /\ crashes = 0 => /\ TreeInv /\ Where
                      /\ ino = Root => Arrived \/ Unfinished
                      /\ ~ mounted => todo = <<>> /\ opening = {}

(* A create that is amid its writes has some to make. *)
LEMMA UnfinishedWrites ==
  ASSUME Unfinished, LinksInv
  PROVE  todo # <<>> /\ opening # {}
<1>1. Len(todo) \in Nat /\ Len(<<>>) = 0
  BY LenProperties, EmptySeq DEF LinksInv, ToCome
<1>2. \A p : Len(p) \in Nat \ {0} /\ Begins(p) => todo # <<>>
  BY <1>1 DEF Begins
<1>3. /\ \A a : Len(<<a>>) \in Nat \ {0}
      /\ \A a, b : Len(<<a, b>>) \in Nat \ {0}
      /\ \A a, b, c : Len(<<a, b, c>>) \in Nat \ {0}
      /\ \A a, b, c, d : Len(<<a, b, c, d>>) \in Nat \ {0}
      /\ \A a, b, c, d, f : Len(<<a, b, c, d, f>>) \in Nat \ {0}
  OBVIOUS
<1>4. ASSUME NEW name, NEW x, Adding(name, x) PROVE todo # <<>>
  BY <1>2, <1>3, <1>4 DEF Adding
<1>5. ASSUME NEW name, NEW n, NEW x, Linking(name, n, x) PROVE todo # <<>>
  BY <1>2, <1>3, <1>5 DEF Linking
<1>. QED
  BY <1>4, <1>5 DEF Unfinished

(* When a mounted disk has no writes to come it is settled, and when it has a
   file to look up. *)
LEMMA AtRest ==
  ASSUME LinksInv, TreeInv, todo = <<>>, mounted \/ opening # {}
  PROVE  Settled /\ ~ Unfinished
<1>1. ~ Unfinished
  BY UnfinishedWrites
<1>2. Format # <<>> /\ \A a, b, c : <<a, b, c>> # <<>> /\ <<a, b>> # <<>>
  BY DEF Format
<1>3. ~ Formatting
  BY <1>2 DEF Formatting
<1>. QED
  BY <1>1, <1>3 DEF TreeInv

(* A name that is found is that of a file. *)
LEMMA LookedUp ==
  ASSUME LinksInv, Settled, Where, NEW name, ~ NotFound(path_ino_mapping(name))
  PROVE  \E e \in Entries : path_ino_mapping(name) = e.ino
<1>. DEFINE q == inode[ino].entries
<1>1. Nodes /\ ino \in Inodes /\ q \in Seq(Slot)
  BY NodeParts DEF LinksInv, Asked, Nodes
<1>2. Matches(name) # {}
  BY SfsAssumption DEF path_ino_mapping, Missing, NotFound
<1>3. PICK k \in DOMAIN q : k \in Matches(name)
  BY <1>2 DEF Matches
<1>4. ino = Root
  <2>. SUFFICES ASSUME NEW e \in Entries, ino = e.ino PROVE FALSE
    BY DEF Where
  <2>1. q = <<>>
    BY NewNodes DEF Settled, Written
  <2>. QED
    BY <1>3, <2>1
<1>5. \A e \in ToSet(q) : e \in Entries
  BY <1>1, <1>4, DirFacts DEF Entries
<1>6. Min(Matches(name)) \in Matches(name)
  <2>1. Matches(name) \in SUBSET Nat
    BY <1>1 DEF Matches
  <2>2. PICK n \in Matches(name) : \A m \in Matches(name) : ~ (m < n)
    BY <1>2, <2>1, LeastNumber
  <2>3. \A m \in Matches(name) : n <= m
    BY <2>1, <2>2
  <2>. QED
    BY <2>3 DEF Min
<1>7. Min(Matches(name)) \in DOMAIN q
  BY <1>6 DEF Matches
<1>8. q[Min(Matches(name))] \in ToSet(q)
  BY <1>7 DEF ToSet
<1>9. path_ino_mapping(name) = q[Min(Matches(name))].ino
  BY <1>2 DEF path_ino_mapping
<1>. QED
  BY <1>5, <1>8, <1>9

(* What a step makes of the tree. *)
OneMoreFile ==
    \E name \in Names : \E x \in Inodes :
        x \notin Tree /\ Entries' = Entries \cup {EntryOf(name, x)}

(* Every block write of an uncut create. *)
LEMMA WriteTree ==
  ASSUME LinksInv, TreeInv, WriteBlock
  PROVE  /\ TreeInv' /\ Keeps
         /\ Entries' = Entries \/ OneMoreFile
         /\ Unfinished' \/ (Settled' /\ Arrived') \/ ~ Unfinished
<1>0. /\ opening' = opening /\ Dirs /\ free \in SUBSET Inodes
  BY DEF WriteBlock, client, TreeInv, LinksInv, InOrder
<1>1. CASE Formatting /\ ~ Unfinished
  <2>1. Dirs' /\ (Formatting' \/ Settled') /\ Entries' = Entries /\ inode' = inode
    BY <1>0, <1>1, FormattingStep
  <2>. QED
    BY <1>1, <2>1 DEF TreeInv, Keeps
<1>2. CASE Settled /\ ~ Unfinished
  <2>1. Dirs' /\ Settled' /\ Entries' = Entries /\ inode' = inode
    BY <1>0, <1>2, SettledStep
  <2>. QED
    BY <1>2, <2>1 DEF TreeInv, Keeps
<1>3. ASSUME NEW name \in Names, NEW x \in free, opening = {name}, Adding(name, x)
      PROVE  /\ TreeInv' /\ Keeps
             /\ Entries' = Entries \/ OneMoreFile
             /\ Unfinished' \/ (Settled' /\ Arrived')
  <2>1. /\ Dirs' /\ Keeps
        /\ \/ x \in free' /\ Adding(name, x)'
           \/ Settled' /\ EntryOf(name, x) \in Entries'
        /\ \/ Entries' = Entries
           \/ x \notin Tree /\ Entries' = Entries \cup {EntryOf(name, x)}
    BY <1>0, <1>3, AddingStep
  <2>2. Unfinished' \/ (Settled' /\ Arrived')
    BY <1>0, <1>3, <2>1 DEF Unfinished, Arrived, EntryOf
  <2>3. Entries' = Entries \/ OneMoreFile
    BY <1>0, <1>3, <2>1 DEF OneMoreFile
  <2>. QED
    BY <2>1, <2>2, <2>3 DEF TreeInv
<1>4. ASSUME NEW name \in Names, NEW n \in Inodes, NEW x \in Inodes, n # x,
             opening = {name}, Linking(name, n, x)
      PROVE  /\ TreeInv' /\ Keeps
             /\ Entries' = Entries \/ OneMoreFile
             /\ Unfinished' \/ (Settled' /\ Arrived')
  <2>1. /\ Dirs' /\ Keeps
        /\ Linking(name, n, x)' \/ (Settled' /\ EntryOf(name, x) \in Entries')
        /\ \/ Entries' = Entries
           \/ x \notin Tree /\ Entries' = Entries \cup {EntryOf(name, x)}
    BY <1>0, <1>4, LinkingStep
  <2>2. Unfinished' \/ (Settled' /\ Arrived')
    BY <1>0, <1>4, <2>1 DEF Unfinished, Arrived, EntryOf
  <2>3. Entries' = Entries \/ OneMoreFile
    BY <1>0, <1>4, <2>1 DEF OneMoreFile
  <2>. QED
    BY <2>1, <2>2, <2>3 DEF TreeInv
<1>. QED
  BY <1>1, <1>2, <1>3, <1>4 DEF TreeInv, Unfinished

(* What leaves the disk and the writes to come alone leaves the tree as it is. *)
LEMMA SameState ==
  ASSUME LinksInv, LinksInv', UNCHANGED <<disk, todo, mounted, opening>>
  PROVE  /\ Entries' = Entries
         /\ Unfinished => Unfinished'
         /\ Settled => Settled'
         /\ TreeInv => TreeInv'
<1>1. Nodes /\ Nodes' /\ UNCHANGED <<inode, free, touched, todo, mounted, opening>>
  BY DEF disk, LinksInv
<1>2. DirInodes' = DirInodes /\ Bottom' = Bottom /\ Entries' = Entries /\ Tree' = Tree
  BY <1>1, SameTree
<1>3. \A p : Begins(p) => Begins(p)'
  BY <1>1, <1>2 DEF Begins
<1>4. ASSUME NEW name \in Names, NEW x \in free, Adding(name, x) PROVE Adding(name, x)'
  BY <1>1, <1>2, <1>3, <1>4 DEF Adding, Used, Written
<1>5. ASSUME NEW name \in Names, NEW n \in Inodes, NEW x \in Inodes, Linking(name, n, x)
      PROVE  Linking(name, n, x)'
  BY <1>1, <1>2, <1>3, <1>5 DEF Linking, Used, Written, LinkedTo
<1>6. Unfinished => Unfinished'
  BY <1>1, <1>4, <1>5 DEF Unfinished
<1>7. Settled => Settled'
  BY <1>1, <1>2 DEF Settled, Used, Written
<1>8. Formatting => Formatting'
  BY <1>1 DEF Formatting, Format, Superblock, ClearBitmap, FreshBitmap, PutInode
<1>9. Dirs => Dirs'
  BY <1>1, <1>2 DEF Dirs
<1>. QED
  BY <1>2, <1>6, <1>7, <1>8, <1>9 DEF TreeInv

(* The requests that write nothing, at rest. *)
LEMMA QuietStep ==
  ASSUME LinksInv, LinksInv', TreeInv, Settled, UNCHANGED <<disk, todo>>
  PROVE  TreeInv' /\ Settled' /\ Entries' = Entries
<1>0. Nodes /\ Nodes' /\ inode' = inode /\ free' = free /\ todo' = todo
  BY DEF LinksInv, disk
<1>1. DirInodes' = DirInodes /\ Entries' = Entries /\ Tree' = Tree
  BY <1>0, SameTree
<1>2. Settled' /\ Dirs'
  BY <1>0, <1>1 DEF TreeInv, Settled, Used, Written, Dirs
<1>. QED
  BY <1>1, <1>2 DEF TreeInv

(* The daemon starts: it finds a settled disk, or has one to format. *)
LEMMA MountStep ==
  ASSUME LinksInv, LinksInv', TreeInv, sfs_init, todo = <<>>, opening = {}
  PROVE  TreeInv' /\ Entries' = Entries /\ inode' = inode
<1>0. /\ ~ mounted /\ UNCHANGED <<disk, opening>>
      /\ todo' = IF touched THEN <<>> ELSE Format
  BY DEF sfs_init, client
<1>1. Dirs /\ Nodes /\ Nodes' /\ inode' = inode
  BY <1>0 DEF TreeInv, LinksInv, disk
<1>2. DirInodes' = DirInodes /\ Entries' = Entries
  BY <1>1, SameTree
<1>3. CASE touched
  <2>1. Settled
    <3>1. ~ Unfinished
      BY UnfinishedWrites
    <3>2. Format # <<>> /\ \A a, b, c : <<a, b, c>> # <<>> /\ <<a, b>> # <<>>
      BY DEF Format
    <3>3. ~ Formatting
      BY <1>3, <3>2 DEF Formatting
    <3>. QED
      BY <3>1, <3>3 DEF TreeInv
  <2>2. UNCHANGED <<disk, todo>>
    BY <1>0, <1>3
  <2>. QED
    BY <1>1, <2>1, <2>2, QuietStep
<1>4. CASE ~ touched
  <2>1. inode = [i \in Inodes |-> Zeros]
    BY <1>4 DEF LinksInv, Blank
  <2>2. Formatting'
    BY <1>0, <1>1, <1>4, <2>1 DEF Formatting, Format, Superblock, ClearBitmap, FreshBitmap, PutInode
  <2>3. Dirs'
    BY <1>1, <1>2 DEF Dirs
  <2>. QED
    BY <1>1, <1>2, <2>2, <2>3 DEF TreeInv
<1>. QED
  BY <1>3, <1>4

(* Every step of an uncut life of the daemon keeps the invariant and adds at
   most one file. *)
LEMMA UncutStep ==
  ASSUME Reserve >= 2, LinksInv, LinksInv', Uncut, [Next]_vars
  PROVE  Uncut' /\ (crashes = 0 => Entries' = Entries \/ OneMoreFile)
<1>. DEFINE P == /\ TreeInv' /\ Where' /\ (ino' = Root => Arrived' \/ Unfinished')
                 /\ ~ mounted' => todo' = <<>> /\ opening' = {}
            Q == Entries' = Entries \/ OneMoreFile
<1>1. CASE Crash
  <2>1. crashes' = crashes + 1 /\ inode' = inode
    BY <1>1 DEF Crash, disk
  <2>2. Entries' = Entries
    BY <2>1, SameTree DEF LinksInv
  <2>. QED
    BY <2>1, <2>2 DEF Uncut
<1>2. crashes' = crashes \/ Crash
  BY DEF Next, vars, sfs_init, sfs_destroy, WriteBlock, GetattrRoot, LookupCreated,
         sfs_release, sfs_getattr, sfs_create
<1>3. SUFFICES ASSUME crashes = 0, crashes' = 0 PROVE P /\ Q
  BY <1>1, <1>2 DEF Uncut
<1>4. /\ TreeInv /\ Where /\ (ino = Root => Arrived \/ Unfinished) /\ Dirs
      /\ Nodes /\ Nodes' /\ (~ mounted => todo = <<>> /\ opening = {})
  BY <1>3 DEF Uncut, TreeInv, LinksInv
<1>5. ASSUME UNCHANGED <<disk, todo>>, opening' = {}, Settled,
             ino' = Root \/ \E e \in Entries : ino' = e.ino,
             mounted' \/ todo = <<>>
      PROVE  P /\ Q
  <2>1. TreeInv' /\ Settled' /\ Entries' = Entries
    BY <1>4, <1>5, QuietStep
  <2>. QED
    BY <1>5, <2>1 DEF Where, Arrived
<1>6. ASSUME Ready
      PROVE  Settled /\ ~ Unfinished /\ opening = {} /\ todo = <<>>
  BY <1>4, <1>6, AtRest DEF Ready
<1>7. CASE sfs_init
  <2>1. mounted' /\ ino' = Root /\ opening' = {} /\ todo = <<>> /\ opening = {}
    BY <1>4, <1>7 DEF sfs_init, client, Root
  <2>2. TreeInv' /\ Entries' = Entries
    BY <1>4, <1>7, <2>1, MountStep
  <2>. QED
    BY <2>1, <2>2 DEF Where, Arrived
<1>8. CASE sfs_destroy
  <2>1. Ready /\ UNCHANGED <<disk, todo, ino, opening>>
    BY <1>8 DEF sfs_destroy
  <2>. QED
    BY <1>4, <1>5, <1>6, <2>1 DEF Where
<1>9. CASE WriteBlock
  <2>1. mounted' = mounted /\ todo # <<>> /\ ino' = ino /\ opening' = opening
    BY <1>9 DEF WriteBlock, client
  <2>2. TreeInv' /\ Q /\ (Unfinished' \/ (Settled' /\ Arrived') \/ ~ Unfinished)
    BY <1>4, <1>9, WriteTree
  <2>3. Where' /\ (Arrived => Arrived')
    <3>1. \A e \in Entries : e \in Entries'
      BY <2>2 DEF OneMoreFile
    <3>. QED
      BY <1>4, <2>1, <3>1 DEF Where, Arrived
  <2>. QED
    BY <1>4, <2>1, <2>2, <2>3
<1>10. CASE GetattrRoot
  <2>1. Ready /\ UNCHANGED <<disk, todo, opening>> /\ ino' = Root
    BY <1>10 DEF GetattrRoot, client, Root
  <2>. QED
    BY <1>5, <1>6, <2>1
<1>11. CASE LookupCreated
  <2>. DEFINE name == CHOOSE n \in opening : TRUE
              sign == path_ino_mapping(name)
  <2>1. /\ todo = <<>> /\ opening # {} /\ opening' = {} /\ UNCHANGED <<disk, todo>>
        /\ NotFound(sign) => ino' = Root
        /\ ~ NotFound(sign) => ino' = sign
    BY <1>11 DEF LookupCreated, Root
  <2>2. Settled
    BY <1>4, <2>1, AtRest
  <2>3. ~ NotFound(sign) => \E e \in Entries : sign = e.ino
    BY <1>4, <2>2, LookedUp
  <2>. QED
    BY <1>5, <2>1, <2>2, <2>3
<1>12. CASE sfs_release
  <2>1. Ready /\ UNCHANGED <<disk, todo, opening>> /\ ino' = Root
    BY <1>12 DEF sfs_release, Root
  <2>. QED
    BY <1>5, <1>6, <2>1
<1>13. ASSUME NEW name \in Names, sfs_getattr(name) PROVE P /\ Q
  <2>. DEFINE sign == path_ino_mapping(name)
  <2>1. /\ Ready /\ UNCHANGED <<disk, todo, opening>>
        /\ NotFound(sign) => ino' = ino
        /\ ~ NotFound(sign) => ino' = sign
    BY <1>13 DEF sfs_getattr
  <2>2. ~ NotFound(sign) => \E e \in Entries : sign = e.ino
    BY <1>4, <1>6, <2>1, LookedUp
  <2>. QED
    BY <1>4, <1>5, <1>6, <2>1, <2>2 DEF Where
<1>14. ASSUME NEW name \in Names, sfs_create(name) PROVE P /\ Q
  <2>1. Ready /\ ino' = ino /\ mounted' = mounted /\ mounted
    BY <1>14 DEF sfs_create, Ready
  <2>2. /\ Dirs' /\ Entries' = Entries
        /\ Unfinished' \/ (Settled' /\ ino # Root)
    BY <1>4, <1>6, <1>14, <2>1, CreateStep
  <2>. QED
    BY <1>4, <2>1, <2>2 DEF TreeInv, Where
<1>15. CASE UNCHANGED vars
  <2>1. UNCHANGED <<disk, todo, mounted, ino, opening>>
    BY <1>15 DEF vars, client
  <2>2. Entries' = Entries /\ TreeInv' /\ (Unfinished => Unfinished')
    BY <1>4, <2>1, SameState
  <2>3. Where' /\ (Arrived => Arrived')
    BY <1>4, <2>1, <2>2 DEF Where, Arrived
  <2>. QED
    BY <1>4, <2>1, <2>2, <2>3
<1>16. ~ Crash
  BY <1>3 DEF Crash
<1>. HIDE DEF P, Q
<1>. QED
  BY <1>7, <1>8, <1>9, <1>10, <1>11, <1>12, <1>13, <1>14, <1>15, <1>16 DEF Next

(* The invariant holds until a crash, and says nothing after it. *)
LEMMA UncutAlways ==
  ASSUME Reserve >= 2
  PROVE  Spec => [](LinksInv /\ Uncut)
<1>1. Init => Uncut
  <2>. SUFFICES ASSUME Init PROVE Uncut
    OBVIOUS
  <2>1. /\ crashes = 0 /\ ino = Root /\ ~ mounted /\ todo = <<>> /\ opening = {} /\ ~ touched
        /\ inode = [i \in Inodes |-> Zeros]
    BY DEF Init, Root
  <2>2. Nodes
    BY LinksInvInit DEF LinksInv
  <2>3. DirInodes = {Root} /\ Entries = {}
    BY <2>1, <2>2, BlankTree
  <2>4. Formatting
    BY <2>1 DEF Formatting
  <2>5. Dirs
    BY <2>1, <2>3, Basics DEF Dirs, Root
  <2>. QED
    BY <2>1, <2>4, <2>5 DEF Uncut, TreeInv, Where, Arrived
<1>2. Init => LinksInv
  BY LinksInvInit
<1>3. LinksInv /\ [Next]_vars => LinksInv'
  BY LinksInvStep
<1>4. LinksInv /\ LinksInv' /\ Uncut /\ [Next]_vars => Uncut'
  BY UncutStep
<1>. QED
  BY <1>1, <1>2, <1>3, <1>4, PTL DEF Spec

(* Between calls, until a crash cuts a create short, every inode in use can *)
(* be reached from the root and none that can be reached is given away      *)
(* (findFreeInode, update_inode_bitmap), whatever number of inodes the      *)
(* directory has grown over.                                                *)
THEOREM BitmapMatchesTreeCorrect ==
  ASSUME Reserve >= 2
  PROVE  Spec => []BitmapMatchesTree
<1>1. LinksInv /\ Uncut => BitmapMatchesTree
  BY AtRest DEF Uncut, BitmapMatchesTree, Ready, Settled, Used
<1>. QED
  BY <1>1, UncutAlways, PTL

(* When the writes of a create in the root directory are done, the file is  *)
(* in the tree (create_inode_real, inode.c:21-118).                         *)
THEOREM CreateArrivesCorrect ==
  ASSUME Reserve >= 2
  PROVE  Spec => []CreateArrives
<1>1. LinksInv /\ Uncut => CreateArrives
  BY UnfinishedWrites DEF Uncut, CreateArrives, Arrived
<1>. QED
  BY <1>1, UncutAlways, PTL

(* Every block write of every call, until a crash cuts a create short,      *)
(* keeps all files of the abstract directory and adds at most one, with an  *)
(* inode that no file has.                                                  *)
THEOREM ImplementsDirectoryCorrect ==
  ASSUME Reserve >= 2
  PROVE  Spec => ImplementsDirectory
<1>1. Init => Dir!Init
  <2>. SUFFICES ASSUME Init PROVE Entries = {}
    BY DEF Dir!Init
  <2>1. Nodes /\ inode = [i \in Inodes |-> Zeros]
    BY LinksInvInit DEF LinksInv, Init
  <2>. QED
    BY <2>1, BlankTree
<1>2. LinksInv /\ LinksInv' /\ Uncut /\ [Next]_vars => [crashes = 0 => Dir!Next]_Entries
  <2>. SUFFICES ASSUME LinksInv, LinksInv', Uncut, [Next]_vars, crashes = 0, Entries' # Entries
                PROVE  Dir!Next
    OBVIOUS
  <2>1. OneMoreFile
    BY UncutStep
  <2>2. PICK name \in Names, x \in Inodes :
           x \notin Tree /\ Entries' = Entries \cup {EntryOf(name, x)}
    BY <2>1 DEF OneMoreFile
  <2>3. x \in Inodes \ {Root} /\ \A e \in Entries : e.ino # x
    BY <2>2, DirFacts DEF Tree, LinksInv
  <2>4. Dir!Create(Stored[name])
    BY <2>2, <2>3 DEF Dir!Create, EntryOf
  <2>. QED
    BY <2>4 DEF Dir!Next
<1>. QED
  BY <1>1, <1>2, UncutAlways, PTL DEF Spec, ImplementsDirectory

-----------------------------------------------------------------------------
(* Files are kept, through crashes amid creates.                           *)

\* The writes to come are those of plan, and then blocks outside S as they are.
Ahead(plan, S) ==
    /\ Len(todo) >= Len(plan)
    /\ \A k \in 1 .. Len(plan) : todo[k] = plan[k]
    /\ \A k \in Len(plan) + 1 .. Len(todo) :
         \E j \in Inodes \ S : todo[k] = PutInode(inode[j]) /\ inode[j].iid = j

\* Only the root is a directory of more than zeros, files hold nothing, and
\* links lead to link inodes.
InodeKinds ==
    /\ inode[Root].flag = "DIR"
    /\ \A i \in Inodes :
         /\ inode[i].flag = "FILE" => inode[i] = FileNode(i)
         /\ inode[i].flag = "DIR" => i = Root \/ inode[i] = Zeros
         /\ inode[i].link # NoLink => inode[inode[i].link].flag = "LINK"

TornLink == \E e \in Entries : inode[e.ino].flag = "LINK"

\* The block that names are looked up in is empty and stays so while the file
\* is made elsewhere.
Stranded ==
    /\ opening # {} /\ inode[ino].entries = <<>>
    /\ \A k \in 1 .. Len(todo) : \A data :
         todo[k] = PutInode(data) /\ data.iid = ino => data.entries = <<>>

\* r is the end of some links, or a block of zeros that overwrites the root.
Target(r) ==
    /\ r \in Node /\ r.flag # "FILE" /\ r.link = NoLink
    /\ inode[r.iid] = r \/ (r = Zeros /\ TornCreate /\ Stranded)

\* The writes of AddEntry are under way, for a directory inode r anywhere on
\* the disk.
Growing(r, e) ==
    LET file == PutInode(FileNode(e.ino))
        mark == MarkUsed(e.ino)
        S    == {r.iid, e.ino}
    IN  \/ Target(r) /\ Ahead(<<MarkUsed(r.iid), PutInode(With(r, e)), file, mark>>, S)
        \/ Target(r) /\ Ahead(<<PutInode(With(r, e)), file, mark>>, S)
        \/ Ahead(<<file, mark>>, S)
        \/ Ahead(<<mark>>, S)

\* The writes of AddLink are under way, for a directory inode r anywhere on
\* the disk.
Stretching(r, n, e) ==
    LET new    == With(LinkNode(n), e)
        file   == PutInode(FileNode(e.ino))
        mark   == MarkUsed(e.ino)
        linked == PutInode([r EXCEPT !.link = n])
        S      == {r.iid, n, e.ino}
    IN  /\ r.flag # "FILE" /\ r.link = NoLink /\ inode[r.iid] = r
        /\ n \notin DirInodes /\ n # r.iid /\ n # e.ino
        /\ \/ /\ n \in free /\ e.ino \in free
              /\ Ahead(<<MarkUsed(n), PutInode(new), file, mark, linked>>, S)
           \/ e.ino \in free /\ Ahead(<<PutInode(new), file, mark, linked>>, S)
           \/ e.ino \in free /\ inode[n] = new /\ Ahead(<<file, mark, linked>>, S)
           \/ inode[n] = new /\ Ahead(<<mark, linked>>, S)
           \/ inode[n] = new /\ Ahead(<<linked>>, S)

Blanking ==
    /\ inode = [i \in Inodes |-> Zeros]
    /\ \/ todo = Format
       \/ todo = <<ClearBitmap, FreshBitmap, PutInode(Zeros)>>
       \/ todo = <<FreshBitmap, PutInode(Zeros)>>

Plans ==
    \/ Blanking
    \/ Ahead(<<>>, {})
    \/ \E r \in Node : \E e \in Slot : e.ino \in free /\ Growing(r, e)
    \/ \E r \in Node : \E n \in Inodes : \E e \in Slot : Stretching(r, n, e)

InoKnown == ino \in Tree \/ TornLink \/ Stranded

CrashInv ==
    /\ InodeKinds /\ Plans
    /\ opening # {} => mounted
    /\ mounted => InoKnown

\* No inode leaves the directory, no file and no link.
Kept ==
    /\ DirInodes \in SUBSET DirInodes' /\ Entries \in SUBSET Entries'
    /\ \A i \in Inodes : inode[i].flag = "LINK" => inode'[i].flag = "LINK"

(* A write of a plan is made and the others are left, if it has kept the
   blocks that are written back behind them. *)
LEMMA RestAhead ==
  ASSUME ToCome, WriteBlock, NEW S, NEW p, NEW q, NEW m \in Nat, Len(p) = m + 1, Len(q) = m,
         \A k \in 1 .. m : q[k] = p[k + 1], Ahead(p, S)
  PROVE  /\ todo[1] = p[1]
         /\ (\A j \in Inodes \ S : inode'[j] = inode[j]) => Ahead(q, S)'
<1>1. /\ Len(todo) \in Nat \ {0} /\ Len(todo') = Len(todo) - 1
      /\ \A k \in 1 .. Len(todo') : todo'[k] = todo[k + 1]
  BY WriteDoes
<1>2. /\ Len(todo) >= m + 1
      /\ \A k \in 1 .. m + 1 : todo[k] = p[k]
      /\ \A k \in m + 2 .. Len(todo) :
            \E j \in Inodes \ S : todo[k] = PutInode(inode[j]) /\ inode[j].iid = j
  BY DEF Ahead
<1>3. todo[1] = p[1]
  <2>1. 1 \in 1 .. m + 1
    OBVIOUS
  <2>. QED
    BY <1>2, <2>1
<1>4. SUFFICES ASSUME \A j \in Inodes \ S : inode'[j] = inode[j] PROVE Ahead(q, S)'
  BY <1>3
<1>5. Len(todo') >= m
  BY <1>1, <1>2
<1>6. ASSUME NEW k \in 1 .. m PROVE todo'[k] = q[k]
  <2>1. k \in 1 .. Len(todo') /\ k + 1 \in 1 .. m + 1
    BY <1>1, <1>2
  <2>. QED
    BY <1>1, <1>2, <2>1
<1>7. ASSUME NEW k \in m + 1 .. Len(todo')
      PROVE  \E j \in Inodes \ S : todo'[k] = PutInode(inode'[j]) /\ inode'[j].iid = j
  <2>1. k \in 1 .. Len(todo') /\ k + 1 \in m + 2 .. Len(todo)
    BY <1>1, <1>2
  <2>2. PICK j \in Inodes \ S : todo[k + 1] = PutInode(inode[j]) /\ inode[j].iid = j
    BY <1>2, <2>1
  <2>3. todo'[k] = PutInode(inode'[j]) /\ inode'[j].iid = j
    BY <1>1, <1>4, <2>1, <2>2
  <2>. QED
    BY <2>2, <2>3
<1>. QED
  BY <1>5, <1>6, <1>7 DEF Ahead

(* The first of a plan of one. *)
LEMMA AheadOne ==
  ASSUME ToCome, WriteBlock, NEW S, NEW a, Ahead(<<a>>, S)
  PROVE  /\ todo[1] = a
         /\ (\A j \in Inodes \ S : inode'[j] = inode[j]) => Ahead(<<>>, S)'
<1>. DEFINE p == <<a>>  q == <<>>
<1>0. PICK m \in Nat : m = 0
  OBVIOUS
<1>1. /\ m \in Nat /\ Len(p) = m + 1 /\ Len(q) = m /\ p[1] = a
      /\ \A k \in 1 .. m : q[k] = p[k + 1]
  BY <1>0
<1>2. Ahead(p, S)
  OBVIOUS
<1>. HIDE DEF p, q
<1>3. todo[1] = a
  BY <1>1, <1>2, RestAhead
<1>4. (\A j \in Inodes \ S : inode'[j] = inode[j]) => Ahead(q, S)'
  BY <1>1, <1>2, RestAhead
<1>. QED
  BY <1>3, <1>4 DEF q

(* The first of a plan of two. *)
LEMMA AheadTwo ==
  ASSUME ToCome, WriteBlock, NEW S, NEW a, NEW b, Ahead(<<a, b>>, S)
  PROVE  /\ todo[1] = a
         /\ (\A j \in Inodes \ S : inode'[j] = inode[j]) => Ahead(<<b>>, S)'
<1>. DEFINE p == <<a, b>>  q == <<b>>
<1>0. PICK m \in Nat : m = 1
  OBVIOUS
<1>1. /\ m \in Nat /\ Len(p) = m + 1 /\ Len(q) = m /\ p[1] = a
      /\ \A k \in 1 .. m : q[k] = p[k + 1]
  BY <1>0
<1>2. Ahead(p, S)
  OBVIOUS
<1>. HIDE DEF p, q
<1>3. todo[1] = a
  BY <1>1, <1>2, RestAhead
<1>4. (\A j \in Inodes \ S : inode'[j] = inode[j]) => Ahead(q, S)'
  BY <1>1, <1>2, RestAhead
<1>. QED
  BY <1>3, <1>4 DEF q

(* The first of a plan of three. *)
LEMMA AheadThree ==
  ASSUME ToCome, WriteBlock, NEW S, NEW a, NEW b, NEW c, Ahead(<<a, b, c>>, S)
  PROVE  /\ todo[1] = a
         /\ (\A j \in Inodes \ S : inode'[j] = inode[j]) => Ahead(<<b, c>>, S)'
<1>. DEFINE p == <<a, b, c>>  q == <<b, c>>
<1>0. PICK m \in Nat : m = 2
  OBVIOUS
<1>1. /\ m \in Nat /\ Len(p) = m + 1 /\ Len(q) = m /\ p[1] = a
      /\ \A k \in 1 .. m : q[k] = p[k + 1]
  BY <1>0
<1>2. Ahead(p, S)
  OBVIOUS
<1>. HIDE DEF p, q
<1>3. todo[1] = a
  BY <1>1, <1>2, RestAhead
<1>4. (\A j \in Inodes \ S : inode'[j] = inode[j]) => Ahead(q, S)'
  BY <1>1, <1>2, RestAhead
<1>. QED
  BY <1>3, <1>4 DEF q

(* The first of a plan of four. *)
LEMMA AheadFour ==
  ASSUME ToCome, WriteBlock, NEW S, NEW a, NEW b, NEW c, NEW d, Ahead(<<a, b, c, d>>, S)
  PROVE  /\ todo[1] = a
         /\ (\A j \in Inodes \ S : inode'[j] = inode[j]) => Ahead(<<b, c, d>>, S)'
<1>. DEFINE p == <<a, b, c, d>>  q == <<b, c, d>>
<1>0. PICK m \in Nat : m = 3
  OBVIOUS
<1>1. /\ m \in Nat /\ Len(p) = m + 1 /\ Len(q) = m /\ p[1] = a
      /\ \A k \in 1 .. m : q[k] = p[k + 1]
  BY <1>0
<1>2. Ahead(p, S)
  OBVIOUS
<1>. HIDE DEF p, q
<1>3. todo[1] = a
  BY <1>1, <1>2, RestAhead
<1>4. (\A j \in Inodes \ S : inode'[j] = inode[j]) => Ahead(q, S)'
  BY <1>1, <1>2, RestAhead
<1>. QED
  BY <1>3, <1>4 DEF q

(* The first of a plan of five. *)
LEMMA AheadFive ==
  ASSUME ToCome, WriteBlock, NEW S, NEW a, NEW b, NEW c, NEW d, NEW f, Ahead(<<a, b, c, d, f>>, S)
  PROVE  /\ todo[1] = a
         /\ (\A j \in Inodes \ S : inode'[j] = inode[j]) => Ahead(<<b, c, d, f>>, S)'
<1>. DEFINE p == <<a, b, c, d, f>>  q == <<b, c, d, f>>
<1>0. PICK m \in Nat : m = 4
  OBVIOUS
<1>1. /\ m \in Nat /\ Len(p) = m + 1 /\ Len(q) = m /\ p[1] = a
      /\ \A k \in 1 .. m : q[k] = p[k + 1]
  BY <1>0
<1>2. Ahead(p, S)
  OBVIOUS
<1>. HIDE DEF p, q
<1>3. todo[1] = a
  BY <1>1, <1>2, RestAhead
<1>4. (\A j \in Inodes \ S : inode'[j] = inode[j]) => Ahead(q, S)'
  BY <1>1, <1>2, RestAhead
<1>. QED
  BY <1>3, <1>4 DEF q

(* Inodes of the directory and link inodes are in use, and where they say. *)
LEMMA KindFacts ==
  ASSUME Nodes, InOrder, InUse, InodeKinds
  PROVE  /\ \A j \in DirInodes : inode[j].iid = j /\ inode[j].flag # "FILE" /\ j \notin free
         /\ \A j \in DirInodes : inode[j].link = NoLink => j = Bottom
         /\ \A i \in Inodes : inode[i].flag = "LINK" => inode[i].iid = i /\ i \notin free
<1>. DEFINE c == LinksFrom(Root)
<1>1. Ends(inode, Root, c)
  BY LinksLead, Basics
<1>. HIDE DEF c
<1>2. /\ c \in Seq(Inodes) /\ Len(c) \in Nat \ {0} /\ DOMAIN c = 1 .. Len(c) /\ c[1] = Root
      /\ \A k \in 1 .. Len(c) - 1 : c[k + 1] = inode[c[k]].link
      /\ DirInodes = ToSet(c) /\ Bottom = c[Len(c)]
  BY <1>1, EmptySeq, LenProperties DEF Ends, DirInodes, Bottom, Last, c
<1>3. ASSUME NEW i \in Inodes, inode[i].flag = "LINK" PROVE inode[i].iid = i /\ i \notin free
  <2>1. inode[i] # Zeros /\ inode[i].flag # "FILE"
    BY <1>3, Basics
  <2>. QED
    BY <2>1 DEF Nodes, InUse
<1>4. ASSUME NEW k \in 1 .. Len(c)
      PROVE  inode[c[k]].iid = c[k] /\ inode[c[k]].flag # "FILE" /\ c[k] \notin free
  <2>1. CASE k = 1
    BY <1>2, <2>1, Basics DEF InodeKinds, Nodes, InOrder, Root
  <2>2. CASE k # 1
    <3>1. k - 1 \in 1 .. Len(c) - 1 /\ (k - 1) + 1 = k /\ k - 1 \in 1 .. Len(c)
      BY <1>2, <2>2
    <3>2. c[k] = inode[c[k - 1]].link /\ c[k] \in Inodes /\ c[k - 1] \in Inodes
      BY <1>2, <3>1
    <3>3. inode[c[k]].flag = "LINK"
      BY <3>2, Basics DEF InodeKinds
    <3>. QED
      BY <1>3, <3>2, <3>3
  <2>. QED
    BY <2>1, <2>2
<1>5. ASSUME NEW k \in 1 .. Len(c), inode[c[k]].link = NoLink PROVE c[k] = Bottom
  <2>1. CASE k = Len(c)
    BY <1>2, <2>1
  <2>2. CASE k # Len(c)
    <3>0. Len(c) \in Nat /\ k \in Nat /\ 1 <= k /\ k <= Len(c)
      BY <1>2
    <3>1. k \in 1 .. Len(c) - 1 /\ k + 1 \in 1 .. Len(c)
      BY <2>2, <3>0
    <3>2. c[k + 1] = NoLink /\ c[k + 1] \in Inodes
      BY <1>2, <1>5, <3>1
    <3>. QED
      BY <3>2, Basics
  <2>. QED
    BY <2>1, <2>2
<1>6. \A j \in DirInodes : \E k \in 1 .. Len(c) : j = c[k]
  BY <1>2 DEF ToSet
<1>. QED
  BY <1>3, <1>4, <1>5, <1>6

(* A block is written. *)
LEMMA KindsAfter ==
  ASSUME Nodes, InodeKinds, NEW i \in Inodes, NEW data, inode' = [inode EXCEPT ![i] = data],
         data.flag = "FILE" => data = FileNode(i),
         data.flag = "DIR" => i = Root,
         i = Root => data.flag = "DIR",
         inode[i].flag = "LINK" => data.flag = "LINK",
         data.link # NoLink => data.link \in Inodes \ {i} /\ inode[data.link].flag = "LINK"
  PROVE  /\ InodeKinds' /\ inode'[i] = data /\ \A j \in Inodes \ {i} : inode'[j] = inode[j]
         /\ \A j \in Inodes : inode[j].flag = "LINK" => inode'[j].flag = "LINK"
<1>1. inode'[i] = data /\ \A j \in Inodes \ {i} : inode'[j] = inode[j]
  BY DEF Nodes
<1>2. \A j \in Inodes : inode[j].flag = "LINK" => inode'[j].flag = "LINK"
  BY <1>1
<1>3. inode'[Root].flag = "DIR"
  BY <1>1, Basics DEF InodeKinds
<1>4. ASSUME NEW j \in Inodes
      PROVE  /\ inode'[j].flag = "FILE" => inode'[j] = FileNode(j)
             /\ inode'[j].flag = "DIR" => j = Root \/ inode'[j] = Zeros
             /\ inode'[j].link # NoLink => inode'[inode'[j].link].flag = "LINK"
  <2>1. CASE j = i
    BY <1>1, <2>1
  <2>2. CASE j # i
    <3>1. inode'[j] = inode[j] /\ inode[j].link \in Inodes \cup {NoLink}
      BY <1>1, <2>2 DEF Nodes, Node
    <3>. QED
      BY <1>2, <3>1 DEF InodeKinds
  <2>. QED
    BY <2>1, <2>2
<1>. QED
  BY <1>1, <1>2, <1>3, <1>4 DEF InodeKinds

(* A disk that stays as it is. *)
LEMMA SameDisk ==
  ASSUME Nodes, Nodes', inode' = inode
  PROVE  /\ DirInodes' = DirInodes /\ Bottom' = Bottom /\ Entries' = Entries /\ Tree' = Tree
         /\ Kept /\ (InodeKinds => InodeKinds') /\ TornCreate' = TornCreate /\ TornLink' = TornLink
<1>1. DirInodes' = DirInodes /\ Bottom' = Bottom /\ Entries' = Entries /\ Tree' = Tree
  BY SameTree
<1>2. InodeKinds => InodeKinds'
  BY DEF InodeKinds
<1>3. TornCreate' = TornCreate /\ TornLink' = TornLink
  BY <1>1 DEF TornCreate, TornLink
<1>4. Kept
  BY <1>1 DEF Kept
<1>. QED
  BY <1>1, <1>2, <1>3, <1>4

(* A block outside the directory is written, with a link kept a link. *)
LEMMA OutsideKept ==
  ASSUME Nodes, Nodes', \A j \in DirInodes : inode'[j] = inode[j],
         \A j \in Inodes : inode[j].flag = "LINK" => inode'[j].flag = "LINK"
  PROVE  DirInodes' = DirInodes /\ Kept
<1>1. DirInodes' = DirInodes /\ Entries' = Entries
  BY SameTree
<1>. QED
  BY <1>1 DEF Kept

(* A block that nothing is looked up in stays so while writes are made. *)
LEMMA StaysStranded ==
  ASSUME LinksInv, WriteBlock, Stranded
  PROVE  Stranded'
<1>1. Nodes /\ ToCome
  BY DEF LinksInv
<1>2. /\ Len(todo) \in Nat \ {0} /\ Len(todo') = Len(todo) - 1 /\ Write(todo[1])
      /\ \A k \in 1 .. Len(todo') : todo'[k] = todo[k + 1] /\ k + 1 \in 1 .. Len(todo)
      /\ opening' = opening /\ ino' = ino
  <2>1. /\ Len(todo) \in Nat \ {0} /\ Len(todo') = Len(todo) - 1
        /\ \A k \in 1 .. Len(todo') : todo'[k] = todo[k + 1]
    BY <1>1, WriteDoes
  <2>2. Write(todo[1]) /\ opening' = opening /\ ino' = ino
    BY <1>1 DEF WriteBlock, client, ToCome
  <2>. QED
    BY <2>1, <2>2
<1>3. 1 \in 1 .. Len(todo) /\ todo[1] \in Writes
  BY <1>1, <1>2 DEF ToCome
<1>4. inode'[ino].entries = <<>>
  <2>1. ino \in Inodes /\ inode \in [Inodes -> Node]
    BY <1>1 DEF LinksInv, Asked, Nodes
  <2>2. CASE \E data \in Node : todo[1] = PutInode(data)
    <3>1. PICK data \in Node : todo[1] = PutInode(data)
      BY <2>2
    <3>2. inode' = [inode EXCEPT ![data.iid] = data]
      BY <1>1, <3>1, WriteDoes
    <3>3. data.iid = ino => data.entries = <<>>
      BY <1>3, <3>1 DEF Stranded
    <3>. QED
      BY <2>1, <3>2, <3>3 DEF Stranded
  <2>3. CASE ~ \E data \in Node : todo[1] = PutInode(data)
    <3>1. todo[1].block # "inode"
      BY <1>3, <2>3, WriteKinds DEF Writes
    <3>2. inode' = inode
      BY <1>2, <3>1 DEF Write
    <3>. QED
      BY <3>2 DEF Stranded
  <2>. QED
    BY <2>2, <2>3
<1>5. \A k \in 1 .. Len(todo') : \A data :
         todo'[k] = PutInode(data) /\ data.iid = ino => data.entries = <<>>
  BY <1>2 DEF Stranded
<1>. QED
  BY <1>2, <1>4, <1>5 DEF Stranded

(* What is left of a plan without writes. *)
LEMMA NothingAhead ==
  ASSUME NEW S, Ahead(<<>>, S)'
  PROVE  Ahead(<<>>, {})'
<1>1. \A j : j \in Inodes \ S => j \in Inodes \ {}
  OBVIOUS
<1>. QED
  BY <1>1 DEF Ahead

(* The writes of AddEntry keep every file, but for a block of zeros that was
   taken for a directory and overwrites the root. *)
LEMMA GrowingStep ==
  ASSUME LinksInv, LinksInv', InodeKinds, WriteBlock, NEW r \in Node, NEW e \in Slot, e.ino \in free,
         Growing(r, e)
  PROVE  InodeKinds' /\ Plans' /\ (Kept \/ (TornCreate /\ Stranded))
<1>. DEFINE x == e.ino
            S == {r.iid, x}
            W1 == MarkUsed(r.iid)
            W2 == PutInode(With(r, e))
            W3 == PutInode(FileNode(x))
            W4 == MarkUsed(x)
<1>0. Nodes /\ Nodes' /\ ToCome /\ InOrder /\ InUse
  BY DEF LinksInv
<1>1. /\ r.iid \in Inodes /\ x \in Inodes /\ x # Root /\ free \in SUBSET Inodes
      /\ inode \in [Inodes -> Node]
  BY <1>0, NodeParts DEF InOrder, Root, Nodes
<1>2. /\ \A j \in DirInodes : j \in Inodes /\ j \notin free
      /\ \A j \in DirInodes : inode[j].link = NoLink => j = Bottom
      /\ \A j \in Inodes : inode[j].flag = "LINK" => j \notin free
  BY <1>0, KindFacts, DirFacts
<1>3. ASSUME e.ino \in free', Growing(r, e)' PROVE Plans'
  BY <1>3 DEF Plans
<1>4. Stranded => Stranded'
  BY StaysStranded
<1>5. CASE Target(r) /\ Ahead(<<W1, W2, W3, W4>>, S)
  <2>1. r.iid \notin free
    BY <1>0, <1>1, <1>5, Basics DEF Target, InUse, InOrder
  <2>2. inode' = inode /\ free' = free
    <3>1. todo[1] = W1
      BY <1>0, <1>5, AheadFour
    <3>2. free \ {r.iid} = free
      BY <2>1
    <3>. QED
      BY <1>0, <3>1, <3>2, WriteDoes
  <2>3. InodeKinds' /\ Kept /\ TornCreate' = TornCreate
    BY <1>0, <2>2, SameDisk
  <2>4. Ahead(<<W2, W3, W4>>, S)'
    BY <1>0, <1>5, <2>2, AheadFour
  <2>5. Target(r)'
    BY <1>4, <1>5, <2>2, <2>3 DEF Target
  <2>. QED
    BY <1>3, <2>2, <2>3, <2>4, <2>5 DEF Growing
<1>6. CASE Target(r) /\ Ahead(<<W2, W3, W4>>, S)
  <2>1. /\ With(r, e).iid = r.iid /\ With(r, e).flag = r.flag /\ With(r, e).link = NoLink
        /\ r.flag \in {"DIR", "LINK"} /\ r.flag # "FILE"
    BY <1>6, NodeWith DEF Target, Node
  <2>2. inode' = [inode EXCEPT ![r.iid] = With(r, e)] /\ free' = free
    <3>1. todo[1] = W2
      BY <1>0, <1>6, AheadThree
    <3>. QED
      BY <1>0, <2>1, <3>1, WriteDoes
  <2>3. /\ r.flag = "DIR" => r.iid = Root
        /\ r.iid = Root => r.flag = "DIR"
        /\ inode[r.iid].flag = "LINK" => r.flag = "LINK"
    <3>1. CASE inode[r.iid] = r
      <4>1. r.flag = "DIR" => r.iid = Root \/ r = Zeros
        BY <1>1, <3>1 DEF InodeKinds
      <4>. QED
        BY <3>1, <4>1, Basics DEF InodeKinds, Root
    <3>2. CASE r = Zeros
      BY <3>2, Basics DEF InodeKinds, Root
    <3>. QED
      BY <1>6, <3>1, <3>2 DEF Target
  <2>4. /\ InodeKinds' /\ inode'[r.iid] = With(r, e)
        /\ \A j \in Inodes \ {r.iid} : inode'[j] = inode[j]
        /\ \A j \in Inodes : inode[j].flag = "LINK" => inode'[j].flag = "LINK"
    <3>. DEFINE new == With(r, e)
    <3>1. /\ new.flag # "FILE" /\ (new.flag = "DIR" => r.iid = Root) /\ new.link = NoLink
          /\ (r.iid = Root => new.flag = "DIR") /\ (inode[r.iid].flag = "LINK" => new.flag = "LINK")
          /\ inode' = [inode EXCEPT ![r.iid] = new]
      BY <2>1, <2>2, <2>3
    <3>. HIDE DEF new
    <3>2. /\ InodeKinds' /\ inode'[r.iid] = new
          /\ \A j \in Inodes \ {r.iid} : inode'[j] = inode[j]
          /\ \A j \in Inodes : inode[j].flag = "LINK" => inode'[j].flag = "LINK"
      BY <1>0, <1>1, <3>1, KindsAfter
    <3>. QED
      BY <3>2 DEF new
  <2>5. Ahead(<<W3, W4>>, S)'
    BY <1>0, <1>6, <2>4, AheadThree
  <2>6. Kept \/ (TornCreate /\ Stranded)
    <3>1. CASE inode[r.iid] = r /\ r.iid \in DirInodes
      <4>1. r.iid = Bottom
        BY <1>2, <1>6, <3>1 DEF Target
      <4>2. inode'[Bottom] = With(inode[Bottom], e) /\ \A j \in DirInodes \ {Bottom} : inode'[j] = inode[j]
        BY <1>2, <2>4, <3>1, <4>1
      <4>3. DirInodes' = DirInodes /\ Entries' = Entries \cup {e}
        BY <1>0, <4>2, GrownTree
      <4>. QED
        BY <2>4, <4>3 DEF Kept
    <3>2. CASE r.iid \notin DirInodes
      BY <1>0, <1>2, <2>4, <3>2, OutsideKept
    <3>. QED
      BY <1>6, <3>1, <3>2 DEF Target
  <2>. QED
    BY <1>3, <2>2, <2>4, <2>5, <2>6 DEF Growing
<1>7. CASE Ahead(<<W3, W4>>, S)
  <2>1. inode' = [inode EXCEPT ![x] = FileNode(x)] /\ free' = free
    <3>1. todo[1] = W3
      BY <1>0, <1>7, AheadTwo
    <3>. QED
      BY <1>0, <3>1, WriteDoes, NewNodes
  <2>2. /\ InodeKinds' /\ \A j \in Inodes \ {x} : inode'[j] = inode[j]
        /\ \A j \in Inodes : inode[j].flag = "LINK" => inode'[j].flag = "LINK"
    <3>. DEFINE new == FileNode(x)
    <3>1. /\ new.flag = "FILE" /\ new.link = NoLink /\ inode[x].flag # "LINK"
          /\ inode' = [inode EXCEPT ![x] = new]
      BY <1>1, <1>2, <2>1, NewNodes
    <3>2. new = FileNode(x)
      OBVIOUS
    <3>. HIDE DEF new, x
    <3>. QED
      BY <1>0, <1>1, <3>1, <3>2, KindsAfter
  <2>3. Kept
    BY <1>0, <1>2, <2>2, OutsideKept
  <2>4. Ahead(<<W4>>, S)'
    BY <1>0, <1>7, <2>2, AheadTwo
  <2>. QED
    BY <1>3, <2>1, <2>2, <2>3, <2>4 DEF Growing
<1>8. CASE Ahead(<<W4>>, S)
  <2>1. inode' = inode
    <3>1. todo[1] = W4
      BY <1>0, <1>8, AheadOne
    <3>. QED
      BY <1>0, <3>1, WriteDoes
  <2>2. InodeKinds' /\ Kept
    BY <1>0, <2>1, SameDisk
  <2>3. Ahead(<<>>, S)'
    BY <1>0, <1>8, <2>1, AheadOne
  <2>4. Ahead(<<>>, {})'
    BY <2>3, NothingAhead
  <2>. QED
    BY <2>2, <2>4 DEF Plans
<1>. QED
  BY <1>5, <1>6, <1>7, <1>8 DEF Growing

(* The writes of AddLink keep every file: the new inodes are out of reach
   until the link to them is written. *)
LEMMA StretchingStep ==
  ASSUME LinksInv, LinksInv', InodeKinds, WriteBlock, NEW r \in Node, NEW n \in Inodes, NEW e \in Slot,
         Stretching(r, n, e)
  PROVE  InodeKinds' /\ Plans' /\ Kept
<1>. DEFINE x == e.ino
            new == With(LinkNode(n), e)
            linked == [r EXCEPT !.link = n]
            S == {r.iid, n, x}
            W1 == MarkUsed(n)
            W2 == PutInode(new)
            W3 == PutInode(FileNode(x))
            W4 == MarkUsed(x)
            W5 == PutInode(linked)
            Steady == DirInodes' = DirInodes /\ inode'[r.iid] = r
<1>0. Nodes /\ Nodes' /\ ToCome /\ InOrder /\ InUse
  BY DEF LinksInv
<1>1. /\ r.iid \in Inodes /\ x \in Inodes /\ free \in SUBSET Inodes /\ inode \in [Inodes -> Node]
      /\ (x \in free => x # Root)
  <2>1. r.iid \in Inodes /\ x \in Inodes
    BY NodeParts DEF Slot
  <2>. QED
    BY <1>0, <2>1 DEF InOrder, Root, Nodes
<1>2. /\ \A j \in DirInodes : j \in Inodes /\ j \notin free
      /\ \A j \in DirInodes : inode[j].link = NoLink => j = Bottom
      /\ \A j \in Inodes : inode[j].flag = "LINK" => j \notin free
      /\ Root \in DirInodes /\ r.iid \notin free
  <2>1. r.iid \notin free
    BY <1>0, <1>1 DEF InUse, Stretching
  <2>. QED
    BY <1>0, <2>1, KindFacts, DirFacts
<1>3. /\ r.flag # "FILE" /\ r.link = NoLink /\ inode[r.iid] = r
      /\ n \notin DirInodes /\ n # r.iid /\ n # x
  BY DEF Stretching
<1>4. /\ new.iid = n /\ new.flag = "LINK" /\ new.link = NoLink
      /\ linked.iid = r.iid /\ linked.flag = r.flag /\ linked.link = n
      /\ FileNode(x).iid = x
  BY NewNodes, LinkNodeWith DEF Node
<1>. HIDE DEF new, linked
<1>5. ASSUME Stretching(r, n, e)' PROVE Plans'
  BY <1>5 DEF Plans
<1>6. ASSUME inode' = inode
      PROVE  InodeKinds' /\ Kept /\ Steady
  BY <1>0, <1>3, <1>6, SameDisk
<1>7. CASE /\ n \in free /\ x \in free
           /\ Ahead(<<W1, W2, W3, W4, W5>>, S)
  <2>1. inode' = inode /\ free' = free \ {n}
    <3>1. todo[1] = W1
      BY <1>0, <1>7, AheadFive
    <3>. QED
      BY <1>0, <3>1, WriteDoes
  <2>2. Ahead(<<W2, W3, W4, W5>>, S)'
    BY <1>0, <1>7, <2>1, AheadFive
  <2>3. x \in free'
    BY <1>3, <1>7, <2>1
  <2>4. Stretching(r, n, e)'
    BY <1>3, <1>6, <2>1, <2>2, <2>3 DEF Stretching, new, linked
  <2>. QED
    BY <1>5, <1>6, <2>1, <2>4
<1>8. CASE x \in free /\ Ahead(<<W2, W3, W4, W5>>, S)
  <2>1. inode' = [inode EXCEPT ![n] = new] /\ free' = free
    <3>1. todo[1] = W2
      BY <1>0, <1>8, AheadFour
    <3>. QED
      BY <1>0, <1>4, <3>1, WriteDoes
  <2>2. /\ InodeKinds' /\ inode'[n] = new
        /\ \A j \in Inodes \ {n} : inode'[j] = inode[j]
        /\ \A j \in Inodes : inode[j].flag = "LINK" => inode'[j].flag = "LINK"
    BY <1>0, <1>2, <1>3, <1>4, <2>1, KindsAfter
  <2>3. Kept /\ Steady
    BY <1>0, <1>1, <1>2, <1>3, <2>2, OutsideKept
  <2>4. Ahead(<<W3, W4, W5>>, S)'
    BY <1>0, <1>8, <2>2, AheadFour
  <2>5. Stretching(r, n, e)'
    BY <1>3, <1>8, <2>1, <2>2, <2>3, <2>4 DEF Stretching, new, linked
  <2>. QED
    BY <1>5, <2>2, <2>3, <2>5
<1>9. CASE x \in free /\ inode[n] = new /\ Ahead(<<W3, W4, W5>>, S)
  <2>1. inode' = [inode EXCEPT ![x] = FileNode(x)] /\ free' = free
    <3>1. todo[1] = W3
      BY <1>0, <1>9, AheadThree
    <3>. QED
      BY <1>0, <1>4, <3>1, WriteDoes
  <2>2. /\ InodeKinds' /\ \A j \in Inodes \ {x} : inode'[j] = inode[j]
        /\ \A j \in Inodes : inode[j].flag = "LINK" => inode'[j].flag = "LINK"
    <3>. DEFINE file == FileNode(x)
    <3>1. /\ file.flag = "FILE" /\ file.link = NoLink /\ inode[x].flag # "LINK" /\ x # Root
          /\ inode' = [inode EXCEPT ![x] = file]
      BY <1>1, <1>2, <1>9, <2>1, NewNodes
    <3>2. file = FileNode(x)
      OBVIOUS
    <3>. HIDE DEF file, x
    <3>. QED
      BY <1>0, <1>1, <3>1, <3>2, KindsAfter
  <2>3. inode'[n] = new /\ inode'[r.iid] = r
    BY <1>1, <1>2, <1>3, <1>9, <2>2
  <2>4. Kept /\ Steady
    BY <1>0, <1>2, <1>9, <2>2, <2>3, OutsideKept
  <2>5. Ahead(<<W4, W5>>, S)'
    BY <1>0, <1>9, <2>2, AheadThree
  <2>6. Stretching(r, n, e)'
    BY <1>3, <2>3, <2>4, <2>5 DEF Stretching, new, linked
  <2>. QED
    BY <1>5, <2>2, <2>4, <2>6
<1>10. CASE inode[n] = new /\ Ahead(<<W4, W5>>, S)
  <2>1. inode' = inode
    <3>1. todo[1] = W4
      BY <1>0, <1>10, AheadTwo
    <3>. QED
      BY <1>0, <3>1, WriteDoes
  <2>2. Ahead(<<W5>>, S)'
    BY <1>0, <1>10, <2>1, AheadTwo
  <2>3. Stretching(r, n, e)'
    BY <1>3, <1>6, <1>10, <2>1, <2>2 DEF Stretching, new, linked
  <2>. QED
    BY <1>5, <1>6, <2>1, <2>3
<1>11. CASE inode[n] = new /\ Ahead(<<W5>>, S)
  <2>1. inode' = [inode EXCEPT ![r.iid] = linked]
    <3>1. todo[1] = W5
      BY <1>0, <1>11, AheadOne
    <3>. QED
      BY <1>0, <1>4, <3>1, WriteDoes
  <2>2. /\ r.flag = "DIR" => r.iid = Root
        /\ r.iid = Root => r.flag = "DIR"
    BY <1>1, <1>3, Basics DEF InodeKinds, Root
  <2>3. /\ InodeKinds' /\ inode'[r.iid] = linked
        /\ \A j \in Inodes \ {r.iid} : inode'[j] = inode[j]
        /\ \A j \in Inodes : inode[j].flag = "LINK" => inode'[j].flag = "LINK"
    BY <1>0, <1>1, <1>3, <1>4, <1>11, <2>1, <2>2, KindsAfter
  <2>4. Kept
    <3>1. CASE r.iid \in DirInodes
      <4>1. r.iid = Bottom
        BY <1>2, <1>3, <3>1
      <4>2. inode'[Bottom] = LinkedTo(n)
        BY <1>3, <2>3, <4>1 DEF LinkedTo, linked
      <4>3. /\ inode'[n] = With(LinkNode(n), e)
            /\ \A j \in DirInodes \ {Bottom} : inode'[j] = inode[j]
        BY <1>2, <1>3, <1>11, <2>3, <4>1 DEF new
      <4>4. DirInodes' = DirInodes \cup {n} /\ Entries' = Entries \cup {e}
        BY <1>0, <1>3, <4>2, <4>3, LinkedTree
      <4>. QED
        BY <2>3, <4>4 DEF Kept
    <3>2. CASE r.iid \notin DirInodes
      BY <1>0, <1>2, <2>3, <3>2, OutsideKept
    <3>. QED
      BY <3>1, <3>2
  <2>5. Ahead(<<>>, S)'
    BY <1>0, <1>11, <2>3, AheadOne
  <2>6. Ahead(<<>>, {})'
    BY <2>5, NothingAhead
  <2>. QED
    BY <2>3, <2>4, <2>6 DEF Plans
<1>. QED
  BY <1>7, <1>8, <1>9, <1>10, <1>11 DEF Stretching, new, linked

(* Nothing but blocks as they are is left. *)
LEMMA AllBack ==
  ASSUME Len(todo') \in Nat,
         \A k \in 1 .. Len(todo') :
            \E j \in Inodes : todo'[k] = PutInode(inode'[j]) /\ inode'[j].iid = j
  PROVE  Ahead(<<>>, {})'
<1>1. Len(<<>>) = 0
  OBVIOUS
<1>. PICK n \in Nat : n = Len(<<>>)
  BY <1>1
<1>2. Len(todo') >= n /\ n + 1 = 1 /\ \A k \in 1 .. n : FALSE
  BY <1>1
<1>3. \A k \in n + 1 .. Len(todo') :
         \E j \in Inodes \ {} : todo'[k] = PutInode(inode'[j]) /\ inode'[j].iid = j
  BY <1>2
<1>. QED
  BY <1>2, <1>3 DEF Ahead

(* Blocks that are written back are on the disk already. *)
LEMMA WriteBackStep ==
  ASSUME LinksInv, LinksInv', InodeKinds, WriteBlock, Ahead(<<>>, {})
  PROVE  InodeKinds' /\ Plans' /\ Kept
<1>0. Nodes /\ Nodes' /\ ToCome
  BY DEF LinksInv
<1>1. /\ Len(todo) \in Nat \ {0} /\ Len(todo') = Len(todo) - 1
      /\ \A k \in 1 .. Len(todo') : todo'[k] = todo[k + 1]
  BY <1>0, WriteDoes
<1>2. \A k \in 1 .. Len(todo) : \E j \in Inodes : todo[k] = PutInode(inode[j]) /\ inode[j].iid = j
  <2>1. Len(<<>>) + 1 = 1
    OBVIOUS
  <2>. QED
    BY <2>1 DEF Ahead
<1>3. inode' = inode
  <2>1. 1 \in 1 .. Len(todo)
    BY <1>1
  <2>2. PICK j \in Inodes : todo[1] = PutInode(inode[j]) /\ inode[j].iid = j
    BY <1>2, <2>1
  <2>3. inode' = [inode EXCEPT ![j] = inode[j]]
    BY <1>0, <2>2, WriteDoes
  <2>4. inode \in [Inodes -> Node]
    BY <1>0 DEF Nodes
  <2>. QED
    BY <2>3, <2>4
<1>4. InodeKinds' /\ Kept
  BY <1>0, <1>3, SameDisk
<1>5. Ahead(<<>>, {})'
  <2>1. \A k \in 1 .. Len(todo') :
           \E j \in Inodes : todo'[k] = PutInode(inode'[j]) /\ inode'[j].iid = j
    <3>. TAKE k \in 1 .. Len(todo')
    <3>1. k + 1 \in 1 .. Len(todo)
      BY <1>1
    <3>. QED
      BY <1>1, <1>2, <1>3, <3>1
  <2>. QED
    BY <1>1, <2>1, AllBack
<1>. QED
  BY <1>4, <1>5 DEF Plans

(* The writes of a formatting leave the blocks of zeros that there are. *)
LEMMA BlankingStep ==
  ASSUME LinksInv, LinksInv', InodeKinds, WriteBlock, Blanking
  PROVE  InodeKinds' /\ Plans' /\ Kept
<1>. DEFINE F2 == <<ClearBitmap, FreshBitmap, PutInode(Zeros)>>
            F3 == <<FreshBitmap, PutInode(Zeros)>>
<1>0. Nodes /\ Nodes' /\ ToCome
  BY DEF LinksInv
<1>1. /\ todo # <<>> /\ todo' = Tail(todo) /\ Write(Head(todo))
      /\ inode = [i \in Inodes |-> Zeros]
  BY DEF WriteBlock, Blanking
<1>2. ASSUME inode' = inode PROVE InodeKinds' /\ Kept
  BY <1>0, <1>2, SameDisk
<1>3. ASSUME Blanking' PROVE Plans'
  BY <1>3 DEF Plans
<1>4. CASE todo = Format
  <2>1. Head(todo) = Superblock /\ Tail(todo) = F2
    BY <1>4 DEF Format
  <2>2. inode' = inode
    BY <1>1, <2>1, WriteKinds DEF Write
  <2>3. Blanking'
    <3>. HIDE DEF F2
    <3>1. todo' = F2
      BY <1>1, <2>1
    <3>. QED
      BY <1>1, <2>2, <3>1 DEF Blanking, F2
  <2>. QED
    BY <1>2, <1>3, <2>2, <2>3
<1>5. CASE todo = F2
  <2>1. Head(todo) = ClearBitmap /\ Tail(todo) = F3
    BY <1>5
  <2>2. inode' = inode
    BY <1>1, <2>1, WriteKinds DEF Write
  <2>3. Blanking'
    <3>. HIDE DEF F3
    <3>1. todo' = F3
      BY <1>1, <2>1
    <3>. QED
      BY <1>1, <2>2, <3>1 DEF Blanking, F3
  <2>. QED
    BY <1>2, <1>3, <2>2, <2>3
<1>6. CASE todo = F3
  <2>1. Head(todo) = FreshBitmap /\ Tail(todo) = <<PutInode(Zeros)>>
    BY <1>6
  <2>2. inode' = inode
    BY <1>1, <2>1, WriteKinds DEF Write
  <2>3. \A k \in 1 .. Len(todo') : todo'[k] = PutInode(Zeros)
    <3>1. todo' = <<PutInode(Zeros)>>
      BY <1>1, <2>1
    <3>2. \A z : \A k \in 1 .. Len(<<z>>) : <<z>>[k] = z
      OBVIOUS
    <3>. QED
      BY <3>1, <3>2
  <2>4. inode'[0] = Zeros /\ inode'[0].iid = 0 /\ 0 \in Inodes
    BY <1>1, <2>2, Basics
  <2>5. Ahead(<<>>, {})'
    <3>1. Len(todo') \in Nat
      BY <1>0, WriteDoes
    <3>. QED
      BY <2>3, <2>4, <3>1, AllBack
  <2>. QED
    BY <1>2, <2>2, <2>5 DEF Plans
<1>. QED
  BY <1>1, <1>4, <1>5, <1>6 DEF Blanking

(* Every write of every call, after any number of crashes. *)
LEMMA CrashWrite ==
  ASSUME LinksInv, LinksInv', CrashInv, WriteBlock
  PROVE  CrashInv' /\ (Kept \/ TornCreate)
<1>1. InodeKinds' /\ Plans' /\ (Kept \/ (TornCreate /\ Stranded))
  BY WriteBackStep, BlankingStep, GrowingStep, StretchingStep DEF CrashInv, Plans
<1>2. ino' = ino /\ opening' = opening /\ mounted' = mounted
  BY DEF WriteBlock, client
<1>3. Stranded => Stranded'
  BY StaysStranded
<1>4. ASSUME Kept PROVE (ino \in Tree => ino' \in Tree') /\ (TornLink => TornLink')
  <2>1. ino \in Tree => ino' \in Tree'
    BY <1>2, <1>4 DEF Kept, Tree
  <2>2. \A e \in Entries : e.ino \in Inodes
    BY EntryFacts DEF LinksInv
  <2>3. TornLink => TornLink'
    BY <1>4, <2>2 DEF Kept, TornLink
  <2>. QED
    BY <2>1, <2>3
<1>5. InoKnown => InoKnown'
  BY <1>1, <1>3, <1>4 DEF InoKnown
<1>. QED
  BY <1>1, <1>2, <1>5 DEF CrashInv

(* What a name is looked up to is in the tree, or the tree has an entry that
   names a link inode. *)
LEMMA LookedUpAnyway ==
  ASSUME LinksInv, InodeKinds, InoKnown, NEW name, ~ NotFound(path_ino_mapping(name))
  PROVE  path_ino_mapping(name) \in Tree \/ TornLink
<1>. DEFINE q == inode[ino].entries
<1>1. Nodes /\ ino \in Inodes /\ q \in Seq(Slot)
  BY NodeParts DEF LinksInv, Asked, Nodes
<1>2. Matches(name) # {}
  BY SfsAssumption DEF path_ino_mapping, Missing, NotFound
<1>3. q # <<>>
  <2>1. PICK k \in DOMAIN q : k \in Matches(name)
    BY <1>2 DEF Matches
  <2>. QED
    BY <2>1
<1>4. Min(Matches(name)) \in Matches(name)
  <2>1. Matches(name) \in SUBSET Nat
    BY <1>1 DEF Matches
  <2>2. PICK n \in Matches(name) : \A m \in Matches(name) : ~ (m < n)
    BY <1>2, <2>1, LeastNumber
  <2>3. \A m \in Matches(name) : n <= m
    BY <2>1, <2>2
  <2>. QED
    BY <2>3 DEF Min
<1>5. Min(Matches(name)) \in DOMAIN q
  BY <1>4 DEF Matches
<1>6. q[Min(Matches(name))] \in ToSet(q)
  BY <1>5 DEF ToSet
<1>7. path_ino_mapping(name) = q[Min(Matches(name))].ino
  BY <1>2 DEF path_ino_mapping
<1>8. CASE ino \in DirInodes
  BY <1>6, <1>7, <1>8 DEF Entries, Tree
<1>9. CASE ino \notin DirInodes /\ \E e \in Entries : ino = e.ino
  <2>1. inode[ino].flag \in {"DIR", "FILE", "LINK"}
    BY <1>1 DEF Nodes, Node
  <2>2. inode[ino].flag # "FILE"
    BY <1>1, <1>3, NewNodes DEF InodeKinds
  <2>3. inode[ino].flag # "DIR"
    <3>1. Zeros.entries = <<>> /\ ino # Root
      BY <1>1, <1>9, DirFacts DEF Zeros, NewInode
    <3>. QED
      BY <1>1, <1>3, <3>1 DEF InodeKinds
  <2>. QED
    BY <1>9, <2>1, <2>2, <2>3 DEF TornLink
<1>10. ~ Stranded
  BY <1>3 DEF Stranded
<1>. QED
  BY <1>8, <1>9, <1>10 DEF InoKnown, Tree

(* What create_inode_real writes back, behind the writes of a plan. *)
LEMMA BackAhead ==
  ASSUME Nodes, NEW c \in Seq(Inodes), c # <<>>, NEW A \in Seq(Writes), NEW m \in Nat, Len(A) = m, NEW S,
         todo' = A \o [k \in 1 .. Len(c) - 1 |-> PutInode(inode[c[Len(c) - k]])],
         inode' = inode,
         \A k \in 1 .. Len(c) - 1 : c[k] \in Inodes \ S /\ inode[c[k]].iid = c[k]
  PROVE  Ahead(A, S)'
<1>. DEFINE back == [k \in 1 .. Len(c) - 1 |-> PutInode(inode[c[Len(c) - k]])]
<1>1. Len(c) \in Nat \ {0}
  BY EmptySeq
<1>2. ASSUME NEW k \in 1 .. Len(c) - 1
      PROVE  /\ back[k] \in Writes
             /\ \E j \in Inodes \ S : back[k] = PutInode(inode[j]) /\ inode[j].iid = j
  <2>1. Len(c) - k \in 1 .. Len(c) - 1
    BY <1>1
  <2>2. c[Len(c) - k] \in Inodes \ S /\ inode[c[Len(c) - k]].iid = c[Len(c) - k]
    BY <2>1
  <2>3. back[k] = PutInode(inode[c[Len(c) - k]])
    OBVIOUS
  <2>4. inode[c[Len(c) - k]] \in Node
    BY <2>2 DEF Nodes
  <2>. HIDE DEF back
  <2>. QED
    BY <2>2, <2>3, <2>4 DEF Writes
<1>3. back \in Seq(Writes) /\ Len(back) = Len(c) - 1
  <2>1. \A k \in 1 .. Len(c) - 1 : PutInode(inode[c[Len(c) - k]]) \in Writes
    BY <1>2
  <2>. QED
    BY <1>1, <2>1
<1>4. todo' = A \o back
  OBVIOUS
<1>. HIDE DEF back
<1>5. Len(back) \in Nat /\ \A k \in 1 .. Len(back) :
        \E j \in Inodes \ S : back[k] = PutInode(inode[j]) /\ inode[j].iid = j
  BY <1>1, <1>2, <1>3
<1>6. /\ Len(todo') = m + Len(back)
      /\ \A k \in 1 .. m : todo'[k] = A[k]
      /\ \A k \in 1 .. m + Len(back) : ~ (k <= m) => todo'[k] = back[k - m]
  <2>. DEFINE t == A \o back
  <2>1. /\ Len(t) = Len(A) + Len(back)
        /\ \A k \in 1 .. Len(A) + Len(back) : t[k] = IF k <= Len(A) THEN A[k] ELSE back[k - Len(A)]
    BY <1>3, ConcatProperties
  <2>. HIDE DEF t
  <2>2. \A k \in 1 .. m : k \in 1 .. m + Len(back) /\ k <= m
    BY <1>5
  <2>3. todo' = t
    BY <1>4 DEF t
  <2>. QED
    BY <2>1, <2>2, <2>3
<1>7. \A k \in m + 1 .. Len(todo') :
         \E j \in Inodes \ S : todo'[k] = PutInode(inode'[j]) /\ inode'[j].iid = j
  <2>. TAKE k \in m + 1 .. Len(todo')
  <2>1. \A u, v \in Nat : \A i \in u + 1 .. u + v :
           i \in 1 .. u + v /\ ~ (i <= u) /\ i - u \in 1 .. v
    OBVIOUS
  <2>2. k \in m + 1 .. m + Len(back)
    BY <1>6
  <2>3. k \in 1 .. m + Len(back) /\ ~ (k <= m) /\ k - m \in 1 .. Len(back)
    BY <1>5, <2>1, <2>2
  <2>4. todo'[k] = back[k - m]
    BY <1>6, <2>3
  <2>5. PICK j \in Inodes \ S : back[k - m] = PutInode(inode[j]) /\ inode[j].iid = j
    BY <1>5, <2>3
  <2>. QED
    BY <2>4, <2>5
<1>8. Len(todo') >= m
  BY <1>5, <1>6
<1>. QED
  BY <1>6, <1>7, <1>8 DEF Ahead

(* The inodes on the way to the end of some links are in use, where they say. *)
LEMMA WayFacts ==
  ASSUME Nodes, InOrder, InUse, InodeKinds, NEW i \in Inodes
  PROVE  LET c == LinksFrom(i)
         IN  /\ c \in Seq(Inodes) /\ c # <<>> /\ Len(c) \in Nat \ {0} /\ c[1] = i
             /\ c[Len(c)] \in Inodes /\ inode[c[Len(c)]].link = NoLink
             /\ \A k \in 1 .. Len(c) - 1 :
                   c[k] \in Inodes \ free /\ inode[c[k]].iid = c[k] /\ c[k] # c[Len(c)]
             /\ inode[c[Len(c)]] = Zeros => Len(c) = 1
<1>. DEFINE c == LinksFrom(i)
<1>1. Ends(inode, i, c) /\ Increasing(c)
  BY LinksLead
<1>. HIDE DEF c
<1>2. /\ c \in Seq(Inodes) /\ c # <<>> /\ Len(c) \in Nat \ {0} /\ c[1] = i
      /\ c[Len(c)] \in Inodes /\ inode[c[Len(c)]].link = NoLink
      /\ \A k \in 1 .. Len(c) - 1 : c[k + 1] = inode[c[k]].link /\ k \in 1 .. Len(c) /\ k + 1 \in 1 .. Len(c)
      /\ \A k \in 1 .. Len(c) : c[k] \in Inodes
  <2>1. c \in Seq(Inodes) /\ c # <<>> /\ Len(c) \in Nat \ {0}
    BY <1>1, EmptySeq DEF Ends
  <2>2. Len(c) \in 1 .. Len(c)
    BY <2>1
  <2>3. \A k \in 1 .. Len(c) - 1 : k \in 1 .. Len(c) /\ k + 1 \in 1 .. Len(c)
    BY <2>1
  <2>. QED
    BY <1>1, <2>1, <2>2, <2>3 DEF Ends
<1>3. ASSUME NEW k \in 1 .. Len(c) - 1
      PROVE  /\ c[k] \in Inodes \ free /\ inode[c[k]].iid = c[k] /\ c[k] # c[Len(c)]
             /\ inode[c[k + 1]].flag = "LINK"
  <2>1. inode[c[k]].link \in Inodes /\ c[k] \in Inodes
    BY <1>2
  <2>2. inode[c[k]].link # NoLink
    BY <2>1, Basics
  <2>3. inode[c[k]].flag # "FILE" /\ inode[c[k]] # Zeros
    <3>1. \A j \in Inodes : inode[j].flag = "FILE" => inode[j] = FileNode(j)
      BY DEF InodeKinds
    <3>2. \A j \in Inodes : inode[j].flag = "FILE" => inode[j].link = NoLink
      BY <3>1, NewNodes
    <3>. QED
      BY <2>1, <2>2, <3>2, Basics
  <2>4. inode[c[k]].iid = c[k]
    BY <2>1, <2>3 DEF Nodes
  <2>5. c[k] \notin free
    BY <2>1, <2>3, <2>4 DEF InUse
  <2>6. c[k] # c[Len(c)]
    BY <1>2, <2>2
  <2>7. inode[c[k + 1]].flag = "LINK"
    BY <1>2, <2>1, <2>2 DEF InodeKinds
  <2>. QED
    BY <2>1, <2>4, <2>5, <2>6, <2>7
<1>4. ASSUME inode[c[Len(c)]] = Zeros PROVE Len(c) = 1
  <2>. SUFFICES ASSUME Len(c) # 1 PROVE FALSE
    OBVIOUS
  <2>. PICK l \in Nat \ {0} : l = Len(c)
    BY <1>2
  <2>1. l - 1 \in 1 .. l - 1 /\ (l - 1) + 1 = l
    <3>1. l # 1
      OBVIOUS
    <3>. QED
      BY <3>1
  <2>2. \A k \in 1 .. l - 1 : inode[c[k + 1]].flag = "LINK"
    BY <1>3
  <2>3. inode[c[l]].flag = "LINK"
    BY <2>1, <2>2
  <2>. QED
    BY <1>4, <2>3, Basics
<1>. QED
  BY <1>2, <1>3, <1>4 DEF c

(* The writes that AddEntry and AddLink make, of what they find. *)
LEMMA PlansMade ==
  ASSUME NEW r \in Node, r.iid \notin free, NEW name
  PROVE  /\ LET x == findFreeInode(free)
                e == EntryOf(name, x)
            IN  AddEntry(r, name) =
                  <<MarkUsed(r.iid), PutInode(With(r, e)), PutInode(FileNode(x)), MarkUsed(x)>>
         /\ LET n == findFreeInode(free)
                x == findFreeInode(free \ {n})
                e == EntryOf(name, x)
            IN  AddLink(r, name) =
                  <<MarkUsed(n), PutInode(With(LinkNode(n), e)), PutInode(FileNode(x)), MarkUsed(x),
                    PutInode([r EXCEPT !.link = n])>>
<1>1. free \ {r.iid} = free
  OBVIOUS
<1>2. AddEntry(r, name) =
        LET x == findFreeInode(free)
            e == EntryOf(name, x)
        IN  <<MarkUsed(r.iid), PutInode(With(r, e)), PutInode(FileNode(x)), MarkUsed(x)>>
  BY <1>1 DEF AddEntry, With, EntryOf, FileNode
<1>. DEFINE n == findFreeInode(free)
            x == findFreeInode(free \ {n})
            e == EntryOf(name, x)
<1>3. LinkNode(n).iid = n /\ LinkNode(n) = NewInode(n, "LINK")
  BY NewNodes DEF LinkNode
<1>4. AddEntry(LinkNode(n), name) =
        <<MarkUsed(n), PutInode(With(LinkNode(n), e)), PutInode(FileNode(x)), MarkUsed(x)>>
  BY <1>3 DEF AddEntry, With, EntryOf, FileNode
<1>5. AddLink(r, name) = AddEntry(LinkNode(n), name) \o <<PutInode([r EXCEPT !.link = n])>>
  BY <1>3 DEF AddLink
<1>6. AddLink(r, name) =
        <<MarkUsed(n), PutInode(With(LinkNode(n), e)), PutInode(FileNode(x)), MarkUsed(x),
          PutInode([r EXCEPT !.link = n])>>
  BY <1>4, <1>5, FiveInARow
<1>. QED
  BY <1>2, <1>6

(* A create anywhere on the disk leaves the writes of a plan to come. *)
LEMMA CreatePlans ==
  ASSUME Reserve >= 2, LinksInv, LinksInv', CrashInv, NEW name \in Names, sfs_create(name)
  PROVE  CrashInv' /\ Kept
<1>. DEFINE c == LinksFrom(ino)
            dir == inode[Last(c)]
            back == [k \in 1 .. Len(c) - 1 |-> PutInode(inode[c[Len(c) - k]])]
            K == CASE dir.flag = "FILE" -> <<>>
                   [] dir.flag # "FILE" /\ Len(dir.entries) = PtrNum - 1 -> AddLink(dir, name)
                   [] dir.flag # "FILE" /\ Len(dir.entries) < PtrNum - 1 -> AddEntry(dir, name)
<1>0. Nodes /\ Nodes' /\ InOrder /\ InUse /\ ino \in Inodes /\ free \in SUBSET Inodes
      /\ todo' \in Seq(Writes) /\ InodeKinds
  BY DEF LinksInv, Asked, InOrder, CrashInv, ToCome
<1>1. /\ inode' = inode /\ free' = free /\ todo' = create_inode_real(ino, name) /\ ino' = ino
      /\ opening' = {name} /\ opening = {} /\ mounted' /\ mounted /\ Cardinality(free) >= Reserve
  BY DEF sfs_create, disk, Ready
<1>2. /\ DirInodes' = DirInodes /\ Tree' = Tree /\ InodeKinds' /\ Kept
      /\ TornCreate' = TornCreate /\ TornLink' = TornLink
  BY <1>0, <1>1, SameDisk
<1>3. ino \in Tree \/ TornLink
  BY <1>1 DEF CrashInv, InoKnown, Stranded
<1>4. CrashInv' <=> Plans'
  BY <1>1, <1>2, <1>3 DEF CrashInv, InoKnown
<1>5. /\ c \in Seq(Inodes) /\ c # <<>> /\ Len(c) \in Nat \ {0} /\ c[1] = ino
      /\ Last(c) \in Inodes /\ dir.link = NoLink
      /\ \A k \in 1 .. Len(c) - 1 : c[k] \in Inodes \ free /\ inode[c[k]].iid = c[k] /\ c[k] # Last(c)
      /\ dir = Zeros => Len(c) = 1
  BY <1>0, WayFacts DEF Last
<1>6. todo' = K \o back
  BY <1>1 DEF create_inode_real
<1>7. /\ dir \in Node /\ Len(dir.entries) \in Nat /\ PtrNum \in Nat /\ Len(dir.entries) < PtrNum
      /\ PtrNum > 1 /\ (dir.flag # "FILE" => dir.iid \notin free)
  <2>1. dir \in Node /\ (dir.flag # "FILE" => dir.iid \notin free)
    BY <1>0, <1>5 DEF Nodes, InUse
  <2>. HIDE DEF dir
  <2>. QED
    BY <2>1, SfsAssumption DEF Node
<1>8. \A i : free \ {i} # {}
  BY <1>0, <1>1, TwoFree
<1>9. \E x : x = findFreeInode(free) /\ x \in free
  BY <1>0, <1>8, FirstFree
<1>. PICK r \in Node : r = dir
  BY <1>7
<1>. DEFINE d == Last(c)
<1>10. inode[d] = r
  OBVIOUS
<1>. HIDE DEF dir
<1>11. ASSUME NEW A, NEW S, A \in Seq(Writes), todo' = A \o back,
              \A k \in 1 .. Len(c) - 1 : c[k] \notin S
       PROVE  Ahead(A, S)'
  <2>. HIDE DEF c
  <2>. PICK m \in Nat : Len(A) = m
    BY <1>11, LenProperties
  <2>. QED
    BY <1>0, <1>1, <1>5, <1>11, BackAhead
<1>. HIDE DEF back, c, d
<1>12. CASE r.flag = "FILE"
  <2>1. K = <<>> /\ <<>> \in Seq(Writes)
    BY <1>12
  <2>2. Ahead(<<>>, free)'
    <3>. HIDE DEF K
    <3>1. todo' = <<>> \o back
      BY <1>6, <2>1
    <3>2. PICK S : S = free
      OBVIOUS
    <3>3. Ahead(<<>>, S)'
      BY <1>5, <1>11, <2>1, <3>1, <3>2
    <3>. QED
      BY <1>1, <3>2, <3>3
  <2>3. Ahead(<<>>, {})'
    <3>1. PICK S : S = free'
      OBVIOUS
    <3>2. Ahead(<<>>, S)'
      BY <2>2, <3>1
    <3>. QED
      BY <3>2, NothingAhead
  <2>. QED
    BY <1>2, <1>4, <2>3 DEF Plans
<1>13. r = Zeros \/ r.iid = d
  BY <1>0, <1>5, <1>10 DEF Nodes, d
<1>14. r.iid \in Inodes /\ (r.flag # "FILE" => r.iid \notin free)
       /\ \A k \in 1 .. Len(c) - 1 : c[k] \notin free /\ c[k] # d
  BY <1>5, <1>7, NodeParts DEF d
<1>15. CASE r.flag # "FILE" /\ Len(r.entries) = PtrNum - 1
  <2>1. r # Zeros
    <3>1. Zeros.entries = <<>> /\ \A q : q = <<>> => Len(q) = 0
      BY DEF Zeros, NewInode
    <3>. PICK l \in Nat : l = Len(r.entries)
      BY <1>7
    <3>2. l # 0
      BY <1>7, <1>15
    <3>. QED
      BY <3>1, <3>2
  <2>2. PICK n \in free : n = findFreeInode(free)
    BY <1>9
  <2>3. PICK x \in free \ {n} : x = findFreeInode(free \ {n})
    <3>1. free \ {n} \in SUBSET Inodes /\ free \ {n} # {}
      BY <1>0, <1>8
    <3>2. findFreeInode(free \ {n}) \in free \ {n}
      BY <3>1, FirstFree
    <3>. QED
      BY <3>2
  <2>. DEFINE e == EntryOf(name, x)
              A == <<MarkUsed(n), PutInode(With(LinkNode(n), e)), PutInode(FileNode(x)), MarkUsed(x),
                     PutInode([r EXCEPT !.link = n])>>
  <2>4. K = AddLink(r, name) /\ AddLink(r, name) = A
    <3>1. AddLink(r, name) = A
      BY <1>14, <1>15, <2>2, <2>3, PlansMade
    <3>2. K = AddLink(r, name)
      BY <1>15
    <3>. QED
      BY <3>1, <3>2
  <2>5. A \in Seq(Writes)
    <3>1. AddLink(r, name) \in Seq(Writes)
      BY <1>0, <1>1, <1>14, <1>15, AddLinkComes
    <3>. QED
      BY <2>4, <3>1
  <2>6. e \in Slot /\ e.ino = x /\ n \in Inodes
    BY <1>0 DEF Slot, EntryOf
  <2>. DEFINE S == {r.iid, n, x}
  <2>7. Ahead(A, S)'
    <3>1. todo' = A \o back
      <4>. HIDE DEF K, A
      <4>. QED
        BY <1>6, <2>4
    <3>2. \A k \in 1 .. Len(c) - 1 : c[k] \notin S
      BY <1>13, <1>14, <2>1
    <3>. HIDE DEF A, S
    <3>. QED
      BY <1>11, <2>5, <3>1, <3>2
  <2>8. /\ inode'[r.iid] = r /\ n \notin DirInodes' /\ n # r.iid /\ n # x /\ r.link = NoLink
        /\ n \in free' /\ x \in free'
    <3>1. n \notin DirInodes
      BY <1>0, KindFacts
    <3>. QED
      BY <1>1, <1>2, <1>5, <1>10, <1>13, <1>14, <1>15, <2>1, <3>1
  <2>9. Stretching(r, n, e)'
    <3>1. e' = e
      OBVIOUS
    <3>. HIDE DEF e
    <3>. QED
      BY <1>15, <2>6, <2>7, <2>8 DEF Stretching
  <2>. QED
    BY <1>2, <1>4, <2>6, <2>9 DEF Plans
<1>16. CASE r.flag # "FILE" /\ Len(r.entries) < PtrNum - 1
  <2>1. PICK x \in free : x = findFreeInode(free)
    BY <1>9
  <2>. DEFINE e == EntryOf(name, x)
              A == <<MarkUsed(r.iid), PutInode(With(r, e)), PutInode(FileNode(x)), MarkUsed(x)>>
  <2>2. K = AddEntry(r, name) /\ AddEntry(r, name) = A
    <3>1. AddEntry(r, name) = A
      BY <1>14, <1>16, <2>1, PlansMade
    <3>2. K = AddEntry(r, name)
      BY <1>16
    <3>. QED
      BY <3>1, <3>2
  <2>3. A \in Seq(Writes)
    <3>1. free \ {r.iid} # {} /\ \A j \in Inodes : j < r.iid => j \notin free
      <4>1. \A j \in free : r.iid < j /\ j \in Nat /\ r.iid \in Nat
        BY <1>0, <1>14, <1>16, Basics DEF InOrder
      <4>. QED
        BY <1>8, <4>1
    <3>2. AddEntry(r, name) \in Seq(Writes)
      BY <1>0, <1>16, <3>1, AddEntryComes
    <3>. QED
      BY <2>2, <3>2
  <2>4. e \in Slot /\ e.ino = x /\ x \in free'
    BY <1>0, <1>1 DEF Slot, EntryOf
  <2>. DEFINE S == {r.iid, x}
  <2>5. todo' = A \o back
    <3>. HIDE DEF K, A
    <3>. QED
      BY <1>6, <2>2
  <2>6. \A k \in 1 .. Len(c) - 1 : c[k] \notin S
    <3>1. CASE r.iid = d
      BY <1>14, <3>1
    <3>2. CASE r = Zeros
      <4>. PICK l : l = Len(c)
        OBVIOUS
      <4>1. \A k \in 1 .. l - 1 : FALSE
        <5>1. l = 1
          BY <1>5, <3>2
        <5>. QED
          BY <5>1
      <4>. QED
        BY <4>1
    <3>. QED
      BY <1>13, <3>1, <3>2
  <2>7. Ahead(A, S)'
    <3>. HIDE DEF A, S
    <3>. QED
      BY <1>11, <2>3, <2>5, <2>6
  <2>8. CASE inode[r.iid] = r
    <3>1. Target(r)'
      BY <1>1, <1>5, <1>16, <2>8 DEF Target
    <3>2. Growing(r, e)'
      <4>. HIDE DEF e
      <4>. QED
        BY <2>4, <2>7, <3>1 DEF Growing
    <3>. QED
      BY <1>2, <1>4, <2>4, <3>2 DEF Plans
  <2>9. CASE inode[r.iid] # r
    <3>1. r = Zeros /\ d = ino /\ r.iid # ino /\ inode[ino] = Zeros
      BY <1>5, <1>10, <1>13, <2>9 DEF d, Last
    <3>2. TornCreate
      <4>1. CASE TornLink
        BY <4>1 DEF TornLink, TornCreate
      <4>2. CASE ino \in DirInodes
        <5>1. inode[ino].iid = ino
          BY <1>0, <4>2, KindFacts
        <5>. QED
          BY <3>1, <5>1
      <4>3. CASE \E f \in Entries : ino = f.ino
        BY <3>1, <4>3, Basics DEF TornCreate
      <4>. QED
        BY <1>3, <4>1, <4>2, <4>3 DEF Tree
    <3>3. Stranded'
      <4>1. todo' = A
        <5>1. back = <<>>
          <6>. PICK l : l = Len(c)
            OBVIOUS
          <6>1. l = 1
            BY <1>5, <3>1
          <6>2. back = [k \in 1 .. l - 1 |-> PutInode(inode[c[l - k]])]
            BY DEF back
          <6>3. 1 .. l - 1 = {}
            BY <6>1
          <6>4. \A f : [k \in {} |-> f[k]] = <<>>
            OBVIOUS
          <6>. QED
            BY <6>2, <6>3, <6>4
        <5>. HIDE DEF A
        <5>. QED
          BY <2>3, <2>5, <5>1, ConcatEmptySeq
      <4>2. \A k \in 1 .. Len(todo') : \A data :
               todo'[k] = PutInode(data) /\ data.iid = ino => data.entries = <<>>
        <5>1. /\ A[1] = MarkUsed(r.iid) /\ A[2] = PutInode(With(r, e))
              /\ A[3] = PutInode(FileNode(x)) /\ A[4] = MarkUsed(x)
              /\ \A k \in 1 .. Len(A) : k = 1 \/ k = 2 \/ k = 3 \/ k = 4
          OBVIOUS
        <5>2. With(r, e).iid # ino /\ FileNode(x).entries = <<>>
          BY <3>1, NodeWith, NewNodes
        <5>3. \A data : PutInode(data) # MarkUsed(r.iid) /\ PutInode(data) # MarkUsed(x)
          <6>1. \A data, i : PutInode(data).block = "inode" /\ MarkUsed(i).block = "bitmap"
            BY WriteKinds
          <6>. QED
            BY <6>1
        <5>4. \A y, z : PutInode(y) = PutInode(z) => y = z
          <6>1. \A y : PutInode(y).data = y
            BY WriteKinds
          <6>. QED
            BY <6>1
        <5>. HIDE DEF A, e
        <5>. QED
          BY <4>1, <5>1, <5>2, <5>3, <5>4
      <4>3. opening' # {} /\ inode'[ino'].entries = <<>>
        <5>1. Zeros.entries = <<>>
          BY DEF Zeros, NewInode
        <5>. QED
          BY <1>1, <3>1, <5>1
      <4>. QED
        BY <1>1, <4>2, <4>3 DEF Stranded
    <3>4. Target(r)'
      BY <1>2, <1>5, <1>16, <3>1, <3>2, <3>3 DEF Target
    <3>5. Growing(r, e)'
      <4>. HIDE DEF e
      <4>. QED
        BY <2>4, <2>7, <3>4 DEF Growing
    <3>. QED
      BY <1>2, <1>4, <2>4, <3>5 DEF Plans
  <2>. QED
    BY <2>8, <2>9
<1>17. Len(r.entries) = PtrNum - 1 \/ Len(r.entries) < PtrNum - 1
  BY <1>7
<1>. QED
  BY <1>12, <1>15, <1>16, <1>17

(* Every step, a crash too, keeps the invariant and, but for the remains of a
   create that was cut between its writes, every file. *)
LEMMA CrashInvStep ==
  ASSUME Reserve >= 2, LinksInv, LinksInv', CrashInv, [Next]_vars
  PROVE  CrashInv' /\ (Kept \/ TornCreate)
<1>0. Nodes /\ Nodes' /\ InodeKinds /\ (mounted => InoKnown) /\ (opening # {} => mounted) /\ Root \in DirInodes
  BY DirFacts DEF LinksInv, CrashInv
<1>1. ASSUME inode' = inode
      PROVE  /\ Tree' = Tree /\ DirInodes' = DirInodes /\ TornLink' = TornLink /\ TornCreate' = TornCreate
             /\ InodeKinds' /\ Kept
  BY <1>0, <1>1, SameDisk
<1>2. ASSUME inode' = inode, todo' = <<>>, opening' = {},
             mounted' => ino' \in Tree \/ TornLink
      PROVE  CrashInv' /\ Kept
  <2>1. Ahead(<<>>, {})'
    <3>1. Len(<<>>) \in Nat /\ \A k \in 1 .. Len(<<>>) : FALSE
      OBVIOUS
    <3>. QED
      BY <1>2, <3>1, AllBack
  <2>. QED
    BY <1>1, <1>2, <2>1 DEF CrashInv, Plans, InoKnown
<1>3. opening = {} => ~ Stranded
  BY DEF Stranded
<1>4. Root \in Tree
  BY <1>0 DEF Tree
<1>5. CASE sfs_init
  <2>1. /\ inode' = inode /\ ino' = Root /\ opening' = opening /\ ~ mounted
        /\ todo' = IF touched THEN <<>> ELSE Format
    BY <1>5 DEF sfs_init, disk, client, Root
  <2>2. opening' = {}
    BY <1>0, <2>1
  <2>3. CASE touched
    <3>1. todo' = <<>>
      BY <2>1, <2>3
    <3>. QED
      BY <1>2, <1>4, <2>1, <2>2, <3>1
  <2>4. CASE ~ touched
    <3>1. inode = [i \in Inodes |-> Zeros]
      BY <2>4 DEF LinksInv, Blank
    <3>2. todo' = Format
      BY <2>1, <2>4
    <3>3. Format' = Format
      BY DEF Format, Superblock, ClearBitmap, FreshBitmap, PutInode
    <3>. HIDE DEF Format
    <3>4. Blanking'
      BY <2>1, <3>1, <3>2, <3>3 DEF Blanking
    <3>. QED
      BY <1>1, <1>4, <2>1, <2>2, <3>4 DEF CrashInv, Plans, InoKnown
  <2>. QED
    BY <2>3, <2>4
<1>6. CASE sfs_destroy
  <2>1. inode' = inode /\ todo' = <<>> /\ opening' = {} /\ ~ mounted'
    BY <1>6 DEF sfs_destroy, Ready, disk
  <2>. QED
    BY <1>2, <2>1
<1>7. CASE WriteBlock
  BY <1>7, CrashWrite
<1>8. CASE Crash
  <2>1. inode' = inode /\ todo' = <<>> /\ opening' = {} /\ ~ mounted'
    BY <1>8 DEF Crash, disk
  <2>. QED
    BY <1>2, <2>1
<1>9. CASE GetattrRoot
  <2>1. inode' = inode /\ todo' = <<>> /\ opening' = {} /\ ino' = Root
    BY <1>9 DEF GetattrRoot, Ready, disk, client, Root
  <2>. QED
    BY <1>2, <1>4, <2>1
<1>10. CASE LookupCreated
  <2>. DEFINE name == CHOOSE n \in opening : TRUE
              sign == path_ino_mapping(name)
  <2>1. /\ inode' = inode /\ todo' = <<>> /\ opening' = {} /\ opening # {}
        /\ NotFound(sign) => ino' = Root
        /\ ~ NotFound(sign) => ino' = sign
    BY <1>10 DEF LookupCreated, disk, Root
  <2>2. ~ NotFound(sign) => sign \in Tree \/ TornLink
    BY <1>0, <2>1, LookedUpAnyway
  <2>. QED
    BY <1>2, <1>4, <2>1, <2>2
<1>11. CASE sfs_release
  <2>1. inode' = inode /\ todo' = <<>> /\ opening' = {} /\ ino' = Root
    BY <1>11 DEF sfs_release, Ready, disk, Root
  <2>. QED
    BY <1>2, <1>4, <2>1
<1>12. ASSUME NEW name \in Names, sfs_getattr(name) PROVE CrashInv' /\ Kept
  <2>. DEFINE sign == path_ino_mapping(name)
  <2>1. /\ inode' = inode /\ todo' = <<>> /\ opening' = {} /\ opening = {} /\ mounted
        /\ NotFound(sign) => ino' = ino
        /\ ~ NotFound(sign) => ino' = sign
    BY <1>12 DEF sfs_getattr, Ready, disk
  <2>2. ~ NotFound(sign) => sign \in Tree \/ TornLink
    BY <1>0, <2>1, LookedUpAnyway
  <2>3. ino \in Tree \/ TornLink
    BY <1>0, <1>3, <2>1 DEF InoKnown
  <2>. QED
    BY <1>2, <2>1, <2>2, <2>3
<1>13. ASSUME NEW name \in Names, sfs_create(name) PROVE CrashInv' /\ Kept
  BY <1>13, CreatePlans
<1>14. CASE UNCHANGED vars
  <2>1. UNCHANGED <<inode, free, touched, ino, todo, mounted, opening>>
    BY <1>14 DEF vars, disk, client
  <2>2. /\ Tree' = Tree /\ DirInodes' = DirInodes /\ TornLink' = TornLink /\ TornCreate' = TornCreate
        /\ InodeKinds' /\ Kept
    BY <1>1, <2>1
  <2>3. Stranded' = Stranded
    BY <2>1 DEF Stranded
  <2>4. \A p, S : Ahead(p, S)' = Ahead(p, S)
    BY <2>1 DEF Ahead
  <2>5. \A r : Target(r)' = Target(r)
    BY <2>1, <2>2, <2>3 DEF Target
  <2>6. \A r, e : Growing(r, e) => Growing(r, e)'
    BY <2>4, <2>5 DEF Growing
  <2>7. \A r, n, e : Stretching(r, n, e) => Stretching(r, n, e)'
    BY <2>1, <2>2, <2>4 DEF Stretching
  <2>8. Blanking => Blanking'
    BY <2>1 DEF Blanking, Format, Superblock, ClearBitmap, FreshBitmap, PutInode
  <2>9. Plans'
    BY <2>1, <2>4, <2>6, <2>7, <2>8 DEF Plans, CrashInv
  <2>. QED
    BY <1>0, <2>1, <2>2, <2>3, <2>9 DEF CrashInv, InoKnown
<1>. QED
  BY <1>5, <1>6, <1>7, <1>8, <1>9, <1>10, <1>11, <1>12, <1>13, <1>14 DEF Next

(* No file is ever lost, through any number of crashes amid creates and what *)
(* later creates make of the remains, but when a crash has come between the  *)
(* write of an entry and that of its inode (inode.c:99-100).                 *)
THEOREM FilesKeptCorrect ==
  ASSUME Reserve >= 2
  PROVE  Spec => FilesKept
<1>1. Init => LinksInv /\ CrashInv
  <2>. SUFFICES ASSUME Init PROVE LinksInv /\ CrashInv
    OBVIOUS
  <2>1. /\ inode = [i \in Inodes |-> Zeros] /\ todo = <<>> /\ opening = {} /\ ~ mounted
    BY DEF Init
  <2>2. InodeKinds
    BY <2>1, Basics DEF InodeKinds
  <2>3. Ahead(<<>>, {})
    <3>1. Len(<<>>) >= Len(<<>>) /\ \A k \in 1 .. Len(<<>>) : FALSE
      OBVIOUS
    <3>2. \A k \in Len(<<>>) + 1 .. Len(<<>>) : FALSE
      OBVIOUS
    <3>. QED
      BY <2>1, <3>1, <3>2 DEF Ahead
  <2>. QED
    BY <2>1, <2>2, <2>3, LinksInvInit DEF CrashInv, Plans
<1>2. LinksInv /\ CrashInv /\ [Next]_vars => LinksInv' /\ CrashInv'
  BY LinksInvStep, CrashInvStep
<1>3. LinksInv /\ LinksInv' /\ CrashInv /\ [Next]_vars
      => [TornCreate \/ Entries \subseteq Entries']_Entries
  BY CrashInvStep DEF Kept
<1>. QED
  BY <1>1, <1>2, <1>3, PTL DEF Spec, FilesKept
=============================================================================
