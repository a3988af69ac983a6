--------------------------- MODULE RequestsProofs ---------------------------
(***************************************************************************)
(* Theorems about Requests, for any number of threads, inodes and slots,   *)
(* and about Mount, for any number of inode and data blocks and any number *)
(* of failed writes and crashes.                                           *)
(***************************************************************************)
EXTENDS Mount, Requests, SfsProofs

-----------------------------------------------------------------------------
(* The invariant.                                                          *)

\* i is the root, or a file that is in the directory and on the disk.
Whole(i) == i = Root \/ \E e \in Entries : e.ino = i /\ inode[i] = FileNode(i)

\* The attributes of the root are a directory's, all others are a file's.
FlagOf(i) == IF i = Root THEN "DIR" ELSE "FILE"

Looking  == [stage : {"found"}, sign : Inodes, creating : BOOLEAN]
Storing  == [stage : {"stored"}, creating : BOOLEAN]
Answered ==
    [stage : {"answered"}, creating : BOOLEAN,
     got : [asked : Inodes, iid : Inodes, flag : {"DIR", "FILE", "LINK"}]]

\* What a thread has looked up and what it answers; what it has stored is in `ino'.
Fine(r) ==
    \/ r = Idle \/ r \in Storing
    \/ r \in Looking /\ Whole(r.sign)
    \/ /\ r \in Answered /\ Whole(r.got.asked)
       /\ r.got.iid = r.got.asked /\ r.got.flag = FlagOf(r.got.asked)

Creating(t) == request[t] # Idle /\ request[t].creating

RequestsFine ==
    /\ DOMAIN request = Threads /\ request = [t \in Threads |-> request[t]]
    /\ \A t \in Threads : Fine(request[t])
    /\ \A t \in Threads : Creating(t) => todo = <<>> /\ opening # {}
    /\ \A t, u \in Threads : Creating(t) /\ Creating(u) => t = u

\* The first slot of a name that the kernel knows is that of a whole file.
FirstSlot(q, name, k) ==
    k \in DOMAIN q /\ q[k].name = name /\ \A m \in DOMAIN q : m < k => q[m].name # name

KnownFiles ==
    \A name \in known : \E k \in Nat : \E i \in Inodes :
        /\ FirstSlot(inode[Root].entries, name, k)
        /\ inode[Root].entries[k].ino = i /\ Whole(i)

RequestsInv ==
    /\ LinksInv /\ TreeInv /\ Whole(ino) /\ inode[Root].flag = "DIR"
    /\ ~ mounted => todo = <<>> /\ opening = {} /\ NoRequest
    /\ RequestsFine /\ KnownFiles

-----------------------------------------------------------------------------
(* Lookups.                                                                *)

(* The inode that a whole number names is its own. *)
LEMMA WholeHasItsNumber ==
  ASSUME Nodes, Dirs, inode[Root].flag = "DIR", NEW i, Whole(i)
  PROVE  i \in Inodes /\ inode[i].iid = i /\ inode[i].flag = FlagOf(i)
<1>1. i \in Inodes
  BY EntryFacts, Basics DEF Whole
<1>2. inode[i].iid = i
  BY DirFacts, NewNodes DEF Whole, Dirs
<1>3. inode[i].flag = FlagOf(i)
  BY DirFacts, NewNodes DEF Whole, Dirs, FlagOf
<1>. QED
  BY <1>1, <1>2, <1>3

(* What keeps files keeps whole ones. *)
LEMMA WholeKept ==
  ASSUME Keeps, Entries' = Entries \/ OneMoreFile
  PROVE  \A i : Whole(i) => Whole(i)'
<1>1. \A e \in Entries : e \in Entries'
  BY DEF OneMoreFile
<1>. QED
  BY <1>1 DEF Whole, Keeps

(* Lookups find the first slot of a name in the root, or nothing. *)
LEMMA LookUpFinds ==
  ASSUME Nodes, ino \in Inodes, Whole(ino), NEW name, ~ NotFound(path_ino_mapping(name))
  PROVE  /\ ino = Root
         /\ \E k \in Nat : /\ FirstSlot(inode[Root].entries, name, k)
                           /\ path_ino_mapping(name) = inode[Root].entries[k].ino
<1>. DEFINE q == inode[ino].entries
            k == Min(Matches(name))
<1>1. q \in Seq(Slot)
  BY NodeParts DEF Nodes
<1>2. Matches(name) # {} /\ path_ino_mapping(name) = q[k].ino
  BY SfsAssumption DEF path_ino_mapping, Missing, NotFound
<1>3. ino = Root
  <2>. SUFFICES ASSUME inode[ino] = FileNode(ino) PROVE FALSE
    BY DEF Whole
  <2>1. q = <<>>
    BY NewNodes
  <2>. QED
    BY <1>2, <2>1 DEF Matches
<1>4. Matches(name) \in SUBSET Nat
  BY <1>1 DEF Matches
<1>5. k \in Matches(name) /\ \A m \in Matches(name) : ~ (m < k)
  <2>1. PICK n \in Matches(name) : \A m \in Matches(name) : ~ (m < n)
    BY <1>2, <1>4, LeastNumber
  <2>2. \A m \in Matches(name) : n <= m
    BY <1>4, <2>1
  <2>3. k \in Matches(name) /\ \A m \in Matches(name) : k <= m
    BY <2>2 DEF Min
  <2>. QED
    BY <1>4, <2>3
<1>. HIDE DEF k
<1>6. FirstSlot(q, name, k) /\ k \in Nat
  BY <1>4, <1>5 DEF FirstSlot, Matches
<1>. QED
  BY <1>2, <1>3, <1>6

(* There is one first slot. *)
LEMMA OneFirstSlot ==
  ASSUME NEW q, NEW name, NEW j \in Nat, NEW k \in Nat, FirstSlot(q, name, j), FirstSlot(q, name, k)
  PROVE  j = k
BY DEF FirstSlot

(* An entry more leaves the first slots. *)
LEMMA FirstSlotKept ==
  ASSUME NEW q \in Seq(Slot), NEW name, NEW k \in Nat, NEW e, FirstSlot(q, name, k)
  PROVE  FirstSlot(Append(q, e), name, k) /\ Append(q, e)[k] = q[k]
<1>. DEFINE p == Append(q, e)
<1>1. /\ DOMAIN q = 1 .. Len(q) /\ Len(q) \in Nat /\ DOMAIN p = 1 .. Len(q) + 1
      /\ \A m \in 1 .. Len(q) : p[m] = q[m]
  OBVIOUS
<1>. HIDE DEF p
<1>2. k \in 1 .. Len(q) /\ \A m \in 1 .. Len(q) + 1 : m < k => m \in 1 .. Len(q)
  BY <1>1 DEF FirstSlot
<1>3. k \in DOMAIN p
  BY <1>1, <1>2
<1>4. FirstSlot(p, name, k) /\ p[k] = q[k]
  BY <1>1, <1>2, <1>3 DEF FirstSlot
<1>. QED
  BY <1>4 DEF p

(* What keeps files keeps the names that the kernel knows. *)
LEMMA KnownKept ==
  ASSUME Nodes, Keeps, Entries' = Entries \/ OneMoreFile, KnownFiles, known' \subseteq known
  PROVE  KnownFiles'
<1>. SUFFICES ASSUME NEW name \in known'
              PROVE  \E k \in Nat : \E i \in Inodes :
                        /\ FirstSlot(inode'[Root].entries, name, k)
                        /\ inode'[Root].entries[k].ino = i /\ Whole(i)'
  BY DEF KnownFiles
<1>1. PICK k \in Nat, i \in Inodes :
         /\ FirstSlot(inode[Root].entries, name, k)
         /\ inode[Root].entries[k].ino = i /\ Whole(i)
  BY DEF KnownFiles
<1>. DEFINE q == inode[Root].entries
<1>2. q \in Seq(Slot) /\ FirstSlot(q, name, k)
  BY <1>1, Basics, NodeParts DEF Nodes
<1>3. CASE inode'[Root].entries = q
  BY <1>1, <1>3, WholeKept
<1>4. CASE \E e : inode'[Root].entries = Append(q, e)
  <2>1. PICK e : inode'[Root].entries = Append(q, e)
    BY <1>4
  <2>2. FirstSlot(Append(q, e), name, k) /\ Append(q, e)[k] = q[k]
    <3>. HIDE DEF q
    <3>. QED
      BY <1>2, FirstSlotKept
  <2>3. Whole(i)'
    BY <1>1, WholeKept
  <2>. QED
    BY <1>1, <2>1, <2>2, <2>3
<1>. QED
  BY <1>3, <1>4 DEF Keeps

-----------------------------------------------------------------------------
(* What the requests of the threads go through.                            *)

(* A request goes on being fine while no file is lost, wherever `ino' moves. *)
LEMMA FineKept ==
  ASSUME \A i : Whole(i) => Whole(i)', NEW r, Fine(r)
  PROVE  Fine(r)'
<1>1. CASE r = Idle \/ r \in Storing
  BY <1>1 DEF Fine
<1>2. CASE r \in Looking /\ Whole(r.sign)
  BY <1>2 DEF Fine
<1>3. CASE /\ r \in Answered /\ Whole(r.got.asked)
           /\ r.got.iid = r.got.asked /\ r.got.flag = FlagOf(r.got.asked)
  BY <1>3 DEF Fine
<1>. QED
  BY <1>1, <1>2, <1>3 DEF Fine

(* A step of the request of one thread. *)
LEMMA ServedAfter ==
  ASSUME RequestsFine, \A i : Whole(i) => Whole(i)', NEW t \in Threads, NEW v,
         request' = [request EXCEPT ![t] = v], Fine(v)', todo' = todo,
         \/ /\ opening' = opening
            /\ v # Idle /\ v.creating =>
                 Creating(t) \/ (todo = <<>> /\ opening # {} /\ \A u \in Threads : ~ Creating(u))
         \/ Creating(t) /\ v = Idle
  PROVE  RequestsFine'
<1>1. /\ request = [u \in Threads |-> request[u]] /\ \A u \in Threads : Fine(request[u])
      /\ \A u \in Threads : Creating(u) => todo = <<>> /\ opening # {}
      /\ \A u, w \in Threads : Creating(u) /\ Creating(w) => u = w
  BY DEF RequestsFine
<1>2. /\ DOMAIN request' = Threads /\ request' = [u \in Threads |-> request'[u]]
      /\ request'[t] = v
      /\ \A u \in Threads \ {t} : request'[u] = request[u]
  BY <1>1
<1>3. ASSUME NEW u \in Threads \ {t}
      PROVE  Fine(request[u])' /\ (Creating(u)' => Creating(u))
  <2>1. PICK r : r = request[u]
    OBVIOUS
  <2>2. Fine(r)'
    BY <1>1, <2>1, FineKept
  <2>. QED
    BY <1>2, <2>1, <2>2 DEF Creating
<1>4. \A u \in Threads : Fine(request[u])'
  BY <1>2, <1>3
<1>5. \A u, w \in Threads : Creating(u)' /\ Creating(w)' => u = w
  BY <1>1, <1>2, <1>3 DEF Creating
<1>6. \A u \in Threads : Creating(u)' => todo' = <<>> /\ opening' # {}
  BY <1>1, <1>2, <1>3 DEF Creating
<1>. QED
  BY <1>2, <1>4, <1>5, <1>6 DEF RequestsFine

(* No request is changed by a step of the daemon. *)
LEMMA ServedStays ==
  ASSUME RequestsFine, \A i : Whole(i) => Whole(i)', request' = request,
         (\A t \in Threads : ~ Creating(t)) \/ UNCHANGED <<todo, opening>>
  PROVE  RequestsFine'
<1>1. /\ DOMAIN request = Threads /\ request = [t \in Threads |-> request[t]]
      /\ \A t \in Threads : Fine(request[t])
  BY DEF RequestsFine
<1>2. ASSUME NEW t \in Threads PROVE Fine(request[t])'
  <2>1. PICK r : r = request[t]
    OBVIOUS
  <2>2. Fine(r)'
    BY <1>1, <2>1, FineKept
  <2>. QED
    BY <2>1, <2>2
<1>3. \A t \in Threads : Creating(t)' <=> Creating(t)
  BY DEF Creating
<1>. QED
  BY <1>1, <1>2, <1>3 DEF RequestsFine

(* Steps that leave the disk alone, whatever they do to `ino'. *)
LEMMA QuietRequest ==
  ASSUME RequestsInv, UNCHANGED <<disk, todo, mounted>>, Whole(ino'), sought' \in SUBSET Names,
         opening' = opening \/ (opening' = {} /\ opening # {} /\ todo = <<>>)
  PROVE  /\ LinksInv' /\ TreeInv' /\ Whole(ino)' /\ Keeps /\ Entries' = Entries
         /\ \A i : Whole(i) => Whole(i)'
<1>1. Nodes /\ ToCome /\ inode' = inode /\ LinksInv /\ TreeInv
  BY DEF RequestsInv, LinksInv, disk
<1>2. ino' \in Inodes
  BY <1>1, EntryFacts, Basics DEF Whole
<1>3. LinksInv'
  <2>1. Nodes' /\ InOrder' /\ InUse' /\ Blank' /\ Asked'
    BY <1>1, <1>2 DEF LinksInv, disk, Nodes, InOrder, InUse, Blank, Asked
  <2>2. UNCHANGED <<inode, free>>
    BY DEF disk
  <2>3. ASSUME NEW k \in 1 .. Len(todo) PROVE MayCome(todo, k)'
    <3>1. MayCome(todo, k)
      BY <1>1 DEF ToCome
    <3>. QED
      BY <2>2, <3>1 DEF MayCome, UsedBy
  <2>4. ToCome'
    BY <1>1, <2>3 DEF ToCome
  <2>. QED
    BY <2>1, <2>4 DEF LinksInv
<1>4. TreeInv' /\ Entries' = Entries
  <2>1. CASE opening' = opening
    BY <1>1, <1>3, <2>1, SameState
  <2>2. CASE opening # {} /\ todo = <<>>
    <3>1. Settled
      BY <1>1, <2>2, AtRest
    <3>. QED
      BY <1>1, <1>3, <3>1, QuietStep
  <2>. QED
    BY <2>1, <2>2
<1>5. \A i : Whole(i) => Whole(i)'
  BY <1>1, <1>4 DEF Whole
<1>6. Whole(ino)'
  BY <1>1, <1>4 DEF Whole
<1>7. Keeps
  BY <1>1 DEF Keeps
<1>. QED
  BY <1>3, <1>4, <1>5, <1>6, <1>7

-----------------------------------------------------------------------------
(* The steps.                                                              *)

(* A request of thread t that leaves the disk alone. *)
LEMMA RequestStep ==
  ASSUME RequestsInv, mounted, UNCHANGED <<disk, todo, mounted>>,
         Whole(ino'), sought' \in SUBSET Names, known' \subseteq known,
         NEW t \in Threads, NEW v,
         request' = [request EXCEPT ![t] = v], Fine(v)',
         \/ /\ opening' = opening
            /\ v # Idle /\ v.creating =>
                 Creating(t) \/ (todo = <<>> /\ opening # {} /\ \A u \in Threads : ~ Creating(u))
         \/ Creating(t) /\ v = Idle /\ opening' = {}
  PROVE  RequestsInv'
<1>1. opening' = opening \/ (opening' = {} /\ opening # {} /\ todo = <<>>)
  BY DEF RequestsInv, RequestsFine
<1>2. /\ LinksInv' /\ TreeInv' /\ Whole(ino)' /\ Keeps /\ Entries' = Entries
      /\ \A i : Whole(i) => Whole(i)'
  BY <1>1, QuietRequest
<1>3. RequestsFine'
  BY <1>2, ServedAfter DEF RequestsInv
<1>4. KnownFiles'
  BY <1>2, KnownKept DEF RequestsInv, LinksInv
<1>. QED
  BY <1>2, <1>3, <1>4 DEF RequestsInv, disk

(* A lookup that finds a name finds a whole file, which the kernel may know. *)
LEMMA FoundWhole ==
  ASSUME RequestsInv, NEW name,
         name \in known \/ (todo = <<>> /\ (mounted \/ opening # {})),
         ~ NotFound(path_ino_mapping(name)),
         UNCHANGED disk, known' = known \cup {name}, \A i : Whole(i) => Whole(i)',
         Keeps, Entries' = Entries
  PROVE  /\ path_ino_mapping(name) \in Inodes /\ Whole(path_ino_mapping(name))
         /\ KnownFiles'
<1>. DEFINE q == inode[Root].entries
            sign == path_ino_mapping(name)
<1>1. Nodes /\ ino \in Inodes /\ LinksInv /\ TreeInv /\ inode' = inode
  BY DEF RequestsInv, LinksInv, Asked, disk
<1>2. sign \in Inodes
  BY <1>1, SignIsInode
<1>3. PICK k \in Nat : FirstSlot(q, name, k) /\ sign = q[k].ino
  BY <1>1, LookUpFinds DEF RequestsInv
<1>4. Whole(sign)
  <2>1. CASE name \in known
    <3>1. PICK j \in Nat, i \in Inodes : FirstSlot(q, name, j) /\ q[j].ino = i /\ Whole(i)
      BY <2>1 DEF RequestsInv, KnownFiles
    <3>2. j = k
      <4>. HIDE DEF q
      <4>. QED
        BY <1>3, <3>1, OneFirstSlot
    <3>. QED
      BY <1>3, <3>1, <3>2
  <2>2. CASE todo = <<>> /\ (mounted \/ opening # {})
    <3>1. Settled
      BY <1>1, <2>2, AtRest
    <3>2. q[k] \in Entries
      <4>1. k \in DOMAIN q
        BY <1>3 DEF FirstSlot
      <4>. QED
        BY <1>1, <4>1, DirFacts DEF Entries, ToSet
    <3>. QED
      BY <1>3, <3>1, <3>2 DEF Settled, Written, Whole
  <2>. QED
    BY <2>1, <2>2
<1>5. PICK i \in Inodes : i = sign
  BY <1>2
<1>6. Whole(i)' /\ FirstSlot(q, name, k) /\ q[k].ino = i
  BY <1>3, <1>4, <1>5
<1>7. ASSUME NEW other \in known
      PROVE  \E j \in Nat : \E l \in Inodes :
                FirstSlot(q, other, j) /\ q[j].ino = l /\ Whole(l)'
  BY DEF RequestsInv, KnownFiles
<1>8. ASSUME NEW other \in known'
      PROVE  \E j \in Nat : \E l \in Inodes :
                FirstSlot(q, other, j) /\ q[j].ino = l /\ Whole(l)'
  <2>. HIDE DEF q, sign
  <2>1. CASE other = name
    BY <1>6, <2>1
  <2>2. CASE other \in known
    BY <1>7, <2>2
  <2>. QED
    BY <2>1, <2>2
<1>9. KnownFiles'
  BY <1>1, <1>8 DEF KnownFiles
<1>. QED
  BY <1>2, <1>4, <1>9

(* What a thread finds, stores and answers. *)
LEMMA LookUpStep ==
  ASSUME RequestsInv, NEW t \in Threads, NEW name \in Names, LookUp(t, name)
  PROVE  RequestsInv'
<1>. DEFINE sign == path_ino_mapping(name)
<1>1. /\ mounted /\ request[t] = Idle
      /\ UNCHANGED <<disk, ino, todo, mounted, opening>>
      /\ name \in known \/ todo = <<>>
      /\ Whole(ino) /\ sought \in SUBSET Names
  <2>1. Serving /\ (name \in known \/ DirectoryFree) /\ request[t] = Idle
        /\ UNCHANGED <<disk, ino, todo, mounted, opening>>
    BY DEF LookUp
  <2>. QED
    BY <2>1 DEF Serving, DirectoryFree, RequestsInv, LinksInv, Asked
<1>2. CASE NotFound(sign)
  <2>1. request' = request /\ sought' = sought \cup {name} /\ known' = known \ {name}
    BY <1>2 DEF LookUp
  <2>2. request' = [request EXCEPT ![t] = Idle] /\ Fine(Idle)'
    BY <1>1, <2>1 DEF RequestsInv, RequestsFine, Fine
  <2>. QED
    BY <1>1, <2>1, <2>2, RequestStep
<1>3. CASE ~ NotFound(sign)
  <2>1. /\ sought' = sought \ {name} /\ known' = known \cup {name}
        /\ request' = [request EXCEPT ![t] = Found(sign, FALSE)]
    BY <1>3 DEF LookUp
  <2>2. /\ LinksInv' /\ TreeInv' /\ Whole(ino)' /\ Keeps /\ Entries' = Entries
        /\ \A i : Whole(i) => Whole(i)'
    BY <1>1, <2>1, QuietRequest
  <2>3. sign \in Inodes /\ Whole(sign) /\ KnownFiles'
    BY <1>1, <1>3, <2>1, <2>2, FoundWhole
  <2>. HIDE DEF sign
  <2>4. PICK v : v = Found(sign, FALSE)
    OBVIOUS
  <2>5. v \in Looking /\ v.sign = sign /\ v.stage = "found" /\ v.creating = FALSE
    BY <2>3, <2>4 DEF Found, Looking
  <2>6. Fine(v)'
    <3>1. PICK i : i = sign
      OBVIOUS
    <3>2. Whole(i)'
      BY <2>2, <2>3, <3>1
    <3>. QED
      BY <2>5, <3>1, <3>2 DEF Fine
  <2>7. RequestsFine'
    BY <1>1, <2>1, <2>2, <2>4, <2>5, <2>6, ServedAfter DEF RequestsInv
  <2>. QED
    BY <1>1, <2>2, <2>3, <2>7 DEF RequestsInv, disk
<1>. QED
  BY <1>2, <1>3

(* A lookup of the mount point. *)
LEMMA LookUpRootStep ==
  ASSUME RequestsInv, NEW t \in Threads, LookUpRoot(t)
  PROVE  RequestsInv'
<1>1. /\ mounted /\ request[t] = Idle /\ known' = known
      /\ UNCHANGED <<disk, ino, todo, mounted, opening, sought>>
      /\ request' = [request EXCEPT ![t] = Found(Root, FALSE)]
      /\ Whole(ino) /\ sought \in SUBSET Names
  BY DEF LookUpRoot, Serving, client, RequestsInv, LinksInv, Asked
<1>2. PICK v : v = Found(Root, FALSE)
  OBVIOUS
<1>3. v \in Looking /\ v.sign = Root /\ v.stage = "found" /\ v.creating = FALSE
  BY <1>2, Basics DEF Found, Looking
<1>4. Fine(v)'
  BY <1>3 DEF Fine, Whole
<1>. QED
  BY <1>1, <1>2, <1>3, <1>4, RequestStep

(* ino = sign *)
LEMMA StoreInoStep ==
  ASSUME RequestsInv, NEW t \in Threads, StoreIno(t)
  PROVE  RequestsInv'
<1>1. PICK r : r = request[t]
  OBVIOUS
<1>2. Fine(r) /\ r.stage = "found" /\ r # Idle
  BY <1>1 DEF RequestsInv, RequestsFine, StoreIno, Idle
<1>3. r \in Looking /\ Whole(r.sign)
  BY <1>2 DEF Fine, Answered, Storing
<1>4. mounted
  BY <1>1, <1>2 DEF RequestsInv, NoRequest
<1>5. /\ UNCHANGED <<disk, todo, mounted, opening, sought, known>> /\ ino' = r.sign
      /\ sought \in SUBSET Names
  BY <1>1 DEF StoreIno, client, RequestsInv, LinksInv, Asked
<1>6. PICK v : v = [stage |-> "stored", creating |-> r.creating]
  OBVIOUS
<1>7. v \in Storing /\ v.creating = r.creating
  BY <1>3, <1>6 DEF Looking, Storing
<1>8. request' = [request EXCEPT ![t] = v]
  BY <1>1, <1>6 DEF StoreIno
<1>9. Fine(v)'
  BY <1>7 DEF Fine
<1>10. v # Idle /\ v.creating => Creating(t)
  BY <1>1, <1>2, <1>7 DEF Creating
<1>. QED
  BY <1>3, <1>4, <1>5, <1>8, <1>9, <1>10, RequestStep

(* get_inode(ino, &file) *)
LEMMA GetInodeStep ==
  ASSUME RequestsInv, NEW t \in Threads, GetInode(t)
  PROVE  RequestsInv'
<1>1. PICK r : r = request[t]
  OBVIOUS
<1>2. Fine(r) /\ r.stage = "stored" /\ r # Idle
  BY <1>1 DEF RequestsInv, RequestsFine, GetInode, Idle
<1>3. r \in Storing
  BY <1>2 DEF Fine, Answered, Looking
<1>4. mounted
  BY <1>1, <1>2 DEF RequestsInv, NoRequest
<1>5. /\ UNCHANGED <<disk, ino, todo, mounted, opening, sought, known>>
      /\ sought \in SUBSET Names /\ Whole(ino)
  BY DEF GetInode, client, RequestsInv, LinksInv, Asked
<1>6. PICK v : v = [stage |-> "answered", creating |-> r.creating, got |-> Attributes]
  OBVIOUS
<1>7. request' = [request EXCEPT ![t] = v]
  BY <1>1, <1>6 DEF GetInode
<1>8. PICK i : i = ino
  OBVIOUS
<1>9. Whole(i) /\ i \in Inodes /\ inode[i].iid = i /\ inode[i].flag = FlagOf(i)
  BY <1>5, <1>8, WholeHasItsNumber DEF RequestsInv, TreeInv, LinksInv
<1>10. /\ v \in Answered /\ v.got.asked = i /\ v.got.iid = i /\ v.got.flag = FlagOf(i)
       /\ v.creating = r.creating
  BY <1>3, <1>6, <1>8, <1>9 DEF Answered, Storing, Attributes, FlagOf
<1>11. Whole(i)'
  BY <1>5, <1>9, QuietRequest
<1>12. Fine(v)'
  BY <1>10, <1>11 DEF Fine
<1>13. v # Idle /\ v.creating => Creating(t)
  BY <1>1, <1>2, <1>10 DEF Creating
<1>. QED
  BY <1>4, <1>5, <1>7, <1>12, <1>13, RequestStep

(* The answer of a getattr. *)
LEMMA ReplyStep ==
  ASSUME RequestsInv, NEW t \in Threads, Reply(t)
  PROVE  RequestsInv'
<1>1. request[t] # Idle /\ mounted
  BY DEF Reply, Idle, RequestsInv, NoRequest
<1>2. /\ UNCHANGED <<disk, ino, todo, mounted, opening, sought, known>>
      /\ sought \in SUBSET Names /\ Whole(ino)
      /\ request' = [request EXCEPT ![t] = Idle]
  BY DEF Reply, client, RequestsInv, LinksInv, Asked
<1>3. Fine(Idle)'
  BY DEF Fine
<1>. QED
  BY <1>1, <1>2, <1>3, RequestStep

(* The lookup that follows a create. *)
LEMMA LookUpCreatedStep ==
  ASSUME RequestsInv, NEW t \in Threads, LookUpCreated(t)
  PROVE  RequestsInv'
<1>. DEFINE name == CHOOSE n \in opening : TRUE
            sign == path_ino_mapping(name)
<1>1. /\ opening # {} /\ todo = <<>> /\ mounted
      /\ UNCHANGED <<disk, todo, mounted, sought>>
      /\ Whole(ino) /\ sought \in SUBSET Names
      /\ \A u \in Threads : ~ Creating(u)
  <2>1. ASSUME NEW u \in Threads, Creating(u) PROVE FALSE
    <3>1. PICK r : r = request[u]
      OBVIOUS
    <3>2. Fine(r) /\ r # Idle /\ r.creating
      BY <2>1, <3>1 DEF RequestsInv, RequestsFine, Creating
    <3>3. r.stage # "idle"
      BY <3>2 DEF Fine, Looking, Storing, Answered
    <3>. QED
      BY <3>1, <3>2, <3>3 DEF LookUpCreated
  <2>. QED
    BY <2>1 DEF LookUpCreated, RequestsInv, LinksInv, Asked
<1>2. CASE NotFound(sign)
  <2>1. ino' = Root /\ opening' = {} /\ known' = known /\ request' = request
    BY <1>2 DEF LookUpCreated, Release, Root
  <2>3. Whole(ino')
    BY <2>1 DEF Whole
  <2>4. /\ LinksInv' /\ TreeInv' /\ Whole(ino)' /\ Keeps /\ Entries' = Entries
        /\ \A i : Whole(i) => Whole(i)'
    BY <1>1, <2>1, <2>3, QuietRequest
  <2>5. RequestsFine'
    BY <1>1, <2>1, <2>4, ServedStays DEF RequestsInv
  <2>6. KnownFiles'
    BY <2>1, <2>4, KnownKept DEF RequestsInv, LinksInv
  <2>. QED
    BY <1>1, <2>4, <2>5, <2>6 DEF RequestsInv, disk
<1>3. CASE ~ NotFound(sign)
  <2>1. /\ known' = known \cup {name} /\ UNCHANGED <<ino, opening>>
        /\ request' = [request EXCEPT ![t] = Found(sign, TRUE)]
    BY <1>3 DEF LookUpCreated
  <2>2. /\ LinksInv' /\ TreeInv' /\ Whole(ino)' /\ Keeps /\ Entries' = Entries
        /\ \A i : Whole(i) => Whole(i)'
    BY <1>1, <2>1, QuietRequest
  <2>3. sign \in Inodes /\ Whole(sign) /\ KnownFiles'
    BY <1>1, <1>3, <2>1, <2>2, FoundWhole
  <2>. HIDE DEF sign
  <2>4. PICK v : v = Found(sign, TRUE)
    OBVIOUS
  <2>5. v \in Looking /\ v.sign = sign /\ v.stage = "found"
    BY <2>3, <2>4 DEF Found, Looking
  <2>6. Fine(v)'
    <3>1. PICK i : i = sign
      OBVIOUS
    <3>2. Whole(i)'
      BY <2>2, <2>3, <3>1
    <3>. QED
      BY <2>5, <3>1, <3>2 DEF Fine
  <2>7. RequestsFine'
    BY <1>1, <2>1, <2>2, <2>4, <2>6, ServedAfter DEF RequestsInv
  <2>. QED
    BY <1>1, <2>2, <2>3, <2>7 DEF RequestsInv, disk
<1>. QED
  BY <1>2, <1>3

(* The end of a create, whether libfuse opens the file or releases it. *)
LEMMA ReplyCreatedStep ==
  ASSUME RequestsInv, NEW t \in Threads, ReplyCreated(t)
  PROVE  RequestsInv'
<1>1. Creating(t) /\ mounted
  <2>1. request[t] # Idle
    BY DEF ReplyCreated, Idle
  <2>. QED
    BY <2>1 DEF ReplyCreated, Creating, RequestsInv, NoRequest
<1>2. /\ UNCHANGED <<disk, todo, mounted, sought, known>> /\ opening' = {}
      /\ sought \in SUBSET Names /\ Whole(ino)
      /\ DOMAIN request = Threads
  BY DEF ReplyCreated, RequestsInv, LinksInv, Asked, RequestsFine
<1>3. Fine(Idle)'
  BY DEF Fine
<1>4. request' = [request EXCEPT ![t] = Idle] /\ Whole(ino')
  BY <1>2 DEF ReplyCreated, Release, Whole, Root
<1>. QED
  BY <1>1, <1>2, <1>3, <1>4, RequestStep

(* A release moves `ino' under the other requests. *)
LEMMA ReleaseFileStep ==
  ASSUME RequestsInv, ReleaseFile
  PROVE  RequestsInv'
<1>1. /\ UNCHANGED <<disk, todo, mounted, sought, opening, known>>
      /\ mounted /\ sought \in SUBSET Names /\ ino' = Root /\ request' = request
  BY DEF ReleaseFile, Release, Serving, Root, requests, RequestsInv, LinksInv, Asked
<1>3. Whole(ino')
  BY <1>1 DEF Whole
<1>4. /\ LinksInv' /\ TreeInv' /\ Whole(ino)' /\ Keeps /\ Entries' = Entries
      /\ \A i : Whole(i) => Whole(i)'
  BY <1>1, <1>3, QuietRequest
<1>5. RequestsFine'
  BY <1>1, <1>4, ServedStays DEF RequestsInv
<1>6. KnownFiles'
  BY <1>1, <1>4, KnownKept DEF RequestsInv, LinksInv
<1>. QED
  BY <1>1, <1>4, <1>5, <1>6 DEF RequestsInv, disk

(* A call that reads the inode `ino'. *)
LEMMA PeekStep ==
  ASSUME RequestsInv, NEW t \in Threads, NEW got, Peek(t, got), got = Attributes,
         known' \subseteq known
  PROVE  RequestsInv'
<1>1. /\ UNCHANGED <<disk, ino, todo, mounted, opening, sought>>
      /\ mounted /\ sought \in SUBSET Names /\ Whole(ino)
  BY DEF Peek, Serving, client, RequestsInv, LinksInv, Asked
<1>2. PICK v : v = [stage |-> "answered", creating |-> FALSE, got |-> got]
  OBVIOUS
<1>3. request' = [request EXCEPT ![t] = v]
  BY <1>2 DEF Peek
<1>4. PICK i : i = ino
  OBVIOUS
<1>5. Whole(i) /\ i \in Inodes /\ inode[i].iid = i /\ inode[i].flag = FlagOf(i)
  BY <1>1, <1>4, WholeHasItsNumber DEF RequestsInv, TreeInv, LinksInv
<1>6. /\ v \in Answered /\ v.got.asked = i /\ v.got.iid = i /\ v.got.flag = FlagOf(i)
      /\ v.creating = FALSE
  BY <1>2, <1>4, <1>5 DEF Answered, Attributes, FlagOf
<1>7. Whole(i)'
  BY <1>1, <1>5, QuietRequest
<1>8. Fine(v)'
  BY <1>6, <1>7 DEF Fine
<1>. QED
  BY <1>1, <1>3, <1>6, <1>8, RequestStep

(* A write reads the inode of its file: a whole file has no links. *)
LEMMA WriteStep ==
  ASSUME RequestsInv, NEW t \in Threads, sfs_write(t)
  PROVE  RequestsInv'
<1>. DEFINE last == IF inode[ino].flag = "FILE" THEN Last(LinksFrom(ino)) ELSE ino
<1>1. last = ino
  <2>. SUFFICES ASSUME inode[ino].flag = "FILE" PROVE Last(LinksFrom(ino)) = ino
    OBVIOUS
  <2>1. Nodes /\ Dirs /\ Whole(ino)
    BY DEF RequestsInv, LinksInv, TreeInv
  <2>2. ino \in Inodes /\ inode[ino] = FileNode(ino)
    <3>1. inode[Root].flag # "FILE"
      BY <2>1, DirFacts DEF Dirs
    <3>. QED
      BY <2>1, <3>1, EntryFacts DEF Whole
  <2>3. LinksFrom(ino) = <<ino>>
    BY <2>1, <2>2, FileAlone
  <2>. QED
    BY <2>3 DEF Last
<1>2. Peek(t, Attributes) /\ known' = known
  BY <1>1 DEF sfs_write, Attributes
<1>. QED
  BY <1>2, PeekStep

(* A create reads the root, or a file that is whole. *)
LEMMA CreateKeepsRequests ==
  ASSUME Reserve >= 2, RequestsInv, NEW name \in Names, Create(name)
  PROVE  RequestsInv'
<1>1. /\ mounted /\ todo = <<>> /\ opening = {} /\ sfs_create(name)
      /\ UNCHANGED <<inode, ino, mounted, request, known>>
      /\ LinksInv /\ TreeInv /\ RequestsFine /\ KnownFiles /\ Dirs /\ Nodes
  BY DEF Create, sfs_create, Ready, requests, disk, RequestsInv, TreeInv, LinksInv
<1>2. Settled
  BY <1>1, AtRest
<1>3. Where
  BY DEF Where, Whole, RequestsInv
<1>4. LinksInv'
  BY <1>1, LinksInvStep DEF Next
<1>5. Dirs' /\ Entries' = Entries /\ (Unfinished' \/ Settled')
  BY <1>1, <1>2, <1>3, <1>4, CreateStep
<1>6. Keeps /\ (\A i : Whole(i) => Whole(i)') /\ Whole(ino)'
  BY <1>1, <1>5 DEF Keeps, Whole, RequestsInv
<1>7. RequestsFine'
  BY <1>1, <1>6, ServedStays DEF RequestsFine
<1>8. KnownFiles'
  BY <1>1, <1>5, <1>6, KnownKept
<1>. QED
  BY <1>1, <1>4, <1>5, <1>6, <1>7, <1>8 DEF RequestsInv, TreeInv

(* The writes of a create and of a formatting. *)
LEMMA NextWriteStep ==
  ASSUME RequestsInv, NextWrite
  PROVE  RequestsInv'
<1>1. /\ todo # <<>> /\ mounted /\ WriteBlock
      /\ UNCHANGED <<ino, mounted, request, known>>
      /\ LinksInv /\ TreeInv /\ RequestsFine /\ KnownFiles /\ Nodes
  BY DEF NextWrite, WriteBlock, requests, RequestsInv, LinksInv
<1>2. LinksInv'
  BY <1>1, WriteBlockKeepsLinks
<1>3. TreeInv' /\ Keeps /\ (Entries' = Entries \/ OneMoreFile)
  BY <1>1, WriteTree
<1>4. \A i : Whole(i) => Whole(i)'
  BY <1>3, WholeKept
<1>5. Whole(ino)'
  <2>1. PICK i : i = ino
    OBVIOUS
  <2>. QED
    BY <1>1, <1>4, <2>1 DEF RequestsInv
<1>6. RequestsFine'
  BY <1>1, <1>4, ServedStays DEF RequestsFine
<1>7. KnownFiles'
  BY <1>1, <1>3, KnownKept
<1>8. inode'[Root].flag = "DIR"
  BY <1>3 DEF Keeps, RequestsInv
<1>. QED
  BY <1>1, <1>2, <1>3, <1>5, <1>6, <1>7, <1>8 DEF RequestsInv

(* The daemon starts with no requests. *)
LEMMA MountKeepsRequests ==
  ASSUME Reserve >= 2, RequestsInv, Mount
  PROVE  RequestsInv'
<1>1. /\ ~ mounted /\ todo = <<>> /\ opening = {} /\ NoRequest /\ sfs_init
      /\ mounted' /\ ino' = Root /\ UNCHANGED <<request, known>>
      /\ LinksInv /\ TreeInv /\ RequestsFine /\ KnownFiles /\ Nodes
  BY DEF Mount, sfs_init, requests, RequestsInv, LinksInv, Root
<1>2. LinksInv'
  BY <1>1, LinksInvStep DEF Next
<1>3. TreeInv' /\ Entries' = Entries /\ inode' = inode
  BY <1>1, <1>2, MountStep
<1>4. Keeps /\ (\A i : Whole(i) => Whole(i)') /\ Whole(ino)'
  BY <1>1, <1>3 DEF Keeps, Whole
<1>5. RequestsFine'
  BY <1>1, <1>4, ServedStays DEF Creating, NoRequest
<1>6. KnownFiles'
  BY <1>1, <1>3, <1>4, KnownKept
<1>. QED
  BY <1>1, <1>2, <1>3, <1>4, <1>5, <1>6 DEF RequestsInv

(* The daemon stops when no request is under way. *)
LEMMA UnmountStep ==
  ASSUME RequestsInv, Unmount
  PROVE  RequestsInv'
<1>1. /\ NoRequest /\ Ready /\ UNCHANGED <<disk, ino, todo, opening, request>>
      /\ sought' = {} /\ known' = {}
      /\ LinksInv /\ TreeInv /\ RequestsFine /\ Whole(ino) /\ Nodes
  BY DEF Unmount, sfs_destroy, RequestsInv, LinksInv
<1>2. Settled
  BY <1>1, AtRest DEF Ready
<1>3. LinksInv'
  <2>1. /\ Nodes' /\ InOrder' /\ InUse' /\ Blank' /\ Asked'
    BY <1>1 DEF LinksInv, disk, Nodes, InOrder, InUse, Blank, Asked
  <2>2. todo = <<>> /\ todo' = <<>> /\ <<>> \in Seq(Writes) /\ Len(<<>>) = 0
    BY <1>1, EmptySeq DEF Ready
  <2>3. ToCome'
    BY <2>2 DEF ToCome
  <2>. QED
    BY <2>1, <2>3 DEF LinksInv
<1>4. TreeInv' /\ Entries' = Entries
  BY <1>1, <1>2, <1>3, QuietStep
<1>5. (\A i : Whole(i) => Whole(i)') /\ Whole(ino)'
  BY <1>1, <1>4 DEF Whole, disk
<1>6. RequestsFine'
  BY <1>1, <1>5, ServedStays DEF Creating, NoRequest
<1>7. KnownFiles' /\ NoRequest' /\ todo' = <<>> /\ opening' = {}
  BY <1>1 DEF KnownFiles, NoRequest, Ready
<1>. QED
  BY <1>1, <1>3, <1>4, <1>5, <1>6, <1>7 DEF RequestsInv, disk

(* Every step keeps the invariant. *)
LEMMA RequestsInvStep ==
  ASSUME Reserve >= 2, RequestsInv, [NextRequests]_<<vars, requests>>
  PROVE  RequestsInv'
<1>1. CASE Mount
  BY <1>1, MountKeepsRequests
<1>2. CASE Unmount
  BY <1>2, UnmountStep
<1>3. CASE NextWrite
  BY <1>3, NextWriteStep
<1>4. CASE ReleaseFile
  BY <1>4, ReleaseFileStep
<1>5. ASSUME NEW name \in Names, Create(name) PROVE RequestsInv'
  BY <1>5, CreateKeepsRequests
<1>6. ASSUME NEW name \in Names, NEW t \in Threads, LookUp(t, name) PROVE RequestsInv'
  BY <1>6, LookUpStep
<1>7. ASSUME NEW t \in Threads,
             LookUpRoot(t) \/ StoreIno(t) \/ GetInode(t) \/ Reply(t)
               \/ LookUpCreated(t) \/ ReplyCreated(t)
      PROVE  RequestsInv'
  BY <1>7, LookUpRootStep, StoreInoStep, GetInodeStep, ReplyStep, LookUpCreatedStep, ReplyCreatedStep
<1>8. ASSUME NEW t \in Threads,
             sfs_unlink(t) \/ sfs_open(t) \/ sfs_read(t) \/ sfs_mkdir(t) \/ sfs_rmdir(t)
               \/ sfs_opendir(t) \/ sfs_readdir(t) \/ sfs_releasedir(t)
      PROVE  RequestsInv'
  <2>1. Peek(t, Attributes) /\ known' \subseteq known
    BY <1>8 DEF sfs_unlink, sfs_open, sfs_read, sfs_mkdir, sfs_rmdir, sfs_opendir, sfs_readdir,
                sfs_releasedir
  <2>. QED
    BY <2>1, PeekStep
<1>9. ASSUME NEW t \in Threads, sfs_write(t) PROVE RequestsInv'
  BY <1>9, WriteStep
<1>10. CASE UNCHANGED <<vars, requests>>
  <2>1. UNCHANGED <<disk, ino, todo, mounted, opening, sought, request, known>>
    BY <1>10 DEF vars, client, requests
  <2>2. sought \in SUBSET Names /\ Whole(ino)
    BY DEF RequestsInv, LinksInv, Asked
  <2>3. /\ LinksInv' /\ TreeInv' /\ Whole(ino)' /\ Keeps /\ Entries' = Entries
        /\ \A i : Whole(i) => Whole(i)'
    BY <2>1, <2>2, QuietRequest
  <2>4. KnownFiles'
    BY <2>1, <2>3, KnownKept DEF RequestsInv, LinksInv
  <2>5. RequestsFine'
    BY <2>1, <2>3, ServedStays DEF RequestsInv
  <2>. QED
    BY <2>1, <2>3, <2>4, <2>5 DEF RequestsInv, NoRequest, disk
<1>. QED
  BY <1>1, <1>2, <1>3, <1>4, <1>5, <1>6, <1>7, <1>8, <1>9, <1>10 DEF NextRequests

(* The daemon that has not started on a disk without bytes. *)
LEMMA RequestsInvInit ==
  ASSUME InitRequests
  PROVE  RequestsInv
<1>1. /\ LinksInv /\ Nodes /\ ino = Root /\ ~ mounted /\ todo = <<>> /\ opening = {} /\ ~ touched
      /\ inode = [i \in Inodes |-> Zeros]
  BY LinksInvInit DEF InitRequests, Init, Root, LinksInv
<1>2. DirInodes = {Root} /\ Entries = {}
  BY <1>1, BlankTree
<1>3. Dirs /\ Formatting
  BY <1>1, <1>2, Basics DEF Dirs, Root, Formatting
<1>4. NoRequest /\ RequestsFine /\ KnownFiles
  BY DEF InitRequests, NoRequest, RequestsFine, Fine, Creating, KnownFiles
<1>. QED
  BY <1>1, <1>3, <1>4, Basics DEF RequestsInv, TreeInv, Whole

(* The invariant of the requests. *)
LEMMA RequestsAlways ==
  ASSUME Reserve >= 2
  PROVE  SpecRequests => []RequestsInv
<1>1. InitRequests => RequestsInv
  BY RequestsInvInit
<1>2. RequestsInv /\ [NextRequests]_<<vars, requests>> => RequestsInv'
  BY RequestsInvStep
<1>. QED
  BY <1>1, <1>2, PTL DEF SpecRequests

-----------------------------------------------------------------------------
(* The theorems.                                                           *)

(* Every answer of the file system is the root's, or that of a file that   *)
(* the directory has, however many threads move the global `ino'           *)
(* (sfs.c:217-222, 324) and whatever inodes a create draws from the bitmap *)
(* meanwhile (inode.c:30-103).                                             *)
THEOREM AnswersExistCorrect ==
  ASSUME Reserve >= 2
  PROVE  SpecRequests => []AnswersExist
<1>1. RequestsInv => AnswersExist
  <2>. SUFFICES ASSUME RequestsInv, NEW t \in Threads, request[t].stage = "answered"
                PROVE  \/ request[t].got.asked = Root /\ request[t].got.flag = "DIR"
                       \/ /\ request[t].got.flag = "FILE"
                          /\ \E e \in Entries : e.ino = request[t].got.asked
    BY DEF AnswersExist, Answers
  <2>1. PICK r : r = request[t]
    OBVIOUS
  <2>2. Fine(r) /\ r.stage = "answered"
    BY <2>1 DEF RequestsInv, RequestsFine
  <2>3. Whole(r.got.asked) /\ r.got.flag = FlagOf(r.got.asked)
    BY <2>2 DEF Fine, Looking, Storing, Answered, Idle
  <2>. QED
    BY <2>1, <2>3 DEF Whole, FlagOf
<1>. QED
  BY <1>1, RequestsAlways, PTL

(* Whatever requests run inside each other, and while a create makes its   *)
(* writes, calls read only inodes that have been written: the lookup finds *)
(* an entry before its inode is on disk (inode.c:99-100) only under the    *)
(* lock that the create holds.                                             *)
THEOREM WholeInodesCorrect ==
  ASSUME Reserve >= 2
  PROVE  SpecRequests => []WholeInodes
<1>1. RequestsInv => WholeInodes
  <2>. SUFFICES ASSUME RequestsInv, NEW t \in Threads, request[t].stage = "answered"
                PROVE  request[t].got.iid = request[t].got.asked
    BY DEF WholeInodes, Answers
  <2>1. PICK r : r = request[t]
    OBVIOUS
  <2>2. Fine(r) /\ r.stage = "answered"
    BY <2>1 DEF RequestsInv, RequestsFine
  <2>3. r.got.iid = r.got.asked
    BY <2>2 DEF Fine, Looking, Storing, Answered, Idle
  <2>. QED
    BY <2>1, <2>3
<1>. QED
  BY <1>1, RequestsAlways, PTL

-----------------------------------------------------------------------------
(* What a mounted disk holds.                                              *)

USE MountAssumption

BlockContents  == {"padding", "superblock", "inode_bitmap", "data_bitmap", ZeroBlock, "root"}
BlockData == [block : Blocks, data : BlockContents]
NumWrites == 7 + InodeBlocks + DataBlocks

\* What the k-th write of a format is.
FormatWrite(k) ==
    \/ k = 1 /\ FormatDisk[k] = [block |-> 0, data |-> "padding"]
    \/ k = 2 /\ FormatDisk[k] = [block |-> 0, data |-> "superblock"]
    \/ k = 3 /\ FormatDisk[k] = [block |-> 1, data |-> "padding"]
    \/ k = 4 /\ FormatDisk[k] = [block |-> 1, data |-> "inode_bitmap"]
    \/ k = 5 /\ FormatDisk[k] = [block |-> 2, data |-> "padding"]
    \/ k = 6 /\ FormatDisk[k] = [block |-> 2, data |-> "data_bitmap"]
    \/ /\ 6 < k /\ k < NumWrites
       /\ FormatDisk[k].block >= SFS_INODE /\ FormatDisk[k].data = ZeroBlock
    \/ k = NumWrites /\ FormatDisk[k] = [block |-> SFS_INODE, data |-> "root"]

\* One sequence of writes after another.
LEMMA Joined ==
  ASSUME NEW s \in Seq(BlockData), NEW t \in Seq(BlockData),
         NEW m \in Nat, NEW n \in Nat, m = Len(s), n = Len(t)
  PROVE  /\ s \o t \in Seq(BlockData)
         /\ m + n = Len(s \o t)
         /\ \A k \in 1 .. m : (s \o t)[k] = s[k]
         /\ \A k \in m + 1 .. m + n : (s \o t)[k] = t[k - m]
BY ConcatProperties

\* What three padded writes make.
LEMMA PaddedWrites ==
  ASSUME NEW a \in BlockData, NEW b \in BlockData, NEW c \in BlockData,
         NEW d \in BlockData, NEW e \in BlockData, NEW f \in BlockData
  PROVE  LET q == (<<a>> \o <<b>>) \o (<<c>> \o <<d>>) \o (<<e>> \o <<f>>)
         IN  /\ q \in Seq(BlockData)
             /\ 6 = Len(q)
             /\ q[1] = a /\ q[2] = b /\ q[3] = c /\ q[4] = d /\ q[5] = e /\ q[6] = f
OBVIOUS

\* Bitmaps and block_write(SFS_INODE, "root") by their lengths: the provers
\* take a sequence apart when they see a number for its length.
BitmapWrites == 6
RootWrites   == 1

\* A format writes each of the first three blocks twice, then zeros over all
\* inode and data blocks, and the root last.
LEMMA FormatShape ==
  /\ FormatDisk \in Seq(BlockData)
  /\ NumWrites = Len(FormatDisk)
  /\ \A k \in 1 .. NumWrites : FormatWrite(k)
<1>. DEFINE zi == ZeroBlocks(SFS_INODE, InodeBlocks)
            zd == ZeroBlocks(SFS_DATA_BLK, DataBlocks)
            root == block_write(SFS_INODE, "root")
<1>0. /\ Bitmaps[1] = [block |-> 0, data |-> "padding"]
      /\ Bitmaps[2] = [block |-> 0, data |-> "superblock"]
      /\ Bitmaps[3] = [block |-> 1, data |-> "padding"]
      /\ Bitmaps[4] = [block |-> 1, data |-> "inode_bitmap"]
      /\ Bitmaps[5] = [block |-> 2, data |-> "padding"]
      /\ Bitmaps[6] = [block |-> 2, data |-> "data_bitmap"]
      /\ Bitmaps \in Seq(BlockData)
      /\ BitmapWrites = Len(Bitmaps)
  <2>. DEFINE W(b, d) == [block |-> b, data |-> d]
  <2>1. Bitmaps = (<<W(0, "padding")>> \o <<W(0, "superblock")>>)
                     \o (<<W(1, "padding")>> \o <<W(1, "inode_bitmap")>>)
                     \o (<<W(2, "padding")>> \o <<W(2, "data_bitmap")>>)
    BY DEF Bitmaps, block_write_padded, block_write,
           SFS_SUPERBLOCK, SFS_INODE_BITMAP_BLKS, SFS_DATA_BITMAP_BLKS
  <2>2. \A b \in {0, 1, 2}, d \in BlockContents : W(b, d) \in BlockData
    BY DEF BlockData, Blocks, SFS_DATA_BLK, SFS_INODE
  <2>3. /\ W(0, "padding") \in BlockData /\ W(0, "superblock") \in BlockData
        /\ W(1, "padding") \in BlockData /\ W(1, "inode_bitmap") \in BlockData
        /\ W(2, "padding") \in BlockData /\ W(2, "data_bitmap") \in BlockData
    BY <2>2 DEF BlockContents
  <2>. DEFINE a == W(0, "padding")  b == W(0, "superblock")
              c == W(1, "padding")  d == W(1, "inode_bitmap")
              e == W(2, "padding")  f == W(2, "data_bitmap")
              q == (<<a>> \o <<b>>) \o (<<c>> \o <<d>>) \o (<<e>> \o <<f>>)
  <2>3a. /\ a \in BlockData /\ b \in BlockData /\ c \in BlockData
         /\ d \in BlockData /\ e \in BlockData /\ f \in BlockData
    BY <2>3
  <2>. HIDE DEF W, a, b, c, d, e, f
  <2>4. /\ q \in Seq(BlockData)
        /\ 6 = Len(q)
        /\ q[1] = a /\ q[2] = b /\ q[3] = c /\ q[4] = d /\ q[5] = e /\ q[6] = f
    BY <2>3a, PaddedWrites
  <2>5. Bitmaps = q
    BY <2>1 DEF a, b, c, d, e, f
  <2>. HIDE DEF q
  <2>. QED
    BY <2>4, <2>5 DEF W, a, b, c, d, e, f, BitmapWrites
<1>2. Bitmaps \in Seq(BlockData) /\ BitmapWrites = Len(Bitmaps)
  BY <1>0
<1>3. /\ zi \in Seq(BlockData) /\ InodeBlocks = Len(zi)
      /\ \A i \in 1 .. InodeBlocks : zi[i] = [block |-> SFS_INODE + i - 1, data |-> ZeroBlock]
  BY DEF ZeroBlocks, BlockData, Blocks, BlockContents, SFS_DATA_BLK, SFS_INODE
<1>4. /\ zd \in Seq(BlockData) /\ DataBlocks = Len(zd)
      /\ \A i \in 1 .. DataBlocks : zd[i] = [block |-> SFS_DATA_BLK + i - 1, data |-> ZeroBlock]
  BY DEF ZeroBlocks, BlockData, Blocks, BlockContents, SFS_DATA_BLK, SFS_INODE
<1>5. /\ root \in Seq(BlockData) /\ RootWrites = Len(root)
      /\ root[1] = [block |-> SFS_INODE, data |-> "root"]
  BY DEF block_write, BlockData, Blocks, BlockContents, SFS_DATA_BLK, SFS_INODE, RootWrites
<1>. DEFINE bitmapsThenInodes == Bitmaps \o zi
            most == bitmapsThenInodes \o zd
<1>6. FormatDisk = most \o root
  BY DEF FormatDisk
<1>. HIDE DEF zi, zd, root
<1>7. /\ bitmapsThenInodes \in Seq(BlockData)
      /\ BitmapWrites + InodeBlocks = Len(bitmapsThenInodes)
      /\ \A k \in 1 .. BitmapWrites : bitmapsThenInodes[k] = Bitmaps[k]
      /\ \A k \in BitmapWrites + 1 .. BitmapWrites + InodeBlocks :
           bitmapsThenInodes[k] = zi[k - BitmapWrites]
  <2>1. BitmapWrites \in Nat
    BY DEF BitmapWrites
  <2>. QED
    BY <2>1, <1>2, <1>3, Joined
<1>. HIDE DEF bitmapsThenInodes
<1>. DEFINE m == BitmapWrites + InodeBlocks
<1>8. /\ most \in Seq(BlockData)
      /\ m + DataBlocks = Len(most)
      /\ \A k \in 1 .. m : most[k] = bitmapsThenInodes[k]
      /\ \A k \in m + 1 .. m + DataBlocks : most[k] = zd[k - m]
  <2>1. m \in Nat /\ m = Len(bitmapsThenInodes)
    BY <1>7 DEF BitmapWrites
  <2>. HIDE DEF m
  <2>. QED
    BY <2>1, <1>7, <1>4, Joined
<1>. HIDE DEF most
<1>9. /\ FormatDisk \in Seq(BlockData)
      /\ NumWrites = Len(FormatDisk)
      /\ \A k \in 1 .. NumWrites - 1 : FormatDisk[k] = most[k]
      /\ FormatDisk[NumWrites] = root[1]
  <2>. DEFINE n == m + DataBlocks
  <2>1. n \in Nat /\ RootWrites \in Nat /\ n = Len(most)
    BY <1>8 DEF BitmapWrites, RootWrites
  <2>2. NumWrites = n + RootWrites /\ n = NumWrites - 1 /\ NumWrites - n = 1
        /\ NumWrites \in n + 1 .. n + RootWrites
    BY DEF NumWrites, BitmapWrites, RootWrites
  <2>. HIDE DEF n, m
  <2>3. /\ most \o root \in Seq(BlockData)
        /\ n + RootWrites = Len(most \o root)
        /\ \A k \in 1 .. n : (most \o root)[k] = most[k]
        /\ \A k \in n + 1 .. n + RootWrites : (most \o root)[k] = root[k - n]
    BY <2>1, <1>8, <1>5, Joined
  <2>. QED
    BY <2>2, <2>3, <1>6
<1>. HIDE DEF BlockData
<1>10. /\ FormatDisk[1] = [block |-> 0, data |-> "padding"]
       /\ FormatDisk[2] = [block |-> 0, data |-> "superblock"]
       /\ FormatDisk[3] = [block |-> 1, data |-> "padding"]
       /\ FormatDisk[4] = [block |-> 1, data |-> "inode_bitmap"]
       /\ FormatDisk[5] = [block |-> 2, data |-> "padding"]
       /\ FormatDisk[6] = [block |-> 2, data |-> "data_bitmap"]
  <2>1. ASSUME NEW k \in 1 .. 6 PROVE FormatDisk[k] = Bitmaps[k]
    <3>1. k \in 1 .. BitmapWrites /\ k \in 1 .. m /\ k \in 1 .. NumWrites - 1
      BY DEF BitmapWrites, NumWrites
    <3>. HIDE DEF m
    <3>. QED
      BY <3>1, <1>7, <1>8, <1>9
  <2>2. /\ FormatDisk[1] = Bitmaps[1] /\ FormatDisk[2] = Bitmaps[2] /\ FormatDisk[3] = Bitmaps[3]
        /\ FormatDisk[4] = Bitmaps[4] /\ FormatDisk[5] = Bitmaps[5] /\ FormatDisk[6] = Bitmaps[6]
    BY <2>1
  <2>. QED
    BY <2>2, <1>0, Zenon
<1>11. /\ \A k \in 7 .. 6 + InodeBlocks : FormatDisk[k] = zi[k - 6]
       /\ \A k \in 7 + InodeBlocks .. 6 + InodeBlocks + DataBlocks :
            FormatDisk[k] = zd[k - (6 + InodeBlocks)]
  <2>1. BitmapWrites = 6 /\ m = 6 + InodeBlocks
        /\ NumWrites - 1 = 6 + InodeBlocks + DataBlocks
    BY DEF BitmapWrites, NumWrites
  <2>2. \A k \in 7 .. 6 + InodeBlocks :
            /\ k \in 1 .. NumWrites - 1 /\ k \in 1 .. m
            /\ k \in BitmapWrites + 1 .. BitmapWrites + InodeBlocks
    BY <2>1
  <2>3. \A k \in 7 + InodeBlocks .. 6 + InodeBlocks + DataBlocks :
            k \in 1 .. NumWrites - 1 /\ k \in m + 1 .. m + DataBlocks
    BY <2>1
  <2>. HIDE DEF m
  <2>4. \A k \in 7 .. 6 + InodeBlocks : FormatDisk[k] = zi[k - 6]
    BY <1>7, <1>8, <1>9, <2>1, <2>2
  <2>. QED
    BY <1>8, <1>9, <2>1, <2>3, <2>4
<1>12. ASSUME NEW k \in 1 .. NumWrites
       PROVE  FormatWrite(k)
  <2>. USE DEF NumWrites
  <2>1. CASE k <= 6
    <3>1. k \in {1, 2, 3, 4, 5, 6}
      BY <2>1
    <3>. QED
      BY <3>1, <1>10 DEF FormatWrite
  <2>2. CASE k > 6 /\ k <= 6 + InodeBlocks
    <3>1. FormatDisk[k] = [block |-> SFS_INODE + (k - 6) - 1, data |-> ZeroBlock]
      BY <2>2, <1>3, <1>11
    <3>. QED
      <4>1. 6 < k /\ k < NumWrites
        BY <2>2
      <4>2. FormatDisk[k].block >= SFS_INODE /\ FormatDisk[k].data = ZeroBlock
        BY <3>1, <2>2 DEF SFS_INODE
      <4>. QED
        BY <4>1, <4>2 DEF FormatWrite
  <2>3. CASE k > 6 + InodeBlocks /\ k < NumWrites
    <3>1. FormatDisk[k] = [block |-> SFS_DATA_BLK + (k - (6 + InodeBlocks)) - 1, data |-> ZeroBlock]
      <4>1. k - (6 + InodeBlocks) \in 1 .. DataBlocks
        BY <2>3
      <4>2. zd[k - (6 + InodeBlocks)] =
              [block |-> SFS_DATA_BLK + (k - (6 + InodeBlocks)) - 1, data |-> ZeroBlock]
        BY <4>1, <1>4
      <4>. QED
        BY <4>2, <2>3, <1>11
    <3>. QED
      <4>1. 6 < k
        BY <2>3
      <4>2. FormatDisk[k].block >= SFS_INODE /\ FormatDisk[k].data = ZeroBlock
        BY <3>1, <2>3 DEF SFS_DATA_BLK, SFS_INODE
      <4>. QED
        BY <2>3, <4>1, <4>2 DEF FormatWrite
  <2>4. CASE k = NumWrites
    <3>1. FormatDisk[k] = [block |-> SFS_INODE, data |-> "root"]
      BY <2>4, <1>5, <1>9
    <3>. QED
      BY <2>4, <3>1 DEF FormatWrite, SFS_INODE
  <2>. QED
    BY <2>1, <2>2, <2>3, <2>4
<1>. QED
  BY <1>9, <1>12

-----------------------------------------------------------------------------
(* The inductive invariant.                                                *)

\* s is what a format still has to write.
Rest(s) ==
    /\ s \in Seq(BlockData)
    /\ Len(s) <= NumWrites
    /\ \A i \in 1 .. Len(s) : s[i] = FormatDisk[NumWrites - Len(s) + i]

\* How many writes of the format are over, the failed ones included.
BlocksWritten == NumWrites - Len(writes)

Kinds ==
    /\ diskfile \in {"absent", "empty", "sized"}
    /\ block \in [Blocks -> BlockContents]
    /\ Rest(writes)
    /\ daemon \in {"down", "init", "serving"}
    /\ broken \in BOOLEAN

\* With or without faults: only a daemon in sfs_init writes, it formats a file
\* that holds nothing, and the root comes last of all.
AnyDisk ==
    /\ daemon # "init" => writes = <<>>
    /\ daemon # "down" => diskfile # "absent"
    /\ diskfile # "sized" => \A b \in Blocks : block[b] = ZeroBlock
    /\ \A b \in Blocks : b > SFS_INODE => block[b] = ZeroBlock
    /\ writes # <<>> => block[SFS_INODE] = ZeroBlock

\* While no fault has hit a format, the disk holds what has been written.
SoundDisk ==
    /\ diskfile = "sized" /\ writes = <<>> => Formatted
    /\ daemon # "down" /\ writes = <<>> => diskfile = "sized"
    /\ daemon = "init" /\ diskfile = "empty" => BlocksWritten = 0
    /\ diskfile = "sized" /\ writes # <<>> =>
         /\ BlocksWritten >= 2 => block[SFS_SUPERBLOCK] = "superblock"
         /\ BlocksWritten >= 4 => block[SFS_INODE_BITMAP_BLKS] = "inode_bitmap"
         /\ BlocksWritten >= 6 => block[SFS_DATA_BITMAP_BLKS] = "data_bitmap"

MountInv == Kinds /\ AnyDisk /\ (~ broken => SoundDisk)

\* Which block a write of the format goes to, and with what.
LEMMA WriteFacts ==
  ASSUME NEW k \in 1 .. NumWrites
  PROVE  LET b == FormatDisk[k].block
             d == FormatDisk[k].data
         IN  /\ k \in {1, 2} => b = 0
             /\ k \in {3, 4} => b = 1
             /\ k \in {5, 6} => b = 2
             /\ 6 < k => b >= SFS_INODE
             /\ 6 < k /\ k < NumWrites => d = ZeroBlock
             /\ k = NumWrites => b = SFS_INODE /\ d = "root"
             /\ k = 2 => d = "superblock"
             /\ k = 4 => d = "inode_bitmap"
             /\ k = 6 => d = "data_bitmap"
             /\ d = "padding" => k < NumWrites
<1>1. FormatWrite(k)
  BY FormatShape
<1>2. NumWrites \in Nat /\ NumWrites > 7
  BY DEF NumWrites
<1>. DEFINE w == FormatDisk[k]
<1>3. w = FormatDisk[k]
  OBVIOUS
<1>. HIDE DEF w
<1>4. CASE k = 1 /\ w = [block |-> 0, data |-> "padding"]
  BY <1>2, <1>3, <1>4
<1>5. CASE k = 2 /\ w = [block |-> 0, data |-> "superblock"]
  BY <1>2, <1>3, <1>5
<1>6. CASE k = 3 /\ w = [block |-> 1, data |-> "padding"]
  BY <1>2, <1>3, <1>6
<1>7. CASE k = 4 /\ w = [block |-> 1, data |-> "inode_bitmap"]
  BY <1>2, <1>3, <1>7
<1>8. CASE k = 5 /\ w = [block |-> 2, data |-> "padding"]
  BY <1>2, <1>3, <1>8
<1>9. CASE k = 6 /\ w = [block |-> 2, data |-> "data_bitmap"]
  BY <1>2, <1>3, <1>9
<1>10. CASE 6 < k /\ k < NumWrites /\ w.block >= SFS_INODE /\ w.data = ZeroBlock
  BY <1>2, <1>3, <1>10
<1>11. CASE k = NumWrites /\ w = [block |-> SFS_INODE, data |-> "root"]
  BY <1>2, <1>3, <1>11 DEF SFS_INODE
<1>. QED
  BY <1>1, <1>3, <1>4, <1>5, <1>6, <1>7, <1>8, <1>9, <1>10, <1>11 DEF FormatWrite

\* One write less is the rest of a format, and its first write is the next.
LEMMA RestOfRest ==
  ASSUME NEW s, Rest(s), s # <<>>
  PROVE  /\ Rest(Tail(s))
         /\ Len(Tail(s)) = Len(s) - 1
         /\ Len(s) \in 1 .. NumWrites
         /\ Head(s) = FormatDisk[NumWrites - Len(s) + 1]
         /\ FormatWrite(NumWrites - Len(s) + 1)
<1>. DEFINE n == Len(s)
<1>1. s \in Seq(BlockData) /\ n \in Nat /\ n <= NumWrites
      /\ \A i \in 1 .. n : s[i] = FormatDisk[NumWrites - n + i]
  BY DEF Rest
<1>2. n > 0 /\ Tail(s) \in Seq(BlockData) /\ Len(Tail(s)) = n - 1
      /\ Head(s) = s[1] /\ \A i \in 1 .. n - 1 : Tail(s)[i] = s[i + 1]
  BY <1>1, HeadTailProperties, EmptySeq
<1>3. NumWrites \in Nat
  BY DEF NumWrites
<1>. HIDE DEF n
<1>4. Head(s) = FormatDisk[NumWrites - n + 1]
  BY <1>1, <1>2
<1>5. Rest(Tail(s))
  <2>1. \A i \in 1 .. n - 1 : Tail(s)[i] = FormatDisk[NumWrites - (n - 1) + i]
    <3>1. TAKE i \in 1 .. n - 1
    <3>2. i + 1 \in 1 .. n /\ NumWrites - (n - 1) + i = NumWrites - n + (i + 1)
      BY <1>1, <1>3
    <3>. QED
      BY <1>1, <1>2, <3>2
  <2>. QED
    BY <1>1, <1>2, <1>3, <2>1 DEF Rest
<1>6. NumWrites - n + 1 \in 1 .. NumWrites
  BY <1>1, <1>2, <1>3
<1>7. FormatWrite(NumWrites - n + 1)
  BY <1>6, FormatShape
<1>. QED
  BY <1>1, <1>2, <1>4, <1>5, <1>7 DEF n

\* A format that has nothing behind it has everything before it.
LEMMA WholeFormat == Rest(FormatDisk) /\ Rest(<<>>) /\ FormatDisk # <<>>
<1>1. NumWrites \in Nat /\ NumWrites > 0 /\ FormatDisk \in Seq(BlockData)
      /\ Len(FormatDisk) = NumWrites
  BY FormatShape DEF NumWrites
<1>2. \A i \in 1 .. NumWrites : NumWrites - NumWrites + i = i
  BY <1>1
<1>3. Rest(FormatDisk)
  BY <1>1, <1>2 DEF Rest
<1>4. Rest(<<>>)
  <2>1. <<>> \in Seq(BlockData) /\ Len(<<>>) = 0
    BY EmptySeq
  <2>. QED
    BY <1>1, <2>1 DEF Rest
<1>. QED
  BY <1>1, <1>3, <1>4, EmptySeq

(* The invariant holds for any file that the first mount may find. *)
LEMMA MountInvInit == InitMount => MountInv
<1>. SUFFICES ASSUME InitMount PROVE MountInv
  OBVIOUS
<1>1. Kinds
  BY WholeFormat DEF InitMount, Kinds, BlockContents
<1>2. AnyDisk
  BY DEF InitMount, AnyDisk, Blocks, SFS_INODE, SFS_DATA_BLK
<1>3. SoundDisk
  BY DEF InitMount, SoundDisk
<1>. QED
  BY <1>1, <1>2, <1>3 DEF MountInv

\* A write that reaches the disk.
LEMMA PWriteKeeps ==
  ASSUME MountInv, PWrite
  PROVE  MountInv'
<1>. DEFINE k == BlocksWritten + 1
<1>1. /\ Rest(writes) /\ writes # <<>>
      /\ writes' = Tail(writes) /\ diskfile' = "sized"
      /\ daemon' = daemon /\ broken' = broken
      /\ block' = [block EXCEPT ![Head(writes).block] = Head(writes).data]
  BY DEF PWrite, MountInv, Kinds
<1>2. /\ Rest(writes') /\ Len(writes') = Len(writes) - 1
      /\ Len(writes) \in 1 .. NumWrites
      /\ Head(writes) = FormatDisk[k] /\ FormatWrite(k)
  BY <1>1, RestOfRest DEF BlocksWritten
<1>3. /\ NumWrites \in Nat /\ NumWrites > 7
      /\ k \in 1 .. NumWrites /\ BlocksWritten' = k /\ BlocksWritten = k - 1
  BY <1>2 DEF BlocksWritten, NumWrites
<1>4. writes' = <<>> <=> k = NumWrites
  <2>1. writes' \in Seq(BlockData)
    BY <1>2 DEF Rest
  <2>2. writes' = <<>> <=> Len(writes') = 0
    BY <2>1, EmptySeq
  <2>. QED
    BY <1>2, <2>2 DEF BlocksWritten, NumWrites
<1>5. FormatDisk[k] \in BlockData
  BY <1>3, FormatShape
<1>. DEFINE b == FormatDisk[k].block  d == FormatDisk[k].data
<1>6. /\ b \in Blocks /\ d \in BlockContents
      /\ block' = [block EXCEPT ![b] = d]
      /\ block \in [Blocks -> BlockContents]
  BY <1>1, <1>2, <1>5 DEF BlockData, MountInv, Kinds
<1>7. /\ k \in {1, 2} => b = 0
      /\ k \in {3, 4} => b = 1
      /\ k \in {5, 6} => b = 2
      /\ 6 < k => b >= SFS_INODE
      /\ 6 < k /\ k < NumWrites => d = ZeroBlock
      /\ k = NumWrites => b = SFS_INODE /\ d = "root"
      /\ k = 2 => d = "superblock"
      /\ k = 4 => d = "inode_bitmap"
      /\ k = 6 => d = "data_bitmap"
  BY <1>3, WriteFacts
<1>8. k \in {1, 2, 3, 4, 5, 6} \/ 6 < k
  BY <1>3
<1>. HIDE DEF b, d, k
<1>9. {0, 1, 2, 3} \subseteq Blocks
  BY DEF Blocks, SFS_DATA_BLK, SFS_INODE
<1>10. Kinds'
  BY <1>1, <1>2, <1>6 DEF Kinds, MountInv
<1>11. AnyDisk'
  <2>1. daemon = "init" /\ diskfile # "absent"
    BY <1>1 DEF MountInv, AnyDisk
  <2>2. ASSUME NEW x \in Blocks, x > SFS_INODE
        PROVE  block'[x] = ZeroBlock
    <3>1. block[x] = ZeroBlock
      BY <2>2 DEF MountInv, AnyDisk
    <3>2. b = x => d = ZeroBlock
      BY <1>3, <1>7, <1>8, <2>2 DEF SFS_INODE
    <3>. QED
      BY <1>6, <3>1, <3>2
  <2>3. writes' # <<>> => block'[SFS_INODE] = ZeroBlock
    <3>. SUFFICES ASSUME writes' # <<>> PROVE block'[SFS_INODE] = ZeroBlock
      OBVIOUS
    <3>1. block[SFS_INODE] = ZeroBlock
      BY <1>1 DEF MountInv, AnyDisk
    <3>2. b = SFS_INODE => d = ZeroBlock
      BY <1>3, <1>4, <1>7, <1>8 DEF SFS_INODE
    <3>. QED
      BY <1>6, <1>9, <3>1, <3>2 DEF SFS_INODE
  <2>. QED
    BY <1>1, <2>1, <2>2, <2>3 DEF AnyDisk
<1>12. ASSUME ~ broken'
       PROVE  SoundDisk'
  <2>1. /\ k > 2 => block[0] = "superblock"
        /\ k > 4 => block[1] = "inode_bitmap"
        /\ k > 6 => block[2] = "data_bitmap"
    <3>1. diskfile = "sized" \/ BlocksWritten = 0
      BY <1>1, <1>12 DEF MountInv, SoundDisk, AnyDisk, Kinds
    <3>. QED
      BY <1>1, <1>3, <1>12, <3>1 DEF MountInv, SoundDisk, SFS_SUPERBLOCK,
           SFS_INODE_BITMAP_BLKS, SFS_DATA_BITMAP_BLKS
  <2>2. /\ k >= 2 => block'[0] = "superblock"
        /\ k >= 4 => block'[1] = "inode_bitmap"
        /\ k >= 6 => block'[2] = "data_bitmap"
    BY <2>1, <1>3, <1>6, <1>7, <1>8, <1>9 DEF SFS_INODE
  <2>3. ASSUME writes' = <<>>
        PROVE  Formatted'
    <3>1. k = NumWrites /\ block'[3] = "root"
      BY <2>3, <1>4, <1>6, <1>7, <1>9 DEF SFS_INODE
    <3>2. \A x \in Blocks : x > SFS_INODE => block'[x] = ZeroBlock
      BY <1>11 DEF AnyDisk
    <3>. QED
      BY <3>1, <3>2, <2>2, <1>3 DEF Formatted, SFS_SUPERBLOCK, SFS_INODE_BITMAP_BLKS,
           SFS_DATA_BITMAP_BLKS, SFS_INODE
  <2>. QED
    BY <2>2, <2>3, <1>1, <1>3 DEF SoundDisk, SFS_SUPERBLOCK, SFS_INODE_BITMAP_BLKS,
         SFS_DATA_BITMAP_BLKS
<1>. QED
  BY <1>10, <1>11, <1>12 DEF MountInv

\* A write that fails, with the one that its padding announces.
LEMMA PWriteFailsKeeps ==
  ASSUME MountInv, PWriteFails
  PROVE  MountInv'
<1>1. Rest(writes) /\ writes # <<>> /\ broken' = TRUE
      /\ UNCHANGED <<diskfile, block, daemon>>
  BY DEF PWriteFails, image, MountInv, Kinds
<1>2. /\ Rest(Tail(writes)) /\ Len(Tail(writes)) = Len(writes) - 1
      /\ Len(writes) \in 1 .. NumWrites
      /\ Head(writes) = FormatDisk[NumWrites - Len(writes) + 1]
      /\ FormatWrite(NumWrites - Len(writes) + 1)
  BY <1>1, RestOfRest
<1>3. Rest(writes')
  <2>1. CASE Head(writes).data = "padding"
    <3>1. NumWrites - Len(writes) + 1 < NumWrites
      <4>1. NumWrites - Len(writes) + 1 \in 1 .. NumWrites
        BY <1>2 DEF NumWrites
      <4>. QED
        BY <1>2, <2>1, <4>1, WriteFacts
    <3>2. Tail(writes) # <<>>
      <4>1. Len(Tail(writes)) > 0
        BY <1>2, <3>1 DEF NumWrites
      <4>2. Len(<<>>) = 0
        BY EmptySeq
      <4>. QED
        BY <4>1, <4>2
    <3>. QED
      BY <1>2, <2>1, <3>2, RestOfRest DEF PWriteFails
  <2>2. CASE Head(writes).data # "padding"
    BY <1>2, <2>2 DEF PWriteFails
  <2>. QED
    BY <2>1, <2>2
<1>. QED
  BY <1>1, <1>3 DEF MountInv, Kinds, AnyDisk

\* The other steps do not write; sfs_init formats only what holds nothing.
LEMMA OthersKeep ==
  ASSUME MountInv,
         Touch \/ StartDaemon \/ Served \/ StopDaemon \/ DaemonDies \/ UNCHANGED mountVars
  PROVE  MountInv'
<1>. USE DEF MountInv, Kinds, AnyDisk, SoundDisk, Formatted, BlocksWritten, image
<1>1. CASE Touch
  BY <1>1 DEF Touch
<1>2. CASE StartDaemon
  <2>1. CASE NeedsFormat
    <3>1. writes' = FormatDisk /\ daemon' = "init" /\ diskfile = "empty"
          /\ UNCHANGED <<diskfile, block, broken>>
      BY <1>2, <2>1 DEF StartDaemon, NeedsFormat
    <3>2. Rest(writes') /\ writes' # <<>> /\ Len(writes') = NumWrites
      BY <3>1, WholeFormat, FormatShape
    <3>3. SFS_INODE \in Blocks
      BY DEF Blocks, SFS_INODE, SFS_DATA_BLK
    <3>4. NumWrites \in Nat
      BY DEF NumWrites
    <3>. QED
      BY <3>1, <3>2, <3>3, <3>4
  <2>2. CASE ~ NeedsFormat
    BY <1>2, <2>2, WholeFormat DEF StartDaemon, NeedsFormat
  <2>. QED
    BY <2>1, <2>2
<1>3. CASE Served
  BY <1>3 DEF Served
<1>4. CASE StopDaemon
  BY <1>4 DEF StopDaemon
<1>5. CASE DaemonDies
  BY <1>5, WholeFormat DEF DaemonDies
<1>6. CASE UNCHANGED mountVars
  BY <1>6 DEF mountVars
<1>. QED
  BY <1>1, <1>2, <1>3, <1>4, <1>5, <1>6

\* A daemon that serves has a formatted disk under it, unless a fault has hit
\* a format: the invariant says how far an unfinished format has come.
THEOREM ServesFormattedCorrect == SpecMount => []ServesFormatted
<1>1. MountInv /\ [NextMount]_mountVars => MountInv'
  BY PWriteKeeps, PWriteFailsKeeps, OthersKeep DEF NextMount
<1>2. MountInv => ServesFormatted
  BY DEF MountInv, AnyDisk, SoundDisk, ServesFormatted
<1>. QED
  BY MountInvInit, <1>1, <1>2, PTL DEF SpecMount

\* No step takes a formatted disk apart: the root is there only when nothing
\* is left to write, and nothing is formatted twice.
THEOREM FormattedForGoodCorrect == SpecMount => FormattedForGood
<1>1. MountInv /\ [NextMount]_mountVars => MountInv'
  BY PWriteKeeps, PWriteFailsKeeps, OthersKeep DEF NextMount
<1>2. MountInv /\ [NextMount]_mountVars => (Formatted => Formatted')
  <2>. SUFFICES ASSUME MountInv, [NextMount]_mountVars, Formatted PROVE Formatted'
    OBVIOUS
  <2>1. writes = <<>>
    BY DEF MountInv, AnyDisk, Formatted, ZeroBlock
  <2>2. block' = block
    BY <2>1 DEF NextMount, mountVars, image, Touch, StartDaemon, PWrite, PWriteFails, Served,
         StopDaemon, DaemonDies
  <2>. QED
    BY <2>2 DEF Formatted
<1>. QED
  BY MountInvInit, <1>1, <1>2, PTL DEF SpecMount, FormattedForGood
=============================================================================
