-------------------------------- MODULE Sfs --------------------------------
(***************************************************************************)
(* The FUSE file system of src/src (sfs.c, inode.c, block.c): the inode    *)
(* table and the inode bitmap on disk, and the global `ino` that getattr   *)
(* moves and create and release use.                                       *)
(*                                                                         *)
(* FUSE serves one request at a time here (option -s).  A call reads       *)
(* first and writes then: it leaves in `todo` the block writes it makes,   *)
(* in their order, and a crash may come before any of them.  read, write,  *)
(* open, unlink, mkdir, rmdir and the directory calls change nothing in    *)
(* this version of the code and are no actions.  Data blocks are never     *)
(* allocated.  Never written blocks read as zeros, so that the blocks of   *)
(* zeros that sfs_init writes are left out.                                *)
(***************************************************************************)
EXTENDS Naturals, Sequences, FiniteSets, FiniteSetsExt, SequencesExt

CONSTANTS
    NumInodes,   \* SFS_INODES_NUM (80)
    PtrNum,      \* SFS_PTR_NUM_PER_INODE (8)
    Names,       \* the names of files that clients use
    Stored,      \* what create_inode_real copies of each name
    Reserve,     \* clients create files as long as so many inodes are free
    MaxOpen,     \* bound: files open at once
    MaxCrashes   \* bound: crashes amid the writes of a create

ASSUME SfsAssumption ==
    /\ NumInodes \in Nat \ {0} /\ PtrNum \in Nat /\ PtrNum > 1
    /\ DOMAIN Stored = Names
    /\ Reserve \in Nat /\ MaxOpen \in Nat
    /\ MaxCrashes \in Nat

VARIABLES
    inode,     \* the inode blocks
    free,      \* the inodes with a 1 in the inode bitmap
    touched,   \* whether the disk file has any bytes
    ino,       \* the inode that path names are looked up in
    todo,      \* the block writes that the current call has still to make
    mounted,   \* the daemon runs
    sought,    \* the names some client asked for and was told ENOENT
    opening,   \* the name of the file being created, until FUSE has looked it up
    handles,   \* how many files are open
    crashes    \* how often the daemon died amid a create

disk == <<inode, free, touched>>
client == <<sought, opening, handles>>
vars == <<disk, ino, todo, mounted, client, crashes>>

Inodes == 0 .. NumInodes - 1
Root   == 0
Missing == NumInodes + 1   \* path_ino_mapping found nothing
NoLink == NumInodes

\* num_link is the number of entries, and one more with a link.
NewInode(iid, flag) == [iid |-> iid, flag |-> flag, entries |-> <<>>, link |-> NoLink]
Zeros == NewInode(0, "DIR")   \* SFS_FLAG_DIR is 0

-----------------------------------------------------------------------------
(* Block writes.                                                           *)

PutInode(data) == [block |-> "inode", data |-> data]
MarkUsed(i)    == [block |-> "bitmap", data |-> {i}]
ClearBitmap    == [block |-> "bitmap", data |-> Inodes]
FreshBitmap    == [block |-> "fresh_bitmap"]
Superblock     == [block |-> "super"]

\* An inode is written where its iid says.
Write(w) ==
    /\ touched' = TRUE
    /\ inode' = IF w.block = "inode" THEN [inode EXCEPT ![w.data.iid] = w.data] ELSE inode
    /\ free' = CASE w.block = "bitmap" -> free \ w.data
                 [] w.block = "fresh_bitmap" -> Inodes \ {Root}
                 [] OTHER -> free

WriteBlock ==
    /\ todo # <<>>
    /\ Write(Head(todo))
    /\ todo' = Tail(todo)
    /\ UNCHANGED <<ino, mounted, client, crashes>>

\* The superblock and the bitmap are padded first, with characters '0'.
Format == <<Superblock, ClearBitmap, FreshBitmap, PutInode(Zeros)>>

-----------------------------------------------------------------------------
(* The inodes that a directory is spread over: itself, its link, the link  *)
(* of that, and so on; cut off where the code would go round in a circle.  *)
FollowsLinks(c) ==
    /\ \A k \in 1 .. Len(c) - 1 : c[k + 1] = inode[c[k]].link
    /\ IsInjective(c)
    /\ inode[Last(c)].link \notin Inodes \ ToSet(c)

Linked == {inode[i].link : i \in Inodes} \ {NoLink}

LinksFrom(i) ==
    CHOOSE c \in {<<i>> \o links : links \in BoundedSeq(Linked, Cardinality(Linked))} :
        FollowsLinks(c)

findFreeInode(unused) == IF unused = {} THEN 0 ELSE Min(unused)

AddEntry_ParentUnmarked(dir, name) ==
    LET child == findFreeInode(free)
        entry == [name |-> Stored[name], ino |-> child]
    IN  <<PutInode([dir EXCEPT !.entries = Append(@, entry)]),
          PutInode(NewInode(child, "FILE")), MarkUsed(child)>>

AddEntry_ChildUnmarked(dir, name) ==
    LET child == findFreeInode(free \ {dir.iid})
        entry == [name |-> Stored[name], ino |-> child]
    IN  <<MarkUsed(dir.iid), PutInode([dir EXCEPT !.entries = Append(@, entry)]),
          PutInode(NewInode(child, "FILE"))>>

AddEntry_NoInode(dir, name) ==
    LET child == findFreeInode(free \ {dir.iid})
        entry == [name |-> Stored[name], ino |-> child]
    IN  <<MarkUsed(dir.iid), PutInode([dir EXCEPT !.entries = Append(@, entry)]),
          MarkUsed(child)>>

\* A new file in a free slot of dir.
AddEntry(dir, name) ==
    LET child == findFreeInode(free \ {dir.iid})
        entry == [name |-> Stored[name], ino |-> child]
    IN  <<MarkUsed(dir.iid),
          PutInode([dir EXCEPT !.entries = Append(@, entry)]),
          PutInode(NewInode(child, "FILE")),
          MarkUsed(child)>>

AddLink_DropsLast(dir, name) ==
    LET new == NewInode(findFreeInode(free), "LINK")
    IN  AddEntry(new, name)
        \o <<PutInode([dir EXCEPT !.link = new.iid, !.entries = Front(@)])>>

AddLink_LinksItself(dir, name) ==
    LET new == NewInode(findFreeInode(free), "LINK")
    IN  AddEntry(new, name) \o <<PutInode([dir EXCEPT !.link = dir.iid])>>

\* dir is full but for the slot of the link: a new file in a new inode.
AddLink(dir, name) ==
    LET new == NewInode(findFreeInode(free), "LINK")
    IN  AddEntry(new, name) \o <<PutInode([dir EXCEPT !.link = new.iid])>>

\* The writes of create_inode_real for the inode at the end of the links,
\* then those of its callers, which write back each inode on the way to it.
create_inode_real(i, name) ==
    LET chain == LinksFrom(i)
        dir   == inode[Last(chain)]
        back  == [k \in 1 .. Len(chain) - 1 |-> PutInode(inode[chain[Len(chain) - k]])]
    IN  (CASE dir.flag = "FILE"                 -> <<>>
           [] dir.flag # "FILE" /\ Len(dir.entries) = PtrNum - 1 -> AddLink(dir, name)
           [] dir.flag # "FILE" /\ Len(dir.entries) < PtrNum - 1 -> AddEntry(dir, name))
        \o back

\* The slots whose name is the one looked up; the link is not followed.
Matches(name) == {k \in DOMAIN inode[ino].entries : inode[ino].entries[k].name = name}

path_ino_mapping(name) ==
    IF Matches(name) = {} THEN Missing ELSE inode[ino].entries[Min(Matches(name))].ino

NotFound(sign) == sign > NumInodes

-----------------------------------------------------------------------------
(* The life of the daemon.                                                 *)

Ready == mounted /\ todo = <<>> /\ opening = {}

sfs_init ==
    /\ ~ mounted
    /\ mounted' = TRUE
    /\ ino' = 0
    /\ todo' = IF touched THEN <<>> ELSE Format
    /\ UNCHANGED <<disk, client, crashes>>

sfs_destroy ==
    /\ Ready
    /\ handles = 0
    /\ mounted' = FALSE
    /\ sought' = {}
    /\ UNCHANGED <<disk, ino, todo, opening, handles, crashes>>

\* The daemon dies with block writes of a create still to make.  (If it dies
\* in sfs_init, the disk is not empty and will never be formatted again.)
Crash ==
    /\ opening # {} /\ todo # <<>>
    /\ crashes < MaxCrashes
    /\ crashes' = crashes + 1
    /\ mounted' = FALSE
    /\ todo' = <<>>
    /\ sought' = {}
    /\ opening' = {}
    /\ handles' = 0
    /\ UNCHANGED <<disk, ino>>

-----------------------------------------------------------------------------
(* Requests.                                                               *)

\* getattr of the mount point.
GetattrRoot ==
    /\ Ready
    /\ ino' = 0
    /\ UNCHANGED <<disk, todo, mounted, client, crashes>>

sfs_getattr(name) ==
    LET sign == path_ino_mapping(name)
    IN  /\ Ready
        /\ IF NotFound(sign)
           THEN sought' = sought \cup {name} /\ UNCHANGED ino
           ELSE ino' = sign /\ sought' = sought \ {name}
        /\ UNCHANGED <<disk, todo, mounted, opening, handles, crashes>>

\* FUSE asks for a file to be created when it was not found.
sfs_create(name) ==
    /\ Ready
    /\ name \in sought
    /\ handles < MaxOpen
    /\ Cardinality(free) >= Reserve
    /\ todo' = create_inode_real(ino, name)
    /\ opening' = {name}
    /\ sought' = sought \ {name}
    /\ UNCHANGED <<disk, ino, mounted, handles, crashes>>

\* FUSE looks up the file create has made; if that fails, it releases it.
LookupCreated ==
    LET sign == path_ino_mapping(CHOOSE name \in opening : TRUE)
    IN  /\ todo = <<>>
        /\ opening # {}
        /\ opening' = {}
        /\ IF NotFound(sign)
           THEN ino' = 0 /\ UNCHANGED handles
           ELSE ino' = sign /\ handles' = handles + 1
        /\ UNCHANGED <<disk, todo, mounted, sought, crashes>>

sfs_release ==
    /\ Ready
    /\ handles > 0
    /\ handles' = handles - 1
    /\ ino' = 0
    /\ UNCHANGED <<disk, todo, mounted, sought, opening, crashes>>

-----------------------------------------------------------------------------
Init ==
    /\ inode = [i \in Inodes |-> Zeros]
    /\ free = {}
    /\ touched = FALSE
    /\ ino = 0
    /\ todo = <<>>
    /\ mounted = FALSE
    /\ sought = {}
    /\ opening = {}
    /\ handles = 0
    /\ crashes = 0

Next ==
    \/ sfs_init \/ sfs_destroy \/ WriteBlock \/ Crash
    \/ GetattrRoot \/ LookupCreated \/ sfs_release
    \/ \E name \in Names : sfs_getattr(name) \/ sfs_create(name)

Spec == Init /\ [][Next]_vars
-----------------------------------------------------------------------------
(* Properties.                                                             *)

\* The directory as its inodes have it.
DirInodes == ToSet(LinksFrom(Root))
Entries   == UNION {ToSet(inode[i].entries) : i \in DirInodes}
Tree      == DirInodes \cup {e.ino : e \in Entries}

TypeOK ==
    /\ \A i \in Inodes :
         /\ inode[i].iid \in Inodes
         /\ inode[i].flag \in {"DIR", "FILE", "LINK"}
         /\ Len(inode[i].entries) < PtrNum
         /\ \A e \in ToSet(inode[i].entries) : e.ino \in Inodes
         /\ inode[i].link \in Inodes \cup {NoLink}
    /\ free \subseteq Inodes
    /\ ino \in Inodes
    /\ touched \in BOOLEAN /\ mounted \in BOOLEAN
    /\ sought \subseteq Names /\ opening \subseteq Names
    /\ handles \in 0 .. MaxOpen

\* Between calls the bitmap agrees with the tree: every inode in use can be
\* reached from the root, and none that can be reached will be given away.
\* (A crash amid a create leaves one inode of which this is not true.)
BitmapMatchesTree == Ready /\ crashes = 0 => Inodes \ free = Tree

\* When the writes of a create in the root directory are done, the file is in
\* the tree, however many inodes the directory has by then.
CreateArrives ==
    todo = <<>> /\ ino = Root /\ crashes = 0 =>
      \A name \in opening : \E e \in Entries : e.name = Stored[name]

\* The directory that the file system is: see module Directory.
Dir == INSTANCE Directory WITH
         FileNames <- {Stored[n] : n \in Names}, Files <- Inodes \ {Root}, entries <- Entries

\* Every block write of every call, until a crash cuts a create short, keeps
\* all files and adds at most one, with an inode of its own.
ImplementsDirectory == Dir!Init /\ [][crashes = 0 => Dir!Next]_Entries

\* A crash came between the write of an entry and that of its inode
\* (inode.c:99-100): the entry names a block of zeros, which reads as the root,
\* or by now the link that another directory inode has made of it.
TornCreate == \E e \in Entries : inode[e.ino].flag # "FILE"

\* No file is ever lost, through crashes amid creates and what later creates
\* make of the remains, but after a crash between those two writes.
FilesKept == [][TornCreate \/ Entries \subseteq Entries']_Entries

\* "Need to link to a new inode" (inode.c:32): the links of the directory
\* come to an end, after a crash too, and with them the recursion of
\* create_inode_real.
DirectoryEnds == inode[Last(LinksFrom(Root))].link = NoLink
=============================================================================
