------------------------------ MODULE Requests ------------------------------
(***************************************************************************)
(* The file system of module Sfs when FUSE serves its requests in several  *)
(* threads, as it does unless it is told -s.  A getattr is three steps: it *)
(* looks the name up in the inode that the global `ino` says, stores what  *)
(* it finds in `ino`, and reads the attributes of the inode that `ino`     *)
(* says then; other requests run between them.                             *)
(*                                                                         *)
(* The kernel holds the lock of the one directory over a create, with the  *)
(* lookup that follows it, over the first lookup of a name, and over an    *)
(* unlink; it holds none over requests for names it knows.  mkdir, rmdir,  *)
(* unlink, open, read, write and the directory calls read one inode and    *)
(* change nothing.                                                         *)
(***************************************************************************)
EXTENDS Sfs

CONSTANTS
    Threads   \* the threads in which FUSE serves requests at once

VARIABLES
    request,  \* what each thread serves
    known     \* the names that the kernel has found and keeps

requests == <<request, known>>

Idle == [stage |-> "idle"]

\* No create is under way: its first lookups and writes have the directory.
DirectoryFree == todo = <<>> /\ opening = {}

\* The daemon takes requests, also while it makes the writes of a create.
Serving == mounted /\ (todo = <<>> \/ opening # {})

-----------------------------------------------------------------------------
(* getattr.                                                                *)

Found(sign, creating) == [stage |-> "found", sign |-> sign, creating |-> creating]

\* The kernel asks for a name: for the first time, or once more.
LookUp(t, name) ==
    LET sign == path_ino_mapping(name)
    IN  /\ Serving
        /\ name \in known \/ DirectoryFree
        /\ request[t] = Idle
        /\ IF NotFound(sign)
           THEN /\ sought' = sought \cup {name}
                /\ known' = known \ {name}
                /\ UNCHANGED request
           ELSE /\ sought' = sought \ {name}
                /\ known' = known \cup {name}
                /\ request' = [request EXCEPT ![t] = Found(sign, FALSE)]
        /\ UNCHANGED <<disk, ino, todo, mounted, opening, handles, crashes>>

\* strtok finds no token in "/".
LookUpRoot(t) ==
    /\ Serving
    /\ request[t] = Idle
    /\ request' = [request EXCEPT ![t] = Found(Root, FALSE)]
    /\ UNCHANGED <<disk, ino, todo, mounted, client, crashes, known>>

\* ino = sign
StoreIno(t) ==
    /\ request[t].stage = "found"
    /\ ino' = request[t].sign
    /\ request' = [request EXCEPT ![t] = [stage |-> "stored", creating |-> @.creating]]
    /\ UNCHANGED <<disk, todo, mounted, client, crashes, known>>

\* get_inode(ino, &file) and the attributes in it.
Attributes == [asked |-> ino, iid |-> inode[ino].iid, flag |-> inode[ino].flag]

GetInode(t) ==
    /\ request[t].stage = "stored"
    /\ request' = [request EXCEPT
         ![t] = [stage |-> "answered", creating |-> @.creating, got |-> Attributes]]
    /\ UNCHANGED <<disk, ino, todo, mounted, client, crashes, known>>

\* The answer of a getattr of the kernel's.
Reply(t) ==
    /\ request[t].stage = "answered" /\ ~ request[t].creating
    /\ request' = [request EXCEPT ![t] = Idle]
    /\ UNCHANGED <<disk, ino, todo, mounted, client, crashes, known>>

-----------------------------------------------------------------------------
(* create, and what libfuse does after it.                                 *)

Create(name) == sfs_create(name) /\ UNCHANGED requests

Release == ino' = 0

\* The lookup of the new file; if there is none, libfuse releases it.
LookUpCreated(t) ==
    LET name == CHOOSE n \in opening : TRUE
        sign == path_ino_mapping(name)
    IN  /\ opening # {} /\ todo = <<>>
        /\ \A u \in Threads : request[u].stage # "idle" => ~ request[u].creating
        /\ request[t] = Idle
        /\ IF NotFound(sign)
           THEN Release /\ opening' = {} /\ UNCHANGED <<known, request>>
           ELSE /\ request' = [request EXCEPT ![t] = Found(sign, TRUE)]
                /\ known' = known \cup {name}
                /\ UNCHANGED <<ino, opening>>
        /\ UNCHANGED <<disk, todo, mounted, sought, handles, crashes>>

\* If the attributes are not those of a regular file, libfuse releases it.
ReplyCreated(t) ==
    /\ request[t].stage = "answered" /\ request[t].creating
    /\ opening' = {}
    /\ IF request[t].got.flag = "FILE"
       THEN handles' = handles + 1 /\ UNCHANGED ino
       ELSE Release /\ UNCHANGED handles
    /\ request' = [request EXCEPT ![t] = Idle]
    /\ UNCHANGED <<disk, todo, mounted, sought, crashes, known>>

ReleaseFile ==
    /\ Serving
    /\ handles > 0
    /\ handles' = handles - 1
    /\ Release
    /\ UNCHANGED <<disk, todo, mounted, sought, opening, crashes, requests>>

-----------------------------------------------------------------------------
(* The calls that look a name up, drop what they find and read an inode.   *)

Peek(t, got) ==
    /\ Serving
    /\ request[t] = Idle
    /\ request' = [request EXCEPT
         ![t] = [stage |-> "answered", creating |-> FALSE, got |-> got]]
    /\ UNCHANGED <<disk, ino, todo, mounted, client, crashes>>

\* The kernel forgets the name; the file stays.
sfs_unlink(t) ==
    /\ DirectoryFree
    /\ \E name \in known : known' = known \ {name}
    /\ Peek(t, Attributes)

\* S_ISREG(file.flag) tests the flag, 0 to 2, for the bits of a mode: every
\* file is refused with ENOENT.
sfs_open(t) == known # {} /\ Peek(t, Attributes) /\ UNCHANGED known

sfs_read(t) == handles > 0 /\ Peek(t, Attributes) /\ UNCHANGED known

\* A full file would be followed along its links.
sfs_write(t) ==
    LET last == IF inode[ino].flag = "FILE" THEN Last(LinksFrom(ino)) ELSE ino
    IN  /\ handles > 0
        /\ Peek(t, [asked |-> last, iid |-> inode[last].iid, flag |-> inode[last].flag])
        /\ UNCHANGED known

sfs_mkdir(t) == DirectoryFree /\ sought # {} /\ Peek(t, Attributes) /\ UNCHANGED known

\* A name is a directory to the kernel when a getattr was answered with the root's attributes.
sfs_rmdir(t) ==
    /\ DirectoryFree
    /\ \E name \in known : known' = known \ {name}
    /\ Peek(t, Attributes)

sfs_opendir(t) == Peek(t, Attributes) /\ UNCHANGED known
\* filler is not called: the directory is always empty.
sfs_readdir(t) == Peek(t, Attributes) /\ UNCHANGED known
sfs_releasedir(t) == Peek(t, Attributes) /\ UNCHANGED known

-----------------------------------------------------------------------------
NoRequest == \A t \in Threads : request[t] = Idle

Mount == sfs_init /\ UNCHANGED requests
Unmount == NoRequest /\ sfs_destroy /\ known' = {} /\ UNCHANGED request
NextWrite == WriteBlock /\ UNCHANGED requests

InitRequests ==
    /\ Init
    /\ request = [t \in Threads |-> Idle]
    /\ known = {}

NextRequests ==
    \/ Mount \/ Unmount \/ NextWrite \/ ReleaseFile
    \/ \E name \in Names : Create(name) \/ \E t \in Threads : LookUp(t, name)
    \/ \E t \in Threads :
         \/ LookUpRoot(t) \/ StoreIno(t) \/ GetInode(t) \/ Reply(t)
         \/ LookUpCreated(t) \/ ReplyCreated(t)
         \/ sfs_unlink(t) \/ sfs_open(t) \/ sfs_read(t) \/ sfs_write(t)
         \/ sfs_mkdir(t) \/ sfs_rmdir(t)
         \/ sfs_opendir(t) \/ sfs_readdir(t) \/ sfs_releasedir(t)

SpecRequests == InitRequests /\ [][NextRequests]_<<vars, requests>>
-----------------------------------------------------------------------------
(* Properties.                                                             *)

Answers == {request[t] : t \in {u \in Threads : request[u].stage = "answered"}}

\* The global `ino' is moved by every getattr and release, and the bitmap by
\* every create, under the other requests (sfs.c:217-222, 324; inode.c:30-103).
\* An answer can be another file's, but it is the root's, or that of a file
\* the directory has: never of a link, or of an inode that is given away twice.
AnswersExist ==
    \A a \in Answers :
        \/ a.got.asked = Root /\ a.got.flag = "DIR"
        \/ a.got.flag = "FILE" /\ \E e \in Entries : e.ino = a.got.asked

\* Whatever runs inside them, and while a create makes its writes, calls read
\* only inodes that have been written: the entry of a file is on disk before
\* its inode is (inode.c:99-100), and none reads the inode in between.
WholeInodes == \A a \in Answers : a.got.iid = a.got.asked
=============================================================================
