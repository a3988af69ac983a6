----------------------------- MODULE Directory -----------------------------
(***************************************************************************)
(* What the file system of src/src promises its clients: one directory     *)
(* whose files, once created, stay, each with an inode of its own.         *)
(***************************************************************************)
CONSTANTS
    FileNames,   \* the names files are stored under
    Files        \* the inodes that files can have

VARIABLE entries   \* the set of files, records of a name and an inode

Entry == [name : FileNames, ino : Files]

Init == entries = {}

\* A new file, with an inode that no file has.
Create(name) ==
    \E i \in Files :
        /\ \A e \in entries : e.ino # i
        /\ entries' = entries \cup {[name |-> name, ino |-> i]}

Next == \E name \in FileNames : Create(name)

Spec == Init /\ [][Next]_entries
=============================================================================
