----------------------------- MODULE SfsEarlier -----------------------------
(***************************************************************************)
(* The earlier file system of assignment3/src: it mounts as the current    *)
(* one does (module Mount) but drops what lookups find, so that the global *)
(* `ino` stays 0 and every path is answered with the root directory.  Any  *)
(* call may come at any time: the kernel, which sees directories only,     *)
(* makes fewer of them.                                                    *)
(***************************************************************************)
EXTENDS Naturals, Sequences

CONSTANTS InodeBlocks, DataBlocks, MaxFaults
VARIABLES diskfile, block, writes, daemon, broken, faults,
          answer   \* the attributes or the result of the last request

mountVars == <<diskfile, block, writes, daemon, broken, faults>>

Disk == INSTANCE Mount

block_write(b, data)        == Disk!block_write(b, data)
block_write_padded(b, data) == Disk!block_write_padded(b, data)
PWrite      == (Disk!PWrite \/ Disk!PWriteFails) /\ UNCHANGED answer
sfs_init    == (Disk!StartDaemon \/ Disk!Served) /\ UNCHANGED answer
sfs_destroy == Disk!StopDaemon /\ answer' = "none"
Crash       == Disk!DaemonDies /\ answer' = "none"
main        == Disk!Touch /\ UNCHANGED answer

\* The inode that lookups start at, and what they find; nobody looks at it.
ino == 0
get_inode(i) == IF i = 0 THEN block[Disk!SFS_INODE] ELSE Disk!ZeroBlock

\* "root" has the mode of a directory, zeros have no type.
fill_stat_from_ino(inode) == IF inode = "root" THEN "a directory" ELSE "no type"

Answer(result) ==
    /\ daemon = "serving"
    /\ answer' = result
    /\ UNCHANGED mountVars

sfs_getattr == Answer(fill_stat_from_ino(get_inode(ino)))

\* The other calls read the inode of the root and change nothing.  open looks
\* for the type of a regular file in `flag', which never holds one; write goes
\* through the blocks of a file only, which the root is not.
sfs_create  == Answer("ok")
sfs_unlink  == Answer("ok")
sfs_open    == Answer("ENOENT")
sfs_release == Answer("ok")
sfs_read    == Answer("ok")
sfs_write   == Answer("ok")
sfs_mkdir   == Answer("ok")
sfs_rmdir   == Answer("ok")
sfs_opendir == Answer("ok")
sfs_readdir == Answer("ok")
sfs_releasedir == Answer("ok")

InitEarlier == Disk!InitMount /\ answer = "none"

NextEarlier ==
    \/ main \/ sfs_init \/ PWrite \/ sfs_destroy \/ Crash
    \/ sfs_getattr \/ sfs_create \/ sfs_unlink \/ sfs_open \/ sfs_release
    \/ sfs_read \/ sfs_write \/ sfs_mkdir \/ sfs_rmdir
    \/ sfs_opendir \/ sfs_readdir \/ sfs_releasedir

SpecEarlier == InitEarlier /\ [][NextEarlier]_<<mountVars, answer>>
=============================================================================
