------------------------------ MODULE SfsFirst ------------------------------
(***************************************************************************)
(* The first file system of assignment3/srccpy: it formats and mounts as   *)
(* the current one does (module Mount); its other calls do nothing.  Its   *)
(* getattr leaves the attributes as zeros.  Any call may come at any time: *)
(* the kernel, which refuses such attributes, makes few of them.           *)
(***************************************************************************)
EXTENDS Naturals, Sequences

CONSTANTS InodeBlocks, DataBlocks, MaxFaults
VARIABLES diskfile, block, writes, daemon, broken, faults,
          answer   \* the attributes or the result of the last request

mountVars == <<diskfile, block, writes, daemon, broken, faults>>

Disk == INSTANCE Mount

block_write(b, data)        == Disk!block_write(b, data)
block_write_padded(b, data) == Disk!block_write_padded(b, data)
PWrite      == (Disk!PWrite \/ Disk!PWriteFails) /\ UNCHANGED answer
sfs_init    == (Disk!StartDaemon \/ Disk!Served) /\ UNCHANGED answer
sfs_destroy == Disk!StopDaemon /\ answer' = "none"
Crash       == Disk!DaemonDies /\ answer' = "none"
main        == Disk!Touch /\ UNCHANGED answer

Answer(result) ==
    /\ daemon = "serving"
    /\ answer' = result
    /\ UNCHANGED mountVars

sfs_getattr == Answer("no type")

\* A file is never found; everything else is done by doing nothing.
sfs_open    == Answer("ENOENT")
sfs_create  == Answer("ok")
sfs_unlink  == Answer("ok")
sfs_release == Answer("ok")
sfs_read    == Answer("ok")
sfs_write   == Answer("ok")
sfs_mkdir   == Answer("ok")
sfs_rmdir   == Answer("ok")
sfs_opendir == Answer("ok")
sfs_readdir == Answer("ok")
sfs_releasedir == Answer("ok")

InitFirst == Disk!InitMount /\ answer = "none"

NextFirst ==
    \/ main \/ sfs_init \/ PWrite \/ sfs_destroy \/ Crash
    \/ sfs_getattr \/ sfs_create \/ sfs_unlink \/ sfs_open \/ sfs_release
    \/ sfs_read \/ sfs_write \/ sfs_mkdir \/ sfs_rmdir
    \/ sfs_opendir \/ sfs_readdir \/ sfs_releasedir

SpecFirst == InitFirst /\ [][NextFirst]_<<mountVars, answer>>
=============================================================================
