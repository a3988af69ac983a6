------------------------------- MODULE Mount --------------------------------
(***************************************************************************)
(* The life of a file system daemon: its start, the formatting of an empty *)
(* disk file block write by block write, serving, and its end; with writes *)
(* that fail and crashes in between.  The three copies of the file system  *)
(* share this code; see SfsEarlier and SfsFirst for the two older ones.    *)
(***************************************************************************)
EXTENDS Naturals, Sequences

CONSTANTS
    InodeBlocks,  \* SFS_INODE_BLKS_NUM (20)
    DataBlocks,   \* SFS_DATA_BLKS_NUM (56)
    MaxFaults     \* bound: crashes, and writes that fail

ASSUME MountAssumption == InodeBlocks \in Nat \ {0} /\ DataBlocks \in Nat /\ MaxFaults \in Nat

VARIABLES
    diskfile, \* "absent", "empty" or "sized"
    block,    \* what each block holds
    writes,   \* the writes that sfs_init has still to make
    daemon,   \* "down", "init" or "serving"
    broken,   \* whether a fault has hit a format that had begun
    faults    \* how many faults there were

image == <<diskfile, block>>
mountVars == <<image, writes, daemon, broken, faults>>

SFS_SUPERBLOCK         == 0
SFS_INODE_BITMAP_BLKS  == 1
SFS_DATA_BITMAP_BLKS   == 2
SFS_INODE              == 3
SFS_DATA_BLK           == SFS_INODE + InodeBlocks
Blocks                 == 0 .. SFS_DATA_BLK + DataBlocks - 1

\* A block that was never written reads as zeros.
ZeroBlock == "zeros"

-----------------------------------------------------------------------------
(* Block writes.                                                           *)

block_write(b, data) == <<[block |-> b, data |-> data]>>

\* The padding goes first, since the data does not fill the block.
block_write_padded(b, data) == block_write(b, "padding") \o block_write(b, data)

ZeroBlocks(first, count) ==
    [i \in 1 .. count |-> [block |-> first + i - 1, data |-> ZeroBlock]]

Bitmaps ==
    block_write_padded(SFS_SUPERBLOCK, "superblock")
        \o block_write_padded(SFS_INODE_BITMAP_BLKS, "inode_bitmap")
        \o block_write_padded(SFS_DATA_BITMAP_BLKS, "data_bitmap")

FormatDisk_RootFirst ==
    Bitmaps \o block_write(SFS_INODE, "root")
        \o ZeroBlocks(SFS_INODE, InodeBlocks) \o ZeroBlocks(SFS_DATA_BLK, DataBlocks)

FormatDisk ==
    Bitmaps \o ZeroBlocks(SFS_INODE, InodeBlocks) \o ZeroBlocks(SFS_DATA_BLK, DataBlocks)
        \o block_write(SFS_INODE, "root")

\* pwrite puts the next block on the disk.
PWrite ==
    /\ writes # <<>>
    /\ diskfile' = "sized"
    /\ block' = [block EXCEPT ![Head(writes).block] = Head(writes).data]
    /\ writes' = Tail(writes)
    /\ UNCHANGED <<daemon, broken, faults>>

\* perror("block_write failed"), and sfs_init goes on; the data that would
\* have followed its padding is left out.
PWriteFails ==
    /\ writes # <<>>
    /\ faults < MaxFaults
    /\ faults' = faults + 1
    /\ broken' = TRUE
    /\ writes' = IF Head(writes).data = "padding" THEN Tail(Tail(writes)) ELSE Tail(writes)
    /\ UNCHANGED <<image, daemon>>

-----------------------------------------------------------------------------
(* The daemon.                                                             *)

\* Somebody creates the disk file.
Touch ==
    /\ diskfile = "absent"
    /\ diskfile' = "empty"
    /\ UNCHANGED <<block, writes, daemon, broken, faults>>

NeedsFormat_Always == TRUE

\* statbuf->st_size == 0
NeedsFormat == diskfile = "empty"

\* realpath finds no path of a file that is absent, and disk_open exits.
StartDaemon ==
    /\ daemon = "down"
    /\ diskfile # "absent"
    /\ daemon' = "init"
    /\ writes' = IF NeedsFormat THEN FormatDisk ELSE <<>>
    /\ UNCHANGED <<image, broken, faults>>

Served ==
    /\ daemon = "init"
    /\ writes = <<>>
    /\ daemon' = "serving"
    /\ UNCHANGED <<image, writes, broken, faults>>

StopDaemon ==
    /\ daemon = "serving"
    /\ daemon' = "down"
    /\ UNCHANGED <<image, writes, broken, faults>>

DaemonDies ==
    /\ daemon # "down"
    /\ faults < MaxFaults
    /\ faults' = faults + 1
    /\ daemon' = "down"
    /\ writes' = <<>>
    /\ broken' = (broken \/ (diskfile = "sized" /\ writes # <<>>))
    /\ UNCHANGED image

InitMount ==
    /\ diskfile \in {"absent", "empty"}
    /\ block = [b \in Blocks |-> ZeroBlock]
    /\ writes = <<>>
    /\ daemon = "down"
    /\ broken = FALSE
    /\ faults = 0

NextMount ==
    \/ Touch \/ StartDaemon \/ PWrite \/ PWriteFails \/ Served \/ StopDaemon \/ DaemonDies

SpecMount == InitMount /\ [][NextMount]_mountVars
-----------------------------------------------------------------------------
(* Properties.                                                             *)

Formatted ==
    /\ block[SFS_SUPERBLOCK] = "superblock"
    /\ block[SFS_INODE_BITMAP_BLKS] = "inode_bitmap"
    /\ block[SFS_DATA_BITMAP_BLKS] = "data_bitmap"
    /\ block[SFS_INODE] = "root"
    /\ \A b \in Blocks : b > SFS_INODE => block[b] = ZeroBlock

\* "Check for first time initialization" (sfs.c:86) by the size of the disk
\* file: the daemon serves a disk that is formatted, also after crashes,
\* unless a fault came between the first and the last write of the format.
ServesFormatted == daemon = "serving" /\ ~ broken => Formatted

\* A disk that has been formatted stays so through every later mount.
FormattedForGood == [][Formatted => Formatted']_mountVars
=============================================================================
