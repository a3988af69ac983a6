---------------------------- MODULE MCRequests ------------------------------
(***************************************************************************)
(* The current file system under several FUSE threads, its formatting, and *)
(* the two older copies, one of them in each behaviour: `version' says     *)
(* which.                                                                  *)
(***************************************************************************)
EXTENDS Mount, Requests

VARIABLES
    version,
    answer     \* of SfsEarlier and SfsFirst, over Mount's variables

current == <<vars, requests>>

\* Two names of at most four bytes: they are stored as they are.
ShortNames  == {"a", "b"}
StoredShort == [n \in ShortNames |-> n]

Earlier == INSTANCE SfsEarlier
First   == INSTANCE SfsFirst

InitAll ==
    /\ version \in {"current", "format", "earlier", "first"}
    /\ InitRequests
    /\ Earlier!InitEarlier /\ First!InitFirst
    /\ version = "current" => diskfile = "absent"

NextAll ==
    /\ \/ version = "current" /\ NextRequests /\ UNCHANGED <<mountVars, answer>>
       \/ version = "format"  /\ NextMount /\ UNCHANGED <<current, answer>>
       \/ version = "earlier" /\ Earlier!NextEarlier /\ UNCHANGED current
       \/ version = "first"   /\ First!NextFirst /\ UNCHANGED current
    /\ UNCHANGED version

SpecAll == InitAll /\ [][NextAll]_<<version, current, mountVars, answer>>

=============================================================================
