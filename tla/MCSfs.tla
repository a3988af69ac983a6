------------------------------- MODULE MCSfs -------------------------------
EXTENDS Sfs
\* Two names of at most four bytes: they are stored as they are.
ShortNames == {"a", "b"}
StoredShort == [n \in ShortNames |-> n]
=============================================================================
