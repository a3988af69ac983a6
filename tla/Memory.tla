------------------------------- MODULE Memory -------------------------------
(***************************************************************************)
(* The page level of src/hw2/code/multiQ/memlib.c: frames, page tables,    *)
(* the hand-over from a full frame to the next, the SIGSEGV handler that   *)
(* swaps a thread's page back into its frame, and file pages.              *)
(*                                                                         *)
(* A client keeps plain pointers, so its page v must stand in frame v      *)
(* whenever it is touched.  A page is a pair <<t, v>>; `data' tells of     *)
(* which pages a frame has bytes, old ones included.  Every request is for *)
(* (nearly) a whole page, as test1's are: a frame in use has no room, and  *)
(* copying it writes over all that was there.  What happens inside a frame *)
(* is module PageHeap's subject, the threads' life is Scheduler's.         *)
(*                                                                         *)
(* Lines 545-546 and 769 do not compile: mem_to_file gets one of its two   *)
(* arguments.  They are modelled as what line 545 prepares, a call with    *)
(* the first free file page.  A tick comes between two steps of a thread,  *)
(* not inside one; a step is one level of page_malloc or one fault.        *)
(***************************************************************************)
EXTENDS Integers, FiniteSets

CONSTANTS
    NumThreads,     \* threads main() has created
    MAX_PAGE,       \* frames
    MAX_FILE_PAGE,
    MaxRequests     \* bound: pages of one thread

ASSUME MemoryAssumption ==
    /\ MAX_PAGE \in Nat /\ NumThreads \in 1 .. MAX_PAGE
    /\ MAX_FILE_PAGE \in Nat \ {0} /\ MaxRequests \in Nat

Threads == 0 .. NumThreads - 1
Frames  == 0 .. MAX_PAGE - 1
Files   == 0 .. MAX_FILE_PAGE - 1
Page    == Threads \X Frames       \* a pageDir: thread t's pageTable[v]
None    == -1

VARIABLES
    runningThread,
    pages,           \* memoryManager of each frame: threadPtr, use, data
    filePages,       \* the same of each file page
    pageTable,       \* where each page is, by its pageDir
    currentUsePage,
    protected,       \* frames under PROT_NONE
    asks,            \* the page a thread's page_malloc looks into, or None
    touches,         \* the page a thread is about to read or write, or None
    got,             \* the pages each client holds a pointer into
    killer,          \* the thread whose wild access ended the process, or None
    taken            \* history: page_malloc has taken what a client counts on

vars == <<runningThread, pages, filePages, pageTable, currentUsePage,
          protected, asks, touches, got, killer, taken>>

\* pageDir: in_use_state 0; in memory at frame r; in file page n.
Nowhere    == <<"nowhere", None>>
InFrame(r) == <<"frame", r>>
InFile(n)  == <<"file", n>>

\* A fresh pageDir, all zero, that belongs to no thread.
Anonymous == <<None, None>>
Cleared   == [threadPtr |-> Anonymous, use |-> FALSE, data |-> {}]

memoryManager == [threadPtr : Page \cup {Anonymous}, use : BOOLEAN, data : SUBSET Page]
pageDir == {Nowhere} \cup {InFrame(f) : f \in Frames} \cup {InFile(n) : n \in Files}

\* The state bits of a memoryManager, and mprotect on its frame: flag 0 adds it
\* to the closed frames, flag 1 takes it out.
GET_FREE_PAGE(f)  == pages[f].use
SET_USE_PAGE(m)   == [m EXCEPT !.use = TRUE]
PROTECT_PAGE(closed, f, flag) == IF flag = 0 THEN closed \cup {f} ELSE closed \ {f}

Usable(t, f)  == pageTable[<<t, f>>] = InFrame(f)
NotUsable(t) == {f \in Frames : ~ Usable(t, f)}

\* The state in which schedule() first switches to a thread: my_pthread_create
\* has given thread i the first free frame, frame i.
Init ==
    /\ runningThread \in Threads
    /\ pages = [f \in Frames |->
         [Cleared EXCEPT !.threadPtr = IF f \in Threads THEN <<f, f>>
                                       ELSE Anonymous]]
    /\ filePages = [n \in Files |-> Cleared]
    /\ pageTable = [p \in Page |-> IF p[1] = p[2] THEN InFrame(p[2]) ELSE Nowhere]
    /\ currentUsePage = [t \in Threads |-> t]
    /\ protected = NotUsable(runningThread)
    /\ asks = [t \in Threads |-> None]
    /\ touches = [t \in Threads |-> None]
    /\ got = [t \in Threads |-> {}]
    /\ killer = None /\ taken = FALSE

-----------------------------------------------------------------------------
(* What the steps are made of.  X_Bug is X with the bug its name tells.    *)

IsFirst(i, S) == i \in S /\ \A j \in S : i <= j

FreeFrames == {f \in Frames : pages[f].threadPtr = Anonymous}
FreeFiles  == {n \in Files : filePages[n].threadPtr = Anonymous}

\* In the table, the entry p (if there is one) says that its page is at place.
Redirected(table, p, place) ==
    IF p = Anonymous THEN table ELSE [table EXCEPT ![p] = place]

setPageTableThreadPtr(p, f) == pages' = [pages EXCEPT ![f].threadPtr = p]

allocateFrame(t, f) ==
    /\ setPageTableThreadPtr(<<t, f>>, f)
    /\ pageTable' = [pageTable EXCEPT ![<<t, f>>] = InFrame(f)]
    /\ currentUsePage' = [currentUsePage EXCEPT ![t] = f]

\* memcpy of what is below the brk of m: nothing, if m is not in use.
Copied(m, over) == IF m.use THEN m.data ELSE over.data

\* Contents, brk, state and heap change places; the old owner is told where
\* its page is now, and the running thread takes over the old frame.
swap_frame(t, old, new) ==
    /\ pages' = [pages EXCEPT
         ![new] = [pages[old] EXCEPT !.data = Copied(pages[old], pages[new])],
         ![old] = [pages[new] EXCEPT !.data = Copied(pages[new], pages[old]),
                                     !.threadPtr = <<t, old>>]]
    /\ pageTable' = [Redirected(pageTable, pages[old].threadPtr, InFrame(new))
                        EXCEPT ![<<t, old>>] = InFrame(old)]
    /\ currentUsePage' = [currentUsePage EXCEPT ![t] = old]

\* What mem_to_file leaves of a frame: the bytes.
Emptied(m) == [Cleared EXCEPT !.data = m.data]

mem_to_file_KeepsTable(f, n) ==
    /\ pages' = [pages EXCEPT ![f] = Emptied(pages[f])]
    /\ filePages' = [filePages EXCEPT ![n] = pages[f]]
    /\ UNCHANGED pageTable

mem_to_file(f, n) ==
    /\ pages' = [pages EXCEPT ![f] = Emptied(pages[f])]
    /\ filePages' = [filePages EXCEPT ![n] = pages[f]]
    /\ pageTable' = Redirected(pageTable, pages[f].threadPtr, InFile(n))

\* mem_to_file(pages[v], n), then file_to_mem from the file page that t's
\* entry says, into pages[v]; the file page is overwritten with zeros.
ExchangeWithFile(t, v, n) ==
    LET table == Redirected(pageTable, pages[v].threadPtr, InFile(n))
        files == [filePages EXCEPT ![n] = pages[v]]
        m     == table[<<t, v>>][2]
    IN  /\ pages' = [pages EXCEPT ![v] = [files[m] EXCEPT !.data = Copied(files[m], pages[v])]]
        /\ filePages' = [files EXCEPT ![m] = Cleared]
        /\ pageTable' = Redirected(table, files[m].threadPtr, InFrame(v))

-----------------------------------------------------------------------------
(* The SIGSEGV handler, for the running thread t touching frame v.         *)

OpenUnused(t, v) ==
    /\ ~ GET_FREE_PAGE(v)
    /\ protected' = PROTECT_PAGE(protected, v, 1)
    /\ UNCHANGED <<pages, filePages, pageTable, currentUsePage>>

BringFromFile(t, v) ==
    /\ GET_FREE_PAGE(v)
    /\ pageTable[<<t, v>>][1] = "file"
    /\ protected' = PROTECT_PAGE(protected, v, 1)
    /\ \E n \in Files : IsFirst(n, FreeFiles) /\ ExchangeWithFile(t, v, n)
    /\ UNCHANGED currentUsePage

BringFromFrame_LeavesOpen(t, v) ==
    /\ GET_FREE_PAGE(v)
    /\ pageTable[<<t, v>>][1] = "frame" /\ ~ Usable(t, v)
    /\ swap_frame(t, v, pageTable[<<t, v>>][2])
    /\ protected' = PROTECT_PAGE(PROTECT_PAGE(protected, v, 1), pageTable[<<t, v>>][2], 1)
    /\ UNCHANGED filePages

BringFromFrame(t, v) ==
    /\ GET_FREE_PAGE(v)
    /\ pageTable[<<t, v>>][1] = "frame" /\ ~ Usable(t, v)
    /\ swap_frame(t, v, pageTable[<<t, v>>][2])
    /\ protected' = PROTECT_PAGE(PROTECT_PAGE(protected, v, 1), pageTable[<<t, v>>][2], 0)
    /\ UNCHANGED filePages

\* Otherwise the handler does nothing and the access faults again, for ever:
\* that is no step, and AccessReturns says that it is never needed.

\* The instruction thread t stands at reads or writes page v.
Accesses(t, v) == v # None /\ v = IF asks[t] # None THEN asks[t] ELSE touches[t]

Runs(t) == killer = None /\ runningThread = t

pageProtect_handler(t) ==
    /\ Runs(t)
    /\ \E v \in protected :
         /\ Accesses(t, v)
         /\ OpenUnused(t, v) \/ BringFromFile(t, v) \/ BringFromFrame(t, v)
    /\ UNCHANGED <<runningThread, asks, touches, got, killer, taken>>

Dies(t) ==
    /\ killer' = t
    /\ UNCHANGED <<runningThread, pages, filePages, pageTable, currentUsePage,
                   protected, asks, touches, got, taken>>

\* The handler indexes filePages with -1: a page without an entry, or a page
\* in a file when the frame in its place finds no free file page to go to.
WildFault(t) ==
    /\ Runs(t)
    /\ \E v \in protected :
         /\ Accesses(t, v)
         /\ GET_FREE_PAGE(v)
         /\ \/ pageTable[<<t, v>>] = Nowhere
            \/ pageTable[<<t, v>>][1] = "file" /\ FreeFiles = {}
    /\ Dies(t)

-----------------------------------------------------------------------------
(* myallocate and page_malloc, one frame after the other.                  *)

MayAsk(t) == Cardinality(got[t]) < MaxRequests

myallocate(t) ==
    /\ Runs(t)
    /\ asks[t] = None /\ touches[t] = None
    /\ MayAsk(t)
    /\ asks' = [asks EXCEPT ![t] = currentUsePage[t]]
    /\ UNCHANGED <<runningThread, pages, filePages, pageTable, currentUsePage,
                   protected, touches, got, killer, taken>>

\* page_malloc's reads and writes of frame v go through.
LooksInto(t, v) == Runs(t) /\ asks[t] = v /\ v \notin protected

\* What page_malloc does not ask when it takes frame v for thread t: whether
\* the client has a page at this address already, whether the unused frame
\* has been given to another thread, whether the free frame to which it moves
\* what is in v holds a page that no table knows.
Takes(t, v) ==
    \/ v \in got[t]
    \/ ~ GET_FREE_PAGE(v) /\ pages[v].threadPtr \notin {Anonymous, <<t, v>>}
    \/ GET_FREE_PAGE(v) /\ \E f \in Frames : IsFirst(f, FreeFrames) /\ GET_FREE_PAGE(f)

\* A fresh frame: page_init, place, and the client writes its data.
page_init(t, v) ==
    /\ LooksInto(t, v)
    /\ ~ pages[v].use
    /\ pages' = [pages EXCEPT ![v] = [SET_USE_PAGE(pages[v]) EXCEPT !.data = @ \cup {<<t, v>>}]]
    /\ got' = [got EXCEPT ![t] = @ \cup {v}]
    /\ asks' = [asks EXCEPT ![t] = None]
    /\ taken' = (taken \/ Takes(t, v))
    /\ UNCHANGED <<runningThread, filePages, pageTable, currentUsePage,
                   protected, touches, killer>>

\* The frame is full: take the next one, which must be had first.
TakeUnused(t, next) ==
    /\ ~ GET_FREE_PAGE(next)
    /\ allocateFrame(t, next)
    /\ UNCHANGED <<filePages, protected>>

SwapWithFree(t, next) ==
    /\ GET_FREE_PAGE(next)
    /\ \E f \in Frames : /\ IsFirst(f, FreeFrames)
                         /\ swap_frame(t, next, f)
                         /\ protected' = PROTECT_PAGE(PROTECT_PAGE(protected, next, 1), f, 0)
    /\ UNCHANGED filePages

MoveToFile(next) ==
    /\ GET_FREE_PAGE(next)
    /\ FreeFrames = {}
    /\ \E n \in Files : IsFirst(n, FreeFiles) /\ mem_to_file(next, n)
    /\ protected' = PROTECT_PAGE(protected, next, 1)
    /\ UNCHANGED currentUsePage

page_malloc(t, v) ==
    /\ LooksInto(t, v)
    /\ pages[v].use /\ v + 1 \in Frames
    /\ TakeUnused(t, v + 1) \/ SwapWithFree(t, v + 1) \/ MoveToFile(v + 1)
    /\ asks' = [asks EXCEPT ![t] = v + 1]
    /\ taken' = (taken \/ Takes(t, v + 1))
    /\ UNCHANGED <<runningThread, touches, got, killer>>

\* Neither a frame nor a file page is free: page_malloc returns NULL.
MemoryFull(t, v) ==
    /\ LooksInto(t, v)
    /\ pages[v].use /\ v + 1 \in Frames
    /\ GET_FREE_PAGE(v + 1)
    /\ FreeFrames = {} /\ FreeFiles = {}
    /\ asks' = [asks EXCEPT ![t] = None]
    /\ UNCHANGED <<runningThread, pages, filePages, pageTable, currentUsePage,
                   protected, touches, got, killer, taken>>

\* getNextPage gives NULL for the last frame, and GET_FREE_PAGE reads it.
NullPage(t) ==
    /\ LooksInto(t, MAX_PAGE - 1)
    /\ pages[MAX_PAGE - 1].use
    /\ Dies(t)

-----------------------------------------------------------------------------
\* The client goes to one of its pages, and gets there.
Touch(t) ==
    /\ Runs(t)
    /\ asks[t] = None /\ touches[t] = None
    /\ \E v \in got[t] : touches' = [touches EXCEPT ![t] = v]
    /\ UNCHANGED <<runningThread, pages, filePages, pageTable, currentUsePage,
                   protected, asks, got, killer, taken>>

\* The access goes through, and may write.
Access(t) ==
    /\ Runs(t)
    /\ asks[t] = None
    /\ touches[t] # None /\ touches[t] \notin protected
    /\ touches' = [touches EXCEPT ![t] = None]
    /\ pages' = [pages EXCEPT ![touches[t]].data = @ \cup {<<t, touches[t]>>}]
    /\ UNCHANGED <<runningThread, filePages, pageTable, currentUsePage,
                   protected, asks, got, killer, taken>>

Protected_NotReopened(u) == protected \cup NotUsable(u)

\* page_protect(1) for the thread that leaves, page_protect(0) for the next.
page_protect(u) == (protected \ NotUsable(runningThread)) \cup NotUsable(u)

Switch(u) ==
    /\ killer = None
    /\ runningThread' = u
    /\ protected' = page_protect(u)
    /\ UNCHANGED <<pages, filePages, pageTable, currentUsePage, asks, touches,
                   got, killer, taken>>

Over == killer # None /\ UNCHANGED vars

LibraryStep(t) ==
    \/ pageProtect_handler(t) \/ WildFault(t)
    \/ \E v \in Frames : page_init(t, v) \/ page_malloc(t, v) \/ MemoryFull(t, v)
    \/ NullPage(t)

Next ==
    \/ \E t \in Threads : LibraryStep(t) \/ myallocate(t) \/ Touch(t) \/ Access(t)
    \/ \E u \in Threads : Switch(u)
    \/ Over

Spec == Init /\ [][Next]_vars

\* Every thread is scheduled again and again (Scheduler's NoStarvation), with
\* quanta long enough for a fault and for the access after it.
Fairness ==
    \A t \in Threads : /\ SF_vars(Switch(t))
                       /\ SF_vars(LibraryStep(t)) /\ SF_vars(Access(t))

FairSpec == Spec /\ Fairness
-----------------------------------------------------------------------------
(* Properties.                                                             *)

TypeOK ==
    /\ runningThread \in Threads
    /\ pages \in [Frames -> memoryManager]
    /\ filePages \in [Files -> memoryManager]
    /\ pageTable \in [Page -> pageDir]
    /\ currentUsePage \in [Threads -> Frames]
    /\ protected \in SUBSET Frames
    /\ asks \in [Threads -> Frames \cup {None}]
    /\ touches \in [Threads -> Frames \cup {None}]
    /\ got \in [Threads -> SUBSET Frames]
    /\ killer \in Threads \cup {None}
    /\ taken \in BOOLEAN

Contents(place) ==
    IF place[1] = "frame" THEN pages[place[2]] ELSE filePages[place[2]]

\* Each entry points at a record that points back, in its frame or file page,
\* and what a client has written on its page is there: through faults, swaps,
\* file pages and ticks anywhere (memlib.c:291-316, 419-447, 523-551, 756-775).
\* A page without an entry, moved at 546, is out of it.
TablesTrue ==
    ~ taken => \A p \in Page : pageTable[p] # Nowhere =>
        /\ Contents(pageTable[p]).threadPtr = p
        /\ p[2] \in got[p[1]] => p \in Contents(pageTable[p]).data

\* There p's entry says that the page is.
LivesIn(p, f) == pageTable[p] = InFrame(f)

\* A frame that is open to the running thread holds no bytes of a page that
\* another thread has there ("protect the pages when they are swapped out",
\* memlib.c:459).  Bytes of a page that lives elsewhere by now may be in it:
\* neither swap_frame nor mem_to_file clears what it leaves.
AlwaysClosed ==
    \A f \in Frames \ protected :
        \A p \in pages[f].data : p[1] # runningThread => ~ LivesIn(p, f)

\* The same until page_malloc takes what a client counts on, over every order
\* of page_protect, faults, hand-overs and switches (memlib.c:457-479, 752-779).
OthersClosed == ~ taken => AlwaysClosed

\* t's access to page v goes to its own page.
Reaches(t, v) == runningThread = t /\ touches[t] = v /\ v \notin protected /\ Usable(t, v)

\* A thread that goes to a page of its own that is in some frame or file page
\* gets it back in its place (memlib.c:752-779), unless the handler finds no
\* free file page to exchange it with and the process dies at 769, another
\* thread's wild access ends it, or the frame is not in use, and is opened
\* empty at 765.  A page that 546 has left without an entry is not promised.
AccessReturns ==
    \A t \in Threads : \A v \in Frames :
        touches[t] = v /\ pageTable[<<t, v>>] # Nowhere
            ~> \/ Reaches(t, v)
               \/ ~ pages[v].use
               \/ taken
               \/ killer # None /\ (killer # t \/ FreeFiles = {})
=============================================================================
