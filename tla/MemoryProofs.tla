--------------------------- MODULE MemoryProofs -----------------------------
(***************************************************************************)
(* Where the pages are and who can see them, for any number of threads,    *)
(* frames, file pages and requests, in whatever order the clients ask and  *)
(* wherever the ticks come.                                                *)
(***************************************************************************)
EXTENDS Memory, TLAPS

-----------------------------------------------------------------------------
(* The inductive invariant.                                                *)

Has(t, v) == v \in got[t]

\* The tables and the places point at each other.
Linked ==
    /\ \A p \in Page, f \in Frames : pageTable[p] = InFrame(f) <=> pages[f].threadPtr = p
    /\ \A p \in Page, n \in Files : pageTable[p] = InFile(n) <=> filePages[n].threadPtr = p

\* A page with an entry is where its entry says: in use, with its data, from
\* when its client has it; until then it stays in the frame it was given.
Kept ==
    /\ \A p \in Page, f \in Frames : pageTable[p] = InFrame(f) =>
         /\ Has(p[1], p[2]) => pages[f].use /\ p \in pages[f].data
         /\ ~ Has(p[1], p[2]) => ~ pages[f].use /\ f = p[2]
    /\ \A p \in Page, n \in Files : pageTable[p] = InFile(n) =>
         Has(p[1], p[2]) /\ filePages[n].use /\ p \in filePages[n].data

\* Bytes are only of pages that clients have, old bytes too.
Written ==
    /\ \A f \in Frames : \A p \in pages[f].data : Has(p[1], p[2])
    /\ \A n \in Files : \A p \in filePages[n].data : Has(p[1], p[2])
    /\ \A t \in Threads : touches[t] # None => Has(t, touches[t])

\* An open frame in use holds the running thread's page of that place, or a
\* page that no table knows.
Open ==
    \A f \in Frames \ protected :
      pages[f].use => pages[f].threadPtr \in {Anonymous, <<runningThread, f>>}

Sound == Linked /\ Kept /\ Written /\ Open

MemoryInv == TypeOK /\ (taken \/ Sound)

-----------------------------------------------------------------------------
(* Places and pages.                                                       *)

LEMMA Places ==
  /\ \A f \in Frames, g \in Frames : InFrame(f) = InFrame(g) => f = g
  /\ \A n \in Files, m \in Files : InFile(n) = InFile(m) => n = m
  /\ \A f \in Frames, n \in Files : InFrame(f) # InFile(n)
  /\ \A f \in Frames : /\ InFrame(f) # Nowhere /\ InFrame(f) \in pageDir
                       /\ InFrame(f)[1] = "frame" /\ InFrame(f)[2] = f
  /\ \A n \in Files : /\ InFile(n) # Nowhere /\ InFile(n) \in pageDir
                      /\ InFile(n)[1] = "file" /\ InFile(n)[2] = n
  /\ Nowhere[1] = "nowhere"
BY DEF InFrame, InFile, Nowhere, pageDir

\* An entry is that of a frame, that of a file page, or none.
LEMMA Somewhere ==
  ASSUME NEW d \in pageDir
  PROVE  /\ d = Nowhere \/ (\E f \in Frames : d = InFrame(f))
                        \/ (\E n \in Files : d = InFile(n))
         /\ d[1] = "frame" => d[2] \in Frames /\ d = InFrame(d[2])
         /\ d[1] = "file" => d[2] \in Files /\ d = InFile(d[2])
<1>1. d = Nowhere \/ (\E f \in Frames : d = InFrame(f)) \/ (\E n \in Files : d = InFile(n))
  BY DEF pageDir
<1>2. d[1] = "frame" => d[2] \in Frames /\ d = InFrame(d[2])
  BY <1>1, Places
<1>3. d[1] = "file" => d[2] \in Files /\ d = InFile(d[2])
  BY <1>1, Places
<1>. QED
  BY <1>1, <1>2, <1>3

(* Frames, file pages and the two ways of being nowhere are four different
   kinds of place. *)
LEMMA Sorts ==
  /\ None \notin Frames /\ None \notin Threads
  /\ Threads \subseteq Frames
  /\ Anonymous \notin Page
  /\ \A t \in Threads, v \in Frames : <<t, v>> \in Page /\ <<t, v>>[1] = t /\ <<t, v>>[2] = v
  /\ \A p \in Page : p[1] \in Threads /\ p[2] \in Frames /\ p = <<p[1], p[2]>>
  /\ Cleared \in memoryManager /\ Cleared.threadPtr = Anonymous
  /\ Cleared.use = FALSE /\ Cleared.data = {}
BY MemoryAssumption DEF None, Frames, Threads, Anonymous, Page, Cleared, memoryManager

(* What the steps do to a memoryManager gives a memoryManager. *)
LEMMA Managers ==
  ASSUME NEW m \in memoryManager, NEW o \in memoryManager
  PROVE  /\ Copied(m, o) \in SUBSET Page /\ Copied(m, o) \subseteq m.data \cup o.data
         /\ m.use => Copied(m, o) = m.data
         /\ [m EXCEPT !.data = Copied(m, o)] \in memoryManager
         /\ [m EXCEPT !.data = Copied(m, o)].threadPtr = m.threadPtr
         /\ [m EXCEPT !.data = Copied(m, o)].use = m.use
         /\ [m EXCEPT !.data = Copied(m, o)].data = Copied(m, o)
         /\ Emptied(m) \in memoryManager /\ Emptied(m).threadPtr = Anonymous
         /\ Emptied(m).use = FALSE /\ Emptied(m).data = m.data
         /\ m.data \in SUBSET Page /\ m.threadPtr \in Page \cup {Anonymous}
<1>1. Copied(m, o) \in SUBSET Page /\ Copied(m, o) \subseteq m.data \cup o.data
      /\ (m.use => Copied(m, o) = m.data)
  BY DEF Copied, memoryManager
<1>2. /\ Emptied(m) \in memoryManager /\ Emptied(m).threadPtr = Anonymous
      /\ Emptied(m).use = FALSE /\ Emptied(m).data = m.data
  BY Sorts DEF Emptied, memoryManager, Cleared
<1>3. m.data \in SUBSET Page /\ m.threadPtr \in Page \cup {Anonymous}
  BY DEF memoryManager
<1>4. \A d \in SUBSET Page :
        /\ [m EXCEPT !.data = d] \in memoryManager
        /\ [m EXCEPT !.data = d].threadPtr = m.threadPtr
        /\ [m EXCEPT !.data = d].use = m.use /\ [m EXCEPT !.data = d].data = d
  BY DEF memoryManager
<1>. QED
  BY <1>1, <1>2, <1>3, <1>4

(* So does handing it to another page. *)
LEMMA HandedOver ==
  ASSUME NEW m \in memoryManager, NEW o \in memoryManager, NEW p \in Page
  PROVE  /\ [m EXCEPT !.data = Copied(m, o), !.threadPtr = p] \in memoryManager
         /\ [m EXCEPT !.data = Copied(m, o), !.threadPtr = p].threadPtr = p
         /\ [m EXCEPT !.data = Copied(m, o), !.threadPtr = p].use = m.use
         /\ [m EXCEPT !.data = Copied(m, o), !.threadPtr = p].data = Copied(m, o)
<1>1. Copied(m, o) \in SUBSET Page
  BY Managers
<1>2. \A d \in SUBSET Page :
        /\ [m EXCEPT !.data = d, !.threadPtr = p] \in memoryManager
        /\ [m EXCEPT !.data = d, !.threadPtr = p].threadPtr = p
        /\ [m EXCEPT !.data = d, !.threadPtr = p].use = m.use
        /\ [m EXCEPT !.data = d, !.threadPtr = p].data = d
  BY DEF memoryManager
<1>. QED
  BY <1>1, <1>2

(* So does writing a page into it, and setting its use bit. *)
LEMMA Filled ==
  ASSUME NEW m \in memoryManager, NEW p \in Page
  PROVE  /\ [m EXCEPT !.data = @ \cup {p}] \in memoryManager
         /\ [m EXCEPT !.data = @ \cup {p}].threadPtr = m.threadPtr
         /\ [m EXCEPT !.data = @ \cup {p}].use = m.use
         /\ [m EXCEPT !.data = @ \cup {p}].data = m.data \cup {p}
         /\ SET_USE_PAGE(m) \in memoryManager /\ SET_USE_PAGE(m).use = TRUE
         /\ SET_USE_PAGE(m).threadPtr = m.threadPtr /\ SET_USE_PAGE(m).data = m.data
<1>1. m.data \cup {p} \in SUBSET Page
  BY DEF memoryManager
<1>2. \A d \in SUBSET Page :
        /\ [m EXCEPT !.data = d] \in memoryManager
        /\ [m EXCEPT !.data = d].threadPtr = m.threadPtr
        /\ [m EXCEPT !.data = d].use = m.use /\ [m EXCEPT !.data = d].data = d
  BY DEF memoryManager
<1>3. /\ SET_USE_PAGE(m) \in memoryManager /\ SET_USE_PAGE(m).use = TRUE
      /\ SET_USE_PAGE(m).threadPtr = m.threadPtr /\ SET_USE_PAGE(m).data = m.data
  BY DEF memoryManager, SET_USE_PAGE
<1>. QED
  BY <1>1, <1>2, <1>3

(* Redirecting a page changes its entry alone. *)
LEMMA RedirectedTable ==
  ASSUME NEW table \in [Page -> pageDir], NEW p \in Page \cup {Anonymous}, NEW place \in pageDir
  PROVE  /\ Redirected(table, p, place) \in [Page -> pageDir]
         /\ \A o \in Page : Redirected(table, p, place)[o] = IF o = p THEN place ELSE table[o]
BY Sorts DEF Redirected


(* The invariant holds when page_init's memset has cleared both tables. *)
LEMMA MemoryInvInit == Init => MemoryInv
<1>. SUFFICES ASSUME Init PROVE MemoryInv
  OBVIOUS
<1>1. \A f \in Frames : /\ pages[f] \in memoryManager
                        /\ ~ pages[f].use /\ pages[f].data = {}
                        /\ pages[f].threadPtr = IF f \in Threads THEN <<f, f>> ELSE Anonymous
  <2>. TAKE f \in Frames
  <2>1. pages[f] = [Cleared EXCEPT !.threadPtr = IF f \in Threads THEN <<f, f>> ELSE Anonymous]
    BY DEF Init
  <2>2. (IF f \in Threads THEN <<f, f>> ELSE Anonymous) \in Page \cup {Anonymous}
    BY Sorts
  <2>3. {} \in SUBSET Page
    OBVIOUS
  <2>. QED
    BY <2>1, <2>2, <2>3 DEF Cleared, memoryManager
<1>2. \A p \in Page : pageTable[p] = IF p[1] = p[2] THEN InFrame(p[2]) ELSE Nowhere
  BY DEF Init
<1>3. \A n \in Files : filePages[n] = Cleared
  BY DEF Init
<1>4. TypeOK
  <2>1. pages \in [Frames -> memoryManager]
    BY <1>1 DEF Init
  <2>2. pageTable \in [Page -> pageDir]
    <3>1. \A p \in Page : pageTable[p] \in pageDir
      BY <1>2, Places, Sorts DEF pageDir
    <3>. QED
      BY <3>1 DEF Init
  <2>3. filePages \in [Files -> memoryManager] /\ currentUsePage \in [Threads -> Frames]
        /\ protected \in SUBSET Frames
    BY Sorts DEF Init, NotUsable
  <2>. QED
    BY <2>1, <2>2, <2>3 DEF Init, TypeOK
<1>5. \A p \in Page : p[1] = p[2] <=> p = <<p[2], p[2]>>
  BY Sorts
<1>6. Linked
  <2>1. ASSUME NEW p \in Page, NEW f \in Frames
        PROVE  pageTable[p] = InFrame(f) <=> pages[f].threadPtr = p
    <3>1. pageTable[p] = InFrame(f) <=> p[1] = p[2] /\ f = p[2]
      BY <1>2, Places, Sorts
    <3>2. pages[f].threadPtr = p <=> f \in Threads /\ p = <<f, f>>
      <4>1. CASE f \in Threads
        BY <1>1, <4>1
      <4>2. CASE f \notin Threads
        <5>1. pages[f].threadPtr = Anonymous
          BY <1>1, <4>2
        <5>2. p # Anonymous
          BY Sorts
        <5>. QED
          BY <4>2, <5>1, <5>2
      <4>. QED
        BY <4>1, <4>2
    <3>. QED
      BY <3>1, <3>2, Sorts
  <2>2. ASSUME NEW p \in Page, NEW n \in Files
        PROVE  pageTable[p] # InFile(n) /\ filePages[n].threadPtr # p
    BY <1>2, <1>3, Places, Sorts
  <2>. QED
    BY <2>1, <2>2 DEF Linked
<1>7. \A t \in Threads : got[t] = {} /\ asks[t] = None /\ touches[t] = None
                         /\ currentUsePage[t] = t
  BY DEF Init
<1>8. Kept
  <2>1. ASSUME NEW p \in Page, NEW f \in Frames, pageTable[p] = InFrame(f)
        PROVE  ~ Has(p[1], p[2]) /\ ~ pages[f].use /\ f = p[2]
    BY <2>1, <1>1, <1>2, <1>7, Places, Sorts DEF Has
  <2>2. ASSUME NEW p \in Page, NEW n \in Files
        PROVE  pageTable[p] # InFile(n)
    BY <1>2, Places, Sorts
  <2>. QED
    BY <2>1, <2>2 DEF Kept
<1>9. Written
  <2>1. \A f \in Frames : pages[f].data = {}
    BY <1>1
  <2>2. \A n \in Files : filePages[n].data = {}
    BY <1>3, Sorts
  <2>. QED
    BY <1>7, <2>1, <2>2 DEF Written
<1>10. Open
  BY <1>1 DEF Open
<1>. QED
  BY <1>4, <1>6, <1>8, <1>9, <1>10 DEF MemoryInv, Sound

-----------------------------------------------------------------------------
(* Types, along any step.                                                  *)

\* Moving a page from frame to frame.
LEMMA swap_frameTypes ==
  ASSUME TypeOK, NEW t \in Threads, NEW old \in Frames, NEW new \in Frames,
         swap_frame(t, old, new)
  PROVE  /\ pages' \in [Frames -> memoryManager] /\ pageTable' \in [Page -> pageDir]
         /\ currentUsePage' \in [Threads -> Frames]
<1>1. pages[old] \in memoryManager /\ pages[new] \in memoryManager
  BY DEF TypeOK
<1>2. <<t, old>> \in Page /\ InFrame(old) \in pageDir /\ InFrame(new) \in pageDir
  BY Sorts, Places
<1>. DEFINE a == [pages[old] EXCEPT !.data = Copied(pages[old], pages[new])]
            b == [pages[new] EXCEPT !.data = Copied(pages[new], pages[old]),
                                    !.threadPtr = <<t, old>>]
            table == Redirected(pageTable, pages[old].threadPtr, InFrame(new))
<1>3. a \in memoryManager /\ b \in memoryManager
  BY <1>1, <1>2, Managers, HandedOver
<1>4. table \in [Page -> pageDir]
  BY <1>1, <1>2, Managers, RedirectedTable DEF TypeOK
<1>5. /\ pages' = [pages EXCEPT ![new] = a, ![old] = b]
      /\ pageTable' = [table EXCEPT ![<<t, old>>] = InFrame(old)]
      /\ currentUsePage' = [currentUsePage EXCEPT ![t] = old]
  BY DEF swap_frame
<1>. HIDE DEF a, b, table
<1>. QED
  BY <1>2, <1>3, <1>4, <1>5 DEF TypeOK

\* Moving a page to a file page.
LEMMA mem_to_fileTypes ==
  ASSUME TypeOK, NEW v \in Frames, NEW n \in Files, mem_to_file(v, n)
  PROVE  /\ pages' \in [Frames -> memoryManager] /\ pageTable' \in [Page -> pageDir]
         /\ filePages' \in [Files -> memoryManager]
<1>0. pages[v] \in memoryManager
  BY DEF TypeOK
<1>1. Emptied(pages[v]) \in memoryManager
      /\ pages[v].threadPtr \in Page \cup {Anonymous} /\ InFile(n) \in pageDir
  BY <1>0, Managers, Places
<1>2. Redirected(pageTable, pages[v].threadPtr, InFile(n)) \in [Page -> pageDir]
  BY <1>1, RedirectedTable DEF TypeOK
<1>. QED
  BY <1>0, <1>1, <1>2 DEF mem_to_file, TypeOK

\* Exchanging a page with one in a file page.
LEMMA ExchangeTypes ==
  ASSUME TypeOK, NEW t \in Threads, NEW v \in Frames, NEW n \in Files,
         pageTable[<<t, v>>][1] = "file", ExchangeWithFile(t, v, n)
  PROVE  /\ pages' \in [Frames -> memoryManager] /\ pageTable' \in [Page -> pageDir]
         /\ filePages' \in [Files -> memoryManager]
<1>. DEFINE table == Redirected(pageTable, pages[v].threadPtr, InFile(n))
            files == [filePages EXCEPT ![n] = pages[v]]
            m == table[<<t, v>>][2]
            back == [files[m] EXCEPT !.data = Copied(files[m], pages[v])]
<1>1. /\ pages[v] \in memoryManager /\ pages[v].threadPtr \in Page \cup {Anonymous}
      /\ InFile(n) \in pageDir /\ InFrame(v) \in pageDir /\ <<t, v>> \in Page
      /\ pageTable[<<t, v>>] \in pageDir
  BY Managers, Places, Sorts DEF TypeOK
<1>2. table \in [Page -> pageDir]
      /\ (table[<<t, v>>] = InFile(n) \/ table[<<t, v>>] = pageTable[<<t, v>>])
  BY <1>1, RedirectedTable DEF TypeOK
<1>3. m \in Files
  BY <1>1, <1>2, Somewhere, Places
<1>4. files \in [Files -> memoryManager]
  BY <1>1 DEF TypeOK
<1>5. /\ pages' = [pages EXCEPT ![v] = back]
      /\ filePages' = [files EXCEPT ![m] = Cleared]
      /\ pageTable' = Redirected(table, files[m].threadPtr, InFrame(v))
  BY DEF ExchangeWithFile
<1>. HIDE DEF table, files, m
<1>6. files[m] \in memoryManager
  BY <1>3, <1>4
<1>7. back \in memoryManager /\ files[m].threadPtr \in Page \cup {Anonymous}
  BY <1>1, <1>6, Managers
<1>. HIDE DEF back
<1>8. pageTable' \in [Page -> pageDir]
  BY <1>1, <1>2, <1>5, <1>7, RedirectedTable
<1>. QED
  BY <1>1, <1>3, <1>4, <1>5, <1>7, <1>8, Sorts DEF TypeOK

\* The handler, whichever of its branches it takes.
LEMMA HandlerTypes ==
  ASSUME TypeOK, NEW t \in Threads, pageProtect_handler(t)
  PROVE  TypeOK'
<1>1. PICK v \in protected :
        OpenUnused(t, v) \/ BringFromFile(t, v) \/ BringFromFrame(t, v)
  BY DEF pageProtect_handler
<1>2. v \in Frames /\ UNCHANGED <<runningThread, asks, touches, got, killer, taken>>
  BY DEF pageProtect_handler, TypeOK
<1>3. CASE OpenUnused(t, v)
  BY <1>2, <1>3 DEF OpenUnused, PROTECT_PAGE, TypeOK
<1>4. CASE BringFromFile(t, v)
  <2>1. PICK n \in Files : ExchangeWithFile(t, v, n)
    BY <1>4 DEF BringFromFile
  <2>2. pageTable[<<t, v>>][1] = "file" /\ protected' = protected \ {v}
        /\ currentUsePage' = currentUsePage
    BY <1>4 DEF BringFromFile, PROTECT_PAGE
  <2>3. /\ pages' \in [Frames -> memoryManager] /\ pageTable' \in [Page -> pageDir]
        /\ filePages' \in [Files -> memoryManager]
    BY <1>2, <2>1, <2>2, ExchangeTypes
  <2>. QED
    BY <1>2, <2>2, <2>3 DEF TypeOK
<1>5. CASE BringFromFrame(t, v)
  <2>. DEFINE w == pageTable[<<t, v>>][2]
  <2>1. w \in Frames
    BY <1>2, <1>5, Somewhere, Sorts DEF BringFromFrame, TypeOK
  <2>2. swap_frame(t, v, w) /\ filePages' = filePages
        /\ protected' = (protected \ {v}) \cup {w}
    BY <1>5 DEF BringFromFrame, PROTECT_PAGE
  <2>. HIDE DEF w
  <2>3. /\ pages' \in [Frames -> memoryManager] /\ pageTable' \in [Page -> pageDir]
        /\ currentUsePage' \in [Threads -> Frames]
    BY <1>2, <2>1, <2>2, swap_frameTypes
  <2>. QED
    BY <1>2, <2>1, <2>2, <2>3 DEF TypeOK
<1>. QED
  BY <1>1, <1>3, <1>4, <1>5

\* page_malloc's step to the next frame.
LEMMA page_mallocTypes ==
  ASSUME TypeOK, NEW t \in Threads, NEW v \in Frames, page_malloc(t, v)
  PROVE  TypeOK'
<1>1. /\ v + 1 \in Frames /\ asks' = [asks EXCEPT ![t] = v + 1]
      /\ taken' \in BOOLEAN
      /\ UNCHANGED <<runningThread, touches, got, killer>>
      /\ TakeUnused(t, v + 1) \/ SwapWithFree(t, v + 1) \/ MoveToFile(v + 1)
  BY DEF page_malloc
<1>2. PICK x \in Frames : x = v + 1
  BY <1>1
<1>3. asks' \in [Threads -> Frames \cup {None}]
  BY <1>1, <1>2 DEF TypeOK
<1>4. CASE TakeUnused(t, x)
  <2>1. <<t, x>> \in Page /\ InFrame(x) \in pageDir
    BY Sorts, Places
  <2>2. /\ pages' = [pages EXCEPT ![x].threadPtr = <<t, x>>]
        /\ pageTable' = [pageTable EXCEPT ![<<t, x>>] = InFrame(x)]
        /\ currentUsePage' = [currentUsePage EXCEPT ![t] = x]
        /\ UNCHANGED <<filePages, protected>>
    BY <1>4 DEF TakeUnused, allocateFrame, setPageTableThreadPtr
  <2>3. pages' \in [Frames -> memoryManager]
    BY <2>1, <2>2 DEF TypeOK, memoryManager
  <2>. QED
    BY <1>1, <1>3, <2>1, <2>2, <2>3 DEF TypeOK
<1>5. CASE SwapWithFree(t, x)
  <2>1. PICK f \in Frames : /\ swap_frame(t, x, f)
                           /\ protected' = (protected \ {x}) \cup {f}
    BY <1>5 DEF SwapWithFree, PROTECT_PAGE
  <2>2. filePages' = filePages
    BY <1>5 DEF SwapWithFree
  <2>3. /\ pages' \in [Frames -> memoryManager] /\ pageTable' \in [Page -> pageDir]
        /\ currentUsePage' \in [Threads -> Frames]
    BY <2>1, swap_frameTypes
  <2>. QED
    BY <1>1, <1>3, <2>1, <2>2, <2>3 DEF TypeOK
<1>6. CASE MoveToFile(x)
  <2>1. PICK n \in Files : mem_to_file(x, n)
    BY <1>6 DEF MoveToFile
  <2>2. protected' = protected \ {x} /\ currentUsePage' = currentUsePage
    BY <1>6 DEF MoveToFile, PROTECT_PAGE
  <2>3. /\ pages' \in [Frames -> memoryManager] /\ pageTable' \in [Page -> pageDir]
        /\ filePages' \in [Files -> memoryManager]
    BY <2>1, mem_to_fileTypes
  <2>. QED
    BY <1>1, <1>3, <2>2, <2>3 DEF TypeOK
<1>. QED
  BY <1>1, <1>2, <1>4, <1>5, <1>6

\* page_init's step.
LEMMA page_initTypes ==
  ASSUME TypeOK, NEW t \in Threads, NEW v \in Frames, page_init(t, v)
  PROVE  TypeOK'
<1>1. /\ pages' = [pages EXCEPT ![v] = [SET_USE_PAGE(pages[v]) EXCEPT !.data = @ \cup {<<t, v>>}]]
      /\ got' = [got EXCEPT ![t] = @ \cup {v}]
      /\ asks' = [asks EXCEPT ![t] = None]
      /\ taken' \in BOOLEAN
      /\ UNCHANGED <<runningThread, filePages, pageTable, currentUsePage, protected,
                     touches, killer>>
  BY DEF page_init
<1>2. [SET_USE_PAGE(pages[v]) EXCEPT !.data = @ \cup {<<t, v>>}] \in memoryManager
  <2>1. pages[v] \in memoryManager /\ <<t, v>> \in Page
    BY Sorts DEF TypeOK
  <2>. QED
    BY <2>1, Filled
<1>3. pages' \in [Frames -> memoryManager]
  BY <1>1, <1>2 DEF TypeOK
<1>4. got' \in [Threads -> SUBSET Frames] /\ asks' \in [Threads -> Frames \cup {None}]
  BY <1>1 DEF TypeOK
<1>. QED
  BY <1>1, <1>3, <1>4 DEF TypeOK

\* Every step keeps the types, also of a process whose tables are wrong.
LEMMA TypeStep ==
  ASSUME TypeOK, [Next]_vars
  PROVE  TypeOK'
<1>1. ASSUME NEW t \in Threads, LibraryStep(t)
      PROVE  TypeOK'
  <2>1. CASE pageProtect_handler(t)
    BY <2>1, HandlerTypes
  <2>2. CASE WildFault(t) \/ NullPage(t)
    BY <2>2 DEF WildFault, NullPage, Dies, TypeOK
  <2>3. ASSUME NEW v \in Frames, MemoryFull(t, v)
        PROVE  TypeOK'
    BY <2>3 DEF MemoryFull, TypeOK
  <2>. QED
    BY <1>1, <2>1, <2>2, <2>3, page_initTypes, page_mallocTypes DEF LibraryStep
<1>2. ASSUME NEW t \in Threads, myallocate(t)
      PROVE  TypeOK'
  BY <1>2 DEF myallocate, TypeOK
<1>3. ASSUME NEW t \in Threads, Touch(t)
      PROVE  TypeOK'
  BY <1>3 DEF Touch, TypeOK
<1>4. ASSUME NEW t \in Threads, Access(t)
      PROVE  TypeOK'
  <2>1. PICK v \in Frames : v = touches[t]
    BY <1>4 DEF Access, TypeOK
  <2>2. pages' = [pages EXCEPT ![v].data = @ \cup {<<t, v>>}]
    BY <1>4, <2>1 DEF Access
  <2>3. pages' \in [Frames -> memoryManager]
    <3>1. pages[v] \in memoryManager /\ <<t, v>> \in Page
      BY Sorts DEF TypeOK
    <3>2. pages' = [pages EXCEPT ![v] = [pages[v] EXCEPT !.data = @ \cup {<<t, v>>}]]
      BY <2>2
    <3>. QED
      BY <3>1, <3>2, Filled DEF TypeOK
  <2>. QED
    BY <1>4, <2>3 DEF Access, TypeOK
<1>5. ASSUME NEW u \in Threads, Switch(u)
      PROVE  TypeOK'
  BY <1>5 DEF Switch, page_protect, NotUsable, TypeOK
<1>6. CASE UNCHANGED vars
  BY <1>6 DEF vars, TypeOK
<1>. QED
  BY <1>1, <1>2, <1>3, <1>4, <1>5, <1>6 DEF Next, Over

-----------------------------------------------------------------------------
(* The steps that move no page.                                            *)

\* A step that leaves pages, tables and what is open alone.
LEMMA StillKeeps ==
  ASSUME TypeOK, Sound,
         UNCHANGED <<runningThread, pages, filePages, pageTable, protected, got>>,
         \/ touches' = touches
         \/ \E t \in Threads : \E v \in got[t] : touches' = [touches EXCEPT ![t] = v]
  PROVE  Sound'
<1>1. \A t \in Threads : touches'[t] # None => Has(t, touches'[t])
  BY DEF TypeOK, Sound, Written, Has
<1>2. Linked' /\ Kept' /\ Open'
  BY DEF Sound, Linked, Kept, Open, Has
<1>3. Written'
  BY <1>1 DEF Sound, Written, Has
<1>. QED
  BY <1>2, <1>3 DEF Sound

\* A client writes on a page that it has.
LEMMA AccessKeeps ==
  ASSUME TypeOK, Sound, NEW t \in Threads, Access(t)
  PROVE  Sound'
<1>1. PICK v \in Frames : v = touches[t]
  BY DEF Access, TypeOK
<1>. DEFINE p0 == <<t, v>>
<1>2. p0 \in Page /\ p0[1] = t /\ p0[2] = v /\ Has(t, v)
  BY <1>1, Sorts DEF Sound, Written
<1>3. /\ pages' = [pages EXCEPT ![v] = [pages[v] EXCEPT !.data = @ \cup {p0}]]
      /\ touches' = [touches EXCEPT ![t] = None]
      /\ UNCHANGED <<runningThread, filePages, pageTable, protected, got>>
  BY <1>1 DEF Access
<1>. HIDE DEF p0
<1>4. /\ \A f \in Frames : /\ pages'[f].threadPtr = pages[f].threadPtr
                           /\ pages'[f].use = pages[f].use
                           /\ pages[f].data \subseteq pages'[f].data
                           /\ pages'[f].data \subseteq pages[f].data \cup {p0}
  <2>1. pages[v] \in memoryManager
    BY DEF TypeOK
  <2>2. \A f \in Frames : f # v => pages'[f] = pages[f]
    BY <1>3 DEF TypeOK
  <2>3. pages'[v] = [pages[v] EXCEPT !.data = @ \cup {p0}]
    BY <1>3 DEF TypeOK
  <2>4. /\ pages'[v].threadPtr = pages[v].threadPtr /\ pages'[v].use = pages[v].use
        /\ pages'[v].data = pages[v].data \cup {p0}
    BY <1>2, <2>1, <2>3, Filled
  <2>. QED
    BY <2>2, <2>4
<1>5. \A u \in Threads : touches'[u] # None => touches'[u] = touches[u]
  BY <1>3 DEF TypeOK
<1>6. Linked' /\ Open'
  BY <1>3, <1>4 DEF Sound, Linked, Open
<1>7. Kept'
  BY <1>3, <1>4 DEF Sound, Kept, Has
<1>8. Written'
  BY <1>2, <1>3, <1>4, <1>5 DEF Sound, Written, Has
<1>. QED
  BY <1>6, <1>7, <1>8 DEF Sound

\* The next thread sees the frames that hold its own pages in their places.
LEMMA SwitchKeeps ==
  ASSUME TypeOK, Sound, NEW u \in Threads, Switch(u)
  PROVE  Sound'
<1>1. /\ runningThread' = u /\ protected' = page_protect(u)
      /\ UNCHANGED <<pages, filePages, pageTable, touches, got>>
  BY DEF Switch
<1>2. Linked' /\ Kept' /\ Written'
  BY <1>1 DEF Sound, Linked, Kept, Written, Has
<1>3. ASSUME NEW f \in Frames, f \notin protected'
      PROVE  pages[f].threadPtr = <<u, f>>
  <2>1. Usable(u, f)
    BY <1>1, <1>3 DEF page_protect, NotUsable
  <2>. QED
    BY <2>1, Sorts DEF Usable, Sound, Linked
<1>4. Open'
  BY <1>1, <1>3 DEF Open
<1>. QED
  BY <1>2, <1>4 DEF Sound

\* The frame that is opened is not in use.
LEMMA OpenUnusedKeeps ==
  ASSUME Sound, NEW t \in Threads, NEW v \in Frames, OpenUnused(t, v),
         UNCHANGED <<runningThread, touches, got>>
  PROVE  Sound'
<1>1. ~ pages[v].use /\ protected' = protected \ {v}
      /\ UNCHANGED <<pages, filePages, pageTable>>
  BY DEF OpenUnused, GET_FREE_PAGE, PROTECT_PAGE
<1>2. Linked' /\ Kept' /\ Written'
  BY <1>1 DEF Sound, Linked, Kept, Written, Has
<1>3. Open'
  BY <1>1 DEF Sound, Open
<1>. QED
  BY <1>2, <1>3 DEF Sound

\* The page is filled.  Its entry, if it has one, is that of this frame.
LEMMA page_initKeeps ==
  ASSUME TypeOK, Sound, NEW t \in Threads, NEW v \in Frames, page_init(t, v), ~ Takes(t, v)
  PROVE  Sound'
<1>. DEFINE p0 == <<t, v>>
            m == SET_USE_PAGE(pages[v])
<1>1. /\ runningThread = t /\ v \notin protected /\ ~ pages[v].use
      /\ pages' = [pages EXCEPT ![v] = [m EXCEPT !.data = @ \cup {p0}]]
      /\ got' = [got EXCEPT ![t] = @ \cup {v}]
      /\ UNCHANGED <<runningThread, filePages, pageTable, protected, touches>>
  BY DEF page_init, LooksInto, Runs
<1>2. p0 \in Page /\ p0[1] = t /\ p0[2] = v /\ pageTable[p0] \in pageDir
  BY Sorts DEF TypeOK
<1>3. ~ Has(t, v) /\ pages[v].threadPtr \in {Anonymous, p0}
  BY <1>1 DEF Takes, GET_FREE_PAGE, Has
<1>4. pages[v] \in memoryManager
  BY DEF TypeOK
<1>5. /\ m \in memoryManager /\ m.use = TRUE /\ m.threadPtr = pages[v].threadPtr
      /\ m.data = pages[v].data
  BY <1>2, <1>4, Filled
<1>. HIDE DEF p0, m
<1>6. /\ pages'[v].threadPtr = pages[v].threadPtr /\ pages'[v].use
      /\ pages'[v].data = pages[v].data \cup {p0}
      /\ \A f \in Frames : f # v => pages'[f] = pages[f]
  <2>1. /\ pages'[v] = [m EXCEPT !.data = @ \cup {p0}]
        /\ \A f \in Frames : f # v => pages'[f] = pages[f]
    BY <1>1 DEF TypeOK
  <2>. QED
    BY <1>2, <1>5, <2>1, Filled
<1>7. \A u \in Threads, x \in Frames : Has(u, x)' <=> Has(u, x) \/ <<u, x>> = p0
  <2>1. \A u \in Threads : got'[u] = IF u = t THEN got[t] \cup {v} ELSE got[u]
    BY <1>1 DEF TypeOK
  <2>. QED
    BY <2>1 DEF Has, p0
<1>8. Linked'
  BY <1>1, <1>6 DEF Sound, Linked
<1>9. \A f \in Frames : pageTable[p0] = InFrame(f) => f = v
  BY <1>2, <1>3 DEF Sound, Kept
<1>10. \A n \in Files : pageTable[p0] # InFile(n)
  BY <1>2, <1>3 DEF Sound, Kept
<1>11. ASSUME NEW p \in Page, NEW f \in Frames, pageTable[p] = InFrame(f)
       PROVE  /\ Has(p[1], p[2])' => pages'[f].use /\ p \in pages'[f].data
              /\ ~ Has(p[1], p[2])' => ~ pages'[f].use /\ f = p[2]
  <2>1. pages[f].threadPtr = p /\ p = <<p[1], p[2]>> /\ p[1] \in Threads /\ p[2] \in Frames
    BY <1>11, Sorts DEF Sound, Linked
  <2>2. CASE f = v
    <3>1. p = p0
      BY <1>3, <2>1, <2>2, Sorts
    <3>2. Has(p[1], p[2])'
      BY <1>7, <2>1, <3>1
    <3>. QED
      BY <1>6, <2>2, <3>1, <3>2
  <2>3. CASE f # v
    <3>1. p # p0
      BY <1>9, <1>11, <2>3
    <3>2. pages'[f] = pages[f] /\ (Has(p[1], p[2])' <=> Has(p[1], p[2]))
      BY <1>6, <1>7, <2>1, <2>3, <3>1
    <3>. QED
      BY <1>11, <3>2 DEF Sound, Kept
  <2>. QED
    BY <2>2, <2>3
<1>12. ASSUME NEW p \in Page, NEW n \in Files, pageTable[p] = InFile(n)
       PROVE  Has(p[1], p[2])' /\ filePages[n].use /\ p \in filePages[n].data
  BY <1>7, <1>12, Sorts DEF Sound, Kept
<1>13. Kept'
  BY <1>1, <1>11, <1>12 DEF Kept
<1>14. Written'
  <2>1. ASSUME NEW f \in Frames, NEW p \in pages'[f].data
        PROVE  Has(p[1], p[2])'
    <3>1. p \in pages[f].data \/ p = p0
      BY <1>6
    <3>2. p \in Page
      BY <1>2, <3>1 DEF TypeOK, memoryManager
    <3>3. CASE p = p0
      BY <1>2, <1>7, <3>3, Sorts
    <3>4. CASE p \in pages[f].data
      BY <1>7, <3>2, <3>4, Sorts DEF Sound, Written
    <3>. QED
      BY <3>1, <3>3, <3>4
  <2>2. ASSUME NEW n \in Files, NEW p \in filePages[n].data
        PROVE  Has(p[1], p[2])'
    <3>1. p \in Page
      BY DEF TypeOK, memoryManager
    <3>. QED
      BY <1>7, <3>1, Sorts DEF Sound, Written
  <2>3. ASSUME NEW u \in Threads, touches[u] # None
        PROVE  Has(u, touches[u])'
    <3>1. touches[u] \in Frames /\ Has(u, touches[u])
      BY <2>3 DEF TypeOK, Sound, Written
    <3>2. PICK x \in Frames : x = touches[u]
      BY <3>1
    <3>3. Has(u, x)'
      BY <1>7, <3>1, <3>2
    <3>4. x = touches'[u]
      BY <1>1, <3>2
    <3>. QED
      BY <1>1, <3>2, <3>3 DEF Has
  <2>. QED
    BY <1>1, <2>1, <2>2, <2>3 DEF Written, Has
<1>15. Open'
  BY <1>1, <1>3, <1>6 DEF Sound, Open, p0
<1>. QED
  BY <1>8, <1>13, <1>14, <1>15 DEF Sound
-----------------------------------------------------------------------------
(* Pages that change frames.                                               *)

\* The table and the frames after swap_frame, entry by entry.
LEMMA SwapResult ==
  ASSUME TypeOK, NEW t \in Threads, NEW old \in Frames, NEW new \in Frames, old # new,
         pages[old].threadPtr # <<t, old>>,
         swap_frame(t, old, new)
  PROVE  /\ \A f \in Frames : pages'[f].threadPtr =
              IF f = old THEN <<t, old>> ELSE IF f = new THEN pages[old].threadPtr
              ELSE pages[f].threadPtr
         /\ pages'[old].use = pages[new].use
         /\ pages'[old].data = Copied(pages[new], pages[old])
         /\ pages'[new].use = pages[old].use
         /\ pages'[new].data = Copied(pages[old], pages[new])
         /\ \A f \in Frames \ {old, new} : pages'[f] = pages[f]
         /\ \A p \in Page : pageTable'[p] =
              IF p = <<t, old>> THEN InFrame(old)
              ELSE IF p = pages[old].threadPtr THEN InFrame(new) ELSE pageTable[p]
<1>. DEFINE q == pages[old].threadPtr
            p0 == <<t, old>>
            a == [pages[old] EXCEPT !.data = Copied(pages[old], pages[new])]
            b == [pages[new] EXCEPT !.data = Copied(pages[new], pages[old]), !.threadPtr = p0]
            table == Redirected(pageTable, q, InFrame(new))
<1>1. /\ pages' = [pages EXCEPT ![new] = a, ![old] = b]
      /\ pageTable' = [table EXCEPT ![p0] = InFrame(old)]
  BY DEF swap_frame
<1>2. p0 \in Page /\ InFrame(old) \in pageDir /\ InFrame(new) \in pageDir
      /\ pages[old] \in memoryManager /\ pages[new] \in memoryManager
  BY Sorts, Places DEF TypeOK
<1>3. /\ a.threadPtr = q /\ a.use = pages[old].use /\ a.data = Copied(pages[old], pages[new])
      /\ b.threadPtr = p0 /\ b.use = pages[new].use /\ b.data = Copied(pages[new], pages[old])
      /\ q \in Page \cup {Anonymous}
  <2>1. PICK m \in memoryManager : m = pages[old]
    BY <1>2
  <2>2. PICK o \in memoryManager : o = pages[new]
    BY <1>2
  <2>3. /\ [m EXCEPT !.data = Copied(m, o)].threadPtr = m.threadPtr
        /\ [m EXCEPT !.data = Copied(m, o)].use = m.use
        /\ [m EXCEPT !.data = Copied(m, o)].data = Copied(m, o)
        /\ m.threadPtr \in Page \cup {Anonymous}
    BY Managers
  <2>4. /\ [o EXCEPT !.data = Copied(o, m), !.threadPtr = p0].threadPtr = p0
        /\ [o EXCEPT !.data = Copied(o, m), !.threadPtr = p0].use = o.use
        /\ [o EXCEPT !.data = Copied(o, m), !.threadPtr = p0].data = Copied(o, m)
    <3>1. PICK p \in Page : p = p0
      BY <1>2
    <3>2. /\ [o EXCEPT !.data = Copied(o, m), !.threadPtr = p].threadPtr = p
          /\ [o EXCEPT !.data = Copied(o, m), !.threadPtr = p].use = o.use
          /\ [o EXCEPT !.data = Copied(o, m), !.threadPtr = p].data = Copied(o, m)
      BY HandedOver
    <3>. QED
      BY <3>1, <3>2
  <2>. QED
    BY <2>1, <2>2, <2>3, <2>4
<1>4. /\ table \in [Page -> pageDir]
      /\ \A p \in Page : table[p] = IF p = q THEN InFrame(new) ELSE pageTable[p]
  <2>1. pageTable \in [Page -> pageDir]
    BY DEF TypeOK
  <2>2. PICK r \in Page \cup {Anonymous} : r = q
    BY <1>3
  <2>3. /\ Redirected(pageTable, r, InFrame(new)) \in [Page -> pageDir]
        /\ \A p \in Page : Redirected(pageTable, r, InFrame(new))[p] =
             IF p = r THEN InFrame(new) ELSE pageTable[p]
    <3>1. PICK place \in pageDir : place = InFrame(new)
      BY <1>2
    <3>2. /\ Redirected(pageTable, r, place) \in [Page -> pageDir]
          /\ \A p \in Page : Redirected(pageTable, r, place)[p] =
               IF p = r THEN place ELSE pageTable[p]
      BY <2>1, RedirectedTable
    <3>. QED
      BY <3>1, <3>2
  <2>. QED
    BY <2>2, <2>3
<1>. HIDE DEF a, b, table, q, p0
<1>5. pages'[old] = b /\ pages'[new] = a /\ \A f \in Frames \ {old, new} : pages'[f] = pages[f]
  BY <1>1 DEF TypeOK
<1>6. \A f \in Frames : pages'[f].threadPtr =
        IF f = old THEN p0 ELSE IF f = new THEN q ELSE pages[f].threadPtr
  BY <1>3, <1>5
<1>7. \A p \in Page : pageTable'[p] =
        IF p = p0 THEN InFrame(old) ELSE IF p = q THEN InFrame(new) ELSE pageTable[p]
  BY <1>1, <1>2, <1>4
<1>. QED
  BY <1>3, <1>5, <1>6, <1>7 DEF p0, q

\* swap_frame keeps tables and frames linked, if nobody has his page in the
\* new frame but the thread that takes the old one.
LEMMA SwapLinks ==
  ASSUME TypeOK, Linked, NEW t \in Threads, NEW old \in Frames, NEW new \in Frames, old # new,
         pages[old].threadPtr # <<t, old>>,
         pages[new].threadPtr \in {<<t, old>>, Anonymous},
         pageTable[<<t, old>>] \in {InFrame(new), Nowhere},
         swap_frame(t, old, new), UNCHANGED filePages
  PROVE  Linked'
<1>. DEFINE p0 == <<t, old>>
            q == pages[old].threadPtr
<1>1. /\ \A p \in Page, f \in Frames : pageTable[p] = InFrame(f) <=> pages[f].threadPtr = p
      /\ \A p \in Page, n \in Files : pageTable[p] = InFile(n) <=> filePages[n].threadPtr = p
  BY DEF Linked
<1>2. /\ \A f \in Frames : pages'[f].threadPtr =
           IF f = old THEN p0 ELSE IF f = new THEN q ELSE pages[f].threadPtr
      /\ \A p \in Page : pageTable'[p] =
           IF p = p0 THEN InFrame(old) ELSE IF p = q THEN InFrame(new) ELSE pageTable[p]
  BY SwapResult
<1>3. p0 \in Page /\ q # p0 /\ Anonymous \notin Page
      /\ pages[new].threadPtr \in {p0, Anonymous} /\ pageTable[p0] \in {InFrame(new), Nowhere}
  BY Sorts
<1>. HIDE DEF p0, q
<1>4. ASSUME NEW p \in Page, NEW f \in Frames
      PROVE  pageTable'[p] = InFrame(f) <=> pages'[f].threadPtr = p
  <2>1. CASE p = p0
    <3>1. pageTable'[p] = InFrame(f) <=> f = old
      BY <2>1, <1>2, Places
    <3>2. pages'[f].threadPtr = p0 <=> f = old
      <4>1. f # old /\ f # new => pages[f].threadPtr # p0
        BY <1>1, <1>3, Places
      <4>. QED
        BY <4>1, <1>2, <1>3
    <3>. QED
      BY <2>1, <3>1, <3>2
  <2>2. CASE p # p0 /\ p = q
    <3>1. pageTable'[p] = InFrame(f) <=> f = new
      BY <2>2, <1>2, Places
    <3>2. pageTable[p] = InFrame(old)
      BY <1>1, <2>2 DEF q
    <3>3. pages'[f].threadPtr = q <=> f = new
      <4>1. f # old /\ f # new => pages[f].threadPtr # q
        BY <1>1, <2>2, <3>2, Places
      <4>. QED
        BY <4>1, <1>2, <1>3
    <3>. QED
      BY <2>2, <3>1, <3>3
  <2>3. CASE p # p0 /\ p # q
    <3>1. pageTable'[p] = pageTable[p]
      BY <1>2, <2>3
    <3>2. pageTable[p] # InFrame(old)
      BY <1>1, <2>3 DEF q
    <3>3. pageTable[p] # InFrame(new)
      BY <1>1, <1>3, <2>3
    <3>4. pages'[f].threadPtr = p <=> f # old /\ f # new /\ pages[f].threadPtr = p
      BY <1>2, <2>3
    <3>. QED
      BY <1>1, <3>1, <3>2, <3>3, <3>4
  <2>. QED
    BY <2>1, <2>2, <2>3
<1>5. ASSUME NEW p \in Page, NEW n \in Files
      PROVE  pageTable'[p] = InFile(n) <=> filePages[n].threadPtr = p
  <2>1. p = p0 \/ p = q => pageTable'[p] # InFile(n)
    BY <1>2, Places
  <2>2. p = p0 => pageTable[p] # InFile(n)
    BY <1>3, Places
  <2>3. p = q => pageTable[p] # InFile(n)
    BY <1>1, Places DEF q
  <2>. QED
    BY <1>1, <1>2, <2>1, <2>2, <2>3
<1>. QED
  BY <1>4, <1>5 DEF Linked

\* A swap keeps what the invariant says of the pages, if the page of the old
\* frame is in use, and if the other is t's own or the frame is unused.
LEMMA SwapKeeps ==
  ASSUME TypeOK, Sound, NEW t \in Threads, runningThread = t, NEW old \in Frames, NEW new \in Frames, old # new,
         pages[old].threadPtr # <<t, old>>, pages[old].use,
         \/ /\ Has(t, old) /\ pageTable[<<t, old>>] = InFrame(new)
         \/ /\ ~ Has(t, old) /\ pageTable[<<t, old>>] = Nowhere
            /\ pages[new].threadPtr = Anonymous /\ ~ pages[new].use,
         swap_frame(t, old, new),
         UNCHANGED <<runningThread, filePages, touches, got>>,
         protected' = (protected \ {old}) \cup {new}
  PROVE  Sound'
<1>. DEFINE p0 == <<t, old>>  q == pages[old].threadPtr
<1>1. p0 \in Page /\ p0[1] = t /\ p0[2] = old
      /\ pages[old] \in memoryManager /\ pages[new] \in memoryManager
  BY Sorts DEF TypeOK
<1>2. \/ /\ Has(t, old) /\ pageTable[p0] = InFrame(new)
         /\ pages[new].threadPtr = p0 /\ pages[new].use /\ p0 \in pages[new].data
      \/ /\ ~ Has(t, old) /\ pageTable[p0] = Nowhere
         /\ pages[new].threadPtr = Anonymous /\ ~ pages[new].use
  BY <1>1 DEF Sound, Linked, Kept
<1>3. pages[new].threadPtr \in {p0, Anonymous} /\ pageTable[p0] \in {InFrame(new), Nowhere}
  BY <1>2
<1>4. Linked'
  BY <1>3, SwapLinks DEF Sound
<1>5. /\ \A f \in Frames : pages'[f].threadPtr =
           IF f = old THEN p0 ELSE IF f = new THEN q ELSE pages[f].threadPtr
      /\ pages'[old].use = pages[new].use
      /\ pages'[old].data = Copied(pages[new], pages[old])
      /\ pages'[new].use = pages[old].use
      /\ pages'[new].data = Copied(pages[old], pages[new])
      /\ \A f \in Frames \ {old, new} : pages'[f] = pages[f]
      /\ \A p \in Page : pageTable'[p] =
           IF p = p0 THEN InFrame(old) ELSE IF p = q THEN InFrame(new) ELSE pageTable[p]
  BY SwapResult
<1>6. /\ pages'[new].data = pages[old].data
      /\ pages[new].use => pages'[old].data = pages[new].data
      /\ pages'[old].data \subseteq pages[old].data \cup pages[new].data
  <2>1. /\ Copied(pages[old], pages[new]) = pages[old].data
        /\ pages[new].use => Copied(pages[new], pages[old]) = pages[new].data
        /\ Copied(pages[new], pages[old]) \subseteq pages[new].data \cup pages[old].data
    <3>1. PICK m \in memoryManager : m = pages[old]
      BY <1>1
    <3>2. PICK o \in memoryManager : o = pages[new]
      BY <1>1
    <3>3. m.use
      BY <3>1
    <3>5. Copied(m, o) = m.data
      BY <3>3 DEF Copied
    <3>4. (o.use => Copied(o, m) = o.data) /\ Copied(o, m) \subseteq o.data \cup m.data
      BY Managers
    <3>. QED
      BY <3>1, <3>2, <3>4, <3>5
  <2>. QED
    BY <1>5, <2>1
<1>7. q # p0 /\ (q \in Page => pageTable[q] = InFrame(old))
  BY DEF Sound, Linked
<1>. HIDE DEF p0, q
<1>8. ASSUME NEW p \in Page, NEW f \in Frames, pageTable'[p] = InFrame(f)
      PROVE  /\ Has(p[1], p[2]) => pages'[f].use /\ p \in pages'[f].data
             /\ ~ Has(p[1], p[2]) => ~ pages'[f].use /\ f = p[2]
  <2>1. pages'[f].threadPtr = p
    BY <1>4, <1>8 DEF Linked
  <2>2. CASE f = old
    <3>1. p = p0
      BY <1>5, <2>1, <2>2
    <3>. QED
      BY <1>1, <1>2, <1>5, <1>6, <2>2, <3>1
  <2>3. CASE f = new
    <3>1. p = q /\ pageTable[p] = InFrame(old)
      BY <1>5, <1>7, <2>1, <2>3
    <3>2. Has(p[1], p[2]) /\ p \in pages[old].data
      BY <3>1 DEF Sound, Kept
    <3>. QED
      BY <1>5, <1>6, <2>3, <3>2
  <2>4. CASE f # old /\ f # new
    <3>1. pages[f].threadPtr = p /\ pages'[f] = pages[f]
      BY <1>5, <2>1, <2>4
    <3>2. pageTable[p] = InFrame(f)
      BY <3>1 DEF Sound, Linked
    <3>. QED
      BY <3>1, <3>2 DEF Sound, Kept
  <2>. QED
    BY <2>2, <2>3, <2>4
<1>9. ASSUME NEW p \in Page, NEW n \in Files, pageTable'[p] = InFile(n)
      PROVE  Has(p[1], p[2]) /\ filePages[n].use /\ p \in filePages[n].data
  <2>1. pageTable[p] = InFile(n)
    BY <1>5, <1>9, Places
  <2>. QED
    BY <2>1 DEF Sound, Kept
<1>10. Kept'
  BY <1>8, <1>9 DEF Kept, Has
<1>11. ASSUME NEW f \in Frames, NEW p \in pages'[f].data
       PROVE  Has(p[1], p[2])
  <2>1. PICK g \in Frames : p \in pages[g].data
    BY <1>5, <1>6
  <2>. QED
    BY <2>1 DEF Sound, Written
<1>12. Written'
  <2>1. /\ \A n \in Files : \A p \in filePages[n].data : Has(p[1], p[2])
        /\ \A u \in Threads : touches[u] # None => Has(u, touches[u])
    BY DEF Sound, Written
  <2>. QED
    BY <1>11, <2>1 DEF Written, Has
<1>13. Open'
  <2>. SUFFICES ASSUME NEW f \in Frames, f \notin protected', pages'[f].use
                PROVE  pages'[f].threadPtr \in {Anonymous, <<t, f>>}
    BY DEF Open
  <2>1. f # new /\ (f = old \/ f \notin protected)
    OBVIOUS
  <2>2. CASE f = old
    BY <1>5, <2>2 DEF p0
  <2>3. CASE f # old
    <3>1. pages'[f] = pages[f] /\ f \notin protected
      BY <1>5, <2>1, <2>3
    <3>. QED
      BY <3>1 DEF Sound, Open
  <2>. QED
    BY <2>2, <2>3
<1>. QED
  BY <1>4, <1>10, <1>12, <1>13 DEF Sound

\* The handler fetches a page from another frame.  The client has it: an entry
\* of a page that it does not have is that of this frame.
LEMMA BringFromFrameKeeps ==
  ASSUME TypeOK, Sound, NEW t \in Threads, runningThread = t, NEW v \in Frames,
         BringFromFrame(t, v), UNCHANGED <<runningThread, touches, got>>
  PROVE  Sound'
<1>. DEFINE p0 == <<t, v>>  w == pageTable[p0][2]
<1>1. /\ pages[v].use /\ pageTable[p0][1] = "frame" /\ ~ Usable(t, v)
      /\ swap_frame(t, v, w)
      /\ protected' = (protected \ {v}) \cup {w}
      /\ filePages' = filePages
  BY DEF BringFromFrame, GET_FREE_PAGE, PROTECT_PAGE
<1>2. /\ p0 \in Page /\ p0[1] = t /\ p0[2] = v /\ pageTable[p0] \in pageDir
  BY Sorts DEF TypeOK
<1>3. w \in Frames /\ pageTable[p0] = InFrame(w) /\ w # v
  BY <1>1, <1>2, Somewhere, Places DEF Usable
<1>4. Has(t, v)
  BY <1>2, <1>3 DEF Sound, Kept
<1>5. pages[v].threadPtr # p0
  BY <1>2, <1>3, Places DEF Sound, Linked
<1>. HIDE DEF w
<1>. QED
  BY <1>1, <1>3, <1>4, <1>5, SwapKeeps

\* page_malloc moves a page to a free frame, which no spilled page is in.
LEMMA SwapWithFreeKeeps ==
  ASSUME TypeOK, Sound, NEW t \in Threads, runningThread = t, NEW next \in Frames,
         SwapWithFree(t, next), ~ Takes(t, next), UNCHANGED <<runningThread, touches, got>>
  PROVE  Sound'
<1>. DEFINE p0 == <<t, next>>
<1>1. PICK f \in Frames : /\ IsFirst(f, FreeFrames)
                          /\ swap_frame(t, next, f)
                          /\ protected' = (protected \ {next}) \cup {f}
  BY DEF SwapWithFree, PROTECT_PAGE
<1>2. pages[next].use /\ filePages' = filePages
  BY DEF SwapWithFree, GET_FREE_PAGE
<1>3. pages[f].threadPtr = Anonymous /\ ~ pages[f].use /\ f # next /\ ~ Has(t, next)
  <2>1. ~ pages[f].use /\ ~ Has(t, next)
    BY <1>1, <1>2 DEF Takes, GET_FREE_PAGE, Has
  <2>. QED
    BY <1>1, <1>2, <2>1 DEF IsFirst, FreeFrames
<1>4. p0 \in Page /\ p0[1] = t /\ p0[2] = next /\ pageTable[p0] \in pageDir
  BY Sorts DEF TypeOK
<1>5. pageTable[p0] = Nowhere
  <2>1. \A g \in Frames : pageTable[p0] # InFrame(g)
    BY <1>2, <1>3, <1>4 DEF Sound, Kept
  <2>2. \A n \in Files : pageTable[p0] # InFile(n)
    BY <1>3, <1>4 DEF Sound, Kept
  <2>. QED
    BY <1>4, <2>1, <2>2, Somewhere
<1>6. pages[next].threadPtr # p0
  BY <1>4, <1>5, Places DEF Sound, Linked
<1>. QED
  BY <1>1, <1>2, <1>3, <1>5, <1>6, SwapKeeps

\* page_malloc takes an unused frame that is nobody else's.
LEMMA TakeUnusedKeeps ==
  ASSUME TypeOK, Sound, NEW t \in Threads, NEW next \in Frames,
         TakeUnused(t, next), ~ Takes(t, next), UNCHANGED <<runningThread, touches, got>>
  PROVE  Sound'
<1>. DEFINE p0 == <<t, next>>
<1>1. /\ ~ pages[next].use
      /\ pages' = [pages EXCEPT ![next].threadPtr = p0]
      /\ pageTable' = [pageTable EXCEPT ![p0] = InFrame(next)]
      /\ UNCHANGED <<filePages, protected>>
  BY DEF TakeUnused, allocateFrame, setPageTableThreadPtr, GET_FREE_PAGE
<1>2. p0 \in Page /\ p0[1] = t /\ p0[2] = next /\ pageTable[p0] \in pageDir
  BY Sorts DEF TypeOK
<1>3. ~ Has(t, next) /\ pages[next].threadPtr \in {Anonymous, p0}
  BY <1>1 DEF Takes, GET_FREE_PAGE, Has
<1>. HIDE DEF p0
<1>4. /\ pages'[next].threadPtr = p0
      /\ \A f \in Frames : pages'[f].use = pages[f].use /\ pages'[f].data = pages[f].data
      /\ \A f \in Frames : f # next => pages'[f] = pages[f]
      /\ \A p \in Page : pageTable'[p] = IF p = p0 THEN InFrame(next) ELSE pageTable[p]
  <2>1. pages[next] \in memoryManager
    BY DEF TypeOK
  <2>2. /\ pages'[next] = [pages[next] EXCEPT !.threadPtr = p0]
        /\ \A f \in Frames : f # next => pages'[f] = pages[f]
    BY <1>1 DEF TypeOK
  <2>3. /\ pages'[next].threadPtr = p0 /\ pages'[next].use = pages[next].use
        /\ pages'[next].data = pages[next].data
    BY <2>1, <2>2 DEF memoryManager
  <2>4. \A p \in Page : pageTable'[p] = IF p = p0 THEN InFrame(next) ELSE pageTable[p]
    BY <1>1, <1>2 DEF TypeOK
  <2>. QED
    BY <2>2, <2>3, <2>4
<1>5. \A f \in Frames : pageTable[p0] = InFrame(f) => f = next
  BY <1>2, <1>3 DEF Sound, Kept
<1>6. \A n \in Files : pageTable[p0] # InFile(n)
  BY <1>2, <1>3 DEF Sound, Kept
<1>7. \A p \in Page : p # p0 => pageTable[p] # InFrame(next)
  BY <1>3, Sorts DEF Sound, Linked
<1>8. Linked'
  <2>1. ASSUME NEW p \in Page, NEW f \in Frames
        PROVE  pageTable'[p] = InFrame(f) <=> pages'[f].threadPtr = p
    <3>1. pageTable[p] = InFrame(f) <=> pages[f].threadPtr = p
      BY DEF Sound, Linked
    <3>2. CASE p = p0
      BY <1>4, <1>5, <3>1, <3>2, Places
    <3>3. CASE p # p0
      BY <1>4, <1>7, <3>1, <3>3
    <3>. QED
      BY <3>2, <3>3
  <2>2. ASSUME NEW p \in Page, NEW n \in Files
        PROVE  pageTable'[p] = InFile(n) <=> filePages[n].threadPtr = p
    BY <1>4, <1>6, Places DEF Sound, Linked
  <2>. QED
    BY <1>1, <2>1, <2>2 DEF Linked
<1>9. Kept'
  <2>1. ASSUME NEW p \in Page, NEW f \in Frames, pageTable'[p] = InFrame(f)
        PROVE  /\ Has(p[1], p[2]) => pages'[f].use /\ p \in pages'[f].data
               /\ ~ Has(p[1], p[2]) => ~ pages'[f].use /\ f = p[2]
    <3>1. CASE p = p0
      <4>1. f = next
        BY <1>4, <2>1, <3>1, Places
      <4>. QED
        BY <1>1, <1>2, <1>3, <1>4, <3>1, <4>1
    <3>2. CASE p # p0
      <4>1. pageTable[p] = InFrame(f)
        BY <1>4, <2>1, <3>2
      <4>. QED
        BY <1>4, <4>1 DEF Sound, Kept
    <3>. QED
      BY <3>1, <3>2
  <2>2. ASSUME NEW p \in Page, NEW n \in Files, pageTable'[p] = InFile(n)
        PROVE  Has(p[1], p[2]) /\ filePages[n].use /\ p \in filePages[n].data
    <3>1. pageTable[p] = InFile(n)
      BY <1>4, <2>2, Places
    <3>. QED
      BY <3>1 DEF Sound, Kept
  <2>. QED
    BY <1>1, <2>1, <2>2 DEF Kept, Has
<1>10. Written'
  BY <1>1, <1>4 DEF Sound, Written, Has
<1>11. Open'
  BY <1>1, <1>4 DEF Sound, Open
<1>. QED
  BY <1>8, <1>9, <1>10, <1>11 DEF Sound

-----------------------------------------------------------------------------
(* Pages that go to a file page, and come back.                            *)

\* page_malloc moves a page to a free file page.
LEMMA MoveToFileKeeps ==
  ASSUME TypeOK, Sound, NEW next \in Frames, MoveToFile(next),
         UNCHANGED <<runningThread, touches, got>>
  PROVE  Sound'
<1>. DEFINE q == pages[next].threadPtr
<1>1. /\ pages[next].use /\ FreeFrames = {}
      /\ protected' = protected \ {next}
  BY DEF MoveToFile, GET_FREE_PAGE, PROTECT_PAGE
<1>2. PICK n \in Files : n \in FreeFiles /\ mem_to_file(next, n)
  BY DEF MoveToFile, IsFirst
<1>3. pages[next] \in memoryManager /\ InFile(n) \in pageDir /\ filePages[n].threadPtr = Anonymous
  BY <1>2, Places DEF TypeOK, FreeFiles
<1>4. q \in Page
  BY <1>1, <1>3 DEF FreeFrames, memoryManager
<1>5. pageTable[q] = InFrame(next)
  BY <1>4 DEF Sound, Linked
<1>. HIDE DEF q
<1>6. /\ pages'[next].threadPtr = Anonymous /\ ~ pages'[next].use
      /\ pages'[next].data = pages[next].data
      /\ \A f \in Frames : f # next => pages'[f] = pages[f]
  <2>1. pages' = [pages EXCEPT ![next] = Emptied(pages[next])]
    BY <1>2 DEF mem_to_file
  <2>2. /\ pages'[next] = Emptied(pages[next])
        /\ \A f \in Frames : f # next => pages'[f] = pages[f]
    BY <2>1 DEF TypeOK
  <2>3. /\ Emptied(pages[next]).threadPtr = Anonymous /\ Emptied(pages[next]).use = FALSE
        /\ Emptied(pages[next]).data = pages[next].data
    BY Sorts DEF Emptied, Cleared
  <2>. QED
    BY <2>2, <2>3
<1>7. filePages'[n] = pages[next] /\ \A k \in Files : k # n => filePages'[k] = filePages[k]
  BY <1>2 DEF mem_to_file, TypeOK
<1>8. \A p \in Page : pageTable'[p] = IF p = q THEN InFile(n) ELSE pageTable[p]
  <2>1. pageTable' = Redirected(pageTable, q, InFile(n))
    BY <1>2 DEF mem_to_file, q
  <2>2. pageTable \in [Page -> pageDir] /\ q \in Page \cup {Anonymous}
    BY <1>4 DEF TypeOK
  <2>. QED
    BY <1>3, <2>1, <2>2, RedirectedTable
<1>9. Linked'
  <2>1. ASSUME NEW p \in Page, NEW f \in Frames
        PROVE  pageTable'[p] = InFrame(f) <=> pages'[f].threadPtr = p
    <3>1. pageTable[p] = InFrame(f) <=> pages[f].threadPtr = p
      BY DEF Sound, Linked
    <3>2. p # Anonymous
      BY Sorts
    <3>3. CASE f = next
      BY <1>6, <1>8, <3>1, <3>2, <3>3, Places DEF q
    <3>4. CASE f # next
      BY <1>5, <1>6, <1>8, <3>1, <3>4, Places
    <3>. QED
      BY <3>3, <3>4
  <2>2. ASSUME NEW p \in Page, NEW k \in Files
        PROVE  pageTable'[p] = InFile(k) <=> filePages'[k].threadPtr = p
    <3>1. pageTable[p] = InFile(k) <=> filePages[k].threadPtr = p
      BY DEF Sound, Linked
    <3>2. p # Anonymous
      BY Sorts
    <3>3. CASE k = n
      BY <1>3, <1>7, <1>8, <3>1, <3>2, <3>3, Places DEF q
    <3>4. CASE k # n
      BY <1>5, <1>7, <1>8, <3>1, <3>4, Places
    <3>. QED
      BY <3>3, <3>4
  <2>. QED
    BY <2>1, <2>2 DEF Linked
<1>10. Kept'
  <2>1. ASSUME NEW p \in Page, NEW f \in Frames, pageTable'[p] = InFrame(f)
        PROVE  /\ Has(p[1], p[2]) => pages'[f].use /\ p \in pages'[f].data
               /\ ~ Has(p[1], p[2]) => ~ pages'[f].use /\ f = p[2]
    <3>1. pageTable[p] = InFrame(f)
      BY <1>8, <2>1, Places
    <3>2. p # q /\ f # next
      <4>1. pages'[f].threadPtr = p /\ p # Anonymous
        BY <1>9, <2>1, Sorts DEF Linked
      <4>2. f # next
        BY <1>6, <4>1
      <4>. QED
        BY <1>5, <3>1, <4>2, Places
    <3>3. pages'[f] = pages[f]
      BY <1>6, <3>2
    <3>. QED
      BY <3>1, <3>3 DEF Sound, Kept
  <2>2. ASSUME NEW p \in Page, NEW k \in Files, pageTable'[p] = InFile(k)
        PROVE  Has(p[1], p[2]) /\ filePages'[k].use /\ p \in filePages'[k].data
    <3>1. CASE p = q
      <4>1. k = n /\ filePages'[k] = pages[next]
        BY <1>7, <1>8, <2>2, <3>1, Places
      <4>2. Has(p[1], p[2]) /\ p \in pages[next].data
        BY <1>1, <1>4, <1>5, <3>1 DEF Sound, Kept
      <4>. QED
        BY <1>1, <4>1, <4>2
    <3>2. CASE p # q
      <4>1. pageTable[p] = InFile(k)
        BY <1>8, <2>2, <3>2
      <4>2. k # n
        BY <1>3, <4>1, Sorts DEF Sound, Linked
      <4>3. filePages'[k] = filePages[k]
        BY <1>7, <4>2
      <4>. QED
        BY <4>1, <4>3 DEF Sound, Kept
    <3>. QED
      BY <3>1, <3>2
  <2>. QED
    BY <2>1, <2>2 DEF Kept, Has
<1>11. Written'
  <2>1. \A f \in Frames : pages'[f].data = pages[f].data
    BY <1>6
  <2>2. \A k \in Files : filePages'[k] = IF k = n THEN pages[next] ELSE filePages[k]
    BY <1>7
  <2>. QED
    BY <2>1, <2>2 DEF Sound, Written, Has
<1>12. Open'
  BY <1>1, <1>6 DEF Sound, Open
<1>. QED
  BY <1>9, <1>10, <1>11, <1>12 DEF Sound
\* The handler fetches a page from a file page; the one in its frame goes to
\* another file page.
LEMMA BringFromFileKeeps ==
  ASSUME TypeOK, Sound, NEW t \in Threads, runningThread = t, NEW v \in Frames,
         BringFromFile(t, v), UNCHANGED <<runningThread, touches, got>>
  PROVE  Sound'
<1>. DEFINE p0 == <<t, v>>  m == pageTable[p0][2]  q == pages[v].threadPtr
<1>1. PICK n \in Files : n \in FreeFiles /\ ExchangeWithFile(t, v, n)
  BY DEF BringFromFile, IsFirst
<1>2. /\ pages[v].use /\ pageTable[p0][1] = "file"
      /\ protected' = protected \ {v}
  BY DEF BringFromFile, GET_FREE_PAGE, PROTECT_PAGE
<1>3. /\ p0 \in Page /\ p0[1] = t /\ p0[2] = v /\ pageTable[p0] \in pageDir
      /\ pages[v] \in memoryManager /\ InFile(n) \in pageDir /\ InFrame(v) \in pageDir
  BY Sorts, Places DEF TypeOK
<1>4. m \in Files /\ pageTable[p0] = InFile(m)
  BY <1>2, <1>3, Somewhere
<1>5. pageTable[p0] # Nowhere /\ q # p0
  BY <1>3, <1>4, Places DEF Sound, Linked
<1>6. Has(t, v)
  BY <1>3, <1>4 DEF Sound, Kept
<1>7. filePages[m].threadPtr = p0 /\ filePages[m].use /\ p0 \in filePages[m].data
      /\ filePages[m] \in memoryManager
  BY <1>3, <1>4, <1>6 DEF Sound, Linked, Kept, TypeOK
<1>8. filePages[n].threadPtr = Anonymous /\ n # m
  BY <1>1, <1>3, <1>7, Sorts DEF FreeFiles
<1>9. q \in Page \cup {Anonymous} /\ (q \in Page => pageTable[q] = InFrame(v))
  BY DEF TypeOK, memoryManager, Sound, Linked
<1>. DEFINE table == Redirected(pageTable, q, InFile(n))
            files == [filePages EXCEPT ![n] = pages[v]]
            back == [filePages[m] EXCEPT !.data = Copied(filePages[m], pages[v])]
<1>21. /\ table \in [Page -> pageDir]
       /\ \A p \in Page : table[p] = IF p = q THEN InFile(n) ELSE pageTable[p]
  BY <1>3, <1>9, Sorts DEF Redirected, TypeOK
<1>22. table[p0] = pageTable[p0] /\ files[m] = filePages[m]
  BY <1>3, <1>4, <1>5, <1>8, <1>21 DEF TypeOK
<1>23. /\ back.threadPtr = p0 /\ back.use /\ back.data = filePages[m].data
  <2>1. PICK o \in memoryManager : o = filePages[m]
    BY <1>7
  <2>2. PICK r \in memoryManager : r = pages[v]
    BY <1>3
  <2>3. /\ [o EXCEPT !.data = Copied(o, r)].threadPtr = o.threadPtr
        /\ [o EXCEPT !.data = Copied(o, r)].use = o.use
        /\ [o EXCEPT !.data = Copied(o, r)].data = Copied(o, r)
    BY Managers
  <2>4. Copied(o, r) = o.data
    BY <1>7, <2>1 DEF Copied
  <2>. QED
    BY <1>7, <2>1, <2>2, <2>3, <2>4
<1>24. /\ pages' = [pages EXCEPT ![v] = back]
       /\ filePages' = [files EXCEPT ![m] = Cleared]
       /\ pageTable' = Redirected(table, p0, InFrame(v))
  <2>1. LET x == table[p0][2]
        IN  /\ pages' = [pages EXCEPT ![v] = [files[x] EXCEPT !.data = Copied(files[x], pages[v])]]
            /\ filePages' = [files EXCEPT ![x] = Cleared]
            /\ pageTable' = Redirected(table, files[x].threadPtr, InFrame(v))
    BY <1>1 DEF ExchangeWithFile
  <2>2. table[p0][2] = m
    BY <1>22
  <2>. QED
    BY <1>7, <1>22, <2>1, <2>2
<1>. HIDE DEF m, q, p0, table, files, back
<1>10. /\ pages'[v] = back
       /\ \A f \in Frames \ {v} : pages'[f] = pages[f]
       /\ filePages'[n] = pages[v] /\ filePages'[m] = Cleared
       /\ \A k \in Files \ {n, m} : filePages'[k] = filePages[k]
  BY <1>4, <1>8, <1>24 DEF TypeOK, files
<1>11. \A p \in Page : pageTable'[p] =
         IF p = p0 THEN InFrame(v) ELSE IF p = q THEN InFile(n) ELSE pageTable[p]
  <2>1. PICK place \in pageDir : place = InFrame(v)
    BY <1>3
  <2>2. \A p \in Page : Redirected(table, p0, place)[p] = IF p = p0 THEN place ELSE table[p]
    BY <1>3, <1>21, RedirectedTable
  <2>. QED
    BY <1>21, <1>24, <2>1, <2>2
<1>13. \A f \in Frames : pages'[f].threadPtr = IF f = v THEN p0 ELSE pages[f].threadPtr
  BY <1>10, <1>23
<1>14. \A k \in Files : filePages'[k].threadPtr =
         IF k = n THEN q ELSE IF k = m THEN Anonymous ELSE filePages[k].threadPtr
  BY <1>8, <1>10, Sorts DEF q
<1>15. Linked'
  <2>1. ASSUME NEW p \in Page, NEW f \in Frames
        PROVE  pageTable'[p] = InFrame(f) <=> pages'[f].threadPtr = p
    <3>1. CASE p = p0
      <4>1. f # v => pages[f].threadPtr # p0
        BY <1>3, <1>4, Places DEF Sound, Linked
      <4>. QED
        BY <3>1, <4>1, <1>11, <1>13, Places
    <3>2. CASE p # p0 /\ p = q
      <4>1. f # v => pages[f].threadPtr # q
        BY <1>9, <3>2, Places DEF Sound, Linked
      <4>. QED
        BY <3>2, <4>1, <1>11, <1>13, Places
    <3>3. CASE p # p0 /\ p # q
      <4>1. pageTable[p] = InFrame(f) <=> pages[f].threadPtr = p
        BY DEF Sound, Linked
      <4>2. pages[v].threadPtr # p
        BY <3>3 DEF q
      <4>. QED
        BY <3>3, <4>1, <4>2, <1>11, <1>13
    <3>. QED
      BY <3>1, <3>2, <3>3
  <2>2. ASSUME NEW p \in Page, NEW k \in Files
        PROVE  pageTable'[p] = InFile(k) <=> filePages'[k].threadPtr = p
    <3>0. /\ p # Anonymous
          /\ pageTable[p] = InFile(k) <=> filePages[k].threadPtr = p
      BY Sorts DEF Sound, Linked
    <3>1. CASE p = p0
      <4>1. k # m => filePages[k].threadPtr # p0
        BY <1>3, <1>4, Places DEF Sound, Linked
      <4>. QED
        BY <3>0, <3>1, <4>1, <1>11, <1>5, <1>14, Places
    <3>2. CASE p # p0 /\ p = q
      <4>1. filePages[k].threadPtr # q
        BY <1>9, <3>2, Places DEF Sound, Linked
      <4>. QED
        BY <3>0, <3>2, <4>1, <1>11, <1>14, Places
    <3>3. CASE p # p0 /\ p # q
      <4>1. k = n \/ k = m => filePages[k].threadPtr # p
        BY <1>7, <1>8, <3>0, <3>3
      <4>. QED
        BY <3>0, <3>3, <4>1, <1>11, <1>14
    <3>. QED
      BY <3>1, <3>2, <3>3
  <2>. QED
    BY <2>1, <2>2 DEF Sound, Linked
<1>16. Kept'
  <2>1. ASSUME NEW p \in Page, NEW f \in Frames, pageTable'[p] = InFrame(f)
        PROVE  /\ Has(p[1], p[2]) => pages'[f].use /\ p \in pages'[f].data
               /\ ~ Has(p[1], p[2]) => ~ pages'[f].use /\ f = p[2]
    <3>1. pages'[f].threadPtr = p
      BY <1>15, <2>1 DEF Linked
    <3>2. CASE f = v
      BY <1>3, <1>6, <1>7, <1>23, <1>10, <1>13, <3>1, <3>2
    <3>3. CASE f # v
      <4>1. pages[f].threadPtr = p /\ pages'[f] = pages[f]
        BY <1>10, <3>1, <3>3
      <4>. QED
        BY <4>1 DEF Sound, Linked, Kept
    <3>. QED
      BY <3>2, <3>3
  <2>2. ASSUME NEW p \in Page, NEW k \in Files, pageTable'[p] = InFile(k)
        PROVE  Has(p[1], p[2]) /\ filePages'[k].use /\ p \in filePages'[k].data
    <3>1. filePages'[k].threadPtr = p /\ p # Anonymous
      BY <1>15, <2>2, Sorts DEF Sound, Linked
    <3>2. CASE k = n
      <4>1. p = q /\ pageTable[p] = InFrame(v)
        BY <1>9, <1>14, <3>1, <3>2
      <4>2. filePages'[k] = pages[v]
        BY <1>10, <3>2
      <4>. QED
        BY <1>2, <4>1, <4>2 DEF Sound, Kept
    <3>3. CASE k # n
      <4>1. filePages[k].threadPtr = p /\ filePages'[k] = filePages[k]
        BY <1>10, <1>14, <3>1, <3>3
      <4>. QED
        BY <4>1 DEF Sound, Linked, Kept
    <3>. QED
      BY <3>2, <3>3
  <2>. QED
    BY <2>1, <2>2 DEF Kept, Has
<1>17. Written'
  <2>1. ASSUME NEW f \in Frames, NEW p \in pages'[f].data
        PROVE  Has(p[1], p[2])
    <3>1. CASE f = v
      BY <1>4, <1>10, <1>23, <2>1, <3>1 DEF Sound, Written
    <3>2. CASE f # v
      <4>1. pages'[f] = pages[f]
        BY <1>10, <3>2
      <4>. QED
        BY <2>1, <4>1 DEF Sound, Written
    <3>. QED
      BY <3>1, <3>2
  <2>2. ASSUME NEW k \in Files, NEW p \in filePages'[k].data
        PROVE  Has(p[1], p[2])
    <3>1. k # m
      BY <1>10, <2>2, Sorts
    <3>2. CASE k = n
      BY <1>10, <2>2, <3>2 DEF Sound, Written
    <3>3. CASE k # n
      <4>1. filePages'[k] = filePages[k]
        BY <1>10, <3>1, <3>3
      <4>. QED
        BY <2>2, <4>1 DEF Sound, Written
    <3>. QED
      BY <3>2, <3>3
  <2>. QED
    BY <2>1, <2>2 DEF Sound, Written, Has
<1>18. Open'
  <2>. SUFFICES ASSUME NEW f \in Frames, f \notin protected', pages'[f].use
                PROVE  pages'[f].threadPtr \in {Anonymous, <<t, f>>}
    BY DEF Open
  <2>1. CASE f = v
    BY <1>13, <2>1 DEF p0
  <2>2. CASE f # v
    <3>1. f \notin protected /\ pages'[f] = pages[f]
      BY <1>2, <1>10, <2>2
    <3>. QED
      BY <3>1 DEF Sound, Open
  <2>. QED
    BY <2>1, <2>2
<1>. QED
  BY <1>15, <1>16, <1>17, <1>18 DEF Sound

(* The SIGSEGV handler keeps the invariant, whichever of its branches it
   takes. *)
LEMMA pageProtect_handlerKeeps ==
  ASSUME TypeOK, Sound, NEW t \in Threads, pageProtect_handler(t)
  PROVE  Sound'
<1>1. PICK v \in protected :
        OpenUnused(t, v) \/ BringFromFile(t, v) \/ BringFromFrame(t, v)
  BY DEF pageProtect_handler
<1>2. v \in Frames /\ runningThread = t /\ UNCHANGED <<runningThread, touches, got>>
  BY DEF pageProtect_handler, Runs, TypeOK
<1>. QED
  BY <1>1, <1>2, OpenUnusedKeeps, BringFromFileKeeps, BringFromFrameKeeps, Zenon

\* page_malloc's step to the next frame, if it takes nobody's page.
LEMMA page_mallocKeeps ==
  ASSUME TypeOK, Sound, NEW t \in Threads, NEW v \in Frames, page_malloc(t, v), ~ taken'
  PROVE  Sound'
<1>1. /\ v + 1 \in Frames /\ ~ Takes(t, v + 1) /\ runningThread = t
      /\ UNCHANGED <<runningThread, touches, got>>
      /\ TakeUnused(t, v + 1) \/ SwapWithFree(t, v + 1) \/ MoveToFile(v + 1)
  BY DEF page_malloc, LooksInto, Runs
<1>2. PICK next \in Frames : next = v + 1
  BY <1>1
<1>3. /\ ~ Takes(t, next)
      /\ TakeUnused(t, next) \/ SwapWithFree(t, next) \/ MoveToFile(next)
  BY <1>1, <1>2
<1>. QED
  BY <1>1, <1>3, TakeUnusedKeeps, SwapWithFreeKeeps, MoveToFileKeeps, Zenon

(* Every step of the threads and of the library keeps the invariant, or has
   taken what a client counts on. *)
LEMMA MemoryStep ==
  ASSUME MemoryInv, [Next]_vars
  PROVE  MemoryInv'
<1>1. TypeOK /\ TypeOK'
  BY TypeStep DEF MemoryInv
<1>2. taken => taken'
  <2>1. ASSUME NEW t \in Threads, LibraryStep(t)
        PROVE  taken => taken'
    BY <2>1 DEF LibraryStep, pageProtect_handler, WildFault, NullPage, Dies, page_init,
                page_malloc, MemoryFull
  <2>2. ASSUME NEW t \in Threads, myallocate(t) \/ Touch(t) \/ Access(t) \/ Switch(t)
        PROVE  taken' = taken
    BY <2>2 DEF myallocate, Touch, Access, Switch
  <2>3. UNCHANGED vars => taken' = taken
    BY DEF vars
  <2>. QED
    BY <2>1, <2>2, <2>3 DEF Next, Over
<1>. SUFFICES ASSUME ~ taken, ~ taken'
              PROVE  Sound'
  BY <1>1, <1>2 DEF MemoryInv, TypeOK
<1>3. Sound
  BY DEF MemoryInv
<1>4. ASSUME NEW t \in Threads, LibraryStep(t)
      PROVE  Sound'
  <2>1. CASE pageProtect_handler(t)
    BY <1>1, <1>3, <2>1, pageProtect_handlerKeeps
  <2>2. CASE WildFault(t) \/ NullPage(t)
    BY <1>1, <1>3, <2>2, StillKeeps DEF WildFault, NullPage, Dies
  <2>3. ASSUME NEW v \in Frames, page_init(t, v)
        PROVE  Sound'
    <3>1. ~ Takes(t, v)
      BY <2>3 DEF page_init
    <3>. QED
      BY <1>1, <1>3, <2>3, <3>1, page_initKeeps
  <2>4. ASSUME NEW v \in Frames, page_malloc(t, v)
        PROVE  Sound'
    BY <1>1, <1>3, <2>4, page_mallocKeeps
  <2>5. ASSUME NEW v \in Frames, MemoryFull(t, v)
        PROVE  Sound'
    BY <1>1, <1>3, <2>5, StillKeeps DEF MemoryFull
  <2>. QED
    BY <1>4, <2>1, <2>2, <2>3, <2>4, <2>5 DEF LibraryStep
<1>5. ASSUME NEW t \in Threads, myallocate(t)
      PROVE  Sound'
  BY <1>1, <1>3, <1>5, StillKeeps DEF myallocate
<1>6. ASSUME NEW t \in Threads, Touch(t)
      PROVE  Sound'
  <2>1. \E u \in Threads : \E v \in got[u] : touches' = [touches EXCEPT ![u] = v]
    BY <1>6 DEF Touch
  <2>2. UNCHANGED <<runningThread, pages, filePages, pageTable, protected, got>>
    BY <1>6 DEF Touch
  <2>. QED
    BY <1>1, <1>3, <2>1, <2>2, StillKeeps
<1>7. ASSUME NEW t \in Threads, Access(t)
      PROVE  Sound'
  BY <1>1, <1>3, <1>7, AccessKeeps
<1>8. ASSUME NEW u \in Threads, Switch(u)
      PROVE  Sound'
  BY <1>1, <1>3, <1>8, SwitchKeeps
<1>9. CASE UNCHANGED vars
  BY <1>1, <1>3, <1>9, StillKeeps DEF vars
<1>. QED
  BY <1>4, <1>5, <1>6, <1>7, <1>8, <1>9 DEF Next, Over

-----------------------------------------------------------------------------
(* The theorems.                                                           *)

(* Frames, file pages, tables and calls keep their types in every reachable
   state, also after the client's pages have been taken. *)
THEOREM MemoryTypeCorrect == Spec => []TypeOK
<1>1. Init => TypeOK
  BY MemoryInvInit DEF MemoryInv
<1>2. TypeOK /\ [Next]_vars => TypeOK'
  BY TypeStep
<1>. QED
  BY <1>1, <1>2, PTL DEF Spec

\* The invariant holds in every reachable state.
LEMMA MemoryInvHolds == Spec => []MemoryInv
<1>1. MemoryInv /\ [Next]_vars => MemoryInv'
  BY MemoryStep
<1>. QED
  BY <1>1, MemoryInvInit, PTL DEF Spec

(* Until page_malloc takes what a client counts on, tables and records point
   at each other, and a page that its client has is where its entry says, with
   its data: through faults, hand-overs, file pages and ticks anywhere. *)
THEOREM TablesTrueCorrect == Spec => []TablesTrue
<1>1. MemoryInv => TablesTrue
  <2>. SUFFICES ASSUME MemoryInv, ~ taken, NEW p \in Page, pageTable[p] # Nowhere
                PROVE  /\ Contents(pageTable[p]).threadPtr = p
                       /\ p[2] \in got[p[1]] => p \in Contents(pageTable[p]).data
    BY DEF TablesTrue
  <2>0. Sound
    BY DEF MemoryInv
  <2>1. pageTable[p] \in pageDir
    BY DEF MemoryInv, TypeOK
  <2>2. CASE \E f \in Frames : pageTable[p] = InFrame(f)
    <3>1. PICK f \in Frames : pageTable[p] = InFrame(f)
      BY <2>2
    <3>2. Contents(pageTable[p]) = pages[f]
      BY <3>1, Places DEF Contents
    <3>. QED
      BY <2>0, <3>1, <3>2 DEF Sound, Linked, Kept, Has
  <2>3. CASE \E n \in Files : pageTable[p] = InFile(n)
    <3>1. PICK n \in Files : pageTable[p] = InFile(n)
      BY <2>3
    <3>2. Contents(pageTable[p]) = filePages[n]
      BY <3>1, Places DEF Contents
    <3>. QED
      BY <2>0, <3>1, <3>2 DEF Sound, Linked, Kept, Has
  <2>. QED
    BY <2>1, <2>2, <2>3, Somewhere
<1>. QED
  BY <1>1, MemoryInvHolds, PTL

(* Until then, a frame that holds the data of another thread's page, where that
   page lives, is closed to the thread that runs: through every order of
   requests, faults, hand-overs and switches. *)
THEOREM OthersClosedCorrect == Spec => []OthersClosed
<1>1. MemoryInv => OthersClosed
  <2>. SUFFICES ASSUME MemoryInv, ~ taken, NEW f \in Frames, f \notin protected,
                       NEW p \in pages[f].data, p[1] # runningThread, pageTable[p] = InFrame(f)
                PROVE  FALSE
    BY DEF OthersClosed, AlwaysClosed, LivesIn
  <2>1. Sound
    BY DEF MemoryInv
  <2>2. p \in Page
    BY DEF MemoryInv, TypeOK, memoryManager
  <2>3. Has(p[1], p[2])
    BY <2>1 DEF Sound, Written
  <2>4. pages[f].use /\ pages[f].threadPtr = p
    BY <2>1, <2>2, <2>3 DEF Sound, Kept, Linked
  <2>5. p \in {Anonymous, <<runningThread, f>>}
    BY <2>1, <2>4 DEF Sound, Open
  <2>. QED
    BY <2>2, <2>5, Sorts
<1>. QED
  BY <1>1, MemoryInvHolds, PTL
=============================================================================
