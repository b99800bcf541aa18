------------------------------ MODULE SparkMem ------------------------------
(***************************************************************************)
(* The page tables of the partitions: the pages of SParK's heap they are   *)
(* made of, the directories made at boot, the hypercall that checks and    *)
(* copies a guest's own page tables, and what the processor walks.         *)
(*                                                                         *)
(* Memory is counted in frames.  SParK has the first of them, then come    *)
(* the guests.  An entry of a page table is a frame or Absent; its flags   *)
(* are left out.  A directory covers SParK in its first entries and then   *)
(* guest after guest.  spark_registerPages is done in steps, an entry of   *)
(* the guest's directory each; no partition is switched meanwhile          *)
(* (CallGate of SparkSched).                                               *)
(***************************************************************************)
EXTENDS Integers, FiniteSets

CONSTANTS
  NUM_OF_GUESTOS, MAX_TASK_PER_GUEST,
  UnusedWords,       \* words in front of pde[] that a negative task id reaches
  NUM_ENTRIES_PER_PAGE,
  SparkEntries,      \* MEMORY_ALLOTED_TO_SPARK / MEMORY_PER_PDEENTRY
  GuestEntries,      \* MEMORY_ALLOTED_TO_EACH_GUEST / MEMORY_PER_PDEENTRY
  KernelTables,      \* page tables map_kernelspace makes for SParK
  HeapFirst, HeapLast,  \* frames of SParK's heap
  Absent,            \* an entry that is 0
  LeftOver,          \* what a page of the heap holds before it is used
  Directories,       \* the directories the guests register
  MayEmpty           \* may the guests register until the heap is empty?

Guests  == 0 .. NUM_OF_GUESTOS - 1
\* The task ids the hypercalls take: iProcessId is signed and is compared with
\* MAX_TASK_PER_GUEST only.  pde[-1], pde[-2] and pde[-3] are iBudgetRemaining,
\* iTotalBudget and bIsActive of the same thread_struct (processor.h:54), which
\* nothing reads: they serve as entries of pde that are 0 at boot (bIsActive is
\* 1, a flag of page 0).  pde[-4] is gdt_addr and is left out.
Tasks   == -UnusedWords .. MAX_TASK_PER_GUEST - 1
Entries == 0 .. NUM_ENTRIES_PER_PAGE - 1
Heap    == HeapFirst .. HeapLast

\* phyOffset of guest g, in entries of a directory and in frames.
iPdeBase(g)  == SparkEntries + g * GuestEntries
phyOffset(g) == iPdeBase(g) * NUM_ENTRIES_PER_PAGE

\* The frames of guest g.
Own(g) == phyOffset(g) .. phyOffset(g) + GuestEntries * NUM_ENTRIES_PER_PAGE - 1

Table == [Entries -> Nat \cup {Absent}]

\* The entries of a guest's directory that have a place in the one SParK makes
\* for it: behind them verifyAndCopyPages writes past the page.
GuestSlots(g) == 0 .. NUM_ENTRIES_PER_PAGE - iPdeBase(g) - 1

\* The tables of a guest's directory are what they hold, not where they are.
ASSUME MemAssumption ==
  /\ NUM_OF_GUESTOS \in Nat \ {0}
  /\ MAX_TASK_PER_GUEST \in Nat \ {0}
  /\ UnusedWords \in 0 .. 3
  /\ NUM_ENTRIES_PER_PAGE \in Nat \ {0}
  /\ SparkEntries \in Nat \ {0}
  /\ GuestEntries \in Nat \ {0}
  /\ iPdeBase(NUM_OF_GUESTOS) <= NUM_ENTRIES_PER_PAGE
  /\ KernelTables \in 0 .. SparkEntries
  /\ HeapFirst \in Nat \ {0}
  /\ HeapLast \in Nat
  /\ HeapLast < phyOffset(0)
  /\ HeapFirst + KernelTables + NUM_OF_GUESTOS * (1 + GuestEntries) <= HeapLast + 1
  /\ Absent \notin Nat
  /\ LeftOver \in Table
  /\ Directories \subseteq [Entries -> Table \cup {Absent}]
  /\ \A dir \in Directories, g \in Guests :
       \A e \in Entries : e \notin GuestSlots(g) => dir[e] = Absent
  /\ MayEmpty \in BOOLEAN

VARIABLES
  mem,                \* what the pages of the heap hold, and the page at address 0
  freePages_CurrAddr, \* the next page kGetPage returns
  pde,                \* guestOS_thread[g].pde: a page for each task, 0 for none
  iCurrTaskId,        \* the current task of each guest
  iCurrGuestOsIndex,  \* the guest that has the processor
  cr3,                \* the directory the processor walks
  copy,               \* the registration in progress
  careless            \* history: guests whose last load was of a task without a directory

vars == <<mem, freePages_CurrAddr, pde, iCurrTaskId, iCurrGuestOsIndex, cr3, copy, careless>>

-----------------------------------------------------------------------------
\* Boot: map_kernelspace, then a directory and its tables for each guest.

Zeroed == [e \in Entries |-> Absent]

\* SParK's own directory: the kernel's memory, mapped to itself.
spark_pde(e) == IF e < KernelTables THEN HeapFirst + e ELSE Absent

BootPage(g) == HeapFirst + KernelTables + g * (1 + GuestEntries)

\* guest_pde of map_guestOSes and its tables.
BootDirectory(g) ==
  [e \in Entries |-> IF e < SparkEntries THEN spark_pde(e)
                     ELSE IF e \in iPdeBase(g) .. iPdeBase(g + 1) - 1
                     THEN BootPage(g) + 1 + (e - iPdeBase(g))
                     ELSE Absent]
IdentityTable(n) == [e \in Entries |-> n * NUM_ENTRIES_PER_PAGE + e]

Pages == {0} \cup Heap

Init ==
  /\ mem = [f \in Pages |->
       IF f \in HeapFirst .. HeapFirst + KernelTables - 1 THEN IdentityTable(f - HeapFirst)
       ELSE IF \E g \in Guests : f = BootPage(g)
       THEN BootDirectory(CHOOSE g \in Guests : f = BootPage(g))
       ELSE IF \E g \in Guests : f \in BootPage(g) + 1 .. BootPage(g) + GuestEntries
       THEN LET g == CHOOSE g \in Guests : f \in BootPage(g) + 1 .. BootPage(g) + GuestEntries
            IN  IdentityTable(iPdeBase(g) + (f - BootPage(g) - 1))
       ELSE LeftOver]
  /\ freePages_CurrAddr = BootPage(NUM_OF_GUESTOS)
  /\ pde = [g \in Guests |-> [t \in Tasks |-> IF t = 0 THEN BootPage(g) ELSE 0]]
  /\ iCurrTaskId = [g \in Guests |-> 0]
  /\ iCurrGuestOsIndex \in Guests
  /\ cr3 = BootPage(iCurrGuestOsIndex)
  /\ copy = [on |-> FALSE]
  /\ careless = {}

-----------------------------------------------------------------------------
\* kGetPage: the next page, or NULL when there is none left.
kGetPage == IF freePages_CurrAddr \in Heap THEN freePages_CurrAddr ELSE 0
PageTaken ==
  freePages_CurrAddr' = IF freePages_CurrAddr \in Heap THEN freePages_CurrAddr + 1
                                                       ELSE freePages_CurrAddr

\* A page for the directory is taken and cleared; each of its tables takes one
\* more.
BeginCopy(iProcessId, dir) ==
  /\ MayEmpty \/ freePages_CurrAddr + Cardinality({e \in Entries : dir[e] # Absent}) <= HeapLast
  /\ copy' = [on |-> TRUE, iProcessId |-> iProcessId, guest_pde |-> dir,
              spark_pde |-> kGetPage, iCount |-> 0]
  /\ mem' = [mem EXCEPT ![kGetPage] = Zeroed]
  /\ PageTaken
  /\ UNCHANGED <<iCurrTaskId, iCurrGuestOsIndex, cr3, careless>>

\* Mutants: a registration for any task is taken; the task gets the new
\* directory before it is checked.
RegisterAnyTask(iProcessId, dir) == ~copy.on /\ BeginCopy(iProcessId, dir) /\ UNCHANGED pde
RegisterUnchecked(iProcessId, dir) ==
  /\ ~copy.on
  /\ iProcessId < MAX_TASK_PER_GUEST
  /\ BeginCopy(iProcessId, dir)
  /\ pde' = [pde EXCEPT ![iCurrGuestOsIndex][iProcessId] = kGetPage]

spark_registerPages(iProcessId, dir) ==
  /\ ~copy.on
  /\ \/ iProcessId >= MAX_TASK_PER_GUEST /\ UNCHANGED vars
     \/ iProcessId < MAX_TASK_PER_GUEST /\ BeginCopy(iProcessId, dir) /\ UNCHANGED pde

Skip == copy.guest_pde[copy.iCount] = Absent

FrameOrNext(frame) == frame <= GuestEntries * NUM_ENTRIES_PER_PAGE   \* mutant: the frame behind too
ValidFrame(frame) == frame <= GuestEntries * NUM_ENTRIES_PER_PAGE - 1
Valid(table, e) == table[e] = Absent \/ ValidFrame(table[e])

\* The page tables after an entry iCount of the guest's directory was copied:
\* a new page is cleared and entered, then filled up to the first bad entry.
Copied(table) ==
  LET page    == kGetPage
      g       == iCurrGuestOsIndex
      cleared == [mem EXCEPT ![page] = Zeroed]
      entered == [cleared EXCEPT ![copy.spark_pde][iPdeBase(g) + copy.iCount] = page]
  IN  [entered EXCEPT ![page] =
         [e \in Entries |-> IF table[e] # Absent /\ \A k \in 0 .. e : Valid(table, k)
                            THEN table[e] + phyOffset(g)
                            ELSE entered[page][e]]]

verifyAndCopyEntry ==
  /\ copy.on
  /\ copy.iCount < NUM_ENTRIES_PER_PAGE
  /\ \/ /\ Skip
        /\ copy' = [copy EXCEPT !.iCount = @ + 1]
        /\ UNCHANGED <<mem, freePages_CurrAddr>>
     \/ LET table == copy.guest_pde[copy.iCount]
        IN  /\ ~Skip
            /\ MayEmpty \/ freePages_CurrAddr \in Heap
            /\ mem' = Copied(table)
            /\ PageTaken
            /\ copy' = IF \A e \in Entries : Valid(table, e)
                       THEN [copy EXCEPT !.iCount = @ + 1]
                       ELSE [on |-> FALSE]
  /\ UNCHANGED <<pde, iCurrTaskId, iCurrGuestOsIndex, cr3, careless>>

\* SParK's entries are put in and the task gets the new directory.
EndOfCopy ==
  /\ copy.on
  /\ copy.iCount = NUM_ENTRIES_PER_PAGE
  /\ mem' = [mem EXCEPT ![copy.spark_pde] =
               [e \in Entries |-> IF e < SparkEntries THEN spark_pde(e) ELSE @[e]]]
  /\ pde' = [pde EXCEPT ![iCurrGuestOsIndex][copy.iProcessId] = copy.spark_pde]
  /\ copy' = [on |-> FALSE]
  /\ UNCHANGED <<freePages_CurrAddr, iCurrTaskId, iCurrGuestOsIndex, cr3, careless>>

\* load_pde does not ask whether the task has a directory: after a refused or
\* missing registration the processor walks the page at address 0.
spark_loadPDE(iProcessId) ==
  /\ ~copy.on
  /\ \/ iProcessId >= MAX_TASK_PER_GUEST /\ UNCHANGED vars
     \/ LET g == iCurrGuestOsIndex
        IN  /\ iProcessId < MAX_TASK_PER_GUEST
            /\ iCurrTaskId' = [iCurrTaskId EXCEPT ![g] = iProcessId]
            /\ cr3' = pde[g][iProcessId]
            /\ careless' = IF pde[g][iProcessId] = 0 THEN careless \cup {g} ELSE careless \ {g}
            /\ UNCHANGED <<mem, freePages_CurrAddr, pde, iCurrGuestOsIndex, copy>>

\* fLoadNewMemContext of a partition switch.
fLoadNewMemContext(g) ==
  /\ ~copy.on
  /\ iCurrGuestOsIndex' = g
  /\ cr3' = pde[g][iCurrTaskId[g]]
  /\ UNCHANGED <<mem, freePages_CurrAddr, pde, iCurrTaskId, copy, careless>>

Calls == Tasks \cup {MAX_TASK_PER_GUEST}   \* ids that are tried, a refused one too

Next ==
  \/ \E t \in Calls, dir \in Directories : spark_registerPages(t, dir)
  \/ verifyAndCopyEntry
  \/ EndOfCopy
  \/ \E t \in Calls : spark_loadPDE(t)
  \/ \E g \in Guests : fLoadNewMemContext(g)

Spec == Init /\ [][Next]_vars

-----------------------------------------------------------------------------
\* Properties

Registration ==
  [on : {TRUE}, iProcessId : Tasks, guest_pde : Directories, spark_pde : Pages,
   iCount : 0 .. NUM_ENTRIES_PER_PAGE]

TypeOK ==
  /\ mem \in [Pages -> Table]
  /\ freePages_CurrAddr \in HeapFirst .. HeapLast + 1
  /\ pde \in [Guests -> [Tasks -> Pages]]
  /\ iCurrTaskId \in [Guests -> Tasks]
  /\ iCurrGuestOsIndex \in Guests
  /\ cr3 \in Pages
  /\ copy \in Registration \cup {[on |-> FALSE]}
  /\ careless \in SUBSET Guests

\* What directory d maps besides SParK's own memory, which every directory maps
\* like SParK's, are frames of guest g.
Isolated(d, g) ==
  \A e \in Entries :
    IF e < SparkEntries
    THEN mem[d][e] = spark_pde(e)
    ELSE mem[d][e] # Absent =>
           /\ mem[d][e] \in Pages
           /\ \A k \in Entries : mem[mem[d][e]][k] \in Own(g) \cup {Absent}

\* The processor never walks to a frame of another partition, whatever page
\* tables the guests registered before, and whichever of them is replaced
\* while it is in use (README:6, "Spatial Guarantees").  The exception is of a
\* guest's own making: the directory at address 0 is walked only while a guest
\* runs whose own last load was of a task that had no directory.
SpatialIsolation ==
  \/ Isolated(cr3, iCurrGuestOsIndex)
  \/ cr3 = 0 /\ iCurrGuestOsIndex \in careless

-----------------------------------------------------------------------------
\* As long as the heap has pages, the tables implement PartitionSpaces: a task
\* gets exactly the pages its guest asks for, moved to the guest's memory, or
\* keeps what it had; nothing else changes what a task sees.

\* What a walk of directory d finds at guest g's linear addresses.
Walk(d, g) ==
  [c \in GuestSlots(g) |-> [e \in Entries |->
     LET table == mem[d][iPdeBase(g) + c]
     IN  IF table = Absent THEN Absent ELSE mem[table][e]]]

\* What the guest's own tables say, and whether SParK takes them.
Moved(table, g) == [e \in Entries |-> IF table[e] = Absent THEN Absent ELSE table[e] + phyOffset(g)]
Registered(dir, g) ==
  [c \in GuestSlots(g) |-> IF dir[c] = Absent THEN Zeroed ELSE Moved(dir[c], g)]
Acceptable(dir) == \A c \in Entries : dir[c] # Absent => \A e \in Entries : Valid(dir[c], e)

BootSpace(g) ==
  [c \in GuestSlots(g) |-> [e \in Entries |->
     IF c < GuestEntries THEN phyOffset(g) + c * NUM_ENTRIES_PER_PAGE + e ELSE Absent]]

\* What the page at address 0 maps is not known.
NoSpace == <<>>
SpaceOf(d, g) == IF d = 0 THEN NoSpace ELSE Walk(d, g)

PartitionMemory == INSTANCE PartitionSpaces WITH
  space   <- [g \in Guests |-> [t \in Tasks |-> SpaceOf(pde[g][t], g)]],
  task    <- iCurrTaskId,
  running <- iCurrGuestOsIndex,
  active  <- SpaceOf(cr3, iCurrGuestOsIndex),
  asked   <- IF copy.on THEN <<copy.iProcessId, copy.guest_pde>> ELSE <<>>
ImplementsSpaces == PartitionMemory!Spec
=============================================================================
