--------------------------- MODULE SparkMem_proofs ---------------------------
(***************************************************************************)
(* Proofs about the page tables, for any number of guests and any sizes:   *)
(* the types, that the directory in use maps no frame of another guest     *)
(* (unless the guest itself loaded a task it never registered), and that   *)
(* the tables implement PartitionSpaces, as long as the heap has pages.    *)
(***************************************************************************)
EXTENDS SparkMem, FiniteSetTheorems, TLAPS

LEMMA Multiples ==
  ASSUME NEW a \in Nat, NEW b \in Nat, NEW c \in Nat, a < b
  PROVE  a * c + c <= b * c
<1>1. (b - a - 1) * c >= 0
  <2>1. b - a - 1 \in Nat
    OBVIOUS
  <2> QED
    BY <2>1
<1>2. (b - a - 1) * c = b * c - a * c - c
  OBVIOUS
<1>3. a * c \in Int /\ b * c \in Int
  OBVIOUS
<1> QED
  BY <1>1, <1>2, <1>3

\* The pages of the boot directories are in the heap and different.
LEMMA BootPages ==
  ASSUME NEW g \in Guests
  PROVE  /\ BootPage(g) \in HeapFirst + KernelTables .. HeapLast
         /\ BootPage(g) + GuestEntries < BootPage(NUM_OF_GUESTOS)
         /\ BootPage(NUM_OF_GUESTOS) \in HeapFirst .. HeapLast + 1
         /\ \A h \in Guests : g < h => BootPage(g) + GuestEntries < BootPage(h)
<1>1. /\ g \in Nat /\ NUM_OF_GUESTOS \in Nat /\ g < NUM_OF_GUESTOS /\ 1 + GuestEntries \in Nat
      /\ HeapFirst \in Nat /\ KernelTables \in Nat /\ HeapLast \in Nat /\ GuestEntries \in Nat
  BY MemAssumption DEF Guests
<1>2. g * (1 + GuestEntries) + (1 + GuestEntries) <= NUM_OF_GUESTOS * (1 + GuestEntries)
  BY <1>1, Multiples
<1>3. \A h \in Guests : g < h => g * (1 + GuestEntries) + (1 + GuestEntries) <= h * (1 + GuestEntries)
  <2>1. \A h \in Guests : h \in Nat
    BY <1>1 DEF Guests
  <2> QED
    BY <1>1, <2>1, Multiples
<1>4. /\ g * (1 + GuestEntries) \in Nat /\ NUM_OF_GUESTOS * (1 + GuestEntries) \in Nat
      /\ \A h \in Guests : h * (1 + GuestEntries) \in Nat
  BY <1>1 DEF Guests
<1> DEFINE size == 1 + GuestEntries
           m(h) == h * size
<1>5. /\ m(g) + size <= m(NUM_OF_GUESTOS) /\ m(g) \in Nat /\ m(NUM_OF_GUESTOS) \in Nat
      /\ \A h \in Guests : m(h) \in Nat /\ (g < h => m(g) + size <= m(h))
      /\ size = 1 + GuestEntries
  BY <1>2, <1>3, <1>4
<1>6. /\ \A h \in Guests : BootPage(h) = HeapFirst + KernelTables + m(h)
      /\ BootPage(NUM_OF_GUESTOS) = HeapFirst + KernelTables + m(NUM_OF_GUESTOS)
      /\ HeapFirst + KernelTables + m(NUM_OF_GUESTOS) <= HeapLast + 1
  BY MemAssumption DEF BootPage
<1> HIDE DEF m, size
<1> QED
  BY <1>1, <1>5, <1>6

\* What a guest calls frame f is one of its own.
LEMMA Frames ==
  ASSUME NEW g \in Guests
  PROVE  /\ phyOffset(g) \in Nat
         /\ \A f \in Nat : ValidFrame(f) => f + phyOffset(g) \in Own(g)
         /\ \A j \in 0 .. GuestEntries - 1, e \in Entries :
              (iPdeBase(g) + j) * NUM_ENTRIES_PER_PAGE + e \in Own(g)
<1> DEFINE E == NUM_ENTRIES_PER_PAGE
           size == GuestEntries * E
<1>1. g \in Nat /\ E \in Nat /\ GuestEntries \in Nat /\ SparkEntries \in Nat
  BY MemAssumption DEF Guests
<1>2. iPdeBase(g) \in Nat
  BY <1>1 DEF iPdeBase
<1>3. phyOffset(g) \in Nat /\ size \in Nat
  BY <1>1, <1>2 DEF phyOffset
<1>4. ASSUME NEW f \in Nat, ValidFrame(f)
      PROVE  f + phyOffset(g) \in Own(g)
  BY <1>3, <1>4 DEF ValidFrame, Own
<1>5. ASSUME NEW j \in 0 .. GuestEntries - 1, NEW e \in Entries
      PROVE  (iPdeBase(g) + j) * E + e \in Own(g)
  <2>1. (iPdeBase(g) + j) * E = phyOffset(g) + j * E
    BY <1>1, <1>2 DEF phyOffset
  <2>2. j * E + E <= size /\ j * E \in Nat
    BY <1>1, Multiples
  <2>3. e \in 0 .. E - 1
    BY DEF Entries
  <2> HIDE DEF E, size
  <2> QED
    BY <1>1, <1>3, <2>1, <2>2, <2>3 DEF Own, size, E
<1> QED
  BY <1>3, <1>4, <1>5

-----------------------------------------------------------------------------
\* The inductive invariant.  Pages below Bound are written no more: the next
\* one to be written is the directory in the making or a page from the heap.
Bound == IF copy.on THEN copy.spark_pde ELSE freePages_CurrAddr

\* A directory that is finished, for guest g.
Finished(d, g) ==
  /\ d \in Heap /\ d < Bound
  /\ \A e \in Entries :
       IF e < SparkEntries
       THEN mem[d][e] = spark_pde(e)
       ELSE mem[d][e] # Absent =>
              /\ mem[d][e] \in Heap /\ mem[d][e] < Bound
              /\ \A k \in Entries : mem[mem[d][e]][k] \in Own(g) \cup {Absent}

\* A directory that is in use: page 0 by the guest's own fault only.
Walked(d, g) == Finished(d, g) \/ (d = 0 /\ g \in careless)

\* The directory in the making.
InTheMaking ==
  copy.on =>
    /\ copy.spark_pde \in Heap /\ copy.spark_pde < freePages_CurrAddr
    /\ \A e \in Entries : mem[copy.spark_pde][e] # Absent =>
         LET table == mem[copy.spark_pde][e]
         IN  /\ table \in Heap /\ copy.spark_pde < table /\ table < freePages_CurrAddr
             /\ \A k \in Entries : mem[table][k] \in Own(iCurrGuestOsIndex) \cup {Absent}

IInv ==
  /\ TypeOK
  /\ \A g \in Guests, t \in Tasks : pde[g][t] # 0 => Finished(pde[g][t], g)
  /\ \A g \in Guests : pde[g][iCurrTaskId[g]] = 0 => g \in careless
  /\ Walked(cr3, iCurrGuestOsIndex)
  /\ InTheMaking

\* What the boot directories are made of.
LEMMA BootMemory ==
  ASSUME Init, NEW g \in Guests
  PROVE  /\ mem[BootPage(g)] = BootDirectory(g)
         /\ \A j \in 0 .. GuestEntries - 1 :
              mem[BootPage(g) + 1 + j] = IdentityTable(iPdeBase(g) + j)
<1>1. /\ HeapFirst \in Nat \ {0} /\ HeapLast \in Nat /\ KernelTables \in Nat /\ GuestEntries \in Nat \ {0}
      /\ \A h \in Guests : h \in Int
  BY MemAssumption DEF Guests
<1>2. \A h \in Guests : BootPage(h) \in HeapFirst + KernelTables .. HeapLast /\ BootPage(h) + GuestEntries <= HeapLast
  <2> SUFFICES ASSUME NEW h \in Guests
               PROVE  BootPage(h) \in HeapFirst + KernelTables .. HeapLast /\ BootPage(h) + GuestEntries <= HeapLast
    OBVIOUS
  <2>1. /\ BootPage(h) \in HeapFirst + KernelTables .. HeapLast
        /\ BootPage(h) + GuestEntries < BootPage(NUM_OF_GUESTOS)
        /\ BootPage(NUM_OF_GUESTOS) \in HeapFirst .. HeapLast + 1
    BY BootPages
  <2> QED
    BY <1>1, <2>1
<1>3. \A h, i \in Guests : h < i => BootPage(h) + GuestEntries < BootPage(i)
  BY BootPages
<1>4. \A h, i \in Guests : h = i \/ h < i \/ i < h
  BY <1>1
<1>5. ASSUME NEW h \in Guests, NEW i \in Guests, NEW j \in 0 .. GuestEntries,
             BootPage(i) = BootPage(h) + j
      PROVE  i = h
  <2>1. CASE h < i
    BY <1>1, <1>2, <1>3, <1>5, <2>1
  <2>2. CASE i < h
    BY <1>1, <1>2, <1>3, <1>5, <2>2
  <2> QED
    BY <1>4, <2>1, <2>2
<1>6. ASSUME NEW h \in Guests, NEW i \in Guests, NEW j \in 1 .. GuestEntries, NEW k \in 1 .. GuestEntries,
             BootPage(i) + j = BootPage(h) + k
      PROVE  i = h
  <2>1. CASE h < i
    BY <1>1, <1>2, <1>3, <1>6, <2>1
  <2>2. CASE i < h
    BY <1>1, <1>2, <1>3, <1>6, <2>2
  <2> QED
    BY <1>4, <2>1, <2>2
<1>7. mem[BootPage(g)] = BootDirectory(g)
  <2> DEFINE f == BootPage(g)
  <2>1. f \in Pages /\ f \notin HeapFirst .. HeapFirst + KernelTables - 1
    BY <1>1, <1>2 DEF Pages, Heap
  <2>2. \A i \in Guests : f = BootPage(i) => i = g
    <3> SUFFICES ASSUME NEW i \in Guests, f = BootPage(i)
                 PROVE  i = g
      OBVIOUS
    <3>1. BootPage(i) = BootPage(g) + 0 /\ 0 \in 0 .. GuestEntries
      BY <1>1, <1>2
    <3> QED
      BY <1>5, <3>1
  <2>3. (CHOOSE i \in Guests : f = BootPage(i)) = g
    BY <2>2
  <2> HIDE DEF f
  <2>4. \E i \in Guests : f = BootPage(i)
    BY DEF f
  <2>5. mem[f] = BootDirectory(CHOOSE i \in Guests : f = BootPage(i))
    BY <2>1, <2>4 DEF Init
  <2> QED
    BY <2>3, <2>5 DEF f
<1>8. ASSUME NEW j \in 0 .. GuestEntries - 1
      PROVE  mem[BootPage(g) + 1 + j] = IdentityTable(iPdeBase(g) + j)
  <2> DEFINE f == BootPage(g) + 1 + j
  <2>1. f \in Pages /\ f \notin HeapFirst .. HeapFirst + KernelTables - 1
    BY <1>1, <1>2 DEF Pages, Heap
  <2>2. ~ \E i \in Guests : f = BootPage(i)
    <3> SUFFICES ASSUME NEW i \in Guests, f = BootPage(i)
                 PROVE  FALSE
      OBVIOUS
    <3>1. BootPage(i) = BootPage(g) + (1 + j) /\ 1 + j \in 0 .. GuestEntries
      BY <1>1, <1>2
    <3>2. i = g
      BY <1>5, <3>1
    <3> QED
      BY <1>1, <1>2, <3>1, <3>2
  <2>3. f \in BootPage(g) + 1 .. BootPage(g) + GuestEntries
    BY <1>1, <1>2
  <2>4. \A i \in Guests : f \in BootPage(i) + 1 .. BootPage(i) + GuestEntries => i = g
    <3> SUFFICES ASSUME NEW i \in Guests, f \in BootPage(i) + 1 .. BootPage(i) + GuestEntries
                 PROVE  i = g
      OBVIOUS
    <3> DEFINE k == f - BootPage(i)
    <3>1. k \in 1 .. GuestEntries /\ 1 + j \in 1 .. GuestEntries /\ BootPage(i) + k = BootPage(g) + (1 + j)
      BY <1>1, <1>2
    <3> HIDE DEF k
    <3> QED
      BY <1>6, <3>1
  <2> DEFINE w == CHOOSE i \in Guests : f \in BootPage(i) + 1 .. BootPage(i) + GuestEntries
  <2>5. w = g
    <3> HIDE DEF f
    <3> QED BY <2>3, <2>4
  <2> HIDE DEF f
  <2>6. mem[f] = IdentityTable(iPdeBase(w) + (f - BootPage(w) - 1))
    BY <2>1, <2>2, <2>3 DEF Init
  <2>7. f - BootPage(g) - 1 = j
    BY <1>1, <1>2 DEF f
  <2> QED
    BY <2>5, <2>6, <2>7 DEF f
<1> QED
  BY <1>7, <1>8

LEMMA SparkEntriesInHeap ==
  /\ \A e \in Entries : spark_pde(e) \in Nat \cup {Absent}
  /\ HeapFirst \in Nat \ {0} /\ HeapLast \in Nat
BY MemAssumption DEF spark_pde, Entries

LEMMA TablesAreTyped ==
  /\ \A g \in Guests : BootDirectory(g) \in Table
  /\ \A n \in Nat : IdentityTable(n) \in Table
  /\ Zeroed \in Table /\ LeftOver \in Table
<1>1. ASSUME NEW g \in Guests
      PROVE  BootDirectory(g) \in Table
  <2>1. /\ g \in Nat /\ GuestEntries \in Nat /\ SparkEntries \in Nat /\ HeapFirst \in Nat /\ KernelTables \in Nat
        /\ BootPage(g) \in HeapFirst + KernelTables .. HeapLast
    BY BootPages, MemAssumption DEF Guests
  <2>2. iPdeBase(g) \in Nat
    BY <2>1 DEF iPdeBase
  <2>3. \A e \in Entries : e \in Nat
    BY MemAssumption DEF Entries
  <2>4. ASSUME NEW e \in Entries, e \in iPdeBase(g) .. iPdeBase(g + 1) - 1
        PROVE  BootPage(g) + 1 + (e - iPdeBase(g)) \in Nat
    BY <2>1, <2>2, <2>4
  <2> QED
    BY <2>4, SparkEntriesInHeap DEF BootDirectory, Table
<1>2. ASSUME NEW n \in Nat
      PROVE  IdentityTable(n) \in Table
  <2>1. NUM_ENTRIES_PER_PAGE \in Nat /\ \A e \in Entries : e \in Nat
    BY MemAssumption DEF Entries
  <2>2. n * NUM_ENTRIES_PER_PAGE \in Nat
    BY <2>1
  <2> QED
    BY <2>1, <2>2 DEF IdentityTable, Table
<1> QED
  BY <1>1, <1>2, MemAssumption DEF Zeroed, Table

LEMMA InitialMemoryTyped == Init => mem \in [Pages -> Table]
<1> SUFFICES ASSUME Init PROVE mem \in [Pages -> Table]
  OBVIOUS
<1> SUFFICES ASSUME NEW f \in Pages PROVE mem[f] \in Table
  BY DEF Init
<1>1. CASE f \in HeapFirst .. HeapFirst + KernelTables - 1
  <2>1. f - HeapFirst \in Nat
    BY <1>1, MemAssumption
  <2> QED
    BY <1>1, <2>1, TablesAreTyped DEF Init
<1>2. CASE f \notin HeapFirst .. HeapFirst + KernelTables - 1 /\ \E g \in Guests : f = BootPage(g)
  <2>1. (CHOOSE g \in Guests : f = BootPage(g)) \in Guests
    BY <1>2
  <2> QED
    BY <1>2, <2>1, TablesAreTyped DEF Init
<1>3. CASE /\ f \notin HeapFirst .. HeapFirst + KernelTables - 1 /\ ~ \E g \in Guests : f = BootPage(g)
           /\ \E g \in Guests : f \in BootPage(g) + 1 .. BootPage(g) + GuestEntries
  <2> DEFINE g == CHOOSE g \in Guests : f \in BootPage(g) + 1 .. BootPage(g) + GuestEntries
  <2>1. g \in Guests /\ f \in BootPage(g) + 1 .. BootPage(g) + GuestEntries
    BY <1>3
  <2>2. mem[f] = IdentityTable(iPdeBase(g) + (f - BootPage(g) - 1))
    BY <1>3 DEF Init
  <2> HIDE DEF g
  <2>3. BootPage(g) \in Int /\ BootPage(g) + GuestEntries \in Int /\ GuestEntries \in Nat /\ SparkEntries \in Nat /\ g \in Nat
    BY <2>1, BootPages, MemAssumption DEF Guests
  <2>4. f - BootPage(g) - 1 \in Nat /\ iPdeBase(g) \in Nat
    BY <2>1, <2>3 DEF iPdeBase
  <2>5. iPdeBase(g) + (f - BootPage(g) - 1) \in Nat
    BY <2>4
  <2> QED
    BY <2>2, <2>5, TablesAreTyped
<1>4. CASE /\ f \notin HeapFirst .. HeapFirst + KernelTables - 1 /\ ~ \E g \in Guests : f = BootPage(g)
           /\ ~ \E g \in Guests : f \in BootPage(g) + 1 .. BootPage(g) + GuestEntries
  BY <1>4, TablesAreTyped DEF Init
<1> QED
  BY <1>1, <1>2, <1>3, <1>4

LEMMA Initially == Init => IInv
<1> SUFFICES ASSUME Init PROVE IInv
  OBVIOUS
<1>0. /\ 0 \in Guests /\ 0 \in Tasks /\ HeapFirst \in Nat \ {0} /\ HeapLast \in Nat
      /\ GuestEntries \in Nat /\ SparkEntries \in Nat /\ KernelTables \in Nat
      /\ \A g \in Guests : g \in Nat
  BY MemAssumption DEF Guests, Tasks
<1>1. \A g \in Guests : /\ BootPage(g) \in HeapFirst + KernelTables .. HeapLast
                        /\ BootPage(g) + GuestEntries < BootPage(NUM_OF_GUESTOS)
                        /\ BootPage(NUM_OF_GUESTOS) \in HeapFirst .. HeapLast + 1
  BY BootPages
<1>2. \A g \in Guests : BootPage(g) \in Heap /\ BootPage(g) # 0 /\ BootPage(g) \in Pages
  BY <1>0, <1>1 DEF Heap, Pages
<1>3. /\ freePages_CurrAddr = BootPage(NUM_OF_GUESTOS) /\ ~copy.on /\ copy = [on |-> FALSE]
      /\ pde = [g \in Guests |-> [t \in Tasks |-> IF t = 0 THEN BootPage(g) ELSE 0]]
      /\ iCurrTaskId = [g \in Guests |-> 0]
      /\ iCurrGuestOsIndex \in Guests /\ cr3 = BootPage(iCurrGuestOsIndex)
      /\ careless = {}
  BY DEF Init
<1>4. TypeOK
  <2>1. mem \in [Pages -> Table]
    BY InitialMemoryTyped
  <2>2. pde \in [Guests -> [Tasks -> Pages]]
    BY <1>2, <1>3 DEF Pages
  <2> QED
    BY <1>0, <1>1, <1>2, <1>3, <2>1, <2>2 DEF TypeOK
<1>5. ASSUME NEW g \in Guests
      PROVE  Finished(BootPage(g), g)
  <2>1. Bound = BootPage(NUM_OF_GUESTOS) /\ BootPage(g) < Bound
    BY <1>0, <1>1, <1>3 DEF Bound
  <2>2. mem[BootPage(g)] = BootDirectory(g)
    BY BootMemory
  <2>3. ASSUME NEW e \in Entries, e < SparkEntries
        PROVE  mem[BootPage(g)][e] = spark_pde(e)
    BY <2>2, <2>3 DEF BootDirectory
  <2>4. ASSUME NEW e \in Entries, ~(e < SparkEntries), mem[BootPage(g)][e] # Absent
        PROVE  /\ mem[BootPage(g)][e] \in Heap /\ mem[BootPage(g)][e] < Bound
               /\ \A k \in Entries : mem[mem[BootPage(g)][e]][k] \in Own(g) \cup {Absent}
    <3> DEFINE j == e - iPdeBase(g)
    <3>1. e \in iPdeBase(g) .. iPdeBase(g + 1) - 1 /\ mem[BootPage(g)][e] = BootPage(g) + 1 + j
      BY <2>2, <2>4 DEF BootDirectory
    <3>2. j \in 0 .. GuestEntries - 1
      <4>1. iPdeBase(g) \in Int /\ iPdeBase(g + 1) = iPdeBase(g) + GuestEntries
        BY <1>0 DEF iPdeBase
      <4> QED
        BY <1>0, <3>1, <4>1
    <3>3. mem[BootPage(g) + 1 + j] = IdentityTable(iPdeBase(g) + j)
      BY <3>2, BootMemory
    <3> HIDE DEF j
    <3>4. \A k \in Entries : (iPdeBase(g) + j) * NUM_ENTRIES_PER_PAGE + k \in Own(g)
      BY <3>2, Frames
    <3>5. BootPage(g) + 1 + j \in Heap /\ BootPage(g) + 1 + j < Bound
      BY <1>0, <1>1, <2>1, <3>2 DEF Heap
    <3> QED
      BY <3>1, <3>3, <3>4, <3>5 DEF IdentityTable
  <2> QED
    BY <1>2, <2>1, <2>3, <2>4 DEF Finished
<1>6. \A g \in Guests, t \in Tasks : pde[g][t] # 0 => Finished(pde[g][t], g)
  BY <1>3, <1>5
<1> QED
  BY <1>0, <1>2, <1>3, <1>4, <1>5, <1>6 DEF IInv, InTheMaking, Walked

-----------------------------------------------------------------------------
\* A finished directory stays finished when nothing below the bound is written.
LEMMA StaysFinished ==
  ASSUME NEW d, NEW g, Finished(d, g), Bound \in Nat, Bound' \in Nat, Bound <= Bound',
         \A f \in Heap : f < Bound => mem'[f] = mem[f]
  PROVE  Finished(d, g)'
<1>1. HeapFirst \in Nat /\ HeapLast \in Nat /\ \A f \in Heap : f \in Nat
  BY SparkEntriesInHeap DEF Heap
<1>2. d \in Heap /\ d < Bound' /\ mem'[d] = mem[d]
  BY <1>1 DEF Finished
<1>3. ASSUME NEW e \in Entries, ~(e < SparkEntries), mem'[d][e] # Absent
      PROVE  /\ mem'[d][e] \in Heap /\ mem'[d][e] < Bound'
             /\ \A k \in Entries : mem'[mem'[d][e]][k] \in Own(g) \cup {Absent}
  <2>1. /\ mem[d][e] \in Heap /\ mem[d][e] < Bound
        /\ \A k \in Entries : mem[mem[d][e]][k] \in Own(g) \cup {Absent}
    BY <1>2, <1>3 DEF Finished
  <2>2. mem'[d][e] = mem[d][e] /\ mem'[mem[d][e]] = mem[mem[d][e]]
    BY <1>2, <2>1
  <2> QED
    BY <1>1, <2>1, <2>2
<1>4. \A e \in Entries : e < SparkEntries => mem'[d][e] = spark_pde(e)
  BY <1>2 DEF Finished
<1> QED
  BY <1>2, <1>3, <1>4 DEF Finished

\* Numbers the steps need.
LEMMA Counted ==
  ASSUME TypeOK
  PROVE  /\ freePages_CurrAddr \in Nat /\ HeapFirst \in Nat \ {0} /\ HeapLast \in Nat
         /\ GuestEntries \in Nat /\ 0 \notin Heap /\ \A f \in Heap : f \in Nat
         /\ iCurrGuestOsIndex \in Guests
         /\ copy.on => copy \in Registration /\ copy.on = TRUE
         /\ ~copy.on => copy = [on |-> FALSE]
<1>1. HeapFirst \in Nat \ {0} /\ HeapLast \in Nat /\ GuestEntries \in Nat
  BY MemAssumption
<1>2. copy \in Registration \/ copy = [on |-> FALSE]
  BY DEF TypeOK
<1>3. copy \in Registration => copy.on = TRUE
  BY DEF Registration
<1> QED
  BY <1>1, <1>2, <1>3 DEF TypeOK, Heap

\* The bound is a number in a state of the invariant.
LEMMA BoundCounted ==
  ASSUME TypeOK, InTheMaking
  PROVE  Bound \in Nat /\ Bound <= freePages_CurrAddr
BY Counted DEF Bound, InTheMaking

\* A registration begins only while its pages are there.
LEMMA PageThere ==
  ASSUME MayEmpty = FALSE, TypeOK, NEW t, NEW dir, BeginCopy(t, dir)
  PROVE  freePages_CurrAddr \in Heap
<1> DEFINE tables == {e \in Entries : dir[e] # Absent}
<1>1. Cardinality(tables) \in Nat
  <2>1. IsFiniteSet(Entries)
    BY MemAssumption, FS_Interval DEF Entries
  <2> QED
    BY <2>1, FS_Subset, FS_CardinalityType
<1>2. freePages_CurrAddr + Cardinality(tables) <= HeapLast
  BY DEF BeginCopy
<1>3. freePages_CurrAddr \in HeapFirst .. HeapLast + 1
  BY DEF TypeOK
<1> HIDE DEF tables
<1> QED
  BY <1>1, <1>2, <1>3, Counted DEF Heap

LEMMA BeginStep ==
  ASSUME MayEmpty = FALSE, IInv, NEW t \in Tasks, NEW dir \in Directories,
         ~copy.on, BeginCopy(t, dir), UNCHANGED pde
  PROVE  IInv'
<1> DEFINE page == freePages_CurrAddr
<1>1. /\ TypeOK /\ InTheMaking
      /\ page \in Heap /\ kGetPage = page /\ freePages_CurrAddr' = page + 1
      /\ page \in Pages /\ page \in Nat
  <2>1. TypeOK /\ InTheMaking
    BY DEF IInv
  <2>2. page \in Heap
    BY <2>1, PageThere
  <2> QED
    BY <2>1, <2>2, Counted DEF kGetPage, PageTaken, BeginCopy, Pages
<1>2. /\ copy' = [on |-> TRUE, iProcessId |-> t, guest_pde |-> dir, spark_pde |-> page, iCount |-> 0]
      /\ mem' = [mem EXCEPT ![page] = Zeroed]
      /\ UNCHANGED <<pde, iCurrTaskId, iCurrGuestOsIndex, cr3, careless>>
  BY <1>1 DEF BeginCopy
<1> HIDE DEF page
<1>3. TypeOK'
  <2>1. mem' \in [Pages -> Table]
    BY <1>1, <1>2, TablesAreTyped DEF TypeOK
  <2>2. copy' \in Registration
    BY <1>1, <1>2, MemAssumption DEF Registration
  <2>3. freePages_CurrAddr' \in HeapFirst .. HeapLast + 1
    BY <1>1, SparkEntriesInHeap DEF Heap
  <2> QED
    BY <1>1, <1>2, <2>1, <2>2, <2>3 DEF TypeOK
<1>4. Bound = page /\ Bound' = page
  BY <1>2 DEF Bound, page
<1>5. mem'[page] = Zeroed /\ \A f \in Heap : f < Bound => mem'[f] = mem[f]
  BY <1>1, <1>2, <1>4, Counted DEF TypeOK
<1>6. \A d, g : Finished(d, g) => Finished(d, g)'
  BY <1>1, <1>4, <1>5, StaysFinished
<1>7. InTheMaking'
  <2>1. copy'.spark_pde = page
    BY <1>2
  <2>2. page < page + 1
    BY <1>1
  <2>3. \A e \in Entries : mem'[page][e] = Absent
    BY <1>5 DEF Zeroed
  <2> QED
    BY <1>1, <2>1, <2>2, <2>3 DEF InTheMaking
<1>8. /\ \A g \in Guests, u \in Tasks : pde[g][u] # 0 => Finished(pde[g][u], g)'
      /\ Walked(cr3, iCurrGuestOsIndex)'
  <2>1. \A g \in Guests, u \in Tasks : pde[g][u] # 0 => Finished(pde[g][u], g)
    BY DEF IInv
  <2>2. Walked(cr3, iCurrGuestOsIndex)
    BY DEF IInv
  <2> QED
    BY <1>2, <1>6, <2>1, <2>2, SMTT(30) DEF Finished, Walked
<1> QED
  BY <1>2, <1>3, <1>7, <1>8 DEF IInv

\* The page of a table of the guest's directory: what is in it, and what else
\* was written.
LEMMA CopiedTable ==
  ASSUME TypeOK, InTheMaking, copy.on, freePages_CurrAddr \in Heap,
         NEW table \in Table, mem' = Copied(table)
  PROVE  /\ mem' \in [Pages -> Table]
         /\ \A f \in Pages : f # freePages_CurrAddr /\ f # copy.spark_pde => mem'[f] = mem[f]
         /\ \A e \in Entries : /\ mem'[copy.spark_pde][e] =
                                    IF e = iPdeBase(iCurrGuestOsIndex) + copy.iCount
                                    THEN freePages_CurrAddr ELSE mem[copy.spark_pde][e]
                               /\ mem'[freePages_CurrAddr][e] =
                                    IF table[e] # Absent /\ \A k \in 0 .. e : Valid(table, k)
                                    THEN table[e] + phyOffset(iCurrGuestOsIndex) ELSE Absent
<1> DEFINE page == freePages_CurrAddr
           pd   == copy.spark_pde
           g    == iCurrGuestOsIndex
           new(e) == IF table[e] # Absent /\ \A k \in 0 .. e : Valid(table, k)
                     THEN table[e] + phyOffset(g) ELSE Absent
           slot == iPdeBase(g) + copy.iCount
           cleared == [mem EXCEPT ![page] = Zeroed]
           entered == [cleared EXCEPT ![pd][slot] = page]
<1>1. /\ kGetPage = page /\ page \in Pages /\ pd \in Pages /\ pd # page /\ page \in Nat
      /\ mem \in [Pages -> Table]
  BY Counted DEF kGetPage, InTheMaking, Pages, TypeOK
<1>2. Zeroed \in Table /\ \A e \in Entries : Zeroed[e] = Absent
  BY TablesAreTyped DEF Zeroed
<1>3. mem' = [entered EXCEPT ![page] =
         [e \in Entries |-> IF table[e] # Absent /\ \A k \in 0 .. e : Valid(table, k)
                            THEN table[e] + phyOffset(g)
                            ELSE entered[page][e]]]
  BY <1>1 DEF Copied
<1> HIDE DEF slot, page, pd, g
<1>4. /\ cleared \in [Pages -> Table]
      /\ \A f \in Pages : f # page => cleared[f] = mem[f]
      /\ cleared[page] = Zeroed
  BY <1>1, <1>2
<1> HIDE DEF cleared
<1>5. /\ entered = [cleared EXCEPT ![pd] = [@ EXCEPT ![slot] = page]]
      /\ [cleared[pd] EXCEPT ![slot] = page] \in Table
  <2>1. cleared[pd] \in [Entries -> Nat \cup {Absent}]
    BY <1>1, <1>4 DEF Table
  <2> QED
    BY <1>1, <2>1 DEF Table
<1>6. /\ entered \in [Pages -> Table]
      /\ \A f \in Pages : f # pd => entered[f] = cleared[f]
      /\ entered[pd] = [mem[pd] EXCEPT ![slot] = page]
  BY <1>1, <1>4, <1>5
<1> HIDE DEF entered
<1>7. /\ \A e \in Entries : new(e) \in Nat \cup {Absent}
      /\ \A e \in Entries : entered[page][e] = Absent
  <2>1. phyOffset(g) \in Nat
    BY Frames, Counted DEF g
  <2>2. \A e \in Entries : table[e] \in Nat \cup {Absent}
    BY DEF Table
  <2> QED
    BY <1>1, <1>2, <1>4, <1>6, <2>1, <2>2
<1>8. mem' = [entered EXCEPT ![page] = [e \in Entries |-> new(e)]]
  BY <1>3, <1>7
<1>9. [e \in Entries |-> new(e)] \in Table
  BY <1>7 DEF Table
<1>10. /\ mem' \in [Pages -> Table]
       /\ \A f \in Pages : f # page /\ f # pd => mem'[f] = mem[f]
       /\ mem'[pd] = [mem[pd] EXCEPT ![slot] = page]
       /\ mem'[page] = [e \in Entries |-> new(e)]
  <2> DEFINE full == [e \in Entries |-> new(e)]
  <2>1. full \in Table /\ mem' = [entered EXCEPT ![page] = full]
    BY <1>8, <1>9
  <2> HIDE DEF full
  <2>2. /\ mem' \in [Pages -> Table]
        /\ \A f \in Pages : f # page => mem'[f] = entered[f]
        /\ mem'[page] = full
    BY <1>1, <1>6, <2>1
  <2> QED
    BY <1>1, <1>4, <1>6, <2>2 DEF full
<1>11. mem[pd] \in [Entries -> Nat \cup {Absent}]
  BY <1>1 DEF Table
<1>12. \A e \in Entries : mem'[pd][e] = IF e = slot THEN page ELSE mem[pd][e]
  BY <1>10, <1>11
<1> QED
  BY <1>10, <1>12 DEF page, pd, slot, g

\* What is kept while nothing below the bound is written and no task changes.
LEMMA Kept ==
  ASSUME IInv, UNCHANGED <<pde, iCurrTaskId, iCurrGuestOsIndex, cr3, careless>>,
         \A d, h : Finished(d, h) => Finished(d, h)', TypeOK', InTheMaking'
  PROVE  IInv'
<1>1. \A h \in Guests, u \in Tasks : pde'[h][u] # 0 => Finished(pde[h][u], h)'
  <2> PICK now : now = pde
    OBVIOUS
  <2>1. \A h \in Guests, u \in Tasks : now[h][u] # 0 => Finished(now[h][u], h)
    BY DEF IInv
  <2>2. \A h \in Guests, u \in Tasks : now[h][u] # 0 => Finished(now[h][u], h)'
    BY <2>1
  <2> QED
    BY <2>2 DEF Finished
<1>2. Walked(cr3, iCurrGuestOsIndex)'
  <2> PICK d, g : d = cr3 /\ g = iCurrGuestOsIndex
    OBVIOUS
  <2>1. Finished(d, g) \/ (d = 0 /\ g \in careless)
    BY DEF IInv, Walked
  <2>2. Finished(d, g)' \/ (d = 0 /\ g \in careless)
    BY <2>1
  <2> QED
    BY <2>2 DEF Finished, Walked
<1>3. \A h \in Guests : pde'[h][iCurrTaskId'[h]] = 0 => h \in careless'
  BY DEF IInv
<1> QED
  BY <1>1, <1>2, <1>3 DEF IInv, Finished

LEMMA CopyStep ==
  ASSUME MayEmpty = FALSE, IInv, verifyAndCopyEntry
  PROVE  IInv'
<1> DEFINE page == freePages_CurrAddr
           pd   == copy.spark_pde
           g    == iCurrGuestOsIndex
<1>1. /\ TypeOK /\ InTheMaking /\ copy.on /\ copy \in Registration /\ copy.iCount < NUM_ENTRIES_PER_PAGE
      /\ UNCHANGED <<pde, iCurrTaskId, iCurrGuestOsIndex, cr3, careless>>
      /\ Bound = pd /\ Bound \in Nat /\ Bound <= page /\ pd \in Heap /\ pd < page /\ page \in Nat
      /\ g \in Guests
  BY BoundCounted, Counted DEF IInv, verifyAndCopyEntry, Bound, InTheMaking
<1>2. [copy EXCEPT !.iCount = @ + 1] \in Registration
  <2>1. copy.iCount + 1 \in 0 .. NUM_ENTRIES_PER_PAGE
    BY <1>1, MemAssumption DEF Registration
  <2> QED
    BY <1>1, <2>1 DEF Registration
<1>3. CASE /\ copy' = [copy EXCEPT !.iCount = @ + 1]
           /\ UNCHANGED <<mem, freePages_CurrAddr>>
  <2>1. copy'.on = copy.on /\ copy'.spark_pde = copy.spark_pde
    BY <1>1, <1>3 DEF Registration
  <2>2. TypeOK'
    BY <1>1, <1>2, <1>3 DEF TypeOK
  <2>3. InTheMaking'
    BY <1>1, <1>3, <2>1 DEF InTheMaking
  <2>4. Bound' = Bound
    BY <1>3, <2>1 DEF Bound
  <2>5. \A d, h : Finished(d, h) => Finished(d, h)'
    BY <1>1, <1>3, <2>4, StaysFinished
  <2> QED
    BY <1>1, <2>2, <2>3, <2>5, Kept
<1>4. CASE /\ ~Skip
           /\ page \in Heap
           /\ mem' = Copied(copy.guest_pde[copy.iCount])
           /\ PageTaken
           /\ copy' = IF \A e \in Entries : Valid(copy.guest_pde[copy.iCount], e)
                      THEN [copy EXCEPT !.iCount = @ + 1]
                      ELSE [on |-> FALSE]
  <2> DEFINE table == copy.guest_pde[copy.iCount]
  <2>1. table \in Table
    BY <1>1, <1>4, MemAssumption, SMTT(30) DEF Registration, Entries, Skip
  <2>2. freePages_CurrAddr' = page + 1
    BY <1>4 DEF PageTaken
  <2> HIDE DEF table
  <2>3. mem' = Copied(table)
    BY <1>4 DEF table
  <2>4. /\ mem' \in [Pages -> Table]
        /\ \A f \in Pages : f # page /\ f # pd => mem'[f] = mem[f]
        /\ \A e \in Entries : /\ mem'[pd][e] = IF e = iPdeBase(g) + copy.iCount THEN page ELSE mem[pd][e]
                              /\ mem'[page][e] = IF table[e] # Absent /\ \A k \in 0 .. e : Valid(table, k)
                                                 THEN table[e] + phyOffset(g) ELSE Absent
    BY <1>1, <1>4, <2>1, <2>3, CopiedTable
  <2>5. copy' \in Registration \cup {[on |-> FALSE]} /\ (copy'.on => copy'.spark_pde = pd)
    BY <1>1, <1>2, <1>4 DEF Registration
  <2>6. TypeOK'
    <3>1. freePages_CurrAddr' \in HeapFirst .. HeapLast + 1
      BY <1>4, <2>2, SparkEntriesInHeap DEF Heap
    <3> QED
      BY <1>1, <2>4, <2>5, <3>1 DEF TypeOK
  <2>7. Bound' \in Nat /\ Bound <= Bound'
    BY <1>1, <2>2, <2>5 DEF Bound
  <2>8. \A f \in Heap : f < Bound => mem'[f] = mem[f]
    <3> SUFFICES ASSUME NEW f \in Heap, f < Bound PROVE mem'[f] = mem[f]
      OBVIOUS
    <3>1. f \in Pages /\ f # page /\ f # pd
      BY <1>1, Counted DEF Pages
    <3> QED
      BY <2>4, <3>1
  <2>9. \A d, h : Finished(d, h) => Finished(d, h)'
    BY <1>1, <2>7, <2>8, StaysFinished
  <2>10. ASSUME NEW k \in Entries
         PROVE  mem'[page][k] \in Own(g) \cup {Absent}
    <3>1. CASE table[k] # Absent /\ \A l \in 0 .. k : Valid(table, l)
      <4>1. ValidFrame(table[k]) /\ table[k] \in Nat
        BY <2>1, <3>1, MemAssumption DEF Valid, Table, Entries
      <4>2. table[k] + phyOffset(g) \in Own(g)
        BY <1>1, <4>1, Frames
      <4> QED
        BY <2>4, <3>1, <4>2
    <3>2. CASE ~(table[k] # Absent /\ \A l \in 0 .. k : Valid(table, l))
      <4>1. mem'[page][k] = Absent
        BY <2>4, <3>2
      <4> QED
        BY <4>1
    <3> QED
      BY <3>1, <3>2
  <2>11. ASSUME NEW e \in Entries, mem'[pd][e] # Absent
         PROVE  /\ mem'[pd][e] \in Heap /\ pd < mem'[pd][e] /\ mem'[pd][e] < page + 1
                /\ \A k \in Entries : mem'[mem'[pd][e]][k] \in Own(g) \cup {Absent}
    <3>1. CASE e = iPdeBase(g) + copy.iCount
      <4>1. mem'[pd][e] = page
        BY <2>4, <3>1
      <4> QED
        BY <1>1, <1>4, <2>10, <4>1
    <3>2. CASE e # iPdeBase(g) + copy.iCount
      <4>1. mem'[pd][e] = mem[pd][e] /\ mem[pd][e] # Absent
        BY <2>4, <2>11, <3>2
      <4>2. /\ mem[pd][e] \in Heap /\ pd < mem[pd][e] /\ mem[pd][e] < page
            /\ \A k \in Entries : mem[mem[pd][e]][k] \in Own(g) \cup {Absent}
        BY <1>1, <4>1 DEF InTheMaking
      <4>3. mem[pd][e] \in Pages /\ mem[pd][e] # pd /\ mem[pd][e] # page /\ mem[pd][e] \in Nat
        BY <1>1, <4>2, Counted DEF Pages
      <4>4. mem'[mem[pd][e]] = mem[mem[pd][e]]
        BY <2>4, <4>3
      <4> QED
        BY <1>1, <4>1, <4>2, <4>3, <4>4
    <3> QED
      BY <3>1, <3>2
  <2>12. InTheMaking'
    <3>1. pd < page + 1
      BY <1>1
    <3> QED
      BY <1>1, <2>2, <2>5, <2>11, <3>1 DEF InTheMaking
  <2> QED
    BY <1>1, <2>6, <2>9, <2>12, Kept
<1> QED
  BY <1>3, <1>4 DEF verifyAndCopyEntry

LEMMA EndStep ==
  ASSUME IInv, EndOfCopy
  PROVE  IInv'
<1> DEFINE page == freePages_CurrAddr
           pd   == copy.spark_pde
           g    == iCurrGuestOsIndex
           full == [e \in Entries |-> IF e < SparkEntries THEN spark_pde(e) ELSE mem[pd][e]]
           After(d, h) ==
             /\ d \in Heap /\ d < page
             /\ \A e \in Entries :
                  IF e < SparkEntries
                  THEN mem'[d][e] = spark_pde(e)
                  ELSE mem'[d][e] # Absent =>
                         /\ mem'[d][e] \in Heap /\ mem'[d][e] < page
                         /\ \A k \in Entries : mem'[mem'[d][e]][k] \in Own(h) \cup {Absent}
<1>1. /\ TypeOK /\ InTheMaking /\ copy.on /\ copy \in Registration
      /\ UNCHANGED <<freePages_CurrAddr, iCurrTaskId, iCurrGuestOsIndex, cr3, careless>>
      /\ Bound = pd /\ Bound \in Nat /\ Bound <= page /\ pd \in Heap /\ pd < page /\ page \in Nat
      /\ g \in Guests /\ pd \in Pages /\ copy.iProcessId \in Tasks /\ pd # 0
  BY BoundCounted, Counted DEF IInv, EndOfCopy, Bound, InTheMaking, Registration
<1>2. /\ mem' = [mem EXCEPT ![pd] = full]
      /\ pde' = [pde EXCEPT ![g][copy.iProcessId] = pd]
      /\ copy' = [on |-> FALSE] /\ ~copy'.on
  BY DEF EndOfCopy
<1>3. /\ \A h \in Guests, u \in Tasks : pde[h][u] # 0 => Finished(pde[h][u], h)
      /\ Walked(cr3, g)
      /\ \A h \in Guests : pde[h][iCurrTaskId[h]] = 0 => h \in careless
      /\ mem \in [Pages -> Table] /\ pde \in [Guests -> [Tasks -> Pages]]
      /\ iCurrTaskId \in [Guests -> Tasks]
  BY DEF IInv, TypeOK
<1>4. full \in Table /\ \A e \in Entries : full[e] = IF e < SparkEntries THEN spark_pde(e) ELSE mem[pd][e]
  <2>1. mem[pd] \in [Entries -> Nat \cup {Absent}]
    BY <1>1, <1>3 DEF Table
  <2> QED
    BY <2>1, SparkEntriesInHeap DEF Table
<1> HIDE DEF full
<1>5. /\ mem' \in [Pages -> Table] /\ mem'[pd] = full
      /\ \A f \in Pages : f # pd => mem'[f] = mem[f]
  BY <1>1, <1>2, <1>3, <1>4
<1>6. Bound' = page
  BY <1>1, <1>2 DEF Bound
<1>7. ASSUME NEW d, NEW h, Finished(d, h)
      PROVE  After(d, h)
  <2>1. \A f \in Heap : f < Bound => mem'[f] = mem[f]
    BY <1>1, <1>5, Counted DEF Pages
  <2>2. Finished(d, h)'
    BY <1>1, <1>6, <1>7, <2>1, StaysFinished
  <2> QED
    BY <1>6, <2>2 DEF Finished
<1>8. After(pd, g)
  <2>1. ASSUME NEW e \in Entries, ~(e < SparkEntries), mem'[pd][e] # Absent
        PROVE  /\ mem'[pd][e] \in Heap /\ mem'[pd][e] < page
               /\ \A k \in Entries : mem'[mem'[pd][e]][k] \in Own(g) \cup {Absent}
    <3>1. mem'[pd][e] = mem[pd][e]
      BY <1>4, <1>5, <2>1
    <3>2. /\ mem[pd][e] \in Heap /\ pd < mem[pd][e] /\ mem[pd][e] < page
          /\ \A k \in Entries : mem[mem[pd][e]][k] \in Own(g) \cup {Absent}
      BY <1>1, <2>1, <3>1 DEF InTheMaking
    <3>3. mem'[mem[pd][e]] = mem[mem[pd][e]]
      BY <1>1, <1>5, <3>2, Counted DEF Pages
    <3> QED
      BY <3>1, <3>2, <3>3
  <2>2. \A e \in Entries : e < SparkEntries => mem'[pd][e] = spark_pde(e)
    BY <1>4, <1>5
  <2> QED
    BY <1>1, <2>1, <2>2
<1>9. /\ pde' \in [Guests -> [Tasks -> Pages]]
      /\ \A h \in Guests, u \in Tasks :
           pde'[h][u] = IF h = g /\ u = copy.iProcessId THEN pd ELSE pde[h][u]
  BY <1>1, <1>2, <1>3
<1>10. /\ \A h \in Guests, u \in Tasks : pde'[h][u] # 0 => After(pde'[h][u], h)
       /\ \A h \in Guests : pde'[h][iCurrTaskId[h]] = 0 => h \in careless
  <2>1. ASSUME NEW h \in Guests, NEW u \in Tasks, pde'[h][u] # 0
        PROVE  After(pde'[h][u], h)
    <3>1. CASE h = g /\ u = copy.iProcessId
      <4> HIDE DEF After
      <4> QED
        BY <1>8, <1>9, <3>1
    <3>2. CASE ~(h = g /\ u = copy.iProcessId)
      <4>1. pde'[h][u] = pde[h][u]
        BY <1>9, <3>2
      <4>2. After(pde[h][u], h)
        BY <1>3, <1>7, <2>1, <4>1
      <4> HIDE DEF After
      <4> QED
        BY <4>1, <4>2
    <3> QED
      BY <3>1, <3>2
  <2>2. \A h \in Guests : pde'[h][iCurrTaskId[h]] = 0 => h \in careless
    BY <1>1, <1>3, <1>9
  <2> QED
    BY <2>1, <2>2
<1>11. TypeOK'
  BY <1>1, <1>2, <1>5, <1>9 DEF TypeOK
<1>12. After(cr3, g) \/ (cr3 = 0 /\ g \in careless)
  <2> HIDE DEF After
  <2> QED
    BY <1>3, <1>7 DEF Walked
<1>13. /\ \A h \in Guests, u \in Tasks : pde'[h][u] # 0 => Finished(pde[h][u], h)'
       /\ Walked(cr3, iCurrGuestOsIndex)'
  BY <1>1, <1>6, <1>10, <1>12, SMTT(30) DEF Finished, Walked
<1>14. InTheMaking'
  BY <1>2 DEF InTheMaking
<1> QED
  BY <1>1, <1>10, <1>11, <1>13, <1>14 DEF IInv

\* Loading a directory and switching the partition write no page.
LEMMA LoadStep ==
  ASSUME IInv, NEW g \in Guests, NEW t \in Tasks, ~copy.on,
         iCurrTaskId' \in [Guests -> Tasks], iCurrTaskId'[g] = t,
         \A h \in Guests : h # g => iCurrTaskId'[h] = iCurrTaskId[h],
         careless' \in SUBSET Guests, pde[g][t] = 0 => g \in careless',
         \A h \in Guests : h # g /\ h \in careless => h \in careless',
         iCurrGuestOsIndex' = g, cr3' = pde[g][t],
         UNCHANGED <<mem, freePages_CurrAddr, pde, copy>>
  PROVE  IInv'
<1>1. /\ TypeOK
      /\ \A h \in Guests, u \in Tasks : pde[h][u] # 0 => Finished(pde[h][u], h)
      /\ \A h \in Guests : pde[h][iCurrTaskId[h]] = 0 => h \in careless
  BY DEF IInv
<1>2. Bound' = Bound
  BY DEF Bound
<1>3. \A d, h : Finished(d, h) => Finished(d, h)'
  BY <1>2 DEF Finished
<1>4. TypeOK'
  BY <1>1 DEF TypeOK
<1>5. InTheMaking'
  BY DEF IInv, InTheMaking
<1>6. Walked(cr3, iCurrGuestOsIndex)'
  <2>1. pde[g][t] # 0 => Finished(pde[g][t], g)'
    BY <1>1, <1>3
  <2> QED
    BY <2>1 DEF Finished, Walked
<1>7. \A h \in Guests, u \in Tasks : pde'[h][u] # 0 => Finished(pde[h][u], h)'
  BY <1>1, <1>3
<1>8. \A h \in Guests : pde'[h][iCurrTaskId'[h]] = 0 => h \in careless'
  <2> SUFFICES ASSUME NEW h \in Guests, pde[h][iCurrTaskId'[h]] = 0
               PROVE  h \in careless'
    OBVIOUS
  <2>1. CASE h = g
    BY <2>1
  <2>2. CASE h # g
    BY <1>1, <2>2
  <2> QED
    BY <2>1, <2>2
<1> QED
  BY <1>4, <1>5, <1>6, <1>7, <1>8 DEF IInv, Finished

LEMMA Preserved ==
  ASSUME MayEmpty = FALSE, IInv, [Next]_vars
  PROVE  IInv'
<1>1. ASSUME NEW t \in Calls, NEW dir \in Directories, spark_registerPages(t, dir)
      PROVE  IInv'
  <2>1. CASE t >= MAX_TASK_PER_GUEST /\ UNCHANGED vars
    BY <2>1 DEF IInv, TypeOK, Finished, Walked, InTheMaking, Bound, vars
  <2>2. CASE t < MAX_TASK_PER_GUEST /\ BeginCopy(t, dir) /\ UNCHANGED pde
    <3>1. t \in Tasks /\ ~copy.on
      BY <1>1, <2>2, MemAssumption DEF spark_registerPages, Calls
    <3> QED
      BY <2>2, <3>1, BeginStep
  <2> QED
    BY <1>1, <2>1, <2>2 DEF spark_registerPages
<1>2. ASSUME verifyAndCopyEntry PROVE IInv'
  BY <1>2, CopyStep
<1>3. ASSUME EndOfCopy PROVE IInv'
  BY <1>3, EndStep
<1>4. ASSUME NEW t \in Calls, spark_loadPDE(t)
      PROVE  IInv'
  <2>1. /\ iCurrGuestOsIndex \in Guests /\ iCurrTaskId \in [Guests -> Tasks]
        /\ careless \in SUBSET Guests
    BY DEF IInv, TypeOK
  <2>2. CASE UNCHANGED vars
    BY <2>2 DEF IInv, TypeOK, Finished, Walked, InTheMaking, Bound, vars
  <2>3. CASE ~UNCHANGED vars
    <3>1. t \in Tasks
      BY <1>4, <2>3, MemAssumption DEF spark_loadPDE, Calls
    <3> QED
      BY <1>4, <2>1, <2>3, <3>1, LoadStep DEF spark_loadPDE
  <2> QED
    BY <2>2, <2>3
<1>5. ASSUME NEW g \in Guests, fLoadNewMemContext(g)
      PROVE  IInv'
  <2>1. /\ iCurrTaskId \in [Guests -> Tasks] /\ iCurrTaskId[g] \in Tasks
        /\ careless \in SUBSET Guests
        /\ pde[g][iCurrTaskId[g]] = 0 => g \in careless
    BY DEF IInv, TypeOK
  <2> QED
    BY <1>5, <2>1, LoadStep DEF fLoadNewMemContext
<1>6. ASSUME UNCHANGED vars PROVE IInv'
  BY <1>6 DEF IInv, TypeOK, Finished, Walked, InTheMaking, Bound, vars
<1> QED
  BY <1>1, <1>2, <1>3, <1>4, <1>5, <1>6 DEF Next

LEMMA FinishedIsIsolated ==
  ASSUME NEW d, NEW g, Finished(d, g)
  PROVE  Isolated(d, g)
BY DEF Finished, Isolated, Pages

\* The invariant holds as long as the guests do not empty the heap.
LEMMA Invariance ==
  ASSUME MayEmpty = FALSE
  PROVE  Spec => []IInv
<1>1. IInv /\ [Next]_vars => IInv'
  BY Preserved
<1> QED
  BY Initially, <1>1, PTL DEF Spec

\* The page tables, the pages taken and a registration in progress keep their
\* types: no page is taken from outside the heap (malloc.c:53).
THEOREM TypeCorrect ==
  ASSUME MayEmpty = FALSE
  PROVE  Spec => []TypeOK
<1>1. IInv => TypeOK
  BY DEF IInv
<1> QED
  BY Invariance, <1>1, PTL

\* The directory the processor walks maps no frame of another partition, for
\* every number of guests, every size of their memory and every history of
\* registrations and loads, refused ones included (page.c:124); the page at
\* address 0 is walked only while a guest runs that loaded a task it never
\* registered (load_pde, page.c:172), and no guest brings another one there.
THEOREM GuestsIsolated ==
  ASSUME MayEmpty = FALSE
  PROVE  Spec => []SpatialIsolation
<1>1. IInv => SpatialIsolation
  BY FinishedIsIsolated DEF IInv, Walked, SpatialIsolation
<1> QED
  BY Invariance, <1>1, PTL

-----------------------------------------------------------------------------
\* Refinement: as long as the heap has pages, the page tables implement the
\* address spaces of PartitionSpaces.

\* A registration in progress: the entries that were copied hold what the
\* guest's own tables say, the others are empty.
CopiedSoFar ==
  copy.on =>
    \A c \in GuestSlots(iCurrGuestOsIndex) :
      LET table == copy.guest_pde[c]
          entry == mem[copy.spark_pde][iPdeBase(iCurrGuestOsIndex) + c]
      IN  IF c < copy.iCount /\ table # Absent
          THEN /\ entry # Absent
               /\ \A e \in Entries :
                    /\ Valid(table, e)
                    /\ mem[entry][e] = Moved(table, iCurrGuestOsIndex)[e]
          ELSE entry = Absent

SInv == IInv /\ CopiedSoFar

\* The entries of a guest in a directory.
LEMMA GuestEntry ==
  ASSUME NEW g \in Guests
  PROVE  /\ iPdeBase(g) \in Nat
         /\ 0 .. GuestEntries - 1 \subseteq GuestSlots(g)
         /\ \A c \in GuestSlots(g) : /\ c \in Nat /\ c \in Entries
                                    /\ iPdeBase(g) + c \in Entries
                                    /\ ~(iPdeBase(g) + c < SparkEntries)
<1>1. /\ g \in Nat /\ g < NUM_OF_GUESTOS /\ NUM_OF_GUESTOS \in Nat /\ GuestEntries \in Nat
      /\ SparkEntries \in Nat /\ NUM_ENTRIES_PER_PAGE \in Nat
      /\ SparkEntries + NUM_OF_GUESTOS * GuestEntries <= NUM_ENTRIES_PER_PAGE
  BY MemAssumption DEF Guests, iPdeBase
<1>2. g * GuestEntries + GuestEntries <= NUM_OF_GUESTOS * GuestEntries
  BY <1>1, Multiples
<1> DEFINE before == g * GuestEntries
           all == NUM_OF_GUESTOS * GuestEntries
<1>3. before \in Nat /\ all \in Nat /\ before + GuestEntries <= all /\ iPdeBase(g) = SparkEntries + before
  BY <1>1, <1>2 DEF iPdeBase
<1>4. SparkEntries + all <= NUM_ENTRIES_PER_PAGE
  BY <1>1
<1> HIDE DEF before, all
<1> QED
  BY <1>1, <1>3, <1>4 DEF Entries, GuestSlots

LEMMA BeginCopied ==
  ASSUME MayEmpty = FALSE, IInv, NEW t \in Tasks, NEW dir \in Directories, BeginCopy(t, dir)
  PROVE  CopiedSoFar'
<1> DEFINE page == kGetPage
<1>1. /\ copy' = [on |-> TRUE, iProcessId |-> t, guest_pde |-> dir, spark_pde |-> page, iCount |-> 0]
      /\ mem' = [mem EXCEPT ![page] = Zeroed]
      /\ iCurrGuestOsIndex' = iCurrGuestOsIndex
  BY DEF BeginCopy
<1>2. page \in Pages /\ mem \in [Pages -> Table] /\ iCurrGuestOsIndex \in Guests
  BY DEF kGetPage, Pages, IInv, TypeOK
<1>3. mem'[page] = Zeroed /\ copy'.iCount = 0 /\ copy'.spark_pde = page
  BY <1>1, <1>2
<1> HIDE DEF page
<1>4. ASSUME NEW c \in GuestSlots(iCurrGuestOsIndex)
      PROVE  mem'[page][iPdeBase(iCurrGuestOsIndex) + c] = Absent /\ ~(c < 0)
  <2>1. iPdeBase(iCurrGuestOsIndex) + c \in Entries /\ c \in Nat
    BY <1>2, GuestEntry
  <2> QED
    BY <1>3, <2>1 DEF Zeroed
<1> QED
  BY <1>1, <1>3, <1>4 DEF CopiedSoFar

LEMMA CopyCopied ==
  ASSUME MayEmpty = FALSE, SInv, verifyAndCopyEntry
  PROVE  CopiedSoFar'
<1> DEFINE page == freePages_CurrAddr
           pd   == copy.spark_pde
           g    == iCurrGuestOsIndex
           n    == copy.iCount
           slot(c) == iPdeBase(g) + c
<1>1. /\ TypeOK /\ InTheMaking /\ CopiedSoFar /\ copy.on /\ copy \in Registration
      /\ iCurrGuestOsIndex' = g /\ g \in Guests
      /\ pd \in Heap /\ pd < page /\ page \in Nat /\ n \in Nat
      /\ n < NUM_ENTRIES_PER_PAGE
  <2>1. /\ TypeOK /\ InTheMaking /\ CopiedSoFar /\ copy.on /\ n < NUM_ENTRIES_PER_PAGE
        /\ iCurrGuestOsIndex' = g
    BY DEF SInv, IInv, verifyAndCopyEntry
  <2>2. copy \in Registration /\ g \in Guests /\ page \in Nat /\ pd \in Heap /\ pd < page
    BY <2>1, Counted DEF InTheMaking
  <2>3. n \in Nat
    BY <2>2, MemAssumption DEF Registration
  <2> QED
    BY <2>1, <2>2, <2>3
<1>2. \A c \in GuestSlots(g) : c \in Nat /\ c \in Entries /\ slot(c) \in Entries /\ iPdeBase(g) \in Nat
  BY <1>1, GuestEntry
<1>3. CASE Skip /\ copy' = [copy EXCEPT !.iCount = @ + 1] /\ UNCHANGED mem
  <2>1. /\ copy'.on = copy.on /\ copy'.spark_pde = pd /\ copy'.iCount = n + 1
        /\ copy'.guest_pde = copy.guest_pde
    BY <1>1, <1>3 DEF Registration
  <2>2. ASSUME NEW c \in GuestSlots(g)
        PROVE  c < n + 1 /\ copy.guest_pde[c] # Absent <=> c < n /\ copy.guest_pde[c] # Absent
    BY <1>1, <1>2, <1>3 DEF Skip
  <2> QED
    BY <1>1, <1>3, <2>1, <2>2 DEF CopiedSoFar
<1>4. CASE /\ ~Skip
           /\ page \in Heap
           /\ mem' = Copied(copy.guest_pde[n])
           /\ copy' = IF \A e \in Entries : Valid(copy.guest_pde[n], e)
                      THEN [copy EXCEPT !.iCount = @ + 1]
                      ELSE [on |-> FALSE]
  <2> DEFINE table == copy.guest_pde[n]
  <2>1. n \in GuestSlots(g) /\ table \in Table /\ table # Absent
    <3>1. copy.guest_pde \in Directories /\ n \in Entries
      BY <1>1, MemAssumption DEF Registration, Entries
    <3>2. table \in Table \cup {Absent}
      BY <3>1, MemAssumption
    <3>3. table # Absent
      BY <1>4 DEF Skip
    <3>4. n \in GuestSlots(g)
      BY <1>1, <3>1, <3>3, MemAssumption
    <3> HIDE DEF table
    <3> QED
      BY <3>2, <3>3, <3>4
  <2>2. mem' = Copied(table)
    BY <1>4
  <2>3. CASE ~ \A e \in Entries : Valid(table, e)
    <3>1. copy' = [on |-> FALSE]
      BY <1>4, <2>3
    <3> QED
      BY <3>1 DEF CopiedSoFar
  <2>4. CASE \A e \in Entries : Valid(table, e)
    <3>1. copy' = [copy EXCEPT !.iCount = @ + 1]
      BY <1>4, <2>4
    <3>2. /\ copy'.on = copy.on /\ copy'.spark_pde = pd /\ copy'.iCount = n + 1
          /\ copy'.guest_pde = copy.guest_pde
      BY <1>1, <3>1 DEF Registration
    <3> HIDE DEF table
    <3>3. /\ \A f \in Pages : f # page /\ f # pd => mem'[f] = mem[f]
          /\ \A e \in Entries : /\ mem'[pd][e] = IF e = slot(n) THEN page ELSE mem[pd][e]
                                /\ mem'[page][e] = IF table[e] # Absent /\ \A k \in 0 .. e : Valid(table, k)
                                                   THEN table[e] + phyOffset(g) ELSE Absent
      BY <1>1, <1>4, <2>1, <2>2, CopiedTable
    <3>4. \A e \in Entries : mem'[page][e] = Moved(table, g)[e]
      <4>1. \A e \in Entries : \A k \in 0 .. e : k \in Entries
        BY MemAssumption DEF Entries
      <4> QED
        BY <2>4, <3>3, <4>1 DEF Moved
    <3>5. page # Absent
      BY <1>1, MemAssumption
    <3>6. ASSUME NEW c \in GuestSlots(g), c # n
          PROVE  /\ mem'[pd][slot(c)] = mem[pd][slot(c)]
                 /\ mem[pd][slot(c)] # Absent => mem'[mem[pd][slot(c)]] = mem[mem[pd][slot(c)]]
      <4>1. slot(c) \in Entries /\ slot(c) # slot(n)
        BY <1>1, <1>2, <3>6
      <4>2. mem'[pd][slot(c)] = mem[pd][slot(c)]
        BY <3>3, <4>1
      <4> DEFINE entry == mem[pd][slot(c)]
      <4>3. ASSUME entry # Absent
            PROVE  mem'[entry] = mem[entry]
        <5>1. entry \in Heap /\ pd < entry /\ entry < page
          BY <1>1, <4>1, <4>3 DEF InTheMaking
        <5>2. entry \in Pages /\ entry \in Nat /\ pd \in Nat
          BY <1>1, <5>1, Counted DEF Pages
        <5> HIDE DEF entry
        <5>3. entry # page /\ entry # pd
          BY <1>1, <5>1, <5>2
        <5> QED
          BY <3>3, <5>2, <5>3
      <4> QED
        BY <4>2, <4>3
    <3>7. ASSUME NEW c \in GuestSlots(g)
          PROVE  LET entry == mem'[pd][slot(c)]
                 IN  IF c < n + 1 /\ copy.guest_pde[c] # Absent
                     THEN /\ entry # Absent
                          /\ \A e \in Entries :
                               /\ Valid(copy.guest_pde[c], e)
                               /\ mem'[entry][e] = Moved(copy.guest_pde[c], g)[e]
                     ELSE entry = Absent
      <4>1. CASE c = n
        <5>1. mem'[pd][slot(c)] = page
          BY <1>2, <3>3, <4>1
        <5>2. c < n + 1 /\ copy.guest_pde[c] = table
          BY <1>1, <4>1 DEF table
        <5> QED
          BY <2>1, <2>4, <3>4, <3>5, <5>1, <5>2
      <4>2. CASE c # n
        <5>1. c < n + 1 <=> c < n
          BY <1>1, <1>2, <4>2
        <5> HIDE DEF slot
        <5> QED
          BY <1>1, <3>6, <4>2, <5>1 DEF CopiedSoFar, slot
      <4> QED
        BY <4>1, <4>2
    <3> QED
      BY <1>1, <3>2, <3>7 DEF CopiedSoFar
  <2> QED
    BY <2>3, <2>4
<1> QED
  BY <1>3, <1>4 DEF verifyAndCopyEntry

LEMMA SInvStep ==
  ASSUME MayEmpty = FALSE, SInv, [Next]_vars
  PROVE  SInv'
<1>1. IInv'
  BY Preserved DEF SInv
<1>2. ASSUME NEW t \in Calls, NEW dir \in Directories,
             spark_registerPages(t, dir), ~UNCHANGED vars
      PROVE  CopiedSoFar'
  <2>1. t \in Tasks /\ BeginCopy(t, dir)
    BY <1>2, MemAssumption DEF spark_registerPages, Calls
  <2> QED
    BY <2>1, BeginCopied DEF SInv
<1>3. ASSUME verifyAndCopyEntry
      PROVE  CopiedSoFar'
  BY <1>3, CopyCopied
<1>4. ASSUME EndOfCopy
      PROVE  CopiedSoFar'
  BY <1>4 DEF EndOfCopy, CopiedSoFar
<1>5. ASSUME ~UNCHANGED vars,
             (\E t \in Calls : spark_loadPDE(t)) \/ (\E g \in Guests : fLoadNewMemContext(g))
      PROVE  CopiedSoFar'
  BY <1>5 DEF spark_loadPDE, fLoadNewMemContext, CopiedSoFar
<1>6. ASSUME UNCHANGED vars
      PROVE  CopiedSoFar'
  BY <1>6 DEF SInv, CopiedSoFar, vars
<1> QED
  BY <1>1, <1>2, <1>3, <1>4, <1>5, <1>6 DEF SInv, Next

-----------------------------------------------------------------------------
\* What a walk finds

\* It does not change when nothing below the bound is written.
LEMMA SameWalk ==
  ASSUME NEW g \in Guests, NEW d, Finished(d, g),
         \A f \in Heap : f < Bound => mem'[f] = mem[f]
  PROVE  Walk(d, g)' = Walk(d, g) /\ d # 0
<1>1. d \in Heap /\ d < Bound /\ mem'[d] = mem[d] /\ d # 0
  <2>1. 0 \notin Heap
    BY SparkEntriesInHeap DEF Heap
  <2> QED
    BY <2>1 DEF Finished
<1>2. ASSUME NEW c \in GuestSlots(g)
      PROVE  mem[d][iPdeBase(g) + c] # Absent =>
               mem'[mem[d][iPdeBase(g) + c]] = mem[mem[d][iPdeBase(g) + c]]
  <2>1. iPdeBase(g) + c \in Entries /\ ~(iPdeBase(g) + c < SparkEntries)
    BY GuestEntry
  <2> QED
    BY <2>1 DEF Finished
<1> QED
  BY <1>1, <1>2 DEF Walk

\* The spaces of the tasks, as the refinement sees them.
View(g, t) == SpaceOf(pde[g][t], g)

LEMMA SameView ==
  ASSUME SInv, UNCHANGED <<pde, iCurrTaskId, iCurrGuestOsIndex, cr3>>,
         \A f \in Heap : f < Bound => mem'[f] = mem[f]
  PROVE  /\ \A g \in Guests, t \in Tasks : View(g, t)' = View(g, t)
         /\ SpaceOf(cr3, iCurrGuestOsIndex)' = SpaceOf(cr3, iCurrGuestOsIndex)
<1>1. /\ \A g \in Guests, t \in Tasks : pde[g][t] # 0 => Finished(pde[g][t], g)
      /\ Walked(cr3, iCurrGuestOsIndex)
      /\ iCurrGuestOsIndex \in Guests
  BY DEF SInv, IInv, TypeOK
<1>2. ASSUME NEW g \in Guests, NEW t \in Tasks
      PROVE  View(g, t)' = View(g, t)
  BY <1>1, SameWalk DEF View, SpaceOf
<1>3. SpaceOf(cr3, iCurrGuestOsIndex)' = SpaceOf(cr3, iCurrGuestOsIndex)
  BY <1>1, SameWalk DEF SpaceOf, Walked
<1> QED
  BY <1>2, <1>3

\* What is asked for, and nothing else, while a registration is made.
Asked == IF copy.on THEN <<copy.iProcessId, copy.guest_pde>> ELSE <<>>

LEMMA BeginRefines ==
  ASSUME MayEmpty = FALSE, SInv, ~copy.on, NEW t \in Tasks, NEW dir \in Directories,
         BeginCopy(t, dir), UNCHANGED pde
  PROVE  PartitionMemory!Ask(t, dir)
<1>1. TypeOK /\ freePages_CurrAddr \in Nat /\ \A f \in Heap : f \in Nat
  BY Counted DEF SInv, IInv
<1>2. kGetPage = freePages_CurrAddr
  BY <1>1, PageThere DEF kGetPage
<1>3. \A f \in Heap : f < Bound => mem'[f] = mem[f]
  BY <1>1, <1>2 DEF Bound, BeginCopy, TypeOK, Pages
<1>4. /\ \A g \in Guests, u \in Tasks : View(g, u)' = View(g, u)
      /\ SpaceOf(cr3, iCurrGuestOsIndex)' = SpaceOf(cr3, iCurrGuestOsIndex)
      /\ UNCHANGED <<iCurrTaskId, iCurrGuestOsIndex>>
  BY <1>3, SameView DEF BeginCopy
<1>5. Asked = <<>> /\ Asked' = <<t, dir>>
  BY DEF Asked, BeginCopy
<1> QED
  BY <1>4, <1>5 DEF PartitionMemory!Ask, View, Asked

\* Copying an entry is not seen, a bad one is a refusal.
LEMMA CopyRefines ==
  ASSUME MayEmpty = FALSE, SInv, verifyAndCopyEntry
  PROVE  UNCHANGED PartitionMemory!vars \/ PartitionMemory!Refuse
<1> DEFINE table == copy.guest_pde[copy.iCount]
<1>1. /\ TypeOK /\ InTheMaking /\ copy.on /\ copy \in Registration
      /\ UNCHANGED <<pde, iCurrTaskId, iCurrGuestOsIndex, cr3>>
      /\ Bound = copy.spark_pde /\ copy.spark_pde \in Nat /\ freePages_CurrAddr \in Nat
      /\ copy.spark_pde < freePages_CurrAddr
      /\ \A f \in Heap : f \in Nat
  BY BoundCounted, Counted DEF SInv, IInv, verifyAndCopyEntry, Bound, InTheMaking
<1>2. copy.guest_pde \in Directories /\ copy.iCount \in Entries
  BY <1>1, MemAssumption DEF Registration, Entries, verifyAndCopyEntry
<1>3. /\ Asked = <<copy.iProcessId, copy.guest_pde>>
      /\ copy' = [copy EXCEPT !.iCount = @ + 1] => Asked' = Asked
      /\ copy' = [on |-> FALSE] => Asked' = <<>>
  BY <1>1 DEF Asked, Registration
<1>4. /\ \A g \in Guests, u \in Tasks : View(g, u)' = View(g, u)
      /\ SpaceOf(cr3, iCurrGuestOsIndex)' = SpaceOf(cr3, iCurrGuestOsIndex)
  <2>1. CASE UNCHANGED mem
    BY <1>1, <2>1, SameView
  <2>2. CASE ~Skip /\ freePages_CurrAddr \in Heap /\ mem' = Copied(table)
    <3>1. table \in Table
      <4>1. table \in Table \cup {Absent}
        BY <1>2, MemAssumption
      <4> QED
        BY <2>2, <4>1 DEF Skip
    <3>2. \A f \in Pages : f # freePages_CurrAddr /\ f # copy.spark_pde => mem'[f] = mem[f]
      <4> HIDE DEF table
      <4> QED
        BY <1>1, <2>2, <3>1, CopiedTable
    <3>3. \A f \in Heap : f < Bound => mem'[f] = mem[f]
      BY <1>1, <3>2 DEF Pages
    <3> QED
      BY <1>1, <3>3, SameView
  <2> QED
    BY <2>1, <2>2 DEF verifyAndCopyEntry
<1>5. CASE copy' = [copy EXCEPT !.iCount = @ + 1]
  BY <1>1, <1>3, <1>4, <1>5 DEF PartitionMemory!vars, View, Asked
<1>6. CASE copy' = [on |-> FALSE] /\ ~Skip /\ ~ \A e \in Entries : Valid(table, e)
  <2>1. ~Acceptable(copy.guest_pde)
    BY <1>2, <1>6 DEF Acceptable, Skip
  <2>2. Asked # <<>> /\ Asked[2] = copy.guest_pde /\ Asked' = <<>>
    BY <1>3, <1>6
  <2> QED
    BY <1>1, <1>4, <2>1, <2>2 DEF PartitionMemory!Refuse, View, Asked
<1> QED
  BY <1>5, <1>6 DEF verifyAndCopyEntry

\* What the directory that was made maps is what the guest registered.
LEMMA MadeWalk ==
  ASSUME SInv, EndOfCopy, NEW pd, pd = copy.spark_pde, NEW g, g = iCurrGuestOsIndex
  PROVE  /\ Walk(pd, g)' = Registered(copy.guest_pde, g)
         /\ Acceptable(copy.guest_pde)
         /\ pd # 0
<1> DEFINE dir == copy.guest_pde
           slot(c) == iPdeBase(g) + c
           full == [e \in Entries |-> IF e < SparkEntries THEN spark_pde(e) ELSE mem[pd][e]]
<1>1. /\ TypeOK /\ InTheMaking /\ CopiedSoFar /\ copy.on /\ copy \in Registration
      /\ copy.iCount = NUM_ENTRIES_PER_PAGE /\ g \in Guests /\ dir \in Directories
      /\ pd \in Heap /\ 0 \notin Heap
  BY Counted DEF SInv, IInv, EndOfCopy, InTheMaking, Registration
<1>2. mem' = [mem EXCEPT ![pd] = full] /\ mem \in [Pages -> Table] /\ pd \in Pages
  BY <1>1 DEF EndOfCopy, TypeOK, Pages
<1> HIDE DEF full
<1>3. mem'[pd] = full /\ \A f \in Pages : f # pd => mem'[f] = mem[f]
  BY <1>2
<1>4. ASSUME NEW c \in GuestSlots(g)
      PROVE  /\ c \in Entries /\ c < copy.iCount /\ mem'[pd][slot(c)] = mem[pd][slot(c)]
             /\ mem[pd][slot(c)] # Absent =>
                  mem'[mem[pd][slot(c)]] = mem[mem[pd][slot(c)]]
             /\ dir[c] = Absent => mem[pd][slot(c)] = Absent
             /\ dir[c] # Absent =>
                  /\ mem[pd][slot(c)] # Absent
                  /\ \A e \in Entries : /\ Valid(dir[c], e)
                                        /\ mem[mem[pd][slot(c)]][e] = Moved(dir[c], g)[e]
  <2>1. slot(c) \in Entries /\ ~(slot(c) < SparkEntries) /\ c \in Entries /\ c < copy.iCount
    <3>1. slot(c) \in Entries /\ ~(slot(c) < SparkEntries) /\ c \in Entries
      BY <1>1, GuestEntry
    <3>2. c < NUM_ENTRIES_PER_PAGE
      BY <3>1, MemAssumption DEF Entries
    <3> QED
      BY <1>1, <3>1, <3>2
  <2>2. mem'[pd][slot(c)] = mem[pd][slot(c)]
    BY <1>3, <2>1 DEF full
  <2>3. ASSUME mem[pd][slot(c)] # Absent
        PROVE  mem'[mem[pd][slot(c)]] = mem[mem[pd][slot(c)]]
    <3>1. mem[pd][slot(c)] \in Heap /\ pd < mem[pd][slot(c)]
      BY <1>1, <2>1, <2>3 DEF InTheMaking
    <3>2. mem[pd][slot(c)] # pd /\ mem[pd][slot(c)] \in Pages
      BY <1>1, <3>1, SparkEntriesInHeap DEF Heap, Pages
    <3> QED
      BY <1>3, <3>2
  <2>4. /\ dir[c] = Absent => mem[pd][slot(c)] = Absent
        /\ dir[c] # Absent =>
             /\ mem[pd][slot(c)] # Absent
             /\ \A e \in Entries : /\ Valid(dir[c], e)
                                   /\ mem[mem[pd][slot(c)]][e] = Moved(dir[c], g)[e]
    BY <1>1, <2>1 DEF CopiedSoFar
  <2> QED
    BY <2>1, <2>2, <2>3, <2>4
<1>5. Acceptable(dir)
  <2>1. \A c \in Entries : dir[c] # Absent => c \in GuestSlots(g)
    BY <1>1, MemAssumption DEF Entries
  <2> QED
    BY <1>1, <1>4, <2>1 DEF Acceptable
<1>6. Walk(pd, g)' = Registered(dir, g)
  <2> DEFINE w(c) == [e \in Entries |->
                        LET table == mem'[pd][slot(c)]
                        IN  IF table = Absent THEN Absent ELSE mem'[table][e]]
             r(c) == IF dir[c] = Absent THEN Zeroed ELSE Moved(dir[c], g)
  <2>1. ASSUME NEW c \in GuestSlots(g)
        PROVE  w(c) = r(c)
    <3>1. CASE dir[c] = Absent
      BY <1>4, <3>1 DEF Zeroed
    <3>2. CASE dir[c] # Absent
      <4>1. \A e \in Entries : w(c)[e] = Moved(dir[c], g)[e]
        BY <1>4, <3>2
      <4> QED
        BY <3>2, <4>1 DEF Moved
    <3> QED
      BY <3>1, <3>2
  <2>2. Walk(pd, g)' = [c \in GuestSlots(g) |-> w(c)]
    BY DEF Walk
  <2>3. Registered(dir, g) = [c \in GuestSlots(g) |-> r(c)]
    BY DEF Registered
  <2> HIDE DEF w, r
  <2> QED
    BY <2>1, <2>2, <2>3
<1> QED
  BY <1>1, <1>5, <1>6

-----------------------------------------------------------------------------
\* The steps that are seen

\* Changing one entry of a function of functions.
LEMMA OneEntry ==
  ASSUME NEW G, NEW T, NEW r \in G, NEW i \in T, NEW m, NEW before, NEW after,
         before = [g \in G |-> [t \in T |-> before[g][t]]],
         after  = [g \in G |-> [t \in T |-> after[g][t]]],
         \A g \in G, t \in T : after[g][t] = IF g = r /\ t = i THEN m ELSE before[g][t]
  PROVE  after = [before EXCEPT ![r][i] = m]
<1> DEFINE new == [before EXCEPT ![r][i] = m]
<1>1. new = [g \in G |-> IF g = r THEN [before[r] EXCEPT ![i] = m] ELSE before[g]]
  OBVIOUS
<1>2. \A g \in G : /\ before[g] = [t \in T |-> before[g][t]]
                     /\ after[g] = [t \in T |-> after[g][t]]
  OBVIOUS
<1>3. ASSUME NEW g \in G
      PROVE  after[g] = new[g]
  <2>1. CASE g = r
    <3>1. new[g] = [before[g] EXCEPT ![i] = m]
      BY <1>1, <2>1
    <3>2. new[g] = [t \in T |-> IF t = i THEN m ELSE before[g][t]]
      BY <1>2, <3>1
    <3>3. after[g] = [t \in T |-> IF t = i THEN m ELSE before[g][t]]
      BY <1>2, <2>1
    <3> QED
      BY <3>2, <3>3
  <2>2. CASE g # r
    <3>1. after[g] = [t \in T |-> before[g][t]]
      BY <1>2, <2>2
    <3> QED
      BY <1>1, <1>2, <2>2, <3>1
  <2> QED
    BY <2>1, <2>2
<1> QED
  BY <1>1, <1>3

\* The last step of a registration gives the task what its guest registered.
LEMMA EndRefines ==
  ASSUME SInv, EndOfCopy, NEW i, i = copy.iProcessId
  PROVE  PartitionMemory!Grant
<1> PICK pd : pd = copy.spark_pde
  OBVIOUS
<1> PICK r : r = iCurrGuestOsIndex
  OBVIOUS
<1>1. /\ TypeOK /\ copy.on /\ copy \in Registration /\ r \in Guests /\ i \in Tasks
      /\ \A g \in Guests, t \in Tasks : pde[g][t] # 0 => Finished(pde[g][t], g)
      /\ Walked(cr3, r)
      /\ pde \in [Guests -> [Tasks -> Pages]] /\ pd \in Heap
      /\ UNCHANGED <<iCurrTaskId, iCurrGuestOsIndex, cr3>>
  BY Counted DEF SInv, IInv, TypeOK, InTheMaking, EndOfCopy, Registration
<1>2. /\ Bound = pd
      /\ \A g \in Guests, t \in Tasks : pde'[g][t] = IF g = r /\ t = i THEN pd ELSE pde[g][t]
  BY <1>1, Counted DEF EndOfCopy, Bound, Pages
<1>3. \A f \in Heap : f < Bound => mem'[f] = mem[f]
  BY <1>1, <1>2, Counted DEF EndOfCopy, Pages, TypeOK
<1> PICK m : m = Walk(pd, r)'
  OBVIOUS
<1>4. m = Registered(copy.guest_pde, r) /\ Acceptable(copy.guest_pde) /\ pd # 0
  BY MadeWalk
<1>5. ASSUME NEW g \in Guests, NEW t \in Tasks
      PROVE  View(g, t)' = IF g = r /\ t = i THEN m ELSE View(g, t)
  <2>1. CASE g = r /\ t = i
    BY <1>2, <1>4, <2>1 DEF View, SpaceOf
  <2>2. CASE ~(g = r /\ t = i)
    BY <1>1, <1>2, <1>3, <2>2, SameWalk DEF View, SpaceOf
  <2> QED
    BY <2>1, <2>2
<1>6. UNCHANGED SpaceOf(cr3, iCurrGuestOsIndex)
  BY <1>1, <1>3, SameWalk DEF SpaceOf, Walked
<1> DEFINE space == [g \in Guests |-> [t \in Tasks |-> View(g, t)]]
<1>7. space' = [space EXCEPT ![r][i] = m]
  <2> PICK before : before = space
    OBVIOUS
  <2> PICK after : after = space'
    OBVIOUS
  <2>1. /\ before = [g \in Guests |-> [t \in Tasks |-> before[g][t]]]
        /\ after  = [g \in Guests |-> [t \in Tasks |-> after[g][t]]]
        /\ \A g \in Guests, t \in Tasks :
             after[g][t] = IF g = r /\ t = i THEN m ELSE before[g][t]
    BY <1>5
  <2>2. after = [before EXCEPT ![r][i] = m]
    BY <1>1, <2>1, OneEntry, SMTT(30)
  <2> HIDE DEF space
  <2> QED
    BY <2>2
<1>8. /\ Asked = <<i, copy.guest_pde>> /\ Asked # <<>> /\ Asked' = <<>>
      /\ Asked[1] = i /\ Asked[2] = copy.guest_pde
  BY <1>1 DEF Asked, EndOfCopy
<1> QED
  BY <1>1, <1>4, <1>6, <1>7, <1>8 DEF PartitionMemory!Grant, View, Asked

\* Pages do not change while a directory is loaded.
LEMMA LoadRefines ==
  ASSUME SInv, NEW t \in Tasks, spark_loadPDE(t), ~UNCHANGED vars
  PROVE  PartitionMemory!Load(t)
<1>1. /\ UNCHANGED <<mem, pde, iCurrGuestOsIndex, copy>> /\ ~copy.on /\ iCurrGuestOsIndex \in Guests
      /\ cr3' = pde[iCurrGuestOsIndex][t]
      /\ iCurrTaskId' = [iCurrTaskId EXCEPT ![iCurrGuestOsIndex] = t]
  BY DEF SInv, IInv, TypeOK, spark_loadPDE
<1>2. \A d, g : UNCHANGED SpaceOf(d, g)
  BY <1>1 DEF SpaceOf, Walk
<1>3. SpaceOf(cr3, iCurrGuestOsIndex)' = View(iCurrGuestOsIndex, t)
  BY <1>1 DEF SpaceOf, Walk, View
<1>4. \A g \in Guests, u \in Tasks : View(g, u)' = View(g, u)
  BY <1>1 DEF SpaceOf, Walk, View
<1> QED
  BY <1>1, <1>3, <1>4 DEF PartitionMemory!Load, View, Asked

LEMMA SwitchRefines ==
  ASSUME SInv, NEW g \in Guests, fLoadNewMemContext(g)
  PROVE  PartitionMemory!Switch(g)
<1>1. /\ UNCHANGED <<mem, pde, iCurrTaskId, copy>> /\ ~copy.on /\ iCurrTaskId[g] \in Tasks
      /\ cr3' = pde[g][iCurrTaskId[g]] /\ iCurrGuestOsIndex' = g
  BY DEF SInv, IInv, TypeOK, fLoadNewMemContext
<1>2. SpaceOf(cr3, iCurrGuestOsIndex)' = View(g, iCurrTaskId[g])
  BY <1>1 DEF SpaceOf, Walk, View
<1>3. \A h \in Guests, u \in Tasks : View(h, u)' = View(h, u)
  BY <1>1 DEF SpaceOf, Walk, View
<1> QED
  BY <1>1, <1>2, <1>3 DEF PartitionMemory!Switch, View

\* The directory a guest starts with maps its memory to itself.
LEMMA BootWalk ==
  ASSUME Init, NEW g \in Guests
  PROVE  SpaceOf(BootPage(g), g) = BootSpace(g)
<1> DEFINE E == NUM_ENTRIES_PER_PAGE
           pd == BootPage(g)
           slot(c) == iPdeBase(g) + c
<1>1. /\ g \in Nat /\ E \in Nat /\ GuestEntries \in Nat /\ SparkEntries \in Nat
      /\ HeapFirst \in Nat \ {0} /\ KernelTables \in Nat /\ HeapLast \in Nat
  BY MemAssumption DEF Guests
<1>2. /\ pd \in Nat /\ pd # 0
      /\ iPdeBase(g) \in Nat /\ iPdeBase(g + 1) = iPdeBase(g) + GuestEntries
  <2>1. pd \in HeapFirst + KernelTables .. HeapLast
    BY BootPages
  <2>2. iPdeBase(g) \in Nat /\ iPdeBase(g + 1) = iPdeBase(g) + GuestEntries
    BY <1>1 DEF iPdeBase
  <2> HIDE DEF pd
  <2> QED
    BY <1>1, <2>1, <2>2
<1>3. ASSUME NEW c \in GuestSlots(g)
      PROVE  /\ slot(c) \in Entries /\ ~(slot(c) < SparkEntries) /\ c \in Nat
             /\ slot(c) \in iPdeBase(g) .. iPdeBase(g + 1) - 1 <=> c < GuestEntries
             /\ slot(c) - iPdeBase(g) = c /\ mem[pd] = BootDirectory(g)
  <2>1. slot(c) \in Entries /\ ~(slot(c) < SparkEntries) /\ c \in Nat
    BY <1>1, GuestEntry
  <2>2. mem[pd] = BootDirectory(g)
    BY BootMemory
  <2> QED
    BY <1>1, <1>2, <2>1, <2>2
<1>4. ASSUME NEW c \in GuestSlots(g), c < GuestEntries
      PROVE  /\ mem[pd][slot(c)] = pd + 1 + c
             /\ mem[pd][slot(c)] # Absent
             /\ mem[pd + 1 + c] = IdentityTable(slot(c))
  <2>1. c \in 0 .. GuestEntries - 1
    BY <1>1, <1>3, <1>4
  <2>2. mem[pd + 1 + c] = IdentityTable(slot(c))
    BY <2>1, BootMemory
  <2> HIDE DEF slot
  <2>3. mem[pd][slot(c)] = pd + 1 + c
    BY <1>3, <1>4 DEF BootDirectory
  <2>4. pd + 1 + c \in Nat
    BY <1>2, <1>3
  <2> QED
    BY <2>2, <2>3, <2>4, MemAssumption
<1>5. ASSUME NEW c \in GuestSlots(g), ~(c < GuestEntries)
      PROVE  mem[pd][slot(c)] = Absent
  <2> HIDE DEF slot, pd
  <2> QED
    BY <1>3, <1>5 DEF BootDirectory
<1>6. ASSUME NEW c \in GuestSlots(g), NEW e \in Entries
      PROVE  IdentityTable(slot(c))[e] = phyOffset(g) + c * E + e
  <2>1. c \in Nat /\ e \in Nat
    BY <1>1, <1>3 DEF Entries
  <2>2. slot(c) * E = phyOffset(g) + c * E
    BY <1>1, <1>2, <2>1 DEF phyOffset
  <2> QED
    BY <2>2 DEF IdentityTable
<1>7. Walk(pd, g) = BootSpace(g)
  <2> DEFINE w(c) == [e \in Entries |->
                        LET table == mem[pd][slot(c)]
                        IN  IF table = Absent THEN Absent ELSE mem[table][e]]
             b(c) == [e \in Entries |->
                        IF c < GuestEntries THEN phyOffset(g) + c * E + e ELSE Absent]
  <2>1. ASSUME NEW c \in GuestSlots(g)
        PROVE  w(c) = b(c)
    <3>1. CASE c < GuestEntries
      BY <1>4, <1>6, <3>1
    <3>2. CASE ~(c < GuestEntries)
      BY <1>5, <3>2
    <3> QED
      BY <3>1, <3>2
  <2>2. Walk(pd, g) = [c \in GuestSlots(g) |-> w(c)]
    BY DEF Walk
  <2>3. BootSpace(g) = [c \in GuestSlots(g) |-> b(c)]
    BY DEF BootSpace
  <2> HIDE DEF w, b
  <2> QED
    BY <2>1, <2>2, <2>3
<1> QED
  BY <1>2, <1>7 DEF SpaceOf

LEMMA InitRefines == Init => PartitionMemory!Init
<1> SUFFICES ASSUME Init PROVE PartitionMemory!Init
  OBVIOUS
<1>1. /\ pde = [g \in Guests |-> [t \in Tasks |-> IF t = 0 THEN BootPage(g) ELSE 0]]
      /\ iCurrTaskId = [g \in Guests |-> 0]
      /\ iCurrGuestOsIndex \in Guests
      /\ cr3 = BootPage(iCurrGuestOsIndex)
  BY DEF Init
<1>2. ASSUME NEW g \in Guests, NEW t \in Tasks
      PROVE  SpaceOf(pde[g][t], g) = IF t = 0 THEN BootSpace(g) ELSE NoSpace
  <2>1. CASE t = 0
    BY <1>1, <2>1, BootWalk
  <2>2. CASE t # 0
    BY <1>1, <2>2 DEF SpaceOf
  <2> QED
    BY <2>1, <2>2
<1>3. SpaceOf(cr3, iCurrGuestOsIndex) = BootSpace(iCurrGuestOsIndex)
  BY <1>1, BootWalk
<1>4. copy.on = FALSE
  BY DEF Init
<1> QED
  BY <1>1, <1>2, <1>3, <1>4 DEF PartitionMemory!Init

LEMMA StepRefines ==
  ASSUME MayEmpty = FALSE, SInv, [Next]_vars
  PROVE  [PartitionMemory!Next]_(PartitionMemory!vars)
<1>1. ASSUME UNCHANGED vars
      PROVE  UNCHANGED PartitionMemory!vars
  BY <1>1 DEF vars, PartitionMemory!vars, SpaceOf, Walk
<1>2. ASSUME NEW t \in Calls, NEW dir \in Directories,
             spark_registerPages(t, dir), ~UNCHANGED vars
      PROVE  PartitionMemory!Next
  <2>1. t \in Tasks /\ ~copy.on /\ BeginCopy(t, dir) /\ UNCHANGED pde
    BY <1>2, MemAssumption DEF spark_registerPages, Calls
  <2> QED
    BY <2>1, BeginRefines DEF PartitionMemory!Next
<1>3. ASSUME verifyAndCopyEntry
      PROVE  PartitionMemory!Next \/ UNCHANGED PartitionMemory!vars
  BY <1>3, CopyRefines DEF PartitionMemory!Next
<1>4. ASSUME EndOfCopy
      PROVE  PartitionMemory!Next
  BY <1>4, EndRefines DEF PartitionMemory!Next
<1>5. ASSUME NEW t \in Calls, spark_loadPDE(t), ~UNCHANGED vars
      PROVE  PartitionMemory!Next
  <2>1. t \in Tasks
    BY <1>5, MemAssumption DEF spark_loadPDE, Calls
  <2> QED
    BY <1>5, <2>1, LoadRefines DEF PartitionMemory!Next
<1>6. ASSUME NEW g \in Guests, fLoadNewMemContext(g)
      PROVE  PartitionMemory!Next
  BY <1>6, SwitchRefines DEF PartitionMemory!Next
<1> QED
  BY <1>1, <1>2, <1>3, <1>4, <1>5, <1>6 DEF Next

\* As long as the heap has pages, what the processor sees through the page
\* tables is what PartitionSpaces says: a task has exactly the pages of the last
\* acceptable directory its guest asked for, moved to the guest's own frames,
\* only what is not acceptable is refused and changes nothing, and no
\* registration changes another task's space or the one in use
\* (verifyAndCopyPages, page.c:124).
THEOREM SpacesImplemented ==
  ASSUME MayEmpty = FALSE
  PROVE  Spec => ImplementsSpaces
<1>1. Init => SInv
  <2>1. Init => copy.on = FALSE
    BY DEF Init
  <2>2. Init => CopiedSoFar
    BY <2>1 DEF CopiedSoFar
  <2> QED
    BY <2>2, Initially DEF SInv
<1>2. SInv /\ [Next]_vars => SInv'
  BY SInvStep
<1>3. SInv /\ [Next]_vars => [PartitionMemory!Next]_(PartitionMemory!vars)
  BY StepRefines
<1> QED
  BY <1>1, <1>2, <1>3, InitRefines, PTL DEF Spec, ImplementsSpaces, PartitionMemory!Spec
=============================================================================
