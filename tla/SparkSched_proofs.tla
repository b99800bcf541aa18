-------------------------- MODULE SparkSched_proofs --------------------------
(***************************************************************************)
(* Proofs about SparkSched, for every number of guests and tasks, every    *)
(* table without overlaps, every length of the hypercalls.                 *)
(***************************************************************************)
EXTENDS SparkSched, SequenceTheorems, TLAPS

\* The guests, SParK and the first task are where the types want them, and
\* the table has the fields and bounds of ScheduleAssumption.
LEMMA ConstantFacts ==
  /\ Spark \in Partitions /\ Spark \notin Guests /\ Guests \subseteq Partitions
  /\ 0 \in Tasks
  /\ \A i \in Windows : /\ i \in Nat
                        /\ Schedule[i].start_t \in Nat
                        /\ Schedule[i].end_t \in Nat
                        /\ Schedule[i].gos_id \in Guests
                        /\ Schedule[i].start_t < Schedule[i].end_t
                        /\ Schedule[i].end_t <= Eta
<1>1. /\ Spark \in Partitions /\ Spark \notin Guests /\ Guests \subseteq Partitions
      /\ 0 \in Tasks
  BY SizeAssumption DEF Spark, Partitions, Guests, Tasks
<1>2. \A i \in Windows : /\ i \in Nat
                          /\ Schedule[i] \in [start_t : Nat, gos_id : Guests, end_t : Nat]
  <2> DEFINE Row == [start_t : Nat, gos_id : Guests, end_t : Nat]
  <2>1. Schedule \in Seq(Row)
    BY ScheduleAssumption
  <2>2. Windows = 1 .. Len(Schedule) /\ Len(Schedule) \in Nat /\ Schedule \in [1 .. Len(Schedule) -> Row]
    BY <2>1, LenProperties DEF Windows
  <2> QED
    BY <2>2
<1> QED
  BY <1>1, <1>2, ScheduleAssumption

\* At most one window starts in a tick, so the first one that the search of
\* fGetNextGOSToSchedule finds is that window.
LEMMA FirstStarting ==
  ASSUME NEW c, NEW i \in StartingAt(c)
  PROVE  fGetNextGOSToSchedule(c) = gos_id[i]
<1>1. i \in Windows /\ Schedule[i].start_t = c
  BY DEF StartingAt
<1>2. \A j \in StartingAt(c) : j = i
  <2> SUFFICES ASSUME NEW j \in StartingAt(c) PROVE j = i
    OBVIOUS
  <2>1. j \in Windows /\ Schedule[j].start_t = c
    BY DEF StartingAt
  <2>2. c \in 0 .. Eta - 1 /\ Covers(i, c) /\ Covers(j, c)
    BY <1>1, <2>1, ConstantFacts, SizeAssumption DEF Covers
  <2> QED
    BY <1>1, <2>1, <2>2, ScheduleAssumption
<1>3. i <= i
  BY <1>1, ConstantFacts
<1>4. StartingAt(c) = {i}
  BY <1>2
<1>5. (CHOOSE k \in StartingAt(c) : \A j \in StartingAt(c) : k <= j) = i
  BY <1>3, <1>4
<1> QED
  BY <1>4, <1>5 DEF fGetNextGOSToSchedule

\* The search returns a partition: SParK, or the one of a window.
LEMMA NextIsPartition ==
  ASSUME gos_id \in [Windows -> Partitions], NEW c
  PROVE  fGetNextGOSToSchedule(c) \in Partitions
<1>1. CASE StartingAt(c) = {}
  BY <1>1, ConstantFacts DEF fGetNextGOSToSchedule
<1>2. CASE StartingAt(c) # {}
  <2>1. PICK i \in StartingAt(c) : TRUE
    BY <1>2
  <2>2. i \in Windows
    BY <2>1 DEF StartingAt
  <2> QED
    BY <2>1, <2>2, FirstStarting
<1> QED
  BY <1>1, <1>2

\* The tick that timer_handler schedules for is one of the cycle.
LEMMA TickCount ==
  TypeOK => (IF gCurrEtaCount + 1 >= Eta THEN 0 ELSE gCurrEtaCount + 1) \in 0 .. Eta - 1
<1> SUFFICES ASSUME TypeOK
             PROVE  (IF gCurrEtaCount + 1 >= Eta THEN 0 ELSE gCurrEtaCount + 1) \in 0 .. Eta - 1
  OBVIOUS
<1>1. gCurrEtaCount \in Nat /\ Eta \in Nat \ {0}
  BY SizeAssumption DEF TypeOK
<1> QED
  BY <1>1

-----------------------------------------------------------------------------
\* Type correctness: one step per action.

LEMMA TypeInit == Init => TypeOK
<1> SUFFICES ASSUME Init PROVE TypeOK
  OBVIOUS
<1>1. gCurrEtaCount - missed \in 0 .. Eta - 1 /\ gCurrEtaCount \in Nat /\ missed \in 0 .. MaxCallTicks
  BY SizeAssumption DEF Init
<1>2. gos_id \in [Windows -> Partitions] /\ \A i \in Windows : gos_id[i] \in {Schedule[i].gos_id, Spark}
  BY ConstantFacts DEF Init
<1>3. mode \in [Partitions -> Modes]
  BY DEF Init, Modes
<1>4. cpu \in [gdt : Partitions, esp0 : Partitions, esp2 : Partitions \X Tasks,
               ports : SUBSET {"parallel", "serial"}, cr3 : Partitions \X Tasks]
  BY ConstantFacts DEF Init
<1> QED
  BY <1>1, <1>2, <1>3, <1>4, ConstantFacts DEF Init, TypeOK

LEMMA TypeTick == TypeOK /\ Tick => TypeOK'
<1> SUFFICES ASSUME TypeOK, Tick PROVE TypeOK'
  OBVIOUS
<1> DEFINE wrap == gCurrEtaCount + 1 >= Eta
           c    == IF wrap THEN 0 ELSE gCurrEtaCount + 1
           next == fGetNextGOSToSchedule(c)
<1>1. spark_schedule(wrap, c) /\ VirtualTimer(iCurrGuestOsIndex') /\ gCurrEtaCount' = c /\ missed' = 0
      /\ UNCHANGED <<gos_id, iCallOn, iTicks, iCurrTaskId, level2Stack, halted>>
  BY DEF Tick, CycleEnds
<1>2. c \in 0 .. Eta - 1
  BY TickCount
<1>3. next \in Partitions
  BY NextIsPartition DEF TypeOK
<1> HIDE DEF wrap, c, next
<1>4. /\ iCurrGuestOsIndex' \in Partitions
      /\ started' \in SUBSET Partitions
      /\ perfIndex' \in Nat
      /\ cpu' \in [gdt : Partitions, esp0 : Partitions, esp2 : Partitions \X Tasks,
                    ports : SUBSET {"parallel", "serial"}, cr3 : Partitions \X Tasks]
  <2>1. CASE Keeps(wrap, c)
    BY <1>1, <2>1 DEF TypeOK, spark_schedule, RecordBase
  <2>2. CASE ~Keeps(wrap, c)
    <3>1. spark_switch_to(next) /\ perfIndex' \in {0, perfIndex, 1, perfIndex + 1}
      BY <1>1, <2>2 DEF spark_schedule, RecordBase, next
    <3>2. level2Stack[next] \in Tasks /\ iCurrTaskId[next] \in Tasks /\ Ports(next) \in SUBSET {"parallel", "serial"}
      BY <1>3 DEF TypeOK, Ports
    <3>3. perfIndex' \in Nat
      BY <3>1 DEF TypeOK
    <3> QED
      BY <1>3, <3>1, <3>2, <3>3 DEF TypeOK, spark_switch_to, fLoadNewMemContext
  <2> QED
    BY <2>1, <2>2
<1>5. /\ iCurrTicks' \in [Partitions -> Nat]
      /\ mode' \in [Partitions -> Modes]
      /\ badFrames' \in SUBSET Partitions
  <2> DEFINE p == iCurrGuestOsIndex'
  <2>1. p \in Partitions
    BY <1>4
  <2>2. VirtualTimer(p)
    BY <1>1
  <2> HIDE DEF p
  <2>3. CASE iTicks[p] = 0
    BY <2>2, <2>3 DEF VirtualTimer, TypeOK
  <2>4. CASE iTicks[p] # 0 /\ iCurrTicks[p] + 1 # iTicks[p]
    BY <2>1, <2>2, <2>4 DEF VirtualTimer, TypeOK
  <2>5. CASE iTicks[p] # 0 /\ iCurrTicks[p] + 1 = iTicks[p]
    <3>1. iCurrTicks' = [iCurrTicks EXCEPT ![p] = 0] /\ InjectTimer(p)
      BY <2>2, <2>5 DEF VirtualTimer
    <3> QED
      BY <2>1, <3>1 DEF InjectTimer, TypeOK, Modes
  <2> QED
    BY <2>3, <2>4, <2>5
<1>6. gCurrEtaCount' \in Nat /\ gCurrEtaCount' - missed' \in 0 .. Eta - 1 /\ missed' \in 0 .. MaxCallTicks
  BY <1>1, <1>2, SizeAssumption
<1> QED
  BY <1>1, <1>4, <1>5, <1>6 DEF TypeOK

LEMMA TypeMoves ==
  ASSUME TypeOK, NEW p \in Guests,
         GuestMoves(p) \/ HyperCallTrap(p) \/ SetICallOn(p) \/ HyperCallIret(p) \/ ExceptionHandler(p)
  PROVE  TypeOK'
<1>1. mode' \in [Partitions -> Modes]
  BY DEF GuestMoves, HyperCallTrap, SetICallOn, HyperCallIret, ExceptionHandler, Goes, TypeOK, Modes
<1>2. /\ iCallOn' \in {0, 1} /\ halted' \in BOOLEAN
      /\ UNCHANGED <<gCurrEtaCount, gos_id, iCurrGuestOsIndex, started, thread, cpu, badFrames,
                     perfIndex, missed>>
  BY DEF GuestMoves, HyperCallTrap, SetICallOn, HyperCallIret, ExceptionHandler, TypeOK
<1> QED
  BY <1>1, <1>2 DEF TypeOK, thread

LEMMA TypeDuringCall == TypeOK /\ TickDuringCall => TypeOK'
<1> SUFFICES ASSUME TypeOK, TickDuringCall PROVE TypeOK'
  OBVIOUS
<1>1. gCurrEtaCount' \in Nat /\ gCurrEtaCount' - missed' \in 0 .. Eta - 1 /\ missed' \in 0 .. MaxCallTicks
  BY SizeAssumption DEF TickDuringCall, TypeOK
<1> QED
  BY <1>1 DEF TickDuringCall, TypeOK, thread

\* What a hypercall leaves in the table, the thread and the processor.
LEMMA TypeBody ==
  ASSUME TypeOK, NEW p \in Guests, HyperCallBody(p) \/ TransmitBegin(p) \/ TransmitEnd(p)
  PROVE  TypeOK'
<1> DEFINE Cpu == [gdt : Partitions, esp0 : Partitions, esp2 : Partitions \X Tasks,
                   ports : SUBSET {"parallel", "serial"}, cr3 : Partitions \X Tasks]
<1>1. p \in Partitions /\ Spark \in Partitions /\ 0 \in Tasks
  BY ConstantFacts
<1>2. cpu \in Cpu /\ iCurrTaskId[p] \in Tasks
  BY <1>1 DEF TypeOK
<1>3. CASE TransmitBegin(p)
  <2>1. cpu' \in Cpu
    BY <1>1, <1>2, <1>3 DEF TransmitBegin
  <2> QED
    BY <2>1, <1>3 DEF TransmitBegin, TypeOK, thread
<1>4. ASSUME ret_from_hyper_call(p)
      PROVE  /\ mode' \in [Partitions -> Modes] /\ iCallOn' \in {0, 1}
             /\ UNCHANGED <<gCurrEtaCount, iCurrGuestOsIndex, started, badFrames, perfIndex, missed, halted>>
  BY <1>1, <1>4 DEF ret_from_hyper_call, Goes, TypeOK, Modes
<1>5. CASE TransmitEnd(p)
  <2>1. cpu' \in Cpu
    BY <1>1, <1>2, <1>5 DEF TransmitEnd
  <2> QED
    BY <2>1, <1>4, <1>5 DEF TransmitEnd, TypeOK, thread
<1>6. CASE HyperCallBody(p)
  <2>1. ASSUME NEW n \in Periods, spark_registerTimer(p, n)
        PROVE  iTicks' \in [Partitions -> Nat] /\ iCurrTicks' \in [Partitions -> Nat]
               /\ UNCHANGED <<gos_id, iCurrTaskId, level2Stack, cpu>>
    <3>1. n \div TIMER_PERIOD \in Nat
      BY SizeAssumption
    <3> QED
      BY <3>1, <2>1, <1>1 DEF spark_registerTimer, TypeOK
  <2>2. ASSUME NEW t \in Tasks \cup {MAX_TASK_PER_GUEST}, spark_loadPDE(p, t)
        PROVE  iCurrTaskId' \in [Partitions -> Tasks] /\ cpu' \in Cpu
               /\ UNCHANGED <<gos_id, iTicks, iCurrTicks, level2Stack>>
    <3>1. ~(t >= MAX_TASK_PER_GUEST) => t \in Tasks
      BY SizeAssumption DEF Tasks
    <3> QED
      BY <3>1, <2>2, <1>1, <1>2 DEF spark_loadPDE, TypeOK
  <2>3. ASSUME NEW t \in Tasks, spark_setLevel2Stack(p, t)
        PROVE  level2Stack' \in [Partitions -> Tasks] /\ cpu' \in Cpu
               /\ UNCHANGED <<gos_id, iTicks, iCurrTicks, iCurrTaskId>>
    BY <2>3, <1>1, <1>2 DEF spark_setLevel2Stack, TypeOK
  <2>4. ASSUME NEW g \in Partitions, kill_gos(g)
        PROVE  gos_id' \in [Windows -> Partitions] /\ (\A i \in Windows : gos_id'[i] \in {Schedule[i].gos_id, Spark})
               /\ UNCHANGED <<thread, cpu>>
    BY <2>4, <1>1 DEF kill_gos, TypeOK
  <2>5. UNCHANGED thread <=> UNCHANGED <<iTicks, iCurrTicks, iCurrTaskId, level2Stack>>
    BY DEF thread
  <2>6. ret_from_hyper_call(p)
    BY <1>6 DEF HyperCallBody
  <2>7. \/ \E n \in Periods : spark_registerTimer(p, n)
        \/ \E t \in Tasks \cup {MAX_TASK_PER_GUEST} : spark_loadPDE(p, t)
        \/ \E t \in Tasks : spark_setLevel2Stack(p, t)
        \/ \E g \in Partitions : kill_gos(g)
        \/ OtherHypercall
    BY <1>6 DEF HyperCallBody
  <2>8. /\ iTicks' \in [Partitions -> Nat] /\ iCurrTicks' \in [Partitions -> Nat]
        /\ iCurrTaskId' \in [Partitions -> Tasks] /\ level2Stack' \in [Partitions -> Tasks]
        /\ gos_id' \in [Windows -> Partitions]
        /\ \A i \in Windows : gos_id'[i] \in {Schedule[i].gos_id, Spark}
        /\ cpu' \in Cpu
    BY <2>1, <2>2, <2>3, <2>4, <2>5, <2>7 DEF OtherHypercall, TypeOK
  <2> QED
    BY <1>4, <2>6, <2>8 DEF TypeOK
<1> QED
  BY <1>3, <1>5, <1>6

\* Every step preserves the types.
LEMMA TypeStep == TypeOK /\ [Next]_vars => TypeOK'
<1> SUFFICES ASSUME TypeOK, [Next]_vars PROVE TypeOK'
  OBVIOUS
<1>1. CASE Tick
  BY <1>1, TypeTick
<1>2. CASE TickDuringCall
  BY <1>2, TypeDuringCall
<1>3. ASSUME NEW p \in Guests, GuestMoves(p) \/ ExceptionHandler(p) \/ HyperCallTrap(p) \/ HyperCall(p)
      PROVE  TypeOK'
  BY <1>3, TypeMoves, TypeBody DEF HyperCall
<1>4. CASE UNCHANGED vars
  BY <1>4 DEF vars, thread, TypeOK
<1> QED
  BY <1>1, <1>2, <1>3, <1>4 DEF Next

\* Type correctness of the scheduler, for every table and number of guests:
\* every variable keeps its type, and the tick counter runs past the end of the
\* cycle (rtl_sched.c:172) by no more than the ticks one hypercall hides.
THEOREM TypeCorrect == Spec => []TypeOK
<1> QED
  BY TypeInit, TypeStep, PTL DEF Spec

-----------------------------------------------------------------------------
\* The inductive invariant

LEMMA InvInit == Init => IInv
<1> SUFFICES ASSUME Init PROVE IInv
  OBVIOUS
<1>1. TypeOK
  BY TypeInit
<1>2. CallGate /\ ContextHeld /\ RunsOwnWindow /\ TimerBelowPeriod
  BY ConstantFacts DEF Init, CallGate, ContextHeld, RunsOwnWindow, TimerBelowPeriod
<1>3. KilledEverywhere
  BY ConstantFacts DEF Init, KilledEverywhere
<1>4. PerfBehindCount
  BY SizeAssumption DEF Init, PerfBehindCount
<1> QED
  BY <1>1, <1>2, <1>3, <1>4 DEF IInv

\* What a tick that schedules does to the processor: it leaves everything as
\* it is, with a window that allows that, or switches to the starting window.
LEMMA TickSwitches ==
  ASSUME TypeOK, Tick
  PROVE  \/ /\ UNCHANGED <<iCurrGuestOsIndex, cpu>>
            /\ \/ iCurrGuestOsIndex = Spark
               \/ \E i \in Windows : Covers(i, gCurrEtaCount') /\ gos_id[i] = iCurrGuestOsIndex
         \/ /\ fLoadNewMemContext(iCurrGuestOsIndex')
            /\ \/ iCurrGuestOsIndex' = Spark
               \/ \E i \in Windows : Covers(i, gCurrEtaCount') /\ gos_id[i] = iCurrGuestOsIndex'
<1> DEFINE wrap == gCurrEtaCount + 1 >= Eta
           c    == IF wrap THEN 0 ELSE gCurrEtaCount + 1
<1>1. spark_schedule(wrap, c) /\ gCurrEtaCount' = c
  BY DEF Tick, CycleEnds
<1> HIDE DEF wrap, c
<1>2. CASE Keeps(wrap, c)
  BY <1>1, <1>2 DEF spark_schedule, Keeps, continue_same_context
<1>3. CASE ~Keeps(wrap, c)
  <2>1. spark_switch_to(fGetNextGOSToSchedule(c))
    BY <1>1, <1>3 DEF spark_schedule
  <2>2. CASE StartingAt(c) = {}
    BY <2>1, <2>2 DEF spark_switch_to, fGetNextGOSToSchedule
  <2>3. CASE StartingAt(c) # {}
    <3>1. PICK i \in StartingAt(c) : TRUE
      BY <2>3
    <3>2. i \in Windows /\ Covers(i, c)
      BY <3>1, ConstantFacts DEF StartingAt, Covers
    <3>3. iCurrGuestOsIndex' = gos_id[i]
      BY <2>1, <3>1, FirstStarting DEF spark_switch_to
    <3> QED
      BY <1>1, <2>1, <3>2, <3>3 DEF spark_switch_to
  <2> QED
    BY <2>2, <2>3
<1> QED
  BY <1>2, <1>3

\* The virtual timer of the running partition is the only part of a tick that
\* changes a mode, and it leads to the guest kernel.
LEMMA TickModes ==
  ASSUME TypeOK, Tick, NEW q \in Partitions
  PROVE  /\ mode'[q] \in {mode[q], "kernel"}
         /\ \/ iCurrTicks'[q] \in {iCurrTicks[q], 0}
            \/ iCurrTicks'[q] = iCurrTicks[q] + 1 /\ iCurrTicks'[q] # iTicks[q]
         /\ iTicks' = iTicks
<1>1. VirtualTimer(iCurrGuestOsIndex') /\ iTicks' = iTicks
  BY DEF Tick
<1> DEFINE p == iCurrGuestOsIndex'
<1>2. VirtualTimer(p)
  BY <1>1
<1>3. p \in Partitions
  BY TypeTick DEF TypeOK
<1> HIDE DEF p
<1>4. CASE iTicks[p] = 0
  BY <1>1, <1>2, <1>4 DEF VirtualTimer
<1>5. CASE iTicks[p] # 0 /\ iCurrTicks[p] + 1 # iTicks[p]
  BY <1>1, <1>2, <1>3, <1>5 DEF VirtualTimer, TypeOK
<1>6. CASE iTicks[p] # 0 /\ iCurrTicks[p] + 1 = iTicks[p]
  <2>1. iCurrTicks' = [iCurrTicks EXCEPT ![p] = 0] /\ mode' = [mode EXCEPT ![p] = "kernel"]
    BY <1>2, <1>6 DEF VirtualTimer, InjectTimer
  <2> QED
    BY <1>1, <1>3, <2>1 DEF TypeOK
<1> QED
  BY <1>4, <1>5, <1>6

LEMMA InvTick == IInv /\ Tick => IInv'
<1> SUFFICES ASSUME IInv, Tick PROVE IInv'
  OBVIOUS
<1>1. TypeOK /\ TypeOK'
  BY TypeTick DEF IInv
<1>2. CallGate'
  <2>1. iCallOn = 0 /\ iCallOn' = 0
    BY DEF Tick
  <2>2. \A q \in Partitions : mode[q] # "hyper"
    BY <2>1 DEF IInv, CallGate
  <2>3. \A q \in Partitions : mode'[q] # "hyper"
    BY <1>1, <2>2, TickModes
  <2> QED
    BY <1>1, <2>1, <2>3 DEF CallGate, TypeOK
<1>3. ContextHeld'
  <2>1. UNCHANGED <<level2Stack, iCurrTaskId>> /\ iCallOn = 0
    BY DEF Tick
  <2>2. CASE UNCHANGED <<iCurrGuestOsIndex, cpu>>
    <3>1. mode[iCurrGuestOsIndex] # "hyper"
      BY <2>1 DEF IInv, CallGate
    <3> QED
      BY <2>1, <2>2, <3>1 DEF IInv, ContextHeld, Ports
  <2>3. CASE fLoadNewMemContext(iCurrGuestOsIndex')
    BY <2>1, <2>3 DEF fLoadNewMemContext, ContextHeld, Ports
  <2> QED
    BY <1>1, <2>2, <2>3, TickSwitches
<1>4. RunsOwnWindow'
  <2>1. missed' = 0 /\ gCurrEtaCount' - missed' = gCurrEtaCount'
    BY <1>1 DEF Tick, TypeOK
  <2>2. \/ iCurrGuestOsIndex' = Spark
        \/ \E i \in Windows : Covers(i, gCurrEtaCount') /\ gos_id[i] = iCurrGuestOsIndex'
    BY <1>1, TickSwitches
  <2>3. \A i \in Windows : gos_id[i] \in {Schedule[i].gos_id, Spark}
    BY <1>1 DEF TypeOK
  <2> QED
    BY <2>1, <2>2, <2>3 DEF RunsOwnWindow, Covers
<1>5. TimerBelowPeriod'
  <2> SUFFICES ASSUME NEW q \in Partitions, iTicks'[q] # 0 PROVE iCurrTicks'[q] < iTicks'[q]
    BY DEF TimerBelowPeriod
  <2>1. iTicks[q] \in Nat /\ iCurrTicks[q] \in Nat
    BY <1>1 DEF TypeOK
  <2>2. iTicks' = iTicks
    BY DEF Tick
  <2>3. iCurrTicks[q] < iTicks[q]
    BY <2>2 DEF IInv, TimerBelowPeriod
  <2>4. \/ iCurrTicks'[q] \in {iCurrTicks[q], 0}
        \/ iCurrTicks'[q] = iCurrTicks[q] + 1 /\ iCurrTicks'[q] # iTicks[q]
    BY <1>1, TickModes
  <2> QED
    BY <2>1, <2>2, <2>3, <2>4
<1>6. KilledEverywhere'
  BY DEF IInv, KilledEverywhere, Tick
<1>7. PerfBehindCount'
  <2> DEFINE wrap == gCurrEtaCount + 1 >= Eta
             c    == IF wrap THEN 0 ELSE gCurrEtaCount + 1
  <2>1. spark_schedule(wrap, c) /\ gCurrEtaCount' = c /\ missed' = 0
    BY DEF Tick, CycleEnds
  <2>2. perfIndex' \in {IF wrap THEN 0 ELSE perfIndex, (IF wrap THEN 0 ELSE perfIndex) + 1}
    <3> HIDE DEF wrap, c
    <3> QED
      BY <2>1 DEF spark_schedule, RecordBase
  <2>3. perfIndex \in Nat /\ gCurrEtaCount \in Nat /\ missed \in Nat /\ Eta \in Nat /\ perfIndex <= gCurrEtaCount - missed + 1
    BY <1>1, SizeAssumption DEF IInv, TypeOK, PerfBehindCount
  <2> QED
    BY <2>1, <2>2, <2>3 DEF PerfBehindCount
<1> QED
  BY <1>1, <1>2, <1>3, <1>4, <1>5, <1>6, <1>7 DEF IInv

\* A tick during a hypercall only moves the two counters.
LEMMA InvDuringCall == IInv /\ TickDuringCall => IInv'
<1> SUFFICES ASSUME IInv, TickDuringCall PROVE IInv'
  OBVIOUS
<1>1. TypeOK /\ TypeOK'
  BY TypeDuringCall DEF IInv
<1>2. gCurrEtaCount' - missed' = gCurrEtaCount - missed
  BY <1>1 DEF TickDuringCall, TypeOK
<1>3. UNCHANGED <<gos_id, iCurrGuestOsIndex, iCallOn, mode, started, thread, cpu, badFrames, perfIndex, halted>>
  BY DEF TickDuringCall
<1>4. CallGate' /\ ContextHeld' /\ TimerBelowPeriod' /\ KilledEverywhere'
  BY <1>3 DEF IInv, CallGate, ContextHeld, TimerBelowPeriod, KilledEverywhere, Ports, thread
<1>5. RunsOwnWindow' /\ PerfBehindCount'
  BY <1>2, <1>3 DEF IInv, RunsOwnWindow, PerfBehindCount
<1> QED
  BY <1>1, <1>4, <1>5 DEF IInv

\* The guest's own steps and the gate of the hypercalls: they move the running
\* guest between its modes, iCallOn with it.
LEMMA InvMoves ==
  ASSUME IInv, NEW p \in Guests,
         GuestMoves(p) \/ HyperCallTrap(p) \/ SetICallOn(p) \/ HyperCallIret(p) \/ ExceptionHandler(p)
  PROVE  IInv'
<1>1. TypeOK /\ TypeOK' /\ p \in Partitions
  BY TypeMoves, ConstantFacts DEF IInv
<1>2. /\ UNCHANGED <<gCurrEtaCount, gos_id, iCurrGuestOsIndex, started, thread, cpu, badFrames, perfIndex, missed>>
      /\ iCurrGuestOsIndex = p
  BY DEF GuestMoves, HyperCallTrap, SetICallOn, HyperCallIret, ExceptionHandler, In
<1>3. \/ \E m \in {"user", "kernel", "entry"} : Goes(p, m) /\ UNCHANGED iCallOn /\ mode[p] # "hyper"
      \/ Goes(p, "hyper") /\ iCallOn' = 1 /\ mode[p] # "hyper"
      \/ UNCHANGED <<mode, iCallOn>>
  BY DEF GuestMoves, HyperCallTrap, SetICallOn, HyperCallIret, ExceptionHandler, In
<1>4. CallGate' /\ ContextHeld'
  <2>1. \A q \in Partitions \ {p} : mode[q] # "hyper"
    BY <1>2 DEF IInv, CallGate
  <2>2. iCallOn = 1 <=> mode[p] = "hyper"
    BY <1>2 DEF IInv, CallGate
  <2>3. CASE UNCHANGED <<mode, iCallOn>>
    BY <1>2, <2>3 DEF IInv, CallGate, ContextHeld, thread, Ports
  <2>4. ASSUME NEW m, Goes(p, m), mode[p] # "hyper", iCallOn' = 1 <=> m = "hyper"
        PROVE  CallGate' /\ ContextHeld'
    <3>1. mode'[p] = m /\ \A q \in Partitions \ {p} : mode'[q] = mode[q]
      BY <1>1, <2>4 DEF Goes, TypeOK
    <3> QED
      BY <1>2, <2>1, <2>4, <3>1 DEF IInv, CallGate, ContextHeld, thread, Ports
  <2>5. "hyper" \notin {"user", "kernel", "entry"}
    OBVIOUS
  <2> QED
    BY <1>3, <2>2, <2>3, <2>4, <2>5
<1>5. RunsOwnWindow' /\ TimerBelowPeriod' /\ KilledEverywhere' /\ PerfBehindCount'
  BY <1>2 DEF IInv, RunsOwnWindow, TimerBelowPeriod, KilledEverywhere, PerfBehindCount, thread
<1> QED
  BY <1>1, <1>4, <1>5 DEF IInv

\* The end of a hypercall clears iCallOn and leaves no body behind.
LEMMA GateCloses ==
  ASSUME TypeOK, CallGate, NEW p \in Guests, ret_from_hyper_call(p)
  PROVE  CallGate' /\ iCurrGuestOsIndex = p /\ mode'[p] = "exit"
<1>1. p \in Partitions /\ iCurrGuestOsIndex = p /\ iCallOn' = 0 /\ Goes(p, "exit") /\ UNCHANGED iCurrGuestOsIndex
  BY ConstantFacts DEF ret_from_hyper_call, In
<1>2. mode'[p] = "exit" /\ \A q \in Partitions \ {p} : mode'[q] = mode[q]
  BY <1>1 DEF Goes, TypeOK
<1> QED
  BY <1>1, <1>2 DEF CallGate

\* The bodies of the hypercalls keep the context of the caller loaded, with
\* the task and the stack it asks for.
LEMMA ContextBody ==
  ASSUME IInv, NEW p \in Guests, HyperCallBody(p) \/ TransmitBegin(p) \/ TransmitEnd(p)
  PROVE  ContextHeld'
<1> DEFINE Held(c, l, t) == c.gdt = p /\ c.esp0 = p /\ c.ports = Ports(p) /\ c.esp2 = <<p, l>> /\ c.cr3 = <<p, t>>
<1>1. p \in Partitions /\ TypeOK /\ Spark # p
  BY ConstantFacts DEF IInv
<1>2. iCurrGuestOsIndex = p /\ iCurrGuestOsIndex' = p /\ mode[p] = "hyper"
  BY DEF HyperCallBody, TransmitBegin, TransmitEnd, ret_from_hyper_call, In
<1>3. /\ cpu.gdt = p /\ cpu.esp0 = p /\ cpu.ports = Ports(p) /\ cpu.esp2 = <<p, level2Stack[p]>>
      /\ cpu.cr3 = <<p, iCurrTaskId[p]>> \/ cpu.cr3 = <<Spark, 0>>
  BY <1>2 DEF IInv, ContextHeld
<1>4. cpu = [gdt |-> cpu.gdt, esp0 |-> cpu.esp0, esp2 |-> cpu.esp2, ports |-> cpu.ports, cr3 |-> cpu.cr3]
  BY <1>1 DEF TypeOK
<1>5. Held(cpu', level2Stack'[p], iCurrTaskId'[p]) => ContextHeld'
  BY <1>2 DEF ContextHeld, Ports
<1>6. CASE TransmitBegin(p)
  <2>1. cpu' = [cpu EXCEPT !.cr3 = <<Spark, 0>>] /\ UNCHANGED <<mode, thread>>
    BY <1>6 DEF TransmitBegin
  <2> QED
    BY <1>2, <1>3, <1>4, <2>1 DEF ContextHeld, Ports, thread
<1>7. CASE TransmitEnd(p)
  <2>1. cpu' = [cpu EXCEPT !.cr3 = <<p, iCurrTaskId[p]>>] /\ UNCHANGED thread
    BY <1>7 DEF TransmitEnd
  <2>2. Held(cpu', level2Stack'[p], iCurrTaskId'[p])
    BY <1>3, <1>4, <2>1 DEF thread
  <2> QED
    BY <1>5, <2>2
<1>8. CASE HyperCallBody(p)
  <2>1. Held(cpu, level2Stack[p], iCurrTaskId[p])
    BY <1>3, <1>8 DEF HyperCallBody
  <2>2. ASSUME UNCHANGED <<cpu, level2Stack, iCurrTaskId>>
        PROVE  Held(cpu', level2Stack'[p], iCurrTaskId'[p])
    BY <2>1, <2>2
  <2>3. ASSUME NEW t \in Tasks \cup {MAX_TASK_PER_GUEST}, spark_loadPDE(p, t)
        PROVE  Held(cpu', level2Stack'[p], iCurrTaskId'[p])
    BY <1>1, <1>4, <2>1, <2>3 DEF spark_loadPDE, TypeOK
  <2>4. ASSUME NEW t \in Tasks, spark_setLevel2Stack(p, t)
        PROVE  Held(cpu', level2Stack'[p], iCurrTaskId'[p])
    BY <1>1, <1>4, <2>1, <2>4 DEF spark_setLevel2Stack, TypeOK
  <2>5. Held(cpu', level2Stack'[p], iCurrTaskId'[p])
    BY <1>8, <2>2, <2>3, <2>4 DEF HyperCallBody, spark_registerTimer, kill_gos, OtherHypercall, thread
  <2> QED
    BY <1>5, <2>5
<1> QED
  BY <1>6, <1>7, <1>8

LEMMA InvBody ==
  ASSUME IInv, NEW p \in Guests, HyperCallBody(p) \/ TransmitBegin(p) \/ TransmitEnd(p)
  PROVE  IInv'
<1>1. TypeOK /\ TypeOK' /\ ContextHeld' /\ p \in Partitions
  BY TypeBody, ContextBody, ConstantFacts DEF IInv
<1>2. UNCHANGED <<gCurrEtaCount, iCurrGuestOsIndex, started, badFrames, perfIndex, missed, halted>>
  BY DEF HyperCallBody, TransmitBegin, TransmitEnd, ret_from_hyper_call
<1>3. CallGate'
  <2>1. CASE TransmitBegin(p)
    BY <2>1 DEF TransmitBegin, IInv, CallGate
  <2>2. CASE ret_from_hyper_call(p)
    BY <1>1, <2>2, GateCloses DEF IInv
  <2> QED
    BY <2>1, <2>2 DEF HyperCallBody, TransmitEnd
<1>4. RunsOwnWindow' /\ PerfBehindCount'
  BY <1>2 DEF IInv, RunsOwnWindow, PerfBehindCount
<1>5. \/ UNCHANGED <<gos_id, iTicks, iCurrTicks>>
      \/ UNCHANGED gos_id /\ \E n \in Periods : spark_registerTimer(p, n)
      \/ UNCHANGED <<iTicks, iCurrTicks>> /\ \E g \in Partitions : kill_gos(g)
  BY DEF HyperCallBody, TransmitBegin, TransmitEnd, spark_registerTimer, spark_loadPDE, spark_setLevel2Stack,
         kill_gos, OtherHypercall, thread
<1>6. TimerBelowPeriod'
  <2>1. ASSUME NEW n \in Periods, spark_registerTimer(p, n)
        PROVE  TimerBelowPeriod'
    <3> DEFINE d == n \div TIMER_PERIOD
    <3>1. d \in Nat
      BY SizeAssumption
    <3> HIDE DEF d
    <3>2. iTicks' = [iTicks EXCEPT ![p] = d] /\ iCurrTicks' = [iCurrTicks EXCEPT ![p] = 0]
      BY <2>1 DEF spark_registerTimer, d
    <3> QED
      BY <1>1, <3>1, <3>2 DEF IInv, TimerBelowPeriod, TypeOK
  <2> QED
    BY <1>5, <2>1 DEF IInv, TimerBelowPeriod
<1>7. KilledEverywhere'
  <2>1. ASSUME NEW g \in Partitions, kill_gos(g)
        PROVE  KilledEverywhere'
    <3> SUFFICES ASSUME NEW i \in Windows, NEW j \in Windows, Schedule[i].gos_id = Schedule[j].gos_id
                 PROVE  gos_id'[i] = Spark <=> gos_id'[j] = Spark
      BY DEF KilledEverywhere
    <3>1. /\ gos_id[i] \in {Schedule[i].gos_id, Spark} /\ gos_id[j] \in {Schedule[j].gos_id, Spark}
          /\ gos_id[i] = Spark <=> gos_id[j] = Spark
      BY <1>1 DEF TypeOK, IInv, KilledEverywhere
    <3>2. gos_id' = gos_id \/ gos_id' = [k \in Windows |-> IF gos_id[k] = g THEN Spark ELSE gos_id[k]]
      BY <2>1 DEF kill_gos
    <3> QED
      BY <3>1, <3>2
  <2> QED
    BY <1>5, <2>1 DEF IInv, KilledEverywhere
<1> QED
  BY <1>1, <1>3, <1>4, <1>6, <1>7 DEF IInv

LEMMA InvStep == IInv /\ [Next]_vars => IInv'
<1> SUFFICES ASSUME IInv, [Next]_vars PROVE IInv'
  OBVIOUS
<1>1. CASE Tick
  BY <1>1, InvTick
<1>2. CASE TickDuringCall
  BY <1>2, InvDuringCall
<1>3. ASSUME NEW p \in Guests, GuestMoves(p) \/ ExceptionHandler(p) \/ HyperCallTrap(p) \/ HyperCall(p)
      PROVE  IInv'
  BY <1>3, InvMoves, InvBody DEF HyperCall
<1>4. CASE UNCHANGED vars
  BY <1>4, TypeStep DEF vars, thread, IInv, CallGate, ContextHeld, RunsOwnWindow, TimerBelowPeriod,
     KilledEverywhere, PerfBehindCount, Ports
<1> QED
  BY <1>1, <1>2, <1>3, <1>4 DEF Next

\* The inductive invariant holds in every reachable state.
THEOREM Invariance == Spec => []IInv
<1> QED
  BY InvInit, InvStep, PTL DEF Spec

-----------------------------------------------------------------------------
\* What follows from it

\* iCallOn (rtl_time_8254.c:88) is an exact gate: no hypercall body is ever cut
\* in two by a switch of partitions.
THEOREM GateIsExact == Spec => []CallGate
<1>1. IInv => CallGate
  BY DEF IInv
<1> QED
  BY <1>1, Invariance, PTL

\* Spatial isolation at the processor: the descriptor table, the stacks, the
\* port permissions and the page directory are those of the running guest
\* whenever its own code can run (fLoadNewMemContext, spark_loadPDE,
\* spark_rhine_transmit).
THEOREM SpatialIsolation == Spec => []ContextMatches
<1>1. IInv => ContextMatches
  BY DEF IInv, ContextHeld, ContextMatches
<1> QED
  BY <1>1, Invariance, PTL

\* Temporal isolation: no guest runs outside its windows for longer than its
\* current hypercall hides ticks from spark_schedule.
THEOREM TemporalIsolation == Spec => []RunsOwnWindow
<1>1. IInv => RunsOwnWindow
  BY DEF IInv
<1> QED
  BY <1>1, Invariance, PTL

\* The == of timer_handler (rtl_time_8254.c:108) never misses: a virtual timer
\* is always below its period.
THEOREM VirtualTimerInRange == Spec => []TimerBelowPeriod
<1>1. IInv => TimerBelowPeriod
  BY DEF IInv
<1> QED
  BY <1>1, Invariance, PTL

\* The performance record of a cycle fits when the cycle is shorter than the
\* record, as it is in both schedules of the repository.
THEOREM RecordFits ==
  ASSUME Eta < MAX_NO_OF_SWITCHES
  PROVE  Spec => []PerfInBounds
<1>1. IInv => PerfInBounds
  <2> SUFFICES ASSUME IInv PROVE PerfInBounds
    OBVIOUS
  <2>1. perfIndex \in Nat /\ gCurrEtaCount - missed \in 0 .. Eta - 1 /\ perfIndex <= gCurrEtaCount - missed + 1
    BY DEF IInv, TypeOK, PerfBehindCount
  <2>2. gCurrEtaCount \in Nat /\ missed \in Nat /\ Eta \in Nat /\ MAX_NO_OF_SWITCHES \in Nat
    BY SizeAssumption DEF IInv, TypeOK
  <2> QED
    BY <2>1, <2>2 DEF PerfInBounds
<1> QED
  BY <1>1, Invariance, PTL

\* A killed guest is never given the processor again (kill_gos).
THEOREM KilledNeverReturns == Spec => KilledStaysOut
<1> DEFINE Out == \A g \in Guests : Killed(g) /\ iCurrGuestOsIndex # g => iCurrGuestOsIndex' # g
<1>1. IInv /\ [Next]_vars => [Out]_vars
  <2> SUFFICES ASSUME IInv, Next, NEW g \in Guests, Killed(g), iCurrGuestOsIndex # g
               PROVE  iCurrGuestOsIndex' # g
    BY DEF vars
  <2>1. CASE Tick
    <3>1. TypeOK
      BY DEF IInv
    <3>2. PICK k \in Windows : Schedule[k].gos_id = g /\ gos_id[k] = Spark
      BY DEF Killed
    <3>3. \A i \in Windows : gos_id[i] # g
      BY <3>1, <3>2, ConstantFacts DEF IInv, TypeOK, KilledEverywhere
    <3> QED
      BY <2>1, <3>1, <3>3, TickSwitches, ConstantFacts
  <2>2. ~Tick => UNCHANGED iCurrGuestOsIndex
    BY DEF Next, TickDuringCall, GuestMoves, ExceptionHandler, HyperCallTrap, HyperCall, SetICallOn,
           HyperCallBody, ret_from_hyper_call, HyperCallIret, TransmitBegin, TransmitEnd
  <2> QED
    BY <2>1, <2>2
<1> QED
  BY <1>1, Invariance, PTL DEF Spec, KilledStaysOut

-----------------------------------------------------------------------------
\* When no hypercall hides a tick, the dispatcher implements CyclicSchedule:
\* for every table without overlaps.


\* Windows do not overlap, and a window is covered where it starts.
LEMMA OneWindow ==
  ASSUME NEW i \in Windows, NEW j \in Windows, NEW c \in Nat, Covers(i, c)
  PROVE  /\ Covers(j, c) => i = j
         /\ Schedule[j].start_t = c => i = j
         /\ c \in 0 .. Eta - 1
<1>1. c \in 0 .. Eta - 1
  BY ConstantFacts, SizeAssumption DEF Covers
<1>2. Schedule[j].start_t = c => Covers(j, c)
  BY ConstantFacts DEF Covers
<1> QED
  BY <1>1, <1>2, ScheduleAssumption

\* After a tick that schedules, the partition of the window that covers it has
\* the processor, SParK outside the windows.
LEMMA TickHonours ==
  ASSUME TypeOK, Tick, WindowHonoured, missed = 0
  PROVE  /\ \A i \in Windows : Covers(i, gCurrEtaCount') => iCurrGuestOsIndex' = gos_id[i]
         /\ (\A i \in Windows : ~Covers(i, gCurrEtaCount')) => iCurrGuestOsIndex' = Spark
<1> DEFINE wrap == gCurrEtaCount + 1 >= Eta
           c    == IF wrap THEN 0 ELSE gCurrEtaCount + 1
<1>1. spark_schedule(wrap, c) /\ gCurrEtaCount' = c
  BY DEF Tick, CycleEnds
<1>2. c \in Nat /\ c \in 0 .. Eta - 1 /\ gCurrEtaCount \in Nat /\ Eta \in Nat
  BY TickCount, SizeAssumption DEF TypeOK
<1>3. ~wrap => gCurrEtaCount = c - 1 /\ gCurrEtaCount # Eta - 1
  BY <1>2
<1>4. wrap => c = 0
  OBVIOUS
<1> HIDE DEF wrap, c
<1>5. /\ Keeps(wrap, c) => iCurrGuestOsIndex' = iCurrGuestOsIndex
      /\ ~Keeps(wrap, c) => iCurrGuestOsIndex' = fGetNextGOSToSchedule(c)
  BY <1>1 DEF spark_schedule, spark_switch_to
<1>6. ASSUME NEW i \in Windows, Covers(i, c)
      PROVE  iCurrGuestOsIndex' = gos_id[i]
  <2>1. continue_same_context(iCurrGuestOsIndex, c) <=> gos_id[i] = iCurrGuestOsIndex
    BY <1>2, <1>6, OneWindow DEF continue_same_context
  <2>2. StartingAt(c) = IF Schedule[i].start_t = c THEN {i} ELSE {}
    BY <1>2, <1>6, OneWindow DEF StartingAt
  <2>3. CASE Schedule[i].start_t = c
    <3>1. StartingAt(c) # {} /\ i \in StartingAt(c)
      BY <2>2, <2>3
    <3> QED
      BY <1>5, <2>1, <3>1, FirstStarting DEF Keeps
  <2>4. CASE Schedule[i].start_t # c
    <3>1. c # 0
      BY <1>2, <1>6, <2>4, ConstantFacts DEF Covers
    <3>2. Covers(i, gCurrEtaCount) /\ ~wrap
      BY <1>2, <1>3, <1>4, <1>6, <2>4, <3>1, ConstantFacts DEF Covers
    <3>3. iCurrGuestOsIndex \in {gos_id[i], Schedule[i].gos_id}
      BY <1>3, <3>2 DEF WindowHonoured
    <3>4. gos_id[i] \in {Schedule[i].gos_id, Spark}
      BY DEF TypeOK
    <3>5. fGetNextGOSToSchedule(c) = Spark
      BY <2>2, <2>4 DEF fGetNextGOSToSchedule
    <3> QED
      BY <1>5, <2>1, <2>2, <2>4, <3>2, <3>3, <3>4, <3>5 DEF Keeps
  <2> QED
    BY <2>3, <2>4
<1>7. ASSUME \A i \in Windows : ~Covers(i, c)
      PROVE  iCurrGuestOsIndex' = Spark
  <2>1. StartingAt(c) = {}
    BY <1>2, <1>7, ConstantFacts DEF StartingAt, Covers
  <2>2. ~continue_same_context(iCurrGuestOsIndex, c)
    BY <1>7 DEF continue_same_context
  <2> QED
    BY <1>5, <2>1, <2>2 DEF Keeps, fGetNextGOSToSchedule
<1> QED
  BY <1>1, <1>6, <1>7

\* What the guests and their hypercalls leave alone.
LEMMA OnlyTicks ==
  ASSUME Next, ~Tick, ~TickDuringCall
  PROVE  UNCHANGED <<gCurrEtaCount, iCurrGuestOsIndex, started, missed>>
BY DEF Next, GuestMoves, ExceptionHandler, HyperCallTrap, HyperCall, SetICallOn, HyperCallBody,
       ret_from_hyper_call, HyperCallIret, TransmitBegin, TransmitEnd

\* The table changes in kill_gos alone, for all the windows of one guest.
LEMMA OnlyKills ==
  ASSUME Next
  PROVE  \/ UNCHANGED gos_id
         \/ /\ UNCHANGED <<gCurrEtaCount, iCurrGuestOsIndex, started, missed>>
            /\ \E g \in Guests :
                 gos_id' = [i \in Windows |-> IF gos_id[i] = g THEN Spark ELSE gos_id[i]]
<1>1. ASSUME NEW p \in Guests, HyperCallBody(p)
      PROVE  /\ UNCHANGED gos_id \/ \E g \in Partitions : kill_gos(g)
             /\ UNCHANGED <<gCurrEtaCount, iCurrGuestOsIndex, started, missed>>
  BY <1>1 DEF HyperCallBody, spark_registerTimer, spark_loadPDE, spark_setLevel2Stack, OtherHypercall,
              ret_from_hyper_call
<1>2. ASSUME NEW g \in Partitions, kill_gos(g), gos_id' # gos_id
      PROVE  g \in Guests /\ gos_id' = [i \in Windows |-> IF gos_id[i] = g THEN Spark ELSE gos_id[i]]
  <2>1. ~(g >= NUM_OF_GUESTOS)
    BY <1>2 DEF kill_gos
  <2>2. g \in Guests
    BY <2>1, SizeAssumption DEF Guests, Partitions
  <2> QED
    BY <1>2, <2>1, <2>2 DEF kill_gos
<1>3. ~(\E p \in Guests : HyperCallBody(p)) => UNCHANGED gos_id
  BY DEF Next, Tick, TickDuringCall, GuestMoves, ExceptionHandler, HyperCallTrap, HyperCall, SetICallOn,
         HyperCallIret, TransmitBegin, TransmitEnd
<1> QED
  BY <1>1, <1>2, <1>3

\* Without hidden ticks the windows are honoured in every state.
LEMMA HonouredStep ==
  ASSUME MaxCallTicks = 0, TypeOK, WindowHonoured, [Next]_vars
  PROVE  WindowHonoured'
<1>1. missed = 0 /\ ~TickDuringCall
  BY DEF TypeOK, TickDuringCall
<1>2. CASE Tick
  <2>1. \A i \in Windows : Covers(i, gCurrEtaCount') => iCurrGuestOsIndex' = gos_id[i]
    BY <1>1, <1>2, TickHonours
  <2>2. UNCHANGED gos_id
    BY <1>2 DEF Tick
  <2> QED
    BY <2>1, <2>2 DEF WindowHonoured, Covers
<1>3. CASE Next /\ ~Tick
  <2>1. UNCHANGED <<gCurrEtaCount, iCurrGuestOsIndex, started, missed>>
    BY <1>1, <1>3, OnlyTicks
  <2>2. \A i \in Windows : gos_id[i] \in {Schedule[i].gos_id, Spark}
    BY DEF TypeOK
  <2>3. CASE UNCHANGED gos_id
    BY <2>1, <2>3 DEF WindowHonoured, Covers
  <2>4. ASSUME NEW g \in Guests,
               gos_id' = [i \in Windows |-> IF gos_id[i] = g THEN Spark ELSE gos_id[i]]
        PROVE  WindowHonoured'
    <3>1. ASSUME NEW i \in Windows, iCurrGuestOsIndex \in {gos_id[i], Schedule[i].gos_id}
          PROVE  iCurrGuestOsIndex \in {gos_id'[i], Schedule[i].gos_id}
      BY <2>2, <2>4, <3>1, ConstantFacts
    <3> QED
      BY <2>1, <3>1 DEF WindowHonoured, Covers
  <2> QED
    BY <1>3, <2>3, <2>4, OnlyKills
<1>4. CASE UNCHANGED vars
  BY <1>4 DEF vars, WindowHonoured, Covers
<1> QED
  BY <1>2, <1>3, <1>4

LEMMA HonouredInit == Init => WindowHonoured
BY DEF Init, WindowHonoured

\* "Start at start_t the execution of gos_id till end_t" (rtl_sched.c:33): true
\* for every table when no hypercall hides a tick from spark_schedule.
THEOREM WindowsAreHonoured ==
  ASSUME MaxCallTicks = 0
  PROVE  Spec => []WindowHonoured
<1>1. Init => TypeOK /\ WindowHonoured
  BY TypeInit, HonouredInit
<1>2. TypeOK /\ WindowHonoured /\ [Next]_vars => (TypeOK /\ WindowHonoured)'
  BY TypeStep, HonouredStep
<1> QED
  BY <1>1, <1>2, PTL DEF Spec

-----------------------------------------------------------------------------
\* Refinement

\* The owner of a covered slot is the guest of its window.
LEMMA PlanOfWindow ==
  ASSUME NEW c \in 0 .. Eta - 1
  PROVE  /\ \A i \in Windows : Covers(i, c) => Plan[c] = Schedule[i].gos_id
         /\ (\A i \in Windows : ~Covers(i, c)) => Plan[c] = Spark
<1>1. ASSUME NEW i \in Windows, Covers(i, c)
      PROVE  Plan[c] = Schedule[i].gos_id
  <2>1. c \in Nat
    BY SizeAssumption
  <2>2. \A j \in Windows : Covers(j, c) => j = i
    BY <1>1, <2>1, OneWindow
  <2>3. (CHOOSE j \in Windows : Covers(j, c)) = i
    BY <1>1, <2>2
  <2> QED
    BY <1>1, <2>3 DEF Plan
<1> QED
  BY <1>1 DEF Plan

\* A tick of the dispatcher advances the abstract cycle.
LEMMA TickAdvances ==
  ASSUME MaxCallTicks = 0, IInv, WindowHonoured, Tick
  PROVE  Cyclic!Advance
<1>1. TypeOK /\ missed = 0 /\ Eta \in Nat \ {0} /\ gCurrEtaCount \in 0 .. Eta - 1
  BY SizeAssumption DEF IInv, TypeOK
<1>2. gCurrEtaCount' = IF gCurrEtaCount + 1 >= Eta THEN 0 ELSE gCurrEtaCount + 1
  BY DEF Tick, CycleEnds
<1>3. gCurrEtaCount' = (gCurrEtaCount + 1) % Eta /\ gCurrEtaCount' \in 0 .. Eta - 1
  <2>1. CASE gCurrEtaCount + 1 >= Eta
    <3>1. gCurrEtaCount + 1 = Eta
      BY <1>1, <2>1
    <3> QED
      BY <1>1, <1>2, <3>1
  <2>2. CASE ~(gCurrEtaCount + 1 >= Eta)
    BY <1>1, <1>2, <2>2
  <2> QED
    BY <2>1, <2>2
<1>4. UNCHANGED gos_id
  BY DEF Tick
<1>5. iCurrGuestOsIndex' = IF Plan[gCurrEtaCount'] \in {g \in Guests : Killed(g)} THEN Spark
                                                                             ELSE Plan[gCurrEtaCount']
  <2>1. CASE \E i \in Windows : Covers(i, gCurrEtaCount')
    <3>1. PICK i \in Windows : Covers(i, gCurrEtaCount')
      BY <2>1
    <3>2. Plan[gCurrEtaCount'] = Schedule[i].gos_id /\ iCurrGuestOsIndex' = gos_id[i]
      BY <1>1, <1>3, <3>1, PlanOfWindow, TickHonours
    <3>3. Killed(Schedule[i].gos_id) <=> gos_id[i] = Spark
      BY DEF IInv, KilledEverywhere, Killed
    <3>4. Schedule[i].gos_id \in Guests /\ gos_id[i] \in {Schedule[i].gos_id, Spark}
      BY <1>1, ConstantFacts DEF TypeOK
    <3> QED
      BY <3>2, <3>3, <3>4
  <2>2. CASE \A i \in Windows : ~Covers(i, gCurrEtaCount')
    <3>1. Plan[gCurrEtaCount'] = Spark /\ iCurrGuestOsIndex' = Spark
      BY <1>1, <1>3, <2>2, PlanOfWindow, TickHonours
    <3> QED
      BY <3>1
  <2> QED
    BY <2>1, <2>2
<1> QED
  BY <1>3, <1>4, <1>5 DEF Cyclic!Advance, Cyclic!LiveOwner, Killed

\* kill_gos kills the guest, or does nothing to one that has no window.
LEMMA KillKills ==
  ASSUME TypeOK, NEW g \in Guests,
         gos_id' = [i \in Windows |-> IF gos_id[i] = g THEN Spark ELSE gos_id[i]],
         UNCHANGED <<gCurrEtaCount, iCurrGuestOsIndex>>
  PROVE  Cyclic!Kill(g) \/ UNCHANGED Cyclic!vars
<1> DEFINE dead == {h \in Guests : Killed(h)}
<1>1. \A i \in Windows : gos_id[i] \in {Schedule[i].gos_id, Spark} /\ Schedule[i].gos_id \in Guests
  BY ConstantFacts DEF TypeOK
<1>2. \A h \in Guests \ {g} : Killed(h)' <=> Killed(h)
  BY <1>1, ConstantFacts DEF Killed
<1>3. Killed(g) => Killed(g)'
  BY <1>1, ConstantFacts DEF Killed
<1>4. dead' = dead \cup {g} \/ dead' = dead
  BY <1>2, <1>3
<1>5. g # Spark
  BY ConstantFacts
<1> QED
  BY <1>4, <1>5 DEF Cyclic!Kill, Cyclic!vars

\* Every step is a step of the abstract cycle or changes nothing it sees.
LEMMA StepRefines ==
  ASSUME MaxCallTicks = 0, IInv, WindowHonoured, [Next]_vars
  PROVE  [Cyclic!Next]_(Cyclic!vars)
<1>1. ~TickDuringCall /\ TypeOK
  BY DEF IInv, TypeOK, TickDuringCall
<1>2. CASE Tick
  BY <1>2, TickAdvances DEF Cyclic!Next
<1>3. CASE Next /\ ~Tick
  <2>1. UNCHANGED <<gCurrEtaCount, iCurrGuestOsIndex>>
    BY <1>1, <1>3, OnlyTicks
  <2>2. CASE UNCHANGED gos_id
    BY <2>1, <2>2 DEF Cyclic!vars, Killed
  <2>3. ASSUME NEW g \in Guests,
               gos_id' = [i \in Windows |-> IF gos_id[i] = g THEN Spark ELSE gos_id[i]]
        PROVE  [Cyclic!Next]_(Cyclic!vars)
    BY <1>1, <2>1, <2>3, KillKills, ConstantFacts DEF Cyclic!Next
  <2> QED
    BY <1>3, <2>2, <2>3, OnlyKills
<1>4. CASE UNCHANGED vars
  BY <1>4 DEF vars, Cyclic!vars, Killed
<1> QED
  BY <1>2, <1>3, <1>4

LEMMA InitRefines == Init => Cyclic!Init
<1> SUFFICES ASSUME Init PROVE Cyclic!Init
  OBVIOUS
<1>1. \A g \in Guests : ~Killed(g)
  BY ConstantFacts DEF Init, Killed
<1> QED
  BY <1>1 DEF Init, Cyclic!Init

\* The dispatcher implements the cyclic schedule it was given: for every table,
\* if no hypercall hides a tick, every slot of every cycle runs its owner, and
\* SParK the free slots and those of the killed.
THEOREM ScheduleImplemented ==
  ASSUME MaxCallTicks = 0
  PROVE  Spec => ImplementsSchedule
<1>1. Spec => []IInv
  BY Invariance
<1>2. Spec => []WindowHonoured
  BY WindowsAreHonoured
<1>3. IInv /\ WindowHonoured /\ [Next]_vars => [Cyclic!Next]_(Cyclic!vars)
  BY StepRefines
<1> QED
  BY <1>1, <1>2, <1>3, InitRefines, PTL DEF Spec, ImplementsSchedule, Cyclic!Spec
=============================================================================
