----------------------------- MODULE SparkSched -----------------------------
(***************************************************************************)
(* The partition scheduler of SParK: the 8254 tick, the cyclic dispatcher  *)
(* that runs from it, the hypercall gate that holds it off, the memory     *)
(* context that every switch loads, the virtual timer of a guest, and the  *)
(* hypercalls that change what these use.                                  *)
(*                                                                         *)
(* One processor runs one partition at a time.  mode[p] is the code p is   *)
(* in, or was in when it lost the processor:                               *)
(*   "idle"   the loop at the end of start_kernel (SParK's own thread)     *)
(*   "user"   a task of the guest                                          *)
(*   "kernel" the guest's kernel, the only code that may do hypercalls     *)
(*   "entry"  SParK's hyper_call before it sets iCallOn                    *)
(*   "hyper"  the body of a hypercall, iCallOn = 1                         *)
(*   "exit"   hyper_call after it cleared iCallOn, before its iret         *)
(* The hypercall gate is a trap gate: the tick may come in any of these.   *)
(***************************************************************************)
EXTENDS Integers, Sequences

CONSTANTS
  NUM_OF_GUESTOS,      \* guests are 0 .. NUM_OF_GUESTOS - 1
  MAX_TASK_PER_GUEST,  \* page directories of one guest
  MAX_NO_OF_SWITCHES,  \* size of the performance record of one cycle
  Eta,                 \* ticks in one cycle
  Schedule,            \* the windows of a cycle, as the image carries them
  TIMER_PERIOD,        \* time between two ticks
  Periods,             \* virtual timer periods the guests ask for
  MaxCallTicks,        \* bound: ticks that one hypercall can span
  RaceTicks,           \* may a tick hit hyper_call while iCallOn is 0?
  FaultyGuests         \* guests that can raise an exception

Guests     == 0 .. NUM_OF_GUESTOS - 1
Spark      == NUM_OF_GUESTOS
Partitions == 0 .. NUM_OF_GUESTOS
\* The hypercalls compare a signed task id with MAX_TASK_PER_GUEST only; what a
\* negative one loads is in SparkMem.
Tasks      == 0 .. MAX_TASK_PER_GUEST - 1
Windows    == DOMAIN Schedule
Modes      == {"idle", "user", "kernel", "entry", "hyper", "exit"}

\* Window i covers tick c of the cycle.
Covers(i, c) == Schedule[i].start_t <= c /\ c < Schedule[i].end_t

ASSUME SizeAssumption ==
  /\ NUM_OF_GUESTOS \in Nat \ {0}
  /\ MAX_TASK_PER_GUEST \in Nat \ {0}
  /\ MAX_NO_OF_SWITCHES \in Nat
  /\ Eta \in Nat \ {0}
  /\ TIMER_PERIOD \in Nat \ {0}
  /\ Periods \subseteq Nat
  /\ MaxCallTicks \in Nat
  /\ RaceTicks \in BOOLEAN
  /\ FaultyGuests \subseteq Guests

\* What the offline scheduler writes: windows inside the cycle that do not
\* overlap.  init_sched checks none of it.
ASSUME ScheduleAssumption ==
  /\ Schedule \in Seq([start_t : Nat, gos_id : Guests, end_t : Nat])
  /\ \A i \in Windows : /\ Schedule[i].start_t < Schedule[i].end_t
                        /\ Schedule[i].end_t <= Eta
  /\ \A i, j \in Windows : \A c \in 0 .. Eta - 1 :
       Covers(i, c) /\ Covers(j, c) => i = j

VARIABLES
  gCurrEtaCount,      \* the tick of the cycle
  gos_id,             \* the gos_id column of offline_schedule
  iCurrGuestOsIndex,  \* the partition that has the processor
  iCallOn,            \* 1 in the body of a hypercall
  mode,               \* see above
  started,            \* partitions that were dispatched at least once
  iTicks,             \* virtual timer period of each partition, in ticks
  iCurrTicks,         \* ticks since its last virtual timer interrupt
  iCurrTaskId,        \* the task whose page directory a partition uses
  level2Stack,        \* the task whose kernel stack a partition registered
  cpu,                \* what the processor has loaded: gdt, esp0 and esp2 in
                      \* the TSS, the ports of its io bitmap, cr3
  badFrames,          \* guests whose interrupt frame returns into SParK
  perfIndex,          \* index of the performance record of the cycle
  missed,             \* ticks since spark_schedule last ran
  halted              \* an exception handler spins with interrupts off

thread == <<iTicks, iCurrTicks, iCurrTaskId, level2Stack>>
vars == <<gCurrEtaCount, gos_id, iCurrGuestOsIndex, iCallOn, mode, started,
          thread, cpu, badFrames, perfIndex, missed, halted>>

\* The processor is with partition p, which executes in mode m.
In(p, m) == ~halted /\ iCurrGuestOsIndex = p /\ mode[p] = m

-----------------------------------------------------------------------------
\* Boot: cpu_init, init_page and init_sched, then SParK waits for the first
\* tick, which will start a cycle.

\* The ports a partition may use: the parallel port is guest 1's, the serial
\* port guest 2's; SParK's thread has a zero permission word for both.
PortOwner == [parallel |-> 1, serial |-> 2]
Ports(p)  == {d \in {"parallel", "serial"} : p \in {PortOwner[d], Spark}}

Init ==
  /\ gCurrEtaCount = Eta - 1
  /\ gos_id = [i \in Windows |-> Schedule[i].gos_id]
  /\ iCurrGuestOsIndex = Spark
  /\ iCallOn = 0
  /\ mode = [p \in Partitions |-> IF p = Spark THEN "idle" ELSE "kernel"]
  /\ started = {Spark}
  /\ iTicks = [p \in Partitions |-> 0]
  /\ iCurrTicks = [p \in Partitions |-> 0]
  /\ iCurrTaskId = [p \in Partitions |-> 0]
  /\ level2Stack = [p \in Partitions |-> 0]
  /\ cpu = [gdt |-> Spark, esp0 |-> Spark, esp2 |-> <<Spark, 0>>,
            ports |-> {}, cr3 |-> <<Spark, 0>>]
  /\ badFrames = {}
  /\ perfIndex = 0
  /\ missed = 0
  /\ halted = FALSE

-----------------------------------------------------------------------------
\* The dispatcher

\* A cycle ends when the counter reaches eta.
CycleEndsLate == gCurrEtaCount + 1 > Eta   \* mutant: one tick late
CycleEnds == gCurrEtaCount + 1 >= Eta

\* The record of a new cycle starts with index 0.
RecordNotReset(wrap) == perfIndex   \* mutant: the index is not reset
RecordBase(wrap) == IF wrap THEN 0 ELSE perfIndex

\* Mutants: the end of a window included; a window of anybody.
ContinueToEnd(g, c) ==
  \E i \in Windows : /\ Schedule[i].start_t <= c /\ c <= Schedule[i].end_t
                     /\ gos_id[i] = g
ContinueAnyWindow(g, c) == \E i \in Windows : Covers(i, c)

\* May partition g keep the processor in tick c?
continue_same_context(g, c) ==
  \E i \in Windows : Covers(i, c) /\ gos_id[i] = g

\* Mutant: the search stops before the last window.
StartingButLast(c) ==
  {i \in Windows : Schedule[i].start_t = c /\ i < Len(Schedule)}

\* The partition whose window starts exactly in tick c.
StartingAt(c) == {i \in Windows : Schedule[i].start_t = c}
fGetNextGOSToSchedule(c) ==
  LET first == CHOOSE i \in StartingAt(c) : \A j \in StartingAt(c) : i <= j
  IN  IF StartingAt(c) = {} THEN Spark ELSE gos_id[first]

\* Mutant: the ports of the partition before stay open.
LoadKeepsPorts(next) ==
  cpu' = [gdt   |-> next,
          esp0  |-> next,
          esp2  |-> <<next, level2Stack[next]>>,
          ports |-> Ports(next) \cup cpu.ports,
          cr3   |-> <<next, iCurrTaskId[next]>>]

fLoadNewMemContext(next) ==
  cpu' = [gdt   |-> next,
          esp0  |-> next,
          esp2  |-> <<next, level2Stack[next]>>,
          ports |-> Ports(next),
          cr3   |-> <<next, iCurrTaskId[next]>>]

\* What the store of the clock into the partition's memory does there is in
\* GuestSched; the last key, which a switch delivers again, is left out.
spark_switch_to(next) ==
  /\ iCurrGuestOsIndex' = next
  /\ fLoadNewMemContext(next)
  /\ started' = started \cup {next}

\* Nothing is switched when the partition may go on, which is not asked at
\* the start of a cycle, or when nobody's window starts and SParK has the
\* processor already.
Keeps(wrap, c) ==
  \/ ~wrap /\ continue_same_context(iCurrGuestOsIndex, c)
  \/ StartingAt(c) = {} /\ iCurrGuestOsIndex = Spark

\* The index of the record is incremented after the switch, where a partition
\* that is dispatched for the first time does not return to.
spark_schedule(wrap, c) ==
  LET base == RecordBase(wrap)
      next == fGetNextGOSToSchedule(c)
  IN  \/ /\ Keeps(wrap, c)
         /\ perfIndex' = base
         /\ UNCHANGED <<iCurrGuestOsIndex, cpu, started>>
      \/ /\ ~Keeps(wrap, c)
         /\ spark_switch_to(next)
         /\ perfIndex' = IF next \in started THEN base + 1 ELSE base

\* The return address and the stack of the interrupted code go to the guest's
\* stack, and the frame now leads to the guest's timer handler.  The comment
\* at rtl_time_8254.c:128 expects a guest "interrupted when it is running in
\* user mode"; the branch asks only that it is not the guest's kernel.  If the
\* interrupted code was hyper_call itself, that address is in SParK.
InjectTimer(p) ==
  /\ mode' = [mode EXCEPT ![p] = "kernel"]
  /\ badFrames' = IF mode[p] \in {"entry", "exit"} THEN badFrames \cup {p}
                                                   ELSE badFrames

\* Mutant: the count stops below the period and the timer never fires.
TimerNeverFires(p) ==
  /\ iCurrTicks' = [iCurrTicks EXCEPT ![p] = IF @ + 1 < iTicks[p] THEN @ + 1
                                                                  ELSE @]
  /\ UNCHANGED <<mode, badFrames>>

\* The part of timer_handler after spark_schedule, run by partition p.  One
\* that is dispatched for the first time skips it and has no timer yet.
VirtualTimer(p) ==
  \/ /\ iTicks[p] = 0
     /\ UNCHANGED <<iCurrTicks, mode, badFrames>>
  \/ /\ iTicks[p] # 0
     /\ iCurrTicks[p] + 1 # iTicks[p]
     /\ iCurrTicks' = [iCurrTicks EXCEPT ![p] = @ + 1]
     /\ UNCHANGED <<mode, badFrames>>
  \/ /\ iTicks[p] # 0
     /\ iCurrTicks[p] + 1 = iTicks[p]
     /\ iCurrTicks' = [iCurrTicks EXCEPT ![p] = 0]
     /\ InjectTimer(p)

\* The tick finds a hypercall in progress: it is counted and nothing is done.
TickDuringCall ==
  /\ ~halted
  /\ iCallOn = 1
  /\ missed < MaxCallTicks
  /\ gCurrEtaCount' = gCurrEtaCount + 1
  /\ missed' = missed + 1
  /\ UNCHANGED <<gos_id, iCurrGuestOsIndex, iCallOn, mode, started, thread,
                 cpu, badFrames, perfIndex, halted>>

\* The tick schedules.
Tick ==
  LET wrap == CycleEnds
      c    == IF wrap THEN 0 ELSE gCurrEtaCount + 1
  IN  /\ ~halted
      /\ iCallOn = 0
      /\ mode[iCurrGuestOsIndex] \in {"entry", "exit"} => RaceTicks
      /\ gCurrEtaCount' = c
      /\ missed' = 0
      /\ spark_schedule(wrap, c)
      /\ VirtualTimer(iCurrGuestOsIndex')
      /\ UNCHANGED <<gos_id, iCallOn, iTicks, iCurrTaskId, level2Stack,
                     halted>>

-----------------------------------------------------------------------------
\* The guest that has the processor

Goes(p, m) == mode' = [mode EXCEPT ![p] = m]

\* The guest kernel runs a task, or a task calls the guest kernel.
GuestMoves(p) ==
  /\ \/ In(p, "kernel") /\ Goes(p, "user")
     \/ In(p, "user") /\ Goes(p, "kernel")
  /\ UNCHANGED <<gCurrEtaCount, gos_id, iCurrGuestOsIndex, iCallOn, started,
                 thread, cpu, badFrames, perfIndex, missed, halted>>

\* Exceptions 13 and 14 print and spin; the gate cleared the interrupt flag.
\* An iret of the guest that leads into SParK is such an exception.
ExceptionHandler(p) ==
  /\ \/ p \in FaultyGuests /\ (In(p, "kernel") \/ In(p, "user"))
     \/ p \in badFrames /\ In(p, "kernel")
  /\ halted' = TRUE
  /\ UNCHANGED <<gCurrEtaCount, gos_id, iCurrGuestOsIndex, iCallOn, mode,
                 started, thread, cpu, badFrames, perfIndex, missed>>

-----------------------------------------------------------------------------
\* The hypercall gate

HyperCallTrap(p) ==
  /\ In(p, "kernel")
  /\ Goes(p, "entry")
  /\ UNCHANGED <<gCurrEtaCount, gos_id, iCurrGuestOsIndex, iCallOn, started,
                 thread, cpu, badFrames, perfIndex, missed, halted>>

SetICallOn(p) ==
  /\ In(p, "entry")
  /\ iCallOn' = 1
  /\ Goes(p, "hyper")
  /\ UNCHANGED <<gCurrEtaCount, gos_id, iCurrGuestOsIndex, started, thread,
                 cpu, badFrames, perfIndex, missed, halted>>

\* Mutant: iCallOn stays set.
RetKeepsICallOn(p) ==
  /\ In(p, "hyper")
  /\ Goes(p, "exit")
  /\ UNCHANGED <<gCurrEtaCount, iCurrGuestOsIndex, iCallOn, started, badFrames,
                 perfIndex, missed, halted>>

\* The last step of every hypercall: its result is stored, iCallOn cleared.
ret_from_hyper_call(p) ==
  /\ In(p, "hyper")
  /\ iCallOn' = 0
  /\ Goes(p, "exit")
  /\ UNCHANGED <<gCurrEtaCount, iCurrGuestOsIndex, started, badFrames,
                 perfIndex, missed, halted>>

HyperCallIret(p) ==
  /\ In(p, "exit")
  /\ Goes(p, "kernel")
  /\ UNCHANGED <<gCurrEtaCount, gos_id, iCurrGuestOsIndex, iCallOn, started,
                 thread, cpu, badFrames, perfIndex, missed, halted>>

-----------------------------------------------------------------------------
\* The hypercalls

\* Mutant: the count of the old timer goes on.
RegisterKeepsCount(p, iPeriod) ==
  /\ iTicks' = [iTicks EXCEPT ![p] = iPeriod \div TIMER_PERIOD]
  /\ UNCHANGED <<gos_id, iCurrTicks, iCurrTaskId, level2Stack, cpu>>

\* A period shorter than the tick gives 0 ticks: no virtual timer.
spark_registerTimer(p, iPeriod) ==
  /\ iTicks' = [iTicks EXCEPT ![p] = iPeriod \div TIMER_PERIOD]
  /\ iCurrTicks' = [iCurrTicks EXCEPT ![p] = 0]
  /\ UNCHANGED <<gos_id, iCurrTaskId, level2Stack, cpu>>

spark_loadPDE(p, iProcessId) ==
  /\ IF iProcessId >= MAX_TASK_PER_GUEST
     THEN UNCHANGED <<iCurrTaskId, cpu>>
     ELSE /\ iCurrTaskId' = [iCurrTaskId EXCEPT ![p] = iProcessId]
          /\ cpu' = [cpu EXCEPT !.cr3 = <<p, iProcessId>>]
  /\ UNCHANGED <<gos_id, iTicks, iCurrTicks, level2Stack>>

spark_setLevel2Stack(p, l2Stack) ==
  /\ level2Stack' = [level2Stack EXCEPT ![p] = l2Stack]
  /\ cpu' = [cpu EXCEPT !.esp2 = <<p, l2Stack>>]
  /\ UNCHANGED <<gos_id, iTicks, iCurrTicks, iCurrTaskId>>

\* Mutant: the loop ends with the first window of the guest.
KillFirstWindow(g) ==
  /\ gos_id' = [i \in Windows |->
                  IF gos_id[i] = g /\ (\A j \in Windows : gos_id[j] = g => i <= j)
                  THEN Spark ELSE gos_id[i]]
  /\ UNCHANGED <<thread, cpu>>

\* Every window of the guest becomes SParK's; an id that is no guest's is
\* refused.
kill_gos(g) ==
  /\ gos_id' = IF g >= NUM_OF_GUESTOS THEN gos_id
               ELSE [i \in Windows |-> IF gos_id[i] = g THEN Spark
                                                        ELSE gos_id[i]]
  /\ UNCHANGED <<thread, cpu>>

\* The hypercalls that change nothing modelled here.
OtherHypercall == UNCHANGED <<gos_id, thread, cpu>>

HyperCallBody(p) ==
  /\ ret_from_hyper_call(p)
  /\ cpu.cr3 # <<Spark, 0>>
  /\ \/ \E iPeriod \in Periods : spark_registerTimer(p, iPeriod)
     \/ \E t \in Tasks \cup {MAX_TASK_PER_GUEST} : spark_loadPDE(p, t)
     \/ \E t \in Tasks : spark_setLevel2Stack(p, t)
     \/ \E g \in Partitions : kill_gos(g)
     \/ OtherHypercall

\* The network driver runs on SParK's page directory, then the directory of
\* the caller's current task is loaded again.
TransmitBegin(p) ==
  /\ In(p, "hyper")
  /\ cpu.cr3 # <<Spark, 0>>
  /\ cpu' = [cpu EXCEPT !.cr3 = <<Spark, 0>>]
  /\ UNCHANGED <<gCurrEtaCount, gos_id, iCurrGuestOsIndex, iCallOn, mode,
                 started, thread, badFrames, perfIndex, missed, halted>>

TransmitEnd(p) ==
  /\ ret_from_hyper_call(p)
  /\ cpu.cr3 = <<Spark, 0>>
  /\ cpu' = [cpu EXCEPT !.cr3 = <<p, iCurrTaskId[p]>>]
  /\ UNCHANGED <<gos_id, thread>>

-----------------------------------------------------------------------------
HyperCall(p) ==
  \/ SetICallOn(p)
  \/ HyperCallBody(p)
  \/ TransmitBegin(p)
  \/ TransmitEnd(p)
  \/ HyperCallIret(p)

Next ==
  \/ Tick
  \/ TickDuringCall
  \/ \E p \in Guests : \/ GuestMoves(p)
                       \/ ExceptionHandler(p)
                       \/ HyperCallTrap(p)
                       \/ HyperCall(p)

Spec == Init /\ [][Next]_vars

-----------------------------------------------------------------------------
\* Properties

\* Guest g had windows and was killed.
Killed(g) == \E i \in Windows : Schedule[i].gos_id = g /\ gos_id[i] = Spark

\* Every variable has its type: the tick stays in the cycle but for the ticks
\* a hypercall hides, and a window is its guest's or SParK's.
TypeOK ==
  /\ gCurrEtaCount \in Nat
  /\ gCurrEtaCount - missed \in 0 .. Eta - 1
  /\ gos_id \in [Windows -> Partitions]
  /\ \A i \in Windows : gos_id[i] \in {Schedule[i].gos_id, Spark}
  /\ iCurrGuestOsIndex \in Partitions
  /\ iCallOn \in {0, 1}
  /\ mode \in [Partitions -> Modes]
  /\ started \in SUBSET Partitions
  /\ iTicks \in [Partitions -> Nat]
  /\ iCurrTicks \in [Partitions -> Nat]
  /\ iCurrTaskId \in [Partitions -> Tasks]
  /\ level2Stack \in [Partitions -> Tasks]
  /\ cpu \in [gdt : Partitions, esp0 : Partitions, esp2 : Partitions \X Tasks,
               ports : SUBSET {"parallel", "serial"},
               cr3 : Partitions \X Tasks]
  /\ badFrames \in SUBSET Partitions
  /\ perfIndex \in Nat
  /\ missed \in 0 .. MaxCallTicks
  /\ halted \in BOOLEAN

\* The gate of the dispatcher is exact (rtl_time_8254.c:88): iCallOn is set if
\* and only if the running partition is in the body of a hypercall, and a
\* partition that lost the processor is never in one, so no hypercall body is
\* ever cut in two by a switch.
CallGate ==
  /\ iCallOn = 1 <=> mode[iCurrGuestOsIndex] = "hyper"
  /\ \A p \in Partitions \ {iCurrGuestOsIndex} : mode[p] # "hyper"

\* Spatial isolation at the processor: whenever a guest's own code runs, or
\* SParK returns to it, everything fLoadNewMemContext loads is that guest's,
\* for the task and the kernel stack the guest last asked for, however
\* switches, loads of page directories and transmissions were interleaved.
ContextMatches ==
  LET p == iCurrGuestOsIndex
  IN  p \in Guests /\ mode[p] # "hyper" =>
        /\ cpu.gdt = p /\ cpu.esp0 = p /\ cpu.ports = Ports(p)
        /\ cpu.esp2 = <<p, level2Stack[p]>>
        /\ cpu.cr3 = <<p, iCurrTaskId[p]>>

\* Temporal isolation: a guest has the processor only in its own windows of
\* the table, longer by at most the ticks its current hypercall hides; an
\* invariant about where the cycle was when spark_schedule last ran.
RunsOwnWindow ==
  iCurrGuestOsIndex # Spark =>
    \E i \in Windows : /\ Schedule[i].gos_id = iCurrGuestOsIndex
                       /\ Covers(i, gCurrEtaCount - missed)

\* "Start at start_t the execution of gos_id till end_t" (rtl_sched.c:33): once
\* spark_schedule ran in a tick of a window, the partition of the window has
\* the processor, or was killed and is in the tick it was killed in.  Only the
\* tick before the first one, when SParK boots, is nobody's.
WindowHonoured ==
  \A i \in Windows :
    Covers(i, gCurrEtaCount) /\ missed = 0 =>
      \/ iCurrGuestOsIndex \in {gos_id[i], Schedule[i].gos_id}
      \/ started = {Spark} /\ gCurrEtaCount = Eta - 1

\* A guest that was killed (kill_gos) is never given the processor again.
KilledStaysOut ==
  [][\A g \in Guests : Killed(g) /\ iCurrGuestOsIndex # g
                         => iCurrGuestOsIndex' # g]_vars

\* The virtual timer compares with == (rtl_time_8254.c:108): a count at or
\* past the period would never match again and the guest would lose its timer
\* for good, also when it registers a shorter period in mid-count.
TimerBelowPeriod ==
  \A p \in Partitions : iTicks[p] # 0 => iCurrTicks[p] < iTicks[p]

\* The record of the cycle is written at index and index + 1 (rtl_sched.c:247
\* to 251), so the switches of a cycle, those to SParK included, must not be
\* more than the record has room for; nothing in the code counts them.
PerfInBounds == perfIndex < MAX_NO_OF_SWITCHES

\* Every guest with a window gets the processor again and again until it is
\* killed, whatever the other guests do, as long as nothing halts.
DispatchedForever ==
  \A i \in Windows :
    []<>(iCurrGuestOsIndex = Schedule[i].gos_id \/ gos_id[i] = Spark \/ halted)

\* A virtual timer that has begun to count is delivered, unless the guest is
\* killed or everything halts.
TimerDelivered ==
  \A g \in Guests : iCurrTicks[g] # 0 ~> iCurrTicks[g] = 0 \/ Killed(g) \/ halted

-----------------------------------------------------------------------------
\* The inductive invariant: what ContextMatches, KilledStaysOut and
\* PerfInBounds need to know of the states in between.

\* In the body of a hypercall only cr3 may be SParK's, during a transmission.
ContextHeld ==
  LET p == iCurrGuestOsIndex
  IN  p \in Guests =>
        /\ cpu.gdt = p /\ cpu.esp0 = p /\ cpu.ports = Ports(p)
        /\ cpu.esp2 = <<p, level2Stack[p]>>
        /\ \/ cpu.cr3 = <<p, iCurrTaskId[p]>>
           \/ mode[p] = "hyper" /\ cpu.cr3 = <<Spark, 0>>

\* kill_gos takes all the windows of a guest or none.
KilledEverywhere ==
  \A i, j \in Windows : Schedule[i].gos_id = Schedule[j].gos_id =>
                         (gos_id[i] = Spark <=> gos_id[j] = Spark)

\* A cycle has at most one switch in each of its ticks.
PerfBehindCount == perfIndex <= gCurrEtaCount - missed + 1

\* The inductive invariant of the scheduler: its conjuncts hold together in
\* every reachable state.
IInv ==
  /\ TypeOK
  /\ CallGate
  /\ ContextHeld
  /\ RunsOwnWindow
  /\ TimerBelowPeriod
  /\ KilledEverywhere
  /\ PerfBehindCount

-----------------------------------------------------------------------------
\* With every tick scheduled the dispatcher implements the cyclic schedule.
Plan == [c \in 0 .. Eta - 1 |->
           IF \E i \in Windows : Covers(i, c)
           THEN Schedule[CHOOSE i \in Windows : Covers(i, c)].gos_id
           ELSE Spark]
Cyclic == INSTANCE CyclicSchedule WITH
            slot    <- gCurrEtaCount,
            running <- iCurrGuestOsIndex,
            dead    <- {g \in Guests : Killed(g)}
ImplementsSchedule == Cyclic!Spec
=============================================================================
