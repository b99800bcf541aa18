----------------------------- MODULE GuestSched -----------------------------
(***************************************************************************)
(* The scheduler of a guest: periodic tasks of a partition that make       *)
(* themselves periodic, wait for their next release, and are dispatched by *)
(* rtl_schedule, which runs in the handler of the virtual timer and in     *)
(* pthread_wait_np.  SParK appears as its tick, the clock it writes into   *)
(* the guest at a switch, and the directory and stack it was told to use.  *)
(*                                                                         *)
(* The system calls go through trap gates, so the virtual timer may hit    *)
(* rtl_schedule itself.  Every thread has a stack of activations of        *)
(* rtl_schedule; an empty one stands for its own code.                     *)
(*                                                                         *)
(* Time is counted in ticks of SParK.  The release time of a task is kept  *)
(* as its distance from the guest's clock, and the clock modulo Hyper.     *)
(***************************************************************************)
EXTENDS Integers, Sequences, FiniteSets

CONSTANTS
  NumTasks,
  Period,        \* of each task, in ticks
  Priority,      \* of each thread
  ContextId,     \* of each thread: the directory registered for it
  Resolution,    \* period of the virtual timer, in ticks
  Hyper,         \* a multiple of all periods
  MaxAway,       \* bound: ticks the partition is switched out
  MaxHidden,     \* bound: ticks in hypercalls between two switches
  MaxNesting,    \* bound: activations of rtl_schedule on one stack
  Infinity       \* HRTIME_INFINITY

\* The threads in the order of the list rtl_tasks; the idle task is its last.
Tasks == 1 .. NumTasks
idle == NumTasks + 1
Threads == 1 .. idle

ASSUME GuestAssumption ==
  /\ NumTasks \in Nat \ {0}
  /\ Period \in [Tasks -> Nat \ {0}]
  /\ Priority \in [Threads -> Nat]
  /\ \A t \in Tasks : Priority[t] >= Priority[idle]
  /\ ContextId \in [Threads -> Nat]
  /\ Resolution \in Nat \ {0}
  /\ Hyper \in Nat \ {0}
  /\ \A t \in Tasks : Hyper % Period[t] = 0
  /\ MaxAway \in Nat
  /\ MaxHidden \in Nat
  /\ MaxNesting \in Nat \ {0}
  /\ Infinity \notin Int

VARIABLES
  value,        \* _i8254_clock.value of the guest, modulo Hyper
  ahead,        \* how far it is ahead of SParK's clock
  iCurrTicks,   \* ticks since the last interrupt of the virtual timer
  due,          \* resume_time - value of each task
  period,       \* of each task: 0 until it made itself periodic
  pending,      \* signals of each thread
  rtl_current,
  stack,        \* of each thread: its activations of rtl_schedule
  iCurrTaskId,  \* the directory SParK has loaded for the guest
  level2        \* the thread whose stack SParK pushes frames on

clock  == <<value, ahead, iCurrTicks>>
thread == <<due, period, pending>>
vars == <<clock, thread, rtl_current, stack, iCurrTaskId, level2>>

\* start_kernel: the idle task runs, the others were created and are ready.
Init ==
  /\ value = 0 /\ ahead = 0 /\ iCurrTicks = 0
  /\ due = [t \in Tasks |-> Infinity]
  /\ period = [t \in Tasks |-> 0]
  /\ pending = [t \in Threads |-> {"READY"}]
  /\ rtl_current = idle
  /\ stack = [t \in Threads |-> <<>>]
  /\ iCurrTaskId = 0
  /\ level2 = idle

Runs(t) == rtl_current = t /\ stack[t] = <<>>

\* The activation that is executed, and what becomes of it.
At(pc) == stack[rtl_current] # <<>> /\ Head(stack[rtl_current]).pc = pc
Chosen == Head(stack[rtl_current]).new_task
Frame(pc, t) == [pc |-> pc, new_task |-> t]
none == 0
Goto(f) == stack' = [stack EXCEPT ![rtl_current] = <<f>> \o Tail(@)]
Call    == stack' = [stack EXCEPT ![rtl_current] = <<Frame("pick", none)>> \o @]
Return  == stack' = [stack EXCEPT ![rtl_current] = Tail(@)]

-----------------------------------------------------------------------------
\* The clock moves by step and with it the distance of every release.
Advance(step) ==
  /\ value' = (value + step) % Hyper
  /\ due' = [t \in Tasks |-> IF due[t] = Infinity THEN Infinity ELSE due[t] - step]

NoReset == iCurrTicks + 1   \* mutant
NextCount == (iCurrTicks + 1) % Resolution

\* A tick of SParK in a window of the guest.  If the partition was switched in
\* at this tick, SParK writes its own clock into the guest's.  Every Resolution
\* ticks it injects the virtual timer: timer_irq_handler moves the clock and
\* calls rtl_schedule.
Tick(switched, away) ==
  LET fires == iCurrTicks + 1 = Resolution
      seen  == IF switched THEN 1 + away - ahead ELSE 0
      irq   == IF fires THEN Resolution ELSE 0
  IN  /\ Advance(seen + irq)
      /\ ahead' = (IF switched THEN 0 ELSE ahead - 1) + irq
      /\ iCurrTicks' = NextCount
      /\ IF fires THEN Len(stack[rtl_current]) < MaxNesting /\ Call
                  ELSE UNCHANGED stack
      /\ UNCHANGED <<period, pending, rtl_current, iCurrTaskId, level2>>

SparkTick == Tick(FALSE, 0) \/ \E away \in 0 .. MaxAway : Tick(TRUE, away)

\* A tick during a hypercall of the guest moves SParK's clock only.
HiddenTick ==
  /\ ahead + iCurrTicks > -MaxHidden
  /\ ahead' = ahead - 1
  /\ UNCHANGED <<value, iCurrTicks, thread, rtl_current, stack, iCurrTaskId, level2>>

-----------------------------------------------------------------------------
\* rtl_schedule

\* The tasks whose release time has come.
Released == {t \in Tasks : due[t] # Infinity /\ due[t] <= 0}

\* resume_time is a multiple of the period; the loop takes it past the clock.
NextButOne(t) == 2 * period[t] - (value % period[t])   \* mutant: a round too many
NextRelease(t) == period[t] - (value % period[t])

\* cmp_prio: u is taken before t.
Before(u, t) == Priority[u] > Priority[t] \/ (Priority[u] = Priority[t] /\ u < t)

\* The signals once the releases are sent.
Sent == [t \in Threads |-> pending[t] \cup (IF t \in Released THEN {"TIMER"} ELSE {})]

\* Mutant: a thread that only has the signal of its release is passed over.
ReadyOnly == {t \in Threads : "READY" \in Sent[t]}
Signalled == {t \in Threads : Sent[t] # {}}

\* The first thread of the highest priority with a signal.  When the loop is
\* run again it starts from the thread it chose before.
Best ==
  IF Chosen # none /\ \A t \in Signalled : Priority[t] <= Priority[Chosen]
  THEN Chosen
  ELSE CHOOSE t \in Signalled : \A u \in Signalled : ~Before(u, t)

\* Mutant: the release time of a periodic task is taken for the last.
PickOnce ==
  /\ At("pick")
  /\ pending' = Sent
  /\ due' = [t \in Tasks |-> IF t \in Released THEN Infinity ELSE due[t]]
  /\ Goto(Frame(IF rtl_current = Best THEN "signal" ELSE "load", Best))
  /\ UNCHANGED <<clock, period, rtl_current, iCurrTaskId, level2>>

\* The loop over the tasks.
Pick ==
  /\ At("pick")
  /\ pending' = Sent
  /\ due' = [t \in Tasks |-> IF t \notin Released THEN due[t]
                             ELSE IF period[t] # 0 THEN NextRelease(t) ELSE Infinity]
  /\ Goto(Frame(IF rtl_current = Best THEN "signal" ELSE "load", Best))
  /\ UNCHANGED <<clock, period, rtl_current, iCurrTaskId, level2>>

LoadPDE ==
  /\ At("load")
  /\ iCurrTaskId' = ContextId[Chosen]
  /\ Goto(Frame("level2", Chosen))
  /\ UNCHANGED <<clock, thread, rtl_current, level2>>

\* Mutant: SParK is not told.
KeepLevel2Stack ==
  /\ At("level2")
  /\ Goto(Frame("switch", Chosen))
  /\ UNCHANGED <<clock, thread, rtl_current, iCurrTaskId, level2>>

SetLevel2Stack ==
  /\ At("level2")
  /\ level2' = Chosen
  /\ Goto(Frame("switch", Chosen))
  /\ UNCHANGED <<clock, thread, rtl_current, iCurrTaskId>>

\* The other thread goes on where it was switched out, a new one in its own
\* code.
rtl_switch_to ==
  /\ At("switch")
  /\ rtl_current' = Chosen
  /\ Goto(Frame("signal", Chosen))
  /\ UNCHANGED <<clock, thread, iCurrTaskId, level2>>

\* do_signal, and around again if the thread is not ready.
do_signal ==
  LET left == IF "TIMER" \in pending[rtl_current] THEN {"READY"} ELSE pending[rtl_current]
  IN  /\ At("signal")
      /\ pending' = [pending EXCEPT ![rtl_current] = left]
      /\ IF "READY" \in left THEN Return ELSE Goto(Frame("pick", Chosen))
      /\ UNCHANGED <<clock, due, period, rtl_current, iCurrTaskId, level2>>

rtl_schedule == Pick \/ LoadPDE \/ SetLevel2Stack \/ rtl_switch_to \/ do_signal

-----------------------------------------------------------------------------
\* System calls of the tasks

\* The first thing a task does.  resume_time becomes 0, which is long past.
pthread_make_periodic_np(t) ==
  /\ Runs(t)
  /\ period[t] = 0
  /\ period' = [period EXCEPT ![t] = Period[t]]
  /\ due' = [due EXCEPT ![t] = -Hyper]
  /\ UNCHANGED <<clock, pending, rtl_current, stack, iCurrTaskId, level2>>

\* The end of a job: not ready, and rtl_schedule is called.
pthread_wait_np(t) ==
  /\ Runs(t)
  /\ period[t] # 0
  /\ pending' = [pending EXCEPT ![t] = @ \ {"READY"}]
  /\ Call
  /\ UNCHANGED <<clock, due, period, rtl_current, iCurrTaskId, level2>>

Next ==
  \/ SparkTick
  \/ HiddenTick
  \/ rtl_schedule
  \/ \E t \in Tasks : pthread_make_periodic_np(t) \/ pthread_wait_np(t)

Spec == Init /\ [][Next]_vars

\* SParK's ticks go on (DispatchedForever of SparkSched), the kernel runs, and
\* a task makes itself periodic.  That a job ends is not assumed.
Fairness ==
  /\ SF_vars(SparkTick)
  /\ WF_vars(rtl_schedule)
  /\ \A t \in Tasks : SF_vars(pthread_make_periodic_np(t))

FairSpec == Spec /\ Fairness

-----------------------------------------------------------------------------
\* Properties

Pcs == {"pick", "load", "level2", "switch", "signal"}

TypeOK ==
  /\ value \in 0 .. Hyper - 1
  /\ ahead \in -(MaxHidden + Resolution) .. Resolution
  /\ iCurrTicks \in 0 .. Resolution - 1
  /\ due \in [Tasks -> Int \cup {Infinity}]
  /\ period \in [Tasks -> Nat] /\ \A t \in Tasks : period[t] \in {0, Period[t]}
  /\ pending \in [Threads -> SUBSET {"READY", "TIMER"}]
  /\ rtl_current \in Threads
  /\ stack \in [Threads -> Seq([pc : Pcs, new_task : Threads \cup {none}])]
  /\ iCurrTaskId \in Nat
  /\ level2 \in Threads

\* A task runs its own code on its own directory, and SParK pushes the frames
\* of its interrupts on its own stack.
OwnContext ==
  \A t \in Tasks : Runs(t) => iCurrTaskId = ContextId[t] /\ level2 = t

\* Nobody's code runs while a thread that comes before it has a signal.  Only
\* before its first interrupt the idle task runs though the tasks are ready.
HighestRuns ==
  \A t, u \in Threads :
    Runs(t) /\ Before(u, t) /\ pending[u] # {} => t = idle /\ \A v \in Threads : stack[v] = <<>>

\* A task that waits is released within its period, or a little later when
\* SParK sets the clock back; it never sleeps for good.
WakesUp ==
  \A t \in Tasks :
    "READY" \notin pending[t] => due[t] # Infinity /\ due[t] <= Period[t] + Resolution

\* A task that waits runs again: the first one whatever the others do, every
\* other one if the guest is idle again and again.
First == CHOOSE t \in Tasks : \A u \in Tasks \ {t} : Before(t, u)
WaitsThenRuns ==
  \A t \in Tasks :
    t = First \/ []<>Runs(idle) => ("READY" \notin pending[t] ~> Runs(t))
=============================================================================
