------------------------- MODULE GuestSched_proofs -------------------------
(***************************************************************************)
(* Proofs about the guest scheduler when the virtual timer does not hit    *)
(* rtl_schedule itself (MaxNesting = 1): for every number of tasks, every  *)
(* choice of periods, priorities and directories and every pattern in      *)
(* which SParK switches the partition out, the tasks run in their own      *)
(* context, nobody runs before a thread that comes before it, and whoever  *)
(* waits has a release time within its period.                             *)
(***************************************************************************)
EXTENDS GuestSched, FiniteSetTheorems, WellFoundedInduction, TLAPS

-----------------------------------------------------------------------------
\* The inductive invariant

Own(t) == t \in Tasks => iCurrTaskId = ContextId[t] /\ level2 = t
Unbeaten(t) == \A u \in Threads : Before(u, t) => pending[u] = {}

\* Whose turn it is at every point of rtl_schedule.
Activation ==
  /\ At("pick") => Own(rtl_current) /\ Chosen = none
  /\ At("load") \/ At("level2") \/ At("switch") =>
       Chosen \in Threads /\ pending[Chosen] # {} /\ Unbeaten(Chosen)
  /\ At("level2") \/ At("switch") => iCurrTaskId = ContextId[Chosen]
  /\ At("switch") => level2 = Chosen
  /\ At("signal") =>
       Own(rtl_current) /\ pending[rtl_current] # {} /\ Unbeaten(rtl_current)
  /\ Runs(rtl_current) => Own(rtl_current)

\* One activation on a stack; who was switched out goes on with its signals.
Frames == [pc : Pcs, new_task : Threads \cup {none}]
Shallow ==
  /\ \A t \in Threads : stack[t] = <<>> \/ \E f \in Frames : stack[t] = <<f>>
  /\ \A t \in Threads \ {rtl_current} : stack[t] # <<>> => Head(stack[t]).pc = "signal"

\* The clock is ahead by what the virtual timer counts too early, and behind by
\* the ticks it lost.
ClockAhead == ahead + iCurrTicks \in -MaxHidden .. Resolution

\* A periodic task always has a release time.
Armed ==
  /\ "READY" \in pending[idle]
  /\ \A t \in Tasks : "READY" \notin pending[t] => period[t] # 0
  /\ \A t \in Tasks : period[t] # 0 =>
       /\ due[t] # Infinity
       /\ due[t] <= Period[t] + Resolution
       /\ due[t] + ahead <= Period[t] + Resolution

IInv == TypeOK /\ Activation /\ Shallow /\ ClockAhead /\ Armed /\ HighestRuns

-----------------------------------------------------------------------------
\* Activations

LEMMA OneFrame ==
  ASSUME NEW f
  PROVE  /\ <<f>> # <<>> /\ Head(<<f>>) = f /\ Tail(<<f>>) = <<>> /\ Len(<<f>>) = 1
         /\ Len(<<>>) = 0 /\ <<f>> \o <<>> = <<f>>
OBVIOUS

\* The activation that is executed is the only one on its stack.
LEMMA Executed ==
  ASSUME TypeOK, Shallow, NEW pc, At(pc)
  PROVE  /\ rtl_current \in Threads
         /\ \E f \in Frames : /\ stack[rtl_current] = <<f>>
                               /\ f.pc = pc /\ f.new_task = Chosen
BY OneFrame DEF TypeOK, Shallow, At, Chosen

\* What the steps do to the stacks.
LEMMA GotoStack ==
  ASSUME TypeOK, Shallow, NEW pc, At(pc), NEW g, Goto(g)
  PROVE  stack' = [stack EXCEPT ![rtl_current] = <<g>>]
<1>1. PICK f \in Frames : stack[rtl_current] = <<f>>
  BY Executed
<1>2. Tail(stack[rtl_current]) = <<>> /\ <<g>> \o <<>> = <<g>>
  BY <1>1, OneFrame
<1>3. QED
  BY <1>2 DEF Goto

LEMMA ReturnStack ==
  ASSUME TypeOK, Shallow, NEW pc, At(pc), Return
  PROVE  stack' = [stack EXCEPT ![rtl_current] = <<>>]
<1>1. PICK f \in Frames : stack[rtl_current] = <<f>>
  BY Executed
<1>2. Tail(stack[rtl_current]) = <<>>
  BY <1>1, OneFrame
<1>3. QED
  BY <1>2 DEF Return

LEMMA CallStack ==
  ASSUME TypeOK, stack[rtl_current] = <<>>, Call
  PROVE  stack' = [stack EXCEPT ![rtl_current] = <<Frame("pick", none)>>]
<1>1. <<Frame("pick", none)>> \o <<>> = <<Frame("pick", none)>>
  BY OneFrame
<1>2. QED
  BY <1>1 DEF Call

\* A step of the current thread that leaves it one activation.
LEMMA OneLeft ==
  ASSUME TypeOK, Shallow, NEW g \in Frames, rtl_current' = rtl_current,
         stack' = [stack EXCEPT ![rtl_current] = <<g>>]
  PROVE  /\ Shallow'
         /\ (stack \in [Threads -> Seq(Frames)])'
         /\ \A pc : At(pc)' <=> g.pc = pc
         /\ Chosen' = g.new_task
         /\ \A t \in Threads : ~Runs(t)'
<1>1. rtl_current \in Threads /\ stack \in [Threads -> Seq(Frames)]
  BY DEF TypeOK, Frames
<1>2. <<g>> \in Seq(Frames)
  OBVIOUS
<1>3. /\ stack'[rtl_current] = <<g>>
      /\ \A t \in Threads \ {rtl_current} : stack'[t] = stack[t]
  BY <1>1
<1>4. (stack \in [Threads -> Seq(Frames)])'
  BY <1>1, <1>2
<1>5. Shallow'
  BY <1>3 DEF Shallow
<1>6. (\A pc : At(pc)' <=> g.pc = pc) /\ Chosen' = g.new_task
  BY <1>3, OneFrame DEF At, Chosen
<1>7. \A t \in Threads : ~Runs(t)'
  BY <1>3, OneFrame DEF Runs
<1>8. QED
  BY <1>4, <1>5, <1>6, <1>7

LEMMA NoneLeft ==
  ASSUME TypeOK, Shallow, rtl_current' = rtl_current,
         stack' = [stack EXCEPT ![rtl_current] = <<>>]
  PROVE  /\ Shallow'
         /\ (stack \in [Threads -> Seq(Frames)])'
         /\ \A pc : ~At(pc)'
         /\ \A t \in Threads : Runs(t)' <=> t = rtl_current
<1>1. rtl_current \in Threads /\ stack \in [Threads -> Seq(Frames)]
  BY DEF TypeOK, Frames
<1>2. /\ stack'[rtl_current] = <<>>
      /\ \A t \in Threads \ {rtl_current} : stack'[t] = stack[t]
  BY <1>1
<1>3. (stack \in [Threads -> Seq(Frames)])'
  BY <1>1
<1>4. Shallow'
  BY <1>2 DEF Shallow
<1>5. (\A pc : ~At(pc)') /\ \A t \in Threads : Runs(t)' <=> t = rtl_current
  BY <1>2 DEF At, Runs
<1>6. QED
  BY <1>3, <1>4, <1>5

-----------------------------------------------------------------------------
\* The choice of the thread

\* Some thread with a signal is taken before all others: the sets of those
\* taken before a thread are finite, and a smallest of them is empty.
LEMMA FirstExists ==
  ASSUME NEW U \in SUBSET Threads, U # {}
  PROVE  \E t \in U : \A u \in U : ~Before(u, t)
<1> DEFINE Ahead(t) == {u \in U : Before(u, t)}
           Sets == {Ahead(t) : t \in U}
<1>1. Threads \subseteq Int /\ IsFiniteSet(Threads) /\ Priority \in [Threads -> Int]
  BY FS_Interval, GuestAssumption DEF Threads, idle
<1>2. IsFiniteSet(U)
  BY <1>1, FS_Subset
<1>3. Sets \subseteq FiniteSubsetsOf(U) /\ Sets # {}
  <2>1. \A t \in U : IsFiniteSet(Ahead(t))
    BY <1>2, FS_Subset
  <2>2. QED
    BY <2>1 DEF FiniteSubsetsOf
<1>4. IsWellFoundedOn(StrictSubsetOrdering(U), FiniteSubsetsOf(U))
  BY <1>2, FS_StrictSubsetOrderingWellFounded
<1>5. PICK A \in Sets : \A B \in Sets : <<B, A>> \notin StrictSubsetOrdering(U)
  <2> HIDE DEF Sets
  <2>1. QED
    BY <1>3, <1>4, WFMin
<1>6. PICK t \in U : A = Ahead(t)
  OBVIOUS
<1>7. ASSUME NEW u \in U, Before(u, t) PROVE FALSE
  <2>a. \A v \in U : Before(v, u) => Before(v, t)
    BY <1>1, <1>7 DEF Before
  <2>b. ~Before(u, u)
    BY <1>1 DEF Before
  <2>1. Ahead(u) \subseteq Ahead(t) /\ u \in Ahead(t) /\ u \notin Ahead(u)
    BY <2>a, <2>b, <1>7
  <2>2. <<Ahead(u), Ahead(t)>> \in StrictSubsetOrdering(U)
    BY <2>1 DEF StrictSubsetOrdering
  <2>3. QED
    BY <2>2, <1>5, <1>6
<1>8. QED
  BY <1>7

\* The loop of rtl_schedule finds it.
LEMMA BestFound ==
  ASSUME TypeOK, Armed, Chosen = none
  PROVE  /\ Sent \in [Threads -> SUBSET {"READY", "TIMER"}]
         /\ \A t \in Threads : pending[t] \subseteq Sent[t]
         /\ Best \in Threads
         /\ Sent[Best] # {}
         /\ \A u \in Threads : Before(u, Best) => Sent[u] = {}
<1>1. idle \in Threads
  BY GuestAssumption DEF Threads, idle
<1>2. /\ Sent \in [Threads -> SUBSET {"READY", "TIMER"}]
      /\ \A t \in Threads : pending[t] \subseteq Sent[t]
  BY DEF Sent, TypeOK
<1>3. Signalled \in SUBSET Threads /\ Signalled # {}
  BY <1>1, <1>2 DEF Signalled, Armed
<1>4. \E t \in Signalled : \A u \in Signalled : ~Before(u, t)
  BY <1>3, FirstExists
<1>5. Best \in Signalled /\ \A u \in Signalled : ~Before(u, Best)
  BY <1>4 DEF Best
<1>6. QED
  BY <1>2, <1>3, <1>5 DEF Signalled

-----------------------------------------------------------------------------
\* Every step keeps the invariant

LEMMA Modulo ==
  ASSUME NEW n \in Nat \ {0}
  PROVE  /\ \A a \in Int : a % n \in 0 .. n - 1
         /\ \A k \in 0 .. n - 1 : k % n = k
         /\ n % n = 0
OBVIOUS

LEMMA TickKeeps ==
  ASSUME IInv, MaxNesting = 1, NEW switched \in BOOLEAN, NEW away \in 0 .. MaxAway,
         Tick(switched, away)
  PROVE  IInv'
<1> DEFINE fires == iCurrTicks + 1 = Resolution
           seen  == IF switched THEN 1 + away - ahead ELSE 0
           irq   == IF fires THEN Resolution ELSE 0
<1>1. /\ value \in Int /\ ahead \in Int /\ iCurrTicks \in 0 .. Resolution - 1
      /\ Resolution \in Nat \ {0} /\ Hyper \in Nat \ {0} /\ MaxAway \in Nat /\ MaxHidden \in Nat
      /\ Period \in [Tasks -> Nat] /\ Infinity \notin Int
      /\ due \in [Tasks -> Int \cup {Infinity}]
  BY GuestAssumption DEF IInv, TypeOK
<1>2. /\ seen \in Int /\ irq \in Nat
      /\ value' = (value + (seen + irq)) % Hyper
      /\ due' = [t \in Tasks |-> IF due[t] = Infinity THEN Infinity ELSE due[t] - (seen + irq)]
      /\ ahead' = (IF switched THEN 0 ELSE ahead - 1) + irq
      /\ iCurrTicks' = IF fires THEN 0 ELSE iCurrTicks + 1
      /\ IF fires THEN Len(stack[rtl_current]) < 1 /\ Call ELSE stack' = stack
      /\ period' = period /\ pending' = pending /\ rtl_current' = rtl_current
      /\ iCurrTaskId' = iCurrTaskId /\ level2' = level2
  <2>1. Advance(seen + irq) /\ seen \in Int /\ irq \in Nat
    BY <1>1 DEF Tick
  <2>a. NextCount = IF fires THEN 0 ELSE iCurrTicks + 1
    <3>1. CASE fires
      BY <1>1, <3>1, Modulo DEF NextCount
    <3>2. CASE ~fires
      <4>1. iCurrTicks + 1 \in 0 .. Resolution - 1
        BY <1>1, <3>2
      <4>2. (iCurrTicks + 1) % Resolution = iCurrTicks + 1
        BY <1>1, <4>1, Modulo
      <4>3. QED
        BY <4>2, <3>2 DEF NextCount
    <3>3. QED
      BY <3>1, <3>2
  <2>2. iCurrTicks' = IF fires THEN 0 ELSE iCurrTicks + 1
    BY <2>a DEF Tick
  <2>3. /\ ahead' = (IF switched THEN 0 ELSE ahead - 1) + irq
        /\ IF fires THEN Len(stack[rtl_current]) < 1 /\ Call ELSE stack' = stack
        /\ period' = period /\ pending' = pending /\ rtl_current' = rtl_current
        /\ iCurrTaskId' = iCurrTaskId /\ level2' = level2
    BY DEF Tick
  <2>4. QED
    BY <2>1, <2>2, <2>3 DEF Advance
<1>3. ClockAhead' /\ (ahead \in -(MaxHidden + Resolution) .. Resolution /\ iCurrTicks \in 0 .. Resolution - 1)'
  BY <1>1, <1>2 DEF ClockAhead, IInv
<1>4. (value \in 0 .. Hyper - 1 /\ due \in [Tasks -> Int \cup {Infinity}])'
  BY <1>1, <1>2, Modulo
<1>5. Armed'
  <2>1. \A t \in Tasks : due[t] # Infinity =>
          /\ due'[t] = due[t] - (seen + irq) /\ due'[t] # Infinity
          /\ due[t] \in Int /\ due'[t] \in Int /\ Period[t] \in Nat
    BY <1>1, <1>2
  <2>2. \A t \in Tasks :
          /\ due[t] # Infinity
          /\ due[t] <= Period[t] + Resolution /\ due[t] + ahead <= Period[t] + Resolution
          => due'[t] <= Period[t] + Resolution /\ due'[t] + ahead' <= Period[t] + Resolution
    BY <1>1, <1>2, <2>1
  <2>3. QED
    BY <1>2, <2>1, <2>2 DEF IInv, Armed
<1>6. CASE ~fires
  <2>1. stack' = stack
    BY <1>2, <1>6
  <2>2. Activation' /\ Shallow' /\ HighestRuns'
    BY <1>2, <2>1 DEF IInv, Activation, Shallow, HighestRuns, At, Chosen, Own, Unbeaten, Runs
  <2>3. TypeOK'
    BY <1>2, <1>3, <1>4, <2>1 DEF IInv, TypeOK
  <2>4. QED
    BY <2>2, <2>3, <1>3, <1>5 DEF IInv
<1>7. CASE fires
  <2>1. rtl_current \in Threads /\ stack[rtl_current] = <<>>
    BY <1>2, <1>7, OneFrame DEF IInv, TypeOK, Shallow
  <2>2. stack' = [stack EXCEPT ![rtl_current] = <<Frame("pick", none)>>]
    BY <1>2, <1>7, <2>1, CallStack DEF IInv
  <2>3. Frame("pick", none) \in Frames
    BY DEF Frames, Frame, Pcs
  <2>4. /\ Shallow' /\ (stack \in [Threads -> Seq(Frames)])'
        /\ \A pc : At(pc)' <=> pc = "pick"
        /\ Chosen' = none /\ \A t \in Threads : ~Runs(t)'
    BY <1>2, <2>2, <2>3, OneLeft DEF IInv, Frame
  <2>5. Own(rtl_current)'
    BY <1>2, <2>1 DEF IInv, Activation, Runs, Own
  <2>6. Activation' /\ HighestRuns'
    BY <1>2, <2>1, <2>4, <2>5 DEF Activation, HighestRuns
  <2>7. TypeOK'
    BY <1>2, <1>3, <1>4, <2>4 DEF IInv, TypeOK, Frames
  <2>8. QED
    BY <2>4, <2>6, <2>7, <1>3, <1>5 DEF IInv
<1>8. QED
  BY <1>6, <1>7

LEMMA HiddenTickKeeps ==
  ASSUME IInv, HiddenTick
  PROVE  IInv'
<1>1. /\ ahead + iCurrTicks > -MaxHidden /\ ahead' = ahead - 1
      /\ value' = value /\ iCurrTicks' = iCurrTicks /\ due' = due /\ period' = period
      /\ pending' = pending /\ rtl_current' = rtl_current /\ stack' = stack
      /\ iCurrTaskId' = iCurrTaskId /\ level2' = level2
  BY DEF HiddenTick, thread
<1>2. /\ ahead \in Int /\ iCurrTicks \in 0 .. Resolution - 1 /\ MaxHidden \in Nat
      /\ Resolution \in Nat \ {0} /\ Period \in [Tasks -> Nat] /\ Infinity \notin Int
      /\ due \in [Tasks -> Int \cup {Infinity}]
  BY GuestAssumption DEF IInv, TypeOK
<1>3. ClockAhead' /\ (ahead \in -(MaxHidden + Resolution) .. Resolution)'
  BY <1>1, <1>2 DEF IInv, ClockAhead
<1>4. Armed'
  BY <1>1, <1>2 DEF IInv, Armed
<1>5. Activation' /\ Shallow' /\ HighestRuns'
  BY <1>1 DEF IInv, Activation, Shallow, HighestRuns, At, Chosen, Own, Unbeaten, Runs
<1>6. TypeOK'
  BY <1>1, <1>3 DEF IInv, TypeOK
<1>7. QED
  BY <1>3, <1>4, <1>5, <1>6 DEF IInv

LEMMA PickKeeps ==
  ASSUME IInv, Pick
  PROVE  IInv'
<1>1. Chosen = none /\ At("pick") /\ Own(rtl_current)
  BY DEF Pick, IInv, Activation
<1> DEFINE g == Frame(IF rtl_current = Best THEN "signal" ELSE "load", Best)
<1>2. /\ Sent \in [Threads -> SUBSET {"READY", "TIMER"}]
      /\ \A t \in Threads : pending[t] \subseteq Sent[t]
      /\ Best \in Threads /\ Sent[Best] # {}
      /\ \A u \in Threads : Before(u, Best) => Sent[u] = {}
  BY <1>1, BestFound DEF IInv
<1>3. /\ pending' = Sent
      /\ due' = [t \in Tasks |-> IF t \notin Released THEN due[t]
                                 ELSE IF period[t] # 0 THEN NextRelease(t) ELSE Infinity]
      /\ value' = value /\ ahead' = ahead /\ iCurrTicks' = iCurrTicks /\ period' = period
      /\ rtl_current' = rtl_current /\ iCurrTaskId' = iCurrTaskId /\ level2' = level2
      /\ Goto(g)
  BY DEF Pick, clock
<1>4. g \in Frames /\ g.new_task = Best /\ g.pc = IF rtl_current = Best THEN "signal" ELSE "load"
  BY <1>2 DEF Frame, Frames, Pcs
<1>5. stack' = [stack EXCEPT ![rtl_current] = <<g>>]
  BY <1>1, <1>3, GotoStack DEF IInv
<1>6. /\ Shallow' /\ (stack \in [Threads -> Seq(Frames)])'
      /\ \A pc : At(pc)' <=> g.pc = pc
      /\ Chosen' = Best /\ \A t \in Threads : ~Runs(t)'
  <2> HIDE DEF g
  <2>1. QED
    BY <1>3, <1>4, <1>5, OneLeft DEF IInv
<1>7. Own(rtl_current)' /\ \A u \in Threads : Before(u, Best) => pending'[u] = {}
  BY <1>1, <1>2, <1>3 DEF Own
<1>8. Activation' /\ HighestRuns'
  <2>1. HighestRuns'
    BY <1>6 DEF HighestRuns
  <2>2. rtl_current \in Threads
    BY DEF IInv, TypeOK
  <2>3. Activation'
    BY <2>2, <1>2, <1>3, <1>4, <1>6, <1>7 DEF Activation, Unbeaten
  <2>4. QED
    BY <2>1, <2>3
<1>9. ASSUME NEW t \in Tasks, period[t] # 0
      PROVE  NextRelease(t) \in Int /\ NextRelease(t) <= Period[t]
  <2>1. period[t] = Period[t] /\ Period[t] \in Nat \ {0} /\ value \in Int
    BY <1>9, GuestAssumption DEF IInv, TypeOK
  <2>2. value % Period[t] \in 0 .. Period[t] - 1
    BY <2>1, Modulo
  <2>3. QED
    BY <2>1, <2>2 DEF NextRelease
<1>10. Armed' /\ (due \in [Tasks -> Int \cup {Infinity}])'
  <2>1. /\ Period \in [Tasks -> Nat] /\ Resolution \in Nat /\ Infinity \notin Int
        /\ due \in [Tasks -> Int \cup {Infinity}] /\ ahead \in Int /\ iCurrTicks \in Nat
        /\ idle \in Threads /\ Tasks \subseteq Threads
    BY GuestAssumption DEF IInv, TypeOK, Threads, Tasks, idle
  <2>2. ahead <= Resolution
    BY <2>1 DEF IInv, ClockAhead
  <2>3. (due \in [Tasks -> Int \cup {Infinity}])'
    BY <2>1, <1>3, <1>9
  <2>4. \A t \in Tasks : period[t] # 0 =>
          /\ due'[t] # Infinity /\ due'[t] <= Period[t] + Resolution
          /\ due'[t] + ahead <= Period[t] + Resolution
    <3>1. ASSUME NEW t \in Tasks, period[t] # 0, t \in Released
          PROVE  /\ due'[t] # Infinity /\ due'[t] <= Period[t] + Resolution
                 /\ due'[t] + ahead <= Period[t] + Resolution
      <4>1. due'[t] = NextRelease(t) /\ Period[t] \in Nat
        BY <3>1, <1>3, <2>1
      <4>2. QED
        BY <4>1, <3>1, <1>9, <2>1, <2>2
    <3>2. QED
      BY <3>1, <1>3 DEF IInv, Armed
  <2>5. QED
    BY <2>1, <2>3, <2>4, <1>2, <1>3 DEF IInv, Armed
<1>11. TypeOK' /\ ClockAhead'
  BY <1>2, <1>3, <1>6, <1>10 DEF IInv, TypeOK, ClockAhead, Frames
<1>12. QED
  BY <1>6, <1>8, <1>10, <1>11 DEF IInv

LEMMA LoadPDEKeeps ==
  ASSUME IInv, LoadPDE
  PROVE  IInv'
<1> DEFINE g == Frame("level2", Chosen)
<1>1. /\ At("load") /\ Goto(g) /\ iCurrTaskId' = ContextId[Chosen]
      /\ value' = value /\ ahead' = ahead /\ iCurrTicks' = iCurrTicks /\ due' = due
      /\ period' = period /\ pending' = pending /\ rtl_current' = rtl_current /\ level2' = level2
  BY DEF LoadPDE, clock, thread
<1>2. Chosen \in Threads /\ pending[Chosen] # {} /\ Unbeaten(Chosen)
  BY <1>1 DEF IInv, Activation
<1>3. g \in Frames /\ g.pc = "level2" /\ g.new_task = Chosen
  BY <1>2 DEF Frame, Frames, Pcs
<1>4. stack' = [stack EXCEPT ![rtl_current] = <<g>>]
  BY <1>1, GotoStack DEF IInv
<1>5. /\ Shallow' /\ (stack \in [Threads -> Seq(Frames)])'
      /\ \A pc : At(pc)' <=> pc = "level2"
      /\ Chosen' = Chosen /\ \A t \in Threads : ~Runs(t)'
  <2> HIDE DEF g
  <2>1. QED
    BY <1>1, <1>3, <1>4, OneLeft DEF IInv
<1>6. Activation' /\ HighestRuns'
  <2>1. rtl_current \in Threads
    BY DEF IInv, TypeOK
  <2>2. QED
    BY <2>1, <1>1, <1>2, <1>5 DEF Activation, HighestRuns, Unbeaten
<1>7. iCurrTaskId' \in Nat
  BY <1>1, <1>2, GuestAssumption
<1>8. TypeOK' /\ ClockAhead' /\ Armed'
  BY <1>1, <1>5, <1>7 DEF IInv, TypeOK, ClockAhead, Armed, Frames
<1>9. QED
  BY <1>5, <1>6, <1>8 DEF IInv

LEMMA SetLevel2StackKeeps ==
  ASSUME IInv, SetLevel2Stack
  PROVE  IInv'
<1> DEFINE g == Frame("switch", Chosen)
<1>1. /\ At("level2") /\ Goto(g) /\ level2' = Chosen
      /\ value' = value /\ ahead' = ahead /\ iCurrTicks' = iCurrTicks /\ due' = due
      /\ period' = period /\ pending' = pending /\ rtl_current' = rtl_current
      /\ iCurrTaskId' = iCurrTaskId
  BY DEF SetLevel2Stack, clock, thread
<1>2. /\ Chosen \in Threads /\ pending[Chosen] # {} /\ Unbeaten(Chosen)
      /\ iCurrTaskId = ContextId[Chosen]
  BY <1>1 DEF IInv, Activation
<1>3. g \in Frames /\ g.pc = "switch" /\ g.new_task = Chosen
  BY <1>2 DEF Frame, Frames, Pcs
<1>4. stack' = [stack EXCEPT ![rtl_current] = <<g>>]
  BY <1>1, GotoStack DEF IInv
<1>5. /\ Shallow' /\ (stack \in [Threads -> Seq(Frames)])'
      /\ \A pc : At(pc)' <=> pc = "switch"
      /\ Chosen' = Chosen /\ \A t \in Threads : ~Runs(t)'
  <2> HIDE DEF g
  <2>1. QED
    BY <1>1, <1>3, <1>4, OneLeft DEF IInv
<1>6. Activation' /\ HighestRuns'
  <2>1. rtl_current \in Threads
    BY DEF IInv, TypeOK
  <2>2. QED
    BY <2>1, <1>1, <1>2, <1>5 DEF Activation, HighestRuns, Unbeaten
<1>7. TypeOK' /\ ClockAhead' /\ Armed'
  BY <1>1, <1>2, <1>5 DEF IInv, TypeOK, ClockAhead, Armed, Frames
<1>8. QED
  BY <1>5, <1>6, <1>7 DEF IInv

\* The thread switched to is at the signals of its own activation, or new.
LEMMA SwitchKeeps ==
  ASSUME IInv, rtl_switch_to
  PROVE  IInv'
<1> DEFINE g == Frame("signal", Chosen)
<1>1. /\ At("switch") /\ Goto(g) /\ rtl_current' = Chosen
      /\ value' = value /\ ahead' = ahead /\ iCurrTicks' = iCurrTicks /\ due' = due
      /\ period' = period /\ pending' = pending /\ level2' = level2 /\ iCurrTaskId' = iCurrTaskId
  BY DEF rtl_switch_to, clock, thread
<1>2. /\ Chosen \in Threads /\ pending[Chosen] # {} /\ Unbeaten(Chosen)
      /\ iCurrTaskId = ContextId[Chosen] /\ level2 = Chosen
  BY <1>1 DEF IInv, Activation
<1>3. /\ rtl_current \in Threads /\ stack \in [Threads -> Seq(Frames)]
      /\ \A t \in Threads : stack[t] = <<>> \/ \E f \in Frames : stack[t] = <<f>>
      /\ \A t \in Threads \ {rtl_current} : stack[t] # <<>> => Head(stack[t]).pc = "signal"
  BY DEF IInv, TypeOK, Shallow, Frames
<1>4. g \in Frames /\ g.pc = "signal"
  BY <1>2 DEF Frame, Frames, Pcs
<1>5. stack' = [stack EXCEPT ![rtl_current] = <<g>>]
  BY <1>1, GotoStack DEF IInv
<1>6. /\ \A t \in Threads : stack'[t] = <<>> \/ \E f \in Frames : stack'[t] = <<f>>
      /\ \A t \in Threads : stack'[t] # <<>> => Head(stack'[t]).pc = "signal"
      /\ stack' \in [Threads -> Seq(Frames)]
  <2>1. Head(<<g>>) = g
    BY OneFrame
  <2>2. \A t \in Threads : stack'[t] = IF t = rtl_current THEN <<g>> ELSE stack[t]
    BY <1>3, <1>5
  <2>3. stack' \in [Threads -> Seq(Frames)]
    BY <1>3, <1>4, <1>5
  <2> HIDE DEF g
  <2>4. QED
    BY <1>3, <1>4, <2>1, <2>2, <2>3
<1>7. Shallow' /\ \A pc : At(pc)' => pc = "signal"
  BY <1>1, <1>2, <1>6 DEF Shallow, At
<1>8. Activation' /\ HighestRuns'
  <2>1. Own(rtl_current)'
    BY <1>1, <1>2 DEF Own
  <2>2. Unbeaten(rtl_current)' /\ pending'[rtl_current'] # {}
    BY <1>1, <1>2 DEF Unbeaten
  <2>3. \A t \in Threads : Runs(t)' => t = rtl_current'
    BY DEF Runs
  <2>4. HighestRuns'
    BY <2>2, <2>3 DEF HighestRuns, Unbeaten
  <2>5. Activation'
    BY <1>7, <2>1, <2>2 DEF Activation
  <2>6. QED
    BY <2>4, <2>5
<1>9. TypeOK' /\ ClockAhead' /\ Armed'
  BY <1>1, <1>2, <1>6 DEF IInv, TypeOK, ClockAhead, Armed, Frames
<1>10. QED
  BY <1>7, <1>8, <1>9 DEF IInv

LEMMA DoSignalKeeps ==
  ASSUME IInv, do_signal
  PROVE  IInv'
<1> DEFINE left == IF "TIMER" \in pending[rtl_current] THEN {"READY"} ELSE pending[rtl_current]
<1>1. /\ At("signal")
      /\ pending' = [pending EXCEPT ![rtl_current] = left]
      /\ IF "READY" \in left THEN Return ELSE Goto(Frame("pick", Chosen))
      /\ value' = value /\ ahead' = ahead /\ iCurrTicks' = iCurrTicks /\ due' = due
      /\ period' = period /\ rtl_current' = rtl_current
      /\ level2' = level2 /\ iCurrTaskId' = iCurrTaskId
  BY DEF do_signal, clock
<1>2. /\ rtl_current \in Threads /\ pending \in [Threads -> SUBSET {"READY", "TIMER"}]
      /\ Own(rtl_current) /\ pending[rtl_current] # {} /\ Unbeaten(rtl_current)
  BY <1>1 DEF IInv, Activation, TypeOK
<1>3. "READY" \in left /\ left \subseteq {"READY", "TIMER"}
  BY <1>2
<1>4. stack' = [stack EXCEPT ![rtl_current] = <<>>]
  BY <1>1, <1>3, ReturnStack DEF IInv
<1>5. /\ Shallow' /\ (stack \in [Threads -> Seq(Frames)])'
      /\ \A pc : ~At(pc)'
      /\ \A t \in Threads : Runs(t)' <=> t = rtl_current
  BY <1>1, <1>4, NoneLeft DEF IInv
<1>6. Activation'
  BY <1>1, <1>2, <1>5 DEF Activation, Own
<1>7. HighestRuns'
  <2>1. \A u \in Threads : Before(u, rtl_current) => pending'[u] = {}
    <3>1. Priority[rtl_current] \in Int /\ rtl_current \in Int
      BY <1>2, GuestAssumption DEF Threads, idle
    <3>2. ~Before(rtl_current, rtl_current)
      BY <3>1 DEF Before
    <3>3. QED
      BY <3>2, <1>1, <1>2 DEF Unbeaten
  <2>2. QED
    BY <2>1, <1>5 DEF HighestRuns
<1>8. Armed'
  BY <1>1, <1>2, <1>3 DEF IInv, Armed, Threads, Tasks, idle
<1>9. TypeOK' /\ ClockAhead'
  BY <1>1, <1>2, <1>3, <1>5 DEF IInv, TypeOK, ClockAhead, Frames
<1>10. QED
  BY <1>5, <1>6, <1>7, <1>8, <1>9 DEF IInv

LEMMA MakePeriodicKeeps ==
  ASSUME IInv, NEW t \in Tasks, pthread_make_periodic_np(t)
  PROVE  IInv'
<1>1. /\ period' = [period EXCEPT ![t] = Period[t]]
      /\ due' = [due EXCEPT ![t] = -Hyper]
      /\ value' = value /\ ahead' = ahead /\ iCurrTicks' = iCurrTicks /\ pending' = pending
      /\ stack' = stack /\ rtl_current' = rtl_current
      /\ level2' = level2 /\ iCurrTaskId' = iCurrTaskId
  BY DEF pthread_make_periodic_np, clock
<1>2. Activation' /\ Shallow' /\ HighestRuns'
  BY <1>1 DEF IInv, Activation, Shallow, HighestRuns, At, Chosen, Own, Unbeaten, Runs
<1>3. /\ Hyper \in Nat /\ Period \in [Tasks -> Nat \ {0}] /\ Resolution \in Nat /\ Infinity \notin Int
      /\ due \in [Tasks -> Int \cup {Infinity}] /\ ahead \in Int /\ iCurrTicks \in Nat
      /\ ahead <= Resolution /\ DOMAIN period = Tasks
  BY GuestAssumption DEF IInv, TypeOK, ClockAhead
<1>4. /\ due' \in [Tasks -> Int \cup {Infinity}]
      /\ due'[t] = -Hyper /\ -Hyper \in Int /\ -Hyper + ahead <= Period[t] + Resolution
      /\ -Hyper <= Period[t] + Resolution /\ period'[t] = Period[t]
      /\ \A u \in Tasks \ {t} : due'[u] = due[u] /\ period'[u] = period[u]
  BY <1>1, <1>3
<1>5. Armed'
  BY <1>1, <1>3, <1>4 DEF IInv, Armed
<1>6. TypeOK' /\ ClockAhead'
  BY <1>1, <1>3, <1>4 DEF IInv, TypeOK, ClockAhead
<1>7. QED
  BY <1>2, <1>5, <1>6 DEF IInv

LEMMA WaitKeeps ==
  ASSUME IInv, NEW t \in Tasks, pthread_wait_np(t)
  PROVE  IInv'
<1>1. /\ Runs(t) /\ period[t] # 0 /\ Call
      /\ pending' = [pending EXCEPT ![t] = @ \ {"READY"}]
      /\ value' = value /\ ahead' = ahead /\ iCurrTicks' = iCurrTicks /\ due' = due
      /\ period' = period /\ rtl_current' = rtl_current
      /\ level2' = level2 /\ iCurrTaskId' = iCurrTaskId
  BY DEF pthread_wait_np, clock
<1>2. /\ rtl_current = t /\ stack[rtl_current] = <<>> /\ t \in Threads /\ t # idle
      /\ pending \in [Threads -> SUBSET {"READY", "TIMER"}]
  BY <1>1, GuestAssumption, SMTT(30) DEF Runs, Tasks, Threads, idle, IInv, TypeOK
<1>3. stack' = [stack EXCEPT ![rtl_current] = <<Frame("pick", none)>>]
  BY <1>1, <1>2, CallStack DEF IInv
<1>4. Frame("pick", none) \in Frames
  BY DEF Frames, Frame, Pcs
<1>5. /\ Shallow' /\ (stack \in [Threads -> Seq(Frames)])'
      /\ \A pc : At(pc)' <=> pc = "pick"
      /\ Chosen' = none /\ \A u \in Threads : ~Runs(u)'
  BY <1>1, <1>3, <1>4, OneLeft DEF IInv, Frame
<1>6. Own(rtl_current)'
  BY <1>1, <1>2 DEF IInv, Activation, Own
<1>7. Activation' /\ HighestRuns'
  BY <1>1, <1>2, <1>5, <1>6 DEF Activation, HighestRuns
<1>8. Armed'
  BY <1>1, <1>2 DEF IInv, Armed
<1>9. TypeOK' /\ ClockAhead'
  BY <1>1, <1>2, <1>5 DEF IInv, TypeOK, ClockAhead, Frames
<1>10. QED
  BY <1>5, <1>7, <1>8, <1>9 DEF IInv

-----------------------------------------------------------------------------
\* The theorems

LEMMA InitHolds == Init => IInv
<1> SUFFICES ASSUME Init PROVE IInv
  OBVIOUS
<1>1. /\ \A t \in Threads : stack[t] = <<>> /\ pending[t] = {"READY"}
      /\ idle \in Threads /\ idle \notin Tasks /\ rtl_current = idle /\ Tasks \subseteq Threads
      /\ \A t \in Tasks : period[t] = 0
  BY GuestAssumption DEF Init, Threads, Tasks, idle
<1>2. TypeOK
  BY <1>1, GuestAssumption DEF Init, TypeOK
<1>3. Activation /\ Shallow /\ HighestRuns
  BY <1>1 DEF Activation, Shallow, HighestRuns, At, Own, Runs
<1>4. ClockAhead
  BY GuestAssumption DEF Init, ClockAhead
<1>5. Armed
  BY <1>1 DEF Armed
<1>6. QED
  BY <1>2, <1>3, <1>4, <1>5 DEF IInv

LEMMA StepHolds ==
  ASSUME MaxNesting = 1, IInv, [Next]_vars
  PROVE  IInv'
<1>1. CASE SparkTick
  <2>1. MaxAway \in Nat /\ 0 \in 0 .. MaxAway
    BY GuestAssumption
  <2>2. Tick(FALSE, 0) => IInv'
    BY <2>1, TickKeeps
  <2>3. ASSUME NEW away \in 0 .. MaxAway, Tick(TRUE, away) PROVE IInv'
    BY <2>3, TickKeeps
  <2>4. QED
    BY <1>1, <2>2, <2>3 DEF SparkTick
<1>2. CASE rtl_schedule
  BY <1>2, PickKeeps, LoadPDEKeeps, SetLevel2StackKeeps, SwitchKeeps, DoSignalKeeps DEF rtl_schedule
<1>3. ASSUME NEW t \in Tasks, pthread_make_periodic_np(t) \/ pthread_wait_np(t)
      PROVE  IInv'
  BY <1>3, MakePeriodicKeeps, WaitKeeps
<1>4. CASE UNCHANGED vars
  BY <1>4 DEF vars, clock, thread, IInv, TypeOK, Activation, Shallow, ClockAhead, Armed,
              HighestRuns, At, Chosen, Own, Unbeaten, Runs
<1>5. CASE HiddenTick
  BY <1>5, HiddenTickKeeps
<1>6. QED
  BY <1>1, <1>2, <1>3, <1>4, <1>5 DEF Next

THEOREM Invariance == ASSUME MaxNesting = 1 PROVE Spec => []IInv
<1>1. IInv /\ [Next]_vars => IInv'
  BY StepHolds
<1>2. QED
  BY <1>1, InitHolds, PTL DEF Spec

\* The variables of the guest's kernel keep their types.
THEOREM TypeCorrect == ASSUME MaxNesting = 1 PROVE Spec => []TypeOK
<1>1. IInv => TypeOK
  BY DEF IInv
<1>2. QED
  BY <1>1, Invariance, PTL

\* Every task runs on its own directory and is interrupted on its own stack
\* (rtl_schedule tells SParK before it switches).
THEOREM ContextKept == ASSUME MaxNesting = 1 PROVE Spec => []OwnContext
<1>1. IInv => OwnContext
  BY DEF IInv, Activation, OwnContext, Own, Runs
<1>2. QED
  BY <1>1, Invariance, PTL

\* A thread runs only if no thread before it has a signal (the loop of
\* rtl_schedule), but for the idle task before its first interrupt.
THEOREM PriorityKept == ASSUME MaxNesting = 1 PROVE Spec => []HighestRuns
<1>1. IInv => HighestRuns
  BY DEF IInv
<1>2. QED
  BY <1>1, Invariance, PTL

\* A task that waits has a release time, at most its period and the error of
\* the virtual timer ahead (the release loop of rtl_schedule).
THEOREM ReleaseComes == ASSUME MaxNesting = 1 PROVE Spec => []WakesUp
<1>1. IInv => WakesUp
  BY DEF IInv, Armed, WakesUp
<1>2. QED
  BY <1>1, Invariance, PTL
=============================================================================
