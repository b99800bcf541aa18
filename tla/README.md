# SParK in TLA+

SParK is a small hypervisor for the i386.  It gives one processor to three
guest operating systems (partitions), by a cyclic table that is computed
offline, and promises them temporal guarantees, spatial guarantees and
communication between partitions and between the tasks of a partition
(`src/README`).  This directory holds TLA+ models of the code that keeps these
promises, TLC configurations that check them on small instances, and proofs
that TLAPS checks for every value of the constants.  `PROJECT.json` maps every
definition to the source lines it stands for, and lists the hazards, runs,
mutants, findings and theorems.

    tlc -config SparkSched.cfg MC_SparkSched.tla     # one model-checking run
    tlapm SparkSched_proofs.tla                      # one module of proofs

## 1. The system

| Component | Source (under `src/`) | State | Operations |
|---|---|---|---|
| Partition scheduler | `Spark/schedulers/rtl_sched.c`, `Spark/arch/i386/kernel/rtl_time_8254.c` | tick of the cycle, table of windows, running partition, virtual timer of each guest, performance record | tick, switch, injection of the virtual timer, `kill_gos` |
| Hypercall gate | `Spark/arch/i386/kernel/hypercallEntry.S` | `iCallOn` | trap, body, return |
| Keyboard delivery | `Spark/drivers/i386_kbd.c`, `hypercall.c` | mailbox pointer and owner, last key | interrupt, `spark_register_interrupt`, delivery at a switch |
| Memory isolation | `Spark/arch/i386/kernel/page.c`, `malloc.c`, `processor.c` | page directories and tables, heap of pages, `cr3` | boot tables, `spark_registerPages`, `spark_loadPDE`, `fLoadNewMemContext` |
| Message queues | `Spark/arch/i386/kernel/hypercall.c` | an array of byte rings | `spark_registerMQ`, `spark_send`, `spark_receive` |
| Guest scheduler | `GuestOS*/schedulers/` | task list, release times, signals, guest clock | virtual timer handler, `rtl_schedule`, `pthread_make_periodic_np`, `pthread_wait_np` |
| Socket calls | `GuestOS2/arch/i386/kernel/systemcall.c` | sockets and the packets kept for them | listen, connect, send, receive |
| Communication partition | `GuestOS1/tasks/periodic_task_*.c`, `GuestOS1/net/uip.c` | listening and client ports, replies that wait | `task2` serves the calls, `task1` the network |
| Network driver | `Spark/drivers/i386_pci82573v.c`, `Spark/utility/circqueue.c` | queue of received frames | poll, receive, transmit |
| Inter-task channels | `GuestOS*/itc/itc.c` | a byte ring per channel in a guest | `sys_send`, `sys_recv`, which no shipped task calls |
| Others | Modbus, acquisition card, 8259, screen, boot code, vendored libraries | | see section 6 |

How they interact:

- The 8254 interrupt is the only source of switches.  It runs with interrupts
  off, counts the tick, and calls `spark_schedule` unless a hypercall is on
  (`iCallOn`).  After a switch it counts the virtual timer of the partition
  that runs now and, when it is due, rewrites the interrupt frame so that the
  return leads into the guest's timer handler.
- Hypercalls come from the guests' kernels through a trap gate: interrupts stay
  on, ticks that fall into a body are counted and not scheduled.  Hypercalls
  change what the next tick reads: timer periods, directories, stacks, and the
  table itself.
- A switch loads the descriptor table, the stacks and port permissions of the
  TSS and the page directory of the current task of the next partition, writes
  SParK's clock into the partition's memory and stores the last key for it.
- The keyboard interrupt stores a key through a pointer that the partition
  registered, on whatever page directory is loaded.
- In a guest, the virtual timer runs `rtl_schedule`, which tells SParK to load
  the next task's directory and stack before it switches to it.
- Partitions share nothing but the message queues, which hypercalls access as
  wholes.  The socket calls of the application guests (2 and 3) are messages to
  the communication partition (1), which alone talks to the network driver.
- In the communication partition two tasks share the tables of `uip.c` and one
  static loop variable, and the timer preempts one for the other.

What is hard: the dispatcher has no state of its own but the running
partition, so whether a window is served depends on the sequence of ticks;
ticks that hypercalls hide; the instructions of the gate before and after
`iCallOn` is set; a pointer and an owner set in two steps and read by an
interrupt; page tables that are replaced while the processor walks them; a heap
that only shrinks; two pointers and a count that must agree across wraps and
overflows; a guest scheduler that its own timer can interrupt, on a clock that
jumps; messages of several words that are read from byte queues in several
receives; packets of one socket that arrive while a task receives on another.
Nothing is persisted, and SParK resends nothing (TCP's retransmission is uIP's),
so there is no recovery and no retry to model.

What makes each component correct: a partition runs in its windows and in all of
them (scheduler); a hypercall is atomic with respect to switches (gate); keys
reach the partition that asked for them (keyboard); the processor only ever
walks to the frames of the partition that runs (memory); what is received is
what was sent, in order (queues); a task runs on its own directory and stack,
the first ready one runs, and whoever waits runs again (guest scheduler); a port
has one owner, and a packet reaches the socket it is for, once and in order
(sockets).

## 2. Modules

| Module | What it is | Checked by |
|---|---|---|
| `CyclicSchedule` | abstract: every slot of the cycle is with its owner | `sched` (as `ImplementsSchedule`) |
| `SparkSched` | scheduler, gate, context, virtual timers, `kill_gos` | `sched*` |
| `SparkMailbox` | the keyboard on top of `SparkSched` | `sched` |
| `PartitionSpaces` | abstract: an address space per task, made of own frames | `mem` (as `ImplementsSpaces`) |
| `SparkMem` | page tables and the heap they are made of | `mem` |
| `ByteChannel` | abstract: a channel is a stream of bytes with a capacity, until it is overflowed | `ipc` (as `ImplementsChannel`) |
| `SparkIPC` | the message queues | `ipc*` |
| `GuestSched` | the scheduler of a guest under SParK's ticks | `gsched*` |
| `AppSockets` | the socket calls of the application guests | `sockets*` |
| `SparkNic` | the queue of received frames | `sockets*` |
| `SocketServer` | the two tasks of the communication partition | `sockets*` |
| `Sockets` | the three together, and what they promise | `sockets*` |
| `SparkSched_proofs`, `SparkMailbox_proofs`, `SparkMem_proofs`, `SparkIPC_proofs`, `GuestSched_proofs`, `Sockets_proofs`, `SocketFrames_proofs`, `SocketPackets_proofs` | theorems | TLAPS |
| `MC_*` | values of the constants for TLC | |

The models meet at properties.  `CallGate` of `SparkSched` says that no hypercall
body is cut in two by a switch: that is why a call is one action in `SparkIPC`,
and why no switch comes between the steps of `spark_registerPages` in
`SparkMem`.  `SparkSched` knows a directory only by its owner, `SparkMem` by what
it maps.  `GuestSched` takes SParK's ticks, switches and clock as its
environment; `DispatchedForever` is why ticks keep coming.  The channels of
`AppSockets` are streams because `SparkIPC` implements `ByteChannel`; that
`task1` of the communication partition moves only while `task2` waits is
`HighestRuns` of `GuestSched`.

### SparkSched and SparkMailbox

Variables have the names of the code.  `mode[p]` is the code a partition is in,
down to the three parts of `hyper_call`: before `iCallOn` is set, the body, and
after it is cleared.  `cpu` is what `fLoadNewMemContext` loads.  `missed` counts
ticks since `spark_schedule` last ran; it exists for the properties and the
bound of hidden ticks.  A tick is one action, since its gate clears the
interrupt flag; it contains the counting, the dispatcher, the switch, the
performance record and the virtual timer.  Each hypercall that changes state is
an action with its trap and return as separate ones; `spark_rhine_transmit`,
which works on SParK's own directory in between, is two.  What guests do
otherwise is `GuestMoves`.  `kill_gos` and the exception handlers are actions as
well; an exception of one guest halts the machine (`setup.c:88` spins before it
reschedules).

`SparkMailbox` adds the keyboard: its interrupt may come between any two of these
steps, and a registration is two of them, the pointer and then the owner.  A
key during a transmission faults, because SParK's own directory does not map the
guest's variable.

### SparkMem

Memory is counted in frames, an entry of a table is a frame or `Absent`; flags
are left out.  `spark_registerPages` is done one directory entry per step, so
that a registration that fails half-way, and the processor walking the old
directory meanwhile, are states of the model.  Task ids are signed and compared
with `MAX_TASK_PER_GUEST` only (hypercall.c:82, 93): a negative one reaches the
words in front of `pde[]` in the same structure, `iBudgetRemaining`,
`iTotalBudget` and `bIsActive`, which nothing reads otherwise; `UnusedWords` is
how many of them are tasks in an instance.  `spark_loadPDE` does not ask whether
the task has a directory: after a refused or a missing registration the
processor walks the page at address 0, and the history `careless` remembers
which guest brought itself there.

In `PartitionSpaces` a guest asks for a directory (`asked`), and only what it
asked for last can become the space of a task: granted if it is acceptable,
refused if not.

### SparkIPC

Pointers are offsets into the queue's page.  `Sent` and `Received` follow the
code's split at `end_buff`, with its comparison of unsigned numbers, and its
overflow branch, which moves both pointers and not the count.  `Copies` are the
`memcpy` of a send, each with the range it writes, and `Written` applies them.
`ByteChannel` has broken channels: once a channel was overflowed it promises
nothing, the others go on.  In two points it is what the code does and not what
its comments say: a short receive returns the number of bytes that wait
(hypercall.c:290 says 0; the run `ipc_short`), and the queue that overflows is
not reset (hypercall.c:242 says it is; what is kept is that the newest message
is the next one received).

### GuestSched

Each thread has a stack of activations of `rtl_schedule`; an empty one means
the thread's own code.  The steps are those between which the timer may come:
the loop, `spark_loadPDE`, `spark_setLevel2Stack`, `rtl_switch_to`, the
signals.  Release times are kept as distances from the guest's clock, which
keeps the model finite; `ahead` is the distance of the guest's clock from
SParK's.

### AppSockets, SparkNic, SocketServer, Sockets

An item of a channel is a word of four bytes; every word of a packet's data is
the packet's number, so that a misplaced word is noticed.  `sys_sock_tcp_recv_k`
is its first receive, its second one, and a step for each round of its loop over
the messages it read: the interleaving with the communication partition is at the
hypercalls, and the rounds show what happens to packets of other sockets.
The first receive asks for a size and one header, and nothing makes these words
end where a message does.  `EndsMessage` says whether they do, and the history
`cut` has the guests with a receive where they did not; from there on nothing in
the channel of this guest is where the loop looks for it.
`task2` takes the call id and the rest of a call in two steps.  `task1` takes a
frame, and for a client's port stops between the end of `example3_app`'s loop
and its uses of `c`, where the timer may come (`Interrupted`).  uIP's own
protocol is left out: a frame is a segment with data of an established
connection.  `SparkNic` has the two indices of the queue and the lengths beside
them, with the different index each of the two routines returns.

## 3. Runs

| Run | Expect | Shows |
|---|---|---|
| `sched` | pass | With no tick hidden, every window is served, the dispatcher implements the cyclic schedule, a guest with a window is dispatched again and again until it is killed, a virtual timer that counts is delivered, and a key reaches the guest that registered last, also when it was switched out |
| `sched_span` | pass | What holds when hypercalls span ticks, ticks hit the gate and guests fault: the gate, the context, windows up to the hidden ticks, the record of a cycle, killed guests stay out; also the proofs' inductive invariant |
| `sched_late` | violation | One hidden tick can cost another partition its whole window |
| `mem` | pass | Only own frames are mapped (or the page at address 0, for a guest that loaded a task without a directory), and the tables implement `PartitionSpaces` |
| `ipc` | pass | Until it is overflowed a queue is a stream of bytes, whatever others do to theirs; every copy of a send stays in the queue's buffer, overflows included, and those keep the newest message |
| `ipc_short` | violation | A receive of more than there is returns the number of bytes, where its comment says 0 |
| `gsched` | pass | Tasks run in their own context and in order; whoever waits is released in time and runs again |
| `gsched_race` | violation | The virtual timer in `rtl_schedule` leaves a task on another one's directory |
| `sockets` | pass | From the driver's queue to the receive call and back: ports have one owner, calls are framed, messages are up to a receive that ends inside one, packets and replies reach their socket, once and in order, and a port that is asked for is listened on in the end |
| `sockets_small` | violation | A receive that reads several small packets hands out one of another socket |
| `sockets_race` | violation | The timer in `example3_app` sends a packet to the other guest |
| `sockets_cut` | violation | A receive ends inside a message, and the loop over the messages finds no header |

Every property of a passing run has a mutant in `PROJECT.json`: a definition of
the model with a plausible bug, under which TLC finds the property violated.
Mutated forms stand next to the definitions they replace and are marked.

### Bounds

- `sched`, `sched_span`: two guests, four ticks.  The table has a guest with two
  windows, a gap, windows that touch, and no idle tick at the end, so a cycle
  starts in the middle of other partitions' time.  Timer periods above and
  below the tick are registered in mid-count.  One key is enough for `sched`:
  it is told from the variable's first value and from "no key yet", and what
  could be confused is whose variable it is stored in.  `MaxCallTicks = 2` in
  `sched_span` lets a hypercall swallow a window or the end of a cycle; there
  ticks hit the gate (`RaceTicks`) and guest 1 may fault.  `sched_late` uses the
  table the repository ships.  `sched` keeps `MaxCallTicks = 0`: what it says of
  windows and starvation is without hidden ticks, and `sched_late` is why.
- `mem`: two guests of two tables, tables of eight entries, a heap with pages
  for three registrations: enough to replace a directory in use, to fail a
  registration after a good entry and to register for several tasks, of which
  there are two and -1.  The heap
  stands for 4096-byte pages, and `MAX_TASK_PER_GUEST` for the code's.
- `ipc`: pages of three bytes, queues of one and three, messages of one byte and
  two, two different bytes: every offset of both pointers is reached, with
  copies that end before, at and behind `end_buff`, and messages longer than a
  queue.  `MaxFilled = 4` lets the count exceed the size after an overflow.
  Three channels compete for an array with `MAX_QUEUES = 3`, one of whose
  entries is never used; they are symmetric.
- `gsched`: two tasks with equal priority, as the shipped ones, with periods
  that are not multiples of each other; absences of up to three ticks, so the
  clock jumps by less and by more than a period of the timer, forward and back;
  one tick hidden between two switches.  `MaxNesting` is the depth of
  `rtl_schedule` on one stack.
- `sockets`: two guests that may ask for the same port; guest 1 opens two
  sockets, so packets of another socket are kept, guest 2 opens one and reads
  all there is.  Packets have one word; guest 1 asks for one or two, so a receive
  of two ends inside the second message when two wait (the shipped task asks for
  100 bytes of a channel of 512).  `APP_QUEUE_SIZE = 2` keeps one packet and drops the next;
  channels hold one call (6 words) and two messages (10); two client slots, and
  three listen slots of which the partition has one; three frames from outside
  and two replies.  The driver's queue has three slots and wraps.  Guest 2 does
  not send, as in the shipped tasks (its case in `task2` has no `TCP_SEND`).

Deadlock is checked where it means something: `sched_late`, `mem`, both `ipc` and
both `gsched` runs.  `sched` and `sched_span` end in `halted` after an exception
or a key in the middle of a transmission; the `sockets` runs end when the bounds
on packets and sockets are used up, or in a round of the receive loop that has
nothing to read after a message was cut.

### Fairness

`SparkSched` (`FairMailbox`): strong fairness of the tick, because the 8254 runs
in periodic mode and nothing masks it for good (a tick is disabled only inside
the gate, in the runs without ticks there); weak fairness of the steps of a
hypercall that has begun, the registration of the keyboard included, because its
code has no loop that waits.  Nothing is assumed of guests: they may do
hypercalls for ever, or none; nor of keys.  `GuestSched`: strong fairness of
SParK's ticks in the guest's windows (that is `DispatchedForever`), weak fairness
of the kernel's code, and that a task makes itself periodic as its first act.
That a job ends is not assumed.  Therefore `WaitsThenRuns` says of the first task
that it runs again whatever the others do, and of the others only if the guest
becomes idle again and again: with equal priorities, a task that never waits
starves those behind it.  `Sockets`: weak fairness of `task2`, which is the first
task and runs again by `WaitsThenRuns`, and of `task1` once it has found a slot
for the frame it has taken.  That application guests ever receive, or that
frames arrive, is not assumed.

## 4. Proofs

| Theorem | Assumes beside the ASSUMEs | Says |
|---|---|---|
| `SparkSched_proofs`: `TypeCorrect`, `Invariance`, `GateIsExact`, `SpatialIsolation`, `TemporalIsolation`, `VirtualTimerInRange`, `KilledNeverReturns` | nothing | the run `sched_span`, for every table without overlaps, number of guests, length of hypercalls, faults and races included |
| `RecordFits` | the cycle is shorter than the record | the performance record is not overrun |
| `WindowsAreHonoured`, `ScheduleImplemented` | no hypercall hides a tick | every window is served; `SparkSched` implements `CyclicSchedule` |
| `SparkMailbox_proofs`: `MailboxTypes`, `KeysReachOwner`, `SchedulerUndisturbed` | nothing | a key is stored only in the running guest's own variable, and the keyboard breaks no invariant of the scheduler |
| `SparkMem_proofs`: `TypeCorrect`, `GuestsIsolated` | the guests leave pages in the heap | the running partition's directory maps its own frames only, or is the page at address 0 and the partition loaded a task without a directory |
| `SpacesImplemented` | the same | `SparkMem` implements `PartitionSpaces`: a task has the last acceptable directory its guest asked for, and only what is not acceptable is refused |
| `SparkIPC_proofs`: `TypeCorrect`, `SendsWriteInside`, `NoSecondQueue`, `PointersAgree`, `NewestKept`, `Refinement` | nothing | types, no copy of a send writes outside of its queue's buffer, one queue per channel; pointers and count agree and `SparkIPC` implements `ByteChannel` until a channel is overflowed; what an overflow keeps |
| `GuestSched_proofs`: `TypeCorrect`, `ContextKept`, `PriorityKept`, `ReleaseComes` | the timer does not hit `rtl_schedule` | context, order and release times, for any tasks, periods and priorities |
| `Sockets_proofs`: `TypeCorrect`, `EndpointsUnique` | nothing | types; a port has one owner, for any guests, ports and slots |
| `DemultiplexesData` | the timer does not hit `example3_app` | what goes to a guest's receive channel came for a port of this guest |
| `SocketFrames_proofs`: `CallsAreFramed`, `SocketsAreKnown` | only the first guest sends | `task2` reads a call id only where a call begins and finds the whole call; what it opened for a guest the guest has an entry for |
| `RoundsAreSound` | the same | up to a receive of the guest that ends inside a message, the loop of `sys_sock_tcp_recv_k` meets whole messages only, and an opened entry for each |
| `WholeNeverCut` | the same | a guest that only asks for all a channel can hold, or for the one length there is, never has such a receive |
| `SocketPackets_proofs`: `PassageStaysOK`, `PacketsHandedOnce`, `PacketsInOrder` | the same | as long as no receive has ended inside a message (`cut = {}`), a packet is in one place on its way and is handed out once; a guest with one socket gets its packets in order |
| `OwnersStay`, `PacketsHandedToOwner` | besides, a guest with several sockets receives one message at a time, and the timer does not hit `example3_app` | in such a state, if no local port is a number a guest uses (`PortsApart`), what was handed out came for the socket of the receive |
| `RepliesStayOwn`, `RepliesWaitOnTheirSocket` | only the first guest sends | in a state where the low 16 bits of no connection are a guest's port (`IdsApart`), a reply waits in the slot of its socket |
| `ConnectsStayOK`, `ConnectionsBounded` | the same, finitely many guests | connections take at most `Cardinality(Gos) * MAX_OPEN_PORTS` local ports |
| `PacketsNeverMixed` | those of `PacketsHandedToOwner`, and the guests' ports are not among so many numbers above `FirstLport` | `HandedToOwner` as long as no receive has ended inside a message |
| `RepliesNeverMixed` | those of `ConnectionsBounded`, and no port of a guest is below `MAX_OPEN_PORTS` | `RepliesOwn` in every state |

The assumptions are necessary: `sched_late`, `gsched_race` and `sockets_race` show
what happens without theirs, `sockets_small` what happens when a guest with two
sockets receives several messages at a time, `sockets_cut` what happens to the
messages once a receive has ended inside one, and with `MayEmpty = TRUE` in `SparkMem.cfg` TLC finds
`SpatialIsolation` violated, because `verifyAndCopyPages` (page.c:131, 139) does
not look at the result of `kGetPage`.  What the ASSUMEs of the modules demand is
what the code takes for granted: windows that do not overlap (the offline
scheduler), directories that map a guest's own 32 MB, queues that fit a page,
periods above zero.

`PortsApart` and `IdsApart` are there because one number means different things.
`lastport` counts from 1024 with no regard to the ports guests listen on, and a
frame for a port is given to the listener first.  `uip_tcp_send` looks for
`htons((unsigned short)sockid)` among the listening ports first (uip.c:2104), and
connections are numbered from 0x10000: one that a guest opens second, 0x10001, is
taken for its listening port 1.  In the instance with `Ports = {1}`, a guest with
a listen and two connections, TLC finds `RepliesOwn` violated.  The last two
theorems say how far apart the numbers must be; the shipped tasks (port 5678,
three places for sockets) are within that, as is the run `sockets`.

The arguments:

- **Scheduler** (`IInv` of `SparkSched`).  `ContextMatches` is not inductive: a
  transmission runs on SParK's directory, so `ContextHeld` allows exactly this in
  the body of a hypercall, and `CallGate` says nobody is switched away in one.
  `RunsOwnWindow` compares with the tick in which `spark_schedule` last ran,
  and survives `kill_gos` because it refers to the table as shipped.
  `KilledEverywhere` (all windows of a guest are gone, or none) carries
  `KilledStaysOut`; `PerfBehindCount` (at most one switch per tick) carries the
  bound of the record.
- **Cycle**.  A window's first tick starts its partition, since at most one
  window starts in a tick; every later tick keeps it, since at most one window
  covers it.  The refinement maps the tick to the slot and the killed guests to
  `dead`.
- **Keyboard** (`IMailbox`).  Between its two halves a registration is in a
  hypercall, so no switch comes, the pointer is the caller's and no transmission
  is on; outside of one, pointer and owner agree.
- **Memory** (`IInv`, `SInv`).  Every directory that some task has, and the one
  in `cr3`, is `Finished`: complete, with tables below the heap's free page.  The
  one being built is `InTheMaking`: its tables are new and its entries checked.
  A new page is above all finished ones, so building disturbs none of them;
  that is lost when the heap is empty.  For the refinement, `CopiedSoFar` says
  what the entries already copied hold; at the end of the loop this is all the
  guest registered, and no step before is seen by a walk.  The page at address 0 is never made to be
  a directory, so a task without one is told from all others, and a guest that
  is not `careless` has a finished one in `cr3`.
- **Queues**.  Where a send starts to write is inside the buffer (`PointerInside`,
  which holds through overflows); it copies as many bytes as there is room for,
  and the rest from the start of the buffer, and no message is longer than that
  (`WritesInside`).  `Sound` relates the two pointers and the count.  The unread bytes
  of a ring are a sequence; what a send appends and a receive removes is shown
  for each of the cases of the split.
- **Guest scheduler** (`IInv` of `GuestSched_proofs`).  `Activation` says for
  every point of `rtl_schedule` which of directory, stack and current task
  already belong to the thread chosen.  Threads that were switched out are at
  their signals, with some signal set.  Release times: the distance to the next
  release plus `ahead` never grows, `ClockAhead` bounds `ahead`.  That the loop
  finds a thread needs that a finite set of threads has a first one; the proof
  takes a smallest set of predecessors.
- **Sockets** (`IInv` of `Sockets_proofs`).  Slots of `uip_listenports` are used
  from the first one on, so a search that meets a free slot has seen all used
  ones; local ports of connections do not exceed `lastport`, so a new one is
  fresh (`TablesOK`).  Every full slot of the driver's queue holds the frame that
  arrived under its number (`QueueOK`), and while `example3_app` is at its slot,
  `c` is the first connection of the frame's port (`FoundOK`): `task2`, which
  would move `c`, waits.
- **Framing** (`FramesOK` and `RoundsOK` of `SocketFrames_proofs`).  A channel has a
  set of positions at which it is cut, with a message between any one and a
  later one.  Appending a message adds a position; taking the first message
  shifts the others.  `task2` takes a call in two receives, so the call id it
  already has counts as still pending; `switch` knows sends of the first guest
  only, hence the assumption.  What a guest receives is framed as long as it is
  not in `cut` (`UncutOK`).  `EndsMessage` is a least set, so a receive that
  ends with a message is told apart by taking the framing's positions for the
  set in its definition (`EndsAtCuts`).  In a receive, the words it has counted and those a
  send adds behind them are framed apart from each other.  A message names a
  socket that has an entry, entries are used from the first one on, and so even
  the search for socket 0 ends at an opened one.  No guest may have the number
  65535, with which `uip_init` marks a free slot.
- **Packets** (`PassageOK`, `InOrderOK`, `OwnersOK` of `SocketPackets_proofs`).
  All of this is under `Uncut`, that no guest is
  in `cut`: one that is may hand out words that are not packets.  Framing alone
  forgets what the messages are, so every cut gets a label, a
  number, and every message relates the labels before and behind it (`Walk`).
  With the packets' numbers as labels (`Trail`) this says that the numbers grow
  along the words; they grow from the words a receive has taken to those still in
  the channel and on to the frame in `example3_app` and the driver's queue.  What
  a guest has handed out, keeps or has in its buffer is older than all these and
  in one place each (`PassageOK`).  With one socket nothing is kept, so the
  packets handed out grow too (`InOrderOK`).  A packet that has come for a port
  of a guest is *owned* by the socket its message names, and ownership stays:
  slots keep their port and guest, and sockets are not closed (`OwnersOK`).
- **Replies** (`RepliesOK`).  The calls in a channel are framed by those that the
  guest may have sent (`SentCalls`), each send with the socket recorded in the
  history `replies`; the slots hold what was sent on their sockets.
- **Connections** (`ConnectsOK`).  The labels of a call channel are the numbers of
  the connections asked for up to there, so that each is served once, in order.
  A guest has an entry for each number it has taken (`NumbersOpen`), hence, as
  two numbers are not in one entry, at most `MAX_OPEN_PORTS` of them; `lastport`
  is at most `FirstLport` and the number of those served.

Only model-checked: liveness (`DispatchedForever`, `TimerDelivered`,
`KeyDelivered`, `WaitsThenRuns`, `ListenServed`), which is out of the provers'
reach.  Every invariant and action property of the passing runs is stated by a
theorem, under the assumptions above.

## 5. Findings

Six runs end in a counterexample.  Each checks one sentence of the repository
against what its code does; `PROJECT.json` quotes both.

1. `sched_late` - the window of the table is skipped, not shortened, when its
   first tick falls into a hypercall: `fGetNextGOSToSchedule` looks for windows
   that start in the current tick only.
2. `ipc_short` - a receive that finds too few bytes returns how many there are,
   and the kernels of the partitions rely on it.
3. `gsched_race` - `rtl_schedule` is not protected from the virtual timer.
4. `sockets_small` - `sys_sock_tcp_recv_k` moves `index` to the socket of the
   message it keeps, and takes the next old packet from there.
5. `sockets_race` - the functions of `uip.c` that two tasks call share the loop
   variable `c`.
6. `sockets_cut` - the receive asks for a number of bytes, not of messages; the
   loop counts `message_size` down to exactly 0, which a cut message steps over.

The models show three more disagreements, each in the behaviour of a definition
and not in a run of its own:

- `iCallOn` does not cover the whole of `hyper_call`: a tick before line 63 or
  after line 70 of `hypercallEntry.S` takes the second branch of the injection,
  which is meant for a guest in user mode (rtl_time_8254.c:128), and redirects a
  frame of SParK.  `badFrames` of `SparkSched` has the guests this happened to,
  and as an invariant of `sched_span`, `badFrames = {}` fails.
- `insertq` of the driver returns the slot behind the one it filled and
  `removeq` the one it emptied, and lengths are stored by one and read by the
  other: a frame comes with the length of the one before (i386_pci82573v.c:506),
  the first with 0, although `uip.h:210` expects that of the packet.
  In `SparkNic`, `~isempty => NextLength = NextFrame.length` fails in `sockets`.
- A queue that overflows is not reset (hypercall.c:242): its count keeps the
  bytes that no pointer leads to any more.

## 6. What is not modelled

The models cover the code that decides who runs, what is mapped and who gets
which data.  That is a small part of the tree: most of its 160000 lines are
dietlibc (once for SParK and once in each guest), uIP, TLSF, the e1000 driver and
device headers, and the three guests hold copies of the same kernel, of which one
is mapped.

- Inter-task channels (`itc.c`): no task of the repository registers or uses one,
  so a model would have no states the program reaches.
- Guest scheduler functions no shipped task calls (suspend, wakeup, kill, exit,
  `pthread_setpriority`), EDF and the FPU switch, which the configuration leaves
  out.
- Modbus: the serial interrupt fills a buffer whose only reader,
  `spark_readModbus`, has its body compiled out (`#if 0`).  Port output is polled.
- uIP's protocol (TCP states, checksums, ARP, retransmission): third-party code.
  `uip_init`, which waits for the network card, and the commands the partition
  answers itself (`process_packet`).
- The network driver's descriptor rings: the device's side is not in the source.
- The wrap of `lastport` at 32000: `ConnectionsBounded` shows that it does not come
  near (1024 and three for each guest).
- The search for a channel that nobody registered; directories with entries
  whose place in SParK's copy is behind the page (page.c:139 with
  `iCount + iPdeBase`); task ids below -3, whose word in front of `pde[]` is
  `gdt_addr` or belongs to something else.  What they do depends on what lies
  beside an array, and the shipped guests do not get there.  The exception
  handlers write two of the three words a negative id reaches (setup.c:86, 87),
  but halt the machine then.
  `SparkSched` and the others know the ids from 0 on only.
- The storage of packet queues (`init_cq_monitor`): it is cut out of one array by
  an index that is never set back, which is enough as entries are not given
  back; every queue of the models has its own.  The `memset` there is given the
  first byte of the storage as an address and not the storage's.
- The heap once it is empty, beside the page at address 0 (section 4), and the
  pages `spark_registerMQ` takes from it.
- The 8259: every handler that is installed acknowledges, and only the keyboard's
  line is unmasked later.  Time conversion from the 8254's counter and the time
  stamp counter: no decision of the schedulers uses it.
- The acquisition card, screen, mouse, terminal, printing hypercalls: input and
  output without state.  Boot assembly: runs once before `Init`.
- What came from RTLinux without being reached: POSIX input and output, signals
  of SParK.

What could be added: a registration and a queue that share the heap, for what
happens when it runs out; an abstract specification of the sockets, a queue for
each, which the three modules together would implement.
