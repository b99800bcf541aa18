------------------------ MODULE SparkMailbox_proofs ------------------------
(***************************************************************************)
(* Keyboard delivery, for every schedule, number of guests and set of      *)
(* keys: the pointer a key is stored through is the running guest's.  The  *)
(* steps of SparkSched keep the invariant of SparkSched_proofs; what is    *)
(* left are the two halves of a registration and the interrupt.            *)
(***************************************************************************)
EXTENDS SparkMailbox, SparkSched_proofs

LEMMA MailboxInit == InitMailbox => IMailbox
<1> SUFFICES ASSUME InitMailbox PROVE IMailbox
  OBVIOUS
<1>1. IInv
  BY InvInit DEF InitMailbox
<1> QED
  BY <1>1 DEF InitMailbox, IMailbox, MailboxTypeOK

\* Storing a key keeps the types.
LEMMA StoredType ==
  ASSUME MailboxTypeOK, NEW key \in Keys \cup {0, NoKey}
  PROVE  Stored(key) \in [Guests -> Keys \cup {0, NoKey}]
BY DEF MailboxTypeOK, Stored

\* In the middle of a registration the scheduler can only count a tick.
LEMMA MidRegistration ==
  ASSUME IMailbox, registering, Next, UNCHANGED <<mode, cpu>>
  PROVE  UNCHANGED <<iCurrGuestOsIndex, iCallOn>>
<1> DEFINE q == iCurrGuestOsIndex
<1>1. /\ TypeOK /\ q \in Guests /\ q \in Partitions /\ iCallOn = 1 /\ mode[q] = "hyper"
      /\ cpu.cr3 # <<Spark, 0>>
  BY ConstantFacts DEF IMailbox, IInv, CallGate
<1>2. ASSUME NEW p \in Guests, ret_from_hyper_call(p) PROVE FALSE
  BY <1>1, <1>2 DEF ret_from_hyper_call, In, Goes, TypeOK
<1>3. CASE Tick
  BY <1>1, <1>3 DEF Tick
<1>4. CASE TickDuringCall
  BY <1>4 DEF TickDuringCall
<1>5. ASSUME NEW p \in Guests, GuestMoves(p) \/ ExceptionHandler(p) \/ HyperCallTrap(p)
      PROVE  FALSE
  BY <1>1, <1>5 DEF GuestMoves, ExceptionHandler, HyperCallTrap, In
<1>6. ASSUME NEW p \in Guests, HyperCall(p) PROVE FALSE
  <2>1. CASE SetICallOn(p) \/ HyperCallIret(p)
    BY <1>1, <2>1 DEF SetICallOn, HyperCallIret, In
  <2>2. CASE HyperCallBody(p) \/ TransmitEnd(p)
    BY <1>2, <2>2 DEF HyperCallBody, TransmitEnd
  <2>3. CASE TransmitBegin(p)
    BY <1>1, <2>3 DEF TransmitBegin, TypeOK
  <2> QED
    BY <1>6, <2>1, <2>2, <2>3 DEF HyperCall
<1> QED
  BY <1>3, <1>4, <1>5, <1>6 DEF Next

LEMMA SchedulerKeeps == IMailbox /\ Scheduler => IMailbox'
<1> SUFFICES ASSUME IMailbox, Scheduler PROVE IMailbox'
  OBVIOUS
<1>1. IInv'
  BY InvStep DEF IMailbox, Scheduler
<1>2. MailboxTypeOK'
  <2>1. Delivered \in [Guests -> Keys \cup {0, NoKey}]
    <3>1. spark_kbd_data \in Keys \cup {0, NoKey} /\ kbd_data_k \in [Guests -> Keys \cup {0, NoKey}]
      BY DEF IMailbox, MailboxTypeOK
    <3>2. Stored(spark_kbd_data) \in [Guests -> Keys \cup {0, NoKey}]
      BY <3>1, StoredType DEF IMailbox
    <3> QED
      BY <3>1, <3>2 DEF Delivered
  <2> QED
    BY <2>1 DEF IMailbox, MailboxTypeOK, Scheduler
<1>3. CASE registering
  BY <1>1, <1>2, <1>3, MidRegistration DEF IMailbox, Scheduler
<1>4. CASE ~registering
  BY <1>1, <1>2, <1>4 DEF IMailbox, Scheduler
<1> QED
  BY <1>3, <1>4

LEMMA RegistersKeeps ==
  ASSUME IMailbox, NEW p \in Guests, Registers(p)
  PROVE  IMailbox'
<1>1. TypeOK /\ CallGate
  BY DEF IMailbox, IInv
<1>2. CASE RegisterPointer(p)
  <2>1. UNCHANGED vars /\ In(p, "hyper") /\ kbd_data_gos' = p /\ registering' = TRUE /\ cpu.cr3 # <<Spark, 0>>
    BY <1>2 DEF RegisterPointer
  <2>2. IInv'
    BY <2>1, InvStep DEF IMailbox
  <2>3. MailboxTypeOK'
    BY <1>2 DEF RegisterPointer, IMailbox, MailboxTypeOK
  <2>4. p = iCurrGuestOsIndex /\ iCallOn = 1
    BY <1>1, <2>1 DEF In, CallGate
  <2> QED
    BY <2>1, <2>2, <2>3, <2>4 DEF IMailbox, vars
<1>3. CASE RegisterGuest(p)
  <2>1. In(p, "hyper") /\ ret_from_hyper_call(p) /\ UNCHANGED <<gos_id, thread, cpu>> /\ registering
    BY <1>3 DEF RegisterGuest, ret_from_hyper_call
  <2>2. cpu.cr3 # <<Spark, 0>>
    BY <2>1 DEF IMailbox
  <2>3. HyperCallBody(p)
    BY <2>1, <2>2 DEF HyperCallBody, OtherHypercall
  <2>4. IInv'
    BY <2>3, InvStep DEF IMailbox, Next, HyperCall
  <2>5. MailboxTypeOK'
    BY <1>3 DEF RegisterGuest, IMailbox, MailboxTypeOK
  <2> QED
    BY <1>3, <2>4, <2>5 DEF RegisterGuest, IMailbox
<1> QED
  BY <1>2, <1>3 DEF Registers

\* The interrupt changes nothing of the scheduler but, if the pointer is not
\* mapped, halted.
LEMMA HaltKeeps ==
  ASSUME IInv, halted' \in BOOLEAN,
         UNCHANGED <<gCurrEtaCount, gos_id, iCurrGuestOsIndex, iCallOn, mode, started, thread,
                     cpu, badFrames, perfIndex, missed>>
  PROVE  IInv'
<1>1. TypeOK'
  BY DEF IInv, TypeOK, thread
<1>2. CallGate' /\ ContextHeld' /\ RunsOwnWindow'
  BY DEF IInv, CallGate, ContextHeld, RunsOwnWindow, thread
<1>3. TimerBelowPeriod' /\ KilledEverywhere' /\ PerfBehindCount'
  BY DEF IInv, TimerBelowPeriod, KilledEverywhere, PerfBehindCount, thread
<1> QED
  BY <1>1, <1>2, <1>3 DEF IInv

LEMMA KeyKeeps ==
  ASSUME IMailbox, NEW key \in Keys, keyboardhandler(key)
  PROVE  IMailbox'
<1>1. halted' \in BOOLEAN
  BY DEF keyboardhandler, IMailbox, IInv, TypeOK
<1>2. IInv'
  BY <1>1, HaltKeeps DEF keyboardhandler, IMailbox
<1>3. MailboxTypeOK'
  BY StoredType DEF keyboardhandler, IMailbox, MailboxTypeOK
<1> QED
  BY <1>2, <1>3 DEF keyboardhandler, IMailbox

LEMMA MailboxStep == IMailbox /\ [NextMailbox]_all => IMailbox'
<1> SUFFICES ASSUME IMailbox, [NextMailbox]_all PROVE IMailbox'
  OBVIOUS
<1>1. CASE UNCHANGED all
  <2>1. IInv'
    BY <1>1, InvStep DEF IMailbox, all
  <2> QED
    BY <1>1, <2>1 DEF all, keyboard, vars, IMailbox, MailboxTypeOK
<1>2. CASE NextMailbox
  BY <1>2, SchedulerKeeps, RegistersKeeps, KeyKeeps DEF NextMailbox
<1> QED
  BY <1>1, <1>2

\* Whenever a key would be stored, the pointer is the running guest's own and
\* is mapped, unless the guest is in the middle of a transmission.
LEMMA OwnerFollows == IMailbox => KeysToOwner
<1> SUFFICES ASSUME IMailbox, kbd_guest_os = iCurrGuestOsIndex
             PROVE  /\ kbd_data_gos = iCurrGuestOsIndex
                    /\ Mapped \/ (iCallOn = 1 /\ cpu.cr3 = <<Spark, 0>>)
  BY DEF KeysToOwner
<1> DEFINE p == iCurrGuestOsIndex
<1>1. kbd_data_gos = p
  BY DEF IMailbox
<1>2. p \in Guests
  BY SizeAssumption DEF IMailbox, IInv, TypeOK, MailboxTypeOK, Guests, Partitions, Nobody
<1>3. cpu.cr3 = <<p, iCurrTaskId[p]>> \/ (mode[p] = "hyper" /\ cpu.cr3 = <<Spark, 0>>)
  BY <1>2 DEF IMailbox, IInv, ContextHeld
<1> QED
  BY <1>1, <1>3 DEF Mapped, IMailbox, IInv, CallGate

THEOREM MailboxTypes == SpecMailbox => []MailboxTypeOK
<1>1. IMailbox => MailboxTypeOK
  BY DEF IMailbox
<1> QED
  BY <1>1, MailboxInit, MailboxStep, PTL DEF SpecMailbox

THEOREM KeysReachOwner == SpecMailbox => []KeysToOwner
<1> QED
  BY MailboxInit, MailboxStep, OwnerFollows, PTL DEF SpecMailbox

\* What is proved of the scheduler also holds with a keyboard.
THEOREM SchedulerUndisturbed == SpecMailbox => []IInv
<1>1. IMailbox => IInv
  BY DEF IMailbox
<1> QED
  BY <1>1, MailboxInit, MailboxStep, PTL DEF SpecMailbox
=============================================================================
