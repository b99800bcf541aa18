---------------------------- MODULE SparkMailbox ----------------------------
(***************************************************************************)
(* Keyboard delivery.  A guest registers the address of its variable       *)
(* kbd_data_k; the keyboard interrupt stores the key there if that guest   *)
(* has the processor, and every switch to it stores the last key again.    *)
(* The interrupt may come between any two steps of SparkSched, in the body *)
(* of a hypercall too, and in the middle of a registration.                *)
(***************************************************************************)
EXTENDS SparkSched

CONSTANTS
  Keys   \* what scan_to_ascii returns, its error 0xFF excluded

NoKey == 255   \* spark_kbd_data before the first key
Nobody == -1

ASSUME KeyAssumption == Keys \subseteq 1 .. 254

VARIABLES
  kbd_guest_os,    \* who registered last
  kbd_data_gos,    \* whose variable the pointer leads to
  spark_kbd_data,  \* the last key
  kbd_data_k,      \* the variable of each guest
  registering      \* has the hypercall set the pointer and not yet the guest?

keyboard == <<kbd_guest_os, kbd_data_gos, spark_kbd_data, kbd_data_k>>
all == <<vars, keyboard, registering>>

InitMailbox ==
  /\ Init
  /\ kbd_guest_os = Nobody
  /\ kbd_data_gos = Nobody
  /\ spark_kbd_data = NoKey
  /\ kbd_data_k = [g \in Guests |-> 0]
  /\ registering = FALSE

-----------------------------------------------------------------------------
\* spark_register_interrupt(1, &kbd_data_k): the pointer, the interrupt
\* controller, the guest.

\* Mutant: the guest is set before the pointer.
BeginsWithGuest(p) ==
  /\ In(p, "hyper")
  /\ cpu.cr3 # <<Spark, 0>>
  /\ ~registering
  /\ registering' = TRUE
  /\ kbd_guest_os' = p
  /\ UNCHANGED <<kbd_data_gos, spark_kbd_data, kbd_data_k, vars>>

\* Mutant: phyOffset is not added, the address is one of SParK's.
RegisterRaw(p) ==
  /\ In(p, "hyper")
  /\ cpu.cr3 # <<Spark, 0>>
  /\ ~registering
  /\ registering' = TRUE
  /\ kbd_data_gos' = Spark
  /\ UNCHANGED <<kbd_guest_os, spark_kbd_data, kbd_data_k, vars>>

RegisterPointer(p) ==
  /\ In(p, "hyper")
  /\ cpu.cr3 # <<Spark, 0>>
  /\ ~registering
  /\ registering' = TRUE
  /\ kbd_data_gos' = p
  /\ UNCHANGED <<kbd_guest_os, spark_kbd_data, kbd_data_k, vars>>

RegisterGuest(p) ==
  /\ registering
  /\ registering' = FALSE
  /\ ret_from_hyper_call(p)
  /\ kbd_guest_os' = p
  /\ kbd_data_gos' = p
  /\ UNCHANGED <<gos_id, thread, cpu, spark_kbd_data, kbd_data_k>>

\* The page directories of a guest map its variable at the address in the
\* pointer, SParK's own directory does not.
Mapped == cpu.cr3[1] = kbd_data_gos
Stored(key) == [kbd_data_k EXCEPT ![kbd_data_gos] = key]

\* The interrupt is unmasked by the first registration.
keyboardhandler(key) ==
  /\ ~halted
  /\ kbd_data_gos # Nobody
  /\ spark_kbd_data' = key
  /\ \/ /\ kbd_guest_os # iCurrGuestOsIndex
        /\ UNCHANGED <<kbd_data_k, halted>>
     \/ /\ kbd_guest_os = iCurrGuestOsIndex /\ Mapped
        /\ kbd_data_k' = Stored(key)
        /\ UNCHANGED halted
     \/ /\ kbd_guest_os = iCurrGuestOsIndex /\ ~Mapped   \* irq_14_handler
        /\ halted' = TRUE
        /\ UNCHANGED kbd_data_k
  /\ UNCHANGED <<kbd_guest_os, kbd_data_gos, registering,
                 gCurrEtaCount, gos_id, iCurrGuestOsIndex, iCallOn, mode,
                 started, thread, cpu, badFrames, perfIndex, missed>>

NotDelivered == kbd_data_k   \* mutant: the switch leaves the variable alone

\* The end of spark_switch_to, in the partition that was switched to: one that
\* is dispatched for the first time does not come here.
Delivered ==
  IF /\ iCurrGuestOsIndex' # iCurrGuestOsIndex
     /\ iCurrGuestOsIndex' \in started
     /\ kbd_guest_os = iCurrGuestOsIndex'
  THEN Stored(spark_kbd_data) ELSE kbd_data_k

\* A step of SparkSched.  While the running partition is in the body of a
\* registration it is in that of no other hypercall.
Scheduler ==
  /\ Next
  /\ registering => UNCHANGED <<mode, cpu>>
  /\ kbd_data_k' = Delivered
  /\ UNCHANGED <<kbd_guest_os, kbd_data_gos, spark_kbd_data, registering>>

Registers(p) == RegisterPointer(p) \/ RegisterGuest(p)

NextMailbox ==
  \/ Scheduler
  \/ \E p \in Guests : Registers(p)
  \/ \E key \in Keys : keyboardhandler(key)

SpecMailbox == InitMailbox /\ [][NextMailbox]_all

\* The 8254 is in periodic mode, so a tick that is possible again and again
\* comes; a hypercall ends and returns to its caller.
FairMailbox ==
  /\ SpecMailbox
  /\ SF_all(Tick /\ Scheduler)
  /\ \A p \in Guests : /\ WF_all(HyperCall(p) /\ Scheduler)
                       /\ WF_all(RegisterGuest(p))

-----------------------------------------------------------------------------
\* Properties

MailboxTypeOK ==
  /\ kbd_guest_os \in Guests \cup {Nobody}
  /\ kbd_data_gos \in Guests \cup {Nobody}
  /\ spark_kbd_data \in Keys \cup {NoKey}
  /\ kbd_data_k \in [Guests -> Keys \cup {0, NoKey}]
  /\ registering \in BOOLEAN

\* The interrupt and the switch store through a pointer that two hypercalls of
\* two guests may set, in two halves (hypercall.c:124 and 127) that a key can
\* come between: whenever a key would be stored, the pointer is the running
\* guest's own and its page directory maps it.  The exception is a key in the
\* middle of a transmission, which faults (i386_kbd.c:282).
KeysToOwner ==
  kbd_guest_os = iCurrGuestOsIndex =>
    /\ kbd_data_gos = iCurrGuestOsIndex
    /\ Mapped \/ (iCallOn = 1 /\ cpu.cr3 = <<Spark, 0>>)

\* A key that was pressed while its guest was switched out is not lost: the
\* guest finds it when it has the processor again, if no key came later, it
\* was not killed, no other guest took the keyboard and nothing halts.
KeyDelivered ==
  \A g \in Guests, key \in Keys :
    kbd_guest_os = g /\ spark_kbd_data = key
      ~> \/ kbd_data_k[g] = key \/ spark_kbd_data # key
         \/ kbd_guest_os # g \/ Killed(g) \/ halted

-----------------------------------------------------------------------------
\* The inductive invariant: in the middle of a registration the pointer is the
\* caller's and no transmission goes on, otherwise pointer and guest agree.
IMailbox ==
  /\ IInv
  /\ MailboxTypeOK
  /\ registering => /\ iCurrGuestOsIndex \in Guests /\ iCallOn = 1
                    /\ kbd_data_gos = iCurrGuestOsIndex
                    /\ cpu.cr3 # <<Spark, 0>>
  /\ ~registering => kbd_data_gos = kbd_guest_os
=============================================================================
