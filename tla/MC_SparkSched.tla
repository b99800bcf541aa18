---------------------------- MODULE MC_SparkSched ----------------------------
(***************************************************************************)
(* Schedules for the instances of SparkSched that TLC checks.              *)
(***************************************************************************)
EXTENDS SparkSched

Window(s, g, e) == [start_t |-> s, gos_id |-> g, end_t |-> e]

\* The schedule the repository ships (arch/i386/boot/sched.output): 3 guests,
\* 5 ticks, the last one nobody's.
ShippedSchedule == <<Window(0, 0, 2), Window(2, 1, 3), Window(3, 2, 4)>>

\* The other schedule of the repository (sched.output_bak).
BackupSchedule == <<Window(0, 0, 1), Window(1, 1, 2), Window(2, 0, 3),
                    Window(3, 1, 4), Window(4, 2, 6)>>

\* Two guests: a guest with two windows, a gap between windows, and no idle
\* tick at the end, so that a cycle can begin without SParK in between.
TwoGuests == <<Window(0, 0, 1), Window(2, 0, 3), Window(3, 1, 4)>>
=============================================================================
