------------------------------- MODULE Timer -------------------------------
(***************************************************************************)
(* timer.c: the timer thread, the device threads that call next_slot and   *)
(* detach_event, and the main thread that calls stop_timer.  Every device  *)
(* has two flags (done, fsh) and two locks with a condition variable each: *)
(* event_* wakes the timer, timer_* wakes the device.  A step is what runs *)
(* between taking and releasing one lock (or waiting on its condition);    *)
(* NoRaceOnDone and NoRaceOnTime justify that for the accesses that are    *)
(* under different locks or under none.  Both waits may wake spuriously.   *)
(* The main thread attaches the devices, starts the timer, creates the     *)
(* threads of the devices while the timer runs already, and joins them.    *)
(* Device d is the d-th of dev_list: 1 is the loader, attached last, and   *)
(* N, attached first, the CPU that is created first.                       *)
(***************************************************************************)
EXTENDS Integers

CONSTANTS
  N,           \* number of attached devices
  TimeWidth    \* _time is kept modulo this, 2^64 in the code

ASSUME TimerAssumption == N \in Nat \ {0} /\ TimeWidth \in Nat \ {0}

Dev == 1 .. N

VARIABLES
  done, fsh,        \* the flags of each device
  time,             \* _time
  timer_started, timer_stop,
  attached,         \* devices in dev_list
  tpc,              \* where the timer thread is
  pos,              \* temp, its place in dev_list; N + 1 for NULL
  fshs, events,     \* its locals fsh and event
  dpc,              \* where each device thread is
  mpc               \* where the main thread is

timerVars == <<tpc, pos, fshs, events>>
mainVars == <<timer_started, attached>>
vars == <<done, fsh, time, timer_stop, tpc, pos, fshs, events, dpc, mpc, mainVars>>

Init ==
  /\ done = [d \in Dev |-> FALSE]
  /\ fsh = [d \in Dev |-> FALSE]
  /\ time = 0
  /\ timer_started = FALSE /\ timer_stop = FALSE
  /\ attached = 0
  /\ tpc = "none"
  /\ pos = 1 /\ fshs = 0 /\ events = 0
  /\ dpc = [d \in Dev |-> "none"]
  /\ mpc = "setup"

-----------------------------------------------------------------------------
(* The timer thread. *)

\* Mutant: fsh and event are not reset in every round.
BeginRoundKeepCounters ==
  /\ tpc = "loop"
  /\ tpc' = IF timer_stop THEN "exit" ELSE "scan"
  /\ pos' = 1
  /\ UNCHANGED <<done, fsh, time, timer_stop, fshs, events, dpc, mpc, mainVars>>

BeginRound ==
  /\ tpc = "loop"
  /\ tpc' = IF timer_stop THEN "exit" ELSE "scan"
  /\ pos' = 1 /\ fshs' = 0 /\ events' = 0
  /\ UNCHANGED <<done, fsh, time, timer_stop, dpc, mpc, mainVars>>

\* Mutant: the timer does not wait for the device.
ScanWithoutWait ==
  /\ tpc = "scan" /\ pos <= N
  /\ fshs' = IF fsh[pos] THEN fshs + 1 ELSE fshs
  /\ events' = events + 1
  /\ pos' = pos + 1
  /\ UNCHANGED <<done, fsh, time, timer_stop, tpc, dpc, mpc, mainVars>>

\* Wait until the device at pos is done or has detached, then count it.
ScanDevice ==
  /\ tpc = "scan" /\ pos <= N
  /\ IF done[pos] \/ fsh[pos]
       THEN /\ fshs' = IF fsh[pos] THEN fshs + 1 ELSE fshs
            /\ events' = events + 1
            /\ pos' = pos + 1
            /\ tpc' = tpc
       ELSE tpc' = "asleep" /\ UNCHANGED <<pos, fshs, events>>
  /\ UNCHANGED <<done, fsh, time, timer_stop, dpc, mpc, mainVars>>

Tick ==
  /\ tpc = "scan" /\ pos = N + 1
  /\ time' = (time + 1) % TimeWidth
  /\ tpc' = "release" /\ pos' = 1
  /\ UNCHANGED <<done, fsh, timer_stop, fshs, events, dpc, mpc, mainVars>>

\* Mutant: the flag is cleared but the device is not signalled.
ReleaseSilently ==
  /\ tpc = "release" /\ pos <= N
  /\ done' = [done EXCEPT ![pos] = FALSE]
  /\ pos' = pos + 1
  /\ UNCHANGED <<fsh, time, timer_stop, tpc, fshs, events, dpc, mpc, mainVars>>

ReleaseDevice ==
  /\ tpc = "release" /\ pos <= N
  /\ done' = [done EXCEPT ![pos] = FALSE]
  /\ dpc' = IF dpc[pos] = "sleep" THEN [dpc EXCEPT ![pos] = "enter"] ELSE dpc
  /\ pos' = pos + 1
  /\ UNCHANGED <<fsh, time, timer_stop, tpc, fshs, events, mpc, mainVars>>

\* Mutant: the timer ends when one device has detached.
EndRoundEarly ==
  /\ tpc = "release" /\ pos = N + 1
  /\ tpc' = IF fshs # 0 THEN "exit" ELSE "loop"
  /\ UNCHANGED <<done, fsh, time, timer_stop, pos, fshs, events, dpc, mpc, mainVars>>

EndRound ==
  /\ tpc = "release" /\ pos = N + 1
  /\ tpc' = IF fshs = events THEN "exit" ELSE "loop"
  /\ UNCHANGED <<done, fsh, time, timer_stop, pos, fshs, events, dpc, mpc, mainVars>>

TimerWakesSpuriously ==
  /\ tpc = "asleep"
  /\ tpc' = "scan"
  /\ UNCHANGED <<done, fsh, time, timer_stop, pos, fshs, events, dpc, mpc, mainVars>>

timer_routine == BeginRound \/ ScanDevice \/ Tick \/ ReleaseDevice \/ EndRound

-----------------------------------------------------------------------------
(* The device threads. *)

\* Mutant: the signal is forgotten.
SignalNobody(d) == tpc' = tpc

\* pthread_cond_signal on event_cond of d
SignalTimer(d) == tpc' = IF tpc = "asleep" /\ pos = d THEN "scan" ELSE tpc

\* next_slot, first critical section
DeclareDone(d) ==
  /\ dpc[d] = "work"
  /\ done' = [done EXCEPT ![d] = TRUE]
  /\ SignalTimer(d)
  /\ dpc' = [dpc EXCEPT ![d] = "enter"]
  /\ UNCHANGED <<fsh, time, timer_stop, pos, fshs, events, mpc, mainVars>>

\* next_slot, the test of its wait loop
WaitForSlot(d) ==
  /\ dpc[d] = "enter"
  /\ dpc' = [dpc EXCEPT ![d] = IF done[d] THEN "sleep" ELSE "work"]
  /\ UNCHANGED <<done, fsh, time, timer_stop, tpc, pos, fshs, events, mpc, mainVars>>

\* Mutant: `if (done)' instead of `while (done)' around the wait.
DeviceReturnsOnWake(d) ==
  /\ dpc[d] = "sleep"
  /\ dpc' = [dpc EXCEPT ![d] = "work"]
  /\ UNCHANGED <<done, fsh, time, timer_stop, tpc, pos, fshs, events, mpc, mainVars>>

DeviceWakesSpuriously(d) ==
  /\ dpc[d] = "sleep"
  /\ dpc' = [dpc EXCEPT ![d] = "enter"]
  /\ UNCHANGED <<done, fsh, time, timer_stop, tpc, pos, fshs, events, mpc, mainVars>>

\* Mutant: detach_event does not signal the timer.
DetachSilently(d) ==
  /\ dpc[d] = "work"
  /\ fsh' = [fsh EXCEPT ![d] = TRUE]
  /\ dpc' = [dpc EXCEPT ![d] = "exit"]
  /\ UNCHANGED <<done, time, timer_stop, tpc, pos, fshs, events, mpc, mainVars>>

\* detach_event, after which the thread exits
Detach(d) ==
  /\ dpc[d] = "work"
  /\ fsh' = [fsh EXCEPT ![d] = TRUE]
  /\ SignalTimer(d)
  /\ dpc' = [dpc EXCEPT ![d] = "exit"]
  /\ UNCHANGED <<done, time, timer_stop, pos, fshs, events, mpc, mainVars>>

-----------------------------------------------------------------------------
(* The main thread: it attaches the devices, starts the timer, creates the *)
(* threads of the devices and joins them; then stop_timer sets timer_stop, *)
(* joins the timer and frees dev_list.                                     *)

\* A new device, at the head of dev_list; with the timer started it would be
\* NULL.
attach_event ==
  /\ mpc = "setup" /\ attached < N /\ ~timer_started
  /\ done' = [done EXCEPT ![N - attached] = FALSE]
  /\ fsh' = [fsh EXCEPT ![N - attached] = FALSE]
  /\ attached' = attached + 1
  /\ UNCHANGED <<time, timer_started, timer_stop, timerVars, dpc, mpc>>

start_timer ==
  /\ mpc = "setup" /\ attached = N
  /\ timer_started' = TRUE
  /\ tpc' = "loop"
  /\ mpc' = "create"
  /\ UNCHANGED <<done, fsh, time, timer_stop, attached, pos, fshs, events, dpc>>

Born(d) == dpc[d] # "none"

\* pthread_create: the loader, then the CPUs in the order they were attached.
CreateThread(d) ==
  /\ mpc = "create" /\ ~Born(d)
  /\ d # 1 => Born(1) /\ \A e \in d + 1 .. N : Born(e)
  /\ dpc' = [dpc EXCEPT ![d] = "work"]
  /\ mpc' = IF \A e \in Dev \ {d} : Born(e) THEN "join" ELSE mpc
  /\ UNCHANGED <<done, fsh, time, timer_stop, timerVars, mainVars>>

JoinDevices ==
  /\ mpc = "join"
  /\ \A d \in Dev : dpc[d] = "exit"
  /\ timer_stop' = TRUE
  /\ mpc' = "stop"
  /\ UNCHANGED <<done, fsh, time, tpc, pos, fshs, events, dpc, mainVars>>

JoinTimer ==
  /\ mpc = "stop"
  /\ tpc = "exit"
  /\ mpc' = "returned"
  /\ UNCHANGED <<done, fsh, time, timer_stop, tpc, pos, fshs, events, dpc, mainVars>>

Terminated == mpc = "returned" /\ UNCHANGED vars

Next ==
  \/ timer_routine
  \/ TimerWakesSpuriously
  \/ \E d \in Dev : \/ DeclareDone(d) \/ WaitForSlot(d)
                    \/ DeviceWakesSpuriously(d) \/ Detach(d)
                    \/ CreateThread(d)
  \/ attach_event \/ start_timer \/ JoinDevices \/ JoinTimer
  \/ Terminated

Spec == Init /\ [][Next]_vars

\* Every thread runs.  Nothing makes a spurious wakeup happen.  A device
\* reaches its next call of next_slot or detach_event: in one slot a CPU runs
\* one instruction and the loader loads finitely many processes.
Fairness ==
  /\ WF_vars(timer_routine)
  /\ WF_vars(\/ attach_event \/ start_timer \/ (\E d \in Dev : CreateThread(d))
             \/ JoinDevices \/ JoinTimer)
  /\ \A d \in Dev : /\ WF_vars(WaitForSlot(d))
                    /\ WF_vars(DeclareDone(d) \/ Detach(d))

FairSpec == Spec /\ Fairness

-----------------------------------------------------------------------------
TypeOK ==
  /\ done \in [Dev -> BOOLEAN]
  /\ fsh \in [Dev -> BOOLEAN]
  /\ time \in 0 .. TimeWidth - 1
  /\ timer_started \in BOOLEAN /\ timer_stop \in BOOLEAN
  /\ attached \in 0 .. N
  /\ tpc \in {"none", "loop", "scan", "asleep", "release", "exit"}
  /\ pos \in 1 .. N + 1
  /\ fshs \in 0 .. N
  /\ events \in 0 .. N
  /\ dpc \in [Dev -> {"none", "work", "enter", "sleep", "exit"}]
  /\ mpc \in {"setup", "create", "join", "stop", "returned"}

Inside(d) == dpc[d] \in {"enter", "sleep"}

\* _time++ and current_time() are under no lock: when the timer is about to
\* increment, every device is inside next_slot or gone, so none can read it,
\* not even one whose thread main is still to create.
NoRaceOnTime ==
  tpc = "scan" /\ pos = N + 1 => \A d \in Dev : Inside(d) \/ dpc[d] = "exit"

\* A device sets done under event_lock and the timer clears it under
\* timer_lock: the two never meet, and the timer never clears the flag of a
\* device that has gone on to the next slot already.
NoRaceOnDone ==
  tpc = "release" => \A d \in pos .. N : dpc[d] = "exit" \/ (done[d] /\ Inside(d))

\* Nobody sleeps through the signal meant for it: a device sleeps only while
\* its flag is set, the timer only while both flags of the device it waits
\* for are clear.
NoLostWakeup ==
  /\ \A d \in Dev : dpc[d] = "sleep" => done[d]
  /\ tpc = "asleep" => pos \in Dev /\ ~done[pos] /\ ~fsh[pos]

\* The barrier's view of a device, at work before it is born: from _time++ on,
\* a device whose flag is still to be cleared is in the next slot already.
At(d) ==
  IF dpc[d] = "exit" THEN "left"
  ELSE IF done[d] /\ ~(tpc = "release" /\ pos <= d) THEN "waiting" ELSE "working"

Ticking == ~(tpc = "exit" \/ (tpc = "release" /\ fshs = events))

\* The threads of timer.c implement the barrier: no slot begins while a
\* device is still working in the last one, no device is left behind, and the
\* timer stops only when all have detached.
Barrier == INSTANCE SlotBarrier WITH
             at <- [d \in Dev |-> At(d)], ticking <- Ticking

ImplementsBarrier == Barrier!Spec

\* next_slot returns, whatever the other devices do in their slots and
\* whichever of them detach.
NextSlotReturns == \A d \in Dev : dpc[d] = "enter" ~> dpc[d] = "work"

\* Once all devices have detached the timer thread ends and stop_timer
\* returns, whether the timer counts them or sees timer_stop first.
StopTimerReturns == (\A d \in Dev : dpc[d] = "exit") ~> mpc = "returned"
=============================================================================
