---------------------------- MODULE TimerProofs ----------------------------
(***************************************************************************)
(* For any number of devices the threads of timer.c are free of races and  *)
(* lost wakeups and implement the slot barrier.                            *)
(***************************************************************************)
EXTENDS Timer, TLAPS

\* A device's flags say where its thread is.
FlagsInv ==
  \A d \in Dev : /\ fsh[d] <=> dpc[d] = "exit"
                 /\ done[d] => Inside(d)
                 /\ dpc[d] = "sleep" => done[d]

\* The devices before pos are done or gone, and the counters count them.
ScanInv ==
  tpc \in {"scan", "asleep"} =>
    /\ events = pos - 1
    /\ fshs <= events
    /\ \A d \in 1 .. pos - 1 : done[d] \/ fsh[d]
    /\ fshs = events <=> \A d \in 1 .. pos - 1 : fsh[d]

AsleepInv == tpc = "asleep" => pos <= N /\ ~done[pos] /\ ~fsh[pos]

\* The devices from pos on are still to be released.
ReleaseInv ==
  tpc = "release" =>
    /\ fshs <= events
    /\ \A d \in pos .. N : done[d] \/ fsh[d]
    /\ fshs = events => \A d \in Dev : fsh[d]

StopInv == timer_stop => \A d \in Dev : fsh[d]

\* While main sets the devices up there is no other thread.
SetupInv == mpc = "setup" => tpc = "none" /\ \A d \in Dev : dpc[d] = "none"

IInv == TypeOK /\ SetupInv /\ FlagsInv /\ ScanInv /\ AsleepInv /\ ReleaseInv /\ StopInv

LEMMA InitInv == Init => IInv
<1> SUFFICES ASSUME Init PROVE IInv
  OBVIOUS
<1>1. N \in Nat /\ N > 0 /\ 0 \in 0 .. TimeWidth - 1
  BY TimerAssumption
<1>2. TypeOK
  <2>1. /\ done \in [Dev -> BOOLEAN] /\ fsh \in [Dev -> BOOLEAN]
        /\ timer_stop \in BOOLEAN
        /\ timer_started \in BOOLEAN
    BY DEF Init
  <2>2. time \in 0 .. TimeWidth - 1 /\ pos \in 1 .. N + 1
        /\ fshs \in 0 .. N /\ events \in 0 .. N /\ attached \in 0 .. N
    BY <1>1 DEF Init
  <2> QED BY <2>1, <2>2 DEF Init, TypeOK
<1>3. FlagsInv
  BY DEF Init, FlagsInv
<1> QED BY <1>2, <1>3 DEF Init, IInv, SetupInv, ScanInv, AsleepInv, ReleaseInv, StopInv

LEMMA TimeType == time \in 0 .. TimeWidth - 1 => (time + 1) % TimeWidth \in 0 .. TimeWidth - 1
  BY TimerAssumption

LEMMA StepInv == IInv /\ [Next]_vars => IInv'
<1> SUFFICES ASSUME IInv, [Next]_vars PROVE IInv'
  OBVIOUS
<1> USE TimerAssumption DEF IInv, Dev, mainVars
<1>1. CASE BeginRound
  BY <1>1 DEF BeginRound, TypeOK, SetupInv, FlagsInv, ScanInv, AsleepInv, ReleaseInv, StopInv, Inside
<1>2. CASE ScanDevice
  <2>1. TypeOK' /\ SetupInv'
    BY <1>2 DEF ScanDevice, TypeOK, SetupInv, ScanInv
  <2>2. FlagsInv' /\ ReleaseInv' /\ StopInv'
    BY <1>2 DEF ScanDevice, TypeOK, SetupInv, FlagsInv, ReleaseInv, StopInv, Inside
  <2>3. ScanInv' /\ AsleepInv'
    <3>1. CASE done[pos] \/ fsh[pos]
      BY <1>2, <3>1 DEF ScanDevice, TypeOK, ScanInv, AsleepInv
    <3>2. CASE ~(done[pos] \/ fsh[pos])
      BY <1>2, <3>2 DEF ScanDevice, TypeOK, ScanInv, AsleepInv
    <3> QED BY <3>1, <3>2
  <2> QED BY <2>1, <2>2, <2>3
<1>3. CASE Tick
  BY <1>3, TimeType DEF Tick, TypeOK, SetupInv, FlagsInv, ScanInv, AsleepInv, ReleaseInv, StopInv, Inside
<1>4. CASE ReleaseDevice
  BY <1>4 DEF ReleaseDevice, TypeOK, SetupInv, FlagsInv, ScanInv, AsleepInv, ReleaseInv, StopInv, Inside
<1>5. CASE EndRound
  BY <1>5 DEF EndRound, TypeOK, SetupInv, FlagsInv, ScanInv, AsleepInv, ReleaseInv, StopInv, Inside
<1>6. CASE TimerWakesSpuriously
  BY <1>6 DEF TimerWakesSpuriously, TypeOK, SetupInv, FlagsInv, ScanInv, AsleepInv, ReleaseInv, StopInv, Inside
<1>7. ASSUME NEW d \in Dev, DeclareDone(d) PROVE IInv'
  BY <1>7 DEF DeclareDone, SignalTimer, TypeOK, SetupInv, FlagsInv, ScanInv, AsleepInv, ReleaseInv, StopInv, Inside
<1>8. ASSUME NEW d \in Dev, WaitForSlot(d) PROVE IInv'
  BY <1>8 DEF WaitForSlot, TypeOK, SetupInv, FlagsInv, ScanInv, AsleepInv, ReleaseInv, StopInv, Inside
<1>9. ASSUME NEW d \in Dev, DeviceWakesSpuriously(d) PROVE IInv'
  BY <1>9 DEF DeviceWakesSpuriously, TypeOK, SetupInv, FlagsInv, ScanInv, AsleepInv, ReleaseInv, StopInv, Inside
<1>10. ASSUME NEW d \in Dev, Detach(d) PROVE IInv'
  BY <1>10 DEF Detach, SignalTimer, TypeOK, SetupInv, FlagsInv, ScanInv, AsleepInv, ReleaseInv, StopInv, Inside
<1>11. CASE JoinDevices
  BY <1>11 DEF JoinDevices, TypeOK, SetupInv, FlagsInv, ScanInv, AsleepInv, ReleaseInv, StopInv, Inside
<1>12. CASE JoinTimer
  BY <1>12 DEF JoinTimer, TypeOK, SetupInv, FlagsInv, ScanInv, AsleepInv, ReleaseInv, StopInv, Inside
<1>13. CASE attach_event
  <2>1. tpc = "none" /\ \A d \in Dev : dpc[d] = "none" /\ ~fsh[d] /\ ~done[d]
    BY <1>13 DEF attach_event, SetupInv, FlagsInv, Inside, TypeOK
  <2>2. TypeOK'
    BY <1>13, <2>1 DEF attach_event, timerVars, TypeOK
  <2>3. done' = done /\ fsh' = fsh
    BY <1>13, <2>1 DEF attach_event, TypeOK
  <2> QED BY <1>13, <2>1, <2>2, <2>3 DEF attach_event, timerVars, SetupInv, FlagsInv,
             ScanInv, AsleepInv, ReleaseInv, StopInv, Inside
<1>14. CASE start_timer
  BY <1>14 DEF start_timer, TypeOK, SetupInv, FlagsInv, ScanInv, AsleepInv, ReleaseInv, StopInv, Inside
<1>15. ASSUME NEW d \in Dev, CreateThread(d) PROVE IInv'
  BY <1>15 DEF CreateThread, Born, timerVars, TypeOK, SetupInv, FlagsInv, ScanInv, AsleepInv, ReleaseInv, StopInv, Inside
<1>16. CASE UNCHANGED vars
  BY <1>16 DEF vars, TypeOK, SetupInv, FlagsInv, ScanInv, AsleepInv, ReleaseInv, StopInv, Inside
<1> QED BY <1>1, <1>2, <1>3, <1>4, <1>5, <1>6, <1>7, <1>8, <1>9, <1>10, <1>11,
           <1>12, <1>13, <1>14, <1>15, <1>16 DEF Next, timer_routine, Terminated

LEMMA InvariantHolds == Spec => []IInv
  BY InitInv, StepInv, PTL DEF Spec

\* The flags and counters keep their types, the place in dev_list and the
\* counts of a round their bounds included, for any number of devices.
THEOREM TypeCorrect == Spec => []TypeOK
<1>1. IInv => TypeOK
  BY DEF IInv
<1> QED BY <1>1, InvariantHolds, PTL

\* _time is incremented only while no device can read it.
THEOREM NoRaceOnTimeHolds == Spec => []NoRaceOnTime
<1>1. IInv => NoRaceOnTime
  BY TimerAssumption DEF IInv, TypeOK, FlagsInv, ScanInv, NoRaceOnTime, Inside, Dev
<1> QED BY <1>1, InvariantHolds, PTL

\* The two writers of a done flag never meet.
THEOREM NoRaceOnDoneHolds == Spec => []NoRaceOnDone
<1>1. IInv => NoRaceOnDone
  BY TimerAssumption DEF IInv, TypeOK, FlagsInv, ReleaseInv, NoRaceOnDone, Dev
<1> QED BY <1>1, InvariantHolds, PTL

\* No thread sleeps through its signal.
THEOREM NoLostWakeupHolds == Spec => []NoLostWakeup
<1>1. IInv => NoLostWakeup
  BY TimerAssumption DEF IInv, TypeOK, FlagsInv, AsleepInv, NoLostWakeup, Dev
<1> QED BY <1>1, InvariantHolds, PTL

-----------------------------------------------------------------------------
(* The refinement of SlotBarrier. *)

AtMap == [d \in Dev |-> At(d)]

\* The barrier's view changes only where a device arrives, leaves, or the
\* timer ticks: clearing the flags one by one is a stutter.
LEMMA BarrierStep ==
  ASSUME IInv, IInv', [Next]_vars
  PROVE  [Barrier!Next]_(Barrier!barrierVars)
<1> USE TimerAssumption
<1>1. CASE BeginRound
  <2>1. AtMap' = AtMap /\ time' = time
    BY <1>1 DEF BeginRound, At, AtMap, Dev
  <2>2. CASE timer_stop
    BY <1>1, <2>1, <2>2 DEF BeginRound, IInv, StopInv, FlagsInv, Barrier!Next,
       Barrier!Stop, Barrier!barrierVars, Ticking, At, AtMap
  <2>3. CASE ~timer_stop
    BY <1>1, <2>1, <2>3 DEF BeginRound, Barrier!barrierVars, Ticking, AtMap
  <2> QED BY <2>2, <2>3
<1>2. CASE ScanDevice
  BY <1>2 DEF ScanDevice, Barrier!barrierVars, Ticking, At
<1>3. CASE Tick
  <2>1. \A d \in Dev : done[d] \/ fsh[d]
    BY <1>3 DEF Tick, IInv, ScanInv, Dev
  <2>2. \A d \in Dev : At(d) = IF fsh[d] THEN "left" ELSE "waiting"
    BY <1>3, <2>1 DEF Tick, At, IInv, FlagsInv, Inside
  <2>3. \A d \in Dev : (At(d))' = IF fsh[d] THEN "left" ELSE "working"
    BY <1>3, <2>1 DEF Tick, At, IInv, FlagsInv, Inside, Dev
  <2>4. fshs = events <=> \A d \in Dev : fsh[d]
    BY <1>3 DEF Tick, IInv, ScanInv, Dev
  <2>5. Ticking /\ (Ticking' <=> \E d \in Dev : ~fsh[d])
    BY <1>3, <2>4 DEF Tick, Ticking
  <2>6. time' = (time + 1) % TimeWidth
    BY <1>3 DEF Tick
  <2>7. \A d \in Dev : At(d) # "working"
    BY <2>2
  <2>8. \A d \in Dev : (At(d))' = IF At(d) = "waiting" THEN "working" ELSE At(d)
    BY <2>2, <2>3
  <2>9. (\E d \in Dev : ~fsh[d]) <=> \E d \in Dev : At(d) = "waiting"
    BY <2>2
  <2>10. Ticking' = \E d \in Dev : At(d) = "waiting"
    BY <2>5, <2>9 DEF Ticking
  <2>11. Barrier!Tick
    BY <2>5, <2>6, <2>7, <2>8, <2>10 DEF Barrier!Tick, Barrier!Working
  <2> QED BY <2>11 DEF Barrier!Next
<1>4. CASE ReleaseDevice
  <2>1. \A d \in Dev : (At(d))' = At(d)
    BY <1>4 DEF ReleaseDevice, At, IInv, TypeOK, FlagsInv, ReleaseInv, Inside, Dev
  <2> QED BY <1>4, <2>1 DEF ReleaseDevice, Barrier!barrierVars, Ticking
<1>5. CASE EndRound
  BY <1>5 DEF EndRound, Barrier!barrierVars, Ticking, At, Dev
<1>6. CASE TimerWakesSpuriously
  BY <1>6 DEF TimerWakesSpuriously, Barrier!barrierVars, Ticking, At
<1>7. ASSUME NEW d \in Dev, DeclareDone(d) PROVE Barrier!Arrive(d)
  <2>1. At(d) = "working"
    BY <1>7 DEF DeclareDone, At, IInv, FlagsInv, Inside
  <2>2. (At(d))' = "waiting"
    BY <1>7 DEF DeclareDone, SignalTimer, At, IInv, TypeOK, FlagsInv, ReleaseInv, Inside, Dev
  <2>3. \A e \in Dev : e # d => (At(e))' = At(e)
    BY <1>7 DEF DeclareDone, SignalTimer, At, IInv, TypeOK
  <2>4. time' = time /\ Ticking' = Ticking
    BY <1>7 DEF DeclareDone, SignalTimer, Ticking
  <2> QED BY <2>1, <2>2, <2>3, <2>4 DEF Barrier!Arrive, Barrier!Working
<1>8. ASSUME NEW d \in Dev, WaitForSlot(d) PROVE UNCHANGED Barrier!barrierVars
  BY <1>8 DEF WaitForSlot, Barrier!barrierVars, Ticking, At, IInv, TypeOK
<1>9. ASSUME NEW d \in Dev, DeviceWakesSpuriously(d) PROVE UNCHANGED Barrier!barrierVars
  BY <1>9 DEF DeviceWakesSpuriously, Barrier!barrierVars, Ticking, At, IInv, TypeOK
<1>10. ASSUME NEW d \in Dev, Detach(d) PROVE Barrier!Leave(d)
  <2>1. At(d) = "working" /\ (At(d))' = "left"
    BY <1>10 DEF Detach, At, IInv, TypeOK, FlagsInv, Inside
  <2>2. \A e \in Dev : e # d => (At(e))' = At(e)
    BY <1>10 DEF Detach, SignalTimer, At, IInv, TypeOK
  <2>3. time' = time /\ Ticking' = Ticking
    BY <1>10 DEF Detach, SignalTimer, Ticking
  <2> QED BY <2>1, <2>2, <2>3 DEF Barrier!Leave, Barrier!Working
<1>11. CASE JoinDevices \/ JoinTimer \/ UNCHANGED vars
  BY <1>11 DEF JoinDevices, JoinTimer, vars, Barrier!barrierVars, Ticking, At
<1>12. CASE attach_event \/ start_timer
  BY <1>12 DEF attach_event, start_timer, timerVars, Barrier!barrierVars, Ticking, At, IInv, TypeOK, SetupInv, FlagsInv, Inside
<1>13. ASSUME NEW d \in Dev, CreateThread(d) PROVE UNCHANGED Barrier!barrierVars
  BY <1>13 DEF CreateThread, Born, timerVars, Barrier!barrierVars, Ticking, At, IInv, TypeOK
<1> QED BY <1>1, <1>2, <1>3, <1>4, <1>5, <1>6, <1>7, <1>8, <1>9, <1>10, <1>11, <1>12, <1>13
        DEF Next, timer_routine, Terminated, Barrier!Next

\* timer.c implements the slot barrier, for any number of devices.
THEOREM BarrierImplemented == Spec => ImplementsBarrier
<1>1. Init => Barrier!BarrierInit
  BY DEF Init, Barrier!BarrierInit, At, Ticking
<1>2. IInv /\ IInv' /\ [Next]_vars => [Barrier!Next]_(Barrier!barrierVars)
  BY BarrierStep
<1> QED BY <1>1, <1>2, InvariantHolds, PTL DEF Spec, ImplementsBarrier, Barrier!Spec
=============================================================================
