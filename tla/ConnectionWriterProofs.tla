----------------------- MODULE ConnectionWriterProofs -----------------------
(***************************************************************************)
(* The write machine: it never exceeds the pipeline depth, never falls     *)
(* silent, skips until it is on time, and keeps to the open-loop schedule, *)
(* whatever the server answers and whenever the timer fires.               *)
(***************************************************************************)
EXTENDS ConnectionControlProofs, WellFoundedInduction

-----------------------------------------------------------------------------
(* How op_queue changes.                                                   *)

\* An idle connection has room.
LEMMA IdleRoom ==
  ASSUME ControlInv, read_state = "IDLE"
  PROVE  /\ Len(op_queue) = 0
         /\ Len(op_queue) <= Depth
         /\ Depth > 0 => ~QueueFull
<1>1. Len(op_queue) = 0
  BY Elements DEF ControlInv, EmptyWhenIdle
<1> QED
  BY <1>1, BoundsAssumption DEF QueueFull

LEMMA CompleteLen ==
  ASSUME TypeOK, Complete
  PROVE  Len(op_queue') = Len(op_queue) - 1
BY TailLen DEF Complete, PopOp

-----------------------------------------------------------------------------
(* The states the machine rests in.                                        *)

\* Every step keeps the write machine's invariant.
LEMMA WriterStep ==
  ASSUME ControlInv, WriterInv, [Next]_vars
  PROVE  WriterInv'
<1> USE DEF WriterInv, WriterStates, PipelineDepth, RoomWhileWaiting,
         RestsWakeable, FullOnTime, Running, QueueFull, TimeIsUp, Limit
<1> USE DEF driverVars, frameVars, readVars, writeVars
<1>p. /\ TypeOK /\ WriterInv
      /\ back \in {"loop", "read"} /\ Len(op_queue) \in Nat /\ Depth \in Nat
      /\ now \in Nat /\ next_time \in Nat /\ clock \in Nat
      /\ start_time \in Nat /\ SkipLate \in Nat /\ SkipCatchup \in Nat
      /\ Delays \subseteq Nat
  BY BoundsAssumption, WorkloadAssumption, Elements DEF ControlInv, TypeOK
<1>1. CASE ConnectedCallback
  BY <1>p, <1>1 DEF ConnectedCallback
<1>2. CASE SaslResponse
  BY <1>p, <1>2 DEF SaslResponse
<1>3. CASE StartLoading
  BY <1>p, <1>3 DEF StartLoading
<1>4. CASE SetupDone
  BY <1>p, <1>4, IdleRoom DEF SetupDone, AfterLoad
<1>5. CASE Kick
  BY <1>p, <1>5, LoadPhase DEF Kick
<1>6. CASE LoopAgain
  BY <1>p, <1>6 DEF LoopAgain
<1>7. CASE TimeOver
  BY <1>p, <1>7 DEF TimeOver
<1>8. CASE Reset
  BY <1>p, <1>8, IdleRoom DEF Reset
<1>9. CASE FailureCallback
  BY <1>p, <1>9 DEF FailureCallback
<1>10. CASE Tick
  BY <1>p, <1>10 DEF Tick
<1>11. CASE ServeValue
  BY <1>p, <1>11 DEF ServeValue
<1>12. CASE ServeLast
  BY <1>p, <1>12 DEF ServeLast
<1>13. CASE ServeCommand
  BY <1>p, <1>13 DEF ServeCommand
<1>14. CASE BevRead
  BY <1>p, <1>14 DEF BevRead
<1>15. CASE TimerCallback
  BY <1>p, <1>15, LoadPhase DEF TimerCallback, CallDrive
<1>16. CASE ReadReturn
  BY <1>p, <1>16 DEF ReadReturn
<1>17. CASE ReadBinary
  BY <1>p, <1>17, CompleteLen, LoadPhase
     DEF ReadBinary, Consume, Complete, CallDrive
<1>18. CASE ReadMiss
  BY <1>p, <1>18, CompleteLen, LoadPhase
     DEF ReadMiss, Consume, Complete, CallDrive
<1>19. CASE ReadValue
  BY <1>p, <1>19 DEF ReadValue, Consume
<1>20. CASE ReadNoise
  BY <1>p, <1>20 DEF ReadNoise, Consume
<1>21. CASE ReadData
  BY <1>p, <1>21, DataLen DEF ReadData, Consume
<1>22. CASE ReadNextValue
  BY <1>p, <1>22 DEF ReadNextValue, Consume, CallDrive
<1>23. CASE ReadEnd
  BY <1>p, <1>23, CompleteLen, LoadPhase
     DEF ReadEnd, Consume, Complete, CallDrive
<1>24. CASE ReadSet
  BY <1>p, <1>24, CompleteLen, LoadPhase
     DEF ReadSet, Consume, Complete, CallDrive
<1>25. CASE ReadLoading
  BY <1>p, <1>25, LoadPhase DEF ReadLoading, Consume
<1>26. CASE LoadIssue
  BY <1>p, <1>26, LoadPhase DEF LoadIssue, IssueOp
<1>27. CASE LoadReturn
  BY <1>p, <1>27, LoadPhase DEF LoadReturn
<1>28. CASE InitWrite
  BY <1>p, <1>28, LoadPhase DEF InitWrite
<1>29. CASE IssuingFull
  BY <1>p, <1>29, LoadPhase DEF IssuingFull
<1>30. CASE IssuingEarly
  BY <1>p, <1>30, LoadPhase DEF IssuingEarly, PcAfterEarly
<1>31. CASE IssuingModerate
  BY <1>p, <1>31, LoadPhase DEF IssuingModerate
<1>32. CASE Issue
  BY <1>p, <1>32, IssueGrows, LoadPhase DEF Issue, FallenBehind
<1>33. CASE SkipOne
  BY <1>p, <1>33, LoadPhase DEF SkipOne
<1>34. CASE SkipReturn
  BY <1>p, <1>34, LoadPhase DEF SkipReturn, StillBehind
<1>35. CASE WaitForTime
  BY <1>p, <1>35, LoadPhase DEF WaitForTime, TimerWhileWaiting
<1>36. CASE TimeReached
  BY <1>p, <1>36, LoadPhase DEF TimeReached
<1>37. CASE StillFull
  BY <1>p, <1>37, LoadPhase DEF StillFull
<1>38. CASE RoomAgain
  BY <1>p, <1>38, LoadPhase DEF RoomAgain
<1>39. CASE UNCHANGED vars
  BY <1>p, <1>39 DEF vars
<1> QED
  BY <1>1, <1>2, <1>3, <1>4, <1>5, <1>6, <1>7, <1>8, <1>9, <1>10, <1>11,
     <1>12, <1>13, <1>14, <1>15, <1>16, <1>17, <1>18, <1>19, <1>20, <1>21,
     <1>22, <1>23, <1>24, <1>25, <1>26, <1>27, <1>28, <1>29, <1>30, <1>31,
     <1>32, <1>33, <1>34, <1>35, <1>36, <1>37, <1>38, <1>39
     DEF Next, Driver, Server, ReadLoop, DriveLoop, Stopped

-----------------------------------------------------------------------------
(* The schedule.                                                           *)

\* A set of delays that is not empty has a least one.
LEMMA LeastDelay ==
  ASSUME Delays # {}
  PROVE  MinDelay \in Nat /\ \A e \in Delays : MinDelay <= e
<1>1. Delays \subseteq Nat
  BY WorkloadAssumption
<1>2. PICK d \in Delays : \A e \in Delays : <<e, d>> \notin OpToRel(<, Nat)
  BY <1>1, NatLessThanWellFounded, WFMin
<1>3. \A e \in Delays : d <= e
  <2> SUFFICES ASSUME NEW e \in Delays PROVE d <= e
    OBVIOUS
  <2>1. e \in Nat /\ d \in Nat
    BY <1>1
  <2>2. <<e, d>> \notin OpToRel(<, Nat)
    BY <1>2
  <2>3. ~(e < d)
    BY <2>1, <2>2 DEF OpToRel
  <2> QED
    BY <2>1, <2>3
<1>4. MinDelay \in Delays /\ \A e \in Delays : MinDelay <= e
  BY <1>3 DEF MinDelay
<1> QED
  BY <1>1, <1>4

LEMMA OneMore ==
  ASSUME NEW n \in Nat, NEW m \in Nat
  PROVE  /\ n * m \in Nat
         /\ (n + 1) * m \in Nat
         /\ (n + 1 + 1) * m \in Nat
         /\ (n + 1 + 1) * m = (n + 1) * m + m
OBVIOUS

LEMMA StartOfSchedule ==
  ASSUME NEW m \in Nat, NEW t \in Nat
  PROVE  t + 0 * m <= t
OBVIOUS

\* Every step keeps to the schedule.
LEMMA ScheduleStep ==
  ASSUME ControlInv, ScheduleInv, [Next]_vars, WriterInv, Delays # {}
  PROVE  ScheduleInv'
<1> USE DEF ScheduleInv, Running
<1> USE DEF driverVars, frameVars, readVars, writeVars
<1>p. /\ TypeOK /\ ScheduleInv
      /\ back \in {"loop", "read"} /\ Len(op_queue) \in Nat /\ Depth \in Nat
      /\ now \in Nat /\ next_time \in Nat /\ clock \in Nat
      /\ start_time \in Nat /\ SkipLate \in Nat /\ SkipCatchup \in Nat
      /\ WriterInv /\ seqno \in Nat /\ MinDelay \in Nat
      /\ \A e \in Delays : MinDelay <= e
  BY BoundsAssumption, LeastDelay, Elements DEF ControlInv, TypeOK
<1>1. CASE ConnectedCallback
  BY <1>p, <1>1 DEF ConnectedCallback
<1>2. CASE SaslResponse
  BY <1>p, <1>2 DEF SaslResponse
<1>3. CASE StartLoading
  BY <1>p, <1>3 DEF StartLoading
<1>4. CASE SetupDone
  BY <1>p, <1>4 DEF SetupDone, AfterLoad
<1>5. CASE Kick
  <2>1. /\ seqno' = 0 /\ write_state' = "INIT_WRITE"
        /\ start_time' = clock /\ now' = clock /\ clock' = clock
    BY <1>p, <1>5 DEF Kick, WriterInv, WriterStates
  <2> QED
    BY <1>p, <2>1, StartOfSchedule
<1>6. CASE LoopAgain
  BY <1>p, <1>6 DEF LoopAgain
<1>7. CASE TimeOver
  BY <1>p, <1>7 DEF TimeOver
<1>8. CASE Reset
  BY <1>p, <1>8 DEF Reset
<1>9. CASE FailureCallback
  BY <1>p, <1>9 DEF FailureCallback
<1>10. CASE Tick
  <2>1. seqno * MinDelay \in Nat
    BY <1>p, OneMore
  <2> QED
    BY <1>p, <1>10, <2>1 DEF Tick
<1>11. CASE ServeValue
  BY <1>p, <1>11 DEF ServeValue
<1>12. CASE ServeLast
  BY <1>p, <1>12 DEF ServeLast
<1>13. CASE ServeCommand
  BY <1>p, <1>13 DEF ServeCommand
<1>14. CASE BevRead
  BY <1>p, <1>14 DEF BevRead
<1>15. CASE TimerCallback
  BY <1>p, <1>15 DEF TimerCallback, CallDrive
<1>16. CASE ReadReturn
  BY <1>p, <1>16 DEF ReadReturn
<1>17. CASE ReadBinary
  BY <1>p, <1>17 DEF ReadBinary, Consume, Complete, CallDrive
<1>18. CASE ReadMiss
  BY <1>p, <1>18 DEF ReadMiss, Consume, Complete, CallDrive
<1>19. CASE ReadValue
  BY <1>p, <1>19 DEF ReadValue, Consume
<1>20. CASE ReadNoise
  BY <1>p, <1>20 DEF ReadNoise, Consume
<1>21. CASE ReadData
  BY <1>p, <1>21 DEF ReadData, Consume
<1>22. CASE ReadNextValue
  BY <1>p, <1>22 DEF ReadNextValue, Consume, CallDrive
<1>23. CASE ReadEnd
  BY <1>p, <1>23 DEF ReadEnd, Consume, Complete, CallDrive
<1>24. CASE ReadSet
  BY <1>p, <1>24 DEF ReadSet, Consume, Complete, CallDrive
<1>25. CASE ReadLoading
  BY <1>p, <1>25, LoadPhase DEF ReadLoading, Consume
<1>26. CASE LoadIssue
  BY <1>p, <1>26, LoadPhase DEF LoadIssue
<1>27. CASE LoadReturn
  BY <1>p, <1>27, LoadPhase DEF LoadReturn
<1>28. CASE InitWrite
  <2>1. PICK d \in Delays : next_time' = now + d
    BY <1>28 DEF InitWrite
  <2>2. d \in Nat /\ MinDelay <= d
    BY <1>p, WorkloadAssumption
  <2>3. /\ write_state = "INIT_WRITE" /\ write_state' = "WAITING_FOR_TIME"
        /\ UNCHANGED <<phase, start_time, pc, now, clock, seqno>>
        /\ pc = "drive"
    BY <1>28 DEF InitWrite
  <2>4. SUFFICES ASSUME Running
                 PROVE  start_time + (seqno + 1) * MinDelay <= next_time'
    BY <1>p, <2>3
  <2>5. seqno = 0 /\ start_time <= now
    BY <1>p, <2>3, <2>4
  <2>6. (seqno + 1) * MinDelay = MinDelay
    BY <1>p, <2>5
  <2> QED
    BY <1>p, <2>1, <2>2, <2>5, <2>6
<1>29. CASE IssuingFull
  BY <1>p, <1>29 DEF IssuingFull
<1>30. CASE IssuingEarly
  BY <1>p, <1>30 DEF IssuingEarly, PcAfterEarly
<1>31. CASE IssuingModerate
  BY <1>p, <1>31 DEF IssuingModerate
<1>32. CASE Issue
  <2>1. PICK d \in Delays : next_time' = next_time + d
    BY <1>32 DEF Issue, IssueSomething
  <2>2. d \in Nat /\ MinDelay <= d
    BY <1>p, WorkloadAssumption
  <2>3. /\ write_state = "ISSUING" /\ write_state' = "ISSUING"
        /\ UNCHANGED <<phase, start_time, now, clock>>
        /\ pc = "drive" /\ ~(now < next_time)
    BY <1>32 DEF Issue, TooEarly
  <2>4. seqno' = seqno + 1
    BY <1>p, <1>32, IssueGrows
  <2>5. (seqno' + 1) * MinDelay = (seqno + 1) * MinDelay + MinDelay
    BY <1>p, <2>4, OneMore
  <2>6. (seqno + 1) * MinDelay \in Nat /\ (seqno' + 1) * MinDelay \in Nat
    BY <1>p, <2>4, OneMore
  <2>7. SUFFICES ASSUME Running
                 PROVE  /\ start_time + (seqno' + 1) * MinDelay <= next_time'
                        /\ start_time + seqno' * MinDelay <= clock
    BY <1>p, <2>3
  <2>8. /\ start_time + (seqno + 1) * MinDelay <= next_time
        /\ now <= clock
    BY <1>p, <2>3, <2>7
  <2>9. start_time + (seqno' + 1) * MinDelay <= next_time'
    BY <1>p, <2>1, <2>2, <2>5, <2>6, <2>8
  <2>10. start_time + (seqno + 1) * MinDelay <= clock
    BY <1>p, <2>3, <2>6, <2>8
  <2> QED
    BY <2>4, <2>9, <2>10
<1>33. CASE SkipOne
  <2>1. PICK d \in Delays : next_time' = next_time + d
    BY <1>33 DEF SkipOne
  <2>2. d \in Nat
    BY WorkloadAssumption
  <2>3. (seqno + 1) * MinDelay \in Nat
    BY <1>p, OneMore
  <2> HIDE DEF MinDelay
  <2> QED
    BY <1>p, <1>33, <2>1, <2>2, <2>3 DEF SkipOne
<1>34. CASE SkipReturn
  BY <1>p, <1>34 DEF SkipReturn
<1>35. CASE WaitForTime
  BY <1>p, <1>35 DEF WaitForTime, TimerWhileWaiting
<1>36. CASE TimeReached
  BY <1>p, <1>36 DEF TimeReached
<1>37. CASE StillFull
  BY <1>p, <1>37 DEF StillFull
<1>38. CASE RoomAgain
  BY <1>p, <1>38 DEF RoomAgain
<1>39. CASE UNCHANGED vars
  BY <1>p, <1>39 DEF vars
<1> QED
  BY <1>1, <1>2, <1>3, <1>4, <1>5, <1>6, <1>7, <1>8, <1>9, <1>10, <1>11,
     <1>12, <1>13, <1>14, <1>15, <1>16, <1>17, <1>18, <1>19, <1>20, <1>21,
     <1>22, <1>23, <1>24, <1>25, <1>26, <1>27, <1>28, <1>29, <1>30, <1>31,
     <1>32, <1>33, <1>34, <1>35, <1>36, <1>37, <1>38, <1>39
     DEF Next, Driver, Server, ReadLoop, DriveLoop, Stopped

-----------------------------------------------------------------------------
(* The theorems.                                                           *)

LEMMA WriterInvInductive == Spec => [](ControlInv /\ WriterInv)
<1>1. Init => WriterInv
  <2> SUFFICES ASSUME Init PROVE WriterInv
    OBVIOUS
  <2>1. /\ Len(op_queue) = 0 /\ phase = "connecting" /\ pc = "loop"
        /\ write_state = "INIT_WRITE" /\ Depth \in Nat
    BY InitType, Elements, BoundsAssumption DEF Init
  <2> QED
    BY <2>1 DEF WriterInv, WriterStates, PipelineDepth, RoomWhileWaiting,
               RestsWakeable, FullOnTime, Running, QueueFull
<1>2. ControlInv /\ WriterInv /\ [Next]_vars => WriterInv'
  BY WriterStep
<1> QED
  BY <1>1, <1>2, ControlInvInductive, PTL DEF Spec

\* The write machine never has more than Depth operations outstanding, in any
\* order of replies and timers, and whatever the loader queued before.
THEOREM DepthKept == Spec => []PipelineDepth
<1>1. WriterInv => PipelineDepth
  BY DEF WriterInv
<1> QED
  BY <1>1, WriterInvInductive, PTL

\* A connection that may have an operation outstanding never falls silent:
\* whenever drive_write_machine has returned, the timer is pending or a full
\* queue has replies to come.
THEOREM WakeupKept == Depth > 0 => (Spec => []NoLostWakeup)
<1> SUFFICES ASSUME Depth > 0 PROVE Spec => []NoLostWakeup
  OBVIOUS
<1>1. ControlInv /\ WriterInv => NoLostWakeup
  <2> SUFFICES ASSUME ControlInv, WriterInv,
                      phase \in {"warmup", "measuring"}, pc = "loop",
                      ~TimeIsUp(clock)
               PROVE  \/ write_state = "WAITING_FOR_TIME" /\ timer
                      \/ /\ write_state = "WAITING_FOR_OPQ" /\ QueueFull
                         /\ op_queue # <<>>
    BY DEF NoLostWakeup
  <2>1. RestsWakeable
    BY DEF WriterInv
  <2>2. QueueFull => op_queue # <<>>
    BY BoundsAssumption, Elements DEF ControlInv, QueueFull
  <2> QED
    BY <2>1, <2>2 DEF RestsWakeable, Running
<1> QED
  BY <1>1, WriterInvInductive, PTL

\* With --skip the queue never fills up while the schedule lags more than
\* SkipLate behind, as long as skipping catches up to less than that.
THEOREM SkippedInTime ==
  Depth > 0 /\ SkipCatchup <= SkipLate => (Spec => SkipCatchesUp)
<1> SUFFICES ASSUME Depth > 0, SkipCatchup <= SkipLate
             PROVE  Spec => SkipCatchesUp
  OBVIOUS
<1>1. ControlInv /\ WriterInv /\ [Next]_vars
        => [Skip /\ write_state = "ISSUING"
              /\ write_state' = "WAITING_FOR_OPQ"
            => now <= next_time + SkipLate]_vars
  <2> SUFFICES ASSUME ControlInv, WriterInv, [Next]_vars,
                      Skip, write_state = "ISSUING",
                      write_state' = "WAITING_FOR_OPQ"
               PROVE  now <= next_time + SkipLate
    OBVIOUS
  <2>1. CASE IssuingFull
    BY <2>1 DEF IssuingFull, WriterInv, FullOnTime
  <2>2. CASE ~IssuingFull
    <3>1. pc \in {"drive", "skip"}
      BY DEF WriterInv, WriterStates
    <3> QED
      BY <2>2, <3>1
         DEF Next, vars, driverVars, frameVars, readVars, writeVars, Driver,
             Server, ReadLoop, DriveLoop, Stopped, ConnectedCallback,
             SaslResponse, StartLoading, SetupDone, Kick, LoopAgain, TimeOver,
             Reset, FailureCallback, Tick, ServeValue, ServeLast,
             ServeCommand, BevRead, TimerCallback, ReadReturn, ReadBinary,
             ReadMiss, ReadValue, ReadNoise, ReadData, ReadNextValue, ReadEnd,
             ReadSet, ReadLoading, LoadIssue, LoadReturn, Consume, InitWrite,
             IssuingEarly, IssuingModerate, Issue, SkipOne, SkipReturn,
             WaitForTime, TimeReached, StillFull, RoomAgain
  <2> QED
    BY <2>1, <2>2
<1> QED
  BY <1>1, WriterInvInductive, PTL DEF Spec, SkipCatchesUp

\* However late replies and timers are, and with --moderate or --skip, the
\* n-th operation of a phase goes out no earlier than n inter-arrival times
\* after its start.
THEOREM ScheduleKept == Delays # {} => (Spec => []NeverAheadOfSchedule)
<1> SUFFICES ASSUME Delays # {} PROVE Spec => []NeverAheadOfSchedule
  OBVIOUS
<1>1. Init => ScheduleInv
  BY DEF Init, ScheduleInv, Running
<1>2. ControlInv /\ WriterInv /\ ScheduleInv /\ [Next]_vars => ScheduleInv'
  BY ScheduleStep
<1>3. ScheduleInv => NeverAheadOfSchedule
  BY DEF ScheduleInv, Running, NeverAheadOfSchedule
<1> QED
  BY <1>1, <1>2, <1>3, WriterInvInductive, PTL DEF Spec
=============================================================================
