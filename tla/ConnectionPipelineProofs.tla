----------------------- MODULE ConnectionPipelineProofs -----------------------
(***************************************************************************)
(* Connection implements Pipeline under the hypothesis InStep: a step      *)
(* issues an operation, has the server answer one, completes the first     *)
(* one after it was answered, begins a period, or is not seen.             *)
(***************************************************************************)
EXTENDS ConnectionStreamProofs

\* What Pipeline sees of an operation and of a queue of them.
Shown == [type : OpTypes, n_req : Nat \ {0}]
Show(op) == [type |-> op.type, n_req |-> op.n_req]
ShowAll(q) == [i \in 1..Len(q) |-> Show(q[i])]

LEMMA OutstandingShown ==
  Outstanding = ShowAll(op_queue) /\ Outstanding' = ShowAll(op_queue')
BY DEF Outstanding, ShowAll, Show

\* What leaves op_queue, requests and the phase alone is not seen.
LEMMA Unseen ==
  ASSUME UNCHANGED <<op_queue, requests, phase>>
  PROVE  UNCHANGED Abstract!vars
BY DEF Abstract!vars, Period, Outstanding, Answered

-----------------------------------------------------------------------------
(* Queues as they are shown.                                               *)

\* A function on 1..n is a sequence of length n.
LEMMA FunctionSeq ==
  ASSUME NEW S, NEW n \in Nat, NEW f \in [1..n -> S]
  PROVE  f \in Seq(S) /\ Len(f) = n
OBVIOUS

LEMMA ShownSeq ==
  ASSUME NEW q \in Seq(Op)
  PROVE  /\ ShowAll(q) \in Seq(Shown)
         /\ Len(ShowAll(q)) = Len(q)
         /\ \A i \in 1..Len(q) : ShowAll(q)[i] = Show(q[i])
         /\ ShowAll(q) = <<>> <=> q = <<>>
<1>1. Len(q) \in Nat /\ (q = <<>> <=> Len(q) = 0)
  BY EmptySeq, LenProperties
<1>2. ASSUME NEW i \in 1..Len(q)
      PROVE  Show(q[i]) \in Shown
  <2>1. q[i] \in Op
    BY ElementOfSeq
  <2> QED
    BY <2>1 DEF Op, Show, Shown
<1>3. ShowAll(q) \in [1..Len(q) -> Shown]
  BY <1>2 DEF ShowAll
<1>4. /\ ShowAll(q) \in Seq(Shown)
      /\ Len(ShowAll(q)) = Len(q)
  BY <1>1, <1>3, FunctionSeq
<1>5. \A i \in 1..Len(q) : ShowAll(q)[i] = Show(q[i])
  BY DEF ShowAll
<1>6. ShowAll(q) = <<>> <=> Len(ShowAll(q)) = 0
  BY <1>4, EmptySeq, LenProperties
<1> QED
  BY <1>1, <1>4, <1>5, <1>6

LEMMA ShownAppend ==
  ASSUME NEW q \in Seq(Op), NEW op \in Op
  PROVE  ShowAll(Append(q, op)) = Append(ShowAll(q), Show(op))
<1> DEFINE a == ShowAll(Append(q, op))
           b == Append(ShowAll(q), Show(op))
<1>1. /\ Append(q, op) \in Seq(Op)
      /\ Len(Append(q, op)) = Len(q) + 1
      /\ \A i \in 1..Len(q) : Append(q, op)[i] = q[i]
      /\ Append(q, op)[Len(q) + 1] = op
      /\ Len(q) \in Nat
  BY AppendProperties, LenProperties
<1>2. /\ a \in Seq(Shown) /\ Len(a) = Len(q) + 1
      /\ \A i \in 1..Len(q) + 1 : a[i] = Show(Append(q, op)[i])
  BY <1>1, ShownSeq
<1>3. /\ ShowAll(q) \in Seq(Shown) /\ Len(ShowAll(q)) = Len(q)
      /\ \A i \in 1..Len(q) : ShowAll(q)[i] = Show(q[i])
  BY ShownSeq
<1>4. Show(op) \in Shown
  BY DEF Op, Show, Shown
<1>5. /\ b \in Seq(Shown) /\ Len(b) = Len(q) + 1
      /\ \A i \in 1..Len(q) : b[i] = Show(q[i])
      /\ b[Len(q) + 1] = Show(op)
  BY <1>3, <1>4, AppendProperties
<1>6. ASSUME NEW i \in 1..Len(q) + 1 PROVE a[i] = b[i]
  <2> DEFINE n == Len(q)
  <2>1. CASE i \in 1..n
    BY <2>1, <1>1, <1>2, <1>5
  <2>2. CASE i = n + 1
    BY <2>2, <1>1, <1>2, <1>5
  <2>3. n \in Nat /\ i \in 1..n + 1
    BY <1>1
  <2> HIDE DEF n
  <2>4. i \in 1..n \/ i = n + 1
    BY <2>3
  <2> QED
    BY <2>1, <2>2, <2>4
<1> HIDE DEF a, b
<1>7. a = b
  BY <1>2, <1>5, <1>6, SeqEqual
<1> QED
  BY <1>7 DEF a, b

LEMMA ShownTail ==
  ASSUME NEW q \in Seq(Op), q # <<>>
  PROVE  ShowAll(Tail(q)) = Tail(ShowAll(q))
<1> DEFINE a == ShowAll(Tail(q))
           b == Tail(ShowAll(q))
<1>1. /\ Tail(q) \in Seq(Op)
      /\ Len(Tail(q)) = Len(q) - 1
      /\ \A i \in 1..Len(q) - 1 : Tail(q)[i] = q[i + 1]
      /\ Len(q) \in Nat /\ Len(q) > 0
  BY HeadTailProperties, LenProperties, EmptySeq
<1>2. /\ a \in Seq(Shown) /\ Len(a) = Len(q) - 1
      /\ \A i \in 1..Len(q) - 1 : a[i] = Show(q[i + 1])
  BY <1>1, ShownSeq
<1>3. /\ ShowAll(q) \in Seq(Shown) /\ Len(ShowAll(q)) = Len(q)
      /\ \A i \in 1..Len(q) : ShowAll(q)[i] = Show(q[i])
      /\ ShowAll(q) # <<>>
  BY ShownSeq
<1>4. /\ b \in Seq(Shown) /\ Len(b) = Len(q) - 1
      /\ \A i \in 1..Len(q) - 1 : b[i] = ShowAll(q)[i + 1]
  BY <1>3, HeadTailProperties
<1>5. ASSUME NEW i \in 1..Len(q) - 1 PROVE a[i] = b[i]
  <2>1. i + 1 \in 1..Len(q)
    BY <1>1
  <2> QED
    BY <2>1, <1>2, <1>3, <1>4
<1> HIDE DEF a, b
<1>6. a = b
  BY <1>2, <1>4, <1>5, SeqEqual
<1> QED
  BY <1>6 DEF a, b

-----------------------------------------------------------------------------
(* What Pipeline sees of a step.                                           *)

LEMMA AnsweredBounds ==
  ASSUME StepInv
  PROVE  /\ Len(op_queue) \in Nat /\ Len(requests) \in Nat
         /\ Answered \in Nat
         /\ Len(Outstanding) = Len(op_queue)
         /\ Outstanding = <<>> <=> op_queue = <<>>
<1>1. /\ Len(op_queue) \in Nat /\ Len(requests) \in Nat
      /\ Len(requests) <= Len(op_queue)
  BY Elements DEF StepInv, Aligned, RequestIds
<1>2. Outstanding = ShowAll(op_queue) /\ op_queue \in Seq(Op)
  BY OutstandingShown DEF StepInv, TypeOK
<1> QED
  BY <1>1, <1>2, ShownSeq DEF Answered

\* An operation that is issued is outstanding and not answered.
LEMMA IssueSeen ==
  ASSUME TypeOK, NEW type \in OpTypes, NEW n \in Nat \ {0}, IssueOp(type, n)
  PROVE  /\ Outstanding' = Append(Outstanding, [type |-> type, n_req |-> n])
         /\ Answered' = Answered
<1> DEFINE op == [id |-> seqno + 1, type |-> type, n_req |-> n, n_recv |-> 0]
           req == [id |-> seqno + 1, type |-> type, n_req |-> n]
<1>1. /\ op \in Op /\ req \in Request
      /\ Show(op) = [type |-> type, n_req |-> n]
  BY DEF Op, Request, TypeOK, Show
<1>2. op_queue' = Append(op_queue, op) /\ requests' = Append(requests, req)
  BY DEF IssueOp
<1> HIDE DEF op, req
<1>3. /\ Len(op_queue') = Len(op_queue) + 1
      /\ Len(requests') = Len(requests) + 1
  BY <1>1, <1>2, AppendProperties DEF TypeOK
<1>4. Len(op_queue) \in Nat /\ Len(requests) \in Nat
  BY Elements
<1>5. Answered' = Answered
  BY <1>3, <1>4 DEF Answered
<1>6. op_queue \in Seq(Op)
  BY DEF TypeOK
<1>7. Outstanding' = Append(Outstanding, Show(op))
  BY <1>1, <1>2, <1>6, ShownAppend, OutstandingShown
<1> QED
  BY <1>1, <1>5, <1>7

\* The operation that is completed is the first one, and was answered.
LEMMA CompleteSeen ==
  ASSUME StepInv, op_queue # <<>>, op_queue' = Tail(op_queue),
         UNCHANGED <<requests, phase>>,
         NEW st, NEW kinds, Consume(st, kinds),
         Binary \/ st \in {"WAITING_FOR_SET", "LOADING"} \/ kinds = {"END"}
  PROVE  Abstract!Complete
<1>1. op_queue \in Seq(Op) /\ Len(op_queue') = Len(op_queue) - 1
  BY TailLen DEF StepInv, TypeOK
<1>2. Len(requests) <= Len(op_queue) - 1
  BY CompleteLast, AnsweredHead DEF StepInv
<1>3. Len(op_queue) \in Nat /\ Len(requests) \in Nat
  BY AnsweredBounds
<1>4. Answered > 0 /\ Answered' = Answered - 1
  BY <1>1, <1>2, <1>3 DEF Answered
<1>5. Outstanding' = Tail(Outstanding)
  BY <1>1, ShownTail, OutstandingShown
<1>6. Period' = Period
  BY DEF Period
<1> QED
  BY <1>4, <1>5, <1>6 DEF Abstract!Complete

\* The server answers the first operation it has not answered.
LEMMA AnswerSeen ==
  ASSUME StepInv, requests # <<>>, requests' = Tail(requests),
         UNCHANGED <<op_queue, phase>>
  PROVE  Abstract!Answer
<1>1. /\ Len(requests') = Len(requests) - 1
      /\ Len(requests) > 0
  BY HeadTailProperties, Elements DEF StepInv, TypeOK
<1>2. /\ Len(op_queue) \in Nat /\ Len(requests) \in Nat
      /\ Len(Outstanding) = Len(op_queue)
  BY AnsweredBounds
<1>3. Answered < Len(Outstanding) /\ Answered' = Answered + 1
  BY <1>1, <1>2 DEF Answered
<1>4. Outstanding' = Outstanding /\ Period' = Period
  BY DEF Outstanding, Period
<1> QED
  BY <1>3, <1>4 DEF Abstract!Answer

\* A period begins with nothing outstanding.
LEMMA BeginSeen ==
  ASSUME StepInv, UNCHANGED <<op_queue, requests>>,
         op_queue = <<>> \/ Period = "measure",
         Period' \in Abstract!Later[Period]
  PROVE  Abstract!Begin
<1>1. Outstanding = <<>> \/ Period = "measure"
  BY AnsweredBounds
<1>2. Outstanding' = Outstanding /\ Answered' = Answered
  BY DEF Outstanding, Answered
<1> QED
  BY <1>1, <1>2 DEF Abstract!Begin

\* Every step of the connection is one of Pipeline, or is not seen.
LEMMA PipelineStep ==
  ASSUME InStep, StepInv, [Next]_vars
  PROVE  [Abstract!Next]_(Abstract!vars)
<1>1. CASE ConnectedCallback
  BY <1>1, Unseen DEF ConnectedCallback, driverVars, readVars, serverVars
<1>2. CASE SaslResponse
  BY <1>2, Unseen DEF SaslResponse, driverVars, readVars, serverVars
<1>3. CASE StartLoading
  <2>1. /\ UNCHANGED <<op_queue, requests>>
        /\ op_queue = <<>>
        /\ Period = "setup" /\ Period' = "load"
    BY <1>3 DEF StartLoading, serverVars, StepInv, Aligned, StateFitsHead,
              Period
  <2>2. Abstract!Begin
    BY <2>1, BeginSeen DEF Abstract!Later
  <2> QED
    BY <2>2 DEF Abstract!Next
<1>4. CASE SetupDone
  <2>1. /\ UNCHANGED <<op_queue, requests>>
        /\ op_queue = <<>>
        /\ phase \in {"connecting", "loading"}
        /\ phase' \in {"cold", "ready", "done"}
    BY <1>4 DEF SetupDone, readVars, serverVars, StepInv, Aligned,
              StateFitsHead, AfterLoad
  <2>2. /\ Period \in {"setup", "load"}
        /\ Period' \in {"warmup", "measure", "done"}
    BY <2>1 DEF Period
  <2>3. Abstract!Begin
    BY <2>1, <2>2, BeginSeen DEF Abstract!Later
  <2> QED
    BY <2>3 DEF Abstract!Next
<1>5. CASE Kick
  <2>1. Outstanding' = Outstanding /\ Answered' = Answered
    BY <1>5 DEF Kick, readVars, Outstanding, Answered
  <2>2. Period' = Period
    BY <1>5 DEF Kick, Period
  <2> QED
    BY <2>1, <2>2 DEF Abstract!vars
<1>6. CASE LoopAgain
  BY <1>6, Unseen DEF LoopAgain, driverVars, readVars, serverVars
<1>7. CASE TimeOver
  <2>1. UNCHANGED <<op_queue, requests>>
    BY <1>7 DEF TimeOver, readVars, serverVars
  <2>2. CASE phase = "warmup" /\ phase' = "draining"
    <3>1. Outstanding' = Outstanding /\ Answered' = Answered
      BY <2>1 DEF Outstanding, Answered
    <3>2. Period' = Period
      BY <2>2 DEF Period
    <3> QED
      BY <3>1, <3>2 DEF Abstract!vars
  <2>3. CASE phase = "measuring" /\ phase' = "done"
    <3>1. Period = "measure" /\ Period' = "done"
      BY <2>3 DEF Period
    <3>2. Abstract!Begin
      BY <2>1, <3>1, BeginSeen DEF Abstract!Later
    <3> QED
      BY <3>2 DEF Abstract!Next
  <2> QED
    BY <2>2, <2>3, <1>7 DEF TimeOver
<1>8. CASE Reset
  <2>1. /\ UNCHANGED <<op_queue, requests>>
        /\ op_queue = <<>>
        /\ Period = "warmup" /\ Period' = "measure"
    BY <1>8 DEF Reset, readVars, serverVars, StepInv, Aligned, StateFitsHead,
              Period
  <2>2. Abstract!Begin
    BY <2>1, BeginSeen DEF Abstract!Later
  <2> QED
    BY <2>2 DEF Abstract!Next
<1>9. CASE FailureCallback
  BY <1>9, Unseen DEF FailureCallback, driverVars, readVars, serverVars
<1>10. CASE Tick
  BY <1>10, Unseen DEF Tick, driverVars, readVars, serverVars
<1>11. CASE ServeValue
  BY <1>11, Unseen DEF ServeValue, driverVars, readVars, serverVars
<1>12. CASE ServeLast
  <2>1. Abstract!Answer
    BY <1>12, AnswerSeen DEF ServeLast, driverVars, readVars
  <2> QED
    BY <2>1 DEF Abstract!Next
<1>13. CASE ServeCommand
  BY <1>13, Unseen DEF ServeCommand, driverVars, readVars, serverVars
<1>14. CASE BevRead
  BY <1>14, Unseen DEF BevRead, driverVars, readVars, serverVars
<1>15. CASE TimerCallback
  BY <1>15, Unseen DEF TimerCallback, driverVars, readVars, serverVars
<1>16. CASE ReadReturn
  BY <1>16, Unseen DEF ReadReturn, driverVars, readVars, serverVars
<1>17. CASE ReadBinary
  <2>1. Abstract!Complete
    BY <1>17, CompleteSeen DEF ReadBinary, Complete, PopOp, driverVars, serverVars
  <2> QED
    BY <2>1 DEF Abstract!Next
<1>18. CASE ReadMiss
  <2>1. Abstract!Complete
    BY <1>18, CompleteSeen DEF ReadMiss, Complete, PopOp, driverVars, serverVars
  <2> QED
    BY <2>1 DEF Abstract!Next
<1>19. CASE ReadValue
  BY <1>19, Unseen DEF ReadValue, driverVars, readVars, serverVars
<1>20. CASE ReadNoise
  BY <1>20, Unseen DEF ReadNoise, driverVars, readVars, serverVars
<1>21. CASE ReadData
  <2>1. UNCHANGED <<requests, phase>> /\ op_queue # <<>>
    BY <1>21 DEF ReadData, driverVars, serverVars
  <2>2. op_queue \in Seq(Op) /\ 1 \in 1..Len(op_queue)
    BY <2>1, Elements DEF StepInv, TypeOK
  <2>3. op_queue[1] \in Op
    BY <2>2, ElementOfSeq
  <2> DEFINE op == [op_queue[1] EXCEPT !.n_recv = @ + 1]
  <2>4. op \in Op /\ Show(op) = Show(op_queue[1])
    BY <2>3 DEF Op, Show
  <2>5. op_queue' = [op_queue EXCEPT ![1] = op]
    BY <1>21 DEF ReadData, ReceiveValue
  <2> HIDE DEF op
  <2>6. /\ Len(op_queue') = Len(op_queue)
        /\ \A i \in 1..Len(op_queue) :
             op_queue'[i] = IF i = 1 THEN op ELSE op_queue[i]
    BY <2>2, <2>4, <2>5, ExceptSeq
  <2>7. \A i \in 1..Len(op_queue) : Show(op_queue'[i]) = Show(op_queue[i])
    BY <2>4, <2>6
  <2>8. Outstanding' = Outstanding /\ Answered' = Answered
    BY <2>1, <2>6, <2>7, OutstandingShown DEF ShowAll, Answered
  <2>9. Period' = Period
    BY <2>1 DEF Period
  <2> QED
    BY <2>8, <2>9 DEF Abstract!vars
<1>22. CASE ReadNextValue
  BY <1>22, Unseen DEF ReadNextValue, driverVars, readVars, serverVars
<1>23. CASE ReadEnd
  <2>1. Abstract!Complete
    BY <1>23, CompleteSeen DEF ReadEnd, Complete, PopOp, driverVars, serverVars
  <2> QED
    BY <2>1 DEF Abstract!Next
<1>24. CASE ReadSet
  <2>1. Abstract!Complete
    BY <1>24, CompleteSeen DEF ReadSet, Complete, PopOp, driverVars, serverVars
  <2> QED
    BY <2>1 DEF Abstract!Next
<1>25. CASE ReadLoading
  <2>1. Abstract!Complete
    BY <1>25, CompleteSeen DEF ReadLoading, driverVars, serverVars
  <2> QED
    BY <2>1 DEF Abstract!Next
<1>26. CASE LoadIssue
  <2>1. phase = "loading" /\ read_state = "LOADING" /\ phase' = phase
    BY <1>26 DEF LoadIssue, driverVars, StepInv, PhaseInv
  <2>2. Period = "load" /\ Period' = Period
    BY <2>1 DEF Period
  <2>3. Len(Outstanding) < LoaderChunk
    <3>1. /\ loader_completed + Len(op_queue) = loader_issued
          /\ loader_issued < loader_completed + LoaderChunk
      BY <2>1, <1>26 DEF LoadIssue, MoreToLoad, StepInv, LoaderInv
    <3>2. /\ loader_completed \in Nat /\ LoaderChunk \in Nat
          /\ Len(op_queue) \in Nat /\ Len(Outstanding) = Len(op_queue)
      BY AnsweredBounds, BoundsAssumption DEF StepInv, TypeOK
    <3> QED
      BY <3>1, <3>2
  <2>4. /\ Outstanding' = Append(Outstanding, Abstract!Store)
        /\ Answered' = Answered
    BY <1>26, IssueSeen DEF LoadIssue, StepInv, OpTypes, Abstract!Store
  <2>5. Abstract!Load
    BY <2>2, <2>3, <2>4 DEF Abstract!Load
  <2> QED
    BY <2>5 DEF Abstract!Next
<1>27. CASE LoadReturn
  BY <1>27, Unseen DEF LoadReturn, driverVars, readVars, serverVars
<1>28. CASE InitWrite
  BY <1>28, Unseen DEF InitWrite, driverVars, readVars, serverVars
<1>29. CASE IssuingFull
  BY <1>29, Unseen DEF IssuingFull, driverVars, readVars, serverVars
<1>30. CASE IssuingEarly
  BY <1>30, Unseen DEF IssuingEarly, driverVars, readVars, serverVars
<1>31. CASE IssuingModerate
  BY <1>31, Unseen DEF IssuingModerate, driverVars, readVars, serverVars
<1>32. CASE phase # "done" /\ Issue
  <2>1. PICK w \in Workload : IssueOp(w.type, w.n_req)
    BY <1>32 DEF Issue, IssueSomething
  <2>2. /\ w \in [type : OpTypes, n_req : Nat \ {0}]
        /\ w = [type |-> w.type, n_req |-> w.n_req]
    BY WorkloadAssumption
  <2>3. Outstanding' = Append(Outstanding, w) /\ Answered' = Answered
    BY <2>1, <2>2, IssueSeen DEF StepInv
  <2>4. phase' = phase /\ phase \notin {"connecting", "loading", "done"}
    BY <1>32 DEF Issue, driverVars, StepInv, PhaseInv
  <2>5. Period \in {"warmup", "measure"} /\ Period' = Period
    BY <2>4 DEF Period, StepInv, TypeOK, Phases
  <2>6. Len(Outstanding) < Depth
    BY <1>32, AnsweredBounds, BoundsAssumption DEF Issue, QueueFull
  <2>7. Abstract!Issue
    BY <2>3, <2>5, <2>6 DEF Abstract!Issue
  <2> QED
    BY <2>7 DEF Abstract!Next
<1>33. CASE SkipOne
  BY <1>33, Unseen DEF SkipOne, driverVars, readVars, serverVars
<1>34. CASE SkipReturn
  BY <1>34, Unseen DEF SkipReturn, driverVars, readVars, serverVars
<1>35. CASE WaitForTime
  BY <1>35, Unseen DEF WaitForTime, driverVars, readVars, serverVars
<1>36. CASE TimeReached
  BY <1>36, Unseen DEF TimeReached, driverVars, readVars, serverVars
<1>37. CASE StillFull
  BY <1>37, Unseen DEF StillFull, driverVars, readVars, serverVars
<1>38. CASE RoomAgain
  BY <1>38, Unseen DEF RoomAgain, driverVars, readVars, serverVars
<1>39. CASE UNCHANGED vars
  BY <1>39, Unseen DEF vars, driverVars, readVars, serverVars
<1> QED
  BY <1>1, <1>2, <1>3, <1>4, <1>5, <1>6, <1>7, <1>8, <1>9, <1>10, <1>11,
     <1>12, <1>13, <1>14, <1>15, <1>16, <1>17, <1>18, <1>19, <1>20, <1>21,
     <1>22, <1>23, <1>24, <1>25, <1>26, <1>27, <1>28, <1>29, <1>30, <1>31,
     <1>32, <1>33, <1>34, <1>35, <1>36, <1>37, <1>38, <1>39
     DEF Next, Driver, Server, ReadLoop, DriveLoop, Stopped

-----------------------------------------------------------------------------
(* The theorem.                                                            *)

\* A connection is a pipeline: for every workload, window and schedule each
\* operation is completed in its turn and after the server answered it, the
\* windows are kept, and no period of the run begins with operations of the
\* one before outstanding.
THEOREM PipelineImplemented == InStep => (Spec => ImplementsPipeline)
<1> SUFFICES ASSUME InStep PROVE Spec => ImplementsPipeline
  OBVIOUS
<1>1. Init => Abstract!Init
  <2> SUFFICES ASSUME Init PROVE Abstract!Init
    OBVIOUS
  <2>1. /\ op_queue = <<>> /\ requests = <<>> /\ phase = "connecting"
        /\ Len(op_queue) = 0 /\ Len(requests) = 0
    BY EmptySeq DEF Init
  <2>2. Outstanding = <<>>
    BY <2>1 DEF Outstanding
  <2>3. Period = "setup" /\ Answered = 0
    BY <2>1 DEF Period, Answered
  <2> QED
    BY <2>2, <2>3 DEF Abstract!Init
<1>2. StepInv /\ [Next]_vars => [Abstract!Next]_(Abstract!vars)
  BY PipelineStep
<1> QED
  BY <1>1, <1>2, StepInvInductive, PTL
     DEF Spec, ImplementsPipeline, Abstract!Spec
=============================================================================
