----------------------- MODULE ConnectionControlProofs -----------------------
(***************************************************************************)
(* Proofs about Connection, for every value of its constants: its types,   *)
(* and what holds of phases, read states and the loader whatever the       *)
(* server answers.  ControlInv is inductive, and the loader's window       *)
(* follows.                                                                *)
(***************************************************************************)
EXTENDS ConnectionInvariant, SequenceTheorems, TLAPS

-----------------------------------------------------------------------------
(* Types.                                                                  *)

\* A unit of a reply is a reply.
LEMMA UnitType ==
  ASSUME NEW kind \in ReplyKinds, NEW id \in Nat
  PROVE  Unit(kind, id) \in Reply
BY DEF Unit, Reply

\* Consuming a unit leaves a stream of which the evbuffer holds a prefix.
LEMMA ConsumeType ==
  ASSUME TypeOK, NEW st, NEW kinds, Consume(st, kinds)
  PROVE  /\ replies # <<>>
         /\ replies' \in Seq(Reply)
         /\ arrived' \in 0..Len(replies')
<1>1. replies # <<>> /\ Len(replies) \in Nat
  BY EmptySeq, LenProperties DEF Consume, TypeOK
<1> QED
  BY <1>1, HeadTailProperties DEF Consume, TypeOK

\* What completing the operation at the head leaves has its types.
LEMMA CompleteType ==
  ASSUME TypeOK, Complete
  PROVE  /\ op_queue' \in Seq(Op)
         /\ read_state' \in ReadStates
         /\ pc' \in {"read", "drive"}
         /\ back' = "read"
         /\ now' \in Nat
         /\ last_rx' \in Nat
         /\ logged' = 0
<1>1. op_queue' \in Seq(Op)
  BY HeadTailProperties DEF TypeOK, Complete, PopOp
<1> QED
  BY <1>1 DEF TypeOK, Complete, PopOp, StateAfterPop, WaitFor, CallDrive,
              ReadStates

\* So does issuing an operation.
LEMMA IssueType ==
  ASSUME TypeOK, NEW type \in OpTypes, NEW n \in Nat \ {0}, IssueOp(type, n)
  PROVE  /\ op_queue' \in Seq(Op)
         /\ requests' \in Seq(Request)
         /\ seqno' \in Nat
         /\ read_state' \in ReadStates
<1> DEFINE op == [id |-> seqno + 1, type |-> type, n_req |-> n, n_recv |-> 0]
           req == [id |-> seqno + 1, type |-> type, n_req |-> n]
<1>1. op \in Op /\ req \in Request
  BY DEF Op, Request, TypeOK
<1>2. Append(op_queue, op) \in Seq(Op) /\ Append(requests, req) \in Seq(Request)
  BY <1>1, AppendProperties DEF TypeOK
<1> QED
  BY <1>2 DEF IssueOp, TypeOK, WaitFor, ReadStates

\* Every step keeps the types.
LEMMA TypeStep == TypeOK /\ [Next]_vars => TypeOK'
<1> USE BoundsAssumption, OptionsAssumption, WorkloadAssumption
<1> USE DEF driverVars, frameVars, readVars, writeVars, loaderVars,
            serverVars, netVars
<1> SUFFICES ASSUME TypeOK, [Next]_vars PROVE TypeOK'
  OBVIOUS
<1>1. CASE ConnectedCallback
  BY <1>1 DEF ConnectedCallback, TypeOK, ReadStates
<1>2. CASE SaslResponse
  BY <1>2 DEF SaslResponse, TypeOK, ReadStates
<1>3. CASE StartLoading
  BY <1>3 DEF StartLoading, TypeOK, Phases, ReadStates
<1>4. CASE SetupDone
  BY <1>4 DEF SetupDone, TypeOK, AfterLoad, Phases
<1>5. CASE Kick
  BY <1>5 DEF Kick, TypeOK, Phases
<1>6. CASE LoopAgain
  BY <1>6 DEF LoopAgain, TypeOK
<1>7. CASE TimeOver
  BY <1>7 DEF TimeOver, TypeOK, Phases
<1>8. CASE Reset
  BY <1>8 DEF Reset, TypeOK, Phases, WriteStates
<1>9. CASE FailureCallback
  BY <1>9 DEF FailureCallback, TypeOK
<1>10. CASE Tick
  BY <1>10 DEF Tick, TypeOK
<1>11. CASE ServeValue
  <2>1. Head(requests) \in Request /\ requests # <<>>
    BY HeadTailProperties, <1>11 DEF ServeValue, TypeOK
  <2>2. Head(requests).id \in Nat
    BY <2>1 DEF Request
  <2>3. /\ Unit("RESP", Head(requests).id) \in Reply
        /\ Unit("VALUE", Head(requests).id) \in Reply
        /\ Unit("DATA", Head(requests).id) \in Reply
    BY <2>2, UnitType DEF ReplyKinds
  <2>4. replies' \in Seq(Reply) /\ Len(replies') > Len(replies)
    <3> DEFINE v == Append(replies, Unit("VALUE", Head(requests).id))
    <3>1. v \in Seq(Reply) /\ Len(v) = Len(replies) + 1
      BY <2>3, AppendProperties DEF TypeOK
    <3>2. /\ Append(v, Unit("DATA", Head(requests).id)) \in Seq(Reply)
          /\ Len(Append(v, Unit("DATA", Head(requests).id))) = Len(v) + 1
      BY <2>3, <3>1, AppendProperties
    <3>3. /\ Append(replies, Unit("RESP", Head(requests).id)) \in Seq(Reply)
          /\ Len(Append(replies, Unit("RESP", Head(requests).id)))
               = Len(replies) + 1
      BY <2>3, AppendProperties DEF TypeOK
    <3>4. Len(replies) \in Nat
      BY LenProperties DEF TypeOK
    <3> QED
      BY <3>1, <3>2, <3>3, <3>4, <1>11 DEF ServeValue
  <2> QED
    BY <2>4, <1>11 DEF ServeValue, TypeOK
<1>12. CASE ServeLast
  <2>1. /\ Head(requests) \in Request
        /\ requests' \in Seq(Request)
    BY HeadTailProperties, <1>12 DEF ServeLast, TypeOK
  <2>2. Unit(LastKind(Head(requests).type), Head(requests).id) \in Reply
    BY <2>1, UnitType DEF Request, ReplyKinds, LastKind
  <2>3. replies' \in Seq(Reply) /\ Len(replies') = Len(replies) + 1
    BY <2>2, AppendProperties, <1>12 DEF ServeLast, TypeOK
  <2> QED
    BY <2>1, <2>3, <1>12 DEF ServeLast, TypeOK
<1>13. CASE ServeCommand
  <2>1. Unit("LINE", 0) \in Reply
    BY UnitType DEF ReplyKinds
  <2>2. replies' \in Seq(Reply) /\ Len(replies') = Len(replies) + 1
    BY <2>1, AppendProperties, <1>13 DEF ServeCommand, TypeOK
  <2>3. arrived' \in 0..Len(replies')
    BY <2>2, LenProperties, <1>13 DEF ServeCommand, TypeOK
  <2>4. command' \in BOOLEAN
    BY <1>13 DEF ServeCommand
  <2> QED
    BY <2>2, <2>3, <2>4, <1>13 DEF ServeCommand, TypeOK
<1>14. CASE BevRead
  BY <1>14 DEF BevRead, TypeOK
<1>15. CASE TimerCallback
  BY <1>15 DEF TimerCallback, TypeOK, CallDrive
<1>16. CASE ReadReturn
  BY <1>16 DEF ReadReturn, TypeOK
<1>17. CASE ReadBinary
  <2>1. replies' \in Seq(Reply) /\ arrived' \in 0..Len(replies')
    BY ConsumeType, <1>17 DEF ReadBinary
  <2>2. Complete
    BY <1>17 DEF ReadBinary
  <2> QED
    BY <2>1, <2>2, CompleteType DEF Complete, TypeOK
<1>18. CASE ReadMiss
  <2>1. replies' \in Seq(Reply) /\ arrived' \in 0..Len(replies')
    BY ConsumeType, <1>18 DEF ReadMiss
  <2>2. Complete
    BY <1>18 DEF ReadMiss
  <2> QED
    BY <2>1, <2>2, CompleteType DEF Complete, TypeOK
<1>19. CASE ReadValue
  <2>1. replies' \in Seq(Reply) /\ arrived' \in 0..Len(replies')
    BY ConsumeType, <1>19 DEF ReadValue
  <2> QED
    BY <2>1, <1>19 DEF ReadValue, TypeOK, ReadStates
<1>20. CASE ReadNoise
  <2>1. replies' \in Seq(Reply) /\ arrived' \in 0..Len(replies')
    BY ConsumeType, <1>20 DEF ReadNoise
  <2> QED
    BY <2>1, <1>20 DEF ReadNoise, TypeOK
<1>21. CASE ReadData
  <2>1. /\ replies' \in Seq(Reply)
        /\ arrived' \in 0..Len(replies')
    BY ConsumeType, <1>21 DEF ReadData
  <2>2. op_queue' \in Seq(Op)
    <3>1. 1 \in 1..Len(op_queue)
      BY EmptySeq, <1>21 DEF ReadData, TypeOK
    <3>2. op_queue[1] \in Op
      BY <3>1, ElementOfSeq DEF TypeOK
    <3>3. [op_queue[1] EXCEPT !.n_recv = @ + 1] \in Op
      BY <3>2 DEF Op
    <3>4. op_queue' = [op_queue EXCEPT
                         ![1] = [op_queue[1] EXCEPT !.n_recv = @ + 1]]
      BY <1>21 DEF ReadData, ReceiveValue
    <3> QED
      BY <3>1, <3>3, <3>4, ExceptSeq DEF TypeOK
  <2> QED
    BY <2>1, <2>2, <1>21 DEF ReadData, TypeOK, ReadStates
<1>22. CASE ReadNextValue
  <2>1. replies' \in Seq(Reply) /\ arrived' \in 0..Len(replies')
    BY ConsumeType, <1>22 DEF ReadNextValue
  <2> QED
    BY <2>1, <1>22 DEF ReadNextValue, TypeOK, ReadStates, CallDrive
<1>23. CASE ReadEnd
  <2>1. replies' \in Seq(Reply) /\ arrived' \in 0..Len(replies')
    BY ConsumeType, <1>23 DEF ReadEnd
  <2>2. Complete
    BY <1>23 DEF ReadEnd
  <2> QED
    BY <2>1, <2>2, CompleteType DEF Complete, TypeOK
<1>24. CASE ReadSet
  <2>1. replies' \in Seq(Reply) /\ arrived' \in 0..Len(replies')
    BY ConsumeType, <1>24 DEF ReadSet
  <2>2. Complete
    BY <1>24 DEF ReadSet
  <2> QED
    BY <2>1, <2>2, CompleteType DEF Complete, TypeOK
<1>25. CASE ReadLoading
  <2>1. /\ replies' \in Seq(Reply)
        /\ arrived' \in 0..Len(replies')
    BY ConsumeType, <1>25 DEF ReadLoading
  <2>2. op_queue' \in Seq(Op)
    BY HeadTailProperties, <1>25 DEF ReadLoading, TypeOK
  <2>3. /\ read_state' \in ReadStates
        /\ pc' \in {"read", "load"}
        /\ back' \in {"loop", "read"}
    BY <1>25 DEF ReadLoading, ReadStates, TypeOK
  <2> QED
    BY <2>1, <2>2, <2>3, <1>25 DEF ReadLoading, TypeOK
<1>26. CASE LoadIssue
  <2>1. IssueOp("SET", 1)
    BY <1>26 DEF LoadIssue
  <2>2. /\ op_queue' \in Seq(Op) /\ requests' \in Seq(Request)
        /\ seqno' \in Nat /\ read_state' \in ReadStates
    BY <2>1, IssueType DEF OpTypes
  <2> QED
    BY <2>2, <1>26 DEF LoadIssue, TypeOK
<1>27. CASE LoadReturn
  BY <1>27 DEF LoadReturn, TypeOK
<1>28. CASE InitWrite
  BY <1>28 DEF InitWrite, TypeOK, WriteStates
<1>29. CASE IssuingFull
  BY <1>29 DEF IssuingFull, TypeOK, WriteStates
<1>30. CASE IssuingEarly
  BY <1>30 DEF IssuingEarly, TypeOK, PcAfterEarly, WriteStates
<1>31. CASE IssuingModerate
  BY <1>31 DEF IssuingModerate, TypeOK, WriteStates
<1>32. CASE Issue
  <2>1. PICK w \in Workload : IssueOp(w.type, w.n_req)
    BY <1>32 DEF Issue, IssueSomething
  <2>2. w.type \in OpTypes /\ w.n_req \in Nat \ {0}
    OBVIOUS
  <2>3. /\ op_queue' \in Seq(Op) /\ requests' \in Seq(Request)
        /\ seqno' \in Nat /\ read_state' \in ReadStates
    BY <2>1, <2>2, IssueType
  <2> QED
    BY <2>3, <1>32 DEF Issue, TypeOK
<1>33. CASE SkipOne
  BY <1>33 DEF SkipOne, TypeOK
<1>34. CASE SkipReturn
  BY <1>34 DEF SkipReturn, TypeOK
<1>35. CASE WaitForTime
  BY <1>35 DEF WaitForTime, TypeOK, TimerWhileWaiting
<1>36. CASE TimeReached
  BY <1>36 DEF TimeReached, TypeOK, WriteStates
<1>37. CASE StillFull
  BY <1>37 DEF StillFull, TypeOK
<1>38. CASE RoomAgain
  BY <1>38 DEF RoomAgain, TypeOK, WriteStates
<1>39. CASE UNCHANGED vars
  BY <1>39 DEF vars, TypeOK
<1> QED
  BY <1>1, <1>2, <1>3, <1>4, <1>5, <1>6, <1>7, <1>8, <1>9, <1>10, <1>11,
     <1>12, <1>13, <1>14, <1>15, <1>16, <1>17, <1>18, <1>19, <1>20, <1>21,
     <1>22, <1>23, <1>24, <1>25, <1>26, <1>27, <1>28, <1>29, <1>30, <1>31,
     <1>32, <1>33, <1>34, <1>35, <1>36, <1>37, <1>38, <1>39
     DEF Next, Driver, Server, ReadLoop, DriveLoop, Stopped

LEMMA InitType ==
  ASSUME Init
  PROVE  TypeOK
<1>2. /\ op_queue \in Seq(Op)
      /\ requests \in Seq(Request)
      /\ replies \in Seq(Reply)
      /\ Len(replies) = 0
  BY EmptySeq DEF Init
<1>3. woken \in BOOLEAN /\ timer \in BOOLEAN /\ command \in BOOLEAN
  BY DEF Init
<1>4. /\ start_time \in Nat /\ now \in Nat /\ next_time \in Nat
      /\ last_rx \in Nat /\ loader_issued \in Nat
      /\ loader_completed \in Nat /\ logged \in Nat /\ seqno \in Nat
      /\ served \in Nat /\ clock \in Nat
      /\ arrived \in 0..Len(replies)
  BY <1>2 DEF Init
<1>5. /\ phase \in Phases
      /\ pc \in {"loop", "read", "drive", "skip", "load", "exit"}
      /\ back \in {"loop", "read"}
      /\ read_state \in ReadStates
      /\ write_state \in WriteStates
  BY DEF Init, Phases, ReadStates, WriteStates
<1> QED
  BY <1>2, <1>3, <1>4, <1>5 DEF TypeOK

\* Every variable keeps its type in every run of the program: the prefix of
\* the replies that has arrived never exceeds what the server sent, and no
\* counter of read_callback, the loader or the write machine goes below zero.
THEOREM TypeCorrect == Spec => []TypeOK
<1>1. Init => TypeOK
  BY InitType
<1> QED
  BY <1>1, TypeStep, PTL DEF Spec

-----------------------------------------------------------------------------
(* What the types say of the elements of the sequences.                    *)

LEMMA Elements ==
  ASSUME TypeOK
  PROVE  /\ Len(op_queue) \in Nat /\ Len(requests) \in Nat
         /\ Len(replies) \in Nat /\ seqno \in Nat
         /\ (op_queue = <<>> <=> Len(op_queue) = 0)
         /\ (requests = <<>> <=> Len(requests) = 0)
         /\ (replies = <<>> <=> Len(replies) = 0)
         /\ \A i \in 1..Len(op_queue) :
              op_queue[i].id \in Nat /\ op_queue[i].type \in OpTypes
         /\ \A i \in 1..Len(requests) :
              requests[i].id \in Nat /\ requests[i].type \in OpTypes
         /\ \A i \in 1..Len(replies) :
              replies[i].id \in Nat /\ replies[i].kind \in ReplyKinds
<1>1. \A i \in 1..Len(op_queue) : op_queue[i] \in Op
  BY ElementOfSeq DEF TypeOK
<1>2. \A i \in 1..Len(requests) : requests[i] \in Request
  BY ElementOfSeq DEF TypeOK
<1>3. \A i \in 1..Len(replies) : replies[i] \in Reply
  BY ElementOfSeq DEF TypeOK
<1>4. /\ Len(op_queue) \in Nat /\ (op_queue = <<>> <=> Len(op_queue) = 0)
      /\ Len(requests) \in Nat /\ (requests = <<>> <=> Len(requests) = 0)
      /\ Len(replies) \in Nat /\ (replies = <<>> <=> Len(replies) = 0)
  BY EmptySeq, LenProperties DEF TypeOK
<1> QED
  BY <1>1, <1>2, <1>3, <1>4 DEF TypeOK, Op, Request, Reply


\* A prefix of op_queue is completed, or an operation appended to it.
LEMMA TailLen ==
  ASSUME TypeOK, op_queue # <<>>, op_queue' = Tail(op_queue)
  PROVE  Len(op_queue') = Len(op_queue) - 1 /\ Len(op_queue) > 0
BY HeadTailProperties, Elements DEF TypeOK

LEMMA IssueLen ==
  ASSUME TypeOK, NEW type \in OpTypes, NEW n \in Nat \ {0}, IssueOp(type, n)
  PROVE  Len(op_queue') = Len(op_queue) + 1
<1> DEFINE op == [id |-> seqno + 1, type |-> type, n_req |-> n, n_recv |-> 0]
<1>1. op \in Op
  BY DEF Op, TypeOK
<1>2. op_queue' = Append(op_queue, op)
  BY DEF IssueOp
<1> HIDE DEF op
<1> QED
  BY <1>1, <1>2, AppendProperties DEF TypeOK

\* Popping the last operation makes the connection idle, and nothing else
\* does.
LEMMA PopIdle ==
  ASSUME TypeOK, Complete, read_state # "LOADING"
  PROVE  EmptyWhenIdle'
<1>1. /\ op_queue # <<>> /\ op_queue' = Tail(op_queue)
      /\ read_state' = IF Len(op_queue) = 1 THEN "IDLE"
                       ELSE WaitFor(op_queue[2].type)
  BY DEF Complete, PopOp, StateAfterPop
<1>2. CASE Len(op_queue) = 1
  <2>1. Len(op_queue') = 0 /\ op_queue' \in Seq(Op)
    BY <1>1, <1>2, TailLen, CompleteType
  <2> QED
    BY <2>1, EmptySeq DEF EmptyWhenIdle
<1>3. CASE Len(op_queue) # 1
  BY <1>1, <1>3 DEF WaitFor, EmptyWhenIdle
<1> QED
  BY <1>2, <1>3

-----------------------------------------------------------------------------
(* The parts of the invariant.                                             *)

\* Every step keeps phases, read states and loops together.
LEMMA PhaseStep ==
  ASSUME ControlInv, [Next]_vars
  PROVE  PhaseInv'
<1> USE DEF PhaseInv, driverVars, frameVars, readVars, writeVars
<1>p. PhaseInv /\ back \in {"loop", "read"}
  BY DEF ControlInv, TypeOK
<1>1. CASE ConnectedCallback
  BY <1>p, <1>1 DEF ConnectedCallback
<1>2. CASE SaslResponse
  BY <1>p, <1>2 DEF SaslResponse
<1>3. CASE StartLoading
  BY <1>p, <1>3 DEF StartLoading
<1>4. CASE SetupDone
  BY <1>p, <1>4 DEF SetupDone, AfterLoad
<1>5. CASE Kick
  BY <1>p, <1>5 DEF Kick
<1>6. CASE LoopAgain
  BY <1>p, <1>6 DEF LoopAgain
<1>7. CASE TimeOver
  BY <1>p, <1>7 DEF TimeOver
<1>8. CASE Reset
  BY <1>p, <1>8 DEF Reset
<1>9. CASE FailureCallback
  BY <1>p, <1>9 DEF FailureCallback
<1>10. CASE Tick
  BY <1>p, <1>10 DEF Tick
<1>11. CASE ServeValue
  BY <1>p, <1>11 DEF ServeValue
<1>12. CASE ServeLast
  BY <1>p, <1>12 DEF ServeLast
<1>13. CASE ServeCommand
  BY <1>p, <1>13 DEF ServeCommand
<1>14. CASE BevRead
  BY <1>p, <1>14 DEF BevRead, EventPhases
<1>15. CASE TimerCallback
  BY <1>p, <1>15 DEF TimerCallback, CallDrive, EventPhases
<1>16. CASE ReadReturn
  BY <1>p, <1>16 DEF ReadReturn
<1>17. CASE ReadBinary
  BY <1>p, <1>17
     DEF ReadBinary, Consume, Complete, PopOp, StateAfterPop, WaitFor,
         CallDrive
<1>18. CASE ReadMiss
  BY <1>p, <1>18
     DEF ReadMiss, Consume, Complete, PopOp, StateAfterPop, WaitFor, CallDrive
<1>19. CASE ReadValue
  BY <1>p, <1>19 DEF ReadValue, Consume
<1>20. CASE ReadNoise
  BY <1>p, <1>20 DEF ReadNoise, Consume
<1>21. CASE ReadData
  BY <1>p, <1>21 DEF ReadData, Consume
<1>22. CASE ReadNextValue
  BY <1>p, <1>22 DEF ReadNextValue, Consume, CallDrive
<1>23. CASE ReadEnd
  BY <1>p, <1>23
     DEF ReadEnd, Consume, Complete, PopOp, StateAfterPop, WaitFor, CallDrive
<1>24. CASE ReadSet
  BY <1>p, <1>24
     DEF ReadSet, Consume, Complete, PopOp, StateAfterPop, WaitFor, CallDrive
<1>25. CASE ReadLoading
  BY <1>p, <1>25 DEF ReadLoading, Consume
<1>26. CASE LoadIssue
  BY <1>p, <1>26 DEF LoadIssue, IssueOp, WaitFor
<1>27. CASE LoadReturn
  BY <1>p, <1>27 DEF LoadReturn
<1>28. CASE InitWrite
  BY <1>p, <1>28 DEF InitWrite
<1>29. CASE IssuingFull
  BY <1>p, <1>29 DEF IssuingFull
<1>30. CASE IssuingEarly
  BY <1>p, <1>30 DEF IssuingEarly, PcAfterEarly
<1>31. CASE IssuingModerate
  BY <1>p, <1>31 DEF IssuingModerate
<1>32. CASE Issue
  BY <1>p, <1>32 DEF Issue, IssueSomething, IssueOp, WaitFor
<1>33. CASE SkipOne
  BY <1>p, <1>33 DEF SkipOne
<1>34. CASE SkipReturn
  BY <1>p, <1>34 DEF SkipReturn
<1>35. CASE WaitForTime
  BY <1>p, <1>35 DEF WaitForTime, TimerWhileWaiting
<1>36. CASE TimeReached
  BY <1>p, <1>36 DEF TimeReached
<1>37. CASE StillFull
  BY <1>p, <1>37 DEF StillFull
<1>38. CASE RoomAgain
  BY <1>p, <1>38 DEF RoomAgain
<1>39. CASE UNCHANGED vars
  BY <1>p, <1>39 DEF vars
<1> QED
  BY <1>1, <1>2, <1>3, <1>4, <1>5, <1>6, <1>7, <1>8, <1>9, <1>10, <1>11,
     <1>12, <1>13, <1>14, <1>15, <1>16, <1>17, <1>18, <1>19, <1>20, <1>21,
     <1>22, <1>23, <1>24, <1>25, <1>26, <1>27, <1>28, <1>29, <1>30, <1>31,
     <1>32, <1>33, <1>34, <1>35, <1>36, <1>37, <1>38, <1>39
     DEF Next, Driver, Server, ReadLoop, DriveLoop, Stopped

\* Every step keeps the loader's window.
LEMMA LoaderStep ==
  ASSUME ControlInv, [Next]_vars
  PROVE  LoaderInv'
<1> USE DEF LoaderInv, driverVars, frameVars, readVars, writeVars, loaderVars
<1>p. LoaderInv /\ PhaseInv
  BY DEF ControlInv
<1>1. CASE ConnectedCallback
  BY <1>p, <1>1 DEF ConnectedCallback, PhaseInv
<1>2. CASE SaslResponse
  BY <1>p, <1>2 DEF SaslResponse, PhaseInv
<1>3. CASE StartLoading
  <2>1. op_queue = <<>>
    BY <1>3 DEF StartLoading, ControlInv, EmptyWhenIdle
  <2>2. Len(op_queue) = 0
    BY <2>1, Elements DEF ControlInv
  <2>3. op_queue' = op_queue
    BY <1>3 DEF StartLoading
  <2> QED
    BY <2>2, <2>3, <1>3, BoundsAssumption DEF StartLoading
<1>4. CASE SetupDone
  BY <1>p, <1>4 DEF SetupDone, AfterLoad, PhaseInv
<1>5. CASE Kick
  BY <1>p, <1>5 DEF Kick, PhaseInv
<1>6. CASE LoopAgain
  BY <1>p, <1>6 DEF LoopAgain, PhaseInv
<1>7. CASE TimeOver
  BY <1>p, <1>7 DEF TimeOver, PhaseInv
<1>8. CASE Reset
  BY <1>p, <1>8 DEF Reset, PhaseInv
<1>9. CASE FailureCallback
  BY <1>p, <1>9 DEF FailureCallback, PhaseInv
<1>10. CASE Tick
  BY <1>p, <1>10 DEF Tick, PhaseInv
<1>11. CASE ServeValue
  BY <1>p, <1>11 DEF ServeValue, PhaseInv
<1>12. CASE ServeLast
  BY <1>p, <1>12 DEF ServeLast, PhaseInv
<1>13. CASE ServeCommand
  BY <1>p, <1>13 DEF ServeCommand, PhaseInv
<1>14. CASE BevRead
  BY <1>p, <1>14 DEF BevRead, EventPhases, PhaseInv
<1>15. CASE TimerCallback
  BY <1>p, <1>15 DEF TimerCallback, CallDrive, PhaseInv
<1>16. CASE ReadReturn
  BY <1>p, <1>16 DEF ReadReturn, PhaseInv
<1>17. CASE ReadBinary
  BY <1>p, <1>17
     DEF ReadBinary, Consume, Complete, PopOp, StateAfterPop, WaitFor,
         CallDrive, PhaseInv
<1>18. CASE ReadMiss
  BY <1>p, <1>18
     DEF ReadMiss, Consume, Complete, PopOp, StateAfterPop, WaitFor,
         CallDrive, PhaseInv
<1>19. CASE ReadValue
  BY <1>p, <1>19 DEF ReadValue, Consume, PhaseInv
<1>20. CASE ReadNoise
  BY <1>p, <1>20 DEF ReadNoise, Consume, PhaseInv
<1>21. CASE ReadData
  BY <1>p, <1>21 DEF ReadData, Consume, PhaseInv
<1>22. CASE ReadNextValue
  BY <1>p, <1>22 DEF ReadNextValue, Consume, CallDrive, PhaseInv
<1>23. CASE ReadEnd
  BY <1>p, <1>23
     DEF ReadEnd, Consume, Complete, PopOp, StateAfterPop, WaitFor, CallDrive,
         PhaseInv
<1>24. CASE ReadSet
  BY <1>p, <1>24
     DEF ReadSet, Consume, Complete, PopOp, StateAfterPop, WaitFor, CallDrive,
         PhaseInv
<1>25. CASE ReadLoading
  <2>1. /\ Len(op_queue') = Len(op_queue) - 1
        /\ Len(op_queue) \in Nat
    BY <1>25, HeadTailProperties, Elements DEF ReadLoading, ControlInv, TypeOK
  <2>2. read_state = "LOADING" /\ phase = "loading"
    BY <1>p, <1>25 DEF ReadLoading, Consume, PhaseInv
  <2>3. /\ loader_completed \in Nat /\ loader_issued \in Nat
        /\ Records \in Nat /\ LoaderChunk \in Nat
    BY BoundsAssumption DEF ControlInv, TypeOK
  <2>4. Len(op_queue) > 0
    BY <1>25, Elements DEF ReadLoading, ControlInv
  <2>5. /\ loader_completed' = loader_completed + 1
        /\ loader_issued' = loader_issued /\ phase' = phase
        /\ IF LoadFinished THEN read_state' = "IDLE"
           ELSE read_state' = "LOADING" /\ pc' = "load"
    BY <1>25 DEF ReadLoading
  <2> QED
    BY <2>1, <2>2, <2>3, <2>4, <2>5, <1>p DEF LoadFinished
<1>26. CASE LoadIssue
  <2>1. /\ read_state = "LOADING" /\ read_state' = "LOADING"
        /\ loader_issued' = loader_issued + 1 /\ pc' = "load"
        /\ UNCHANGED <<loader_completed, phase>>
    BY <1>p, <1>26 DEF LoadIssue, IssueOp, PhaseInv
  <2>2. Len(op_queue') = Len(op_queue) + 1
    <3> DEFINE op == [id |-> seqno + 1, type |-> "SET",
                      n_req |-> 1, n_recv |-> 0]
    <3>1. op_queue' = Append(op_queue, op)
      BY <1>26 DEF LoadIssue, IssueOp
    <3>2. op \in Op
      <4>1. seqno + 1 \in Nat
        BY DEF ControlInv, TypeOK
      <4> QED
        BY <4>1 DEF Op, OpTypes
    <3>3. op_queue \in Seq(Op)
      BY DEF ControlInv, TypeOK
    <3> HIDE DEF op
    <3> QED
      BY <3>1, <3>2, <3>3, AppendProperties
  <2>3. /\ loader_completed \in Nat /\ loader_issued \in Nat
        /\ Records \in Nat /\ LoaderChunk \in Nat
        /\ Len(op_queue) \in Nat
    BY BoundsAssumption, Elements DEF ControlInv, TypeOK
  <2>4. /\ loader_issued < loader_completed + LoaderChunk
        /\ loader_issued < Records
    BY <1>26 DEF LoadIssue, MoreToLoad
  <2> QED
    BY <2>1, <2>2, <2>3, <2>4, <1>p
<1>27. CASE LoadReturn
  <2>1. /\ loader_completed \in Nat /\ loader_issued \in Nat
        /\ Records \in Nat /\ LoaderChunk \in Nat
    BY BoundsAssumption DEF ControlInv, TypeOK
  <2>2. ~MoreToLoad /\ UNCHANGED <<op_queue, read_state, phase, loaderVars>>
    BY <1>27 DEF LoadReturn
  <2> QED
    BY <2>1, <2>2, <1>p DEF MoreToLoad
<1>28. CASE InitWrite
  BY <1>p, <1>28 DEF InitWrite, PhaseInv
<1>29. CASE IssuingFull
  BY <1>p, <1>29 DEF IssuingFull, PhaseInv
<1>30. CASE IssuingEarly
  BY <1>p, <1>30 DEF IssuingEarly, PcAfterEarly, PhaseInv
<1>31. CASE IssuingModerate
  BY <1>p, <1>31 DEF IssuingModerate, PhaseInv
<1>32. CASE Issue
  BY <1>p, <1>32 DEF Issue, IssueSomething, IssueOp, WaitFor, PhaseInv
<1>33. CASE SkipOne
  BY <1>p, <1>33 DEF SkipOne, PhaseInv
<1>34. CASE SkipReturn
  BY <1>p, <1>34 DEF SkipReturn, PhaseInv
<1>35. CASE WaitForTime
  BY <1>p, <1>35 DEF WaitForTime, TimerWhileWaiting, PhaseInv
<1>36. CASE TimeReached
  BY <1>p, <1>36 DEF TimeReached, PhaseInv
<1>37. CASE StillFull
  BY <1>p, <1>37 DEF StillFull, PhaseInv
<1>38. CASE RoomAgain
  BY <1>p, <1>38 DEF RoomAgain, PhaseInv
<1>39. CASE UNCHANGED vars
  BY <1>p, <1>39 DEF vars
<1> QED
  BY <1>1, <1>2, <1>3, <1>4, <1>5, <1>6, <1>7, <1>8, <1>9, <1>10, <1>11,
     <1>12, <1>13, <1>14, <1>15, <1>16, <1>17, <1>18, <1>19, <1>20, <1>21,
     <1>22, <1>23, <1>24, <1>25, <1>26, <1>27, <1>28, <1>29, <1>30, <1>31,
     <1>32, <1>33, <1>34, <1>35, <1>36, <1>37, <1>38, <1>39
     DEF Next, Driver, Server, ReadLoop, DriveLoop, Stopped

\* Every step keeps an idle connection's queue empty.
LEMMA IdleStep ==
  ASSUME ControlInv, [Next]_vars
  PROVE  EmptyWhenIdle'
<1> USE DEF EmptyWhenIdle, driverVars, frameVars, readVars
<1>p. TypeOK /\ EmptyWhenIdle /\ LoaderInv /\ PhaseInv
  BY DEF ControlInv
<1>1. CASE ConnectedCallback
  BY <1>p, <1>1 DEF ConnectedCallback
<1>2. CASE SaslResponse
  BY <1>p, <1>2 DEF SaslResponse
<1>3. CASE StartLoading
  BY <1>3 DEF StartLoading
<1>4. CASE SetupDone
  BY <1>p, <1>4 DEF SetupDone
<1>5. CASE Kick
  BY <1>p, <1>5 DEF Kick
<1>6. CASE LoopAgain
  BY <1>p, <1>6 DEF LoopAgain
<1>7. CASE TimeOver
  BY <1>p, <1>7 DEF TimeOver
<1>8. CASE Reset
  BY <1>p, <1>8 DEF Reset
<1>9. CASE FailureCallback
  BY <1>p, <1>9 DEF FailureCallback
<1>10. CASE Tick
  BY <1>p, <1>10 DEF Tick
<1>11. CASE ServeValue
  BY <1>p, <1>11 DEF ServeValue
<1>12. CASE ServeLast
  BY <1>p, <1>12 DEF ServeLast
<1>13. CASE ServeCommand
  BY <1>p, <1>13 DEF ServeCommand
<1>14. CASE BevRead
  BY <1>p, <1>14 DEF BevRead
<1>15. CASE TimerCallback
  BY <1>p, <1>15 DEF TimerCallback
<1>16. CASE ReadReturn
  BY <1>p, <1>16 DEF ReadReturn
<1>17. CASE ReadBinary
  BY <1>p, <1>17, PopIdle DEF ReadBinary, Consume
<1>18. CASE ReadMiss
  BY <1>p, <1>18, PopIdle DEF ReadMiss, Consume
<1>19. CASE ReadValue
  BY <1>19 DEF ReadValue, Consume
<1>20. CASE ReadNoise
  BY <1>20 DEF ReadNoise, Consume
<1>21. CASE ReadData
  BY <1>p, <1>21 DEF ReadData
<1>22. CASE ReadNextValue
  BY <1>22 DEF ReadNextValue, Consume
<1>23. CASE ReadEnd
  BY <1>p, <1>23, PopIdle DEF ReadEnd, Consume
<1>24. CASE ReadSet
  BY <1>p, <1>24, PopIdle DEF ReadSet, Consume
<1>25. CASE ReadLoading
  <2>1. /\ read_state = "LOADING" /\ phase = "loading"
        /\ op_queue' = Tail(op_queue) /\ op_queue # <<>>
        /\ IF LoadFinished THEN read_state' = "IDLE"
           ELSE read_state' = "LOADING"
    BY <1>25, <1>p DEF ReadLoading, Consume, PhaseInv
  <2>2. CASE LoadFinished
    <3>1. /\ loader_completed + Len(op_queue) = loader_issued
          /\ loader_issued <= Records
          /\ loader_completed + 1 = Records
      BY <2>1, <2>2, <1>p DEF LoaderInv, LoadFinished
    <3>2. /\ loader_completed \in Nat /\ loader_issued \in Nat
          /\ Records \in Nat /\ Len(op_queue) \in Nat
      BY <1>p, BoundsAssumption, Elements DEF TypeOK
    <3>3. Len(op_queue) > 0 /\ Len(op_queue') = Len(op_queue) - 1
      BY <1>p, <2>1, TailLen
    <3>4. Len(op_queue') = 0 /\ op_queue' \in Seq(Op)
      BY <1>p, <2>1, <3>1, <3>2, <3>3, HeadTailProperties DEF TypeOK
    <3> QED
      BY <3>4, EmptySeq
  <2>3. CASE ~LoadFinished
    BY <2>1, <2>3
  <2> QED
    BY <2>2, <2>3
<1>26. CASE LoadIssue
  BY <1>p, <1>26 DEF LoadIssue, IssueOp, PhaseInv, WaitFor
<1>27. CASE LoadReturn
  BY <1>p, <1>27 DEF LoadReturn
<1>28. CASE InitWrite
  BY <1>p, <1>28 DEF InitWrite
<1>29. CASE IssuingFull
  BY <1>p, <1>29 DEF IssuingFull
<1>30. CASE IssuingEarly
  BY <1>p, <1>30 DEF IssuingEarly
<1>31. CASE IssuingModerate
  BY <1>p, <1>31 DEF IssuingModerate
<1>32. CASE Issue
  BY <1>p, <1>32 DEF Issue, IssueSomething, IssueOp, PhaseInv, WaitFor
<1>33. CASE SkipOne
  BY <1>p, <1>33 DEF SkipOne
<1>34. CASE SkipReturn
  BY <1>p, <1>34 DEF SkipReturn
<1>35. CASE WaitForTime
  BY <1>p, <1>35 DEF WaitForTime
<1>36. CASE TimeReached
  BY <1>p, <1>36 DEF TimeReached
<1>37. CASE StillFull
  BY <1>p, <1>37 DEF StillFull
<1>38. CASE RoomAgain
  BY <1>p, <1>38 DEF RoomAgain
<1>39. CASE UNCHANGED vars
  BY <1>p, <1>39 DEF vars
<1> QED
  BY <1>1, <1>2, <1>3, <1>4, <1>5, <1>6, <1>7, <1>8, <1>9, <1>10, <1>11,
     <1>12, <1>13, <1>14, <1>15, <1>16, <1>17, <1>18, <1>19, <1>20, <1>21,
     <1>22, <1>23, <1>24, <1>25, <1>26, <1>27, <1>28, <1>29, <1>30, <1>31,
     <1>32, <1>33, <1>34, <1>35, <1>36, <1>37, <1>38, <1>39
     DEF Next, Driver, Server, ReadLoop, DriveLoop, Stopped

-----------------------------------------------------------------------------
(* The invariant and the theorem.                                          *)

\* Every step keeps the invariant.
LEMMA ControlStep ==
  ASSUME ControlInv, [Next]_vars
  PROVE  ControlInv'
BY TypeStep, IdleStep, LoaderStep, PhaseStep DEF ControlInv

LEMMA ControlInvInductive == Spec => []ControlInv
<1>1. Init => ControlInv
  BY InitType DEF Init, ControlInv, EmptyWhenIdle, LoaderInv, PhaseInv
<1>2. ControlInv /\ [Next]_vars => ControlInv'
  BY ControlStep
<1> QED
  BY <1>1, <1>2, PTL DEF Spec

\* Whatever the server answers, the loader's window is full whenever the
\* loader waits, op_queue holds exactly the window, and the loader is idle
\* only when every record is acknowledged.
THEOREM LoaderWindowFull == Spec => []LoaderWindow
<1>1. ControlInv => LoaderWindow
  <2> SUFFICES ASSUME ControlInv, phase = "loading", pc # "load"
               PROVE  LoaderWindow
    BY DEF LoaderWindow
  <2>1. /\ loader_completed \in Nat /\ loader_issued \in Nat
        /\ Records \in Nat /\ LoaderChunk \in Nat
        /\ Len(op_queue) \in Nat
    BY BoundsAssumption, Elements DEF ControlInv, TypeOK
  <2>2. LoaderInv
    BY DEF ControlInv
  <2> QED
    BY <2>1, <2>2 DEF LoaderInv, LoaderWindow
<1> QED
  BY <1>1, ControlInvInductive, PTL

-----------------------------------------------------------------------------
(* What read_callback logs.                                             *)

LEMMA HeadReceived ==
  ASSUME TypeOK, op_queue # <<>>
  PROVE  op_queue[1] \in Op /\ op_queue[1].n_recv \in Nat
<1>1. 1 \in 1..Len(op_queue)
  BY Elements
<1>2. op_queue[1] \in Op
  BY <1>1, ElementOfSeq DEF TypeOK
<1> QED
  BY <1>2 DEF Op

LEMMA DataLen ==
  ASSUME TypeOK, ReadData
  PROVE  /\ Len(op_queue') = Len(op_queue)
         /\ op_queue' # <<>>
<1>1. 1 \in 1..Len(op_queue)
  BY EmptySeq, Elements DEF ReadData
<1>2. op_queue' = [op_queue EXCEPT ![1].n_recv = @ + 1]
  BY DEF ReadData, ReceiveValue
<1>3. DOMAIN op_queue' = DOMAIN op_queue
  BY <1>2
<1>4. op_queue' \in Seq(Op)
  <2>1. op_queue[1] \in Op
    BY <1>1, ElementOfSeq DEF TypeOK
  <2>2. [op_queue[1] EXCEPT !.n_recv = @ + 1] \in Op
    BY <2>1 DEF Op
  <2> QED
    BY <1>1, <1>2, <2>2, ExceptSeq DEF TypeOK
<1>5. Len(op_queue') = Len(op_queue)
  BY <1>3, <1>4, LenProperties, Elements DEF TypeOK
<1> QED
  BY <1>1, <1>4, <1>5, EmptySeq, Elements

LEMMA IssueGrows ==
  ASSUME TypeOK, Issue
  PROVE  /\ Len(op_queue') = Len(op_queue) + 1
         /\ seqno' = seqno + 1
<1>1. PICK w \in Workload : IssueOp(w.type, w.n_req)
  BY DEF Issue, IssueSomething
<1>2. w.type \in OpTypes /\ w.n_req \in Nat \ {0}
  BY WorkloadAssumption
<1> QED
  BY <1>1, <1>2, IssueLen DEF IssueOp

\* What follows the head of op_queue has received nothing.
LEMMA TailReceived ==
  ASSUME TypeOK, LogInv, op_queue # <<>>, op_queue' = Tail(op_queue)
  PROVE  \A i \in 1..Len(op_queue') : op_queue'[i].n_recv = 0
<1>1. /\ Len(op_queue') = Len(op_queue) - 1 /\ Len(op_queue) \in Nat
      /\ Len(op_queue) > 0
  BY TailLen, Elements
<1>2. SUFFICES ASSUME NEW i \in 1..Len(op_queue')
               PROVE  op_queue'[i].n_recv = 0
  OBVIOUS
<1>3. i + 1 \in 2..Len(op_queue)
  BY <1>1
<1>4. op_queue'[i] = op_queue[i + 1]
  BY <1>1, HeadTailProperties DEF TypeOK
<1> QED
  BY <1>3, <1>4 DEF LogInv

LEMMA TailHead ==
  ASSUME TypeOK, op_queue # <<>>, op_queue' = Tail(op_queue)
  PROVE  /\ op_queue' # <<>> => 1 \in 1..Len(op_queue')
         /\ 2..Len(op_queue') \subseteq 1..Len(op_queue')
         /\ op_queue' = <<>> <=> Len(op_queue) = 1
<1>1. /\ Len(op_queue') = Len(op_queue) - 1 /\ Len(op_queue) \in Nat
      /\ Len(op_queue) > 0
  BY TailLen, Elements
<1>2. op_queue' \in Seq(Op)
  BY HeadTailProperties DEF TypeOK
<1>3. op_queue' = <<>> <=> Len(op_queue') = 0
  BY <1>2, EmptySeq
<1> QED
  BY <1>1, <1>3

\* Completing an operation leaves nothing logged and nothing received.
LEMMA PopLog ==
  ASSUME TypeOK, LogInv, Complete, read_state # "LOADING"
  PROVE  LogInv'
<1>1. /\ op_queue # <<>> /\ op_queue' = Tail(op_queue) /\ logged' = 0
      /\ read_state' = IF Len(op_queue) = 1 THEN "IDLE"
                       ELSE WaitFor(op_queue[2].type)
  BY DEF Complete, PopOp, StateAfterPop
<1>2. read_state' \notin {"WAITING_FOR_GET_DATA", "WAITING_FOR_END"}
  BY <1>1 DEF WaitFor
<1>3. read_state' # "IDLE" => op_queue' # <<>>
  BY <1>1, TailHead
<1>4. \A i \in 1..Len(op_queue') : op_queue'[i].n_recv = 0
  BY <1>1, TailReceived
<1>5. op_queue' # <<>> => op_queue'[1].n_recv = 0
  BY <1>1, <1>4, TailHead
<1>6. \A i \in 2..Len(op_queue') : op_queue'[i].n_recv = 0
  BY <1>1, <1>4, TailHead
<1> QED
  BY <1>1, <1>2, <1>3, <1>5, <1>6 DEF LogInv

\* An operation is issued with nothing received.
LEMMA IssueLog ==
  ASSUME TypeOK, EmptyWhenIdle, LogInv, logged' = logged,
         NEW type \in OpTypes, NEW n \in Nat \ {0}, IssueOp(type, n),
         read_state \notin {"INIT_READ", "WAITING_FOR_SASL"}
  PROVE  LogInv'
<1> DEFINE op == [id |-> seqno + 1, type |-> type, n_req |-> n, n_recv |-> 0]
           Q == Len(op_queue)
<1>1. op \in Op /\ op.n_recv = 0
  BY DEF Op, TypeOK
<1>2. /\ op_queue' = Append(op_queue, op)
      /\ read_state' = IF read_state = "IDLE" THEN WaitFor(type)
                       ELSE read_state
  BY DEF IssueOp
<1>3. Q \in Nat /\ op_queue \in Seq(Op) /\ (op_queue = <<>> <=> Q = 0)
  BY Elements DEF TypeOK
<1> HIDE DEF op
<1>4. /\ op_queue' \in Seq(Op) /\ Len(op_queue') = Q + 1
      /\ op_queue'[Q + 1] = op
      /\ \A i \in 1..Q : op_queue'[i] = op_queue[i]
  BY <1>1, <1>2, <1>3, AppendProperties
<1>5. op_queue' # <<>>
  BY <1>3, <1>4, EmptySeq
<1>6. \A i \in 2..Len(op_queue') : op_queue'[i].n_recv = 0
  <2> SUFFICES ASSUME NEW i \in 2..Q + 1 PROVE op_queue'[i].n_recv = 0
    BY <1>4
  <2>1. CASE i = Q + 1
    BY <2>1, <1>1, <1>4
  <2>2. CASE i # Q + 1
    <3>1. i \in 2..Q /\ i \in 1..Q
      BY <2>2, <1>3
    <3> QED
      BY <3>1, <1>4 DEF LogInv
  <2> QED
    BY <2>1, <2>2
<1>7. CASE op_queue = <<>>
  <2>1. op_queue'[1].n_recv = 0
    BY <1>1, <1>3, <1>4, <1>7
  <2>2. read_state \notin {"WAITING_FOR_GET_DATA", "WAITING_FOR_END"}
    BY <1>7 DEF LogInv
  <2>3. read_state' \notin {"WAITING_FOR_GET_DATA", "WAITING_FOR_END"}
    BY <1>2, <2>2 DEF WaitFor
  <2> QED
    BY <1>5, <1>6, <2>1, <2>2, <2>3 DEF LogInv
<1>8. CASE op_queue # <<>>
  <2>1. op_queue'[1] = op_queue[1]
    BY <1>3, <1>4, <1>8
  <2>2. read_state' = read_state
    BY <1>2, <1>8 DEF EmptyWhenIdle
  <2> QED
    BY <1>5, <1>6, <1>8, <2>1, <2>2 DEF LogInv
<1> QED
  BY <1>7, <1>8

LEMMA LoadPhase ==
  ASSUME ControlInv
  PROVE  /\ pc = "load" \/ read_state = "LOADING" => phase = "loading"
         /\ pc \in {"drive", "skip"} => phase \notin {"connecting", "loading"}
         /\ phase \in {"cold", "ready"}
              => read_state = "IDLE" /\ pc \in {"loop", "exit"}
BY DEF ControlInv, PhaseInv

\* Every step keeps what is logged in step with what is received.
LEMMA LogStep ==
  ASSUME ControlInv, LogInv, [Next]_vars
  PROVE  LogInv'
<1> USE DEF driverVars, frameVars, readVars
<1>p. TypeOK /\ EmptyWhenIdle /\ LogInv /\ PhaseInv
  BY DEF ControlInv
<1>1. CASE ConnectedCallback
  BY <1>p, <1>1 DEF ConnectedCallback, LogInv, EmptyWhenIdle
<1>2. CASE SaslResponse
  BY <1>p, <1>2 DEF SaslResponse, LogInv, EmptyWhenIdle
<1>3. CASE StartLoading
  BY <1>p, <1>3 DEF StartLoading, LogInv, EmptyWhenIdle
<1>4. CASE SetupDone
  BY <1>p, <1>4 DEF SetupDone, LogInv
<1>5. CASE Kick
  BY <1>p, <1>5 DEF Kick, LogInv
<1>6. CASE LoopAgain
  BY <1>p, <1>6 DEF LoopAgain, LogInv
<1>7. CASE TimeOver
  BY <1>p, <1>7 DEF TimeOver, LogInv
<1>8. CASE Reset
  BY <1>p, <1>8 DEF Reset, LogInv
<1>9. CASE FailureCallback
  BY <1>p, <1>9 DEF FailureCallback, LogInv
<1>10. CASE Tick
  BY <1>p, <1>10 DEF Tick, LogInv
<1>11. CASE ServeValue
  BY <1>p, <1>11 DEF ServeValue, LogInv
<1>12. CASE ServeLast
  BY <1>p, <1>12 DEF ServeLast, LogInv
<1>13. CASE ServeCommand
  BY <1>p, <1>13 DEF ServeCommand, LogInv
<1>14. CASE BevRead
  BY <1>p, <1>14 DEF BevRead, LogInv
<1>15. CASE TimerCallback
  BY <1>p, <1>15 DEF TimerCallback, LogInv
<1>16. CASE ReadReturn
  BY <1>p, <1>16 DEF ReadReturn, LogInv
<1>17. CASE ReadBinary
  BY <1>p, <1>17, PopLog DEF ReadBinary, Consume, LogInv
<1>18. CASE ReadMiss
  BY <1>p, <1>18, PopLog DEF ReadMiss, Consume, LogInv
<1>19. CASE ReadValue
  BY <1>p, <1>19 DEF ReadValue, Consume, LogInv
<1>20. CASE ReadNoise
  BY <1>p, <1>20 DEF ReadNoise, Consume, LogInv
<1>21. CASE ReadData
  <2>1. /\ op_queue # <<>> /\ Len(op_queue) \in Nat
        /\ op_queue[1].n_recv \in Nat
        /\ 1 \in 1..Len(op_queue)
    BY <1>p, <1>21, HeadReceived, Elements DEF ReadData
  <2>2. /\ op_queue' = [op_queue EXCEPT ![1].n_recv = @ + 1]
        /\ read_state = "WAITING_FOR_GET_DATA"
        /\ read_state' = "WAITING_FOR_END" /\ logged' = logged
    BY <1>21 DEF ReadData, Consume, ReceiveValue
  <2>3. op_queue' # <<>> /\ Len(op_queue') = Len(op_queue)
    BY <1>p, <1>21, <2>1, DataLen
  <2>4. op_queue[1] \in Op /\ DOMAIN op_queue = 1..Len(op_queue)
    BY <1>p, <2>1, ElementOfSeq, LenProperties DEF TypeOK
  <2>5. op_queue'[1].n_recv = op_queue[1].n_recv + 1
    BY <2>1, <2>2, <2>4 DEF Op
  <2>6. \A i \in 2..Len(op_queue) : op_queue'[i] = op_queue[i]
    BY <2>1, <2>2, <2>4
  <2>7. logged = op_queue[1].n_recv
    BY <1>p, <2>2 DEF LogInv
  <2>8. \A i \in 2..Len(op_queue') : op_queue'[i].n_recv = 0
    BY <1>p, <2>3, <2>6 DEF LogInv
  <2> QED
    BY <2>2, <2>3, <2>5, <2>7, <2>8 DEF LogInv
<1>22. CASE ReadNextValue
  <2>1. op_queue # <<>> /\ op_queue[1].n_recv \in Nat
    BY <1>p, <1>22, HeadReceived DEF ReadNextValue, Consume, LogInv
  <2> QED
    BY <1>p, <1>22, <2>1 DEF ReadNextValue, Consume, LogInv
<1>23. CASE ReadEnd
  BY <1>p, <1>23, PopLog DEF ReadEnd, Consume, LogInv
<1>24. CASE ReadSet
  BY <1>p, <1>24, PopLog DEF ReadSet, Consume, LogInv
<1>25. CASE ReadLoading
  <2>1. /\ op_queue # <<>> /\ op_queue' = Tail(op_queue) /\ logged' = 0
        /\ read_state' \in {"IDLE", "LOADING"}
    BY <1>25 DEF ReadLoading
  <2>2. \A i \in 1..Len(op_queue') : op_queue'[i].n_recv = 0
    BY <1>p, <2>1, TailReceived
  <2>3. op_queue' # <<>> => op_queue'[1].n_recv = 0
    BY <1>p, <2>1, <2>2, TailHead
  <2>4. \A i \in 2..Len(op_queue') : op_queue'[i].n_recv = 0
    BY <1>p, <2>1, <2>2, TailHead
  <2> QED
    BY <2>1, <2>3, <2>4 DEF LogInv
<1>26. CASE LoadIssue
  <2>1. IssueOp("SET", 1) /\ "SET" \in OpTypes /\ 1 \in Nat \ {0}
        /\ read_state = "LOADING"
    BY <1>p, <1>26 DEF LoadIssue, OpTypes, PhaseInv
  <2> QED
    BY <1>p, <1>26, <2>1, IssueLog DEF LoadIssue
<1>27. CASE LoadReturn
  BY <1>p, <1>27 DEF LoadReturn, LogInv
<1>28. CASE InitWrite
  BY <1>p, <1>28 DEF InitWrite, LogInv
<1>29. CASE IssuingFull
  BY <1>p, <1>29 DEF IssuingFull, LogInv
<1>30. CASE IssuingEarly
  BY <1>p, <1>30 DEF IssuingEarly, LogInv
<1>31. CASE IssuingModerate
  BY <1>p, <1>31 DEF IssuingModerate, LogInv
<1>32. CASE Issue
  <2>1. PICK w \in Workload : IssueOp(w.type, w.n_req)
    BY <1>32 DEF Issue, IssueSomething
  <2>2. w.type \in OpTypes /\ w.n_req \in Nat \ {0}
    BY WorkloadAssumption
  <2> QED
    <3>1. logged' = logged /\ read_state \notin {"INIT_READ", "WAITING_FOR_SASL"}
      BY <1>p, <1>32 DEF Issue, PhaseInv
    <3> QED
      BY <1>p, <2>1, <2>2, <3>1, IssueLog
<1>33. CASE SkipOne
  BY <1>p, <1>33 DEF SkipOne, LogInv
<1>34. CASE SkipReturn
  BY <1>p, <1>34 DEF SkipReturn, LogInv
<1>35. CASE WaitForTime
  BY <1>p, <1>35 DEF WaitForTime, LogInv
<1>36. CASE TimeReached
  BY <1>p, <1>36 DEF TimeReached, LogInv
<1>37. CASE StillFull
  BY <1>p, <1>37 DEF StillFull, LogInv
<1>38. CASE RoomAgain
  BY <1>p, <1>38 DEF RoomAgain, LogInv
<1>39. CASE UNCHANGED vars
  BY <1>p, <1>39 DEF vars, LogInv
<1> QED
  BY <1>1, <1>2, <1>3, <1>4, <1>5, <1>6, <1>7, <1>8, <1>9, <1>10, <1>11,
     <1>12, <1>13, <1>14, <1>15, <1>16, <1>17, <1>18, <1>19, <1>20, <1>21,
     <1>22, <1>23, <1>24, <1>25, <1>26, <1>27, <1>28, <1>29, <1>30, <1>31,
     <1>32, <1>33, <1>34, <1>35, <1>36, <1>37, <1>38, <1>39
     DEF Next, Driver, Server, ReadLoop, DriveLoop, Stopped

\* An operation is popped with one log_get call per value it received, or one
\* for a miss, over the ASCII and the binary protocol.
THEOREM EachLogged == Spec => EachValueLogged
<1>1. Init => LogInv
  <2> SUFFICES ASSUME Init PROVE LogInv
    OBVIOUS
  <2>1. Len(op_queue) = 0 /\ op_queue = <<>>
    BY InitType, Elements DEF Init
  <2> QED
    BY <2>1 DEF Init, LogInv
<1>2. ControlInv /\ LogInv /\ [Next]_vars => LogInv'
  BY LogStep
<1>3. ControlInv /\ LogInv /\ [Next]_vars
        => [Len(op_queue') < Len(op_queue) /\ phase # "loading"
            => logged + 1 = IF op_queue[1].n_recv > 1
                            THEN op_queue[1].n_recv ELSE 1]_vars
  <2> SUFFICES ASSUME ControlInv, LogInv, [Next]_vars,
                      Len(op_queue') < Len(op_queue), phase # "loading"
               PROVE  logged + 1 = IF op_queue[1].n_recv > 1
                                   THEN op_queue[1].n_recv ELSE 1
    OBVIOUS
  <2>p. TypeOK /\ PhaseInv /\ Len(op_queue) \in Nat /\ logged \in Nat
    BY Elements DEF ControlInv, TypeOK
  <2>1. CASE \/ ReadBinary \/ ReadMiss \/ ReadEnd \/ ReadSet
    <3>1. /\ read_state \in {"WAITING_FOR_GET", "WAITING_FOR_END",
                             "WAITING_FOR_SET"}
          /\ op_queue # <<>>
      BY <2>1 DEF ReadBinary, ReadMiss, ReadEnd, ReadSet, Consume, LogInv
    <3>2. op_queue[1].n_recv \in Nat
      BY <2>p, <3>1, HeadReceived
    <3> QED
      BY <2>p, <3>1, <3>2 DEF LogInv
  <2>2. CASE ReadLoading
    BY <2>2 DEF ReadLoading, Consume, ControlInv, PhaseInv
  <2>3. CASE ReadData
    BY <2>p, <2>3, DataLen
  <2>4. CASE Issue
    BY <2>p, <2>4, IssueGrows
  <2>5. CASE LoadIssue
    BY <2>p, <2>5, LoadPhase DEF LoadIssue
  <2>6. CASE op_queue' = op_queue
    BY <2>p, <2>6
  <2>7. \/ ReadBinary \/ ReadMiss \/ ReadEnd \/ ReadSet \/ ReadLoading
        \/ ReadData \/ Issue \/ LoadIssue \/ op_queue' = op_queue
    BY DEF Next, vars, readVars, Driver, Server, ReadLoop, DriveLoop, Stopped,
           ConnectedCallback, SaslResponse, StartLoading, SetupDone, Kick,
           LoopAgain, TimeOver, Reset, FailureCallback, Tick, ServeValue,
           ServeLast, ServeCommand, BevRead, TimerCallback, ReadReturn,
           ReadValue, ReadNoise, ReadNextValue, LoadReturn, InitWrite,
           IssuingFull, IssuingEarly, IssuingModerate, SkipOne, SkipReturn,
           WaitForTime, TimeReached, StillFull, RoomAgain
  <2> QED
    BY <2>1, <2>2, <2>3, <2>4, <2>5, <2>6, <2>7
<1> QED
  BY <1>1, <1>2, <1>3, ControlInvInductive, PTL DEF Spec, EachValueLogged
=============================================================================
