------------------------- MODULE ConnectionInvariant -------------------------
(***************************************************************************)
(* Why the stream of replies stays in step with op_queue: an inductive     *)
(* invariant of Connection under the hypothesis InStep.  Ids count the     *)
(* operations of a phase, so the operations completed so far are those     *)
(* with ids up to seqno - Len(op_queue), and the operations answered those *)
(* with ids up to seqno - Len(requests).                                   *)
(***************************************************************************)
EXTENDS Connection

\* One reply for every operation and for nothing else: no trace command, and
\* no binary multiget, which is answered by several responses.
InStep == ~Trace /\ (Binary => \A w \in Workload : w.n_req = 1)

\* op_queue holds the last operations issued, in order.
QueueIds ==
  /\ Len(op_queue) <= seqno
  /\ \A i \in 1..Len(op_queue) : op_queue[i].id + Len(op_queue) = seqno + i

\* requests holds the last ones of those.
RequestIds ==
  /\ ~command
  /\ Len(requests) <= Len(op_queue)
  /\ \A i \in 1..Len(requests) :
       /\ requests[i].id + Len(requests) = seqno + i
       /\ requests[i].type
            = op_queue[i + (Len(op_queue) - Len(requests))].type
       /\ Binary => requests[i].n_req = 1
  /\ served > 0 => /\ requests # <<>>
                   /\ requests[1].type = "GET"
                   /\ ~Binary

\* The read state is one of the operation at the head.
StateFitsHead ==
  /\ read_state \in {"INIT_READ", "WAITING_FOR_SASL", "IDLE"}
       => op_queue = <<>>
  /\ read_state \in {"WAITING_FOR_GET", "WAITING_FOR_GET_DATA",
                     "WAITING_FOR_END"}
       => op_queue # <<>> /\ op_queue[1].type = "GET"
  /\ read_state = "WAITING_FOR_SET"
       => op_queue # <<>> /\ op_queue[1].type = "SET"
  /\ read_state = "LOADING"
       => \A i \in 1..Len(op_queue) : op_queue[i].type = "SET"
  /\ read_state \in {"WAITING_FOR_GET_DATA", "WAITING_FOR_END"} => ~Binary

IsLast(kind) == kind \in {"END", "STORED", "RESP"}

\* The units with which the server answers an operation.
Fits(kind, type) ==
  IF Binary THEN kind = "RESP"
  ELSE IF type = "GET" THEN kind \in {"VALUE", "DATA", "END"}
  ELSE kind = "STORED"

\* Every unit answers a queued operation.
RepliesFit ==
  \A i \in 1..Len(replies) :
    /\ replies[i].id + Len(op_queue) > seqno
    /\ replies[i].id + Len(op_queue) <= seqno + Len(op_queue)
    /\ Fits(replies[i].kind,
            op_queue[(replies[i].id + Len(op_queue)) - seqno].type)

\* One unit after another: VALUE DATA ... VALUE DATA END, then the next reply.
Follows(b, a) ==
  IF IsLast(a.kind) THEN b.id = a.id + 1 /\ b.kind # "DATA"
  ELSE /\ b.id = a.id
       /\ (b.kind = "DATA") <=> (a.kind = "VALUE")

RepliesFollow ==
  \A i \in 1..Len(replies) - 1 : Follows(replies[i + 1], replies[i])

RepliesOrdered ==
  \A i, j \in 1..Len(replies) : i <= j => replies[i].id <= replies[j].id

\* The first unit is the one the head of op_queue waits for.
FirstReply ==
  replies # <<>> =>
    /\ replies[1].id + Len(op_queue) = seqno + 1
    /\ (replies[1].kind = "DATA") <=> (read_state = "WAITING_FOR_GET_DATA")

\* The last unit is where the server is.
LastReply ==
  IF replies = <<>>
  THEN /\ Len(requests) = Len(op_queue)
       /\ (served > 0) <=> (read_state = "WAITING_FOR_END")
       /\ read_state # "WAITING_FOR_GET_DATA"
  ELSE LET last == replies[Len(replies)]
       IN IF IsLast(last.kind)
          THEN served = 0 /\ last.id + Len(requests) = seqno
          ELSE /\ served > 0
               /\ last.kind = "DATA"
               /\ last.id + Len(requests) = seqno + 1

Aligned == /\ QueueIds
           /\ RequestIds
           /\ StateFitsHead
           /\ RepliesFit
           /\ RepliesFollow
           /\ RepliesOrdered
           /\ FirstReply
           /\ LastReply

\* The loader's counters bracket op_queue.
LoaderInv ==
  phase = "loading" =>
    IF read_state = "LOADING"
    THEN /\ loader_completed + Len(op_queue) = loader_issued
         /\ loader_completed < Records
         /\ loader_issued <= Records
         /\ loader_issued <= loader_completed + LoaderChunk
         /\ pc # "load" => \/ loader_issued = loader_completed + LoaderChunk
                           \/ loader_issued = Records
    ELSE loader_issued = Records /\ loader_completed = Records

\* Which read states and loops belong to which phase; a phase starts with an
\* idle connection.
PhaseInv ==
  /\ phase \in {"cold", "ready"}
       => read_state = "IDLE" /\ pc \in {"loop", "exit"}
  /\ read_state \in {"INIT_READ", "WAITING_FOR_SASL"} => phase = "connecting"
  /\ read_state = "LOADING" => phase = "loading"
  /\ pc = "load" => read_state = "LOADING"
  /\ \/ pc \in {"drive", "skip"}
     \/ timer
     \/ read_state \in {"WAITING_FOR_GET", "WAITING_FOR_GET_DATA",
                        "WAITING_FOR_END", "WAITING_FOR_SET"}
     => phase \notin {"connecting", "loading"}

StepInv == TypeOK /\ Aligned /\ LoaderInv /\ PhaseInv

-----------------------------------------------------------------------------
(* What holds whatever the server answers, without InStep.                 *)

EmptyWhenIdle ==
  read_state \in {"INIT_READ", "WAITING_FOR_SASL", "IDLE"} => op_queue = <<>>

ControlInv == TypeOK /\ EmptyWhenIdle /\ LoaderInv /\ PhaseInv

Running == phase \in {"warmup", "measuring"}

\* A phase starts with the write machine in its initial state, and the
\* machine is ISSUING only while drive_write_machine runs.
WriterStates ==
  /\ phase \in {"connecting", "loading", "cold", "ready"}
       => write_state = "INIT_WRITE"
  /\ write_state = "ISSUING" => pc \in {"drive", "skip"}
  /\ pc = "skip" => write_state = "ISSUING"

\* The machine waits for its time with room in the queue.
RoomWhileWaiting ==
  phase # "loading" /\ write_state \in {"INIT_WRITE", "WAITING_FOR_TIME"}
    => ~QueueFull

\* drive_write_machine returned, and something will call it again.
RestsWakeable ==
  Running /\ pc \in {"loop", "read"} =>
    \/ TimeIsUp(clock)
    \/ write_state = "WAITING_FOR_TIME" /\ timer
    \/ write_state = "WAITING_FOR_OPQ" /\ QueueFull

\* The queue is found full only on time, or skipping made it so.
FullOnTime ==
  Skip /\ pc = "drive" /\ write_state = "ISSUING" /\ QueueFull
    => now <= next_time + SkipLate

WriterInv == /\ WriterStates
             /\ PipelineDepth
             /\ Depth > 0 => /\ RoomWhileWaiting
                             /\ RestsWakeable
                             /\ SkipCatchup <= SkipLate => FullOnTime

\* next_time is at least one inter-arrival time after the last operation's
\* place in the schedule, and operations are issued between start_time and
\* the clock.
ScheduleInv ==
  Running =>
    /\ start_time <= clock
    /\ pc \in {"drive", "skip"} => start_time <= now /\ now <= clock
    /\ IF write_state = "INIT_WRITE" THEN seqno = 0
       ELSE start_time + (seqno + 1) * MinDelay <= next_time
    /\ start_time + seqno * MinDelay <= clock

\* Between two reads, the calls of log_get lag one behind the values received
\* when an END may follow, and have caught up otherwise; only the head of
\* op_queue has received any.
LogInv ==
  /\ read_state \in {"WAITING_FOR_GET", "WAITING_FOR_GET_DATA",
                     "WAITING_FOR_END", "WAITING_FOR_SET"}
       => op_queue # <<>>
  /\ \A i \in 2..Len(op_queue) : op_queue[i].n_recv = 0
  /\ read_state = "WAITING_FOR_GET_DATA" => logged = op_queue[1].n_recv
  /\ read_state = "WAITING_FOR_END" => logged + 1 = op_queue[1].n_recv
  /\ read_state \notin {"WAITING_FOR_GET_DATA", "WAITING_FOR_END"}
       => logged = 0 /\ (op_queue # <<>> => op_queue[1].n_recv = 0)
=============================================================================
