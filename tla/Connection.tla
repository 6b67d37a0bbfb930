----------------------------- MODULE Connection -----------------------------
(***************************************************************************)
(* One memcached connection of mcperf (src/Connection.cc), the event loop  *)
(* that runs its callbacks, the thread that owns it (do_mcperf in          *)
(* src/mcperf.cc) and the server at the other end of the stream.           *)
(*                                                                         *)
(* A callback runs to completion before the next one starts, but it loops: *)
(* read_callback consumes one response after another, drive_write_machine  *)
(* takes one transition after another, and time passes meanwhile.  Each    *)
(* iteration of such a loop is one action; pc says which loop is running   *)
(* and back which loop called drive_write_machine.  The server, the        *)
(* network and the clock move at any point.                                *)
(*                                                                         *)
(* Keys, values, sizes and key generation are abstracted; the stream of    *)
(* replies is a sequence of the units the client consumes one at a time    *)
(* (a line, a data block, a binary response).                              *)
(*                                                                         *)
(* An operator with a suffix, as QueueFull_Above, is a faulty variant of   *)
(* the one that follows it; no definition uses it.                         *)
(***************************************************************************)
EXTENDS Integers, Sequences

CONSTANTS
  Depth,        \* options.depth: how many operations may be outstanding
  Records,      \* options.records: how many records the loader writes
  LoaderChunk,  \* LOADER_CHUNK: how many sets the loader keeps outstanding
  Loads,        \* this connection leads its server and --noload is not given
  LoadOnly,     \* options.loadonly
  Warmup,       \* options.warmup, 0 for none
  Time,         \* options.time
  Delays,       \* what iagen->generate() may return
  Workload,     \* what issue_something may issue: records [type, n_req]
  Binary,       \* options.binary
  Sasl,         \* options.sasl
  Trace,        \* args.trace_given, on the connection that sends the command
  Blocking,     \* options.blocking: event_base_loop waits for an event
  ModerateGap,  \* the 0.25 ms of --moderate, 0 without it
  Skip,         \* options.skip with options.lambda > 0
  SkipLate,     \* the 5 ms by which a full connection must be late to skip
  SkipCatchup,  \* the 4 ms of lateness that skipping leaves
  MaxOps        \* bound: operations completed before the time limit

OpTypes == {"GET", "SET"}

ASSUME BoundsAssumption ==
  /\ Depth \in Nat
  /\ Records \in Nat \ {0}
  /\ LoaderChunk \in Nat \ {0}
  /\ Warmup \in Nat
  /\ Time \in Nat
  /\ ModerateGap \in Nat
  /\ SkipLate \in Nat
  /\ SkipCatchup \in Nat
  /\ MaxOps \in Nat

ASSUME OptionsAssumption ==
  {Loads, LoadOnly, Binary, Sasl, Trace, Blocking, Skip} \subseteq BOOLEAN

ASSUME WorkloadAssumption ==
  /\ Delays \subseteq Nat
  /\ Workload \subseteq [type : OpTypes, n_req : Nat \ {0}]

\* args_to_options sets options.sasl without options.binary when --binary is
\* missing; read_callback then fails assert(options.binary) on the answer.
ASSUME SaslAssumption == Sasl => Binary

-----------------------------------------------------------------------------

VARIABLES
  phase,             \* where do_mcperf is
  woken,             \* a blocking event_base_loop has an event to return for
  start_time,        \* Connection::start_time
  pc,                \* the loop that is running: "loop" is event_base_loop
  back,              \* where drive_write_machine or the loader returns to
  now,               \* the time drive_write_machine works with
  read_state, write_state, op_queue,
  next_time, last_rx,
  timer,             \* the one-shot timer is pending
  loader_issued, loader_completed,
  logged,            \* stats.log_get calls made for the head of op_queue
  seqno,             \* operations issued since the last start: ids
  command,           \* a trace command waits at the server before any request
  requests,          \* operations the server has not answered yet, in order
  served,            \* keys of the first of them found and sent so far
  replies,           \* units sent by the server and not yet consumed
  arrived,           \* how many of them are in the input evbuffer
  clock              \* get_time()

driverVars == <<phase, woken, start_time>>
frameVars  == <<pc, back, now>>
readVars   == <<read_state, op_queue, logged>>
writeVars  == <<write_state, next_time, last_rx, timer>>
loaderVars == <<loader_issued, loader_completed>>
serverVars == <<command, requests, served>>
netVars    == <<replies, arrived>>

vars == <<driverVars, frameVars, readVars, writeVars, loaderVars, seqno,
          serverVars, netVars, clock>>

Phases == {"connecting", "loading", "cold", "warmup", "draining", "ready",
           "measuring", "done"}

\* Phases in which do_mcperf sits in event_base_loop.
EventPhases == {"connecting", "loading", "warmup", "draining", "measuring"}

ReadStates == {"INIT_READ", "LOADING", "IDLE", "WAITING_FOR_SASL",
               "WAITING_FOR_GET", "WAITING_FOR_GET_DATA", "WAITING_FOR_END",
               "WAITING_FOR_SET"}

WriteStates == {"INIT_WRITE", "ISSUING", "WAITING_FOR_TIME",
                "WAITING_FOR_OPQ"}

ReplyKinds == {"VALUE", "DATA", "END", "STORED", "RESP", "LINE"}

Op == [id : Nat, type : OpTypes, n_req : Nat \ {0}, n_recv : Nat]

Request == [id : Nat, type : OpTypes, n_req : Nat \ {0}]

Reply == [kind : ReplyKinds, id : Nat]

\* The types of the variables; arrived is a prefix of what the server sent.
TypeOK ==
  /\ phase \in Phases
  /\ woken \in BOOLEAN
  /\ start_time \in Nat
  /\ pc \in {"loop", "read", "drive", "skip", "load", "exit"}
  /\ back \in {"loop", "read"}
  /\ now \in Nat
  /\ read_state \in ReadStates
  /\ write_state \in WriteStates
  /\ op_queue \in Seq(Op)
  /\ next_time \in Nat
  /\ last_rx \in Nat
  /\ timer \in BOOLEAN
  /\ loader_issued \in Nat
  /\ loader_completed \in Nat
  /\ logged \in Nat
  /\ seqno \in Nat
  /\ command \in BOOLEAN
  /\ requests \in Seq(Request)
  /\ served \in Nat
  /\ replies \in Seq(Reply)
  /\ arrived \in 0..Len(replies)
  /\ clock \in Nat

-----------------------------------------------------------------------------
(* Conditions and updates the actions share.                               *)

\* options.time, which do_mcperf replaces by options.warmup for the warmup.
Limit == start_time + (IF phase \in {"warmup", "draining"} THEN Warmup
                                                           ELSE Time)

\* check_exit_condition; read_state is past INIT_READ whenever it is called,
\* and with options.loadonly it is never called.
TimeIsUp(t) == t > Limit

\* Model bound: drive_write_machine is entered again only while fewer than
\* MaxOps operations were issued, or once it has nothing more to issue.
OpsLeft == seqno < MaxOps \/ TimeIsUp(clock)

\* A call of drive_write_machine at time t that returns to the loop ret.
CallDrive(t, ret) ==
  /\ now' = t
  /\ back' = ret
  /\ pc' = IF TimeIsUp(t) THEN ret ELSE "drive"

WaitFor(type) == IF type = "GET" THEN "WAITING_FOR_GET"
                                 ELSE "WAITING_FOR_SET"

QueueFull_Above == Len(op_queue) > Depth
QueueFull == Len(op_queue) >= Depth

\* What read_state becomes when the head of op_queue is popped.
StateAfterPop_Idle == IF read_state = "LOADING" THEN "LOADING" ELSE "IDLE"
StateAfterPop_Head ==
  IF read_state = "LOADING" THEN "LOADING"
  ELSE IF Len(op_queue) = 1 THEN "IDLE" ELSE WaitFor(op_queue[1].type)
StateAfterPop ==
  IF read_state = "LOADING" THEN "LOADING"
  ELSE IF Len(op_queue) = 1 THEN "IDLE" ELSE WaitFor(op_queue[2].type)

PopOp == /\ op_queue # <<>>
         /\ op_queue' = Tail(op_queue)
         /\ read_state' = StateAfterPop
         /\ logged' = 0

\* Queueing one operation and sending its request.
IssueOp(type, n_req) ==
  /\ seqno' = seqno + 1
  /\ op_queue' = Append(op_queue, [id |-> seqno + 1, type |-> type,
                                   n_req |-> n_req, n_recv |-> 0])
  /\ requests' = Append(requests, [id |-> seqno + 1, type |-> type,
                                   n_req |-> n_req])
  /\ read_state' = IF read_state = "IDLE" THEN WaitFor(type) ELSE read_state

-----------------------------------------------------------------------------
(* do_mcperf: connect, load, warm up, drain, reset, measure.               *)

Init ==
  /\ phase = "connecting"
  /\ woken = FALSE
  /\ start_time = 0
  /\ pc = "loop"
  /\ back = "loop"
  /\ now = 0
  /\ read_state = "INIT_READ"
  /\ write_state = "INIT_WRITE"
  /\ op_queue = <<>>
  /\ next_time = 0
  /\ last_rx = 0
  /\ timer = FALSE
  /\ loader_issued = 0
  /\ loader_completed = 0
  /\ logged = 0
  /\ seqno = 0
  /\ command = FALSE
  /\ requests = <<>>
  /\ served = 0
  /\ replies = <<>>
  /\ arrived = 0
  /\ clock = 0

\* BEV_EVENT_CONNECTED.  The options set on the socket are not modelled.
ConnectedCallback ==
  /\ pc = "loop"
  /\ read_state = "INIT_READ"
  /\ read_state' = IF Sasl THEN "WAITING_FOR_SASL" ELSE "IDLE"
  /\ UNCHANGED <<driverVars, frameVars, op_queue, logged, writeVars,
                 loaderVars, seqno, serverVars, netVars, clock>>

\* The answer to issue_sasl: the connection becomes idle, or DIE.
SaslResponse ==
  /\ pc = "loop"
  /\ read_state = "WAITING_FOR_SASL"
  /\ \/ read_state' = "IDLE" /\ pc' = "loop"
     \/ read_state' = "WAITING_FOR_SASL" /\ pc' = "exit"
  /\ UNCHANGED <<driverVars, back, now, op_queue, logged, writeVars,
                 loaderVars, seqno, serverVars, netVars, clock>>

\* BEV_EVENT_ERROR or BEV_EVENT_EOF: the process dies.
FailureCallback ==
  /\ pc = "loop"
  /\ phase \in EventPhases
  /\ pc' = "exit"
  /\ UNCHANGED <<driverVars, back, now, readVars, writeVars, loaderVars,
                 seqno, serverVars, netVars, clock>>

AfterLoad == IF LoadOnly THEN "done" ELSE IF Warmup > 0 THEN "cold" ELSE "ready"

\* Every connection is idle: the lead of a server starts to load it.
StartLoading ==
  /\ Loads
  /\ pc = "loop"
  /\ phase = "connecting"
  /\ read_state = "IDLE"
  /\ phase' = "loading"
  /\ read_state' = "LOADING"
  /\ loader_issued' = 0
  /\ loader_completed' = 0
  /\ pc' = "load"
  /\ back' = "loop"
  /\ UNCHANGED <<woken, start_time, now, op_queue, logged, writeVars, seqno,
                 serverVars, netVars, clock>>

\* Every connection is idle and there is nothing (more) to load.  This needs no
\* event: event_base_loopexit ends the wait of a loop that is entered when all
\* are idle already (src/mcperf.cc:1182).
SetupDone ==
  /\ pc = "loop"
  /\ phase = IF Loads THEN "loading" ELSE "connecting"
  /\ read_state = "IDLE"
  /\ phase' = AfterLoad
  /\ UNCHANGED <<woken, start_time, frameVars, readVars, writeVars,
                 loaderVars, seqno, serverVars, netVars, clock>>

\* The warmup or the measurement starts; with --trace a command goes out
\* before the first request of the measurement.
Kick ==
  /\ pc = "loop"
  /\ \/ phase = "cold" /\ phase' = "warmup" /\ command' = command
     \/ phase = "ready" /\ phase' = "measuring" /\ command' = Trace
  /\ start_time' = clock
  /\ seqno' = 0
  /\ now' = clock
  /\ back' = "loop"
  /\ pc' = "drive"
  /\ UNCHANGED <<woken, readVars, writeVars, loaderVars, requests, served,
                 netVars, clock>>

\* event_base_loop returned and no exit condition holds: wait again.
LoopAgain ==
  /\ pc = "loop"
  /\ phase \in {"warmup", "measuring"}
  /\ woken
  /\ ~TimeIsUp(clock)
  /\ woken' = FALSE
  /\ UNCHANGED <<phase, start_time, frameVars, readVars, writeVars,
                 loaderVars, seqno, serverVars, netVars, clock>>

\* event_base_loop returned and the time is up: drain after the warmup, stop
\* after the measurement.
TimeOver ==
  /\ pc = "loop"
  /\ Blocking => woken
  /\ TimeIsUp(clock)
  /\ \/ phase = "warmup" /\ phase' = "draining"
     \/ phase = "measuring" /\ phase' = "done"
  /\ woken' = FALSE
  /\ UNCHANGED <<start_time, frameVars, readVars, writeVars, loaderVars,
                 seqno, serverVars, netVars, clock>>

\* The connection is idle after the warmup: Connection::reset.
Reset ==
  /\ pc = "loop"
  /\ phase = "draining"
  /\ read_state = "IDLE"
  /\ phase' = "ready"
  /\ timer' = FALSE
  /\ write_state' = "INIT_WRITE"
  /\ UNCHANGED <<woken, start_time, frameVars, readVars, next_time, last_rx,
                 loaderVars, seqno, serverVars, netVars, clock>>

-----------------------------------------------------------------------------
(* The clock, the network and the server.                                  *)

\* Time passes until the limit of the running phase is exceeded.
Tick ==
  /\ phase \in {"warmup", "measuring"}
  /\ ~TimeIsUp(clock)
  /\ clock' = clock + 1
  /\ UNCHANGED <<driverVars, frameVars, readVars, writeVars, loaderVars,
                 seqno, serverVars, netVars>>

Unit(kind, id) == [kind |-> kind, id |-> id]

\* One key of a get was found: a VALUE line and its data, or, for a quiet
\* get of a binary multiget, a response of its own.
ServeValue ==
  /\ ~command
  /\ requests # <<>>
  /\ LET req == Head(requests)
     IN /\ req.type = "GET"
        /\ served < req.n_req
        /\ Binary => req.n_req > 1
        /\ replies' =
             IF Binary THEN Append(replies, Unit("RESP", req.id))
             ELSE Append(Append(replies, Unit("VALUE", req.id)),
                         Unit("DATA", req.id))
  /\ served' = served + 1
  /\ UNCHANGED <<driverVars, frameVars, readVars, writeVars, loaderVars,
                 seqno, arrived, command, requests, clock>>

\* The last unit of a reply: END or STORED; in the binary protocol the response
\* to a get or a set, or to the NOOP that ends a multiget.
LastKind(type) == IF Binary THEN "RESP"
                  ELSE IF type = "GET" THEN "END" ELSE "STORED"

ServeLast ==
  /\ ~command
  /\ requests # <<>>
  /\ replies' = Append(replies, Unit(LastKind(Head(requests).type),
                                     Head(requests).id))
  /\ requests' = Tail(requests)
  /\ served' = 0
  /\ UNCHANGED <<driverVars, frameVars, readVars, writeVars, loaderVars,
                 seqno, arrived, command, clock>>

\* The reply to the trace command, which is no operation: one line.
ServeCommand ==
  /\ command
  /\ command' = FALSE
  /\ replies' = Append(replies, Unit("LINE", 0))
  /\ UNCHANGED <<driverVars, frameVars, readVars, writeVars, loaderVars,
                 seqno, arrived, requests, served, clock>>

\* bufferevent read: n more units are complete in the evbuffer.
BevRead ==
  /\ pc = "loop"
  /\ phase \in EventPhases
  /\ \E n \in 1..(Len(replies) - arrived) : arrived' = arrived + n
  /\ pc' = "read"
  /\ woken' = Blocking
  /\ UNCHANGED <<phase, start_time, back, now, readVars, writeVars,
                 loaderVars, seqno, serverVars, replies, clock>>

-----------------------------------------------------------------------------
(* read_callback, one iteration of its loop per action.                    *)

\* The unit at the front of the evbuffer is consumed in state st.
Consume(st, kinds) ==
  /\ pc = "read"
  /\ read_state = st
  /\ arrived > 0
  /\ replies[1].kind \in kinds
  /\ replies' = Tail(replies)
  /\ arrived' = arrived - 1

\* Nothing to wait for, or not all of it is here.
ReadReturn ==
  /\ pc = "read"
  /\ read_state = "IDLE" \/ arrived = 0
  /\ pc' = "loop"
  /\ UNCHANGED <<driverVars, back, now, readVars, writeVars, loaderVars,
                 seqno, serverVars, netVars, clock>>

\* The operation at the head is complete: log it, pop it, drive the writer.
Complete ==
  /\ OpsLeft
  /\ last_rx' = clock
  /\ PopOp
  /\ CallDrive(clock, "read")
  /\ UNCHANGED <<driverVars, write_state, next_time, timer, loaderVars,
                 seqno, serverVars, clock>>

\* A whole binary response, whatever it answers.
ReadBinary ==
  /\ Binary
  /\ \/ Consume("WAITING_FOR_GET", ReplyKinds)
     \/ Consume("WAITING_FOR_SET", ReplyKinds)
  /\ Complete

\* END where VALUE or END may come: a miss.
ReadMiss ==
  /\ ~Binary
  /\ Consume("WAITING_FOR_GET", {"END"})
  /\ Complete

ReadValue ==
  /\ ~Binary
  /\ Consume("WAITING_FOR_GET", {"VALUE"})
  /\ read_state' = "WAITING_FOR_GET_DATA"
  /\ UNCHANGED <<driverVars, frameVars, op_queue, logged, writeVars,
                 loaderVars, seqno, serverVars, clock>>

\* A line that is neither: it is dropped.
ReadNoise ==
  /\ ~Binary
  /\ Consume("WAITING_FOR_GET", ReplyKinds \ {"END", "VALUE"})
  /\ UNCHANGED <<driverVars, frameVars, readVars, writeVars, loaderVars,
                 seqno, serverVars, clock>>

ReceiveValue_Down == [op_queue EXCEPT ![1].n_recv = @ - 1]
ReceiveValue_Twice == [op_queue EXCEPT ![1].n_recv = @ + 2]
ReceiveValue == [op_queue EXCEPT ![1].n_recv = @ + 1]

ReadData ==
  /\ Consume("WAITING_FOR_GET_DATA", {"DATA"})
  /\ op_queue # <<>>
  /\ read_state' = "WAITING_FOR_END"
  /\ op_queue' = ReceiveValue
  /\ UNCHANGED <<driverVars, frameVars, logged, writeVars, loaderVars, seqno,
                 serverVars, clock>>

\* One more value of a multiget: the one before is logged.
ReadNextValue ==
  /\ OpsLeft
  /\ Consume("WAITING_FOR_END", {"VALUE"})
  /\ read_state' = "WAITING_FOR_GET_DATA"
  /\ logged' = logged + 1
  /\ CallDrive(clock, "read")
  /\ UNCHANGED <<driverVars, op_queue, writeVars, loaderVars, seqno,
                 serverVars, clock>>

ReadEnd ==
  /\ Consume("WAITING_FOR_END", {"END"})
  /\ Complete

ReadSet ==
  /\ ~Binary
  /\ Consume("WAITING_FOR_SET", ReplyKinds)
  /\ Complete

LoadFinished_Issued == loader_issued = Records
LoadFinished == loader_completed + 1 = Records

\* Any unit completes one set of the loader; after the last one the
\* connection is idle, otherwise the window is filled again.
ReadLoading ==
  /\ Consume("LOADING", ReplyKinds)
  /\ op_queue # <<>>
  /\ op_queue' = Tail(op_queue)
  /\ logged' = 0
  /\ loader_completed' = loader_completed + 1
  /\ IF LoadFinished
     THEN read_state' = "IDLE" /\ pc' = "read" /\ back' = back
     ELSE read_state' = "LOADING" /\ pc' = "load" /\ back' = "read"
  /\ UNCHANGED <<driverVars, now, writeVars, loader_issued, seqno,
                 serverVars, clock>>

MoreToLoad_Above == /\ loader_issued <= loader_completed + LoaderChunk
                    /\ loader_issued < Records
MoreToLoad == /\ loader_issued < loader_completed + LoaderChunk
              /\ loader_issued < Records

\* The loop of start_loading and of state LOADING: fill the window with sets.
LoadIssue ==
  /\ pc = "load"
  /\ MoreToLoad
  /\ IssueOp("SET", 1)
  /\ loader_issued' = loader_issued + 1
  /\ UNCHANGED <<driverVars, frameVars, logged, writeVars, loader_completed,
                 command, served, netVars, clock>>

LoadReturn ==
  /\ pc = "load"
  /\ ~MoreToLoad
  /\ pc' = back
  /\ UNCHANGED <<driverVars, back, now, readVars, writeVars, loaderVars,
                 seqno, serverVars, netVars, clock>>

-----------------------------------------------------------------------------
(* drive_write_machine, one iteration of its loop per action.              *)

\* The event loop finds the timer expired.  It may do so early: libevent
\* works with a cached time and the delay is truncated to microseconds.
TimerCallback ==
  /\ pc = "loop"
  /\ phase \in EventPhases
  /\ timer
  /\ OpsLeft
  /\ timer' = FALSE
  /\ woken' = Blocking
  /\ CallDrive(clock, "loop")
  /\ UNCHANGED <<phase, start_time, readVars, write_state, next_time,
                 last_rx, loaderVars, seqno, serverVars, netVars, clock>>

InitWrite ==
  /\ pc = "drive"
  /\ write_state = "INIT_WRITE"
  /\ \E d \in Delays : next_time' = now + d
  /\ timer' = TRUE
  /\ write_state' = "WAITING_FOR_TIME"
  /\ UNCHANGED <<driverVars, frameVars, readVars, last_rx, loaderVars, seqno,
                 serverVars, netVars, clock>>

IssuingFull ==
  /\ pc = "drive"
  /\ write_state = "ISSUING"
  /\ QueueFull
  /\ write_state' = "WAITING_FOR_OPQ"
  /\ pc' = back
  /\ UNCHANGED <<driverVars, back, now, readVars, next_time, last_rx, timer,
                 loaderVars, seqno, serverVars, netVars, clock>>

\* Not yet time: the loop runs once more to make sure the timer is armed.
TooEarly_Never == FALSE
TooEarly == now < next_time

PcAfterEarly_Return == back
PcAfterEarly == "drive"

IssuingEarly ==
  /\ pc = "drive"
  /\ write_state = "ISSUING"
  /\ ~QueueFull
  /\ TooEarly
  /\ write_state' = "WAITING_FOR_TIME"
  /\ pc' = PcAfterEarly
  /\ UNCHANGED <<driverVars, back, now, readVars, next_time, last_rx, timer,
                 loaderVars, seqno, serverVars, netVars, clock>>

TooSoonAfterReply == ModerateGap > 0 /\ now < last_rx + ModerateGap

\* --moderate: too soon after the last response.
IssuingModerate ==
  /\ pc = "drive"
  /\ write_state = "ISSUING"
  /\ ~QueueFull
  /\ ~TooEarly
  /\ TooSoonAfterReply
  /\ write_state' = "WAITING_FOR_TIME"
  /\ timer' = TRUE
  /\ pc' = back
  /\ UNCHANGED <<driverVars, back, now, readVars, next_time, last_rx,
                 loaderVars, seqno, serverVars, netVars, clock>>

FallenBehind_Never(next, n) == FALSE
\* --skip: after this issue the queue holds n operations and the connection
\* is late.
FallenBehind(next, n) == /\ Skip
                         /\ now > next + SkipLate
                         /\ n >= Depth

\* issue_something: a get, a multiget or a set.
IssueSomething == \E w \in Workload : IssueOp(w.type, w.n_req)

\* Nothing holds the next operation up.
Issue ==
  /\ pc = "drive"
  /\ write_state = "ISSUING"
  /\ ~QueueFull
  /\ ~TooEarly
  /\ ~TooSoonAfterReply
  /\ IssueSomething
  /\ \E d \in Delays : next_time' = next_time + d
  /\ pc' = IF FallenBehind(next_time', Len(op_queue) + 1) THEN "skip"
                                                          ELSE "drive"
  /\ UNCHANGED <<driverVars, back, now, logged, write_state, last_rx, timer,
                 loaderVars, command, served, netVars, clock>>

StillBehind == next_time + SkipCatchup < now

\* One planned operation is skipped.
SkipOne ==
  /\ pc = "skip"
  /\ StillBehind
  /\ \E d \in Delays : next_time' = next_time + d
  /\ UNCHANGED <<driverVars, frameVars, readVars, write_state, last_rx,
                 timer, loaderVars, seqno, serverVars, netVars, clock>>

SkipReturn ==
  /\ pc = "skip"
  /\ ~StillBehind
  /\ pc' = "drive"
  /\ UNCHANGED <<driverVars, back, now, readVars, writeVars, loaderVars,
                 seqno, serverVars, netVars, clock>>

TimerWhileWaiting_Kept == timer
TimerWhileWaiting == TRUE

\* Before next_time: return with the timer pending.
WaitForTime ==
  /\ pc = "drive"
  /\ write_state = "WAITING_FOR_TIME"
  /\ now < next_time
  /\ timer' = TimerWhileWaiting
  /\ pc' = back
  /\ UNCHANGED <<driverVars, back, now, readVars, write_state, next_time,
                 last_rx, loaderVars, seqno, serverVars, netVars, clock>>

TimeReached ==
  /\ pc = "drive"
  /\ write_state = "WAITING_FOR_TIME"
  /\ now >= next_time
  /\ write_state' = "ISSUING"
  /\ UNCHANGED <<driverVars, frameVars, readVars, next_time, last_rx, timer,
                 loaderVars, seqno, serverVars, netVars, clock>>

StillFull ==
  /\ pc = "drive"
  /\ write_state = "WAITING_FOR_OPQ"
  /\ QueueFull
  /\ pc' = back
  /\ UNCHANGED <<driverVars, back, now, readVars, writeVars, loaderVars,
                 seqno, serverVars, netVars, clock>>

RoomAgain ==
  /\ pc = "drive"
  /\ write_state = "WAITING_FOR_OPQ"
  /\ ~QueueFull
  /\ write_state' = "ISSUING"
  /\ UNCHANGED <<driverVars, frameVars, readVars, next_time, last_rx, timer,
                 loaderVars, seqno, serverVars, netVars, clock>>

-----------------------------------------------------------------------------

Driver == \/ ConnectedCallback \/ SaslResponse \/ StartLoading \/ SetupDone
          \/ Kick \/ LoopAgain \/ TimeOver \/ Reset

Server == ServeValue \/ ServeLast \/ ServeCommand

ReadLoop == \/ ReadReturn \/ ReadBinary \/ ReadMiss \/ ReadValue \/ ReadNoise
            \/ ReadData \/ ReadNextValue \/ ReadEnd \/ ReadSet \/ ReadLoading
            \/ LoadIssue \/ LoadReturn

DriveLoop == \/ InitWrite \/ IssuingFull \/ IssuingEarly \/ IssuingModerate
             \/ Issue \/ SkipOne \/ SkipReturn \/ WaitForTime \/ TimeReached
             \/ StillFull \/ RoomAgain

\* The connection was deleted or the process is gone.
Stopped == (phase = "done" \/ pc = "exit") /\ UNCHANGED vars

Next == \/ /\ phase # "done"
           /\ pc # "exit"
           /\ \/ Driver \/ FailureCallback
              \/ Tick \/ Server \/ BevRead \/ TimerCallback
              \/ ReadLoop \/ DriveLoop
        \/ Stopped

Spec == Init /\ [][Next]_vars

\* Every party goes on: the thread returns to its event loop and runs what is
\* ready there, the server answers, the network delivers, time passes.  A
\* failure is never obliged to happen.
Fairness == /\ WF_vars(Driver)
            /\ WF_vars(Tick)
            /\ WF_vars(Server)
            /\ WF_vars(BevRead)
            /\ WF_vars(TimerCallback)
            /\ WF_vars(ReadLoop)
            /\ WF_vars(DriveLoop)

FairSpec == Spec /\ Fairness

-----------------------------------------------------------------------------
(* What the connection promises.                                           *)

\* The units of a reply that each read state can take.
Accepted == [st \in ReadStates |->
  CASE st = "WAITING_FOR_GET"      -> IF Binary THEN {"RESP"}
                                                ELSE {"VALUE", "END"}
    [] st = "WAITING_FOR_GET_DATA" -> {"DATA"}
    [] st = "WAITING_FOR_END"      -> {"VALUE", "END"}
    [] st \in {"WAITING_FOR_SET", "LOADING"} -> IF Binary THEN {"RESP"}
                                                         ELSE {"STORED"}
    [] OTHER                       -> {}]

\* read_callback never looks at which key a reply is for (the FIXME at
\* Connection.cc:531): that the next unit of the stream belongs to the
\* operation at the head of op_queue, and is one its state can take, has to
\* follow from the order of everything that came before.
ReplyMatchesHead ==
  replies # <<>> => /\ op_queue # <<>>
                    /\ replies[1].id = op_queue[1].id
                    /\ replies[1].kind \in Accepted[read_state]

\* An IDLE connection "munched all the data we expected" (Connection.cc:470):
\* no operation is queued or on its way to the server and no reply is on its
\* way back.  do_mcperf takes IDLE for "drained" before it resets and starts
\* the measurement, and the assertion of reset relies on it.
IdleMeansDrained ==
  read_state = "IDLE" => /\ op_queue = <<>>
                         /\ requests = <<>> /\ ~command
                         /\ replies = <<>>

\* The write machine never has more than Depth operations outstanding.
PipelineDepth == phase # "loading" => Len(op_queue) <= Depth

\* Whenever the loader waits, its window is as full as the records left allow
\* and op_queue holds exactly the window; it stops with every record
\* acknowledged.
LoaderWindow ==
  phase = "loading" /\ pc # "load" =>
    IF read_state = "LOADING"
    THEN /\ Len(op_queue) = loader_issued - loader_completed
         /\ \/ loader_issued = loader_completed + LoaderChunk
            \/ /\ loader_issued = Records
               /\ loader_issued < loader_completed + LoaderChunk
         /\ loader_completed < Records
    ELSE loader_issued = Records /\ loader_completed = Records

\* While the phase runs and no callback does, something will call
\* drive_write_machine again: the pending timer, or a reply owed to a full
\* queue.  Otherwise the connection would fall silent, and with --blocking
\* its thread with it.
NoLostWakeup ==
  phase \in {"warmup", "measuring"} /\ pc = "loop" =>
    \/ TimeIsUp(clock)
    \/ write_state = "WAITING_FOR_TIME" /\ timer
    \/ write_state = "WAITING_FOR_OPQ" /\ QueueFull /\ op_queue # <<>>

\* A get is popped with one log_get per value it received, or one for a miss,
\* although the calls are spread over the states of read_callback.
EachValueLogged ==
  [][Len(op_queue') < Len(op_queue) /\ phase # "loading" =>
       logged + 1 = IF op_queue[1].n_recv > 1 THEN op_queue[1].n_recv
                                              ELSE 1]_vars

MinDelay == CHOOSE d \in Delays : \A e \in Delays : d <= e

\* The open-loop schedule is never exceeded: whatever the connection catches
\* up on after full queues, moderation and late timers, the n-th operation of
\* a phase goes out no earlier than n inter-arrival times after its start.
NeverAheadOfSchedule ==
  phase \in {"warmup", "measuring"} => start_time + seqno * MinDelay <= clock

\* With --skip the queue never fills up while the schedule lags SkipLate
\* behind.
SkipCatchesUp ==
  [][Skip /\ write_state = "ISSUING" /\ write_state' = "WAITING_FOR_OPQ"
       => now <= next_time + SkipLate]_vars

\* What of a connection its abstract specification sees.  The server has
\* answered what is queued and no longer among the requests.
Period == CASE phase = "connecting" -> "setup"
            [] phase = "loading" -> "load"
            [] phase \in {"cold", "warmup", "draining"} -> "warmup"
            [] phase \in {"ready", "measuring"} -> "measure"
            [] phase = "done" -> "done"

Outstanding == [i \in 1..Len(op_queue) |->
                  [type |-> op_queue[i].type, n_req |-> op_queue[i].n_req]]

Answered == Len(op_queue) - Len(requests)

Abstract == INSTANCE Pipeline WITH period <- Period,
                                   outstanding <- Outstanding,
                                   answered <- Answered

\* Both state machines, the loader and do_mcperf together are a pipeline: each
\* operation is completed in its turn and by its own reply, and no period of
\* the run begins with operations of the one before.
ImplementsPipeline == Abstract!Spec

\* The run ends: connections are set up, the database is loaded, the warmup
\* drains and the measurement stops, also when event_base_loop blocks.
Termination == <>(phase = "done" \/ pc = "exit")
=============================================================================
