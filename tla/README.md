# A TLA+ verification of mcperf

mcperf (`src/`) is a load generator for memcached.  A process opens many
connections, pipelines gets and sets over them at planned times, measures the
latency of each, and can enlist *agents*, mcperf processes on other machines,
that do the same under its direction.  This directory holds TLA+ models of the
parts of it that are hard to get right, the TLC runs that check them on small
instances, and proofs checked by TLAPS.

## The system

| Component | State | Operations | Talks to |
|---|---|---|---|
| `Connection` (Connection.cc, Connection.h, Operation.h) | `read_state`, `write_state`, `op_queue`, `next_time`, `last_rx`, the timer, loader counters, statistics | `event_callback`, `read_callback`, `timer_callback`, `drive_write_machine`, `issue_*`, `pop_op`, `start_loading`, `reset` | memcached over a bufferevent; called by `do_mcperf` |
| Thread life cycle (`do_mcperf`, mcperf.cc) | its connections, start and stop time, the phase it is in | connect, load, warm up, drain, reset, measure, add up | polls `read_state` and `check_exit_condition` of its connections between calls of `event_base_loop`; barrier with the other threads; `sync_agent` |
| Process control (`main`, `go`, `thread_main`) | threads, options, search bounds | start and join threads, one or many rounds (`--search`, `--scan`) | `do_mcperf`, agent protocol |
| Agent protocol (`prep_agent`, `sync_agent`, `finish_agent`, `agent`) | `agent_sockets`, `lambda_denom`, errors | hand out options, servers and denominator, synchronize, collect | one ZeroMQ REQ/REP pair per agent |
| Options (`parse_profile`, `args_to_options`, `name_to_ipaddr`) | the parsed arguments, `options_t`, the list of servers | derive connections, share of the load, records | `main` before every round |
| Key cache (`CachingKeyGenerator`) | cached keys, index, reuse and regeneration counters | `generate_next`, `regen` | called by `issue_something` |
| Statistics (`ConnectionStats`, `LogHistogramSampler`) | counters, histogram bins, start and stop | `log_get`, `log_set`, `log_op`, `accumulate`, `get_nth` | connections, threads, agents |
| CPU statistics (`cpu_stat_thread`) | two flags and three averages | sample, reset, stop | `main` |
| Barrier (`barrier_wait`, or `pthread_barrier_wait`) | threads called and needed | wait | the threads of a process |
| Generators (`createGenerator`, `set_lambda`) | the parameters of a distribution | create, adjust, draw | a connection's constructor and write machine |
| Protocol classes, logging, plotting | none that matters | | |

How they interact.  Every thread owns an event base and its connections; the
callbacks of a connection run only inside that thread's `event_base_loop`, one
at a time and to their end, so threads share nothing but the barrier and the
options.  What happens *between* two callbacks, and between two iterations of
the loops inside one callback, is up to the server, the network and the clock.
Master and agents are processes that exchange untyped messages in an order both
know by heart.

What is hard here:

* the stream of replies carries no operation ids: everything depends on the
  order of `op_queue`, of the requests and of the replies (`FIXME` at
  Connection.cc:531);
* two state machines share one queue and call each other from three callbacks;
  a missed timer or a wrong return silences a connection, and a thread that
  waits in a blocking `event_base_loop` with it;
* an open-loop schedule has to survive late replies, full queues, `--moderate`
  and `--skip`;
* `do_mcperf` takes "idle" for "drained" before it resets the statistics;
* one barrier, made once, serves every meeting of every round, and a thread may
  be back at it before others have left it;
* how many connections there are is computed in one place and decided in another;
* `--search` steers by a percentile that went through three levels of merging;
* agents answer late, fail, are dropped from a list that is being iterated, and
  the messages of the protocol are told apart by position only.

Correctness, per component:

* connection: the next reply belongs to the head of the queue and is one its
  state takes; idle means drained; never more than `--depth` outstanding; never
  ahead of schedule; never silent; every value logged once; the loader keeps its
  window full and ends with every record stored; the run ends;
* agent protocol: both programs stay in step; nobody starts before everybody is
  ready; `lambda_denom` counts the connections of those who take part; the
  statistics of each agent are added once; the master ends;
* process and threads: no thread is ahead of another by a barrier; the master
  synchronizes alone; a round counts the operations of its measurement and no
  others; every round, and the process, ends;
* options: the shares of all connections add up to the load; every server is
  measured;
* key cache: keys in the pool are ones that were loaded; it is gone through as
  often as the options say, and as much of it is renewed;
* statistics and search: merging loses nothing, a percentile is the sample of
  its rank, and the search ends at the limit it looks for;
* generators: whatever its parameters, a distribution is adjusted to the rate.

## Modules

| Module | What it is |
|---|---|
| `Connection` | one connection, the thread that drives it, the server, the network and the clock |
| `ConnectionInvariant` | the inductive invariants of `Connection` and the hypothesis `InStep` that one of them needs |
| `Pipeline` | what a connection promises, as an abstract specification that `Connection` implements |
| `MCConnection` | workloads and delays for TLC |
| `ConnectionControlProofs` | types, phases, read states, the loader and the log calls |
| `ConnectionWriterProofs` | the write machine: depth, timers, schedule and skipping |
| `ConnectionStreamProofs` | the stream of replies stays in step with `op_queue` |
| `ConnectionPipelineProofs` | `Connection` implements `Pipeline` |
| `AgentProtocol` | a master and its agents |
| `Rendezvous` | what `sync_agent` promises, as an abstract specification that `AgentProtocol` implements |
| `AgentInvariant` | the inductive invariants of `AgentProtocol`, the hypotheses some of them need, and what lets its processes go on |
| `AgentProofs` | the protocol of any number of agents, that it implements `Rendezvous`, that it advances and does not block |
| `MCAgentProtocol` | agents and options for TLC |
| `Options` | from the command line to `options_t`, the servers and their threads; operators only |
| `Barrier` | `barrier_wait` as the steps of its threads |
| `CpuStat` | the thread that samples the CPU |
| `Process` | a process: `main`, `go`, its worker threads with all their connections; composes the three above |
| `ProcessInvariant` | the inductive invariants of `Process`, one hypothesis, and what lets its threads go on |
| `ProcessProofs` | barrier, rounds, shares, servers and the absence of a standstill for any number of threads and command lines |
| `MCProcess` | command lines for TLC |
| `Statistics` | histograms, their merging and their percentiles; operators only |
| `QpsSearch` | `--search` and `--scan` over `Statistics` |
| `KeyCache` | `CachingKeyGenerator` and its settings |
| `Generator` | the distribution between two requests of a connection |
| `SequentialProofs` | the pool of keys, the search, the merging of statistics and their percentiles, the pace of a connection |
| `MCSequential` | `QpsSearch`, `KeyCache` and `Generator` side by side for TLC |
| `FoldProofs` | lemmas about sums, concatenations, folds, counting and ranks, for the three proof modules above |

An operator whose name has a suffix (`QueueFull_Above`) is a faulty variant of
the definition without it.  No specification uses one; `PROJECT.json` names, for
every property, a variant with which TLC finds the property violated.

### Connection

*State.* `read_state`, `write_state`, `op_queue`, `next_time`, `last_rx`,
`loader_issued` and `loader_completed` are the members of the same name;
`timer` says whether the one-shot timer is pending.  `phase` is where
`do_mcperf` is.  `pc`, `back` and `now` are the stack: a callback runs to its
end, but it loops, and time and the server go on meanwhile, so every iteration
of `read_callback` (`pc = "read"`), of `drive_write_machine` (`"drive"`), of its
skip loop (`"skip"`) and of the loader's loop (`"load"`) is one action, and
`back` says who called.  `pc = "loop"` is the inside of `event_base_loop`, where
the next callback starts.  `requests`, `served` and `command` are the server's
input; `replies` is its output, a sequence of the units the client consumes one
at a time (a line, a data block, a binary response), of which the first
`arrived` are in the evbuffer.  Ids are the positions of operations within a
phase; the program has none.  `logged` counts the `log_get` calls made for the
head of the queue.

*Actions.* Each names the branch it models; the map in `PROJECT.json` gives the
lines.  A completed operation is logged, popped and followed by a call of
`drive_write_machine` in one action (`Complete`), as in the code.
`SetupDone` and `StartLoading` need no event: the FIXME at mcperf.cc:1180 fears that a
loop entered when all connections are idle waits for ever, but `event_base_loopexit`
(1182) ends it after four seconds.

*Abstractions.* Keys, values, lengths and byte counts; options of the socket;
the distribution behind `iagen`: an inter-arrival time is any member of
`Delays`, an operation any member of `Workload`.  A get is found or not as the
server likes, and each key of a multiget by itself.  The server answers in
order and without errors.  The timer may fire early, because libevent works with
a cached time and the delay is truncated.  One connection is modelled; those of
the same thread are independent but for the phases, which end when the last one
is idle or out of time.

*Pipeline.* `Period`, `Outstanding` and `Answered` are what the abstract
specification sees: the phase without its preparations, `op_queue` without ids
and counts, and how many of its operations are no longer among the server's
`requests`.  Both state machines, the loader and the driver collapse into five
actions.  A completion that came before its answer, an operation that survives
a change of period or an order that is not kept would be a step that `Pipeline`
does not have.

### AgentProtocol

*State.* `stage` and `turn` are the position of the master in its loops over
`active` (`agent_sockets`), `sum` becomes `options.lambda_denom`, `left` and
`ahead` count the calls of `sync_agent` still to come on each side, `pc` is where
each agent is in `agent()` and its `sync_agent`.  `request` and `reply` are what
is in transit; REQ sockets alternate between sending and receiving, so there is
one of each at most.  `owed` are the sockets that must receive before they may
send; a send on one of them throws `zmq::error_t`, which ends the master.
`arrived` and `released` count, for every party, how often it was ready for a
sync and how often it went on; they are what `Rendezvous` is about.

*Actions.* Each receives one message and sends the next, as the code does
without a wait between; the loops that only send are one step.  Setting up
connections, loading, warming up and measuring are one step, `work`.  An answer
that comes after its limit finds the socket closed, or still owed.  The message
contents are their kinds; the number an agent reports is computed as in the
code, and a number read from another message is any member of `Garbage`.  An
agent that copies options out of a message without them is `lost`, and not
followed further.

### Process, Options, Barrier, CpuStat

*State.* `main` is where `main` and `go` are, `turn` the loop over threads, `round`
the calls of `go`.  A worker runs `do_mcperf`, which is a straight line of
parts; `Script` is that line under the options, and `at` the position of each
thread in it.  `conn` is `read_state` as far as `do_mcperf` looks at it, `logged`
the operations in the statistics of a connection, `cs` those of a thread and
`stats` those of `main`.  `measured` is a history variable: the operations
completed in the measurement of this round.  `needed`, `called`, `waiting` and
`leaving` are the barrier, `cpu`, `g_stop`, `g_reset` and `published` the CPU
thread.

*Actions.* Those of `Main` are the statements of `main` and `go` that another thread
can see the effect of.  `barrier_wait` is two steps, coming in and getting the
mutex back, because a thread may return to the barrier before another that was
woken with it has left; `BarrierOpen` wakes all, as a broadcast does.
`pthread_barrier_t`, which the build uses, has the same steps; the module assumes of
`barrier.cc` that nothing else wakes a thread (there is no loop around
`pthread_cond_wait`, so a spurious wakeup would let a thread through).
`pthread_create`, `pthread_join` and the two flags of the CPU thread are steps of
their own.

*Options.* `ArgsToOptions` translates `parse_profile` and `args_to_options` on
records of arguments, `ServerList` what `main` makes of `--server`, `ServersOf` how
`go` deals servers out.  `SharesAddUp` and `ServersDealtOut` relate these to the
connections that `do_mcperf` opens (`Mine`).  The parts of a server's name are strings, its
port too, as in the code; only the ports of a range are numbers.

*Abstractions.* The inside of a connection is in module `Connection`, the other
side of `sync_agent` in `AgentProtocol`; here it returns or gives up.  A warmup or a
measurement ends at any time.

### Statistics, QpsSearch, KeyCache, Generator

`Statistics` counts latencies in bins with integer edges; `1.08^i` in the code.
Quotients are compared by cross products, so that `get_nth` and its interpolation
are exact where the code rounds.  `QpsSearch` has one action per run of `go`: the
server's answers (`Requests`) are logged by threads and agents, merged in the order
of the joins, and compared with the limit as in the code, integer divisions
included.  Whoever sends a request logs it: `StatsOf` goes through all requests of
the run and takes those of one party.  A server is described by the rate from which it is too slow (`knee`)
and the rate it answers at its peak.

`KeyCache` has one action per branch of `generate_next`; `sent` and `renewed` are
history variables.  Random numbers are any of their range.  A key is its number: its
length is a function of the number, and the padding of keys is left out.

`Generator` has doubles as fixed-point numbers with three digits, rounded down by
the divisions of `GPareto` and nowhere else: `PaceFollowsLambda` allows it what that
costs (`Rounding`) and asks for exactly `1 / lambda` of the other classes.  What is drawn from a distribution is
represented by its mean; that of `Normal` is not 0 in the code, because angle
and radius of its Box-Muller transformation come from one random number
(Generator.h:108-110).

## Runs

All bounds are in the `.cfg` files.  `MaxOps` bounds the operations issued per
phase: when it is reached replies are consumed only after the limit of the phase.
`Time` and `Warmup` bound the clock, `Rounds` the calls of `go()`.

| Run | What it asks |
|---|---|
| `pipeline` | Gets, sets and two-key multigets, two deep over the ASCII protocol, through load, warmup, drain and measurement; the refinement of `Pipeline`. Three operations per phase and depth two give every order of issue, answer, arrival in pieces and completion of two neighbours plus a third waiting; that is what the alignment depends on. |
| `binary` | The binary protocol with SASL, a loader that writes 4 records through a window of 2 (so that the window moves and ends short), a blocking event loop, and `Termination` under fairness. |
| `paced` | Positive inter-arrival times, `--moderate`, `--skip` and `--trace`; six time units are long enough to fall behind by more than `SkipLate`, to skip and to be on time again. Gets only: see below. |
| `binary_multiget` | Violation: a binary multiget is taken for complete at its first response. |
| `rounds` | Three unequal agents, two rounds, every combination of `--roundrobin`, `--loadonly`, `--warmup` and a master without threads for which both sides synchronize equally often; nothing fails. |
| `drops` | Any agent may miss any time limit, one may fail at any point, two rounds: both sides stay in step, the refinement of `Rendezvous`, and the master ends. |
| `dropped_agent` | Violation: an agent dropped after it reported its number stays in `lambda_denom`. |
| `late_stats` | Violation: a late answer to `finish_agent` is replaced by an empty message. |
| `threads` | Ten command lines lead a process through every part of `do_mcperf`: up to three threads, servers, two rounds, agents, a warmup, `--roundrobin`, a range of ports, a profile. Three threads are needed for one that returns to the barrier while the second has left it and the third has not. One operation per connection and part tells warmup, measurement and rounds apart. |
| `sequential` | Searches and scans over servers of five peaks and twelve limits, around the boundaries of the loops (50, 100, 5000); key caches of eight settings, smaller and larger than the records, given and by default; 22 distributions at five rates, all of which begin at 0 or have no deviation: what becomes of the others is the question of `pace_offset`. Four bins give one below, one at and two above the limit of the search. Deadlock is not checked: a search ends. |
| `search_updates` | Violation: with sets only, `--search` takes a percentile of no gets for the latency. |
| `pace_offset` | Violation: `--iadist` is said to be adjusted to `--qps` whatever it is (cmdline.ggo:44-46), but a uniform distribution keeps its lower end, and the mean is `1 / lambda` and that. |

Two agents would show every interleaving of the protocol; the third is there so
that dropping one of them leaves a list with a middle.  Two rounds show what one
leaves behind for the next.  `LambdaDenomExact` is checked for agents whose
weight `prep_agent` computes right: with `--roundrobin`, more servers than
threads and `--lambda_mul` above 1 it loses the multiplier (mcperf.cc:408), and
`lambda_denom` is too small.  A master without threads (`-T 0`) synchronizes
once from `go()` (mcperf.cc:1059), so that with a warmup or `--loadonly` it is out
of step with its agents; `rounds` leaves those combinations out.

`SharesAddUp` leaves out `--measure_connections` on a process without agents, which
`do_mcperf` obeys and `args_to_options` does not know of (with agents `prep_agent`
corrects it), and ranges of ports: `server_given` counts arguments, so a range of
n ports counts as one server (mcperf.cc:1516) and n times the load is offered.
`StopEndsProcess` is about a stop that comes after the CPU thread began; an
earlier one is forgotten (cpu_stat_thread.cc:49), which the example at
cpu_stat_thread.h:17-21 would run into.  `FindsLimit` assumes a server that meets the
limit at a fiftieth of its peak, for the search gives up at a hundredth;
`SearchEnds` names the one case in which it does not end (`Stalled`: neighbouring
bounds below 50).  `DiesOfExcess`: `regen` above 100 % divides by zero in
`generate_next`, and a profile sets it to the number of cached keys
(mcperf.cc:1501-1503).

Further places where the code and its documents differ, met on the way: with
`--keycache_capacity` alone, reuse and regeneration are 0 and not the defaults of
cmdline.ggo:74-75 (mcperf.cc:1163-1165), and without it they are ignored
(Connection.cc:37-41); renewing keys
changes nothing without `--keyorder`, for the same keys are generated again;
max_iterations 1 is said "to always invoke regen" (KeyGenerator.h:89), but
`iterations > max_iterations` (line 141) lets every second pass go without, so that the
pool is gone through reuse + 1 times, as `PassesAreCounted` shows for every reuse (which
is what cmdline.ggo:74 has: used once, reused reuse times); without `--poll_max` the
master has no limit (mcperf.cc:100-101), although cmdline.ggo:90 gives 120 s as the
default, and waits for ever for an agent that fails: the mutant `MaxPollTime_Unset` of
`MasterEnds` is that case, and so is a `--poll_freq` greater than the limit
(mcperf.cc:168), which `GivesUp` takes for no limit; a normal distribution with a
deviation is off as a uniform one with a lower end is; `-s host:port` is given a second port (mcperf.cc:599-600,
cmdline.ggo:13); the abbreviations of `--iadist` in Generator.h:29-36 are not
accepted, and its `none` is a null pointer.

With `--trace` the answer to the trace command belongs to no operation.  Before
the answer to a get it is dropped as noise, before the answer to a set it is
taken for it; `paced` has gets only, and `InStep` excludes `--trace`.

## Fairness

`FairSpec` of `Connection` assumes weak fairness of the thread (its driver, each
of its loops, the callbacks for data and for the timer), of the server and of
the clock.  This is what the code provides: a thread that is not in a callback is
in `event_base_loop`, which runs the callback of whatever is ready; callbacks do
not wait; memcached answers.  No fairness is assumed of failures, and none is
needed to be strong: the event loop does not disable one event by another.  With
`Blocking` the driver goes on only after an event, so `Termination` says that
there always is one.

`FairSpec` of `AgentProtocol` assumes that running processes go on and that a poll
that is not answered ends when there is a limit; never that an agent fails, nor
that one that failed comes back.

`Process` assumes weak fairness of `main`, of the CPU thread, of every worker and
of the callbacks that a server owes a connection; each is a thread of its own or
is run by `event_base_loop` of a thread that waits in it.  It does not assume that
a connection ever issues anything.  `MCSequential` assumes that a run of `go`
returns.

## Proofs

Every safety property of the passing runs is proved for every value of the
constants that satisfies the assumptions of its module, and so are both
refinements.  Where a theorem has a hypothesis it is a condition the
property needs; what breaks it is said below.

### Connection

| Theorem | Property | Hypothesis |
|---|---|---|
| `TypeCorrect` | `TypeOK` | |
| `LoaderWindowFull` | `LoaderWindow` | |
| `EachLogged` | `EachValueLogged` | |
| `DepthKept` | `PipelineDepth` | |
| `WakeupKept` | `NoLostWakeup` | `Depth > 0` |
| `SkippedInTime` | `SkipCatchesUp` | `Depth > 0`, `SkipCatchup <= SkipLate` |
| `ScheduleKept` | `NeverAheadOfSchedule` | `Delays # {}` |
| `RepliesMatch` | `ReplyMatchesHead` | `InStep` |
| `IdleDrained` | `IdleMeansDrained` | `InStep` |
| `PipelineImplemented` | `ImplementsPipeline` | `InStep` |

`--depth` is at least 1 (mcperf.cc:677), but `--measure_depth` may be 0
(mcperf.cc:449): then a connection of the master waits for ever for room in
an empty queue, so `Depth > 0` is a hypothesis and no
assumption.  `SkipCatchup` and `SkipLate` are 4 ms and 5 ms.  `InStep` says that
the connection sends no trace command, and over the binary protocol no multiget;
without it the last three properties are false, as the run `binary_multiget` shows.

`TypeOK` is inductive, the others are not.  The invariants are in `ConnectionInvariant`, in three
layers.

`ControlInv` holds whatever the server answers.  `PhaseInv` says which read states
and loops belong to which phase: it is what lets a phase start with an idle
connection, and an idle connection has an empty queue (`EmptyWhenIdle`).
`LoaderInv` ties the loader's counters to the length of the queue; the two need
each other, for the loader makes the connection idle by counting.

`WriterInv`, `ScheduleInv` and `LogInv` rest on it.  `RestsWakeable` is the heart of
`NoLostWakeup`: it speaks of every point to which `drive_write_machine` may have
returned, `read_callback` included, and holds again when it returns although it may
fail inside.  `RoomWhileWaiting` is why the machine, waiting for its time, never
finds the queue full when the time has come; together with the skip loop it gives
`FullOnTime`.  `ScheduleInv` keeps `next_time` one inter-arrival time ahead of the
last operation.  `LogInv` says by how much the calls of `log_get` lag behind the
values received in each read state.

`StepInv` adds `Aligned`, which needs `InStep`.  Ids make the positions comparable:
with `seqno` operations issued in this phase, those completed are the ones up to
`seqno - Len(op_queue)`, those answered the ones up to `seqno - Len(requests)`.
`Aligned` then says that `op_queue` and `requests` are the last operations, in order
(`QueueIds`, `RequestIds`), that the read state is one of the head's type
(`StateFitsHead`), that every unit of the stream answers a queued operation in a
form that fits it (`RepliesFit`), that units follow each other as VALUE DATA ...
END, one reply after the other (`RepliesFollow`, `RepliesOrdered`), that the first
unit is where the client is (`FirstReply`) and the last where the server is
(`LastReply`).

Each part has a lemma with one step per action (`PhaseStep`, `LoaderStep`,
`IdleStep`, `LogStep`, `WriterStep`, `ScheduleStep`, `AlignedStep`); the lemmas about
issuing (`IssueAligned`, `IssueLog`), serving (`SendAligned`) and completing
(`PopAligned`, `PopLog`) an operation carry the arithmetic of positions.

`PipelineImplemented` maps each action to one of `Pipeline` or to a stutter
(`PipelineStep`).  Issuing, answering and completing are seen through `ShowAll`, the queue
without ids; the lemmas about it (`ShownAppend`, `ShownTail`) say that it commutes with
`Append` and `Tail`.  That a completed operation was answered is `AnsweredHead`, from the
order of the units in `Aligned`; that a period begins with an empty queue is
`StateFitsHead`.

### AgentProtocol

| Theorem | Property | Hypothesis |
|---|---|---|
| `AgentTypes` | `TypeOK` | |
| `InStepKept` | `InStep` | `SameSyncs` |
| `TogetherKept` | `Together` | `SameSyncs` |
| `RendezvousImplemented` | `ImplementsRendezvous` | `SameSyncs` |
| `NobodyEverDies` | `NobodyDies` | `SameSyncs`, `Patient` |
| `StatsCollected` | `StatsComplete` | `SameSyncs`, `Patient` |
| `LambdaDenomIsExact` | `LambdaDenomExact` | `SameSyncs`, `Patient`, `Weighable` |
| `AgentsAreReady` | `AgentsReady` | `SameSyncs`, `Patient`, `MayCrash = {}` |
| `ProtocolAdvances` | | |
| `NoCircularWait` | | `SameSyncs` |

`SameSyncs`: a master without threads calls `sync_agent` once (mcperf.cc:1059), its
agents up to three times, so it has neither a warmup nor `--loadonly`.  Agents
may fail at any point, answer late and be dropped.  `Patient`: no poll of the
master ends without an answer; the runs `dropped_agent` and `late_stats` show what
happens otherwise.  `Weighable` excludes the case in which `prep_agent` loses
`--lambda_mul` (mcperf.cc:408).  An agent that failed is not ready, which is why the
last theorem excludes failures.

`TypeOK` is inductive with `Bounds`.  `ProtocolInv` says where every agent is when the
master is at a given point of its loops: `Position` describes the agent at each
index of `active`, behind the turn, at it and ahead of it, by what is in transit, by
the state it will answer in and by the calls of `sync_agent` it has to come;
`Agreement` says of all agents, dropped ones too, that a request under way is the
one they wait for.  Dropping an agent moves the later ones down one index, which
the lemmas about `RemoveAt` cover.  `PatientInv` adds that nobody is dropped, and how
often the statistics of each agent were added; the denominator is a sum over the
agents already asked.  `RendezvousInv` counts, for all parties, arrivals and
releases; with it each step of the protocol is `Arrive`, `Release`, `Leave` or a
stutter of `Rendezvous`.

The last two are the part of `MasterEnds` that is not fairness.  `ProtocolAdvances`
orders what is left to the master by round, stretch of the round (`Phase`, `Calls`,
`Stretch`), agents left in the loop (`Queue`) and whether it waits for an answer (`Pause`):
each of its steps makes that less (`Nearer`), also one that drops an agent and does
not advance the index.  A step of an agent leaves it as it is and the agent
less to do before it waits again (`Todo`).  `NoCircularWait` reads from `Position` that
whoever the master waits for was asked and is where it answers, unless it failed.
`MasterGoes` and `AgentGoes` are the guards of the actions.

### Process

| Theorem | Property | Hypothesis |
|---|---|---|
| `ProcessTypes` | `TypeOK` | |
| `NobodyIsAhead` | `NobodyAhead` | |
| `MasterSyncsAlone` | `SyncAlone` | |
| `RoundIsCounted` | `RoundCounted` | |
| `AllSharesAddUp` | `SharesAddUp` | |
| `AllDealtOut` | `ServersDealtOut` | `Distinct` |
| `NoStandstill` | | |

`Distinct`: no two of the servers of a command line have one host and port.  One
given twice is measured by two threads with `--roundrobin`.

`TypeInv` is `TypeOK` with the threads there are while `main` creates and joins
(`Crew`) and the servers of the connections that exist (`Links`).  `MeetInv` is about
the barrier: `called` is the number of those that wait (`Counted`), and the barrier has
opened equally often for all (`Level`), where a thread that was woken and has not
left counts as passed.  That gives `NobodyAhead` although a thread may be back before
another has left.  `SyncAlone` needs the lines of `Script` around `sync_agent`, a
barrier before and one after (`Framed`).  `CountInv` says that what `main` has added up
and what its threads have yet to return is what was measured, at every point
between the first `pthread_create` and the last `pthread_join`.

`SharesAddUp` counts the connections of all threads twice: by thread, and by server
(`Owner`, `Dealt`).  Without `--roundrobin` each thread has them all; with it the servers
of thread t are those of one residue (`DivMod`, `ModOf`), or, if there are more threads
than servers, the threads of a server are (`FewServers`).

`NoStandstill` is the part of `RoundsEnd` that is not fairness: until `main` is through
with its rounds, it can go on, or a thread can by itself, or a connection some
thread waits for has its answer to come (`GoesOn`).  The deadlock check of TLC
does not show that, for the thread of the CPU statistics never stops.  `LiveInv` says
that the connections of a thread are in states its part can wait for (`Served`), that
the barrier has not counted everybody and stayed shut (`StillCounting`), and how far
`main` is (`OnTime`).  If nobody could go on, all threads `main` created would wait at
the barrier or have returned; by `Level` not some of each, and by `StillCounting` one of
them is missing there (`SomebodyIsOut`).

### Search, statistics, keys and pace

| Theorem | Property | Hypothesis |
|---|---|---|
| `KeysOfTheLoader` | `KeysLoaded` | |
| `PassesAreCounted` | | |
| `RenewalsSuffice` | `RenewsEnough` | |
| `OnlyExcessKills` | `DiesOfExcess` | |
| `AllIsMerged` | `MergedAsLogged` | |
| `NthIsFound` | `NthIsRanked` | |
| `SearchFindsLimit` | `FindsLimit` | `Discerns` |
| `SearchAdvances` | | |
| `PaceFollows` | `PaceFollowsLambda` | `Centred` |

The four about keys follow from `CacheInv`, which bounds index, passes and the progress
of a renewal.  The arithmetic of `Freedom` and the wrap of the index are in `Sizes` and
`Renewal`.

`AllIsMerged` goes through both folds: `StatsTally` says that the statistics of a party
are those of its own requests, `RunIsMerged` that what `main` collects is those of all
parties, bin by bin, whatever their number.  `StatsInv` says that the statistics are those
of the last run and of no other.  `NthIsFound` builds on that: sums of bins are
numbers of requests (`BinsAddUp`), each rank is that of some request (`RankExists`) and bins
are in the order of latencies (`BinsInOrder`), so the first bin with enough below
it is that of the request with the rank.

`SearchInv` keeps the limit between `low_qps` and `high_qps` and says how far
below it the search ends (`Enclosed`); integer division costs the 2 operations per second.
`Discerns` says of server and bound that each statistic is over the bound for the
runs that are too fast and for no other.  The constants of `sequential` satisfy it,
those of `search_updates` do not, and there the search is wrong.

`SearchAdvances` is the part of `SearchEnds` that is not fairness: each run brings the
loop main is in nearer to its end or leads to a later one (`Stage`, `Remaining`), whatever
the server answers, except where the bisection stalls.  `RatesInv` says that its next
rate is one of its bounds, so that it moves the other.

`Centred`: no uniform distribution has a lower end and no normal one a deviation.
`set_lambda` sets the width of the one and the centre of the other and leaves what these
add to the mean (`Shift`), so that without the hypothesis the property is false, as the run
`pace_offset` shows; by how much is lemma `Adjusted`, which needs no hypothesis.

`PaceFollows` needs `GeneratorInv`, which knows the generator by the distribution it was
created for.  Its arithmetic is in `ParetoMean` and `StepsBelow`: dividing by
`Unit - shape` and multiplying again loses less than `Rounding` (`Arguments` gives the
range of the parameters).

### Lemmas about folds

The operators of the community modules fold their argument in an order that
`CHOOSE` picks, and recurse.  `FoldProofs` shows what they return without induction
over an operator: of all sets (or numbers) for which a lemma fails one has no smaller
one with it (`Smallest`, `Least`), and that one leads to a contradiction.  So sums over
finite sets do not depend on the order and may be taken apart (`SumRemove`,
`SumAdd`, `SumOfParts`), the concatenation of sequences has the members of all
(`FlattenType`), and any fold of functions exists (`FoldExists`).

### Only model-checked

The liveness properties `Termination`, `MasterEnds`, `StopEndsProcess`, `RoundsEnd` and
`SearchEnds`, for fairness and `ENABLED` are out of TLAPS's reach.  Proved is what they
rest on: that each step comes nearer to the end (`ProtocolAdvances`,
`SearchAdvances`) and that there is one (`NoCircularWait`, `NoStandstill`, `WakeupKept`).  The
guards these speak of are written out; on the instances of the runs `rounds`, `drops` and
`threads` TLC agrees that they are `ENABLED` of the actions.

## Plan

Everything that the plan had for models is done, and so are the proofs of the
safety properties.  Left: a server that answers with errors; an error line in answer
to a get is dropped as noise (Connection.cc:538), and the get is never completed.

## Not modelled

* `cmdline.cc` and `cmdline.h`: generated by gengetopt from `cmdline.ggo`; `Options` begins
  behind them.
* `gnuplot_i.c`, `gnuplot_i.h`, `log.cc`, `util.cc`, the printing in `ConnectionStats.h` and
  `mcperf.cc`: output, and helpers without state.
* `distributions.cc` and the drawing of random values: powers and logarithms of floating-point
  numbers; which values are drawn is a choice in `Connection`.
* `HistogramSampler.h`, `AdaptiveSampler.h`, `Protocol.cc`, `TestGenerator.cc`: not part of the
  build, or not used by it.
* Contents of requests, lengths and byte counts; the options of sockets and the name lookup.
