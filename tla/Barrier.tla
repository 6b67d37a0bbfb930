------------------------------- MODULE Barrier -------------------------------
(***************************************************************************)
(* The barrier the threads of a process meet at: src/barrier.cc, which     *)
(* stands in for pthread_barrier_t where the system has none, and which    *)
(* behaves as the real one as long as nobody wakes up without a broadcast. *)
(*                                                                         *)
(* All of barrier_wait but the wait on the condition variable runs under   *)
(* the mutex, so it is two steps: coming in, and getting the mutex back.   *)
(***************************************************************************)
EXTENDS Integers

VARIABLES
  needed,   \* how many threads the barrier was made for
  called,   \* how many of them have come in since it last opened
  waiting,  \* the threads in pthread_cond_wait
  leaving   \* the threads that have yet to take the mutex and return

barrierVars == <<needed, called, waiting, leaving>>

Inside == waiting \union leaving

BarrierIdle(n) ==
  /\ needed = n
  /\ called = 0
  /\ waiting = {}
  /\ leaving = {}

BarrierInit(n) ==
  /\ needed' = n
  /\ called' = 0
  /\ waiting' = {}
  /\ leaving' = {}

BarrierType(threads) ==
  /\ needed \in Nat
  /\ called \in Nat
  /\ waiting \subseteq threads
  /\ leaving \subseteq threads

IsLast_Early == called + 2 >= needed
IsLast == called + 1 = needed

\* Coming in while others are still to come.
BarrierWait(t) ==
  /\ t \notin Inside
  /\ ~IsLast
  /\ called' = called + 1
  /\ waiting' = waiting \union {t}
  /\ UNCHANGED <<needed, leaving>>

\* The last one starts a new count and wakes the others.
BarrierOpen(t) ==
  /\ t \notin Inside
  /\ IsLast
  /\ called' = 0
  /\ leaving' = leaving \union waiting \union {t}
  /\ waiting' = {}
  /\ UNCHANGED needed

\* Back out of barrier_wait.  A thread may be gone and back at the barrier
\* before one that was woken with it has the mutex.
BarrierReturn(t) ==
  /\ t \in leaving
  /\ leaving' = leaving \ {t}
  /\ UNCHANGED <<needed, called, waiting>>

=============================================================================
