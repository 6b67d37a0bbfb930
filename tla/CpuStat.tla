------------------------------- MODULE CpuStat -------------------------------
(***************************************************************************)
(* The thread that samples the CPU load (src/cpu_stat_thread.cc), with the *)
(* two flags by which main steers it and the structure it leaves its       *)
(* findings in.                                                            *)
(*                                                                         *)
(* get_cpu_load returns 0 before it reads anything (line 28), so the path  *)
(* for a load that cannot be determined is never taken, and of minimum,    *)
(* maximum, average and their count only matters whether they were written.*)
(***************************************************************************)
VARIABLES
  cpu,              \* where the thread is
  g_stop,           \* g_stop_cpu_stats
  g_reset,          \* g_reset_cpu_stats
  published         \* max, min and avg of cpu_info_t were written

cpuVars == <<cpu, g_stop, g_reset, published>>

CpuPoints == {"none", "created", "first", "sampling", "returned"}

CpuIdle ==
  /\ cpu = "none"
  /\ g_stop = FALSE
  /\ g_reset = FALSE
  /\ published = FALSE

CpuType ==
  /\ cpu \in CpuPoints
  /\ g_stop \in BOOLEAN
  /\ g_reset \in BOOLEAN
  /\ published \in BOOLEAN

\* pthread_create; the structure is a local variable of main.
CpuCreate ==
  /\ cpu = "none"
  /\ cpu' = "created"
  /\ UNCHANGED <<g_stop, g_reset, published>>

\* The thread runs: a request to stop made before is forgotten.
CpuBegin ==
  /\ cpu = "created"
  /\ cpu' = "first"
  /\ g_stop' = FALSE
  /\ UNCHANGED <<g_reset, published>>

\* The first load only sets the bounds.
CpuFirst ==
  /\ cpu = "first"
  /\ cpu' = "sampling"
  /\ UNCHANGED <<g_stop, g_reset, published>>

\* What makes the thread leave its loop.
StopSeen_Reset == g_stop /\ g_reset
StopSeen == g_stop

\* After every period the thread looks whether it has to stop, and else takes
\* a sample, the first one of a new series when that was requested.
CpuSample ==
  /\ cpu = "sampling"
  /\ ~StopSeen
  /\ g_reset' = FALSE
  /\ published' = TRUE
  /\ UNCHANGED <<cpu, g_stop>>

CpuReturn ==
  /\ cpu = "sampling"
  /\ StopSeen
  /\ cpu' = "returned"
  /\ UNCHANGED <<g_stop, g_reset, published>>

CpuThread == CpuBegin \/ CpuFirst \/ CpuSample \/ CpuReturn

\* stop_cpu_stats and reset_cpu_stats.
CpuRequestStop == g_stop' = TRUE /\ UNCHANGED <<cpu, g_reset, published>>
CpuRequestReset == g_reset' = TRUE /\ UNCHANGED <<cpu, g_stop, published>>
=============================================================================
