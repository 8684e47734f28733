----------------------------- MODULE MCThreads -----------------------------
(* The threads of the process for TLC: either the pool of worker threads   *)
(* moves, or one thread seen from inside, with the fibers it schedules.    *)
EXTENDS MCWorkerPool, Scheduler

VARIABLE inside  \* TRUE: one thread is seen from inside

ThreadsInit == Init /\ SchedInit /\ inside \in BOOLEAN

ThreadsNext ==
  /\ UNCHANGED inside
  /\ \/ ~inside /\ Next /\ UNCHANGED sched_vars
     \/ inside /\ SchedNext /\ UNCHANGED vars

ThreadsSpec ==
  /\ ThreadsInit /\ [][ThreadsNext]_<<vars, sched_vars, inside>>
  /\ WF_vars(Progress)
  /\ WF_sched_vars(inside /\ ThreadStep)
  /\ \A r \in Remotes : WF_sched_vars(inside /\ RemoteStep(r))
  /\ \A f \in WorkerFibers : WF_sched_vars(inside /\ time_passes(f))

=============================================================================
