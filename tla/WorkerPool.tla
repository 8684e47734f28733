----------------------------- MODULE WorkerPool ----------------------------
(***************************************************************************)
(* service::async() and the process-wide pool of worker threads it starts  *)
(* on first use.  async() may be called by any thread, including a task    *)
(* that runs on a worker.  Each worker thread pops the tasks channel and   *)
(* runs every task as a fiber of its own; its fibers are cooperative, so   *)
(* only the fiber cur[w] steps until it suspends or ends.                  *)
(***************************************************************************)
EXTENDS Naturals, Sequences, FiniteSets

CONSTANTS
  Tasks,       \* calls of async()
  External,    \* the caller of an async() outside the pool
  Workers,     \* the threads of the pool
  Services,    \* service objects of the process
  Origin,      \* Origin[t]: the service whose async() is called
  None,
  Capacity,    \* slots of the tasks channel
  MaxNaps      \* how often the bodies suspend, in all, at most

ASSUME PoolAssumption ==
  /\ IsFiniteSet(Tasks) /\ External \notin Tasks
  /\ IsFiniteSet(Workers) /\ Workers # {}
  /\ None \notin Services \cup Workers \cup Tasks
  /\ Origin \in [Tasks -> Services]
  /\ Capacity \in Nat \ {0} /\ MaxNaps \in Nat

VARIABLES
  st,                 \* st[t]: where the call or its task is, see TaskStates
  parent,             \* parent[t]: the task that called async() for t, or External
  on,                 \* on[t]: the worker that popped t
  prev_as,            \* prev_as[t]: the local of the task's wrapper
  naps,               \* how often the bodies have suspended
  once,               \* the once_flag of init_workers
  channels,           \* how many channels init_workers has created
  workers_initiated,
  up,                 \* the worker threads that have been started
  queue,              \* the tasks channel
  cur,                \* cur[w]: the task whose fiber has thread w, or None
  active_service,     \* per worker thread
  async_queue_size, async_task_started, async_task_terminated, async_task_error

task_vars == <<parent, on, prev_as, naps>>
init_vars == <<once, channels, workers_initiated, up>>
stat_vars == <<async_task_started, async_task_terminated, async_task_error>>
vars == <<st, parent, on, prev_as, naps, once, channels, workers_initiated, up, queue,
          cur, active_service, async_queue_size, async_task_started,
          async_task_terminated, async_task_error>>

(***************************************************************************)
(* init .. push: inside async().  store, flag, spawn: inside the body of   *)
(* call_once.  calling: the task is inside async() itself; blocked: there, *)
(* and suspended because the channel is full.                              *)
(***************************************************************************)
InitStates == {"store", "flag", "spawn"}
FiberStates == {"running", "calling", "blocked", "suspended", "waiting"}
TaskStates == {"new", "init", "count", "push", "queued", "ready", "done"}
              \cup InitStates \cup FiberStates

Init ==
  /\ st = [t \in Tasks |-> "new"]
  /\ parent = [t \in Tasks |-> External]
  /\ on = [t \in Tasks |-> None]
  /\ prev_as = [t \in Tasks |-> None]
  /\ naps = 0
  /\ once = "idle" /\ channels = 0 /\ workers_initiated = FALSE /\ up = {}
  /\ queue = <<>>
  /\ cur = [w \in Workers |-> None]
  /\ active_service = [w \in Workers |-> None]
  /\ async_queue_size = 0
  /\ async_task_started = 0 /\ async_task_terminated = 0 /\ async_task_error = 0

HasThread(t) == st[t] = "running" /\ cur[on[t]] = t

-----------------------------------------------------------------------------
(* async() and init_workers() *)

\* async() is called by p; is_workers_initiated() is read.
async(p, t) ==
  /\ st[t] = "new"
  /\ p # External => p # t /\ HasThread(p)
  /\ LET first == IF workers_initiated THEN "count" ELSE "init"
     IN  st' = [s \in Tasks |-> CASE s = t -> first [] s = p -> "calling" [] OTHER -> st[s]]
  /\ parent' = [parent EXCEPT ![t] = p]
  /\ UNCHANGED <<on, prev_as, naps, init_vars, queue, cur, active_service, async_queue_size, stat_vars>>

\* Mutant of init_begin: no once_flag.
init_begin_again(t) ==
  /\ st[t] = "init"
  /\ once' = "running"
  /\ st' = [st EXCEPT ![t] = "store"]
  /\ UNCHANGED <<task_vars, channels, workers_initiated, up, queue, cur,
                 active_service, async_queue_size, stat_vars>>

\* call_once: the first caller runs the body ...
init_begin(t) ==
  /\ st[t] = "init" /\ once = "idle"
  /\ once' = "running"
  /\ st' = [st EXCEPT ![t] = "store"]
  /\ UNCHANGED <<task_vars, channels, workers_initiated, up, queue, cur,
                 active_service, async_queue_size, stat_vars>>

\* ... and the others return when it is over.
init_wait(t) ==
  /\ st[t] = "init" /\ once = "done"
  /\ st' = [st EXCEPT ![t] = "count"]
  /\ UNCHANGED <<task_vars, init_vars, queue, cur, active_service,
                 async_queue_size, stat_vars>>

\* The body: create the channel, raise the flag, start the threads.
init_store(t) ==
  /\ st[t] = "store"
  /\ channels' = channels + 1
  /\ st' = [st EXCEPT ![t] = "flag"]
  /\ UNCHANGED <<task_vars, once, workers_initiated, up, queue, cur,
                 active_service, async_queue_size, stat_vars>>

init_flag(t) ==
  /\ st[t] = "flag"
  /\ workers_initiated' = TRUE
  /\ st' = [st EXCEPT ![t] = "spawn"]
  /\ UNCHANGED <<task_vars, once, channels, up, queue, cur, active_service,
                 async_queue_size, stat_vars>>

init_spawn(t) ==
  /\ st[t] = "spawn"
  /\ \E w \in Workers \ up : up' = up \cup {w}
  /\ IF up' = Workers
     THEN once' = "done" /\ st' = [st EXCEPT ![t] = "count"]
     ELSE UNCHANGED <<once, st>>
  /\ UNCHANGED <<task_vars, channels, workers_initiated, queue, cur,
                 active_service, async_queue_size, stat_vars>>

\* tasks is loaded and async_queue_size counts the task before it is pushed.
count(t) ==
  /\ st[t] = "count"
  /\ async_queue_size' = async_queue_size + 1
  /\ st' = [st EXCEPT ![t] = "push"]
  /\ UNCHANGED <<task_vars, init_vars, queue, cur, active_service, stat_vars>>

\* push() finds a slot, or is woken because there is one; async() returns.
push(t) ==
  LET p == parent[t]
  IN  /\ st[t] = "push"
      /\ Len(queue) < Capacity
      /\ queue' = Append(queue, t)
      /\ \/ /\ p = External
            /\ st' = [st EXCEPT ![t] = "queued"]
            /\ UNCHANGED cur
         \/ /\ p # External
            /\ cur[on[p]] \in IF st[p] = "blocked" THEN {None} ELSE {p}
            /\ st' = [st EXCEPT ![t] = "queued", ![p] = "running"]
            /\ cur' = [cur EXCEPT ![on[p]] = p]
      /\ UNCHANGED <<task_vars, init_vars, active_service, async_queue_size, stat_vars>>

\* A fiber that calls async() while the channel is full is suspended.
push_blocks(t) ==
  LET p == parent[t]
  IN  /\ st[t] = "push" /\ Len(queue) = Capacity
      /\ p # External /\ st[p] = "calling"
      /\ st' = [st EXCEPT ![p] = "blocked"]
      /\ cur' = [cur EXCEPT ![on[p]] = None]
      /\ UNCHANGED <<task_vars, init_vars, queue, active_service,
                     async_queue_size, stat_vars>>

-----------------------------------------------------------------------------
(* The worker threads *)

\* Mutant of pop: the task runs in the main fiber of the worker, which pops
\* no other task until it has ended.
pop_inline(w) ==
  /\ w \in up /\ cur[w] = None /\ queue # <<>>
  /\ IF \E t \in Tasks : on[t] = w /\ st[t] # "done"
     THEN UNCHANGED vars
     ELSE /\ queue' = Tail(queue)
          /\ async_queue_size' = async_queue_size - 1
          /\ st' = [st EXCEPT ![Head(queue)] = "ready"]
          /\ on' = [on EXCEPT ![Head(queue)] = w]
          /\ UNCHANGED <<parent, prev_as, naps, init_vars, cur, active_service, stat_vars>>

\* The worker's main fiber pops a task and makes a detached fiber for it.
pop(w) ==
  /\ w \in up /\ cur[w] = None /\ queue # <<>>
  /\ queue' = Tail(queue)
  /\ async_queue_size' = async_queue_size - 1
  /\ st' = [st EXCEPT ![Head(queue)] = "ready"]
  /\ on' = [on EXCEPT ![Head(queue)] = w]
  /\ UNCHANGED <<parent, prev_as, naps, init_vars, cur, active_service, stat_vars>>

\* The fiber starts; the wrapper saves and sets active_service.
start(t) ==
  /\ st[t] = "ready" /\ cur[on[t]] = None
  /\ async_task_started' = async_task_started + 1
  /\ prev_as' = [prev_as EXCEPT ![t] = active_service[on[t]]]
  /\ active_service' = [active_service EXCEPT ![on[t]] = Origin[t]]
  /\ st' = [st EXCEPT ![t] = "running"]
  /\ cur' = [cur EXCEPT ![on[t]] = t]
  /\ UNCHANGED <<parent, on, naps, init_vars, queue, async_queue_size, async_task_terminated,
                 async_task_error>>

Leave(t, s) ==
  /\ HasThread(t)
  /\ st' = [st EXCEPT ![t] = s]
  /\ cur' = [cur EXCEPT ![on[t]] = None]
  /\ UNCHANGED <<parent, on, init_vars, queue, async_queue_size>>

\* The body sleeps, locks a mutex, ...
suspend(t) ==
  /\ naps < MaxNaps
  /\ naps' = naps + 1
  /\ Leave(t, "suspended")
  /\ UNCHANGED <<prev_as, active_service, stat_vars>>

\* The body waits for the futures of the tasks it started.
Children(t) == {c \in Tasks : parent[c] = t}

wait(t) ==
  /\ \E c \in Children(t) : st[c] # "done"
  /\ Leave(t, "waiting")
  /\ UNCHANGED <<prev_as, naps, active_service, stat_vars>>

resume(t) ==
  /\ \/ st[t] = "suspended"
     \/ st[t] = "waiting" /\ \A c \in Children(t) : st[c] = "done"
  /\ cur[on[t]] = None
  /\ st' = [st EXCEPT ![t] = "running"]
  /\ cur' = [cur EXCEPT ![on[t]] = t]
  /\ UNCHANGED <<task_vars, init_vars, queue, active_service, async_queue_size,
                 stat_vars>>

\* Mutant of finish: an exception leaves the fiber before it is counted.
finish_throwing(t, error) ==
  /\ Leave(t, "done")
  /\ async_task_error' = async_task_error + (IF error THEN 1 ELSE 0)
  /\ active_service' = [active_service EXCEPT ![on[t]] = prev_as[t]]
  /\ async_task_terminated' = async_task_terminated + (IF error THEN 0 ELSE 1)
  /\ UNCHANGED <<prev_as, naps, async_task_started>>

\* The body returns or throws; the promise is set and the wrapper returns.
finish(t, error) ==
  /\ Leave(t, "done")
  /\ async_task_error' = async_task_error + (IF error THEN 1 ELSE 0)
  /\ active_service' = [active_service EXCEPT ![on[t]] = prev_as[t]]
  /\ async_task_terminated' = async_task_terminated + 1
  /\ UNCHANGED <<prev_as, naps, async_task_started>>

\* Nobody calls async() any more.
Done ==
  /\ \A t \in Tasks : st[t] \in {"new", "done"}
  /\ UNCHANGED vars

InsideAsync(t) ==
  \/ init_begin(t) \/ init_wait(t) \/ init_store(t) \/ init_flag(t) \/ init_spawn(t)
  \/ count(t) \/ push(t) \/ push_blocks(t)

Finish(t) == \E error \in BOOLEAN : finish(t, error)

\* What threads and fibers do by themselves once async() has been called.
Progress ==
  \/ \E t \in Tasks :
       \/ InsideAsync(t)
       \/ start(t) \/ suspend(t) \/ wait(t) \/ resume(t) \/ Finish(t)
  \/ \E w \in Workers : pop(w)

Next ==
  \/ \E p \in Tasks \cup {External}, t \in Tasks : async(p, t)
  \/ Progress
  \/ Done

Spec == Init /\ [][Next]_vars

\* Some thread that can go on goes on.  No more is needed: bodies suspend
\* MaxNaps times at most, so every behaviour runs out of steps.
FairSpec == Spec /\ WF_vars(Progress)

-----------------------------------------------------------------------------
TypeOK ==
  /\ st \in [Tasks -> TaskStates]
  /\ parent \in [Tasks -> Tasks \cup {External}]
  /\ on \in [Tasks -> Workers \cup {None}]
  /\ prev_as \in [Tasks -> Services \cup {None}]
  /\ naps \in 0..MaxNaps
  /\ once \in {"idle", "running", "done"}
  /\ channels \in Nat /\ workers_initiated \in BOOLEAN /\ up \subseteq Workers
  /\ queue \in Seq(Tasks) /\ Len(queue) <= Capacity
  /\ cur \in [Workers -> Tasks \cup {None}]
  /\ active_service \in [Workers -> Services \cup {None}]
  /\ {async_queue_size, async_task_started, async_task_terminated, async_task_error} \subseteq Nat

\* Whatever threads call async() first at the same time, one channel and one
\* pool are created, and nobody gets past is_workers_initiated() before the
\* channel is there.
OnePool ==
  /\ channels <= 1
  /\ \A t \in Tasks : st[t] \notin {"new", "init", "store"} => channels = 1
  /\ workers_initiated => channels = 1

\* get_async_stats() adds up at every moment: the queue size is the number of
\* tasks handed over and not popped (it is counted before the push, so the
\* unsigned counter cannot go below zero), and started minus terminated is
\* the number of tasks inside their body, whether bodies return or throw.
StatsExact ==
  /\ TypeOK
  /\ async_queue_size = Cardinality({t \in Tasks : st[t] \in {"push", "queued"}})
  /\ async_task_started = async_task_terminated
                          + Cardinality({t \in Tasks : st[t] \in FiberStates})
  /\ async_task_error <= async_task_terminated

\* Every async() gets its result, also when tasks wait for tasks they started
\* and when the channel is full: fibers wait, threads do not.
AsyncResolved == \A t \in Tasks : st[t] # "new" ~> st[t] = "done"

\* "You can get the originated asyik::service that the asynchronous tasks are
\* dispatcher from": while a task runs, get_current_service() is its service.
CurrentServiceIsOrigin ==
  \A t \in Tasks : HasThread(t) => active_service[on[t]] = Origin[t]

=============================================================================
