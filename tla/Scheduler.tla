----------------------------- MODULE Scheduler -----------------------------
(***************************************************************************)
(* asyik_round_robin: how the fibers of one thread take turns, how other   *)
(* threads wake them, how request_stop() interrupts them, and the pool     *)
(* their stacks come from.  Boost's scheduler, which calls the algorithm,  *)
(* is external: its dispatcher is a fiber like any other, and the one that *)
(* puts the thread to sleep when nobody else is ready.                     *)
(***************************************************************************)
EXTENDS Naturals, Sequences, FiniteSets

CONSTANTS
  Main,        \* the fiber of the thread itself
  WorkerFibers,
  SchedDispatcher,
  Remotes,     \* other threads
  Stacks,      \* stacks mmap() can give
  NoStack

SchedFibers == WorkerFibers \cup {Main}

ASSUME SchedAssumption ==
  /\ Main \notin WorkerFibers /\ SchedDispatcher \notin SchedFibers
  /\ NoStack \notin Stacks

VARIABLES
  rqueue_,      \* the ready queue
  running,      \* the fiber that has the thread
  fs,           \* fs[f]: the state of a fiber, see FiberPlaces
  remote_ready, \* fibers that other threads have made ready
  due,          \* sleeping fibers whose time has come
  loop,         \* where the dispatcher is in its loop
  flag_, stopped_,
  signalled,    \* notify_all() has woken the waiting thread
  owes,         \* owes[r]: what thread r has still to do: flag, notify or nothing
  stack,        \* stack[f]
  free_list_

sched_vars == <<rqueue_, running, fs, remote_ready, due, loop, flag_, stopped_, signalled,
                owes, stack, free_list_>>
wake_vars == <<remote_ready, due, flag_, signalled, owes>>
stack_vars == <<stack, free_list_>>

\* woken: ready after a sleep, before sleep_for() has gone on; done: ended, but
\* its stack is still in use.
FiberPlaces == {"none", "ready", "woken", "running", "blocked", "sleeping", "remote", "done"}

SchedInit ==
  /\ rqueue_ = <<SchedDispatcher>> /\ running = Main
  /\ fs = [f \in SchedFibers |-> IF f = Main THEN "running" ELSE "none"]
  /\ remote_ready = <<>> /\ due = {} /\ loop = "release"
  /\ flag_ = FALSE /\ stopped_ = FALSE /\ signalled = FALSE
  /\ owes = [r \in Remotes |-> "nothing"]
  /\ stack = [f \in SchedFibers |-> NoStack] /\ free_list_ = {}

-----------------------------------------------------------------------------
(* The algorithm *)

awakened(q, f) == Append(q, f)

\* Mutant of pick_next: the youngest goes first.
pick_next_youngest(q) == [victim |-> q[Len(q)], rest |-> SubSeq(q, 1, Len(q) - 1)]

pick_next(q) == [victim |-> Head(q), rest |-> Tail(q)]

\* The running fiber f gives up the thread in state s; the dispatcher is in
\* the queue, so there is a next one.
GivesUp(f, s) ==
  LET n == pick_next(rqueue_)
  IN  /\ running' = n.victim
      /\ rqueue_' = IF s = "ready" THEN awakened(n.rest, f) ELSE n.rest
      /\ fs' = [g \in SchedFibers |->
                  IF g = f THEN s
                  ELSE IF g = n.victim /\ fs[g] = "ready" THEN "running" ELSE fs[g]]

-----------------------------------------------------------------------------
(* What a fiber does *)

Active(f) == running = f /\ fs[f] = "running"

yield(f) ==
  /\ Active(f)
  /\ GivesUp(f, "ready")
  /\ UNCHANGED <<wake_vars, loop, stopped_, stack_vars>>

\* It waits for a future, a channel or a mutex.
block(f) ==
  /\ Active(f)
  /\ GivesUp(f, "blocked")
  /\ UNCHANGED <<wake_vars, loop, stopped_, stack_vars>>

\* Does check_interrupt() throw in f?
check_interrupt(f) == stopped_ /\ f \in WorkerFibers

\* sleep_for(): the first check_interrupt(), then the sleep.
sleep_for(f) ==
  /\ Active(f)
  /\ GivesUp(f, IF check_interrupt(f) THEN "done" ELSE "sleeping")
  /\ UNCHANGED <<wake_vars, loop, stopped_, stack_vars>>

\* Mutant of sleep_returns: check_interrupt() is called before the sleep only.
sleep_returns_unchecked(f) ==
  /\ running = f /\ fs[f] = "woken"
  /\ fs' = [fs EXCEPT ![f] = "running"] /\ UNCHANGED <<rqueue_, running>>
  /\ UNCHANGED <<wake_vars, loop, stopped_, stack_vars>>

\* The second one; the exception ends the fiber.
sleep_returns(f) ==
  /\ running = f /\ fs[f] = "woken"
  /\ IF check_interrupt(f) THEN GivesUp(f, "done")
     ELSE fs' = [fs EXCEPT ![f] = "running"] /\ UNCHANGED <<rqueue_, running>>
  /\ UNCHANGED <<wake_vars, loop, stopped_, stack_vars>>

fiber_ends(f) ==
  /\ Active(f) /\ f \in WorkerFibers
  /\ GivesUp(f, "done")
  /\ UNCHANGED <<wake_vars, loop, stopped_, stack_vars>>

wakes(f, g) ==
  /\ Active(f) /\ fs[g] = "blocked"
  /\ fs' = [fs EXCEPT ![g] = "ready"] /\ rqueue_' = awakened(rqueue_, g)
  /\ UNCHANGED <<running, wake_vars, loop, stopped_, stack_vars>>

\* A stack from the free list, whose order is left open, or else a new one.
pop_or_mmap == IF free_list_ # {} THEN free_list_ ELSE Stacks \ {stack[f] : f \in SchedFibers}

\* Mutant of spawn: the stack is not popped from the free list.
spawn_keeping(f, g) ==
  /\ Active(f) /\ fs[g] = "none" /\ g \in WorkerFibers
  /\ \E s \in pop_or_mmap : stack' = [stack EXCEPT ![g] = s]
  /\ fs' = [fs EXCEPT ![g] = "ready"] /\ rqueue_' = awakened(rqueue_, g)
  /\ UNCHANGED <<running, wake_vars, loop, stopped_, free_list_>>

spawn(f, g) ==
  /\ Active(f) /\ fs[g] = "none" /\ g \in WorkerFibers
  /\ \E s \in pop_or_mmap :
       /\ stack' = [stack EXCEPT ![g] = s]
       /\ free_list_' = free_list_ \ {s}
  /\ fs' = [fs EXCEPT ![g] = "ready"] /\ rqueue_' = awakened(rqueue_, g)
  /\ UNCHANGED <<running, wake_vars, loop, stopped_>>

\* By run(), in the main fiber: nobody waits on the condition meanwhile.
request_stop ==
  /\ Active(Main) /\ ~stopped_
  /\ stopped_' = TRUE /\ flag_' = TRUE
  /\ UNCHANGED <<rqueue_, running, fs, remote_ready, due, loop, signalled, owes, stack_vars>>

-----------------------------------------------------------------------------
(* Other threads, and time *)

\* A fiber of this thread becomes ready: it is queued, then notify() is called.
remote_schedules(r, g) ==
  /\ owes[r] = "nothing" /\ fs[g] = "blocked"
  /\ fs' = [fs EXCEPT ![g] = "remote"]
  /\ remote_ready' = Append(remote_ready, g)
  /\ owes' = [owes EXCEPT ![r] = "flag"]
  /\ UNCHANGED <<rqueue_, running, due, loop, flag_, stopped_, signalled, stack_vars>>

notify_flag(r) ==
  /\ owes[r] = "flag"
  /\ flag_' = TRUE /\ owes' = [owes EXCEPT ![r] = "notify"]
  /\ UNCHANGED <<rqueue_, running, fs, remote_ready, due, loop, stopped_, signalled, stack_vars>>

notify_all(r) ==
  /\ owes[r] = "notify"
  /\ owes' = [owes EXCEPT ![r] = "nothing"]
  /\ signalled' = (loop = "waiting")
  /\ UNCHANGED <<rqueue_, running, fs, remote_ready, due, loop, flag_, stopped_, stack_vars>>

time_passes(f) ==
  /\ fs[f] = "sleeping" /\ f \notin due
  /\ due' = due \cup {f}
  /\ UNCHANGED <<rqueue_, running, fs, remote_ready, loop, flag_, stopped_, signalled, owes, stack_vars>>

-----------------------------------------------------------------------------
(* The dispatcher *)

Dispatches(from, to) == running = SchedDispatcher /\ loop = from /\ loop' = to

\* The stacks of the fibers that have ended go back to the pool.
release_terminated ==
  /\ Dispatches("release", "remote")
  /\ LET over == {f \in SchedFibers : fs[f] = "done"}
     IN  /\ fs' = [f \in SchedFibers |-> IF f \in over THEN "none" ELSE fs[f]]
         /\ stack' = [f \in SchedFibers |-> IF f \in over THEN NoStack ELSE stack[f]]
         /\ free_list_' = free_list_ \cup {stack[f] : f \in over}
  /\ UNCHANGED <<rqueue_, running, wake_vars, stopped_>>

remote_ready2ready ==
  /\ Dispatches("remote", "sleep")
  /\ rqueue_' = rqueue_ \o remote_ready /\ remote_ready' = <<>>
  /\ fs' = [f \in SchedFibers |-> IF fs[f] = "remote" THEN "ready" ELSE fs[f]]
  /\ UNCHANGED <<running, due, flag_, signalled, owes, stopped_, stack_vars>>

\* One by one, in the order of their deadlines.
sleep2ready ==
  \/ /\ Dispatches("sleep", "sleep")
     /\ \E f \in due :
          /\ due' = due \ {f} /\ rqueue_' = awakened(rqueue_, f)
          /\ fs' = [fs EXCEPT ![f] = "woken"]
     /\ UNCHANGED <<running, remote_ready, flag_, signalled, owes, stopped_, stack_vars>>
  \/ /\ Dispatches("sleep", "pick") /\ due = {}
     /\ UNCHANGED <<rqueue_, running, fs, wake_vars, stopped_, stack_vars>>

\* Somebody is ready and gets the thread, the dispatcher queues up; or the
\* thread is to sleep.
dispatch ==
  \/ /\ Dispatches("pick", "release") /\ rqueue_ # <<>>
     /\ GivesUp(SchedDispatcher, "ready")
     /\ UNCHANGED <<wake_vars, stopped_, stack_vars>>
  \/ /\ Dispatches("pick", "suspend") /\ rqueue_ = <<>>
     /\ UNCHANGED <<rqueue_, running, fs, wake_vars, stopped_, stack_vars>>

Awake ==
  /\ loop' = "release" /\ flag_' = FALSE /\ signalled' = FALSE
  /\ UNCHANGED <<rqueue_, running, fs, remote_ready, due, owes, stopped_, stack_vars>>

Asleep ==
  /\ loop' = "waiting" /\ signalled' = FALSE
  /\ UNCHANGED <<rqueue_, running, fs, remote_ready, due, flag_, owes, stopped_, stack_vars>>

\* Mutant of suspend_until: the flag is not looked at before the wait.
suspend_until_unchecked ==
  /\ running = SchedDispatcher
  /\ \/ loop = "suspend" /\ Asleep
     \/ loop = "waiting" /\ (signalled \/ due # {}) /\ Awake

\* Entered with the mutex held: the flag is looked at before the wait and
\* whenever a signal ends it; a deadline ends it as well.  Wake-ups without a
\* signal are left out: they could only end the wait earlier.
suspend_until ==
  /\ running = SchedDispatcher
  /\ \/ loop = "suspend" /\ (flag_ \/ due # {}) /\ Awake
     \/ loop = "suspend" /\ ~flag_ /\ due = {} /\ Asleep
     \/ loop = "waiting" /\ ((signalled /\ flag_) \/ due # {}) /\ Awake
     \/ loop = "waiting" /\ signalled /\ ~flag_ /\ due = {} /\ Asleep

-----------------------------------------------------------------------------
SchedFiberStep(f) ==
  \/ yield(f) \/ block(f) \/ sleep_for(f) \/ sleep_returns(f) \/ fiber_ends(f)
  \/ \E g \in SchedFibers : wakes(f, g) \/ spawn(f, g)

DispatcherStep ==
  release_terminated \/ remote_ready2ready \/ sleep2ready \/ dispatch \/ suspend_until

RemoteStep(r) == notify_flag(r) \/ notify_all(r)

SchedNext ==
  \/ \E f \in SchedFibers : SchedFiberStep(f) \/ time_passes(f)
  \/ request_stop
  \/ \E r \in Remotes : RemoteStep(r) \/ \E g \in SchedFibers : remote_schedules(r, g)
  \/ DispatcherStep

SchedSpec == SchedInit /\ [][SchedNext]_sched_vars

\* Fibers are cooperative: the running one gives up the thread sooner or
\* later.  Threads run, and time passes.
ThreadStep ==
  \/ \E f \in SchedFibers :
       yield(f) \/ block(f) \/ sleep_for(f) \/ sleep_returns(f) \/ fiber_ends(f)
  \/ DispatcherStep

SchedFairness ==
  /\ WF_sched_vars(ThreadStep)
  /\ \A r \in Remotes : WF_sched_vars(RemoteStep(r))
  /\ \A f \in WorkerFibers : WF_sched_vars(time_passes(f))

SchedFairSpec == SchedSpec /\ SchedFairness

-----------------------------------------------------------------------------
\* No wakeup is lost: while the thread waits in suspend_until() and a fiber
\* has been made ready by another thread, the wait is about to end, or that
\* thread has still to call notify().  It does not matter when the notice
\* comes: between the look at the queue and the mutex, or between the mutex
\* and the wait.
NoLostWakeup ==
  loop = "waiting" /\ remote_ready # <<>> =>
    (signalled /\ flag_) \/ \E r \in Remotes : owes[r] # "nothing"

\* A stack belongs to one fiber until the dispatcher has found that fiber
\* ended; only then can it be given to another one.
StacksApart ==
  /\ \A f, g \in SchedFibers : f # g /\ stack[f] = stack[g] => stack[f] = NoStack
  /\ \A f \in SchedFibers : stack[f] \notin free_list_
  /\ \A f \in WorkerFibers : fs[f] # "none" => stack[f] # NoStack

\* A fiber that another thread has made ready gets the thread, however busy
\* the others are: the queue is served in order, and the dispatcher is in it.
RemoteRuns == \A f \in SchedFibers : fs[f] = "remote" ~> running = f

\* "If request_stop() is called while fibers are suspended, they will throw the
\* next time they resume and reach a check_interrupt() call": a worker fiber
\* that sleeps when request_stop() is called ends, and does not go on to work.
StopEndsSleepers ==
  \A f \in WorkerFibers : stopped_ /\ fs[f] = "sleeping" ~> fs[f] \in {"done", "none"}

=============================================================================
