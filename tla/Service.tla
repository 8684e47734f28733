------------------------------ MODULE Service ------------------------------
(***************************************************************************)
(* asyik::service: execute(), stop() and run().  One OS thread runs the    *)
(* main fiber (service::run), the dispatcher fiber that pops the execute   *)
(* channel, and one fiber per dispatched task.  Fibers are cooperative:    *)
(* between two suspension points only other OS threads can step, so the    *)
(* dispatcher holds the thread while disp = "loop" and the main fiber      *)
(* while run_pc = "close".                                                 *)
(*                                                                         *)
(* What the tasks compute is abstracted: the body of a task may sleep,     *)
(* wait for an Asio operation, execute() another task, wait for the future *)
(* of a task it submitted, or finish.                                      *)
(***************************************************************************)
EXTENDS Naturals, Sequences, FiniteSets

CONSTANTS
  Tasks,      \* callables that may be passed to execute()
  StopTasks,  \* those that stop() submits: their body only sets stopped
  Capacity,   \* slots of the execute_tasks channel (1024 in the constructor)
  External    \* the submitter of tasks pushed from outside the service thread

ASSUME TasksAssumption ==
  /\ IsFiniteSet(Tasks)
  /\ StopTasks \subseteq Tasks
  /\ External \notin Tasks
  /\ Capacity \in Nat \ {0}

VARIABLES
  st,                  \* st[t]: where task t is, see TaskStates
  parent,              \* parent[t]: the task whose body submitted t, or External
  on,                  \* on[t]: the task whose future t waits for when st[t] = "waiting"
  queue, closed,       \* the execute_tasks channel
  execute_task_count,
  active_fiber_count,
  stopped,
  stop_on_complete,    \* the argument of run()
  run_pc,              \* the main fiber's place in run()
  disp,                \* the dispatcher fiber
  sched_stop,          \* asyik_round_robin::stopped_ of the service thread
  io_stopped           \* io_context::stopped()

task_vars == <<st, parent, on>>
chan_vars == <<queue, closed>>
main_vars == <<stop_on_complete, run_pc, sched_stop>>
vars == <<st, parent, on, queue, closed, execute_task_count,
          active_fiber_count, stopped, stop_on_complete, run_pc, disp,
          sched_stop, io_stopped>>

(***************************************************************************)
(* new: not submitted.  pushing: execute() counted it and is inside push.  *)
(* queued: in the channel.  rejected: the channel was closed, the promise  *)
(* died with the callable.  ready: its fiber exists and has not run yet.   *)
(* running .. io_done: its fiber is inside the body.  returned: the        *)
(* promise is set, the captures are alive.  released: tsk_in = {} is done. *)
(* gone: the guard has decremented active_fiber_count.                     *)
(***************************************************************************)
BodyStates == {"ready", "running", "sleeping", "waiting", "io_pending", "io_done"}
CaptureStates == BodyStates \cup {"returned"}
FiberStates == CaptureStates \cup {"released"}
CountedStates == {"pushing", "queued", "rejected"} \cup BodyStates
TaskStates == {"new", "gone"} \cup CountedStates \cup FiberStates

\* loop: the main fiber is suspended inside the run loop.  close: it has left
\* the loop and has not closed the channel yet.
RunStates == {"before", "loop", "close", "phase1", "join", "graceful", "force",
              "flush", "returned"}

Init ==
  /\ st = [t \in Tasks |-> "new"]
  /\ parent = [t \in Tasks |-> External]
  /\ on = [t \in Tasks |-> External]
  /\ queue = <<>>
  /\ closed = FALSE
  /\ execute_task_count = 0
  /\ active_fiber_count = 0
  /\ stopped = FALSE
  /\ stop_on_complete = FALSE
  /\ run_pc = "before"
  /\ disp = "none"
  /\ sched_stop = FALSE
  /\ io_stopped = FALSE

\* The service thread is free to resume another fiber.
ThreadFree == disp # "loop" /\ run_pc \notin {"before", "close", "returned"}

\* Task fibers resume only while run() schedules them.
Resumable(t) == ThreadFree /\ ~\E c \in Tasks : st[c] = "pushing" /\ parent[c] = t

\* The future of t has a value, an exception or a broken promise.
Resolved(t) == st[t] \in {"rejected", "returned", "released", "gone"}

-----------------------------------------------------------------------------
(***************************************************************************)
(* execute()                                                               *)
(***************************************************************************)

\* What push does at once: fails on a closed channel, blocks on a full one.
PushOutcome == IF closed THEN "rejected"
               ELSE IF Len(queue) < Capacity THEN "queued"
               ELSE "pushing"

\* execute() from another thread: the count is raised, push is a later step.
ExternalExecute(t) ==
  /\ st[t] = "new"
  /\ execute_task_count' = execute_task_count + 1
  /\ st' = [st EXCEPT ![t] = "pushing"]
  /\ UNCHANGED <<parent, on, queue, closed, active_fiber_count, stopped,
                 stop_on_complete, run_pc, disp, sched_stop, io_stopped>>

\* execute() from the body of s: count and push without a suspension in
\* between, unless the channel is full.
FiberExecute(s, t) ==
  /\ st[s] = "running" /\ Resumable(s)
  /\ st[t] = "new"
  /\ execute_task_count' = execute_task_count + 1
  /\ st' = [st EXCEPT ![t] = PushOutcome]
  /\ parent' = [parent EXCEPT ![t] = s]
  /\ queue' = IF PushOutcome = "queued" THEN Append(queue, t) ELSE queue
  /\ UNCHANGED <<on, closed, active_fiber_count, stopped, stop_on_complete,
                 run_pc, disp, sched_stop, io_stopped>>

\* A push that another thread has begun, or that waited for a free slot.
Push(t) ==
  /\ st[t] = "pushing"
  /\ PushOutcome # "pushing"
  /\ parent[t] \in Tasks => ThreadFree
  /\ st' = [st EXCEPT ![t] = PushOutcome]
  /\ queue' = IF PushOutcome = "queued" THEN Append(queue, t) ELSE queue
  /\ UNCHANGED <<parent, on, closed, execute_task_count, active_fiber_count,
                 stopped, main_vars, disp, io_stopped>>

-----------------------------------------------------------------------------
(***************************************************************************)
(* The dispatcher fiber                                                    *)
(***************************************************************************)

\* The fiber is scheduled for the first time.
DispatcherStart ==
  /\ disp = "ready" /\ ThreadFree
  /\ disp' = "loop"
  /\ UNCHANGED <<task_vars, chan_vars, execute_task_count, active_fiber_count,
                 stopped, main_vars, io_stopped>>

\* pop() returned a task: count its fiber and post it.  Woken inside pop, the
\* dispatcher does not look at stopped again before it dispatches.
Dispatch ==
  /\ \/ disp = "loop" /\ ~stopped
     \/ disp = "blocked" /\ ThreadFree
  /\ queue # <<>>
  /\ active_fiber_count' = active_fiber_count + 1
  /\ st' = [st EXCEPT ![Head(queue)] = "ready"]
  /\ queue' = Tail(queue)
  /\ disp' = "loop"
  /\ UNCHANGED <<parent, on, closed, execute_task_count, stopped, main_vars,
                 io_stopped>>

\* pop() on an empty open channel suspends the dispatcher.
DispatcherBlock ==
  /\ disp = "loop" /\ ~stopped
  /\ queue = <<>> /\ ~closed
  /\ disp' = "blocked"
  /\ UNCHANGED <<task_vars, chan_vars, execute_task_count, active_fiber_count,
                 stopped, main_vars, io_stopped>>

\* Mutant: a closed channel ends the loop although tasks are left in it.
DispatcherExitUndrained ==
  /\ \/ disp = "loop" /\ (stopped \/ closed)
     \/ disp = "blocked" /\ ThreadFree /\ closed
  /\ disp' = "exited"
  /\ UNCHANGED <<task_vars, chan_vars, execute_task_count, active_fiber_count,
                 stopped, main_vars, io_stopped>>

\* The loop ends on stopped, or when pop() reports closed: empty and closed.
DispatcherExit ==
  /\ \/ disp = "loop" /\ (stopped \/ (queue = <<>> /\ closed))
     \/ disp = "blocked" /\ ThreadFree /\ queue = <<>> /\ closed
  /\ disp' = "exited"
  /\ UNCHANGED <<task_vars, chan_vars, execute_task_count, active_fiber_count,
                 stopped, main_vars, io_stopped>>

-----------------------------------------------------------------------------
(***************************************************************************)
(* Task fibers                                                             *)
(***************************************************************************)

\* Mutant: the count does not drop.
FinishedStillCounted(t) ==
  /\ UNCHANGED execute_task_count
  /\ st' = [st EXCEPT ![t] = "returned"]

\* The body has returned or thrown: the promise is set, the count drops.
Finished(t) ==
  /\ execute_task_count' = execute_task_count - 1
  /\ st' = [st EXCEPT ![t] = "returned"]

FiberStart(t) ==
  /\ st[t] = "ready" /\ ThreadFree /\ t \notin StopTasks
  /\ st' = [st EXCEPT ![t] = "running"]
  /\ UNCHANGED <<parent, on, chan_vars, execute_task_count,
                 active_fiber_count, stopped, main_vars, disp, io_stopped>>

\* The body of a task submitted by stop().
RunStop(t) ==
  /\ st[t] = "ready" /\ ThreadFree /\ t \in StopTasks
  /\ stopped' = TRUE
  /\ Finished(t)
  /\ UNCHANGED <<parent, on, chan_vars, active_fiber_count, main_vars, disp,
                 io_stopped>>

\* sleep_for: check_interrupt comes before the fiber suspends ...
Sleep(t) ==
  /\ st[t] = "running" /\ Resumable(t) /\ ~sched_stop
  /\ st' = [st EXCEPT ![t] = "sleeping"]
  /\ UNCHANGED <<parent, on, chan_vars, execute_task_count,
                 active_fiber_count, stopped, main_vars, disp, io_stopped>>

\* ... and again after it resumed.
Wake(t) ==
  /\ st[t] = "sleeping" /\ ThreadFree /\ ~sched_stop
  /\ st' = [st EXCEPT ![t] = "running"]
  /\ UNCHANGED <<parent, on, chan_vars, execute_task_count,
                 active_fiber_count, stopped, main_vars, disp, io_stopped>>

\* Either check throws service_terminated_error and the body unwinds.
Interrupted(t) ==
  /\ sched_stop
  /\ \/ st[t] = "sleeping" /\ ThreadFree
     \/ st[t] = "running" /\ Resumable(t)
  /\ Finished(t)
  /\ UNCHANGED <<parent, on, chan_vars, active_fiber_count, stopped,
                 main_vars, disp, io_stopped>>

\* future.get() on a task this body submitted; it is no interruption point.
Wait(t, u) ==
  /\ st[t] = "running" /\ Resumable(t)
  /\ parent[u] = t
  /\ ~Resolved(u)
  /\ st' = [st EXCEPT ![t] = "waiting"]
  /\ on' = [on EXCEPT ![t] = u]
  /\ UNCHANGED <<parent, chan_vars, execute_task_count, active_fiber_count,
                 stopped, main_vars, disp, io_stopped>>

\* The future became ready.
Resume(t) ==
  /\ st[t] = "waiting" /\ ThreadFree
  /\ on[t] \in Tasks /\ Resolved(on[t])
  /\ st' = [st EXCEPT ![t] = "running"]
  /\ on' = [on EXCEPT ![t] = External]
  /\ UNCHANGED <<parent, chan_vars, execute_task_count, active_fiber_count,
                 stopped, main_vars, disp, io_stopped>>

\* The body starts an Asio operation and waits for its completion handler.
StartIo(t) ==
  /\ st[t] = "running" /\ Resumable(t)
  /\ st' = [st EXCEPT ![t] = "io_pending"]
  /\ UNCHANGED <<parent, on, chan_vars, execute_task_count,
                 active_fiber_count, stopped, main_vars, disp, io_stopped>>

\* The kernel finishes the operation; poll() still has to run its handler.
IoCompletes(t) ==
  /\ st[t] = "io_pending"
  /\ st' = [st EXCEPT ![t] = "io_done"]
  /\ UNCHANGED <<parent, on, chan_vars, execute_task_count,
                 active_fiber_count, stopped, main_vars, disp, io_stopped>>

Finish(t) ==
  /\ st[t] = "running" /\ Resumable(t)
  /\ Finished(t)
  /\ UNCHANGED <<parent, on, chan_vars, active_fiber_count, stopped,
                 main_vars, disp, io_stopped>>

\* tsk_in = {}: the captured objects are destroyed, which may suspend.
Release(t) ==
  /\ st[t] = "returned" /\ ThreadFree
  /\ st' = [st EXCEPT ![t] = "released"]
  /\ UNCHANGED <<parent, on, chan_vars, execute_task_count,
                 active_fiber_count, stopped, main_vars, disp, io_stopped>>

\* ~FiberGuard.
GuardExit(t) ==
  /\ st[t] = "released" /\ ThreadFree
  /\ st' = [st EXCEPT ![t] = "gone"]
  /\ active_fiber_count' = active_fiber_count - 1
  /\ UNCHANGED <<parent, on, chan_vars, execute_task_count, stopped,
                 main_vars, disp, io_stopped>>

-----------------------------------------------------------------------------
(***************************************************************************)
(* The main fiber: run().  A poll() runs the handlers of every finished    *)
(* operation and stops the io_context when no operation is left; polling a *)
(* stopped io_context does nothing until restart().                        *)
(***************************************************************************)

\* poll() when io_context::stopped() is io.
PollFrom(io) ==
  IF io
  THEN UNCHANGED <<st, io_stopped>>
  ELSE /\ st' = [t \in Tasks |-> IF st[t] = "io_done" THEN "running" ELSE st[t]]
       /\ io_stopped' = ~\E t \in Tasks : st[t] = "io_pending"

\* Mutant: a stopped io_context is not restarted.
DrainPollStopped == PollFrom(io_stopped)

\* drain_poll: restart() if stopped, then poll().
DrainPoll == PollFrom(FALSE)

StartRun ==
  /\ run_pc = "before"
  /\ run_pc' = "loop"
  /\ stop_on_complete' \in BOOLEAN
  /\ disp' = "ready"
  /\ UNCHANGED <<task_vars, chan_vars, execute_task_count, active_fiber_count,
                 stopped, sched_stop, io_stopped>>

\* Mutant: run(true) looks at the fibers instead of the submitted tasks.
LoopDoneNoFiber == stopped \/ (stop_on_complete /\ active_fiber_count = 0)

LoopDone == stopped \/ (stop_on_complete /\ execute_task_count = 0)

\* One turn of the run loop; the previous turn ended with restart().
LoopPoll ==
  /\ run_pc = "loop" /\ ThreadFree /\ ~LoopDone
  /\ PollFrom(FALSE)
  /\ UNCHANGED <<parent, on, chan_vars, execute_task_count,
                 active_fiber_count, stopped, main_vars, disp>>

LoopExit ==
  /\ run_pc = "loop" /\ ThreadFree /\ LoopDone
  /\ run_pc' = "close"
  /\ UNCHANGED <<task_vars, chan_vars, execute_task_count, active_fiber_count,
                 stopped, stop_on_complete, disp, sched_stop, io_stopped>>

\* Mutant: the channel stays open.
CloseForgotten ==
  /\ run_pc = "close"
  /\ run_pc' = "phase1"
  /\ UNCHANGED <<task_vars, chan_vars, execute_task_count, active_fiber_count,
                 stopped, stop_on_complete, disp, sched_stop, io_stopped>>

\* execute_tasks->close()
Close ==
  /\ run_pc = "close"
  /\ closed' = TRUE
  /\ run_pc' = "phase1"
  /\ UNCHANGED <<task_vars, queue, execute_task_count, active_fiber_count,
                 stopped, stop_on_complete, disp, sched_stop, io_stopped>>

\* One turn of any of the drain loops: drain_poll() and yield().
DrainTurn ==
  /\ \/ run_pc \in {"phase1", "flush"}
     \/ run_pc \in {"graceful", "force"} /\ active_fiber_count > 0
  /\ ThreadFree
  /\ DrainPoll
  /\ UNCHANGED <<parent, on, chan_vars, execute_task_count,
                 active_fiber_count, stopped, main_vars, disp>>

\* The main fiber moves on inside run() from one phase to the next.
Advance(from, to) ==
  /\ run_pc = from /\ ThreadFree
  /\ run_pc' = to
  /\ UNCHANGED <<task_vars, chan_vars, execute_task_count, active_fiber_count,
                 stopped, stop_on_complete, disp, io_stopped>>

\* The 200 turns of phase 1 are over; fb.join() suspends the main fiber.
Phase1End == Advance("phase1", "join") /\ UNCHANGED sched_stop

\* Mutant: the dispatcher is not joined.
JoinedEarly == Advance("join", "graceful") /\ UNCHANGED sched_stop

\* fb.join() returns.
Joined == disp = "exited" /\ Advance("join", "graceful") /\ UNCHANGED sched_stop

\* Every fiber has exited: phase 2b is skipped, or its loop ends.
GracefulDone ==
  active_fiber_count = 0 /\ Advance("graceful", "flush") /\ UNCHANGED sched_stop

ForceDone ==
  active_fiber_count = 0 /\ Advance("force", "flush") /\ UNCHANGED sched_stop

\* 500 ms have passed: request_stop() and wait again.
GracefulDeadline ==
  active_fiber_count > 0 /\ Advance("graceful", "force") /\ sched_stop' = TRUE

\* 500 ms more: forced exit.
ForceDeadline ==
  active_fiber_count > 0 /\ Advance("force", "flush") /\ UNCHANGED sched_stop

\* The 20 turns of the final flush are over and run() returns.
RunReturn == Advance("flush", "returned") /\ UNCHANGED sched_stop

\* run() has returned and no other thread has a push to finish.
Terminated == run_pc = "returned" /\ UNCHANGED vars

-----------------------------------------------------------------------------
Dispatcher == DispatcherStart \/ Dispatch \/ DispatcherBlock \/ DispatcherExit

FiberStep(t) ==
  \/ FiberStart(t) \/ RunStop(t)
  \/ Sleep(t) \/ Wake(t) \/ Interrupted(t)
  \/ Resume(t) \/ StartIo(t) \/ Finish(t)
  \/ Release(t) \/ GuardExit(t)
  \/ \E u \in Tasks : FiberExecute(t, u) \/ Wait(t, u)

Deadline == GracefulDeadline \/ ForceDeadline

MainStep ==
  \/ LoopPoll \/ LoopExit \/ Close \/ DrainTurn \/ Phase1End \/ Joined
  \/ GracefulDone \/ ForceDone \/ RunReturn

Next ==
  \/ StartRun \/ MainStep \/ Deadline \/ Dispatcher \/ Terminated
  \/ \E t \in Tasks : ExternalExecute(t) \/ Push(t) \/ FiberStep(t) \/ IoCompletes(t)

Spec == Init /\ [][Next]_vars

-----------------------------------------------------------------------------
(***************************************************************************)
(* Fairness.  The scheduler is round-robin, so every fiber that is ready   *)
(* resumes; other threads finish the pushes they began.  Bodies owe no     *)
(* progress: a task may sleep, wait or do I/O forever.                     *)
(***************************************************************************)
SchedulerFairness ==
  /\ WF_vars(MainStep)
  /\ WF_vars(Phase1End)
  /\ WF_vars(Dispatcher)
  /\ \A t \in Tasks : WF_vars(Push(t)) /\ WF_vars(RunStop(t))

\* The clock reaches the deadlines and the flush is 20 turns long.
ClockFairness == WF_vars(Deadline) /\ WF_vars(RunReturn)

\* Time may stand still: what happens does not rest on a deadline unless
\* ClockFairness is assumed too.
FairSpec == Spec /\ SchedulerFairness

-----------------------------------------------------------------------------
(***************************************************************************)
(* Properties                                                              *)
(***************************************************************************)

\* The variables keep their types; the counters never go below zero.
TypeOK ==
  /\ st \in [Tasks -> TaskStates]
  /\ parent \in [Tasks -> Tasks \cup {External}]
  /\ on \in [Tasks -> Tasks \cup {External}]
  /\ queue \in Seq(Tasks)
  /\ closed \in BOOLEAN
  /\ execute_task_count \in Nat
  /\ active_fiber_count \in Nat
  /\ stopped \in BOOLEAN
  /\ stop_on_complete \in BOOLEAN
  /\ run_pc \in RunStates
  /\ disp \in {"none", "ready", "loop", "blocked", "exited"}
  /\ sched_stop \in BOOLEAN
  /\ io_stopped \in BOOLEAN

Fibers == {t \in Tasks : st[t] \in FiberStates}
Counted == {t \in Tasks : st[t] \in CountedStates}

\* execute_task_count counts the tasks execute() has accepted or is pushing
\* and whose body has not ended, and keeps counting those a closed channel
\* rejected (service.hpp: the decrement is inside the pushed callable).
ExecuteCountExact == execute_task_count = Cardinality(Counted)

\* The channel holds each queued task exactly once, and nothing else.
QueueExact ==
  /\ \A t \in Tasks : st[t] = "queued" <=> \E i \in 1..Len(queue) : queue[i] = t
  /\ \A i, j \in 1..Len(queue) : queue[i] = queue[j] => i = j

\* When run() returns without "forcing exit", every object a dispatched task
\* captured has been destroyed and no fiber can be dispatched any more: the
\* promise of the comment on active_fiber_count, that objects registered with
\* the io_context die while it is alive.
CapturesDestroyed ==
  run_pc = "returned" /\ active_fiber_count = 0 =>
    /\ disp = "exited"
    /\ \A t \in Tasks : st[t] \notin CaptureStates

\* run(true) that ends by itself loses no task: whatever was pushed, also
\* between the last look at execute_task_count and close(), was dispatched.
LostOnlyByStop == run_pc = "returned" /\ queue # <<>> => stopped

\* run(true) leaves its loop by itself only when every task submitted so far,
\* also by other tasks, has run to its end (service.cpp: the count is raised
\* before push and lowered after the body).
CompletionExit ==
  [][run_pc = "loop" /\ run_pc' = "close" /\ ~stopped =>
       \A t \in Tasks : st[t] \in {"new", "returned", "released", "gone"}]_vars

\* If the clock goes on, a stop() that was called makes a started run()
\* return, whatever the other tasks do: each wait in run() has a bound.
StopReturns ==
  ClockFairness =>
  ((run_pc # "before" /\ \E t \in StopTasks : st[t] \notin {"new"})
    ~> run_pc = "returned")

\* While run() is draining, an Asio operation that completes has its handler
\* run and its fiber resumed (service.cpp: drain_poll restarts a stopped
\* io_context), unless run() returned first.
IoDelivered ==
  \A t \in Tasks : st[t] = "io_done" ~> (st[t] # "io_done" \/ run_pc = "returned")

=============================================================================
