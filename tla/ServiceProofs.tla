--------------------------- MODULE ServiceProofs ---------------------------
(***************************************************************************)
(* Safety of service::run() for any number of tasks and any channel        *)
(* capacity.  The invariants are not inductive one by one: each decrement  *)
(* of a counter needs the exact meaning of the counter, and dispatching    *)
(* needs what the channel holds.  IInv conjoins them.  And of the          *)
(* scheduler the service runs on, for any number of fibers, threads and    *)
(* stacks.                                                                 *)
(***************************************************************************)
EXTENDS Service, Scheduler, FiniteSetTheorems, TLAPS

\* active_fiber_count counts the fibers whose guard has not run.
ActiveCountExact == active_fiber_count = Cardinality(Fibers)

\* The dispatcher leaves only on stopped, or from a drained, closed channel.
ExitReason == disp = "exited" => stopped \/ (queue = <<>> /\ closed)

\* Past fb.join() the dispatcher is gone.
JoinedDispatcher ==
  run_pc \in {"graceful", "force", "flush", "returned"} => disp = "exited"

IInv == /\ TypeOK
        /\ ExecuteCountExact
        /\ ActiveCountExact
        /\ QueueExact
        /\ ExitReason
        /\ JoinedDispatcher

-----------------------------------------------------------------------------
\* The tasks whose state is in X.
In(f, X) == {t \in Tasks : f[t] \in X}

\* Moving one task between states changes the number of tasks in X by at most
\* one: the arithmetic behind both counters of the service.
Moved(f, g, a, b, X) ==
  /\ Cardinality(In(f, X)) \in Nat
  /\ (a \in X <=> b \in X) => Cardinality(In(g, X)) = Cardinality(In(f, X))
  /\ a \notin X /\ b \in X => Cardinality(In(g, X)) = Cardinality(In(f, X)) + 1
  /\ a \in X /\ b \notin X =>
       /\ Cardinality(In(g, X)) = Cardinality(In(f, X)) - 1
       /\ Cardinality(In(f, X)) > 0

LEMMA MoveOne ==
  ASSUME NEW X, NEW f \in [Tasks -> TaskStates], NEW t \in Tasks, NEW s,
         NEW g, g = [f EXCEPT ![t] = s]
  PROVE  Moved(f, g, f[t], s, X)
<1>1. IsFiniteSet(In(f, X)) /\ Cardinality(In(f, X)) \in Nat
  BY TasksAssumption, FS_Subset, FS_CardinalityType, Zenon DEF In
<1>2. ASSUME f[t] \in X <=> s \in X
      PROVE  Cardinality(In(g, X)) = Cardinality(In(f, X))
  <2>1. In(g, X) = In(f, X)
    BY <1>2, Zenon DEF In
  <2>2. QED
    BY <2>1, Zenon
<1>3. ASSUME f[t] \notin X, s \in X
      PROVE  Cardinality(In(g, X)) = Cardinality(In(f, X)) + 1
  <2>1. In(g, X) = In(f, X) \cup {t} /\ t \notin In(f, X)
    BY <1>3, Zenon DEF In
  <2>2. QED
    BY <1>1, <2>1, FS_AddElement, Zenon
<1>4. ASSUME f[t] \in X, s \notin X
      PROVE  /\ Cardinality(In(g, X)) = Cardinality(In(f, X)) - 1
             /\ Cardinality(In(f, X)) > 0
  <2>1. In(g, X) = In(f, X) \ {t} /\ t \in In(f, X)
    BY <1>4, Zenon DEF In
  <2>2. Cardinality(In(f, X)) # 0
    BY <1>1, <2>1, FS_EmptySet, Zenon
  <2>3. Cardinality(In(f, X) \ {t}) = Cardinality(In(f, X)) - 1
    BY <1>1, <2>1, FS_RemoveElement, Zenon
  <2>4. Cardinality(In(g, X)) = Cardinality(In(f, X)) - 1
    BY <2>1, <2>3, Zenon
  <2>5. QED
    BY <1>1, <2>2, <2>4
<1>5. QED
  BY <1>1, <1>2, <1>3, <1>4, Zenon DEF Moved

LEMMA CountersAreIn ==
  /\ Fibers = In(st, FiberStates) /\ Fibers' = In(st', FiberStates)
  /\ Counted = In(st, CountedStates) /\ Counted' = In(st', CountedStates)
BY Zenon DEF Fibers, Counted, In

\* A step that moves one task keeps both counters exact when it changes each
\* of them as the move requires.
Balanced(n, m, a, b, X) ==
  \/ (a \in X <=> b \in X) /\ m = n
  \/ a \notin X /\ b \in X /\ m = n + 1
  \/ a \in X /\ b \notin X /\ m = n - 1

LEMMA CountersMove ==
  ASSUME TypeOK, ExecuteCountExact, ActiveCountExact,
         NEW t \in Tasks, NEW s \in TaskStates,
         st' = [st EXCEPT ![t] = s],
         Balanced(active_fiber_count, active_fiber_count', st[t], s, FiberStates),
         Balanced(execute_task_count, execute_task_count', st[t], s, CountedStates)
  PROVE  /\ st' \in [Tasks -> TaskStates]
         /\ execute_task_count' \in Nat /\ active_fiber_count' \in Nat
         /\ ExecuteCountExact' /\ ActiveCountExact'
<1>1. st \in [Tasks -> TaskStates] /\ st' \in [Tasks -> TaskStates]
  BY Zenon DEF TypeOK
<1>2. Moved(st, st', st[t], s, FiberStates) /\ Moved(st, st', st[t], s, CountedStates)
  BY <1>1, MoveOne, Zenon
<1> DEFINE nf == Cardinality(In(st, FiberStates))
           mf == Cardinality(In(st', FiberStates))
           nc == Cardinality(In(st, CountedStates))
           mc == Cardinality(In(st', CountedStates))
<1>3. /\ nf \in Nat
      /\ (st[t] \in FiberStates <=> s \in FiberStates) => mf = nf
      /\ st[t] \notin FiberStates /\ s \in FiberStates => mf = nf + 1
      /\ st[t] \in FiberStates /\ s \notin FiberStates => mf = nf - 1 /\ nf > 0
      /\ nc \in Nat
      /\ (st[t] \in CountedStates <=> s \in CountedStates) => mc = nc
      /\ st[t] \notin CountedStates /\ s \in CountedStates => mc = nc + 1
      /\ st[t] \in CountedStates /\ s \notin CountedStates => mc = nc - 1 /\ nc > 0
  BY <1>2, Zenon DEF Moved
<1>4. /\ active_fiber_count = nf /\ execute_task_count = nc
      /\ ActiveCountExact' <=> active_fiber_count' = mf
      /\ ExecuteCountExact' <=> execute_task_count' = mc
  BY CountersAreIn, Zenon DEF ActiveCountExact, ExecuteCountExact
<1> HIDE DEF nf, mf, nc, mc
<1>5. active_fiber_count' = mf /\ mf \in Nat
  BY <1>3, <1>4 DEF Balanced
<1>6. execute_task_count' = mc /\ mc \in Nat
  BY <1>3, <1>4 DEF Balanced
<1>7. QED
  BY <1>1, <1>4, <1>5, <1>6, Zenon

\* The channel is exact after a step that moves no task in or out of it.
LEMMA QueueKept ==
  ASSUME TypeOK, QueueExact, NEW t \in Tasks, NEW s \in TaskStates,
         st' = [st EXCEPT ![t] = s], st[t] # "queued", s # "queued",
         queue' = queue
  PROVE  QueueExact'
BY Zenon DEF QueueExact, TypeOK

LEMMA QueuePushed ==
  ASSUME TypeOK, QueueExact, NEW t \in Tasks, st[t] # "queued",
         st' = [st EXCEPT ![t] = "queued"], queue' = Append(queue, t)
  PROVE  QueueExact'
<1>1. /\ queue \in Seq(Tasks) /\ Len(queue) \in Nat
      /\ Len(queue') = Len(queue) + 1
      /\ \A i \in 1..Len(queue) : queue'[i] = queue[i] /\ queue[i] # t
      /\ queue'[Len(queue) + 1] = t
  BY DEF QueueExact, TypeOK
<1>2. \A i, j \in 1..Len(queue') : queue'[i] = queue'[j] => i = j
  BY <1>1 DEF QueueExact
<1>3. ASSUME NEW u \in Tasks
      PROVE  st'[u] = "queued" <=> \E i \in 1..Len(queue') : queue'[i] = u
  <2>1. CASE u = t
    BY <1>1, <2>1 DEF TypeOK
  <2>2. CASE u # t
    BY <1>1, <2>2 DEF QueueExact, TypeOK
  <2>3. QED
    BY <2>1, <2>2, Zenon
<1>4. QED
  BY <1>2, <1>3, Zenon DEF QueueExact

LEMMA QueuePopped ==
  ASSUME TypeOK, QueueExact, queue # <<>>, NEW s \in TaskStates, s # "queued",
         st' = [st EXCEPT ![Head(queue)] = s], queue' = Tail(queue)
  PROVE  Head(queue) \in Tasks /\ st[Head(queue)] = "queued" /\ QueueExact'
<1>1. /\ queue \in Seq(Tasks) /\ Len(queue) \in Nat /\ Len(queue) > 0
      /\ Len(queue') = Len(queue) - 1
      /\ \A i \in 1..Len(queue') : queue'[i] = queue[i + 1]
      /\ Head(queue) = queue[1] /\ Head(queue) \in Tasks
  BY DEF TypeOK
<1>2. st[Head(queue)] = "queued"
  BY <1>1 DEF QueueExact
<1>3. \A i, j \in 1..Len(queue') : queue'[i] = queue'[j] => i = j
  BY <1>1 DEF QueueExact
<1>4. ASSUME NEW u \in Tasks
      PROVE  st'[u] = "queued" <=> \E i \in 1..Len(queue') : queue'[i] = u
  <2>1. CASE u = Head(queue)
    BY <1>1, <2>1 DEF QueueExact, TypeOK
  <2>2. CASE u # Head(queue)
    <3>1. st'[u] = st[u]
      BY <2>2, Zenon DEF TypeOK
    <3>2. ASSUME NEW i \in 1..Len(queue), queue[i] = u
          PROVE  i - 1 \in 1..Len(queue') /\ queue'[i - 1] = u
      BY <1>1, <2>2, <3>2
    <3>3. ASSUME NEW i \in 1..Len(queue'), queue'[i] = u
          PROVE  i + 1 \in 1..Len(queue) /\ queue[i + 1] = u
      BY <1>1, <3>3
    <3>4. QED
      BY <3>1, <3>2, <3>3, Zenon DEF QueueExact
  <2>3. QED
    BY <2>1, <2>2, Zenon
<1>5. QED
  BY <1>1, <1>2, <1>3, <1>4, Zenon DEF QueueExact

-----------------------------------------------------------------------------
USE DEF TaskStates, FiberStates, CaptureStates, CountedStates, BodyStates

\* What a step of the task fibers or of execute() leaves alone.
RestKept ==
  /\ UNCHANGED <<closed, stop_on_complete, run_pc, disp, sched_stop, io_stopped>>
  /\ stopped' \in BOOLEAN /\ (stopped => stopped')
  /\ parent' \in [Tasks -> Tasks \cup {External}]
  /\ on' \in [Tasks -> Tasks \cup {External}]

\* A fiber step that moves one task, not in or out of the channel.
LEMMA FiberMove ==
  ASSUME IInv, NEW t \in Tasks, NEW s \in TaskStates,
         st' = [st EXCEPT ![t] = s], st[t] # "queued", s # "queued",
         queue' = queue, RestKept,
         Balanced(active_fiber_count, active_fiber_count', st[t], s, FiberStates),
         Balanced(execute_task_count, execute_task_count', st[t], s, CountedStates)
  PROVE  IInv'
<1>1. /\ st' \in [Tasks -> TaskStates]
      /\ execute_task_count' \in Nat /\ active_fiber_count' \in Nat
      /\ ExecuteCountExact' /\ ActiveCountExact'
  BY CountersMove, Zenon DEF IInv
<1>2. QueueExact'
  BY QueueKept, Zenon DEF IInv
<1>3. TypeOK'
  BY <1>1, Zenon DEF IInv, TypeOK, RestKept
<1>4. ExitReason' /\ JoinedDispatcher'
  BY Zenon DEF IInv, ExitReason, JoinedDispatcher, RestKept
<1>5. QED
  BY <1>1, <1>2, <1>3, <1>4, Zenon DEF IInv

\* A push that puts the task into the channel: only while it is open, so the
\* dispatcher has not left a drained channel.
LEMMA PushMove ==
  ASSUME IInv, NEW t \in Tasks, st[t] \in {"new", "pushing"},
         st' = [st EXCEPT ![t] = "queued"], queue' = Append(queue, t), ~closed,
         RestKept, active_fiber_count' = active_fiber_count,
         Balanced(execute_task_count, execute_task_count', st[t], "queued", CountedStates)
  PROVE  IInv'
<1>1. Balanced(active_fiber_count, active_fiber_count', st[t], "queued", FiberStates)
  BY Zenon DEF Balanced
<1>2. /\ st' \in [Tasks -> TaskStates]
      /\ execute_task_count' \in Nat /\ active_fiber_count' \in Nat
      /\ ExecuteCountExact' /\ ActiveCountExact'
  BY <1>1, CountersMove, Zenon DEF IInv
<1>3. QueueExact'
  BY QueuePushed, Zenon DEF IInv
<1>4. TypeOK'
  BY <1>2 DEF IInv, TypeOK, RestKept
<1>5. ExitReason' /\ JoinedDispatcher'
  BY Zenon DEF IInv, ExitReason, JoinedDispatcher, RestKept
<1>6. QED
  BY <1>2, <1>3, <1>4, <1>5, Zenon DEF IInv

\* A step that moves no task and leaves the channel and the counters alone.
LEMMA ControlMove ==
  ASSUME IInv, UNCHANGED <<task_vars, queue, execute_task_count, active_fiber_count>>,
         closed => closed', closed' \in BOOLEAN, stopped' = stopped,
         stop_on_complete' \in BOOLEAN, sched_stop' \in BOOLEAN,
         io_stopped' = io_stopped, run_pc' \in RunStates,
         disp' \in {"none", "ready", "loop", "blocked", "exited"},
         ExitReason', JoinedDispatcher'
  PROVE  IInv'
BY DEF IInv, TypeOK, ExecuteCountExact, ActiveCountExact, QueueExact, Fibers,
       Counted, task_vars

\* poll() wakes fibers: they stay counted.
LEMMA PollMove ==
  ASSUME IInv, PollFrom(FALSE),
         UNCHANGED <<parent, on, chan_vars, execute_task_count,
                     active_fiber_count, stopped, main_vars, disp>>
  PROVE  IInv'
<1>1. /\ st' \in [Tasks -> TaskStates] /\ io_stopped' \in BOOLEAN
      /\ \A t \in Tasks : st'[t] = IF st[t] = "io_done" THEN "running" ELSE st[t]
  BY Zenon DEF IInv, TypeOK, PollFrom
<1>2. Fibers' = Fibers /\ Counted' = Counted
  BY <1>1, Zenon DEF Fibers, Counted
<1>3. ExecuteCountExact' /\ ActiveCountExact'
  BY <1>2, Zenon DEF IInv, ExecuteCountExact, ActiveCountExact
<1>4. QueueExact'
  BY <1>1, Zenon DEF IInv, QueueExact, chan_vars
<1>5. TypeOK'
  BY <1>1, Zenon DEF IInv, TypeOK, chan_vars, main_vars
<1>6. ExitReason' /\ JoinedDispatcher'
  BY Zenon DEF IInv, ExitReason, JoinedDispatcher, chan_vars, main_vars
<1>7. QED
  BY <1>3, <1>4, <1>5, <1>6, Zenon DEF IInv

-----------------------------------------------------------------------------
LEMMA FiberStepInv ==
  ASSUME IInv, NEW t \in Tasks, FiberStep(t)
  PROVE  IInv'
<1> USE DEF RestKept, Balanced, chan_vars, main_vars, IInv, TypeOK
<1>1. CASE FiberStart(t)
  BY <1>1, FiberMove, Zenon DEF FiberStart
<1>2. CASE RunStop(t)
  BY <1>2, FiberMove, Zenon DEF RunStop, Finished
<1>3. CASE Sleep(t)
  BY <1>3, FiberMove, Zenon DEF Sleep
<1>4. CASE Wake(t)
  BY <1>4, FiberMove, Zenon DEF Wake
<1>5. CASE Interrupted(t)
  BY <1>5, FiberMove, Zenon DEF Interrupted, Finished
<1>6. CASE Resume(t)
  BY <1>6, FiberMove, Zenon DEF Resume
<1>7. CASE StartIo(t)
  BY <1>7, FiberMove, Zenon DEF StartIo
<1>8. CASE Finish(t)
  BY <1>8, FiberMove, Zenon DEF Finish, Finished
<1>9. CASE Release(t)
  BY <1>9, FiberMove, Zenon DEF Release
<1>10. CASE GuardExit(t)
  BY <1>10, FiberMove, Zenon DEF GuardExit
<1>11. ASSUME NEW u \in Tasks, FiberExecute(t, u) \/ Wait(t, u)
      PROVE  IInv'
  <2>1. CASE Wait(t, u)
    BY <1>11, <2>1, FiberMove, Zenon DEF Wait
  <2>2. CASE FiberExecute(t, u) /\ PushOutcome # "queued"
    BY <1>11, <2>2, FiberMove, Zenon DEF FiberExecute, PushOutcome
  <2>3. CASE FiberExecute(t, u) /\ PushOutcome = "queued"
    BY <1>11, <2>3, PushMove, Zenon DEF FiberExecute, PushOutcome
  <2>4. QED
    BY <1>11, <2>1, <2>2, <2>3, Zenon
<1>12. QED
  BY <1>1, <1>2, <1>3, <1>4, <1>5, <1>6, <1>7, <1>8, <1>9, <1>10, <1>11, Zenon DEF FiberStep

LEMMA SubmitInv ==
  ASSUME IInv, NEW t \in Tasks, ExternalExecute(t) \/ Push(t) \/ IoCompletes(t)
  PROVE  IInv'
<1> USE DEF RestKept, Balanced, chan_vars, main_vars, IInv, TypeOK
<1>1. CASE ExternalExecute(t)
  BY <1>1, FiberMove, Zenon DEF ExternalExecute
<1>2. CASE IoCompletes(t)
  BY <1>2, FiberMove, Zenon DEF IoCompletes
<1>3. CASE Push(t) /\ PushOutcome # "queued"
  BY <1>3, FiberMove, Zenon DEF Push, PushOutcome
<1>4. CASE Push(t) /\ PushOutcome = "queued"
  BY <1>4, PushMove, Zenon DEF Push, PushOutcome
<1>5. QED
  BY <1>1, <1>2, <1>3, <1>4, Zenon

LEMMA DispatcherInv ==
  ASSUME IInv, Dispatcher
  PROVE  IInv'
<1> USE DEF chan_vars, main_vars
<1>1. CASE DispatcherStart
  BY <1>1, ControlMove, Zenon
     DEF DispatcherStart, ThreadFree, IInv, TypeOK, ExitReason, JoinedDispatcher
<1>2. CASE DispatcherBlock
  BY <1>2, ControlMove, Zenon
     DEF DispatcherBlock, IInv, TypeOK, ExitReason, JoinedDispatcher
<1>3. CASE DispatcherExit
  BY <1>3, ControlMove, Zenon
     DEF DispatcherExit, IInv, TypeOK, ExitReason, JoinedDispatcher
<1>4. CASE Dispatch
  <2>1. /\ Head(queue) \in Tasks /\ st[Head(queue)] = "queued" /\ QueueExact'
        /\ st' = [st EXCEPT ![Head(queue)] = "ready"]
    BY <1>4, QueuePopped, Zenon DEF Dispatch, IInv
  <2>2. /\ Balanced(active_fiber_count, active_fiber_count', st[Head(queue)], "ready", FiberStates)
        /\ Balanced(execute_task_count, execute_task_count', st[Head(queue)], "ready", CountedStates)
    BY <1>4, <2>1, Zenon DEF Balanced, Dispatch
  <2>3. /\ st' \in [Tasks -> TaskStates]
        /\ execute_task_count' \in Nat /\ active_fiber_count' \in Nat
        /\ ExecuteCountExact' /\ ActiveCountExact'
    BY <2>1, <2>2, CountersMove, Zenon DEF IInv
  <2>4. TypeOK'
    BY <1>4, <2>3 DEF Dispatch, IInv, TypeOK
  <2>5. ExitReason' /\ JoinedDispatcher'
    BY <1>4, Zenon DEF Dispatch, IInv, ExitReason, JoinedDispatcher
  <2>6. QED
    BY <2>1, <2>3, <2>4, <2>5, Zenon DEF IInv
<1>5. QED
  BY <1>1, <1>2, <1>3, <1>4, Zenon DEF Dispatcher

LEMMA MainInv ==
  ASSUME IInv, StartRun \/ MainStep \/ Deadline
  PROVE  IInv'
<1> USE DEF RunStates, chan_vars, main_vars
<1>1. CASE StartRun
  BY <1>1, ControlMove, Zenon DEF StartRun, IInv, TypeOK, ExitReason, JoinedDispatcher
<1>2. CASE LoopPoll
  BY <1>2, PollMove, Zenon DEF LoopPoll
<1>3. CASE DrainTurn
  BY <1>3, PollMove, Zenon DEF DrainTurn, DrainPoll
<1>4. CASE LoopExit
  BY <1>4, ControlMove, Zenon DEF LoopExit, IInv, TypeOK, ExitReason, JoinedDispatcher
<1>5. CASE Close
  BY <1>5, ControlMove, Zenon DEF Close, IInv, TypeOK, ExitReason, JoinedDispatcher
<1>6. CASE Phase1End \/ Joined \/ GracefulDone \/ ForceDone \/ RunReturn \/ Deadline
  BY <1>6, ControlMove, ZenonT(40)
     DEF Phase1End, Joined, GracefulDone, ForceDone, RunReturn, Deadline,
         GracefulDeadline, ForceDeadline, Advance, IInv, TypeOK, ExitReason,
         JoinedDispatcher
<1>7. QED
  BY <1>1, <1>2, <1>3, <1>4, <1>5, <1>6, Zenon DEF MainStep

-----------------------------------------------------------------------------
LEMMA InitInv == Init => IInv
<1> SUFFICES ASSUME Init PROVE IInv
  BY Zenon
<1>1. TypeOK
  <2>1. st \in [Tasks -> TaskStates]
    BY Zenon DEF Init
  <2>2. /\ parent \in [Tasks -> Tasks \cup {External}]
        /\ on \in [Tasks -> Tasks \cup {External}]
    BY Zenon DEF Init
  <2>3. queue \in Seq(Tasks)
    BY DEF Init
  <2>4. QED
    BY <2>1, <2>2, <2>3, Zenon DEF Init, TypeOK, RunStates
<1>2. Fibers = {} /\ Counted = {}
  BY Zenon DEF Init, Fibers, Counted
<1>3. ExecuteCountExact /\ ActiveCountExact
  BY <1>2, FS_EmptySet, Zenon DEF Init, ExecuteCountExact, ActiveCountExact
<1>4. QueueExact
  BY DEF Init, QueueExact
<1>5. QED
  BY <1>1, <1>3, <1>4, Zenon DEF Init, IInv, ExitReason, JoinedDispatcher

LEMMA NextInv == IInv /\ [Next]_vars => IInv'
<1> SUFFICES ASSUME IInv, [Next]_vars PROVE IInv'
  BY Zenon
<1>1. CASE UNCHANGED vars
  BY <1>1, ControlMove, Zenon
     DEF vars, task_vars, IInv, TypeOK, ExitReason, JoinedDispatcher
<1>2. CASE Next
  BY <1>1, <1>2, FiberStepInv, SubmitInv, DispatcherInv, MainInv, Zenon
     DEF Next, Terminated
<1>3. QED
  BY <1>1, <1>2, Zenon

\* Every reachable state satisfies the strengthened invariant.
THEOREM InductiveInvariant == Spec => []IInv
<1>1. Init => IInv
  BY InitInv, Zenon
<1>2. IInv /\ [Next]_vars => IInv'
  BY NextInv, Zenon
<1>3. QED
  BY <1>1, <1>2, PTL DEF Spec

\* The types hold; in particular neither counter of the service ever goes
\* below zero, whatever the interleaving of execute(), run() and the fibers.
THEOREM TypeCorrect == Spec => []TypeOK
<1>1. IInv => TypeOK
  BY Zenon DEF IInv
<1>2. QED
  BY <1>1, InductiveInvariant, PTL

\* execute_task_count is exact for any number of tasks and submitters.
THEOREM ExecuteCountCorrect == Spec => []ExecuteCountExact
<1>1. IInv => ExecuteCountExact
  BY Zenon DEF IInv
<1>2. QED
  BY <1>1, InductiveInvariant, PTL

\* The execute channel holds exactly the tasks that wait for the dispatcher,
\* each of them once.
THEOREM QueueCorrect == Spec => []QueueExact
<1>1. IInv => QueueExact
  BY Zenon DEF IInv
<1>2. QED
  BY <1>1, InductiveInvariant, PTL

\* A run() that returns without forcing exit leaves no captured object of a
\* dispatched task alive.
THEOREM TeardownSafe == Spec => []CapturesDestroyed
<1>1. IInv => CapturesDestroyed
  <2> SUFFICES ASSUME IInv, run_pc = "returned", active_fiber_count = 0
               PROVE  disp = "exited" /\ \A t \in Tasks : st[t] \notin CaptureStates
    BY Zenon DEF CapturesDestroyed
  <2>1. IsFiniteSet(Fibers)
    BY TasksAssumption, FS_Subset, Zenon DEF Fibers
  <2>2. Cardinality(Fibers) = 0
    BY Zenon DEF IInv, ActiveCountExact
  <2>3. Fibers = {}
    BY <2>1, <2>2, FS_EmptySet, Zenon
  <2>4. QED
    BY <2>3, Zenon DEF IInv, JoinedDispatcher, Fibers
<1>2. QED
  BY <1>1, InductiveInvariant, PTL

\* A run(true) that ended by itself has dispatched every task it accepted.
THEOREM NothingLostOnCompletion == Spec => []LostOnlyByStop
<1>1. IInv => LostOnlyByStop
  BY Zenon DEF IInv, LostOnlyByStop, JoinedDispatcher, ExitReason
<1>2. QED
  BY <1>1, InductiveInvariant, PTL

\* run(true) ends by itself only when no submitted task is unfinished.
THEOREM CompletionExitCorrect == Spec => CompletionExit
<1>1. ASSUME IInv, [Next]_vars, run_pc = "loop", run_pc' = "close", ~stopped
      PROVE  \A t \in Tasks : st[t] \in {"new", "returned", "released", "gone"}
  <2>1. LoopExit
    BY <1>1, ZenonT(40)
       DEF Next, vars, StartRun, MainStep, LoopPoll, Close, DrainTurn,
           Phase1End, Joined, GracefulDone, ForceDone, RunReturn, Deadline,
           GracefulDeadline, ForceDeadline, Advance, Dispatcher,
           DispatcherStart, Dispatch, DispatcherBlock, DispatcherExit,
           Terminated, ExternalExecute, Push, IoCompletes, FiberStep,
           FiberStart, RunStop, Sleep, Wake, Interrupted, Resume, StartIo,
           Finish, Release, GuardExit, FiberExecute, Wait, main_vars
  <2>2. execute_task_count = 0
    BY <1>1, <2>1, Zenon DEF LoopExit, LoopDone
  <2>3. IsFiniteSet(Counted)
    BY TasksAssumption, FS_Subset, Zenon DEF Counted
  <2>4. Cardinality(Counted) = 0
    BY <1>1, <2>2, Zenon DEF IInv, ExecuteCountExact
  <2>5. Counted = {}
    BY <2>3, <2>4, FS_EmptySet, Zenon
  <2>6. QED
    BY <1>1, <2>5, Zenon DEF Counted, IInv, TypeOK
<1>2. QED
  BY <1>1, InductiveInvariant, PTL DEF Spec, CompletionExit

-----------------------------------------------------------------------------
(* The scheduler *)

\* From the moment the dispatcher has emptied the remote queue, a fiber in it
\* is announced by the flag or by a thread that is about to raise it; and a
\* flag that is up while the thread waits has been, or will be, signalled.
WakeInv ==
  /\ owes \in [Remotes -> {"nothing", "flag", "notify"}]
  /\ flag_ \in BOOLEAN /\ signalled \in BOOLEAN
  /\ running # SchedDispatcher => loop = "release"
  /\ loop \in {"sleep", "pick", "suspend", "waiting"} /\ remote_ready # <<>> =>
       flag_ \/ \E r \in Remotes : owes[r] = "flag"
  /\ loop = "waiting" /\ flag_ => signalled \/ \E r \in Remotes : owes[r] = "notify"

\* Stacks are in the pool, or belong to a worker fiber until it is released.
StackInv ==
  /\ stack \in [SchedFibers -> Stacks \cup {NoStack}]
  /\ fs \in [SchedFibers -> FiberPlaces]
  /\ free_list_ \subseteq Stacks
  /\ fs[Main] \notin {"done", "none"}
  /\ due \subseteq {f \in SchedFibers : fs[f] = "sleeping"}
  /\ StacksApart

-----------------------------------------------------------------------------
\* Whoever queues a fiber raises the flag later, and the dispatcher lowers it
\* only where it goes on to empty the queue.
LEMMA WakeStep ==
  ASSUME WakeInv, [SchedNext]_sched_vars
  PROVE  WakeInv'
<1> USE SchedAssumption DEF WakeInv, wake_vars, stack_vars, SchedFibers
<1>1. ASSUME NEW f \in SchedFibers, yield(f)
     PROVE  WakeInv'
  BY <1>1, Zenon DEF yield, Active, GivesUp
<1>2. ASSUME NEW f \in SchedFibers, block(f)
     PROVE  WakeInv'
  BY <1>2, Zenon DEF block, Active, GivesUp
<1>3. ASSUME NEW f \in SchedFibers, sleep_for(f)
     PROVE  WakeInv'
  BY <1>3, Zenon DEF sleep_for, Active, GivesUp, check_interrupt
<1>4. ASSUME NEW f \in SchedFibers, sleep_returns(f)
     PROVE  WakeInv'
  BY <1>4, Zenon DEF sleep_returns, GivesUp, check_interrupt
<1>5. ASSUME NEW f \in SchedFibers, fiber_ends(f)
     PROVE  WakeInv'
  BY <1>5, Zenon DEF fiber_ends, Active, GivesUp
<1>6. ASSUME NEW f \in SchedFibers, NEW g \in SchedFibers, wakes(f, g)
     PROVE  WakeInv'
  BY <1>6, Zenon DEF wakes, Active
<1>7. ASSUME NEW f \in SchedFibers, NEW g \in SchedFibers, spawn(f, g)
     PROVE  WakeInv'
  BY <1>7, Zenon DEF spawn, Active
<1>8. ASSUME NEW f \in SchedFibers, time_passes(f)
     PROVE  WakeInv'
  BY <1>8, Zenon DEF time_passes
<1>9. ASSUME request_stop
     PROVE  WakeInv'
  BY <1>9, Zenon DEF request_stop, Active
<1>10. ASSUME NEW r \in Remotes, notify_flag(r)
     PROVE  WakeInv'
  BY <1>10, Zenon DEF notify_flag
<1>11. ASSUME NEW r \in Remotes, notify_all(r)
     PROVE  WakeInv'
  BY <1>11, Zenon DEF notify_all
<1>12. ASSUME NEW r \in Remotes, NEW g \in SchedFibers, remote_schedules(r, g)
     PROVE  WakeInv'
  BY <1>12, Zenon DEF remote_schedules
<1>13. ASSUME release_terminated
     PROVE  WakeInv'
  BY <1>13, Zenon DEF release_terminated, Dispatches
<1>14. ASSUME remote_ready2ready
     PROVE  WakeInv'
  BY <1>14, Zenon DEF remote_ready2ready, Dispatches
<1>15. ASSUME sleep2ready
     PROVE  WakeInv'
  BY <1>15, Zenon DEF sleep2ready, Dispatches
<1>16. ASSUME dispatch
     PROVE  WakeInv'
  BY <1>16, Zenon DEF dispatch, Dispatches, GivesUp
<1>17. ASSUME suspend_until
     PROVE  WakeInv'
  <2>1. CASE Awake
    BY <2>1, Zenon DEF Awake
  <2>2. CASE ~flag_ /\ loop = "suspend" /\ Asleep
    BY <1>17, <2>2, Zenon DEF suspend_until, Asleep
  <2>3. CASE ~flag_ /\ loop = "waiting" /\ Asleep
    BY <1>17, <2>3, Zenon DEF suspend_until, Asleep
  <2> QED
    BY <1>17, <2>1, <2>2, <2>3, Zenon DEF suspend_until
<1>18. CASE UNCHANGED sched_vars
  BY <1>18, Zenon DEF sched_vars
<1> QED
  BY ZenonT(40), <1>1, <1>2, <1>3, <1>4, <1>5, <1>6, <1>7, <1>8, <1>9,
     <1>10, <1>11, <1>12, <1>13, <1>14, <1>15, <1>16, <1>17, <1>18
  DEF SchedNext, SchedFiberStep, DispatcherStep, RemoteStep

\* Only the dispatcher takes a stack from a fiber, and only from one that has ended.
LEMMA StackStep ==
  ASSUME StackInv, [SchedNext]_sched_vars
  PROVE  StackInv'
<1> USE SchedAssumption DEF StackInv, StacksApart, FiberPlaces, wake_vars, stack_vars, SchedFibers
<1>1. ASSUME NEW f \in SchedFibers, yield(f)
     PROVE  StackInv'
  BY <1>1, Zenon DEF yield, Active, GivesUp
<1>2. ASSUME NEW f \in SchedFibers, block(f)
     PROVE  StackInv'
  BY <1>2, Zenon DEF block, Active, GivesUp
<1>3. ASSUME NEW f \in SchedFibers, sleep_for(f)
     PROVE  StackInv'
  BY <1>3, Zenon DEF sleep_for, Active, GivesUp, check_interrupt
<1>4. ASSUME NEW f \in SchedFibers, sleep_returns(f)
     PROVE  StackInv'
  BY <1>4, SMTT(120) DEF sleep_returns, GivesUp, check_interrupt
<1>5. ASSUME NEW f \in SchedFibers, fiber_ends(f)
     PROVE  StackInv'
  BY <1>5, Zenon DEF fiber_ends, Active, GivesUp
<1>6. ASSUME NEW f \in SchedFibers, NEW g \in SchedFibers, wakes(f, g)
     PROVE  StackInv'
  BY <1>6, Zenon DEF wakes, Active
<1>7. ASSUME NEW f \in SchedFibers, NEW g \in SchedFibers, spawn(f, g)
     PROVE  StackInv'
  <2>1. PICK s \in pop_or_mmap : /\ stack' = [stack EXCEPT ![g] = s]
                                 /\ free_list_' = free_list_ \ {s}
    BY <1>7, Zenon DEF spawn
  <2>2. s \in Stacks /\ s # NoStack
    BY Zenon DEF pop_or_mmap
  <2>3. \A h \in SchedFibers : stack[h] # s
    BY DEF pop_or_mmap
  <2>4. /\ fs' = [fs EXCEPT ![g] = "ready"] /\ fs[g] = "none" /\ g \in WorkerFibers
        /\ due' = due
    BY <1>7, Zenon DEF spawn
  <2>5. /\ stack' \in [SchedFibers -> Stacks \cup {NoStack}] /\ free_list_' \subseteq Stacks
        /\ fs' \in [SchedFibers -> FiberPlaces]
    BY <2>1, <2>2, <2>4, Zenon
  <2>6. StacksApart'
    BY <2>1, <2>2, <2>3, <2>4, Zenon
  <2> QED
    BY <2>4, <2>5, <2>6, Zenon
<1>8. ASSUME NEW f \in SchedFibers, time_passes(f)
     PROVE  StackInv'
  BY <1>8, Zenon DEF time_passes
<1>9. ASSUME request_stop
     PROVE  StackInv'
  BY <1>9, Zenon DEF request_stop, Active
<1>10. ASSUME NEW r \in Remotes, notify_flag(r)
     PROVE  StackInv'
  BY <1>10, Zenon DEF notify_flag
<1>11. ASSUME NEW r \in Remotes, notify_all(r)
     PROVE  StackInv'
  BY <1>11, Zenon DEF notify_all
<1>12. ASSUME NEW r \in Remotes, NEW g \in SchedFibers, remote_schedules(r, g)
     PROVE  StackInv'
  BY <1>12, Zenon DEF remote_schedules
<1>13. ASSUME release_terminated
     PROVE  StackInv'
  BY <1>13, SMTT(120) DEF release_terminated, Dispatches
<1>14. ASSUME remote_ready2ready
     PROVE  StackInv'
  BY <1>14, Zenon DEF remote_ready2ready, Dispatches
<1>15. ASSUME sleep2ready
     PROVE  StackInv'
  BY <1>15, SMTT(120) DEF sleep2ready, Dispatches
<1>16. ASSUME dispatch
     PROVE  StackInv'
  BY <1>16, SMTT(120) DEF dispatch, Dispatches, GivesUp
<1>17. ASSUME suspend_until
     PROVE  StackInv'
  BY <1>17, Zenon DEF suspend_until, Awake, Asleep
<1>18. CASE UNCHANGED sched_vars
  BY <1>18, Zenon DEF sched_vars
<1> QED
  BY ZenonT(40), <1>1, <1>2, <1>3, <1>4, <1>5, <1>6, <1>7, <1>8, <1>9,
     <1>10, <1>11, <1>12, <1>13, <1>14, <1>15, <1>16, <1>17, <1>18
  DEF SchedNext, SchedFiberStep, DispatcherStep, RemoteStep

-----------------------------------------------------------------------------
\* While the thread sleeps in suspend_until() and another thread has made a
\* fiber ready, the wait is ending or that thread has still to notify.
THEOREM WakeupNotLost == SchedSpec => []NoLostWakeup
<1>1. SchedInit => WakeInv
  BY SchedAssumption, Zenon DEF SchedInit, WakeInv, SchedFibers
<1>2. WakeInv /\ [SchedNext]_sched_vars => WakeInv'
  BY WakeStep, Zenon
<1>3. WakeInv => NoLostWakeup
  BY Zenon DEF WakeInv, NoLostWakeup
<1> QED
  BY <1>1, <1>2, <1>3, PTL DEF SchedSpec

\* pooled_guarded_stack never gives a stack that a fiber still uses.
THEOREM StacksNeverShared == SchedSpec => []StacksApart
<1>1. SchedInit => StackInv
  BY SchedAssumption, Zenon DEF SchedInit, StackInv, StacksApart, SchedFibers, FiberPlaces
<1>2. StackInv /\ [SchedNext]_sched_vars => StackInv'
  BY StackStep, Zenon
<1>3. StackInv => StacksApart
  BY Zenon DEF StackInv
<1> QED
  BY <1>1, <1>2, <1>3, PTL DEF SchedSpec

=============================================================================
