-------------------------- MODULE WorkerPoolProofs -------------------------
(***************************************************************************)
(* Proofs about WorkerPool, for any calls of async(), workers and channel  *)
(* capacity.                                                               *)
(***************************************************************************)
EXTENDS WorkerPool, FiniteSetTheorems, TLAPS

\* The call of async() that begins a task has not returned.
CallStates == {"init", "count", "push"} \cup InitStates

\* call_once() lets one task through; the channel is there before anybody gets
\* past is_workers_initiated() or past call_once().
OnceInv ==
  /\ channels \in {0, 1}
  /\ \A t, u \in Tasks : st[t] \in InitStates /\ st[u] \in InitStates => t = u
  /\ once = "idle" => channels = 0
  /\ once = "done" => channels = 1
  /\ \A t \in Tasks :
       /\ st[t] \in InitStates => once = "running"
       /\ st[t] = "store" => channels = 0
       /\ st[t] \notin {"new", "init", "store"} => channels = 1
  /\ workers_initiated => channels = 1

\* The channel holds each task that is queued, once.
ChannelExact ==
  /\ \A i \in 1..Len(queue) : st[queue[i]] = "queued"
  /\ \A i, j \in 1..Len(queue) : queue[i] = queue[j] => i = j

\* A task that a worker has popped knows it; the task that calls async() is
\* inside that one call as long as it has not returned.
CallersInv ==
  /\ \A t \in Tasks : st[t] \in {"ready"} \cup FiberStates => on[t] \in Workers
  /\ \A t \in Tasks :
       st[t] \in CallStates /\ parent[t] # External =>
         /\ parent[t] # t /\ st[parent[t]] \in {"calling", "blocked"}
         /\ \A u \in Tasks : st[u] \in CallStates /\ parent[u] = parent[t] => u = t

\* A task that is handed over and not popped.
Handed == {"push", "queued"}

\* The number n becomes m as t goes in or out of the states X, or neither.
Follows(n, m, t, X) ==
  /\ (st[t] \in X <=> st'[t] \in X) => m = n
  /\ st[t] \notin X /\ st'[t] \in X => m = n + 1
  /\ st[t] \in X /\ st'[t] \notin X => m = n - 1

-----------------------------------------------------------------------------
(* Counting *)

\* The tasks whose state is in X.
In(f, X) == {t \in Tasks : f[t] \in X}

\* A step that takes at most the task t in or out of X changes the number of
\* tasks in X by one at most.
LEMMA CountMoves ==
  ASSUME NEW X, NEW t \in Tasks,
         \A u \in Tasks \ {t} : st'[u] \in X <=> st[u] \in X
  PROVE  /\ Cardinality(In(st, X)) \in Nat /\ Cardinality(In(st', X)) \in Nat
         /\ (st[t] \in X <=> st'[t] \in X) => Cardinality(In(st', X)) = Cardinality(In(st, X))
         /\ st[t] \notin X /\ st'[t] \in X => Cardinality(In(st', X)) = Cardinality(In(st, X)) + 1
         /\ st[t] \in X /\ st'[t] \notin X => Cardinality(In(st, X)) = Cardinality(In(st', X)) + 1
<1>1. /\ IsFiniteSet(In(st, X)) /\ Cardinality(In(st, X)) \in Nat
      /\ IsFiniteSet(In(st', X)) /\ Cardinality(In(st', X)) \in Nat
  BY PoolAssumption, FS_Subset, FS_CardinalityType, Zenon DEF In
<1>2. ASSUME st[t] \in X <=> st'[t] \in X
      PROVE  Cardinality(In(st', X)) = Cardinality(In(st, X))
  <2>1. In(st', X) = In(st, X)
    BY <1>2, Zenon DEF In
  <2> QED
    BY <2>1, Zenon
<1>3. ASSUME st[t] \notin X, st'[t] \in X
      PROVE  Cardinality(In(st', X)) = Cardinality(In(st, X)) + 1
  <2>1. In(st', X) = In(st, X) \cup {t} /\ t \notin In(st, X)
    BY <1>3, Zenon DEF In
  <2> QED
    BY <1>1, <2>1, FS_AddElement, Zenon
<1>4. ASSUME st[t] \in X, st'[t] \notin X
      PROVE  Cardinality(In(st, X)) = Cardinality(In(st', X)) + 1
  <2>1. In(st, X) = In(st', X) \cup {t} /\ t \notin In(st', X)
    BY <1>4, Zenon DEF In
  <2> QED
    BY <1>1, <2>1, FS_AddElement, Zenon
<1> QED
  BY <1>1, <1>2, <1>3, <1>4, Zenon

-----------------------------------------------------------------------------
(* One step *)

\* What pop() finds at the head of the channel.
LEMMA HeadQueued ==
  ASSUME TypeOK, ChannelExact, queue # <<>>
  PROVE  /\ Head(queue) \in Tasks /\ st[Head(queue)] = "queued"
         /\ Tail(queue) \in Seq(Tasks) /\ Len(Tail(queue)) <= Capacity
<1>1. queue \in Seq(Tasks) /\ Len(queue) \in Nat \ {0} /\ Len(queue) <= Capacity
  BY DEF TypeOK
<1>2. Head(queue) = queue[1] /\ 1 \in 1..Len(queue) /\ queue[1] \in Tasks
  BY <1>1
<1>3. Tail(queue) \in Seq(Tasks) /\ Len(Tail(queue)) = Len(queue) - 1
  BY <1>1
<1> QED
  BY <1>1, <1>2, <1>3, PoolAssumption DEF ChannelExact

\* push() adds the task and, if a task has called async(), resumes it.
LEMMA PushMoves ==
  ASSUME TypeOK, CallersInv, NEW t \in Tasks, push(t)
  PROVE  /\ st[t] = "push" /\ st'[t] = "queued" /\ st' \in [Tasks -> TaskStates]
         /\ \A u \in Tasks \ {t} :
              st'[u] = st[u] \/ (u = parent[t] /\ st[u] \in {"calling", "blocked"} /\ st'[u] = "running")
<1>1. st \in [Tasks -> TaskStates] /\ st[t] = "push" /\ parent[t] \in Tasks \cup {External}
  BY Zenon DEF TypeOK, push
<1>2. CASE parent[t] = External
  <2>1. st' = [st EXCEPT ![t] = "queued"]
    BY <1>2, Zenon DEF push
  <2> QED
    BY <1>1, <2>1, Zenon DEF TaskStates
<1>3. CASE parent[t] # External
  <2>1. st' = [st EXCEPT ![t] = "queued", ![parent[t]] = "running"]
    BY <1>3, Zenon DEF push
  <2>2. parent[t] \in Tasks /\ parent[t] # t /\ st[parent[t]] \in {"calling", "blocked"}
    BY <1>1, <1>3, Zenon DEF CallersInv, CallStates
  <2> QED
    BY <1>1, <2>1, <2>2, Zenon DEF TaskStates, FiberStates
<1> QED
  BY <1>2, <1>3, Zenon

\* The size is above zero when there is something to pop.
LEMMA SizeAboveZero ==
  ASSUME TypeOK, ChannelExact, StatsExact, queue # <<>>
  PROVE  async_queue_size > 0
<1>1. Head(queue) \in In(st, Handed)
  BY HeadQueued, Zenon DEF In, Handed
<1>2. IsFiniteSet(In(st, Handed)) /\ Cardinality(In(st, Handed)) \in Nat
  BY PoolAssumption, FS_Subset, FS_CardinalityType, Zenon DEF In
<1>3. Cardinality(In(st, Handed)) # 0
  BY <1>1, <1>2, FS_EmptySet, Zenon
<1>4. async_queue_size = Cardinality(In(st, Handed))
  BY Zenon DEF StatsExact, In, Handed
<1> QED
  BY <1>2, <1>3, <1>4

\* Every step keeps the types; the channel never holds more than its capacity.
LEMMA TypeStep ==
  ASSUME TypeOK, StatsExact, ChannelExact, CallersInv, [Next]_vars
  PROVE  TypeOK'
<1> USE DEF task_vars, init_vars, stat_vars
<1>1. ASSUME NEW p \in Tasks \cup {External}, NEW t \in Tasks, async(p, t)
     PROVE  TypeOK'
  BY <1>1, PoolAssumption, Zenon DEF async, HasThread, TypeOK, TaskStates, InitStates, FiberStates
<1>2. ASSUME NEW t \in Tasks, init_begin(t)
     PROVE  TypeOK'
  BY <1>2, PoolAssumption, Zenon DEF init_begin, TypeOK, TaskStates, InitStates, FiberStates
<1>3. ASSUME NEW t \in Tasks, init_wait(t)
     PROVE  TypeOK'
  BY <1>3, PoolAssumption, Zenon DEF init_wait, TypeOK, TaskStates, InitStates, FiberStates
<1>4. ASSUME NEW t \in Tasks, init_store(t)
     PROVE  TypeOK'
  BY <1>4, PoolAssumption DEF init_store, TypeOK, TaskStates, InitStates, FiberStates
<1>5. ASSUME NEW t \in Tasks, init_flag(t)
     PROVE  TypeOK'
  BY <1>5, PoolAssumption, Zenon DEF init_flag, TypeOK, TaskStates, InitStates, FiberStates
<1>6. ASSUME NEW t \in Tasks, init_spawn(t)
     PROVE  TypeOK'
  BY <1>6, PoolAssumption, Zenon DEF init_spawn, TypeOK, TaskStates, InitStates, FiberStates
<1>7. ASSUME NEW t \in Tasks, count(t)
     PROVE  TypeOK'
  BY <1>7, PoolAssumption DEF count, TypeOK, TaskStates, InitStates, FiberStates
<1>8. ASSUME NEW t \in Tasks, push(t)
     PROVE  TypeOK'
  <2>1. queue \in Seq(Tasks) /\ Len(queue) < Capacity /\ queue' = Append(queue, t) /\ Len(queue) \in Nat
    BY <1>8 DEF push, TypeOK
  <2>2. queue' \in Seq(Tasks) /\ Len(queue') <= Capacity
    BY <2>1, PoolAssumption
  <2>3. UNCHANGED <<task_vars, init_vars, active_service, async_queue_size, stat_vars>>
    BY <1>8, Zenon DEF push
  <2>4. cur' \in [Workers -> Tasks \cup {None}]
    BY <1>8, Zenon DEF push, TypeOK
  <2> QED
    BY <1>8, <2>2, <2>3, <2>4, PushMoves, Zenon DEF TypeOK
<1>9. ASSUME NEW t \in Tasks, push_blocks(t)
     PROVE  TypeOK'
  BY <1>9, PoolAssumption, Zenon DEF push_blocks, TypeOK, TaskStates, InitStates, FiberStates
<1>10. ASSUME NEW t \in Tasks, start(t)
     PROVE  TypeOK'
  <2>1. /\ async_task_started' = async_task_started + 1 /\ on[t] \in Workers
        /\ prev_as' = [prev_as EXCEPT ![t] = active_service[on[t]]]
        /\ active_service' = [active_service EXCEPT ![on[t]] = Origin[t]]
        /\ st' = [st EXCEPT ![t] = "running"]
        /\ cur' = [cur EXCEPT ![on[t]] = t]
        /\ UNCHANGED <<parent, on, naps, init_vars, queue, async_queue_size, async_task_terminated,
                        async_task_error>>
    BY <1>10, Zenon DEF start, CallersInv
  <2>2. prev_as' \in [Tasks -> Services \cup {None}] /\ active_service' \in [Workers -> Services \cup {None}]
    BY <2>1, PoolAssumption, Zenon DEF TypeOK
  <2>3. st' \in [Tasks -> TaskStates] /\ cur' \in [Workers -> Tasks \cup {None}]
    BY <2>1, Zenon DEF TypeOK, TaskStates, FiberStates
  <2>4. async_task_started' \in Nat
    BY <2>1 DEF TypeOK
  <2> QED
    BY <2>1, <2>2, <2>3, <2>4 DEF TypeOK
<1>11. ASSUME NEW t \in Tasks, suspend(t)
     PROVE  TypeOK'
  <2>1. /\ on[t] \in Workers /\ st' = [st EXCEPT ![t] = "suspended"] /\ cur' = [cur EXCEPT ![on[t]] = None]
        /\ UNCHANGED <<parent, on, init_vars, queue, async_queue_size>>
    BY <1>11, Zenon DEF suspend, Leave, HasThread, CallersInv, FiberStates
  <2>2. st' \in [Tasks -> TaskStates] /\ cur' \in [Workers -> Tasks \cup {None}]
    BY <2>1, Zenon DEF TypeOK, TaskStates, FiberStates
  <2>3. naps' \in 0..MaxNaps /\ UNCHANGED <<prev_as, active_service, stat_vars>>
    BY <1>11, PoolAssumption DEF suspend, TypeOK
  <2> QED
    BY <2>1, <2>2, <2>3, Zenon DEF TypeOK
<1>12. ASSUME NEW t \in Tasks, wait(t)
     PROVE  TypeOK'
  <2>1. /\ on[t] \in Workers /\ st' = [st EXCEPT ![t] = "waiting"] /\ cur' = [cur EXCEPT ![on[t]] = None]
        /\ UNCHANGED <<parent, on, init_vars, queue, async_queue_size>>
    BY <1>12, Zenon DEF wait, Leave, HasThread, CallersInv, FiberStates
  <2>2. st' \in [Tasks -> TaskStates] /\ cur' \in [Workers -> Tasks \cup {None}]
    BY <2>1, Zenon DEF TypeOK, TaskStates, FiberStates
  <2>3. UNCHANGED <<prev_as, naps, active_service, stat_vars>>
    BY <1>12, Zenon DEF wait
  <2> QED
    BY <2>1, <2>2, <2>3, Zenon DEF TypeOK
<1>13. ASSUME NEW t \in Tasks, resume(t)
     PROVE  TypeOK'
  BY <1>13, PoolAssumption, Zenon DEF resume, TypeOK, TaskStates, InitStates, FiberStates
<1>14. ASSUME NEW t \in Tasks, NEW error \in BOOLEAN, finish(t, error)
     PROVE  TypeOK'
  <2>1. /\ on[t] \in Workers /\ st' = [st EXCEPT ![t] = "done"] /\ cur' = [cur EXCEPT ![on[t]] = None]
        /\ UNCHANGED <<parent, on, init_vars, queue, async_queue_size>>
    BY <1>14, Zenon DEF finish, Leave, HasThread, CallersInv, FiberStates
  <2>2. st' \in [Tasks -> TaskStates] /\ cur' \in [Workers -> Tasks \cup {None}]
    BY <2>1, Zenon DEF TypeOK, TaskStates, FiberStates
  <2>3. active_service' = [active_service EXCEPT ![on[t]] = prev_as[t]]
    BY <1>14, Zenon DEF finish
  <2>4. active_service' \in [Workers -> Services \cup {None}]
    BY <2>3, Zenon DEF TypeOK
  <2>5. async_task_error' \in Nat /\ async_task_terminated' \in Nat
    BY <1>14 DEF finish, TypeOK
  <2>6. UNCHANGED <<prev_as, naps, async_task_started>>
    BY <1>14, Zenon DEF finish
  <2> QED
    BY <2>1, <2>2, <2>4, <2>5, <2>6 DEF TypeOK
<1>15. ASSUME NEW w \in Workers, pop(w)
     PROVE  TypeOK'
  <2>1. /\ queue # <<>> /\ queue' = Tail(queue)
        /\ async_queue_size' = async_queue_size - 1
        /\ st' = [st EXCEPT ![Head(queue)] = "ready"] /\ on' = [on EXCEPT ![Head(queue)] = w]
        /\ UNCHANGED <<parent, prev_as, naps, init_vars, cur, active_service, stat_vars>>
    BY <1>15, Zenon DEF pop
  <2>2. queue' \in Seq(Tasks) /\ Len(queue') <= Capacity /\ Head(queue) \in Tasks
    BY <2>1, HeadQueued, Zenon
  <2>3. st' \in [Tasks -> TaskStates] /\ on' \in [Tasks -> Workers \cup {None}]
    BY <2>1, <2>2, Zenon DEF TypeOK, TaskStates
  <2>4. async_queue_size' \in Nat
    <3>1. async_queue_size \in Nat /\ async_queue_size > 0
      BY <2>1, SizeAboveZero, Zenon DEF TypeOK
    <3> QED
      BY <2>1, <3>1
  <2> QED
    BY <2>1, <2>2, <2>3, <2>4, Zenon DEF TypeOK
<1>16. CASE UNCHANGED vars
  BY <1>16, Zenon DEF vars, TypeOK, TaskStates, InitStates, FiberStates
<1> QED
  BY <1>1, <1>2, <1>3, <1>4, <1>5, <1>6, <1>7, <1>8, <1>9, <1>10,
     <1>11, <1>12, <1>13, <1>14, <1>15, <1>16
  DEF Next, Progress, InsideAsync, Finish, Done

\* The once_flag lets one caller of init_workers() create the channel.
LEMMA OnceStep ==
  ASSUME TypeOK, ChannelExact, OnceInv, [Next]_vars
  PROVE  OnceInv'
<1> USE DEF task_vars, init_vars, stat_vars
<1>1. ASSUME NEW p \in Tasks \cup {External}, NEW t \in Tasks, async(p, t)
     PROVE  OnceInv'
  BY <1>1, PoolAssumption DEF async, HasThread, TypeOK, OnceInv, TaskStates, InitStates, FiberStates
<1>2. ASSUME NEW t \in Tasks, init_begin(t)
     PROVE  OnceInv'
  BY <1>2, PoolAssumption DEF init_begin, TypeOK, OnceInv, TaskStates, InitStates, FiberStates
<1>3. ASSUME NEW t \in Tasks, init_wait(t)
     PROVE  OnceInv'
  BY <1>3, PoolAssumption, Zenon DEF init_wait, TypeOK, OnceInv, TaskStates, InitStates, FiberStates
<1>4. ASSUME NEW t \in Tasks, init_store(t)
     PROVE  OnceInv'
  BY <1>4, PoolAssumption DEF init_store, TypeOK, OnceInv, TaskStates, InitStates, FiberStates
<1>5. ASSUME NEW t \in Tasks, init_flag(t)
     PROVE  OnceInv'
  BY <1>5, PoolAssumption, Zenon DEF init_flag, TypeOK, OnceInv, TaskStates, InitStates, FiberStates
<1>6. ASSUME NEW t \in Tasks, init_spawn(t)
     PROVE  OnceInv'
  BY <1>6, PoolAssumption DEF init_spawn, TypeOK, OnceInv, TaskStates, InitStates, FiberStates
<1>7. ASSUME NEW t \in Tasks, count(t)
     PROVE  OnceInv'
  BY <1>7, PoolAssumption DEF count, TypeOK, OnceInv, TaskStates, InitStates, FiberStates
<1>8. ASSUME NEW t \in Tasks, push(t)
     PROVE  OnceInv'
  BY <1>8, PoolAssumption DEF push, TypeOK, OnceInv, TaskStates, InitStates, FiberStates
<1>9. ASSUME NEW t \in Tasks, push_blocks(t)
     PROVE  OnceInv'
  BY <1>9, PoolAssumption DEF push_blocks, TypeOK, OnceInv, TaskStates, InitStates, FiberStates
<1>10. ASSUME NEW t \in Tasks, start(t)
     PROVE  OnceInv'
  BY <1>10, PoolAssumption DEF start, TypeOK, OnceInv, TaskStates, InitStates, FiberStates
<1>11. ASSUME NEW t \in Tasks, suspend(t)
     PROVE  OnceInv'
  BY <1>11, PoolAssumption DEF suspend, Leave, HasThread, TypeOK, OnceInv, TaskStates, InitStates, FiberStates
<1>12. ASSUME NEW t \in Tasks, wait(t)
     PROVE  OnceInv'
  BY <1>12, PoolAssumption DEF wait, Leave, HasThread, TypeOK, OnceInv, TaskStates, InitStates, FiberStates
<1>13. ASSUME NEW t \in Tasks, resume(t)
     PROVE  OnceInv'
  BY <1>13, PoolAssumption DEF resume, TypeOK, OnceInv, TaskStates, InitStates, FiberStates
<1>14. ASSUME NEW t \in Tasks, NEW error \in BOOLEAN, finish(t, error)
     PROVE  OnceInv'
  BY <1>14, PoolAssumption DEF finish, Leave, HasThread, TypeOK, OnceInv, TaskStates, InitStates, FiberStates
<1>15. ASSUME NEW w \in Workers, pop(w)
     PROVE  OnceInv'
  <2>1. /\ Head(queue) \in Tasks /\ st[Head(queue)] = "queued"
        /\ st' = [st EXCEPT ![Head(queue)] = "ready"] /\ UNCHANGED init_vars
    BY <1>15, HeadQueued, Zenon DEF pop
  <2> QED
    BY <2>1, Zenon DEF TypeOK, OnceInv, InitStates
<1>16. CASE UNCHANGED vars
  BY <1>16, Zenon DEF vars, TypeOK, OnceInv, TaskStates, InitStates, FiberStates
<1> QED
  BY <1>1, <1>2, <1>3, <1>4, <1>5, <1>6, <1>7, <1>8, <1>9, <1>10,
     <1>11, <1>12, <1>13, <1>14, <1>15, <1>16
  DEF Next, Progress, InsideAsync, Finish, Done

\* A task enters the channel when it is pushed and leaves it when it is popped.
LEMMA ChannelStep ==
  ASSUME TypeOK, ChannelExact, CallersInv, [Next]_vars
  PROVE  ChannelExact'
<1> USE DEF task_vars, init_vars, stat_vars
<1>1. ASSUME NEW p \in Tasks \cup {External}, NEW t \in Tasks, async(p, t)
     PROVE  ChannelExact'
  BY <1>1, PoolAssumption DEF async, HasThread, TypeOK, ChannelExact, CallersInv, CallStates, TaskStates, InitStates, FiberStates
<1>2. ASSUME NEW t \in Tasks, init_begin(t)
     PROVE  ChannelExact'
  BY <1>2, PoolAssumption DEF init_begin, TypeOK, ChannelExact, CallersInv, CallStates, TaskStates, InitStates, FiberStates
<1>3. ASSUME NEW t \in Tasks, init_wait(t)
     PROVE  ChannelExact'
  BY <1>3, PoolAssumption DEF init_wait, TypeOK, ChannelExact, CallersInv, CallStates, TaskStates, InitStates, FiberStates
<1>4. ASSUME NEW t \in Tasks, init_store(t)
     PROVE  ChannelExact'
  BY <1>4, PoolAssumption DEF init_store, TypeOK, ChannelExact, CallersInv, CallStates, TaskStates, InitStates, FiberStates
<1>5. ASSUME NEW t \in Tasks, init_flag(t)
     PROVE  ChannelExact'
  BY <1>5, PoolAssumption DEF init_flag, TypeOK, ChannelExact, CallersInv, CallStates, TaskStates, InitStates, FiberStates
<1>6. ASSUME NEW t \in Tasks, init_spawn(t)
     PROVE  ChannelExact'
  BY <1>6, PoolAssumption DEF init_spawn, TypeOK, ChannelExact, CallersInv, CallStates, TaskStates, InitStates, FiberStates
<1>7. ASSUME NEW t \in Tasks, count(t)
     PROVE  ChannelExact'
  BY <1>7, PoolAssumption DEF count, TypeOK, ChannelExact, CallersInv, CallStates, TaskStates, InitStates, FiberStates
<1>8. ASSUME NEW t \in Tasks, push(t)
     PROVE  ChannelExact'
  <2>1. queue \in Seq(Tasks) /\ Len(queue) \in Nat /\ queue' = Append(queue, t)
    BY <1>8 DEF push, TypeOK
  <2>2. /\ Len(queue') = Len(queue) + 1 /\ queue'[Len(queue) + 1] = t
        /\ \A i \in 1..Len(queue) : queue'[i] = queue[i]
    BY <2>1
  <2>3. \A i \in 1..Len(queue) : queue[i] \in Tasks /\ queue[i] # t /\ st'[queue[i]] = "queued"
    BY <1>8, <2>1, PushMoves DEF ChannelExact
  <2> QED
    BY <1>8, <2>1, <2>2, <2>3, PushMoves DEF ChannelExact
<1>9. ASSUME NEW t \in Tasks, push_blocks(t)
     PROVE  ChannelExact'
  BY <1>9, PoolAssumption, SMTT(120) DEF push_blocks, TypeOK, ChannelExact, CallersInv, CallStates, TaskStates, InitStates, FiberStates
<1>10. ASSUME NEW t \in Tasks, start(t)
     PROVE  ChannelExact'
  BY <1>10, PoolAssumption DEF start, TypeOK, ChannelExact, CallersInv, CallStates, TaskStates, InitStates, FiberStates
<1>11. ASSUME NEW t \in Tasks, suspend(t)
     PROVE  ChannelExact'
  BY <1>11, PoolAssumption DEF suspend, Leave, HasThread, TypeOK, ChannelExact, CallersInv, CallStates, TaskStates, InitStates, FiberStates
<1>12. ASSUME NEW t \in Tasks, wait(t)
     PROVE  ChannelExact'
  BY <1>12, PoolAssumption DEF wait, Leave, HasThread, TypeOK, ChannelExact, CallersInv, CallStates, TaskStates, InitStates, FiberStates
<1>13. ASSUME NEW t \in Tasks, resume(t)
     PROVE  ChannelExact'
  BY <1>13, PoolAssumption DEF resume, TypeOK, ChannelExact, CallersInv, CallStates, TaskStates, InitStates, FiberStates
<1>14. ASSUME NEW t \in Tasks, NEW error \in BOOLEAN, finish(t, error)
     PROVE  ChannelExact'
  BY <1>14, PoolAssumption DEF finish, Leave, HasThread, TypeOK, ChannelExact, CallersInv, CallStates, TaskStates, InitStates, FiberStates
<1>15. ASSUME NEW w \in Workers, pop(w)
     PROVE  ChannelExact'
  BY <1>15, PoolAssumption DEF pop, TypeOK, ChannelExact, CallersInv, CallStates, TaskStates, InitStates, FiberStates
<1>16. CASE UNCHANGED vars
  BY <1>16 DEF vars, TypeOK, ChannelExact, CallersInv, CallStates, TaskStates, InitStates, FiberStates
<1> QED
  BY <1>1, <1>2, <1>3, <1>4, <1>5, <1>6, <1>7, <1>8, <1>9, <1>10,
     <1>11, <1>12, <1>13, <1>14, <1>15, <1>16
  DEF Next, Progress, InsideAsync, Finish, Done

\* A task that has called async() does nothing else until the call returns.
LEMMA CallersStep ==
  ASSUME TypeOK, ChannelExact, CallersInv, [Next]_vars
  PROVE  CallersInv'
<1> USE DEF task_vars, init_vars, stat_vars
<1>1. ASSUME NEW p \in Tasks \cup {External}, NEW t \in Tasks, async(p, t)
     PROVE  CallersInv'
  <2>1. /\ st[t] = "new" /\ p # t /\ parent' = [parent EXCEPT ![t] = p] /\ on' = on
        /\ p # External => p \in Tasks /\ st[p] = "running"
    BY <1>1, PoolAssumption, Zenon DEF async, HasThread
  <2>2. st'[t] \in {"count", "init"} /\ \A u \in Tasks \ {t} : st'[u] = IF u = p THEN "calling" ELSE st[u]
    BY <1>1, <2>1, Zenon DEF async
  <2>3. parent'[t] = p /\ \A u \in Tasks \ {t} : parent'[u] = parent[u]
    BY <2>1, Zenon DEF TypeOK
  <2>4. ASSUME NEW u \in Tasks, st'[u] \in {"ready"} \cup FiberStates
        PROVE  on'[u] \in Workers
    <3>1. u # t
      BY <2>2, <2>4, Zenon DEF FiberStates
    <3>2. st[u] \in {"ready"} \cup FiberStates
      <4>1. CASE u = p
        BY <2>1, <4>1, PoolAssumption, Zenon DEF FiberStates
      <4>2. CASE u # p
        BY <2>2, <2>4, <3>1, <4>2, Zenon
      <4> QED
        BY <4>1, <4>2, Zenon
    <3> QED
      BY <2>1, <3>2, Zenon DEF CallersInv
  <2>5. ASSUME NEW u \in Tasks, u # t, st'[u] \in CallStates
        PROVE  u # p /\ st[u] \in CallStates /\ parent[u] # t /\ parent'[u] = parent[u]
               /\ (parent[u] # External => parent[u] # p /\ st'[parent[u]] = st[parent[u]])
    <3>1. u # p /\ st[u] \in CallStates
      BY <2>2, <2>5, Zenon DEF CallStates, InitStates
    <3>2. parent[u] # External => parent[u] \in Tasks /\ st[parent[u]] \in {"calling", "blocked"}
      BY <3>1, Zenon DEF CallersInv, TypeOK
    <3> QED
      BY <2>1, <2>2, <2>3, <2>5, <3>1, <3>2, PoolAssumption, Zenon
  <2>6. ASSUME NEW u \in Tasks, st'[u] \in CallStates, parent'[u] # External
        PROVE  /\ parent'[u] # u /\ st'[parent'[u]] \in {"calling", "blocked"}
               /\ \A v \in Tasks : st'[v] \in CallStates /\ parent'[v] = parent'[u] => v = u
    <3>1. CASE u = t
      BY <2>1, <2>2, <2>3, <2>5, <2>6, <3>1
    <3>2. CASE u # t
      BY <2>3, <2>5, <2>6, <3>2 DEF CallersInv
    <3> QED
      BY <3>1, <3>2, Zenon
  <2> QED
    BY <2>4, <2>6, Zenon DEF CallersInv
<1>2. ASSUME NEW t \in Tasks, init_begin(t)
     PROVE  CallersInv'
  BY <1>2, PoolAssumption DEF init_begin, TypeOK, ChannelExact, CallersInv, CallStates, TaskStates, InitStates, FiberStates
<1>3. ASSUME NEW t \in Tasks, init_wait(t)
     PROVE  CallersInv'
  BY <1>3, PoolAssumption DEF init_wait, TypeOK, ChannelExact, CallersInv, CallStates, TaskStates, InitStates, FiberStates
<1>4. ASSUME NEW t \in Tasks, init_store(t)
     PROVE  CallersInv'
  BY <1>4, PoolAssumption DEF init_store, TypeOK, ChannelExact, CallersInv, CallStates, TaskStates, InitStates, FiberStates
<1>5. ASSUME NEW t \in Tasks, init_flag(t)
     PROVE  CallersInv'
  BY <1>5, PoolAssumption DEF init_flag, TypeOK, ChannelExact, CallersInv, CallStates, TaskStates, InitStates, FiberStates
<1>6. ASSUME NEW t \in Tasks, init_spawn(t)
     PROVE  CallersInv'
  BY <1>6, PoolAssumption DEF init_spawn, TypeOK, ChannelExact, CallersInv, CallStates, TaskStates, InitStates, FiberStates
<1>7. ASSUME NEW t \in Tasks, count(t)
     PROVE  CallersInv'
  BY <1>7, PoolAssumption DEF count, TypeOK, ChannelExact, CallersInv, CallStates, TaskStates, InitStates, FiberStates
<1>8. ASSUME NEW t \in Tasks, push(t)
     PROVE  CallersInv'
  BY <1>8, PoolAssumption, SMTT(120) DEF push, TypeOK, ChannelExact, CallersInv, CallStates, TaskStates, InitStates, FiberStates
<1>9. ASSUME NEW t \in Tasks, push_blocks(t)
     PROVE  CallersInv'
  BY <1>9, PoolAssumption DEF push_blocks, TypeOK, ChannelExact, CallersInv, CallStates, TaskStates, InitStates, FiberStates
<1>10. ASSUME NEW t \in Tasks, start(t)
     PROVE  CallersInv'
  BY <1>10, PoolAssumption DEF start, TypeOK, ChannelExact, CallersInv, CallStates, TaskStates, InitStates, FiberStates
<1>11. ASSUME NEW t \in Tasks, suspend(t)
     PROVE  CallersInv'
  BY <1>11, PoolAssumption DEF suspend, Leave, HasThread, TypeOK, ChannelExact, CallersInv, CallStates, TaskStates, InitStates, FiberStates
<1>12. ASSUME NEW t \in Tasks, wait(t)
     PROVE  CallersInv'
  BY <1>12, PoolAssumption DEF wait, Leave, HasThread, TypeOK, ChannelExact, CallersInv, CallStates, TaskStates, InitStates, FiberStates
<1>13. ASSUME NEW t \in Tasks, resume(t)
     PROVE  CallersInv'
  BY <1>13, PoolAssumption DEF resume, TypeOK, ChannelExact, CallersInv, CallStates, TaskStates, InitStates, FiberStates
<1>14. ASSUME NEW t \in Tasks, NEW error \in BOOLEAN, finish(t, error)
     PROVE  CallersInv'
  BY <1>14, PoolAssumption, SMTT(120) DEF finish, Leave, HasThread, TypeOK, ChannelExact, CallersInv, CallStates, TaskStates, InitStates, FiberStates
<1>15. ASSUME NEW w \in Workers, pop(w)
     PROVE  CallersInv'
  BY <1>15, PoolAssumption, SMTT(120) DEF pop, TypeOK, ChannelExact, CallersInv, CallStates, TaskStates, InitStates, FiberStates
<1>16. CASE UNCHANGED vars
  BY <1>16 DEF vars, TypeOK, ChannelExact, CallersInv, CallStates, TaskStates, InitStates, FiberStates
<1> QED
  BY <1>1, <1>2, <1>3, <1>4, <1>5, <1>6, <1>7, <1>8, <1>9, <1>10,
     <1>11, <1>12, <1>13, <1>14, <1>15, <1>16
  DEF Next, Progress, InsideAsync, Finish, Done

\* StatsExact in terms of the counts of tasks.
LEMMA StatsMean ==
  /\ StatsExact <=> /\ TypeOK
                    /\ async_queue_size = Cardinality(In(st, Handed))
                    /\ async_task_started = async_task_terminated + Cardinality(In(st, FiberStates))
                    /\ async_task_error <= async_task_terminated
  /\ StatsExact' <=> /\ TypeOK'
                     /\ async_queue_size' = Cardinality(In(st', Handed))
                     /\ async_task_started' = async_task_terminated' + Cardinality(In(st', FiberStates))
                     /\ async_task_error' <= async_task_terminated'
  BY Zenon DEF StatsExact, In, Handed

\* A step that moves the task t, and any other task only from one state inside
\* its body to another, keeps the counters exact if they follow t.
LEMMA StatsMove ==
  ASSUME StatsExact, TypeOK', NEW t \in Tasks,
         \A u \in Tasks \ {t} : st'[u] = st[u] \/ {st[u], st'[u]} \subseteq FiberStates,
         Follows(async_queue_size, async_queue_size', t, Handed),
         Follows(async_task_started - async_task_terminated, async_task_started' - async_task_terminated',
                 t, FiberStates),
         async_task_error' - async_task_error <= async_task_terminated' - async_task_terminated
  PROVE  StatsExact'
<1>0. \A u \in Tasks \ {t} : st'[u] \in FiberStates <=> st[u] \in FiberStates
  BY Zenon DEF FiberStates
<1>1. \A u \in Tasks \ {t} : st'[u] \in Handed <=> st[u] \in Handed
  BY Zenon DEF FiberStates, Handed
<1> DEFINE nf == Cardinality(In(st, FiberStates))
           mf == Cardinality(In(st', FiberStates))
           nh == Cardinality(In(st, Handed))
           mh == Cardinality(In(st', Handed))
<1>2. /\ nf \in Nat /\ mf \in Nat
      /\ (st[t] \in FiberStates <=> st'[t] \in FiberStates) => mf = nf
      /\ st[t] \notin FiberStates /\ st'[t] \in FiberStates => mf = nf + 1
      /\ st[t] \in FiberStates /\ st'[t] \notin FiberStates => nf = mf + 1
  BY <1>0, CountMoves, Zenon
<1>3. /\ nh \in Nat /\ mh \in Nat
      /\ (st[t] \in Handed <=> st'[t] \in Handed) => mh = nh
      /\ st[t] \notin Handed /\ st'[t] \in Handed => mh = nh + 1
      /\ st[t] \in Handed /\ st'[t] \notin Handed => nh = mh + 1
  BY <1>1, CountMoves, Zenon
<1>4. /\ async_queue_size = nh /\ async_task_started = async_task_terminated + nf
      /\ async_task_error <= async_task_terminated
      /\ (async_queue_size' = mh /\ async_task_started' = async_task_terminated' + mf
          /\ async_task_error' <= async_task_terminated') => StatsExact'
  BY StatsMean, Zenon
<1>5. {async_queue_size, async_queue_size', async_task_started, async_task_started', async_task_terminated,
       async_task_terminated', async_task_error, async_task_error'} \subseteq Nat
  BY Zenon DEF StatsExact, TypeOK
<1> HIDE DEF nf, mf, nh, mh
<1>6. async_queue_size' = mh
  BY <1>3, <1>4, <1>5, SMTT(120) DEF Follows
<1>7. async_task_started' = async_task_terminated' + mf
  BY <1>2, <1>4, <1>5 DEF Follows
<1>8. async_task_error' <= async_task_terminated'
  BY <1>4, <1>5
<1> QED
  BY <1>4, <1>6, <1>7, <1>8, Zenon

\* Each counter follows the tasks: it changes in the step that moves one.
LEMMA StatsStep ==
  ASSUME StatsExact, TypeOK', ChannelExact, CallersInv, [Next]_vars
  PROVE  StatsExact'
<1> USE DEF task_vars, init_vars, stat_vars
<1>0. StatsExact /\ TypeOK'
  BY Zenon
<1>1. ASSUME NEW p \in Tasks \cup {External}, NEW t \in Tasks, async(p, t)
     PROVE  StatsExact'
  <2>1. /\ st[t] = "new" /\ st'[t] \in {"count", "init"}
        /\ \A u \in Tasks \ {t} : st'[u] = st[u] \/ {st[u], st'[u]} \subseteq FiberStates
    BY <1>1, PoolAssumption DEF async, HasThread, TypeOK, StatsExact, FiberStates
  <2>2. /\ Follows(async_queue_size, async_queue_size', t, Handed)
        /\ Follows(async_task_started - async_task_terminated, async_task_started' - async_task_terminated',
                   t, FiberStates)
        /\ async_task_error' - async_task_error <= async_task_terminated' - async_task_terminated
    BY <1>1, <2>1 DEF async, HasThread, TypeOK, StatsExact, Follows, Handed, FiberStates
  <2> QED
    BY <1>0, <2>1, <2>2, StatsMove, Zenon
<1>2. ASSUME NEW t \in Tasks, init_begin(t)
     PROVE  StatsExact'
  <2>1. /\ st[t] = "init" /\ st'[t] = "store"
        /\ \A u \in Tasks \ {t} : st'[u] = st[u] \/ {st[u], st'[u]} \subseteq FiberStates
    BY <1>2, PoolAssumption, Zenon DEF init_begin, TypeOK, StatsExact, FiberStates
  <2>2. /\ Follows(async_queue_size, async_queue_size', t, Handed)
        /\ Follows(async_task_started - async_task_terminated, async_task_started' - async_task_terminated',
                   t, FiberStates)
        /\ async_task_error' - async_task_error <= async_task_terminated' - async_task_terminated
    BY <1>2, <2>1, SMTT(120) DEF init_begin, TypeOK, StatsExact, Follows, Handed, FiberStates
  <2> QED
    BY <1>0, <2>1, <2>2, StatsMove, Zenon
<1>3. ASSUME NEW t \in Tasks, init_wait(t)
     PROVE  StatsExact'
  <2>1. /\ st[t] = "init" /\ st'[t] = "count"
        /\ \A u \in Tasks \ {t} : st'[u] = st[u] \/ {st[u], st'[u]} \subseteq FiberStates
    BY <1>3, PoolAssumption, Zenon DEF init_wait, TypeOK, StatsExact, FiberStates
  <2>2. /\ Follows(async_queue_size, async_queue_size', t, Handed)
        /\ Follows(async_task_started - async_task_terminated, async_task_started' - async_task_terminated',
                   t, FiberStates)
        /\ async_task_error' - async_task_error <= async_task_terminated' - async_task_terminated
    BY <1>3, <2>1, SMTT(120) DEF init_wait, TypeOK, StatsExact, Follows, Handed, FiberStates
  <2> QED
    BY <1>0, <2>1, <2>2, StatsMove, Zenon
<1>4. ASSUME NEW t \in Tasks, init_store(t)
     PROVE  StatsExact'
  <2>1. /\ st[t] = "store" /\ st'[t] = "flag"
        /\ \A u \in Tasks \ {t} : st'[u] = st[u] \/ {st[u], st'[u]} \subseteq FiberStates
    BY <1>4, PoolAssumption, Zenon DEF init_store, TypeOK, StatsExact, FiberStates
  <2>2. /\ Follows(async_queue_size, async_queue_size', t, Handed)
        /\ Follows(async_task_started - async_task_terminated, async_task_started' - async_task_terminated',
                   t, FiberStates)
        /\ async_task_error' - async_task_error <= async_task_terminated' - async_task_terminated
    BY <1>4, <2>1, SMTT(120) DEF init_store, TypeOK, StatsExact, Follows, Handed, FiberStates
  <2> QED
    BY <1>0, <2>1, <2>2, StatsMove, Zenon
<1>5. ASSUME NEW t \in Tasks, init_flag(t)
     PROVE  StatsExact'
  <2>1. /\ st[t] = "flag" /\ st'[t] = "spawn"
        /\ \A u \in Tasks \ {t} : st'[u] = st[u] \/ {st[u], st'[u]} \subseteq FiberStates
    BY <1>5, PoolAssumption, Zenon DEF init_flag, TypeOK, StatsExact, FiberStates
  <2>2. /\ Follows(async_queue_size, async_queue_size', t, Handed)
        /\ Follows(async_task_started - async_task_terminated, async_task_started' - async_task_terminated',
                   t, FiberStates)
        /\ async_task_error' - async_task_error <= async_task_terminated' - async_task_terminated
    BY <1>5, <2>1, SMTT(120) DEF init_flag, TypeOK, StatsExact, Follows, Handed, FiberStates
  <2> QED
    BY <1>0, <2>1, <2>2, StatsMove, Zenon
<1>6. ASSUME NEW t \in Tasks, init_spawn(t)
     PROVE  StatsExact'
  <2>1. /\ st[t] = "spawn" /\ st'[t] \in {"spawn", "count"}
        /\ \A u \in Tasks \ {t} : st'[u] = st[u] \/ {st[u], st'[u]} \subseteq FiberStates
    BY <1>6, PoolAssumption DEF init_spawn, TypeOK, StatsExact, FiberStates
  <2>2. /\ Follows(async_queue_size, async_queue_size', t, Handed)
        /\ Follows(async_task_started - async_task_terminated, async_task_started' - async_task_terminated',
                   t, FiberStates)
        /\ async_task_error' - async_task_error <= async_task_terminated' - async_task_terminated
    BY <1>6, <2>1, SMTT(120) DEF init_spawn, TypeOK, StatsExact, Follows, Handed, FiberStates
  <2> QED
    BY <1>0, <2>1, <2>2, StatsMove, Zenon
<1>7. ASSUME NEW t \in Tasks, count(t)
     PROVE  StatsExact'
  <2>1. /\ st[t] = "count" /\ st'[t] = "push"
        /\ \A u \in Tasks \ {t} : st'[u] = st[u] \/ {st[u], st'[u]} \subseteq FiberStates
    BY <1>7, PoolAssumption, Zenon DEF count, TypeOK, StatsExact, FiberStates
  <2>2. /\ Follows(async_queue_size, async_queue_size', t, Handed)
        /\ Follows(async_task_started - async_task_terminated, async_task_started' - async_task_terminated',
                   t, FiberStates)
        /\ async_task_error' - async_task_error <= async_task_terminated' - async_task_terminated
    BY <1>7, <2>1, SMTT(120) DEF count, TypeOK, StatsExact, Follows, Handed, FiberStates
  <2> QED
    BY <1>0, <2>1, <2>2, StatsMove, Zenon
<1>8. ASSUME NEW t \in Tasks, push(t)
     PROVE  StatsExact'
  <2>1. st[t] = "push" /\ st'[t] = "queued"
        /\ \A u \in Tasks \ {t} : st'[u] = st[u] \/ {st[u], st'[u]} \subseteq FiberStates
    BY <1>8, PushMoves, Zenon DEF StatsExact, FiberStates
  <2>2. /\ Follows(async_queue_size, async_queue_size', t, Handed)
        /\ Follows(async_task_started - async_task_terminated, async_task_started' - async_task_terminated',
                   t, FiberStates)
        /\ async_task_error' - async_task_error <= async_task_terminated' - async_task_terminated
    BY <1>8, <2>1, SMTT(120) DEF push, TypeOK, StatsExact, Follows, Handed, FiberStates
  <2> QED
    BY <1>0, <2>1, <2>2, StatsMove, Zenon
<1>9. ASSUME NEW t \in Tasks, push_blocks(t)
     PROVE  StatsExact'
  <2>1. parent[t] \in Tasks /\ st[parent[t]] = "calling" /\ st' = [st EXCEPT ![parent[t]] = "blocked"]
    BY <1>9, Zenon DEF push_blocks, TypeOK, StatsExact
  <2>2. /\ st[t] = "push" /\ st'[t] = "push"
        /\ \A u \in Tasks \ {t} : st'[u] = st[u] \/ {st[u], st'[u]} \subseteq FiberStates
    BY <1>9, <2>1, Zenon DEF push_blocks, TypeOK, StatsExact, FiberStates
  <2>3. /\ Follows(async_queue_size, async_queue_size', t, Handed)
        /\ Follows(async_task_started - async_task_terminated, async_task_started' - async_task_terminated',
                   t, FiberStates)
        /\ async_task_error' - async_task_error <= async_task_terminated' - async_task_terminated
    BY <1>9, <2>2, SMTT(120) DEF push_blocks, TypeOK, StatsExact, Follows, Handed, FiberStates
  <2> QED
    BY <1>0, <2>2, <2>3, StatsMove, Zenon
<1>10. ASSUME NEW t \in Tasks, start(t)
     PROVE  StatsExact'
  <2>1. /\ st[t] = "ready" /\ st'[t] = "running"
        /\ \A u \in Tasks \ {t} : st'[u] = st[u] \/ {st[u], st'[u]} \subseteq FiberStates
    BY <1>10, PoolAssumption, SMTT(120) DEF start, TypeOK, StatsExact, FiberStates
  <2>2. /\ Follows(async_queue_size, async_queue_size', t, Handed)
        /\ Follows(async_task_started - async_task_terminated, async_task_started' - async_task_terminated',
                   t, FiberStates)
        /\ async_task_error' - async_task_error <= async_task_terminated' - async_task_terminated
    BY <1>10, <2>1, SMTT(120) DEF start, TypeOK, StatsExact, Follows, Handed, FiberStates
  <2> QED
    BY <1>0, <2>1, <2>2, StatsMove, Zenon
<1>11. ASSUME NEW t \in Tasks, suspend(t)
     PROVE  StatsExact'
  <2>1. /\ st[t] = "running" /\ st'[t] = "suspended"
        /\ \A u \in Tasks \ {t} : st'[u] = st[u] \/ {st[u], st'[u]} \subseteq FiberStates
    BY <1>11, PoolAssumption DEF suspend, Leave, HasThread, TypeOK, StatsExact, FiberStates
  <2>2. /\ Follows(async_queue_size, async_queue_size', t, Handed)
        /\ Follows(async_task_started - async_task_terminated, async_task_started' - async_task_terminated',
                   t, FiberStates)
        /\ async_task_error' - async_task_error <= async_task_terminated' - async_task_terminated
    BY <1>11, <2>1, SMTT(120) DEF suspend, Leave, HasThread, TypeOK, StatsExact, Follows, Handed, FiberStates
  <2> QED
    BY <1>0, <2>1, <2>2, StatsMove, Zenon
<1>12. ASSUME NEW t \in Tasks, wait(t)
     PROVE  StatsExact'
  <2>1. /\ st[t] = "running" /\ st'[t] = "waiting"
        /\ \A u \in Tasks \ {t} : st'[u] = st[u] \/ {st[u], st'[u]} \subseteq FiberStates
    BY <1>12, PoolAssumption DEF wait, Leave, HasThread, TypeOK, StatsExact, FiberStates
  <2>2. /\ Follows(async_queue_size, async_queue_size', t, Handed)
        /\ Follows(async_task_started - async_task_terminated, async_task_started' - async_task_terminated',
                   t, FiberStates)
        /\ async_task_error' - async_task_error <= async_task_terminated' - async_task_terminated
    BY <1>12, <2>1, SMTT(120) DEF wait, Leave, HasThread, TypeOK, StatsExact, Follows, Handed, FiberStates
  <2> QED
    BY <1>0, <2>1, <2>2, StatsMove, Zenon
<1>13. ASSUME NEW t \in Tasks, resume(t)
     PROVE  StatsExact'
  <2>1. /\ st[t] \in {"suspended", "waiting"} /\ st'[t] = "running"
        /\ \A u \in Tasks \ {t} : st'[u] = st[u] \/ {st[u], st'[u]} \subseteq FiberStates
    BY <1>13, PoolAssumption, SMTT(120) DEF resume, TypeOK, StatsExact, FiberStates
  <2>2. /\ Follows(async_queue_size, async_queue_size', t, Handed)
        /\ Follows(async_task_started - async_task_terminated, async_task_started' - async_task_terminated',
                   t, FiberStates)
        /\ async_task_error' - async_task_error <= async_task_terminated' - async_task_terminated
    BY <1>13, <2>1, SMTT(120) DEF resume, TypeOK, StatsExact, Follows, Handed, FiberStates
  <2> QED
    BY <1>0, <2>1, <2>2, StatsMove, Zenon
<1>14. ASSUME NEW t \in Tasks, NEW error \in BOOLEAN, finish(t, error)
     PROVE  StatsExact'
  <2>1. /\ st[t] = "running" /\ st'[t] = "done"
        /\ \A u \in Tasks \ {t} : st'[u] = st[u] \/ {st[u], st'[u]} \subseteq FiberStates
    BY <1>14, PoolAssumption, SMTT(120) DEF finish, Leave, HasThread, TypeOK, StatsExact, FiberStates
  <2>2. /\ Follows(async_queue_size, async_queue_size', t, Handed)
        /\ Follows(async_task_started - async_task_terminated, async_task_started' - async_task_terminated',
                   t, FiberStates)
        /\ async_task_error' - async_task_error <= async_task_terminated' - async_task_terminated
    BY <1>14, <2>1, SMTT(120) DEF finish, Leave, HasThread, TypeOK, StatsExact, Follows, Handed, FiberStates
  <2> QED
    BY <1>0, <2>1, <2>2, StatsMove, Zenon
<1>15. ASSUME NEW w \in Workers, pop(w)
     PROVE  StatsExact'
  <2> DEFINE h == Head(queue)
  <2>0. h \in Tasks /\ st[h] = "queued" /\ st' = [st EXCEPT ![h] = "ready"]
    BY <1>15, HeadQueued, Zenon DEF pop, StatsExact
  <2> HIDE DEF h
  <2>1. /\ st[h] = "queued" /\ st'[h] = "ready"
        /\ \A u \in Tasks \ {h} : st'[u] = st[u] \/ {st[u], st'[u]} \subseteq FiberStates
    BY <2>0, Zenon DEF TypeOK, StatsExact, FiberStates
  <2>2. /\ Follows(async_queue_size, async_queue_size', h, Handed)
        /\ Follows(async_task_started - async_task_terminated, async_task_started' - async_task_terminated',
                   h, FiberStates)
        /\ async_task_error' - async_task_error <= async_task_terminated' - async_task_terminated
    BY <1>15, <2>1, SMTT(120) DEF pop, TypeOK, StatsExact, Follows, Handed, FiberStates
  <2> QED
    BY <1>0, <2>0, <2>1, <2>2, StatsMove, Zenon
<1>16. CASE UNCHANGED vars
  BY <1>16, Zenon DEF vars, StatsExact, TypeOK
<1> QED
  BY <1>1, <1>2, <1>3, <1>4, <1>5, <1>6, <1>7, <1>8, <1>9, <1>10,
     <1>11, <1>12, <1>13, <1>14, <1>15, <1>16
  DEF Next, Progress, InsideAsync, Finish, Done

-----------------------------------------------------------------------------
(* The theorems *)

\* What the steps preserve.
PoolInv == TypeOK /\ OnceInv /\ ChannelExact /\ CallersInv /\ StatsExact

\* Nothing has been called.
LEMMA PoolInitially ==
  ASSUME Init
  PROVE  PoolInv
<1>1. TypeOK
  <2>1. naps \in 0..MaxNaps /\ Len(queue) <= Capacity /\ queue \in Seq(Tasks)
    BY PoolAssumption DEF Init
  <2>2. {async_queue_size, async_task_started, async_task_terminated, async_task_error} \subseteq Nat
    BY DEF Init
  <2> QED
    BY <2>1, <2>2, Zenon DEF Init, TypeOK, TaskStates
<1>2. OnceInv /\ ChannelExact /\ CallersInv
  BY DEF Init, OnceInv, ChannelExact, CallersInv, CallStates, InitStates, FiberStates
<1>3. In(st, Handed) = {} /\ In(st, FiberStates) = {}
  BY Zenon DEF Init, In, Handed, FiberStates
<1>4. Cardinality(In(st, Handed)) = 0 /\ Cardinality(In(st, FiberStates)) = 0
  BY <1>3, FS_EmptySet, Zenon
<1>5. StatsExact
  BY <1>1, <1>4, StatsMean DEF Init
<1> QED
  BY <1>1, <1>2, <1>5, Zenon DEF PoolInv

\* Every step of any thread keeps all of it.
LEMMA PoolStep ==
  ASSUME PoolInv, [Next]_vars
  PROVE  PoolInv'
  BY TypeStep, OnceStep, ChannelStep, CallersStep, StatsStep, Zenon DEF PoolInv

\* However many threads call async() first, at the same time, init_workers()
\* creates one channel, and no call gets past it before the channel is there.
THEOREM OnePoolMade == Spec => []OnePool
<1>1. PoolInv => OnePool
  BY DEF PoolInv, OnceInv, OnePool
<1> QED
  BY <1>1, PoolInitially, PoolStep, PTL DEF Spec

\* get_async_stats() adds up in every state, for any number of tasks, workers
\* and slots: no counter is ever read before or after its task has moved.
THEOREM StatsAddUp == Spec => []StatsExact
<1>1. PoolInv => StatsExact
  BY Zenon DEF PoolInv
<1> QED
  BY <1>1, PoolInitially, PoolStep, PTL DEF Spec

=============================================================================
