# A TLA+ model of libasyik

libasyik is a C++ microframework on Boost.Asio, Boost.Fiber and Boost.Beast.
A `service` is one OS thread that runs cooperative fibers and an `io_context`;
around it there are a process-wide pool of worker threads, a TTL cache, a rate
limiter, SQL sessions and an HTTP server and client. This directory holds
TLA+ models of these parts, TLC instances that check them, and TLAPS proofs.
`PROJECT.json` maps each definition to the lines it models.

## 1. The system

| Part | State | Operations | What is hard about it |
|---|---|---|---|
| `service` (service.hpp, service.cpp) | execute channel, `execute_task_count`, `active_fiber_count`, `stopped`, the place in `run()`, the `io_context` | `execute`, `stop`, `run`, `sleep_for` | pushes from other threads against shutdown; what a fiber captured must die before the `io_context`; three bounded waits |
| worker pool (service.hpp, service.cpp) | tasks channel, once flag, `workers_initiated`, statistics, thread-local `active_service` | `async`, `init_workers`, the worker loop | first use by several threads; tasks that wait for tasks; fibers sharing a thread-local |
| scheduler (asyik_round_robin.hpp) | ready queue, wake flag, stop flag | `awakened`, `pick_next`, `suspend_until`, `notify`, `request_stop`, `check_interrupt` | a wake-up that comes between a check and a wait |
| `memcache` (memcache.hpp) | segments by expiry time, entries in them | `put`, `get`, `at`, `try_get`, `contains`, `get_or_put`, `visit`, `erase`, `clear`, `size`, pruning loop | entries move between segments; several clock readings per call; a callback under the lock |
| rate limiter (rate_limit.hpp) | a quota per hash in a `memcache` | `checkpoint`, `get_remaining`, `reset` | read-modify-write over two cache calls; rounding; a 32-bit clock; expiry as refill |
| SQL pool (sql.hpp, sql.cpp) | idle connections, `mtx_`, the health check's list | `get_session`, `~sql_session`, health check | a mutex unlocked inside its guard's scope; the list is empty during a check |
| SQL session (sql.cpp) | connection lock, LISTEN handlers, watcher, transaction flag | `query`, `listen`, `unlisten`, `begin`, `commit`, `rollback` | watcher on the service thread against queries on workers; late handlers of cancelled waits |
| HTTP server (http.hpp, http_server.hpp) | acceptor, live connections, stream owner, request pool | accept, handshake, request loop, upgrade, `close` | `close` against accept, read and upgrade; pipelined requests; peers that fall silent |
| routing (route_table.hpp) | three tiers of routes | registration, `find` | shortcuts that decide before the expressions are looked at |
| static files (http_static.cpp) | none; the file system | resolve, stat, read | a file that changes between two system calls; ranges at the edges |
| HTTP client (http.hpp, http_client.hpp, digestauth.hpp) | the attempts of a call, the stream's timer | connect, handshake, write, read, digest retry, multipart | a server that answers before it has read; a body that is moved; boundaries cut by reads |
| WebSocket (http_websocket*.cpp) | stream, its timeouts | upgrade, read, write, close | who closes what, and which timer runs |
| TLS contexts (tls.cpp) | configuration | creation, verification, error mapping | a verify result that nobody asked for |
| pools (object_pool.hpp, pooled_guarded_stack.hpp) | free lists | acquire, release | a block that is given back too early |
| completion tokens (use_fiber_future) | a promise | settle it | which exception an error code becomes |

The parts use each other like this: every SQL call, and the pruning loop of a
multi-thread cache, is an `async()` task; the pruning loop of a single-thread
cache, every HTTP connection and every notification handler is an `execute()`
task; the rate limiter lives on a multi-thread cache; a forced shutdown of
`run()` (`request_stop`) makes every `sleep_for` on that thread throw, also the
one inside `get_session()`.

## 2. Modules

| Module | Models | Notes |
|---|---|---|
| `Service` | `execute`, `stop`, `run`, the dispatcher fiber, task fibers | one action per stretch of code between two suspension points |
| `ServiceProofs` | theorems about `Service` and `Scheduler` | TLAPS |
| `WorkerPool` | `async`, `init_workers`, worker threads, statistics, `active_service` | |
| `WorkerPoolProofs` | theorems about `WorkerPool` | TLAPS |
| `Scheduler` | `asyik_round_robin`, `pooled_guarded_stack`, `sleep_for` | Boost's own scheduler is external |
| `TtlCache` | what a cache promises: a map with deadlines | abstract, no code of its own |
| `Memcache` | `memcache`, both thread policies, the pruning loop | implements `TtlCache` |
| `MemcacheProofs` | theorems about `Memcache` | TLAPS |
| `RateLimit` | `rate_limit` over `rate_limit_memory` | uses the cache through `TtlCache` |
| `RateLimitProofs` | theorems about `RateLimit` | TLAPS |
| `SqlPool` | `make_sql_pool`, `get_session`, `~sql_session`, the health check | |
| `SqlSession` | `query`, LISTEN/NOTIFY and its watcher, `sql_transaction`, the end of a session | PostgreSQL and libpq are external |
| `SqlProofs` | theorems about `SqlPool` and `SqlSession` | TLAPS |
| `FiberFuture` | `use_fiber_future`, the exception of an error code | operators |
| `HttpServer` | accept loop, connections, keep-alive, upgrade, `close`, the pool of requests | uses `FiberFuture` |
| `HttpServerProofs` | theorems about `HttpServer` and `RouteTable` | TLAPS |
| `HttpClient` | `http_easy_request`, `http_easy_request_multipart`, `make_websocket_connection` | composes `FiberFuture`, `Tls`, `DigestAuth` |
| `HttpClientProofs` | theorems about `HttpClient` | TLAPS |
| `Tls` | `client_context`, verification, handshake errors | operators |
| `DigestAuth` | `digest_authenticator` | operators |
| `RouteTable` | `route_table`, route specs and the expressions made of them | against a reference |
| `StaticFiles` | the handler of `serve_static` | one system call per step |
| `StaticFilesProofs` | theorems about `StaticFiles` | TLAPS |
| `MC*` | the instances TLC checks | constants, symmetry, and which components share a run |

An operator whose comment begins with "Mutant" is a wrong version of the
definition that follows it. It stands for a plausible bug and no specification
uses it: put in the place of its original, it makes TLC report the property it
is meant for.

### Service

The service thread is cooperative: while the dispatcher is between two
`pop()` calls (`disp = "loop"`) or `run()` is between leaving its loop and
`close()` (`run_pc = "close"`), only other threads can step; `ThreadFree` says
so. `execute()` from another thread is two steps, the increment of
`execute_task_count` and the `push`, because anything may happen in between;
from a fiber it is one step unless the channel is full. Task bodies are
abstract: a body may sleep, start an Asio operation, `execute()` a task, wait
for the future of a task it submitted, or end (return and throw look the same
to the service). The wrapper's decrement, `tsk_in = {}` and the guard's
decrement are three places where `run()` may look at the counters, so they are
three states (`returned`, `released`, `gone`). A `poll()` runs all finished
handlers and stops an `io_context` without work; `DrainPoll` restarts it.
The loops of 200 and 20 turns may end after any number of turns and the 500 ms
deadlines may pass at any time: nothing checked depends on these numbers.
`run()` is called once. A body that catches `service_terminated_error` and goes
on is not modelled.

### WorkerPool

`async()` is split where other threads can see a difference: reading the flag,
`call_once` and the three steps of its body (channel, flag, threads), the
increment of `async_queue_size`, and `push`. `cur[w]` is the fiber that has the
thread of worker `w`; it changes only where a fiber suspends or ends. A push on
a full channel suspends a fiber and blocks a thread that is no fiber of the
pool. `MaxNaps` bounds how often the bodies suspend in all.

### Memcache and TtlCache

`map_list` is kept by key: `segs` is the set of segments, named by the time
they expire, and `held[k]` the entries of `k` with the segment each is in. The
helpers (`youngest_segment`, `insert`, `touch`, `prune`, `find_live`) are
operators, the member functions actions; `get()` and `try_get()` differ in how
they report a miss and are one action, so are `at()` and `contains()`, and a
hit of `get_or_put()` is a `get()`. `touch()` reads the clock once to prune and
once more to choose the segment; the second reading is a parameter up to
`MaxDelay` later. `make()` may take any time and may throw. With
`multi_thread` the mutex excludes all other calls meanwhile; without it another
fiber may use the cache while `make()` is suspended.

`TtlCache` is the contract: an entry's deadline is set, by a write or an
extending read, between `Expiry` and `Expiry + Slack` from then, and an entry
is there exactly until its deadline has passed. The refinement mapping takes
the newest live entry of a key and its segment's expiry. Two things the
contract had to leave open: `erase()` also returns true for an entry that is
past its deadline and not pruned yet, and a multi-step `get()` may extend a
lifetime that ended between its two clock readings.

### RateLimit

A checkpoint is three steps: lock and clock reading, `get_quota` with the
refill, `put_quota`. `reset()` may come between any two, since it does not take
`mtx`. The literals 1000 and 100 are `MsPerSec` and `ExpirySec`, so that a few
ticks cover several seconds and expiries; `ClockMod` is 2^32. The clock the code
reads has begun to count `Boot` ms before the limiter was made, so it may turn
over at any time. A call has read it at most `MaxStall` ms before it ends.
`ideal` is a history variable: the same bucket with exact arithmetic.

### SqlPool

The list of idle sessions is a set, since no property depends on its order.
`get_session()` is modelled with the manual unlock, sleep and relock inside the
scope of its `lock_guard`; the health check with the `unique_lock` it unlocks
for each test. A session that is tested, renewed or kept after a failed renewal
is the same slot of the pool.

### Scheduler

One thread with its fibers, and other threads that wake them. `suspend_until()`
is split into the look at the flag and the wait, `notify()` at the unlock, so
that a notice can come at every point in between; the wait may also end by its
time. `rqueue_` is a sequence, served in order; the dispatcher of
Boost.Fiber is one of its members, takes over the fibers other threads have
made ready (`remote_ready`), frees the stacks of those that ended and is the one
that goes to sleep. `sleep_for()` is `check_interrupt()`, the sleep and
`check_interrupt()` again.

### SqlSession

Every command is an `async()` task: it waits for `conn_mtx`, the database
answers, the worker reads the answer, dispatches and unlocks, the fiber goes on.
The watcher's waits on the descriptor and on the retry timer are counted
(`armed`, `retry`), and so are their handlers that are queued with success
(`ready`) or with `operation_aborted` (`cancelled`). A notification is on the
wire, in libpq, or posted to its handler. `MaxLate` bounds the handlers that may
still be queued when `listen()` is called again. Which of `notify_running`'s
writers comes last is left to the interleaving.

### HttpServer

A connection is a record: where its fiber is, whether the socket is open, how
many requests have been pulled from the socket, are being handled and are
answered, and the block its request lives in. Operations end with any of the
error codes Asio can give there, and `FiberFuture` says which exception the
fiber sees. `late` is a history variable: the connections whose accept had
completed, with the handler still queued, when `close()` was called.
`HandshakeLimit` and `ShutdownLimit` say whether the two TLS timeouts are
positive.

### HttpClient, Tls, DigestAuth, FiberFuture

A call is a sequence of attempts, `tries`; the second one is made inside the
first, as in the code, where the exception that carries the authenticator is
caught. The server is free: it may answer before it has read the body, with any
response of the instance, in any pieces; the network may end every operation
with an error or not at all, until the timer expires. A hash is the record of
what is hashed, a certificate its issuer and names, a host a name with its
brackets or its final dot. Responses are sequences of small tokens, because
`PartsInOrder` is about where they are cut. `TextFrom` puts the text of a
multipart body together; a body that is not read by parts counts as one token.

### RouteTable and StaticFiles

A path is a sequence of characters and a route spec may contain tags. `Matches`
is what `std::regex_match` decides for the expression `route_spec_to_regex`
builds: the target can be cut into what the elements of the spec stand for, and
an optional slash and query. `Compiled` holds the targets each expression
selects, as the code compiles an expression once. `find()` is compared with the
same choice made without the exact map and the prefix check.
In `StaticFiles` the file system has fixed places and links; files have versions,
which other programs replace between any two system calls of the handler.

## 3. Runs

| Run | Instance | Shows |
|---|---|---|
| `service` | 3 tasks, 1 stop, channel of 2 | The count of tasks is exact. When `run()` returns unforced, every captured object is gone; `run(true)` that ends by itself loses no task and leaves its loop only when all submitted work has ended. |
| `service_live` | 2 tasks, 1 stop, channel of 1 | `run()` returns after `stop()`, even if all tasks wait forever. An operation that finishes while `run()` drains is delivered, without the help of a deadline. |
| `memcache_mt` | 2 keys, 2 values, 2 callers, lifetime 2, partition 1, clock to 6 | The segmented cache implements `TtlCache`; segments stay apart; `get_or_put` creates a value once. |
| `memcache_st` | 1 key, 2 callers, lifetime 2, partition 0, clock to 5 | The same refinement without a mutex and with partitions that round to 0 ms; expired segments are freed by the loop, and the loop ends with the cache. |
| `rate_limit_reset` | 2 callers, bucket 2 at 1/s | Violation, see section 6. |
| `threads` | 3 calls, 2 workers, channel of 1; or one thread with 3 fibers, 2 stacks and 1 other thread | One pool, exact statistics, every call gets its result. No wake-up is lost, stacks are not shared; a fiber woken from outside runs, and `request_stop()` ends those that sleep. |
| `worker_pool_current` | 2 calls, 1 worker, 1 service, 2 suspensions | Violation, see section 6. |
| `sql_pool` | 3 fibers, 2 connections, 2 health checks | Connections are neither lost nor shared, `mtx_` is held exactly by those between lock and unlock, `get_session()` waits only while others use the pool. |
| `sql_pool_stop` | 2 fibers, 1 connection | Violation, see section 6. |
| `http_server` | 2 connections, 2 requests each, 2 blocks, plain or TLS | `close()` reaches every connection but those whose accept handler is queued, and their fibers end; responses answer requests one by one; request objects are not shared; TLS waits end. |
| `sql_notify` | 1 listener, 1 notification | Violation, see section 6. |
| `components` | see below | 13 properties of five components that share no state. |

The run `components` takes one component per behaviour while the others rest,
so it is the union of five small instances:

* rate limiter: 2 callers, buckets 2 at 2/s and 3 at 3/s (and 3 at 2/s, which
  the constructor rejects), a second of 3 ticks, expiry after 1 s, 6 ticks of a
  clock that turns over after the second one. Never a whole token more than the
  exact bucket has; no token less when the rate divides a second (`QuotaExact`).
* SQL session: a listener with 2 channels, a client with queries and
  transactions, 1 notification, a connection that may be lost. The watcher
  never steals a reply, `notify_running` is true only with a wait pending, a
  session goes back to the pool clean, and dropping a transaction terminates
  only on a lost connection (`ReplyNotStolen`, `RunningWatched`,
  `ReturnedClean`, `TerminateOnlyWhenDead`).
* HTTP client: 8 calls, 2 contexts of the service and 2 of a call, 4 certificates, 9 responses, up to 3
  attempts. Nothing is sent to a peer that was not verified; a verify error
  means what it says; one retry, with the same body, after the first write has
  ended; the digest convinces the server; parts arrive whole and in order;
  every wait has a timer (`PeerVerified`, `SameBody`, `ChallengeAnswered`,
  `PartsInOrder`, `Deadlined`).
* Route table: up to 3 routes of 6 specs and a static prefix, 12 targets with
  slashes and queries at the end (`FirstMatchWins`).
* Static files: 7 places, 2 links, 3 versions of 3, 0 and 2 bytes, 6 range
  headers, a client with a cached copy. A 304 is true of the copy, a body is
  exactly what was asked for and from one version, and nothing outside the root
  is sent (`CachedFresh`, `BodyExact`).

Why the bounds are enough to see the interesting cases: with three tasks one
can submit another and wait for it while the third is pushed by a thread
around `close()`; a channel of one or two slots is full often. A cache clock of
three lifetimes sees an entry stored, moved, expired, pruned and stored again,
with up to three segments at once. The rate limiter's clock passes an expiry of
a bucket with time to use it before and after. Two connections are enough for
one to take the memory the other gave back and for `close()` to find one in
every state while the other is being accepted; two requests are what one read
can bring at once. Three fibers and one other thread cover a wake-up from a
timer, from a fiber and from outside at once. A client that may try three times
would show a second retry. The three versions of a file grow and shrink, down to
no bytes. Two health checks let the second meet connections the
first one is still holding back from users. Symmetry is used in runs without
liveness properties only, over tasks, keys, values and callers that no
definition tells apart.

### Fairness

* `Service`: fibers that are ready are resumed (the scheduler is round-robin),
  other threads finish the pushes they began, the loop of phase 1 is finite.
  Task bodies owe nothing. `StopReturns` also assumes that the clock reaches
  the deadlines (`ClockFairness`); `IoDelivered` must hold without that.
* `Scheduler`: the thread goes on when it can, other threads finish the
  `notify()` they owe, and time passes for those who sleep. Fibers may yield for
  ever.
* `HttpServer`: tasks start, users' handlers return, timers expire, and an
  operation on a closed socket ends. Peers owe nothing.
* `SqlSession` (`sql_notify` only): workers run their tasks and get `conn_mtx`
  in the end, the database answers, due handlers are run. Nobody is bound to
  make another call.
* `WorkerPool`: some thread that can go on does (`WF_vars(Progress)`). Bodies
  suspend a bounded number of times, so that is enough.
* `Memcache`: the loop's sleeps return, `make()` returns, time passes.
* `SqlPool`: fibers and the health check are scheduled, users drop their
  sessions in the end, and a waiter of `fibers::mutex` is served in order
  (strong fairness of the steps that lock).

Deadlock is checked in every run. The specifications have an explicit stuttering
step where the program may rest: `run()` returned, all calls answered, the
clock at its bound, the process terminated.

## 4. Proofs

Eight modules hold theorems. Each rests on the assumption its component states
about the constants (`TasksAssumption`, `MemcacheAssumption`, `PoolAssumption`,
`SqlPoolAssumption`, `SchedAssumption`, `SessionAssumption`,
`ServerAssumption`, `ClientAssumption`, `StaticAssumption`, `RateAssumption`,
`RouteAssumption`: the sets are finite where something counts them, markers such
as `None` are not members, numbers are naturals, records have the fields the code
reads) and on inductive invariants. Two of them say something about inputs:
`ClientAssumption` that hosts are not just a dot and that plain responses have no
parts, `RouteAssumption` that specs have no `?` and do not end in two slashes and
that targets begin with a slash. No theorem depends on the bounds of the
instances. Every safety property and every refinement that holds in a run is
also proved.

Where an argument needs induction over a number, the proofs take the least
counterexample, which exists because the naturals are well ordered (`LessWF`,
`LeastIs`, `Steps`); the induction theorems of the library take an operator as a
parameter, which the installed provers cannot instantiate.

### ServiceProofs

`IInv` is `TypeOK`, `ExecuteCountExact`, `QueueExact` and three facts that are
not properties of interest by themselves: `active_fiber_count` is the number of
fibers whose guard has not run (`ActiveCountExact`), the dispatcher leaves only
on `stopped` or from a drained, closed channel (`ExitReason`), and past
`fb.join()` it has left (`JoinedDispatcher`). The conjunction is needed: that a
counter does not go below zero follows from what it counts, that a popped task
was queued follows from what the channel holds, and that `run()` may destroy
its state follows from the counter being zero with the dispatcher gone. The
arithmetic is one lemma, `MoveOne`: moving one task between two states changes
the size of any class of states by at most one.

| Theorem | Says |
|---|---|
| `TypeCorrect` | both counters are naturals, all state keeps its type |
| `QueueCorrect` | the execute channel holds exactly the tasks that wait for the dispatcher, each once |
| `ExecuteCountCorrect` | `execute_task_count` is the number of submitted tasks whose body has not ended |
| `TeardownSafe` | captured objects are gone when `run()` returns unforced |
| `NothingLostOnCompletion` | only `stop()` leaves tasks in the channel |
| `CompletionExitCorrect` | `run(true)` leaves its loop by itself only when all submitted work has ended |

For the scheduler there are two invariants. `WakeInv`: from the moment the dispatcher has emptied the queue of fibers woken
from outside, a fiber in it is announced by `flag_` or by a thread about to
raise it, and a flag that is up during the wait has been, or will be, signalled.
`NoLostWakeup` alone is not inductive: it says nothing before the wait begins,
which is where the notice may come (`WakeupNotLost`). `StackInv` adds to
`StacksApart` the types, that only sleepers are due, and that the main fiber,
whose stack is not the pool's, does not end (`StacksNeverShared`).

### MemcacheProofs

`IInv` is `TypeOK`, `OneEntryPerKey`, `SegmentsApart` and `Making` (who runs
`make()` holds the mutex and keeps the cache alive). The lemmas follow the
helpers of the code: `Youngest` bounds what `youngest_segment()` returns and
shows that a new segment keeps its distance, `InsertOk` and `TouchOk` say what
`insert()` and `touch()` leave behind, `PrunedOk` that pruning at any time does
no harm.

`CreatedOnceAlways` needs `Missing`: while `make()` runs under the mutex the key
it is for has no live entry, since nobody else can write and time only removes
entries.

`CacheRefines` is `Spec => CacheSpec`. `ViewOf` replaces the `CHOOSE` of the
refinement mapping by the one entry a key has. `SameKey` and `WrittenView` say
what happens to the view of a key that is left alone and of one that is
written; the lemmas named `...Refines` then take one member function each to the
operation of `TtlCache` with the same result, and the steps of the pruning loop
to stutters. `SizeRefines` counts: the live keys and the (key, segment) pairs
that `size()` adds up are in bijection because a key has one entry.

### WorkerPoolProofs

`PoolInv` is `TypeOK`, `StatsExact` and three facts about the control.
`OnceInv`: one task at most is inside `call_once`, and the channel is there
before the flag or the end of `call_once` lets anybody past. `ChannelExact`: the
channel holds each queued task once. `CallersInv`: a popped task has a worker,
and the task that calls `async()` is inside that one call as long as it has not
returned, so the steps that resume callers do not touch a task that is being
counted. `CountMoves` is the arithmetic: a step that moves one task changes each
count by one at most. `OnePoolMade` follows from `OnceInv`, `StatsAddUp` from the
whole.

### RateLimitProofs

`RateInv` compares the stored quota with the exact bucket, `ideal`. A quota is
worth its tokens and what has come in since the moment its `current_ms` stands
for (`Units`); `Agrees` says that this is less than a token more than the level of
the exact bucket and, as long as nothing can get lost (`Lossless`), not less. So
the rounding errors of the lookups do not add up: what a lookup rounds away stays
in `current_ms`. The invariant says that `Agrees` holds of what is stored
(`StoredInv`) and of what a call has found and not stored yet (`GotInv`), which
is where a `reset()` may come in between. `ForgottenInv`: a bucket without an
entry is full, or was used so long ago that it is full by now (`ForgottenIsFull`,
from the check in the constructor). `CallsInv` is what `mtx` is for.

The arithmetic is in lemmas of its own, since the solver is weak with products of
variables: `Distance` and `Advances` are about differences and sums modulo the
turn of the clock, `Refill`, `RefillSafe` and `RefillExact` about the quotients
in `get_remaining_int()`. `RecoveredOk` puts them together: what is recovered
agrees if the stored quota did. A distance that the clock's turn makes too short
only loses tokens, so the first half of `QuotaExact` holds through any number of
turns; the second half is claimed for the first turn only. `QuotasExact` is
`Spec => []QuotaExact`, types included.

### SqlProofs

For the pool, `IInv` is `TypeOK`, `MutexDiscipline`, where a session pointer may
be (`Locals`), and `PoolConserved` written connection by connection
(`EachConserved`), the form in which each move of one connection is easy to
follow. `PoolConservedAlways` and `MutexDisciplineAlways` hold also for a pool
that a forced stop reaches; `TypeCorrect` is the first conjunct.

For a session there are five invariants. `AnswerHeld`: there is an answer on
the wire only while its command holds `conn_mtx`; since the watcher reads only
with `conn_mtx`, it cannot take the answer (`ReplySafe`). `WatchInv` adds to
`RunningWatched` that the waits and queued handlers are counted by naturals:
every handler that ends either arms a wait or clears the flag (`WatchKept`).
`FailsForAReason`: a command fails on a lost connection, or because the database
has refused it, which happens to a query and a commit only; so the rollback of a
dropped transaction fails only on a lost connection (`TerminateSafe`).
`ReturnsClean` needs two more. `TxnInv`: a transaction is open only on behalf of
the one `sql_transaction` or of its constructor, and a command that ends it has
done so when it is answered, whatever the answer is. `QuietInv`: once
`~sql_session()` runs nothing is in progress but its own `UNLISTEN *`, which has
ended the subscriptions when it is answered; a lost connection has none.

### HttpServerProofs

`ServerInv` has four parts: the types, `InOrder` (what the fiber of a connection
knows at each of its places: how many requests are answered, that the response
object is clean, that it holds a block), `BlocksApart`, and `Listed`: every live
connection with an open socket is in `active_connections`, and after `close()` it
is one whose accept handler ran too late. A socket is opened by the accept handler
alone, which lists it, and no step of a fiber takes a live connection off the
list (`CloseReachesAll`). `OneConn` reduces a step of one fiber to what it does to
its own record and to the free list; the lemmas named after the helpers
(`EndsOk`, `GotoOk`, `ReadsOk`, ...) say that for each way a fiber goes on.
`ResponsesInOrder` is `InOrder`, `BlocksNotShared` is `BlocksApart` with the types.

For the route table `RouteInv` says that each tier's list is the list of the
routes of that tier, in the order of registration: `ListsIn(s, order, R)` gives
each element of `s` its place in `order`, in increasing order, and every route
of `order` that is in `R` has one. This holds of every list of the exact map, one per path, so that a lookup
there is a lookup among the routes with that path. `InsertedIn` and `OtherIn`
follow a registration at either end. `FirstMatchesWin` then needs that the two
shortcuts agree with the expressions. `StaticSame`: the expression of a spec
without tags selects a plain target exactly if `normalise_path()` takes both to
the same path. A cut of the target into the letters of the spec has every letter
in its own place, which is an induction along the spec (`Literal`).
`PrefixSafe`: a target that an expression selects begins with the static prefix
of its spec, so the quick check drops nothing.

### HttpClientProofs

`ClientInv` has `AttemptsOk`, which says of each attempt by its number whether
it has credentials, has written, and has a peer its context accepts; `Phase`, what
the call has to show for each place of the code; `Thrown`, that only a call that
is over has thrown; and `ChallengeAnswered`. An attempt is only written to by the
fiber that makes it, so a step moves the last one (`LastMoves`, `LastOk`) or
appends one (`RetriesOk`, where the exception with the authenticator is caught).
`AuthorizationAccepted` is the lemma about `digest_authenticator`: the server that
sent the challenge computes the same response from the header. `ErrorsThrow` is
the one about `use_fiber_future`: no error code becomes `tls_verify_error`.

`PartsInv` is about what of a response has been read. `Ahead(b, w, text, off)`:
the buffer and what is on the wire are what follows in `text` after `off` tokens,
up to where the connection broke. `Place` says with it where in the text the
fiber is, measured from the part that comes next (`Rest`), and `Given` that the
parts before it were delivered. `Whole` says how many there will be. The lemmas follow
the text: what a part begins with and what follows it (`TextThere`,
`TextFollows`), what reading a piece and taking tokens from the buffer do to
`Ahead`. The first boundary line the search finds is the one of the next part: the
search begins where the last part ends, and the length in its header has taken
the fiber past whatever the part contains.

| Theorem | Says |
|---|---|
| `PeersVerified` | over TLS nothing is written before the right context has accepted the certificate for the host of the URL, and a verify error means a rejected certificate |
| `BodySent` | each attempt sends the body of the call, and a call that returns has no write pending |
| `ChallengesAnswered` | one retry at most, with a header that convinces the server that asked |
| `WaitsDeadlined` | a fiber that waits for the peer has a timer running |
| `PartsOrdered` | `f` gets the parts of a response whole and in order, and all of them if the call returns |

### StaticFilesProofs

`StaticInv` adds two facts to the two properties. `OnTheWay` is what the handler
has established when it makes the next system call: the place it has resolved is
inside the root, and the version it has seen is not later than the file's.
`Kept` is about the client's copy, whose label is the version `stat()` has seen
and whose bytes are those of the version `read()` has found: the file is never at
an older version than either. So when a validator matches, label, bytes and file
are of one version (`CopiesFresh`). Which file a target leads to is a function of
the target (`Served`), since links do not change; nothing else is assumed of the
tree. `RangeExact` is the lemma about the Range header: what `range_of()` returns
is exactly the set of offsets the header asks for (`BodiesExact`).

## 5. What is only model-checked

* Liveness: `StopReturns`, `IoDelivered`, `ExpiredFreed`, `LoopEnds`,
  `AsyncResolved`, `WaitEnds`, `RemoteRuns`, `StopEndsSleepers`, `CloseEnds`,
  `TlsWaitsEnd`. Reasoning about fairness and `ENABLED` is out of the prover's
  reach.

That is all: the other properties of the passing runs are theorems.

The other way round, some facts are proved and not repeated in a run: the types
of `Service`, `Memcache` and `SqlPool`, `QueueExact` and `OneEntryPerKey`. The types
of `WorkerPool`, `RateLimit` and `HttpServer` are checked, and proved, as a conjunct of
`StatsExact`, `QuotaExact` and `RequestsApart`.

## 6. Where the code disagrees with its documents

* `rate_limit_reset`: `reset()` does not take the limiter's mutex. Between
  `get_quota` and `put_quota` of a checkpoint it is lost: the checkpoint writes
  the quota it read before (rate_limit.hpp:40, docs/rate_limit.md:29).
* `worker_pool_current`: `async()` saves and restores the thread-local
  `active_service` around a task. Tasks that suspend interleave on a worker, so
  task A can restore "none" while task B is suspended; B then runs without its
  service (service.hpp:162, docs/service.md:333).
* `sql_pool_stop`: `get_session()` unlocks `mtx_` by hand inside the scope of a
  `lock_guard` and sleeps. If the forced phase of `run()` makes the sleep throw,
  the guard unlocks a mutex the fiber does not own; `fibers::mutex` throws, from
  a destructor, and the process terminates instead of unwinding
  (sql.cpp:69, service.cpp:197).
* `sql_notify`: the command LISTEN reads what is on the socket with its answer,
  and unlike `query()` it does not dispatch the notifications among it. The
  watch that is armed next waits for the socket, so the handler is not called
  until something else arrives or a query is made (sql.cpp:155,
  docs/sql.md:126). The late handler of a wait that `unlisten_all()` cancelled
  has the same effect on a watch that a new `listen()` has begun: it clears
  `notify_running` (sql.cpp:197), and `dispatch_notifications()` returns early.

Observations without a run:

* After `stop()` tasks may stay in the execute channel although phase 1 is
  commented as draining it (`LostOnlyByStop` is what holds); `run(true)` counts
  `execute()` tasks only, `async()` tasks do not keep it running.
* A bucket that only `get_remaining()` keeps alive is misjudged after a full turn
  of the 32-bit clock (rate_limit.hpp:65); rates above 1000/s lose fractions of a
  token at each refill.
* A call reads the clock before it looks for its bucket. If the bucket is as large
  as the constructor allows, and `s` >= 2 ms pass in between, an entry that
  expires meanwhile counts as a full bucket up to `(s - 1) * rate / 1000` tokens
  too early. `RefillsInTime` is the condition under which that cannot happen.
* docs/http.md:295 says "the first route whose pattern matches the request wins";
  the code goes by tier first (static, prefix, expression) and by registration
  within a tier, which is what `FirstMatchWins` states. A target of two slashes
  is matched by the exact map for the route `/`, but not by its expression; a
  query with a second `?` is matched by the exact map and by no expression. A
  static spec that ends in two slashes has an expression that selects targets its
  entry in the map is not found for. `Plain` and `RouteAssumption` set these apart.
* A 401 that answers a request with credentials is read as a whole; if it is a
  multipart response and its challenge cannot be answered, the call returns
  without having called `f` (http.hpp:173).
* docs/http.md:505 lists a malformed `Range` header as 400; the code ignores the
  header and answers 200.
* One failed accept ends the accept loop (http.hpp:768): the error is logged and
  nothing is armed again.
* The digest answer does not verify for `auth-int` (the body hashed is that of the
  401), for `md5-sess` without qop (no cnonce is announced) and for a URL without
  a path (the uri is empty); `ChallengeAnswered` leaves these out. The nonce
  counter is a static that services on several threads share without
  synchronisation (digestauth.hpp:112).
* If reading the response fails while the request is being written, the client
  destroys the stream without waiting for the write (http.hpp:159).
* Versions of a file that differ within one second and have one size have the
  same ETag and date (http_static.cpp:405); `If-Modified-Since` is looked at also
  when `If-None-Match` is there and does not match.
* A route that is found is a reference into the table (http.hpp:636); registering
  routes while its handler is suspended may move it.

## 7. Not modelled

* The contents of tasks, messages, rows and queries; MIME types and date formats;
  logging, profiling, exception texts; what libpq, SOCI, OpenSSL, Beast and the
  kernel do inside; Windows code and its certificate store.
* `server_context` and ALPN: configuration that is passed on to OpenSSL.
* LISTEN and UNLISTEN inside a transaction, which the database defers.
* Headers users add to or override in a client's request; websocket options
  (pings, idle timeout); websocket calls of the same direction by two fibers,
  which Beast rules out.
* A failing `mmap()` or allocation; the guard page of a stack. The pools have no
  limit in the code, so there is none to check.
* The resolver of the client has no timeout; `Deadlined` excepts it.
* Symbolic links that change while a request is served.
* `Service`, `Scheduler` and `WorkerPool` are separate: each takes what it needs of
  the others as a free choice (which ready fiber runs next, when a task ends).
  The product is too large for TLC.

`PROJECT.json` lists each part with its status and its reason.
