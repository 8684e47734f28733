------------------------------ MODULE SqlPool ------------------------------
(***************************************************************************)
(* asyik::sql_pool: a list of SOCI sessions behind mtx_.  Fibers take one  *)
(* with get_session(), polling every 5 ms while the list is empty, and     *)
(* give it back in ~sql_session(); a thread tests all idle sessions once   *)
(* per period and holds them in a list of its own meanwhile.               *)
(***************************************************************************)
EXTENDS Naturals, FiniteSets

CONSTANTS
  Conns,     \* the num_pool SOCI sessions
  Users,     \* fibers that use the pool
  Checker,   \* the health-check thread
  None,
  MaxChecks, \* bound on the number of health checks
  MayStop    \* may the service be stopped by force (request_stop())?

ASSUME SqlPoolAssumption ==
  /\ IsFiniteSet(Conns) /\ Conns # {}
  /\ Checker \notin Users /\ None \notin Conns \cup Users \cup {Checker}
  /\ MaxChecks \in Nat /\ MayStop \in BOOLEAN

VARIABLES
  soci_sessions,  \* the list, as a set
  mtx,            \* the owner of mtx_, or None
  pc,             \* pc[f]: where user f is
  soci_session,   \* soci_session[f]: the member of f's sql_session, or None
  hc,             \* where the health-check thread is
  sessions,       \* its list
  sql,            \* the session it is testing, or None
  checks,         \* how many rounds it has made
  dropped,        \* the user has dropped the pool
  sched_stop,     \* asyik_round_robin::stopped_
  terminated      \* std::terminate has been called

user_vars == <<pc, soci_session>>
hc_vars == <<hc, sessions, sql, checks>>
vars == <<soci_sessions, mtx, pc, soci_session, hc, sessions, sql, checks, dropped,
          sched_stop, terminated>>

Init ==
  /\ soci_sessions = Conns
  /\ mtx = None
  /\ pc = [f \in Users |-> "out"]
  /\ soci_session = [f \in Users |-> None]
  /\ hc = "sleep" /\ sessions = {} /\ sql = None /\ checks = 0
  /\ dropped = FALSE /\ sched_stop = FALSE /\ terminated = FALSE

\* Somebody holds a shared_ptr to the pool.
Alive ==
  \/ ~dropped
  \/ \E f \in Users : pc[f] \in {"lock", "check", "sleep"}
  \/ hc \notin {"sleep", "ended"}

Goto(f, from, to) == ~terminated /\ pc[f] = from /\ pc' = [pc EXCEPT ![f] = to]

HcGoto(from, to) == ~terminated /\ hc = from /\ hc' = to

Lock(p) == mtx = None /\ mtx' = p

-----------------------------------------------------------------------------
(* get_session(): the caller holds the pool *)

get_session(f) ==
  /\ ~dropped
  /\ Goto(f, "out", "lock")
  /\ UNCHANGED <<soci_sessions, mtx, soci_session, hc_vars, dropped, sched_stop, terminated>>

lock(f) ==
  /\ Goto(f, "lock", "check")
  /\ Lock(f)
  /\ UNCHANGED <<soci_sessions, soci_session, hc_vars, dropped, sched_stop, terminated>>

\* Mutant of wait: mtx_ stays locked during the sleep.
wait_locked(f) ==
  /\ soci_sessions = {}
  /\ Goto(f, "check", "sleep")
  /\ UNCHANGED <<soci_sessions, mtx, soci_session, hc_vars, dropped, sched_stop, terminated>>

\* The list is empty: mtx_.unlock() and sleep_for().
wait(f) ==
  /\ soci_sessions = {}
  /\ Goto(f, "check", "sleep")
  /\ mtx' = None
  /\ UNCHANGED <<soci_sessions, soci_session, hc_vars, dropped, sched_stop, terminated>>

\* sleep_for() returns: mtx_.lock() and look again.
wake(f) ==
  /\ ~sched_stop
  /\ Goto(f, "sleep", "lock")
  /\ UNCHANGED <<soci_sessions, mtx, soci_session, hc_vars, dropped, sched_stop, terminated>>

\* sleep_for() throws service_terminated_error: ~lock_guard() unlocks mtx_,
\* which fibers::mutex refuses, by an exception, if the fiber does not own it.
unwind(f) ==
  /\ sched_stop
  /\ Goto(f, "sleep", "gone")
  /\ IF mtx = f THEN mtx' = None /\ UNCHANGED terminated
                ELSE terminated' = TRUE /\ UNCHANGED mtx
  /\ UNCHANGED <<soci_sessions, soci_session, hc_vars, dropped, sched_stop>>

\* The front of the list is handed out.
take(f) ==
  /\ Goto(f, "check", "have")
  /\ \E s \in soci_sessions :
       /\ soci_session' = [soci_session EXCEPT ![f] = s]
       /\ soci_sessions' = soci_sessions \ {s}
  /\ mtx' = None
  /\ UNCHANGED <<hc_vars, dropped, sched_stop, terminated>>

\* ~sql_session(): unlisten_all() waits for a worker ...
close(f) ==
  /\ Goto(f, "have", "unlisten")
  /\ UNCHANGED <<soci_sessions, mtx, soci_session, hc_vars, dropped, sched_stop, terminated>>

\* ... then the session goes back to the list under mtx_, if the pool is
\* still there: pool.lock() holds it meanwhile.
give_back(f) ==
  /\ Goto(f, "unlisten", "out")
  /\ IF Alive THEN mtx = None /\ soci_sessions' = soci_sessions \cup {soci_session[f]}
     ELSE UNCHANGED soci_sessions
  /\ soci_session' = [soci_session EXCEPT ![f] = None]
  /\ UNCHANGED <<mtx, hc_vars, dropped, sched_stop, terminated>>

-----------------------------------------------------------------------------
(* The health-check thread; w.lock() succeeds while the pool is alive *)

hc_due ==
  /\ HcGoto("sleep", "lock")
  /\ Alive
  /\ checks < MaxChecks /\ checks' = checks + 1
  /\ UNCHANGED <<soci_sessions, mtx, user_vars, sessions, sql, dropped, sched_stop, terminated>>

\* The idle sessions move to a list of the thread.
hc_take ==
  /\ HcGoto("lock", "next")
  /\ Lock(Checker)
  /\ sessions' = soci_sessions /\ soci_sessions' = {}
  /\ UNCHANGED <<user_vars, sql, checks, dropped, sched_stop, terminated>>

\* One of them is tested without the mutex ...
hc_next ==
  /\ HcGoto("next", "test")
  /\ \E s \in sessions : sql' = s /\ sessions' = sessions \ {s}
  /\ mtx' = None
  /\ UNCHANGED <<soci_sessions, user_vars, checks, dropped, sched_stop, terminated>>

\* Mutant of hc_tested: a session that fails the test and cannot be renewed
\* is lost.
hc_tested_lossy ==
  /\ HcGoto("test", "next")
  /\ Lock(Checker)
  /\ soci_sessions' \in {soci_sessions, soci_sessions \cup {sql}}
  /\ sql' = None
  /\ UNCHANGED <<user_vars, sessions, checks, dropped, sched_stop, terminated>>

\* ... and put back, as it is (tested, or not renewable) or renewed.
hc_tested ==
  /\ HcGoto("test", "next")
  /\ Lock(Checker)
  /\ soci_sessions' = soci_sessions \cup {sql}
  /\ sql' = None
  /\ UNCHANGED <<user_vars, sessions, checks, dropped, sched_stop, terminated>>

hc_done ==
  /\ HcGoto("next", "sleep")
  /\ sessions = {}
  /\ mtx' = None
  /\ UNCHANGED <<soci_sessions, user_vars, sessions, sql, checks, dropped, sched_stop,
                 terminated>>

hc_exit ==
  /\ HcGoto("sleep", "ended")
  /\ ~Alive
  /\ UNCHANGED <<soci_sessions, mtx, user_vars, sessions, sql, checks, dropped, sched_stop,
                 terminated>>

-----------------------------------------------------------------------------
\* The user drops the pool; a get_session() that is running holds it.
drop ==
  /\ ~terminated /\ ~dropped /\ dropped' = TRUE
  /\ UNCHANGED <<soci_sessions, mtx, user_vars, hc_vars, sched_stop, terminated>>

\* Phase 2b of service::run().
request_stop ==
  /\ MayStop /\ ~terminated /\ ~sched_stop /\ sched_stop' = TRUE
  /\ UNCHANGED <<soci_sessions, mtx, user_vars, hc_vars, dropped, terminated>>

InPool(f) == lock(f) \/ wait(f) \/ wake(f) \/ unwind(f) \/ take(f)

HealthCheck == hc_due \/ hc_take \/ hc_next \/ hc_tested \/ hc_done \/ hc_exit

\* Everybody is done, or the process has been terminated.
Done ==
  /\ \/ terminated
     \/ hc = "ended" /\ \A f \in Users : pc[f] \in {"out", "gone"}
  /\ UNCHANGED vars

Next ==
  \/ \E f \in Users : get_session(f) \/ InPool(f) \/ close(f) \/ give_back(f)
  \/ HealthCheck \/ drop \/ request_stop \/ Done

Spec == Init /\ [][Next]_vars

\* Fibers are scheduled, sessions are dropped in the end, and fibers::mutex
\* serves its waiters in order.
Fairness ==
  /\ \A f \in Users : WF_vars(InPool(f)) /\ WF_vars(close(f))
                      /\ SF_vars(lock(f)) /\ SF_vars(give_back(f))
  /\ WF_vars(HealthCheck) /\ SF_vars(hc_take) /\ SF_vars(hc_tested)

FairSpec == Spec /\ Fairness

-----------------------------------------------------------------------------
TypeOK ==
  /\ soci_sessions \subseteq Conns
  /\ mtx \in Users \cup {Checker, None}
  /\ pc \in [Users -> {"out", "lock", "check", "sleep", "have", "unlisten", "gone"}]
  /\ soci_session \in [Users -> Conns \cup {None}]
  /\ hc \in {"sleep", "lock", "next", "test", "ended"}
  /\ sessions \subseteq Conns /\ sql \in Conns \cup {None}
  /\ checks \in 0..MaxChecks
  /\ dropped \in BOOLEAN /\ sched_stop \in BOOLEAN /\ terminated \in BOOLEAN

Held(f) == {soci_session[f]} \ {None}
Tested == {sql} \ {None}

\* No connection is handed to two users, and none gets lost: while the pool
\* lives each one is in exactly one place (idle, with one user, waiting for
\* its test or being tested), whatever the health check does meanwhile.
PoolConserved ==
  /\ \A f, g \in Users : f # g => Held(f) \cap Held(g) = {}
  /\ \A f \in Users : Held(f) \cap (soci_sessions \cup sessions \cup Tested) = {}
  /\ soci_sessions \cap (sessions \cup Tested) = {} /\ sessions \cap Tested = {}
  /\ Alive => Conns = soci_sessions \cup sessions \cup Tested \cup UNION {Held(f) : f \in Users}

\* mtx_ is held by whoever is between lock and unlock, and by nobody else:
\* the unlock and relock around sleep_for() inside a lock_guard, and the
\* unique_lock the health check passes through its loop, match.
MutexDiscipline ==
  /\ \A f \in Users : pc[f] = "check" <=> mtx = f
  /\ hc = "next" <=> mtx = Checker

\* A caller of get_session() waits only while others use the pool, also
\* when the health check has emptied the list (unless the service is stopped
\* by force).
WaitEnds ==
  \A f \in Users :
    pc[f] \in {"lock", "sleep"} ~>
      (pc[f] = "have" \/ sched_stop \/ \E g \in Users \ {f} : pc[g] # "out")

\* "any worker fiber reaching a suspension point (check_interrupt) will throw
\* operation_aborted and unwind": unwinding get_session() is not fatal.
StopUnwinds == ~terminated

=============================================================================
