------------------------------ MODULE SqlProofs ----------------------------
(***************************************************************************)
(* Proofs about the SQL part.                                              *)
(*                                                                         *)
(* SqlPool, for any number of connections, fibers and health checks:       *)
(* PoolConserved and MutexDiscipline are inductive together with where a   *)
(* session pointer may be.  A fiber has one between take and give_back,    *)
(* the health check has a list only during a round.                        *)
(*                                                                         *)
(* SqlSession, for any fibers, channels and notifications.                 *)
(***************************************************************************)
EXTENDS SqlPool, SqlSession, TLAPS

-----------------------------------------------------------------------------
(* The pool *)


\* The local variables of the users and of the health check are set exactly
\* where the code has moved a session into them.
Locals ==
  /\ \A f \in Users : soci_session[f] # None <=> pc[f] \in {"have", "unlisten"}
  /\ sql # None <=> hc = "test"
  /\ hc \notin {"next", "test"} => sessions = {}

\* PoolConserved, connection by connection.
EachConserved ==
  /\ \A f, g \in Users : soci_session[f] # None /\ soci_session[f] = soci_session[g] => f = g
  /\ \A f \in Users : soci_session[f] # None =>
       /\ soci_session[f] \notin soci_sessions \cup sessions
       /\ soci_session[f] # sql
  /\ \A c \in Conns : ~(c \in soci_sessions /\ c \in sessions)
  /\ sql \notin soci_sessions \cup sessions
  /\ Alive => \A c \in Conns :
       c \in soci_sessions \/ c \in sessions \/ c = sql \/ \E f \in Users : soci_session[f] = c

IInv == TypeOK /\ Locals /\ EachConserved /\ MutexDiscipline

\* The two forms of conservation say the same of well-typed states.
LEMMA ConservedForms == TypeOK /\ EachConserved => PoolConserved
<1>. SUFFICES ASSUME TypeOK, EachConserved PROVE PoolConserved
  OBVIOUS
<1>0. None \notin Conns
  BY SqlPoolAssumption
<1>1. \A f, g \in Users : f # g => Held(f) \cap Held(g) = {}
  BY DEF EachConserved, Held
<1>2. \A f \in Users : Held(f) \cap (soci_sessions \cup sessions \cup Tested) = {}
  BY DEF EachConserved, Held, Tested
<1>3. soci_sessions \cap (sessions \cup Tested) = {} /\ sessions \cap Tested = {}
  BY DEF EachConserved, Tested, TypeOK
<1>4. ASSUME Alive
      PROVE  Conns = soci_sessions \cup sessions \cup Tested \cup UNION {Held(f) : f \in Users}
  <2>1. ASSUME NEW c \in Conns
        PROVE  c \in soci_sessions \cup sessions \cup Tested \cup UNION {Held(f) : f \in Users}
    BY <1>0, <1>4, <2>1 DEF EachConserved, Held, Tested
  <2>2. \A f \in Users : Held(f) \subseteq Conns
    BY DEF Held, TypeOK
  <2>3. soci_sessions \subseteq Conns /\ sessions \subseteq Conns /\ Tested \subseteq Conns
    BY DEF TypeOK, Tested
  <2>4. QED
    BY <2>1, <2>2, <2>3
<1>5. QED
  BY <1>1, <1>2, <1>3, <1>4 DEF PoolConserved

LEMMA InitOk == Init => IInv
<1>. SUFFICES ASSUME Init PROVE IInv
  OBVIOUS
<1>. USE SqlPoolAssumption DEF Init
<1>1. TypeOK
  <2>1. checks \in 0..MaxChecks
    OBVIOUS
  <2>2. pc \in [Users -> {"out", "lock", "check", "sleep", "have", "unlisten", "gone"}]
    OBVIOUS
  <2>3. soci_session \in [Users -> Conns \cup {None}]
    OBVIOUS
  <2>4. QED
    BY <2>1, <2>2, <2>3, Zenon DEF TypeOK
<1>2. Locals
  BY DEF Locals
<1>3. EachConserved
  BY DEF EachConserved
<1>4. MutexDiscipline
  BY DEF MutexDiscipline
<1>5. QED
  BY <1>1, <1>2, <1>3, <1>4 DEF IInv

LEMMA GetSessionOk == ASSUME NEW f \in Users, IInv, get_session(f) PROVE IInv'
<1>. USE SqlPoolAssumption DEF IInv, get_session, Goto, hc_vars
<1>1. TypeOK'
  BY DEF TypeOK
<1>2. Locals'
  BY DEF TypeOK, Locals
<1>3. EachConserved'
  BY DEF TypeOK, Locals, EachConserved, Alive
<1>4. MutexDiscipline'
  BY DEF TypeOK, MutexDiscipline
<1>5. QED
  BY <1>1, <1>2, <1>3, <1>4 DEF IInv

LEMMA LockOk == ASSUME NEW f \in Users, IInv, lock(f) PROVE IInv'
<1>. USE SqlPoolAssumption DEF IInv, lock, Goto, Lock, hc_vars
<1>1. TypeOK'
  BY DEF TypeOK
<1>2. Locals'
  BY DEF TypeOK, Locals
<1>3. EachConserved'
  BY DEF TypeOK, Locals, EachConserved, Alive
<1>4. MutexDiscipline'
  BY DEF TypeOK, MutexDiscipline
<1>5. QED
  BY <1>1, <1>2, <1>3, <1>4 DEF IInv

LEMMA WaitOk == ASSUME NEW f \in Users, IInv, wait(f) PROVE IInv'
<1>. USE SqlPoolAssumption DEF IInv, wait, Goto, hc_vars
<1>1. TypeOK'
  BY DEF TypeOK
<1>2. Locals'
  BY DEF TypeOK, Locals
<1>3. EachConserved'
  BY DEF TypeOK, Locals, EachConserved, Alive
<1>4. MutexDiscipline'
  BY DEF TypeOK, MutexDiscipline
<1>5. QED
  BY <1>1, <1>2, <1>3, <1>4 DEF IInv

LEMMA WakeOk == ASSUME NEW f \in Users, IInv, wake(f) PROVE IInv'
<1>. USE SqlPoolAssumption DEF IInv, wake, Goto, hc_vars
<1>1. TypeOK'
  BY DEF TypeOK
<1>2. Locals'
  BY DEF TypeOK, Locals
<1>3. EachConserved'
  BY DEF TypeOK, Locals, EachConserved, Alive
<1>4. MutexDiscipline'
  BY DEF TypeOK, MutexDiscipline
<1>5. QED
  BY <1>1, <1>2, <1>3, <1>4 DEF IInv

LEMMA UnwindOk == ASSUME NEW f \in Users, IInv, unwind(f) PROVE IInv'
<1>. USE SqlPoolAssumption DEF IInv, unwind, Goto, hc_vars
<1>1. TypeOK'
  BY Zenon DEF TypeOK
<1>2. Locals'
  BY DEF TypeOK, Locals
<1>3. EachConserved'
  BY DEF TypeOK, Locals, EachConserved, Alive
<1>4. MutexDiscipline'
  BY DEF TypeOK, MutexDiscipline
<1>5. QED
  BY <1>1, <1>2, <1>3, <1>4 DEF IInv

LEMMA TakeOk == ASSUME NEW f \in Users, IInv, take(f) PROVE IInv'
<1>. USE SqlPoolAssumption DEF IInv, take, Goto, hc_vars
<1>1. TypeOK'
  BY DEF TypeOK
<1>2. Locals'
  BY DEF TypeOK, Locals
<1>3. EachConserved'
  BY DEF TypeOK, Locals, EachConserved, Alive
<1>4. MutexDiscipline'
  BY DEF TypeOK, MutexDiscipline
<1>5. QED
  BY <1>1, <1>2, <1>3, <1>4 DEF IInv

LEMMA CloseOk == ASSUME NEW f \in Users, IInv, close(f) PROVE IInv'
<1>. USE SqlPoolAssumption DEF IInv, close, Goto, hc_vars
<1>1. TypeOK'
  BY DEF TypeOK
<1>2. Locals'
  BY DEF TypeOK, Locals
<1>3. EachConserved'
  BY DEF TypeOK, Locals, EachConserved, Alive
<1>4. MutexDiscipline'
  BY DEF TypeOK, MutexDiscipline
<1>5. QED
  BY <1>1, <1>2, <1>3, <1>4 DEF IInv

LEMMA GiveBackOk == ASSUME NEW f \in Users, IInv, give_back(f) PROVE IInv'
<1>. USE SqlPoolAssumption DEF IInv, give_back, Goto, hc_vars
<1>1. TypeOK'
  BY DEF TypeOK, Locals
<1>2. Locals'
  BY DEF TypeOK, Locals
<1>3. EachConserved'
  BY DEF TypeOK, Locals, EachConserved, Alive
<1>4. MutexDiscipline'
  BY DEF TypeOK, MutexDiscipline
<1>5. QED
  BY <1>1, <1>2, <1>3, <1>4 DEF IInv

LEMMA HcDueOk == ASSUME IInv, hc_due PROVE IInv'
<1>. USE SqlPoolAssumption DEF IInv, hc_due, HcGoto, user_vars
<1>1. TypeOK'
  BY DEF TypeOK
<1>2. Locals'
  BY DEF TypeOK, Locals
<1>3. EachConserved'
  BY DEF TypeOK, Locals, EachConserved, Alive
<1>4. MutexDiscipline'
  BY DEF TypeOK, MutexDiscipline
<1>5. QED
  BY <1>1, <1>2, <1>3, <1>4 DEF IInv

LEMMA HcTakeOk == ASSUME IInv, hc_take PROVE IInv'
<1>. USE SqlPoolAssumption DEF IInv, hc_take, HcGoto, Lock, user_vars
<1>1. TypeOK'
  BY DEF TypeOK
<1>2. Locals'
  BY DEF TypeOK, Locals
<1>3. EachConserved'
  BY DEF TypeOK, Locals, EachConserved, Alive
<1>4. MutexDiscipline'
  BY DEF TypeOK, MutexDiscipline
<1>5. QED
  BY <1>1, <1>2, <1>3, <1>4 DEF IInv

LEMMA HcNextOk == ASSUME IInv, hc_next PROVE IInv'
<1>. USE SqlPoolAssumption DEF IInv, hc_next, HcGoto, user_vars
<1>1. TypeOK'
  BY DEF TypeOK
<1>2. Locals'
  BY DEF TypeOK, Locals
<1>3. EachConserved'
  BY DEF TypeOK, Locals, EachConserved, Alive
<1>4. MutexDiscipline'
  BY DEF TypeOK, MutexDiscipline
<1>5. QED
  BY <1>1, <1>2, <1>3, <1>4 DEF IInv

LEMMA HcTestedOk == ASSUME IInv, hc_tested PROVE IInv'
<1>. USE SqlPoolAssumption DEF IInv, hc_tested, HcGoto, Lock, user_vars
<1>1. TypeOK'
  BY DEF TypeOK, Locals
<1>2. Locals'
  BY DEF TypeOK, Locals
<1>3. EachConserved'
  BY DEF TypeOK, Locals, EachConserved, Alive
<1>4. MutexDiscipline'
  BY DEF TypeOK, MutexDiscipline
<1>5. QED
  BY <1>1, <1>2, <1>3, <1>4 DEF IInv

LEMMA HcDoneOk == ASSUME IInv, hc_done PROVE IInv'
<1>. USE SqlPoolAssumption DEF IInv, hc_done, HcGoto, user_vars
<1>1. TypeOK'
  BY DEF TypeOK
<1>2. Locals'
  BY DEF TypeOK, Locals
<1>3. EachConserved'
  BY DEF TypeOK, Locals, EachConserved, Alive
<1>4. MutexDiscipline'
  BY DEF TypeOK, MutexDiscipline
<1>5. QED
  BY <1>1, <1>2, <1>3, <1>4 DEF IInv

LEMMA HcExitOk == ASSUME IInv, hc_exit PROVE IInv'
<1>. USE SqlPoolAssumption DEF IInv, hc_exit, HcGoto, user_vars
<1>1. TypeOK'
  BY DEF TypeOK
<1>2. Locals'
  BY DEF TypeOK, Locals
<1>3. EachConserved'
  BY DEF TypeOK, Locals, EachConserved, Alive
<1>4. MutexDiscipline'
  BY DEF TypeOK, MutexDiscipline
<1>5. QED
  BY <1>1, <1>2, <1>3, <1>4 DEF IInv

LEMMA DropOk == ASSUME IInv, drop PROVE IInv'
<1>. USE SqlPoolAssumption DEF IInv, drop, user_vars, hc_vars
<1>1. TypeOK'
  BY DEF TypeOK
<1>2. Locals'
  BY DEF TypeOK, Locals
<1>3. EachConserved'
  BY DEF TypeOK, Locals, EachConserved, Alive
<1>4. MutexDiscipline'
  BY DEF TypeOK, MutexDiscipline
<1>5. QED
  BY <1>1, <1>2, <1>3, <1>4 DEF IInv

LEMMA RequestStopOk == ASSUME IInv, request_stop PROVE IInv'
<1>. USE SqlPoolAssumption DEF IInv, request_stop, user_vars, hc_vars
<1>1. TypeOK'
  BY DEF TypeOK
<1>2. Locals'
  BY DEF TypeOK, Locals
<1>3. EachConserved'
  BY DEF TypeOK, Locals, EachConserved, Alive
<1>4. MutexDiscipline'
  BY DEF TypeOK, MutexDiscipline
<1>5. QED
  BY <1>1, <1>2, <1>3, <1>4 DEF IInv

\* The inductive invariant: every step of every fiber, of the health check
\* and of the program keeps it, and so does a stuttering step.
THEOREM InductiveInvariant == Spec => []IInv
<1>1. ASSUME IInv, [Next]_vars PROVE IInv'
  <2>1. ASSUME NEW f \in Users, get_session(f) \/ InPool(f) \/ close(f) \/ give_back(f)
        PROVE  IInv'
    BY <1>1, <2>1, GetSessionOk, LockOk, WaitOk, WakeOk, UnwindOk, TakeOk, CloseOk, GiveBackOk
    DEF InPool
  <2>2. CASE HealthCheck
    BY <1>1, <2>2, HcDueOk, HcTakeOk, HcNextOk, HcTestedOk, HcDoneOk, HcExitOk DEF HealthCheck
  <2>3. CASE drop \/ request_stop
    BY <1>1, <2>3, DropOk, RequestStopOk
  <2>4. CASE UNCHANGED vars
    BY <1>1, <2>4 DEF vars, IInv, TypeOK, Locals, EachConserved, MutexDiscipline, Alive
  <2>5. QED
    BY <1>1, <2>1, <2>2, <2>3, <2>4 DEF Next, Done
<1>2. QED
  BY <1>1, InitOk, PTL DEF Spec

\* The state of the pool, of the fibers in get_session() and of the health
\* check keeps its type.
THEOREM TypeCorrect == Spec => []TypeOK
<1>1. IInv => TypeOK
  BY DEF IInv
<1>2. QED
  BY <1>1, InductiveInvariant, PTL

\* No connection of the pool is lost or handed out twice, for any number of
\* connections, fibers and health checks.
THEOREM PoolConservedAlways == Spec => []PoolConserved
<1>1. IInv => PoolConserved
  BY ConservedForms DEF IInv
<1>2. QED
  BY <1>1, InductiveInvariant, PTL

\* mtx_ is locked exactly by the fiber or thread that is between its lock and
\* its unlock, also around the sleep inside get_session().
THEOREM MutexDisciplineAlways == Spec => []MutexDiscipline
<1>1. IInv => MutexDiscipline
  BY DEF IInv
<1>2. QED
  BY <1>1, InductiveInvariant, PTL

-----------------------------------------------------------------------------
(* The session *)


\* There is an answer on the wire only while its command holds the connection.
AnswerHeld == reply # "none" => conn_mtx # Nobody

\* The watcher's waits and queued handlers are counted by natural numbers.
WatchInv ==
  /\ armed \in Nat /\ retry \in Nat /\ ready \in Nat /\ cancelled \in Nat
  /\ notify_stream \in BOOLEAN /\ notify_running \in BOOLEAN
  /\ RunningWatched

\* A command fails because the connection is lost, or because the database
\* has refused it, which it may do to a query and a commit only.
FailsForAReason ==
  /\ phase \in [Fibers -> {"idle", "queued", "locked", "done"}]
  /\ cmd \in [Fibers -> Commands \cup {"none"}]
  /\ outcome \in [Fibers -> BOOLEAN] /\ dead \in BOOLEAN
  /\ conn_mtx \in Fibers \cup {Nobody} /\ (conn_mtx # Nobody => phase[conn_mtx] = "locked")
  /\ \A f \in Fibers :
       /\ phase[f] = "idle" => outcome[f]
       /\ outcome[f] \/ dead \/ cmd[f] \in {"query", "commit"}

\* The command of f has been executed, or has failed.
Answered(f) == phase[f] = "done" \/ (conn_mtx = f /\ reply # "none")

\* A transaction is open on the connection only on behalf of the one
\* sql_transaction, or of the constructor that is making it; the commands that
\* end it have ended it when they are answered, and handled says so.
TxnInv ==
  /\ tr \in Fibers \cup {Nobody} /\ handled \in BOOLEAN /\ in_txn \in BOOLEAN
  /\ \A f \in Fibers :
       /\ phase[f] = "idle" <=> cmd[f] = "none"
       /\ cmd[f] = "construct" => tr = Nobody
       /\ cmd[f] \in TxnCommands \ {"construct"} => tr = f /\ ~handled
       /\ cmd[f] \in TxnCommands => \A g \in Fibers \ {f} : cmd[g] \notin TxnCommands
       /\ cmd[f] \in {"commit", "rollback", "destroy"} /\ Answered(f) => ~in_txn
  /\ in_txn => ~dead /\ (tr # Nobody \/ \E f \in Fibers : cmd[f] = "construct")
  /\ tr # Nobody /\ handled => ~in_txn

\* Once ~sql_session() runs nothing is in progress but its own command, which
\* has ended the subscriptions when it is answered; the watch ends with it.
QuietInv ==
  /\ life \in {"alive", "closing", "returned"}
  /\ dead => registered = {}
  /\ life # "alive" =>
       /\ notify_handlers = {} /\ tr = Nobody /\ ~in_txn
       /\ \A f \in Fibers :
            phase[f] # "idle" =>
              /\ life = "closing" /\ cmd[f] = "UNLISTEN *"
              /\ Answered(f) => registered = {}
              /\ \A g \in Fibers \ {f} : phase[g] = "idle"
  /\ life = "returned" =>
       ~notify_running /\ ~notify_stream /\ armed = 0 /\ retry = 0 /\ registered = {}

-----------------------------------------------------------------------------
\* The connection is handed on only when the answer has been read.
LEMMA AnswerStep ==
  ASSUME AnswerHeld, ReplyNotStolen, FailsForAReason, [SessionNext]_session_vars
  PROVE  (AnswerHeld /\ ReplyNotStolen)'
<1> USE DEF AnswerHeld, ReplyNotStolen, FailsForAReason, command_vars, watch_vars, txn_vars
<1>1. ASSUME NEW f \in Fibers, task_lock(f)
     PROVE  (AnswerHeld /\ ReplyNotStolen)'
  BY <1>1, SessionAssumption DEF task_lock
<1>2. ASSUME NEW f \in Fibers, task_done(f)
     PROVE  (AnswerHeld /\ ReplyNotStolen)'
  BY <1>2, SessionAssumption DEF task_done, Consumed, Dispatched
<1>3. ASSUME NEW f \in Fibers, query_returns(f)
     PROVE  (AnswerHeld /\ ReplyNotStolen)'
  BY <1>3, SessionAssumption DEF query_returns, Returns
<1>4. ASSUME NEW f \in Fibers, listen_returns(f)
     PROVE  (AnswerHeld /\ ReplyNotStolen)'
  BY <1>4, SessionAssumption DEF listen_returns, Returns
<1>5. ASSUME NEW f \in Fibers, unlisten_returns(f)
     PROVE  (AnswerHeld /\ ReplyNotStolen)'
  BY <1>5, SessionAssumption DEF unlisten_returns, Returns
<1>6. ASSUME NEW f \in Fibers, unlisten_all_returns(f)
     PROVE  (AnswerHeld /\ ReplyNotStolen)'
  BY <1>6, SessionAssumption DEF unlisten_all_returns, Returns
<1>7. ASSUME NEW f \in Fibers, tr_returns(f)
     PROVE  (AnswerHeld /\ ReplyNotStolen)'
  BY <1>7, SessionAssumption DEF tr_returns, Returns
<1>8. ASSUME NEW f \in Fibers, NEW ok \in BOOLEAN, database_answers(f, ok)
     PROVE  (AnswerHeld /\ ReplyNotStolen)'
  BY <1>8, SessionAssumption DEF database_answers
<1>9. ASSUME NEW f \in Fibers, unlisten_all(f)
     PROVE  (AnswerHeld /\ ReplyNotStolen)'
  BY <1>9, SessionAssumption DEF unlisten_all, Submit, Free
<1>10. ASSUME NEW f \in Fibers, NEW ch \in Channels, listen(f, ch)
     PROVE  (AnswerHeld /\ ReplyNotStolen)'
  BY <1>10, SessionAssumption DEF listen, Submit, Free
<1>11. ASSUME NEW f \in Fibers, NEW ch \in Channels, unlisten(f, ch)
     PROVE  (AnswerHeld /\ ReplyNotStolen)'
  BY <1>11, SessionAssumption DEF unlisten, Submit, Free
<1>12. ASSUME NEW f \in Fibers, query(f)
     PROVE  (AnswerHeld /\ ReplyNotStolen)'
  BY <1>12, SessionAssumption DEF query, Submit, Free
<1>13. ASSUME NEW f \in Fibers, tr_destroyed(f)
     PROVE  (AnswerHeld /\ ReplyNotStolen)'
  BY <1>13, SessionAssumption DEF tr_destroyed, Free
<1>14. ASSUME NEW f \in Fibers, NEW c \in TxnCommands, tr_call(f, c)
     PROVE  (AnswerHeld /\ ReplyNotStolen)'
  BY <1>14, SessionAssumption DEF tr_call, Submit, Free
<1>15. ASSUME NEW n \in Notifs, database_notifies(n)
     PROVE  (AnswerHeld /\ ReplyNotStolen)'
  BY <1>15, SessionAssumption DEF database_notifies
<1>16. ASSUME connection_lost
     PROVE  (AnswerHeld /\ ReplyNotStolen)'
  BY <1>16, SessionAssumption DEF connection_lost
<1>17. ASSUME wait_completes
     PROVE  (AnswerHeld /\ ReplyNotStolen)'
  BY <1>17, SessionAssumption DEF wait_completes
<1>18. ASSUME retry_expires
     PROVE  (AnswerHeld /\ ReplyNotStolen)'
  BY <1>18, SessionAssumption DEF retry_expires
<1>19. ASSUME handler_cancelled
     PROVE  (AnswerHeld /\ ReplyNotStolen)'
  BY <1>19, SessionAssumption DEF handler_cancelled
<1>20. ASSUME handler_ready
     PROVE  (AnswerHeld /\ ReplyNotStolen)'
  BY <1>20, SessionAssumption DEF handler_ready, Consumed, Dispatched
<1>21. CASE UNCHANGED session_vars
  BY <1>21, Zenon DEF session_vars
<1> QED
  BY <1>1, <1>2, <1>3, <1>4, <1>5, <1>6, <1>7, <1>8, <1>9, <1>10, <1>11,
     <1>12, <1>13, <1>14, <1>15, <1>16, <1>17, <1>18, <1>19, <1>20, <1>21
  DEF SessionNext, SessionStep, SessionOver, Fibers

\* A wait that ends leaves a queued handler; a handler that ends leaves a wait
\* or clears the flag.
LEMMA WatchStep ==
  ASSUME WatchInv, [SessionNext]_session_vars
  PROVE  WatchInv'
<1> USE DEF WatchInv, RunningWatched, command_vars, watch_vars, txn_vars
<1>1. ASSUME NEW f \in Fibers, task_lock(f)
     PROVE  WatchInv'
  BY <1>1, SessionAssumption DEF task_lock
<1>2. ASSUME NEW f \in Fibers, task_done(f)
     PROVE  WatchInv'
  BY <1>2, SessionAssumption DEF task_done, Consumed, Dispatched
<1>3. ASSUME NEW f \in Fibers, query_returns(f)
     PROVE  WatchInv'
  BY <1>3, SessionAssumption DEF query_returns, Returns
<1>4. ASSUME NEW f \in Fibers, listen_returns(f)
     PROVE  WatchInv'
  <2>1. CASE UNCHANGED watch_vars
    BY <1>4, <2>1 DEF listen_returns
  <2>2. CASE /\ notify_stream' = TRUE /\ notify_running' = TRUE
             /\ armed' = IF notify_running THEN armed ELSE armed + 1
             /\ UNCHANGED <<retry, ready, cancelled>>
    <3>1. life' = life
      BY <1>4 DEF listen_returns
    <3>2. CASE notify_running
      BY <2>2, <3>1, <3>2
    <3>3. CASE ~notify_running
      <4>1. armed' = armed + 1
        BY <2>2, <3>3
      <4>2. armed' \in Nat /\ armed' + ready' + retry' > 0
        BY <2>2, <4>1
      <4> QED
        BY <2>2, <4>2
    <3> QED
      BY <3>2, <3>3
  <2> QED
    BY <1>4, <2>1, <2>2, Zenon DEF listen_returns
<1>5. ASSUME NEW f \in Fibers, unlisten_returns(f)
     PROVE  WatchInv'
  BY <1>5, SessionAssumption DEF unlisten_returns, Returns
<1>6. ASSUME NEW f \in Fibers, unlisten_all_returns(f)
     PROVE  WatchInv'
  <2>1. /\ cancelled' = cancelled + armed + retry /\ ready' = ready
        /\ armed' = 0 /\ retry' = 0 /\ notify_stream' = FALSE /\ notify_running' = FALSE
    BY <1>6 DEF unlisten_all_returns
  <2>2. cancelled' \in Nat /\ ready' \in Nat /\ armed' \in Nat /\ retry' \in Nat
    BY <2>1
  <2> QED
    BY <2>1, <2>2, Zenon
<1>7. ASSUME NEW f \in Fibers, tr_returns(f)
     PROVE  WatchInv'
  BY <1>7, SessionAssumption DEF tr_returns, Returns
<1>8. ASSUME NEW f \in Fibers, NEW ok \in BOOLEAN, database_answers(f, ok)
     PROVE  WatchInv'
  BY <1>8, SessionAssumption DEF database_answers
<1>9. ASSUME NEW f \in Fibers, unlisten_all(f)
     PROVE  WatchInv'
  BY <1>9, SessionAssumption DEF unlisten_all, Submit, Free
<1>10. ASSUME NEW f \in Fibers, NEW ch \in Channels, listen(f, ch)
     PROVE  WatchInv'
  BY <1>10, SessionAssumption DEF listen, Submit, Free
<1>11. ASSUME NEW f \in Fibers, NEW ch \in Channels, unlisten(f, ch)
     PROVE  WatchInv'
  BY <1>11, SessionAssumption DEF unlisten, Submit, Free
<1>12. ASSUME NEW f \in Fibers, query(f)
     PROVE  WatchInv'
  BY <1>12, SessionAssumption DEF query, Submit, Free
<1>13. ASSUME NEW f \in Fibers, tr_destroyed(f)
     PROVE  WatchInv'
  BY <1>13, SessionAssumption DEF tr_destroyed, Free
<1>14. ASSUME NEW f \in Fibers, NEW c \in TxnCommands, tr_call(f, c)
     PROVE  WatchInv'
  BY <1>14, SessionAssumption DEF tr_call, Submit, Free
<1>15. ASSUME NEW n \in Notifs, database_notifies(n)
     PROVE  WatchInv'
  BY <1>15, SessionAssumption DEF database_notifies
<1>16. ASSUME connection_lost
     PROVE  WatchInv'
  BY <1>16, SessionAssumption DEF connection_lost
<1>17. ASSUME wait_completes
     PROVE  WatchInv'
  BY <1>17, SessionAssumption DEF wait_completes
<1>18. ASSUME retry_expires
     PROVE  WatchInv'
  BY <1>18, SessionAssumption DEF retry_expires
<1>19. ASSUME handler_cancelled
     PROVE  WatchInv'
  BY <1>19, SessionAssumption DEF handler_cancelled
<1>20. ASSUME handler_ready
     PROVE  WatchInv'
  <2>1. /\ ready > 0 /\ ready' = ready - 1 /\ ready' \in Nat
        /\ life' = life /\ notify_stream' = notify_stream
    BY <1>20 DEF handler_ready
  <2>2. CASE life # "alive"
    <3>1. UNCHANGED <<notify_running, armed, retry, cancelled>>
      BY <1>20, <2>2 DEF handler_ready
    <3> QED
      BY <2>1, <2>2, <3>1
  <2>3. CASE cancelled' = cancelled + retry /\ retry' = 1 /\ UNCHANGED <<notify_running, armed>>
    <3>1. cancelled' \in Nat /\ retry' \in Nat /\ armed' + ready' + retry' > 0
      BY <2>1, <2>3
    <3> QED
      BY <2>1, <2>3, <3>1
  <2>4. CASE notify_running' = FALSE /\ UNCHANGED <<armed, retry, cancelled>>
    BY <2>1, <2>4, Zenon
  <2>5. CASE /\ armed' = IF notify_stream /\ notify_running THEN armed + 1 ELSE armed
             /\ UNCHANGED <<notify_running, retry, cancelled>>
             /\ life = "alive"
    <3>1. CASE notify_stream /\ notify_running
      <4>1. armed' = armed + 1
        BY <2>5, <3>1
      <4>2. armed' \in Nat /\ armed' + ready' + retry' > 0
        BY <2>1, <2>5, <4>1
      <4> QED
        BY <2>1, <2>5, <4>2
    <3>2. CASE ~(notify_stream /\ notify_running)
      <4>1. armed' = armed /\ ~notify_running
        BY <2>5, <3>2
      <4> QED
        BY <2>1, <2>5, <4>1
    <3> QED
      BY <3>1, <3>2
  <2> QED
    BY <1>20, <2>2, <2>3, <2>4, <2>5, Zenon DEF handler_ready
<1>21. CASE UNCHANGED session_vars
  BY <1>21, Zenon DEF session_vars
<1> QED
  BY <1>1, <1>2, <1>3, <1>4, <1>5, <1>6, <1>7, <1>8, <1>9, <1>10, <1>11,
     <1>12, <1>13, <1>14, <1>15, <1>16, <1>17, <1>18, <1>19, <1>20, <1>21
  DEF SessionNext, SessionStep, SessionOver, Fibers

\* An exception that leaves a destructor is that of a lost connection.
LEMMA OutcomeStep ==
  ASSUME FailsForAReason, TerminateOnlyWhenDead, [SessionNext]_session_vars
  PROVE  (FailsForAReason /\ TerminateOnlyWhenDead)'
<1> USE DEF FailsForAReason, TerminateOnlyWhenDead, Commands, ListenCommands, TxnCommands, command_vars, watch_vars, txn_vars
<1>1. ASSUME NEW f \in Fibers, task_lock(f)
     PROVE  (FailsForAReason /\ TerminateOnlyWhenDead)'
  BY <1>1, SessionAssumption DEF task_lock
<1>2. ASSUME NEW f \in Fibers, task_done(f)
     PROVE  (FailsForAReason /\ TerminateOnlyWhenDead)'
  BY <1>2, SessionAssumption DEF task_done, Consumed, Dispatched
<1>3. ASSUME NEW f \in Fibers, query_returns(f)
     PROVE  (FailsForAReason /\ TerminateOnlyWhenDead)'
  BY <1>3, SessionAssumption DEF query_returns, Returns
<1>4. ASSUME NEW f \in Fibers, listen_returns(f)
     PROVE  (FailsForAReason /\ TerminateOnlyWhenDead)'
  BY <1>4, SessionAssumption DEF listen_returns, Returns
<1>5. ASSUME NEW f \in Fibers, unlisten_returns(f)
     PROVE  (FailsForAReason /\ TerminateOnlyWhenDead)'
  BY <1>5, SessionAssumption DEF unlisten_returns, Returns
<1>6. ASSUME NEW f \in Fibers, unlisten_all_returns(f)
     PROVE  (FailsForAReason /\ TerminateOnlyWhenDead)'
  BY <1>6, SessionAssumption DEF unlisten_all_returns, Returns
<1>7. ASSUME NEW f \in Fibers, tr_returns(f)
     PROVE  (FailsForAReason /\ TerminateOnlyWhenDead)'
  BY <1>7, SessionAssumption DEF tr_returns, Returns
<1>8. ASSUME NEW f \in Fibers, NEW ok \in BOOLEAN, database_answers(f, ok)
     PROVE  (FailsForAReason /\ TerminateOnlyWhenDead)'
  BY <1>8, SessionAssumption DEF database_answers
<1>9. ASSUME NEW f \in Fibers, unlisten_all(f)
     PROVE  (FailsForAReason /\ TerminateOnlyWhenDead)'
  BY <1>9, SessionAssumption DEF unlisten_all, Submit, Free
<1>10. ASSUME NEW f \in Fibers, NEW ch \in Channels, listen(f, ch)
     PROVE  (FailsForAReason /\ TerminateOnlyWhenDead)'
  BY <1>10, SessionAssumption DEF listen, Submit, Free
<1>11. ASSUME NEW f \in Fibers, NEW ch \in Channels, unlisten(f, ch)
     PROVE  (FailsForAReason /\ TerminateOnlyWhenDead)'
  BY <1>11, SessionAssumption DEF unlisten, Submit, Free
<1>12. ASSUME NEW f \in Fibers, query(f)
     PROVE  (FailsForAReason /\ TerminateOnlyWhenDead)'
  BY <1>12, SessionAssumption DEF query, Submit, Free
<1>13. ASSUME NEW f \in Fibers, tr_destroyed(f)
     PROVE  (FailsForAReason /\ TerminateOnlyWhenDead)'
  BY <1>13, SessionAssumption DEF tr_destroyed, Free
<1>14. ASSUME NEW f \in Fibers, NEW c \in TxnCommands, tr_call(f, c)
     PROVE  (FailsForAReason /\ TerminateOnlyWhenDead)'
  BY <1>14, SessionAssumption DEF tr_call, Submit, Free
<1>15. ASSUME NEW n \in Notifs, database_notifies(n)
     PROVE  (FailsForAReason /\ TerminateOnlyWhenDead)'
  BY <1>15, SessionAssumption DEF database_notifies
<1>16. ASSUME connection_lost
     PROVE  (FailsForAReason /\ TerminateOnlyWhenDead)'
  BY <1>16, SessionAssumption DEF connection_lost
<1>17. ASSUME wait_completes
     PROVE  (FailsForAReason /\ TerminateOnlyWhenDead)'
  BY <1>17, SessionAssumption DEF wait_completes
<1>18. ASSUME retry_expires
     PROVE  (FailsForAReason /\ TerminateOnlyWhenDead)'
  BY <1>18, SessionAssumption DEF retry_expires
<1>19. ASSUME handler_cancelled
     PROVE  (FailsForAReason /\ TerminateOnlyWhenDead)'
  BY <1>19, SessionAssumption DEF handler_cancelled
<1>20. ASSUME handler_ready
     PROVE  (FailsForAReason /\ TerminateOnlyWhenDead)'
  BY <1>20, SessionAssumption DEF handler_ready, Consumed, Dispatched
<1>21. CASE UNCHANGED session_vars
  BY <1>21 DEF session_vars
<1> QED
  BY <1>1, <1>2, <1>3, <1>4, <1>5, <1>6, <1>7, <1>8, <1>9, <1>10, <1>11,
     <1>12, <1>13, <1>14, <1>15, <1>16, <1>17, <1>18, <1>19, <1>20, <1>21
  DEF SessionNext, SessionStep, SessionOver, Fibers

\* A command that does not concern transactions is submitted, or returns.
LEMMA OtherCommand ==
  ASSUME TxnInv, FailsForAReason, NEW f \in Fibers, NEW c, NEW p,
         c \notin TxnCommands, cmd[f] \notin TxnCommands, c = "none" <=> p = "idle", p # "done",
         cmd' = [cmd EXCEPT ![f] = c], phase' = [phase EXCEPT ![f] = p],
         UNCHANGED <<tr, handled, in_txn, dead, conn_mtx, reply>>
  PROVE  TxnInv'
<1>1. cmd'[f] = c /\ phase'[f] = p /\ \A g \in Fibers \ {f} : cmd'[g] = cmd[g] /\ phase'[g] = phase[g]
  BY DEF FailsForAReason
<1>2. ASSUME NEW g \in Fibers
      PROVE  /\ phase'[g] = "idle" <=> cmd'[g] = "none"
             /\ cmd'[g] = "construct" => tr = Nobody
             /\ cmd'[g] \in TxnCommands \ {"construct"} => tr = g /\ ~handled
             /\ cmd'[g] \in {"commit", "rollback", "destroy"} /\ Answered(g)' => ~in_txn
  <2>1. CASE g = f
    BY <1>1, <2>1 DEF TxnCommands
  <2>2. CASE g # f
    BY <1>1, <2>2 DEF TxnInv, Answered
  <2> QED
    BY <2>1, <2>2
<1>3. ASSUME NEW g \in Fibers, cmd'[g] \in TxnCommands, NEW h \in Fibers \ {g}
      PROVE  cmd'[h] \notin TxnCommands
  BY <1>1, <1>3 DEF TxnInv
<1>4. in_txn => ~dead /\ (tr # Nobody \/ \E g \in Fibers : cmd'[g] = "construct")
  BY <1>1 DEF TxnInv, TxnCommands
<1> QED
  BY <1>2, <1>3, <1>4 DEF TxnInv

\* COMMIT, ROLLBACK and BEGIN are commands of the one object; an answer that
\* does not come is that of a lost connection, which has no transaction.
LEMMA TxnStep ==
  ASSUME TxnInv, AnswerHeld, FailsForAReason, [SessionNext]_session_vars
  PROVE  TxnInv'
<1> USE DEF command_vars, watch_vars, txn_vars
<1>1. ASSUME NEW f \in Fibers, task_lock(f)
     PROVE  TxnInv'
  BY <1>1, SessionAssumption DEF task_lock, TxnInv, FailsForAReason, AnswerHeld, Answered, TxnCommands
<1>2. ASSUME NEW f \in Fibers, task_done(f)
     PROVE  TxnInv'
  BY <1>2, SessionAssumption DEF task_done, TxnInv, FailsForAReason, AnswerHeld, Answered, TxnCommands
<1>3. ASSUME NEW f \in Fibers, query_returns(f)
     PROVE  TxnInv'
  <2>1. /\ cmd' = [cmd EXCEPT ![f] = "none"] /\ phase' = [phase EXCEPT ![f] = "idle"]
        /\ UNCHANGED <<tr, handled, in_txn, dead, conn_mtx, reply>> /\ cmd[f] = "query"
    BY <1>3 DEF query_returns, Returns
  <2> QED
    BY <2>1, OtherCommand, Zenon DEF TxnCommands
<1>4. ASSUME NEW f \in Fibers, listen_returns(f)
     PROVE  TxnInv'
  <2>1. /\ cmd' = [cmd EXCEPT ![f] = "none"] /\ phase' = [phase EXCEPT ![f] = "idle"]
        /\ UNCHANGED <<tr, handled, in_txn, dead, conn_mtx, reply>> /\ cmd[f] = "LISTEN"
    BY <1>4 DEF listen_returns, Returns
  <2> QED
    BY <2>1, OtherCommand, Zenon DEF TxnCommands
<1>5. ASSUME NEW f \in Fibers, unlisten_returns(f)
     PROVE  TxnInv'
  <2>1. /\ cmd' = [cmd EXCEPT ![f] = "none"] /\ phase' = [phase EXCEPT ![f] = "idle"]
        /\ UNCHANGED <<tr, handled, in_txn, dead, conn_mtx, reply>> /\ cmd[f] = "UNLISTEN"
    BY <1>5 DEF unlisten_returns, Returns
  <2> QED
    BY <2>1, OtherCommand, Zenon DEF TxnCommands
<1>6. ASSUME NEW f \in Fibers, unlisten_all_returns(f)
     PROVE  TxnInv'
  <2>1. /\ cmd' = [cmd EXCEPT ![f] = "none"] /\ phase' = [phase EXCEPT ![f] = "idle"]
        /\ UNCHANGED <<tr, handled, in_txn, dead, conn_mtx, reply>> /\ cmd[f] = "UNLISTEN *"
    BY <1>6 DEF unlisten_all_returns, Returns
  <2> QED
    BY <2>1, OtherCommand DEF TxnCommands
<1>7. ASSUME NEW f \in Fibers, tr_returns(f)
     PROVE  TxnInv'
  <2>1. /\ cmd' = [cmd EXCEPT ![f] = "none"] /\ phase' = [phase EXCEPT ![f] = "idle"]
        /\ UNCHANGED <<in_txn, dead, conn_mtx, reply>>
        /\ cmd[f] \in TxnCommands /\ phase[f] = "done"
    BY <1>7 DEF tr_returns, Returns
  <2>2. /\ cmd'[f] = "none" /\ phase'[f] = "idle"
        /\ \A g \in Fibers \ {f} : cmd'[g] = cmd[g] /\ phase'[g] = phase[g]
    BY <2>1 DEF FailsForAReason
  <2>3. \A g \in Fibers : cmd'[g] \notin TxnCommands
    BY <2>1, <2>2 DEF TxnInv, TxnCommands
  <2>4. \A g \in Fibers : phase'[g] = "idle" <=> cmd'[g] = "none"
    BY <2>2, Zenon DEF TxnInv
  <2>5. /\ tr' \in Fibers \cup {Nobody} /\ handled' \in BOOLEAN
        /\ in_txn => ~dead /\ tr' # Nobody
        /\ tr' # Nobody /\ handled' => ~in_txn
    <3>1. cmd[f] \in {"commit", "rollback", "destroy"} => ~in_txn
      BY <2>1 DEF TxnInv, Answered
    <3>2. CASE cmd[f] = "construct"
      <4>1. tr' = (IF outcome[f] THEN f ELSE Nobody) /\ handled' = FALSE
        BY <1>7, <3>2 DEF tr_returns
      <4>2. outcome[f] \/ dead
        BY <3>2, Zenon DEF FailsForAReason
      <4> QED
        BY <4>1, <4>2, SessionAssumption, Zenon DEF TxnInv
    <3>3. CASE cmd[f] = "begin"
      <4>1. tr' = tr /\ handled' = handled /\ tr = f /\ ~handled
        BY <1>7, <3>3 DEF tr_returns, TxnInv, TxnCommands
      <4> QED
        BY <4>1, SessionAssumption DEF TxnInv
    <3>4. CASE cmd[f] \in {"commit", "rollback"}
      <4>1. tr' = tr /\ handled' = outcome[f]
        BY <1>7, <3>4, Zenon DEF tr_returns
      <4> QED
        BY <3>1, <3>4, <4>1 DEF TxnInv, FailsForAReason
    <3>5. CASE cmd[f] = "destroy"
      <4>1. tr' = Nobody /\ handled' = handled
        BY <1>7, <3>5 DEF tr_returns
      <4> QED
        BY <3>1, <3>5, <4>1 DEF TxnInv
    <3> QED
      BY <2>1, <3>2, <3>3, <3>4, <3>5 DEF TxnCommands
  <2> QED
    BY <2>1, <2>3, <2>4, <2>5 DEF TxnInv, TxnCommands
<1>8. ASSUME NEW f \in Fibers, NEW ok \in BOOLEAN, database_answers(f, ok)
     PROVE  TxnInv'
  BY <1>8, SessionAssumption, ZenonT(40) DEF database_answers, TxnInv, FailsForAReason, AnswerHeld, Answered, TxnCommands
<1>9. ASSUME NEW f \in Fibers, unlisten_all(f)
     PROVE  TxnInv'
  <2>1. cmd' = [cmd EXCEPT ![f] = "UNLISTEN *"] /\ phase' = [phase EXCEPT ![f] = "queued"]
    BY <1>9 DEF unlisten_all, Submit
  <2>2. UNCHANGED <<tr, handled, in_txn, dead, conn_mtx, reply>>
    BY <1>9 DEF unlisten_all, Submit
  <2>3. cmd[f] \notin TxnCommands
    BY <1>9 DEF unlisten_all, Free, TxnInv, TxnCommands
  <2> QED
    BY <2>1, <2>2, <2>3, OtherCommand DEF TxnCommands
<1>10. ASSUME NEW f \in Fibers, NEW ch \in Channels, listen(f, ch)
     PROVE  TxnInv'
  <2>1. cmd' = [cmd EXCEPT ![f] = "LISTEN"] /\ phase' = [phase EXCEPT ![f] = "queued"]
    BY <1>10 DEF listen, Submit
  <2>2. UNCHANGED <<tr, handled, in_txn, dead, conn_mtx, reply>>
    BY <1>10 DEF listen, Submit
  <2>3. cmd[f] \notin TxnCommands
    BY <1>10 DEF listen, Free, TxnInv, TxnCommands
  <2> QED
    BY <2>1, <2>2, <2>3, OtherCommand, Zenon DEF TxnCommands
<1>11. ASSUME NEW f \in Fibers, NEW ch \in Channels, unlisten(f, ch)
     PROVE  TxnInv'
  <2>1. PICK c \in {"UNLISTEN", "UNLISTEN last"} :
          cmd' = [cmd EXCEPT ![f] = c] /\ phase' = [phase EXCEPT ![f] = "queued"]
    BY <1>11 DEF unlisten, Submit
  <2>2. UNCHANGED <<tr, handled, in_txn, dead, conn_mtx, reply>>
    BY <1>11, Zenon DEF unlisten, Submit
  <2>3. cmd[f] \notin TxnCommands
    BY <1>11 DEF unlisten, Free, TxnInv, TxnCommands
  <2> QED
    BY <2>1, <2>2, <2>3, OtherCommand DEF TxnCommands
<1>12. ASSUME NEW f \in Fibers, query(f)
     PROVE  TxnInv'
  <2>1. cmd' = [cmd EXCEPT ![f] = "query"] /\ phase' = [phase EXCEPT ![f] = "queued"]
    BY <1>12 DEF query, Submit
  <2>2. UNCHANGED <<tr, handled, in_txn, dead, conn_mtx, reply>>
    BY <1>12 DEF query, Submit
  <2>3. cmd[f] \notin TxnCommands
    BY <1>12, Zenon DEF query, Free, TxnInv, TxnCommands
  <2> QED
    BY <2>1, <2>2, <2>3, OtherCommand, Zenon DEF TxnCommands
<1>13. ASSUME NEW f \in Fibers, tr_destroyed(f)
     PROVE  TxnInv'
  BY <1>13, SessionAssumption, Zenon DEF tr_destroyed, Free, TxnInv, FailsForAReason, AnswerHeld, Answered, TxnCommands
<1>14. ASSUME NEW f \in Fibers, NEW c \in TxnCommands, tr_call(f, c)
     PROVE  TxnInv'
  <2>1. /\ cmd' = [cmd EXCEPT ![f] = c] /\ phase' = [phase EXCEPT ![f] = "queued"]
        /\ UNCHANGED <<in_txn, dead, conn_mtx, reply, tr>> /\ phase[f] = "idle"
    BY <1>14 DEF tr_call, Submit, Free
  <2>2. /\ cmd'[f] = c /\ phase'[f] = "queued"
        /\ \A g \in Fibers \ {f} : cmd'[g] = cmd[g] /\ phase'[g] = phase[g]
    BY <2>1 DEF FailsForAReason
  <2>3. /\ c = "construct" => tr = Nobody /\ handled' = handled
        /\ c # "construct" => tr = f /\ ~handled'
        /\ handled' \in BOOLEAN /\ (handled' => handled)
    <3>1. handled \in BOOLEAN
      BY Zenon DEF TxnInv
    <3>2. \/ c = "construct" /\ NoTransaction /\ handled' = handled
          \/ c \in {"begin", "commit", "rollback", "destroy"} /\ tr = f /\ ~handled' /\ handled' \in BOOLEAN
      BY <1>14, <3>1, Zenon DEF tr_call
    <3>3. NoTransaction => tr = Nobody
      BY Zenon DEF NoTransaction
    <3> QED
      BY <3>1, <3>2, <3>3
  <2>4. \A g \in Fibers \ {f} : cmd[g] \notin TxnCommands
    <3>1. c = "construct" => \A g \in Fibers : cmd[g] \notin TxnCommands
      BY <1>14 DEF tr_call, NoTransaction
    <3>2. \A g \in Fibers : cmd[g] \in TxnCommands => tr \in {Nobody, g}
      BY DEF TxnInv
    <3> QED
      BY <2>3, <3>1, <3>2, SessionAssumption
  <2>5. ~Answered(f)'
    <3>1. conn_mtx # f
      BY <2>1, SessionAssumption, Zenon DEF FailsForAReason
    <3> QED
      BY <2>1, <2>2, <3>1 DEF Answered
  <2>6. ASSUME NEW g \in Fibers
        PROVE  /\ phase'[g] = "idle" <=> cmd'[g] = "none"
               /\ cmd'[g] = "construct" => tr' = Nobody
               /\ cmd'[g] \in TxnCommands \ {"construct"} => tr' = g /\ ~handled'
               /\ cmd'[g] \in TxnCommands => \A h \in Fibers \ {g} : cmd'[h] \notin TxnCommands
               /\ cmd'[g] \in {"commit", "rollback", "destroy"} /\ Answered(g)' => ~in_txn'
    <3>1. CASE g = f
      BY <2>1, <2>2, <2>3, <2>4, <2>5, <3>1 DEF TxnCommands
    <3>2. CASE g # f
      BY <2>2, <2>4, <3>2, Zenon DEF TxnInv, TxnCommands
    <3> QED
      BY <3>1, <3>2
  <2>7. in_txn => ~dead /\ (tr # Nobody \/ \E g \in Fibers : cmd'[g] = "construct")
    <3>1. cmd[f] # "construct"
      BY <2>1, Zenon DEF TxnInv
    <3> QED
      BY <2>2, <3>1 DEF TxnInv
  <2> QED
    BY <2>1, <2>3, <2>6, <2>7 DEF TxnInv
<1>15. ASSUME NEW n \in Notifs, database_notifies(n)
     PROVE  TxnInv'
  BY <1>15, SessionAssumption DEF database_notifies, TxnInv, FailsForAReason, AnswerHeld, Answered, TxnCommands
<1>16. ASSUME connection_lost
     PROVE  TxnInv'
  BY <1>16, SessionAssumption, Zenon DEF connection_lost, TxnInv, FailsForAReason, AnswerHeld, Answered, TxnCommands
<1>17. ASSUME wait_completes
     PROVE  TxnInv'
  BY <1>17, SessionAssumption, Zenon DEF wait_completes, TxnInv, FailsForAReason, AnswerHeld, Answered, TxnCommands
<1>18. ASSUME retry_expires
     PROVE  TxnInv'
  BY <1>18, SessionAssumption, Zenon DEF retry_expires, TxnInv, FailsForAReason, AnswerHeld, Answered, TxnCommands
<1>19. ASSUME handler_cancelled
     PROVE  TxnInv'
  BY <1>19, SessionAssumption, Zenon DEF handler_cancelled, TxnInv, FailsForAReason, AnswerHeld, Answered, TxnCommands
<1>20. ASSUME handler_ready
     PROVE  TxnInv'
  BY <1>20, SessionAssumption, Zenon DEF handler_ready, TxnInv, FailsForAReason, AnswerHeld, Answered, TxnCommands
<1>21. CASE UNCHANGED session_vars
  BY <1>21, Zenon DEF session_vars, TxnInv, FailsForAReason, AnswerHeld, Answered, TxnCommands
<1> QED
  BY <1>1, <1>2, <1>3, <1>4, <1>5, <1>6, <1>7, <1>8, <1>9, <1>10, <1>11,
     <1>12, <1>13, <1>14, <1>15, <1>16, <1>17, <1>18, <1>19, <1>20, <1>21
  DEF SessionNext, SessionStep, SessionOver, Fibers

\* Nobody calls anything once the destructor runs, the handlers find the
\* session gone, and the destructor's own command ends the subscriptions.
LEMMA QuietStep ==
  ASSUME QuietInv, TxnInv, AnswerHeld, FailsForAReason, [SessionNext]_session_vars
  PROVE  QuietInv'
<1> USE DEF command_vars, watch_vars, txn_vars
<1>1. ASSUME NEW f \in Fibers, task_lock(f)
     PROVE  QuietInv'
  BY <1>1, SessionAssumption, ZenonT(40) DEF task_lock, QuietInv, TxnInv, FailsForAReason, AnswerHeld, Answered, TxnCommands
<1>2. ASSUME NEW f \in Fibers, task_done(f)
     PROVE  QuietInv'
  BY <1>2, SessionAssumption, ZenonT(40) DEF task_done, QuietInv, TxnInv, FailsForAReason, AnswerHeld, Answered, TxnCommands
<1>3. ASSUME NEW f \in Fibers, query_returns(f)
     PROVE  QuietInv'
  BY <1>3, SessionAssumption, Zenon DEF query_returns, Returns, QuietInv, TxnInv, FailsForAReason, AnswerHeld, Answered, TxnCommands
<1>4. ASSUME NEW f \in Fibers, listen_returns(f)
     PROVE  QuietInv'
  BY <1>4, SessionAssumption DEF listen_returns, Returns, QuietInv, TxnInv, FailsForAReason, AnswerHeld, Answered, TxnCommands
<1>5. ASSUME NEW f \in Fibers, unlisten_returns(f)
     PROVE  QuietInv'
  BY <1>5, SessionAssumption DEF unlisten_returns, Returns, QuietInv, TxnInv, FailsForAReason, AnswerHeld, Answered, TxnCommands
<1>6. ASSUME NEW f \in Fibers, unlisten_all_returns(f)
     PROVE  QuietInv'
  BY <1>6, SessionAssumption, ZenonT(40) DEF unlisten_all_returns, Returns, QuietInv, TxnInv, FailsForAReason, AnswerHeld, Answered, TxnCommands
<1>7. ASSUME NEW f \in Fibers, tr_returns(f)
     PROVE  QuietInv'
  BY <1>7, SessionAssumption DEF tr_returns, Returns, QuietInv, TxnInv, FailsForAReason, AnswerHeld, Answered, TxnCommands
<1>8. ASSUME NEW f \in Fibers, NEW ok \in BOOLEAN, database_answers(f, ok)
     PROVE  QuietInv'
  BY <1>8, SessionAssumption DEF database_answers, QuietInv, TxnInv, FailsForAReason, AnswerHeld, Answered, TxnCommands
<1>9. ASSUME NEW f \in Fibers, unlisten_all(f)
     PROVE  QuietInv'
  BY <1>9, SessionAssumption, ZenonT(40) DEF unlisten_all, Submit, Free, NoTransaction, QuietInv, TxnInv, FailsForAReason, AnswerHeld, Answered, TxnCommands
<1>10. ASSUME NEW f \in Fibers, NEW ch \in Channels, listen(f, ch)
     PROVE  QuietInv'
  BY <1>10, SessionAssumption, Zenon DEF listen, Submit, Free, NoTransaction, QuietInv, TxnInv, FailsForAReason, AnswerHeld, Answered, TxnCommands
<1>11. ASSUME NEW f \in Fibers, NEW ch \in Channels, unlisten(f, ch)
     PROVE  QuietInv'
  BY <1>11, SessionAssumption, Zenon DEF unlisten, Submit, Free, NoTransaction, QuietInv, TxnInv, FailsForAReason, AnswerHeld, Answered, TxnCommands
<1>12. ASSUME NEW f \in Fibers, query(f)
     PROVE  QuietInv'
  BY <1>12, SessionAssumption, Zenon DEF query, Submit, Free, QuietInv, TxnInv, FailsForAReason, AnswerHeld, Answered, TxnCommands
<1>13. ASSUME NEW f \in Fibers, tr_destroyed(f)
     PROVE  QuietInv'
  BY <1>13, SessionAssumption, Zenon DEF tr_destroyed, Free, QuietInv, TxnInv, FailsForAReason, AnswerHeld, Answered, TxnCommands
<1>14. ASSUME NEW f \in Fibers, NEW c \in TxnCommands, tr_call(f, c)
     PROVE  QuietInv'
  BY <1>14, SessionAssumption, Zenon DEF tr_call, Submit, Free, NoTransaction, QuietInv, TxnInv, FailsForAReason, AnswerHeld, Answered, TxnCommands
<1>15. ASSUME NEW n \in Notifs, database_notifies(n)
     PROVE  QuietInv'
  BY <1>15, SessionAssumption, Zenon DEF database_notifies, QuietInv, TxnInv, FailsForAReason, AnswerHeld, Answered, TxnCommands
<1>16. ASSUME connection_lost
     PROVE  QuietInv'
  BY <1>16, SessionAssumption, Zenon DEF connection_lost, QuietInv, TxnInv, FailsForAReason, AnswerHeld, Answered, TxnCommands
<1>17. ASSUME wait_completes
     PROVE  QuietInv'
  BY <1>17, SessionAssumption, Zenon DEF wait_completes, QuietInv, TxnInv, FailsForAReason, AnswerHeld, Answered, TxnCommands
<1>18. ASSUME retry_expires
     PROVE  QuietInv'
  BY <1>18, SessionAssumption, Zenon DEF retry_expires, QuietInv, TxnInv, FailsForAReason, AnswerHeld, Answered, TxnCommands
<1>19. ASSUME handler_cancelled
     PROVE  QuietInv'
  BY <1>19, SessionAssumption DEF handler_cancelled, QuietInv, TxnInv, FailsForAReason, AnswerHeld, Answered, TxnCommands
<1>20. ASSUME handler_ready
     PROVE  QuietInv'
  <2>1. /\ UNCHANGED <<conn_mtx, cmd, phase, registered, dead, notify_handlers, notify_stream, life, tr, in_txn>>
        /\ life # "alive" => UNCHANGED <<reply, notify_running, armed, retry>>
    BY <1>20, Zenon DEF handler_ready
  <2>2. CASE life = "alive"
    BY <2>1, <2>2, Zenon DEF QuietInv
  <2>3. CASE life # "alive"
    <3>1. \A f \in Fibers : Answered(f)' <=> Answered(f)
      BY <2>1, <2>3 DEF Answered
    <3>2. UNCHANGED <<phase, cmd, registered, dead, notify_handlers, notify_stream, life, tr, in_txn>>
      BY <2>1
    <3>3. UNCHANGED <<notify_running, armed, retry>>
      BY <2>1, <2>3, Zenon
    <3> QED
      BY <3>1, <3>2, <3>3, Zenon DEF QuietInv
  <2> QED
    BY <2>2, <2>3
<1>21. CASE UNCHANGED session_vars
  BY <1>21 DEF session_vars, QuietInv, TxnInv, FailsForAReason, AnswerHeld, Answered, TxnCommands
<1> QED
  BY <1>1, <1>2, <1>3, <1>4, <1>5, <1>6, <1>7, <1>8, <1>9, <1>10, <1>11,
     <1>12, <1>13, <1>14, <1>15, <1>16, <1>17, <1>18, <1>19, <1>20, <1>21
  DEF SessionNext, SessionStep, SessionOver, Fibers

-----------------------------------------------------------------------------
\* All of it holds when get_session() has made the session.
LEMMA SessionInitially ==
  SessionInit => /\ AnswerHeld /\ ReplyNotStolen
                 /\ WatchInv /\ FailsForAReason /\ TerminateOnlyWhenDead
                 /\ TxnInv /\ QuietInv
<1> SUFFICES ASSUME SessionInit
             PROVE  /\ AnswerHeld /\ ReplyNotStolen
                    /\ WatchInv /\ FailsForAReason /\ TerminateOnlyWhenDead
                    /\ TxnInv /\ QuietInv
  OBVIOUS
<1> USE DEF SessionInit
<1>1. AnswerHeld /\ ReplyNotStolen
  BY DEF AnswerHeld, ReplyNotStolen
<1>2. WatchInv
  BY Zenon DEF WatchInv, RunningWatched
<1>3. FailsForAReason
  BY Zenon DEF FailsForAReason
<1>4. TerminateOnlyWhenDead
  BY DEF TerminateOnlyWhenDead
<1>5. TxnInv /\ QuietInv
  BY Zenon DEF TxnInv, QuietInv, TxnCommands
<1> QED
  BY <1>1, <1>2, <1>3, <1>4, <1>5

\* The watcher never reads the answer a query waits for: conn_mtx is held from
\* the command to its answer, and the watcher reads only if it gets conn_mtx.
THEOREM ReplySafe == SessionSpec => []ReplyNotStolen
<1>1. AnswerHeld /\ ReplyNotStolen /\ FailsForAReason /\ TerminateOnlyWhenDead
        /\ [SessionNext]_session_vars
      => (AnswerHeld /\ ReplyNotStolen /\ FailsForAReason /\ TerminateOnlyWhenDead)'
  BY AnswerStep, OutcomeStep
<1> QED
  BY <1>1, SessionInitially, PTL DEF SessionSpec

\* While notify_running is set and the session lives, a wait is pending or a
\* handler that arms one is queued, however listen(), unlisten_all() and the
\* handlers of cancelled waits follow each other.
THEOREM WatchKept == SessionSpec => []RunningWatched
<1>1. WatchInv /\ [SessionNext]_session_vars => WatchInv'
  BY WatchStep
<1>2. WatchInv => RunningWatched
  BY DEF WatchInv
<1> QED
  BY <1>1, <1>2, SessionInitially, PTL DEF SessionSpec

\* The destructor of a transaction terminates the process only when the
\* connection is lost.
THEOREM TerminateSafe == SessionSpec => []TerminateOnlyWhenDead
<1>1. FailsForAReason /\ TerminateOnlyWhenDead /\ [SessionNext]_session_vars
      => (FailsForAReason /\ TerminateOnlyWhenDead)'
  BY OutcomeStep
<1> QED
  BY <1>1, SessionInitially, PTL DEF SessionSpec

\* ~sql_session() gives a quiet connection back: no watch, no subscription and
\* no open transaction, in whatever order the calls of its users have ended.
THEOREM ReturnsClean == SessionSpec => []ReturnedClean
<1>1. /\ AnswerHeld /\ ReplyNotStolen /\ FailsForAReason /\ TerminateOnlyWhenDead /\ TxnInv /\ QuietInv
      /\ [SessionNext]_session_vars
      => (AnswerHeld /\ ReplyNotStolen /\ FailsForAReason /\ TerminateOnlyWhenDead /\ TxnInv /\ QuietInv)'
  BY AnswerStep, OutcomeStep, TxnStep, QuietStep, Zenon
<1>2. QuietInv => ReturnedClean
  BY DEF QuietInv, ReturnedClean
<1> QED
  BY <1>1, <1>2, SessionInitially, PTL DEF SessionSpec

=============================================================================
