----------------------------- MODULE SqlSession ----------------------------
(***************************************************************************)
(* One sql_session: its connection, shared under conn_mtx by the queries   *)
(* that run on worker threads and by the LISTEN watcher of the service     *)
(* thread; the watcher's Asio waits; sql_transaction.  What a fiber does   *)
(* between two suspensions is one step; while it waits for a command the   *)
(* worker, the database, the watcher and the other fibers go on.           *)
(***************************************************************************)
EXTENDS Naturals, FiniteSets

CONSTANTS
  Listeners, \* fibers that listen and unlisten on the session
  Clients,   \* fibers that run queries and transactions on it
  Channels,
  Notifs,    \* notifications other sessions send
  Chan,      \* Chan[n]: the channel of notification n
  Nobody,
  DupFails,  \* may dup() of the socket fail?
  MaxLate    \* bound on handlers queued in the io_context when listen() is called

Fibers == Listeners \cup Clients

ASSUME SessionAssumption ==
  /\ Nobody \notin Fibers
  /\ Chan \in [Notifs -> Channels]
  /\ DupFails \in BOOLEAN /\ MaxLate \in Nat

VARIABLES
  conn_mtx,         \* the fiber whose command holds the connection, or Nobody
  cmd,              \* cmd[f]: the command f waits for, or "none"
  arg,              \* arg[f]: its channel, or Nobody
  phase,            \* phase[f]: where the command is
  outcome,          \* outcome[f]: has it succeeded so far
  reply,            \* the answer to the running command: none, wire, stolen
  notif,            \* notif[n]: unsent, wire, pq (inside libpq), posted, dropped
  registered,       \* the channels the database sends to this connection
  dead,             \* the connection is lost
  notify_handlers,  \* the channels that have a handler
  notify_stream,    \* is there a descriptor to watch
  notify_running,
  armed, retry,     \* waits pending on notify_stream and on notify_retry
  ready, cancelled, \* handlers queued with success, with operation_aborted
  life,             \* the session: alive, closing (its destructor runs), returned
  tr, handled,      \* the owner of the sql_transaction, or Nobody; its flag
  in_txn,           \* the connection is inside a transaction
  std_terminate     \* an exception has left a destructor

command_vars == <<conn_mtx, cmd, arg, phase, outcome, reply>>
watch_vars == <<notify_stream, notify_running, armed, retry, ready, cancelled>>
txn_vars == <<tr, handled, in_txn, std_terminate>>
session_vars == <<conn_mtx, cmd, arg, phase, outcome, reply, notif, registered, dead,
                  notify_handlers, notify_stream, notify_running, armed, retry,
                  ready, cancelled, life, tr, handled, in_txn, std_terminate>>

SessionInit ==
  /\ conn_mtx = Nobody
  /\ cmd = [f \in Fibers |-> "none"] /\ arg = [f \in Fibers |-> Nobody]
  /\ phase = [f \in Fibers |-> "idle"] /\ outcome = [f \in Fibers |-> TRUE]
  /\ reply = "none"
  /\ notif = [n \in Notifs |-> "unsent"] /\ registered = {} /\ dead = FALSE
  /\ notify_handlers = {} /\ notify_stream = FALSE /\ notify_running = FALSE
  /\ armed = 0 /\ retry = 0 /\ ready = 0 /\ cancelled = 0
  /\ life = "alive"
  /\ tr = Nobody /\ handled = FALSE /\ in_txn = FALSE /\ std_terminate = FALSE

ListenCommands == {"LISTEN", "UNLISTEN", "UNLISTEN last", "UNLISTEN *"}
TxnCommands == {"construct", "begin", "commit", "rollback", "destroy"}
Commands == ListenCommands \cup TxnCommands \cup {"query"}

-----------------------------------------------------------------------------
(* async(...).get(): the command as a task on a worker *)

Submit(f, c, ch) ==
  /\ cmd' = [cmd EXCEPT ![f] = c]
  /\ arg' = [arg EXCEPT ![f] = ch]
  /\ phase' = [phase EXCEPT ![f] = "queued"]
  /\ UNCHANGED <<conn_mtx, outcome, reply, registered, dead>>

\* f has nothing in progress and may use the session.
Free(f) == phase[f] = "idle" /\ life = "alive" /\ ~std_terminate

NoTransaction == tr = Nobody /\ \A g \in Fibers : cmd[g] \notin TxnCommands

task_lock(f) ==
  /\ phase[f] = "queued" /\ conn_mtx = Nobody /\ ~std_terminate
  /\ conn_mtx' = f
  /\ phase' = [phase EXCEPT ![f] = "locked"]
  /\ UNCHANGED <<cmd, arg, outcome, reply, notif, registered, dead, notify_handlers,
                 watch_vars, life, txn_vars>>

\* The database executes the command and answers; SQL may fail.  A COMMIT
\* that fails ends the transaction as well.
database_answers(f, ok) ==
  /\ conn_mtx = f /\ reply = "none" /\ ~dead /\ ~std_terminate
  /\ ok \/ cmd[f] \in {"query", "commit"}
  /\ reply' = "wire"
  /\ outcome' = [outcome EXCEPT ![f] = ok]
  /\ registered' = CASE cmd[f] = "LISTEN" -> registered \cup {arg[f]}
                     [] cmd[f] \in {"UNLISTEN", "UNLISTEN last"} -> registered \ {arg[f]}
                     [] cmd[f] = "UNLISTEN *" -> {}
                     [] OTHER -> registered
  /\ in_txn' = CASE cmd[f] \in {"construct", "begin"} -> TRUE
                 [] cmd[f] \in {"commit", "rollback", "destroy"} -> FALSE
                 [] OTHER -> in_txn
  /\ UNCHANGED <<conn_mtx, cmd, arg, phase, notif, dead, notify_handlers, watch_vars,
                 life, tr, handled, std_terminate>>

database_notifies(n) ==
  /\ notif[n] = "unsent" /\ Chan[n] \in registered /\ ~dead
  /\ notif' = [notif EXCEPT ![n] = "wire"]
  /\ UNCHANGED <<command_vars, registered, dead, notify_handlers, watch_vars, life, txn_vars>>

connection_lost ==
  /\ ~dead
  /\ dead' = TRUE /\ registered' = {} /\ in_txn' = FALSE
  /\ UNCHANGED <<command_vars, notif, notify_handlers, watch_vars, life, tr, handled,
                 std_terminate>>

\* Whoever reads the socket reads all that has arrived.
Consumed == [n \in Notifs |-> IF notif[n] = "wire" THEN "pq" ELSE notif[n]]

\* dispatch_notifications(): every notification libpq holds is posted to its
\* handler, or dropped if its channel has none.
Dispatched(q) ==
  [n \in Notifs |->
     IF notify_running /\ q[n] = "pq"
     THEN IF Chan[n] \in notify_handlers THEN "posted" ELSE "dropped"
     ELSE q[n]]

\* The worker has the answer, or finds the connection dead: it dispatches
\* (unless SOCI has thrown, or the command is a run_listen_command) and
\* unlocks, and the future is set.
task_done(f) ==
  /\ conn_mtx = f /\ ~std_terminate
  /\ reply = "wire" \/ (reply = "none" /\ dead)
  /\ outcome' = [outcome EXCEPT ![f] = reply = "wire" /\ @]
  /\ notif' = IF outcome'[f] /\ cmd[f] \notin ListenCommands
              THEN Dispatched(Consumed) ELSE Consumed
  /\ reply' = "none" /\ conn_mtx' = Nobody
  /\ phase' = [phase EXCEPT ![f] = "done"]
  /\ UNCHANGED <<cmd, arg, registered, dead, notify_handlers, watch_vars, life, txn_vars>>

Returns(f) ==
  /\ phase' = [phase EXCEPT ![f] = "idle"]
  /\ cmd' = [cmd EXCEPT ![f] = "none"]
  /\ arg' = [arg EXCEPT ![f] = Nobody]
  /\ outcome' = [outcome EXCEPT ![f] = TRUE]
  /\ UNCHANGED <<conn_mtx, reply, notif, registered, dead>>

query(f) ==
  /\ Free(f)
  /\ Submit(f, "query", Nobody)
  /\ UNCHANGED <<notif, notify_handlers, watch_vars, life, txn_vars>>

query_returns(f) ==
  /\ phase[f] = "done" /\ cmd[f] = "query" /\ ~std_terminate
  /\ Returns(f)
  /\ UNCHANGED <<notify_handlers, watch_vars, life, txn_vars>>

-----------------------------------------------------------------------------
(* LISTEN / NOTIFY.  These commands are not used inside a transaction, where
   the database would delay them. *)

listen(f, ch) ==
  /\ Free(f) /\ NoTransaction
  /\ notify_handlers' = notify_handlers \cup {ch}
  /\ Submit(f, "LISTEN", ch)
  /\ UNCHANGED <<notif, watch_vars, life, txn_vars>>

\* Mutant of listen_returns: the flag is raised although nothing is armed.
listen_returns_unarmed(f) ==
  /\ phase[f] = "done" /\ cmd[f] = "LISTEN" /\ ~std_terminate
  /\ ready + cancelled <= MaxLate
  /\ notify_stream' = TRUE /\ notify_running' = TRUE
  /\ armed' = armed
  /\ UNCHANGED <<retry, ready, cancelled>>
  /\ Returns(f)
  /\ UNCHANGED <<notify_handlers, life, txn_vars>>

\* After the command: no socket or no descriptor ends it; otherwise the watch
\* is armed unless the flag says that it is.
listen_returns(f) ==
  /\ phase[f] = "done" /\ cmd[f] = "LISTEN" /\ ~std_terminate
  /\ ready + cancelled <= MaxLate
  /\ \/ /\ dead \/ (DupFails /\ ~notify_stream)
        /\ UNCHANGED watch_vars
     \/ /\ notify_stream' = TRUE /\ notify_running' = TRUE
        /\ armed' = IF notify_running THEN armed ELSE armed + 1
        /\ UNCHANGED <<retry, ready, cancelled>>
  /\ Returns(f)
  /\ UNCHANGED <<notify_handlers, life, txn_vars>>

unlisten(f, ch) ==
  /\ Free(f) /\ NoTransaction
  /\ notify_handlers' = notify_handlers \ {ch}
  /\ Submit(f, IF notify_handlers' = {} THEN "UNLISTEN last" ELSE "UNLISTEN", ch)
  /\ UNCHANGED <<notif, watch_vars, life, txn_vars>>

unlisten_returns(f) ==
  /\ phase[f] = "done" /\ cmd[f] = "UNLISTEN" /\ ~std_terminate
  /\ Returns(f)
  /\ UNCHANGED <<notify_handlers, watch_vars, life, txn_vars>>

\* Called by the user, by unlisten() of the last channel, or by ~sql_session(),
\* which runs when the last pointer is gone.
unlisten_all(f) ==
  /\ ~std_terminate
  /\ \/ Free(f) /\ NoTransaction /\ UNCHANGED life
     \/ phase[f] = "done" /\ cmd[f] = "UNLISTEN last" /\ UNCHANGED life
     \/ /\ life = "alive" /\ tr = Nobody
        /\ \A g \in Fibers : phase[g] = "idle"
        /\ life' = "closing"
  /\ notify_handlers' = {}
  /\ Submit(f, "UNLISTEN *", Nobody)
  /\ UNCHANGED <<notif, watch_vars, txn_vars>>

\* Mutant of unlisten_all_returns: the descriptor is kept.
unlisten_all_returns_watching(f) ==
  /\ phase[f] = "done" /\ cmd[f] = "UNLISTEN *" /\ ~std_terminate
  /\ cancelled' = cancelled + retry
  /\ retry' = 0 /\ notify_running' = FALSE
  /\ UNCHANGED <<ready, armed, notify_stream>>
  /\ life' = IF life = "closing" THEN "returned" ELSE life
  /\ Returns(f)
  /\ UNCHANGED <<notify_handlers, txn_vars>>

\* The watcher is stopped: both waits complete with operation_aborted.
unlisten_all_returns(f) ==
  /\ phase[f] = "done" /\ cmd[f] = "UNLISTEN *" /\ ~std_terminate
  /\ cancelled' = cancelled + armed + retry
  /\ armed' = 0 /\ retry' = 0 /\ notify_stream' = FALSE /\ notify_running' = FALSE
  /\ UNCHANGED ready
  /\ life' = IF life = "closing" THEN "returned" ELSE life
  /\ Returns(f)
  /\ UNCHANGED <<notify_handlers, txn_vars>>

\* The socket is readable: the waits on it complete.
wait_completes ==
  /\ armed > 0 /\ ~std_terminate
  /\ reply = "wire" \/ dead \/ \E n \in Notifs : notif[n] = "wire"
  /\ ready' = ready + armed /\ armed' = 0
  /\ UNCHANGED <<command_vars, notif, registered, dead, notify_handlers, notify_stream,
                 notify_running, retry, cancelled, life, txn_vars>>

retry_expires ==
  /\ retry > 0 /\ ~std_terminate
  /\ ready' = ready + retry /\ retry' = 0
  /\ UNCHANGED <<command_vars, notif, registered, dead, notify_handlers, notify_stream,
                 notify_running, armed, cancelled, life, txn_vars>>

\* The handler is invoked with an error.
handler_cancelled ==
  /\ cancelled > 0 /\ ~std_terminate
  /\ cancelled' = cancelled - 1
  /\ notify_running' = (notify_running /\ life # "alive")
  /\ UNCHANGED <<command_vars, notif, registered, dead, notify_handlers, notify_stream,
                 armed, retry, ready, life, txn_vars>>

\* Mutant of handler_ready: it does not try to lock conn_mtx.
handler_ready_unlocked ==
  /\ ready > 0 /\ ~std_terminate
  /\ ready' = ready - 1
  /\ IF life # "alive"
     THEN UNCHANGED <<reply, notif, notify_running, armed, retry, cancelled>>
     ELSE /\ reply' = IF reply = "wire" THEN "stolen" ELSE reply
          /\ notif' = Dispatched(Consumed)
          /\ notify_running' = (notify_running /\ ~dead)
          /\ armed' = IF notify_stream /\ notify_running' THEN armed + 1 ELSE armed
          /\ UNCHANGED <<retry, cancelled>>
  /\ UNCHANGED <<conn_mtx, cmd, arg, phase, outcome, registered, dead, notify_handlers,
                 notify_stream, life, txn_vars>>

\* The handler is invoked with success: the session may be gone; a command
\* may hold the connection (look again in 2 ms, which cancels a wait that is
\* pending on the timer); the connection may be lost; or it reads, dispatches
\* and arms the next wait.
handler_ready ==
  /\ ready > 0 /\ ~std_terminate
  /\ ready' = ready - 1
  /\ \/ /\ life # "alive"
        /\ UNCHANGED <<reply, notif, notify_running, armed, retry, cancelled>>
     \/ /\ life = "alive" /\ conn_mtx # Nobody
        /\ cancelled' = cancelled + retry /\ retry' = 1
        /\ UNCHANGED <<reply, notif, notify_running, armed>>
     \/ /\ life = "alive" /\ conn_mtx = Nobody /\ dead
        /\ notify_running' = FALSE
        /\ UNCHANGED <<reply, notif, armed, retry, cancelled>>
     \/ /\ life = "alive" /\ conn_mtx = Nobody /\ ~dead
        /\ reply' = IF reply = "wire" THEN "stolen" ELSE reply
        /\ notif' = Dispatched(Consumed)
        /\ armed' = IF notify_stream /\ notify_running THEN armed + 1 ELSE armed
        /\ UNCHANGED <<notify_running, retry, cancelled>>
  /\ UNCHANGED <<conn_mtx, cmd, arg, phase, outcome, registered, dead, notify_handlers,
                 notify_stream, life, txn_vars>>

-----------------------------------------------------------------------------
(* sql_transaction *)

\* The constructor; begin(), commit() and rollback() of an object; and the
\* destructor, which has something to do unless handled is set.
tr_call(f, c) ==
  /\ Free(f)
  /\ \/ /\ c = "construct" /\ NoTransaction
        /\ \A g \in Fibers : cmd[g] \notin ListenCommands
        /\ UNCHANGED <<tr, handled>>
     \/ c = "begin" /\ tr = f /\ handled /\ handled' = FALSE /\ UNCHANGED tr
     \/ c \in {"commit", "rollback"} /\ tr = f /\ ~handled /\ UNCHANGED <<tr, handled>>
     \/ c = "destroy" /\ tr = f /\ ~handled /\ UNCHANGED <<tr, handled>>
  /\ Submit(f, c, Nobody)
  /\ UNCHANGED <<notif, notify_handlers, watch_vars, life, in_txn, std_terminate>>

tr_destroyed(f) ==
  /\ Free(f) /\ tr = f /\ handled
  /\ tr' = Nobody
  /\ UNCHANGED <<command_vars, notif, registered, dead, notify_handlers, watch_vars, life,
                 handled, in_txn, std_terminate>>

\* Mutant of tr_returns: an error of commit() is not passed on as an
\* exception but kept for the destructor to throw.
tr_returns_strict(f) ==
  /\ phase[f] = "done" /\ cmd[f] \in TxnCommands /\ ~std_terminate
  /\ tr' = CASE cmd[f] = "construct" -> IF outcome[f] THEN f ELSE Nobody
             [] cmd[f] = "destroy" -> Nobody
             [] OTHER -> tr
  /\ handled' = CASE cmd[f] = "construct" -> FALSE
                  [] cmd[f] \in {"commit", "rollback"} -> outcome[f]
                  [] OTHER -> handled
  /\ std_terminate' = (cmd[f] \in {"commit", "destroy"} /\ ~outcome[f])
  /\ Returns(f)
  /\ UNCHANGED <<notify_handlers, watch_vars, life, in_txn>>

\* The command returns or throws.  A constructor that throws leaves no
\* object; a destructor that throws terminates the process.
tr_returns(f) ==
  /\ phase[f] = "done" /\ cmd[f] \in TxnCommands /\ ~std_terminate
  /\ tr' = CASE cmd[f] = "construct" -> IF outcome[f] THEN f ELSE Nobody
             [] cmd[f] = "destroy" -> Nobody
             [] OTHER -> tr
  /\ handled' = CASE cmd[f] = "construct" -> FALSE
                  [] cmd[f] \in {"commit", "rollback"} -> outcome[f]
                  [] OTHER -> handled
  /\ std_terminate' = (cmd[f] = "destroy" /\ ~outcome[f])
  /\ Returns(f)
  /\ UNCHANGED <<notify_handlers, watch_vars, life, in_txn>>

-----------------------------------------------------------------------------
\* What goes on by itself once a call has been made.
SessionStep(f) ==
  \/ task_lock(f) \/ task_done(f)
  \/ query_returns(f) \/ listen_returns(f) \/ unlisten_returns(f)
  \/ unlisten_all_returns(f) \/ tr_returns(f)

\* The session is gone, or the process.
SessionOver == (life = "returned" \/ std_terminate) /\ UNCHANGED session_vars

SessionNext ==
  \/ \E f \in Fibers :
       \/ SessionStep(f)
       \/ \E ok \in BOOLEAN : database_answers(f, ok)
  \/ \E f \in Listeners :
       unlisten_all(f) \/ \E ch \in Channels : listen(f, ch) \/ unlisten(f, ch)
  \/ \E f \in Clients :
       query(f) \/ tr_destroyed(f) \/ \E c \in TxnCommands : tr_call(f, c)
  \/ \E n \in Notifs : database_notifies(n)
  \/ connection_lost
  \/ wait_completes \/ retry_expires \/ handler_cancelled \/ handler_ready
  \/ SessionOver

SessionSpec == SessionInit /\ [][SessionNext]_session_vars

\* Workers run their tasks, the database answers, fibers go on when their
\* future is set and poll() runs the handlers that are due.  Nobody is bound
\* to make another call.
SessionFairSpec ==
  /\ SessionSpec
  /\ \A f \in Fibers :
       /\ SF_session_vars(task_lock(f))
       /\ WF_session_vars(SessionStep(f) \/ (unlisten_all(f) /\ cmd[f] = "UNLISTEN last"))
       /\ WF_session_vars(database_answers(f, TRUE))
  /\ WF_session_vars(wait_completes) /\ WF_session_vars(retry_expires)
  /\ WF_session_vars(handler_cancelled) /\ WF_session_vars(handler_ready)

-----------------------------------------------------------------------------
\* "Reading here while the query waits for its reply used to steal the reply
\* and leave the query hanging": the watcher never reads the answer a worker
\* waits for, whenever the socket becomes readable.
ReplyNotStolen == reply # "stolen"

\* notify_running tells the truth when it is set: as long as the session
\* lives, a wait is armed on the descriptor or the timer, or a handler that
\* will arm one is queued.  listen() relies on it when it arms nothing.
RunningWatched ==
  notify_running /\ life = "alive" => notify_stream /\ armed + ready + retry > 0

\* A connection goes back to the pool quiet: ~sql_session() has ended the
\* watch and the subscriptions, and no transaction is open on it, whatever
\* its users did and in whatever order their calls ended.
ReturnedClean ==
  life = "returned" =>
    /\ notify_handlers = {} /\ ~notify_running /\ ~notify_stream
    /\ armed = 0 /\ retry = 0 /\ registered = {} /\ ~in_txn

\* A transaction object that is dropped rolls back in its destructor, which
\* ends the process if that throws: this happens when the connection has
\* been lost, never because commit() has failed before.
TerminateOnlyWhenDead == std_terminate => dead

\* "`handler` is called when a notification for that channel arrives".
NotifyDelivered ==
  \A n \in Notifs :
    notif[n] \in {"wire", "pq"} ~>
      notif[n] = "posted" \/ Chan[n] \notin notify_handlers \/ dead \/ life # "alive"

=============================================================================
