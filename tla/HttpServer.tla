---------------------------- MODULE HttpServer -----------------------------
(***************************************************************************)
(* An http_server: its accept loop, the connections it has accepted, each  *)
(* served by a fiber of the service, and close().  A step is what a        *)
(* handler of the io_context, or a fiber between two suspensions, does;    *)
(* ssl tells a http_server<https_stream_type>.  Requests are numbered per  *)
(* connection.                                                             *)
(***************************************************************************)
EXTENDS FiberFuture, FiniteSets

CONSTANTS
  Conns,          \* connections that peers open
  Blocks,         \* memory blocks of the request pool
  NoBlock,
  MaxRequests,    \* bound on the requests of a connection
  HandshakeLimit, \* tls_handshake_timeout > 0
  ShutdownLimit   \* tls_shutdown_timeout > 0

ASSUME ServerAssumption ==
  /\ NoBlock \notin Blocks
  /\ MaxRequests \in Nat \ {0}
  /\ HandshakeLimit \in BOOLEAN /\ ShutdownLimit \in BOOLEAN

VARIABLES
  ssl,                \* the stream type
  accept,             \* the pending async_accept: armed, done or failed (its handler is queued), none
  acceptor_open,
  server_held,        \* the user holds the http_server_ptr
  active_connections, \* those whose weak_ptr is in the list
  conn,               \* conn[c]: the connection and its fiber, see NoConn
  free_list,          \* of the request pool
  close_called,       \* history: close() has been called
  late                \* history: connections whose accept handler ran after close()

srv_vars == <<accept, acceptor_open, server_held, active_connections, close_called, late>>
server_vars == <<ssl, accept, acceptor_open, server_held, active_connections, conn,
                 free_list, close_called, late>>

\* at: where the fiber is; cur, pulled: the request it serves and the last
\* one that is in its buffer; answered: responses written; keep: keep_alive
\* of the response; dirty: the response object holds an earlier response;
\* kept: a websocket that the handler has handed over to other code.
NoConn == [at |-> "none", open |-> FALSE, cur |-> 0, pulled |-> 0, answered |-> 0,
           keep |-> FALSE, dirty |-> FALSE, kept |-> FALSE, block |-> NoBlock]

WsStates == {"ws_accept", "ws_handler", "ws_read", "ws_write", "ws_close"}
IoStates == {"handshake", "read", "write", "write413", "shutdown"} \cup (WsStates \ {"ws_handler"})
States == {"none", "queued", "handler", "done", "ws_handler"} \cup IoStates

ServerInit ==
  /\ ssl \in BOOLEAN
  /\ accept = "armed" /\ acceptor_open = TRUE /\ server_held = TRUE
  /\ active_connections = {} /\ conn = [c \in Conns |-> NoConn] /\ free_list = {}
  /\ close_called = FALSE /\ late = {}

Live(c) == conn[c].at \notin {"none", "done"}

\* No server_ptr is left: handlers run while their fiber holds one.
Expired ==
  ~server_held /\ \A c \in Conns : conn[c].at \notin {"handler"} \cup WsStates

-----------------------------------------------------------------------------
(* The request pool *)

\* Blocks that can be handed out: a free one, or else new memory.
Used == {conn[c].block : c \in Conns}
block_pool_allocate == IF free_list # {} THEN free_list ELSE Blocks \ Used

-----------------------------------------------------------------------------
(* start_accept() *)

peer_connects ==
  /\ accept = "armed" /\ acceptor_open /\ ~Expired
  /\ \E c \in Conns : conn[c].at = "none"
  /\ accept' = "done"
  /\ UNCHANGED <<ssl, acceptor_open, server_held, active_connections, conn, free_list,
                 close_called, late>>

accept_fails ==
  /\ accept = "armed"
  /\ accept' = "failed"
  /\ UNCHANGED <<ssl, acceptor_open, server_held, active_connections, conn, free_list,
                 close_called, late>>

\* Success: the connection is registered (expired ones are pruned), its fiber
\* is queued by execute(), and the next accept is armed; on a closed acceptor
\* that fails.
accept_handler ==
  /\ accept = "done" /\ ~Expired
  /\ \E c \in Conns :
       /\ conn[c].at = "none"
       /\ conn' = [conn EXCEPT ![c].at = "queued", ![c].open = TRUE]
       /\ active_connections' = {d \in active_connections : Live(d)} \cup {c}
       /\ late' = IF close_called THEN late \cup {c} ELSE late
  /\ accept' = IF acceptor_open THEN "armed" ELSE "failed"
  /\ UNCHANGED <<ssl, acceptor_open, server_held, free_list, close_called>>

\* An error, or the server is gone: logged, and nothing is armed again.
accept_handler_error ==
  /\ accept = "failed" \/ (accept = "done" /\ Expired)
  /\ accept' = "none"
  /\ UNCHANGED <<ssl, acceptor_open, server_held, active_connections, conn, free_list,
                 close_called, late>>

-----------------------------------------------------------------------------
(* The fiber of a connection *)

Stays == UNCHANGED <<ssl, srv_vars>>

Goto(c, from, to) == conn[c].at = from /\ conn' = [conn EXCEPT ![c].at = to] /\ UNCHANGED free_list

\* c at a place where only its socket and its request block matter.
Past(c, at, block) ==
  conn' = [conn EXCEPT ![c] = [NoConn EXCEPT !.at = at, !.open = conn[c].open, !.block = block]]

\* Mutant of Ends: the request block is freed with the fiber in any case.
EndsFreeing(c, kept) ==
  /\ conn' = [conn EXCEPT ![c].at = "done", ![c].open = kept, ![c].kept = kept]
  /\ free_list' = free_list \cup ({conn[c].block} \ {NoBlock})

\* The task is over: the connection goes, and its socket and request with it
\* unless a websocket that somebody keeps has taken them over.
Ends(c, kept) ==
  IF kept
  THEN conn' = [conn EXCEPT ![c].at = "done", ![c].kept = TRUE] /\ UNCHANGED free_list
  ELSE /\ conn' = [conn EXCEPT ![c] = [NoConn EXCEPT !.at = "done"]]
       /\ free_list' = free_list \cup ({conn[c].block} \ {NoBlock})

\* req_pool->acquire(), then the first read.
Reads(c) ==
  \E b \in block_pool_allocate :
    /\ conn' = [conn EXCEPT ![c].at = "read", ![c].block = b]
    /\ free_list' = free_list \ {b}

\* The task starts: set_option() throws if close() has been faster.
start(c) ==
  /\ conn[c].at = "queued"
  /\ IF ~conn[c].open THEN Ends(c, FALSE)
     ELSE IF ssl THEN Goto(c, "queued", "handshake")
     ELSE Reads(c)
  /\ Stays

handshake_if_ssl(c) ==
  /\ conn[c].at = "handshake" /\ conn[c].open
  /\ Reads(c)
  /\ Stays

\* The peer fails, the limit expires, or close() has closed the socket.
handshake_fails(c) ==
  /\ conn[c].at = "handshake"
  /\ Ends(c, FALSE)
  /\ Stays

\* The last request in the buffer once the next one is: it is there already,
\* or a read brings it, perhaps together with the one that follows.
Received(c) ==
  LET next == conn[c].cur + 1
  IN  IF conn[c].pulled >= next THEN {conn[c].pulled}
      ELSE IF conn[c].open THEN {next, next + 1} \cap 1..MaxRequests
      ELSE {}

TakesRequest(c, p, to, keep) ==
  /\ conn[c].at = "read"
  /\ conn' = [conn EXCEPT ![c].at = to, ![c].cur = @ + 1, ![c].pulled = p, ![c].keep = keep]
  /\ UNCHANGED free_list

\* An HTTP request: its handler is called, or 500 prepared if the server is gone.
read_request(c, keep) ==
  /\ \E p \in Received(c) :
       IF Expired THEN TakesRequest(c, p, "write", FALSE) ELSE TakesRequest(c, p, "handler", keep)
  /\ Stays

\* An upgrade: unless bytes follow it, the server is gone or there is no
\* route, the stream moves into a websocket, which is accepted.
read_upgrade(c) ==
  /\ conn[c].at = "read"
  /\ \E p \in Received(c) :
       \/ /\ p = conn[c].cur + 1 /\ ~Expired
          /\ Past(c, "ws_accept", conn[c].block) /\ UNCHANGED free_list
       \/ Ends(c, FALSE)
  /\ Stays

ReadErrors ==
  {Ec("system", "eof"), Ec("beast", "header_limit"), Ec("beast", "body_limit"), Ec("ssl", "bad_record"),
   Ec("system", "operation_aborted")}

\* Mutant of read_fails: an aborted read is tried again.
read_fails_retried(c, ec) ==
  /\ conn[c].at = "read" /\ conn[c].pulled <= conn[c].cur
  /\ ec.name = "operation_aborted" <=> ~conn[c].open
  /\ IF ec.name = "operation_aborted" THEN UNCHANGED <<conn, free_list>> ELSE Ends(c, FALSE)
  /\ Stays

\* The read fails: a request over a limit is answered with 413, anything else
\* ends the connection.  A closed socket aborts it.
read_fails(c, ec) ==
  /\ conn[c].at = "read" /\ conn[c].pulled <= conn[c].cur
  /\ ec.name = "operation_aborted" <=> ~conn[c].open
  /\ IF async_read(ec, 0) = SetException("overflow_error")
     THEN /\ Past(c, "write413", NoBlock)
          /\ free_list' = free_list \cup {conn[c].block}
     ELSE Ends(c, FALSE)
  /\ Stays

\* The loop is left without an exception: shutdown_ssl().
Leaves(c) ==
  IF ssl THEN Past(c, "shutdown", conn[c].block) /\ UNCHANGED free_list ELSE Ends(c, FALSE)

\* The handler returns, throws not_found_error or another exception, or has
\* taken over the response; it may ask for the connection to be closed.
handler_returns(c, outcome) ==
  /\ conn[c].at = "handler"
  /\ \/ outcome = "manual" /\ Leaves(c)
     \/ /\ outcome # "manual"
        /\ conn' = [conn EXCEPT ![c].at = "write", ![c].dirty = TRUE,
                                ![c].keep = @ /\ outcome = "ok"]
        /\ UNCHANGED free_list
  /\ Stays

\* Mutant of write_response: the buffer is cleared before the next read.
write_response_clearing(c) ==
  /\ conn[c].at = "write" /\ conn[c].open
  /\ IF ~conn[c].keep THEN Leaves(c)
     ELSE /\ conn' = [conn EXCEPT ![c].at = "read", ![c].answered = @ + 1, ![c].dirty = FALSE,
                                  ![c].keep = FALSE, ![c].cur = conn[c].pulled]
          /\ UNCHANGED free_list
  /\ Stays

\* Written: leave unless the connection is persistent; otherwise the response
\* is reset and the next request read.
write_response(c) ==
  /\ conn[c].at = "write" /\ conn[c].open
  /\ IF ~conn[c].keep THEN Leaves(c)
     ELSE /\ conn' = [conn EXCEPT ![c].at = "read", ![c].answered = @ + 1, ![c].dirty = FALSE,
                                  ![c].keep = FALSE]
          /\ UNCHANGED free_list
  /\ Stays

write_413(c) ==
  /\ conn[c].at = "write413" /\ conn[c].open
  /\ Leaves(c)
  /\ Stays

write_fails(c) ==
  /\ conn[c].at \in {"write", "write413"}
  /\ Ends(c, FALSE)
  /\ Stays

\* The peer's close_notify, or an error.
shutdown_ssl(c) ==
  /\ conn[c].at = "shutdown"
  /\ Ends(c, FALSE)
  /\ Stays

\* Mutant of tls_limit: no limit is set for the shutdown.
tls_limit_handshake(c) ==
  /\ conn[c].at = "handshake" /\ HandshakeLimit
  /\ Ends(c, FALSE)
  /\ Stays

\* expires_after() of the handshake and of the shutdown.
tls_limit(c) ==
  /\ \/ conn[c].at = "handshake" /\ HandshakeLimit
     \/ conn[c].at = "shutdown" /\ ShutdownLimit
  /\ Ends(c, FALSE)
  /\ Stays

-----------------------------------------------------------------------------
(* The websocket of a connection, used by its handler *)

ws_accepted(c) == conn[c].open /\ Goto(c, "ws_accept", "ws_handler") /\ Stays

\* get_string(), send_string(), ... and close() start.
ws_call(c, op) == Goto(c, "ws_handler", op) /\ Stays

WsErrors == {Ec("system", "operation_aborted"), Ec("websocket", "ws_closed"),
             Ec("websocket", "message_too_big"), NoError}

\* A read or write completes.  An error, or a message that get_string() cannot
\* return, is an exception, which ends the handler.
ws_completes(c, ec, binary) ==
  /\ conn[c].at \in {"ws_read", "ws_write"}
  /\ ec = NoError => conn[c].open
  /\ IF dispatched_read(ec, 1).set = "exception" \/ (binary /\ conn[c].at = "ws_read")
     THEN Ends(c, FALSE)
     ELSE Goto(c, conn[c].at, "ws_handler")
  /\ Stays

ws_accept_fails(c) == conn[c].at = "ws_accept" /\ Ends(c, FALSE) /\ Stays

\* close() returns when the peer has answered, on an error or after 2 s, and
\* throws nothing.
ws_close_returns(c) == conn[c].at = "ws_close" /\ Ends(c, FALSE) /\ Stays

\* The handler returns; somebody else may keep the websocket ...
ws_returns(c, kept) == conn[c].at = "ws_handler" /\ Ends(c, kept) /\ Stays

\* ... until it is dropped.
ws_dropped(c) ==
  /\ conn[c].at = "done" /\ conn[c].kept
  /\ Ends(c, FALSE)
  /\ Stays

-----------------------------------------------------------------------------
\* Mutant of close: a connection whose fiber has not started is left alone.
close_started ==
  /\ server_held /\ ~close_called
  /\ close_called' = TRUE /\ acceptor_open' = FALSE
  /\ accept' = IF accept = "armed" THEN "failed" ELSE accept
  /\ conn' = [c \in Conns |->
                IF c \in active_connections /\ Live(c) /\ conn[c].at # "queued"
                THEN [conn[c] EXCEPT !.open = FALSE] ELSE conn[c]]
  /\ active_connections' = {}
  /\ UNCHANGED <<ssl, server_held, free_list, late>>

\* close(): the acceptor, then the socket of every connection of the list that
\* still exists, be it inside a websocket by now.
close ==
  /\ server_held /\ ~close_called
  /\ close_called' = TRUE /\ acceptor_open' = FALSE
  /\ accept' = IF accept = "armed" THEN "failed" ELSE accept
  /\ conn' = [c \in Conns |->
                IF c \in active_connections /\ Live(c)
                THEN [conn[c] EXCEPT !.open = FALSE] ELSE conn[c]]
  /\ active_connections' = {}
  /\ UNCHANGED <<ssl, server_held, free_list, late>>

drop_server ==
  /\ server_held /\ server_held' = FALSE
  /\ UNCHANGED <<ssl, accept, acceptor_open, active_connections, conn, free_list,
                 close_called, late>>

Reading(c) ==
  \/ \E keep \in BOOLEAN : read_request(c, keep)
  \/ read_upgrade(c)
  \/ \E ec \in ReadErrors : read_fails(c, ec)

Writing(c) == write_response(c) \/ write_413(c) \/ write_fails(c)

Tls(c) == handshake_if_ssl(c) \/ handshake_fails(c) \/ shutdown_ssl(c)

Websocket(c) ==
  \/ ws_accepted(c) \/ ws_accept_fails(c)
  \/ \E ec \in WsErrors, binary \in BOOLEAN : ws_completes(c, ec, binary)

HandlerReturns(c) ==
  \/ \E o \in {"ok", "not_found", "error", "manual"} : handler_returns(c, o)
  \/ \E kept \in BOOLEAN : ws_returns(c, kept)

ConnStep(c) ==
  \/ start(c) \/ Tls(c) \/ tls_limit(c) \/ Reading(c) \/ Writing(c) \/ HandlerReturns(c)
  \/ Websocket(c) \/ ws_close_returns(c)
  \/ \E op \in {"ws_read", "ws_write", "ws_close"} : ws_call(c, op)
  \/ ws_dropped(c)

\* Everybody has left.
ServerOver ==
  /\ \A c \in Conns : ~Live(c)
  /\ accept = "none" \/ \A c \in Conns : conn[c].at = "done"
  /\ UNCHANGED server_vars

ServerNext ==
  \/ peer_connects \/ accept_fails \/ accept_handler \/ accept_handler_error
  \/ \E c \in Conns : ConnStep(c)
  \/ close \/ drop_server \/ ServerOver

\* Tasks start, timers expire, an operation on a closed socket ends, and the
\* handlers users write return.
Ending(c) ==
  \/ start(c) \/ HandlerReturns(c) \/ ws_close_returns(c)
  \/ ~conn[c].open /\ (Tls(c) \/ Reading(c) \/ Writing(c) \/ Websocket(c))

ServerFairness ==
  \A c \in Conns : WF_server_vars(Ending(c)) /\ WF_server_vars(tls_limit(c))

ServerSpec == ServerInit /\ [][ServerNext]_server_vars
ServerFairSpec == ServerSpec /\ ServerFairness

-----------------------------------------------------------------------------
ServerTypeOK ==
  /\ ssl \in BOOLEAN /\ accept \in {"armed", "done", "failed", "none"}
  /\ acceptor_open \in BOOLEAN /\ server_held \in BOOLEAN
  /\ active_connections \subseteq Conns /\ late \subseteq Conns
  /\ close_called \in BOOLEAN
  /\ free_list \subseteq Blocks
  /\ conn \in [Conns -> [at : States, open : BOOLEAN, cur : 0..MaxRequests,
                         pulled : 0..MaxRequests, answered : 0..MaxRequests, keep : BOOLEAN,
                         dirty : BOOLEAN, kept : BOOLEAN, block : Blocks \cup {NoBlock}]]

\* After close() no connection is left open, whatever it was doing: queued,
\* shaking hands, reading, inside a handler or being upgraded.  Two kinds
\* escape: a websocket that was handed over, and a connection that had been
\* accepted while the handler of that accept was still queued.
CloseReaches ==
  close_called => \A c \in Conns : Live(c) /\ conn[c].open => c \in late

\* "lets the per-connection handler fibers unwind cleanly": after close() the
\* fiber of every connection it has found ends.
CloseEnds == \A c \in Conns : close_called /\ Live(c) /\ ~conn[c].open ~> ~Live(c)

\* "Protects against clients that connect and send nothing": with a limit set
\* no peer keeps a fiber in the handshake or in the shutdown of a connection.
TlsWaitsEnd ==
  \A c \in Conns : conn[c].at \in {"handshake", "shutdown"} ~> conn[c].at \notin {"handshake", "shutdown"}

\* On a persistent connection responses answer the requests one by one and in
\* order, also when a read brings two requests at once: while request n is
\* handled, the n - 1 before it have been answered, and the response object
\* holds nothing of theirs.
OneResponseEach ==
  \A c \in Conns :
    /\ conn[c].at \in {"handler", "write"} => conn[c].answered = conn[c].cur - 1
    /\ conn[c].at = "read" => conn[c].answered = conn[c].cur
    /\ conn[c].at = "handler" => ~conn[c].dirty

\* The memory of a request belongs to one connection, or to one websocket
\* that outlives its connection, until it is in the free list.
RequestsApart ==
  /\ ServerTypeOK
  /\ \A c, d \in Conns : c # d /\ conn[c].block = conn[d].block => conn[c].block = NoBlock
  /\ \A c \in Conns : conn[c].block \notin free_list
  /\ \A c \in Conns : conn[c].at \in {"read", "handler", "write"} \cup WsStates => conn[c].block # NoBlock

=============================================================================
