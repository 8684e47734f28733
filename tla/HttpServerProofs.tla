-------------------------- MODULE HttpServerProofs -------------------------
(***************************************************************************)
(* Proofs about HttpServer, for any connections, requests and blocks, and  *)
(* about RouteTable, for any routes and targets.                           *)
(***************************************************************************)
EXTENDS HttpServer, RouteTable, WellFoundedInduction, TLAPS

ConnType ==
  [at : States, open : BOOLEAN, cur : 0..MaxRequests, pulled : 0..MaxRequests,
   answered : 0..MaxRequests, keep : BOOLEAN, dirty : BOOLEAN, kept : BOOLEAN,
   block : Blocks \cup {NoBlock}]

\* What the fiber of a connection knows at each of its places: nothing has been
\* read before the first read; between two requests all that were read have
\* been answered and the response object is clean; the request block is held
\* as long as it is used.
InOrder(r) ==
  /\ r.cur <= r.pulled
  /\ r.at \in {"none", "queued", "handshake"} =>
       r.pulled = 0 /\ r.answered = 0 /\ ~r.dirty /\ r.block = NoBlock
  /\ r.at = "read" => r.answered = r.cur
  /\ r.at \in {"handler", "write"} => r.answered = r.cur - 1
  /\ r.at \in {"read", "handler"} => ~r.dirty
  /\ r.at \in {"read", "handler", "write"} \cup WsStates => r.block # NoBlock

\* A block is in the free list or belongs to one connection.
BlocksApart ==
  /\ \A c, d \in Conns : c # d /\ conn[c].block = conn[d].block => conn[c].block = NoBlock
  /\ \A c \in Conns : conn[c].block \notin free_list

\* Every live connection with an open socket is in the list that close() goes
\* through; after close(), it is one whose accept handler ran too late.
Listed ==
  \A c \in Conns :
    Live(c) /\ conn[c].open => IF close_called THEN c \in late ELSE c \in active_connections

ServerInv == ServerTypeOK /\ (\A c \in Conns : InOrder(conn[c])) /\ BlocksApart /\ Listed

-----------------------------------------------------------------------------
(* What a fiber does to its connection *)

\* It keeps its block, gives it back, or is handed one by the pool.
BlockMoves(c, r) ==
  \/ r.block = conn[c].block /\ free_list' = free_list
  \/ r.block = NoBlock /\ free_list' = free_list \cup ({conn[c].block} \ {NoBlock})
  \/ conn[c].block = NoBlock /\ r.block \in block_pool_allocate /\ free_list' = free_list \ {r.block}

LEMMA Typed ==
  ASSUME ServerInv
  PROVE  /\ conn \in [Conns -> ConnType]
         /\ \A c \in Conns : conn[c] \in ConnType /\ InOrder(conn[c])
         /\ free_list \subseteq Blocks
BY Zenon DEF ServerInv, ServerTypeOK, ConnType

LEMMA NoConnOk == NoConn \in ConnType /\ NoConn.block = NoBlock /\ ~NoConn.open
<1>1. 0 \in 0..MaxRequests
  BY ServerAssumption
<1> QED
  BY <1>1, Zenon DEF NoConn, ConnType, States

\* The pool hands out blocks nobody has.
LEMMA AllocatedApart ==
  ASSUME ServerInv, NEW b \in block_pool_allocate
  PROVE  b \in Blocks /\ b # NoBlock /\ \A c \in Conns : conn[c].block # b
<1>1. CASE free_list # {}
  BY <1>1, Typed, ServerAssumption, Zenon DEF ServerInv, BlocksApart, block_pool_allocate
<1>2. CASE free_list = {}
  BY <1>2, ServerAssumption, Zenon DEF block_pool_allocate, Used
<1> QED
  BY <1>1, <1>2, Zenon

\* A step of one connection that opens no socket, revives nothing, and moves
\* its block as the pool allows.
LEMMA OneConn ==
  ASSUME ServerInv, NEW c \in Conns, NEW r \in ConnType, conn' = [conn EXCEPT ![c] = r], Stays,
         r.open => conn[c].open, Live(c) \/ r.at = "done",
         InOrder(r), BlockMoves(c, r)
  PROVE  ServerInv'
<1>1. conn' \in [Conns -> ConnType] /\ conn'[c] = r /\ \A d \in Conns \ {c} : conn'[d] = conn[d]
  BY Typed, Zenon
<1>2. UNCHANGED <<ssl, accept, acceptor_open, server_held, active_connections, close_called, late>>
  BY Zenon DEF Stays, srv_vars
<1>3. free_list' \subseteq Blocks
  <2>1. conn[c].block \in Blocks \cup {NoBlock}
    BY Typed, Zenon DEF ConnType
  <2> QED
    BY <2>1, Typed, Zenon DEF BlockMoves
<1>4. ServerTypeOK'
  BY <1>1, <1>2, <1>3, Zenon DEF ServerInv, ServerTypeOK, ConnType
<1>5. \A d \in Conns : InOrder(conn[d])'
  <2> TAKE d \in Conns
  <2>1. CASE d = c
    BY <1>1, <2>1, Zenon DEF InOrder
  <2>2. CASE d # c
    BY <1>1, <2>2, Typed, Zenon DEF InOrder
  <2> QED
    BY <2>1, <2>2, Zenon
<1>6. BlocksApart'
  <2>1. CASE r.block = conn[c].block /\ free_list' = free_list
    BY <1>1, <2>1 DEF ServerInv, BlocksApart
  <2>2. CASE r.block = NoBlock /\ free_list' = free_list \cup ({conn[c].block} \ {NoBlock})
    <3>1. NoBlock \notin free_list'
      BY <1>3, ServerAssumption, Zenon
    <3>2. \A d \in Conns \ {c} : conn[d].block \notin free_list'
      BY <2>2, Zenon DEF ServerInv, BlocksApart
    <3> QED
      BY <1>1, <2>2, <3>1, <3>2 DEF ServerInv, BlocksApart
  <2>3. CASE /\ conn[c].block = NoBlock /\ r.block \in block_pool_allocate
             /\ free_list' = free_list \ {r.block}
    <3>1. \A d \in Conns : conn[d].block # r.block
      BY <2>3, AllocatedApart, Zenon
    <3> QED
      BY <1>1, <2>3, <3>1, Zenon DEF ServerInv, BlocksApart
  <2> QED
    BY <2>1, <2>2, <2>3, Zenon DEF BlockMoves
<1>7. Listed'
  <2>1. Live(c)' => Live(c)
    BY <1>1, Zenon DEF Live
  <2> QED
    BY <1>1, <1>2, <2>1, Zenon DEF ServerInv, Listed, Live
<1> QED
  BY <1>4, <1>5, <1>6, <1>7, Zenon DEF ServerInv

\* The fiber ends.
LEMMA EndsOk ==
  ASSUME ServerInv, NEW c \in Conns, NEW kept \in BOOLEAN, Ends(c, kept), Stays
  PROVE  ServerInv'
<1>1. conn[c] \in ConnType /\ InOrder(conn[c])
  BY Typed, Zenon
<1>2. CASE kept
  <2> DEFINE r == [conn[c] EXCEPT !.at = "done", !.kept = TRUE]
  <2>1. r \in ConnType /\ r.open = conn[c].open /\ r.at = "done" /\ r.block = conn[c].block
    BY <1>1, Zenon DEF ConnType, States
  <2>2. InOrder(r)
    BY <1>1, Zenon DEF InOrder, ConnType, WsStates
  <2>3. conn' = [conn EXCEPT ![c] = r] /\ free_list' = free_list
    BY <1>2, Typed, Zenon DEF Ends
  <2> HIDE DEF r
  <2> QED
    BY <2>1, <2>2, <2>3, OneConn, Zenon DEF BlockMoves
<1>3. CASE ~kept
  <2> DEFINE r == [NoConn EXCEPT !.at = "done"]
  <2>1. r \in ConnType /\ ~r.open /\ r.at = "done" /\ r.block = NoBlock
    BY NoConnOk, Zenon DEF ConnType, States
  <2>2. InOrder(r)
    BY DEF InOrder, NoConn, WsStates
  <2>3. conn' = [conn EXCEPT ![c] = r] /\ free_list' = free_list \cup ({conn[c].block} \ {NoBlock})
    BY <1>3, Zenon DEF Ends
  <2> HIDE DEF r
  <2> QED
    BY <2>1, <2>2, <2>3, OneConn, Zenon DEF BlockMoves
<1> QED
  BY <1>2, <1>3, Zenon

\* It goes on to its next place, before it has read or inside a websocket.
LEMMA GotoOk ==
  ASSUME ServerInv, NEW c \in Conns, NEW from, NEW to,
         \/ from = "queued" /\ to = "handshake"
         \/ from \in WsStates /\ to \in WsStates,
         Goto(c, from, to), Stays
  PROVE  ServerInv'
<1> DEFINE r == [conn[c] EXCEPT !.at = to]
<1>1. conn[c] \in ConnType /\ InOrder(conn[c]) /\ conn[c].at = from
  BY Typed, Zenon DEF Goto
<1>2. r \in ConnType /\ r.open = conn[c].open /\ r.block = conn[c].block
  BY <1>1, Zenon DEF ConnType, States, IoStates, WsStates
<1>3. InOrder(r)
  BY <1>1, Zenon DEF InOrder, ConnType, WsStates
<1>4. conn' = [conn EXCEPT ![c] = r] /\ free_list' = free_list /\ Live(c)
  BY <1>1, Typed, Zenon DEF Goto, Live, WsStates
<1> HIDE DEF r
<1> QED
  BY <1>2, <1>3, <1>4, OneConn, Zenon DEF BlockMoves

\* It forgets its requests.
LEMMA PastOk ==
  ASSUME ServerInv, NEW c \in Conns, Live(c),
         NEW to \in {"ws_accept", "write413", "shutdown"}, NEW block \in Blocks \cup {NoBlock},
         Past(c, to, block), Stays, to = "ws_accept" => block # NoBlock,
         \/ block = conn[c].block /\ free_list' = free_list
         \/ block = NoBlock /\ free_list' = free_list \cup ({conn[c].block} \ {NoBlock})
  PROVE  ServerInv'
<1>1. conn[c] \in ConnType
  BY Typed, Zenon
<1> DEFINE r == [NoConn EXCEPT !.at = to, !.open = conn[c].open, !.block = block]
<1>2. r \in ConnType /\ r.open = conn[c].open /\ r.block = block
  BY <1>1, NoConnOk, Zenon DEF ConnType, States, IoStates, WsStates
<1>3. InOrder(r)
  BY DEF InOrder, NoConn, WsStates
<1>4. conn' = [conn EXCEPT ![c] = r]
  BY Zenon DEF Past
<1> HIDE DEF r
<1> QED
  BY <1>2, <1>3, <1>4, OneConn, Zenon DEF BlockMoves

\* It leaves the loop.
LEMMA LeavesOk ==
  ASSUME ServerInv, NEW c \in Conns, Live(c), Leaves(c), Stays
  PROVE  ServerInv'
<1>1. CASE Past(c, "shutdown", conn[c].block) /\ UNCHANGED free_list
  <2>1. conn[c].block \in Blocks \cup {NoBlock}
    BY Typed, Zenon DEF ConnType
  <2> QED
    BY <1>1, <2>1, PastOk, Zenon
<1>2. CASE Ends(c, FALSE)
  BY <1>2, EndsOk, Zenon
<1> QED
  BY <1>1, <1>2, Zenon DEF Leaves

\* It acquires a request and reads.
LEMMA ReadsOk ==
  ASSUME ServerInv, NEW c \in Conns, conn[c].at \in {"queued", "handshake"}, Reads(c), Stays
  PROVE  ServerInv'
<1>1. PICK b \in block_pool_allocate :
        /\ conn' = [conn EXCEPT ![c].at = "read", ![c].block = b]
        /\ free_list' = free_list \ {b}
  BY Zenon DEF Reads
<1>2. b \in Blocks /\ b # NoBlock
  BY AllocatedApart, Zenon
<1> DEFINE r == [conn[c] EXCEPT !.at = "read", !.block = b]
<1>3. conn[c] \in ConnType /\ InOrder(conn[c])
  BY Typed, Zenon
<1>4. r \in ConnType /\ r.open = conn[c].open /\ r.block = b
  BY <1>2, <1>3, Zenon DEF ConnType, States, IoStates, WsStates
<1>5. InOrder(r)
  <2>1. conn[c].pulled = 0 /\ conn[c].answered = 0 /\ conn[c].cur = 0 /\ ~conn[c].dirty
    BY <1>3, ServerAssumption DEF InOrder, ConnType
  <2> QED
    BY <1>2, <1>3, <2>1, Zenon DEF InOrder, ConnType, WsStates
<1>6. conn' = [conn EXCEPT ![c] = r] /\ conn[c].block = NoBlock /\ Live(c)
  BY <1>1, <1>3, Typed, Zenon DEF InOrder, Live
<1> HIDE DEF r
<1> QED
  BY <1>1, <1>4, <1>5, <1>6, OneConn, Zenon DEF BlockMoves

\* The request that is read next lies in the buffer.
LEMMA ReceivedOk ==
  ASSUME ServerInv, NEW c \in Conns, NEW p \in Received(c)
  PROVE  p \in 0..MaxRequests /\ conn[c].cur + 1 \in 0..MaxRequests /\ conn[c].cur + 1 <= p
<1>1. conn[c].pulled \in 0..MaxRequests /\ conn[c].cur \in 0..MaxRequests
  BY Typed, Zenon DEF ConnType
<1> QED
  BY <1>1, ServerAssumption DEF Received

\* A request has arrived.
LEMMA TakesOk ==
  ASSUME ServerInv, NEW c \in Conns, NEW p \in Received(c), NEW to \in {"handler", "write"},
         NEW keep \in BOOLEAN, TakesRequest(c, p, to, keep), Stays
  PROVE  ServerInv'
<1> DEFINE r == [conn[c] EXCEPT !.at = to, !.cur = @ + 1, !.pulled = p, !.keep = keep]
<1>1. conn[c] \in ConnType /\ InOrder(conn[c]) /\ conn[c].at = "read"
  BY Typed, Zenon DEF TakesRequest
<1>2. r \in ConnType /\ r.open = conn[c].open /\ r.block = conn[c].block
  BY <1>1, ReceivedOk, Zenon DEF ConnType, States, IoStates
<1>3. InOrder(r)
  <2>1. /\ r.at = to /\ r.cur = conn[c].cur + 1 /\ r.pulled = p
        /\ r.answered = conn[c].answered /\ r.dirty = conn[c].dirty
    BY <1>1, Zenon DEF ConnType
  <2>2. conn[c].answered = conn[c].cur /\ ~conn[c].dirty /\ conn[c].block # NoBlock
    BY <1>1, Zenon DEF InOrder
  <2>3. conn[c].cur \in Nat
    BY <1>1, ServerAssumption DEF ConnType
  <2>4. r.cur <= r.pulled /\ r.answered = r.cur - 1
    BY <2>1, <2>2, <2>3, ReceivedOk
  <2> HIDE DEF r
  <2> QED
    BY <1>2, <2>1, <2>2, <2>4, Zenon DEF InOrder, WsStates
<1>4. conn' = [conn EXCEPT ![c] = r] /\ free_list' = free_list /\ Live(c)
  BY <1>1, Typed, Zenon DEF TakesRequest, Live
<1> HIDE DEF r
<1> QED
  BY <1>2, <1>3, <1>4, OneConn, Zenon DEF BlockMoves

-----------------------------------------------------------------------------
\* Every step of the server keeps the books: a socket is opened by the accept
\* handler alone, which lists it; a fiber takes its requests from the buffer in
\* their order and answers each before it reads the next; and a block changes
\* hands through the pool.
LEMMA ServerStep ==
  ASSUME ServerInv, [ServerNext]_server_vars
  PROVE  ServerInv'
<1>1. ASSUME peer_connects
     PROVE  ServerInv'
  BY <1>1, Zenon DEF peer_connects, ServerInv, ServerTypeOK, InOrder, BlocksApart, Listed, Live
<1>2. ASSUME accept_fails
     PROVE  ServerInv'
  BY <1>2, Zenon DEF accept_fails, ServerInv, ServerTypeOK, InOrder, BlocksApart, Listed, Live
<1>3. ASSUME accept_handler
     PROVE  ServerInv'
  <2>1. PICK c \in Conns :
          /\ conn[c].at = "none"
          /\ conn' = [conn EXCEPT ![c].at = "queued", ![c].open = TRUE]
          /\ active_connections' = {d \in active_connections : Live(d)} \cup {c}
          /\ late' = IF close_called THEN late \cup {c} ELSE late
    BY <1>3, Zenon DEF accept_handler
  <2>2. /\ UNCHANGED <<ssl, acceptor_open, server_held, free_list, close_called>>
        /\ accept' \in {"armed", "failed"}
    BY <1>3, Zenon DEF accept_handler
  <2> DEFINE r == [conn[c] EXCEPT !.at = "queued", !.open = TRUE]
  <2>3. conn[c] \in ConnType /\ InOrder(conn[c])
    BY Typed, Zenon
  <2>4. r \in ConnType /\ r.block = conn[c].block
    BY <2>3, Zenon DEF ConnType, States
  <2>5. InOrder(r)
    BY <2>1, <2>3, Zenon DEF InOrder, ConnType, WsStates
  <2>6. conn' = [conn EXCEPT ![c] = r]
    BY <2>1, Typed, Zenon
  <2> HIDE DEF r
  <2>7. conn' \in [Conns -> ConnType] /\ conn'[c] = r /\ \A d \in Conns \ {c} : conn'[d] = conn[d]
    BY <2>4, <2>6, Typed, Zenon
  <2>8. ServerTypeOK'
    BY <2>1, <2>2, <2>7, Zenon DEF ServerInv, ServerTypeOK, ConnType
  <2>9. \A d \in Conns : InOrder(conn[d])'
    BY <2>5, <2>7, Typed DEF InOrder
  <2>10. BlocksApart'
    BY <2>2, <2>4, <2>7 DEF ServerInv, BlocksApart
  <2>11. Listed'
    BY <2>1, <2>2, <2>7, Zenon DEF ServerInv, Listed, Live
  <2> QED
    BY <2>8, <2>9, <2>10, <2>11, Zenon DEF ServerInv
<1>4. ASSUME accept_handler_error
     PROVE  ServerInv'
  BY <1>4, Zenon DEF accept_handler_error, ServerInv, ServerTypeOK, InOrder, BlocksApart, Listed, Live
<1>5. ASSUME NEW c \in Conns, start(c)
     PROVE  ServerInv'
  <2>1. CASE Ends(c, FALSE)
    BY <1>5, <2>1, EndsOk, Zenon DEF start
  <2>2. CASE Goto(c, "queued", "handshake")
    BY <1>5, <2>2, GotoOk, Zenon DEF start
  <2>3. CASE Reads(c)
    BY <1>5, <2>3, ReadsOk, Zenon DEF start
  <2> QED
    BY <1>5, <2>1, <2>2, <2>3, Zenon DEF start
<1>6. ASSUME NEW c \in Conns, handshake_if_ssl(c)
     PROVE  ServerInv'
  BY <1>6, ReadsOk, Zenon DEF handshake_if_ssl
<1>7. ASSUME NEW c \in Conns, handshake_fails(c)
     PROVE  ServerInv'
  BY <1>7, EndsOk, Zenon DEF handshake_fails
<1>8. ASSUME NEW c \in Conns, shutdown_ssl(c)
     PROVE  ServerInv'
  BY <1>8, EndsOk, Zenon DEF shutdown_ssl
<1>9. ASSUME NEW c \in Conns, tls_limit(c)
     PROVE  ServerInv'
  BY <1>9, EndsOk, Zenon DEF tls_limit
<1>10. ASSUME NEW c \in Conns, NEW keep \in BOOLEAN, read_request(c, keep)
     PROVE  ServerInv'
  <2>1. PICK p \in Received(c) :
          TakesRequest(c, p, "write", FALSE) \/ TakesRequest(c, p, "handler", keep)
    BY <1>10, Zenon DEF read_request
  <2> QED
    BY <1>10, <2>1, TakesOk, Zenon DEF read_request
<1>11. ASSUME NEW c \in Conns, read_upgrade(c)
     PROVE  ServerInv'
  <2>1. CASE Past(c, "ws_accept", conn[c].block) /\ UNCHANGED free_list
    <3>1. conn[c].block \in Blocks \cup {NoBlock} /\ conn[c].block # NoBlock
      BY <1>11, Typed, Zenon DEF read_upgrade, ConnType, InOrder
    <3> QED
      BY <1>11, <2>1, <3>1, PastOk, Zenon DEF read_upgrade, Live
  <2>2. CASE Ends(c, FALSE)
    BY <1>11, <2>2, EndsOk, Zenon DEF read_upgrade
  <2> QED
    BY <1>11, <2>1, <2>2, Zenon DEF read_upgrade
<1>12. ASSUME NEW c \in Conns, NEW ec \in ReadErrors, read_fails(c, ec)
     PROVE  ServerInv'
  <2>1. CASE Past(c, "write413", NoBlock) /\ free_list' = free_list \cup {conn[c].block}
    <3>1. conn[c].block # NoBlock
      BY <1>12, Typed, Zenon DEF read_fails, InOrder
    <3>2. free_list' = free_list \cup ({conn[c].block} \ {NoBlock})
      BY <2>1, <3>1, Zenon
    <3> QED
      BY <1>12, <2>1, <3>2, PastOk, Zenon DEF read_fails, Live
  <2>2. CASE Ends(c, FALSE)
    BY <1>12, <2>2, EndsOk, Zenon DEF read_fails
  <2> QED
    BY <1>12, <2>1, <2>2, Zenon DEF read_fails
<1>13. ASSUME NEW c \in Conns, write_response(c)
     PROVE  ServerInv'
  <2>1. CASE Leaves(c)
    BY <1>13, <2>1, LeavesOk, Zenon DEF write_response, Live
  <2>2. CASE /\ conn' = [conn EXCEPT ![c].at = "read", ![c].answered = @ + 1, ![c].dirty = FALSE,
                                     ![c].keep = FALSE]
             /\ UNCHANGED free_list
    <3> DEFINE r == [conn[c] EXCEPT !.at = "read", !.answered = @ + 1, !.dirty = FALSE,
                                    !.keep = FALSE]
    <3>1. conn[c] \in ConnType /\ InOrder(conn[c]) /\ conn[c].at = "write"
      BY <1>13, Typed, Zenon DEF write_response
    <3>2. conn[c].answered + 1 = conn[c].cur /\ conn[c].answered + 1 \in 0..MaxRequests
      BY <3>1, ServerAssumption DEF InOrder, ConnType
    <3>3. r \in ConnType /\ r.open = conn[c].open /\ r.block = conn[c].block
      BY <3>1, <3>2, Zenon DEF ConnType, States, IoStates
    <3>4. InOrder(r)
      BY <3>1, <3>2, Zenon DEF InOrder, ConnType, WsStates
    <3>5. conn' = [conn EXCEPT ![c] = r] /\ free_list' = free_list
      BY <2>2, Typed, Zenon
    <3>6. Live(c) /\ Stays
      BY <1>13, Zenon DEF write_response, Live
    <3> HIDE DEF r
    <3> QED
      BY <3>3, <3>4, <3>5, <3>6, OneConn, Zenon DEF BlockMoves
  <2> QED
    BY <1>13, <2>1, <2>2, Zenon DEF write_response
<1>14. ASSUME NEW c \in Conns, write_413(c)
     PROVE  ServerInv'
  BY <1>14, LeavesOk, Zenon DEF write_413, Live
<1>15. ASSUME NEW c \in Conns, write_fails(c)
     PROVE  ServerInv'
  BY <1>15, EndsOk, Zenon DEF write_fails
<1>16. ASSUME NEW c \in Conns, NEW o, handler_returns(c, o)
     PROVE  ServerInv'
  <2>1. CASE Leaves(c)
    BY <1>16, <2>1, LeavesOk, Zenon DEF handler_returns, Live
  <2>2. CASE /\ conn' = [conn EXCEPT ![c].at = "write", ![c].dirty = TRUE, ![c].keep = @ /\ o = "ok"]
             /\ UNCHANGED free_list
    <3> DEFINE r == [conn[c] EXCEPT !.at = "write", !.dirty = TRUE, !.keep = @ /\ o = "ok"]
    <3>1. conn[c] \in ConnType /\ InOrder(conn[c]) /\ conn[c].at = "handler"
      BY <1>16, Typed, Zenon DEF handler_returns
    <3>2. r \in ConnType /\ r.open = conn[c].open /\ r.block = conn[c].block
      BY <3>1, Zenon DEF ConnType, States, IoStates, WsStates
    <3>3. InOrder(r)
      BY <3>1, Zenon DEF InOrder, ConnType, WsStates
    <3>4. conn' = [conn EXCEPT ![c] = r] /\ free_list' = free_list
      BY <2>2, Typed, Zenon
    <3>5. Live(c) /\ Stays
      BY <1>16, Zenon DEF handler_returns, Live
    <3> HIDE DEF r
    <3> QED
      BY <3>2, <3>3, <3>4, <3>5, OneConn, Zenon DEF BlockMoves
  <2> QED
    BY <1>16, <2>1, <2>2, Zenon DEF handler_returns
<1>17. ASSUME NEW c \in Conns, NEW kept \in BOOLEAN, ws_returns(c, kept)
     PROVE  ServerInv'
  BY <1>17, EndsOk, Zenon DEF ws_returns
<1>18. ASSUME NEW c \in Conns, ws_accepted(c)
     PROVE  ServerInv'
  BY <1>18, GotoOk, Zenon DEF ws_accepted, WsStates
<1>19. ASSUME NEW c \in Conns, ws_accept_fails(c)
     PROVE  ServerInv'
  BY <1>19, EndsOk, Zenon DEF ws_accept_fails
<1>20. ASSUME NEW c \in Conns, NEW ec \in WsErrors, NEW binary \in BOOLEAN, ws_completes(c, ec, binary)
     PROVE  ServerInv'
  <2>1. CASE Ends(c, FALSE)
    BY <1>20, <2>1, EndsOk, Zenon DEF ws_completes
  <2>2. CASE Goto(c, conn[c].at, "ws_handler")
    BY <1>20, <2>2, GotoOk, Zenon DEF ws_completes, WsStates
  <2> QED
    BY <1>20, <2>1, <2>2, Zenon DEF ws_completes
<1>21. ASSUME NEW c \in Conns, ws_close_returns(c)
     PROVE  ServerInv'
  BY <1>21, EndsOk, Zenon DEF ws_close_returns
<1>22. ASSUME NEW c \in Conns, NEW op \in {"ws_read", "ws_write", "ws_close"}, ws_call(c, op)
     PROVE  ServerInv'
  BY <1>22, GotoOk, Zenon DEF ws_call, WsStates
<1>23. ASSUME NEW c \in Conns, ws_dropped(c)
     PROVE  ServerInv'
  BY <1>23, EndsOk, Zenon DEF ws_dropped
<1>24. ASSUME close
     PROVE  ServerInv'
  <2>1. /\ close_called' = TRUE /\ UNCHANGED <<ssl, server_held, free_list, late>>
        /\ conn' = [c \in Conns |-> IF c \in active_connections /\ Live(c)
                                    THEN [conn[c] EXCEPT !.open = FALSE] ELSE conn[c]]
        /\ ~close_called /\ active_connections' = {} /\ acceptor_open' = FALSE
        /\ accept' = IF accept = "armed" THEN "failed" ELSE accept
    BY <1>24, Zenon DEF close
  <2>2. ASSUME NEW c \in Conns
        PROVE  /\ conn'[c] \in ConnType /\ conn'[c].block = conn[c].block
               /\ InOrder(conn'[c]) /\ ~(Live(c)' /\ conn'[c].open)
    <3>1. conn[c] \in ConnType /\ InOrder(conn[c])
      BY Typed, Zenon
    <3>2. CASE c \in active_connections /\ Live(c)
      <4>1. conn'[c] = [conn[c] EXCEPT !.open = FALSE]
        BY <2>1, <3>2, Zenon
      <4> QED
        BY <3>1, <4>1, Zenon DEF ConnType, InOrder
    <3>3. CASE ~(c \in active_connections /\ Live(c))
      BY <2>1, <3>1, <3>3, Zenon DEF ServerInv, Listed, Live
    <3> QED
      BY <3>2, <3>3, Zenon
  <2>3. conn' \in [Conns -> ConnType]
    BY <2>1, <2>2, Zenon
  <2>4. ServerTypeOK'
    BY <2>1, <2>3, Zenon DEF ServerInv, ServerTypeOK, ConnType
  <2>5. BlocksApart'
    BY <2>1, <2>2 DEF ServerInv, BlocksApart
  <2>6. (\A c \in Conns : InOrder(conn[c]))' /\ Listed'
    BY <2>1, <2>2, Zenon DEF InOrder, Listed
  <2> QED
    BY <2>4, <2>5, <2>6, Zenon DEF ServerInv
<1>25. ASSUME drop_server
     PROVE  ServerInv'
  BY <1>25, Zenon DEF drop_server, ServerInv, ServerTypeOK, InOrder, BlocksApart, Listed, Live
<1>26. CASE UNCHANGED server_vars
  BY <1>26, Zenon DEF server_vars, ServerInv, ServerTypeOK, InOrder, BlocksApart, Listed, Live
<1> QED
  BY <1>1, <1>2, <1>3, <1>4, <1>5, <1>6, <1>7, <1>8, <1>9, <1>10, <1>11,
     <1>12, <1>13, <1>14, <1>15, <1>16, <1>17, <1>18, <1>19, <1>20, <1>21, <1>22,
     <1>23, <1>24, <1>25, <1>26
  DEF ServerNext, ConnStep, Tls, Reading, Writing, HandlerReturns, Websocket, ServerOver

LEMMA ServerInitially == ServerInit => ServerInv
<1> SUFFICES ASSUME ServerInit PROVE ServerInv
  BY Zenon
<1>1. NoConn \in ConnType /\ InOrder(NoConn) /\ NoConn.at = "none" /\ NoConn.block = NoBlock
  BY ServerAssumption DEF NoConn, ConnType, States, InOrder, WsStates
<1>2. \A c \in Conns : conn[c] = NoConn
  BY Zenon DEF ServerInit
<1>3. ServerTypeOK
  BY <1>1, Zenon DEF ServerInit, ServerTypeOK, ConnType
<1>4. BlocksApart /\ Listed
  BY <1>1, <1>2, Zenon DEF ServerInit, BlocksApart, Listed, Live
<1> QED
  BY <1>1, <1>2, <1>3, <1>4, Zenon DEF ServerInv

\* close() closes the socket of every connection, whatever its fiber is doing,
\* but of those whose accept handler had not run yet.
THEOREM CloseReachesAll == ServerSpec => []CloseReaches
<1>1. ServerInv /\ [ServerNext]_server_vars => ServerInv'
  BY ServerStep, Zenon
<1>2. ServerInv => CloseReaches
  BY Zenon DEF ServerInv, Listed, CloseReaches
<1> QED
  BY <1>1, <1>2, ServerInitially, PTL DEF ServerSpec

\* On every persistent connection the responses answer the requests one by one
\* and in order, however many requests a read brings, and no response contains
\* anything of an earlier one.
THEOREM ResponsesInOrder == ServerSpec => []OneResponseEach
<1>1. ServerInv /\ [ServerNext]_server_vars => ServerInv'
  BY ServerStep, Zenon
<1>2. ServerInv => OneResponseEach
  BY Zenon DEF ServerInv, InOrder, OneResponseEach
<1> QED
  BY <1>1, <1>2, ServerInitially, PTL DEF ServerSpec

\* The memory of a request is never shared by two connections, nor free while
\* a fiber or a websocket that was handed over uses it.
THEOREM BlocksNotShared == ServerSpec => []RequestsApart
<1>1. ServerInv /\ [ServerNext]_server_vars => ServerInv'
  BY ServerStep, Zenon
<1>2. ServerInv => RequestsApart
  BY Zenon DEF ServerInv, InOrder, BlocksApart, RequestsApart
<1> QED
  BY <1>1, <1>2, ServerInitially, PTL DEF ServerSpec

-----------------------------------------------------------------------------
(* Least elements and induction *)

LessNat == {ss \in Nat \X Nat : ss[1] < ss[2]}

\* The numbers are well founded.
LEMMA LessWF == IsWellFoundedOn(LessNat, Nat)
<1>1. OpToRel(<, Nat) = LessNat
  BY Zenon DEF OpToRel, LessNat
<1> QED
  BY <1>1, NatLessThanWellFounded, Zenon

\* Min() of a set of numbers is the least of them.
LEMMA LeastIs ==
  ASSUME NEW T \in SUBSET Nat, T # {}
  PROVE  Min(T) \in T /\ \A y \in T : Min(T) <= y
<1>1. PICK x \in T : \A y \in T : <<y, x>> \notin LessNat
  BY WFMin, LessWF, Zenon
<1>2. ASSUME NEW y \in T PROVE x <= y
  <2>1. y \in Nat /\ x \in Nat /\ (<<y, x>> \in LessNat <=> y < x)
    BY Zenon DEF LessNat
  <2> QED
    BY <2>1, <1>1
<1> QED
  BY <1>2, Zenon DEF Min

\* A property that the first number of 1..n has, and with each number its
\* successor, all numbers of 1..n have.
LEMMA Steps ==
  ASSUME NEW n \in Nat, NEW S, 1 \in S, \A i \in 1..(n - 1) : i \in S => i + 1 \in S
  PROVE  \A i \in 1..n : i \in S
<1> DEFINE T == {i \in 1..n : i \notin S}
<1> SUFFICES ASSUME T # {} PROVE FALSE
  BY Zenon
<1>1. T \in SUBSET Nat
  OBVIOUS
<1>2. PICK m \in T : \A y \in T : m <= y
  BY <1>1, LeastIs, Zenon
<1>3. m # 1 /\ m \in 1..n /\ m \notin S
  BY Zenon
<1>4. m - 1 \in 1..(n - 1) /\ m - 1 \notin T
  BY <1>2, <1>3
<1>5. m - 1 \in S /\ (m - 1) + 1 = m
  BY <1>3, <1>4
<1> QED
  BY <1>3, <1>4, <1>5, Zenon

-----------------------------------------------------------------------------
(* Paths *)

\* When two paths begin alike.
LEMMA SamePrefixes ==
  ASSUME NEW s \in Seq(STRING), NEW t \in Seq(STRING), NEW n \in 0..Len(s), NEW m \in 0..Len(t)
  PROVE  SubSeq(s, 1, n) = SubSeq(t, 1, m) <=> n = m /\ \A i \in 1..n : s[i] = t[i]
<1>1. SubSeq(s, 1, n) \in Seq(STRING) /\ Len(SubSeq(s, 1, n)) = n
      /\ \A i \in 1..n : SubSeq(s, 1, n)[i] = s[i]
  BY SMT
<1>2. SubSeq(t, 1, m) \in Seq(STRING) /\ Len(SubSeq(t, 1, m)) = m
      /\ \A i \in 1..m : SubSeq(t, 1, m)[i] = t[i]
  BY SMT
<1>3. ASSUME n = m, \A i \in 1..n : s[i] = t[i] PROVE SubSeq(s, 1, n) = SubSeq(t, 1, m)
  BY <1>1, <1>2, <1>3
<1> QED
  BY <1>1, <1>2, <1>3, Zenon

\* A path of two characters.
LEMMA PairIs ==
  ASSUME NEW s \in Seq(STRING), Len(s) = 2
  PROVE  s = <<s[1], s[2]>>
  BY SMT

\* What is left of a path before the first of c.
LEMMA UpToIs ==
  ASSUME NEW s \in Seq(STRING), NEW c
  PROVE  \E u \in 0..Len(s) :
           /\ UpTo(s, c) = SubSeq(s, 1, u)
           /\ \A i \in 1..u : s[i] \notin c
           /\ u < Len(s) => s[u + 1] \in c
<1> DEFINE T == {i \in DOMAIN s : s[i] \in c} \cup {Len(s) + 1}
<1>1. T \in SUBSET Nat /\ T # {} /\ DOMAIN s = 1..Len(s) /\ Len(s) \in Nat
  OBVIOUS
<1>2. PICK m : m = Min(T)
  BY Zenon
<1>3. m \in T /\ \A y \in T : m <= y
  BY <1>1, <1>2, LeastIs, Zenon
<1>4. UpTo(s, c) = SubSeq(s, 1, m - 1)
  BY <1>2, Zenon DEF UpTo
<1>5. m - 1 \in 0..Len(s) /\ (m - 1) + 1 = m
  BY <1>1, <1>3
<1>6. \A i \in 1..(m - 1) : s[i] \notin c
  BY <1>1, <1>3
<1>7. m - 1 < Len(s) => s[(m - 1) + 1] \in c
  BY <1>1, <1>3
<1> QED
  BY <1>4, <1>5, <1>6, <1>7, Zenon

\* What the loss of a last slash leaves of the beginning of a path ...
LEMMA TrimmedIs ==
  ASSUME NEW s \in Seq(STRING), NEW u \in 0..Len(s), NEW least \in {0, 1}
  PROVE  TrimSlash(SubSeq(s, 1, u), least)
           = SubSeq(s, 1, IF u > least /\ s[u] = "/" THEN u - 1 ELSE u)
<1>1. PICK p : p = SubSeq(s, 1, u)
  BY Zenon
<1>2. p \in Seq(STRING) /\ Len(p) = u /\ \A i \in 1..u : p[i] = s[i]
  BY <1>1, SMT
<1>3. CASE u > least /\ s[u] = "/"
  <2>1. p[u] = "/" /\ u - 1 \in 0..Len(p) /\ u - 1 \in 0..Len(s)
    BY <1>2, <1>3
  <2>2. TrimSlash(p, least) = SubSeq(p, 1, u - 1)
    BY <2>1, <1>2, <1>3, Zenon DEF TrimSlash
  <2>3. \A i \in 1..(u - 1) : p[i] = s[i]
    BY <1>2
  <2>4. SubSeq(p, 1, u - 1) = SubSeq(s, 1, u - 1)
    BY <2>1, <2>3, <1>2, SamePrefixes
  <2> QED
    BY <1>1, <1>3, <2>2, <2>4, Zenon
<1>4. CASE ~ (u > least /\ s[u] = "/")
  <2>1. ~ (u > least /\ p[u] = "/")
    BY <1>2, <1>4
  <2> QED
    BY <1>1, <1>2, <1>4, <2>1, Zenon DEF TrimSlash
<1> QED
  BY <1>3, <1>4, Zenon

\* The path of a target, without its query and without a slash at its end.
LEMMA NormalisedIs ==
  ASSUME NEW t \in Seq(STRING)
  PROVE  \E u \in 0..Len(t) :
           /\ UpTo(t, {"?"}) = SubSeq(t, 1, u)
           /\ \A i \in 1..u : t[i] # "?"
           /\ u < Len(t) => t[u + 1] = "?"
           /\ normalise_path(t) = SubSeq(t, 1, IF u > 1 /\ t[u] = "/" THEN u - 1 ELSE u)
<1>1. PICK u \in 0..Len(t) :
         /\ UpTo(t, {"?"}) = SubSeq(t, 1, u)
         /\ \A i \in 1..u : t[i] \notin {"?"}
         /\ u < Len(t) => t[u + 1] \in {"?"}
  BY UpToIs, Zenon
<1>2. normalise_path(t) = SubSeq(t, 1, IF u > 1 /\ t[u] = "/" THEN u - 1 ELSE u)
  BY <1>1, TrimmedIs, Zenon DEF normalise_path
<1> QED
  BY <1>1, <1>2, Zenon

\* ... and of a whole one.
LEMMA TrimmedWhole ==
  ASSUME NEW s \in Seq(STRING), s # <<>>
  PROVE  TrimSlash(s, 0) = SubSeq(s, 1, IF s[Len(s)] = "/" THEN Len(s) - 1 ELSE Len(s))
<1>1. Len(s) \in 0..Len(s) /\ Len(s) > 0 /\ SubSeq(s, 1, Len(s)) = s
  BY SMT
<1> QED
  BY <1>1, TrimmedIs, Zenon

-----------------------------------------------------------------------------
(* Expressions *)

\* Before its first tag an expression matches its own text only.
LEMMA Literal ==
  ASSUME NEW spec \in Seq(STRING), NEW t \in Seq(STRING), NEW p \in 0..Len(spec),
         \A i \in 1..p : spec[i] \notin Tags, Matches(spec, t)
  PROVE  /\ p <= Len(t) /\ \A i \in 1..p : t[i] = spec[i]
         /\ p = Len(spec) => IsRest(t, p + 1)
<1>1. PICK cut \in [1..(Len(spec) + 1) -> 1..(Len(t) + 1)] :
         /\ cut[1] = 1
         /\ \A i \in 1..Len(spec) : Stands(spec[i], t, cut[i], cut[i + 1])
         /\ IsRest(t, cut[Len(spec) + 1])
  BY Zenon DEF Matches
<1> DEFINE S == {i \in 1..(p + 1) : cut[i] = i}
<1>2. ASSUME NEW i \in 1..p, i \in S
      PROVE  i <= Len(t) /\ cut[i + 1] = i + 1 /\ t[i] = spec[i]
  <2>1. Stands(spec[i], t, i, cut[i + 1])
    BY <1>1, <1>2
  <2>2. spec[i] # "<int>" /\ spec[i] # "<string>" /\ spec[i] # "<path>"
    BY Zenon DEF Tags
  <2> QED
    BY <2>1, <2>2, Zenon DEF Stands
<1>3. \A i \in 1..(p + 1) : i \in S
  <2>1. 1 \in S
    BY <1>1
  <2>2. \A i \in 1..((p + 1) - 1) : i \in S => i + 1 \in S
    BY <1>2
  <2>3. p + 1 \in Nat
    OBVIOUS
  <2> QED
    BY <2>1, <2>2, <2>3, Steps, Zenon
<1>4. \A i \in 1..p : i <= Len(t) /\ t[i] = spec[i]
  BY <1>2, <1>3
<1>5. p <= Len(t)
  BY <1>4
<1>6. cut[p + 1] = p + 1
  BY <1>3
<1> QED
  BY <1>1, <1>4, <1>5, <1>6, Zenon

\* An expression without tags matches its own text and a rest.
LEMMA OwnText ==
  ASSUME NEW spec \in Seq(STRING), NEW t \in Seq(STRING), Len(spec) <= Len(t),
         \A i \in 1..Len(spec) : spec[i] \notin Tags /\ t[i] = spec[i],
         IsRest(t, Len(spec) + 1)
  PROVE  Matches(spec, t)
<1> DEFINE cut == [i \in 1..(Len(spec) + 1) |-> i]
<1>1. cut \in [1..(Len(spec) + 1) -> 1..(Len(t) + 1)] /\ cut[1] = 1 /\ cut[Len(spec) + 1] = Len(spec) + 1
  OBVIOUS
<1>2. ASSUME NEW i \in 1..Len(spec) PROVE Stands(spec[i], t, cut[i], cut[i + 1])
  <2>1. cut[i] = i /\ cut[i + 1] = i + 1 /\ i <= Len(t) /\ t[i] = spec[i]
    OBVIOUS
  <2>2. spec[i] # "<int>" /\ spec[i] # "<string>" /\ spec[i] # "<path>"
    BY Zenon DEF Tags
  <2> QED
    BY <2>1, <2>2, Zenon DEF Stands
<1> HIDE DEF cut
<1> QED
  BY <1>1, <1>2, Zenon DEF Matches

\* What an expression allows after a text without "?": a slash, and a query.
LEMMA RestIs ==
  ASSUME NEW t \in Seq(STRING), NEW u \in 0..Len(t), NEW c \in 0..Len(t),
         \A i \in 1..u : t[i] # "?", u < Len(t) => t[u + 1] = "?",
         \A i, j \in DOMAIN t : t[i] = "?" /\ t[j] = "?" => i = j,
         \A i \in 1..c : t[i] # "?"
  PROVE  IsRest(t, c + 1) <=> (u = c \/ (u = c + 1 /\ t[u] = "/"))
<1>0. DOMAIN t = 1..Len(t) /\ Len(t) \in Nat
  OBVIOUS
<1>1. ASSUME NEW k \in {c + 1, c + 2}, k # c + 1 => c + 1 <= Len(t) /\ t[c + 1] = "/",
             k <= Len(t) => t[k] = "?"
      PROVE  u = k - 1 /\ (k # c + 1 => t[u] = "/")
  <2>1. \A i \in 1..(k - 1) : i <= Len(t) /\ t[i] # "?"
    BY <1>1
  <2>2. k - 1 <= Len(t)
    BY <1>1
  <2> QED
    BY <1>1, <2>1, <2>2
<1>2. IsRest(t, c + 1) => (u = c \/ (u = c + 1 /\ t[u] = "/"))
  BY <1>1 DEF IsRest
<1>3. u + 1 <= Len(t) => t[u + 1] = "?" /\ \A j \in ((u + 1) + 1)..Len(t) : t[j] # "?"
  BY <1>0
<1>4. ASSUME u = c PROVE IsRest(t, c + 1)
  BY <1>3, <1>4, Zenon DEF IsRest
<1>5. ASSUME u = c + 1, t[u] = "/" PROVE IsRest(t, c + 1)
  BY <1>3, <1>5, Zenon DEF IsRest
<1> QED
  BY <1>2, <1>4, <1>5, Zenon

\* The numbers of StaticSame: spec has L elements, n of them in its key and c in
\* its expression; the path of t has u elements, v of them in its key.
LEMMA SameLength ==
  ASSUME NEW spec \in Seq(STRING), NEW t \in Seq(STRING), NEW u \in 1..Len(t),
         NEW L \in Nat, L = Len(spec), L >= 1, t[1] = "/",
         L > 1 /\ spec[L] = "/" => spec[L - 1] # "/",
         ~ (u = 2 /\ t[2] = "/"),
         NEW c, c = (IF spec[L] = "/" THEN L - 1 ELSE L),
         NEW n, n = (IF L > 1 /\ spec[L] = "/" THEN L - 1 ELSE L),
         NEW v, v = (IF u > 1 /\ t[u] = "/" THEN u - 1 ELSE u)
  PROVE  (n = v /\ \A i \in 1..n : spec[i] = t[i])
           <=> (/\ c <= Len(t) /\ \A i \in 1..c : t[i] = spec[i]
                /\ u = c \/ (u = c + 1 /\ t[u] = "/"))
<1>1. CASE L = 1 /\ spec[L] = "/"
  <2>1. c = 0 /\ n = 1 /\ spec[1] = "/"
    BY <1>1
  <2>2. n = v <=> u = 1
    BY <2>1
  <2>3. (\A i \in 1..n : spec[i] = t[i]) /\ (\A i \in 1..c : t[i] = spec[i])
    BY <2>1
  <2> QED
    BY <2>1, <2>2, <2>3
<1>2. CASE ~ (L = 1 /\ spec[L] = "/")
  <2>1. n = c /\ c \in 1..L /\ spec[c] # "/"
    BY <1>2
  <2>2. ASSUME n = v, \A i \in 1..n : spec[i] = t[i]
        PROVE  /\ c <= Len(t) /\ \A i \in 1..c : t[i] = spec[i]
               /\ u = c \/ (u = c + 1 /\ t[u] = "/")
    BY <2>1, <2>2
  <2>3. ASSUME c <= Len(t), \A i \in 1..c : t[i] = spec[i], u = c \/ (u = c + 1 /\ t[u] = "/")
        PROVE  n = v /\ \A i \in 1..n : spec[i] = t[i]
    <3>1. t[c] = spec[c]
      BY <2>1, <2>3
    <3>2. n = v
      BY <2>1, <2>3, <3>1
    <3> QED
      BY <2>1, <2>3, <3>2, Zenon
  <2> QED
    BY <2>2, <2>3, Zenon
<1> QED
  BY <1>1, <1>2, Zenon

\* The lookup by the key of a path and the expression of a route without tags
\* select the same plain targets.
LEMMA StaticSame ==
  ASSUME NEW spec \in Specs, is_static_route(spec), NEW t \in Targets, Plain(t)
  PROVE  normalise_path(t) = normalise_path(spec) <=> t \in route_spec_to_regex(spec)
<1>0. /\ spec \in Seq(STRING) /\ t \in Seq(STRING)
      /\ spec # <<>> /\ \A i \in DOMAIN spec : spec[i] # "?"
      /\ ~ \E i \in DOMAIN spec : i + 1 = Len(spec) /\ spec[i] = "/" /\ spec[i + 1] = "/"
      /\ t # <<>> /\ t[1] = "/"
  BY RouteAssumption, Zenon
<1>1. PICK L \in Nat : L = Len(spec)
  BY <1>0
<1>2. L >= 1 /\ DOMAIN spec = 1..L /\ DOMAIN t = 1..Len(t)
  BY <1>0, <1>1
<1>3. PICK c : c = IF spec[L] = "/" THEN L - 1 ELSE L
  BY Zenon
<1>4. c \in 0..L /\ TrimSlash(spec, 0) = SubSeq(spec, 1, c)
  BY <1>0, <1>1, <1>2, <1>3, TrimmedWhole
<1>5. PICK n : n = IF L > 1 /\ spec[L] = "/" THEN L - 1 ELSE L
  BY Zenon
<1>6. n \in 0..L /\ normalise_path(spec) = SubSeq(spec, 1, n)
  <2>1. PICK w \in 0..Len(spec) :
           /\ \A i \in 1..w : spec[i] # "?"
           /\ w < Len(spec) => spec[w + 1] = "?"
           /\ normalise_path(spec) = SubSeq(spec, 1, IF w > 1 /\ spec[w] = "/" THEN w - 1 ELSE w)
    BY <1>0, NormalisedIs, Zenon
  <2>2. w = L
    BY <2>1, <1>0, <1>1, <1>2
  <2> QED
    BY <2>1, <2>2, <1>2, <1>5
<1>7. PICK u \in 0..Len(t) :
         /\ UpTo(t, {"?"}) = SubSeq(t, 1, u)
         /\ \A i \in 1..u : t[i] # "?"
         /\ u < Len(t) => t[u + 1] = "?"
         /\ normalise_path(t) = SubSeq(t, 1, IF u > 1 /\ t[u] = "/" THEN u - 1 ELSE u)
  BY <1>0, NormalisedIs, Zenon
<1>8. u \in 1..Len(t)
  BY <1>0, <1>7
<1>9. ~ (u = 2 /\ t[2] = "/")
  <2> SUFFICES ASSUME u = 2, t[2] = "/" PROVE FALSE
    BY Zenon
  <2>1. SubSeq(t, 1, 2) = <<"/", "/">>
    <3>1. /\ SubSeq(t, 1, 2) \in Seq(STRING) /\ Len(SubSeq(t, 1, 2)) = 2
          /\ \A i \in 1..2 : SubSeq(t, 1, 2)[i] = t[i]
      BY <1>0, <1>7, SMT
    <3>2. SubSeq(t, 1, 2)[1] = "/" /\ SubSeq(t, 1, 2)[2] = "/"
      BY <3>1, <1>0
    <3> QED
      BY <3>1, <3>2, PairIs, Zenon
  <2> QED
    BY <2>1, <1>7, Zenon DEF Plain
<1>10. PICK v : v = IF u > 1 /\ t[u] = "/" THEN u - 1 ELSE u
  BY Zenon
<1>11. v \in 0..Len(t) /\ normalise_path(t) = SubSeq(t, 1, v)
  BY <1>7, <1>8, <1>10
<1>12. normalise_path(t) = normalise_path(spec) <=> n = v /\ \A i \in 1..n : spec[i] = t[i]
  BY <1>0, <1>1, <1>6, <1>11, SamePrefixes
<1>13. @ <=> (/\ c <= Len(t) /\ \A i \in 1..c : t[i] = spec[i]
              /\ u = c \/ (u = c + 1 /\ t[u] = "/"))
  <2>1. L > 1 /\ spec[L] = "/" => spec[L - 1] # "/"
    BY <1>0, <1>1, <1>2
  <2> QED
    BY <1>0, <1>1, <1>2, <1>3, <1>5, <1>8, <1>9, <1>10, <2>1, SameLength, SMTT(120)
<1>14. @ <=> (c <= Len(t) /\ (\A i \in 1..c : t[i] = spec[i]) /\ IsRest(t, c + 1))
  <2> SUFFICES ASSUME c <= Len(t), \A i \in 1..c : t[i] = spec[i]
               PROVE  IsRest(t, c + 1) <=> (u = c \/ (u = c + 1 /\ t[u] = "/"))
    BY Zenon
  <2>1. c \in 0..Len(t)
    BY <1>4
  <2>2. \A i \in 1..c : t[i] # "?"
    BY <1>0, <1>2, <1>4, SMTT(120)
  <2>3. \A i, j \in DOMAIN t : t[i] = "?" /\ t[j] = "?" => i = j
    BY Zenon DEF Plain
  <2> QED
    BY <1>0, <1>7, <2>1, <2>2, <2>3, RestIs, Zenon
<1>15. @ <=> Matches(SubSeq(spec, 1, c), t)
  <2>1. PICK a : a = SubSeq(spec, 1, c)
    BY Zenon
  <2>2. a \in Seq(STRING) /\ Len(a) = c /\ \A i \in 1..c : a[i] = spec[i]
    BY <1>0, <1>1, <1>4, <2>1, SMT
  <2>3. \A i \in 1..c : a[i] \notin Tags
    BY <2>2, <1>2, <1>4 DEF is_static_route
  <2>4. c \in 0..Len(a)
    BY <2>2, <1>4
  <2>5. Matches(a, t) => (c <= Len(t) /\ (\A i \in 1..c : t[i] = spec[i]) /\ IsRest(t, c + 1))
    BY <1>0, <2>2, <2>3, <2>4, Literal, Zenon
  <2>6. (c <= Len(t) /\ (\A i \in 1..c : t[i] = spec[i]) /\ IsRest(t, c + 1)) => Matches(a, t)
    BY <1>0, <2>2, <2>3, OwnText, Zenon
  <2> QED
    BY <2>1, <2>5, <2>6, Zenon
<1>16. t \in route_spec_to_regex(spec) <=> Matches(TrimSlash(spec, 0), t)
  BY Zenon DEF route_spec_to_regex, Compiled
<1> QED
  BY <1>4, <1>12, <1>13, <1>14, <1>15, <1>16, Zenon

\* The quick check passes every target that the expression of the route selects.
LEMMA PrefixSafe ==
  ASSUME NEW spec \in Specs, ~ is_static_route(spec), NEW t \in Targets, t \in route_spec_to_regex(spec)
  PROVE  prefix_check(extract_static_prefix(spec), t)
<1>0. spec \in Seq(STRING) /\ t \in Seq(STRING) /\ spec # <<>>
  BY RouteAssumption, Zenon
<1>1. PICK u \in 0..Len(spec) :
         /\ UpTo(spec, Tags) = SubSeq(spec, 1, u)
         /\ \A i \in 1..u : spec[i] \notin Tags
         /\ u < Len(spec) => spec[u + 1] \in Tags
  BY <1>0, UpToIs, Zenon
<1>2. PICK c : c = IF spec[Len(spec)] = "/" THEN Len(spec) - 1 ELSE Len(spec)
  BY Zenon
<1>3. c \in 0..Len(spec) /\ TrimSlash(spec, 0) = SubSeq(spec, 1, c)
  BY <1>0, <1>2, TrimmedWhole
<1>4. u < Len(spec)
  BY <1>0, <1>1 DEF is_static_route
<1>5. u \in 0..c
  BY <1>0, <1>1, <1>2, <1>4 DEF Tags
<1>6. PICK a : a = SubSeq(spec, 1, c)
  BY Zenon
<1>7. a \in Seq(STRING) /\ Len(a) = c /\ \A i \in 1..c : a[i] = spec[i]
  BY <1>0, <1>3, <1>6, SMT
<1>8. Matches(a, t)
  BY <1>3, <1>6, Zenon DEF route_spec_to_regex, Compiled
<1>9. u <= Len(t) /\ \A i \in 1..u : t[i] = a[i]
  <2>1. u \in 0..Len(a) /\ \A i \in 1..u : a[i] \notin Tags
    BY <1>1, <1>5, <1>7
  <2> QED
    BY <2>1, <1>0, <1>7, <1>8, Literal, Zenon
<1>10. SubSeq(spec, 1, u) = SubSeq(t, 1, u)
  <2>1. u \in 0..Len(t) /\ \A i \in 1..u : spec[i] = t[i]
    BY <1>5, <1>7, <1>9
  <2> QED
    BY <2>1, <1>0, SamePrefixes
<1>11. Len(SubSeq(t, 1, u)) = u
  BY <1>0, <1>9, SMT
<1> QED
  BY <1>0, <1>1, <1>9, <1>10, <1>11, Zenon DEF prefix_check, extract_static_prefix

-----------------------------------------------------------------------------
(* The invariant *)

\* What a route is: one of a spec, or one of serve_static().
Route == [id : Nat \ {0}, spec : Specs, raw : {FALSE}, method : Methods]
           \cup [id : Nat \ {0}, spec : UrlPrefixes, raw : {TRUE}, method : {"GET"}]

\* The elements of list are those of ord that are in S, in the order of ord:
\* element i of list is the one at place[i] of ord.
Placed(list, ord, S, place) ==
  /\ \A i \in 1..Len(list) : list[i] = ord[place[i]] /\ ord[place[i]] \in S
  /\ \A i, j \in 1..Len(list) : i < j => place[i] < place[j]
  /\ \A k \in 1..Len(ord) : ord[k] \in S => \E i \in 1..Len(list) : place[i] = k

ListsIn(list, ord, S) ==
  /\ list \in Seq(Route)
  /\ \E place \in [1..Len(list) -> 1..Len(ord)] : Placed(list, ord, S, place)

Static(key) == {r \in Route : ~ r.raw /\ is_static_route(r.spec) /\ normalise_path(r.spec) = key}
Tagged == {r \in Route : ~ r.raw /\ ~ is_static_route(r.spec)}
Raw == {r \in Route : r.raw}

Keys == {normalise_path(x) : x \in Specs \cup Targets}

Routed(entries) == [i \in DOMAIN entries |-> entries[i].route]

Entry == [prefix : {extract_static_prefix(s) : s \in Specs}, route : Route]

PrefixesOk == \A i \in DOMAIN prefix_routes :
                prefix_routes[i].prefix = extract_static_prefix(prefix_routes[i].route.spec)

RouteInv ==
  /\ order \in Seq(Route)
  /\ prefix_routes \in Seq(Entry) /\ PrefixesOk
  /\ \A key \in Keys : ListsIn(Exact(key), order, Static(key))
  /\ ListsIn(Routed(prefix_routes), order, Tagged)
  /\ ListsIn(fallback_routes, order, Raw)

-----------------------------------------------------------------------------
(* Lists of routes *)

\* Where the routes are after one is put in front ...
LEMMA InsertFront ==
  ASSUME NEW A, NEW s \in Seq(A), NEW r \in A
  PROVE  /\ <<r>> \o s \in Seq(A) /\ Len(<<r>> \o s) = Len(s) + 1 /\ (<<r>> \o s)[1] = r
         /\ \A i \in 1..Len(s) : (<<r>> \o s)[i + 1] = s[i]
<1>1. <<r>> \in Seq(A) /\ Len(<<r>>) = 1 /\ <<r>>[1] = r /\ Len(s) \in Nat
  OBVIOUS
<1>2. PICK c : c = <<r>> \o s
  BY Zenon
<1>3. c \in Seq(A) /\ Len(c) = 1 + Len(s)
      /\ \A i \in 1..(1 + Len(s)) : c[i] = IF i <= 1 THEN <<r>>[i] ELSE s[i - 1]
  BY <1>1, <1>2
<1>4. c[1] = r /\ \A i \in 1..Len(s) : c[i + 1] = s[i]
  BY <1>1, <1>3
<1> QED
  BY <1>1, <1>2, <1>3, <1>4

\* ... or at the end.
LEMMA InsertBack ==
  ASSUME NEW A, NEW s \in Seq(A), NEW r \in A
  PROVE  /\ Append(s, r) \in Seq(A) /\ Len(Append(s, r)) = Len(s) + 1 /\ Append(s, r)[Len(s) + 1] = r
         /\ \A i \in 1..Len(s) : Append(s, r)[i] = s[i]
  BY SMT

\* A route is inserted into two lists at the same end; what was in them moves by
\* b places.
LEMMA Inserts ==
  ASSUME NEW s \in Seq(Route), NEW t \in Seq(Route), NEW r \in Route, NEW front \in BOOLEAN
  PROVE  \E b \in {0, 1}, y \in Seq(Route), z \in Seq(Route) :
           /\ y = Insert(s, r, front) /\ z = Insert(t, r, front)
           /\ Len(y) = Len(s) + 1 /\ Len(z) = Len(t) + 1
           /\ y[IF b = 1 THEN 1 ELSE Len(s) + 1] = r
           /\ z[IF b = 1 THEN 1 ELSE Len(t) + 1] = r
           /\ \A i \in 1..Len(s) : y[i + b] = s[i]
           /\ \A i \in 1..Len(t) : z[i + b] = t[i]
<1>1. PICK y, z : y = Insert(s, r, front) /\ z = Insert(t, r, front)
  BY Zenon
<1>2. CASE front = TRUE
  <2>1. y = <<r>> \o s /\ z = <<r>> \o t
    BY <1>1, <1>2, Zenon DEF Insert
  <2>2. y \in Seq(Route) /\ Len(y) = Len(s) + 1 /\ y[1] = r /\ \A i \in 1..Len(s) : y[i + 1] = s[i]
    BY <2>1, InsertFront
  <2>3. z \in Seq(Route) /\ Len(z) = Len(t) + 1 /\ z[1] = r /\ \A i \in 1..Len(t) : z[i + 1] = t[i]
    BY <2>1, InsertFront
  <2> QED
    BY <1>1, <2>2, <2>3, Zenon
<1>3. CASE front = FALSE
  <2>1. y = Append(s, r) /\ z = Append(t, r)
    BY <1>1, <1>3, Zenon DEF Insert
  <2>2. y \in Seq(Route) /\ Len(y) = Len(s) + 1 /\ y[Len(s) + 1] = r /\ \A i \in 1..Len(s) : y[i] = s[i]
    BY <2>1, InsertBack
  <2>3. z \in Seq(Route) /\ Len(z) = Len(t) + 1 /\ z[Len(t) + 1] = r /\ \A i \in 1..Len(t) : z[i] = t[i]
    BY <2>1, InsertBack
  <2>4. (\A i \in 1..Len(s) : y[i + 0] = s[i]) /\ (\A i \in 1..Len(t) : z[i + 0] = t[i])
    BY <2>2, <2>3
  <2> QED
    BY <1>1, <2>2, <2>3, <2>4
<1>4. front = TRUE \/ front = FALSE
  BY Zenon
<1> QED
  BY <1>2, <1>3, <1>4, Zenon

\* A registration at an end of the order moves the places of a list by one, or
\* not at all.
LEMMA OtherIn ==
  ASSUME NEW list, NEW ord \in Seq(Route), NEW S, ListsIn(list, ord, S),
         NEW r \in Route, NEW front \in BOOLEAN, r \notin S
  PROVE  ListsIn(list, Insert(ord, r, front), S)
<1>0. PICK n \in Nat, m \in Nat : list \in Seq(Route) /\ n = Len(list) /\ m = Len(ord)
  BY DEF ListsIn
<1>1. PICK place \in [1..n -> 1..m] : Placed(list, ord, S, place)
  BY <1>0, Zenon DEF ListsIn
<1>2. PICK b \in {0, 1}, ord2 \in Seq(Route), other \in Seq(Route) :
         /\ ord2 = Insert(ord, r, front)
         /\ Len(ord2) = Len(ord) + 1
         /\ ord2[IF b = 1 THEN 1 ELSE Len(ord) + 1] = r
         /\ \A i \in 1..Len(ord) : ord2[i + b] = ord[i]
  BY Inserts, SMTT(120)
<1>3. /\ Len(ord2) = m + 1
      /\ ord2[IF b = 1 THEN 1 ELSE m + 1] = r
      /\ \A i \in 1..m : ord2[i + b] = ord[i]
  BY <1>0, <1>2, Zenon
<1>4. /\ \A i \in 1..n : list[i] = ord[place[i]] /\ ord[place[i]] \in S
      /\ \A i, j \in 1..n : i < j => place[i] < place[j]
      /\ \A k \in 1..m : ord[k] \in S => \E i \in 1..n : place[i] = k
  BY <1>0, <1>1, Zenon DEF Placed
<1> DEFINE moved == [i \in 1..n |-> place[i] + b]
<1>5. moved \in [1..n -> 1..(m + 1)]
  OBVIOUS
<1>6. \A i \in 1..n : list[i] = ord2[moved[i]] /\ ord2[moved[i]] \in S
  BY <1>3, <1>4, Zenon
<1>7. \A i, j \in 1..n : i < j => moved[i] < moved[j]
  BY <1>4
<1>8. ASSUME NEW k \in 1..(m + 1), ord2[k] \in S PROVE \E i \in 1..n : moved[i] = k
  <2>1. k - b \in 1..m /\ (k - b) + b = k
    BY <1>3, <1>8
  <2>2. ord[k - b] \in S
    BY <1>3, <1>8, <2>1, Zenon
  <2>3. PICK i \in 1..n : place[i] = k - b
    BY <1>4, <2>1, <2>2, Zenon
  <2> QED
    BY <2>1, <2>3, Zenon
<1> HIDE DEF moved
<1>9. Placed(list, ord2, S, moved)
  BY <1>0, <1>3, <1>6, <1>7, <1>8, Zenon DEF Placed
<1> QED
  BY <1>0, <1>2, <1>3, <1>5, <1>9, Zenon DEF ListsIn

\* A route that is registered at an end of the order and of its list.
LEMMA InsertedIn ==
  ASSUME NEW list, NEW ord \in Seq(Route), NEW S, ListsIn(list, ord, S),
         NEW r \in Route, NEW front \in BOOLEAN, r \in S
  PROVE  ListsIn(Insert(list, r, front), Insert(ord, r, front), S)
<1>0. PICK n \in Nat, m \in Nat : list \in Seq(Route) /\ n = Len(list) /\ m = Len(ord)
  BY DEF ListsIn
<1>1. PICK place \in [1..n -> 1..m] : Placed(list, ord, S, place)
  BY <1>0, Zenon DEF ListsIn
<1>2. PICK b \in {0, 1}, ord2 \in Seq(Route), list2 \in Seq(Route) :
         /\ ord2 = Insert(ord, r, front) /\ list2 = Insert(list, r, front)
         /\ Len(ord2) = Len(ord) + 1 /\ Len(list2) = Len(list) + 1
         /\ ord2[IF b = 1 THEN 1 ELSE Len(ord) + 1] = r
         /\ list2[IF b = 1 THEN 1 ELSE Len(list) + 1] = r
         /\ \A i \in 1..Len(ord) : ord2[i + b] = ord[i]
         /\ \A i \in 1..Len(list) : list2[i + b] = list[i]
  <2>1. list \in Seq(Route)
    BY <1>0, Zenon
  <2> QED
    BY <2>1, Inserts, SMTT(120)
<1>3. /\ Len(ord2) = m + 1
      /\ ord2[IF b = 1 THEN 1 ELSE m + 1] = r
      /\ \A i \in 1..m : ord2[i + b] = ord[i]
  BY <1>0, <1>2, Zenon
<1>4. /\ Len(list2) = n + 1
      /\ list2[IF b = 1 THEN 1 ELSE n + 1] = r
      /\ \A i \in 1..n : list2[i + b] = list[i]
  BY <1>0, <1>2, Zenon
<1>5. /\ \A i \in 1..n : list[i] = ord[place[i]] /\ ord[place[i]] \in S
      /\ \A i, j \in 1..n : i < j => place[i] < place[j]
      /\ \A k \in 1..m : ord[k] \in S => \E i \in 1..n : place[i] = k
  BY <1>0, <1>1, Zenon DEF Placed
<1>6. PICK at, to : at = (IF b = 1 THEN 1 ELSE n + 1) /\ to = (IF b = 1 THEN 1 ELSE m + 1)
  BY Zenon
<1>7. \A i \in 1..(n + 1) : i # at => i - b \in 1..n /\ (i - b) + b = i
  BY <1>6
<1>8. \A k \in 1..(m + 1) : k # to => k - b \in 1..m /\ (k - b) + b = k
  BY <1>6
<1> DEFINE moved == [i \in 1..(n + 1) |-> IF i = at THEN to ELSE place[i - b] + b]
<1>9. moved \in [1..(n + 1) -> 1..(m + 1)]
  <2>1. to \in 1..(m + 1)
    BY <1>6
  <2> QED
    BY <1>7, <2>1, SMTT(120)
<1>10. ASSUME NEW i \in 1..(n + 1) PROVE list2[i] = ord2[moved[i]] /\ ord2[moved[i]] \in S
  <2>1. CASE i = at
    BY <1>3, <1>4, <1>6, <2>1, Zenon
  <2>2. CASE i # at
    <3>1. PICK j \in 1..n : i = j + b /\ j = i - b
      BY <1>7, <2>2, Zenon
    <3>2. moved[i] = place[j] + b /\ place[j] \in 1..m
      BY <2>2, <3>1, Zenon
    <3>3. list2[i] = list[j] /\ ord2[moved[i]] = ord[place[j]]
      BY <1>3, <1>4, <3>1, <3>2, Zenon
    <3> QED
      BY <1>5, <3>3, Zenon
  <2> QED
    BY <2>1, <2>2, Zenon
<1>11. ASSUME NEW i \in 1..(n + 1), NEW j \in 1..(n + 1), i < j PROVE moved[i] < moved[j]
  <2>1. CASE b = 1
    BY <1>5, <1>6, <1>7, <1>11, <2>1
  <2>2. CASE b = 0
    BY <1>5, <1>6, <1>7, <1>11, <2>2
  <2> QED
    BY <2>1, <2>2, Zenon
<1>12. ASSUME NEW k \in 1..(m + 1), ord2[k] \in S PROVE \E i \in 1..(n + 1) : moved[i] = k
  <2>1. CASE k # to
    <3>1. k - b \in 1..m /\ ord[k - b] \in S
      BY <1>3, <1>8, <1>12, <2>1, Zenon
    <3>2. PICK i \in 1..n : place[i] = k - b
      BY <1>5, <3>1, Zenon
    <3>3. i + b \in 1..(n + 1) /\ i + b # at /\ (i + b) - b = i
      BY <1>6
    <3> QED
      BY <1>8, <2>1, <3>2, <3>3
  <2>2. CASE k = to
    <3>1. at \in 1..(n + 1)
      BY <1>6
    <3> QED
      BY <2>2, <3>1, Zenon
  <2> QED
    BY <2>1, <2>2, Zenon
<1> HIDE DEF moved
<1>13. Placed(list2, ord2, S, moved)
  BY <1>3, <1>4, <1>10, <1>11, <1>12, Zenon DEF Placed
<1> QED
  BY <1>2, <1>3, <1>4, <1>9, <1>13, Zenon DEF ListsIn

\* The first hit in a list is the first hit among the elements that it lists.
LEMMA FirstSame ==
  ASSUME NEW list, NEW ord \in Seq(Route), NEW S, ListsIn(list, ord, S),
         NEW hits \in SUBSET (1..Len(list)), NEW all \in SUBSET (1..Len(ord)),
         \A k \in all : ord[k] \in S,
         \A i \in 1..Len(list), k \in 1..Len(ord) :
           list[i] = ord[k] /\ ord[k] \in S => (i \in hits <=> k \in all)
  PROVE  FirstOf(list, hits) = FirstOf(ord, all)
<1>0. PICK n \in Nat, m \in Nat : n = Len(list) /\ m = Len(ord)
  BY DEF ListsIn
<1>1. PICK place \in [1..n -> 1..m] : Placed(list, ord, S, place)
  BY <1>0, Zenon DEF ListsIn
<1>2. /\ \A i \in 1..n : list[i] = ord[place[i]] /\ ord[place[i]] \in S
      /\ \A i, j \in 1..n : i < j => place[i] < place[j]
      /\ \A k \in 1..m : ord[k] \in S => \E i \in 1..n : place[i] = k
  BY <1>0, <1>1, Zenon DEF Placed
<1>3. \A i \in 1..n : i \in hits <=> place[i] \in all
  BY <1>0, <1>2, Zenon
<1>4. \A k \in all : \E i \in hits : place[i] = k
  BY <1>0, <1>2, <1>3, Zenon
<1>5. CASE hits = {}
  <2>1. all = {}
    BY <1>4, <1>5, Zenon
  <2> QED
    BY <1>5, <2>1, Zenon DEF FirstOf
<1>6. CASE hits # {}
  <2>1. hits \subseteq 1..n /\ all \subseteq 1..m
    BY <1>0, Zenon
  <2>2. PICK x : x = Min(hits)
    BY Zenon
  <2>3. x \in hits /\ \A y \in hits : x <= y
    <3>1. hits \in SUBSET Nat
      BY <2>1
    <3> QED
      BY <3>1, <2>2, <1>6, LeastIs, Zenon
  <2>4. place[x] \in all
    BY <1>3, <2>1, <2>3, Zenon
  <2>5. PICK z : z = Min(all)
    BY Zenon
  <2>6. z \in all /\ \A y \in all : z <= y
    <3>1. all \in SUBSET Nat /\ all # {}
      BY <2>1, <2>4
    <3> QED
      BY <3>1, <2>5, LeastIs, Zenon
  <2>7. PICK i \in hits : place[i] = z
    BY <1>4, <2>6, Zenon
  <2>8. x <= i /\ z <= place[x] /\ x \in 1..n /\ i \in 1..n
    BY <2>1, <2>3, <2>4, <2>6, <2>7, Zenon
  <2>9. x = i
    BY <2>7, <2>8, <1>2
  <2>10. list[x] = ord[z]
    BY <2>7, <2>8, <2>9, <1>2, Zenon
  <2> QED
    BY <1>6, <2>2, <2>4, <2>5, <2>10, Zenon DEF FirstOf
<1> QED
  BY <1>5, <1>6, Zenon

\* The routes of the entries of the second tier after an insertion.
LEMMA RoutedInsert ==
  ASSUME NEW s \in Seq(Entry), NEW e \in Entry, NEW front \in BOOLEAN
  PROVE  /\ Insert(s, e, front) \in Seq(Entry)
         /\ Routed(Insert(s, e, front)) = Insert(Routed(s), e.route, front)
         /\ \A x \in DOMAIN Insert(s, e, front) :
              Insert(s, e, front)[x] = e \/ \E i \in DOMAIN s : Insert(s, e, front)[x] = s[i]
<1>1. PICK y : y = Insert(s, e, front)
  BY Zenon
<1>2. Routed(s) \in Seq(Route) /\ Len(Routed(s)) = Len(s) /\ DOMAIN s = 1..Len(s) /\ Len(s) \in Nat
      /\ \A i \in 1..Len(s) : Routed(s)[i] = s[i].route
  <2>1. DOMAIN s = 1..Len(s) /\ Len(s) \in Nat /\ \A i \in 1..Len(s) : s[i] \in Entry
    OBVIOUS
  <2>2. \A i \in 1..Len(s) : s[i].route \in Route
    BY <2>1, Zenon DEF Entry
  <2>3. Routed(s) = [i \in 1..Len(s) |-> s[i].route]
    BY <2>1, Zenon DEF Routed
  <2> QED
    BY <2>1, <2>2, <2>3
<1>3. e.route \in Route
  BY Zenon DEF Entry
<1>4. PICK z : z = Insert(Routed(s), e.route, front)
  BY Zenon
<1>5. front = TRUE \/ front = FALSE
  BY Zenon
<1>6. CASE front = TRUE
  <2>1. y = <<e>> \o s /\ z = <<e.route>> \o Routed(s)
    BY <1>1, <1>4, <1>6, Zenon DEF Insert
  <2>2. y \in Seq(Entry) /\ Len(y) = Len(s) + 1 /\ y[1] = e /\ \A i \in 1..Len(s) : y[i + 1] = s[i]
    BY <2>1, InsertFront
  <2>3. z \in Seq(Route) /\ Len(z) = Len(s) + 1 /\ z[1] = e.route
        /\ \A i \in 1..Len(s) : z[i + 1] = Routed(s)[i]
    BY <2>1, <1>2, <1>3, InsertFront
  <2>4. ASSUME NEW x \in 1..(Len(s) + 1)
        PROVE  y[x].route = z[x] /\ (y[x] = e \/ \E i \in DOMAIN s : y[x] = s[i])
    <3>1. CASE x = 1
      BY <3>1, <2>2, <2>3, Zenon
    <3>2. CASE x # 1
      <4>0. Len(s) \in Nat
        OBVIOUS
      <4>1. PICK i \in 1..Len(s) : x = i + 1
        BY <4>0, <3>2
      <4>2. y[i + 1] = s[i] /\ z[i + 1] = Routed(s)[i]
        BY <2>2, <2>3, Zenon
      <4>3. Routed(s)[i] = s[i].route /\ i \in DOMAIN s
        BY <1>2, Zenon
      <4> QED
        BY <4>1, <4>2, <4>3, Zenon
    <3> QED
      BY <3>1, <3>2, Zenon
  <2>5. z = [x \in 1..(Len(s) + 1) |-> z[x]] /\ DOMAIN y = 1..(Len(s) + 1)
    BY <2>2, <2>3, <1>2
  <2>6. Routed(y) = z
    BY <2>4, <2>5, Zenon DEF Routed
  <2> QED
    BY <1>1, <1>4, <2>2, <2>4, <2>5, <2>6, Zenon
<1>7. CASE front = FALSE
  <2>1. y = Append(s, e) /\ z = Append(Routed(s), e.route)
    BY <1>1, <1>4, <1>7, Zenon DEF Insert
  <2>2. y \in Seq(Entry) /\ Len(y) = Len(s) + 1 /\ y[Len(s) + 1] = e /\ \A i \in 1..Len(s) : y[i] = s[i]
    BY <2>1, InsertBack
  <2>3. z \in Seq(Route) /\ Len(z) = Len(s) + 1 /\ z[Len(s) + 1] = e.route
        /\ \A i \in 1..Len(s) : z[i] = Routed(s)[i]
    BY <2>1, <1>2, <1>3, InsertBack, SMTT(120)
  <2>4. ASSUME NEW x \in 1..(Len(s) + 1)
        PROVE  y[x].route = z[x] /\ (y[x] = e \/ \E i \in DOMAIN s : y[x] = s[i])
    <3>1. x = Len(s) + 1 \/ x \in 1..Len(s)
      BY <1>2
    <3> QED
      BY <3>1, <2>2, <2>3, <1>2, Zenon
  <2>5. z = [x \in 1..(Len(s) + 1) |-> z[x]] /\ DOMAIN y = 1..(Len(s) + 1)
    BY <2>2, <2>3, <1>2
  <2>6. Routed(y) = z
    BY <2>4, <2>5, Zenon DEF Routed
  <2> QED
    BY <1>1, <1>4, <2>2, <2>4, <2>5, <2>6, Zenon
<1> QED
  BY <1>5, <1>6, <1>7, Zenon

-----------------------------------------------------------------------------
(* The invariant holds *)

\* Nothing is registered at first.
LEMMA EmptyIn ==
  ASSUME NEW S
  PROVE  ListsIn(<<>>, <<>>, S)
<1>1. <<>> \in Seq(Route) /\ Len(<<>>) = 0 /\ <<>> \in [1..0 -> 1..0]
  OBVIOUS
<1>2. Placed(<<>>, <<>>, S, <<>>)
  BY <1>1 DEF Placed
<1> QED
  BY <1>1, <1>2, Zenon DEF ListsIn

\* The invariant holds at first ...
LEMMA RouteInvInit ==
  RoutesInit => RouteInv
<1> SUFFICES ASSUME RoutesInit PROVE RouteInv
  BY Zenon
<1>1. exact_routes = <<>> /\ prefix_routes = <<>> /\ fallback_routes = <<>> /\ order = <<>>
  BY Zenon DEF RoutesInit
<1>2. DOMAIN <<>> = {}
  OBVIOUS
<1>3. \A key : Exact(key) = <<>>
  BY <1>1, <1>2, Zenon DEF Exact
<1>4. Routed(<<>>) = <<>>
  BY DEF Routed
<1>5. order \in Seq(Route) /\ prefix_routes \in Seq(Entry) /\ PrefixesOk
  BY <1>1, <1>2 DEF PrefixesOk
<1>6. \A key \in Keys : ListsIn(Exact(key), order, Static(key))
  BY <1>1, <1>3, EmptyIn, Zenon
<1>7. ListsIn(Routed(prefix_routes), order, Tagged) /\ ListsIn(fallback_routes, order, Raw)
  BY <1>1, <1>4, EmptyIn, Zenon
<1> QED
  BY <1>5, <1>6, <1>7, Zenon DEF RouteInv

\* The order of registration is a list of routes.
LEMMA OrderedIs ==
  ASSUME RouteInv, NEW r \in Route, NEW front \in BOOLEAN, Ordered(r, front)
  PROVE  order' = Insert(order, r, front) /\ order' \in Seq(Route)
<1>1. order' = Insert(order, r, front)
  BY Zenon DEF Ordered, Insert
<1>2. order \in Seq(Route)
  BY Zenon DEF RouteInv
<1>3. PICK b \in {0, 1}, y \in Seq(Route), z \in Seq(Route) :
         y = Insert(order, r, front) /\ z = Insert(order, r, front)
  BY <1>2, Inserts, SMTT(120)
<1> QED
  BY <1>1, <1>3, Zenon

\* A route of serve_static() is one of the third tier.
LEMMA RegexOk ==
  ASSUME RouteInv, NEW prefix \in UrlPrefixes, NEW front \in BOOLEAN, add_regex_route(prefix, front)
  PROVE  RouteInv'
<1>1. PICK r : r = NewRoute(prefix, TRUE, "GET")
  BY Zenon
<1>2. /\ Ordered(r, front) /\ fallback_routes' = Insert(fallback_routes, r, front)
      /\ UNCHANGED <<exact_routes, prefix_routes>>
  BY <1>1, Zenon DEF add_regex_route
<1>3. order \in Seq(Route)
  BY Zenon DEF RouteInv
<1>4. r \in Route /\ r.raw = TRUE
  <2>1. Len(order) + 1 \in Nat \ {0}
    BY <1>3
  <2>2. r = [id |-> Len(order) + 1, spec |-> prefix, raw |-> TRUE, method |-> "GET"]
    BY <1>1, Zenon DEF NewRoute
  <2> QED
    BY <2>1, <2>2, Zenon DEF Route
<1>5. r \in Raw /\ r \notin Tagged /\ \A key : r \notin Static(key)
  BY <1>4, Zenon DEF Raw, Tagged, Static
<1>6. order' = Insert(order, r, front) /\ order' \in Seq(Route)
  BY <1>2, <1>4, OrderedIs, Zenon
<1>7. ListsIn(fallback_routes', order', Raw)
  <2>1. ListsIn(fallback_routes, order, Raw)
    BY Zenon DEF RouteInv
  <2> QED
    BY <2>1, <1>2, <1>3, <1>4, <1>5, <1>6, InsertedIn, Zenon
<1>8. ListsIn(Routed(prefix_routes), order', Tagged)
  <2>1. ListsIn(Routed(prefix_routes), order, Tagged)
    BY Zenon DEF RouteInv
  <2> QED
    BY <2>1, <1>3, <1>4, <1>5, <1>6, OtherIn, Zenon
<1>9. ASSUME NEW key \in Keys PROVE ListsIn(Exact(key), order', Static(key))
  <2>1. ListsIn(Exact(key), order, Static(key))
    BY Zenon DEF RouteInv
  <2> QED
    BY <2>1, <1>3, <1>4, <1>5, <1>6, OtherIn, Zenon
<1>10. \A key : Exact(key)' = Exact(key)
  BY <1>2, Zenon DEF Exact
<1>11. prefix_routes' \in Seq(Entry) /\ PrefixesOk' /\ prefix_routes' = prefix_routes
  BY <1>2, Zenon DEF RouteInv, PrefixesOk
<1>12. \A key \in Keys : ListsIn(Exact(key), order, Static(key))'
  BY <1>9, <1>10, Zenon
<1>13. ListsIn(Routed(prefix_routes), order, Tagged)' /\ ListsIn(fallback_routes, order, Raw)'
  BY <1>7, <1>8, <1>11, Zenon
<1> QED
  BY <1>6, <1>11, <1>12, <1>13, Zenon DEF RouteInv

\* A route without tags is inserted under its key, and nothing else changes.
LEMMA StaticOk ==
  ASSUME RouteInv, NEW spec \in Specs, NEW method \in Methods, NEW front \in BOOLEAN,
         add_route(spec, method, front), is_static_route(spec)
  PROVE  RouteInv'
<1>1. PICK r, here : r = NewRoute(spec, FALSE, method) /\ here = normalise_path(spec)
  BY Zenon
<1>2. /\ Ordered(r, front)
      /\ exact_routes' = [k \in DOMAIN exact_routes \cup {here} |->
                            IF k = here THEN Insert(Exact(k), r, front) ELSE exact_routes[k]]
      /\ UNCHANGED <<fallback_routes, prefix_routes>>
  BY <1>1, Zenon DEF add_route
<1>3. order \in Seq(Route)
  BY Zenon DEF RouteInv
<1>4. r \in Route /\ r.raw = FALSE /\ r.spec = spec
  <2>1. Len(order) + 1 \in Nat \ {0}
    BY <1>3
  <2>2. r = [id |-> Len(order) + 1, spec |-> spec, raw |-> FALSE, method |-> method]
    BY <1>1, Zenon DEF NewRoute
  <2> QED
    BY <2>1, <2>2, Zenon DEF Route
<1>5. r \in Static(here) /\ r \notin Tagged /\ r \notin Raw /\ \A key : key # here => r \notin Static(key)
  BY <1>1, <1>4, Zenon DEF Raw, Tagged, Static
<1>6. order' = Insert(order, r, front) /\ order' \in Seq(Route)
  BY <1>2, <1>4, OrderedIs, Zenon
<1>7. ListsIn(fallback_routes, order', Raw)
  <2>1. ListsIn(fallback_routes, order, Raw)
    BY Zenon DEF RouteInv
  <2> QED
    BY <2>1, <1>3, <1>4, <1>5, <1>6, OtherIn, Zenon
<1>8. ListsIn(Routed(prefix_routes), order', Tagged)
  <2>1. ListsIn(Routed(prefix_routes), order, Tagged)
    BY Zenon DEF RouteInv
  <2> QED
    BY <2>1, <1>3, <1>4, <1>5, <1>6, OtherIn, Zenon
<1>9. ASSUME NEW key \in Keys PROVE ListsIn(Exact(key), order, Static(key))'
  <2>1. ListsIn(Exact(key), order, Static(key))
    BY Zenon DEF RouteInv
  <2>2. CASE key = here
    <3>1. Exact(key)' = Insert(Exact(key), r, front)
      BY <1>2, <2>2, Zenon DEF Exact
    <3>2. ListsIn(Insert(Exact(key), r, front), order', Static(key))
      BY <2>1, <2>2, <1>3, <1>4, <1>5, <1>6, InsertedIn, Zenon
    <3> QED
      BY <3>1, <3>2, Zenon
  <2>3. CASE key # here
    <3>1. Exact(key)' = Exact(key)
      BY <1>2, <2>3, Zenon DEF Exact
    <3>2. ListsIn(Exact(key), order', Static(key))
      BY <2>1, <2>3, <1>3, <1>4, <1>5, <1>6, OtherIn, Zenon
    <3> QED
      BY <3>1, <3>2, Zenon
  <2> QED
    BY <2>2, <2>3, Zenon
<1>10. prefix_routes' \in Seq(Entry) /\ PrefixesOk' /\ prefix_routes' = prefix_routes
  BY <1>2, Zenon DEF RouteInv, PrefixesOk
<1>11. ListsIn(Routed(prefix_routes), order, Tagged)' /\ ListsIn(fallback_routes, order, Raw)'
  BY <1>2, <1>7, <1>8, Zenon
<1> QED
  BY <1>6, <1>9, <1>10, <1>11, Zenon DEF RouteInv

\* A route with tags is inserted in the second tier, with its prefix.
LEMMA TaggedOk ==
  ASSUME RouteInv, NEW spec \in Specs, NEW method \in Methods, NEW front \in BOOLEAN,
         add_route(spec, method, front), ~ is_static_route(spec)
  PROVE  RouteInv'
<1>1. PICK r : r = NewRoute(spec, FALSE, method)
  BY Zenon
<1>2. PICK e : e = [prefix |-> extract_static_prefix(spec), route |-> r]
  BY Zenon
<1>3. /\ Ordered(r, front)
      /\ prefix_routes' = Insert(prefix_routes, e, front)
      /\ UNCHANGED <<fallback_routes, exact_routes>>
  BY <1>1, <1>2, Zenon DEF add_route
<1>4. order \in Seq(Route) /\ prefix_routes \in Seq(Entry)
  BY Zenon DEF RouteInv
<1>5. r \in Route /\ r.raw = FALSE /\ r.spec = spec
  <2>1. Len(order) + 1 \in Nat \ {0}
    BY <1>4
  <2>2. r = [id |-> Len(order) + 1, spec |-> spec, raw |-> FALSE, method |-> method]
    BY <1>1, Zenon DEF NewRoute
  <2> QED
    BY <2>1, <2>2, Zenon DEF Route
<1>6. e \in Entry /\ e.route = r /\ e.prefix = extract_static_prefix(r.spec)
  BY <1>2, <1>5, Zenon DEF Entry
<1>7. r \in Tagged /\ r \notin Raw /\ \A key : r \notin Static(key)
  BY <1>5, Zenon DEF Raw, Tagged, Static
<1>8. order' = Insert(order, r, front) /\ order' \in Seq(Route)
  BY <1>3, <1>5, OrderedIs, Zenon
<1>9. ListsIn(fallback_routes, order', Raw)
  <2>1. ListsIn(fallback_routes, order, Raw)
    BY Zenon DEF RouteInv
  <2> QED
    BY <2>1, <1>4, <1>5, <1>7, <1>8, OtherIn, Zenon
<1>10. ASSUME NEW key \in Keys PROVE ListsIn(Exact(key), order', Static(key))
  <2>1. ListsIn(Exact(key), order, Static(key))
    BY Zenon DEF RouteInv
  <2> QED
    BY <2>1, <1>4, <1>5, <1>7, <1>8, OtherIn, Zenon
<1>11. /\ Insert(prefix_routes, e, front) \in Seq(Entry)
       /\ Routed(Insert(prefix_routes, e, front)) = Insert(Routed(prefix_routes), e.route, front)
       /\ \A x \in DOMAIN Insert(prefix_routes, e, front) :
            \/ Insert(prefix_routes, e, front)[x] = e
            \/ \E i \in DOMAIN prefix_routes : Insert(prefix_routes, e, front)[x] = prefix_routes[i]
  BY <1>4, <1>6, RoutedInsert, Zenon
<1>12. ListsIn(Routed(prefix_routes'), order', Tagged)
  <2>1. ListsIn(Routed(prefix_routes), order, Tagged)
    BY Zenon DEF RouteInv
  <2>2. ListsIn(Insert(Routed(prefix_routes), r, front), order', Tagged)
    BY <2>1, <1>4, <1>5, <1>7, <1>8, InsertedIn, Zenon
  <2> QED
    BY <2>2, <1>3, <1>6, <1>11, Zenon
<1>13. prefix_routes' \in Seq(Entry)
  BY <1>3, <1>11, Zenon
<1>14. PrefixesOk'
  <2>1. \A x \in DOMAIN prefix_routes' :
           prefix_routes'[x] = e \/ \E i \in DOMAIN prefix_routes : prefix_routes'[x] = prefix_routes[i]
    BY <1>3, <1>11, Zenon
  <2>2. \A i \in DOMAIN prefix_routes :
           prefix_routes[i].prefix = extract_static_prefix(prefix_routes[i].route.spec)
    BY Zenon DEF RouteInv, PrefixesOk
  <2>3. \A x \in DOMAIN prefix_routes' :
           prefix_routes'[x].prefix = extract_static_prefix(prefix_routes'[x].route.spec)
    BY <2>1, <2>2, <1>6, Zenon
  <2> QED
    BY <2>3, Zenon DEF PrefixesOk
<1>15. \A key : Exact(key)' = Exact(key)
  BY <1>3, Zenon DEF Exact
<1>16. \A key \in Keys : ListsIn(Exact(key), order, Static(key))'
  BY <1>10, <1>15, Zenon
<1>17. ListsIn(Routed(prefix_routes), order, Tagged)' /\ ListsIn(fallback_routes, order, Raw)'
  BY <1>3, <1>9, <1>12, Zenon
<1> QED
  BY <1>8, <1>13, <1>14, <1>16, <1>17, Zenon DEF RouteInv

\* ... and is kept when a route is added.
LEMMA RouteInvNext ==
  RouteInv /\ [RoutesNext]_route_vars => RouteInv'
<1> SUFFICES ASSUME RouteInv, [RoutesNext]_route_vars PROVE RouteInv'
  BY Zenon
<1>1. ASSUME NEW front \in BOOLEAN, NEW spec \in Specs, NEW method \in Methods, add_route(spec, method, front)
      PROVE  RouteInv'
  BY <1>1, StaticOk, TaggedOk, Zenon
<1>2. ASSUME NEW front \in BOOLEAN, NEW prefix \in UrlPrefixes, add_regex_route(prefix, front)
      PROVE  RouteInv'
  BY <1>2, RegexOk, Zenon
<1>3. ASSUME UNCHANGED route_vars PROVE RouteInv'
  BY <1>3, Zenon DEF route_vars, RouteInv, PrefixesOk, Exact
<1> QED
  BY <1>1, <1>2, <1>3, Zenon DEF RoutesNext, RoutesOver

-----------------------------------------------------------------------------
(* What find() returns *)

\* The tier of a route is a matter of its specification.
LEMMA TierIs ==
  ASSUME NEW r \in Route
  PROVE  /\ r # NotFound
         /\ ~ r.raw => r.spec \in Specs
         /\ Tier(r) \in {1, 2, 3}
         /\ Tier(r) = 1 <=> ~ r.raw /\ is_static_route(r.spec)
         /\ Tier(r) = 2 <=> ~ r.raw /\ ~ is_static_route(r.spec)
         /\ Tier(r) = 3 <=> r.raw
<1>1. r # NotFound
  <2>1. r.id # 0
    BY Zenon DEF Route
  <2>2. NotFound.id = 0
    BY Zenon DEF NotFound
  <2> QED
    BY <2>1, <2>2, Zenon
<1>2. (r.raw = FALSE /\ r.spec \in Specs) \/ r.raw = TRUE
  BY Zenon DEF Route
<1>3. ~ r.raw => r.spec \in Specs
  BY <1>2, Zenon
<1>4. 1 # 2 /\ 2 # 3 /\ 1 # 3
  OBVIOUS
<1>5. CASE r.raw
  BY <1>1, <1>4, <1>5, Zenon DEF Tier
<1>6. CASE ~ r.raw
  BY <1>1, <1>3, <1>4, <1>6, Zenon DEF Tier
<1> QED
  BY <1>5, <1>6, Zenon

\* The key of a plain target finds the routes of the first tier it matches.
LEMMA StaticFits ==
  ASSUME NEW r \in Route, NEW t \in Targets, Plain(t)
  PROVE  r \in Static(normalise_path(t)) <=> Tier(r) = 1 /\ RouteMatches(r, t)
<1>1. CASE Tier(r) = 1
  <2>1. ~ r.raw /\ is_static_route(r.spec) /\ r.spec \in Specs
    BY <1>1, TierIs, Zenon
  <2>2. normalise_path(t) = normalise_path(r.spec) <=> t \in route_spec_to_regex(r.spec)
    BY <2>1, StaticSame, Zenon
  <2>3. RouteMatches(r, t) <=> t \in route_spec_to_regex(r.spec)
    BY <2>1, Zenon DEF RouteMatches
  <2> QED
    BY <1>1, <2>1, <2>2, <2>3, Zenon DEF Static
<1>2. CASE Tier(r) # 1
  BY <1>2, TierIs, Zenon DEF Static
<1> QED
  BY <1>1, <1>2, Zenon

\* A route with tags matches nothing its prefix does not begin.
LEMMA TaggedFits ==
  ASSUME NEW r \in Route, NEW t \in Targets
  PROVE  /\ r \in Tagged <=> Tier(r) = 2
         /\ r \in Tagged /\ RouteMatches(r, t) => prefix_check(extract_static_prefix(r.spec), t)
<1>1. r \in Tagged <=> Tier(r) = 2
  BY TierIs, Zenon DEF Tagged
<1>2. ASSUME r \in Tagged, RouteMatches(r, t)
      PROVE  prefix_check(extract_static_prefix(r.spec), t)
  <2>1. ~ r.raw /\ ~ is_static_route(r.spec) /\ r.spec \in Specs
    BY <1>2, TierIs, Zenon DEF Tagged
  <2>2. t \in route_spec_to_regex(r.spec)
    BY <1>2, <2>1, Zenon DEF RouteMatches
  <2> QED
    BY <2>1, <2>2, PrefixSafe, Zenon
<1> QED
  BY <1>1, <1>2, Zenon

\* The third tier holds the regular expressions.
LEMMA RawFits ==
  ASSUME NEW r \in Route
  PROVE  r \in Raw <=> Tier(r) = 3
  BY TierIs, Zenon DEF Raw

\* The places in the order of the fitting routes of a tier.
InTier(n, t, m) == {k \in Fitting(order, t, m) : Tier(order[k]) = n}

\* Each tier is searched for the first route of that tier that fits.
LEMMA TierOne ==
  ASSUME RouteInv, NEW t \in Targets, Plain(t), NEW m, NEW static, static = Exact(normalise_path(t))
  PROVE  FirstOf(static, {i \in DOMAIN static : MethodFits(static[i], m)}) = FirstOf(order, InTier(1, t, m))
<1>1. PICK key : key = normalise_path(t)
  BY Zenon
<1>2. key \in Keys
  BY <1>1, Zenon DEF Keys
<1>3. ListsIn(static, order, Static(key)) /\ order \in Seq(Route) /\ static \in Seq(Route)
  BY <1>1, <1>2, Zenon DEF RouteInv, ListsIn
<1>4. PICK hits, all : hits = {i \in DOMAIN static : MethodFits(static[i], m)} /\ all = InTier(1, t, m)
  BY Zenon
<1>5. DOMAIN static = 1..Len(static) /\ DOMAIN order = 1..Len(order) /\ \A k \in 1..Len(order) : order[k] \in Route
  BY <1>3
<1>6. hits \in SUBSET (1..Len(static)) /\ all \in SUBSET (1..Len(order))
  BY <1>4, <1>5, Zenon DEF InTier, Fitting
<1>7. \A k \in 1..Len(order) : k \in all <=> MethodFits(order[k], m) /\ order[k] \in Static(key)
  <2> SUFFICES ASSUME NEW k \in 1..Len(order)
               PROVE  k \in all <=> MethodFits(order[k], m) /\ order[k] \in Static(key)
    BY Zenon
  <2>1. order[k] \in Route /\ k \in DOMAIN order
    BY <1>5, Zenon
  <2>2. order[k] \in Static(key) <=> Tier(order[k]) = 1 /\ RouteMatches(order[k], t)
    BY <2>1, <1>1, StaticFits, Zenon
  <2> QED
    BY <2>1, <2>2, <1>4, Zenon DEF InTier, Fitting
<1>8. \A i \in 1..Len(static), k \in 1..Len(order) :
         static[i] = order[k] /\ order[k] \in Static(key) => (i \in hits <=> k \in all)
  BY <1>4, <1>5, <1>7, Zenon
<1>9. \A k \in all : order[k] \in Static(key)
  BY <1>6, <1>7, Zenon
<1> QED
  BY <1>3, <1>4, <1>6, <1>8, <1>9, FirstSame, SMTT(120)

\* The second, although those whose prefix differs are skipped.
LEMMA TierTwo ==
  ASSUME RouteInv, NEW t \in Targets, NEW m, NEW routes, routes = Routed(prefix_routes)
  PROVE  FirstOf(routes, {i \in Fitting(routes, t, m) : prefix_check(prefix_routes[i].prefix, t)})
           = FirstOf(order, InTier(2, t, m))
<1>1. ListsIn(routes, order, Tagged) /\ order \in Seq(Route) /\ routes \in Seq(Route) /\ prefix_routes \in Seq(Entry)
  BY Zenon DEF RouteInv, ListsIn
<1>2. PICK hits, all : /\ hits = {i \in Fitting(routes, t, m) : prefix_check(prefix_routes[i].prefix, t)}
                       /\ all = InTier(2, t, m)
  BY Zenon
<1>3. DOMAIN routes = 1..Len(routes) /\ DOMAIN order = 1..Len(order)
      /\ (\A k \in 1..Len(order) : order[k] \in Route) /\ DOMAIN routes = DOMAIN prefix_routes
  BY <1>1 DEF Routed
<1>4. hits \in SUBSET (1..Len(routes)) /\ all \in SUBSET (1..Len(order))
  BY <1>2, <1>3, Zenon DEF InTier, Fitting
<1>5. \A k \in 1..Len(order) :
         k \in all <=> MethodFits(order[k], m) /\ RouteMatches(order[k], t) /\ order[k] \in Tagged
  <2> SUFFICES ASSUME NEW k \in 1..Len(order)
               PROVE  k \in all <=> MethodFits(order[k], m) /\ RouteMatches(order[k], t) /\ order[k] \in Tagged
    BY Zenon
  <2>1. order[k] \in Route /\ k \in DOMAIN order
    BY <1>3, Zenon
  <2>2. order[k] \in Tagged <=> Tier(order[k]) = 2
    BY <2>1, TaggedFits, Zenon
  <2> QED
    BY <2>1, <2>2, <1>2, Zenon DEF InTier, Fitting
<1>6. \A i \in 1..Len(routes) : prefix_routes[i].prefix = extract_static_prefix(routes[i].spec)
  <2>1. \A i \in 1..Len(routes) : routes[i] = prefix_routes[i].route
    BY <1>3, Zenon DEF Routed
  <2> QED
    BY <2>1, <1>3, Zenon DEF RouteInv, PrefixesOk
<1>7. \A i \in 1..Len(routes), k \in 1..Len(order) :
         routes[i] = order[k] /\ order[k] \in Tagged => (i \in hits <=> k \in all)
  <2> SUFFICES ASSUME NEW i \in 1..Len(routes), NEW k \in 1..Len(order),
                      routes[i] = order[k], order[k] \in Tagged
               PROVE  i \in hits <=> k \in all
    BY Zenon
  <2>1. RouteMatches(routes[i], t) => prefix_check(prefix_routes[i].prefix, t)
    BY <1>3, <1>6, TaggedFits, Zenon
  <2>2. i \in hits <=> MethodFits(routes[i], m) /\ RouteMatches(routes[i], t)
    BY <2>1, <1>2, <1>3, Zenon DEF Fitting
  <2> QED
    BY <2>2, <1>5, Zenon
<1>8. \A k \in all : order[k] \in Tagged
  BY <1>4, <1>5, Zenon
<1> QED
  BY <1>1, <1>2, <1>4, <1>7, <1>8, FirstSame, SMTT(120)

\* The third.
LEMMA TierThree ==
  ASSUME RouteInv, NEW t \in Targets, NEW m
  PROVE  FirstOf(fallback_routes, Fitting(fallback_routes, t, m)) = FirstOf(order, InTier(3, t, m))
<1>1. PICK list, hits, all :
         list = fallback_routes /\ hits = Fitting(fallback_routes, t, m) /\ all = InTier(3, t, m)
  BY Zenon
<1>2. ListsIn(list, order, Raw) /\ order \in Seq(Route) /\ list \in Seq(Route)
  BY <1>1, Zenon DEF RouteInv, ListsIn
<1>3. DOMAIN list = 1..Len(list) /\ DOMAIN order = 1..Len(order) /\ \A k \in 1..Len(order) : order[k] \in Route
  BY <1>2, SMTT(120)
<1>4. hits \in SUBSET (1..Len(list)) /\ all \in SUBSET (1..Len(order))
  BY <1>1, <1>3, Zenon DEF InTier, Fitting
<1>5. \A k \in 1..Len(order) :
         k \in all <=> MethodFits(order[k], m) /\ RouteMatches(order[k], t) /\ order[k] \in Raw
  <2> SUFFICES ASSUME NEW k \in 1..Len(order)
               PROVE  k \in all <=> MethodFits(order[k], m) /\ RouteMatches(order[k], t) /\ order[k] \in Raw
    BY Zenon
  <2>1. order[k] \in Route /\ k \in DOMAIN order
    BY <1>3, Zenon
  <2>2. order[k] \in Raw <=> Tier(order[k]) = 3
    BY <2>1, RawFits, Zenon
  <2> QED
    BY <2>1, <2>2, <1>1, Zenon DEF InTier, Fitting
<1>6. \A i \in 1..Len(list) : i \in hits <=> MethodFits(list[i], m) /\ RouteMatches(list[i], t)
  BY <1>1, <1>3, Zenon DEF Fitting
<1>7. \A i \in 1..Len(list), k \in 1..Len(order) :
         list[i] = order[k] /\ order[k] \in Raw => (i \in hits <=> k \in all)
  BY <1>5, <1>6, Zenon
<1>8. \A k \in all : order[k] \in Raw
  BY <1>4, <1>5, Zenon
<1> QED
  BY <1>1, <1>2, <1>4, <1>7, <1>8, FirstSame, SMTT(120)

\* The first of a set of places is a route, or there is none.
LEMMA FirstIs ==
  ASSUME RouteInv, NEW hits \in SUBSET (DOMAIN order)
  PROVE  FirstOf(order, hits) = NotFound <=> hits = {}
<1>1. CASE hits = {}
  BY <1>1, Zenon DEF FirstOf
<1>2. CASE hits # {}
  <2>1. order \in Seq(Route)
    BY Zenon DEF RouteInv
  <2>2. hits \in SUBSET Nat
    BY <2>1
  <2>3. Min(hits) \in hits
    BY <2>2, <1>2, LeastIs, Zenon
  <2>4. order[Min(hits)] \in Route
    BY <2>1, <2>3
  <2> QED
    BY <2>4, <1>2, TierIs, Zenon DEF FirstOf
<1> QED
  BY <1>1, <1>2, Zenon

\* What find() returns is the first route that fits, of the best tier.
LEMMA RouteInvFirst ==
  RouteInv => FirstMatchWins
<1> SUFFICES ASSUME RouteInv, NEW t \in Targets, NEW m \in {"GET", "POST"}, Plain(t)
             PROVE  find(t, m) = FirstOf(order, {i \in Fitting(order, t, m) :
                                   \A j \in Fitting(order, t, m) : Tier(order[i]) <= Tier(order[j])})
  BY Zenon DEF FirstMatchWins
<1>1. PICK static, routes : static = Exact(normalise_path(t)) /\ routes = Routed(prefix_routes)
  BY Zenon
<1>2. PICK one, two, three :
         /\ one = FirstOf(static, {i \in DOMAIN static : MethodFits(static[i], m)})
         /\ two = FirstOf(routes, {i \in Fitting(routes, t, m) : prefix_check(prefix_routes[i].prefix, t)})
         /\ three = FirstOf(fallback_routes, Fitting(fallback_routes, t, m))
  BY Zenon
<1>3. find(t, m) = IF one # NotFound THEN one ELSE IF two # NotFound THEN two ELSE three
  BY <1>1, <1>2, Zenon DEF find, Routed
<1>4. /\ one = FirstOf(order, InTier(1, t, m)) /\ two = FirstOf(order, InTier(2, t, m))
      /\ three = FirstOf(order, InTier(3, t, m))
  <2>1. FirstOf(static, {i \in DOMAIN static : MethodFits(static[i], m)}) = FirstOf(order, InTier(1, t, m))
    BY <1>1, TierOne, SMTT(120)
  <2>2. FirstOf(routes, {i \in Fitting(routes, t, m) : prefix_check(prefix_routes[i].prefix, t)})
          = FirstOf(order, InTier(2, t, m))
    BY <1>1, TierTwo, Zenon
  <2>3. FirstOf(fallback_routes, Fitting(fallback_routes, t, m)) = FirstOf(order, InTier(3, t, m))
    BY TierThree, Zenon
  <2> QED
    BY <1>2, <2>1, <2>2, <2>3, Zenon
<1>5. PICK fitting, best :
         /\ fitting = Fitting(order, t, m)
         /\ best = {i \in fitting : \A j \in fitting : Tier(order[i]) <= Tier(order[j])}
  BY Zenon
<1>6. fitting \subseteq DOMAIN order /\ \A k \in fitting : Tier(order[k]) \in {1, 2, 3}
  <2>1. fitting \subseteq DOMAIN order
    BY <1>5, Zenon DEF Fitting
  <2>2. order \in Seq(Route)
    BY Zenon DEF RouteInv
  <2>3. \A k \in fitting : order[k] \in Route
    BY <2>1, <2>2
  <2> QED
    BY <2>1, <2>3, TierIs, Zenon
<1>7. PICK a, b, c : a = InTier(1, t, m) /\ b = InTier(2, t, m) /\ c = InTier(3, t, m)
  BY Zenon
<1>8. /\ a = {k \in fitting : Tier(order[k]) = 1} /\ b = {k \in fitting : Tier(order[k]) = 2}
      /\ c = {k \in fitting : Tier(order[k]) = 3}
  BY <1>5, <1>7, Zenon DEF InTier
<1>9. best = IF a # {} THEN a ELSE IF b # {} THEN b ELSE c
  BY <1>5, <1>6, <1>8
<1>10. (one = NotFound <=> a = {}) /\ (two = NotFound <=> b = {})
  <2>1. a \in SUBSET (DOMAIN order) /\ b \in SUBSET (DOMAIN order)
    BY <1>6, <1>8, Zenon
  <2> QED
    BY <2>1, <1>4, <1>7, FirstIs, Zenon
<1>11. find(t, m) = FirstOf(order, best)
  BY <1>3, <1>4, <1>7, <1>9, <1>10, Zenon
<1> QED
  BY <1>5, <1>11, Zenon

\* For all specs, prefixes and targets: a lookup in the three tiers returns the
\* first route in registration order, tier by tier, that a match of every
\* expression would select.
THEOREM FirstMatchesWin == RoutesSpec => []FirstMatchWins
<1>1. RouteInv => FirstMatchWins
  BY RouteInvFirst, Zenon
<1> QED
  BY RouteInvInit, RouteInvNext, <1>1, PTL DEF RoutesSpec

=============================================================================
