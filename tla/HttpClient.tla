----------------------------- MODULE HttpClient ----------------------------
(***************************************************************************)
(* One call of http_easy_request(), http_easy_request_multipart() or       *)
(* make_websocket_connection() in a fiber, against a server and a network  *)
(* that do what they like.  The call makes one attempt, or a second one,   *)
(* nested in the first, to answer a digest challenge.  A step is what the  *)
(* fiber does between two suspensions, or a completion.                    *)
(***************************************************************************)
EXTENDS FiberFuture, Tls, DigestAuth

CONSTANTS
  Calls,       \* what the user asks for, see rq
  Configs,     \* client_configs of the process
  Certs,       \* certificates servers may show
  Answers,     \* responses servers may give
  NoConfig, NoCert, NoAnswer, NoAuth,
  MaxAttempts  \* bound on nested attempts

\* The texts that enter a header.
Texts ==
  {"", "auth", "auth-int", "cnonce"}
    \cup {k.url.user : k \in Calls} \cup {k.url.password : k \in Calls}
    \cup {k.url.target : k \in Calls} \cup {k.method : k \in Calls}
    \cup {a.challenge.nonce : a \in Answers} \cup {a.challenge.realm : a \in Answers}
    \cup {a.challenge.body : a \in Answers}

\* What a response consists of.  A boundary and the end of its line are two
\* tokens, so that a read may end between them; n is the length in a header.
Token == [k : {"head", "body", "gap", "bnd", "nl", "end", "hdr", "hdr_unsized", "dat"}, n : Nat]
T(k) == [k |-> k, n |-> 0]

\* A part, and whether its header says how long it is.
Part == [sized : BOOLEAN, content : Seq(Token)]

\* A host has a name: the one that is nothing but a dot is left out.
ASSUME ClientAssumption ==
  /\ \A k \in Calls : IsHost(k.url.host) /\ (k.url.host # NoHost => k.url.host.name # "")
  /\ \A a \in Answers : a.parts \in Seq(Part) /\ (a.type = "plain" => a.parts = <<>>)
  /\ NoAnswer \notin Answers /\ NoAuth \notin Authorizations(Texts)

VARIABLES
  rq,         \* the call: kind, url, method, tls_ctx, body; rvalue: may it be moved
  data,       \* what the caller's data object holds
  tls_client_context, \* of the service, or NoConfig
  step,       \* where the innermost attempt is
  tries,      \* the attempts, see Attempt
  deadline,   \* the timer of the innermost stream: never, tcp, ws
  answer,     \* the response to the innermost attempt, or NoAnswer
  wire,       \* what of it has not been read
  buffer,     \* req->buffer
  plen,       \* content_length of the part that is read
  closed,     \* the peer has closed
  parts,      \* the parts f has been called with
  nonce_count,
  exception   \* the one that left the call, or ""

client_vars == <<rq, data, tls_client_context, step, tries, deadline, answer, wire, buffer,
                 plen, closed, parts, nonce_count, exception>>

ClientInit ==
  /\ rq \in Calls /\ data = rq.body
  /\ tls_client_context = NoConfig
  /\ step = "call" /\ tries = <<>> /\ deadline = "never"
  /\ answer = NoAnswer /\ wire = <<>> /\ buffer = <<>> /\ plen = 0 /\ closed = FALSE
  /\ parts = <<>> /\ nonce_count = 0 /\ exception = ""

Ended == step \in {"returned", "null", "thrown"}
Parsing == {"header", "challenge", "part_header", "part_body", "body"}
Waiting == Parsing \cup {"connect", "handshake", "ws_handshake", "boundary", "challenge_write",
                         "write_done", "shutdown"}

\* body: req->body; sent: what of it the server has been sent; asked: the
\* challenge that has ended the attempt.
Attempt(auth, body) ==
  [auth |-> auth, body |-> body, write |-> "none", sent |-> "", ctx |-> NoConfig, cert |-> NoCert,
   asked |-> NoAnswer]

Mine == tries[Len(tries)]

\* The stream and the buffer are destroyed.
Leaves(to, x) ==
  /\ step' = to /\ exception' = x
  /\ deadline' = "never" /\ wire' = <<>> /\ buffer' = <<>> /\ plen' = 0 /\ closed' = FALSE
  /\ UNCHANGED answer

Throw(x) == Leaves("thrown", x)
Returned == Leaves("returned", "")

Goto(to) ==
  /\ step' = to
  /\ UNCHANGED <<deadline, answer, wire, buffer, plen, closed, exception>>

\* A new stream, and a request built from auth and body.
Connects(ts, auth, body) ==
  /\ tries' = Append(ts, Attempt(auth, body))
  /\ step' = "resolve" /\ deadline' = "never" /\ answer' = NoAnswer
  /\ wire' = <<>> /\ buffer' = <<>> /\ plen' = 0 /\ closed' = FALSE
  /\ UNCHANGED exception

-----------------------------------------------------------------------------
(* The call and its connection *)

http_analyze_url(url) == [ok |-> url.parses /\ url.host # NoHost, is_ssl |-> url.scheme \in {"https", "wss"}]

is_ssl == http_analyze_url(rq.url).is_ssl

\* The user's data is moved or copied into the request.
Begins(kind) ==
  /\ step = "call" /\ rq.kind = kind
  /\ \/ /\ ~http_analyze_url(rq.url).ok
        /\ step' = "null"
        /\ UNCHANGED <<data, tries, deadline, answer, wire, buffer, plen, closed, exception>>
     \/ /\ http_analyze_url(rq.url).ok
        /\ Connects(<<>>, NoAuth, data)
        /\ data' = IF rq.rvalue THEN "" ELSE data
  /\ UNCHANGED <<rq, tls_client_context, parts, nonce_count>>

http_easy_request == Begins("easy")
http_easy_request_multipart == Begins("multipart")
make_websocket_connection == Begins("websocket")

\* Another fiber gives the service a context.
set_tls_client_context(cfg) ==
  /\ ~Ended /\ client_context(cfg)
  /\ tls_client_context' = cfg
  /\ UNCHANGED <<rq, data, step, tries, deadline, answer, wire, buffer, plen, closed, parts,
                 nonce_count, exception>>

get_tls_client_context ==
  IF tls_client_context # NoConfig THEN tls_client_context ELSE default_client_config

Fixed == UNCHANGED <<rq, data, tls_client_context, parts, nonce_count>>

\* Resolved; the context is chosen and the timer of the stream is set.
async_resolve ==
  /\ step = "resolve"
  /\ step' = "connect" /\ deadline' = "tcp"
  /\ tries' = IF is_ssl
              THEN [tries EXCEPT ![Len(tries)].ctx =
                      IF rq.tls_ctx # NoConfig THEN rq.tls_ctx ELSE get_tls_client_context]
              ELSE tries
  /\ UNCHANGED <<answer, wire, buffer, plen, closed, exception>>
  /\ Fixed

resolve_fails == step = "resolve" /\ Throw("system_error") /\ UNCHANGED tries /\ Fixed

\* Mutant of Connected: the websocket's own timeouts are not set.
Connected_never(ts) ==
  IF rq.kind = "websocket"
  THEN /\ step' = "ws_handshake" /\ deadline' = "never" /\ tries' = ts
       /\ UNCHANGED <<answer, wire, buffer, plen, closed, exception>>
  ELSE /\ tries' = [ts EXCEPT ![Len(ts)].write = "pending"]
       /\ Goto("header")

\* Connected, and secured if need be: the websocket has its own timeouts; for a
\* request async_write() is started and the header of the response read.
Connected(ts) ==
  IF rq.kind = "websocket"
  THEN /\ step' = "ws_handshake" /\ deadline' = "ws" /\ tries' = ts
       /\ UNCHANGED <<answer, wire, buffer, plen, closed, exception>>
  ELSE /\ tries' = [ts EXCEPT ![Len(ts)].write = "pending"]
       /\ Goto("header")

ConnectErrors == {Ec("beast", "beast_timeout"), Ec("system", "connection_refused")}

\* Connecting ends; prepare_client() may throw.
async_connect(ec) ==
  /\ step = "connect"
  /\ \/ ec # NoError /\ Throw(async_handshake(ec).v) /\ UNCHANGED tries
     \/ ec = NoError /\ is_ssl /\ Throw("tls_error") /\ UNCHANGED tries
     \/ ec = NoError /\ is_ssl /\ Goto("handshake") /\ UNCHANGED tries
     \/ ec = NoError /\ ~is_ssl /\ Connected(tries)
  /\ Fixed

HandshakeErrors ==
  {Ec("beast", "beast_timeout"), Ec("ssl", "handshake_failure"), Ec("ssl_stream", "stream_truncated")}

\* The server shows cert; OpenSSL fails the handshake if the peer is to be
\* verified and is not good.
client_handshake(cert, ec) ==
  LET vr == verify_result(Mine.ctx, rq.url.host, cert)
      r == async_handshake(ec)
  IN  /\ step = "handshake"
      /\ ec.name = "certificate_verify_failed" <=> Mine.ctx.verify_peer /\ ~vr
      /\ \/ /\ r.set = "exception"
            /\ Throw(rethrow_client_handshake_error(r.v, Mine.ctx, vr))
            /\ tries' = [tries EXCEPT ![Len(tries)].cert = cert]
         \/ /\ r.set = "value"
            /\ Connected([tries EXCEPT ![Len(tries)].cert = cert])
      /\ Fixed

ws_handshake(ok) ==
  /\ step = "ws_handshake"
  /\ IF ok THEN Returned ELSE Throw("system_error")
  /\ UNCHANGED tries /\ Fixed

\* The body is read from req->body as it is when the write ends.
async_write(i, ok) ==
  /\ ~Ended /\ i \in 1..Len(tries) /\ tries[i].write = "pending"
  /\ tries' = [tries EXCEPT ![i].write = IF ok THEN "done" ELSE "failed",
                            ![i].sent = IF ok THEN tries[i].body ELSE ""]
  /\ UNCHANGED <<step, deadline, answer, wire, buffer, plen, closed, exception>>
  /\ Fixed

-----------------------------------------------------------------------------
(* The response *)

PartText(p) ==
  <<T("gap"), T("bnd"), T("nl"), [k |-> IF p.sized THEN "hdr" ELSE "hdr_unsized", n |-> Len(p.content)]>>
    \o p.content

\* The text from each of the parts ps on.
TextFrom(ps) ==
  LET from[i \in 1..(Len(ps) + 1)] ==
        IF i > Len(ps) THEN <<T("gap"), T("bnd"), T("end")>> ELSE PartText(ps[i]) \o from[i + 1]
  IN  from

Text(a) ==
  IF a.type = "plain" THEN <<T("head"), T("body")>> ELSE <<T("head")>> \o TextFrom(a.parts)[1]

server_answers(a) ==
  /\ step = "header" /\ answer = NoAnswer /\ ~closed
  /\ answer' = a /\ wire' = Text(a)
  /\ UNCHANGED <<step, tries, deadline, buffer, plen, closed, exception>>
  /\ Fixed

\* The connection breaks; what is on its way is lost.
peer_closes ==
  /\ step \in Parsing \cup {"boundary"} /\ ~closed
  /\ closed' = TRUE /\ wire' = <<>>
  /\ UNCHANGED <<step, tries, deadline, answer, buffer, plen, exception>>
  /\ Fixed

\* The type must be known and the boundary the last parameter; without quotes
\* it is all that follows.
deduce_boundary(a) ==
  IF a.type \notin {"mixed-replace", "mixed", "x-mixed-replace", "form-data"} THEN ""
  ELSE IF ~a.trailing THEN "bnd" ELSE IF a.quoted THEN "" ELSE "bnd; x"

\* Places of a line of buffer that consists of the boundary and of k.
Lines(k) ==
  {i \in 1..Len(buffer) - 1 :
     deduce_boundary(answer) = "bnd" /\ buffer[i] = T("bnd") /\ buffer[i + 1] = T(k)}

Starved ==
  CASE step = "boundary" -> Lines("nl") = {} /\ Lines("end") = {}
    [] step = "part_body" -> Len(buffer) < plen
    [] step \in Parsing \ {"part_body"} -> buffer = <<>>
    [] OTHER -> FALSE

\* A read brings any part of what is there.
async_read_some(k) ==
  /\ Starved /\ k \in 1..Len(wire)
  /\ buffer' = buffer \o SubSeq(wire, 1, k)
  /\ wire' = SubSeq(wire, k + 1, Len(wire))
  /\ UNCHANGED <<step, tries, deadline, answer, plen, closed, exception>>
  /\ Fixed

ClientReadErrors ==
  {Ec("beast", "beast_timeout"), Ec("http", "end_of_stream"), Ec("http", "header_limit")}

\* The timer, the peer, or a limit of the parser ends the call.
async_read_fails(ec) ==
  /\ Starved
  /\ ec.name = "beast_timeout" => deadline # "never"
  /\ ec.name = "end_of_stream" => closed
  /\ ec.name = "header_limit" => step \in Parsing
  /\ Throw(async_read(ec, 0).v)
  /\ UNCHANGED tries /\ Fixed

\* The fiber takes n tokens from the buffer and goes on at to.
Takes(n, to) ==
  /\ buffer' = SubSeq(buffer, n + 1, Len(buffer))
  /\ step' = to /\ plen' = 0
  /\ UNCHANGED <<tries, deadline, answer, wire, closed, exception>>

\* "once; the authenticated retry passes false"
try_auth == Mine.auth = NoAuth

Challenged == try_auth /\ answer.status = 401 /\ rq.url.user # "" /\ rq.url.password # ""

\* The header is there.
handle_client_request_response ==
  /\ step = "header" /\ buffer # <<>>
  /\ \/ Challenged /\ Takes(1, "challenge")
     \/ /\ ~Challenged
        /\ \/ answer.type = "plain" /\ Takes(1, "body")
           \/ answer.type # "plain" /\ deduce_boundary(answer) # "" /\ Takes(1, "boundary")
           \/ /\ answer.type # "plain" /\ deduce_boundary(answer) = ""
              /\ Throw("unexpected_error") /\ UNCHANGED tries
  /\ Fixed

read_body ==
  /\ step = "body" /\ buffer # <<>>
  /\ Takes(1, "write_done")
  /\ Fixed

\* The body of the 401 is there.  A challenge that cannot be answered leaves
\* the 401 as the response; otherwise the write is waited for.
handle_client_auth ==
  /\ step = "challenge" /\ buffer # <<>>
  /\ IF generateAuthorization(answer.challenge)
     THEN Takes(1, "challenge_write") /\ nonce_count' = nonce_count + 1
     ELSE Takes(1, "write_done") /\ UNCHANGED nonce_count
  /\ UNCHANGED <<rq, data, tls_client_context, parts>>

Authorization ==
  authorization(answer.challenge, rq.url.user, rq.url.password, rq.url.target, rq.method,
                nonce_count, "cnonce")

\* The request of an attempt that answers a challenge moves the body out of
\* the first one.
Retries ==
  /\ Connects([tries EXCEPT ![Len(tries)].body = "", ![Len(tries)].asked = answer.challenge],
              Authorization, Mine.body)
  /\ Len(tries) < MaxAttempts
  /\ UNCHANGED <<rq, data, tls_client_context, parts, nonce_count>>

\* Mutant of answer_challenge: the write is not waited for.
answer_challenge_unwaited == step = "challenge_write" /\ Retries

answer_challenge ==
  /\ step = "challenge_write" /\ Mine.write # "pending"
  /\ \/ Mine.write = "done" /\ Retries
     \/ Mine.write = "failed" /\ Throw("system_error") /\ UNCHANGED tries /\ Fixed

\* Mutant of find_multipart_boundary: what follows the line is dropped.
find_multipart_boundary_clearing ==
  /\ step = "boundary" /\ ~Starved
  /\ IF Lines("nl") # {}
     THEN buffer' = <<>> /\ step' = "part_header" /\ deadline' = "tcp"
     ELSE step' = "write_done" /\ UNCHANGED <<buffer, deadline>>
  /\ UNCHANGED <<tries, answer, wire, plen, closed, exception>>
  /\ Fixed

\* A boundary in the buffer begins the next part, wherever it is, and the
\* timer is set again; otherwise the last line ends the response.
find_multipart_boundary ==
  /\ step = "boundary" /\ ~Starved
  /\ IF Lines("nl") # {}
     THEN /\ LET first == CHOOSE i \in Lines("nl") : \A j \in Lines("nl") : i <= j
             IN  buffer' = SubSeq(buffer, first + 2, Len(buffer))
          /\ step' = "part_header" /\ deadline' = "tcp"
     ELSE step' = "write_done" /\ UNCHANGED <<buffer, deadline>>
  /\ UNCHANGED <<tries, answer, wire, plen, closed, exception>>
  /\ Fixed

part_header ==
  /\ step = "part_header" /\ buffer # <<>>
  /\ \/ /\ Head(buffer).k = "hdr"
        /\ plen' = Head(buffer).n /\ step' = "part_body" /\ buffer' = Tail(buffer)
        /\ UNCHANGED <<tries, deadline, answer, wire, closed, exception>>
     \/ /\ Head(buffer).k # "hdr"
        /\ Throw("unexpected_error") /\ UNCHANGED tries
  /\ Fixed

\* The part is there: f is called.  It may throw, as that of
\* http_easy_request() always does.
part_body(throws) ==
  /\ step = "part_body" /\ ~Starved
  /\ rq.kind = "easy" => throws
  /\ parts' = Append(parts, SubSeq(buffer, 1, plen))
  /\ \/ ~throws /\ Takes(plen, "boundary")
     \/ throws /\ Throw("unexpected_error") /\ UNCHANGED tries
  /\ UNCHANGED <<rq, data, tls_client_context, nonce_count>>

\* is_write_done.get() and the shutdown; their errors are swallowed.  An outer
\* attempt has no future to wait for, which is an error as well.
finish ==
  /\ step = "write_done" /\ Mine.write # "pending"
  /\ IF Mine.write = "done" /\ is_ssl THEN Goto("shutdown") ELSE Returned
  /\ UNCHANGED tries /\ Fixed

async_shutdown == step = "shutdown" /\ Returned /\ UNCHANGED tries /\ Fixed

-----------------------------------------------------------------------------
ClientOver == Ended /\ UNCHANGED client_vars

Network ==
  \/ async_resolve \/ resolve_fails
  \/ \E ec \in ConnectErrors \cup {NoError} : async_connect(ec)
  \/ \E cert \in Certs, ec \in HandshakeErrors \cup {NoError, Ec("ssl", "certificate_verify_failed")} :
       client_handshake(cert, ec)
  \/ \E ok \in BOOLEAN : ws_handshake(ok)
  \/ \E i \in 1..MaxAttempts, ok \in BOOLEAN : async_write(i, ok)
  \/ \E a \in Answers : server_answers(a)
  \/ peer_closes
  \/ \E k \in 1..Len(wire) : async_read_some(k)
  \/ \E ec \in ClientReadErrors : async_read_fails(ec)

ClientNext ==
  \/ http_easy_request \/ http_easy_request_multipart \/ make_websocket_connection
  \/ \E cfg \in Configs : set_tls_client_context(cfg)
  \/ Network
  \/ handle_client_request_response \/ read_body \/ handle_client_auth \/ answer_challenge
  \/ find_multipart_boundary \/ part_header
  \/ \E throws \in BOOLEAN : part_body(throws)
  \/ finish \/ async_shutdown \/ ClientOver

ClientSpec == ClientInit /\ [][ClientNext]_client_vars

-----------------------------------------------------------------------------
\* A request, with its body and its credentials, and that of a websocket's
\* handshake, leaves over TLS only to a peer whose certificate the context of
\* the call accepts for the host of the URL, in both attempts, whoever changes
\* the service's context meanwhile and however the host is written.  And
\* tls_verify_error says that a certificate has been rejected: "OpenSSL
\* records a verify result even when verification is off, so only trust it
\* when we asked for verification".
PeerVerified ==
  /\ \A i \in 1..Len(tries) :
       is_ssl /\ (tries[i].write # "none" \/ step = "ws_handshake") =>
         /\ rq.tls_ctx # NoConfig => tries[i].ctx = rq.tls_ctx
         /\ tries[i].ctx.verify_peer =>
              /\ tries[i].cert.issuer \in Roots(tries[i].ctx)
              /\ tries[i].ctx.verify_hostname =>
                   \E h \in tries[i].cert.names : h.name = rq.url.host.name
  /\ exception = "tls_verify_error" =>
       Mine.ctx.verify_peer /\ ~verify_result(Mine.ctx, rq.url.host, Mine.cert)

\* Each attempt sends the caller's body, although it is moved from object to
\* object and a server may answer before it has read it; and a call that
\* returns leaves no write pending on a stream it destroys.
SameBody ==
  \A i \in 1..Len(tries) :
    /\ tries[i].write = "done" => tries[i].sent = rq.body
    /\ step = "returned" => tries[i].write # "pending"

\* A challenge is answered once, if the URL names a user, and the answer
\* convinces the server: the hash is computed from what the header announces.
\* A rejected answer comes back as the response.  The code departs from the
\* scheme in three cases that are left out: auth-int, md5-sess without qop,
\* and a URL without a path.
ChallengeAnswered ==
  /\ Len(tries) <= 2
  /\ Len(tries) = 2 =>
       LET ch == tries[1].asked
       IN  /\ rq.url.user # "" /\ tries[1].auth = NoAuth /\ tries[2].auth # NoAuth
           /\ rq.url.target # "" /\ ch.qop # "auth-int" /\ ~(ch.alg = "md5-sess" /\ ch.qop = "") =>
                ServerAccepts(ch, tries[2].auth, rq.url.password, rq.method, rq.url.target)

\* f is called with the parts of a multipart response, each once and in their
\* order, however the reads cut the stream and whatever the parts contain; the
\* call returns after the last one.  A challenge is read as a whole, and its
\* parts are not looked for.
PartsInOrder ==
  answer # NoAnswer =>
    /\ Len(parts) <= Len(answer.parts)
    /\ \A i \in 1..Len(parts) : parts[i] = answer.parts[i].content
    /\ step = "returned" => Len(parts) = IF Challenged THEN 0 ELSE Len(answer.parts)

\* Whenever the fiber waits for the peer a timer is running that ends the
\* wait; looking up the host is the exception.
Deadlined == step \in Waiting => deadline # "never"

=============================================================================
