-------------------------- MODULE HttpClientProofs -------------------------
(***************************************************************************)
(* Proofs about HttpClient, for any calls, contexts, certificates and      *)
(* responses.                                                              *)
(***************************************************************************)
EXTENDS HttpClient, WellFoundedInduction, TLAPS

Attempts ==
  [auth : Authorizations(Texts) \cup {NoAuth}, body : {k.body : k \in Calls} \cup {""},
   write : {"none", "pending", "done", "failed"}, sent : {k.body : k \in Calls} \cup {""},
   ctx : Configs \cup {k.tls_ctx : k \in Calls} \cup {default_client_config, NoConfig},
   cert : Certs \cup {NoCert}, asked : {a.challenge : a \in Answers} \cup {NoAnswer}]

ClientTypeOK ==
  /\ rq \in Calls
  /\ tls_client_context \in Configs \cup {NoConfig}
  /\ tries \in Seq(Attempts)
  /\ answer \in Answers \cup {NoAnswer}
  /\ nonce_count \in Nat

\* The context of the attempt r is the one of the call k, if that has one ...
ContextOk(k, r) == k.tls_ctx # NoConfig => r.ctx = k.tls_ctx

\* ... and accepts the certificate.
Accepted(k, r) ==
  /\ ContextOk(k, r)
  /\ r.ctx.verify_peer => verify_result(r.ctx, k.url.host, r.cert)

\* The attempt r is number i of n and the call is at s.  Only the first has no
\* credentials, only the last may still write, the body is in the last, and
\* none has written to a peer it does not accept.
AttemptOk(k, r, i, n, s) ==
  /\ r.auth = NoAuth <=> i = 1
  /\ i < n => r.write = "done"
  /\ i = n => r.body = k.body
  /\ r.write = "done" => r.sent = k.body
  /\ http_analyze_url(k.url).is_ssl /\ (r.write # "none" \/ s = "ws_handshake") => Accepted(k, r)

AttemptsOk == \A i \in 1..Len(tries) : AttemptOk(rq, tries[i], i, Len(tries), step)

\* How far the call is and what it has to show for it.
Phase ==
  /\ step = "call" => data = rq.body
  /\ step \in {"call", "null"} <=> tries = <<>>
  /\ tries # <<>> => rq.url.host # NoHost
  /\ step \in {"resolve", "connect", "handshake", "ws_handshake"} => Mine.write = "none"
  /\ is_ssl /\ step \in {"connect", "handshake"} => ContextOk(rq, Mine)
  /\ step \in {"challenge", "challenge_write"} =>
       Mine.auth = NoAuth /\ answer # NoAnswer /\ rq.url.user # ""
  /\ step \in {"body", "boundary", "part_header", "part_body"} => answer # NoAnswer
  /\ step = "shutdown" => Mine.write = "done"
  /\ step = "returned" => Mine.write # "pending"
  /\ answer = NoAnswer => wire = <<>> /\ buffer = <<>>

\* Only a call that is over has thrown, and what it has thrown is true.
Thrown ==
  /\ step # "thrown" => exception = ""
  /\ exception = "tls_verify_error" =>
       Mine.ctx.verify_peer /\ ~verify_result(Mine.ctx, rq.url.host, Mine.cert)

ClientInv ==
  /\ ClientTypeOK /\ AttemptsOk /\ Phase /\ Thrown /\ ChallengeAnswered

-----------------------------------------------------------------------------
(* Operators *)

\* What an error code becomes: an exception, and never the one that says that
\* a certificate has been rejected.
LEMMA ErrorsThrow ==
  ASSUME NEW ec, NEW n
  PROVE  /\ ec # NoError => /\ async_handshake(ec) = SetException(asyik_set_error(ec))
                            /\ async_read(ec, n) = SetException(asyik_set_error(ec))
         /\ async_handshake(NoError).set = "value"
         /\ asyik_set_error(ec) # "tls_verify_error"
<1>1. asyik_set_error(ec) # "tls_verify_error"
  BY Zenon DEF asyik_set_error
<1>2. async_handshake(NoError).set = "value"
  BY DEF async_handshake, fiber_promise_handler_selector, fiber_promise_handler_ec_n,
         fiber_promise_handler_n, SetValue
<1>3. Head(<<ec>>) = ec /\ Head(<<ec, n>>) = ec
  OBVIOUS
<1> QED
  BY <1>1, <1>2, <1>3, Zenon
  DEF async_handshake, async_read, fiber_promise_handler_selector, fiber_promise_handler_ec_n

\* A certificate that is accepted, hostname included, is one for the host of
\* the URL, with or without brackets and a dot.
LEMMA AcceptedHost ==
  ASSUME NEW cfg, NEW host, IsHost(host), NEW cert, host.name # "", verify_result(cfg, host, cert),
         cfg.verify_peer, cfg.verify_hostname
  PROVE  \E h \in cert.names : h.name = host.name
<1>1. Bare(host) \in cert.names \cup {NoHost}
  BY Zenon DEF verify_result, prepare_client
<1>2. Bare(host).name = host.name
  BY Zenon DEF Bare, IsHost, Host
<1>3. NoHost.name = ""
  BY Zenon DEF NoHost, Host
<1> QED
  BY <1>1, <1>2, <1>3, Zenon

\* The header is well formed ...
LEMMA AuthorizationTyped ==
  ASSUME NEW ch, NEW S, {"", "auth", "auth-int", "cnonce"} \subseteq S,
         {ch.nonce, ch.realm, ch.body} \subseteq S,
         NEW user \in S, NEW password \in S, NEW uri \in S, NEW method \in S,
         NEW nc \in Nat
  PROVE  authorization(ch, user, password, uri, method, nc, "cnonce") \in Authorizations(S)
<1> DEFINE qop == findQop(ch)
           ha1 == calculateHA1(user, ch.realm, password, ch.alg, ch.nonce, "cnonce")
           ha2 == calculateHA2(method, uri, qop, ch.body)
           nc1 == IF qop = "" THEN 0 ELSE nc
           cnonce1 == IF qop = "" THEN "" ELSE "cnonce"
           resp == calculateResponse(ha1, ch.nonce, nc, "cnonce", qop, ha2)
<1>0. /\ ch.nonce \in S /\ ch.realm \in S /\ ch.body \in S
      /\ "" \in S /\ "auth" \in S /\ "auth-int" \in S /\ "cnonce" \in S
  BY Zenon
<1>1. qop \in S /\ nc1 \in Nat /\ cnonce1 \in S
  <2>1. qop \in {"", "auth", "auth-int"}
    BY Zenon DEF findQop
  <2>2. nc1 \in Nat /\ cnonce1 \in {"", "cnonce"}
    BY Zenon
  <2> HIDE DEF qop, nc1, cnonce1
  <2> QED
    BY <1>0, <2>1, <2>2, Zenon
<1>2. ha1 \in [user : S, realm : S, password : S, nonce : S, cnonce : S]
  <2> DEFINE n == IF ch.alg = "md5-sess" THEN ch.nonce ELSE ""
             c == IF ch.alg = "md5-sess" THEN "cnonce" ELSE ""
  <2>1. n \in S /\ c \in S
    BY <1>0, Zenon
  <2>2. ha1 = [user |-> user, realm |-> ch.realm, password |-> password, nonce |-> n, cnonce |-> c]
    BY Zenon DEF calculateHA1
  <2> HIDE DEF n, c, ha1
  <2> QED
    BY <1>0, <2>1, <2>2, Zenon
<1>3. ha2 \in [method : S, uri : S, body : S]
  <2> DEFINE b == IF qop = "auth-int" THEN ch.body ELSE ""
  <2>1. b \in S
    BY <1>0, Zenon
  <2>2. ha2 = [method |-> method, uri |-> uri, body |-> b]
    BY Zenon DEF calculateHA2
  <2> HIDE DEF b, ha2
  <2> QED
    BY <2>1, <2>2, Zenon
<1>4. resp = [ha1 |-> ha1, nonce |-> ch.nonce, ha2 |-> ha2, qop |-> qop, nc |-> nc1, cnonce |-> cnonce1]
  BY Zenon DEF calculateResponse
<1>5. authorization(ch, user, password, uri, method, nc, "cnonce")
      = [username |-> user, realm |-> ch.realm, nonce |-> ch.nonce, uri |-> uri, qop |-> qop,
         nc |-> nc1, cnonce |-> cnonce1, response |-> resp]
  BY Zenon DEF authorization
<1> HIDE DEF qop, ha1, ha2, nc1, cnonce1, resp
<1> DEFINE R == [ha1 : [user : S, realm : S, password : S, nonce : S, cnonce : S], nonce : S,
                 ha2 : [method : S, uri : S, body : S], qop : S, nc : Nat, cnonce : S]
<1>6. resp \in R
  BY <1>0, <1>1, <1>2, <1>3, <1>4, Zenon
<1>7. Authorizations(S) = [username : S, realm : S, nonce : S, uri : S, qop : S, nc : Nat,
                           cnonce : S, response : R]
  BY Zenon DEF Authorizations
<1> HIDE DEF R
<1>8. [username |-> user, realm |-> ch.realm, nonce |-> ch.nonce, uri |-> uri, qop |-> qop,
       nc |-> nc1, cnonce |-> cnonce1, response |-> resp]
        \in [username : S, realm : S, nonce : S, uri : S, qop : S, nc : Nat, cnonce : S, response : R]
  BY <1>0, <1>1, <1>6, Zenon
<1> QED
  BY <1>5, <1>7, <1>8, Zenon

\* ... and the server that computes the hash from it gets the same, outside
\* the cases ChallengeAnswered names.
LEMMA AuthorizationAccepted ==
  ASSUME NEW ch, NEW user, NEW password, NEW uri, NEW method, NEW nc,
         ch.qop # "auth-int", ~(ch.alg = "md5-sess" /\ ch.qop = "")
  PROVE  ServerAccepts(ch, authorization(ch, user, password, uri, method, nc, "cnonce"),
                       password, method, uri)
<1> DEFINE a == authorization(ch, user, password, uri, method, nc, "cnonce")
           qop == findQop(ch)
<1>1. qop # "auth-int" /\ (qop = "" <=> ch.qop = "")
  BY Zenon DEF findQop
<1>2. /\ a.username = user /\ a.realm = ch.realm /\ a.nonce = ch.nonce /\ a.uri = uri /\ a.qop = qop
      /\ a.nc = (IF qop = "" THEN 0 ELSE nc) /\ a.cnonce = (IF qop = "" THEN "" ELSE "cnonce")
      /\ a.response = calculateResponse(
           calculateHA1(user, ch.realm, password, ch.alg, ch.nonce, "cnonce"),
           ch.nonce, nc, "cnonce", qop, calculateHA2(method, uri, qop, ch.body))
  BY Zenon DEF authorization
<1>3. calculateHA2(method, uri, qop, ch.body) = calculateHA2(method, uri, qop, "")
  BY <1>1, Zenon DEF calculateHA2
<1>4. calculateHA1(user, ch.realm, password, ch.alg, ch.nonce, a.cnonce)
      = calculateHA1(user, ch.realm, password, ch.alg, ch.nonce, "cnonce")
  BY <1>1, <1>2, Zenon DEF calculateHA1
<1> HIDE DEF a, qop
<1>5. ASSUME NEW ha1, NEW ha2
      PROVE  calculateResponse(ha1, ch.nonce, a.nc, a.cnonce, qop, ha2)
             = calculateResponse(ha1, ch.nonce, nc, "cnonce", qop, ha2)
  BY <1>2, Zenon DEF calculateResponse
<1> DEFINE h1 == calculateHA1(user, ch.realm, password, ch.alg, ch.nonce, "cnonce")
           h2 == calculateHA2(method, uri, qop, "")
<1>6. /\ calculateHA1(a.username, a.realm, password, ch.alg, a.nonce, a.cnonce) = h1
      /\ calculateHA2(method, uri, a.qop, "") = h2
      /\ a.response = calculateResponse(h1, ch.nonce, nc, "cnonce", qop, h2)
  BY <1>2, <1>3, <1>4, Zenon
<1> HIDE DEF h1, h2
<1>7. a.response = calculateResponse(h1, a.nonce, a.nc, a.cnonce, a.qop, h2)
  <2>1. a.nonce = ch.nonce /\ a.qop = qop
    BY <1>2, Zenon
  <2>2. calculateResponse(h1, ch.nonce, a.nc, a.cnonce, qop, h2)
        = calculateResponse(h1, ch.nonce, nc, "cnonce", qop, h2)
    BY <1>5, Zenon
  <2> QED
    BY <1>6, <2>1, <2>2, Zenon
<1>8. ServerAccepts(ch, a, password, method, uri)
  BY <1>2, <1>6, <1>7, Zenon DEF ServerAccepts
<1> QED
  BY <1>8, Zenon DEF a

-----------------------------------------------------------------------------
(* What steps do to the attempts *)

\* is_ssl is a matter of the URL.
LEMMA SameUrl ==
  ASSUME rq' = rq
  PROVE  is_ssl' = is_ssl
  BY Zenon DEF is_ssl, http_analyze_url

\* There is an innermost attempt.
LEMMA LastThere ==
  ASSUME ClientTypeOK, tries # <<>>
  PROVE  /\ Len(tries) \in Nat \ {0} /\ Len(tries) \in 1..Len(tries) /\ Mine \in Attempts
         /\ Mine = tries[Len(tries)]
<1>1. tries \in Seq(Attempts) /\ Len(tries) \in Nat \ {0}
  BY DEF ClientTypeOK
<1> QED
  BY <1>1 DEF Mine

\* A step that does not touch the attempts.
LEMMA AttemptsStay ==
  ASSUME ClientInv, UNCHANGED <<rq, tries>>, tls_client_context' \in Configs \cup {NoConfig},
         answer' \in Answers \cup {NoAnswer}, nonce_count' \in Nat,
         is_ssl /\ step' = "ws_handshake" => step = "ws_handshake"
  PROVE  ClientTypeOK' /\ AttemptsOk' /\ ChallengeAnswered' /\ Mine' = Mine
<1>1. ClientTypeOK' /\ Mine' = Mine
  BY Zenon DEF ClientInv, ClientTypeOK, Mine
<1>2. is_ssl' = is_ssl
  BY SameUrl, Zenon
<1>3. AttemptsOk'
  <2>1. ASSUME NEW i \in 1..Len(tries)
        PROVE  AttemptOk(rq, tries[i], i, Len(tries), step')
    BY Zenon DEF ClientInv, AttemptsOk, AttemptOk, is_ssl
  <2> QED
    BY <2>1, Zenon DEF AttemptsOk
<1>4. ChallengeAnswered'
  BY Zenon DEF ClientInv, ChallengeAnswered
<1> QED
  BY <1>1, <1>3, <1>4, Zenon

\* A step that changes the innermost attempt into r.
LEMMA LastMoves ==
  ASSUME ClientTypeOK, tries # <<>>, NEW r \in Attempts, tries' = [tries EXCEPT ![Len(tries)] = r]
  PROVE  /\ tries' \in Seq(Attempts) /\ Len(tries') = Len(tries) /\ tries' # <<>> /\ Mine' = r
         /\ \A i \in 1..Len(tries) : i # Len(tries) => tries'[i] = tries[i]
<1>1. tries \in Seq(Attempts) /\ Len(tries) \in Nat \ {0} /\ Len(tries) \in 1..Len(tries)
  BY LastThere, Zenon DEF ClientTypeOK
<1>2. tries' \in Seq(Attempts) /\ Len(tries') = Len(tries)
  BY <1>1
<1>3. tries'[Len(tries)] = r /\ \A i \in 1..Len(tries) : i # Len(tries) => tries'[i] = tries[i]
  BY <1>1
<1>4. tries' # <<>>
  BY <1>1, <1>2, Zenon
<1> QED
  BY <1>2, <1>3, <1>4, Zenon DEF Mine

\* An outer attempt has written, so the step does not matter to it.
LEMMA OuterOk ==
  ASSUME NEW k, NEW q, NEW i \in Nat, NEW n \in Nat, NEW s, NEW t, AttemptOk(k, q, i, n, s), i < n
  PROVE  AttemptOk(k, q, i, n, t)
  BY Zenon DEF AttemptOk

\* The last attempt becomes r.
LEMMA InnerOk ==
  ASSUME NEW k, NEW q, NEW r, NEW n \in Nat, NEW s, NEW t, AttemptOk(k, q, n, n, s),
         r.auth = q.auth, r.body = q.body, r.write = "done" => r.sent = k.body,
         http_analyze_url(k.url).is_ssl /\ (r.write # "none" \/ t = "ws_handshake") => Accepted(k, r)
  PROVE  AttemptOk(k, r, n, n, t)
  BY DEF AttemptOk

\* It keeps who has asked what and with which credentials and body; if it has
\* begun to write it has accepted the peer.
LEMMA LastOk ==
  ASSUME ClientInv, tries # <<>>, NEW r \in Attempts, tries' = [tries EXCEPT ![Len(tries)] = r],
         UNCHANGED <<rq, tls_client_context, answer, nonce_count>>,
         r.auth = Mine.auth, r.body = Mine.body, r.asked = Mine.asked,
         r.write = "done" => r.sent = rq.body,
         is_ssl /\ (r.write # "none" \/ step' = "ws_handshake") => Accepted(rq, r)
  PROVE  ClientTypeOK' /\ AttemptsOk' /\ ChallengeAnswered' /\ Mine' = r /\ tries' # <<>>
<1>1. /\ ClientTypeOK /\ Len(tries) \in Nat \ {0} /\ Len(tries) \in 1..Len(tries)
      /\ Mine = tries[Len(tries)]
  BY LastThere, Zenon DEF ClientInv
<1>2. /\ tries' \in Seq(Attempts) /\ Len(tries') = Len(tries) /\ tries' # <<>> /\ Mine' = r
      /\ tries'[Len(tries)] = r
      /\ \A i \in 1..Len(tries) : i # Len(tries) => tries'[i] = tries[i]
  BY <1>1, LastMoves, Zenon DEF Mine
<1>4. ClientTypeOK'
  BY <1>1, <1>2, Zenon DEF ClientTypeOK
<1>5. ASSUME NEW i \in 1..Len(tries')
      PROVE  AttemptOk(rq, tries'[i], i, Len(tries), step')
  <2>1. AttemptOk(rq, tries[i], i, Len(tries), step) /\ i \in 1..Len(tries)
    BY <1>2, Zenon DEF ClientInv, AttemptsOk
  <2>2. CASE i = Len(tries)
    <3>1. i \in Nat /\ tries[i] = Mine /\ tries'[i] = r
      BY <1>1, <1>2, <2>2, Zenon
    <3>2. http_analyze_url(rq.url).is_ssl /\ (r.write # "none" \/ step' = "ws_handshake") => Accepted(rq, r)
      BY Zenon DEF is_ssl
    <3>3. AttemptOk(rq, Mine, i, i, step)
      BY <2>1, <2>2, <3>1, Zenon
    <3>4. AttemptOk(rq, r, i, i, step')
      BY <3>1, <3>2, <3>3, InnerOk, Zenon
    <3> QED
      BY <2>2, <3>1, <3>4, Zenon
  <2>3. CASE i # Len(tries)
    <3>1. i \in 1..Len(tries) /\ tries'[i] = tries[i] /\ Len(tries) \in Nat
      BY <1>1, <1>2, <2>1, <2>3, Zenon
    <3> DEFINE n == Len(tries)
    <3> HIDE DEF n
    <3>2. n \in Nat /\ i \in 1..n /\ i # n
      BY <2>3, <3>1, Zenon DEF n
    <3>3. i \in Nat /\ i < n
      BY <3>2
    <3>4. AttemptOk(rq, tries[i], i, n, step')
      BY <2>1, <3>2, <3>3, OuterOk, Zenon DEF n
    <3> QED
      BY <3>1, <3>4, Zenon DEF n
  <2> QED
    BY <2>2, <2>3, Zenon
<1>6. ChallengeAnswered'
  <2>1. Len(tries') <= 2
    BY <1>2, Zenon DEF ClientInv, ChallengeAnswered
  <2>2. CASE Len(tries) = 2
    <3>1. 1 \in 1..Len(tries) /\ 1 # Len(tries)
      BY <2>2
    <3>2. tries'[1] = tries[1] /\ tries'[2].auth = tries[2].auth
      BY <1>1, <1>2, <2>2, <3>1, Zenon
    <3> QED
      BY <1>2, <2>1, <3>2, Zenon DEF ClientInv, ChallengeAnswered
  <2> QED
    BY <1>2, <2>1, <2>2, Zenon DEF ChallengeAnswered
<1> QED
  BY <1>2, <1>4, <1>5, <1>6, Zenon DEF AttemptsOk

-----------------------------------------------------------------------------
(* Kinds of steps *)

\* Where the fiber waits for more of the response, or for nothing.
Plain == {"header", "part_header", "part_body", "body", "boundary", "write_done"}

\* The response is read, or something happens meanwhile.
LEMMA ReadsOn ==
  ASSUME ClientInv, UNCHANGED <<rq, data, tries, answer, exception>>,
         tls_client_context' \in Configs \cup {NoConfig}, nonce_count' \in Nat,
         step' = step \/ (step \in Waiting /\ step' \in Plain /\ answer # NoAnswer),
         answer = NoAnswer => wire' = <<>> /\ buffer' = <<>>
  PROVE  ClientInv'
<1>1. step' = "ws_handshake" => step = "ws_handshake"
  BY Zenon DEF Plain
<1>2. ClientTypeOK' /\ AttemptsOk' /\ ChallengeAnswered' /\ Mine' = Mine
  <2>1. answer' \in Answers \cup {NoAnswer}
    BY Zenon DEF ClientInv, ClientTypeOK
  <2> QED
    BY <1>1, <2>1, AttemptsStay, Zenon
<1>3. is_ssl' = is_ssl
  BY SameUrl, Zenon
<1>4. Thrown'
  BY <1>2, Zenon DEF ClientInv, Thrown, Plain, Waiting, Parsing
<1>5. Phase'
  <2>1. CASE step' = step
    BY <1>2, <1>3, <2>1, Zenon DEF ClientInv, Phase
  <2>2. CASE step \in Waiting /\ step' \in Plain /\ answer # NoAnswer
    BY <1>2, <1>3, <2>2, Zenon DEF ClientInv, Phase, Plain, Waiting, Parsing
  <2> QED
    BY <2>1, <2>2, Zenon
<1> QED
  BY <1>2, <1>4, <1>5, Zenon DEF ClientInv

\* The call returns or throws.
LEMMA LeavesOk ==
  ASSUME ClientInv, tries # <<>>, NEW to \in {"returned", "thrown"}, NEW x, Leaves(to, x),
         UNCHANGED <<rq, tries, tls_client_context>>, nonce_count' \in Nat,
         to = "returned" => x = "" /\ Mine.write # "pending", x # "tls_verify_error"
  PROVE  ClientInv'
<1>1. ClientTypeOK' /\ AttemptsOk' /\ ChallengeAnswered' /\ Mine' = Mine
  <2>1. answer' \in Answers \cup {NoAnswer} /\ tls_client_context' \in Configs \cup {NoConfig}
    BY Zenon DEF Leaves, ClientInv, ClientTypeOK
  <2>2. step' # "ws_handshake"
    BY Zenon DEF Leaves
  <2> QED
    BY <2>1, <2>2, AttemptsStay, Zenon
<1>2. Phase'
  BY <1>1, Zenon DEF ClientInv, Phase, Leaves
<1>3. Thrown'
  BY Zenon DEF Thrown, Leaves
<1> QED
  BY <1>1, <1>2, <1>3, Zenon DEF ClientInv

\* The connection is there and, if need be, the peer is accepted.
LEMMA ConnectedOk ==
  ASSUME ClientInv, step \in {"connect", "handshake"}, NEW r \in Attempts,
         NEW ts, ts = [tries EXCEPT ![Len(tries)] = r], Connected(ts),
         UNCHANGED <<rq, data, tls_client_context, nonce_count>>,
         r.auth = Mine.auth, r.body = Mine.body, r.asked = Mine.asked, r.write = "none",
         is_ssl => Accepted(rq, r)
  PROVE  ClientInv'
<1>1. tries # <<>> /\ exception = "" /\ ClientTypeOK
  BY Zenon DEF ClientInv, Phase, Thrown
<1>2. UNCHANGED <<answer, wire, buffer, exception>> /\ step' \in {"ws_handshake", "header"}
  BY Zenon DEF Connected, Goto
<1>3. is_ssl' = is_ssl
  BY SameUrl, Zenon
<1>4. ASSUME NEW q \in Attempts, tries' = [tries EXCEPT ![Len(tries)] = q],
             q.auth = Mine.auth, q.body = Mine.body, q.asked = Mine.asked,
             q.write # "done", step' = "ws_handshake" => q.write = "none", is_ssl => Accepted(rq, q)
      PROVE  ClientInv'
  <2>1. ClientTypeOK' /\ AttemptsOk' /\ ChallengeAnswered' /\ Mine' = q /\ tries' # <<>>
    BY <1>1, <1>2, <1>4, LastOk, Zenon
  <2>2. Thrown'
    BY <1>1, <1>2, Zenon DEF Thrown
  <2>3. Phase'
    BY <1>1, <1>2, <1>4, <2>1, Zenon DEF ClientInv, Phase
  <2> QED
    BY <2>1, <2>2, <2>3, Zenon DEF ClientInv
<1>5. CASE rq.kind = "websocket"
  BY <1>4, <1>5, Zenon DEF Connected
<1>6. CASE rq.kind # "websocket"
  <2> DEFINE q == [r EXCEPT !.write = "pending"]
  <2>1. q \in Attempts /\ q.write = "pending" /\ q.auth = r.auth /\ q.body = r.body /\ q.asked = r.asked
        /\ q.ctx = r.ctx /\ q.cert = r.cert
    BY Zenon DEF Attempts
  <2>2. tries \in Seq(Attempts) /\ Len(tries) \in 1..Len(tries)
    BY <1>1, LastThere, Zenon DEF ClientTypeOK
  <2>3. Len(ts) = Len(tries) /\ ts[Len(tries)] = r
    BY <2>2
  <2>4. step' = "header" /\ tries' = [ts EXCEPT ![Len(tries)] = q]
    BY <1>6, <2>3, Zenon DEF Connected, Goto
  <2>5. tries' = [tries EXCEPT ![Len(tries)] = q]
    BY <2>2, <2>4, Zenon
  <2>6. is_ssl => Accepted(rq, q)
    BY <2>1, Zenon DEF Accepted, ContextOk
  <2> HIDE DEF q
  <2> QED
    BY <1>4, <2>1, <2>4, <2>5, <2>6, Zenon
<1> QED
  BY <1>5, <1>6, Zenon

-----------------------------------------------------------------------------
(* The attempts begin and end *)

\* The user's call.
LEMMA BeginsOk ==
  ASSUME ClientInv, NEW kind, Begins(kind)
  PROVE  ClientInv'
<1>1. /\ rq \in Calls /\ tries = <<>> /\ exception = "" /\ data = rq.body /\ rq' = rq
      /\ UNCHANGED <<tls_client_context, nonce_count, exception>>
  BY Zenon DEF Begins, Connects, ClientInv, ClientTypeOK, Phase, Thrown
<1>2. Thrown'
  BY <1>1, Zenon DEF Begins, Connects, Thrown
<1>3. CASE step' = "null"
  <2>1. UNCHANGED <<tries, answer, wire, buffer>>
    BY <1>3, Zenon DEF Begins, Connects
  <2>2. ClientTypeOK' /\ AttemptsOk' /\ ChallengeAnswered'
    BY <1>1, <1>3, <2>1, AttemptsStay, Zenon DEF ClientInv, ClientTypeOK
  <2>3. Phase'
    BY <1>1, <1>3, <2>1, Zenon DEF ClientInv, Phase
  <2> QED
    BY <1>2, <2>2, <2>3, Zenon DEF ClientInv
<1>4. CASE step' # "null"
  <2> DEFINE r == Attempt(NoAuth, rq.body)
  <2>1. /\ tries' = Append(<<>>, r) /\ step' = "resolve" /\ answer' = NoAnswer
        /\ wire' = <<>> /\ buffer' = <<>> /\ rq.url.host # NoHost
    BY <1>1, <1>4, Zenon DEF Begins, Connects, http_analyze_url
  <2>2. r \in Attempts
    BY <1>1, Zenon DEF Attempt, Attempts
  <2>3. r.auth = NoAuth /\ r.write = "none" /\ r.body = rq.body
    BY Zenon DEF Attempt
  <2> HIDE DEF r
  <2>4. tries' \in Seq(Attempts) /\ Len(tries') = 1 /\ tries'[1] = r /\ tries' # <<>>
    BY <2>1, <2>2
  <2>5. Mine' = r
    BY <2>4, Zenon DEF Mine
  <2>6. ClientTypeOK'
    BY <1>1, <2>1, <2>4, Zenon DEF ClientInv, ClientTypeOK
  <2>7. AttemptsOk'
    <3>1. AttemptOk(rq, r, 1, 1, "resolve")
      BY <2>3 DEF AttemptOk
    <3>2. \A i \in 1..1 : AttemptOk(rq, tries'[i], i, 1, "resolve")
      BY <2>4, <3>1
    <3> QED
      BY <1>1, <2>1, <2>4, <3>2, Zenon DEF AttemptsOk
  <2>8. Phase'
    BY <1>1, <2>1, <2>3, <2>4, <2>5, Zenon DEF Phase
  <2>9. ChallengeAnswered'
    BY <2>4 DEF ChallengeAnswered
  <2> QED
    BY <1>2, <2>6, <2>7, <2>8, <2>9, Zenon DEF ClientInv
<1> QED
  BY <1>3, <1>4, Zenon

\* Append().
LEMMA Appended ==
  ASSUME NEW S, NEW u \in Seq(S), NEW y \in S
  PROVE  /\ Append(u, y) \in Seq(S) /\ Len(Append(u, y)) = Len(u) + 1
         /\ Append(u, y)[Len(u) + 1] = y /\ \A i \in 1..Len(u) : Append(u, y)[i] = u[i]
  OBVIOUS

\* A first attempt that is replaced and followed by another one.
LEMMA OneMore ==
  ASSUME tries \in Seq(Attempts), Len(tries) = 1, NEW x \in Attempts, NEW y \in Attempts,
         tries' = Append([tries EXCEPT ![1] = x], y)
  PROVE  tries' \in Seq(Attempts) /\ Len(tries') = 2 /\ tries'[1] = x /\ tries'[2] = y /\ tries' # <<>>
<1> DEFINE u == [tries EXCEPT ![1] = x]
<1>1. u \in Seq(Attempts) /\ Len(u) = 1 /\ u[1] = x
  OBVIOUS
<1>2. tries' = Append(u, y)
  BY Zenon
<1> HIDE DEF u
<1>3. tries' \in Seq(Attempts) /\ Len(tries') = Len(u) + 1
  <2>1. Append(u, y) \in Seq(Attempts) /\ Len(Append(u, y)) = Len(u) + 1
    BY <1>1, Appended, ZenonT(40)
  <2> QED
    BY <1>2, <2>1, Zenon
<1>4. tries'[Len(u) + 1] = y /\ \A i \in 1..Len(u) : tries'[i] = u[i]
  BY <1>1, <1>2, Appended
<1>5. 1 \in 1..Len(u) /\ Len(u) + 1 = 2
  BY <1>1
<1>6. tries' # <<>>
  BY <1>3, <1>5
<1> QED
  BY <1>1, <1>3, <1>4, <1>5, <1>6, Zenon

\* The answer to a challenge: there is one attempt, and it has written.
LEMMA RetriesOk ==
  ASSUME ClientInv, step = "challenge_write", Mine.write = "done", Retries
  PROVE  ClientInv'
<1>1. /\ tries # <<>> /\ Mine.auth = NoAuth /\ answer # NoAnswer /\ rq.url.user # "" /\ exception = ""
      /\ rq.url.host # NoHost /\ rq \in Calls /\ answer \in Answers /\ nonce_count \in Nat
      /\ ClientTypeOK
  BY Zenon DEF ClientInv, Phase, ClientTypeOK, Thrown
<1>2. /\ Len(tries) = 1 /\ Mine = tries[1] /\ Mine \in Attempts
      /\ AttemptOk(rq, Mine, 1, 1, step)
  <2>1. Len(tries) \in Nat \ {0} /\ Len(tries) \in 1..Len(tries) /\ Mine = tries[Len(tries)]
        /\ Mine \in Attempts
    BY <1>1, LastThere, Zenon
  <2>2. AttemptOk(rq, Mine, Len(tries), Len(tries), step)
    BY <2>1, Zenon DEF ClientInv, AttemptsOk
  <2>3. Len(tries) = 1
    BY <1>1, <2>2, Zenon DEF AttemptOk
  <2> QED
    BY <2>1, <2>2, <2>3, Zenon
<1> DEFINE a == Authorization
           old == [Mine EXCEPT !.body = "", !.asked = answer.challenge]
           new == Attempt(a, Mine.body)
<1>3. a \in Authorizations(Texts)
  <2> DEFINE ch == answer.challenge
  <2>1. /\ {"", "auth", "auth-int", "cnonce"} \subseteq Texts /\ {ch.nonce, ch.realm, ch.body} \subseteq Texts
        /\ rq.url.user \in Texts /\ rq.url.password \in Texts /\ rq.url.target \in Texts /\ rq.method \in Texts
    <3>1. {"", "auth", "auth-int", "cnonce"} \subseteq Texts
      BY Zenon DEF Texts
    <3>2. \A b \in Answers : {b.challenge.nonce, b.challenge.realm, b.challenge.body} \subseteq Texts
      BY Zenon DEF Texts
    <3>3. \A k \in Calls : {k.url.user, k.url.password, k.url.target, k.method} \subseteq Texts
      BY Zenon DEF Texts
    <3> QED
      BY <1>1, <3>1, <3>2, <3>3, Zenon
  <2> HIDE DEF ch
  <2>2. authorization(ch, rq.url.user, rq.url.password, rq.url.target, rq.method, nonce_count, "cnonce")
          \in Authorizations(Texts)
    BY <1>1, <2>1, AuthorizationTyped, Zenon
  <2> QED
    BY <2>2, Zenon DEF Authorization, ch
<1>4. a # NoAuth
  BY <1>3, ClientAssumption, Zenon
<1>5. /\ ServerAccepts(answer.challenge, a, rq.url.password, rq.method, rq.url.target)
         \/ answer.challenge.qop = "auth-int"
         \/ (answer.challenge.alg = "md5-sess" /\ answer.challenge.qop = "")
  BY AuthorizationAccepted, Zenon DEF Authorization
<1>6. /\ UNCHANGED <<rq, data, tls_client_context, nonce_count, exception>> /\ step' = "resolve"
      /\ answer' = NoAnswer /\ wire' = <<>> /\ buffer' = <<>>
      /\ tries' = Append([tries EXCEPT ![1] = old], new)
  BY <1>2, Zenon DEF Retries, Connects
<1> HIDE DEF a
<1>7. /\ old \in Attempts /\ old.write = "done" /\ old.auth = NoAuth /\ old.asked = answer.challenge
      /\ old.sent = Mine.sent /\ old.ctx = Mine.ctx /\ old.cert = Mine.cert
  BY <1>1, <1>2, Zenon DEF Attempts
<1>8. new \in Attempts /\ new.write = "none" /\ new.auth = a /\ new.body = Mine.body
  BY <1>1, <1>2, <1>3, Zenon DEF Attempts, Attempt
<1> HIDE DEF old, new
<1>9. tries' \in Seq(Attempts) /\ Len(tries') = 2 /\ tries'[1] = old /\ tries'[2] = new /\ tries' # <<>>
  <2>1. tries \in Seq(Attempts) /\ Len(tries) = 1 /\ old \in Attempts /\ new \in Attempts
    BY <1>1, <1>2, <1>7, <1>8, Zenon DEF ClientTypeOK
  <2> QED
    BY <1>6, <2>1, OneMore, Zenon
<1>10. Mine' = new
  BY <1>9, Zenon DEF Mine
<1>11. ClientTypeOK'
  BY <1>1, <1>6, <1>9, Zenon DEF ClientTypeOK
<1>12. AttemptsOk'
  <2>1. AttemptOk(rq, old, 1, 2, "resolve")
    BY <1>2, <1>7 DEF AttemptOk, Accepted, ContextOk
  <2>2. AttemptOk(rq, new, 2, 2, "resolve")
    BY <1>2, <1>4, <1>8 DEF AttemptOk
  <2>3. \A i \in 1..2 : AttemptOk(rq, tries'[i], i, 2, "resolve")
    BY <1>9, <2>1, <2>2
  <2> QED
    BY <1>6, <1>9, <2>3, Zenon DEF AttemptsOk
<1>13. Phase' /\ Thrown'
  BY <1>1, <1>6, <1>8, <1>9, <1>10, Zenon DEF Phase, Thrown
<1>14. ChallengeAnswered'
  <2>1. Len(tries') <= 2 /\ tries'[1].asked = answer.challenge /\ tries'[2].auth = a /\ rq' = rq
        /\ tries'[1].auth = NoAuth
    BY <1>6, <1>7, <1>8, <1>9
  <2>2. ServerAccepts(tries'[1].asked, tries'[2].auth, rq'.url.password, rq'.method, rq'.url.target)
        \/ tries'[1].asked.qop = "auth-int"
        \/ (tries'[1].asked.alg = "md5-sess" /\ tries'[1].asked.qop = "")
    BY <1>5, <2>1, Zenon
  <2> QED
    BY <1>1, <1>4, <2>1, <2>2, Zenon DEF ChallengeAnswered
<1> QED
  BY <1>11, <1>12, <1>13, <1>14, Zenon DEF ClientInv

-----------------------------------------------------------------------------
(* The steps of the network *)

\* The context is chosen.
LEMMA ResolveOk ==
  ASSUME ClientInv, async_resolve
  PROVE  ClientInv'
<1> DEFINE c == IF rq.tls_ctx # NoConfig THEN rq.tls_ctx ELSE get_tls_client_context
           r == IF is_ssl THEN [Mine EXCEPT !.ctx = c] ELSE Mine
<1>1. /\ step = "resolve" /\ step' = "connect" /\ UNCHANGED <<answer, wire, buffer, exception>>
      /\ UNCHANGED <<rq, data, tls_client_context, nonce_count>>
  BY Zenon DEF async_resolve, Fixed
<1>2. tries # <<>> /\ exception = "" /\ ClientTypeOK /\ Mine.write = "none" /\ rq \in Calls
  BY <1>1, Zenon DEF ClientInv, Phase, Thrown, ClientTypeOK
<1>3. Mine \in Attempts /\ Mine = tries[Len(tries)] /\ Len(tries) \in 1..Len(tries) /\ tries \in Seq(Attempts)
  BY <1>2, LastThere, Zenon DEF ClientTypeOK
<1>4. c \in Configs \cup {k.tls_ctx : k \in Calls} \cup {default_client_config, NoConfig}
  BY <1>2, Zenon DEF ClientTypeOK, get_tls_client_context
<1>5. tries' = [tries EXCEPT ![Len(tries)] = r]
  <2>1. CASE is_ssl
    BY <1>3, <2>1, Zenon DEF async_resolve
  <2>2. CASE ~is_ssl
    BY <1>3, <2>2 DEF async_resolve
  <2> QED
    BY <2>1, <2>2, Zenon
<1>6. rq.tls_ctx # NoConfig => c = rq.tls_ctx
  BY Zenon
<1> HIDE DEF c
<1>7. /\ r \in Attempts /\ r.auth = Mine.auth /\ r.body = Mine.body /\ r.asked = Mine.asked
      /\ r.write = "none" /\ (is_ssl => r.ctx = c)
  <2>1. CASE is_ssl
    BY <1>2, <1>3, <1>4, <2>1, ZenonT(40) DEF Attempts
  <2>2. CASE ~is_ssl
    BY <1>2, <1>3, <2>2, Zenon
  <2> QED
    BY <2>1, <2>2, Zenon
<1> HIDE DEF r
<1>8. ClientTypeOK' /\ AttemptsOk' /\ ChallengeAnswered' /\ Mine' = r /\ tries' # <<>>
  BY <1>1, <1>2, <1>5, <1>7, LastOk, Zenon
<1>9. is_ssl' = is_ssl
  BY <1>1, SameUrl, Zenon
<1>10. is_ssl => ContextOk(rq, r)
  BY <1>6, <1>7, Zenon DEF ContextOk
<1>11. Phase' /\ Thrown'
  BY <1>1, <1>2, <1>7, <1>8, <1>9, <1>10, Zenon DEF ClientInv, Phase, Thrown
<1> QED
  BY <1>8, <1>11, Zenon DEF ClientInv

\* The connection is there, or not; a handshake may follow.
LEMMA ConnectOk ==
  ASSUME ClientInv, NEW ec, async_connect(ec)
  PROVE  ClientInv'
<1>1. step = "connect" /\ UNCHANGED <<rq, data, tls_client_context, nonce_count>>
  BY Zenon DEF async_connect, Fixed
<1>2. tries # <<>> /\ exception = "" /\ ClientTypeOK /\ Mine.write = "none" /\ nonce_count' \in Nat
  BY <1>1, Zenon DEF ClientInv, Phase, Thrown, ClientTypeOK
<1>3. Mine \in Attempts /\ Mine = tries[Len(tries)] /\ Len(tries) \in 1..Len(tries) /\ tries \in Seq(Attempts)
  BY <1>2, LastThere, Zenon DEF ClientTypeOK
<1>4. CASE ec # NoError /\ Throw(async_handshake(ec).v) /\ UNCHANGED tries
  <2>1. async_handshake(ec).v # "tls_verify_error"
    BY <1>4, ErrorsThrow DEF SetException
  <2> QED
    BY <1>1, <1>2, <1>4, <2>1, LeavesOk, Zenon DEF Throw
<1>5. CASE Throw("tls_error") /\ UNCHANGED tries
  BY <1>1, <1>2, <1>5, LeavesOk, Zenon DEF Throw
<1>6. CASE Goto("handshake") /\ UNCHANGED tries
  <2>1. ClientTypeOK' /\ AttemptsOk' /\ ChallengeAnswered' /\ Mine' = Mine
    <3>1. answer' \in Answers \cup {NoAnswer} /\ tls_client_context' \in Configs \cup {NoConfig}
      BY <1>1, <1>2, <1>6, Zenon DEF Goto, ClientTypeOK
    <3>2. step' # "ws_handshake"
      BY <1>6, Zenon DEF Goto
    <3> QED
      BY <1>1, <1>2, <1>6, <3>1, <3>2, AttemptsStay, Zenon
  <2>2. is_ssl' = is_ssl
    BY <1>1, SameUrl, Zenon
  <2>3. Phase' /\ Thrown'
    BY <1>1, <1>2, <1>6, <2>1, <2>2, Zenon DEF ClientInv, Phase, Thrown, Goto
  <2> QED
    BY <2>1, <2>3, Zenon DEF ClientInv
<1>7. CASE ~is_ssl /\ Connected(tries)
  <2>1. tries = [tries EXCEPT ![Len(tries)] = Mine]
    BY <1>3
  <2> QED
    BY <1>1, <1>2, <1>3, <1>7, <2>1, ConnectedOk, Zenon
<1> QED
  BY <1>4, <1>5, <1>6, <1>7, Zenon DEF async_connect

\* The server has shown a certificate.
LEMMA HandshakeOk ==
  ASSUME ClientInv, NEW cert \in Certs, NEW ec, client_handshake(cert, ec)
  PROVE  ClientInv'
<1> DEFINE vr == verify_result(Mine.ctx, rq.url.host, cert)
           r == [Mine EXCEPT !.cert = cert]
           x == rethrow_client_handshake_error(async_handshake(ec).v, Mine.ctx, vr)
<1>1. step = "handshake" /\ UNCHANGED <<rq, data, tls_client_context, nonce_count>>
  BY Zenon DEF client_handshake, Fixed
<1>2. /\ tries # <<>> /\ exception = "" /\ ClientTypeOK /\ Mine.write = "none"
      /\ (is_ssl => ContextOk(rq, Mine))
  BY <1>1, Zenon DEF ClientInv, Phase, Thrown
<1>3. Mine \in Attempts /\ Mine = tries[Len(tries)] /\ Len(tries) \in 1..Len(tries) /\ tries \in Seq(Attempts)
  BY <1>2, LastThere, Zenon DEF ClientTypeOK
<1>4. /\ r \in Attempts /\ r.auth = Mine.auth /\ r.body = Mine.body /\ r.asked = Mine.asked
      /\ r.write = "none" /\ r.ctx = Mine.ctx /\ r.cert = cert
  BY <1>2, <1>3, Zenon DEF Attempts
<1>5. [tries EXCEPT ![Len(tries)].cert = cert] = [tries EXCEPT ![Len(tries)] = r]
  BY <1>3, Zenon
<1> HIDE DEF r
<1>6. CASE /\ async_handshake(ec).set = "exception" /\ Throw(x)
           /\ tries' = [tries EXCEPT ![Len(tries)] = r]
  <2>1. step' = "thrown" /\ exception' = x /\ wire' = <<>> /\ buffer' = <<>> /\ UNCHANGED answer
    BY <1>6, Zenon DEF Throw, Leaves
  <2>2. x = "tls_verify_error" => Mine.ctx.verify_peer /\ ~vr
    <3>1. ec # NoError
      BY <1>6, ErrorsThrow, Zenon
    <3>2. async_handshake(ec).v # "tls_verify_error"
      BY <3>1, ErrorsThrow DEF SetException
    <3> QED
      BY <3>2, Zenon DEF rethrow_client_handshake_error
  <2>3. ClientTypeOK' /\ AttemptsOk' /\ ChallengeAnswered' /\ Mine' = r /\ tries' # <<>>
    BY <1>1, <1>2, <1>4, <1>6, <2>1, LastOk, Zenon
  <2>4. Thrown'
    BY <1>1, <1>4, <2>1, <2>2, <2>3, Zenon DEF Thrown
  <2>5. Phase'
    BY <1>1, <1>2, <2>1, <2>3, Zenon DEF ClientInv, Phase
  <2> QED
    BY <2>3, <2>4, <2>5, Zenon DEF ClientInv
<1>7. CASE /\ async_handshake(ec).set = "value" /\ Connected([tries EXCEPT ![Len(tries)] = r])
           /\ ec.name = "certificate_verify_failed" <=> Mine.ctx.verify_peer /\ ~vr
  <2>1. ec = NoError
    <3>1. ASSUME ec # NoError
          PROVE  async_handshake(ec).set = "exception"
      BY <3>1, ErrorsThrow DEF SetException
    <3> QED
      BY <1>7, <3>1, Zenon
  <2>2. Mine.ctx.verify_peer => vr
    BY <1>7, <2>1, Zenon DEF NoError, Ec
  <2>3. is_ssl => Accepted(rq, r)
    BY <1>2, <1>4, <2>2, ZenonT(40) DEF Accepted, ContextOk
  <2> QED
    BY <1>1, <1>4, <1>7, <2>3, ConnectedOk, Zenon
<1> QED
  BY <1>5, <1>6, <1>7, Zenon DEF client_handshake

\* Only the innermost attempt can still be writing.
LEMMA WriteOk ==
  ASSUME ClientInv, NEW i \in Nat, NEW ok \in BOOLEAN, async_write(i, ok)
  PROVE  ClientInv' /\ Mine'.auth = Mine.auth
<1>1. /\ ~Ended /\ i \in 1..Len(tries) /\ tries[i].write = "pending"
      /\ UNCHANGED <<rq, data, tls_client_context, nonce_count, step, answer, wire, buffer, exception>>
  BY Zenon DEF async_write, Fixed
<1>2. tries # <<>> /\ ClientTypeOK
  BY <1>1 DEF ClientInv
<1>3. Mine \in Attempts /\ Mine = tries[Len(tries)] /\ Len(tries) \in 1..Len(tries) /\ Len(tries) \in Nat
  BY <1>2, LastThere, Zenon
<1>4. AttemptOk(rq, tries[i], i, Len(tries), step)
  BY <1>1, Zenon DEF ClientInv, AttemptsOk
<1>5. i = Len(tries)
  BY <1>1, <1>3, <1>4 DEF AttemptOk
<1> DEFINE r == [Mine EXCEPT !.write = IF ok THEN "done" ELSE "failed", !.sent = IF ok THEN Mine.body ELSE ""]
<1>6. Mine.write = "pending" /\ Mine.body = rq.body /\ (is_ssl => Accepted(rq, Mine))
  BY <1>1, <1>3, <1>4, <1>5, Zenon DEF AttemptOk, is_ssl
<1>7. tries' = [tries EXCEPT ![Len(tries)] = r]
  BY <1>3, <1>5, Zenon DEF async_write
<1>8. /\ r \in Attempts /\ r.auth = Mine.auth /\ r.body = Mine.body /\ r.asked = Mine.asked
      /\ r.ctx = Mine.ctx /\ r.cert = Mine.cert /\ r.write \in {"done", "failed"}
      /\ (r.write = "done" => r.sent = rq.body)
  <2>1. CASE ok
    BY <1>3, <1>6, <2>1, ZenonT(40) DEF Attempts
  <2>2. CASE ~ok
    BY <1>3, <1>6, <2>2, ZenonT(40) DEF Attempts
  <2> QED
    BY <2>1, <2>2, Zenon
<1> HIDE DEF r
<1>9. is_ssl => Accepted(rq, r)
  BY <1>6, <1>8, Zenon DEF Accepted, ContextOk
<1>10. ClientTypeOK' /\ AttemptsOk' /\ ChallengeAnswered' /\ Mine' = r /\ tries' # <<>>
  BY <1>1, <1>2, <1>7, <1>8, <1>9, LastOk, Zenon
<1>11. is_ssl' = is_ssl
  BY <1>1, SameUrl, Zenon
<1>12. Thrown'
  BY <1>1, ZenonT(40) DEF ClientInv, Thrown, Ended
<1>13. Phase'
  BY <1>1, <1>2, <1>6, <1>8, <1>10, <1>11, Zenon DEF ClientInv, Phase, Ended, ContextOk
<1> QED
  BY <1>8, <1>10, <1>12, <1>13, Zenon DEF ClientInv

-----------------------------------------------------------------------------
(* The steps of the fiber *)

\* A response arrives.
LEMMA AnswerOk ==
  ASSUME ClientInv, NEW a \in Answers, server_answers(a)
  PROVE  ClientInv'
<1>1. /\ step = "header" /\ step' = step /\ answer' = a /\ answer' # NoAnswer
      /\ UNCHANGED <<rq, data, tls_client_context, nonce_count, tries, exception>>
  BY ClientAssumption, Zenon DEF server_answers, Fixed
<1>2. ClientTypeOK' /\ AttemptsOk' /\ ChallengeAnswered' /\ Mine' = Mine
  <2>1. answer' \in Answers \cup {NoAnswer} /\ tls_client_context' \in Configs \cup {NoConfig}
        /\ nonce_count' \in Nat
    BY <1>1, Zenon DEF ClientInv, ClientTypeOK
  <2> QED
    BY <1>1, <2>1, AttemptsStay, Zenon
<1>3. Phase' /\ Thrown'
  BY <1>1, <1>2, Zenon DEF ClientInv, Phase, Thrown
<1> QED
  BY <1>2, <1>3, Zenon DEF ClientInv

\* The header of the response, or the body of a 401, has been read.
LEMMA HeaderOk ==
  ASSUME ClientInv, handle_client_request_response
  PROVE  ClientInv'
<1>1. /\ step = "header" /\ buffer # <<>>
      /\ UNCHANGED <<rq, data, tls_client_context, nonce_count>>
  BY Zenon DEF handle_client_request_response, Fixed
<1>2. /\ tries # <<>> /\ exception = "" /\ answer # NoAnswer /\ ClientTypeOK /\ nonce_count' \in Nat
      /\ tls_client_context' \in Configs \cup {NoConfig}
  BY <1>1, Zenon DEF ClientInv, Phase, Thrown, ClientTypeOK
<1>3. CASE try_auth /\ rq.url.user # "" /\ Takes(1, "challenge")
  <2>1. step' = "challenge" /\ UNCHANGED <<tries, answer, exception>>
    BY <1>3, Zenon DEF Takes
  <2>2. ClientTypeOK' /\ AttemptsOk' /\ ChallengeAnswered' /\ Mine' = Mine
    <3>1. answer' \in Answers \cup {NoAnswer}
      BY <1>2, <2>1, Zenon DEF ClientTypeOK
    <3> QED
      BY <1>1, <1>2, <2>1, <3>1, AttemptsStay, Zenon
  <2>3. Phase' /\ Thrown'
    BY <1>1, <1>2, <1>3, <2>1, <2>2, Zenon DEF ClientInv, Phase, Thrown, try_auth
  <2> QED
    BY <2>2, <2>3, Zenon DEF ClientInv
<1>4. CASE Takes(1, "body") \/ Takes(1, "boundary")
  <2>1. step' \in Plain /\ step \in Waiting /\ UNCHANGED <<tries, answer, exception>>
    BY <1>1, <1>4, Zenon DEF Takes, Plain, Waiting, Parsing
  <2> QED
    BY <1>1, <1>2, <2>1, ReadsOn, Zenon
<1>5. CASE Throw("unexpected_error") /\ UNCHANGED tries
  BY <1>1, <1>2, <1>5, LeavesOk, Zenon DEF Throw
<1> QED
  BY <1>3, <1>4, <1>5, Zenon DEF handle_client_request_response, Challenged

\* The body of a 401 has been read: the challenge is answered, or is the
\* response.
LEMMA AuthOk ==
  ASSUME ClientInv, handle_client_auth
  PROVE  ClientInv'
<1>1. step = "challenge" /\ UNCHANGED <<rq, data, tls_client_context>> /\ nonce_count' \in Nat
  BY SMTT(120) DEF handle_client_auth, ClientInv, ClientTypeOK
<1>2. /\ tries # <<>> /\ exception = "" /\ answer # NoAnswer /\ ClientTypeOK
      /\ tls_client_context' \in Configs \cup {NoConfig}
  BY <1>1, Zenon DEF ClientInv, Phase, Thrown, ClientTypeOK
<1>3. CASE Takes(1, "challenge_write")
  <2>1. step' = "challenge_write" /\ UNCHANGED <<tries, answer, exception>>
    BY <1>3, Zenon DEF Takes
  <2>2. ClientTypeOK' /\ AttemptsOk' /\ ChallengeAnswered' /\ Mine' = Mine
    <3>1. answer' \in Answers \cup {NoAnswer}
      BY <1>2, <2>1, Zenon DEF ClientTypeOK
    <3> QED
      BY <1>1, <1>2, <2>1, <3>1, AttemptsStay, Zenon
  <2>3. Phase' /\ Thrown'
    BY <1>1, <1>2, <2>1, <2>2, Zenon DEF ClientInv, Phase, Thrown
  <2> QED
    BY <2>2, <2>3, Zenon DEF ClientInv
<1>4. CASE Takes(1, "write_done")
  <2>1. step' \in Plain /\ step \in Waiting /\ UNCHANGED <<tries, answer, exception>>
    BY <1>1, <1>4, Zenon DEF Takes, Plain, Waiting, Parsing
  <2> QED
    BY <1>1, <1>2, <2>1, ReadsOn, Zenon
<1> QED
  BY <1>3, <1>4, Zenon DEF handle_client_auth

\* Nothing is left to read; only what is written over TLS is shut down.
LEMMA FinishOk ==
  ASSUME ClientInv, finish
  PROVE  ClientInv'
<1>1. /\ step = "write_done" /\ Mine.write # "pending" /\ UNCHANGED tries
      /\ UNCHANGED <<rq, data, tls_client_context, nonce_count>>
  BY Zenon DEF finish, Fixed
<1>2. /\ tries # <<>> /\ exception = "" /\ ClientTypeOK /\ nonce_count' \in Nat
      /\ tls_client_context' \in Configs \cup {NoConfig}
  BY <1>1, Zenon DEF ClientInv, Phase, Thrown, ClientTypeOK
<1>3. CASE Mine.write = "done" /\ Goto("shutdown")
  <2>1. step' = "shutdown" /\ UNCHANGED <<answer, wire, buffer, exception>>
    BY <1>3, Zenon DEF Goto
  <2>2. ClientTypeOK' /\ AttemptsOk' /\ ChallengeAnswered' /\ Mine' = Mine
    <3>1. answer' \in Answers \cup {NoAnswer}
      BY <1>2, <2>1, Zenon DEF ClientTypeOK
    <3> QED
      BY <1>1, <1>2, <2>1, <3>1, AttemptsStay, Zenon
  <2>3. Phase' /\ Thrown'
    BY <1>1, <1>2, <1>3, <2>1, <2>2, Zenon DEF ClientInv, Phase, Thrown
  <2> QED
    BY <2>2, <2>3, Zenon DEF ClientInv
<1>4. CASE Returned
  BY <1>1, <1>2, <1>4, LeavesOk, Zenon DEF Returned
<1> QED
  BY <1>3, <1>4, Zenon DEF finish

\* What is left: the parts of a multipart response, and reads that fail.
LEMMA RestOk ==
  ASSUME ClientInv,
         \/ \E cfg \in Configs : set_tls_client_context(cfg)
         \/ resolve_fails \/ (\E ok \in BOOLEAN : ws_handshake(ok)) \/ peer_closes
         \/ (\E k \in 1..Len(wire) : async_read_some(k)) \/ (\E ec \in ClientReadErrors : async_read_fails(ec))
         \/ read_body \/ find_multipart_boundary \/ part_header
         \/ (\E throws \in BOOLEAN : part_body(throws)) \/ async_shutdown
  PROVE  ClientInv'
<1>1. nonce_count \in Nat /\ tls_client_context \in Configs \cup {NoConfig}
  BY Zenon DEF ClientInv, ClientTypeOK
<1>2. /\ step \notin {"call", "null"} => tries # <<>>
      /\ answer = NoAnswer => wire = <<>> /\ buffer = <<>>
  BY Zenon DEF ClientInv, Phase
<1>3. ASSUME NEW cfg \in Configs, set_tls_client_context(cfg)
      PROVE  ClientInv'
  BY <1>1, <1>2, <1>3, ReadsOn, Zenon DEF set_tls_client_context
<1>4. CASE resolve_fails
  BY <1>1, <1>2, <1>4, LeavesOk, Zenon DEF resolve_fails, Throw, Fixed
<1>5. ASSUME NEW ok \in BOOLEAN, ws_handshake(ok)
      PROVE  ClientInv'
  <2>1. step = "ws_handshake" /\ Mine.write = "none"
    BY <1>5, Zenon DEF ws_handshake, ClientInv, Phase
  <2> QED
    BY <1>1, <1>2, <1>5, <2>1, LeavesOk, Zenon DEF ws_handshake, Throw, Returned, Fixed
<1>6. CASE peer_closes
  BY <1>1, <1>2, <1>6, ReadsOn, Zenon DEF peer_closes, Fixed
<1>7. ASSUME NEW k \in 1..Len(wire), async_read_some(k)
      PROVE  ClientInv'
  <2>1. answer # NoAnswer
    BY <1>2, <1>7
  <2> QED
    BY <1>1, <1>7, <2>1, ReadsOn, Zenon DEF async_read_some, Fixed
<1>8. ASSUME NEW ec \in ClientReadErrors, async_read_fails(ec)
      PROVE  ClientInv'
  <2>1. ec # NoError
    BY DEF ClientReadErrors, NoError, Ec
  <2>2. async_read(ec, 0).v # "tls_verify_error"
    BY <2>1, ErrorsThrow DEF SetException
  <2>3. step \in Parsing \cup {"boundary"}
    BY <1>8, Zenon DEF async_read_fails, Starved, Parsing
  <2>4. step \notin {"call", "null"}
    BY <2>3, Zenon DEF Parsing
  <2> QED
    BY <1>1, <1>2, <1>8, <2>2, <2>4, LeavesOk, Zenon DEF async_read_fails, Throw, Fixed
<1>9. CASE read_body
  <2>1. step' \in Plain /\ step \in Waiting /\ answer # NoAnswer
    BY <1>2, <1>9, Zenon DEF read_body, Takes, Plain, Waiting, Parsing
  <2> QED
    BY <1>1, <1>9, <2>1, ReadsOn, Zenon DEF read_body, Takes, Fixed
<1>10. CASE find_multipart_boundary
  <2>1. answer # NoAnswer
    BY <1>10, Zenon DEF find_multipart_boundary, ClientInv, Phase
  <2>2. step' \in Plain /\ step \in Waiting
    BY <1>10, Zenon DEF find_multipart_boundary, Plain, Waiting
  <2> QED
    BY <1>1, <1>10, <2>1, <2>2, ReadsOn, Zenon DEF find_multipart_boundary, Fixed
<1>11. CASE part_header
  <2>1. step \in Waiting /\ answer # NoAnswer /\ tries # <<>>
    BY <1>2, <1>11, Zenon DEF part_header, Waiting, Parsing
  <2>2. CASE step' = "part_body" /\ UNCHANGED <<tries, answer, exception>>
    BY <1>1, <1>11, <2>1, <2>2, ReadsOn, Zenon DEF part_header, Plain, Fixed
  <2>3. CASE Throw("unexpected_error") /\ UNCHANGED tries
    BY <1>1, <1>11, <2>1, <2>3, LeavesOk, Zenon DEF part_header, Throw, Fixed
  <2> QED
    BY <1>11, <2>2, <2>3, Zenon DEF part_header
<1>12. ASSUME NEW throws \in BOOLEAN, part_body(throws)
       PROVE  ClientInv'
  <2>1. step \in Waiting /\ tries # <<>> /\ UNCHANGED <<rq, data, tls_client_context, nonce_count>>
    BY <1>2, <1>12, Zenon DEF part_body, Waiting, Parsing
  <2>2. answer # NoAnswer
    BY <1>12, Zenon DEF part_body, ClientInv, Phase
  <2>3. CASE Takes(plen, "boundary")
    BY <1>1, <2>1, <2>2, <2>3, ReadsOn, Zenon DEF Takes, Plain
  <2>4. CASE Throw("unexpected_error") /\ UNCHANGED tries
    BY <1>1, <2>1, <2>4, LeavesOk, Zenon DEF Throw
  <2> QED
    BY <1>12, <2>3, <2>4, Zenon DEF part_body
<1>13. CASE async_shutdown
  <2>1. Mine.write = "done"
    BY <1>13, Zenon DEF async_shutdown, ClientInv, Phase
  <2> QED
    BY <1>1, <1>2, <1>13, <2>1, LeavesOk, Zenon DEF async_shutdown, Returned, Fixed
<1> QED
  BY <1>3, <1>4, <1>5, <1>6, <1>7, <1>8, <1>9, <1>10, <1>11, <1>12, <1>13, Zenon

\* Every step of the call, of the network and of other fibers.
LEMMA ClientStep ==
  ASSUME ClientInv, [ClientNext]_client_vars
  PROVE  ClientInv'
<1>1. CASE http_easy_request \/ http_easy_request_multipart \/ make_websocket_connection
  BY <1>1, BeginsOk, Zenon DEF http_easy_request, http_easy_request_multipart, make_websocket_connection
<1>2. CASE answer_challenge
  <2>1. CASE step = "challenge_write" /\ Mine.write = "done" /\ Retries
    BY <2>1, RetriesOk, Zenon
  <2>2. CASE step = "challenge_write" /\ Mine.write = "failed" /\ Throw("system_error") /\ UNCHANGED tries
             /\ Fixed
    <3>1. tries # <<>> /\ nonce_count' \in Nat
      BY <2>2, Zenon DEF ClientInv, Phase, ClientTypeOK, Fixed
    <3> QED
      BY <2>2, <3>1, LeavesOk, Zenon DEF Throw, Fixed
  <2> QED
    BY <1>2, <2>1, <2>2, Zenon DEF answer_challenge
<1>3. ASSUME NEW i \in 1..MaxAttempts, NEW ok \in BOOLEAN, async_write(i, ok)
      PROVE  ClientInv'
  <2>1. i \in Nat
    <3>1. i \in 1..Len(tries)
      BY <1>3, Zenon DEF async_write
    <3>2. Len(tries) \in Nat
      BY DEF ClientInv, ClientTypeOK
    <3> QED
      BY <3>1, <3>2
  <2> QED
    BY <1>3, <2>1, WriteOk, Zenon
<1>4. CASE UNCHANGED client_vars
  <2>1. UNCHANGED <<rq, data, tls_client_context, step, tries, answer, wire, buffer, nonce_count, exception>>
    BY <1>4, Zenon DEF client_vars
  <2>2. /\ tls_client_context \in Configs \cup {NoConfig} /\ nonce_count \in Nat
        /\ answer = NoAnswer => wire = <<>> /\ buffer = <<>>
    BY Zenon DEF ClientInv, ClientTypeOK, Phase
  <2> QED
    BY <2>1, <2>2, ReadsOn, Zenon
<1>5. CASE Network
  BY <1>3, <1>5, ResolveOk, ConnectOk, HandshakeOk, AnswerOk, RestOk, Zenon DEF Network
<1> QED
  BY <1>1, <1>2, <1>4, <1>5, HeaderOk, AuthOk, FinishOk, RestOk, Zenon DEF ClientNext, ClientOver

\* The call has not begun.
LEMMA ClientInitially ==
  ASSUME ClientInit
  PROVE  ClientInv
<1>1. tries = <<>>
  BY Zenon DEF ClientInit
<1>2. ClientTypeOK
  <2>1. tries \in Seq(Attempts)
    BY <1>1
  <2> QED
    BY <2>1, Zenon DEF ClientInit, ClientTypeOK
<1>3. AttemptsOk /\ ChallengeAnswered
  <2>1. Len(tries) = 0
    BY <1>1, Zenon
  <2> QED
    BY <2>1, SMTT(120) DEF AttemptsOk, ChallengeAnswered
<1>4. Phase /\ Thrown
  BY Zenon DEF ClientInit, Phase, Thrown
<1> QED
  BY <1>2, <1>3, <1>4, Zenon DEF ClientInv

\* A step into a wait starts the timer or leaves it running.
LEMMA DeadlineStep ==
  ASSUME Deadlined, [ClientNext]_client_vars
  PROVE  Deadlined'
<1> USE DEF Deadlined, Waiting, Parsing
<1>1. ASSUME NEW kind, Begins(kind)
      PROVE  Deadlined'
  BY <1>1, Zenon DEF Begins, Connects
<1>2. ASSUME NEW cfg \in Configs, set_tls_client_context(cfg)
      PROVE  Deadlined'
  BY <1>2, Zenon DEF set_tls_client_context
<1>3. CASE async_resolve \/ resolve_fails
  BY <1>3, Zenon DEF async_resolve, resolve_fails, Throw, Leaves
<1>4. ASSUME NEW ec, async_connect(ec)
      PROVE  Deadlined'
  BY <1>4, Zenon DEF async_connect, Throw, Leaves, Goto, Connected
<1>5. ASSUME NEW cert, NEW ec, client_handshake(cert, ec)
      PROVE  Deadlined'
  <2>1. \/ \E x : Throw(x)
        \/ step = "handshake" /\ Connected([tries EXCEPT ![Len(tries)].cert = cert])
    BY <1>5, Zenon DEF client_handshake
  <2> QED
    BY <2>1, Zenon DEF Throw, Leaves, Goto, Connected
<1>6. ASSUME NEW ok \in BOOLEAN, ws_handshake(ok)
      PROVE  Deadlined'
  BY <1>6, Zenon DEF ws_handshake, Throw, Returned, Leaves
<1>7. ASSUME NEW i, NEW ok, async_write(i, ok)
      PROVE  Deadlined'
  BY <1>7, Zenon DEF async_write
<1>8. ASSUME NEW a, server_answers(a)
      PROVE  Deadlined'
  BY <1>8, Zenon DEF server_answers
<1>9. CASE peer_closes
  BY <1>9, Zenon DEF peer_closes
<1>10. ASSUME NEW k, async_read_some(k)
       PROVE  Deadlined'
  BY <1>10, Zenon DEF async_read_some
<1>11. ASSUME NEW ec, async_read_fails(ec)
       PROVE  Deadlined'
  BY <1>11, Zenon DEF async_read_fails, Throw, Leaves
<1>12. CASE handle_client_request_response
  BY <1>12, Zenon DEF handle_client_request_response, Takes, Throw, Leaves
<1>13. CASE read_body \/ handle_client_auth
  BY <1>13, Zenon DEF read_body, handle_client_auth, Takes
<1>14. CASE answer_challenge
  BY <1>14, Zenon DEF answer_challenge, Retries, Connects, Throw, Leaves
<1>15. CASE find_multipart_boundary \/ part_header
  BY <1>15, Zenon DEF find_multipart_boundary, part_header, Throw, Leaves
<1>16. ASSUME NEW throws \in BOOLEAN, part_body(throws)
       PROVE  Deadlined'
  BY <1>16, Zenon DEF part_body, Takes, Throw, Leaves
<1>17. CASE finish \/ async_shutdown
  BY <1>17, Zenon DEF finish, async_shutdown, Goto, Returned, Leaves
<1>18. CASE UNCHANGED client_vars
  BY <1>18, Zenon DEF client_vars
<1> QED
  BY <1>1, <1>2, <1>3, <1>4, <1>5, <1>6, <1>7, <1>8, <1>9, <1>10, <1>11, <1>12, <1>13, <1>14,
     <1>15, <1>16, <1>17, <1>18
  DEF ClientNext, Network, ClientOver, http_easy_request, http_easy_request_multipart,
      make_websocket_connection

-----------------------------------------------------------------------------
(* The theorems *)

\* The invariant holds in every state.
LEMMA ClientCorrect == ClientSpec => []ClientInv
  BY ClientInitially, ClientStep, PTL DEF ClientSpec

\* Over TLS a request leaves only to a peer that the context of the call, or
\* that of the service when the host was resolved, accepts for the host of
\* the URL, whatever certificates servers show, and tls_verify_error is
\* thrown only for a certificate that has been rejected.
THEOREM PeersVerified == ClientSpec => []PeerVerified
<1>1. ClientInv => PeerVerified
  <2> SUFFICES ASSUME ClientInv
               PROVE  PeerVerified
    BY Zenon
  <2>1. exception = "tls_verify_error" =>
          Mine.ctx.verify_peer /\ ~verify_result(Mine.ctx, rq.url.host, Mine.cert)
    BY Zenon DEF ClientInv, Thrown
  <2>2. ASSUME NEW i \in 1..Len(tries), is_ssl, tries[i].write # "none" \/ step = "ws_handshake"
        PROVE  /\ rq.tls_ctx # NoConfig => tries[i].ctx = rq.tls_ctx
               /\ tries[i].ctx.verify_peer =>
                    /\ tries[i].cert.issuer \in Roots(tries[i].ctx)
                    /\ tries[i].ctx.verify_hostname =>
                         \E h \in tries[i].cert.names : h.name = rq.url.host.name
    <3>1. Accepted(rq, tries[i])
      BY <2>2, Zenon DEF ClientInv, AttemptsOk, AttemptOk, is_ssl
    <3>2. IsHost(rq.url.host) /\ rq.url.host.name # ""
      <4>1. tries # <<>> /\ rq \in Calls
        BY <2>2 DEF ClientInv, ClientTypeOK
      <4> QED
        BY <4>1, ClientAssumption, Zenon DEF ClientInv, Phase
    <3>3. rq.tls_ctx # NoConfig => tries[i].ctx = rq.tls_ctx
      BY <3>1, Zenon DEF Accepted, ContextOk
    <3>4. tries[i].ctx.verify_peer => verify_result(tries[i].ctx, rq.url.host, tries[i].cert)
      BY <3>1, Zenon DEF Accepted
    <3>5. tries[i].ctx.verify_peer => tries[i].cert.issuer \in Roots(tries[i].ctx)
      BY <3>4, Zenon DEF verify_result
    <3>6. ASSUME tries[i].ctx.verify_peer, tries[i].ctx.verify_hostname
          PROVE  \E h \in tries[i].cert.names : h.name = rq.url.host.name
      BY <3>2, <3>4, <3>6, AcceptedHost, Zenon
    <3> QED
      BY <3>3, <3>5, <3>6, Zenon
  <2> QED
    BY <2>1, <2>2, Zenon DEF PeerVerified
<1> QED
  BY <1>1, ClientCorrect, PTL

\* The body reaches the server whole in both attempts, and no write is pending
\* when the call returns.
THEOREM BodySent == ClientSpec => []SameBody
<1>1. ClientInv => SameBody
  <2> SUFFICES ASSUME ClientInv, NEW i \in 1..Len(tries)
               PROVE  /\ tries[i].write = "done" => tries[i].sent = rq.body
                      /\ step = "returned" => tries[i].write # "pending"
    BY Zenon DEF SameBody
  <2>1. AttemptOk(rq, tries[i], i, Len(tries), step)
    BY Zenon DEF ClientInv, AttemptsOk
  <2>2. i < Len(tries) \/ (i = Len(tries) /\ tries[i] = Mine)
    BY DEF ClientInv, ClientTypeOK, Mine
  <2>3. step = "returned" => Mine.write # "pending"
    BY Zenon DEF ClientInv, Phase
  <2> QED
    BY <2>1, <2>2, <2>3, Zenon DEF AttemptOk
<1> QED
  BY <1>1, ClientCorrect, PTL

\* A challenge is answered once, by a second attempt whose header convinces
\* the server that has sent it, for any user, realm, nonce and target.
THEOREM ChallengesAnswered == ClientSpec => []ChallengeAnswered
<1>1. ClientInv => ChallengeAnswered
  BY Zenon DEF ClientInv
<1> QED
  BY <1>1, ClientCorrect, PTL

\* A fiber that waits for the peer is waiting under a timer.
THEOREM WaitsDeadlined == ClientSpec => []Deadlined
<1>1. ClientInit => Deadlined
  BY Zenon DEF ClientInit, Deadlined, Waiting, Parsing
<1> QED
  BY <1>1, DeadlineStep, PTL DEF ClientSpec

-----------------------------------------------------------------------------
(* Induction over the numbers *)

LessNat == {ss \in Nat \X Nat : ss[1] < ss[2]}

\* The numbers are well founded.
LEMMA LessWF == IsWellFoundedOn(LessNat, Nat)
<1>1. OpToRel(<, Nat) = LessNat
  BY Zenon DEF OpToRel, LessNat
<1> QED
  BY <1>1, NatLessThanWellFounded, Zenon

\* A property that the first number of 1..n has, and with each number its
\* successor, all numbers of 1..n have.
LEMMA Steps ==
  ASSUME NEW n \in Nat, NEW S, 1 \in S, \A i \in 1..(n - 1) : i \in S => i + 1 \in S
  PROVE  \A i \in 1..n : i \in S
<1> DEFINE M == {i \in 1..n : i \notin S}
<1> SUFFICES ASSUME M # {} PROVE FALSE
  BY Zenon
<1>1. M \in SUBSET Nat
  OBVIOUS
<1>2. PICK m \in M : \A y \in M : <<y, m>> \notin LessNat
  BY <1>1, WFMin, LessWF, Zenon
<1>3. m # 1 /\ m \in 1..n /\ m \notin S
  BY Zenon
<1>4. m - 1 \in 1..(n - 1) /\ <<m - 1, m>> \in LessNat
  BY <1>3 DEF LessNat
<1>5. m - 1 \notin M
  BY <1>2, <1>4, Zenon
<1>6. m - 1 \in S /\ (m - 1) + 1 = m
  BY <1>3, <1>4, <1>5
<1> QED
  BY <1>3, <1>4, <1>6, Zenon

-----------------------------------------------------------------------------
(* The text of a response *)

Last3 == <<T("gap"), T("bnd"), T("end")>>

\* A function with which the text from part i on is a part and what follows.
Follows(g, ps, m) ==
  g = [i \in m..(Len(ps) + 1) |-> IF i > Len(ps) THEN Last3 ELSE PartText(ps[i]) \o g[i + 1]]

\* There is such a function, by induction from the last part to the first.
LEMMA TextThere ==
  ASSUME NEW ps \in Seq(Part)
  PROVE  \E g : Follows(g, ps, 1)
<1>1. PICK n \in Nat : n = Len(ps)
  OBVIOUS
<1> DEFINE S == {k \in 1..(n + 1) : \E g : Follows(g, ps, (n + 2) - k)}
<1>2. 1 \in S
  <2>1. PICK g : g = [i \in (n + 1)..(n + 1) |-> Last3]
    BY Zenon
  <2>2. \A i \in (n + 1)..(n + 1) : i > n
    OBVIOUS
  <2>3. g = [i \in (n + 1)..(n + 1) |-> IF i > n THEN Last3 ELSE PartText(ps[i]) \o g[i + 1]]
    BY <2>1, <2>2, Zenon
  <2>4. Follows(g, ps, n + 1) /\ n + 1 = (n + 2) - 1
    BY <2>3, <1>1 DEF Follows
  <2> QED
    BY <2>4
<1>3. ASSUME NEW k \in 1..((n + 1) - 1), k \in S PROVE k + 1 \in S
  <2>1. PICK g : Follows(g, ps, (n + 2) - k)
    BY <1>3, Zenon
  <2>2. PICK j \in 1..n : j = (n + 1) - k /\ (n + 2) - k = j + 1 /\ (n + 2) - (k + 1) = j
    OBVIOUS
  <2>3. g = [i \in (j + 1)..(n + 1) |-> IF i > n THEN Last3 ELSE PartText(ps[i]) \o g[i + 1]]
    BY <2>1, <2>2, <1>1, Zenon DEF Follows
  <2>4. PICK h : h = [i \in j..(n + 1) |-> IF i = j THEN PartText(ps[j]) \o g[j + 1] ELSE g[i]]
    BY Zenon
  <2>5. ASSUME NEW i \in j..(n + 1)
        PROVE  h[i] = IF i > n THEN Last3 ELSE PartText(ps[i]) \o h[i + 1]
    <3>1. CASE i = j
      <4>0. j \in j..(n + 1) /\ j + 1 \in j..(n + 1) /\ j + 1 # j /\ ~ (j > n)
        OBVIOUS
      <4>1. h[i] = PartText(ps[j]) \o g[j + 1] /\ h[i + 1] = g[j + 1] /\ ~ (i > n)
        BY <3>1, <2>4, <4>0, Zenon
      <4> QED
        BY <3>1, <4>1, Zenon
    <3>2. CASE i # j
      <4>1. i \in (j + 1)..(n + 1)
        BY <3>2
      <4>2. h[i] = g[i] /\ (~ (i > n) => h[i + 1] = g[i + 1])
        BY <3>2, <2>4
      <4>3. g[i] = IF i > n THEN Last3 ELSE PartText(ps[i]) \o g[i + 1]
        BY <4>1, <2>3, Zenon
      <4> QED
        BY <4>2, <4>3, Zenon
    <3> QED
      BY <3>1, <3>2, Zenon
  <2>6. h = [i \in j..(n + 1) |-> IF i > n THEN Last3 ELSE PartText(ps[i]) \o h[i + 1]]
    BY <2>4, <2>5, Zenon
  <2>7. Follows(h, ps, (n + 2) - (k + 1))
    BY <2>2, <2>6, <1>1, Zenon DEF Follows
  <2>8. k + 1 \in 1..(n + 1)
    OBVIOUS
  <2> QED
    BY <2>7, <2>8, Zenon
<1>4. n + 1 \in Nat /\ n + 1 \in 1..(n + 1) /\ (n + 2) - (n + 1) = 1
  OBVIOUS
<1>5. n + 1 \in S
  BY <1>2, <1>3, <1>4, Steps, Zenon
<1> QED
  BY <1>4, <1>5, Zenon

\* TextFrom is such a function.
LEMMA TextFollows ==
  ASSUME NEW ps \in Seq(Part)
  PROVE  Follows(TextFrom(ps), ps, 1)
<1> DEFINE P(g) == g = [i \in 1..(Len(ps) + 1) |->
                          IF i > Len(ps) THEN <<T("gap"), T("bnd"), T("end")>> ELSE PartText(ps[i]) \o g[i + 1]]
<1>1. TextFrom(ps) = CHOOSE g : P(g)
  BY Zenon DEF TextFrom
<1>2. \A g : P(g) <=> Follows(g, ps, 1)
  BY Zenon DEF Follows, Last3
<1>3. \E g : P(g)
  BY <1>2, TextThere, Zenon
<1> HIDE DEF P
<1>4. P(TextFrom(ps))
  BY <1>1, <1>3, Zenon
<1> QED
  BY <1>2, <1>4, Zenon

\* Two texts in a row.
LEMMA Joined ==
  ASSUME NEW b \in Seq(Token), NEW c \in Seq(Token)
  PROVE  /\ b \o c \in Seq(Token) /\ Len(b \o c) = Len(b) + Len(c)
         /\ \A i \in 1..Len(b) : (b \o c)[i] = b[i]
         /\ \A i \in 1..Len(c) : (b \o c)[Len(b) + i] = c[i]
  OBVIOUS

\* The marks differ.
LEMMA TokensIs ==
  /\ T("gap") \in Token /\ T("bnd") \in Token /\ T("nl") \in Token /\ T("end") \in Token
  /\ T("head") \in Token /\ T("body") \in Token
  /\ T("gap") # T("bnd") /\ T("nl") # T("end") /\ T("nl") # T("bnd")
  BY Zenon DEF T, Token

\* A part begins with its boundary and its header, and its content follows.
LEMMA PartTextIs ==
  ASSUME NEW p \in Part
  PROVE  /\ PartText(p) \in Seq(Token) /\ Len(PartText(p)) = 4 + Len(p.content)
         /\ PartText(p)[1] = T("gap") /\ PartText(p)[2] = T("bnd") /\ PartText(p)[3] = T("nl")
         /\ PartText(p)[4].n = Len(p.content) /\ p.content \in Seq(Token)
         /\ \A i \in 1..Len(p.content) : PartText(p)[4 + i] = p.content[i]
<1>1. p.content \in Seq(Token) /\ p.sized \in BOOLEAN
  BY Zenon DEF Part
<1>2. PICK h : h = [k |-> IF p.sized THEN "hdr" ELSE "hdr_unsized", n |-> Len(p.content)]
  BY Zenon
<1>3. h \in Token /\ h.n = Len(p.content)
  <2>1. h.k \in {"hdr", "hdr_unsized"}
    BY <1>2, Zenon
  <2>2. h = [k |-> h.k, n |-> Len(p.content)]
    BY <1>2, Zenon
  <2>3. Len(p.content) \in Nat
    BY <1>1
  <2> QED
    BY <2>1, <2>2, <2>3 DEF Token
<1>4. PICK b : b = <<T("gap"), T("bnd"), T("nl"), h>>
  BY Zenon
<1>5. b \in Seq(Token) /\ Len(b) = 4 /\ b[1] = T("gap") /\ b[2] = T("bnd") /\ b[3] = T("nl") /\ b[4] = h
  BY <1>3, <1>4, TokensIs
<1>6. PartText(p) = b \o p.content
  BY <1>2, <1>4, Zenon DEF PartText
<1>7. PICK c : c = p.content
  BY Zenon
<1>8. c \in Seq(Token)
  BY <1>1, <1>7, Zenon
<1>9. /\ b \o c \in Seq(Token) /\ Len(b \o c) = 4 + Len(c)
      /\ (b \o c)[1] = b[1] /\ (b \o c)[2] = b[2] /\ (b \o c)[3] = b[3] /\ (b \o c)[4] = b[4]
      /\ \A i \in 1..Len(c) : (b \o c)[4 + i] = c[i]
  <2>1. /\ b \o c \in Seq(Token) /\ Len(b \o c) = Len(b) + Len(c)
        /\ \A i \in 1..Len(b) : (b \o c)[i] = b[i]
        /\ \A i \in 1..Len(c) : (b \o c)[Len(b) + i] = c[i]
    BY <1>5, <1>8, Joined, Zenon
  <2>2. 1 \in 1..4 /\ 2 \in 1..4 /\ 3 \in 1..4 /\ 4 \in 1..4
    OBVIOUS
  <2> QED
    BY <1>5, <2>1, <2>2, Zenon
<1>10. PartText(p) = b \o c
  BY <1>6, <1>7, Zenon
<1>11. b[4].n = Len(c)
  BY <1>3, <1>5, <1>7, Zenon
<1> QED
  BY <1>5, <1>7, <1>8, <1>9, <1>10, <1>11, Zenon

\* The text from part m + 1 on is that part and the text after it, or the end.
LEMMA FromIs ==
  ASSUME NEW ps \in Seq(Part), NEW m \in 1..(Len(ps) + 1)
  PROVE  /\ m = Len(ps) + 1 => TextFrom(ps)[m] = Last3
         /\ m # Len(ps) + 1 => /\ ps[m] \in Part /\ m + 1 \in 1..(Len(ps) + 1)
                               /\ TextFrom(ps)[m] = PartText(ps[m]) \o TextFrom(ps)[m + 1]
<1>1. PICK f : f = TextFrom(ps)
  BY Zenon
<1>2. f = [i \in 1..(Len(ps) + 1) |-> IF i > Len(ps) THEN Last3 ELSE PartText(ps[i]) \o f[i + 1]]
  BY <1>1, TextFollows, Zenon DEF Follows
<1>3. f[m] = IF m > Len(ps) THEN Last3 ELSE PartText(ps[m]) \o f[m + 1]
  BY <1>2, Zenon
<1>4. CASE m = Len(ps) + 1
  <2>1. m > Len(ps)
    BY <1>4
  <2> QED
    BY <1>1, <1>3, <1>4, <2>1, Zenon
<1>5. CASE m # Len(ps) + 1
  <2>1. ~ (m > Len(ps)) /\ ps[m] \in Part /\ m + 1 \in 1..(Len(ps) + 1)
    BY <1>5
  <2> QED
    BY <1>1, <1>3, <1>5, <2>1, Zenon
<1> QED
  BY <1>4, <1>5, Zenon

\* The end of the response.
LEMMA LastIs ==
  /\ Last3 \in Seq(Token) /\ Len(Last3) = 3
  /\ Last3[1] = T("gap") /\ Last3[2] = T("bnd") /\ Last3[3] = T("end")
  BY TokensIs DEF Last3

\* The text from any part on is a sequence of tokens.
LEMMA FromTokens ==
  ASSUME NEW ps \in Seq(Part), NEW m \in 1..(Len(ps) + 1)
  PROVE  TextFrom(ps)[m] \in Seq(Token)
<1>1. PICK n \in Nat : n = Len(ps)
  OBVIOUS
<1> DEFINE S == {k \in 1..(n + 1) : TextFrom(ps)[(n + 2) - k] \in Seq(Token)}
<1>2. 1 \in S
  <2>1. n + 1 \in 1..(Len(ps) + 1) /\ n + 1 = Len(ps) + 1 /\ (n + 2) - 1 = n + 1 /\ 1 \in 1..(n + 1)
    BY <1>1
  <2>2. TextFrom(ps)[n + 1] \in Seq(Token)
    BY <2>1, FromIs, LastIs, Zenon
  <2> QED
    BY <2>1, <2>2, Zenon
<1>3. ASSUME NEW k \in 1..((n + 1) - 1), k \in S PROVE k + 1 \in S
  <2>1. PICK j \in 1..n : (n + 2) - k = j + 1 /\ (n + 2) - (k + 1) = j
    <3>1. (n + 1) - k \in 1..n /\ (n + 2) - k = ((n + 1) - k) + 1 /\ (n + 2) - (k + 1) = (n + 1) - k
      OBVIOUS
    <3> QED
      BY <3>1, Zenon
  <2>2. TextFrom(ps)[j + 1] \in Seq(Token)
    BY <1>3, <2>1, Zenon
  <2>3. j \in 1..(Len(ps) + 1) /\ j # Len(ps) + 1
    BY <1>1
  <2>4. ps[j] \in Part /\ TextFrom(ps)[j] = PartText(ps[j]) \o TextFrom(ps)[j + 1]
    BY <2>3, FromIs, Zenon
  <2>5. TextFrom(ps)[j] \in Seq(Token)
    BY <2>2, <2>4, PartTextIs, Joined, ZenonT(120)
  <2>6. k + 1 \in 1..(n + 1)
    OBVIOUS
  <2> QED
    BY <2>1, <2>5, <2>6, Zenon
<1>4. n + 1 \in Nat /\ (n + 2) - m \in 1..(n + 1) /\ (n + 2) - ((n + 2) - m) = m
  BY <1>1
<1>5. (n + 2) - m \in S
  BY <1>2, <1>3, <1>4, Steps, Zenon
<1> QED
  BY <1>4, <1>5, Zenon

-----------------------------------------------------------------------------
(* What is in the buffer and on the wire *)

\* The buffer b, and after it the wire w, hold what follows in text after its
\* first off tokens; the end may be missing.
Ahead(b, w, text, off) ==
  /\ off + Len(b) + Len(w) <= Len(text)
  /\ \A i \in 1..Len(b) : b[i] = text[off + i]
  /\ \A i \in 1..Len(w) : w[i] = text[(off + Len(b)) + i]

\* A read moves tokens from the wire to the buffer.
LEMMA AheadRead ==
  ASSUME NEW b \in Seq(Token), NEW w \in Seq(Token), NEW text \in Seq(Token), NEW off \in Nat,
         Ahead(b, w, text, off), NEW k \in 1..Len(w)
  PROVE  /\ b \o SubSeq(w, 1, k) \in Seq(Token) /\ SubSeq(w, k + 1, Len(w)) \in Seq(Token)
         /\ Ahead(b \o SubSeq(w, 1, k), SubSeq(w, k + 1, Len(w)), text, off)
<1>1. PICK u : u = SubSeq(w, 1, k)
  BY Zenon
<1>2. PICK v : v = SubSeq(w, k + 1, Len(w))
  BY Zenon
<1>3. u \in Seq(Token) /\ Len(u) = k /\ \A i \in 1..k : u[i] = w[i]
  BY <1>1
<1>4. v \in Seq(Token) /\ Len(v) = Len(w) - k /\ \A i \in 1..(Len(w) - k) : v[i] = w[k + i]
  BY <1>2
<1>5. PICK c : c = b \o u
  BY Zenon
<1>6. c \in Seq(Token) /\ Len(c) = Len(b) + k
  BY <1>3, <1>5, Joined, Zenon
<1>7. off + Len(c) + Len(v) <= Len(text)
  BY <1>4, <1>6 DEF Ahead
<1>8. ASSUME NEW i \in 1..Len(c) PROVE c[i] = text[off + i]
  <2>1. CASE i <= Len(b)
    BY <2>1, <1>3, <1>5, <1>6 DEF Ahead
  <2>2. CASE ~ (i <= Len(b))
    <3>1. PICK j \in 1..k : i = Len(b) + j
      <4>1. i - Len(b) \in 1..k /\ i = Len(b) + (i - Len(b))
        BY <2>2, <1>6
      <4> QED
        BY <4>1, Zenon
    <3>2. c[i] = w[j]
      BY <3>1, <1>3, <1>5
    <3>3. w[j] = text[(off + Len(b)) + j] /\ (off + Len(b)) + j = off + i
      BY <3>1 DEF Ahead
    <3> QED
      BY <3>2, <3>3, Zenon
  <2> QED
    BY <2>1, <2>2, Zenon
<1>9. ASSUME NEW i \in 1..Len(v) PROVE v[i] = text[(off + Len(c)) + i]
  <2>1. v[i] = w[k + i] /\ k + i \in 1..Len(w)
    BY <1>4
  <2>2. w[k + i] = text[(off + Len(b)) + (k + i)]
    BY <2>1, Zenon DEF Ahead
  <2>3. (off + Len(b)) + (k + i) = (off + Len(c)) + i
    BY <1>6
  <2> QED
    BY <2>1, <2>2, <2>3, Zenon
<1> QED
  BY <1>1, <1>2, <1>4, <1>5, <1>6, <1>7, <1>8, <1>9, Zenon DEF Ahead

\* Taking tokens from the buffer moves on in the text.
LEMMA AheadTake ==
  ASSUME NEW b \in Seq(Token), NEW w \in Seq(Token), NEW text \in Seq(Token), NEW off \in Nat,
         Ahead(b, w, text, off), NEW n \in Nat, n <= Len(b)
  PROVE  /\ SubSeq(b, n + 1, Len(b)) \in Seq(Token)
         /\ Ahead(SubSeq(b, n + 1, Len(b)), w, text, off + n)
<1>1. PICK c : c = SubSeq(b, n + 1, Len(b))
  BY Zenon
<1>2. c \in Seq(Token) /\ Len(c) = Len(b) - n /\ \A i \in 1..(Len(b) - n) : c[i] = b[n + i]
  BY <1>1
<1>3. (off + n) + Len(c) + Len(w) <= Len(text)
  BY <1>2 DEF Ahead
<1>4. ASSUME NEW i \in 1..Len(c) PROVE c[i] = text[(off + n) + i]
  <2>1. c[i] = b[n + i] /\ n + i \in 1..Len(b)
    BY <1>2
  <2>2. b[n + i] = text[off + (n + i)] /\ off + (n + i) = (off + n) + i
    BY <2>1 DEF Ahead
  <2> QED
    BY <2>1, <2>2, Zenon
<1>5. ASSUME NEW i \in 1..Len(w) PROVE w[i] = text[((off + n) + Len(c)) + i]
  <2>1. w[i] = text[(off + Len(b)) + i] /\ ((off + n) + Len(c)) + i = (off + Len(b)) + i
    BY <1>2 DEF Ahead
  <2> QED
    BY <2>1, Zenon
<1> QED
  BY <1>1, <1>2, <1>3, <1>4, <1>5, Zenon DEF Ahead

\* What is left after p is ahead in q.
LEMMA AheadCut ==
  ASSUME NEW b \in Seq(Token), NEW w \in Seq(Token), NEW p \in Seq(Token), NEW q \in Seq(Token),
         NEW off \in Nat, off = Len(p), Ahead(b, w, p \o q, off)
  PROVE  Ahead(b, w, q, 0)
<1>1. PICK t : t = p \o q
  BY Zenon
<1>2. Len(t) = off + Len(q) /\ \A i \in 1..Len(q) : t[off + i] = q[i]
  BY <1>1
<1>3. /\ off + Len(b) + Len(w) <= Len(t)
      /\ \A i \in 1..Len(b) : b[i] = t[off + i]
      /\ \A i \in 1..Len(w) : w[i] = t[(off + Len(b)) + i]
  BY <1>1, Zenon DEF Ahead
<1>4. 0 + Len(b) + Len(w) <= Len(q)
  BY <1>2, <1>3
<1>5. ASSUME NEW i \in 1..Len(b) PROVE b[i] = q[0 + i]
  BY <1>2, <1>3, <1>4, SMTT(120)
<1>6. ASSUME NEW i \in 1..Len(w) PROVE w[i] = q[(0 + Len(b)) + i]
  <2>1. Len(b) + i \in 1..Len(q) /\ off + (Len(b) + i) = (off + Len(b)) + i /\ (0 + Len(b)) + i = Len(b) + i
    BY <1>4
  <2> QED
    BY <1>2, <1>3, <2>1, Zenon
<1> QED
  BY <1>4, <1>5, <1>6, Zenon DEF Ahead

\* What is lost on the wire leaves the buffer as it is.
LEMMA AheadLost ==
  ASSUME NEW b \in Seq(Token), NEW w \in Seq(Token), NEW text \in Seq(Token), NEW off \in Nat,
         Ahead(b, w, text, off)
  PROVE  Ahead(b, <<>>, text, off)
  BY DEF Ahead

-----------------------------------------------------------------------------
(* The invariant *)

\* What of the response is still to come, at the beginning of a part.
Rest == TextFrom(answer.parts)[Len(parts) + 1]

\* The parts of the response that f has been given ...
Given ==
  /\ Len(parts) <= Len(answer.parts)
  /\ \A i \in 1..Len(parts) : parts[i] = answer.parts[i].content

\* ... and where in its text the fiber is.
Place ==
  /\ step = "header" /\ answer # NoAnswer => Ahead(buffer, wire, Text(answer), 0)
  /\ step = "boundary" => Ahead(buffer, wire, Rest, 0)
  /\ step = "part_header" => Len(parts) < Len(answer.parts) /\ Ahead(buffer, wire, Rest, 3)
  /\ step = "part_body" =>
       /\ Len(parts) < Len(answer.parts) /\ Ahead(buffer, wire, Rest, 4)
       /\ plen = Len(answer.parts[Len(parts) + 1].content)

\* How many it will be given.
Whole ==
  /\ step \in {"challenge", "challenge_write"} => Challenged
  /\ step \in {"body", "boundary", "part_header", "part_body"} => ~Challenged
  /\ step = "body" => answer.parts = <<>>
  /\ step \in {"write_done", "shutdown", "returned"} /\ answer # NoAnswer =>
       /\ Challenged => Len(parts) = 0
       /\ ~Challenged => Len(parts) = Len(answer.parts)

PartsInv ==
  /\ wire \in Seq(Token) /\ buffer \in Seq(Token) /\ parts \in Seq(Seq(Token)) /\ plen \in Nat
  /\ step \in {"call", "resolve", "connect", "handshake", "ws_handshake"} => answer = NoAnswer
  /\ answer = NoAnswer \/ step \in {"header", "body", "challenge", "challenge_write"} => parts = <<>>
  /\ answer # NoAnswer => Given
  /\ Place
  /\ Whole

-----------------------------------------------------------------------------
(* The steps *)

\* What is assumed of a response.
LEMMA AnswerParts ==
  ASSUME NEW a \in Answers
  PROVE  a.parts \in Seq(Part) /\ (a.type = "plain" => a.parts = <<>>)
  BY ClientAssumption, Zenon

\* The text of a response, and what of it is left after m parts.
LEMMA TextIs ==
  ASSUME NEW a \in Answers
  PROVE  /\ Text(a) \in Seq(Token)
         /\ a.type # "plain" => Text(a) = <<T("head")>> \o TextFrom(a.parts)[1]
         /\ \A m \in Nat : m <= Len(a.parts) => TextFrom(a.parts)[m + 1] \in Seq(Token)
<1>1. PICK ps \in Seq(Part) : ps = a.parts
  BY AnswerParts, Zenon
<1>2. ASSUME NEW m \in Nat, m <= Len(ps) PROVE TextFrom(ps)[m + 1] \in Seq(Token)
  <2>1. m + 1 \in 1..(Len(ps) + 1)
    BY <1>2
  <2> QED
    BY <2>1, FromTokens, Zenon
<1>3. 1 \in 1..(Len(ps) + 1)
  OBVIOUS
<1>4. TextFrom(ps)[1] \in Seq(Token)
  BY <1>3, FromTokens, Zenon
<1>5. <<T("head")>> \in Seq(Token) /\ <<T("head"), T("body")>> \in Seq(Token)
  BY TokensIs
<1>6. <<T("head")>> \o TextFrom(ps)[1] \in Seq(Token)
  BY <1>4, <1>5, Joined, Zenon
<1> QED
  BY <1>1, <1>2, <1>5, <1>6, Zenon DEF Text

\* What is still to come is text.
LEMMA RestTyped ==
  ASSUME ClientInv, PartsInv, answer # NoAnswer
  PROVE  answer \in Answers /\ answer.parts \in Seq(Part) /\ Rest \in Seq(Token) /\ Text(answer) \in Seq(Token)
         /\ Len(parts) \in Nat /\ Len(answer.parts) \in Nat
<1>1. answer \in Answers
  BY Zenon DEF ClientInv, ClientTypeOK
<1>2. Len(parts) \in Nat /\ Len(parts) <= Len(answer.parts)
  BY DEF PartsInv, Given
<1>3. answer.parts \in Seq(Part)
  BY <1>1, AnswerParts, Zenon
<1>4. Len(answer.parts) \in Nat
  BY <1>3
<1> QED
  BY <1>1, <1>2, <1>3, <1>4, TextIs, Zenon DEF Rest

\* Whether the response is read as a challenge depends on the call, the
\* response and the credentials of the attempt.
LEMMA ChallengedSame ==
  ASSUME UNCHANGED <<rq, answer>>, Mine'.auth = Mine.auth
  PROVE  Challenged' <=> Challenged
  BY DEF Challenged, try_auth

\* A step that changes none of them does not change it.
LEMMA ChallengedStays ==
  ASSUME UNCHANGED <<rq, answer, tries>>
  PROVE  Challenged' <=> Challenged
<1>1. Mine'.auth = Mine.auth
  BY Zenon DEF Mine
<1> QED
  BY <1>1, ChallengedSame, Zenon

\* Before there is a response.
LEMMA PartsEarly ==
  ASSUME PartsInv, parts = <<>>, UNCHANGED parts, answer' = NoAnswer,
         step' \in {"call", "null", "resolve", "connect", "handshake", "ws_handshake", "header"},
         wire' \in Seq(Token), buffer' \in Seq(Token), plen' \in Nat
  PROVE  PartsInv'
<1>1. Place' /\ Whole'
  BY Zenon DEF Place, Whole
<1> QED
  BY <1>1, Zenon DEF PartsInv

\* The call ends.
LEMMA PartsEnd ==
  ASSUME PartsInv, NEW to \in {"returned", "thrown"}, NEW x, Leaves(to, x), UNCHANGED <<rq, parts>>,
         to = "returned" => step \in {"ws_handshake", "write_done", "shutdown"} /\ UNCHANGED tries
  PROVE  PartsInv'
<1>1. to = "returned" => (Challenged' <=> Challenged)
  BY ChallengedStays, Zenon DEF Leaves
<1>2. step' = to /\ answer' = answer /\ wire' = <<>> /\ buffer' = <<>> /\ plen' = 0
  BY Zenon DEF Leaves
<1>3. Place'
  BY <1>2, Zenon DEF Place
<1>4. Whole'
  <2>1. step' = "returned" /\ answer' # NoAnswer => step \in {"write_done", "shutdown"}
    BY <1>2, Zenon DEF PartsInv
  <2> QED
    BY <1>1, <1>2, <2>1, Zenon DEF PartsInv, Whole
<1>5. answer' # NoAnswer => Given'
  BY <1>2, Zenon DEF PartsInv, Given
<1>6. wire' \in Seq(Token) /\ buffer' \in Seq(Token) /\ plen' \in Nat /\ parts' \in Seq(Seq(Token))
  BY <1>2 DEF PartsInv
<1>7. answer' = NoAnswer => parts' = <<>>
  BY <1>2, Zenon DEF PartsInv
<1> QED
  BY <1>2, <1>3, <1>4, <1>5, <1>6, <1>7, Zenon DEF PartsInv

\* Nothing but the tokens move.
LEMMA PartsMove ==
  ASSUME ClientInv, PartsInv, UNCHANGED <<step, answer, parts, plen>>, Challenged' <=> Challenged,
         wire' \in Seq(Token), buffer' \in Seq(Token),
         \A text \in Seq(Token), off \in Nat :
           Ahead(buffer, wire, text, off) => Ahead(buffer', wire', text, off)
  PROVE  PartsInv'
<1>1. Given => Given'
  BY Zenon DEF Given
<1>2. Rest' = Rest
  BY Zenon DEF Rest
<1>3. Place'
  <2>1. CASE answer = NoAnswer
    <3>1. step \notin {"boundary", "part_header", "part_body"}
      BY <2>1, Zenon DEF ClientInv, Phase
    <3> QED
      BY <2>1, <3>1, Zenon DEF Place
  <2>2. CASE answer # NoAnswer
    <3>1. Rest \in Seq(Token) /\ Text(answer) \in Seq(Token)
      BY <2>2, RestTyped, Zenon
    <3>2. 0 \in Nat /\ 3 \in Nat /\ 4 \in Nat
      BY Zenon
    <3>3. Place
      BY Zenon DEF PartsInv
    <3> QED
      BY <1>2, <3>1, <3>2, <3>3, Zenon DEF Place
  <2> QED
    BY <2>1, <2>2, Zenon
<1>4. Whole'
  BY Zenon DEF PartsInv, Whole
<1>5. parts' \in Seq(Seq(Token)) /\ plen' \in Nat
  BY Zenon DEF PartsInv
<1>6. /\ step' \in {"call", "resolve", "connect", "handshake", "ws_handshake"} => answer' = NoAnswer
      /\ answer' = NoAnswer \/ step' \in {"header", "body", "challenge", "challenge_write"} => parts' = <<>>
      /\ answer' # NoAnswer => Given'
  BY <1>1, Zenon DEF PartsInv
<1> QED
  BY <1>3, <1>4, <1>5, <1>6, Zenon DEF PartsInv

\* The whole response is on the wire.
LEMMA AnswersOk ==
  ASSUME ClientInv, PartsInv, NEW a \in Answers, server_answers(a)
  PROVE  PartsInv'
<1>1. /\ step = "header" /\ step' = "header" /\ answer = NoAnswer /\ answer' = a /\ wire' = Text(a)
      /\ buffer' = buffer /\ parts' = parts /\ plen' = plen
  BY Zenon DEF server_answers, Fixed
<1>2. buffer = <<>> /\ parts = <<>>
  BY <1>1, Zenon DEF ClientInv, Phase, PartsInv
<1>3. a.parts \in Seq(Part) /\ Text(a) \in Seq(Token)
  BY AnswerParts, TextIs, Zenon
<1>4. PICK t \in Seq(Token) : t = Text(a)
  BY <1>3, Zenon
<1>5. Ahead(<<>>, t, t, 0)
  BY DEF Ahead
<1>6. Place'
  BY <1>1, <1>2, <1>4, <1>5, Zenon DEF Place
<1>7. Whole'
  BY <1>1, Zenon DEF Whole
<1>8. Given'
  <2>1. Len(a.parts) \in Nat
    BY <1>3
  <2> QED
    BY <1>1, <1>2, <2>1 DEF Given
<1>9. wire' \in Seq(Token) /\ buffer' \in Seq(Token) /\ plen' \in Nat /\ parts' \in Seq(Seq(Token))
  BY <1>1, <1>3, Zenon DEF PartsInv
<1> QED
  BY <1>1, <1>2, <1>6, <1>7, <1>8, <1>9, Zenon DEF PartsInv

\* The steps that take a header or a body and call nothing.
LEMMA PartsTake ==
  ASSUME PartsInv, UNCHANGED <<answer, parts>>, Challenged' <=> Challenged, parts = <<>>, answer # NoAnswer,
         wire' \in Seq(Token), buffer' \in Seq(Token), plen' \in Nat,
         \/ step' \in {"challenge", "challenge_write"} /\ Challenged
         \/ step' = "body" /\ ~Challenged /\ answer.parts = <<>>
         \/ step' = "boundary" /\ ~Challenged /\ Ahead(buffer', wire', Rest, 0)
         \/ step' = "write_done" /\ (Challenged \/ answer.parts = <<>>)
  PROVE  PartsInv'
<1>1. Given => Given'
  BY Zenon DEF Given
<1>2. Rest' = Rest
  BY Zenon DEF Rest
<1>3. Place'
  BY <1>2, Zenon DEF Place
<1>4. Whole'
  <2>1. Len(parts') = 0
    BY Zenon
  <2>2. answer.parts = <<>> => Len(answer.parts) = 0
    OBVIOUS
  <2> QED
    BY <2>1, <2>2, Zenon DEF Whole
<1> QED
  BY <1>1, <1>3, <1>4, Zenon DEF PartsInv

\* The header has been read.
LEMMA HeaderParts ==
  ASSUME ClientInv, PartsInv, handle_client_request_response
  PROVE  PartsInv'
<1>1. step = "header" /\ buffer # <<>> /\ UNCHANGED <<rq, parts>>
  BY Zenon DEF handle_client_request_response, Fixed
<1>2. answer # NoAnswer /\ parts = <<>> /\ buffer \in Seq(Token) /\ wire \in Seq(Token)
  BY <1>1, Zenon DEF ClientInv, Phase, PartsInv
<1>3. CASE Throw("unexpected_error") /\ UNCHANGED tries
  BY <1>1, <1>3, PartsEnd, Zenon DEF Throw
<1>4. ASSUME NEW to, Takes(1, to), \/ to = "challenge" /\ Challenged
                                   \/ to = "body" /\ ~Challenged /\ answer.type = "plain"
                                   \/ to = "boundary" /\ ~Challenged /\ answer.type # "plain"
      PROVE  PartsInv'
  <2>1. /\ UNCHANGED <<answer, tries>> /\ step' = to /\ wire' = wire /\ plen' = 0
        /\ buffer' = SubSeq(buffer, 1 + 1, Len(buffer))
    BY <1>4, Zenon DEF Takes
  <2>2. Challenged' <=> Challenged
    BY <1>1, <2>1, ChallengedStays, Zenon
  <2>3. answer \in Answers /\ answer.parts \in Seq(Part) /\ Rest \in Seq(Token) /\ Text(answer) \in Seq(Token)
    BY <1>2, RestTyped, Zenon
  <2>4. 1 \in Nat /\ 1 <= Len(buffer) /\ 0 \in Nat /\ 0 + 1 = 1 /\ Len(parts) + 1 = 1
    BY <1>1, <1>2
  <2>5. Ahead(buffer, wire, Text(answer), 0)
    BY <1>1, <1>2, Zenon DEF PartsInv, Place
  <2>6. buffer' \in Seq(Token) /\ Ahead(buffer', wire, Text(answer), 0 + 1)
    BY <1>2, <2>1, <2>3, <2>4, <2>5, AheadTake, Zenon
  <2>7. to = "boundary" => Ahead(buffer', wire', Rest, 0)
    <3>1. SUFFICES ASSUME to = "boundary" PROVE Ahead(buffer', wire, Rest, 0)
      BY <2>1, Zenon
    <3>2. answer.type # "plain"
      BY <1>4, <3>1, Zenon
    <3>3. Text(answer) = <<T("head")>> \o Rest
      BY <2>3, <2>4, <3>2, TextIs, Zenon DEF Rest
    <3>4. <<T("head")>> \in Seq(Token) /\ 1 = Len(<<T("head")>>)
      BY TokensIs
    <3>5. Ahead(buffer', wire, <<T("head")>> \o Rest, 1)
      BY <2>4, <2>6, <3>3, Zenon
    <3> QED
      BY <1>2, <2>3, <2>4, <2>6, <3>4, <3>5, AheadCut, Zenon
  <2>8. answer.type = "plain" => answer.parts = <<>>
    BY <2>3, AnswerParts, Zenon
  <2>9. wire' \in Seq(Token) /\ plen' \in Nat
    BY <1>2, <2>1, Zenon
  <2> QED
    BY <1>1, <1>2, <1>4, <2>1, <2>2, <2>6, <2>7, <2>8, <2>9, PartsTake, Zenon
<1> QED
  BY <1>3, <1>4, Zenon DEF handle_client_request_response

\* When the fiber has to read more.
LEMMA StarvedIs ==
  /\ step = "boundary" => (Starved <=> Lines("nl") = {} /\ Lines("end") = {})
  /\ step = "part_body" => (Starved <=> Len(buffer) < plen)
<1>1. ASSUME step = "boundary" PROVE Starved <=> Lines("nl") = {} /\ Lines("end") = {}
  BY <1>1, Zenon DEF Starved, Parsing
<1>2. ASSUME step = "part_body" PROVE Starved <=> Len(buffer) < plen
  BY <1>2, Zenon DEF Starved, Parsing
<1> QED
  BY <1>1, <1>2, Zenon

\* The first line that consists of the boundary is the one the text begins
\* with.
LEMMA FirstLine ==
  ASSUME NEW b \in Seq(Token), NEW w \in Seq(Token), NEW text \in Seq(Token), Ahead(b, w, text, 0),
         Len(text) >= 3, text[1] = T("gap"), text[2] = T("bnd"), NEW k,
         NEW i \in 1..(Len(b) - 1), b[i] = T("bnd"), b[i + 1] = T(k)
  PROVE  /\ i >= 2 /\ 2 \in 1..(Len(b) - 1) /\ b[2] = T("bnd") /\ b[3] = text[3]
<1>1. \A j \in 1..Len(b) : b[j] = text[0 + j]
  BY Zenon DEF Ahead
<1>2. \A j \in 1..Len(b) : b[j] = text[j]
  BY <1>1
<1>3. i # 1
  BY <1>2, TokensIs
<1>4. i >= 2 /\ 2 \in 1..(Len(b) - 1) /\ 2 \in 1..Len(b) /\ 3 \in 1..Len(b)
  BY <1>3
<1> QED
  BY <1>2, <1>4, Zenon

\* What is still to come begins with a boundary, that of a part or the last.
LEMMA RestIs ==
  ASSUME ClientInv, PartsInv, answer # NoAnswer
  PROVE  /\ Len(Rest) >= 3 /\ Rest[1] = T("gap") /\ Rest[2] = T("bnd")
         /\ Len(parts) = Len(answer.parts) => Len(Rest) = 3 /\ Rest[3] = T("end")
         /\ Len(parts) # Len(answer.parts) =>
              /\ Rest[3] = T("nl") /\ answer.parts[Len(parts) + 1] \in Part
              /\ Rest = PartText(answer.parts[Len(parts) + 1]) \o TextFrom(answer.parts)[(Len(parts) + 1) + 1]
              /\ TextFrom(answer.parts)[(Len(parts) + 1) + 1] \in Seq(Token)
<1>1. answer.parts \in Seq(Part) /\ Rest \in Seq(Token) /\ Len(parts) \in Nat /\ Len(answer.parts) \in Nat
  BY RestTyped, Zenon
<1>2. Len(parts) <= Len(answer.parts)
  BY Zenon DEF PartsInv, Given
<1>3. PICK m \in Nat : m = Len(parts) + 1
  BY <1>1
<1>4. m \in 1..(Len(answer.parts) + 1)
  BY <1>1, <1>2, <1>3
<1>5. CASE Len(parts) = Len(answer.parts)
  <2>1. m = Len(answer.parts) + 1
    BY <1>3, <1>5, Zenon
  <2>2. Rest = Last3
    <3>1. TextFrom(answer.parts)[m] = Last3
      BY <1>1, <1>4, <2>1, FromIs, Zenon
    <3> QED
      BY <1>3, <3>1, Zenon DEF Rest
  <2>3. Len(Last3) >= 3
    BY LastIs
  <2> QED
    BY <1>5, <2>2, <2>3, LastIs, Zenon
<1>6. CASE Len(parts) # Len(answer.parts)
  <2>1. m # Len(answer.parts) + 1
    BY <1>1, <1>3, <1>6
  <2>2. PICK p : p = answer.parts[m]
    BY Zenon
  <2>3. PICK q : q = TextFrom(answer.parts)[m + 1]
    BY Zenon
  <2>4. p \in Part /\ m + 1 \in 1..(Len(answer.parts) + 1) /\ Rest = PartText(p) \o q
    BY <1>1, <1>3, <1>4, <2>1, <2>2, <2>3, FromIs, Zenon DEF Rest
  <2>5. q \in Seq(Token)
    BY <1>1, <2>3, <2>4, FromTokens, Zenon
  <2>6. PICK b \in Seq(Token) : b = PartText(p)
    BY <2>4, PartTextIs, Zenon
  <2>7. b[1] = T("gap") /\ b[2] = T("bnd") /\ b[3] = T("nl") /\ Len(b) = 4 + Len(p.content) /\ p.content \in Seq(Token)
    BY <2>4, <2>6, PartTextIs, Zenon
  <2>8. 1 \in 1..Len(b) /\ 2 \in 1..Len(b) /\ 3 \in 1..Len(b) /\ Len(b) + Len(q) >= 3
    BY <2>5, <2>7
  <2>9. /\ Len(b \o q) = Len(b) + Len(q)
        /\ (b \o q)[1] = b[1] /\ (b \o q)[2] = b[2] /\ (b \o q)[3] = b[3]
    BY <2>5, <2>8, Joined, ZenonT(120)
  <2> QED
    BY <1>3, <1>6, <2>2, <2>3, <2>4, <2>5, <2>6, <2>7, <2>8, <2>9, Zenon
<1> QED
  BY <1>5, <1>6, Zenon

\* A line in the buffer is the one what is to come begins with.
LEMMA LineIs ==
  ASSUME ClientInv, PartsInv, step = "boundary", NEW k \in {"nl", "end"}, NEW i \in Lines(k)
  PROVE  /\ i >= 2 /\ i \in 1..(Len(buffer) - 1)
         /\ Len(parts) # Len(answer.parts) => 2 \in Lines("nl")
         /\ Len(parts) = Len(answer.parts) => k = "end"
<1>1. answer # NoAnswer /\ buffer \in Seq(Token) /\ wire \in Seq(Token) /\ Ahead(buffer, wire, Rest, 0)
  BY Zenon DEF ClientInv, Phase, PartsInv, Place
<1>2. /\ deduce_boundary(answer) = "bnd" /\ i \in 1..(Len(buffer) - 1)
      /\ buffer[i] = T("bnd") /\ buffer[i + 1] = T(k)
  BY Zenon DEF Lines
<1>3. Rest \in Seq(Token)
  BY <1>1, RestTyped, Zenon
<1>4. Len(Rest) >= 3 /\ Rest[1] = T("gap") /\ Rest[2] = T("bnd")
  BY <1>1, RestIs, Zenon
<1>5. i >= 2 /\ 2 \in 1..(Len(buffer) - 1) /\ buffer[2] = T("bnd") /\ buffer[3] = Rest[3]
  BY <1>1, <1>2, <1>3, <1>4, FirstLine, ZenonT(120)
<1>6. Len(parts) # Len(answer.parts) => 2 \in Lines("nl")
  <2>1. SUFFICES ASSUME Len(parts) # Len(answer.parts) PROVE 2 \in Lines("nl")
    BY Zenon
  <2>2. Rest[3] = T("nl")
    BY <1>1, <2>1, RestIs, Zenon
  <2>3. 2 + 1 = 3
    OBVIOUS
  <2> QED
    BY <1>2, <1>5, <2>2, <2>3, Zenon DEF Lines
<1>7. Len(parts) = Len(answer.parts) => k = "end"
  <2>1. SUFFICES ASSUME Len(parts) = Len(answer.parts) PROVE k = "end"
    BY Zenon
  <2>2. Rest[3] = T("end") /\ Len(Rest) = 3
    BY <1>1, <2>1, RestIs, Zenon
  <2>3. 0 + Len(buffer) + Len(wire) <= 3
    BY <1>1, <2>2, Zenon DEF Ahead
  <2>4. i = 2 /\ i + 1 = 3
    BY <1>1, <1>2, <1>5, <2>3, SMTT(120)
  <2>5. T(k) = T("end")
    BY <1>2, <1>5, <2>2, <2>4, Zenon
  <2> QED
    BY <2>5, TokensIs, Zenon
<1> QED
  BY <1>2, <1>5, <1>6, <1>7, Zenon

\* The boundary that is found is that of the next part, or the last one.
LEMMA BoundaryParts ==
  ASSUME ClientInv, PartsInv, find_multipart_boundary
  PROVE  PartsInv'
<1>1. step = "boundary" /\ ~Starved /\ UNCHANGED <<rq, tries, answer, wire, plen, parts>>
  BY Zenon DEF find_multipart_boundary, Fixed
<1>2. answer # NoAnswer /\ ~Challenged /\ Ahead(buffer, wire, Rest, 0) /\ Given
  BY <1>1, Zenon DEF ClientInv, Phase, PartsInv, Place, Whole
<1>3. Challenged' <=> Challenged
  BY <1>1, ChallengedStays, Zenon
<1>4. Rest' = Rest /\ Given'
  BY <1>1, <1>2, Zenon DEF Rest, Given
<1>5. /\ buffer \in Seq(Token) /\ wire \in Seq(Token) /\ parts \in Seq(Seq(Token)) /\ plen \in Nat
      /\ Rest \in Seq(Token) /\ Len(parts) \in Nat /\ Len(answer.parts) \in Nat /\ Len(parts) <= Len(answer.parts)
  BY <1>2, RestTyped, Zenon DEF PartsInv, Given
<1>6. CASE Lines("nl") # {}
  <2>1. PICK i : i \in Lines("nl")
    BY <1>6, Zenon
  <2>2. "nl" \in {"nl", "end"} /\ "nl" # "end"
    BY Zenon
  <2>3. Len(parts) # Len(answer.parts) /\ 2 \in Lines("nl")
    BY <1>1, <2>1, <2>2, LineIs, Zenon
  <2>4. \A j \in Lines("nl") : j >= 2 /\ j \in 1..(Len(buffer) - 1)
    BY <1>1, <2>2, LineIs, Zenon
  <2>5. PICK f : f = CHOOSE j \in Lines("nl") : \A l \in Lines("nl") : j <= l
    BY Zenon
  <2>6. \A l \in Lines("nl") : 2 <= l
    BY <2>4, Zenon
  <2>7. f \in Lines("nl") /\ \A l \in Lines("nl") : f <= l
    BY <2>3, <2>5, <2>6, Zenon
  <2>8. f = 2
    BY <2>3, <2>4, <2>7
  <2>9. buffer' = SubSeq(buffer, 3 + 1, Len(buffer)) /\ step' = "part_header"
    <3>1. buffer' = SubSeq(buffer, f + 2, Len(buffer)) /\ step' = "part_header"
      BY <1>6, <2>5, Zenon DEF find_multipart_boundary
    <3>2. f + 2 = 3 + 1
      BY <2>8
    <3> QED
      BY <3>1, <3>2, Zenon
  <2>10. 3 \in Nat /\ 3 <= Len(buffer) /\ 0 \in Nat /\ 0 + 3 = 3 /\ Len(parts) < Len(answer.parts)
    BY <1>5, <2>3, <2>4
  <2>11. buffer' \in Seq(Token) /\ Ahead(buffer', wire, Rest, 0 + 3)
    BY <1>2, <1>5, <2>9, <2>10, AheadTake, Zenon
  <2>12. Place'
    BY <1>1, <1>4, <2>9, <2>10, <2>11, Zenon DEF Place
  <2>13. Whole'
    BY <1>2, <1>3, <2>9, Zenon DEF Whole
  <2> QED
    BY <1>1, <1>2, <1>4, <1>5, <2>9, <2>11, <2>12, <2>13, Zenon DEF PartsInv
<1>7. CASE Lines("nl") = {}
  <2>1. step' = "write_done" /\ buffer' = buffer
    BY <1>7, Zenon DEF find_multipart_boundary
  <2>2. PICK i : i \in Lines("end")
    BY <1>1, <1>7, StarvedIs, Zenon
  <2>3. "end" \in {"nl", "end"}
    BY Zenon
  <2>4. Len(parts) = Len(answer.parts)
    BY <1>1, <1>7, <2>2, <2>3, LineIs, Zenon
  <2>5. Place'
    BY <2>1, Zenon DEF Place
  <2>6. Whole'
    BY <1>1, <1>2, <1>3, <2>1, <2>4, Zenon DEF Whole
  <2> QED
    BY <1>1, <1>2, <1>4, <1>5, <2>1, <2>5, <2>6, Zenon DEF PartsInv
<1> QED
  BY <1>6, <1>7, Zenon

\* The header and the content of the part that comes.
LEMMA NextPart ==
  ASSUME ClientInv, PartsInv, answer # NoAnswer, Len(parts) < Len(answer.parts)
  PROVE  LET p == answer.parts[Len(parts) + 1]
         IN  /\ p.content \in Seq(Token) /\ Len(p.content) \in Nat
             /\ Rest[4].n = Len(p.content) /\ Len(Rest) >= 4 + Len(p.content)
             /\ \A i \in 1..Len(p.content) : Rest[4 + i] = p.content[i]
<1>1. PICK p : p = answer.parts[Len(parts) + 1]
  BY Zenon
<1>2. PICK q : q = TextFrom(answer.parts)[(Len(parts) + 1) + 1]
  BY Zenon
<1>3. Len(parts) \in Nat /\ Len(answer.parts) \in Nat
  BY RestTyped, Zenon
<1>4. Len(parts) # Len(answer.parts)
  BY <1>3
<1>5. p \in Part /\ q \in Seq(Token) /\ Rest = PartText(p) \o q
  BY <1>1, <1>2, <1>4, RestIs, Zenon
<1>6. PICK b \in Seq(Token) : b = PartText(p)
  BY <1>5, PartTextIs, Zenon
<1>7. PICK c \in Seq(Token) : c = p.content
  BY <1>5, PartTextIs, Zenon
<1>8. Len(b) = 4 + Len(c) /\ b[4].n = Len(c) /\ \A i \in 1..Len(c) : b[4 + i] = c[i]
  BY <1>5, <1>6, <1>7, PartTextIs, Zenon
<1>9. /\ Len(b \o q) = Len(b) + Len(q) /\ \A i \in 1..Len(b) : (b \o q)[i] = b[i]
  BY <1>5, Joined, Zenon
<1>10. 4 \in 1..Len(b) /\ Len(b) + Len(q) >= 4 + Len(c) /\ Len(c) \in Nat
       /\ \A i \in 1..Len(c) : 4 + i \in 1..Len(b)
  BY <1>5, <1>8
<1> QED
  BY <1>1, <1>5, <1>6, <1>7, <1>8, <1>9, <1>10, Zenon

\* The first token and the rest.
LEMMA TailIs ==
  ASSUME NEW b \in Seq(Token), b # <<>>
  PROVE  1 <= Len(b) /\ 1 \in 1..Len(b) /\ Head(b) = b[1] /\ Tail(b) = SubSeq(b, 1 + 1, Len(b))
<1>1. 1 <= Len(b) /\ 1 \in 1..Len(b) /\ Head(b) = b[1]
  OBVIOUS
<1>2. Tail(b) = SubSeq(b, 1 + 1, Len(b))
  OBVIOUS
<1> QED
  BY <1>1, <1>2, Zenon

\* The header says how long the part is.
LEMMA PartHeaderParts ==
  ASSUME ClientInv, PartsInv, part_header
  PROVE  PartsInv'
<1>1. step = "part_header" /\ buffer # <<>> /\ UNCHANGED <<rq, tries, parts>>
  BY Zenon DEF part_header, Fixed
<1>2. answer # NoAnswer /\ ~Challenged /\ Len(parts) < Len(answer.parts) /\ Ahead(buffer, wire, Rest, 3) /\ Given
  BY <1>1, Zenon DEF ClientInv, Phase, PartsInv, Place, Whole
<1>3. CASE Throw("unexpected_error")
  BY <1>1, <1>3, PartsEnd, Zenon DEF Throw
<1>4. CASE ~Throw("unexpected_error")
  <2>1. plen' = Head(buffer).n /\ step' = "part_body" /\ buffer' = Tail(buffer) /\ UNCHANGED <<answer, wire>>
    BY <1>4, Zenon DEF part_header
  <2>2. Challenged' <=> Challenged
    BY <1>1, <2>1, ChallengedStays, Zenon
  <2>3. Rest' = Rest /\ Given'
    BY <1>1, <1>2, <2>1, Zenon DEF Rest, Given
  <2>4. /\ buffer \in Seq(Token) /\ wire \in Seq(Token) /\ parts \in Seq(Seq(Token)) /\ Rest \in Seq(Token)
    BY <1>2, RestTyped, Zenon DEF PartsInv
  <2>5. PICK p : p = answer.parts[Len(parts) + 1]
    BY Zenon
  <2>6. Rest[4].n = Len(p.content) /\ Len(p.content) \in Nat
    BY <1>2, <2>5, NextPart, Zenon
  <2>7. 1 <= Len(buffer) /\ 1 \in 1..Len(buffer) /\ Head(buffer) = buffer[1] /\ Tail(buffer) = SubSeq(buffer, 1 + 1, Len(buffer))
    BY <1>1, <2>4, TailIs, Zenon
  <2>8. buffer[1] = Rest[3 + 1]
    BY <1>2, <2>7, Zenon DEF Ahead
  <2>9. 1 \in Nat /\ 3 \in Nat /\ 3 + 1 = 4
    OBVIOUS
  <2>10. buffer' \in Seq(Token) /\ Ahead(buffer', wire, Rest, 3 + 1)
    <3>1. buffer' = SubSeq(buffer, 1 + 1, Len(buffer))
      BY <2>1, <2>7, Zenon
    <3>2. /\ SubSeq(buffer, 1 + 1, Len(buffer)) \in Seq(Token)
          /\ Ahead(SubSeq(buffer, 1 + 1, Len(buffer)), wire, Rest, 3 + 1)
      BY <1>2, <2>4, <2>7, <2>9, AheadTake, Zenon
    <3> QED
      BY <3>1, <3>2, Zenon
  <2>11. plen' = Len(p.content) /\ plen' \in Nat
    BY <2>1, <2>6, <2>7, <2>8, <2>9, Zenon
  <2>12. Ahead(buffer', wire', Rest', 4)
    BY <2>1, <2>3, <2>9, <2>10, Zenon
  <2>13. Place'
    BY <1>1, <1>2, <2>1, <2>5, <2>11, <2>12, Zenon DEF Place
  <2>14. Whole'
    BY <1>2, <2>1, <2>2, Zenon DEF Whole
  <2> QED
    BY <1>1, <1>2, <2>1, <2>3, <2>4, <2>10, <2>11, <2>13, <2>14, Zenon DEF PartsInv
<1> QED
  BY <1>3, <1>4, Zenon

\* A beginning that agrees with a text is that text.
LEMMA SameText ==
  ASSUME NEW b \in Seq(Token), NEW c \in Seq(Token), Len(c) <= Len(b), \A i \in 1..Len(c) : b[i] = c[i]
  PROVE  SubSeq(b, 1, Len(c)) = c
<1>1. PICK d : d = SubSeq(b, 1, Len(c))
  BY Zenon
<1>2. d \in Seq(Token) /\ Len(d) = Len(c) /\ \A i \in 1..Len(c) : d[i] = b[i]
  BY <1>1
<1> QED
  BY <1>1, <1>2

\* Another part has been given to f.
LEMMA GivenMore ==
  ASSUME NEW ps \in Seq(Part), NEW gs \in Seq(Seq(Token)), Len(gs) < Len(ps), NEW c \in Seq(Token),
         c = ps[Len(gs) + 1].content, \A i \in 1..Len(gs) : gs[i] = ps[i].content
  PROVE  /\ Append(gs, c) \in Seq(Seq(Token)) /\ Len(Append(gs, c)) = Len(gs) + 1 /\ Len(gs) + 1 <= Len(ps)
         /\ \A i \in 1..Len(Append(gs, c)) : Append(gs, c)[i] = ps[i].content
  OBVIOUS

\* f is called with the content of the part.
LEMMA PartBodyParts ==
  ASSUME ClientInv, PartsInv, NEW throws, part_body(throws)
  PROVE  PartsInv'
<1>1. step = "part_body" /\ ~Starved /\ UNCHANGED rq /\ parts' = Append(parts, SubSeq(buffer, 1, plen))
  BY Zenon DEF part_body
<1>2. PICK p : p = answer.parts[Len(parts) + 1]
  BY Zenon
<1>3. /\ answer # NoAnswer /\ ~Challenged /\ Len(parts) < Len(answer.parts) /\ Ahead(buffer, wire, Rest, 4) /\ Given
      /\ plen = Len(p.content)
  BY <1>1, <1>2, Zenon DEF ClientInv, Phase, PartsInv, Place, Whole
<1>4. /\ buffer \in Seq(Token) /\ wire \in Seq(Token) /\ parts \in Seq(Seq(Token)) /\ Rest \in Seq(Token) /\ plen \in Nat
      /\ answer.parts \in Seq(Part) /\ Len(parts) \in Nat /\ Len(answer.parts) \in Nat
  BY <1>3, RestTyped, Zenon DEF PartsInv
<1>5. PICK c \in Seq(Token) : c = p.content
  BY <1>2, <1>3, NextPart, Zenon
<1>6. \A i \in 1..Len(c) : Rest[4 + i] = c[i]
  BY <1>2, <1>3, <1>5, NextPart, Zenon
<1>7. plen = Len(c) /\ plen <= Len(buffer)
  <2>1. ~ (Len(buffer) < plen)
    BY <1>1, StarvedIs, Zenon
  <2> QED
    BY <1>3, <1>4, <1>5, <2>1
<1>8. \A i \in 1..Len(c) : i \in 1..Len(buffer)
  BY <1>4, <1>7
<1>9. \A i \in 1..Len(c) : buffer[i] = c[i]
  BY <1>3, <1>6, <1>8, Zenon DEF Ahead
<1>10. SubSeq(buffer, 1, plen) = c
  BY <1>4, <1>7, <1>9, SameText, Zenon
<1>11. parts' = Append(parts, c)
  BY <1>1, <1>10, Zenon
<1>12. \A i \in 1..Len(parts) : parts[i] = answer.parts[i].content
  BY <1>3, Zenon DEF Given
<1>13. /\ parts' \in Seq(Seq(Token)) /\ Len(parts') = Len(parts) + 1 /\ Len(parts) + 1 <= Len(answer.parts)
       /\ \A i \in 1..Len(parts') : parts'[i] = answer.parts[i].content
  BY <1>2, <1>3, <1>4, <1>5, <1>11, <1>12, GivenMore, Zenon
<1>14. answer' = answer => Given'
  BY <1>13, Zenon DEF Given
<1>15. CASE Takes(plen, "boundary")
  <2>1. /\ buffer' = SubSeq(buffer, plen + 1, Len(buffer)) /\ step' = "boundary" /\ plen' = 0
        /\ UNCHANGED <<tries, answer, wire>>
    BY <1>15, Zenon DEF Takes
  <2>2. Challenged' <=> Challenged
    BY <1>1, <2>1, ChallengedStays, Zenon
  <2>3. 4 \in Nat
    BY Zenon
  <2>4. buffer' \in Seq(Token) /\ Ahead(buffer', wire, Rest, 4 + plen)
    BY <1>3, <1>4, <1>7, <2>1, <2>3, AheadTake, Zenon
  <2>5. Len(parts) # Len(answer.parts)
    BY <1>3, <1>4
  <2>6. PICK q : q = TextFrom(answer.parts)[(Len(parts) + 1) + 1]
    BY Zenon
  <2>7. p \in Part /\ q \in Seq(Token) /\ Rest = PartText(p) \o q
    BY <1>2, <1>3, <2>5, <2>6, RestIs, Zenon
  <2>8. PartText(p) \in Seq(Token) /\ 4 + plen = Len(PartText(p))
    BY <1>3, <2>7, PartTextIs, Zenon
  <2>9. 4 + plen \in Nat
    BY <1>4
  <2>10. Ahead(buffer', wire, PartText(p) \o q, 4 + plen)
    BY <2>4, <2>7, Zenon
  <2>11. Ahead(buffer', wire, q, 0)
    BY <1>4, <2>4, <2>7, <2>8, <2>9, <2>10, AheadCut, Zenon
  <2>12. Rest' = q
    BY <1>13, <2>1, <2>6, Zenon DEF Rest
  <2>13. Place'
    BY <2>1, <2>11, <2>12, Zenon DEF Place
  <2>14. Whole'
    BY <1>3, <2>1, <2>2, Zenon DEF Whole
  <2> QED
    BY <1>3, <1>4, <1>13, <1>14, <2>1, <2>4, <2>13, <2>14, Zenon DEF PartsInv
<1>16. CASE Throw("unexpected_error")
  <2>1. step' = "thrown" /\ answer' = answer /\ wire' = <<>> /\ buffer' = <<>> /\ plen' = 0
    BY <1>16, Zenon DEF Throw, Leaves
  <2>2. Place' /\ Whole'
    BY <2>1, Zenon DEF Place, Whole
  <2> QED
    BY <1>3, <1>13, <1>14, <2>1, <2>2, SMTT(120) DEF PartsInv
<1> QED
  BY <1>15, <1>16, Zenon DEF part_body

\* The call begins, or begins again to answer a challenge.
LEMMA BeginsParts ==
  ASSUME PartsInv, NEW kind, Begins(kind)
  PROVE  PartsInv'
<1>1. step = "call" /\ UNCHANGED parts
  BY Zenon DEF Begins
<1>2. answer = NoAnswer /\ parts = <<>>
  BY <1>1, Zenon DEF PartsInv
<1>3. step' \in {"null", "resolve"} /\ answer' = NoAnswer
  BY <1>2, Zenon DEF Begins, Connects
<1>4. wire' \in Seq(Token) /\ buffer' \in Seq(Token) /\ plen' \in Nat
  <2>1. \/ wire' = wire /\ buffer' = buffer /\ plen' = plen
        \/ wire' = <<>> /\ buffer' = <<>> /\ plen' = 0
    BY Zenon DEF Begins, Connects
  <2>2. wire \in Seq(Token) /\ buffer \in Seq(Token) /\ plen \in Nat /\ <<>> \in Seq(Token) /\ 0 \in Nat
    BY DEF PartsInv
  <2> QED
    BY <2>1, <2>2, Zenon
<1> QED
  BY <1>1, <1>2, <1>3, <1>4, PartsEarly, Zenon

\* The same for the second attempt.
LEMMA RetriesParts ==
  ASSUME PartsInv, step = "challenge_write", Retries
  PROVE  PartsInv'
<1>1. parts = <<>> /\ UNCHANGED parts
  BY Zenon DEF PartsInv, Retries
<1>2. /\ step' = "resolve" /\ answer' = NoAnswer
      /\ wire' = <<>> /\ buffer' = <<>> /\ plen' = 0
  BY Zenon DEF Retries, Connects
<1>3. wire' \in Seq(Token) /\ buffer' \in Seq(Token) /\ plen' \in Nat
  BY <1>2
<1> QED
  BY <1>1, <1>2, <1>3, PartsEarly, Zenon

\* The connection is made.
LEMMA ConnectParts ==
  ASSUME PartsInv, step \in {"resolve", "connect", "handshake"}, UNCHANGED <<rq, parts>>,
         \/ \E x : Throw(x)
         \/ /\ step' \in {"connect", "handshake", "ws_handshake", "header"}
            /\ UNCHANGED <<answer, wire, buffer, plen>>
  PROVE  PartsInv'
<1>1. CASE \E x : Throw(x)
  BY <1>1, PartsEnd, Zenon DEF Throw
<1>2. CASE /\ step' \in {"connect", "handshake", "ws_handshake", "header"}
           /\ UNCHANGED <<answer, wire, buffer, plen>>
  <2>1. answer = NoAnswer /\ parts = <<>>
    BY Zenon DEF PartsInv
  <2>2. wire' \in Seq(Token) /\ buffer' \in Seq(Token) /\ plen' \in Nat
    BY <1>2, Zenon DEF PartsInv
  <2> QED
    BY <1>2, <2>1, <2>2, PartsEarly, Zenon
<1> QED
  BY <1>1, <1>2, Zenon

\* The steps of the network.
LEMMA NetworkParts ==
  ASSUME ClientInv, PartsInv, Network
  PROVE  PartsInv'
<1>1. CASE async_resolve
  BY <1>1, ConnectParts, Zenon DEF async_resolve, Fixed
<1>2. CASE resolve_fails
  <2>1. step = "resolve" /\ UNCHANGED <<rq, parts>> /\ Throw("system_error")
    BY <1>2, Zenon DEF resolve_fails, Fixed
  <2> QED
    BY <2>1, ConnectParts, Zenon
<1>3. ASSUME NEW ec, async_connect(ec)
      PROVE  PartsInv'
  <2>1. step = "connect" /\ UNCHANGED <<rq, parts>>
    BY <1>3, Zenon DEF async_connect, Fixed
  <2>2. (\E x : Throw(x)) \/ Goto("handshake") \/ Connected(tries)
    BY <1>3, Zenon DEF async_connect
  <2> QED
    BY <2>1, <2>2, ConnectParts, Zenon DEF Goto, Connected
<1>4. ASSUME NEW cert, NEW ec, client_handshake(cert, ec)
      PROVE  PartsInv'
  <2>1. step = "handshake" /\ UNCHANGED <<rq, parts>>
    BY <1>4, Zenon DEF client_handshake, Fixed
  <2>2. (\E x : Throw(x)) \/ Connected([tries EXCEPT ![Len(tries)].cert = cert])
    BY <1>4, Zenon DEF client_handshake
  <2> QED
    BY <2>1, <2>2, ConnectParts, Zenon DEF Goto, Connected
<1>5. ASSUME NEW ok \in BOOLEAN, ws_handshake(ok)
      PROVE  PartsInv'
  <2>1. step = "ws_handshake" /\ UNCHANGED <<rq, tries, parts>> /\ (Returned \/ Throw("system_error"))
    BY <1>5, Zenon DEF ws_handshake, Fixed
  <2> QED
    BY <2>1, PartsEnd, Zenon DEF Returned, Throw
<1>6. ASSUME NEW i, NEW ok \in BOOLEAN, async_write(i, ok)
      PROVE  PartsInv'
  <2>1. UNCHANGED <<rq, step, answer, wire, buffer, plen, parts>> /\ i \in 1..Len(tries)
    BY <1>6, Zenon DEF async_write, Fixed
  <2>2. i \in Nat
    <3>1. Len(tries) \in Nat
      BY DEF ClientInv, ClientTypeOK
    <3> QED
      BY <2>1, <3>1
  <2>3. Mine'.auth = Mine.auth
    BY <1>6, <2>2, WriteOk, Zenon
  <2>4. Challenged' <=> Challenged
    BY <2>1, <2>3, ChallengedSame, Zenon
  <2>5. wire' \in Seq(Token) /\ buffer' \in Seq(Token)
    BY <2>1, Zenon DEF PartsInv
  <2> QED
    BY <2>1, <2>4, <2>5, PartsMove, Zenon
<1>7. ASSUME NEW a \in Answers, server_answers(a)
      PROVE  PartsInv'
  BY <1>7, AnswersOk, Zenon
<1>8. ASSUME UNCHANGED <<rq, tries, step, answer, parts, plen>>, wire' \in Seq(Token), buffer' \in Seq(Token),
             \A text \in Seq(Token), off \in Nat :
               Ahead(buffer, wire, text, off) => Ahead(buffer', wire', text, off)
      PROVE  PartsInv'
  BY <1>8, ChallengedStays, PartsMove, Zenon
<1>9. CASE peer_closes
  <2>1. UNCHANGED <<rq, tries, step, answer, buffer, parts, plen>> /\ wire' = <<>>
    BY <1>9, Zenon DEF peer_closes, Fixed
  <2>2. buffer \in Seq(Token) /\ wire \in Seq(Token) /\ <<>> \in Seq(Token)
    BY DEF PartsInv
  <2>3. ASSUME NEW text \in Seq(Token), NEW off \in Nat, Ahead(buffer, wire, text, off)
        PROVE  Ahead(buffer, <<>>, text, off)
    BY <2>2, <2>3, AheadLost, Zenon
  <2> QED
    BY <1>8, <2>1, <2>2, <2>3, Zenon
<1>10. ASSUME NEW k \in 1..Len(wire), async_read_some(k)
       PROVE  PartsInv'
  <2>1. /\ UNCHANGED <<rq, tries, step, answer, parts, plen>>
        /\ buffer' = buffer \o SubSeq(wire, 1, k) /\ wire' = SubSeq(wire, k + 1, Len(wire))
    BY <1>10, Zenon DEF async_read_some, Fixed
  <2>2. buffer \in Seq(Token) /\ wire \in Seq(Token)
    BY Zenon DEF PartsInv
  <2>3. buffer' \in Seq(Token) /\ wire' \in Seq(Token)
    BY <2>1, <2>2, SMTT(120)
  <2>4. ASSUME NEW text \in Seq(Token), NEW off \in Nat, Ahead(buffer, wire, text, off)
        PROVE  Ahead(buffer', wire', text, off)
    BY <2>1, <2>2, <2>4, AheadRead, Zenon
  <2> QED
    BY <1>8, <2>1, <2>3, <2>4, Zenon
<1>11. ASSUME NEW ec, async_read_fails(ec)
       PROVE  PartsInv'
  <2>1. UNCHANGED <<rq, parts>> /\ \E x : Throw(x)
    BY <1>11, Zenon DEF async_read_fails, Fixed
  <2> QED
    BY <2>1, PartsEnd, Zenon DEF Throw
<1> QED
  BY <1>1, <1>2, <1>3, <1>4, <1>5, <1>6, <1>7, <1>9, <1>10, <1>11, Zenon DEF Network

\* A step that takes a body the callback is not called with.
LEMMA BodyParts ==
  ASSUME ClientInv, PartsInv, buffer # <<>>, UNCHANGED <<rq, parts>>, NEW to, Takes(1, to),
         \/ step = "body" /\ to = "write_done"
         \/ step = "challenge" /\ to \in {"challenge_write", "write_done"}
  PROVE  PartsInv'
<1>1. /\ UNCHANGED <<answer, tries>> /\ step' = to /\ wire' = wire /\ plen' = 0
      /\ buffer' = SubSeq(buffer, 1 + 1, Len(buffer))
  BY Zenon DEF Takes
<1>2. Challenged' <=> Challenged
  BY <1>1, ChallengedStays, Zenon
<1>3. answer # NoAnswer /\ parts = <<>> /\ buffer \in Seq(Token) /\ wire \in Seq(Token)
  BY Zenon DEF ClientInv, Phase, PartsInv
<1>4. buffer' \in Seq(Token)
  BY <1>1, <1>3
<1>5. wire' \in Seq(Token) /\ plen' \in Nat
  BY <1>1, <1>3, Zenon
<1>6. IF step = "challenge" THEN Challenged ELSE answer.parts = <<>>
  BY Zenon DEF PartsInv, Whole
<1> QED
  BY <1>1, <1>2, <1>3, <1>4, <1>5, <1>6, PartsTake, Zenon

\* The end of the call.
LEMMA FinishParts ==
  ASSUME ClientInv, PartsInv, finish \/ async_shutdown
  PROVE  PartsInv'
<1>1. step \in {"write_done", "shutdown"} /\ UNCHANGED <<rq, tries, parts>> /\ (Returned \/ Goto("shutdown"))
  BY Zenon DEF finish, async_shutdown, Fixed
<1>2. CASE Returned
  BY <1>1, <1>2, PartsEnd, Zenon DEF Returned
<1>3. CASE Goto("shutdown")
  <2>1. step' = "shutdown" /\ UNCHANGED <<answer, wire, buffer, plen>>
    BY <1>3, Zenon DEF Goto
  <2>2. Challenged' <=> Challenged
    BY <1>1, <2>1, ChallengedStays, Zenon
  <2>3. Given => Given'
    BY <1>1, <2>1, Zenon DEF Given
  <2>4. Place'
    BY <2>1, Zenon DEF Place
  <2>5. Whole'
    BY <1>1, <2>1, <2>2, Zenon DEF PartsInv, Whole
  <2> QED
    BY <1>1, <2>1, <2>3, <2>4, <2>5, Zenon DEF PartsInv
<1> QED
  BY <1>1, <1>2, <1>3, Zenon

\* Nothing the invariant is about changes.
LEMMA SameParts ==
  ASSUME PartsInv, UNCHANGED <<rq, tries, step, answer, wire, buffer, plen, parts>>
  PROVE  PartsInv'
<1>1. Challenged' <=> Challenged
  BY ChallengedStays, Zenon
<1>2. (Given => Given') /\ Place'
  BY Zenon DEF PartsInv, Given, Place, Rest
<1>3. Whole'
  BY <1>1, Zenon DEF PartsInv, Whole
<1> QED
  BY <1>2, <1>3, Zenon DEF PartsInv

\* Every step keeps the invariant.
LEMMA PartsStep ==
  ASSUME ClientInv, PartsInv, [ClientNext]_client_vars
  PROVE  PartsInv'
<1>1. ASSUME NEW kind, Begins(kind) PROVE PartsInv'
  BY <1>1, BeginsParts, Zenon
<1>2. ASSUME NEW cfg, set_tls_client_context(cfg) PROVE PartsInv'
  BY <1>2, SameParts, Zenon DEF set_tls_client_context
<1>3. CASE Network
  BY <1>3, NetworkParts, Zenon
<1>4. CASE handle_client_request_response
  BY <1>4, HeaderParts, Zenon
<1>5. CASE read_body
  BY <1>5, BodyParts, Zenon DEF read_body, Fixed
<1>6. CASE handle_client_auth
  BY <1>6, BodyParts, Zenon DEF handle_client_auth
<1>7. CASE answer_challenge
  <2>1. CASE Retries
    BY <1>7, <2>1, RetriesParts, Zenon DEF answer_challenge
  <2>2. CASE Throw("system_error") /\ Fixed
    BY <2>2, PartsEnd, Zenon DEF Throw, Fixed
  <2> QED
    BY <1>7, <2>1, <2>2, Zenon DEF answer_challenge
<1>8. CASE find_multipart_boundary
  BY <1>8, BoundaryParts, Zenon
<1>9. CASE part_header
  BY <1>9, PartHeaderParts, Zenon
<1>10. ASSUME NEW throws, part_body(throws) PROVE PartsInv'
  BY <1>10, PartBodyParts, Zenon
<1>11. CASE finish \/ async_shutdown
  BY <1>11, FinishParts, Zenon
<1>12. CASE UNCHANGED client_vars
  BY <1>12, SameParts, Zenon DEF client_vars
<1> QED
  BY <1>1, <1>2, <1>3, <1>4, <1>5, <1>6, <1>7, <1>8, <1>9, <1>10, <1>11, <1>12, Zenon
  DEF ClientNext, ClientOver, http_easy_request, http_easy_request_multipart, make_websocket_connection

\* f is called with the parts of a multipart response, each once, whole and in
\* their order, however many there are, however long they are, whatever they
\* contain and however the reads cut them, and the call returns only after the
\* last one.
THEOREM PartsOrdered == ClientSpec => []PartsInOrder
<1>1. ClientInit => PartsInv
  <2> SUFFICES ASSUME ClientInit PROVE PartsInv
    BY Zenon
  <2>1. step = "call" /\ answer = NoAnswer /\ wire = <<>> /\ buffer = <<>> /\ plen = 0 /\ parts = <<>>
    BY Zenon DEF ClientInit
  <2>2. Place /\ Whole
    BY <2>1, Zenon DEF Place, Whole
  <2> QED
    BY <2>1, <2>2 DEF PartsInv
<1>2. ClientInv /\ PartsInv /\ [ClientNext]_client_vars => PartsInv'
  BY PartsStep, Zenon
<1>3. PartsInv => PartsInOrder
  BY Zenon DEF PartsInv, Given, Whole, PartsInOrder
<1> QED
  BY <1>1, <1>2, <1>3, ClientCorrect, PTL DEF ClientSpec

=============================================================================
