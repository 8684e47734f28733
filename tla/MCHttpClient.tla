---------------------------- MODULE MCHttpClient ---------------------------
(* A small instance of HttpClient for TLC. *)
EXTENDS HttpClient

OwnCa ==
  [default_client_config EXCEPT !.use_system_ca = FALSE, !.ca = "own", !.cert = "me", !.key = "me"]
Lax == [default_client_config EXCEPT !.verify_peer = FALSE, !.ca = "bad"]
NoKey == [default_client_config EXCEPT !.cert = "me"]

\* The contexts the service is given; a call may bring one of its own.
MCConfigs == {OwnCa, NoKey}

Dns == Host("h", FALSE, FALSE, FALSE)
DnsDot == Host("h", FALSE, FALSE, TRUE)
Ip6 == Host("i", TRUE, TRUE, FALSE)

MCCerts ==
  {[issuer |-> "public", names |-> {Bare(Dns)}], [issuer |-> "public", names |-> {}],
   [issuer |-> "own", names |-> {Bare(Ip6)}], [issuer |-> "own", names |-> {Bare(Dns)}]}

Url(scheme, host, user, target) ==
  [scheme |-> scheme, host |-> host, user |-> user, password |-> user, target |-> target,
   parses |-> scheme # ""]

ClientCall(kind, url, tls_ctx, rvalue) ==
  [kind |-> kind, url |-> url, tls_ctx |-> tls_ctx, rvalue |-> rvalue, method |-> "POST", body |-> "data"]

MCCalls ==
  {ClientCall("easy", Url("http", Dns, "", "/p"), NoConfig, FALSE),
   ClientCall("multipart", Url("http", Dns, "u", "/p"), NoConfig, TRUE),
   ClientCall("multipart", Url("https", DnsDot, "u", "/p"), NoConfig, FALSE),
   ClientCall("easy", Url("https", Ip6, "u", ""), OwnCa, TRUE),
   ClientCall("websocket", Url("ws", Dns, "", "/p"), NoConfig, FALSE),
   ClientCall("websocket", Url("wss", Dns, "", "/p"), Lax, FALSE),
   ClientCall("easy", Url("http", NoHost, "", "/p"), NoConfig, FALSE),
   ClientCall("easy", Url("", Dns, "", "/p"), NoConfig, FALSE)}

NoChallenge == Challenge("", "", "", "", "")

Answer(status, challenge, type, quoted, trailing, ps) ==
  [status |-> status, challenge |-> challenge, type |-> type, quoted |-> quoted,
   trailing |-> trailing, parts |-> ps]

\* The second part contains what looks like a boundary.
TwoParts == <<[sized |-> TRUE, content |-> <<T("dat")>>],
              [sized |-> TRUE, content |-> <<T("bnd"), T("nl")>>]>>
Unsized == <<[sized |-> FALSE, content |-> <<T("dat")>>]>>

MCAnswers ==
  {Answer(200, NoChallenge, "plain", FALSE, FALSE, <<>>),
   Answer(401, NoChallenge, "plain", FALSE, FALSE, <<>>),
   Answer(401, Challenge("n1", "r", "auth", "", ""), "plain", FALSE, FALSE, <<>>),
   Answer(401, Challenge("n2", "r", "", "", "no"), "plain", FALSE, FALSE, <<>>),
   Answer(401, Challenge("n3", "r", "auth-int", "md5-sess", "no"), "plain", FALSE, FALSE, <<>>),
   Answer(200, NoChallenge, "mixed", TRUE, FALSE, TwoParts),
   Answer(200, NoChallenge, "mixed", TRUE, TRUE, TwoParts),
   Answer(200, NoChallenge, "x-mixed-replace", FALSE, TRUE, Unsized),
   Answer(200, NoChallenge, "form-data", FALSE, FALSE, Unsized)}

=============================================================================
