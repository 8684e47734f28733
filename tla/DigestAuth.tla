----------------------------- MODULE DigestAuth ----------------------------
(***************************************************************************)
(* digest_authenticator: the Authorization header that answers a digest    *)
(* challenge.  A hash is the record of what it is computed from; "" and 0  *)
(* stand for what does not enter it, or is not in the header.              *)
(***************************************************************************)
EXTENDS Naturals

\* body: the body of the 401 response; alg: the algorithm it asks for.
Challenge(nonce, realm, qop, alg, body) ==
  [nonce |-> nonce, realm |-> realm, qop |-> qop, alg |-> alg, body |-> body]

findQop(ch) ==
  IF ch.qop = "" THEN ""
  ELSE IF ch.qop = "auth-int" /\ ch.body # "" THEN "auth-int" ELSE "auth"

calculateHA1(user, realm, password, alg, nonce, cnonce) ==
  LET sess == alg = "md5-sess"
  IN  [user |-> user, realm |-> realm, password |-> password,
       nonce |-> IF sess THEN nonce ELSE "", cnonce |-> IF sess THEN cnonce ELSE ""]

calculateHA2(method, uri, qop, body) ==
  [method |-> method, uri |-> uri, body |-> IF qop = "auth-int" THEN body ELSE ""]

calculateResponse(ha1, nonce, nc, cnonce, qop, ha2) ==
  [ha1 |-> ha1, nonce |-> nonce, ha2 |-> ha2, qop |-> qop,
   nc |-> IF qop = "" THEN 0 ELSE nc, cnonce |-> IF qop = "" THEN "" ELSE cnonce]

\* Mutant of authorization: nc and cnonce are announced in any case.
authorization_announcing(ch, user, password, uri, method, nc, cnonce) ==
  LET qop == findQop(ch)
  IN  [username |-> user, realm |-> ch.realm, nonce |-> ch.nonce, uri |-> uri, qop |-> "auth",
       nc |-> nc, cnonce |-> cnonce,
       response |-> calculateResponse(
         calculateHA1(user, ch.realm, password, ch.alg, ch.nonce, cnonce),
         ch.nonce, nc, cnonce, qop, calculateHA2(method, uri, qop, ch.body))]

authorization(ch, user, password, uri, method, nc, cnonce) ==
  LET qop == findQop(ch)
  IN  [username |-> user, realm |-> ch.realm, nonce |-> ch.nonce, uri |-> uri, qop |-> qop,
       nc |-> IF qop = "" THEN 0 ELSE nc, cnonce |-> IF qop = "" THEN "" ELSE cnonce,
       response |-> calculateResponse(
         calculateHA1(user, ch.realm, password, ch.alg, ch.nonce, cnonce),
         ch.nonce, nc, cnonce, qop, calculateHA2(method, uri, qop, ch.body))]

\* The headers with texts of S.
Authorizations(S) ==
  [username : S, realm : S, nonce : S, uri : S, qop : S, nc : Nat, cnonce : S,
   response : [ha1 : [user : S, realm : S, password : S, nonce : S, cnonce : S],
               nonce : S, ha2 : [method : S, uri : S, body : S], qop : S, nc : Nat, cnonce : S]]

\* Both are required.
generateAuthorization(ch) == ch.nonce # "" /\ ch.realm # ""

\* What the server computes: from its own challenge, from the fields the
\* header announces and from the request itself.
ServerAccepts(ch, a, password, method, target) ==
  /\ a.nonce = ch.nonce /\ a.realm = ch.realm /\ a.uri = target
  /\ a.response = calculateResponse(
       calculateHA1(a.username, a.realm, password, ch.alg, a.nonce, a.cnonce),
       a.nonce, a.nc, a.cnonce, a.qop, calculateHA2(method, target, a.qop, ""))

=============================================================================
