-------------------------------- MODULE Tls --------------------------------
(***************************************************************************)
(* tls::client_context and what it makes of the handshake with a server:   *)
(* which configurations are accepted, whom a connection is willing to talk *)
(* to and which exception a failed handshake becomes.  A file or a PEM     *)
(* text is the name of what is in it, "" if it is not given and "bad" if   *)
(* it cannot be loaded.  OpenSSL is external.                              *)
(***************************************************************************)
EXTENDS Naturals

set_versions(cfg) == cfg.min_version <= cfg.max_version

set_ciphers(cfg) == cfg.cipher_list # "bad" /\ cfg.ciphersuites # "bad"

\* The certificate and its key, which belong together if they have one name.
load_identity(cfg) == cfg.cert # "bad" /\ cfg.key # "bad" /\ cfg.cert = cfg.key

\* Does make_client_context(cfg) return a context?  It throws
\* invalid_input_error otherwise.
client_context(cfg) ==
  /\ set_versions(cfg) /\ set_ciphers(cfg)
  /\ cfg.verify_peer => cfg.ca # "bad"
  /\ (cfg.cert # "") <=> (cfg.key # "")
  /\ cfg.cert # "" => load_identity(cfg)

\* The CAs it loads, which it does only to verify a peer.
Roots(cfg) ==
  IF cfg.verify_peer
  THEN (IF cfg.use_system_ca THEN {"public"} ELSE {}) \cup ({cfg.ca} \ {""})
  ELSE {}

default_client_config ==
  [min_version |-> 2, max_version |-> 3, cipher_list |-> "", ciphersuites |-> "",
   verify_peer |-> TRUE, verify_hostname |-> TRUE, use_system_ca |-> TRUE, ca |-> "",
   cert |-> "", key |-> ""]

\* The host of a URL: a name, perhaps with a dot at its end, or an address, in
\* brackets for IPv6.
Host(name, is_ip, bracket, dot) == [name |-> name, is_ip |-> is_ip, bracket |-> bracket, dot |-> dot]
IsHost(h) == h = Host(h.name, h.is_ip, h.bracket, h.dot)
NoHost == Host("", FALSE, FALSE, FALSE)
Bare(host) == [host EXCEPT !.bracket = FALSE, !.dot = FALSE]

\* boost::asio::ip::make_address()
make_address(host) == host.is_ip /\ ~host.bracket /\ ~host.dot

\* Mutant of prepare_client: addresses are not checked.
prepare_client_names(cfg, host) ==
  LET h == Bare(host)
  IN  [sni |-> IF make_address(h) THEN NoHost ELSE h,
       check |-> IF cfg.verify_peer /\ cfg.verify_hostname /\ ~make_address(h) THEN h ELSE NoHost]

\* The name for SNI and the one the certificate must have.
prepare_client(cfg, host) ==
  LET h == Bare(host)
  IN  [sni |-> IF make_address(h) THEN NoHost ELSE h,
       check |-> IF cfg.verify_peer /\ cfg.verify_hostname THEN h ELSE NoHost]

\* X509_V_OK: OpenSSL judges the certificate even if nobody asked it to.
verify_result(cfg, host, cert) ==
  /\ cert.issuer \in Roots(cfg)
  /\ prepare_client(cfg, host).check \in cert.names \cup {NoHost}

\* x: what the handshake has thrown.
rethrow_client_handshake_error(x, cfg, vr) ==
  IF x # "tls_error" THEN x
  ELSE IF cfg.verify_peer /\ ~vr THEN "tls_verify_error" ELSE "tls_handshake_error"

=============================================================================
