---------------------------- MODULE MCHttpServer ---------------------------
(* Small instances of HttpServer for TLC. *)
EXTENDS HttpServer, TLC

CONSTANTS c1, c2, b1, b2

MCConns == {c1, c2}
MCBlocks == {b1, b2}

=============================================================================
