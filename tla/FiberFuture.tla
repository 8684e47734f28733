---------------------------- MODULE FiberFuture ----------------------------
(***************************************************************************)
(* use_fiber_future: how the completion of an Asio operation settles the   *)
(* promise a fiber waits for, and which exception an error code becomes.   *)
(***************************************************************************)
EXTENDS Naturals, Sequences

\* An error code is its category and its name; "ok" is no error.
Ec(category, name) == [category |-> category, name |-> name]
NoError == Ec("system", "ok")

TimeoutCodes == {"timed_out", "operation_aborted", "beast_timeout"}
OverflowCodes == {"header_limit", "body_limit", "buffer_overflow", "message_too_big"}
ClosedCodes == {"end_of_stream", "stream_truncated", "connection_reset", "ws_closed", "eof"}

\* The exception type; the order matters, since stream_truncated belongs to
\* a TLS category.
asyik_set_error(ec) ==
  CASE ec.name \in TimeoutCodes -> "network_timeout_error"
    [] ec.name \in OverflowCodes -> "overflow_error"
    [] ec.name \in ClosedCodes -> "already_closed_error"
    [] ec.name \notin TimeoutCodes \cup OverflowCodes \cup ClosedCodes ->
         IF ec.category \in {"ssl", "ssl_stream"} THEN "tls_error" ELSE "system_error"

SetValue(v) == [set |-> "value", v |-> v]
SetException(x) == [set |-> "exception", v |-> x]

\* No argument is void, one is itself, several are a tuple.
fiber_promise_handler_n(args) ==
  SetValue(CASE Len(args) = 0 -> "void" [] Len(args) = 1 -> args[1] [] OTHER -> args)

fiber_promise_handler_ec_n(ec, args) ==
  IF ec # NoError THEN SetException(asyik_set_error(ec)) ELSE fiber_promise_handler_n(args)

fiber_promise_handler_ex_n(ex, args) ==
  IF ex # "null" THEN SetException(ex) ELSE fiber_promise_handler_n(args)

\* Chosen by the type of the first argument of the completion signature.
fiber_promise_handler_selector(first, args) ==
  CASE first = "error_code" -> fiber_promise_handler_ec_n(Head(args), Tail(args))
    [] first = "exception_ptr" -> fiber_promise_handler_ex_n(Head(args), Tail(args))
    [] OTHER -> fiber_promise_handler_n(args)

\* use_fiber_future(f): the promise gets r, what f has returned or thrown.
fiber_promise_invoke_and_set(r) == IF r.threw THEN SetException(r.v) ELSE SetValue(r.v)

\* The wrappers of asio_internal.hpp for void(error_code, size_t) and for
\* void(error_code): what .get() returns or throws.
async_read(ec, n) == fiber_promise_handler_selector("error_code", <<ec, n>>)
async_handshake(ec) == fiber_promise_handler_selector("error_code", <<ec>>)

\* dispatch(executor, use_fiber_future(read)).get().get(): a future in a future.
dispatched_read(ec, n) ==
  fiber_promise_invoke_and_set([threw |-> FALSE, v |-> async_read(ec, n)]).v

=============================================================================
