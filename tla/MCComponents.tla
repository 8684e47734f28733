---------------------------- MODULE MCComponents ---------------------------
(* The components that share no state with each other, for TLC: each       *)
(* behaviour is one of the rate limiter, of an SQL session, of an HTTP     *)
(* client call, of a route table or of the static file handler, while the  *)
(* others rest.                                                            *)
EXTENDS MCRateLimit, MCSqlSession, MCHttpClient, MCRouteTable, MCStaticFiles

VARIABLE part

Parts == {"limiter", "session", "client", "routes", "files"}

Others(p) ==
  /\ p # "limiter" => UNCHANGED vars
  /\ p # "session" => UNCHANGED session_vars
  /\ p # "client" => UNCHANGED client_vars
  /\ p # "routes" => UNCHANGED route_vars
  /\ p # "files" => UNCHANGED static_vars

\* One initial state is enough for a component that rests.
ComponentsInit ==
  /\ part \in Parts
  /\ Init /\ SessionInit /\ ClientInit /\ RoutesInit /\ StaticInit
  /\ part # "limiter" => <<max_bucket, rate>> = CHOOSE b \in Buckets : TRUE
  /\ part # "client" => rq = CHOOSE k \in Calls : TRUE

ComponentsNext ==
  /\ UNCHANGED part
  /\ \/ part = "limiter" /\ Next
     \/ part = "session" /\ SessionNext
     \/ part = "client" /\ ClientNext
     \/ part = "routes" /\ RoutesNext
     \/ part = "files" /\ StaticNext
  /\ Others(part)

ComponentsSpec ==
  ComponentsInit
    /\ [][ComponentsNext]_<<part, vars, session_vars, client_vars, route_vars, static_vars>>

=============================================================================
