---------------------------- MODULE MCRouteTable ---------------------------
(* A small instance of RouteTable for TLC. *)
EXTENDS RouteTable

MCSpecs ==
  {<<"/">>, <<"/", "a">>, <<"/", "a", "/">>, <<"/", "a", "/", "<int>">>, <<"/", "a", "/", "<path>">>,
   <<"/", "<string>">>}
MCPrefixes == {<<"/", "a">>}
MCMethods == {"", "get"}
MCTargets ==
  {<<"/">>, <<"/", "/">>, <<"/", "?", "a">>, <<"/", "a">>, <<"/", "a", "/">>, <<"/", "a", "?", "1">>,
   <<"/", "a", "/", "?", "1", "/">>, <<"/", "a", "/", "1">>, <<"/", "a", "/", "1", "/">>,
   <<"/", "a", "/", "a", "?", "1">>, <<"/", "1">>, <<"/", "a", "?", "1", "?">>}

=============================================================================
