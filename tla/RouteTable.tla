----------------------------- MODULE RouteTable ----------------------------
(***************************************************************************)
(* route_table: routes are registered in any order, and find() looks them  *)
(* up in three tiers.  A path is a sequence of characters; a route spec    *)
(* may contain the tags <int>, <string> and <path> as well.                *)
(***************************************************************************)
EXTENDS Naturals, Sequences, FiniteSetsExt

CONSTANTS
  Specs,      \* route specs users register
  UrlPrefixes, \* url_prefixes of serve_static()
  Methods,    \* methods of routes, "" for any
  Targets,    \* targets of requests
  MaxRoutes   \* bound on registrations

\* Requests have their target in origin form.  Specs have no query, and the
\* slash they may end with is a single one.
ASSUME RouteAssumption ==
  /\ Specs \cup UrlPrefixes \cup Targets \subseteq Seq(STRING)
  /\ \A t \in Targets : t # <<>> /\ t[1] = "/"
  /\ \A s \in Specs :
       /\ s # <<>> /\ \A i \in DOMAIN s : s[i] # "?"
       /\ ~ \E i \in DOMAIN s : i + 1 = Len(s) /\ s[i] = "/" /\ s[i + 1] = "/"
  /\ MaxRoutes \in Nat

VARIABLES
  exact_routes,    \* from a path to the routes registered for it, in order
  prefix_routes, fallback_routes,
  order            \* history: all routes, in the order the user gave them

route_vars == <<exact_routes, prefix_routes, fallback_routes, order>>

Digits == {"1"}
Tags == {"<int>", "<string>", "<path>"}

\* boost::iequals
iequals(m, n) == m = n \/ {m, n} = {"get", "GET"}

-----------------------------------------------------------------------------
(* Regular expressions *)

\* \/?(|\?[^\?\s]*)$ from position i of t on.
IsRest(t, i) ==
  \E k \in {i, i + 1} :
    /\ k # i => i <= Len(t) /\ t[i] = "/"
    /\ k <= Len(t) => t[k] = "?" /\ \A j \in (k + 1)..Len(t) : t[j] # "?"

\* What e stands for, which is in t from position i to before j: itself, or
\* for a tag [0-9]+, [^\/\?\s]+ and [^?#\s]*.
Stands(e, t, i, j) ==
  CASE e = "<int>" -> i < j /\ \A k \in i..(j - 1) : t[k] \in Digits
    [] e = "<string>" -> i < j /\ \A k \in i..(j - 1) : t[k] \notin {"/", "?"}
    [] e = "<path>" -> i <= j /\ \A k \in i..(j - 1) : t[k] \notin {"?", "#"}
    [] OTHER -> i <= Len(t) /\ j = i + 1 /\ t[i] = e

\* t can be cut into what the elements of spec stand for, and a rest.
Matches(spec, t) ==
  \E cut \in [1..(Len(spec) + 1) -> 1..(Len(t) + 1)] :
    /\ cut[1] = 1
    /\ \A i \in 1..Len(spec) : Stands(spec[i], t, cut[i], cut[i + 1])
    /\ IsRest(t, cut[Len(spec) + 1])

\* s without the slash at its end, if it is longer than least.
TrimSlash(s, least) ==
  IF Len(s) > least /\ s[Len(s)] = "/" THEN SubSeq(s, 1, Len(s) - 1) ELSE s

Subtree(prefix) == prefix \o <<"/", "<path>">>

\* The targets that an expression, which is compiled once, selects.
Compiled ==
  [spec \in {TrimSlash(s, 0) : s \in Specs} \cup UrlPrefixes \cup {Subtree(p) : p \in UrlPrefixes} |->
     {t \in Targets : Matches(spec, t)}]

\* The expression of a spec; what is not a tag stands for itself.
route_spec_to_regex(spec) == Compiled[TrimSlash(spec, 0)]

\* ^prefix(\/[^?#\s]*)?(|\?[^\?\s]*)$
serve_static_regex(prefix) == Compiled[Subtree(prefix)] \cup Compiled[prefix]

\* spec is a sequence; a raw route has the prefix it serves instead.
RouteMatches(r, t) == t \in IF r.raw THEN serve_static_regex(r.spec) ELSE route_spec_to_regex(r.spec)

-----------------------------------------------------------------------------
\* The text before the first of c.
UpTo(s, c) == SubSeq(s, 1, Min({i \in DOMAIN s : s[i] \in c} \cup {Len(s) + 1}) - 1)

is_static_route(spec) == \A i \in DOMAIN spec : spec[i] \notin Tags

extract_static_prefix(spec) ==
  IF is_static_route(spec) THEN TrimSlash(spec, 0) ELSE UpTo(spec, Tags)

normalise_path(t) == TrimSlash(UpTo(t, {"?"}), 1)

RoutesInit ==
  exact_routes = <<>> /\ prefix_routes = <<>> /\ fallback_routes = <<>> /\ order = <<>>

Insert(s, r, front) == IF front THEN <<r>> \o s ELSE Append(s, r)

NewRoute(spec, raw, method) == [id |-> Len(order) + 1, spec |-> spec, raw |-> raw, method |-> method]

Ordered(r, front) == order' = IF front THEN <<r>> \o order ELSE Append(order, r)

\* exact_routes[key], which is made if it is not there.
Exact(key) == IF key \in DOMAIN exact_routes THEN exact_routes[key] ELSE <<>>

\* on_http_request() and on_websocket()
add_route(spec, method, front) ==
  LET r == NewRoute(spec, FALSE, method)
      key == normalise_path(spec)
  IN  /\ Len(order) < MaxRoutes
      /\ Ordered(r, front)
      /\ IF is_static_route(spec)
         THEN /\ exact_routes' = [k \in DOMAIN exact_routes \cup {key} |->
                                    IF k = key THEN Insert(Exact(k), r, front) ELSE exact_routes[k]]
              /\ UNCHANGED prefix_routes
         ELSE /\ prefix_routes' =
                   Insert(prefix_routes, [prefix |-> extract_static_prefix(spec), route |-> r], front)
              /\ UNCHANGED exact_routes
      /\ UNCHANGED fallback_routes

\* on_http_request_regex(), with which serve_static() registers its handler.
add_regex_route(prefix, front) ==
  LET r == NewRoute(prefix, TRUE, "GET")
  IN  /\ Len(order) < MaxRoutes
      /\ Ordered(r, front)
      /\ fallback_routes' = Insert(fallback_routes, r, front)
      /\ UNCHANGED <<exact_routes, prefix_routes>>

NotFound == [id |-> 0, spec |-> <<>>, raw |-> FALSE, method |-> ""]

MethodFits(r, method) == r.method = "" \/ iequals(r.method, method)

\* The first of the elements of s at hits, or NotFound.
FirstOf(s, hits) == IF hits = {} THEN NotFound ELSE s[Min(hits)]

\* Where in s the routes are that an expression and a method select.
Fitting(s, target, method) ==
  {i \in DOMAIN s : MethodFits(s[i], method) /\ RouteMatches(s[i], target)}

\* Mutant of prefix_check: the path without its slash and query is compared.
prefix_check_path(prefix, target) ==
  LET path == normalise_path(target)
  IN  Len(path) >= Len(prefix) /\ SubSeq(path, 1, Len(prefix)) = prefix

\* "Quick prefix check before expensive regex"
prefix_check(prefix, target) ==
  Len(target) >= Len(prefix) /\ SubSeq(target, 1, Len(prefix)) = prefix

find(target, method) ==
  LET static == Exact(normalise_path(target))
      routes == [i \in DOMAIN prefix_routes |-> prefix_routes[i].route]
      one == FirstOf(static, {i \in DOMAIN static : MethodFits(static[i], method)})
      two == FirstOf(routes, {i \in Fitting(routes, target, method) :
                                prefix_check(prefix_routes[i].prefix, target)})
      three == FirstOf(fallback_routes, Fitting(fallback_routes, target, method))
  IN  IF one # NotFound THEN one ELSE IF two # NotFound THEN two ELSE three

RoutesOver == Len(order) = MaxRoutes /\ UNCHANGED route_vars

RoutesNext ==
  \/ \E front \in BOOLEAN :
       \/ \E spec \in Specs, method \in Methods : add_route(spec, method, front)
       \/ \E prefix \in UrlPrefixes : add_regex_route(prefix, front)
  \/ RoutesOver

RoutesSpec == RoutesInit /\ [][RoutesNext]_route_vars

-----------------------------------------------------------------------------
Tier(r) == IF r.raw THEN 3 ELSE IF is_static_route(r.spec) THEN 1 ELSE 2

\* Two slashes are the route "/" to normalise_path(), and not to the expression
\* of that route; and no expression selects a query with a question mark in it.
Plain(target) ==
  /\ UpTo(target, {"?"}) # <<"/", "/">>
  /\ \A i, j \in DOMAIN target : target[i] = "?" /\ target[j] = "?" => i = j

\* The map of the first tier and the quick check of the second hide nothing:
\* find() returns the route the expressions alone would select, tier by tier
\* and within a tier in the order of registration, whatever slash or query
\* the target ends with.
FirstMatchWins ==
  order # <<>> => \A target \in Targets, method \in {"GET", "POST"} :
    LET fitting == Fitting(order, target, method)
        best == {i \in fitting : \A j \in fitting : Tier(order[i]) <= Tier(order[j])}
    IN  Plain(target) => find(target, method) = FirstOf(order, best)

=============================================================================
