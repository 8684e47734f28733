----------------------------- MODULE TtlCache ------------------------------
(***************************************************************************)
(* What a memcache promises: a map from keys to values in which every      *)
(* entry carries a deadline.  A write, or a read that extends the          *)
(* lifetime, gives the entry a deadline between Expiry and Expiry + Slack  *)
(* from now; an entry is there exactly until its deadline has passed.      *)
(* ret is what the last operation returned, and alive tells whether the    *)
(* cache still exists.                                                     *)
(***************************************************************************)
EXTENDS Naturals, FiniteSets

CONSTANTS Keys, Values, None, Expiry, Slack

VARIABLES entry, now, ret, alive

vars == <<entry, now, ret, alive>>

Live == {k \in Keys : entry[k] # None}

\* The entries that are still there when the clock shows n.
AliveAt(e, n) ==
  [k \in Keys |-> IF e[k] # None /\ e[k].until >= n THEN e[k] ELSE None]

\* e after v was stored under k at time n.
Stored(e, k, v, n) ==
  {[e EXCEPT ![k] = [val |-> v, until |-> u]] : u \in (n + Expiry)..(n + Expiry + Slack)}

Init ==
  /\ entry = [k \in Keys |-> None]
  /\ now \in Nat
  /\ ret = <<"none">>
  /\ alive = TRUE

TimePasses == now' \in Nat /\ now' >= now

Put(k, v) ==
  /\ alive
  /\ entry' \in Stored(entry, k, v, now)
  /\ ret' = <<"put", k>>
  /\ UNCHANGED <<now, alive>>

\* A lookup that extends the lifetime; the clock may move on meanwhile.
Get(k) ==
  /\ alive
  /\ TimePasses
  /\ \/ /\ entry[k] # None
        /\ ret' = <<"get", k, entry[k].val>>
        /\ \E e \in Stored(entry, k, entry[k].val, now') : entry' = AliveAt(e, now')
     \/ /\ entry[k] = None
        /\ ret' = <<"get", k, None>>
        /\ entry' = AliveAt(entry, now')
  /\ UNCHANGED alive

\* A lookup that leaves the lifetime alone.
At(k) ==
  /\ alive
  /\ ret' = <<"at", k, IF entry[k] = None THEN None ELSE entry[k].val>>
  /\ UNCHANGED <<entry, now, alive>>

\* visit() replaces the value in place.
Visit(k, v) ==
  /\ alive
  /\ entry' = IF entry[k] = None THEN entry ELSE [entry EXCEPT ![k].val = v]
  /\ ret' = <<"visit", k, entry[k] # None>>
  /\ UNCHANGED <<now, alive>>

\* The result for an entry that is past its deadline is left open.
Erase(k) ==
  /\ alive
  /\ entry' = [entry EXCEPT ![k] = None]
  /\ \E found \in BOOLEAN :
       /\ entry[k] # None => found
       /\ ret' = <<"erase", k, found>>
  /\ UNCHANGED <<now, alive>>

Clear ==
  /\ alive
  /\ entry' = [k \in Keys |-> None]
  /\ ret' = <<"clear">>
  /\ UNCHANGED <<now, alive>>

Size ==
  /\ alive
  /\ ret' = <<"size", Cardinality(Live)>>
  /\ UNCHANGED <<entry, now, alive>>

Tick ==
  /\ TimePasses
  /\ entry' = AliveAt(entry, now')
  /\ UNCHANGED <<ret, alive>>

Destroy ==
  /\ alive /\ alive' = FALSE
  /\ entry' = [k \in Keys |-> None]
  /\ UNCHANGED <<now, ret>>

Next ==
  \/ \E k \in Keys :
       \/ \E v \in Values : Put(k, v) \/ Visit(k, v)
       \/ Get(k) \/ At(k) \/ Erase(k)
  \/ Clear \/ Size \/ Tick \/ Destroy

Spec == Init /\ [][Next]_vars

=============================================================================
