--------------------------- MODULE MemcacheProofs --------------------------
(***************************************************************************)
(* OneEntryPerKey, SegmentsApart and CreatedOnce of Memcache, and that     *)
(* Memcache implements TtlCache, for any finite set of keys, any values,   *)
(* lifetime, number of segments and callers.                               *)
(***************************************************************************)
EXTENDS Memcache, FiniteSetTheorems, TLAPS

\* A call that runs make() holds mtx and keeps the cache alive.
Making ==
  /\ \A c \in Callers : making[c] # None => alive
  /\ \A c, d \in Callers : multi_thread /\ making[c] # None /\ making[d] # None => c = d

IInv == TypeOK /\ OneEntryPerKey /\ SegmentsApart /\ Making

LEMMA SegmentMs == segment_ms \in Nat
  BY MemcacheAssumption DEF segment_ms

-----------------------------------------------------------------------------
(* The helpers *)

\* S is what map_list's keys may be at time n.
Apart(S, n) ==
  /\ S \subseteq Nat
  /\ \A s, t \in S : s < t => t - s > segment_ms
  /\ \A s \in S : s <= n + expiry_ms + segment_ms

LEMMA Later ==
  ASSUME NEW S, NEW n \in Nat, NEW m \in Nat, n <= m, Apart(S, n)
  PROVE  Apart(S, m)
<1>1. ASSUME NEW s \in S PROVE s <= m + expiry_ms + segment_ms
  <2>1. s \in Nat /\ s <= n + expiry_ms + segment_ms
    BY Zenon DEF Apart
  <2>2. QED
    BY <2>1, MemcacheAssumption, SegmentMs
<1>2. QED
  BY <1>1, Zenon DEF Apart

\* youngest_segment() returns a segment that lives a full lifetime and at most
\* a partition longer; it is begin() or keeps its distance to the others.
LEMMA Youngest ==
  ASSUME NEW n \in Nat, NEW S, Apart(S, n)
  PROVE  /\ youngest_segment(S, n) \in (n + expiry_ms)..(n + expiry_ms + segment_ms)
         /\ Apart(S \cup {youngest_segment(S, n)}, n)
<1>. DEFINE y == youngest_segment(S, n)
<1>0. expiry_ms \in Nat /\ segment_ms \in Nat
  BY MemcacheAssumption, SegmentMs, Zenon
<1>1. CASE \A s \in S : s < n + expiry_ms
  <2>1. y = n + expiry_ms + segment_ms
    BY <1>1, Zenon DEF youngest_segment
  <2>2. \A s \in S : s \in Nat /\ y - s > segment_ms
    BY <1>0, <1>1, <2>1 DEF Apart
  <2>. HIDE DEF y
  <2>3. QED
    BY <1>0, <2>1, <2>2 DEF Apart, y
<1>2. CASE ~ \A s \in S : s < n + expiry_ms
  <2>1. PICK s \in S : ~(s < n + expiry_ms)
    BY <1>2, Zenon
  <2>2. \A t \in S : t <= s
    BY <1>0, <2>1 DEF Apart
  <2>3. Begin(S) \in S /\ \A t \in S : t <= Begin(S)
    BY <2>1, <2>2, Zenon DEF Begin
  <2>4. y \in S /\ s <= y
    BY <1>2, <2>1, <2>3, Zenon DEF youngest_segment
  <2>5. S \cup {y} = S
    BY <2>4, Zenon
  <2>. HIDE DEF y
  <2>6. y \in (n + expiry_ms)..(n + expiry_ms + segment_ms)
    BY <1>0, <2>1, <2>4 DEF Apart
  <2>7. QED
    BY <2>5, <2>6, Zenon DEF y
<1>3. QED
  BY <1>1, <1>2, Zenon

\* The newest of at most one entry is that entry.
LEMMA NewestOne ==
  ASSUME NEW E, NEW e \in E, \A d \in E : d = e, e.seg \in Nat
  PROVE  Newest(E) = e
  BY DEF Newest

\* What the caller sees of k, without Newest.
Sees(k) ==
  /\ (\A e \in held[k] : ~(alive /\ now <= e.seg)) => View[k] = None
  /\ \A e \in held[k] : alive /\ now <= e.seg =>
       View[k] = [val |-> e.val, until |-> e.seg]

LEMMA ViewOf == IInv => \A k \in Keys : Sees(k)
<1>. SUFFICES ASSUME IInv, NEW k \in Keys PROVE Sees(k)
  BY Zenon
<1>1. ASSUME \A e \in held[k] : ~(alive /\ now <= e.seg) PROVE View[k] = None
  BY <1>1, Zenon DEF View, LiveEntries
<1>2. ASSUME NEW e \in held[k], alive, now <= e.seg
      PROVE  View[k] = [val |-> e.val, until |-> e.seg]
  <2>1. e \in LiveEntries(held, k, now) /\ \A d \in LiveEntries(held, k, now) : d = e
    BY <1>2, Zenon DEF LiveEntries, IInv, OneEntryPerKey
  <2>2. Newest(LiveEntries(held, k, now)) = e
    BY <1>2, <2>1, NewestOne, Zenon DEF IInv, TypeOK, Entry
  <2>3. QED
    BY <1>2, <2>1, <2>2, Zenon DEF View
<1>3. QED
  BY <1>1, <1>2, Zenon DEF Sees

\* The same in the next state.
LEMMA ViewOfNext == IInv' => \A k \in Keys : Sees(k)'
<1>1. (IInv => \A k \in Keys : Sees(k))'
  BY ViewOf, PTL
<1>2. QED
  BY <1>1, Zenon

-----------------------------------------------------------------------------
(* What insert() and touch() leave behind *)

\* The part of the invariant that is about the segments S and the entries h
\* at time n.
CacheOk(S, h, n) ==
  /\ Apart(S, n)
  /\ h \in [Keys -> SUBSET Entry]
  /\ \A k \in Keys : \A e \in h[k] : e.seg \in S
  /\ \A k \in Keys : \A d, e \in h[k] : d = e

LEMMA CacheNow == IInv => CacheOk(segs, held, now)
<1>. SUFFICES ASSUME IInv PROVE CacheOk(segs, held, now)
  BY Zenon
<1>1. Apart(segs, now)
  BY Zenon DEF IInv, TypeOK, SegmentsApart, Apart
<1>2. QED
  BY <1>1, Zenon DEF IInv, TypeOK, OneEntryPerKey, CacheOk

\* Time that passes, and pruning, do no harm.
LEMMA PrunedOk ==
  ASSUME IInv, NEW n \in Nat, NEW m \in Nat, now <= n, n <= m
  PROVE  CacheOk(PrunedSegs(n), PrunedHeld(n), m)
<1>0. expiry_ms \in Nat /\ segment_ms \in Nat /\ now \in Nat /\ CacheOk(segs, held, now)
  BY MemcacheAssumption, SegmentMs, CacheNow, Zenon DEF IInv, TypeOK
<1>1. Apart(PrunedSegs(n), m)
  <2>1. PrunedSegs(n) \subseteq segs
    BY Zenon DEF PrunedSegs
  <2>2. \A s \in segs : s \in Nat /\ s <= m + expiry_ms + segment_ms
    BY <1>0 DEF CacheOk, Apart
  <2>3. QED
    BY <1>0, <2>1, <2>2, Zenon DEF CacheOk, Apart
<1>2. PrunedHeld(n) \in [Keys -> SUBSET Entry]
  BY <1>0, Zenon DEF CacheOk, PrunedHeld, LiveEntries
<1>3. \A k \in Keys : PrunedHeld(n)[k] = {e \in held[k] : n <= e.seg}
  BY Zenon DEF PrunedHeld, LiveEntries
<1>4. QED
  BY <1>0, <1>1, <1>2, <1>3 DEF CacheOk, PrunedSegs

\* Storing one entry for k in the youngest segment of S at m.
LEMMA StoredOk ==
  ASSUME NEW S, NEW h, NEW m \in Nat, CacheOk(S, h, m), NEW k \in Keys, NEW v \in Values
  PROVE  LET y == youngest_segment(S, m)
         IN  /\ y \in (m + expiry_ms)..(m + expiry_ms + segment_ms)
             /\ CacheOk(S \cup {y}, [h EXCEPT ![k] = {[seg |-> y, val |-> v]}], m)
<1>. DEFINE y == youngest_segment(S, m)
            g == [h EXCEPT ![k] = {[seg |-> y, val |-> v]}]
<1>0. expiry_ms \in Nat /\ segment_ms \in Nat
  BY MemcacheAssumption, SegmentMs, Zenon
<1>1. y \in (m + expiry_ms)..(m + expiry_ms + segment_ms) /\ Apart(S \cup {y}, m)
  BY Youngest, Zenon DEF CacheOk
<1>2. y \in Nat
  BY <1>0, <1>1
<1>. HIDE DEF y
<1>3. g \in [Keys -> SUBSET Entry]
  BY <1>2 DEF CacheOk, Entry
<1>4. \A j \in Keys : g[j] = IF j = k THEN {[seg |-> y, val |-> v]} ELSE h[j]
  BY Zenon DEF CacheOk
<1>. HIDE DEF g
<1>5. CacheOk(S \cup {y}, g, m)
  BY <1>1, <1>3, <1>4 DEF CacheOk
<1>6. QED
  BY <1>1, <1>5, Zenon DEF y, g

\* insert() at the present time.
LEMMA InsertOk ==
  ASSUME IInv, NEW k \in Keys, NEW v \in Values, insert(k, v, now)
  PROVE  /\ CacheOk(segs', held', now)
         /\ \E y \in (now + expiry_ms)..(now + expiry_ms + segment_ms) :
              held' = [held EXCEPT ![k] = {[seg |-> y, val |-> v]}]
<1>. DEFINE y == youngest_segment(segs, now)
<1>1. segs' = segs \cup {y} /\ held' = [held EXCEPT ![k] = {[seg |-> y, val |-> v]}]
  <2>1. Emplaced({}, y, v) = {[seg |-> y, val |-> v]}
    BY Zenon DEF Emplaced
  <2>2. held' = [held EXCEPT ![k] = Emplaced({}, y, v)] /\ segs' = segs \cup {y}
    BY Zenon DEF insert
  <2>3. QED
    BY <2>1, <2>2, Zenon
<1>2. now \in Nat /\ CacheOk(segs, held, now)
  BY CacheNow, Zenon DEF IInv, TypeOK
<1>3. y \in (now + expiry_ms)..(now + expiry_ms + segment_ms) /\ CacheOk(segs', held', now)
  BY <1>1, <1>2, StoredOk, Zenon
<1>4. QED
  BY <1>1, <1>3, Zenon

\* touch() prunes at the present time and stores a live entry again at n.
LEMMA TouchOk ==
  ASSUME IInv, NEW k \in Keys, NEW n \in Nat, now <= n, touch(k, n)
  PROVE  /\ CacheOk(segs', held', n)
         /\ LiveEntries(held, k, now) = {} => held' = PrunedHeld(now)
         /\ \A e \in LiveEntries(held, k, now) :
              \E y \in (n + expiry_ms)..(n + expiry_ms + segment_ms) :
                held' = [PrunedHeld(now) EXCEPT ![k] = {[seg |-> y, val |-> e.val]}]
<1>. DEFINE S == PrunedSegs(now)
            h == PrunedHeld(now)
            y == youngest_segment(S, n)
<1>0. now \in Nat /\ CacheOk(S, h, n) /\ h[k] = LiveEntries(held, k, now) /\ h \in [Keys -> SUBSET Entry]
  <2>1. now \in Nat /\ now <= now
    BY DEF IInv, TypeOK
  <2>2. CacheOk(S, h, n)
    BY <2>1, PrunedOk, Zenon
  <2>3. QED
    BY <2>1, <2>2, Zenon DEF PrunedHeld, CacheOk
<1>1. CASE h[k] = {}
  BY <1>0, <1>1, Zenon DEF touch
<1>2. ASSUME NEW e \in h[k]
      PROVE  /\ y \in (n + expiry_ms)..(n + expiry_ms + segment_ms)
             /\ segs' = S \cup {y}
             /\ held' = [h EXCEPT ![k] = {[seg |-> y, val |-> e.val]}]
             /\ CacheOk(segs', held', n)
  <2>1. e \in Entry /\ \A d \in h[k] : d = e
    BY <1>0, Zenon DEF CacheOk
  <2>2. Newest(h[k]) = e
    BY <2>1, NewestOne, Zenon DEF Entry
  <2>3. /\ segs' = S \cup {y}
        /\ held' = IF y = e.seg THEN h ELSE [h EXCEPT ![k] = Emplaced(h[k], y, e.val) \ {e}]
    BY <2>2, Zenon DEF touch
  <2>4. h[k] = {e} /\ e = [seg |-> e.seg, val |-> e.val] /\ e.val \in Values
    BY <2>1, Zenon DEF Entry
  <2>5. ASSUME y = e.seg PROVE held' = [h EXCEPT ![k] = {[seg |-> y, val |-> e.val]}]
    BY <1>0, <2>3, <2>4, <2>5, Zenon
  <2>6. ASSUME y # e.seg PROVE held' = [h EXCEPT ![k] = {[seg |-> y, val |-> e.val]}]
    <3>1. Emplaced(h[k], y, e.val) = {e, [seg |-> y, val |-> e.val]}
      BY <2>4, <2>6, Zenon DEF Emplaced
    <3>2. Emplaced(h[k], y, e.val) \ {e} = {[seg |-> y, val |-> e.val]}
      BY <2>4, <2>6, <3>1
    <3>3. QED
      BY <2>3, <2>6, <3>2, Zenon
  <2>7. /\ y \in (n + expiry_ms)..(n + expiry_ms + segment_ms)
        /\ CacheOk(S \cup {y}, [h EXCEPT ![k] = {[seg |-> y, val |-> e.val]}], n)
    BY <1>0, <2>4, StoredOk, Zenon
  <2>8. QED
    BY <2>3, <2>5, <2>6, <2>7, Zenon
<1>3. QED
  BY <1>0, <1>1, <1>2, Zenon

-----------------------------------------------------------------------------
(* The invariant *)

\* The part of the invariant that is not about the entries.
Rest ==
  /\ now \in Nat
  /\ making \in [Callers -> Keys \cup {None}]
  /\ next_prune \in Nat
  /\ alive \in BOOLEAN
  /\ pruner \in {"running", "due", "ended"}
  /\ Making

LEMMA Parts == IInv <=> CacheOk(segs, held, now) /\ Rest
<1>1. CacheOk(segs, held, now) /\ Rest => IInv
  <2>. SUFFICES ASSUME CacheOk(segs, held, now), Rest PROVE IInv
    BY Zenon
  <2>1. SegmentsApart
    BY Zenon DEF CacheOk, Apart, SegmentsApart
  <2>2. TypeOK
    BY Zenon DEF CacheOk, Apart, Rest, TypeOK
  <2>3. QED
    BY <2>1, <2>2, Zenon DEF CacheOk, Rest, OneEntryPerKey, IInv
<1>2. QED
  BY <1>1, CacheNow, Zenon DEF IInv, TypeOK, Rest

LEMMA PartsNext == CacheOk(segs', held', now') /\ Rest' => IInv'
<1>1. (IInv <=> CacheOk(segs, held, now) /\ Rest)'
  BY Parts, PTL
<1>2. QED
  BY <1>1, Zenon

LEMMA InitOk == Init => IInv
<1>. SUFFICES ASSUME Init PROVE IInv
  BY Zenon
<1>1. CacheOk(segs, held, now)
  BY Zenon DEF Init, CacheOk, Apart
<1>2. Rest
  BY MemcacheAssumption, SegmentMs, Zenon DEF Init, Rest, Making
<1>3. QED
  BY <1>1, <1>2, Parts, Zenon

\* The calls that leave the clock alone and make one entry of k.
LEMMA InsertingOk ==
  ASSUME IInv,
         \/ \E k \in Keys, v \in Values : put(k, v)
         \/ \E c \in Callers, v \in Values : get_or_put_insert(c, v)
  PROVE  IInv'
<1>1. PICK k \in Keys, v \in Values : insert(k, v, now)
  <2>1. CASE \E k \in Keys, v \in Values : put(k, v)
    BY <2>1, Zenon DEF put
  <2>2. CASE \E c \in Callers, v \in Values : get_or_put_insert(c, v)
    BY <2>2, Zenon DEF get_or_put_insert, IInv, TypeOK
  <2>3. QED
    BY <2>1, <2>2, Zenon
<1>2. now' = now
  BY Zenon DEF put, get_or_put_insert
<1>3. CacheOk(segs', held', now')
  BY <1>1, <1>2, InsertOk, Zenon
<1>4. Rest'
  BY Parts, Zenon DEF put, get_or_put_insert, Rest, Making, loop_vars
<1>5. QED
  BY <1>3, <1>4, PartsNext, Zenon

\* The calls that move the entry of k.
LEMMA TouchingOk ==
  ASSUME IInv,
         \/ \E k \in Keys, n \in now..(now + MaxDelay) : get(k, n)
         \/ \E c \in Callers, k \in Keys : get_or_put_miss(c, k)
  PROVE  IInv'
<1>0. now \in Nat /\ MaxDelay \in Nat
  BY MemcacheAssumption, Zenon DEF IInv, TypeOK
<1>1. PICK k \in Keys : now' \in Nat /\ now <= now' /\ touch(k, now')
  <2>1. CASE \E k \in Keys, n \in now..(now + MaxDelay) : get(k, n)
    BY <1>0, <2>1 DEF get
  <2>2. CASE \E c \in Callers, k \in Keys : get_or_put_miss(c, k)
    BY <1>0, <2>2 DEF get_or_put_miss
  <2>3. QED
    BY <2>1, <2>2, Zenon
<1>2. CacheOk(segs', held', now')
  BY <1>1, TouchOk, Zenon
<1>3. Rest'
  <2>1. CASE \E j \in Keys, n \in now..(now + MaxDelay) : get(j, n)
    BY <1>0, <2>1, Parts DEF get, Rest, Making, loop_vars
  <2>2. CASE \E c \in Callers, j \in Keys : get_or_put_miss(c, j)
    BY <1>0, <2>2, Parts DEF get_or_put_miss, Rest, Making, loop_vars, Callable, Unlocked
  <2>3. QED
    BY <2>1, <2>2, Zenon
<1>4. QED
  BY <1>2, <1>3, PartsNext, Zenon

\* The steps that only remove entries, or change a value in place.
LEMMA VisitOk == ASSUME IInv, NEW k \in Keys, NEW v \in Values, visit(k, v) PROVE IInv'
<1>. DEFINE E == LiveEntries(held, k, now)
<1>0. CacheOk(segs, held, now) /\ Rest
  BY Parts, Zenon
<1>1. CASE E = {}
  <2>1. held' = held /\ segs' = segs /\ now' = now
    BY <1>1, Zenon DEF visit
  <2>2. CacheOk(segs', held', now') /\ Rest'
    BY <1>0, <2>1, Zenon DEF visit, Rest, Making, loop_vars
  <2>3. QED
    BY <2>2, PartsNext, Zenon
<1>2. ASSUME NEW e \in E PROVE IInv'
  <2>1. e \in held[k] /\ e \in Entry /\ held[k] = {e}
    BY <1>0 DEF CacheOk, LiveEntries
  <2>2. Newest(E) = e
    BY <2>1, NewestOne, Zenon DEF LiveEntries, Entry
  <2>. DEFINE d == [e EXCEPT !.val = v]
  <2>3. d \in Entry /\ d.seg = e.seg
    BY <2>1, Zenon DEF Entry
  <2>4. held' = [held EXCEPT ![k] = {d}] /\ segs' = segs /\ now' = now
    BY <2>1, <2>2, Zenon DEF visit
  <2>. HIDE DEF d
  <2>5. held' \in [Keys -> SUBSET Entry] /\ \A j \in Keys : held'[j] = IF j = k THEN {d} ELSE held[j]
    BY <1>0, <2>3, <2>4, Zenon DEF CacheOk
  <2>6. CacheOk(segs', held', now')
    BY <1>0, <2>1, <2>3, <2>4, <2>5, Zenon DEF CacheOk
  <2>7. Rest'
    BY <1>0, Zenon DEF visit, Rest, Making, loop_vars
  <2>8. QED
    BY <2>6, <2>7, PartsNext, Zenon
<1>3. QED
  BY <1>1, <1>2, Zenon

LEMMA RemovingOk ==
  ASSUME IInv, \/ \E k \in Keys : erase(k)
               \/ clear \/ prune \/ release
  PROVE  IInv'
<1>0. CacheOk(segs, held, now) /\ Rest
  BY Parts, Zenon
<1>. DEFINE none == [k \in Keys |-> {}]
<1>1. CacheOk({}, none, now)
  BY Zenon DEF CacheOk, Apart
<1>2. CacheOk(segs', held', now')
  <2>1. CASE \E k \in Keys : erase(k)
    BY <1>0, <2>1 DEF erase, CacheOk
  <2>2. CASE clear
    BY <1>1, <2>2, Zenon DEF clear
  <2>3. CASE prune
    <3>1. CacheOk(PrunedSegs(now), PrunedHeld(now), now)
      BY <1>0, PrunedOk DEF Rest
    <3>2. QED
      BY <1>1, <2>3, <3>1, Zenon DEF prune
  <2>4. CASE release
    BY <1>0, <1>1, <2>4, Zenon DEF release, cache_vars
  <2>5. QED
    BY <2>1, <2>2, <2>3, <2>4, Zenon
<1>3. Rest'
  <2>1. CASE \E k \in Keys : erase(k)
    BY <1>0, <2>1 DEF Rest, Making, erase, loop_vars
  <2>2. CASE clear
    BY <1>0, <2>2, Zenon DEF Rest, Making, clear, loop_vars
  <2>3. CASE prune
    BY <1>0, <2>3, Zenon DEF Rest, Making, prune
  <2>4. CASE release
    BY <1>0, <2>4, Zenon DEF Rest, Making, release
  <2>5. QED
    BY <2>1, <2>2, <2>3, <2>4, Zenon
<1>4. QED
  BY <1>2, <1>3, PartsNext, Zenon

\* The steps that leave the entries alone.
LEMMA KeepingOk ==
  ASSUME IInv, \/ \E k \in Keys : at(k)
               \/ \E c \in Callers : make_throws(c)
               \/ size \/ prune_due \/ prune_end \/ tick \/ UNCHANGED vars
  PROVE  IInv'
<1>0. CacheOk(segs, held, now) /\ Rest /\ expiry_ms \in Nat /\ segment_ms \in Nat
  BY Parts, MemcacheAssumption, SegmentMs, Zenon
<1>1. segs' = segs /\ held' = held
  BY Zenon DEF at, make_throws, size, prune_due, prune_end, tick, vars, cache_vars
<1>2. now' \in Nat /\ now <= now'
  BY <1>0 DEF Rest, at, make_throws, size, prune_due, prune_end, tick, vars
<1>3. Apart(segs, now')
  BY <1>0, <1>2, Later, Zenon DEF CacheOk, Rest
<1>4. CacheOk(segs', held', now')
  BY <1>0, <1>1, <1>3, Zenon DEF CacheOk
<1>5. Rest'
  <2>1. CASE \E c \in Callers : make_throws(c)
    BY <1>0, <1>2, <2>1 DEF Rest, Making, make_throws, loop_vars
  <2>2. CASE prune_due \/ prune_end
    BY <1>0, <1>2, <2>2 DEF Rest, Making, prune_due, prune_end
  <2>3. CASE (\E k \in Keys : at(k)) \/ size \/ tick \/ UNCHANGED vars
    BY <1>0, <1>2, <2>3, Zenon DEF Rest, Making, at, size, tick, vars, loop_vars
  <2>4. QED
    BY <2>1, <2>2, <2>3, Zenon
<1>6. QED
  BY <1>4, <1>5, PartsNext, Zenon

\* The inductive invariant.
THEOREM InductiveInvariant == Spec => []IInv
<1>1. ASSUME IInv, [Next]_vars PROVE IInv'
  <2>1. CASE Call
    BY <1>1, <2>1, InsertingOk, TouchingOk, VisitOk, RemovingOk, KeepingOk, Zenon DEF Call
  <2>2. CASE \E c \in Callers : MakeReturns(c)
    BY <1>1, <2>2, InsertingOk, KeepingOk, Zenon DEF MakeReturns
  <2>3. CASE PruneLoop \/ release \/ tick
    BY <1>1, <2>3, RemovingOk, KeepingOk, Zenon DEF PruneLoop
  <2>4. CASE Done \/ UNCHANGED vars
    BY <1>1, <2>4, KeepingOk, Zenon DEF Done
  <2>5. QED
    BY <1>1, <2>1, <2>2, <2>3, <2>4, Zenon DEF Next
<1>2. QED
  BY <1>1, InitOk, PTL DEF Spec

\* However often put(), get() and get_or_put() move an entry from segment to
\* segment, a key has one entry.
THEOREM OneEntryAlways == Spec => []OneEntryPerKey
<1>1. IInv => OneEntryPerKey
  BY Zenon DEF IInv
<1>2. QED
  BY <1>1, InductiveInvariant, PTL

\* Segments keep their distance and their maximal age, whatever the rate of
\* writes and the delays between the clock readings of a call.
THEOREM SegmentsApartAlways == Spec => []SegmentsApart
<1>1. IInv => SegmentsApart
  BY Zenon DEF IInv
<1>2. QED
  BY <1>1, InductiveInvariant, PTL

-----------------------------------------------------------------------------
(* get_or_put() *)

\* While make() runs under mtx, the key it is for stays missing.
Missing ==
  \A c \in Callers : multi_thread /\ making[c] # None => LiveEntries(held, making[c], now) = {}

LEMMA MissingStep == ASSUME IInv, Missing, [Next]_vars PROVE Missing'
<1>0. now \in Nat /\ making \in [Callers -> Keys \cup {None}] /\ held \in [Keys -> SUBSET Entry]
  BY Zenon DEF IInv, TypeOK
<1>1. ASSUME \A c \in Callers : multi_thread => making'[c] = None PROVE Missing'
  BY <1>1, Zenon DEF Missing
<1>2. ASSUME NEW c \in Callers, NEW k \in Keys, get_or_put_miss(c, k) PROVE Missing'
  <2>1. now' = now /\ held' = PrunedHeld(now) /\ LiveEntries(held, k, now) = {}
    BY <1>0, <1>2, TouchOk DEF get_or_put_miss
  <2>2. LiveEntries(held', k, now') = {}
    BY <2>1, Zenon DEF PrunedHeld, LiveEntries
  <2>3. making' = [making EXCEPT ![c] = k] /\ (multi_thread => \A d \in Callers : making[d] = None)
    BY <1>2, Zenon DEF get_or_put_miss, Callable, Unlocked
  <2>4. QED
    BY <1>0, <2>2, <2>3, Zenon DEF Missing
<1>3. CASE Call
  <2>1. CASE \E c \in Callers, k \in Keys : get_or_put_miss(c, k)
    BY <1>2, <2>1, Zenon
  <2>2. CASE Callable /\ making' = making
    BY <1>1, <2>2, Zenon DEF Callable, Unlocked
  <2>3. QED
    BY <1>3, <2>1, <2>2, Zenon DEF Call, put, visit, get, at, erase, clear, size
<1>4. CASE \E c \in Callers : MakeReturns(c)
  <2>1. PICK c \in Callers : making[c] # None /\ making' = [making EXCEPT ![c] = None]
    BY <1>4, Zenon DEF MakeReturns, make_throws, get_or_put_insert
  <2>2. QED
    BY <1>0, <1>1, <2>1, Zenon DEF IInv, Making
<1>5. CASE prune \/ release
  BY <1>1, <1>5, Zenon DEF prune, release, Unlocked
<1>6. CASE prune_due \/ prune_end \/ Done \/ UNCHANGED vars
  BY <1>6, Zenon DEF prune_due, prune_end, Done, vars, cache_vars, Missing
<1>7. CASE tick
  <2>1. held' = held /\ making' = making /\ now' = now + 1
    BY <1>7, Zenon DEF tick, cache_vars
  <2>2. ASSUME NEW k \in Keys, LiveEntries(held, k, now) = {}
        PROVE  LiveEntries(held', k, now') = {}
    <3>1. \A e \in held[k] : e.seg \in Nat /\ ~(now <= e.seg)
      BY <1>0, <2>2 DEF LiveEntries, Entry
    <3>2. \A e \in held[k] : ~(now + 1 <= e.seg)
      BY <1>0, <3>1
    <3>3. QED
      BY <2>1, <3>2, Zenon DEF LiveEntries
  <2>3. QED
    BY <1>0, <2>1, <2>2, Zenon DEF Missing
<1>8. QED
  BY <1>3, <1>4, <1>5, <1>6, <1>7, Zenon DEF Next, PruneLoop

\* A value that make() returned never replaces a live one in a multi-thread
\* cache, for any number of callers of get_or_put().
THEOREM CreatedOnceAlways == Spec => CreatedOnce
<1>1. Init => Missing
  BY Zenon DEF Init, Missing
<1>2. IInv /\ Missing /\ [Next]_vars => Missing'
  BY MissingStep, Zenon
<1>3. Missing =>
        \A c \in Callers : (multi_thread /\ making[c] # None /\ making'[c] = None) =>
          LiveEntries(held, making[c], now) = {}
  BY Zenon DEF Missing
<1>4. QED
  BY <1>1, <1>2, <1>3, InductiveInvariant, PTL DEF Spec, CreatedOnce

-----------------------------------------------------------------------------
(* The refinement *)

\* A new cache is an empty map.
LEMMA InitRefines == Init => Abstract!Init
<1>. SUFFICES ASSUME Init PROVE Abstract!Init
  BY Zenon
<1>1. View = [k \in Keys |-> None]
  BY Zenon DEF Init, View, LiveEntries
<1>2. QED
  BY <1>1, Zenon DEF Init, Abstract!Init

\* Views are functions on the keys.
LEMMA ViewType ==
  /\ View = [k \in Keys |-> View[k]] /\ DOMAIN View = Keys
  /\ View' = [k \in Keys |-> View'[k]] /\ DOMAIN View' = Keys
  BY Zenon DEF View

\* A key whose entries do not change keeps what is seen of it if it is seen
\* at all when the clock has moved on to now'.
LEMMA SameKey ==
  ASSUME IInv, IInv', NEW k \in Keys, alive, alive', now <= now',
         held'[k] = held[k] \/ held'[k] = LiveEntries(held, k, now)
                            \/ held'[k] = LiveEntries(held, k, now')
  PROVE  View'[k] = Abstract!AliveAt(View, now')[k]
<1>0. Sees(k) /\ Sees(k)'
  BY ViewOf, ViewOfNext, Zenon
<1>1. now \in Nat /\ now' \in Nat /\ \A e \in held[k] : e \in Entry /\ e.seg \in Nat
  BY Zenon DEF IInv, TypeOK, Entry
<1>2. CASE \A e \in held[k] : ~(now <= e.seg)
  <2>1. View[k] = None
    BY <1>0, <1>2, Zenon DEF Sees
  <2>2. \A e \in held'[k] : ~(now' <= e.seg)
    BY <1>1, <1>2 DEF LiveEntries
  <2>3. View'[k] = None
    BY <1>0, <2>2, Zenon DEF Sees
  <2>4. QED
    BY <2>1, <2>3, Zenon DEF Abstract!AliveAt
<1>3. ASSUME NEW e \in held[k], now <= e.seg
      PROVE  View'[k] = Abstract!AliveAt(View, now')[k]
  <2>1. View[k] = [val |-> e.val, until |-> e.seg]
    BY <1>0, <1>3, Zenon DEF Sees
  <2>2. View[k] # None
    BY <1>1, <1>3, <2>1, MemcacheAssumption DEF Entry
  <2>3. \A d \in held[k] : d = e
    BY Zenon DEF IInv, OneEntryPerKey
  <2>4. CASE now' <= e.seg
    <3>1. e \in held'[k]
      BY <1>3, <2>4, Zenon DEF LiveEntries
    <3>2. View'[k] = View[k]
      BY <1>0, <2>1, <2>4, <3>1, Zenon DEF Sees
    <3>3. QED
      BY <1>1, <2>1, <2>2, <2>4, <3>2 DEF Abstract!AliveAt
  <2>5. CASE ~(now' <= e.seg)
    <3>1. \A d \in held'[k] : ~(now' <= d.seg)
      BY <2>3, <2>5, Zenon DEF LiveEntries
    <3>2. View'[k] = None
      BY <1>0, <3>1, Zenon DEF Sees
    <3>3. QED
      BY <1>1, <1>3, <2>1, <2>5, <3>2 DEF Abstract!AliveAt
  <2>6. QED
    BY <2>4, <2>5, Zenon
<1>4. QED
  BY <1>2, <1>3, Zenon

\* What is seen has not passed its deadline.
LEMMA SeenIsLive == ASSUME IInv PROVE Abstract!AliveAt(View, now) = View
<1>1. ASSUME NEW k \in Keys PROVE Abstract!AliveAt(View, now)[k] = View[k]
  <2>0. Sees(k) /\ now \in Nat
    BY ViewOf, Zenon DEF IInv, TypeOK
  <2>1. CASE \A e \in held[k] : ~(alive /\ now <= e.seg)
    BY <2>0, <2>1, Zenon DEF Sees, Abstract!AliveAt
  <2>2. ASSUME NEW e \in held[k], alive /\ now <= e.seg
        PROVE  Abstract!AliveAt(View, now)[k] = View[k]
    <3>1. View[k] = [val |-> e.val, until |-> e.seg]
      BY <2>0, <2>2, Zenon DEF Sees
    <3>2. View[k].until = e.seg
      BY <3>1
    <3>3. QED
      BY <2>2, <3>2, Zenon DEF Abstract!AliveAt
  <2>3. QED
    BY <2>1, <2>2, Zenon
<1>2. DOMAIN Abstract!AliveAt(View, now) = Keys
      /\ Abstract!AliveAt(View, now) = [k \in Keys |-> Abstract!AliveAt(View, now)[k]]
  BY Zenon DEF Abstract!AliveAt
<1>3. QED
  BY <1>1, <1>2, ViewType, Zenon

\* The key that was written shows its new entry, the others what they showed.
LEMMA WrittenView ==
  ASSUME IInv, IInv', alive, alive', now <= now', NEW k \in Keys, NEW v \in Values,
         NEW y \in (now' + expiry_ms)..(now' + expiry_ms + segment_ms),
         held'[k] = {[seg |-> y, val |-> v]},
         \A j \in Keys \ {k} : held'[j] = held[j] \/ held'[j] = LiveEntries(held, j, now)
  PROVE  /\ [View EXCEPT ![k] = [val |-> v, until |-> y]] \in Abstract!Stored(View, k, v, now')
         /\ View' = Abstract!AliveAt([View EXCEPT ![k] = [val |-> v, until |-> y]], now')
<1>. DEFINE W == [View EXCEPT ![k] = [val |-> v, until |-> y]]
<1>0. now' \in Nat /\ y \in Nat /\ now' <= y
  BY MemcacheAssumption, SegmentMs, SMTT(120) DEF IInv, TypeOK
<1>1. W \in Abstract!Stored(View, k, v, now')
  BY Zenon DEF Abstract!Stored
<1>2. View'[k] = [val |-> v, until |-> y]
  <2>1. Sees(k)'
    BY ViewOfNext, Zenon
  <2>2. [seg |-> y, val |-> v] \in held'[k] /\ alive' /\ now' <= [seg |-> y, val |-> v].seg
    BY <1>0, Zenon
  <2>3. View'[k] = [val |-> [seg |-> y, val |-> v].val, until |-> [seg |-> y, val |-> v].seg]
    BY <2>1, <2>2, Zenon DEF Sees
  <2>4. QED
    BY <2>3, Zenon
<1>3. ASSUME NEW j \in Keys PROVE View'[j] = Abstract!AliveAt(W, now')[j]
  <2>1. CASE j = k
    <3>1. W[k] = [val |-> v, until |-> y]
      BY ViewType, Zenon
    <3>2. W[k].until = y
      BY <3>1
    <3>3. QED
      BY <1>0, <1>2, <2>1, <3>1, <3>2, Zenon DEF Abstract!AliveAt
  <2>2. CASE j # k
    <3>1. W[j] = View[j]
      BY <2>2, ViewType, Zenon
    <3>2. View'[j] = Abstract!AliveAt(View, now')[j]
      BY <2>2, SameKey, Zenon
    <3>3. QED
      BY <3>1, <3>2, Zenon DEF Abstract!AliveAt
  <2>3. QED
    BY <2>1, <2>2, Zenon
<1>4. DOMAIN Abstract!AliveAt(W, now') = Keys
      /\ Abstract!AliveAt(W, now') = [j \in Keys |-> Abstract!AliveAt(W, now')[j]]
  BY DEF Abstract!AliveAt
<1>5. View' = Abstract!AliveAt(W, now')
  BY <1>3, <1>4, ViewType, Zenon
<1>6. QED
  BY <1>1, <1>5, Zenon

\* Without a write, the view only loses what is past its deadline ...
LEMMA AgedView ==
  ASSUME IInv, IInv', alive, alive', now <= now',
         \A k \in Keys : held'[k] = held[k] \/ held'[k] = LiveEntries(held, k, now)
  PROVE  View' = Abstract!AliveAt(View, now')
<1>1. \A k \in Keys : View'[k] = Abstract!AliveAt(View, now')[k]
  BY SameKey, Zenon
<1>2. DOMAIN Abstract!AliveAt(View, now') = Keys
      /\ Abstract!AliveAt(View, now') = [k \in Keys |-> Abstract!AliveAt(View, now')[k]]
  BY Zenon DEF Abstract!AliveAt
<1>3. QED
  BY <1>1, <1>2, ViewType, Zenon

\* ... and does not change as long as the clock stands still.
LEMMA SameView ==
  ASSUME IInv, IInv', alive' = alive, now' = now,
         alive => \A k \in Keys : held'[k] = held[k] \/ held'[k] = LiveEntries(held, k, now)
  PROVE  View' = View
<1>1. CASE alive
  <2>1. now <= now'
    BY DEF IInv, TypeOK
  <2>2. View' = Abstract!AliveAt(View, now')
    BY <1>1, <2>1, AgedView, Zenon
  <2>3. QED
    BY <2>2, SeenIsLive, Zenon
<1>2. CASE ~alive
  BY <1>2, Zenon DEF View
<1>3. QED
  BY <1>1, <1>2, Zenon

\* put(), and get_or_put() once make() has returned.
LEMMA InsertRefines ==
  ASSUME IInv, IInv', NEW k \in Keys, NEW v \in Values, insert(k, v, now),
         alive, alive', now' = now, ret' = <<"put", k>>
  PROVE  Abstract!Put(k, v)
<1>1. PICK y \in (now + expiry_ms)..(now + expiry_ms + segment_ms) :
        held' = [held EXCEPT ![k] = {[seg |-> y, val |-> v]}]
  BY InsertOk, Zenon
<1>. DEFINE W == [View EXCEPT ![k] = [val |-> v, until |-> y]]
<1>2. held \in [Keys -> SUBSET Entry] /\ now \in Nat /\ now <= now' /\ y \in Nat /\ now <= y
  BY <1>1, MemcacheAssumption, SegmentMs, SMTT(120) DEF IInv, TypeOK
<1>3. held'[k] = {[seg |-> y, val |-> v]} /\ \A j \in Keys \ {k} : held'[j] = held[j]
  BY <1>1, <1>2, Zenon
<1>4. W \in Abstract!Stored(View, k, v, now) /\ View' = Abstract!AliveAt(W, now)
  BY <1>1, <1>2, <1>3, WrittenView, Zenon
<1>5. ASSUME NEW j \in Keys PROVE View'[j] = W[j]
  <2>1. CASE j = k
    <3>1. W[k] = [val |-> v, until |-> y]
      BY ViewType, Zenon
    <3>2. W[k].until = y
      BY <3>1
    <3>3. QED
      BY <1>2, <1>4, <2>1, <3>2, Zenon DEF Abstract!AliveAt
  <2>2. CASE j # k
    <3>1. W[j] = View[j]
      BY <2>2, ViewType, Zenon
    <3>2. Abstract!AliveAt(View, now)[j] = View[j]
      BY SeenIsLive, Zenon
    <3>3. QED
      BY <1>4, <3>1, <3>2, Zenon DEF Abstract!AliveAt
  <2>3. QED
    BY <2>1, <2>2, Zenon
<1>6. View' = W
  <2>1. DOMAIN W = Keys /\ W = [j \in Keys |-> W[j]]
    BY ViewType, Zenon
  <2>2. QED
    BY <1>5, <2>1, ViewType, Zenon
<1>7. QED
  BY <1>4, <1>6, Zenon DEF Abstract!Put

\* What the lookups find is what the view shows.
LEMMA TouchedIsSeen ==
  ASSUME IInv, alive, NEW k \in Keys
  PROVE  /\ LiveEntries(held, k, now) = {} => View[k] = None /\ Touched(k) = None
         /\ \A e \in LiveEntries(held, k, now) :
              /\ View[k] # None /\ View[k] = [val |-> e.val, until |-> e.seg]
              /\ Touched(k) = e.val /\ e.val \in Values
<1>0. Sees(k)
  BY ViewOf, Zenon
<1>1. ASSUME LiveEntries(held, k, now) = {} PROVE View[k] = None /\ Touched(k) = None
  BY <1>0, <1>1, Zenon DEF Sees, LiveEntries, Touched
<1>2. ASSUME NEW e \in LiveEntries(held, k, now)
      PROVE  /\ View[k] # None /\ View[k] = [val |-> e.val, until |-> e.seg]
             /\ Touched(k) = e.val /\ e.val \in Values
  <2>1. e \in held[k] /\ now <= e.seg /\ e \in Entry
    BY Zenon DEF LiveEntries, IInv, TypeOK
  <2>2. \A d \in LiveEntries(held, k, now) : d = e
    BY <2>1, Zenon DEF LiveEntries, IInv, OneEntryPerKey
  <2>3. View[k] = [val |-> e.val, until |-> e.seg]
    BY <1>0, <2>1, Zenon DEF Sees
  <2>4. View[k] # None
    BY <2>1, <2>3, MemcacheAssumption DEF Entry
  <2>5. Newest(LiveEntries(held, k, now)) = e
    BY <2>1, <2>2, NewestOne, Zenon DEF Entry
  <2>6. QED
    BY <2>1, <2>3, <2>4, <2>5, Zenon DEF Touched, Entry
<1>3. QED
  BY <1>1, <1>2, Zenon

\* get(), and the lookup of get_or_put() when it misses.
LEMMA TouchRefines ==
  ASSUME IInv, IInv', NEW k \in Keys, now' \in Nat, now <= now', touch(k, now'),
         alive, alive', ret' = <<"get", k, Touched(k)>>
  PROVE  Abstract!Get(k)
<1>0. now \in Nat /\ now' >= now /\ \A j \in Keys : PrunedHeld(now)[j] = LiveEntries(held, j, now)
  BY Zenon DEF PrunedHeld, IInv, TypeOK
<1>1. CASE LiveEntries(held, k, now) = {}
  <2>1. held' = PrunedHeld(now)
    BY <1>1, TouchOk, Zenon
  <2>2. View' = Abstract!AliveAt(View, now')
    BY <1>0, <2>1, AgedView, Zenon
  <2>3. View[k] = None /\ Touched(k) = None
    BY <1>1, TouchedIsSeen, Zenon
  <2>4. QED
    BY <1>0, <2>2, <2>3, Zenon DEF Abstract!Get, Abstract!TimePasses
<1>2. ASSUME NEW e \in LiveEntries(held, k, now) PROVE Abstract!Get(k)
  <2>1. PICK y \in (now' + expiry_ms)..(now' + expiry_ms + segment_ms) :
          held' = [PrunedHeld(now) EXCEPT ![k] = {[seg |-> y, val |-> e.val]}]
    BY TouchOk
  <2>2. /\ held'[k] = {[seg |-> y, val |-> e.val]}
        /\ \A j \in Keys \ {k} : held'[j] = LiveEntries(held, j, now)
    BY <1>0, <2>1, Zenon DEF PrunedHeld
  <2>3. View[k] # None /\ View[k].val = e.val /\ Touched(k) = e.val /\ e.val \in Values
    <3>1. /\ View[k] # None /\ View[k] = [val |-> e.val, until |-> e.seg]
          /\ Touched(k) = e.val /\ e.val \in Values
      BY TouchedIsSeen, Zenon
    <3>2. View[k].val = e.val
      BY <3>1, SMTT(120)
    <3>3. QED
      BY <3>1, <3>2, Zenon
  <2>4. \E w \in Abstract!Stored(View, k, e.val, now') : View' = Abstract!AliveAt(w, now')
    <3>. DEFINE W == [View EXCEPT ![k] = [val |-> e.val, until |-> y]]
    <3>1. W \in Abstract!Stored(View, k, e.val, now') /\ View' = Abstract!AliveAt(W, now')
      BY <2>1, <2>2, <2>3, WrittenView, Zenon
    <3>2. QED
      BY <3>1, Zenon
  <2>5. QED
    BY <1>0, <2>3, <2>4, Zenon DEF Abstract!Get, Abstract!TimePasses
<1>3. QED
  BY <1>1, <1>2, Zenon


\* at() and contains() report what the view shows and change nothing.
LEMMA AtRefines == ASSUME IInv, IInv', NEW k \in Keys, at(k) PROVE Abstract!At(k)
<1>1. alive /\ alive' = alive /\ now' = now /\ held' = held /\ ret' = <<"at", k, Touched(k)>>
  BY Zenon DEF at, Callable, cache_vars, loop_vars
<1>2. View' = View
  BY <1>1, SameView, Zenon
<1>3. Touched(k) = IF View[k] = None THEN None ELSE View[k].val
  <2>1. CASE LiveEntries(held, k, now) = {}
    BY <1>1, <2>1, TouchedIsSeen, Zenon
  <2>2. ASSUME NEW e \in LiveEntries(held, k, now)
        PROVE  Touched(k) = IF View[k] = None THEN None ELSE View[k].val
    <3>1. View[k] # None /\ View[k] = [val |-> e.val, until |-> e.seg] /\ Touched(k) = e.val
      BY <1>1, TouchedIsSeen, Zenon
    <3>2. View[k].val = e.val
      BY <3>1, SMTT(120)
    <3>3. QED
      BY <3>1, <3>2, Zenon
  <2>3. QED
    BY <2>1, <2>2, Zenon
<1>4. QED
  BY <1>1, <1>2, <1>3, Zenon DEF Abstract!At

\* visit() replaces the value and keeps the deadline.
LEMMA VisitRefines ==
  ASSUME IInv, IInv', NEW k \in Keys, NEW v \in Values, visit(k, v)
  PROVE  Abstract!Visit(k, v)
<1>. DEFINE E == LiveEntries(held, k, now)
<1>0. alive /\ alive' = alive /\ now' = now /\ ret' = <<"visit", k, E # {}>>
  BY Zenon DEF visit, Callable, loop_vars
<1>1. CASE E = {}
  <2>1. held' = held
    BY <1>1, Zenon DEF visit
  <2>2. View' = View /\ View[k] = None
    BY <1>0, <1>1, <2>1, SameView, TouchedIsSeen, Zenon
  <2>3. QED
    BY <1>0, <1>1, <2>2, Zenon DEF Abstract!Visit
<1>2. ASSUME NEW e \in E PROVE Abstract!Visit(k, v)
  <2>1. e \in held[k] /\ e \in Entry /\ held[k] = {e} /\ now <= e.seg /\ held \in [Keys -> SUBSET Entry]
    BY DEF IInv, TypeOK, OneEntryPerKey, LiveEntries
  <2>2. Newest(E) = e
    BY <2>1, NewestOne, Zenon DEF LiveEntries, Entry
  <2>. DEFINE d == [e EXCEPT !.val = v]
  <2>3. d.seg = e.seg /\ d.val = v
    BY <2>1, Zenon DEF Entry
  <2>4. held' = [held EXCEPT ![k] = {d}]
    BY <2>1, <2>2, Zenon DEF visit
  <2>. HIDE DEF d
  <2>5. d \in held'[k] /\ \A j \in Keys \ {k} : held'[j] = held[j]
    BY <2>1, <2>4, Zenon
  <2>6. View[k] # None /\ View[k] = [val |-> e.val, until |-> e.seg]
    BY <1>0, TouchedIsSeen, Zenon
  <2>7. View'[k] = [val |-> v, until |-> e.seg]
    <3>1. Sees(k)'
      BY ViewOfNext, Zenon
    <3>2. View'[k] = [val |-> d.val, until |-> d.seg]
      BY <1>0, <2>1, <2>3, <2>5, <3>1, Zenon DEF Sees
    <3>3. QED
      BY <2>3, <3>2, Zenon
  <2>8. ASSUME NEW j \in Keys, j # k PROVE View'[j] = View[j]
    <3>1. now <= now'
      BY <1>0 DEF IInv, TypeOK
    <3>2. View'[j] = Abstract!AliveAt(View, now')[j]
      BY <1>0, <2>5, <2>8, <3>1, SameKey, Zenon
    <3>3. QED
      BY <1>0, <3>2, SeenIsLive, Zenon
  <2>9. View' = [View EXCEPT ![k].val = v]
    <3>. DEFINE W == [View EXCEPT ![k].val = v]
    <3>1. W[k] = [val |-> v, until |-> e.seg]
      BY <2>6, ViewType
    <3>2. \A j \in Keys : View'[j] = W[j]
      BY <2>7, <2>8, <3>1, ViewType, Zenon
    <3>3. DOMAIN W = Keys /\ W = [j \in Keys |-> W[j]]
      BY ViewType, Zenon
    <3>4. QED
      BY <3>2, <3>3, ViewType, Zenon
  <2>10. E # {}
    BY Zenon
  <2>11. QED
    BY <1>0, <2>6, <2>9, <2>10, Zenon DEF Abstract!Visit
<1>3. QED
  BY <1>1, <1>2, Zenon

\* erase() hides the key; a live entry is always reported as found.
LEMMA EraseRefines == ASSUME IInv, IInv', NEW k \in Keys, erase(k) PROVE Abstract!Erase(k)
<1>0. /\ alive /\ alive' = alive /\ now' = now
      /\ ret' = <<"erase", k, held[k] # {}>> /\ held' = [held EXCEPT ![k] = {}]
  BY Zenon DEF erase, Callable, loop_vars
<1>1. held \in [Keys -> SUBSET Entry] /\ now <= now'
  BY <1>0 DEF IInv, TypeOK
<1>2. View'[k] = None
  <2>1. Sees(k)'
    BY ViewOfNext, Zenon
  <2>2. held'[k] = {}
    BY <1>0, <1>1, Zenon
  <2>3. QED
    BY <2>1, <2>2, Zenon DEF Sees
<1>3. ASSUME NEW j \in Keys, j # k PROVE View'[j] = View[j]
  <2>1. held'[j] = held[j]
    BY <1>0, <1>1, <1>3, Zenon
  <2>2. View'[j] = Abstract!AliveAt(View, now')[j]
    BY <1>0, <1>1, <2>1, SameKey, Zenon
  <2>3. QED
    BY <1>0, <2>2, SeenIsLive, Zenon
<1>4. View' = [View EXCEPT ![k] = None]
  BY <1>2, <1>3, ViewType, Zenon
<1>5. View[k] # None => held[k] # {}
  BY ViewOf, Zenon DEF Sees
<1>6. QED
  BY <1>0, <1>4, <1>5, Zenon DEF Abstract!Erase


\* size() counts what the view shows: each key that is seen has one entry, in
\* one segment.
LEMMA SizeRefines == ASSUME IInv, IInv', size PROVE Abstract!Size
<1>. DEFINE P == {p \in Keys \X segs : now <= p[2] /\ \E e \in held[p[1]] : e.seg = p[2]}
            L == {k \in Keys : View[k] # None}
            f == [k \in L |-> <<k, View[k].until>>]
<1>0. alive /\ alive' = alive /\ now' = now /\ held' = held /\ ret' = <<"size", Cardinality(P)>>
  BY Zenon DEF size, Callable, cache_vars, loop_vars
<1>1. View' = View
  BY <1>0, SameView, Zenon
<1>2. ASSUME NEW k \in Keys, NEW e \in held[k], now <= e.seg
      PROVE  View[k] # None /\ View[k].until = e.seg /\ e.seg \in segs
  <2>1. e \in LiveEntries(held, k, now)
    BY <1>2, Zenon DEF LiveEntries
  <2>2. View[k] # None /\ View[k] = [val |-> e.val, until |-> e.seg]
    BY <1>0, <2>1, TouchedIsSeen, Zenon
  <2>3. View[k].until = e.seg
    BY <2>2, SMTT(120)
  <2>4. QED
    BY <2>2, <2>3, Zenon DEF IInv, TypeOK
<1>3. ASSUME NEW k \in L
      PROVE  k \in Keys /\ <<k, View[k].until>> \in P
  <2>1. PICK e \in held[k] : now <= e.seg
    BY ViewOf, Zenon DEF Sees
  <2>2. k \in Keys /\ View[k].until = e.seg /\ e.seg \in segs
    BY <1>2, <2>1, Zenon
  <2>3. QED
    BY <2>1, <2>2, Zenon
<1>4. ASSUME NEW p \in P PROVE p[1] \in L /\ f[p[1]] = p
  <2>1. p = <<p[1], p[2]>> /\ p[1] \in Keys /\ now <= p[2]
    OBVIOUS
  <2>2. PICK e \in held[p[1]] : e.seg = p[2]
    BY Zenon
  <2>3. View[p[1]] # None /\ View[p[1]].until = p[2]
    BY <1>2, <2>1, <2>2, Zenon
  <2>4. p[1] \in L
    BY <2>1, <2>3, Zenon
  <2>5. f[p[1]] = <<p[1], View[p[1]].until>>
    BY <2>4, Zenon
  <2>6. QED
    BY <2>1, <2>3, <2>4, <2>5, Zenon
<1>5. IsFiniteSet(L)
  BY MemcacheAssumption, FS_Subset, Zenon
<1>6. Cardinality(P) = Cardinality(L)
  <2>1. \A k \in L : f[k] = <<k, View[k].until>> /\ f[k] \in P
    BY <1>3, Zenon
  <2>2. f \in [L -> P]
    BY <1>3, Zenon
  <2>. HIDE DEF f, L, P
  <2>3. f \in Bijection(L, P)
    BY <1>4, <2>1, <2>2 DEF Bijection, Injection, Surjection, IsInjective
  <2>4. ExistsBijection(L, P)
    BY <2>3, Zenon DEF ExistsBijection
  <2>5. QED
    BY <1>5, <2>4, FS_Bijection, Zenon
<1>7. Abstract!Live = L
  BY Zenon DEF Abstract!Live
<1>. HIDE DEF P, L, f
<1>8. ret' = <<"size", Cardinality(Abstract!Live)>>
  BY <1>0, <1>6, <1>7, Zenon
<1>9. QED
  BY <1>0, <1>1, <1>8, Zenon DEF Abstract!Size, Abstract!Cardinality, Cardinality

\* The calls of the user.
LEMMA CallRefines == ASSUME IInv, IInv', Call PROVE Abstract!Next
<1>0. now \in Nat /\ MaxDelay \in Nat
  BY MemcacheAssumption, Zenon DEF IInv, TypeOK
<1>1. ASSUME NEW k \in Keys, NEW v \in Values, put(k, v) PROVE Abstract!Put(k, v)
  BY <1>1, InsertRefines, Zenon DEF put, Callable, loop_vars
<1>2. ASSUME NEW k \in Keys, NEW n \in now..(now + MaxDelay), get(k, n) PROVE Abstract!Get(k)
  <2>1. /\ now' = n /\ touch(k, now') /\ alive /\ alive'
        /\ ret' = <<"get", k, Touched(k)>>
    BY <1>2, Zenon DEF get, Callable, loop_vars
  <2>2. now' \in Nat /\ now <= now'
    BY <1>0, <2>1
  <2>3. QED
    BY <2>1, <2>2, TouchRefines, Zenon
<1>3. ASSUME NEW c \in Callers, NEW k \in Keys, get_or_put_miss(c, k) PROVE Abstract!Get(k)
  <2>1. /\ now' = now /\ touch(k, now') /\ alive /\ alive' /\ LiveEntries(held, k, now) = {}
        /\ ret' = <<"get", k, None>>
    BY <1>3, Zenon DEF get_or_put_miss, Callable, loop_vars
  <2>2. ret' = <<"get", k, Touched(k)>>
    BY <2>1, TouchedIsSeen, Zenon
  <2>3. now' \in Nat /\ now <= now'
    BY <1>0, <2>1
  <2>4. QED
    BY <2>1, <2>2, <2>3, TouchRefines, Zenon
<1>4. ASSUME clear PROVE Abstract!Clear
  <2>1. View' = [k \in Keys |-> None]
    BY <1>4, Zenon DEF clear, View, LiveEntries
  <2>2. QED
    BY <1>4, <2>1, Zenon DEF clear, Callable, loop_vars, Abstract!Clear
<1>5. \/ \E k \in Keys :
           \/ \E v \in Values : Abstract!Put(k, v) \/ Abstract!Visit(k, v)
           \/ Abstract!Get(k) \/ Abstract!At(k) \/ Abstract!Erase(k)
      \/ Abstract!Clear \/ Abstract!Size
  <2>1. CASE \E k \in Keys, v \in Values : put(k, v) \/ visit(k, v)
    BY <1>1, <2>1, VisitRefines, Zenon
  <2>2. CASE \E k \in Keys, n \in now..(now + MaxDelay) : get(k, n)
    BY <1>2, <2>2, Zenon
  <2>3. CASE \E k \in Keys : at(k) \/ erase(k) \/ \E c \in Callers : get_or_put_miss(c, k)
    BY <1>3, <2>3, AtRefines, EraseRefines, Zenon
  <2>4. CASE clear \/ size
    BY <1>4, <2>4, SizeRefines, Zenon
  <2>5. QED
    BY <2>1, <2>2, <2>3, <2>4, Zenon DEF Call
<1>6. QED
  BY <1>5, Zenon DEF Abstract!Next

\* The rest: make() returns, time passes, the cache ends, or the pruning loop
\* makes a step that nobody sees.
LEMMA BackgroundRefines ==
  ASSUME IInv, IInv', (\E c \in Callers : MakeReturns(c)) \/ PruneLoop \/ release \/ tick
                      \/ Done \/ UNCHANGED vars
  PROVE  Abstract!Next \/ UNCHANGED Abstract!vars
<1>1. ASSUME NEW c \in Callers, NEW v \in Values, get_or_put_insert(c, v) PROVE Abstract!Next
  <2>1. making[c] \in Keys /\ alive
    BY <1>1, Zenon DEF get_or_put_insert, IInv, TypeOK, Making
  <2>2. Abstract!Put(making[c], v)
    BY <1>1, <2>1, InsertRefines, Zenon DEF get_or_put_insert, loop_vars
  <2>3. QED
    BY <2>1, <2>2, Zenon DEF Abstract!Next
<1>2. CASE (\E c \in Callers : make_throws(c)) \/ prune_due \/ prune_end \/ UNCHANGED vars
  <2>1. held' = held /\ now' = now /\ alive' = alive /\ ret' = ret
    BY <1>2, Zenon DEF make_throws, prune_due, prune_end, vars, cache_vars, loop_vars
  <2>2. View' = View
    BY <2>1, SameView, Zenon
  <2>3. QED
    BY <2>1, <2>2, Zenon DEF Abstract!vars
<1>3. CASE prune
  <2>1. now' = now /\ alive' = alive /\ ret' = ret /\ (alive => held' = PrunedHeld(now))
    BY <1>3, Zenon DEF prune
  <2>2. View' = View
    BY <2>1, SameView, Zenon DEF PrunedHeld
  <2>3. QED
    BY <2>1, <2>2, Zenon DEF Abstract!vars
<1>4. CASE release
  <2>1. View' = [k \in Keys |-> None]
    BY <1>4, Zenon DEF release, View
  <2>2. QED
    BY <1>4, <2>1, Zenon DEF release, Abstract!Destroy, Abstract!Next
<1>5. CASE tick
  <2>1. now \in Nat /\ now' = now + 1 /\ held' = held /\ ret' = ret /\ alive' = alive
    BY <1>5, Zenon DEF tick, IInv, TypeOK, cache_vars, loop_vars
  <2>2. now' \in Nat /\ now' >= now /\ now <= now'
    BY <2>1
  <2>3. View' = Abstract!AliveAt(View, now')
    <3>1. CASE alive
      BY <2>1, <2>2, <3>1, AgedView, Zenon
    <3>2. CASE ~alive
      BY <2>1, <3>2, Zenon DEF View, Abstract!AliveAt
    <3>3. QED
      BY <3>1, <3>2, Zenon
  <2>4. QED
    BY <2>1, <2>2, <2>3, Zenon DEF Abstract!Tick, Abstract!TimePasses, Abstract!Next
<1>6. QED
  BY <1>1, <1>2, <1>3, <1>4, <1>5, Zenon DEF MakeReturns, PruneLoop, Done

\* The segmented cache implements the map with deadlines: what any sequence of
\* calls of any number of callers returns, and how long entries live, is what
\* TtlCache allows, for every lifetime and number of segments.
THEOREM CacheRefines == Spec => CacheSpec
<1>1. IInv /\ IInv' /\ [Next]_vars => [Abstract!Next]_(Abstract!vars)
  BY CallRefines, BackgroundRefines, Zenon DEF Next
<1>2. QED
  BY <1>1, InitRefines, InductiveInvariant, PTL DEF Spec, CacheSpec, Abstract!Spec

=============================================================================
