----------------------------- MODULE Memcache ------------------------------
(***************************************************************************)
(* asyik::memcache: a cache made of disposable segments.  map_list is kept *)
(* here by key: segs is the set of its segments, each named by the time it *)
(* expires, and held[k] the set of entries for k in any of them.  Every    *)
(* member function runs under mtx in make_memcache_mt(); only get_or_put   *)
(* calls back user code (make()), which may take any time.  Some functions *)
(* read the clock twice; the second reading is the parameter n.            *)
(***************************************************************************)
EXTENDS Naturals, FiniteSets

CONSTANTS
  Keys, Values, None,
  Callers,       \* threads or fibers that call get_or_put
  multi_thread,  \* thread_policy: does a function hold mtx while it runs?
  expiry_ms,     \* entry lifetime
  segments,      \* template parameter
  MaxTime,       \* bound on the clock
  MaxDelay       \* bound on the time between two clock readings of a call

ASSUME MemcacheAssumption ==
  /\ IsFiniteSet(Keys)
  /\ None \notin Keys \cup Values \cup [val : Values, until : Nat]
  /\ multi_thread \in BOOLEAN
  /\ expiry_ms \in Nat /\ segments \in Nat \ {0}
  /\ MaxTime \in Nat /\ MaxDelay \in Nat

segment_ms == expiry_ms \div segments

VARIABLES
  segs,        \* the keys of map_list
  held,        \* held[k]: the entries for k, each with the segment it is in
  now,         \* steady_clock in ms
  ret,         \* what the last call returned
  making,      \* making[c]: the key whose make() caller c is running, or None
  next_prune,  \* of the background pruning loop
  alive,       \* somebody holds a shared_ptr to the cache
  pruner       \* the pruning loop: "running" or "ended"

cache_vars == <<segs, held>>
loop_vars == <<next_prune, alive, pruner>>
vars == <<segs, held, now, ret, making, next_prune, alive, pruner>>

Entry == [seg : Nat, val : Values]

Init ==
  /\ segs = {}
  /\ held = [k \in Keys |-> {}]
  /\ now = 0
  /\ ret = <<"none">>
  /\ making = [c \in Callers |-> None]
  /\ next_prune = segment_ms
  /\ alive = TRUE
  /\ pruner = "running"

\* Mutant of Unlocked: get_or_put releases mtx while make() runs.
UnlockedForMake == TRUE

\* mtx can be locked, or there is none.
Unlocked == multi_thread => \A c \in Callers : making[c] = None

Callable == alive /\ Unlocked

-----------------------------------------------------------------------------
(***************************************************************************)
(* The private helpers, as functions of the segments S, the entries h and  *)
(* a clock reading n.                                                      *)
(***************************************************************************)

\* map_list.begin() is the segment that expires last.
Begin(S) == CHOOSE s \in S : \A t \in S : t <= s

\* Lookup goes from the youngest segment to the oldest.
Newest(E) == CHOOSE e \in E : \A d \in E : d.seg <= e.seg

\* Mutant of youngest_segment: compares with the end of a new segment.
youngest_segment_eager(S, n) ==
  LET expiry_at == n + expiry_ms
  IN  IF \A s \in S : s < expiry_at + segment_ms THEN expiry_at + segment_ms ELSE Begin(S)

\* The segment for entries stored at n: begin() if it lives a full lifetime.
youngest_segment(S, n) ==
  LET expiry_at == n + expiry_ms
  IN  IF \A s \in S : s < expiry_at THEN expiry_at + segment_ms ELSE Begin(S)

\* The entries find_live may return: the loop breaks at an expired segment.
LiveEntries(h, k, n) == {e \in h[k] : n <= e.seg}

\* std::map::emplace into segment s does not replace an entry it holds.
Emplaced(E, s, v) ==
  IF \E e \in E : e.seg = s THEN E ELSE E \cup {[seg |-> s, val |-> v]}

\* insert(): erase k from every segment, then store it in the youngest one.
insert(k, v, n) ==
  LET young == youngest_segment(segs, n)
  IN  /\ segs' = segs \cup {young}
      /\ held' = [held EXCEPT ![k] = Emplaced({}, young, v)]

\* prune() at n: the segments that have expired go with their entries.
PrunedSegs(n) == {s \in segs : n <= s}
PrunedHeld(n) == [k \in Keys |-> LiveEntries(held, k, n)]

\* Mutant of touch: finds the entry and leaves it where it is.
touch_unmoved(k, n) == segs' = PrunedSegs(now) /\ held' = PrunedHeld(now)

\* touch(): prune at now, then move the entry of k to the segment that is the
\* youngest at n.
touch(k, n) ==
  LET S == PrunedSegs(now)
      h == PrunedHeld(now)
      e == Newest(h[k])
      young == youngest_segment(S, n)
  IN  IF h[k] = {}
      THEN segs' = S /\ held' = h
      ELSE /\ segs' = S \cup {young}
           /\ held' = IF young = e.seg THEN h
                      ELSE [h EXCEPT ![k] = Emplaced(@, young, e.val) \ {e}]

\* What touch returns.
Touched(k) ==
  LET E == LiveEntries(held, k, now)
  IN  IF E = {} THEN None ELSE Newest(E).val

-----------------------------------------------------------------------------
(***************************************************************************)
(* The member functions                                                    *)
(***************************************************************************)

put(k, v) ==
  /\ Callable
  /\ insert(k, v, now)
  /\ ret' = <<"put", k>>
  /\ UNCHANGED <<now, making, loop_vars>>

\* get() and try_get(): a miss is an exception or nullopt.
get(k, n) ==
  /\ Callable
  /\ now' = n
  /\ touch(k, n)
  /\ ret' = <<"get", k, Touched(k)>>
  /\ UNCHANGED <<making, loop_vars>>

\* at() and contains()
at(k) ==
  /\ Callable
  /\ ret' = <<"at", k, Touched(k)>>
  /\ UNCHANGED <<cache_vars, now, making, loop_vars>>

\* visit(): the callback replaces the value of the entry find_live returns.
visit(k, v) ==
  LET E == LiveEntries(held, k, now)
  IN  /\ Callable
      /\ held' = IF E = {} THEN held
                 ELSE [held EXCEPT ![k] = (@ \ {Newest(E)})
                                          \cup {[Newest(E) EXCEPT !.val = v]}]
      /\ ret' = <<"visit", k, E # {}>>
      /\ UNCHANGED <<segs, now, making, loop_vars>>

\* erase() also finds entries that have expired and are not pruned yet.
erase(k) ==
  /\ Callable
  /\ held' = [held EXCEPT ![k] = {}]
  /\ ret' = <<"erase", k, held[k] # {}>>
  /\ UNCHANGED <<segs, now, making, loop_vars>>

clear ==
  /\ Callable
  /\ segs' = {}
  /\ held' = [k \in Keys |-> {}]
  /\ ret' = <<"clear">>
  /\ UNCHANGED <<now, making, loop_vars>>

\* size(): the sizes of the segments up to the first expired one.
size ==
  /\ Callable
  /\ ret' = <<"size", Cardinality({p \in Keys \X segs :
                         now <= p[2] /\ \E e \in held[p[1]] : e.seg = p[2]})>>
  /\ UNCHANGED <<cache_vars, now, making, loop_vars>>

\* get_or_put(): a hit is get(); a miss prunes and runs make() under mtx ...
get_or_put_miss(c, k) ==
  /\ Callable
  /\ making[c] = None
  /\ LiveEntries(held, k, now) = {}
  /\ touch(k, now)
  /\ making' = [making EXCEPT ![c] = k]
  /\ ret' = <<"get", k, None>>
  /\ UNCHANGED <<now, loop_vars>>

\* ... whose result is then inserted, at the time make() returned ...
get_or_put_insert(c, v) ==
  /\ making[c] # None
  /\ insert(making[c], v, now)
  /\ making' = [making EXCEPT ![c] = None]
  /\ ret' = <<"put", making[c]>>
  /\ UNCHANGED <<now, loop_vars>>

\* ... unless make() throws.
make_throws(c) ==
  /\ making[c] # None
  /\ making' = [making EXCEPT ![c] = None]
  /\ UNCHANGED <<cache_vars, now, ret, loop_vars>>

-----------------------------------------------------------------------------
(***************************************************************************)
(* The pruning loop of make_memcache and make_memcache_mt.  It holds a     *)
(* weak_ptr, and a shared_ptr only while pruner = "due".                   *)
(***************************************************************************)

\* Mutant of prune_due: the next round is a lifetime away.
prune_due_late ==
  /\ pruner = "running" /\ alive
  /\ now >= next_prune
  /\ next_prune' = now + expiry_ms + segment_ms
  /\ pruner' = "due"
  /\ UNCHANGED <<cache_vars, now, ret, making, alive>>

\* A slice of sleep is over, the cache is there, and it is time to prune.
prune_due ==
  /\ pruner = "running" /\ alive
  /\ now >= next_prune
  /\ next_prune' = now + segment_ms
  /\ pruner' = "due"
  /\ UNCHANGED <<cache_vars, now, ret, making, alive>>

\* mtx is locked: prune() at the time that is now.
prune ==
  /\ pruner = "due" /\ Unlocked
  /\ segs' = IF alive THEN PrunedSegs(now) ELSE {}
  /\ held' = IF alive THEN PrunedHeld(now) ELSE [k \in Keys |-> {}]
  /\ pruner' = "running"
  /\ UNCHANGED <<now, ret, making, next_prune, alive>>

\* Mutant of prune_end: the step returns true when lock() fails.
prune_end_never ==
  /\ pruner = "running" /\ ~alive
  /\ UNCHANGED vars

\* weak_ptr::lock() fails: the loop, and with it its fiber, ends.
prune_end ==
  /\ pruner = "running" /\ ~alive
  /\ pruner' = "ended"
  /\ UNCHANGED <<cache_vars, now, ret, making, next_prune, alive>>

\* The user drops the last shared_ptr; no call is in progress then.
release ==
  /\ alive
  /\ \A c \in Callers : making[c] = None
  /\ alive' = FALSE
  /\ IF pruner = "due" THEN UNCHANGED cache_vars
     ELSE segs' = {} /\ held' = [k \in Keys |-> {}]
  /\ UNCHANGED <<now, ret, making, next_prune, pruner>>

tick ==
  /\ now < MaxTime
  /\ now' = now + 1
  /\ UNCHANGED <<cache_vars, ret, making, loop_vars>>

Call ==
  \/ \E k \in Keys :
       \/ \E v \in Values : put(k, v) \/ visit(k, v)
       \/ \E n \in now..(now + MaxDelay) : n <= MaxTime /\ get(k, n)
       \/ at(k) \/ erase(k)
       \/ \E c \in Callers : get_or_put_miss(c, k)
  \/ clear \/ size

MakeReturns(c) == make_throws(c) \/ \E v \in Values : get_or_put_insert(c, v)

PruneLoop == prune_due \/ prune \/ prune_end

\* The program may leave the cache alone, and the clock stops at MaxTime.
Done == now = MaxTime /\ UNCHANGED vars

Next ==
  \/ Call
  \/ \E c \in Callers : MakeReturns(c)
  \/ PruneLoop \/ release \/ tick
  \/ Done

Spec == Init /\ [][Next]_vars

\* The loop's sleeps return, make() returns, and time passes.
FairSpec ==
  /\ Spec
  /\ WF_vars(PruneLoop) /\ WF_vars(tick)
  /\ \A c \in Callers : WF_vars(MakeReturns(c))

-----------------------------------------------------------------------------
TypeOK ==
  /\ segs \in SUBSET Nat
  /\ held \in [Keys -> SUBSET Entry]
  /\ now \in Nat
  /\ making \in [Callers -> Keys \cup {None}]
  /\ next_prune \in Nat
  /\ alive \in BOOLEAN
  /\ pruner \in {"running", "due", "ended"}
  /\ \A k \in Keys : \A e \in held[k] : e.seg \in segs

\* A key has at most one entry, however often insert() and touch() moved it
\* from segment to segment: no older value can come back when the newer one
\* is erased or expires, and size() counts no key twice.
OneEntryPerKey ==
  \A k \in Keys : \A d, e \in held[k] : d = e

\* Segments are further apart than segment_ms, and none outlives a full
\* lifetime plus one partition: a cache that is pruned has at most about
\* expiry_ms / segment_ms + 1 of them, whatever the rate of its writes.
SegmentsApart ==
  /\ \A s, t \in segs : s < t => t - s > segment_ms
  /\ \A s \in segs : s <= now + expiry_ms + segment_ms

\* Concurrent callers of get_or_put() on a multi-thread cache never both
\* create the value: what make() returned never replaces an entry that is
\* there, although other calls and time went by while it ran.
CreatedOnce ==
  [][\A c \in Callers :
       (multi_thread /\ making[c] # None /\ making'[c] = None) =>
          LiveEntries(held, making[c], now) = {}]_vars

\* What the caller of the cache sees: the live entry of a key with the
\* expiry of its segment as the deadline.
View ==
  [k \in Keys |->
     LET E == LiveEntries(held, k, now)
     IN  IF alive /\ E # {} THEN [val |-> Newest(E).val, until |-> Newest(E).seg]
         ELSE None]

Abstract == INSTANCE TtlCache WITH
  Expiry <- expiry_ms, Slack <- segment_ms, entry <- View

\* The segmented cache implements the map with deadlines: every call returns
\* what the map returns, an entry lives at least expiry_ms and at most
\* segment_ms longer after it was stored or extended, and neither the pruning
\* loop nor a move between segments is visible.
CacheSpec == Abstract!Spec

\* The pruning loop frees every segment that has expired, even if no call
\* ever prunes again ...
ExpiredFreed ==
  \A s \in 0..(MaxTime - segment_ms - 1) : (s \in segs) ~> (s \notin segs)

\* ... and its fiber ends once the cache is gone, so that it neither leaks nor
\* keeps run(true) from returning.
LoopEnds == ~alive ~> pruner = "ended"

=============================================================================
