----------------------------- MODULE RateLimit -----------------------------
(***************************************************************************)
(* asyik::rate_limit over rate_limit_memory: leaky buckets whose quotas    *)
(* live in a memcache (make_memcache_mt), which is used here through what  *)
(* it promises, TtlCache.  A checkpoint holds the limiter's mtx and calls  *)
(* the cache twice; reset() calls it without mtx.  MsPerSec and ExpirySec  *)
(* stand for the literals 1000 and 100, ClockMod for 2^32.  The clock the  *)
(* code reads began to count Boot ms before the limiter was made.          *)
(***************************************************************************)
EXTENDS Integers, FiniteSets, FiniteSetsExt

CONSTANTS
  Hashes, Callers, None,
  Points,               \* the points a checkpoint may ask for
  Buckets,              \* the <<max_bucket, rate>> a limiter may be made with
  MsPerSec, ExpirySec, Segments, ClockMod, Boot,
  MaxStall,             \* bound on the time a call takes from its clock reading on
  MaxTime

Quota == [remaining : Nat, current_ms : 0..(ClockMod - 1)]

ASSUME RateAssumption ==
  /\ Buckets \subseteq Nat \X (Nat \ {0})
  /\ Points \subseteq Nat
  /\ {MsPerSec, ExpirySec, Segments, ClockMod} \subseteq Nat \ {0}
  /\ {Boot, MaxStall, MaxTime} \subseteq Nat
  /\ None \notin Quota \cup [val : Quota, until : Nat]

VARIABLES
  max_bucket, rate,
  entry, now, ret, alive,  \* the cache, which the limiter owns
  call,     \* call[c]: the frame of c's call that holds mtx, or None
  ideal,    \* history: an exact bucket, see below
  granted,  \* history: tokens granted since the last reset, at most max_bucket
  was_reset \* history: reset() has been called

cache_vars == <<entry, now, ret, alive>>
members == <<max_bucket, rate>>
history == <<ideal, granted, was_reset>>
vars == <<max_bucket, rate, entry, now, ret, alive, call, ideal, granted, was_reset>>

cache == INSTANCE TtlCache WITH
  Keys <- Hashes, Values <- Quota,
  Expiry <- ExpirySec * MsPerSec, Slack <- (ExpirySec * MsPerSec) \div Segments

\* The exact bucket refills by rate units per ms, a token being MsPerSec
\* units, and holds max_bucket tokens; lvl is its level at time at.
Full == max_bucket * MsPerSec

IdealAt(h, t) ==
  IF t <= ideal[h].at THEN ideal[h].lvl
  ELSE Min({Full, ideal[h].lvl + (t - ideal[h].at) * rate})

\* The constructor throws if the bucket cannot refill before it is forgotten.
Init ==
  /\ \E b \in Buckets : b[1] <= b[2] * ExpirySec /\ max_bucket = b[1] /\ rate = b[2]
  /\ entry = [h \in Hashes |-> None]
  /\ now = 0
  /\ ret = <<"none">>
  /\ alive = TRUE
  /\ call = [c \in Callers |-> None]
  /\ ideal = [h \in Hashes |-> [lvl |-> Full, at |-> 0]]
  /\ granted = [h \in Hashes |-> 0]
  /\ was_reset = FALSE

\* Mutant of Unlocked: the limiter has no mutex.
NoMutex == TRUE

Unlocked == \A c \in Callers : call[c] = None

\* checkpoint() and get_remaining() lock mtx and read the clock.
Begin(c, h, p, store) ==
  /\ Unlocked
  /\ call[c] = None
  /\ call' = [call EXCEPT ![c] =
       [pc |-> "lookup", hash |-> h, point |-> p, store |-> store, time |-> now,
        remaining |-> 0, current_ms |-> 0]]
  /\ UNCHANGED <<members, cache_vars, history>>

checkpoint(c) == \E h \in Hashes, p \in Points : Begin(c, h, p, TRUE)
get_remaining(c) == \E h \in Hashes : Begin(c, h, 0, FALSE)

\* A stored quota brought up to now_ms.
Recovered(q, now_ms) ==
  LET distance_ms == (now_ms - q.current_ms) % ClockMod
      recovered_quota == (distance_ms * rate) \div MsPerSec
      spent_ms == (recovered_quota * MsPerSec + rate - 1) \div rate
  IN  IF recovered_quota = 0 THEN q
      ELSE IF q.remaining + recovered_quota >= max_bucket
      THEN [remaining |-> max_bucket, current_ms |-> now_ms]
      ELSE [remaining |-> q.remaining + recovered_quota,
            current_ms |-> (q.current_ms + spent_ms) % ClockMod]

\* get_quota() is cache->get(); what it throws means a full bucket.
get_remaining_int(c) ==
  LET f == call[c]
      now_ms == (Boot + f.time) % ClockMod
  IN  /\ f # None /\ f.pc = "lookup"
      /\ now' = now /\ cache!Get(f.hash)
      /\ \E q \in {IF ret'[3] = None
                   THEN [remaining |-> max_bucket, current_ms |-> now_ms]
                   ELSE Recovered(ret'[3], now_ms)} :
           call' = [call EXCEPT ![c] = [f EXCEPT !.pc = "got", !.remaining = q.remaining,
                                                 !.current_ms = q.current_ms]]
      /\ UNCHANGED <<members, history>>

\* get_remaining() returns; mtx is unlocked.
Return(c) ==
  /\ call[c] # None /\ call[c].pc = "got" /\ ~call[c].store
  /\ call' = [call EXCEPT ![c] = None]
  /\ UNCHANGED <<members, cache_vars, history>>

\* The rest of checkpoint(): grant what is there and store the remainder.
put_quota(c) ==
  LET f == call[c]
      point == Min({f.point, f.remaining})
  IN  /\ f # None /\ f.pc = "got" /\ f.store
      /\ cache!Put(f.hash, [remaining |-> f.remaining - point, current_ms |-> f.current_ms])
      /\ call' = [call EXCEPT ![c] = None]
      /\ ideal' = [ideal EXCEPT ![f.hash] =
                     [lvl |-> IdealAt(f.hash, f.time) - point * MsPerSec, at |-> f.time]]
      /\ granted' = [granted EXCEPT ![f.hash] = Min({max_bucket, @ + point})]
      /\ UNCHANGED <<members, was_reset>>

\* reset() clears the store; mtx is not taken.
reset ==
  /\ cache!Clear
  /\ ideal' = [h \in Hashes |-> [lvl |-> Full, at |-> now]]
  /\ granted' = [h \in Hashes |-> 0]
  /\ was_reset' = TRUE
  /\ UNCHANGED <<members, call>>

tick ==
  /\ now < MaxTime
  /\ \A c \in Callers : call[c] # None => now - call[c].time < MaxStall
  /\ now' = now + 1
  /\ cache!Tick
  /\ UNCHANGED <<members, call, history>>

\* No call need ever be made, and the clock stops at MaxTime.
Done == now = MaxTime /\ UNCHANGED vars

Next ==
  \/ \E c \in Callers :
       \/ checkpoint(c) \/ get_remaining(c)
       \/ get_remaining_int(c) \/ Return(c) \/ put_quota(c)
  \/ reset \/ tick \/ Done

Spec == Init /\ [][Next]_vars

-----------------------------------------------------------------------------
Frame == [pc : {"lookup", "got"}, hash : Hashes, point : Points \cup {0}, store : BOOLEAN,
          time : 0..MaxTime, remaining : 0..max_bucket, current_ms : 0..(ClockMod - 1)]

TypeOK ==
  /\ entry \in [Hashes -> [val : Quota, until : Nat] \cup {None}]
  /\ now \in 0..MaxTime
  /\ call \in [Callers -> Frame \cup {None}]
  /\ granted \in [Hashes -> 0..max_bucket]
  /\ \A h \in Hashes : ideal[h].at \in 0..MaxTime /\ ideal[h].lvl <= Full
  /\ <<max_bucket, rate>> \in Buckets /\ was_reset \in BOOLEAN
  /\ \A h \in Hashes : entry[h] # None => entry[h].val.remaining <= max_bucket

\* A bucket that is forgotten would be full again, although a call may read
\* the clock MaxStall ms before it finds that the entry is gone.
RefillsInTime == Full + (MaxStall - 1) * rate <= ExpirySec * MsPerSec * rate

\* The limiter never grants a whole token that the exact bucket does not
\* have, whatever it lost to rounding, cache expiry (a forgotten bucket is
\* a full one), concurrent resets and turns of the 32-bit clock.  If rate
\* divides 1000, nobody calls reset() and the limiter is younger than a turn of
\* the clock, no token gets lost either: every lookup finds the whole tokens
\* of the exact bucket, however often the bucket is looked at.
QuotaExact ==
  /\ TypeOK
  /\ RefillsInTime => \A h \in Hashes : ideal[h].lvl > -MsPerSec
  /\ \A c \in Callers :
       (MsPerSec % rate = 0 /\ ~was_reset /\ now < ClockMod /\ call[c] # None /\ call[c].pc = "got") =>
          call[c].remaining >= IdealAt(call[c].hash, call[c].time) \div MsPerSec

\* "limiter->reset(); // will reset all rate limiter quota for all buckets":
\* what a bucket lacks was granted since the last reset.
ResetRestores ==
  \A h \in Hashes : entry[h] # None => entry[h].val.remaining + granted[h] >= max_bucket

=============================================================================
