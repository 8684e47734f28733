-------------------------- MODULE RateLimitProofs --------------------------
(***************************************************************************)
(* Proofs about RateLimit, for any buckets, rates, callers and clocks.     *)
(***************************************************************************)
EXTENDS RateLimit, TLAPS

\* What a quota is worth at time t if its current_ms stands for time q.
Units(remaining, q, t) == remaining * MsPerSec + (t - q) * rate

\* No token may get lost.
Lossless == MsPerSec % rate = 0 /\ ~was_reset /\ now < ClockMod

\* The quota v, whose current_ms stands for time q, is worth less than a token
\* more at time t than the level l of the exact bucket, and not less.
Agrees(v, q, t, l) ==
  /\ v.current_ms = (Boot + q) % ClockMod
  /\ RefillsInTime => Units(v.remaining, q, t) < l + MsPerSec
  /\ Lossless => l <= Units(v.remaining, q, t)

RateTypeOK ==
  /\ TypeOK /\ alive
  /\ ideal \in [Hashes -> [lvl : Int, at : 0..MaxTime]]

\* mtx lets one call in; the clock moves on by MaxStall at most before its end.
CallsInv ==
  /\ \A c, d \in Callers : call[c] # None /\ call[d] # None => c = d
  /\ \A c \in Callers : call[c] # None => call[c].time <= now /\ now - call[c].time <= MaxStall

\* A bucket that is stored agrees with the exact one.  The entry stays for as
\* long as it takes to refill, and a call that looks for it has read the clock
\* after the call that stored it.
StoredInv ==
  \A h \in Hashes : entry[h] # None =>
    /\ entry[h].until >= ideal[h].at + ExpirySec * MsPerSec
    /\ \A c \in Callers : call[c] # None /\ call[c].pc = "lookup" => ideal[h].at <= call[c].time
    /\ \E q \in 0..ideal[h].at : Agrees(entry[h].val, q, ideal[h].at, ideal[h].lvl)

\* A bucket that is not stored is full, or was used long ago.
ForgottenInv ==
  \A h \in Hashes :
    entry[h] = None => ideal[h].lvl = Full \/ now > ideal[h].at + ExpirySec * MsPerSec

\* The quota a call has found agrees with the exact bucket, and has its whole
\* tokens.
GotInv ==
  \A c \in Callers :
    call[c] # None /\ call[c].pc = "got" =>
      /\ \E q \in 0..call[c].time :
           Agrees(call[c], q, call[c].time, IdealAt(call[c].hash, call[c].time))
      /\ Lossless => IdealAt(call[c].hash, call[c].time) < call[c].remaining * MsPerSec + MsPerSec

\* The exact bucket is not overdrawn by a token, and was not used in the future.
LevelInv ==
  \A h \in Hashes : ideal[h].at <= now /\ (RefillsInTime => ideal[h].lvl > -MsPerSec)

RateInv ==
  RateTypeOK /\ CallsInv /\ StoredInv /\ ForgottenInv /\ GotInv /\ LevelInv

-----------------------------------------------------------------------------
(* Arithmetic *)

\* Products, as far as they are needed here.
LEMMA Times ==
  ASSUME NEW a \in Int, NEW b \in Int, NEW c \in Int
  PROVE  /\ a * b \in Int /\ a * b = b * a
         /\ (a + b) * c = a * c + b * c /\ (a - b) * c = a * c - b * c
OBVIOUS

\* A product with a positive factor is monotonic.
LEMMA Monotonic ==
  ASSUME NEW a \in Int, NEW b \in Int, NEW c \in Nat, a <= b
  PROVE  a * c <= b * c
<1>1. b - a \in Nat
  OBVIOUS
<1>2. (b - a) * c \in Nat
  BY <1>1
<1> QED
  BY <1>2, Times

\* Quotient and remainder.
LEMMA Divides ==
  ASSUME NEW a \in Nat, NEW b \in Nat \ {0}
  PROVE  a \div b \in Nat /\ (a \div b) * b <= a /\ a < (a \div b) * b + b
OBVIOUS

\* The same for all integers.
LEMMA Remainder ==
  ASSUME NEW a \in Int, NEW b \in Nat \ {0}
  PROVE  a % b \in 0..b - 1 /\ a \div b \in Int /\ a = (a \div b) * b + (a % b)
OBVIOUS

\* No multiple but 0 lies between -b and b.
LEMMA Between ==
  ASSUME NEW k \in Int, NEW b \in Nat \ {0}, -b < k * b, k * b < b
  PROVE  k = 0
<1>1. CASE k >= 1
  BY <1>1, Monotonic, 1 * b = b
<1>2. CASE k <= -1
  BY <1>2, Monotonic, (-1) * b = -b
<1> QED
  BY <1>1, <1>2

\* A number is a number of turns and a remainder.
LEMMA Turns ==
  ASSUME NEW a \in Int, NEW b \in Nat \ {0}
  PROVE  \E k \in Int, x \in 0..b - 1 : a % b = x /\ a = k * b + x
BY Remainder, Zenon

\* Turns do not matter to the remainder.
LEMMA SameRemainder ==
  \A b \in Nat \ {0} : \A a, c, k \in Int : a = c + k * b => a % b = c % b
<1> SUFFICES ASSUME NEW b \in Nat \ {0}, NEW a \in Int, NEW c \in Int, NEW k \in Int
             PROVE  a = c + k * b => a % b = c % b
  BY Zenon
<1> HAVE a = c + k * b
<1>1. PICK i \in Int, x \in 0..b - 1 : a % b = x /\ a = i * b + x
  BY Turns, Zenon
<1>2. PICK j \in Int, y \in 0..b - 1 : c % b = y /\ c = j * b + y
  BY Turns, Zenon
<1>3. ASSUME i * b + x = j * b + y + k * b PROVE x = y
  <2>1. (i - j - k) * b = y - x
    BY <1>3, Times
  <2>2. i - j - k = 0
    BY <2>1, Between
  <2> QED
    BY <2>1, <2>2
<1> QED
  BY <1>1, <1>2, <1>3, Zenon

\* What distance_ms is: the time since q, but for turns of the clock.
LEMMA Distance ==
  \A turn \in Nat \ {0}, boot, t, q \in Nat : \A d :
    d = (((boot + t) % turn) - ((boot + q) % turn)) % turn /\ q <= t =>
      /\ d \in 0..t - q
      /\ (boot + (t - d)) % turn = (boot + q) % turn
      /\ t - q < turn => d = t - q
<1> SUFFICES ASSUME NEW turn \in Nat \ {0}, NEW boot \in Nat, NEW t \in Nat, NEW q \in Nat,
                    NEW d
             PROVE  d = (((boot + t) % turn) - ((boot + q) % turn)) % turn /\ q <= t =>
                      /\ d \in 0..t - q
                      /\ (boot + (t - d)) % turn = (boot + q) % turn
                      /\ t - q < turn => d = t - q
  BY Zenon
<1> HAVE d = (((boot + t) % turn) - ((boot + q) % turn)) % turn /\ q <= t
<1>same. \A u, v, m \in Int : u = v + m * turn => u % turn = v % turn
  BY SameRemainder, Zenon
<1>0. boot + t \in Int /\ boot + q \in Int
  OBVIOUS
<1>1. PICK i \in Int, x \in 0..turn - 1 : (boot + t) % turn = x /\ boot + t = i * turn + x
  BY <1>0, Turns, Zenon
<1>2. PICK j \in Int, y \in 0..turn - 1 : (boot + q) % turn = y /\ boot + q = j * turn + y
  BY <1>0, Turns, Zenon
<1>3. x - y \in Int
  OBVIOUS
<1>4. PICK k \in Int, z \in 0..turn - 1 : (x - y) % turn = z /\ x - y = k * turn + z
  BY <1>3, Turns, Zenon
<1>5. d = z
  BY <1>1, <1>2, <1>4, Zenon
<1>6. PICK n \in Int : n = i - j + k
  OBVIOUS
<1>7. t - q = n * turn + z
  <2>1. n * turn = i * turn - j * turn + k * turn
    BY <1>6, Times
  <2>2. boot + t = i * turn + x /\ boot + q = j * turn + y /\ x - y = k * turn + z
    BY <1>1, <1>2, <1>4, Zenon
  <2> QED
    BY <2>1, <2>2
<1>8. n >= 0
  <2> SUFFICES ASSUME n <= -1 PROVE FALSE
    OBVIOUS
  <2>1. n * turn <= (-1) * turn
    BY Monotonic
  <2> QED
    BY <2>1, <1>7
<1>9. n * turn >= 0
  BY <1>8
<1>10. d \in 0..t - q
  BY <1>5, <1>7, <1>9
<1>11. (boot + (t - d)) % turn = (boot + q) % turn
  <2>1. PICK u \in Int, v \in Int : u = boot + (t - z) /\ v = boot + q
    OBVIOUS
  <2>2. u = v + n * turn
    BY <2>1, <1>7
  <2>3. u % turn = v % turn
    BY <2>2, <1>same, Zenon
  <2> QED
    BY <2>1, <2>3, <1>5, Zenon
<1>12. ASSUME t - q < turn PROVE d = t - q
  <2>1. n * turn < turn /\ -turn < n * turn
    BY <1>12, <1>7, <1>9
  <2>2. n = 0
    BY <2>1, Between
  <2> QED
    BY <2>2, <1>5, <1>7
<1> QED
  BY <1>10, <1>11, <1>12, Zenon

\* current_ms moves on by s.
LEMMA Advances ==
  \A turn \in Nat \ {0}, boot, q, s \in Nat :
    (((boot + q) % turn) + s) % turn = (boot + (q + s)) % turn
<1> SUFFICES ASSUME NEW turn \in Nat \ {0}, NEW boot \in Nat, NEW q \in Nat, NEW s \in Nat
             PROVE  (((boot + q) % turn) + s) % turn = (boot + (q + s)) % turn
  BY Zenon
<1>0. boot + q \in Int /\ boot + (q + s) \in Int
  OBVIOUS
<1>1. PICK k \in Int, x \in 0..turn - 1 : (boot + q) % turn = x /\ boot + q = k * turn + x
  BY <1>0, Turns, Zenon
<1>2. boot + (q + s) = (x + s) + k * turn /\ x + s \in Int
  <2>1. boot + q = k * turn + x
    BY <1>1, Zenon
  <2> QED
    BY <2>1
<1>3. (boot + (q + s)) % turn = (x + s) % turn
  <2>1. PICK u \in Int, v \in Int : u = boot + (q + s) /\ v = x + s
    OBVIOUS
  <2>2. u = v + k * turn
    BY <2>1, <1>2, Zenon
  <2>3. u % turn = v % turn
    BY <2>2, SameRemainder, Zenon
  <2> QED
    BY <2>1, <2>3, Zenon
<1> QED
  BY <1>1, <1>3, Zenon

\* recovered_quota and spent_ms: whole tokens of d ms, and the time they took,
\* rounded up.
LEMMA Refill ==
  \A M, r \in Nat \ {0}, d \in Nat : \A n, s :
    n = (d * r) \div M /\ s = (n * M + r - 1) \div r =>
      /\ n \in Nat /\ s \in 0..d
      /\ n * M <= d * r /\ d * r < n * M + M /\ n * M <= s * r
      /\ M % r = 0 => s * r = n * M
<1> SUFFICES ASSUME NEW M \in Nat \ {0}, NEW r \in Nat \ {0}, NEW d \in Nat,
                    NEW n, NEW s
             PROVE  n = (d * r) \div M /\ s = (n * M + r - 1) \div r =>
                      /\ n \in Nat /\ s \in 0..d
                      /\ n * M <= d * r /\ d * r < n * M + M /\ n * M <= s * r
                      /\ M % r = 0 => s * r = n * M
  BY Zenon
<1> HAVE n = (d * r) \div M /\ s = (n * M + r - 1) \div r
<1>1. d * r \in Nat
  OBVIOUS
<1>2. n \in Nat /\ n * M <= d * r /\ d * r < n * M + M
  BY <1>1, Divides
<1>3. n * M \in Nat /\ n * M + r - 1 \in Nat
  BY <1>2
<1>4. s \in Nat /\ s * r <= n * M + r - 1 /\ n * M + r - 1 < s * r + r
  BY <1>3, Divides, Zenon
<1>5. s * r \in Nat /\ n * M <= s * r
  BY <1>3, <1>4, Times
<1>6. s <= d
  <2> SUFFICES ASSUME d + 1 <= s PROVE FALSE
    BY <1>4
  <2>1. (d + 1) * r <= s * r /\ (d + 1) * r = d * r + r
    BY <1>4, Monotonic, Times, 1 * r = r
  <2> QED
    BY <2>1, <1>1, <1>2, <1>3, <1>4, <1>5
<1>7. ASSUME M % r = 0 PROVE s * r = n * M
  <2> DEFINE k == M \div r
  <2>1. k \in Int /\ M = k * r
    BY <1>7, Remainder
  <2> HIDE DEF k
  <2>2. n * M = (n * k) * r /\ n * k \in Int
    BY <2>1, <1>2
  <2>3. (s - n * k) * r = s * r - n * M
    BY <2>2, <1>4, Times
  <2>4. -r < (s - n * k) * r /\ (s - n * k) * r < r
    BY <2>3, <1>3, <1>4, <1>5
  <2>5. s - n * k = 0
    BY <2>2, <2>4, <1>4, Between
  <2> QED
    BY <2>3, <2>5, <1>3, <1>5
<1> QED
  BY <1>2, <1>4, <1>5, <1>6, <1>7

\* A bound on a quotient.
LEMMA DivideLess ==
  ASSUME NEW M \in Nat \ {0}, NEW R \in Int, NEW x \in Int, x < R * M + M
  PROVE  x \div M <= R
<1> DEFINE k == x \div M
<1>1. k \in Int /\ k * M <= x
  BY Remainder
<1> HIDE DEF k
<1>2. ASSUME R + 1 <= k PROVE FALSE
  <2>1. (R + 1) * M <= k * M /\ (R + 1) * M = R * M + M
    BY <1>1, <1>2, Monotonic, Times
  <2> QED
    BY <2>1, <1>1
<1> QED
  BY <1>1, <1>2 DEF k

\* A quota of R tokens and d ms, worth less than a token more than the level l,
\* is so after the refill, too, when the level is capped.
LEMMA RefillSafe ==
  ASSUME NEW M \in Nat \ {0}, NEW r \in Nat \ {0}, NEW max \in Nat, NEW R \in 0..max,
         NEW d \in Nat, NEW l \in Int, R * M + d * r < l + M,
         NEW n \in Nat, NEW s \in 0..d, n * M <= d * r, d * r < n * M + M, n * M <= s * r,
         NEW x, x = IF max * M <= l THEN max * M ELSE l
  PROVE  /\ n = 0 => R * M + d * r < x + M
         /\ n # 0 /\ R + n >= max => max * M < x + M
         /\ n # 0 /\ ~(R + n >= max) => (R + n) * M + (d - s) * r < x + M
<1>2. (R + n) * M = R * M + n * M /\ (d - s) * r = d * r - s * r
  BY Times
<1>3. R * M <= max * M
  BY Monotonic
<1>4. R + n >= max => max * M <= R * M + n * M
  BY <1>2, Monotonic
<1>5. ~(R + n >= max) => R * M + n * M + M <= max * M
  <2>1. ~(R + n >= max) => (R + n + 1) * M <= max * M
    BY Monotonic
  <2>2. (R + n + 1) * M = (R + n) * M + M
    BY Times
  <2> QED
    BY <2>1, <2>2, <1>2
<1>6. n = 0 => n * M = 0
  OBVIOUS
<1>7. {R * M, d * r, n * M, s * r, max * M} \subseteq Int
  OBVIOUS
<1> QED
  BY <1>2, <1>3, <1>4, <1>5, <1>6, <1>7

\* If r divides M, a quota that is worth the level l is so after the refill, and
\* has the whole tokens of the level.
LEMMA RefillExact ==
  ASSUME NEW M \in Nat \ {0}, NEW r \in Nat \ {0}, NEW max \in Nat, NEW R \in 0..max,
         NEW d \in Nat, NEW l \in Int, l <= R * M + d * r,
         NEW n \in Nat, NEW s \in 0..d, d * r < n * M + M, s * r = n * M,
         NEW x, x = IF max * M <= l THEN max * M ELSE l
  PROVE  /\ n = 0 => x <= R * M + d * r /\ x < R * M + M
         /\ n # 0 /\ R + n >= max => x <= max * M /\ x < max * M + M
         /\ n # 0 /\ ~(R + n >= max) => x <= (R + n) * M + (d - s) * r /\ x < (R + n) * M + M
<1>2. (R + n) * M = R * M + n * M /\ (d - s) * r = d * r - s * r
  BY Times
<1>3. {R * M, d * r, n * M, s * r, max * M} \subseteq Int /\ x \in Int
  OBVIOUS
<1>4. x <= R * M + d * r /\ x <= max * M
  BY <1>3
<1>5. n = 0 => x < R * M + M
  BY <1>3, <1>4, 0 * M = 0
<1>7. x < (R + n) * M + M
  BY <1>2, <1>3, <1>4
<1> QED
  BY <1>2, <1>3, <1>4, <1>5, <1>7

-----------------------------------------------------------------------------
(* The limiter *)

\* The constants are numbers.
LEMMA Numbers ==
  /\ MsPerSec \in Nat \ {0} /\ ExpirySec \in Nat \ {0} /\ Segments \in Nat \ {0}
  /\ ClockMod \in Nat \ {0} /\ Boot \in Nat /\ MaxStall \in Nat /\ MaxTime \in Nat
BY RateAssumption, Zenon

\* The lesser of two numbers.
LEMMA MinOf ==
  ASSUME NEW a \in Int, NEW b \in Int
  PROVE  Min({a, b}) = IF a <= b THEN a ELSE b
BY DEF Min

\* The members of the limiter and the level of a full bucket.
LEMMA Members ==
  ASSUME TypeOK
  PROVE  max_bucket \in Nat /\ rate \in Nat \ {0} /\ Full \in Nat /\ now \in Nat
<1>1. max_bucket \in Nat /\ rate \in Nat \ {0}
  BY RateAssumption, Zenon DEF TypeOK
<1> QED
  BY <1>1, Numbers DEF TypeOK, Full

\* The frame of a call that is under way.
LEMMA FrameIs ==
  ASSUME RateInv, NEW c \in Callers, call[c] # None
  PROVE  /\ call[c] \in Frame /\ call[c].hash \in Hashes
         /\ call[c].time \in 0..MaxTime /\ call[c].time \in Nat
         /\ call[c].time <= now /\ now - call[c].time <= MaxStall
         /\ call[c].point \in Nat
         /\ call[c].remaining \in 0..max_bucket /\ call[c].remaining \in Nat
         /\ call[c].current_ms \in 0..(ClockMod - 1)
<1>1. call[c] \in Frame
  BY Zenon DEF RateInv, RateTypeOK, TypeOK
<1>2. /\ call[c].hash \in Hashes /\ call[c].time \in 0..MaxTime /\ call[c].point \in Points \cup {0}
      /\ call[c].remaining \in 0..max_bucket /\ call[c].current_ms \in 0..(ClockMod - 1)
  BY <1>1 DEF Frame
<1>3. call[c].time <= now /\ now - call[c].time <= MaxStall
  BY Zenon DEF RateInv, CallsInv
<1>4. call[c].time \in Nat /\ call[c].remaining \in Nat
  BY <1>2
<1>5. call[c].point \in Nat
  BY <1>2, RateAssumption
<1> QED
  BY <1>1, <1>2, <1>3, <1>4, <1>5, Zenon

\* The arithmetic of get_remaining_int(), for the rate and the clock there are.
LEMMA RefillHere ==
  ASSUME TypeOK
  PROVE  \A d \in Nat : \A n, s :
           n = (d * rate) \div MsPerSec /\ s = (n * MsPerSec + rate - 1) \div rate =>
             /\ n \in Nat /\ s \in 0..d
             /\ n * MsPerSec <= d * rate /\ d * rate < n * MsPerSec + MsPerSec /\ n * MsPerSec <= s * rate
             /\ MsPerSec % rate = 0 => s * rate = n * MsPerSec
<1>1. rate \in Nat \ {0} /\ MsPerSec \in Nat \ {0}
  BY Members, Numbers, Zenon
<1> QED
  BY <1>1, Refill, Zenon

\* The same for the clock of the limiter.
LEMMA DistanceHere ==
  \A t, q \in Nat : \A d :
    d = (((Boot + t) % ClockMod) - ((Boot + q) % ClockMod)) % ClockMod /\ q <= t =>
      /\ d \in 0..t - q
      /\ (Boot + (t - d)) % ClockMod = (Boot + q) % ClockMod
      /\ t - q < ClockMod => d = t - q
<1>1. ClockMod \in Nat \ {0} /\ Boot \in Nat
  BY Numbers, Zenon
<1> QED
  BY <1>1, Distance, Zenon

\* The same for the clock of the limiter.
LEMMA AdvancesHere ==
  \A q, s \in Nat :
    (((Boot + q) % ClockMod) + s) % ClockMod = (Boot + (q + s)) % ClockMod
<1>1. ClockMod \in Nat \ {0} /\ Boot \in Nat
  BY Numbers, Zenon
<1> QED
  BY <1>1, Advances, Zenon

\* As time goes by a quota and the exact bucket gain the same.
LEMMA AgreesLater ==
  ASSUME TypeOK, NEW v, v.remaining \in Nat, NEW at \in Nat, NEW t \in Nat, at <= t,
         NEW q \in 0..at, NEW l \in Int, Agrees(v, q, at, l)
  PROVE  Agrees(v, q, t, l + (t - at) * rate)
<1>1. /\ rate \in Nat \ {0} /\ MsPerSec \in Nat \ {0}
  BY Members, Numbers, Zenon
<1>2. (t - q) * rate = (at - q) * rate + (t - at) * rate
  BY <1>1, Times
<1>3. {(t - q) * rate, (at - q) * rate, (t - at) * rate, v.remaining * MsPerSec} \subseteq Int
  BY <1>1
<1> QED
  BY <1>1, <1>2, <1>3 DEF Agrees, Units

\* get_remaining_int(): what is found agrees with the exact bucket, which is
\* capped, and nothing of it is lost.
LEMMA RecoveredOk ==
  ASSUME TypeOK, NEW v, v.remaining \in 0..max_bucket, NEW t \in Nat, t <= now, NEW q \in 0..t,
         NEW l \in Int, Agrees(v, q, t, l),
         NEW w, w = Recovered(v, (Boot + t) % ClockMod),
         NEW x, x = IF Full <= l THEN Full ELSE l
  PROVE  /\ w.remaining \in 0..max_bucket
         /\ \E p \in 0..t : Agrees(w, p, t, x)
         /\ Lossless => x < w.remaining * MsPerSec + MsPerSec
<1> DEFINE R == v.remaining
           now_ms == (Boot + t) % ClockMod
<1>0. /\ max_bucket \in Nat /\ rate \in Nat \ {0} /\ Full \in Nat /\ now \in Nat
      /\ MsPerSec \in Nat \ {0} /\ ClockMod \in Nat \ {0} /\ Boot \in Nat
  BY Members, Numbers, Zenon
<1>1. v.current_ms = (Boot + q) % ClockMod
  BY Zenon DEF Agrees
<1>a. PICK d : d = (now_ms - v.current_ms) % ClockMod
  BY Zenon
<1>b. PICK n : n = (d * rate) \div MsPerSec
  BY Zenon
<1>c. PICK s : s = (n * MsPerSec + rate - 1) \div rate
  BY Zenon
<1>2. /\ d \in 0..t - q
      /\ (Boot + (t - d)) % ClockMod = v.current_ms
      /\ t - q < ClockMod => d = t - q
  <2>1. q \in Nat /\ q <= t
    OBVIOUS
  <2>2. d = (((Boot + t) % ClockMod) - ((Boot + q) % ClockMod)) % ClockMod
    BY <1>a, <1>1, Zenon
  <2> QED
    BY <2>1, <2>2, <1>1, DistanceHere, Zenon
<1>3. d \in Nat
  BY <1>2
<1>4. /\ n \in Nat /\ s \in 0..d
      /\ n * MsPerSec <= d * rate /\ d * rate < n * MsPerSec + MsPerSec
      /\ n * MsPerSec <= s * rate
      /\ MsPerSec % rate = 0 => s * rate = n * MsPerSec
  BY <1>3, <1>b, <1>c, RefillHere, Zenon
<1>5. w = IF n = 0 THEN v
          ELSE IF R + n >= max_bucket THEN [remaining |-> max_bucket, current_ms |-> now_ms]
          ELSE [remaining |-> R + n, current_ms |-> (v.current_ms + s) % ClockMod]
  BY <1>a, <1>b, <1>c, Zenon DEF Recovered
<1>6. x = IF max_bucket * MsPerSec <= l THEN max_bucket * MsPerSec ELSE l
  BY Zenon DEF Full
<1>7. RefillsInTime => R * MsPerSec + d * rate < l + MsPerSec
  <2>1. d * rate <= (t - q) * rate
    BY <1>0, <1>2, Monotonic
  <2>2. RefillsInTime => R * MsPerSec + (t - q) * rate < l + MsPerSec
    BY Zenon DEF Agrees, Units
  <2>3. {d * rate, (t - q) * rate, R * MsPerSec} \subseteq Int
    BY <1>0, <1>3
  <2> QED
    BY <2>1, <2>2, <2>3, <1>0
<1>8. Lossless => l <= R * MsPerSec + d * rate /\ MsPerSec % rate = 0
  <2>1. Lossless => t - q < ClockMod
    BY <1>0 DEF Lossless
  <2> QED
    BY <2>1, <1>2, Zenon DEF Agrees, Units, Lossless
<1>9. /\ RefillsInTime /\ n = 0 => R * MsPerSec + d * rate < x + MsPerSec
      /\ RefillsInTime /\ n # 0 /\ R + n >= max_bucket => max_bucket * MsPerSec < x + MsPerSec
      /\ RefillsInTime /\ n # 0 /\ ~(R + n >= max_bucket) =>
           (R + n) * MsPerSec + (d - s) * rate < x + MsPerSec
  BY <1>0, <1>3, <1>4, <1>6, <1>7, RefillSafe, Zenon
<1>10. Lossless =>
         /\ n = 0 => x <= R * MsPerSec + d * rate /\ x < R * MsPerSec + MsPerSec
         /\ n # 0 /\ R + n >= max_bucket =>
              x <= max_bucket * MsPerSec /\ x < max_bucket * MsPerSec + MsPerSec
         /\ n # 0 /\ ~(R + n >= max_bucket) =>
              x <= (R + n) * MsPerSec + (d - s) * rate /\ x < (R + n) * MsPerSec + MsPerSec
  BY <1>0, <1>3, <1>4, <1>6, <1>8, RefillExact
<1>11. CASE n = 0
  <2>1. w = v /\ t - d \in 0..t /\ t - (t - d) = d
    BY <1>11, <1>2, <1>5
  <2>2. Agrees(w, t - d, t, x)
    BY <2>1, <1>2, <1>9, <1>10, <1>11, Zenon DEF Agrees, Units
  <2> QED
    BY <2>1, <2>2, <1>10, <1>11, Zenon
<1>12. CASE n # 0 /\ R + n >= max_bucket
  <2>1. w.remaining = max_bucket /\ w.current_ms = (Boot + t) % ClockMod
    BY <1>12, <1>5
  <2>2. Units(max_bucket, t, t) = max_bucket * MsPerSec
    BY <1>0 DEF Units
  <2>3. Agrees(w, t, t, x)
    BY <2>1, <2>2, <1>9, <1>10, <1>12, Zenon DEF Agrees
  <2> QED
    BY <2>1, <2>3, <1>0, <1>10, <1>12
<1>13. CASE n # 0 /\ ~(R + n >= max_bucket)
  <2>1. w.remaining = R + n /\ w.current_ms = (v.current_ms + s) % ClockMod
    BY <1>13, <1>5
  <2>2. t - d + s \in 0..t /\ t - d \in Nat /\ s \in Nat /\ t - (t - d + s) = d - s
    BY <1>2, <1>4
  <2>3. w.current_ms = (Boot + (t - d + s)) % ClockMod
    <3>1. (((Boot + (t - d)) % ClockMod) + s) % ClockMod = (Boot + (t - d + s)) % ClockMod
      BY <2>2, AdvancesHere, Zenon
    <3> QED
      BY <3>1, <2>1, <1>2, Zenon
  <2>4. Agrees(w, t - d + s, t, x)
    BY <2>1, <2>2, <2>3, <1>9, <1>10, <1>13, Zenon DEF Agrees, Units
  <2>5. w.remaining \in 0..max_bucket
    BY <2>1, <1>0, <1>4, <1>13
  <2> QED
    BY <2>1, <2>2, <2>4, <2>5, <1>10, <1>13, Zenon
<1> QED
  BY <1>11, <1>12, <1>13, Zenon

-----------------------------------------------------------------------------
(* The exact bucket, and what the cache does to the entries *)

Lifetime == ExpirySec * MsPerSec

\* The level of the exact bucket at time t, for t not before its last use.
LEMMA IdealIs ==
  ASSUME RateTypeOK, NEW h \in Hashes, NEW t \in Nat, ideal[h].at <= t
  PROVE  LET l == ideal[h].lvl + (t - ideal[h].at) * rate
         IN  l \in Int /\ IdealAt(h, t) = IF Full <= l THEN Full ELSE l
<1>1. /\ rate \in Nat /\ Full \in Nat /\ ideal[h].at \in Nat /\ ideal[h].lvl \in Int
      /\ ideal[h].lvl <= Full
  BY Members DEF RateTypeOK, TypeOK
<1>2. PICK l : l = ideal[h].lvl + (t - ideal[h].at) * rate
  BY Zenon
<1>3. l \in Int
  BY <1>1, <1>2
<1>4. Min({Full, l}) = IF Full <= l THEN Full ELSE l
  BY <1>1, <1>3, MinOf
<1>5. CASE t <= ideal[h].at
  <2>1. t - ideal[h].at = 0 /\ IdealAt(h, t) = ideal[h].lvl
    BY <1>1, <1>5 DEF IdealAt
  <2>2. l = ideal[h].lvl
    BY <2>1, <1>1, <1>2
  <2> QED
    <3>1. IF Full <= l THEN Full = l ELSE TRUE
      BY <2>2, <1>1, <1>3
    <3> QED
      BY <3>1, <2>1, <2>2, <1>2, <1>3, Zenon
<1>6. CASE ~(t <= ideal[h].at)
  BY <1>2, <1>3, <1>4, <1>6, Zenon DEF IdealAt
<1> QED
  BY <1>5, <1>6, Zenon

\* The exact bucket holds no more than fits.
LEMMA IdealBelow ==
  ASSUME RateTypeOK, NEW h \in Hashes, NEW t \in Nat
  PROVE  IdealAt(h, t) \in Int /\ IdealAt(h, t) <= Full
<1>1. /\ rate \in Nat /\ Full \in Nat /\ ideal[h].at \in Nat /\ ideal[h].lvl \in Int
      /\ ideal[h].lvl <= Full
  BY Members DEF RateTypeOK, TypeOK
<1>2. CASE t <= ideal[h].at
  BY <1>1, <1>2, Zenon DEF IdealAt
<1>3. CASE ~(t <= ideal[h].at)
  <2>1. ideal[h].at <= t
    BY <1>1, <1>3
  <2> QED
    BY <2>1, <1>1, IdealIs
<1> QED
  BY <1>2, <1>3, Zenon

\* A bucket that is not stored would be full if it were: also when the call has
\* read the clock up to MaxStall ms ago.
LEMMA ForgottenIsFull ==
  ASSUME RateInv, RefillsInTime, NEW h \in Hashes, entry[h] = None,
         NEW t \in Nat, t <= now, now - t <= MaxStall
  PROVE  Full < IdealAt(h, t) + MsPerSec
<1> DEFINE at == ideal[h].at
           lvl == ideal[h].lvl
<1>1. /\ rate \in Nat \ {0} /\ Full \in Nat /\ now \in Nat /\ MsPerSec \in Nat \ {0}
      /\ MaxStall \in Nat /\ Lifetime \in Nat
      /\ at \in Nat /\ lvl \in Int /\ lvl > -MsPerSec
  BY Members, Numbers DEF RateInv, RateTypeOK, TypeOK, LevelInv, Lifetime
<1>2. lvl = Full \/ now > at + Lifetime
  BY Zenon DEF RateInv, ForgottenInv, Lifetime
<1>3. Full + (MaxStall - 1) * rate <= Lifetime * rate
  BY Zenon DEF RefillsInTime, Lifetime
<1>4. CASE t <= at
  <2>1. IdealAt(h, t) = lvl
    BY <1>4, Zenon DEF IdealAt
  <2>2. CASE now > at + Lifetime
    <3>1. Lifetime <= MaxStall - 1
      BY <2>2, <1>1, <1>4
    <3>2. Lifetime * rate <= (MaxStall - 1) * rate
      BY <3>1, <1>1, Monotonic
    <3>3. Full = 0
      <4>1. Lifetime * rate \in Int /\ (MaxStall - 1) * rate \in Int
        BY <1>1
      <4> QED
        BY <4>1, <3>2, <1>1, <1>3
    <3> QED
      BY <2>1, <3>3, <1>1
  <2> QED
    BY <2>1, <2>2, <1>1, <1>2
<1>5. CASE ~(t <= at)
  <2>1. PICK l : l = lvl + (t - at) * rate
    BY Zenon
  <2>2. l \in Int /\ IdealAt(h, t) = IF Full <= l THEN Full ELSE l
    BY <2>1, <1>1, <1>5, IdealIs DEF RateInv
  <2>3. Full < l + MsPerSec
    <3>1. CASE lvl = Full
      <4>1. (t - at) * rate >= 0
        <5>1. 0 * rate <= (t - at) * rate /\ 0 * rate = 0
          BY <1>1, <1>5, Monotonic
        <5> QED
          BY <5>1, Zenon
      <4> QED
        BY <4>1, <3>1, <2>1, <2>2, <1>1
    <3>2. CASE now > at + Lifetime
      <4>1. Lifetime - (MaxStall - 1) <= t - at
        BY <3>2, <1>1
      <4>2. (Lifetime - (MaxStall - 1)) * rate <= (t - at) * rate
        BY <4>1, <1>1, Monotonic
      <4>3. (Lifetime - (MaxStall - 1)) * rate = Lifetime * rate - (MaxStall - 1) * rate
        BY <1>1, Times
      <4>4. {Lifetime * rate, (MaxStall - 1) * rate, (t - at) * rate} \subseteq Int
        BY <1>1
      <4> QED
        BY <4>2, <4>3, <4>4, <2>1, <1>1, <1>3
    <3> QED
      BY <3>1, <3>2, <1>2, Zenon
  <2> QED
    BY <2>2, <2>3, <1>1
<1> QED
  BY <1>4, <1>5, Zenon

\* The cache keeps its type.  An entry that was there and is gone was past its
\* deadline; one that is there was there before, or was looked up and now stays
\* for a whole lifetime.
Aged(h) ==
  /\ entry' \in [Hashes -> [val : Quota, until : Nat] \cup {None}]
  /\ \A g \in Hashes :
       /\ entry'[g] = None => entry[g] = None \/ entry[g].until < now'
       /\ entry'[g] # None =>
            /\ entry[g] # None /\ entry'[g].val = entry[g].val
            /\ entry'[g] = entry[g] \/ (g = h /\ entry'[g].until >= now + Lifetime)

\* When the clock moves on the entries get older.
LEMMA TickAges ==
  ASSUME RateTypeOK, tick, NEW h
  PROVE  Aged(h)
BY DEF RateTypeOK, TypeOK, tick, cache!Tick, cache!AliveAt, Aged

\* What Get returns and does.
LEMMA GetAges ==
  ASSUME RateTypeOK, NEW h \in Hashes, now' = now, cache!Get(h)
  PROVE  /\ Aged(h)
         /\ ret'[3] = IF entry[h] = None THEN None ELSE entry[h].val
         /\ entry[h] # None => entry[h].val \in Quota /\ entry[h].val.remaining \in 0..max_bucket
<1>1. entry \in [Hashes -> [val : Quota, until : Nat] \cup {None}] /\ now \in Nat
  BY DEF RateTypeOK, TypeOK
<1>2. Lifetime \in Nat
  BY Numbers DEF Lifetime
<1>3. entry[h] # None => entry[h].val \in Quota /\ entry[h].val.remaining \in 0..max_bucket
  BY Members DEF RateTypeOK, TypeOK, Quota
<1>4. CASE entry[h] = None
  <2>1. ret'[3] = None /\ entry' = cache!AliveAt(entry, now)
    BY <1>4 DEF cache!Get
  <2> QED
    BY <2>1, <1>1, <1>3, <1>4 DEF cache!AliveAt, Aged
<1>5. CASE entry[h] # None
  <2>1. PICK e \in cache!Stored(entry, h, entry[h].val, now) :
          entry' = cache!AliveAt(e, now) /\ ret'[3] = entry[h].val
    BY <1>5 DEF cache!Get
  <2>2. PICK u \in Int : u >= now + Lifetime /\ e = [entry EXCEPT ![h] = [val |-> entry[h].val, until |-> u]]
    BY DEF cache!Stored, Lifetime
  <2>3. u \in Nat /\ u >= now
    BY <2>2, <1>1, <1>2
  <2>4. e \in [Hashes -> [val : Quota, until : Nat] \cup {None}]
    BY <2>2, <2>3, <1>1, <1>3, <1>5, Zenon
  <2>5. [val |-> entry[h].val, until |-> u] # None
    BY <2>3, <1>3, <1>5, RateAssumption
  <2>6. entry'[h] = [val |-> entry[h].val, until |-> u]
    BY <2>1, <2>2, <2>3, <2>5, <1>1, Zenon DEF cache!AliveAt
  <2>7. entry' \in [Hashes -> [val : Quota, until : Nat] \cup {None}]
    BY <2>1, <2>4, Zenon DEF cache!AliveAt
  <2>8. ASSUME NEW g \in Hashes, g # h
        PROVE  entry'[g] = IF entry[g] # None /\ entry[g].until >= now THEN entry[g] ELSE None
    BY <2>1, <2>2, <2>8, <1>1, Zenon DEF cache!AliveAt
  <2>9. entry'[h] # None /\ entry'[h].val = entry[h].val /\ entry'[h].until >= now + Lifetime
    BY <2>2, <2>5, <2>6
  <2>10. ASSUME NEW g \in Hashes
         PROVE  /\ entry'[g] = None => entry[g] = None \/ entry[g].until < now
                /\ entry'[g] # None =>
                     /\ entry[g] # None /\ entry'[g].val = entry[g].val
                     /\ entry'[g] = entry[g] \/ (g = h /\ entry'[g].until >= now + Lifetime)
    <3>1. CASE g = h
      BY <3>1, <2>9, <1>5, Zenon
    <3>2. CASE g # h
      <4>1. entry[g] # None => entry[g].until \in Nat
        BY <1>1, Zenon
      <4> QED
        BY <4>1, <3>2, <2>8, <1>1
    <3> QED
      BY <3>1, <3>2, Zenon
  <2> QED
    BY <2>1, <2>7, <2>10, <1>3, <1>5, Zenon DEF Aged
<1> QED
  BY <1>4, <1>5, Zenon

\* What has agreed goes on to do so when nothing but time and the cache change.
LEMMA StillAgrees ==
  ASSUME UNCHANGED members, Lossless' => Lossless
  PROVE  \A v, q, t, l : Agrees(v, q, t, l) => Agrees(v, q, t, l)'
<1>1. UNCHANGED <<max_bucket, rate>>
  BY Zenon DEF members
<1>2. RefillsInTime' <=> RefillsInTime
  BY <1>1, Zenon DEF RefillsInTime, Full
<1>3. \A r, q, t : Units(r, q, t)' = Units(r, q, t)
  BY <1>1, Zenon DEF Units
<1> QED
  BY <1>2, <1>3, Zenon DEF Agrees

\* What is not lost later has not been lost now.
LEMMA StillLossless ==
  ASSUME RateTypeOK, UNCHANGED members, now' \in Nat, now' >= now, was_reset' \in BOOLEAN,
         was_reset => was_reset'
  PROVE  Lossless' => Lossless
<1>1. now \in Nat /\ ClockMod \in Nat
  BY Members, Numbers, Zenon DEF RateTypeOK
<1> QED
  BY <1>1 DEF Lossless, members

\* A bucket nobody uses is not changed.
LEMMA SameIdeal ==
  ASSUME UNCHANGED members, NEW h, ideal'[h] = ideal[h]
  PROVE  \A t : IdealAt(h, t)' = IdealAt(h, t)
BY Zenon DEF members, IdealAt, Full

-----------------------------------------------------------------------------
(* One lemma per action *)

\* What is stored and what is forgotten, when only the cache and time move.
LEMMA CacheAges ==
  ASSUME RateInv, NEW h, Aged(h), UNCHANGED <<members, history>>, now' \in Nat, now' >= now,
         \A c \in Callers : call'[c] # None /\ call'[c].pc = "lookup" =>
           call'[c] = call[c] \/ call'[c].time = now
  PROVE  StoredInv' /\ ForgottenInv'
<1>1. UNCHANGED <<max_bucket, rate, ideal, was_reset>>
  BY Zenon DEF members, history
<1>2. Full' = Full /\ Lifetime' = Lifetime
  BY <1>1, Zenon DEF Full, Lifetime
<1>3. \A v, q, t, l : Agrees(v, q, t, l) => Agrees(v, q, t, l)'
  <2>1. Lossless' => Lossless
    BY <1>1, StillLossless, Zenon DEF RateInv, RateTypeOK, TypeOK
  <2> QED
    BY <2>1, StillAgrees, Zenon
<1>4. Lifetime \in Nat /\ now \in Nat
  BY Numbers, Members DEF RateInv, RateTypeOK, Lifetime
<1>5. ASSUME NEW g \in Hashes
      PROVE  ideal[g].at \in Nat /\ ideal[g].at <= now
  BY DEF RateInv, RateTypeOK, LevelInv
<1>6. ASSUME NEW g \in Hashes, entry'[g] # None
      PROVE  /\ entry'[g].until >= ideal'[g].at + Lifetime
             /\ \A c \in Callers : call'[c] # None /\ call'[c].pc = "lookup" =>
                  ideal'[g].at <= call'[c].time
             /\ \E q \in 0..ideal'[g].at : Agrees(entry[g].val, q, ideal[g].at, ideal[g].lvl)'
  <2>1. /\ entry[g] # None /\ entry'[g].val = entry[g].val
        /\ entry'[g] = entry[g] \/ entry'[g].until >= now + Lifetime
        /\ entry'[g].until \in Nat
    BY <1>6, Zenon DEF Aged
  <2>2. /\ entry[g].until >= ideal[g].at + Lifetime
        /\ \A c \in Callers : call[c] # None /\ call[c].pc = "lookup" =>
             ideal[g].at <= call[c].time
        /\ \E q \in 0..ideal[g].at : Agrees(entry[g].val, q, ideal[g].at, ideal[g].lvl)
    BY <2>1, Zenon DEF RateInv, StoredInv, Lifetime
  <2>3. entry'[g].until >= ideal'[g].at + Lifetime
    BY <2>1, <2>2, <1>1, <1>4, <1>5, SMTT(120)
  <2>4. \A c \in Callers : call'[c] # None /\ call'[c].pc = "lookup" =>
          ideal'[g].at <= call'[c].time
    BY <2>2, <1>1, <1>5, Zenon
  <2>5. PICK q \in 0..ideal[g].at : Agrees(entry[g].val, q, ideal[g].at, ideal[g].lvl)
    BY <2>2, Zenon
  <2>6. PICK v, t, l : v = entry[g].val /\ t = ideal[g].at /\ l = ideal[g].lvl
    BY Zenon
  <2>7. Agrees(v, q, t, l)'
    BY <2>5, <2>6, <1>3, Zenon
  <2>8. Agrees(entry[g].val, q, ideal[g].at, ideal[g].lvl)'
    BY <2>6, <2>7, <2>1, <1>1, Zenon
  <2> QED
    BY <2>3, <2>4, <2>5, <2>8, <1>1, Zenon
<1>7. StoredInv'
  BY <1>6, Zenon DEF StoredInv, Lifetime
<1>8. ASSUME NEW g \in Hashes, entry'[g] = None
      PROVE  ideal'[g].lvl = Full' \/ now' > ideal'[g].at + Lifetime
  <2>1. CASE entry[g] = None
    BY <2>1, <1>1, <1>2, <1>4, <1>5 DEF RateInv, ForgottenInv, Lifetime
  <2>2. CASE entry[g] # None /\ entry[g].until < now'
    <3>1. entry[g].until >= ideal[g].at + Lifetime /\ entry[g].until \in Nat
      BY <2>2, Zenon DEF RateInv, RateTypeOK, TypeOK, StoredInv, Lifetime
    <3> QED
      BY <3>1, <2>2, <1>1, <1>4, <1>5, SMTT(120)
  <2> QED
    BY <2>1, <2>2, <1>8, Zenon DEF Aged
<1>9. ForgottenInv'
  BY <1>8, Zenon DEF ForgottenInv, Lifetime
<1> QED
  BY <1>7, <1>9, Zenon

\* What a call has found, while it is only waiting.
GotOf(c) ==
  /\ \E q \in 0..call[c].time :
       Agrees(call[c], q, call[c].time, IdealAt(call[c].hash, call[c].time))
  /\ Lossless => IdealAt(call[c].hash, call[c].time) < call[c].remaining * MsPerSec + MsPerSec

\* What another call has found stays true.
LEMMA GotStays ==
  ASSUME RateInv, UNCHANGED <<members, history>>, now' \in Nat, now' >= now,
         NEW c \in Callers, call[c] # None, call[c].pc = "got", call'[c] = call[c]
  PROVE  GotOf(c)'
<1>1. Lossless' => Lossless
  BY StillLossless, Zenon DEF RateInv, RateTypeOK, TypeOK, history
<1>2. \A v, q, t, l : Agrees(v, q, t, l) => Agrees(v, q, t, l)'
  BY <1>1, StillAgrees, Zenon
<1>3. PICK f, h, t : f = call[c] /\ h = f.hash /\ t = f.time
  BY Zenon
<1>4. IdealAt(h, t)' = IdealAt(h, t)
  BY SameIdeal, Zenon DEF history
<1>5. /\ \E q \in 0..t : Agrees(f, q, t, IdealAt(h, t))
      /\ Lossless => IdealAt(h, t) < f.remaining * MsPerSec + MsPerSec
  BY <1>3, Zenon DEF RateInv, GotInv
<1>6. PICK q \in 0..t : Agrees(f, q, t, IdealAt(h, t))
  BY <1>5, Zenon
<1>7. PICK l : l = IdealAt(h, t)
  BY Zenon
<1>8. Agrees(f, q, t, l)'
  BY <1>2, <1>6, <1>7, Zenon
<1>9. Agrees(f, q, t, IdealAt(h, t))'
  BY <1>4, <1>7, <1>8, Zenon DEF Agrees
<1>10. \E p \in 0..t : Agrees(f, p, t, IdealAt(h, t))'
  BY <1>6, <1>9, Zenon
<1>11. Lossless' => IdealAt(h, t)' < f.remaining * MsPerSec + MsPerSec
  BY <1>1, <1>4, <1>5, Zenon
<1>12. call'[c] = f /\ call[c]'.hash = h /\ call[c]'.time = t
  BY <1>3, Zenon
<1> QED
  BY <1>10, <1>11, <1>12, Zenon DEF GotOf

\* checkpoint() and get_remaining() begin, or end, and the rest stays.
LEMMA CallsChange ==
  ASSUME RateInv, UNCHANGED <<members, cache_vars, history>>,
         call' \in [Callers -> Frame \cup {None}],
         \A c \in Callers : call'[c] = call[c] \/ call'[c] = None
                              \/ (call'[c].pc = "lookup" /\ call'[c].time = now),
         \A c, d \in Callers : call'[c] # None /\ call'[d] # None => c = d
  PROVE  RateInv'
<1>1. UNCHANGED <<max_bucket, rate, entry, now, ret, alive, ideal, granted, was_reset>>
  BY Zenon DEF members, cache_vars, history
<1>2. now \in Nat /\ MaxStall \in Nat
  BY Members, Numbers, Zenon DEF RateInv, RateTypeOK
<1>3. RateTypeOK'
  BY <1>1, Zenon DEF RateInv, RateTypeOK, TypeOK, Frame, Full
<1>4. CallsInv'
  BY <1>1, <1>2, SMTT(120) DEF RateInv, CallsInv
<1>5. Aged(None)
  BY <1>1, Zenon DEF RateInv, RateTypeOK, TypeOK, Aged
<1>6. StoredInv' /\ ForgottenInv'
  BY <1>1, <1>2, <1>5, CacheAges, SMTT(120)
<1>7. GotInv'
  <2>1. ASSUME NEW c \in Callers, call'[c] # None, call'[c].pc = "got"
        PROVE  GotOf(c)'
    BY <2>1, <1>1, <1>2, GotStays, SMTT(120)
  <2> QED
    BY <2>1, Zenon DEF GotInv, GotOf
<1>8. LevelInv'
  BY <1>1, Zenon DEF RateInv, LevelInv, RefillsInTime, Full
<1> QED
  BY <1>3, <1>4, <1>6, <1>7, <1>8, Zenon DEF RateInv

\* A call reads the clock.
LEMMA BeginOk ==
  ASSUME RateInv, NEW c \in Callers, NEW h \in Hashes, NEW p \in Points \cup {0},
         NEW store \in BOOLEAN, Begin(c, h, p, store)
  PROVE  RateInv'
<1>1. PICK f : f = [pc |-> "lookup", hash |-> h, point |-> p, store |-> store, time |-> now,
                    remaining |-> 0, current_ms |-> 0]
  BY Zenon
<1>2. f \in Frame
  <2>1. now \in 0..MaxTime /\ max_bucket \in Nat /\ ClockMod \in Nat \ {0}
    BY Members, Numbers, Zenon DEF RateInv, RateTypeOK, TypeOK
  <2>2. 0 \in 0..max_bucket /\ 0 \in 0..(ClockMod - 1)
    BY <2>1
  <2> QED
    BY <2>1, <2>2, <1>1, Zenon DEF Frame
<1>3. call' = [call EXCEPT ![c] = f] /\ \A d \in Callers : call[d] = None
  BY <1>1, Zenon DEF Begin, Unlocked
<1>4. call \in [Callers -> Frame \cup {None}]
  BY Zenon DEF RateInv, RateTypeOK, TypeOK
<1>5. call' \in [Callers -> Frame \cup {None}]
  BY <1>2, <1>3, <1>4, Zenon
<1>6. \A d \in Callers : call'[d] = IF d = c THEN f ELSE None
  BY <1>3, <1>4, Zenon
<1>7. UNCHANGED <<members, cache_vars, history>>
  BY Zenon DEF Begin
<1> QED
  BY <1>1, <1>3, <1>5, <1>6, <1>7, CallsChange, Zenon

\* A call returns.
LEMMA ReturnOk ==
  ASSUME RateInv, NEW c \in Callers, Return(c)
  PROVE  RateInv'
<1>1. call \in [Callers -> Frame \cup {None}]
  BY Zenon DEF RateInv, RateTypeOK, TypeOK
<1>2. /\ call' = [call EXCEPT ![c] = None]
      /\ UNCHANGED <<members, cache_vars, history>>
  BY Zenon DEF Return
<1>3. call' \in [Callers -> Frame \cup {None}] /\ \A d \in Callers : call'[d] \in {call[d], None}
  BY <1>1, <1>2, Zenon
<1>4. \A d, e \in Callers : call'[d] # None /\ call'[e] # None => d = e
  BY <1>3, Zenon DEF RateInv, CallsInv
<1> QED
  BY <1>2, <1>3, <1>4, CallsChange, Zenon

\* Nothing happens.
LEMMA StutterOk ==
  ASSUME RateInv, UNCHANGED vars
  PROVE  RateInv'
<1>1. UNCHANGED <<members, cache_vars, history, call>>
  BY Zenon DEF vars, members, cache_vars, history
<1> QED
  BY <1>1, CallsChange, Zenon DEF RateInv, RateTypeOK, TypeOK, CallsInv

\* The clock moves on.
LEMMA TickOk ==
  ASSUME RateInv, tick
  PROVE  RateInv'
<1>1. /\ UNCHANGED <<max_bucket, rate, alive, call, ideal, granted, was_reset>>
      /\ now' = now + 1 /\ now < MaxTime
  BY Zenon DEF tick, cache!Tick, members, history
<1>2. UNCHANGED <<members, history>>
  BY Zenon DEF tick
<1>3. now \in Nat /\ MaxTime \in Nat /\ MaxStall \in Nat
  BY Members, Numbers, Zenon DEF RateInv, RateTypeOK
<1>4. Aged(None)
  BY TickAges, Zenon DEF RateInv
<1>5. RateTypeOK'
  <2>1. entry' \in [Hashes -> [val : Quota, until : Nat] \cup {None}]
    BY <1>4, Zenon DEF Aged
  <2>2. \A h \in Hashes : entry'[h] # None => entry'[h].val.remaining <= max_bucket
    BY <1>4, Zenon DEF Aged, RateInv, RateTypeOK, TypeOK
  <2>3. now' \in 0..MaxTime
    BY <1>1, <1>3
  <2>4. Frame' = Frame /\ Full' = Full
    BY <1>1, Zenon DEF Frame, Full
  <2> QED
    BY <2>1, <2>2, <2>3, <2>4, <1>1, Zenon DEF RateInv, RateTypeOK, TypeOK
<1>6. CallsInv'
  <2>1. ASSUME NEW c \in Callers, call[c] # None
        PROVE  call[c].time <= now /\ now - call[c].time < MaxStall /\ call[c].time \in Nat
    BY <2>1 DEF RateInv, CallsInv, RateTypeOK, TypeOK, Frame, tick
  <2> QED
    BY <2>1, <1>1, <1>3, SMTT(120) DEF RateInv, CallsInv
<1>7. StoredInv' /\ ForgottenInv'
  <2>1. now' \in Nat /\ now' >= now
    BY <1>1, <1>3
  <2>2. \A d \in Callers : call'[d] # None /\ call'[d].pc = "lookup" =>
           call'[d] = call[d] \/ call'[d].time = now
    BY <1>1, Zenon
  <2> QED
    BY <2>1, <2>2, <1>2, <1>4, CacheAges, Zenon
<1>8. GotInv'
  <2>1. ASSUME NEW c \in Callers, call'[c] # None, call'[c].pc = "got"
        PROVE  GotOf(c)'
    BY <2>1, <1>1, <1>2, <1>3, GotStays
  <2> QED
    BY <2>1, Zenon DEF GotInv, GotOf
<1>9. LevelInv'
  BY <1>1, <1>3 DEF RateInv, LevelInv, RefillsInTime, Full, RateTypeOK
<1> QED
  BY <1>5, <1>6, <1>7, <1>8, <1>9, Zenon DEF RateInv

\* reset() may come between a call's lookup and its put: what the call has found
\* agrees with the full bucket, too.
LEMMA ResetOk ==
  ASSUME RateInv, reset
  PROVE  RateInv'
<1>1. /\ UNCHANGED <<max_bucket, rate, now, alive, call>>
      /\ entry' = [h \in Hashes |-> None]
      /\ ideal' = [h \in Hashes |-> [lvl |-> Full, at |-> now]]
      /\ granted' = [h \in Hashes |-> 0]
      /\ was_reset' = TRUE
  BY Zenon DEF reset, cache!Clear, members
<1>2. /\ now \in Nat /\ max_bucket \in Nat /\ Full \in Nat /\ MsPerSec \in Nat \ {0}
      /\ rate \in Nat \ {0}
  BY Members, Numbers, Zenon DEF RateInv, RateTypeOK
<1>3. Full' = Full /\ ~Lossless' /\ (RefillsInTime' <=> RefillsInTime)
  BY <1>1, Zenon DEF Full, Lossless, RefillsInTime
<1>4. \A h \in Hashes : ideal'[h].lvl = Full /\ ideal'[h].at = now /\ entry'[h] = None
  BY <1>1, Zenon
<1>5. RateTypeOK'
  <2>1. granted' \in [Hashes -> 0..max_bucket]
    BY <1>1, <1>2, SMTT(120)
  <2>2. ideal' \in [Hashes -> [lvl : Int, at : 0..MaxTime]]
    BY <1>1, <1>2, SMTT(120) DEF RateInv, RateTypeOK, TypeOK
  <2>3. \A h \in Hashes : ideal'[h].at \in 0..MaxTime /\ ideal'[h].lvl <= Full'
    BY <1>2, <1>3, <1>4 DEF RateInv, RateTypeOK, TypeOK
  <2>4. entry' \in [Hashes -> [val : Quota, until : Nat] \cup {None}]
    BY <1>1, Zenon
  <2> QED
    BY <2>1, <2>2, <2>3, <2>4, <1>1, <1>4, Zenon DEF RateInv, RateTypeOK, TypeOK, Frame
<1>6. CallsInv'
  BY <1>1, Zenon DEF RateInv, CallsInv
<1>7. StoredInv' /\ ForgottenInv'
  BY <1>3, <1>4, Zenon DEF StoredInv, ForgottenInv
<1>8. ASSUME NEW c \in Callers, call'[c] # None, call'[c].pc = "got"
      PROVE  GotOf(c)'
  <2>1. PICK f, h, t : f = call[c] /\ h = f.hash /\ t = f.time
    BY Zenon
  <2>2. f \in Frame /\ h \in Hashes /\ t \in Nat /\ t <= now /\ f.remaining \in Nat
    BY <2>1, <1>1, <1>2, <1>8, SMTT(120) DEF RateInv, CallsInv, RateTypeOK, TypeOK, Frame
  <2>3. PICK q \in 0..t : Agrees(f, q, t, IdealAt(h, t))
    BY <2>1, <1>1, <1>8, Zenon DEF RateInv, GotInv
  <2>4. IdealAt(h, t) \in Int /\ IdealAt(h, t) <= Full
    BY <2>2, IdealBelow, Zenon DEF RateInv
  <2>5. IdealAt(h, t)' = Full
    BY <2>2, <1>1, <1>3, <1>4, Zenon DEF IdealAt
  <2>6. Units(f.remaining, q, t)' = Units(f.remaining, q, t) /\ Units(f.remaining, q, t) \in Int
    BY <2>2, <1>1, <1>2 DEF Units
  <2>7. Agrees(f, q, t, IdealAt(h, t))'
    BY <2>3, <2>4, <2>5, <2>6, <1>2, <1>3 DEF Agrees
  <2>8. call'[c] = f
    BY <2>1, <1>1, Zenon
  <2> QED
    BY <2>1, <2>3, <2>7, <2>8, <1>3, Zenon DEF GotOf
<1>9. GotInv'
  BY <1>8, Zenon DEF GotInv, GotOf
<1>10. LevelInv'
  BY <1>1, <1>2, <1>4, SMTT(120) DEF LevelInv
<1> QED
  BY <1>5, <1>6, <1>7, <1>9, <1>10, Zenon DEF RateInv

\* What get_remaining_int() finds: a quota in its bounds that agrees with the
\* exact bucket and has all its tokens, be the bucket stored or not.
Found(w, h, t) ==
  /\ w.remaining \in 0..max_bucket /\ w.current_ms \in 0..(ClockMod - 1)
  /\ \E p \in 0..t : Agrees(w, p, t, IdealAt(h, t))
  /\ Lossless => IdealAt(h, t) < w.remaining * MsPerSec + MsPerSec

\* A stored quota that is refilled agrees with the exact bucket.
LEMMA FoundStored ==
  ASSUME RateInv, NEW h \in Hashes, entry[h] # None, NEW t \in Nat, t <= now, ideal[h].at <= t,
         NEW w, w = Recovered(entry[h].val, (Boot + t) % ClockMod)
  PROVE  Found(w, h, t)
<1>1. PICK v, at, lvl : v = entry[h].val /\ at = ideal[h].at /\ lvl = ideal[h].lvl
  BY Zenon
<1>2. TypeOK /\ RateTypeOK /\ v.remaining \in 0..max_bucket /\ v.remaining \in Nat
      /\ at \in Nat /\ lvl \in Int
  BY <1>1, Members, SMTT(120) DEF RateInv, RateTypeOK, TypeOK, Quota
<1>3. PICK q \in 0..at : Agrees(v, q, at, lvl)
  BY <1>1, Zenon DEF RateInv, StoredInv
<1>4. PICK l : l = lvl + (t - at) * rate
  BY Zenon
<1>5. q \in 0..t /\ at <= t
  BY <1>1, <1>2, <1>3, SMTT(120)
<1>6. Agrees(v, q, t, l)
  BY <1>2, <1>3, <1>4, <1>5, AgreesLater, Zenon
<1>7. l \in Int /\ IdealAt(h, t) = IF Full <= l THEN Full ELSE l
  BY <1>1, <1>2, <1>4, IdealIs, Zenon
<1>8. PICK x : x = IdealAt(h, t)
  BY Zenon
<1>9. /\ w.remaining \in 0..max_bucket
      /\ \E p \in 0..t : Agrees(w, p, t, x)
      /\ Lossless => x < w.remaining * MsPerSec + MsPerSec
  BY <1>1, <1>2, <1>5, <1>6, <1>7, <1>8, RecoveredOk, Zenon
<1>10. w.current_ms \in 0..(ClockMod - 1)
  <2>1. PICK p \in 0..t : w.current_ms = (Boot + p) % ClockMod
    BY <1>9, Zenon DEF Agrees
  <2>2. Boot + p \in Int /\ ClockMod \in Nat \ {0}
    BY Numbers
  <2> QED
    BY <2>1, <2>2, Remainder, Zenon
<1> QED
  BY <1>8, <1>9, <1>10, Zenon DEF Found

\* So does a new one: what is not stored has had the time to refill.
LEMMA FoundMissing ==
  ASSUME RateInv, NEW h \in Hashes, entry[h] = None, NEW t \in Nat, t <= now,
         now - t <= MaxStall,
         NEW w, w = [remaining |-> max_bucket, current_ms |-> (Boot + t) % ClockMod]
  PROVE  Found(w, h, t)
<1>1. /\ max_bucket \in Nat /\ Full \in Nat /\ rate \in Nat
      /\ MsPerSec \in Nat \ {0} /\ ClockMod \in Nat \ {0} /\ Boot \in Nat
  BY Members, Numbers, Zenon DEF RateInv, RateTypeOK
<1>2. IdealAt(h, t) \in Int /\ IdealAt(h, t) <= Full
  BY IdealBelow, Zenon DEF RateInv
<1>3. RefillsInTime => Full < IdealAt(h, t) + MsPerSec
  BY ForgottenIsFull, Zenon
<1>4. Units(max_bucket, t, t) = Full
  BY <1>1 DEF Units, Full
<1>5. Agrees(w, t, t, IdealAt(h, t))
  BY <1>2, <1>3, <1>4, Zenon DEF Agrees
<1>6. w.current_ms \in 0..(ClockMod - 1)
  BY <1>1, Remainder, SMTT(120)
<1>7. IdealAt(h, t) < w.remaining * MsPerSec + MsPerSec
  BY <1>1, <1>2 DEF Full
<1> QED
  BY <1>1, <1>5, <1>6, <1>7 DEF Found

\* A call looks for its bucket.
LEMMA GetOk ==
  ASSUME RateInv, NEW c \in Callers, get_remaining_int(c)
  PROVE  RateInv'
<1>1. PICK f, h, t : f = call[c] /\ h = f.hash /\ t = f.time
  BY Zenon
<1>2. /\ f # None /\ f.pc = "lookup" /\ now' = now /\ cache!Get(h)
      /\ UNCHANGED <<members, history>> /\ UNCHANGED alive
  BY <1>1, Zenon DEF get_remaining_int, cache!Get
<1>3. /\ f \in Frame /\ h \in Hashes /\ t \in Nat /\ t <= now /\ now - t <= MaxStall
      /\ call \in [Callers -> Frame \cup {None}] /\ now \in Nat
  BY <1>1, <1>2, FrameIs, Members, Zenon DEF RateInv, RateTypeOK, TypeOK
<1>4. /\ Aged(h)
      /\ ret'[3] = IF entry[h] = None THEN None ELSE entry[h].val
      /\ entry[h] # None => entry[h].val \in Quota
  BY <1>2, <1>3, GetAges, Zenon DEF RateInv
<1>5. PICK w : /\ w = IF ret'[3] = None
                      THEN [remaining |-> max_bucket, current_ms |-> (Boot + t) % ClockMod]
                      ELSE Recovered(ret'[3], (Boot + t) % ClockMod)
               /\ call' = [call EXCEPT ![c] = [f EXCEPT !.pc = "got", !.remaining = w.remaining,
                                                        !.current_ms = w.current_ms]]
  BY <1>1, Zenon DEF get_remaining_int
<1>6. Found(w, h, t)
  <2>1. CASE entry[h] = None
    BY <2>1, <1>3, <1>4, <1>5, FoundMissing, Zenon
  <2>2. CASE entry[h] # None
    <3>1. ret'[3] # None /\ ret'[3] = entry[h].val
      BY <2>2, <1>4, RateAssumption, Zenon
    <3>2. ideal[h].at <= t
      BY <2>2, <1>1, <1>2, <1>3, Zenon DEF RateInv, StoredInv
    <3>3. w = Recovered(entry[h].val, (Boot + t) % ClockMod)
      BY <3>1, <1>5, Zenon
    <3> QED
      BY <3>2, <3>3, <2>2, <1>3, FoundStored, Zenon
  <2> QED
    BY <2>1, <2>2, Zenon
<1>7. PICK g : g = [f EXCEPT !.pc = "got", !.remaining = w.remaining, !.current_ms = w.current_ms]
  BY Zenon
<1>8. /\ g \in Frame /\ g.hash = h /\ g.time = t /\ g.pc = "got"
      /\ g.remaining = w.remaining /\ g.current_ms = w.current_ms
  BY <1>1, <1>3, <1>6, <1>7, Zenon DEF Found, Frame
<1>9. /\ call' \in [Callers -> Frame \cup {None}]
      /\ \A d \in Callers : call'[d] = IF d = c THEN g ELSE call[d]
  BY <1>3, <1>5, <1>7, <1>8, Zenon
<1>10. UNCHANGED <<max_bucket, rate, ideal, granted, was_reset, now>>
  BY <1>2, Zenon DEF members, history
<1>11. RateTypeOK'
  <2>1. entry' \in [Hashes -> [val : Quota, until : Nat] \cup {None}]
    BY <1>4, Zenon DEF Aged
  <2>2. \A e \in Hashes : entry'[e] # None => entry'[e].val.remaining <= max_bucket
    BY <1>4, Zenon DEF Aged, RateInv, RateTypeOK, TypeOK
  <2> QED
    BY <2>1, <2>2, <1>2, <1>9, <1>10, Zenon DEF RateInv, RateTypeOK, TypeOK, Frame, Full
<1>12. CallsInv'
  BY <1>1, <1>2, <1>3, <1>8, <1>9, <1>10, Zenon DEF RateInv, CallsInv
<1>13. StoredInv' /\ ForgottenInv'
  <2>1. Aged(h) /\ UNCHANGED <<members, history>>
    BY <1>2, <1>4, Zenon
  <2>2. now' \in Nat /\ now' >= now
    BY <1>2, <1>3
  <2>3. \A d \in Callers : call'[d] # None /\ call'[d].pc = "lookup" =>
           call'[d] = call[d] \/ call'[d].time = now
    BY <1>8, <1>9, Zenon
  <2> QED
    BY <2>1, <2>2, <2>3, CacheAges, Zenon
<1>14. ASSUME NEW d \in Callers, call'[d] # None, call'[d].pc = "got"
       PROVE  GotOf(d)'
  <2>1. d = c
    BY <1>1, <1>2, <1>9, <1>14, Zenon DEF RateInv, CallsInv
  <2>2. Lossless' => Lossless
    BY <1>10, Zenon DEF Lossless
  <2>3. \A v, q, s, l : Agrees(v, q, s, l) => Agrees(v, q, s, l)'
    BY <2>2, <1>2, StillAgrees, Zenon
  <2>4. IdealAt(h, t)' = IdealAt(h, t)
    BY <1>2, <1>10, SameIdeal, Zenon
  <2>5. PICK p \in 0..t : Agrees(w, p, t, IdealAt(h, t))
    BY <1>6, Zenon DEF Found
  <2>6. PICK l : l = IdealAt(h, t)
    BY Zenon
  <2>7. Agrees(w, p, t, l)'
    BY <2>3, <2>5, <2>6, Zenon
  <2>8. Agrees(g, p, t, IdealAt(h, t))'
    BY <2>4, <2>6, <2>7, <1>8, Zenon DEF Agrees
  <2>9. Lossless' => IdealAt(h, t)' < g.remaining * MsPerSec + MsPerSec
    BY <2>2, <2>4, <1>6, <1>8, Zenon DEF Found
  <2>10. call'[d] = g
    BY <2>1, <1>9, Zenon
  <2> QED
    BY <2>5, <2>8, <2>9, <2>10, <1>8, Zenon DEF GotOf
<1>15. GotInv'
  BY <1>14, Zenon DEF GotInv, GotOf
<1>16. LevelInv'
  BY <1>10, Zenon DEF RateInv, LevelInv, RefillsInTime, Full
<1> QED
  BY <1>11, <1>12, <1>13, <1>15, <1>16, Zenon DEF RateInv

\* put_quota() takes the same tokens from the quota and from the exact bucket.
LEMMA PutOk ==
  ASSUME RateInv, NEW c \in Callers, put_quota(c)
  PROVE  RateInv'
<1>1. PICK f, h, t, p : f = call[c] /\ h = f.hash /\ t = f.time /\ p = Min({f.point, f.remaining})
  BY Zenon
<1>2. PICK v, x : /\ v = [remaining |-> f.remaining - p, current_ms |-> f.current_ms]
                  /\ x = IdealAt(h, t)
  BY Zenon
<1>3. /\ f # None /\ f.pc = "got"
      /\ cache!Put(h, v)
      /\ call' = [call EXCEPT ![c] = None]
      /\ ideal' = [ideal EXCEPT ![h] = [lvl |-> x - p * MsPerSec, at |-> t]]
      /\ granted' = [granted EXCEPT ![h] = Min({max_bucket, @ + p})]
      /\ UNCHANGED <<members, was_reset>>
  BY <1>1, <1>2, Zenon DEF put_quota
<1>4. /\ f \in Frame /\ h \in Hashes /\ t \in 0..MaxTime /\ t \in Nat /\ t <= now
      /\ f.remaining \in 0..max_bucket /\ f.remaining \in Nat /\ f.point \in Nat
      /\ f.current_ms \in 0..(ClockMod - 1)
  BY <1>1, <1>3, FrameIs, Zenon
<1>5. p \in 0..f.remaining /\ p \in Nat
  <2>1. PICK a, b : a = f.point /\ b = f.remaining
    BY Zenon
  <2>2. a \in Nat /\ b \in Nat /\ p = Min({a, b})
    BY <2>1, <1>1, <1>4, Zenon
  <2>3. p \in 0..b /\ p \in Nat
    BY <2>2, MinOf
  <2> QED
    BY <2>1, <2>3, Zenon
<1>6. /\ call \in [Callers -> Frame \cup {None}]
      /\ ideal \in [Hashes -> [lvl : Int, at : 0..MaxTime]]
      /\ entry \in [Hashes -> [val : Quota, until : Nat] \cup {None}]
      /\ granted \in [Hashes -> 0..max_bucket]
      /\ now \in Nat /\ max_bucket \in Nat /\ rate \in Nat \ {0} /\ Full \in Nat
      /\ MsPerSec \in Nat \ {0} /\ Lifetime \in Nat
  BY Members, Numbers DEF RateInv, RateTypeOK, TypeOK, Lifetime
<1>7. x \in Int /\ x <= Full
  BY <1>2, <1>4, IdealBelow, Zenon DEF RateInv
<1>8. UNCHANGED <<max_bucket, rate, now, alive>>
  BY <1>3, Zenon DEF cache!Put, members
<1>9. PICK u \in Int : u >= now + Lifetime /\ entry' = [entry EXCEPT ![h] = [val |-> v, until |-> u]]
  BY <1>3, SMTT(120) DEF cache!Put, cache!Stored, Lifetime
<1>10. /\ v \in Quota /\ v.remaining \in 0..max_bucket /\ u \in Nat
       /\ [val |-> v, until |-> u] # None
  BY <1>2, <1>4, <1>5, <1>6, <1>9, RateAssumption, SMTT(120) DEF Quota
<1>11. \A d \in Callers : call'[d] = None
  BY <1>1, <1>3, <1>6, Zenon DEF RateInv, CallsInv
<1>12. \A g \in Hashes : g # h => entry'[g] = entry[g] /\ ideal'[g] = ideal[g]
  BY <1>3, <1>6, <1>9, Zenon
<1>13. /\ entry'[h] = [val |-> v, until |-> u] /\ entry'[h] # None
       /\ ideal'[h] = [lvl |-> x - p * MsPerSec, at |-> t]
       /\ entry'[h].val = v /\ entry'[h].until = u
       /\ ideal'[h].lvl = x - p * MsPerSec /\ ideal'[h].at = t
  <2>1. PICK y : y = x - p * MsPerSec
    BY Zenon
  <2>2. /\ entry'[h] = [val |-> v, until |-> u] /\ entry'[h] # None
        /\ ideal'[h] = [lvl |-> y, at |-> t]
    BY <2>1, <1>3, <1>4, <1>6, <1>9, <1>10, Zenon
  <2>3. entry'[h].val = v /\ entry'[h].until = u /\ ideal'[h].lvl = y /\ ideal'[h].at = t
    BY <2>2
  <2> QED
    BY <2>1, <2>2, <2>3, Zenon
<1>14. Full' = Full /\ (RefillsInTime' <=> RefillsInTime) /\ (Lossless' <=> Lossless)
  BY <1>3, <1>8, Zenon DEF Full, RefillsInTime, Lossless
<1>15. p * MsPerSec \in Nat /\ x - p * MsPerSec \in Int /\ x - p * MsPerSec <= Full
  <2>1. p * MsPerSec \in Nat
    BY <1>5, <1>6, SMTT(120)
  <2> QED
    BY <2>1, <1>6, <1>7
<1>16. RateTypeOK'
  <2>1. entry' \in [Hashes -> [val : Quota, until : Nat] \cup {None}]
    BY <1>6, <1>9, <1>10, Zenon
  <2>2. ideal' \in [Hashes -> [lvl : Int, at : 0..MaxTime]]
    BY <1>3, <1>4, <1>6, <1>15, Zenon
  <2>3. granted' \in [Hashes -> 0..max_bucket]
    <3>1. granted[h] \in Nat
      BY <1>4, <1>6
    <3>2. Min({max_bucket, granted[h] + p}) \in 0..max_bucket
      <4>1. granted[h] + p \in Nat
        BY <3>1, <1>5
      <4> QED
        BY <4>1, <1>6, MinOf, SMTT(120)
    <3> QED
      BY <3>2, <1>3, <1>6, Zenon
  <2>4. call' \in [Callers -> Frame \cup {None}]
    BY <1>3, <1>6, Zenon
  <2>5. ASSUME NEW g \in Hashes
        PROVE  ideal'[g].at \in 0..MaxTime /\ ideal'[g].lvl <= Full'
    <3>1. CASE g = h
      BY <3>1, <1>4, <1>13, <1>14, <1>15, Zenon
    <3>2. CASE g # h
      BY <3>2, <1>12, <1>14, Zenon DEF RateInv, RateTypeOK, TypeOK
    <3> QED
      BY <3>1, <3>2, Zenon
  <2>6. ASSUME NEW g \in Hashes, entry'[g] # None
        PROVE  entry'[g].val.remaining <= max_bucket
    <3>1. CASE g = h
      <4>1. v.remaining <= max_bucket
        BY <1>6, <1>10
      <4> QED
        BY <4>1, <3>1, <1>13, Zenon
    <3>2. CASE g # h
      BY <3>2, <2>6, <1>12, Zenon DEF RateInv, RateTypeOK, TypeOK
    <3> QED
      BY <3>1, <3>2, Zenon
  <2> QED
    BY <2>1, <2>2, <2>3, <2>4, <2>5, <2>6, <1>3, <1>8, Zenon DEF RateInv, RateTypeOK, TypeOK, Frame
<1>17. CallsInv' /\ GotInv'
  BY <1>11, Zenon DEF CallsInv, GotInv
<1>18. PICK q \in 0..t : Agrees(f, q, t, x)
  BY <1>1, <1>2, <1>3, Zenon DEF RateInv, GotInv
<1>19. /\ Units(v.remaining, q, t) = Units(f.remaining, q, t) - p * MsPerSec
       /\ Units(f.remaining, q, t) \in Int /\ Units(v.remaining, q, t) \in Int
       /\ Units(v.remaining, q, t) >= 0
  <2>1. (f.remaining - p) * MsPerSec = f.remaining * MsPerSec - p * MsPerSec
    BY <1>4, <1>5, <1>6, Times, SMTT(120)
  <2>2. (t - q) * rate \in Nat
    <3>1. t - q \in Nat
      BY <1>4
    <3> QED
      BY <3>1, <1>6
  <2>3. (f.remaining - p) * MsPerSec \in Nat
    <3>1. f.remaining - p \in Nat
      BY <1>4, <1>5, SMTT(120)
    <3> QED
      BY <3>1, <1>6
  <2>4. f.remaining * MsPerSec \in Nat
    BY <1>4, <1>6
  <2>5. v.remaining = f.remaining - p
    BY <1>2, Zenon
  <2> QED
    BY <2>1, <2>2, <2>3, <2>4, <2>5, <1>15, SMTT(120) DEF Units
<1>20. Agrees(v, q, t, x - p * MsPerSec)
  BY <1>2, <1>6, <1>7, <1>15, <1>18, <1>19, SMTT(120) DEF Agrees
<1>21. RefillsInTime => x - p * MsPerSec > -MsPerSec
  <2>1. PICK y, n : y = x - p * MsPerSec /\ n = Units(v.remaining, q, t)
    BY Zenon
  <2>2. y \in Int /\ n \in Int /\ n >= 0
    BY <2>1, <1>15, <1>19, Zenon
  <2>3. RefillsInTime => n < y + MsPerSec
    BY <2>1, <1>20, Zenon DEF Agrees
  <2>4. ASSUME RefillsInTime PROVE y > -MsPerSec
    <3>1. MsPerSec \in Int /\ n < y + MsPerSec
      BY <2>3, <2>4, <1>6
    <3> QED
      BY <3>1, <2>2
  <2> QED
    BY <2>1, <2>4, Zenon
<1>22. \A w, r, s, l : Agrees(w, r, s, l) => Agrees(w, r, s, l)'
  BY <1>3, <1>14, StillAgrees, Zenon
<1>23. ASSUME NEW g \in Hashes, entry'[g] # None
       PROVE  /\ entry'[g].until >= ideal'[g].at + Lifetime
              /\ \E r \in 0..ideal'[g].at : Agrees(entry[g].val, r, ideal[g].at, ideal[g].lvl)'
  <2>1. CASE g = h
    <3>1. entry'[g].until >= ideal'[g].at + Lifetime
      <4>1. t \in Nat /\ t <= now /\ now \in Nat
        BY <1>4, <1>6, Zenon
      <4>2. u \in Int /\ u >= now + Lifetime /\ Lifetime \in Nat
        BY <1>6, <1>9, Zenon
      <4>3. u >= t + Lifetime
        BY <4>1, <4>2
      <4> QED
        BY <4>3, <2>1, <1>13, Zenon
    <3>2. PICK l : l = x - p * MsPerSec
      BY Zenon
    <3>3. Agrees(v, q, t, l)'
      BY <3>2, <1>20, <1>22, Zenon
    <3>4. entry'[g].val = v /\ ideal'[g].at = t /\ ideal'[g].lvl = l
      BY <3>2, <2>1, <1>13, SMTT(120)
    <3>5. Agrees(entry[g].val, q, ideal[g].at, ideal[g].lvl)'
      BY <3>3, <3>4, Zenon
    <3> QED
      BY <3>1, <3>4, <3>5, <1>18, Zenon
  <2>2. CASE g # h
    <3>1. entry'[g] = entry[g] /\ ideal'[g] = ideal[g]
      BY <2>2, <1>12, Zenon
    <3>2. PICK w, s, l : w = entry[g].val /\ s = ideal[g].at /\ l = ideal[g].lvl
      BY Zenon
    <3>3. entry[g].until >= s + Lifetime /\ \E r \in 0..s : Agrees(w, r, s, l)
      BY <3>1, <3>2, <1>23, Zenon DEF RateInv, StoredInv, Lifetime
    <3>4. PICK r \in 0..s : Agrees(w, r, s, l)
      BY <3>3, Zenon
    <3>5. Agrees(w, r, s, l)'
      BY <3>4, <1>22, Zenon
    <3>6. entry'[g].val = w /\ ideal'[g].at = s /\ ideal'[g].lvl = l
      BY <3>1, <3>2, Zenon
    <3>7. Agrees(entry[g].val, r, ideal[g].at, ideal[g].lvl)'
      BY <3>5, <3>6, Zenon
    <3> QED
      BY <3>1, <3>3, <3>4, <3>6, <3>7, Zenon
  <2> QED
    BY <2>1, <2>2, Zenon
<1>24. StoredInv'
  BY <1>11, <1>23, Zenon DEF StoredInv, Lifetime
<1>25. ForgottenInv'
  BY <1>8, <1>12, <1>13, <1>14, Zenon DEF RateInv, ForgottenInv
<1>26. LevelInv'
  <2> SUFFICES ASSUME NEW g \in Hashes
               PROVE  ideal'[g].at <= now /\ (RefillsInTime => ideal'[g].lvl > -MsPerSec)
    BY <1>8, <1>14, Zenon DEF LevelInv
  <2>1. CASE g = h
    BY <2>1, <1>4, <1>13, <1>21, Zenon
  <2>2. CASE g # h
    BY <2>2, <1>12, Zenon DEF RateInv, LevelInv
  <2> QED
    BY <2>1, <2>2, Zenon
<1> QED
  BY <1>16, <1>17, <1>24, <1>25, <1>26, Zenon DEF RateInv

-----------------------------------------------------------------------------
(* The theorem *)

\* The invariant holds at first ...
LEMMA RateInvInit ==
  ASSUME Init
  PROVE  RateInv
<1>1. PICK b \in Buckets : max_bucket = b[1] /\ rate = b[2]
  BY Zenon DEF Init
<1>2. <<max_bucket, rate>> \in Buckets /\ max_bucket \in Nat /\ rate \in Nat \ {0}
  BY <1>1, RateAssumption
<1>3. Full \in Nat /\ MsPerSec \in Nat \ {0} /\ MaxTime \in Nat
  BY <1>2, Numbers, SMTT(120) DEF Full
<1>4. RateTypeOK
  <2>1. alive /\ was_reset \in BOOLEAN
    BY Zenon DEF Init
  <2>2. ideal \in [Hashes -> [lvl : Int, at : 0..MaxTime]]
    BY <1>3, SMTT(120) DEF Init
  <2>3. granted \in [Hashes -> 0..max_bucket] /\ now \in 0..MaxTime
    BY <1>2, <1>3, SMTT(120) DEF Init
  <2>4. \A h \in Hashes : entry[h] = None /\ ideal[h].at = 0 /\ ideal[h].lvl = Full
    BY Zenon DEF Init
  <2>5. /\ entry \in [Hashes -> [val : Quota, until : Nat] \cup {None}]
        /\ call \in [Callers -> Frame \cup {None}]
    BY Zenon DEF Init
  <2> QED
    BY <2>1, <2>2, <2>3, <2>4, <2>5, <1>2, <1>3 DEF RateTypeOK, TypeOK
<1>5. CallsInv /\ StoredInv /\ ForgottenInv /\ GotInv
  BY Zenon DEF Init, CallsInv, StoredInv, ForgottenInv, GotInv
<1>6. LevelInv
  BY <1>3 DEF Init, LevelInv
<1> QED
  BY <1>4, <1>5, <1>6, Zenon DEF RateInv

\* ... is kept by every step ...
LEMMA RateInvNext ==
  ASSUME RateInv, [Next]_vars
  PROVE  RateInv'
<1>1. ASSUME NEW c \in Callers, checkpoint(c)
      PROVE  RateInv'
  <2>1. PICK h \in Hashes, p \in Points : Begin(c, h, p, TRUE)
    BY <1>1, Zenon DEF checkpoint
  <2> QED
    BY <2>1, BeginOk, Zenon
<1>2. ASSUME NEW c \in Callers, get_remaining(c)
      PROVE  RateInv'
  <2>1. PICK h \in Hashes : Begin(c, h, 0, FALSE)
    BY <1>2, Zenon DEF get_remaining
  <2> QED
    BY <2>1, BeginOk, Zenon
<1>3. ASSUME NEW c \in Callers, get_remaining_int(c)
      PROVE  RateInv'
  BY <1>3, GetOk, Zenon
<1>4. ASSUME NEW c \in Callers, Return(c)
      PROVE  RateInv'
  BY <1>4, ReturnOk, Zenon
<1>5. ASSUME NEW c \in Callers, put_quota(c)
      PROVE  RateInv'
  BY <1>5, PutOk, Zenon
<1>6. CASE reset
  BY <1>6, ResetOk, Zenon
<1>7. CASE tick
  BY <1>7, TickOk, Zenon
<1>8. CASE Done \/ UNCHANGED vars
  BY <1>8, StutterOk, Zenon DEF Done
<1> QED
  BY <1>1, <1>2, <1>3, <1>4, <1>5, <1>6, <1>7, <1>8, Zenon DEF Next

\* ... and says that the quotas are exact.
LEMMA RateInvExact ==
  ASSUME RateInv
  PROVE  QuotaExact
<1>1. TypeOK
  BY Zenon DEF RateInv, RateTypeOK
<1>2. RefillsInTime => \A h \in Hashes : ideal[h].lvl > -MsPerSec
  BY Zenon DEF RateInv, LevelInv
<1>3. ASSUME NEW c \in Callers, Lossless, call[c] # None, call[c].pc = "got"
      PROVE  call[c].remaining >= IdealAt(call[c].hash, call[c].time) \div MsPerSec
  <2>1. PICK x, r : x = IdealAt(call[c].hash, call[c].time) /\ r = call[c].remaining
    BY Zenon
  <2>2. x < r * MsPerSec + MsPerSec
    BY <2>1, <1>3, Zenon DEF RateInv, GotInv
  <2>3. r \in Int /\ call[c].hash \in Hashes /\ call[c].time \in Nat
    <3>1. call \in [Callers -> Frame \cup {None}] /\ max_bucket \in Nat
      BY Members, Zenon DEF RateInv, RateTypeOK, TypeOK
    <3>2. call[c] \in Frame
      BY <3>1, <1>3, Zenon
    <3> QED
      BY <3>1, <3>2, <2>1 DEF Frame
  <2>4. x \in Int
    BY <2>1, <2>3, IdealBelow, Zenon DEF RateInv
  <2>5. PICK k : k = x \div MsPerSec
    BY Zenon
  <2>6. k <= r
    BY <2>2, <2>3, <2>4, <2>5, Numbers, DivideLess, Zenon
  <2>7. k \in Int
    BY <2>4, <2>5, Numbers, Remainder, Zenon
  <2> QED
    BY <2>1, <2>3, <2>5, <2>6, <2>7, Zenon
<1> QED
  BY <1>1, <1>2, <1>3, Zenon DEF QuotaExact, Lossless

\* The limiter grants no token that the exact bucket does not have, and loses
\* none, for any number of callers and buckets, any rate, any start of the
\* 32-bit clock and any interleaving of checkpoint(), get_remaining(), reset()
\* and the cache's expiry.
THEOREM QuotasExact == Spec => []QuotaExact
<1>1. Init => RateInv
  BY RateInvInit, Zenon
<1>2. RateInv /\ [Next]_vars => RateInv'
  BY RateInvNext, Zenon
<1>3. RateInv => QuotaExact
  BY RateInvExact, Zenon
<1> QED
  BY <1>1, <1>2, <1>3, PTL DEF Spec
=============================================================================
