-------------------------- MODULE StaticFilesProofs ------------------------
(***************************************************************************)
(* Proofs about StaticFiles, for any tree of files and links, any sizes    *)
(* and any requests.                                                       *)
(***************************************************************************)
EXTENDS StaticFiles, TLAPS

\* The place whose bytes the names below the root lead to.  It depends on the
\* tree and the links alone.
Served(names) ==
  LET p == Reached(Root, percent_decode(names))
  IN  IF Kind[p] = "dir" THEN Reached(p, <<"index.html">>) ELSE p

StaticTypeOK ==
  /\ version \in [Files -> 0..MaxVersion]
  /\ range_hdr \in [s : Int, e : Int]
  /\ conditional \in {"none", "etag", "date", "both", "star"}
  /\ handler_at \in {"idle", "resolve", "stat", "index", "stat_index", "read"}

\* What the handler has established when it makes the next system call.
OnTheWay ==
  /\ handler_at \in {"stat", "index", "stat_index", "read"} => real_path \in DOMAIN Kind /\ Inside(real_path)
  /\ handler_at \in {"stat", "index"} => real_path = Reached(Root, percent_decode(path))
  /\ handler_at = "index" => Kind[real_path] = "dir"
  /\ handler_at \in {"stat_index", "read"} => real_path = Served(path)
  /\ handler_at = "read" =>
       /\ real_path \in Files /\ st \in 1..MaxVersion
       /\ version[real_path] = 0 \/ st <= version[real_path]
  /\ handler_at # "idle" => response = NoResponse
  /\ handler_at # "idle" /\ conditional \in {"etag", "date", "both"} => copy # NoCopy /\ copy.path = path

\* The label of the copy is the version stat() has seen, its bytes are those
\* of version v, which read() has found, and the file is at a later version,
\* if it is still there.
KeptAs(c, now, v) ==
  /\ v \in c.label..MaxVersion
  /\ c.body = Bytes(v, 0, FileSize[c.label])
  /\ FileSize[c.label] > 0 /\ now # 0 => v <= now

Kept ==
  copy # NoCopy =>
    /\ Served(copy.path) \in Files /\ copy.label \in 1..MaxVersion
    /\ version[Served(copy.path)] = 0 \/ copy.label <= version[Served(copy.path)]
    /\ \E v \in 1..MaxVersion : KeptAs(copy, version[Served(copy.path)], v)

StaticInv == StaticTypeOK /\ OnTheWay /\ Kept /\ CachedFresh /\ BodyExact

-----------------------------------------------------------------------------
\* range_of() answers with the bytes the header asks for, or not at all.
LEMMA RangeExact ==
  ASSUME NEW h \in [s : Int, e : Int], NEW n \in Nat, range_of(h, n) # NoRange
  PROVE  /\ range_of(h, n).s \in Nat /\ range_of(h, n).e \in Nat
         /\ range_of(h, n).s <= range_of(h, n).e /\ range_of(h, n).e < n
         /\ {o \in 0..n - 1 : IF h.s = -1 THEN o >= n - h.e ELSE o >= h.s /\ (h.e # -1 => o <= h.e)}
              = range_of(h, n).s..range_of(h, n).e
<1>0. h.s \in Int /\ h.e \in Int
  BY Zenon
<1>1. CASE h.s = -1
  <2>1. h.e > 0 /\ range_of(h, n) = [s |-> IF h.e >= n THEN 0 ELSE n - h.e, e |-> n - 1] /\ n # 0
    BY <1>1, Zenon DEF range_of
  <2>2. range_of(h, n).e = n - 1 /\ range_of(h, n).s = IF h.e >= n THEN 0 ELSE n - h.e
    BY <2>1
  <2> QED
    BY <1>0, <1>1, <2>1, <2>2
<1>2. CASE h.s # -1
  <2> DEFINE last == IF h.e = -1 THEN n - 1 ELSE h.e
  <2>1. h.s >= 0 /\ last < n /\ h.s <= last /\ range_of(h, n) = [s |-> h.s, e |-> last]
    BY <1>2, Zenon DEF range_of
  <2>2. range_of(h, n).e = last /\ range_of(h, n).s = h.s
    BY <2>1
  <2>3. last \in Int
    BY <1>0
  <2> QED
    BY <1>0, <1>2, <2>1, <2>2, <2>3
<1> QED
  BY <1>1, <1>2, Zenon

\* A file has a version from 0 on, and a size if it is there.
LEMMA Versions ==
  ASSUME StaticTypeOK, NEW p \in Files
  PROVE  version[p] \in 0..MaxVersion /\ (version[p] # 0 => FileSize[version[p]] \in Nat)
  BY StaticAssumption DEF StaticTypeOK

\* A place that exists is a file with a version or something else.
LEMMA ResolvedExists ==
  ASSUME NEW dir, NEW names, resolve_path(dir, names) # Nowhere
  PROVE  /\ resolve_path(dir, names) = Reached(dir, names)
         /\ resolve_path(dir, names) \in DOMAIN Kind
  BY Zenon DEF resolve_path, Exists

\* The response to a request that fails says nothing about bytes.
LEMMA FailsOk ==
  ASSUME StaticInv, NEW status \in {400, 403, 404, 500}, handler_at # "idle", Fails(status)
  PROVE  StaticInv'
<1>1. response'.status = status
  BY DEF Fails, Responds, NoResponse
<1>2. handler_at' = "idle"
      /\ UNCHANGED <<version, path, range_hdr, conditional, real_path, st, copy>>
  BY DEF Fails, Responds
<1>3. CachedFresh' /\ BodyExact'
  BY <1>1 DEF CachedFresh, BodyExact
<1>4. Kept'
  BY <1>2 DEF Kept, StaticInv
<1>5. StaticTypeOK' /\ OnTheWay'
  BY <1>2 DEF StaticTypeOK, OnTheWay, StaticInv
<1> QED
  BY <1>3, <1>4, <1>5 DEF StaticInv

\* Another program replaces or removes a file: its version only grows, until
\* it is gone for good.
LEMMA FileChanges ==
  ASSUME StaticInv, NEW p \in Files, file_changes(p)
  PROVE  StaticInv'
<1>1. /\ version \in [Files -> 0..MaxVersion] /\ version[p] # 0
      /\ version' = [version EXCEPT ![p] = IF version[p] < MaxVersion THEN version[p] + 1 ELSE 0]
      /\ UNCHANGED <<handler_at, path, range_hdr, conditional, real_path, st, response, copy>>
  BY Zenon DEF file_changes, StaticInv, StaticTypeOK
<1>2. version[p] \in 0..MaxVersion /\ MaxVersion \in Nat
  BY <1>1, StaticAssumption, Zenon
<1>3. version' \in [Files -> 0..MaxVersion]
  BY <1>1, <1>2
<1>4. \A f \in Files : version[f] \in Nat /\ (version'[f] = 0 \/ (version[f] # 0 /\ version[f] <= version'[f])
                                              \/ version'[f] = version[f])
  BY <1>1, <1>2
<1>5. StaticTypeOK'
  BY <1>1, <1>3, Zenon DEF StaticInv, StaticTypeOK
<1>6. OnTheWay'
  <2>1. handler_at = "read" => version'[real_path] = 0 \/ st <= version'[real_path]
    <3> SUFFICES ASSUME handler_at = "read"
                 PROVE  version'[real_path] = 0 \/ st <= version'[real_path]
      BY Zenon
    <3>1. real_path \in Files /\ st \in 1..MaxVersion /\ (version[real_path] = 0 \/ st <= version[real_path])
      BY Zenon DEF StaticInv, OnTheWay
    <3>2. version'[real_path] \in Nat
      BY <1>2, <1>3, <3>1
    <3> QED
      BY <1>2, <1>4, <3>1, <3>2
  <2> QED
    BY <1>1, <2>1, Zenon DEF StaticInv, OnTheWay
<1>7. Kept'
  <2> SUFFICES ASSUME copy # NoCopy
               PROVE  /\ Served(copy.path) \in Files /\ copy.label \in 1..MaxVersion
                      /\ version'[Served(copy.path)] = 0 \/ copy.label <= version'[Served(copy.path)]
                      /\ \E v \in 1..MaxVersion : KeptAs(copy, version'[Served(copy.path)], v)
    BY <1>1, Zenon DEF Kept, KeptAs, Served
  <2> DEFINE f == Served(copy.path)
  <2>1. /\ f \in Files /\ copy.label \in 1..MaxVersion
        /\ version[f] = 0 \/ copy.label <= version[f]
        /\ \E v \in 1..MaxVersion : KeptAs(copy, version[f], v)
    BY Zenon DEF StaticInv, Kept
  <2> HIDE DEF f
  <2>2. PICK v \in 1..MaxVersion : KeptAs(copy, version[f], v)
    BY <2>1, Zenon
  <2>3. version'[f] \in Nat /\ version[f] \in Nat
    BY <1>2, <1>3, <1>4, <2>1
  <2>4. version'[f] = 0 \/ copy.label <= version'[f]
    BY <1>2, <1>4, <2>1, <2>3
  <2>5. KeptAs(copy, version'[f], v)
    <3>1. version'[f] # 0 => version[f] # 0 /\ version[f] <= version'[f]
      BY <1>4, <2>1, <2>3
    <3> QED
      BY <1>2, <2>2, <2>3, <3>1 DEF KeptAs
  <2> QED
    BY <2>1, <2>4, <2>5, Zenon DEF f
<1>8. CachedFresh' /\ BodyExact'
  BY <1>1, ZenonT(120) DEF StaticInv, CachedFresh, BodyExact
<1> QED
  BY <1>5, <1>6, <1>7, <1>8, Zenon DEF StaticInv

\* A request comes in.
LEMMA RequestOk ==
  ASSUME StaticInv, NEW p \in Paths, NEW range \in RangeHeaders,
         NEW cond \in {"none", "etag", "date", "both", "star"}, request(p, range, cond)
  PROVE  StaticInv'
<1>1. /\ UNCHANGED <<version, copy>>
      /\ path' = p /\ range_hdr' = range /\ conditional' = cond
      /\ cond \in {"etag", "date", "both"} => copy # NoCopy /\ copy.path = p
  BY Zenon DEF request
<1>2. \/ handler_at' = "idle" /\ response'.status = 400
      \/ handler_at' = "resolve" /\ response' = NoResponse
  BY DEF request, NoResponse
<1>3. range \in [s : Int, e : Int]
  BY StaticAssumption, Zenon
<1>4. response'.status \in {0, 400}
  BY <1>2 DEF NoResponse
<1>5. CachedFresh' /\ BodyExact'
  BY <1>4 DEF CachedFresh, BodyExact
<1>6. Kept'
  BY <1>1, Zenon DEF StaticInv, Kept
<1>7. StaticTypeOK' /\ OnTheWay'
  BY <1>1, <1>2, <1>3 DEF StaticInv, StaticTypeOK, OnTheWay
<1> QED
  BY <1>5, <1>6, <1>7, Zenon DEF StaticInv

\* The handler goes on to its next system call.
LEMMA GoesOnOk ==
  ASSUME StaticInv, NEW to, NEW p, GoesOn(to, p),
         p \in DOMAIN Kind, Inside(p), handler_at # "idle",
         \/ to \in {"stat", "index"} /\ p = Reached(Root, percent_decode(path))
            /\ (to = "index" => Kind[p] = "dir")
         \/ to = "stat_index" /\ p = Served(path)
  PROVE  StaticInv'
<1>1. handler_at' = to /\ real_path' = p
      /\ UNCHANGED <<version, path, range_hdr, conditional, st, response, copy>>
  BY Zenon DEF GoesOn
<1>2. response = NoResponse /\ response'.status = 0
  BY <1>1 DEF StaticInv, OnTheWay, NoResponse
<1>3. CachedFresh' /\ BodyExact'
  BY <1>2 DEF CachedFresh, BodyExact
<1>4. Kept' /\ StaticTypeOK'
  BY <1>1, Zenon DEF StaticInv, Kept, StaticTypeOK
<1>5. OnTheWay'
  BY <1>1, <1>2, Zenon DEF StaticInv, OnTheWay, Served
<1> QED
  BY <1>3, <1>4, <1>5, Zenon DEF StaticInv

\* stat() has found a version of the file the target leads to.  If that is
\* not later than the label of the copy, nothing has been written since the
\* stat() of the response that was kept, so the bytes are of this version too.
LEMMA FoundOk ==
  ASSUME StaticInv, handler_at \in {"stat", "stat_index"}, real_path \in Files, real_path = Served(path),
         version[real_path] # 0, Found(version[real_path])
  PROVE  StaticInv'
<1> DEFINE v == version[real_path]
<1>1. v \in 1..MaxVersion /\ MaxVersion \in Nat /\ FileSize[v] \in Nat
  BY Versions, StaticAssumption DEF StaticInv
<1>2. /\ UNCHANGED <<version, path, range_hdr, conditional, real_path, copy>> /\ st' = v
      /\ response = NoResponse
      /\ conditional \in {"etag", "date", "both"} => copy # NoCopy /\ copy.path = path
  BY Zenon DEF Found, Responds, StaticInv, OnTheWay
<1>3. \/ not_modified(v) /\ handler_at' = "idle" /\ response'.status = 304
      \/ handler_at' = "read" /\ response' = NoResponse
  BY <1>2 DEF Found, Responds, NoResponse
<1> HIDE DEF v
<1>4. BodyExact'
  BY <1>3 DEF BodyExact, NoResponse
<1>5. Kept'
  BY <1>2, Zenon DEF StaticInv, Kept
<1>6. StaticTypeOK'
  BY <1>2, <1>3, Zenon DEF StaticInv, StaticTypeOK
<1>7. OnTheWay'
  <2>1. Inside(real_path) /\ real_path \in DOMAIN Kind
    BY Zenon DEF StaticInv, OnTheWay
  <2>2. v <= version[real_path]
    BY <1>1 DEF v
  <2> QED
    BY <1>1, <1>2, <1>3, <2>1, <2>2, Zenon DEF OnTheWay, Served
<1>8. CachedFresh'
  <2> SUFFICES ASSUME response'.status = 304, conditional # "star"
               PROVE  copy.body = Bytes(v, 0, FileSize[v])
    BY <1>2 DEF CachedFresh, Bytes
  <2>1. /\ not_modified(v) /\ copy # NoCopy /\ copy.path = path
        /\ v = copy.label \/ v <= copy.label
    BY <1>2, <1>3 DEF not_modified, NoResponse, StaticInv, StaticTypeOK
  <2>2. /\ copy.label \in 1..MaxVersion /\ (v = 0 \/ copy.label <= v)
        /\ \E w \in 1..MaxVersion : KeptAs(copy, v, w)
    BY <2>1 DEF StaticInv, Kept, v
  <2>3. copy.label = v
    BY <1>1, <2>1, <2>2
  <2>4. PICK w \in 1..MaxVersion : KeptAs(copy, v, w)
    BY <2>2, Zenon
  <2>5. /\ copy.body = Bytes(w, 0, FileSize[v])
        /\ w >= v /\ (FileSize[v] > 0 => w <= v)
    BY <1>1, <2>3, <2>4 DEF KeptAs
  <2>6. CASE FileSize[v] > 0
    BY <1>1, <2>5, <2>6
  <2>7. CASE FileSize[v] = 0
    BY <2>5, <2>7 DEF Bytes
  <2> QED
    BY <1>1, <2>6, <2>7
<1> QED
  BY <1>4, <1>5, <1>6, <1>7, <1>8, Zenon DEF StaticInv

\* The two calls of realpath() and of stat().
LEMMA WalkOk ==
  ASSUME StaticInv, resolve \/ stat \/ resolve_index \/ stat_index
  PROVE  StaticInv'
<1>1. CASE resolve
  <2> DEFINE p == resolve_path(Root, percent_decode(path))
  <2>1. handler_at = "resolve" /\ (Fails(404) \/ Fails(403) \/ (p # Nowhere /\ Inside(p) /\ GoesOn("stat", p)))
    BY <1>1, Zenon DEF resolve
  <2>2. p # Nowhere => p = Reached(Root, percent_decode(path)) /\ p \in DOMAIN Kind
    BY ResolvedExists, Zenon
  <2> HIDE DEF p
  <2> QED
    BY <2>1, <2>2, FailsOk, GoesOnOk
<1>2. CASE stat
  <2>1. /\ handler_at = "stat" /\ real_path \in DOMAIN Kind /\ Inside(real_path)
        /\ real_path = Reached(Root, percent_decode(path))
    BY <1>2, Zenon DEF stat, StaticInv, OnTheWay
  <2>2. Kind[real_path] \in {"dir", "file", "other"}
    BY <2>1, StaticAssumption, Zenon
  <2>3. \/ Fails(404) \/ Fails(403)
        \/ Kind[real_path] = "dir" /\ GoesOn("index", real_path)
        \/ Exists(real_path) /\ Kind[real_path] = "file" /\ Found(version[real_path])
    BY <1>2, <2>2, Zenon DEF stat
  <2>4. CASE Exists(real_path) /\ Kind[real_path] = "file" /\ Found(version[real_path])
    <3>1. real_path \in Files /\ version[real_path] # 0
      BY <2>1, <2>4, Zenon DEF Exists, Files
    <3>2. real_path = Served(path)
      BY <2>1, <2>4, Zenon DEF Served
    <3> QED
      BY <2>1, <2>4, <3>1, <3>2, FoundOk, Zenon
  <2>5. CASE Kind[real_path] = "dir" /\ GoesOn("index", real_path)
    BY <2>1, <2>5, GoesOnOk, Zenon
  <2>6. CASE Fails(404) \/ Fails(403)
    BY <2>1, <2>6, FailsOk
  <2> QED
    BY <2>3, <2>4, <2>5, <2>6, Zenon
<1>3. CASE resolve_index
  <2> DEFINE p == resolve_path(real_path, <<"index.html">>)
  <2>1. handler_at = "index" /\ (Fails(404) \/ Fails(403) \/ (p # Nowhere /\ Inside(p) /\ GoesOn("stat_index", p)))
    BY <1>3, Zenon DEF resolve_index
  <2>2. p # Nowhere => p = Reached(real_path, <<"index.html">>) /\ p \in DOMAIN Kind
    BY ResolvedExists, Zenon
  <2>3. real_path = Reached(Root, percent_decode(path)) /\ Kind[real_path] = "dir"
    BY <2>1, Zenon DEF StaticInv, OnTheWay
  <2> HIDE DEF p
  <2>4. p # Nowhere => p = Served(path)
    BY <2>2, <2>3, Zenon DEF Served
  <2> QED
    BY <2>1, <2>2, <2>4, FailsOk, GoesOnOk
<1>4. CASE stat_index
  <2>1. handler_at = "stat_index" /\ real_path \in DOMAIN Kind /\ real_path = Served(path)
    BY <1>4, Zenon DEF stat_index, StaticInv, OnTheWay
  <2>2. \/ Fails(404) \/ Fails(403)
        \/ Exists(real_path) /\ Kind[real_path] = "file" /\ Found(version[real_path])
    BY <1>4, Zenon DEF stat_index
  <2>3. CASE Exists(real_path) /\ Kind[real_path] = "file" /\ Found(version[real_path])
    <3>1. real_path \in Files /\ version[real_path] # 0
      BY <2>1, <2>3, Zenon DEF Exists, Files
    <3> QED
      BY <2>1, <2>3, <3>1, FoundOk, Zenon
  <2>4. CASE Fails(404) \/ Fails(403)
    BY <2>1, <2>4, FailsOk
  <2> QED
    BY <2>2, <2>3, <2>4, Zenon
<1> QED
  BY <1>1, <1>2, <1>3, <1>4, Zenon

\* The bytes of a range: their number and what each is.
LEMMA BytesExact ==
  ASSUME NEW v, NEW first \in Nat, NEW n \in Nat
  PROVE  /\ Len(Bytes(v, first, n)) = n /\ DOMAIN Bytes(v, first, n) = 1..n
         /\ \A i \in 1..n : Bytes(v, first, n)[i] = <<v, first + i - 1>>
  BY DEF Bytes

\* The handler reads what is there now and sends it with the size and the
\* validators of the version stat() has seen.
LEMMA ReadOk ==
  ASSUME StaticInv, read_file
  PROVE  StaticInv'
<1> DEFINE fsize == FileSize[st]
           r == range_of(range_hdr, fsize)
           first == IF r = NoRange THEN 0 ELSE r.s
           last == IF r = NoRange THEN fsize - 1 ELSE r.e
           n == last - first + 1
           now == version[real_path]
           body == IF fsize = 0 THEN <<>> ELSE Bytes(now, first, n)
           status == IF r = NoRange THEN 200 ELSE 206
           sent == [status |-> status, first |-> first, last |-> last, total |-> fsize, body |-> body]
           kept == [path |-> path, label |-> st, body |-> body]
<1>1. /\ handler_at = "read" /\ real_path \in Files /\ Inside(real_path) /\ real_path = Served(path)
      /\ st \in 1..MaxVersion /\ (now = 0 \/ st <= now)
  BY Zenon DEF read_file, StaticInv, OnTheWay
<1>2. now \in 0..MaxVersion /\ MaxVersion \in Nat /\ fsize \in Nat
  BY <1>1, Versions, StaticAssumption, Zenon DEF StaticInv
<1>3. range_hdr \in [s : Int, e : Int]
  BY Zenon DEF StaticInv, StaticTypeOK
<1>4. \/ Fails(500)
      \/ /\ fsize > 0 => read_file_range(first, n)
         /\ Responds(sent) /\ copy' = IF r = NoRange THEN kept ELSE copy
         /\ UNCHANGED <<real_path, st>>
  BY <1>2, Zenon DEF read_file
<1>5. CASE Fails(500)
  BY <1>1, <1>5, FailsOk
<1>6. CASE /\ fsize > 0 => read_file_range(first, n)
           /\ Responds(sent) /\ copy' = IF r = NoRange THEN kept ELSE copy
           /\ UNCHANGED <<real_path, st>>
  <2> DEFINE asked == {o \in 0..fsize - 1 :
                         r # NoRange =>
                           IF range_hdr.s = -1 THEN o >= fsize - range_hdr.e
                           ELSE o >= range_hdr.s /\ (range_hdr.e # -1 => o <= range_hdr.e)}
  <2>1. /\ first \in Nat /\ last \in Int /\ n \in Nat /\ asked = first..last
        /\ fsize = 0 => n = 0
    <3>1. CASE r = NoRange
      BY <1>2, <3>1
    <3>2. CASE r # NoRange
      <4> HIDE DEF fsize
      <4>1. /\ r.s \in Nat /\ r.e \in Nat /\ r.s <= r.e /\ r.e < fsize
            /\ {o \in 0..fsize - 1 : IF range_hdr.s = -1 THEN o >= fsize - range_hdr.e
                                     ELSE o >= range_hdr.s /\ (range_hdr.e # -1 => o <= range_hdr.e)}
                 = r.s..r.e
        BY <1>2, <1>3, <3>2, RangeExact, Zenon
      <4> HIDE DEF r
      <4>2. asked = r.s..r.e
        BY <3>2, <4>1, Zenon
      <4> QED
        BY <1>2, <3>2, <4>1, <4>2
    <3> QED
      BY <3>1, <3>2, Zenon
  <2>2. /\ handler_at' = "idle" /\ response' = sent
        /\ UNCHANGED <<version, path, range_hdr, conditional, real_path, st>>
    BY <1>6, Zenon DEF Responds
  <2>3. r = NoRange => first = 0 /\ n = fsize
    BY <1>2
  <2>4. /\ status = 206 <=> r # NoRange
        /\ status \in {200, 206}
    OBVIOUS
  <2>5. fsize > 0 => now # 0
    BY <1>1, <1>6, Zenon DEF read_file_range, Exists
  <2>6. /\ Len(body) = n /\ \A i \in DOMAIN body : body[i] = <<body[1][1], first + i - 1>>
    <3>1. CASE fsize = 0
      BY <2>1, <3>1, SMTT(120)
    <3>2. CASE fsize # 0
      <4>1. body = Bytes(now, first, n)
        BY <3>2, Zenon
      <4> HIDE DEF body, now, first, n
      <4>2. first \in Nat /\ n \in Nat
        BY <2>1, Zenon
      <4>3. /\ Len(body) = n /\ DOMAIN body = 1..n
            /\ \A i \in 1..n : body[i] = <<now, first + i - 1>>
        BY <4>1, <4>2, BytesExact, Zenon
      <4> QED
        BY <4>2, <4>3
    <3> QED
      BY <3>1, <3>2, Zenon
  <2>7. copy' # copy => copy' = kept /\ r = NoRange
    BY <1>6, Zenon
  <2>8. KeptAs(kept, now, IF fsize = 0 THEN st ELSE now) \/ r # NoRange
    <3>1. CASE fsize = 0
      BY <1>1, <1>2, <3>1, SMTT(120) DEF KeptAs, Bytes
    <3>2. CASE fsize # 0
      BY <1>1, <1>2, <2>3, <2>5, <3>2, SMTT(120) DEF KeptAs
    <3> QED
      BY <3>1, <3>2, Zenon
  <2> HIDE DEF body, now, first, last, n, r, status
  <2>9. /\ response'.status = status /\ response'.first = first /\ response'.last = last
        /\ response'.total = fsize /\ response'.body = body
    BY <2>2, Zenon
  <2>10. BodyExact'
    <3>1. asked = {o \in 0..response'.total - 1 :
                     response'.status = 206 =>
                       IF range_hdr.s = -1 THEN o >= response'.total - range_hdr.e
                       ELSE o >= range_hdr.s /\ (range_hdr.e # -1 => o <= range_hdr.e)}
      BY <2>4, <2>9
    <3> HIDE DEF asked
    <3> QED
      BY <1>1, <2>1, <2>2, <2>6, <2>9, <3>1 DEF BodyExact, Inside, Files, n
  <2>11. CachedFresh'
    BY <2>4, <2>9 DEF CachedFresh
  <2>12. StaticTypeOK' /\ OnTheWay'
    BY <2>2, Zenon DEF StaticInv, StaticTypeOK, OnTheWay
  <2>13. Kept'
    <3>1. CASE copy' = copy
      BY <2>2, <3>1, Zenon DEF StaticInv, Kept
    <3>2. CASE copy' = kept /\ r = NoRange
      <4>1. kept.path = path /\ kept.label = st
        BY Zenon
      <4>2. (IF fsize = 0 THEN st ELSE now) \in 1..MaxVersion
        BY <1>1, <1>2, <2>5
      <4> HIDE DEF kept
      <4>3. \E v \in 1..MaxVersion : KeptAs(kept, now, v)
        BY <2>8, <3>2, <4>2, Zenon
      <4>4. version'[Served(copy'.path)] = now /\ Served(copy'.path) = real_path
        BY <1>1, <2>2, <3>2, <4>1, Zenon DEF now
      <4> QED
        BY <1>1, <3>2, <4>1, <4>3, <4>4, Zenon DEF Kept
    <3> QED
      BY <2>7, <3>1, <3>2, Zenon
  <2> QED
    BY <2>10, <2>11, <2>12, <2>13, Zenon DEF StaticInv
<1> QED
  BY <1>4, <1>5, <1>6, Zenon

-----------------------------------------------------------------------------
(* The theorems *)

\* Every step of the handler, of its clients and of other programs.
LEMMA StaticStep ==
  ASSUME StaticInv, [StaticNext]_static_vars
  PROVE  StaticInv'
<1>1. CASE UNCHANGED static_vars
  <2>1. UNCHANGED <<version, handler_at, path, range_hdr, conditional, real_path, st, response, copy>>
    BY <1>1, Zenon DEF static_vars
  <2>2. StaticTypeOK' /\ Kept'
    BY <2>1, Zenon DEF StaticInv, StaticTypeOK, Kept
  <2>3. OnTheWay'
    BY <2>1, Zenon DEF StaticInv, OnTheWay
  <2>4. CachedFresh' /\ BodyExact'
    BY <2>1, Zenon DEF StaticInv, CachedFresh, BodyExact
  <2> QED
    BY <2>2, <2>3, <2>4, Zenon DEF StaticInv
<1> QED
  BY <1>1, FileChanges, RequestOk, WalkOk, ReadOk, Zenon DEF StaticNext

\* The invariant holds in every state.
LEMMA StaticCorrect == StaticSpec => []StaticInv
<1>1. StaticInit => StaticInv
  <2> SUFFICES ASSUME StaticInit
               PROVE  StaticInv
    BY Zenon
  <2>1. StaticTypeOK
    BY StaticAssumption DEF StaticInit, StaticTypeOK, NoRange
  <2>2. response.status = 0
    BY Zenon DEF StaticInit, NoResponse
  <2>3. CachedFresh /\ BodyExact
    BY <2>2 DEF CachedFresh, BodyExact
  <2>4. OnTheWay /\ Kept
    BY Zenon DEF StaticInit, OnTheWay, Kept
  <2> QED
    BY <2>1, <2>3, <2>4, Zenon DEF StaticInv
<1> QED
  BY <1>1, StaticStep, PTL DEF StaticSpec

\* 304 is sent only to a client whose copy is, byte for byte, the version that
\* stat() has seen, whatever is written between the system calls of this and
\* of earlier requests.
THEOREM CopiesFresh == StaticSpec => []CachedFresh
<1>1. StaticInv => CachedFresh
  BY Zenon DEF StaticInv
<1> QED
  BY <1>1, StaticCorrect, PTL

\* A 200 or 206 holds the bytes that the Range header asks for, of one version
\* of a file below the root, and Content-Range names them.
THEOREM BodiesExact == StaticSpec => []BodyExact
<1>1. StaticInv => BodyExact
  BY Zenon DEF StaticInv
<1> QED
  BY <1>1, StaticCorrect, PTL

=============================================================================
