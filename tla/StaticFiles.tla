----------------------------- MODULE StaticFiles ---------------------------
(***************************************************************************)
(* The handler serve_static() registers, and a client that keeps the last  *)
(* full response and asks again.  The handler makes one system call after  *)
(* the other; between two of them other programs replace or remove files.  *)
(* A place of the file system is the sequence of names that leads to it;   *)
(* the bytes of version v of a file are <<v, 0>>, <<v, 1>>, ...            *)
(***************************************************************************)
EXTENDS Integers, Sequences
LOCAL INSTANCE SequencesExt

CONSTANTS
  Kind,         \* Kind[p] for every place: dir, file or other
  Links,        \* Links[p] for every symbolic link: the place it leads to
  Root,         \* canonical_root
  Paths,        \* request targets below the prefix, as sequences of encoded names
  FileSize,     \* FileSize[v]: the size of version v of a file
  RangeHeaders, \* values of the Range header, see range_of
  NoCopy,
  MaxVersion    \* bound on the versions of a file

ASSUME StaticAssumption ==
  /\ MaxVersion \in Nat \ {0} /\ FileSize \in [1..MaxVersion -> Nat]
  /\ \A p \in DOMAIN Kind : Kind[p] \in {"dir", "file", "other"}
  /\ RangeHeaders \subseteq [s : Int, e : Int]

VARIABLES
  version,    \* version[p] of a file, 0 if it is gone; a later version has a later mtime
  handler_at, \* where the handler is
  path, range_hdr, conditional, \* the request, and the conditional headers it has
  real_path,  \* a place
  st,         \* the version stat_path() has seen
  response,
  copy        \* what the client keeps, or NoCopy

static_vars == <<version, handler_at, path, range_hdr, conditional, real_path, st, response, copy>>

Files == {p \in DOMAIN Kind : Kind[p] = "file"}
Nowhere == <<"nowhere">>
NoRange == [s |-> -3, e |-> -3]
NoResponse == [status |-> 0, first |-> 0, last |-> 0, total |-> 0, body |-> <<>>]

StaticInit ==
  /\ version = [p \in Files |-> 1]
  /\ handler_at = "idle" /\ path = <<>> /\ range_hdr = NoRange /\ conditional = "none"
  /\ real_path = Nowhere /\ st = 0 /\ response = NoResponse /\ copy = NoCopy

file_changes(p) ==
  /\ version[p] # 0
  /\ version' = [version EXCEPT ![p] = IF @ < MaxVersion THEN @ + 1 ELSE 0]
  /\ UNCHANGED <<handler_at, path, range_hdr, conditional, real_path, st, response, copy>>

-----------------------------------------------------------------------------
Exists(p) == p \in DOMAIN Kind /\ (p \in Files => version[p] # 0)

\* From the directory p to the place that name leads to.
Walk(p, name) ==
  IF p \notin DOMAIN Kind \/ Kind[p] # "dir" THEN Nowhere
  ELSE IF name = ".." THEN IF p = <<>> THEN p ELSE Front(p)
  ELSE LET q == Append(p, name) IN IF q \in DOMAIN Links THEN Links[q] ELSE q

Reached(dir, names) == FoldLeft(Walk, dir, names)

\* realpath()
resolve_path(dir, names) ==
  LET p == Reached(dir, names) IN IF Exists(p) THEN p ELSE Nowhere

Inside(p) == IsPrefix(Root, p)

percent_decode(names) == [i \in DOMAIN names |-> IF names[i] = "%2e%2e" THEN ".." ELSE names[i]]

Bytes(v, first, n) == [i \in 1..n |-> <<v, first + i - 1>>]

\* The handler ends with a response.
Responds(r) ==
  /\ response' = r /\ handler_at' = "idle"
  /\ UNCHANGED <<version, path, range_hdr, conditional>>

Fails(status) ==
  Responds([NoResponse EXCEPT !.status = status]) /\ UNCHANGED <<real_path, st, copy>>

GoesOn(to, p) ==
  /\ handler_at' = to /\ real_path' = p
  /\ UNCHANGED <<version, path, range_hdr, conditional, st, response, copy>>

-----------------------------------------------------------------------------
\* A request; the client may ask whether its copy is still good.
request(p, range, cond) ==
  /\ handler_at = "idle"
  /\ cond \in {"etag", "date", "both"} => copy # NoCopy /\ copy.path = p
  /\ path' = p /\ range_hdr' = range /\ conditional' = cond
  /\ real_path' = Nowhere /\ st' = 0
  /\ IF "%00" \in {p[i] : i \in DOMAIN p}
     THEN response' = [NoResponse EXCEPT !.status = 400] /\ UNCHANGED handler_at
     ELSE response' = NoResponse /\ handler_at' = "resolve"
  /\ UNCHANGED <<version, copy>>

resolve ==
  LET p == resolve_path(Root, percent_decode(path))
  IN  /\ handler_at = "resolve"
      /\ IF p = Nowhere THEN Fails(404) ELSE IF ~Inside(p) THEN Fails(403) ELSE GoesOn("stat", p)

\* If-None-Match is the tag of the copy or "*"; If-Modified-Since, its date.
not_modified(v) ==
  \/ conditional = "star"
  \/ conditional \in {"etag", "both"} /\ v = copy.label
  \/ conditional \in {"date", "both"} /\ v <= copy.label

\* stat_path() has found version v of a regular file.
Found(v) ==
  /\ st' = v
  /\ IF not_modified(v)
     THEN Responds([NoResponse EXCEPT !.status = 304])
     ELSE handler_at' = "read" /\ UNCHANGED <<version, path, range_hdr, conditional, response>>
  /\ UNCHANGED <<real_path, copy>>

stat ==
  /\ handler_at = "stat"
  /\ CASE ~Exists(real_path) -> Fails(404)
       [] Exists(real_path) /\ Kind[real_path] = "dir" -> GoesOn("index", real_path)
       [] Exists(real_path) /\ Kind[real_path] = "other" -> Fails(403)
       [] Exists(real_path) /\ Kind[real_path] = "file" -> Found(version[real_path])

resolve_index ==
  LET p == resolve_path(real_path, <<"index.html">>)
  IN  /\ handler_at = "index"
      /\ IF p = Nowhere THEN Fails(404) ELSE IF ~Inside(p) THEN Fails(403) ELSE GoesOn("stat_index", p)

stat_index ==
  /\ handler_at = "stat_index"
  /\ CASE ~Exists(real_path) -> Fails(404)
       [] Exists(real_path) /\ Kind[real_path] # "file" -> Fails(403)
       [] Exists(real_path) /\ Kind[real_path] = "file" -> Found(version[real_path])

\* Mutant of range_of: one byte is missing from a suffix.
range_of_short(h, fsize) ==
  IF h = NoRange \/ fsize = 0 \/ -2 \in {h.s, h.e} THEN NoRange
  ELSE IF h.s = -1
  THEN IF h.e > 0 THEN [s |-> IF h.e >= fsize THEN 0 ELSE fsize - h.e + 1, e |-> fsize - 1] ELSE NoRange
  ELSE LET last == IF h.e = -1 THEN fsize - 1 ELSE h.e
       IN  IF h.s >= 0 /\ last < fsize /\ h.s <= last THEN [s |-> h.s, e |-> last] ELSE NoRange

\* The two numbers of "bytes=s-e": -1 if one is not there, -2 if stoll() throws.
range_of(h, fsize) ==
  IF h = NoRange \/ fsize = 0 \/ -2 \in {h.s, h.e} THEN NoRange
  ELSE IF h.s = -1
  THEN IF h.e > 0 THEN [s |-> IF h.e >= fsize THEN 0 ELSE fsize - h.e, e |-> fsize - 1] ELSE NoRange
  ELSE LET last == IF h.e = -1 THEN fsize - 1 ELSE h.e
       IN  IF h.s >= 0 /\ last < fsize /\ h.s <= last THEN [s |-> h.s, e |-> last] ELSE NoRange

\* Can n bytes be read from offset first of the file as it is now?
read_file_range(first, n) == Exists(real_path) /\ first + n <= FileSize[version[real_path]]

\* Mutant of read_file: the validators are those of the file that is read.
read_file_relabelled ==
  LET fsize == FileSize[st]
  IN  /\ handler_at = "read"
      /\ IF fsize > 0 /\ ~read_file_range(0, fsize) THEN Fails(500)
         ELSE LET now == version[real_path]
                  body == IF fsize = 0 THEN <<>> ELSE Bytes(now, 0, fsize)
              IN  /\ Responds([status |-> 200, first |-> 0, last |-> fsize - 1, total |-> fsize, body |-> body])
                  /\ copy' = [path |-> path, label |-> now, body |-> body]
                  /\ UNCHANGED <<real_path, st>>

\* 206 for a range that can be satisfied, 200 for anything else.
read_file ==
  LET fsize == FileSize[st]
      r == range_of(range_hdr, fsize)
      first == IF r = NoRange THEN 0 ELSE r.s
      last == IF r = NoRange THEN fsize - 1 ELSE r.e
      n == last - first + 1
  IN  /\ handler_at = "read"
      /\ IF fsize > 0 /\ ~read_file_range(first, n) THEN Fails(500)
         ELSE LET body == IF fsize = 0 THEN <<>> ELSE Bytes(version[real_path], first, n)
              IN  /\ Responds([status |-> IF r = NoRange THEN 200 ELSE 206, first |-> first,
                               last |-> last, total |-> fsize, body |-> body])
                  /\ copy' = IF r = NoRange THEN [path |-> path, label |-> st, body |-> body] ELSE copy
                  /\ UNCHANGED <<real_path, st>>

StaticNext ==
  \/ \E p \in Files : file_changes(p)
  \/ \E p \in Paths, range \in RangeHeaders, cond \in {"none", "etag", "date", "both", "star"} :
       request(p, range, cond)
  \/ resolve \/ stat \/ resolve_index \/ stat_index \/ read_file

StaticSpec == StaticInit /\ [][StaticNext]_static_vars

-----------------------------------------------------------------------------
\* 304 tells the truth: the copy the client keeps is, byte for byte, the file
\* that stat_path() has seen, although a file may be replaced between the
\* stat() and the read() of the response that was kept.  A later version has
\* a later mtime here; the code cannot tell versions of one second apart.
CachedFresh ==
  response.status = 304 /\ conditional # "star" =>
    copy.body = Bytes(st, 0, FileSize[st])

\* The bytes of a response are the ones the request asks for, of one version
\* of the file, and Content-Range says which: a file that shrinks under the
\* handler is a 500, never a short body.  The file is below root_dir, by
\* whatever links and names the target leads there.
BodyExact ==
  response.status \in {200, 206} =>
    LET h == range_hdr
        asked == {o \in 0..response.total - 1 :
                    response.status = 206 =>
                      IF h.s = -1 THEN o >= response.total - h.e
                      ELSE o >= h.s /\ (h.e # -1 => o <= h.e)}
    IN  /\ real_path \in Files /\ IsPrefix(Root, real_path)
        /\ response.total = FileSize[st]
        /\ asked = response.first..response.last
        /\ Len(response.body) = response.last - response.first + 1
        /\ \A i \in DOMAIN response.body :
             response.body[i] = <<response.body[1][1], response.first + i - 1>>

=============================================================================
