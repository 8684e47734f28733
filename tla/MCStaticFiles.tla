---------------------------- MODULE MCStaticFiles --------------------------
(* A small instance of StaticFiles for TLC. *)
EXTENDS StaticFiles, TLC

\* Two directories below the root, one of which has an index file that leads
\* out of it.
MCKind ==
  <<>> :> "dir" @@ <<"srv">> :> "dir" @@ <<"srv", "f">> :> "file" @@ <<"srv", "pipe">> :> "other"
  @@ <<"srv", "d">> :> "dir" @@ <<"srv", "e">> :> "dir" @@ <<"out">> :> "other"
MCLinks == <<"srv", "e", "index.html">> :> <<"out">> @@ <<"srv", "d", "index.html">> :> <<"srv", "f">>
MCRoot == <<"srv">>
MCPaths ==
  {<<"f">>, <<"d">>, <<"e">>, <<"d", "..", "f">>, <<"%2e%2e", "out">>, <<"pipe">>, <<"%00">>, <<"no">>}
MCFileSize == <<3, 0, 2>>
Bytes_(s, e) == [s |-> s, e |-> e]
MCRangeHeaders == {NoRange, Bytes_(1, 1), Bytes_(1, -1), Bytes_(-1, 2), Bytes_(0, 5), Bytes_(-2, 1)}

=============================================================================
