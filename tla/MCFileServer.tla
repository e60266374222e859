---------------------------- MODULE MCFileServer ----------------------------
(***************************************************************************)
(* A tree and requests for TLC.                                            *)
(***************************************************************************)
EXTENDS FileServer

\* A directory with a file and a directory with a file.
MCChildren ==
  "root" :> ("file" :> "file" @@ "dir" :> "dir") @@ "dir" :> ("file" :> "inner" @@ "x" :> "x")

Req(method, path, slash, query) == [method |-> method, path |-> path, slash |-> slash, query |-> query]

\* Each way that a lookup can end, and a request that looks for nothing.
MCRequests ==
  {Req("GET", p, FALSE, <<>>) : p \in {<<"dir", ".", "file">>, <<"dir", "no">>, <<"..", "file">>}}
  \cup {Req("GET", <<"dir">>, FALSE, <<"x">>)}
  \cup {Req("PUT", p, FALSE, <<>>) : p \in {<<"dir", "new">>, <<"dir">>, <<"file", "new">>}}
  \cup {Req("POST", <<>>, FALSE, <<>>)}
=============================================================================
