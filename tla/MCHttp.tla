------------------------------- MODULE MCHttp -------------------------------
(***************************************************************************)
(* Requests for TLC.                                                       *)
(***************************************************************************)
EXTENDS HttpExchange

Get(path, name, http11) ==
  [method |-> "GET", path |-> path, name |-> name, length |-> 0, form |-> FALSE,
   close |-> FALSE, bad |-> FALSE, http11 |-> http11]

Post(length, form) ==
  [Get("dns-query", "name", TRUE) EXCEPT !.method = "POST", !.length = length, !.form = form]

Put(path, name, length) ==
  [Get(path, name, TRUE) EXCEPT !.method = "PUT", !.length = length]

\* Every way through the handlers, and then one that finds the connection as they leave it.
First ==
  {Get("", name, TRUE) : name \in {"file", "empty", "dir", "dirname", "none"}}
  \cup {Get("", name, FALSE) : name \in {"file", "dir"}}
  \cup {Get("dns-query", name, TRUE) : name \in {"name", "none"}}
  \cup {Post(1, TRUE), Post(1, FALSE), Post(0, TRUE)}
  \cup {Put("upload", "file", 2), Put("upload", "file", 0), Put("upload", "dir", 1),
        Put("other", "file", 1), Put("toolong", "file", 0)}
  \cup {[q EXCEPT !.bad = TRUE] : q \in {Get("", "file", TRUE), Get("dns-query", "name", TRUE),
                                         Put("upload", "file", 1)}}
  \cup {[Get("", "file", TRUE) EXCEPT !.close = TRUE]}

MCRequests == <<First, {Get("", "file", TRUE)}>>

\* Each of them is one that the server understands.
ASSUME RequestsUnderstood == Understood
=============================================================================
