-------------------------------- MODULE Http --------------------------------
(***************************************************************************)
(* A connection as src/common/http.c sees it: lines and data, one sequence *)
(* in each direction.  The streams below it are in ReadStream and          *)
(* WriteStream; here a line arrives as a whole and data byte by byte.      *)
(*                                                                         *)
(* An item is a line, named for what the other end can make of it, or a    *)
(* byte of data.  `re' is a tag for the properties: the number of the      *)
(* request that the item belongs to, in the order of the client's calls.   *)
(***************************************************************************)
EXTENDS Integers, Sequences, SequencesExt, FiniteSetsExt

VARIABLES
  asked,                 \* the requests that the client has been called for, in order
  up, down,              \* what is under way to the server, and to the client
  clientEnd, serverEnd,  \* the two sockets: "none", "open", "closed"
  broken                 \* the connection has been reset

connVars == <<asked, up, down, clientEnd, serverEnd, broken>>

\* A request: `path' is the prefix that handlers are found by, `name' what remains of the
\* path, or the parameter of a lookup; `length' and `form' are those of the body, `close' and
\* `bad' say that there is a custom header Connection: close, or one with an empty value.
Request(n) == asked[n]

Item(is, n, re) == [is |-> is, n |-> n, re |-> re]

\* The request line stands for all of the client's request, n is its number.  "header"
\* is any header without consequences, "bad" a line that http_parse_header() refuses.
Headers == {"header", "length", "form", "close", "chunked"}
Lines   == {"request", "status", "size", "blank", "bad"} \cup Headers

\* http_read_line() on the items that have arrived: it needs the end of a line, and
\* whatever data comes before it is part of a line that nobody understands.
HasLine(w) == \E i \in DOMAIN w : w[i].is # "data"
LineEnd(w) == Min({i \in DOMAIN w : w[i].is # "data"})
LineOf(w)  == IF LineEnd(w) = 1 THEN w[1] ELSE Item("bad", 0, 0)
AfterLine(w) == SubSeq(w, LineEnd(w) + 1, Len(w))

\* What one end reads as the end of the file: the other has closed its socket, and what
\* is left is not a line (or not even data).
EofLine(w, peer) == ~broken /\ ~HasLine(w) /\ peer = "closed"
EofData(w, peer) == ~broken /\ w = <<>> /\ peer = "closed"

-----------------------------------------------------------------------------
(* Messages                                                                *)

\* http_write_request(), http_write_headerv() and http_write_headers(), with the
\* headers that client_request() chooses.
RequestHead(q, n) ==
  <<Item("request", n, n), Item("header", 0, n)>>
  \o (IF q.length > 0 THEN <<Item("length", q.length, n)>> ELSE <<>>)
  \o (IF q.form THEN <<Item("form", 0, n)>> ELSE <<>>)
  \o (IF q.close THEN <<Item("close", 0, n)>> ELSE <<>>)
  \o (IF q.bad THEN <<Item("bad", 0, n)>> ELSE <<>>)
  \o <<Item("blank", 0, n)>>

Data(k, re) == [i \in 1..k |-> Item("data", 0, re)]

\* http_vprint_chunk(), http_write_chunk().
Chunk(k, re) == <<Item("size", k, re)>> \o Data(k, re) \o <<Item("blank", 0, re)>>

\* http_write_chunks().
LastChunk(re) == <<Item("size", 0, re), Item("blank", 0, re)>>

-----------------------------------------------------------------------------
(* The network (external)                                                  *)

\* The connection is reset: what has arrived by then can still be read.
Breaks ==
  /\ broken' = TRUE
  /\ \E k \in 0..Len(up) : up' = SubSeq(up, 1, k)
  /\ \E k \in 0..Len(down) : down' = SubSeq(down, 1, k)
  /\ UNCHANGED <<asked, clientEnd, serverEnd>>

\* An end that is closed gets data, or had not read all: its kernel answers with a reset.
Reset ==
  /\ ~broken
  /\ (serverEnd = "closed" /\ up # <<>>) \/ (clientEnd = "closed" /\ down # <<>>)
  /\ Breaks

\* The network fails.
Break ==
  /\ ~broken /\ (serverEnd = "open" \/ clientEnd = "open")
  /\ Breaks
=============================================================================
