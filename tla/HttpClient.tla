----------------------------- MODULE HttpClient -----------------------------
(***************************************************************************)
(* The HTTP client, src/client/client.c: calls of client_get(), client_put *)
(* and client_post() one after the other, on a connection that is kept from*)
(* one to the next if it can be.  The response goes to a file.             *)
(*                                                                         *)
(* The client has no timeouts: it waits for as long as the other end lets  *)
(* it.                                                                     *)
(***************************************************************************)
EXTENDS Http

Failed == -1

VARIABLES
  cat,      \* where the client is
  got,      \* client_response; `units' and `of' are what the file got, and from whom
  left,     \* of the body, or of http.chunk_size
  results   \* history: what the calls have returned

clientVars == <<cat, got, left, results>>

Nothing == [status |-> 0, length |-> 0, chunked |-> FALSE, close |-> FALSE,
            units |-> 0, of |-> {}]

ClientInit ==
  /\ cat = "idle" /\ got = Nothing /\ left = 0 /\ results = <<>>

-----------------------------------------------------------------------------
(* Calls                                                                   *)

\* client_get() and so on, with client->http there or not.
Call(q) ==
  /\ cat = "idle"
  /\ asked' = Append(asked, q)
  /\ cat' = IF clientEnd = "open" THEN "send" ELSE "connect"
  /\ got' = Nothing /\ left' = 0
  /\ UNCHANGED <<up, down, clientEnd, serverEnd, broken, results>>

\* The call returns; client_close() has closed the socket unless the connection is kept.
Returns(result, keep) ==
  /\ results' = Append(results, result)
  /\ cat' = "idle"
  /\ clientEnd' = IF keep THEN "open" ELSE "closed"

\* client_request() has returned err: 0 and 1 are success.
RequestReturns(err) ==
  Returns(IF err < 0 THEN Failed ELSE got.status, err = 0)

\* client_open(), tcp_client(): one of the addresses.
Connect ==
  /\ cat = "connect" /\ serverEnd # "open"
  /\ up' = <<>> /\ down' = <<>> /\ broken' = FALSE
  /\ clientEnd' = "open" /\ serverEnd' = "open"
  /\ cat' = "send"
  /\ UNCHANGED <<asked, got, left, results>>

\* None of them.
ConnectFails ==
  /\ cat = "connect"
  /\ Returns(Failed, FALSE)
  /\ UNCHANGED <<asked, up, down, serverEnd, broken, got, left>>

-----------------------------------------------------------------------------
(* The request                                                             *)

Asking == Request(Len(asked))

\* client_request() up to http_write_headers().
SendHead ==
  /\ cat = "send" /\ ~broken
  /\ up' = up \o RequestHead(Asking, Len(asked))
  /\ cat' = IF Asking.length > 0 THEN "upload" ELSE "status"
  /\ UNCHANGED <<asked, down, clientEnd, serverEnd, broken, got, left, results>>

\* client_request_body().
SendBody ==
  /\ cat = "upload" /\ ~broken
  /\ up' = up \o Data(Asking.length, Len(asked))
  /\ cat' = "status"
  /\ UNCHANGED <<asked, down, clientEnd, serverEnd, broken, got, left, results>>

\* The request line and the end of the headers become -1, and so does the body; a header
\* that cannot be written is 1.
SendFails ==
  /\ cat \in {"send", "upload"} /\ broken
  /\ \E e \in IF cat = "send" THEN {1, -1} ELSE {-1} : RequestReturns(e)
  /\ UNCHANGED <<asked, up, down, serverEnd, broken, got, left>>

-----------------------------------------------------------------------------
(* The response                                                            *)

\* http_read_line(), with something to return.
TakeLine ==
  /\ HasLine(down) /\ down' = AfterLine(down)
  /\ UNCHANGED <<asked, up, serverEnd, broken>>

Line == LineOf(down)

\* What is known of the response, with another item of it.
With(item) == [got EXCEPT !.of = @ \cup {item.re}]

\* http_read_response().
ReadStatus ==
  /\ cat = "status" /\ TakeLine /\ left' = left
  /\ IF Line.is = "status"
     THEN /\ got' = [With(Line) EXCEPT !.status = Line.n]
          /\ cat' = "headers"
          /\ UNCHANGED <<clientEnd, results>>
     ELSE /\ RequestReturns(400)
          /\ got' = With(Line)

\* client_response(), "// body": how long it is.
BodyState(r) == IF r.chunked THEN "size" ELSE IF r.length > 0 THEN "length" ELSE "eof"

\* http_read_header(), client_response_header().  A line that is no header ends the headers,
\* like the empty one.
ReadHeader ==
  /\ cat = "headers" /\ TakeLine
  /\ got' = [With(Line) EXCEPT
       !.length  = IF Line.is = "length" THEN Line.n ELSE @,
       !.chunked = @ \/ Line.is = "chunked",
       !.close   = @ \/ Line.is = "close"]
  /\ IF Line.is \in Headers
     THEN UNCHANGED <<cat, left>>
     ELSE cat' = BodyState(got) /\ left' = got.length
  /\ UNCHANGED <<clientEnd, results>>

\* So does the end of the file.
HeadersEof ==
  /\ cat = "headers" /\ EofLine(down, serverEnd)
  /\ cat' = BodyState(got) /\ left' = got.length
  /\ UNCHANGED <<connVars, got, results>>

\* http_read_chunk_header().
ReadSize ==
  /\ cat = "size" /\ TakeLine /\ got' = With(Line)
  /\ IF Line.is = "size"
     THEN /\ left' = Line.n /\ cat' = IF Line.n = 0 THEN "trailer" ELSE "chunk"
          /\ UNCHANGED <<clientEnd, results>>
     ELSE RequestReturns(-1) /\ left' = left

\* http_read_chunked_file(): some of a chunk.
ReadChunk ==
  /\ cat = "chunk" /\ down # <<>>
  /\ down' = Tail(down) /\ left' = left - 1
  /\ got' = [With(Head(down)) EXCEPT !.units = @ + 1]
  /\ cat' = IF left = 1 THEN "footer" ELSE "chunk"
  /\ UNCHANGED <<asked, up, clientEnd, serverEnd, broken, results>>

\* http_read_chunk_footer().
ReadFooter ==
  /\ cat = "footer" /\ TakeLine /\ got' = With(Line) /\ left' = left
  /\ IF Line.is = "blank"
     THEN cat' = "size" /\ UNCHANGED <<clientEnd, results>>
     ELSE RequestReturns(-1)

\* The response is complete.
Complete == RequestReturns(IF got.close THEN 1 ELSE 0)

\* http_read_chunks().
ReadTrailer ==
  /\ cat = "trailer" /\ TakeLine /\ got' = With(Line) /\ left' = left
  /\ IF Line.is = "blank" THEN Complete ELSE UNCHANGED <<cat, clientEnd, results>>

\* http_read_file(): some of the body, of a given length or to the end of the file.
ReadBody ==
  /\ cat \in {"length", "eof"} /\ down # <<>>
  /\ down' = Tail(down)
  /\ got' = [With(Head(down)) EXCEPT !.units = @ + 1]
  /\ IF cat = "eof" THEN UNCHANGED <<left, cat, clientEnd, results>>
     ELSE /\ left' = left - 1
          /\ IF left = 1 THEN Complete ELSE UNCHANGED <<cat, clientEnd, results>>
  /\ UNCHANGED <<asked, up, serverEnd, broken>>

\* The end of the file is 1 for a line, within a chunk, and within a body that has a length.
\* So is the end of a body that has none.
ReadEof ==
  /\ \/ cat \in {"status", "size", "footer", "trailer"} /\ EofLine(down, serverEnd)
     \/ cat \in {"chunk", "length", "eof"} /\ EofData(down, serverEnd)
  /\ RequestReturns(1)
  /\ UNCHANGED <<asked, up, down, serverEnd, broken, got, left>>

ReadFails ==
  /\ broken
  /\ \/ cat \in {"status", "headers", "size", "footer", "trailer"} /\ ~HasLine(down)
     \/ cat \in {"chunk", "length", "eof"} /\ down = <<>>
  /\ RequestReturns(-1)
  /\ UNCHANGED <<asked, up, down, serverEnd, broken, got, left>>

\* The process is killed.  What it had written by then is on its way.
Dies ==
  /\ clientEnd = "open" /\ ~broken
  /\ LET unsent == (IF cat = "send" THEN RequestHead(Asking, Len(asked)) ELSE <<>>)
                   \o (IF cat \in {"send", "upload"} THEN Data(Asking.length, Len(asked)) ELSE <<>>)
     IN \E k \in 0..Len(unsent) : up' = up \o SubSeq(unsent, 1, k)
  /\ cat' = "dead" /\ clientEnd' = "closed"
  /\ UNCHANGED <<asked, down, serverEnd, broken, got, left, results>>

ClientSteps ==
  \/ ConnectFails \/ SendHead \/ SendBody \/ SendFails
  \/ ReadStatus \/ ReadHeader \/ HeadersEof \/ ReadSize \/ ReadChunk \/ ReadFooter
  \/ ReadTrailer \/ ReadBody \/ ReadEof \/ ReadFails
=============================================================================
