----------------------------- MODULE HttpServer -----------------------------
(***************************************************************************)
(* One connection of the HTTP server: server_client_task() and below, with *)
(* the handlers of src/server/static.c and src/server/dns.c, as bin/server *)
(* registers them.                                                         *)
(*                                                                         *)
(* The task yields where it reads and where it writes; an action is what it*)
(* does up to there.  `script' is what the handler, or the error response, *)
(* has still to write.                                                     *)
(***************************************************************************)
EXTENDS Http

CONSTANTS MaxRequests, FileSize

ASSUME SizesAssumption == MaxRequests \in Nat \ {0} /\ FileSize \in Nat \ {0}

VARIABLES
  at,        \* where the task is
  request,   \* server_client.request; `n' is a tag for the properties
  response,  \* server_client.response
  script,    \* the calls to server_response...() that are left
  err,       \* what the handler returned
  answers,   \* history: the status sent for each request, and under 0 for no request
  meant,     \* history: the bytes of body handed over for each
  stored     \* the file under upload/: whose it is, and what it holds

serverVars == <<at, request, response, script, err, answers, meant, stored>>

NoRequest  == [n |-> 0, handler |-> "none", http11 |-> FALSE, headers |-> FALSE,
               length |-> 0, form |-> FALSE, body |-> FALSE]
NoResponse == [status |-> 0, headers |-> FALSE, chunked |-> FALSE, close |-> FALSE]

Answered == 0..MaxRequests

ServerInit ==
  /\ at = "closed" /\ request = NoRequest /\ response = NoResponse
  /\ script = <<>> /\ err = 0
  /\ answers = [n \in Answered |-> 0] /\ meant = [n \in Answered |-> 0]
  /\ stored = [of |-> 0, units |-> 0]

-----------------------------------------------------------------------------
(* Handlers                                                                *)

\* In the order of main(): more-specifics first.
Handlers == <<[method |-> "PUT",  path |-> "upload",    serves |-> "upload"],
              [method |-> "GET",  path |-> "dns-query", serves |-> "dns"],
              [method |-> "POST", path |-> "dns-query", serves |-> "dns"],
              [method |-> "GET",  path |-> "",          serves |-> "static"]>>

MatchesPath(h, q) == h.path = "" \/ h.path = q.path

Matching(q) == {i \in DOMAIN Handlers : MatchesPath(Handlers[i], q)}
Serving(q)  == {i \in Matching(q) : Handlers[i].method = q.method}

\* A path that matches with another method only is 405.
LookupError(q) == IF Matching(q) = {} THEN 404 ELSE 405

\* server_response_error(): the page is several calls of server_response_print().
ErrorPage(status) == <<[op |-> "status", status |-> status], [op |-> "header"],
                       [op |-> "print"], [op |-> "print"]>>

\* server_static_file_get(): there is no body, nor a length, for an empty file.
FileScript(size) == <<[op |-> "status", status |-> 200], [op |-> "header"]>>
                    \o (IF size > 0 THEN <<[op |-> "file"]>> ELSE <<>>)

\* server_static_dir().
DirScript == <<[op |-> "status", status |-> 200], [op |-> "header"],
               [op |-> "print"], [op |-> "print"]>>

\* server_response_redirect(), to the same path with a slash.
RedirectScript == <<[op |-> "status", status |-> 301], [op |-> "header"], [op |-> "headers"]>>

StaticScript(name) ==
  CASE name = "file"    -> FileScript(FileSize)
    [] name = "empty"   -> FileScript(0)
    [] name = "dir"     -> DirScript
    [] name = "dirname" -> RedirectScript

\* server_dns_lookup() once it has an answer; it does not look at what these calls return.
DnsScript(status) == <<[op |-> "status", status |-> status], [op |-> "header"],
                       [op |-> "print"], [op |-> "print"]>>

-----------------------------------------------------------------------------
(* The control of server_client_request()                                  *)

\* The handler has returned: are there headers left to read?
Rest == IF request.headers THEN "finish" ELSE "rest"

HandlerReturns(e) ==
  /\ err' = e /\ at' = Rest
  /\ UNCHANGED <<request, response, script>>

\* The task sends a response, and goes on as soon as it is written.
Respond(s) ==
  /\ script' = s /\ at' = "respond"
  /\ UNCHANGED <<request, response, err>>

\* Mutant of Hangup: without tcp_destroy().
HangupNoClose ==
  /\ at' = "closed" /\ serverEnd' = serverEnd
  /\ request' = NoRequest /\ response' = NoResponse /\ script' = <<>> /\ err' = 0

\* server_client_task() ends: tcp_destroy() closes the socket.
Hangup ==
  /\ at' = "closed" /\ serverEnd' = "closed"
  /\ request' = NoRequest /\ response' = NoResponse /\ script' = <<>> /\ err' = 0

-----------------------------------------------------------------------------
(* Reading the request                                                     *)

\* A read that gets nothing: the connection is reset, or 10 s have passed.  Time is not
\* modelled: whenever nothing is there, it may have been long enough.
ReadFails(has) == ~has /\ (broken \/ clientEnd = "open")

\* server_request(), server_lookup_handler().  A request line that cannot be parsed, or has
\* a path that is too long, is answered at once.
ReadRequest ==
  /\ at = "request" /\ HasLine(up)
  /\ LET line  == LineOf(up)
         ok    == line.is = "request" /\ Request(line.n).path # "toolong"
         q     == Request(line.n)
         found == ok /\ Serving(q) # {}
     IN /\ request' = [NoRequest EXCEPT
                         !.n = IF line.is = "request" THEN line.n ELSE 0,
                         !.http11 = ok /\ q.http11,
                         !.handler = IF found THEN Handlers[Min(Serving(q))].serves ELSE "none"]
        /\ response' = [response EXCEPT !.close = ok /\ ~q.http11]
        /\ err' = IF ~ok THEN 400 ELSE IF found THEN 0 ELSE LookupError(q)
        /\ at' = IF ~ok THEN "finish" ELSE IF found THEN "headers" ELSE "rest"
  /\ up' = AfterLine(up)
  /\ UNCHANGED <<asked, down, clientEnd, serverEnd, broken, script, answers, meant, stored>>

\* Mutant of NoMoreRequests: no SERVER_READ_TIMEOUT.
NoMoreRequestsUntimed ==
  /\ at = "request" /\ (EofLine(up, clientEnd) \/ (~HasLine(up) /\ broken))
  /\ Hangup
  /\ UNCHANGED <<asked, up, down, clientEnd, broken, answers, meant, stored>>

\* The end of the file, an error or a timeout instead of a request line.
NoMoreRequests ==
  /\ at = "request" /\ (EofLine(up, clientEnd) \/ ReadFails(HasLine(up)))
  /\ Hangup
  /\ UNCHANGED <<asked, up, down, clientEnd, broken, answers, meant, stored>>

\* Where server_request_header() returns to when there are no more headers, or one is bad:
\* to the handler's loop, or to the loop that reads what the handler has left.
HeadersEnd == IF at = "headers" THEN "handle" ELSE "finish"

\* Mutant of ReadHeader: Content-Length is only for handlers that read the body.
ReadHeaderForgetful ==
  /\ at \in {"headers", "rest"} /\ HasLine(up) /\ LineOf(up).is \in Headers
  /\ request' = [request EXCEPT
       !.length = IF LineOf(up).is = "length" /\ at = "headers" THEN LineOf(up).n ELSE @,
       !.form   = @ \/ LineOf(up).is = "form"]
  /\ response' = [response EXCEPT !.close = @ \/ LineOf(up).is = "close"]
  /\ up' = AfterLine(up)
  /\ UNCHANGED <<asked, down, clientEnd, serverEnd, broken, at, script, err, answers, meant, stored>>

\* server_request_header(), a header.
ReadHeader ==
  /\ at \in {"headers", "rest"} /\ HasLine(up) /\ LineOf(up).is \in Headers
  /\ request' = [request EXCEPT
       !.length = IF LineOf(up).is = "length" THEN LineOf(up).n ELSE @,
       !.form   = @ \/ LineOf(up).is = "form"]
  /\ response' = [response EXCEPT !.close = @ \/ LineOf(up).is = "close"]
  /\ up' = AfterLine(up)
  /\ UNCHANGED <<asked, down, clientEnd, serverEnd, broken, at, script, err, answers, meant, stored>>

\* The empty line; the end of the file counts as one.
ReadEndOfHeaders ==
  /\ at \in {"headers", "rest"}
  /\ \/ /\ HasLine(up) /\ LineOf(up).is = "blank"
        /\ up' = AfterLine(up)
     \/ /\ EofLine(up, clientEnd)
        /\ up' = up
  /\ request' = [request EXCEPT !.headers = TRUE]
  /\ at' = HeadersEnd
  /\ UNCHANGED <<asked, down, clientEnd, serverEnd, broken, response, script, err, answers, meant, stored>>

\* A line that is not a header: 400, which the dns handler returns.  The static handler's
\* loop ends too, and it goes on without having seen the end of the headers.
ReadBadHeader ==
  /\ at \in {"headers", "rest"} /\ HasLine(up)
  /\ LineOf(up).is \notin Headers \cup {"blank"}
  /\ up' = AfterLine(up)
  /\ IF at = "headers" /\ request.handler = "dns"
     THEN err' = 400 /\ at' = "rest"
     ELSE err' = err /\ at' = HeadersEnd
  /\ UNCHANGED <<asked, down, clientEnd, serverEnd, broken, request, response, script, answers, meant, stored>>

\* The loop for the remaining headers does not clobber err.
ReadHeaderFails ==
  /\ at \in {"headers", "rest"} /\ ReadFails(HasLine(up))
  /\ IF at = "headers" THEN err' = -1 /\ at' = "rest" ELSE err' = err /\ at' = "finish"
  /\ UNCHANGED <<asked, up, down, clientEnd, serverEnd, broken, request, response, script, answers, meant, stored>>

-----------------------------------------------------------------------------
(* The handlers                                                            *)

\* server_static_request() for GET.
StaticGet ==
  /\ at = "handle" /\ request.handler = "static"
  /\ IF Request(request.n).name = "none" THEN HandlerReturns(404)
                                         ELSE Respond(StaticScript(Request(request.n).name))
  /\ UNCHANGED <<connVars, answers, meant, stored>>

\* server_static_request() for PUT: the file is truncated, created if need be, before
\* anything is known of the body.
StaticPut ==
  /\ at = "handle" /\ request.handler = "upload"
  /\ IF Request(request.n).name = "dir"
     THEN HandlerReturns(405) /\ stored' = stored
     ELSE /\ stored' = [of |-> request.n, units |-> 0]
          /\ IF ~request.headers THEN HandlerReturns(-1)
             ELSE IF request.length = 0 THEN HandlerReturns(411)
             ELSE at' = "body" /\ UNCHANGED <<request, response, script, err>>
  /\ UNCHANGED <<connVars, answers, meant>>

\* Mutant of ReadFile: one read is taken for all.
ReadFileOnce ==
  /\ at = "body" /\ request.handler = "upload" /\ up # <<>>
  /\ up' = Tail(up)
  /\ stored' = [stored EXCEPT !.units = @ + 1]
  /\ request' = [request EXCEPT !.length = @ - 1, !.body = TRUE]
  /\ script' = <<[op |-> "status", status |-> 201]>> /\ at' = "respond"
  /\ UNCHANGED <<asked, down, clientEnd, serverEnd, broken, response, err, answers, meant>>

\* http_read_file(): some of the body, whatever it is, goes to the file.
ReadFile ==
  /\ at = "body" /\ request.handler = "upload" /\ up # <<>>
  /\ up' = Tail(up)
  /\ stored' = [stored EXCEPT !.units = @ + 1]
  /\ request' = [request EXCEPT !.length = @ - 1, !.body = request.length = 1]
  /\ IF request.length > 1 THEN UNCHANGED <<at, script>>
                           ELSE script' = <<[op |-> "status", status |-> 201]>> /\ at' = "respond"
  /\ UNCHANGED <<asked, down, clientEnd, serverEnd, broken, response, err, answers, meant>>

\* The body ends early.  http_read_file() returns 1 for that, which becomes the status.
ReadFileFails ==
  /\ at = "body" /\ request.handler = "upload"
  /\ \/ EofData(up, clientEnd) /\ HandlerReturns(1)
     \/ ReadFails(up # <<>>) /\ HandlerReturns(-1)
  /\ UNCHANGED <<connVars, answers, meant, stored>>

\* server_dns_request(): a POST has its parameters in the body.
DnsParams ==
  /\ at = "handle" /\ request.handler = "dns"
  /\ LET q == Request(request.n)
     IN IF q.method = "GET"
        THEN IF q.name = "none" THEN Respond(ErrorPage(400))
                                ELSE at' = "lookup" /\ UNCHANGED <<request, response, script, err>>
        ELSE IF request.length = 0 THEN HandlerReturns(411)
        ELSE IF ~request.form THEN HandlerReturns(415)
        ELSE at' = "body" /\ UNCHANGED <<request, response, script, err>>
  /\ UNCHANGED <<connVars, answers, meant, stored>>

\* server_request_form(): http_read_string() waits for all of the body, and consumes all that
\* has arrived with it.
ReadForm ==
  /\ at = "body" /\ request.handler = "dns" /\ Len(up) >= request.length
  /\ \E k \in request.length..Len(up) : up' = SubSeq(up, k + 1, Len(up))
  /\ request' = [request EXCEPT !.body = TRUE]
  /\ at' = "lookup"
  /\ UNCHANGED <<asked, down, clientEnd, serverEnd, broken, response, script, err, answers, meant, stored>>

ReadFormFails ==
  /\ at = "body" /\ request.handler = "dns"
  /\ Len(up) < request.length
  /\ HandlerReturns(-1)
  /\ UNCHANGED <<connVars, answers, meant, stored>>

\* dns_resolve() returns (see LookupService): no answer, an error, an answer.
Lookup ==
  /\ at = "lookup"
  /\ HandlerReturns(500) \/ Respond(DnsScript(400)) \/ Respond(DnsScript(200))
  /\ UNCHANGED <<connVars, answers, meant, stored>>

-----------------------------------------------------------------------------
(* Writing the response                                                    *)

\* server_response_print() and server_response_file() decide how the body ends.
StartsBody(op) == op = "print" /\ ~response.headers

ResponseAfter(c) ==
  CASE c.op = "status" -> [response EXCEPT !.status = c.status]
    [] c.op = "header" -> response
    [] c.op \in {"headers", "file"} -> [response EXCEPT !.headers = TRUE]
    [] c.op = "print"  ->
         IF ~StartsBody(c.op) THEN response
         ELSE [response EXCEPT !.headers = TRUE, !.chunked = request.http11,
                               !.close = @ \/ ~request.http11]

\* The body of a call, and what it puts on the connection.
BodyOf(c) == CASE c.op = "file" -> FileSize [] c.op = "print" -> 1 [] OTHER -> 0

ItemsOf(c, n) ==
  CASE c.op = "status"  -> <<Item("status", c.status, n), Item("header", 0, n)>>
    [] c.op = "header"  -> <<Item("header", 0, n)>>
    [] c.op = "headers" -> <<Item("blank", 0, n)>>
    [] c.op = "file"    -> <<Item("length", FileSize, n), Item("blank", 0, n)>> \o Data(FileSize, n)
    [] c.op = "print"   ->
         (IF StartsBody(c.op)
          THEN <<Item(IF request.http11 THEN "chunked" ELSE "close", 0, n), Item("blank", 0, n)>>
          ELSE <<>>)
         \o (IF ResponseAfter(c).chunked THEN Chunk(1, n) ELSE Data(1, n))

\* What follows the last call.
AfterScript == IF at = "respond" THEN Rest ELSE "end"

\* The status is remembered before it is written.
Answer(c) == answers' = IF c.op = "status" THEN [answers EXCEPT ![request.n] = c.status] ELSE answers

Write ==
  /\ at \in {"respond", "error"} /\ ~broken
  /\ LET c == Head(script) IN
       /\ response' = ResponseAfter(c)
       /\ down' = down \o ItemsOf(c, request.n)
       /\ meant' = [meant EXCEPT ![request.n] = @ + BodyOf(c)]
       /\ Answer(c)
  /\ script' = Tail(script)
  /\ at' = IF Len(script) = 1 THEN AfterScript ELSE at
  /\ UNCHANGED <<asked, up, clientEnd, serverEnd, broken, request, err, stored>>

\* The file has become shorter than its stat: another connection has opened it for PUT, with
\* O_TRUNC.  http_write_file() returns 1, and server_response_file() -1.
WriteShrunkFile ==
  /\ at = "respond" /\ ~broken /\ Head(script).op = "file"
  /\ response' = ResponseAfter(Head(script))
  /\ \E k \in 0..FileSize - 1 :
       down' = down \o SubSeq(ItemsOf(Head(script), request.n), 1, k + 2)
  /\ meant' = [meant EXCEPT ![request.n] = @ + FileSize]
  /\ script' = <<>> /\ err' = -1 /\ at' = Rest
  /\ UNCHANGED <<asked, up, clientEnd, serverEnd, broken, request, answers, stored>>

\* A write fails, and so will all that follow.  server_response_error() and the dns handler
\* go on regardless; the latter returns 0, or -1 if this was its error page.  The static
\* handler returns at once: 1 from http_vwrite(), or the -1 of most that call it.
WriteFails ==
  /\ at \in {"respond", "error"} /\ broken
  /\ response' = ResponseAfter(Head(script)) /\ Answer(Head(script))
  /\ IF at = "error" \/ request.handler = "dns"
     THEN /\ script' = Tail(script) /\ at' = IF Len(script) = 1 THEN AfterScript ELSE at
          /\ err' \in IF at = "respond" /\ Len(script) = 1 THEN {0, -1} ELSE {err}
     ELSE /\ script' = <<>> /\ at' = Rest
          /\ err' \in {1, -1}
  /\ UNCHANGED <<connVars, request, meant, stored>>

-----------------------------------------------------------------------------
(* The end of a request                                                    *)

\* An unread body closes the connection, as pipelining would fail.
ClosesForBody == ~request.body /\ request.length > 0

\* From "// body?" to "// headers": abort without response, or send one if there is none yet.
Conclude ==
  /\ at = "finish"
  /\ IF err < 0 THEN Hangup
     ELSE /\ response' = [response EXCEPT !.close = @ \/ ClosesForBody]
          /\ IF response.status # 0
             THEN at' = "end" /\ UNCHANGED script
             ELSE at' = "error" /\ script' = ErrorPage(IF err > 0 THEN err ELSE 200)
          /\ UNCHANGED <<serverEnd, request, err>>
  /\ UNCHANGED <<asked, up, down, clientEnd, broken, answers, meant, stored>>

\* What ends the response, if it can still be written: nobody looks at the errors.
ResponseEnd ==
  (IF response.headers THEN <<>> ELSE <<Item("blank", 0, request.n)>>)
  \o (IF response.chunked THEN LastChunk(request.n) ELSE <<>>)

\* Mutant of EndResponse: response.close is not looked at.
EndResponseKeepsOpen ==
  /\ at = "end"
  /\ down' = IF broken THEN down ELSE down \o ResponseEnd
  /\ at' = "request" /\ serverEnd' = serverEnd
  /\ request' = NoRequest /\ response' = NoResponse /\ err' = 0 /\ script' = <<>>
  /\ UNCHANGED <<asked, up, clientEnd, broken, answers, meant, stored>>

\* From "// headers" on, and back into the loop of server_client_task().
EndResponse ==
  /\ at = "end"
  /\ down' = IF broken THEN down ELSE down \o ResponseEnd
  /\ IF response.close
     THEN Hangup
     ELSE /\ at' = "request" /\ serverEnd' = serverEnd
          /\ request' = NoRequest /\ response' = NoResponse /\ err' = 0 /\ script' = <<>>
  /\ UNCHANGED <<asked, up, clientEnd, broken, answers, meant, stored>>

\* The process is killed; a new one has nothing of the old one but the files.
Crash ==
  /\ at # "closed" /\ Hangup
  /\ UNCHANGED <<asked, up, down, clientEnd, broken, answers, meant, stored>>

\* server_client(): the task of a new connection starts.
ServerStart ==
  /\ at = "closed"
  /\ at' = "request"
  /\ UNCHANGED <<request, response, script, err, answers, meant, stored>>

ServerNext ==
  \/ ReadRequest \/ NoMoreRequests
  \/ ReadHeader \/ ReadEndOfHeaders \/ ReadBadHeader \/ ReadHeaderFails
  \/ StaticGet \/ StaticPut \/ ReadFile \/ ReadFileFails
  \/ DnsParams \/ ReadForm \/ ReadFormFails \/ Lookup
  \/ Write \/ WriteShrunkFile \/ WriteFails
  \/ Conclude \/ EndResponse
=============================================================================
