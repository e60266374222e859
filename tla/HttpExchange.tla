---------------------------- MODULE HttpExchange ----------------------------
(***************************************************************************)
(* bin/server and a user of src/client/client.c: requests one after the    *)
(* other, over as many connections as it takes.                            *)
(*                                                                         *)
(* A new connection is accepted when the task of the one before has ended; *)
(* otherwise the server would have another task for it, which shares       *)
(* nothing with this one but the files.                                    *)
(***************************************************************************)
EXTENDS HttpServer

CONSTANT Requests   \* what each of the calls may ask for

\* What server_static_lookup() may find in the public tree, or not.
Names == {"file", "empty", "dir", "dirname", "none"}

\* What client_get(), client_put() and client_post() can be asked to send.
AnyRequest ==
  [method : {"GET", "PUT", "POST"}, path : STRING, name : Names \cup {"name"}, length : Nat,
   form : BOOLEAN, close : BOOLEAN, bad : BOOLEAN, http11 : BOOLEAN]

\* Only a body to upload has a length; a GET for a file names one.
ASSUME RequestsAssumption ==
  \A i \in 1..MaxRequests : \A q \in Requests[i] :
    /\ q \in AnyRequest
    /\ q.method = "GET" => q.length = 0
    /\ q.method = "GET" /\ q.path # "dns-query" => q.name \in Names

\* A header that the server refuses ends the reading of the headers, and only a handler closes
\* the connection for it; so both ends agree if no request without a handler has one.
Understood ==
  \A i \in 1..MaxRequests : \A q \in Requests[i] : q.bad => Serving(q) # {}

VARIABLES cat, got, left, results

Client == INSTANCE HttpClient

clientVars == <<cat, got, left, results>>
vars == <<connVars, serverVars, clientVars>>

Init ==
  /\ asked = <<>> /\ up = <<>> /\ down = <<>>
  /\ clientEnd = "none" /\ serverEnd = "none" /\ broken = FALSE
  /\ ServerInit /\ Client!ClientInit

Call(q) == Client!Call(q) /\ UNCHANGED serverVars

\* tcp_server_accept() and server_client() at the server, tcp_client() at the client.
Connect == Client!Connect /\ ServerStart

ServerStep == ServerNext /\ UNCHANGED clientVars
ClientStep == Connect \/ (Client!ClientSteps /\ UNCHANGED serverVars)
ServerCrashes == Crash /\ UNCHANGED clientVars
ClientDies == Client!Dies /\ UNCHANGED serverVars
NetworkResets == Reset /\ UNCHANGED <<serverVars, clientVars>>
NetworkBreaks == Break /\ UNCHANGED <<serverVars, clientVars>>

Next ==
  \/ Len(asked) < MaxRequests /\ \E q \in Requests[Len(asked) + 1] : Call(q)
  \/ ServerStep \/ ClientStep \/ NetworkResets
  \/ NetworkBreaks \/ ServerCrashes \/ ClientDies

Spec == Init /\ [][Next]_vars

\* Both programs go on when they can, and a timeout or a reset comes when nothing else does.
\* Nothing makes the network fail, a process die, or the client ask.
Fairness == WF_vars(ServerStep) /\ WF_vars(ClientStep) /\ WF_vars(NetworkResets)

FairSpec == Spec /\ Fairness

-----------------------------------------------------------------------------
(* Properties                                                              *)

Given == [i \in 1..MaxRequests |-> answers[i]]

Statuses == {1, 200, 201, 301, 400, 404, 405, 411, 415, 500}

Abstract == INSTANCE Exchange WITH answers <- Given

\* The fields of both structs, and what may be under way, have their types.
TypeOK ==
  /\ Len(asked) <= MaxRequests /\ \A i \in DOMAIN asked : asked[i] \in Requests[i]
  /\ clientEnd \in {"none", "open", "closed"} /\ serverEnd \in {"none", "open", "closed"}
  /\ broken \in BOOLEAN
  /\ at \in {"closed", "request", "headers", "rest", "handle", "body", "lookup",
             "respond", "error", "finish", "end"}
  /\ at = "closed" <=> serverEnd # "open"
  /\ at \in {"respond", "error"} => script # <<>>
  /\ cat \in {"idle", "connect", "send", "upload", "status", "headers", "size", "chunk",
              "footer", "trailer", "length", "eof", "dead"}
  /\ request.n \in Answered /\ request.length \in Nat /\ left \in Nat
  /\ err \in {-1, 0} \cup Statuses

\* What server_client_request() is there for: the server answers each request once at most,
\* and only what it has been asked; and a call of client_get() returns the server's answer to
\* this request, never to another one, or none.
ExchangeSpec == Abstract!Spec

\* When client_request() leaves the connection open for the next request, it has read all of
\* the response and nothing else: what the file got is what the server's handler had handed
\* over for this request, and nothing is under way.
KeptByClient ==
  (cat = "idle" /\ clientEnd = "open") =>
    /\ down = <<>>
    /\ got.of = {Len(asked)} /\ got.units = meant[Len(asked)]

\* When server_client_task() starts over on a connection that it keeps, what comes next is a
\* request line: all of the request before has been read, although several loops share that.
KeptByServer ==
  (at = "request" /\ up # <<>>) => Head(up).is = "request"

\* On a connection that both ends keep, they agree where one request and its response end and
\* the next begin.
InStep == KeptByClient /\ KeptByServer

\* The answer 201 means that the file under upload/ holds all of this request's body.
UploadIsWhole ==
  \A i \in 1..Len(asked) :
    answers[i] = 201 /\ stored.of = i => stored.units = asked[i].length

\* A call which returns a status has got the whole response: client_request() promises 0 or 1
\* "on success", "<0 on error".
StatusMeansWhole ==
  cat = "idle" /\ results # <<>> /\ Last(results) >= 200 => got.units = meant[Len(asked)]

\* Every call of client_get() and so on returns, whatever becomes of the connection, though
\* the client has no timeout: the server's are enough.
CallsReturn ==
  \A i \in 1..MaxRequests : Len(asked) = i ~> (Len(results) >= i \/ cat = "dead")

\* The server's task does not outlive a connection that the client has closed, or left
\* behind when it was killed.
TasksEnd == (clientEnd = "closed") ~> (at = "closed" \/ clientEnd = "open")

\* Neither end waits for the other for ever.
NobodyWaits == CallsReturn /\ TasksEnd
=============================================================================
