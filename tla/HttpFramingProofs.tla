-------------------------- MODULE HttpFramingProofs --------------------------
(***************************************************************************)
(* The framing of requests and responses, for any requests that the server *)
(* understands, any number of connections, and any size of a file.         *)
(*                                                                         *)
(* The inductive invariant Framed says of either direction what is under   *)
(* way, as it follows from where both ends are.  To the server, that is    *)
(* the rest of the request it has read the beginning of, or whole requests *)
(* from their beginning.  To the client, it is what takes the client, as a *)
(* reader of lines and data, to where the task is in the response.         *)
(***************************************************************************)
EXTENDS HttpProofs

-----------------------------------------------------------------------------
(* What has been said and handed over                                      *)

\* Nothing has come back to the client before the status line.
Asks ==
  /\ cat \in {"connect", "send", "upload", "status"} => got = Client!Nothing /\ left = 0
  /\ cat = "upload" => asked[Len(asked)].length > 0

\* No body is handed over before the status and the end of the headers.
Handed ==
  /\ \A i \in 1..MaxRequests : answers[i] = 0 => meant[i] = 0
  /\ Serves /\ request.n > 0 /\ ~response.headers => meant[request.n] = 0

-----------------------------------------------------------------------------
(* What is under way to the server                                         *)

\* Both ends will go on with the connection.
Live == clientEnd = "open" /\ ~broken

\* How much of its last request the client has sent.
Arrived == IF cat = "upload" THEN HeadLen(Len(asked)) ELSE MessageLen(Len(asked))

\* Nothing is there, and nothing will come.
Dead == up = <<>> /\ ~Live

\* server_client_request() will close the connection.
Doomed ==
  /\ at \in {"finish", "error", "end"}
  /\ err < 0 \/ response.close \/ ~request.http11 \/ ClosesForBody

\* A request that has not been looked at.
Queued(w, j) ==
  /\ j \in 1..Said
  /\ \E m \in 1..MessageLen(j) :
       /\ Part(w, j, 0, m)
       /\ Live => j = Len(asked) /\ m = Arrived

\* The task waits for a request: there is none, or one from its beginning.
Waits ==
  /\ at = "request"
  /\ \/ /\ up = <<>>
        /\ Live => cat = "send" \/ (answers[Len(asked)] # 0 /\ cat # "upload")
     \/ \E j \in 1..Said : Queued(up, j)

\* The task has read the first k items of its request, and knows of it what they say.
ReadUpTo(k) ==
  LET q  == asked[request.n]
      hl == HeadLen(request.n)
      ml == MessageLen(request.n)
  IN
  /\ k \in 1..ml
  /\ request.headers =>
       /\ hl <= k
       /\ request.body => k = ml
       /\ ~request.body => request.length = ml - k
  /\ ~request.headers =>
       /\ at \notin {"finish", "error", "end"}
       /\ k < hl
       /\ request.length = IF k >= 3 THEN q.length ELSE 0
       /\ at = "headers" => ~(q.bad /\ k = hl - 1)
       /\ at # "headers" => (q.bad => k = hl - 1)
       /\ at # "headers" /\ (at # "rest" \/ response.status # 0) => q.bad

\* The response is complete but for its end.
Answering == at \in {"rest", "finish", "end"} /\ response.status # 0

\* What is left of a request whose response the client has read already.
Remains == MessageLen(request.n) - (IF request.headers THEN 0 ELSE 1)

\* The task serves a request, and what is there is more of it.
WithinAt(k, m) ==
  /\ ReadUpTo(k) /\ Part(up, request.n, k, m)
  /\ Live => IF request.n = Len(asked) THEN cat # "send" /\ m = Arrived
             ELSE /\ cat = "send" /\ Answering
                  /\ k = Remains /\ m = MessageLen(request.n)

Within ==
  /\ Serves
  /\ \E k \in 1..MessageLen(request.n) : \E m \in k..MessageLen(request.n) : WithinAt(k, m)

\* The client, having got all of the response, has sent the next request already.
Ahead ==
  /\ Answering
  /\ ReadUpTo(Remains)
  /\ \E j \in request.n + 1 .. Said :
       \/ request.headers /\ Queued(up, j)
       \/ /\ ~request.headers /\ up # <<>>
          /\ up[1] = Message(request.n)[MessageLen(request.n)]
          /\ Queued(Tail(up), j)

UpFramed ==
  /\ Serves => request.n > 0
  /\ serverEnd = "open" => Dead \/ Doomed \/ Waits \/ Within \/ Ahead

-----------------------------------------------------------------------------
(* What is under way to the client                                         *)

\* Where the client is in the response, whether it still sends or not.
AnyReader == [cat : ClientStates, got : AnyGot, left : Nat]

Reader(c, g, l) == [cat |-> c, got |-> g, left |-> l]

Now == Reader(IF cat \in {"send", "upload"} THEN "status" ELSE cat, got, left)

Waiting == Reader("status", Client!Nothing, 0)

\* What the client takes for what it is.
Accepts(c, i) ==
  \/ c.cat = "status" /\ i.is = "status"
  \/ c.cat = "headers" /\ i.is \in Headers \cup {"blank"}
  \/ c.cat = "size" /\ i.is = "size"
  \/ c.cat \in {"footer", "trailer"} /\ i.is = "blank"
  \/ c.cat \in {"chunk", "length", "eof"} /\ i.is = "data"

\* Where that leaves it.
After(c, i) ==
  LET g == [c.got EXCEPT !.of = @ \cup {i.re}]
  IN CASE c.cat = "status"  -> Reader("headers", [g EXCEPT !.status = i.n], c.left)
       [] c.cat = "headers" ->
            Reader(IF i.is = "blank" THEN Client!BodyState(c.got) ELSE "headers",
                   [g EXCEPT !.length  = IF i.is = "length" THEN i.n ELSE @,
                             !.chunked = @ \/ i.is = "chunked",
                             !.close   = @ \/ i.is = "close"],
                   IF i.is = "blank" THEN c.got.length ELSE c.left)
       [] c.cat = "size"    -> Reader(IF i.n = 0 THEN "trailer" ELSE "chunk", g, i.n)
       [] c.cat = "chunk"   -> Reader(IF c.left = 1 THEN "footer" ELSE "chunk",
                                      [g EXCEPT !.units = @ + 1], c.left - 1)
       [] c.cat = "footer"  -> Reader("size", g, c.left)
       [] c.cat = "trailer" -> Reader("idle", g, c.left)
       [] c.cat = "length"  -> Reader(IF c.left = 1 THEN "idle" ELSE "length",
                                      [g EXCEPT !.units = @ + 1], c.left - 1)
       [] c.cat = "eof"     -> Reader("eof", [g EXCEPT !.units = @ + 1], c.left)
       [] OTHER             -> c

\* A reader that is at w and in c will be in F behind it, without leaving K.
CanRead(w, c, F, K) ==
  \E st \in [0..Len(w) -> K] :
    /\ st[0] = c /\ st[Len(w)] = F
    /\ \A i \in 1..Len(w) : Accepts(st[i - 1], w[i]) /\ st[i] = After(st[i - 1], w[i])

\* The readers of the response to the last call: they know its status, and that of no other.
Honest(n, status, units) ==
  {c \in AnyReader :
     /\ c.cat = "status" \/ c.got.status = 0 => c = Waiting
     /\ c.got.status # 0 => c.got.of = {n} /\ c.got.status = status
     /\ c.cat = "idle" => c.got.units = units}

Known == Honest(Len(asked), answers[Len(asked)], meant[Len(asked)])

\* Where a response that has been written so far leaves a reader.
Wrote(F, r, units, done) ==
  /\ r.status = 0 => F = Waiting
  /\ r.status # 0 /\ ~r.headers =>
       F.cat = "headers" /\ F.got.length = 0 /\ ~F.got.chunked /\ F.got.units = 0
  /\ r.chunked => F.cat = "size" /\ F.got.units = units
  /\ r.headers /\ ~r.chunked => F.cat = "eof" \/ (F.cat = "idle" /\ done)

\* Where the client will be with what the task has written so far.
Matches(F) ==
  LET n == Len(asked) IN
  /\ Serves /\ request.n = n /\ err >= 0 =>
       Wrote(F, response, meant[n], script = <<>> /\ request.handler = "static")
  /\ Serves /\ request.n = n /\ err < 0 => F.cat # "idle"
  /\ Serves /\ request.n < n =>
       /\ F = Waiting /\ answers[n] = 0
       /\ script = <<>> /\ at \in {"rest", "finish", "end"}
       /\ response.headers /\ ~response.chunked
  /\ at = "request" => IF answers[n] = 0 THEN F = Waiting ELSE F.cat \in {"idle", "eof"}

DownFramed ==
  clientEnd = "open" =>
    \E F \in AnyReader :
      /\ CanRead(down, Now, F, Known)
      /\ Live /\ serverEnd = "open" => Matches(F)

Framed == Uploads /\ Asks /\ Handed /\ UpFramed /\ DownFramed

-----------------------------------------------------------------------------
(* What the client has got, and the server handed over, before it begins   *)

\* What the client has got of a response begins with its status line.
LEMMA AsksStep ==
  ASSUME Control, Asks, [Next]_vars
  PROVE  Asks'
<1>1. CASE UNCHANGED clientVars /\ asked' = asked
  BY <1>1 DEF Asks, clientVars
<1>2. CASE \E q \in Requests[Len(asked) + 1] : Call(q)
  BY <1>2 DEF Call, Client!Call, Asks
<1>3. CASE Connect
  BY <1>3 DEF Connect, Client!Connect, Asks
<1>4. CASE Client!SendHead
  <2>1. cat = "send" /\ asked' = asked /\ got' = got /\ left' = left /\ cat' \in {"upload", "status"}
        /\ (cat' = "upload" => asked[Len(asked)].length > 0)
    BY <1>4, ClientText DEF Client!SendHead
  <2>2. QED BY <2>1 DEF Asks
<1>5. CASE Client!SendBody
  BY <1>5 DEF Client!SendBody, Asks
<1>6. CASE Client!ClientSteps /\ ~Client!SendHead /\ ~Client!SendBody
  <2>1. \A r : Client!BodyState(r) \in {"size", "length", "eof"}
    BY DEF Client!BodyState
  <2>2. cat' \notin {"connect", "send", "upload", "status"}
    BY <1>6, <2>1 DEF Client!ClientSteps, Client!ConnectFails, Client!SendFails, Client!ReadStatus,
       Client!ReadHeader, Client!HeadersEof, Client!ReadSize, Client!ReadChunk, Client!ReadFooter,
       Client!ReadTrailer, Client!ReadBody, Client!ReadEof, Client!ReadFails, Client!Complete,
       Client!RequestReturns, Client!Returns
  <2>3. QED BY <2>2 DEF Asks
<1>7. CASE Client!Dies
  BY <1>7 DEF Client!Dies, Asks
<1>8. asked' = asked \/ \E q \in Requests[Len(asked) + 1] : Call(q)
  BY AskedFrame
<1>9. CASE UNCHANGED vars
  BY <1>9, <1>1 DEF vars, connVars, clientVars
<1>10. CASE ServerNext /\ UNCHANGED clientVars
  BY <1>10, <1>1, ServerFrame
<1>11. CASE (Crash /\ UNCHANGED clientVars) \/ NetworkStep
  BY <1>11, <1>1 DEF Crash, NetworkStep, Breaks
<1>12. QED BY <1>2, <1>3, <1>4, <1>5, <1>6, <1>7, <1>9, <1>10, <1>11, Steps

\* A step of the task that is not about the response.
LEMMA NotWriting ==
  ASSUME Control, ServerNext, ~ReadRequest, at \notin {"respond", "error"}
  PROVE  /\ answers' = answers /\ meant' = meant
         /\ Serves' => /\ Serves /\ request'.n = request.n /\ request'.handler = request.handler
                       /\ request'.http11 = request.http11
                       /\ response'.status = response.status /\ response'.headers = response.headers
                       /\ response'.chunked = response.chunked
<1>1. request \in AnyServed /\ response \in AnyResponse
  BY DEF Control, ServerTypes
<1>2. CASE NoMoreRequests \/ EndResponse
  BY <1>2 DEF NoMoreRequests, EndResponse, Hangup, Serves
<1>3. CASE ReadHeader \/ ReadEndOfHeaders \/ ReadBadHeader \/ ReadHeaderFails
  BY <1>1, <1>3 DEF ReadHeader, ReadEndOfHeaders, ReadBadHeader, ReadHeaderFails, AnyServed,
     AnyResponse, Serves
<1>4. CASE StaticGet \/ StaticPut \/ ReadFile \/ ReadFileFails
  BY <1>1, <1>4 DEF StaticGet, StaticPut, ReadFile, ReadFileFails, HandlerReturns, Respond, AnyServed,
     AnyResponse, Serves
<1>5. CASE DnsParams \/ ReadForm \/ ReadFormFails \/ Lookup
  BY <1>1, <1>5 DEF DnsParams, ReadForm, ReadFormFails, Lookup, HandlerReturns, Respond, AnyServed,
     AnyResponse, Serves
<1>6. CASE Conclude
  BY <1>1, <1>6 DEF Conclude, Hangup, AnyServed, AnyResponse, Serves
<1>7. ~Write /\ ~WriteShrunkFile /\ ~WriteFails
  BY DEF Write, WriteShrunkFile, WriteFails
<1>8. QED BY <1>2, <1>3, <1>4, <1>5, <1>6, <1>7 DEF ServerNext

\* What the task hands over begins with the status.
LEMMA HandedStep ==
  ASSUME Uploads, Handed, [Next]_vars
  PROVE  Handed'
<1>0. /\ request \in AnyServed /\ response \in AnyResponse
      /\ answers \in [Answered -> {0} \cup Statuses] /\ meant \in [Answered -> Nat]
      /\ Control
  BY DEF Uploads, Control, ServerTypes
<1>1. CASE ReadRequest
  <2>1. request'.n > 0 => answers[request'.n] = 0 /\ request'.n \in 1..MaxRequests
    <3>1. HasLine(up) /\ up \in Seq(AnyItem)
      BY <1>0, <1>1 DEF ReadRequest, Control, ConnTypes
    <3>2. request'.n = IF LineOf(up).is = "request" THEN LineOf(up).n ELSE 0
      BY <1>1 DEF ReadRequest, NoRequest
    <3>3. CASE LineOf(up).is = "request"
      <4>1. LineOf(up) = up[1] /\ 1 \in 1..Len(up)
        BY <3>1, <3>3, LineFacts
      <4>2. answers[up[1].n] = 0
        BY <3>3, <4>1 DEF Uploads, UpOrder
      <4>3. up[1].n \in 1..Said /\ Said \in Nat /\ Said <= MaxRequests /\ MaxRequests \in Nat
        BY <1>0, <3>3, <4>1, SaidGrows DEF Control, Numbers
      <4>4. QED BY <3>2, <3>3, <4>1, <4>2, <4>3
    <3>4. QED BY <3>2, <3>3
  <2>2. answers' = answers /\ meant' = meant
    BY <1>1 DEF ReadRequest
  <2>3. QED BY <2>1, <2>2 DEF Handed
<1>2. CASE ServerNext /\ ~ReadRequest /\ at \notin {"respond", "error"}
  BY <1>0, <1>2, NotWriting DEF Handed
<1>3. CASE ServerNext /\ at \in {"respond", "error"}
  <2> DEFINE c == Head(script)
             n == request.n
  <2>1. /\ Write \/ WriteShrunkFile \/ WriteFails
    BY <1>3 DEF ServerNext, ReadRequest, NoMoreRequests, ReadHeader, ReadEndOfHeaders, ReadBadHeader,
       ReadHeaderFails, StaticGet, StaticPut, ReadFile, ReadFileFails, DnsParams, ReadForm,
       ReadFormFails, Lookup, Conclude, EndResponse
  <2>2. request' = request /\ response' = ResponseAfter(c)
    BY <2>1 DEF Write, WriteShrunkFile, WriteFails
  <2>3. /\ response'.status # 0 /\ (response'.headers <=> response.headers \/ c.op \in {"headers", "file", "print"})
        /\ c.op \in {"status", "header", "headers", "file", "print"}
    BY <1>0, <1>3, <2>2, CallFacts
  <2>4. Answer(c) \/ (answers' = answers /\ c.op # "status")
    BY <2>1 DEF Write, WriteShrunkFile, WriteFails
  <2>5. /\ n > 0 => answers'[n] = response'.status
        /\ answers' # answers => answers' = [answers EXCEPT ![n] = c.status]
    BY <1>3, <2>2, <2>4, AnswerFacts
  <2>6. n \in Answered /\ n \in Nat
    BY <1>0, ServedAsked
  <2>7. meant' = meant \/ (c.op \in {"file", "print"} /\ \E k \in Nat : meant' = [meant EXCEPT ![n] = @ + k])
    <3>1. meant' = meant \/ meant' = [meant EXCEPT ![n] = @ + BodyOf(c)] \/ (c.op = "file" /\ meant' = [meant EXCEPT ![n] = @ + FileSize])
      BY <2>1 DEF Write, WriteShrunkFile, WriteFails
    <3>2. BodyOf(c) = IF c.op = "file" THEN FileSize ELSE IF c.op = "print" THEN 1 ELSE 0
      BY DEF BodyOf
    <3>3. FileSize \in Nat
      BY SizesAssumption
    <3>4. c.op \notin {"file", "print"} => [meant EXCEPT ![n] = @ + BodyOf(c)] = meant
      BY <1>0, <2>6, <3>2
    <3>5. QED BY <3>1, <3>2, <3>3, <3>4
  <2>8. \A i \in 1..MaxRequests : i # n => answers'[i] = answers[i] /\ meant'[i] = meant[i]
    <3>1. \A i \in 1..MaxRequests : i \in Answered
      BY SizesAssumption DEF Answered
    <3>2. QED BY <1>0, <2>5, <2>6, <2>7, <3>1
  <2>9. c.op \notin {"file", "print"} => meant' = meant
    BY <2>7
  <2>10. QED BY <1>3, <2>2, <2>3, <2>5, <2>6, <2>8, <2>9 DEF Handed, Serves
<1>4. CASE UNCHANGED serverVars
  BY <1>4 DEF serverVars, Handed, Serves
<1>5. CASE Crash \/ Connect
  BY <1>5 DEF Crash, Hangup, Connect, ServerStart, Serves, Handed
<1>6. CASE NetworkStep \/ UNCHANGED vars \/ \E q \in Requests[Len(asked) + 1] : Call(q)
  BY <1>4, <1>6 DEF NetworkStep, vars, Call
<1>7. QED BY <1>1, <1>2, <1>3, <1>4, <1>5, <1>6, Steps

-----------------------------------------------------------------------------
(* Framing of requests                                                     *)

\* Messages, and what is said of them, are the same as long as nothing is asked.
LEMMA MessagesStay ==
  ASSUME asked' = asked
  PROVE  /\ HeadLen(request.n)' = HeadLen(request'.n)
         /\ MessageLen(request.n)' = MessageLen(request'.n)
         /\ Message(request.n)' = Message(request'.n)
         /\ \A i : HeadLen(i)' = HeadLen(i) /\ MessageLen(i)' = MessageLen(i) /\ Message(i)' = Message(i)
         /\ \A k, m : Part(up, request.n, k, m)' <=> Part(up', request'.n, k, m)
         /\ \A j, m : Part(up, j, 0, m)' <=> Part(up', j, 0, m)
         /\ \A j, m : Part(Tail(up), j, 0, m)' <=> Part(Tail(up'), j, 0, m)
BY DEF HeadLen, MessageLen, Message, MessageOf, Part

\* Nor what is queued behind it.
LEMMA QueuedNext ==
  ASSUME asked' = asked, NEW j, NEW m \in 1..MessageLen(j), j \in 1..Said',
         Live' => j = Len(asked) /\ m = IF cat' = "upload" THEN HeadLen(j) ELSE MessageLen(j)
  PROVE  /\ Part(up', j, 0, m) => Queued(up, j)'
         /\ Part(Tail(up'), j, 0, m) => Queued(Tail(up), j)'
<1>1. m \in 1..MessageLen(j)'
  BY MessagesStay
<1>2. Live' => j = Len(asked') /\ m = Arrived'
  BY MessagesStay DEF Arrived
<1>3. Part(up', j, 0, m) => Part(up, j, 0, m)'
  BY MessagesStay
<1>4. Part(Tail(up'), j, 0, m) => Part(Tail(up), j, 0, m)'
  BY MessagesStay
<1>5. QED BY <1>1, <1>2, <1>3, <1>4 DEF Queued

\* With one more item read, the task is one item further.
LEMMA ReadUpToNext ==
  ASSUME asked' = asked, NEW k, NEW q, q = asked[request'.n], NEW hl, hl = HeadLen(request'.n),
         NEW ml, ml = MessageLen(request'.n), k \in 1..ml,
         request'.headers => /\ hl <= k
                             /\ request'.body => k = ml
                             /\ ~request'.body => request'.length = ml - k,
         ~request'.headers =>
           /\ at' \notin {"finish", "error", "end"}
           /\ k < hl
           /\ request'.length = IF k >= 3 THEN q.length ELSE 0
           /\ at' = "headers" => ~(q.bad /\ k = hl - 1)
           /\ at' # "headers" => (q.bad => k = hl - 1)
           /\ at' # "headers" /\ (at' # "rest" \/ response'.status # 0) => q.bad
  PROVE  ReadUpTo(k)'
<1>1. HeadLen(request.n)' = hl /\ MessageLen(request.n)' = ml /\ asked'[request'.n] = q
  BY MessagesStay
<1>2. QED BY <1>1 DEF ReadUpTo

\* The client leaves the task to what it does.
LEMMA WithinNext ==
  ASSUME UNCHANGED <<asked, clientEnd, broken, cat>>, Serves', request'.n = request.n,
         NEW k \in 1..MessageLen(request.n), NEW m \in k..MessageLen(request.n),
         NEW l \in 1..MessageLen(request.n), m >= l,
         WithinAt(k, m), Part(up', request.n, l, m), ReadUpTo(l)',
         Live /\ request.n # Len(asked) => Answering' /\ l = Remains'
  PROVE  Within'
<1>1. MessageLen(request.n)' = MessageLen(request.n) /\ Arrived' = Arrived /\ Live' = Live
  BY MessagesStay DEF Arrived, Live
<1>2. Part(up, request.n, l, m)'
  BY MessagesStay
<1>3. WithinAt(l, m)'
  BY <1>1, <1>2 DEF WithinAt
<1>4. l \in 1..MessageLen(request.n)' /\ m \in l..MessageLen(request.n)'
  BY <1>1
<1>5. QED BY <1>3, <1>4 DEF Within

\* The next line of a request whose headers are being read.
LEMMA NextLine ==
  ASSUME Control, request.n \in 1..Len(asked), NEW k \in 1..MessageLen(request.n),
         NEW m \in k..MessageLen(request.n), WithinAt(k, m), ~request.headers
  PROVE  /\ k < HeadLen(request.n) /\ k + 1 \in 2..HeadLen(request.n)
         /\ up = <<>> <=> k = m
         /\ up = <<>> => ~HasLine(up) /\ ~Live
         /\ up # <<>> => /\ HasLine(up) /\ LineOf(up) = Message(request.n)[k + 1] /\ m >= k + 1
                         /\ Part(AfterLine(up), request.n, k + 1, m)
<1> DEFINE n == request.n
           hl == HeadLen(n)
           ml == MessageLen(n)
           M == Message(n)
<1>1. /\ AskedTypes /\ up \in Seq(AnyItem) /\ Len(up) \in Nat
  BY LenProperties DEF Control, ConnTypes
<1>2. /\ hl \in Nat /\ hl >= 3 /\ ml \in Nat /\ hl <= ml
      /\ M[hl] = Item("blank", 0, n)
      /\ \A i \in 2..hl - 1 : M[i].is \in Headers \cup {"bad"}
  <2>1. asked[n].length \in Nat /\ ml = hl + asked[n].length
    BY <1>1, MessageFacts
  <2>2. QED BY <2>1, <1>1, MessageFacts, SMTT(30)
<1>3. k < hl /\ Part(up, n, k, m) /\ k \in Nat /\ m \in Nat /\ m <= ml /\ k <= m /\ k >= 1
  BY <1>2 DEF WithinAt, ReadUpTo
<1>4. Len(up) = m - k /\ \A x \in 1..m - k : up[x] = M[k + x]
  BY <1>3 DEF Part
<1>5. up = <<>> <=> k = m
  BY <1>1, <1>3, <1>4, EmptySeq
<1>6. Live => m >= hl
  <2>1. CASE n = Len(asked)
    <3>1. Live => m = Arrived
      BY <2>1 DEF WithinAt
    <3>2. Arrived >= hl
      BY <2>1, <1>2 DEF Arrived
    <3>3. QED BY <3>1, <3>2
  <2>2. CASE n # Len(asked)
    BY <2>2, <1>2 DEF WithinAt
  <2>3. QED BY <2>1, <2>2
<1>7. ASSUME up # <<>>
      PROVE  /\ HasLine(up) /\ LineOf(up) = M[k + 1] /\ m >= k + 1
             /\ Part(AfterLine(up), n, k + 1, m)
  <2>1. 1 \in 1..m - k /\ m >= k + 1 /\ 1 \in 0..Len(up)
    BY <1>3, <1>4, <1>5, <1>7
  <2>2. up[1] = M[k + 1]
    BY <1>4, <2>1
  <2>3. M[k + 1].is # "data"
    <3>1. k + 1 \in 2..hl - 1 \/ k + 1 = hl
      BY <1>2, <1>3
    <3>2. QED BY <3>1, <1>2 DEF Headers, Item
  <2>4. HasLine(up) /\ LineEnd(up) = 1 /\ LineOf(up) = up[1]
    BY <1>1, <1>7, <2>2, <2>3, FirstLine
  <2>5. Part(SubSeq(up, 1 + 1, Len(up)), n, k + 1, m)
    BY <1>1, <1>3, <2>1, PartRest
  <2>6. AfterLine(up) = SubSeq(up, 1 + 1, Len(up))
    BY <2>4 DEF AfterLine
  <2>7. QED BY <2>1, <2>2, <2>4, <2>5, <2>6
<1>8. up = <<>> => ~HasLine(up)
  BY NoLine
<1>9. k + 1 \in 2..hl
  BY <1>2, <1>3
<1>10. QED BY <1>2, <1>3, <1>5, <1>6, <1>7, <1>8, <1>9

\* Nothing comes over a connection that is lost, until the next one.
LEMMA DeadStays ==
  ASSUME Control, [Next]_vars, Dead
  PROVE  Dead' \/ Connect
<1>1. up \in Seq(AnyItem) /\ up = <<>> /\ Len(up) = 0
  BY EmptySeq DEF Control, ConnTypes, Dead
<1>2. ASSUME NEW k \in 0..Len(up), up' = SubSeq(up, k + 1, Len(up)) \/ up' = SubSeq(up, 1, k)
      PROVE  up' = <<>>
  <2>1. k = 0
    BY <1>1, <1>2
  <2>2. /\ SubSeq(up, k + 1, Len(up)) \in Seq(AnyItem) /\ Len(SubSeq(up, k + 1, Len(up))) = 0
        /\ SubSeq(up, 1, k) \in Seq(AnyItem) /\ Len(SubSeq(up, 1, k)) = 0
    BY <1>1, <2>1, RestFacts, TakeFacts
  <2>3. QED BY <1>2, <2>2, EmptySeq
<1>3. cat \in {"send", "upload"} => clientEnd = "open"
  BY DEF Control, ClientControl
<1>5. ASSUME NEW X, NEW k, NEW m, Adds(X, k, m) PROVE FALSE
  BY <1>3, <1>5 DEF Adds, Dead, Live
<1>6. up' = <<>> \/ Connect
  BY <1>1, <1>2, <1>5, UpChanges
<1>7. ~Live' \/ Connect
  <2>1. CASE ServerNext
    BY <2>1, ServerFrame DEF Dead, Live
  <2>2. CASE Client!ClientSteps
    <3>1. clientEnd' = clientEnd \/ cat \notin {"idle", "connect", "dead"} \/ clientEnd' = "closed"
      BY <2>2 DEF Client!ClientSteps, Client!ConnectFails, Client!SendHead, Client!SendBody,
         Client!SendFails, Client!ReadStatus,
         Client!ReadHeader, Client!HeadersEof, Client!ReadSize, Client!ReadChunk, Client!ReadFooter,
         Client!ReadTrailer, Client!ReadBody, Client!ReadEof, Client!ReadFails, Client!Complete,
         Client!RequestReturns, Client!Returns, Client!TakeLine, Client!connVars
    <3>2. cat \notin {"idle", "connect", "dead"} => clientEnd = "open"
      BY DEF Control, ClientControl
    <3>3. broken' = broken
      BY <2>2, ClientFrame
    <3>4. QED BY <3>1, <3>2, <3>3 DEF Dead, Live
  <2>3. CASE (Crash /\ UNCHANGED clientVars) \/ UNCHANGED vars \/ \E q \in Requests[Len(asked) + 1] : Call(q)
    BY <2>3 DEF Crash, vars, connVars, Call, Client!Call, Dead, Live
  <2>4. CASE NetworkStep
    BY <2>4 DEF NetworkStep, Breaks, Live
  <2>5. CASE Client!Dies
    BY <2>5 DEF Client!Dies, Live
  <2>6. QED BY <2>1, <2>2, <2>3, <2>4, <2>5, Steps
<1>8. QED BY <1>6, <1>7 DEF Dead

\* Nothing changes the server's mind.
LEMMA DoomedStays ==
  ASSUME Control, [Next]_vars, Doomed
  PROVE  Doomed' \/ serverEnd' # "open"
<1>1. request \in AnyServed /\ response \in AnyResponse /\ err \in {-1, 0} \cup Statuses
  BY DEF Control, ServerTypes
<1>2. CASE UNCHANGED serverVars
  BY <1>2 DEF serverVars, Doomed, ClosesForBody
<1>3. CASE ServerNext
  <2>1. \/ Conclude \/ EndResponse
        \/ (Write \/ WriteFails) /\ at = "error"
    BY <1>3 DEF ServerNext, ReadRequest, NoMoreRequests, ReadHeader, ReadEndOfHeaders, ReadBadHeader,
       ReadHeaderFails, StaticGet, StaticPut, ReadFile, ReadFileFails, DnsParams, ReadForm,
       ReadFormFails, Lookup, Write, WriteShrunkFile, WriteFails, Doomed
  <2>2. CASE Conclude
    BY <1>1, <2>2 DEF Conclude, Hangup, Doomed, ClosesForBody, AnyResponse, AnyServed
  <2>3. CASE EndResponse
    <3>1. err >= 0
      BY <1>1, <2>3 DEF EndResponse, Control, ResponseControl, Statuses
    <3>2. ~request.http11 => response.close
      BY <2>3 DEF EndResponse, Control, ResponseControl, Serves
    <3>3. ClosesForBody => response.close
      BY <2>3 DEF EndResponse, Control, ResponseControl
    <3>4. response.close
      BY <1>1, <3>1, <3>2, <3>3 DEF Doomed, Statuses
    <3>5. QED BY <2>3, <3>4 DEF EndResponse, Hangup
  <2>4. CASE (Write \/ WriteFails) /\ at = "error"
    <3>1. request' = request /\ response' = ResponseAfter(Head(script)) /\ at' \in {"error", "end"} /\ err' = err
      BY <2>4 DEF Write, WriteFails, AfterScript
    <3>2. response.close => response'.close
      BY <2>4, <3>1, CallFacts
    <3>3. QED BY <2>4, <3>1, <3>2 DEF Doomed, ClosesForBody
  <2>5. QED BY <2>1, <2>2, <2>3, <2>4
<1>4. CASE Crash
  BY <1>4 DEF Crash, Hangup
<1>5. CASE Connect
  BY <1>5 DEF Connect, ServerStart, Doomed
<1>6. CASE NetworkStep \/ UNCHANGED vars \/ \E q \in Requests[Len(asked) + 1] : Call(q)
  BY <1>2, <1>6 DEF NetworkStep, vars, Call
<1>7. QED BY <1>2, <1>3, <1>4, <1>5, <1>6, Steps

\* The client has said what it has been asked for, or is about to.
LEMMA SaidFacts ==
  ASSUME Control
  PROVE  /\ Said \in Nat /\ Said <= Len(asked) /\ Len(asked) \in Nat
         /\ Len(asked) <= MaxRequests /\ MaxRequests \in Nat
         /\ cat \in {"connect", "send"} => Said = Len(asked) - 1
<1>1. Len(asked) \in Nat /\ Len(asked) <= MaxRequests /\ MaxRequests \in Nat
  BY LenProperties, SizesAssumption DEF Control, AskedTypes
<1>2. cat \in {"connect", "send"} => Len(asked) > 0
  BY DEF Control, ClientControl
<1>3. QED BY <1>1, <1>2 DEF Said

\* server_request() finds the beginning of a request.
LEMMA UpReadRequest ==
  ASSUME Control, Understood, Waits, ReadRequest, UNCHANGED clientVars
  PROVE  request'.n > 0 /\ (Within' \/ Doomed')
<1>1. /\ AskedTypes /\ up \in Seq(AnyItem) /\ HasLine(up) /\ up' = AfterLine(up)
      /\ UNCHANGED <<asked, clientEnd, broken, cat>> /\ at = "request" /\ Len(asked) \in Nat
      /\ response = NoResponse
  BY LenProperties DEF Control, ConnTypes, ReadRequest, clientVars, RequestControl, Serves, AskedTypes
<1>2. up # <<>>
  BY <1>1, NoLine
<1>3. PICK j \in 1..Said : Queued(up, j)
  BY <1>2 DEF Waits
<1>4. PICK m \in 1..MessageLen(j) : Part(up, j, 0, m) /\ (Live => j = Len(asked) /\ m = Arrived)
  BY <1>3 DEF Queued
<1>5. /\ Said \in Nat /\ Said <= Len(asked) /\ j \in 1..Len(asked) /\ j \in 1..MaxRequests /\ j \in Nat
  <2>1. Said \in Nat /\ Said <= Len(asked) /\ Len(asked) <= MaxRequests /\ MaxRequests \in Nat
    BY SaidFacts
  <2>2. QED BY <1>1, <2>1
<1> DEFINE q == asked[j]
           hl == HeadLen(j)
           ml == MessageLen(j)
<1>6. /\ q \in AnyRequest /\ hl \in Nat /\ hl >= 3 /\ ml \in Nat /\ hl <= ml
      /\ q.bad => hl >= 4
      /\ Message(j)[1] = Item("request", j, j)
  <2>1. ml = hl + q.length /\ q.length \in Nat /\ hl \in Nat /\ hl >= 3
    BY <1>1, <1>5, MessageFacts
  <2>2. QED BY <2>1, <1>1, <1>5, MessageFacts, SMTT(30)
<1>7. m \in Nat /\ m >= 1 /\ m <= ml /\ Len(up) = m /\ up[1] = Item("request", j, j)
  <2>1. m \in Nat /\ m >= 1 /\ m <= ml /\ Len(up) = m - 0 /\ \A x \in 1..m - 0 : up[x] = Message(j)[0 + x]
    BY <1>4, <1>6 DEF Part
  <2>2. up[1] = Message(j)[0 + 1]
    BY <2>1
  <2>3. QED BY <2>1, <2>2, <1>6
<1>8. LineEnd(up) = 1 /\ LineOf(up) = Item("request", j, j)
  <2>1. up[1].is # "data"
    BY <1>7 DEF Item
  <2>2. QED BY <1>1, <1>2, <1>7, <2>1, FirstLine
<1>9. Part(up', j, 1, m)
  <2>1. 1 \in 0..Len(up)
    BY <1>7
  <2>2. Part(SubSeq(up, 1 + 1, Len(up)), j, 0 + 1, m)
    BY <1>1, <1>4, <1>5, <2>1, PartRest
  <2>3. QED BY <1>1, <1>8, <2>2 DEF AfterLine
<1>10. /\ request'.n = j /\ ~request'.headers /\ ~request'.body /\ request'.length = 0
       /\ response'.status = 0
       /\ q.path = "toolong" => at' = "finish" /\ ~request'.http11
       /\ q.path # "toolong" => /\ Serving(q) # {} => at' = "headers"
                                /\ Serving(q) = {} => at' = "rest"
  <2>1. LineOf(up).is = "request" /\ LineOf(up).n = j
    BY <1>8 DEF Item
  <2>2. /\ request' = [NoRequest EXCEPT !.n = j, !.http11 = q.path # "toolong" /\ q.http11,
                         !.handler = IF q.path # "toolong" /\ Serving(q) # {}
                                     THEN Handlers[Min(Serving(q))].serves ELSE "none"]
        /\ response' = [response EXCEPT !.close = q.path # "toolong" /\ ~q.http11]
        /\ at' = IF q.path = "toolong" THEN "finish" ELSE IF Serving(q) # {} THEN "headers" ELSE "rest"
    BY <2>1 DEF ReadRequest, Request
  <2>3. QED BY <2>2, <1>1 DEF NoRequest, NoResponse
<1>11. CASE q.path = "toolong"
  BY <1>5, <1>10, <1>11 DEF Doomed
<1>12. CASE q.path # "toolong"
  <2>1. at' \in {"headers", "rest"} /\ (at' = "rest" => ~q.bad)
    <3>1. q \in Requests[j]
      BY <1>1, <1>5 DEF AskedTypes
    <3>2. q.bad => Serving(q) # {}
      BY <1>5, <3>1 DEF Understood
    <3>3. QED BY <1>10, <1>12, <3>2
  <2>2. ReadUpTo(1)'
    <3>1. 1 \in 1..ml /\ 1 < hl /\ ~(q.bad /\ 1 = hl - 1) /\ ~(1 >= 3)
      BY <1>6
    <3> HIDE DEF hl, ml, q
    <3>2. hl = HeadLen(request'.n) /\ ml = MessageLen(request'.n) /\ q = asked[request'.n]
      BY <1>10 DEF hl, ml, q
    <3>3. QED BY <1>1, <1>10, <2>1, <3>1, <3>2, ReadUpToNext
  <2>3. Part(up, request.n, 1, m)'
    BY <1>1, <1>9, <1>10, MessagesStay
  <2>4. Live' => request'.n = Len(asked') /\ cat' # "send" /\ m = Arrived'
    <3>1. Live' = Live /\ Arrived' = Arrived
      BY <1>1, MessagesStay DEF Live, Arrived
    <3>2. j = Len(asked) => cat # "send"
      BY <1>1, <1>5 DEF Said
    <3>3. QED BY <1>1, <1>4, <1>10, <3>1, <3>2
  <2>5. WithinAt(1, m)'
    BY <2>2, <2>3, <2>4 DEF WithinAt
  <2>6. 1 \in 1..MessageLen(request.n)' /\ m \in 1..MessageLen(request.n)'
    <3>1. MessageLen(request.n)' = ml
      BY <1>1, <1>10, MessagesStay
    <3>2. QED BY <3>1, <1>6, <1>7
  <2>7. Within'
    BY <2>1, <2>5, <2>6 DEF Within, Serves
  <2>8. QED BY <2>7, <1>5, <1>10
<1>13. QED BY <1>11, <1>12

\* The headers of a request, read by either loop.
LEMMA UpHeaders ==
  ASSUME Control, Within, request.n \in 1..Len(asked), UNCHANGED clientVars,
         ReadHeader \/ ReadEndOfHeaders \/ ReadBadHeader \/ ReadHeaderFails
  PROVE  Within' \/ Dead'
<1> DEFINE n == request.n
           q == asked[n]
           hl == HeadLen(n)
           ml == MessageLen(n)
           M == Message(n)
<1>1. /\ UNCHANGED <<asked, clientEnd, broken, cat>> /\ request'.n = n /\ response'.status = response.status
      /\ at \in {"headers", "rest"} /\ ~request.headers /\ ~request.body
      /\ AskedTypes /\ request \in AnyServed /\ response \in AnyResponse
  BY DEF ReadHeader, ReadEndOfHeaders, ReadBadHeader, ReadHeaderFails, Control, RequestControl, ServerTypes,
     AnyServed, AnyResponse, clientVars
<1>2. PICK k \in 1..ml : \E m \in k..ml : WithinAt(k, m)
  BY DEF Within
<1>3. PICK m \in k..ml : WithinAt(k, m)
  BY <1>2
<1>4. /\ q \in AnyRequest /\ hl \in Nat /\ hl >= 3 /\ ml \in Nat /\ ml = hl + q.length /\ q.length \in Nat
      /\ q.bad \in BOOLEAN /\ (q.length > 0 => hl >= 4)
      /\ M[hl] = Item("blank", 0, n)
      /\ \A i \in 2..hl - 1 :
           /\ M[i].is \in Headers \cup {"bad"}
           /\ M[i].is = "bad" <=> q.bad /\ i = hl - 1
           /\ M[i].is = "length" <=> q.length > 0 /\ i = 3
           /\ M[i].is = "length" => M[i].n = q.length
  BY <1>1, MessageFacts
<1>5. /\ k < hl /\ k + 1 \in 2..hl /\ (up = <<>> <=> k = m)
      /\ up = <<>> => ~HasLine(up) /\ ~Live
      /\ up # <<>> => HasLine(up) /\ LineOf(up) = M[k + 1] /\ m >= k + 1 /\ Part(AfterLine(up), n, k + 1, m)
  BY <1>1, <1>3, NextLine
<1>6. /\ request.length = IF k >= 3 THEN q.length ELSE 0
      /\ at = "headers" => ~(q.bad /\ k = hl - 1)
      /\ at = "rest" => (q.bad => k = hl - 1) /\ (response.status # 0 => q.bad)
  BY <1>1, <1>3 DEF WithinAt, ReadUpTo
<1>7. CASE up = <<>>
  BY <1>1, <1>5, <1>7 DEF ReadHeader, ReadEndOfHeaders, ReadBadHeader, ReadHeaderFails, Dead, Live
<1>8. CASE up # <<>>
  <2>1. /\ HasLine(up) /\ LineOf(up) = M[k + 1] /\ Part(AfterLine(up), n, k + 1, m)
        /\ k + 1 \in 1..ml /\ m >= k + 1 /\ k \in Nat /\ m \in Nat
    BY <1>4, <1>5, <1>8
  <2>2. up' = AfterLine(up) /\ ~ReadHeaderFails
    BY <2>1 DEF ReadHeader, ReadEndOfHeaders, ReadBadHeader, ReadHeaderFails, EofLine, ReadFails
  <2>3. Live /\ n # Len(asked) => at = "rest" /\ response.status # 0 /\ k = ml - 1
    BY <1>1, <1>3, <2>1 DEF WithinAt, Answering, Remains
  <2>4. ReadUpTo(k + 1)' /\ (Live /\ n # Len(asked) => Answering' /\ k + 1 = Remains')
    <3>1. HeadLen(request'.n) = hl /\ MessageLen(request'.n) = ml /\ asked[request'.n] = q
      BY <1>1
    <3>2. CASE ReadHeader
      <4>1. /\ LineOf(up).is \in Headers /\ at' = at
            /\ request'.length = (IF LineOf(up).is = "length" THEN LineOf(up).n ELSE request.length)
            /\ ~request'.headers /\ ~request'.body
        BY <1>1, <3>2 DEF ReadHeader, AnyServed
      <4>2. k + 1 # hl /\ LineOf(up).is # "bad"
        BY <1>4, <2>1, <4>1, SMTT(30) DEF Headers, Item
      <4>3. k + 1 \in 2..hl - 1 /\ ~(q.bad /\ k + 1 = hl - 1) /\ k + 1 < hl
        BY <1>4, <1>5, <2>1, <4>2
      <4>4. request'.length = IF k + 1 >= 3 THEN q.length ELSE 0
        <5>1. LineOf(up).is = "length" <=> q.length > 0 /\ k + 1 = 3
          BY <1>4, <2>1, <4>3
        <5>2. LineOf(up).is = "length" => LineOf(up).n = q.length
          BY <1>4, <2>1, <4>3
        <5>3. k >= 3 \/ k + 1 = 3 \/ k + 1 < 3
          BY <2>1
        <5>4. QED BY <1>4, <1>6, <2>1, <4>1, <5>1, <5>2, <5>3, SMTT(30)
      <4>5. at = "rest" => ~q.bad /\ response.status = 0
        BY <1>4, <1>6, <2>1, <4>2
      <4>6. at' \in {"headers", "rest"}
        BY <1>1, <4>1
      <4> HIDE DEF hl, ml, q, n, M
      <4>7. ReadUpTo(k + 1)'
        BY <1>1, <2>1, <3>1, <4>1, <4>3, <4>4, <4>5, <4>6, ReadUpToNext
      <4>8. QED BY <2>3, <4>5, <4>7
    <3>3. CASE ReadEndOfHeaders
      <4>1. /\ LineOf(up).is = "blank" /\ at' = HeadersEnd
            /\ request'.length = request.length /\ request'.headers /\ ~request'.body
        BY <1>1, <2>1, <3>3 DEF ReadEndOfHeaders, AnyServed, EofLine
      <4>2. k + 1 = hl
        <5>1. k + 1 \in 2..hl - 1 => M[k + 1].is # "blank"
          BY <1>4 DEF Headers
        <5>2. QED BY <1>4, <1>5, <2>1, <4>1, <5>1
      <4>3. request'.length = ml - (k + 1)
        BY <1>4, <1>6, <2>1, <4>1, <4>2
      <4> HIDE DEF hl, ml, q, n, M
      <4>4. ReadUpTo(k + 1)'
        BY <1>1, <2>1, <3>1, <4>1, <4>2, <4>3, ReadUpToNext
      <4>5. at = "rest" => at' = "finish"
        BY <4>1 DEF HeadersEnd
      <4>5a. ml \in Nat
        BY <1>4 DEF ml, n
      <4>6. Remains' = ml
        <5>1. MessageLen(request.n)' = ml
          BY <1>1, MessagesStay DEF ml, n
        <5>2. Remains' = ml - 0
          BY <4>1, <5>1 DEF Remains
        <5>3. QED BY <4>5a, <5>2
      <4>8. QED BY <1>1, <2>1, <2>3, <4>4, <4>5, <4>5a, <4>6 DEF Answering
    <3>4. CASE ReadBadHeader
      <4>1. /\ LineOf(up).is \notin Headers \cup {"blank"} /\ request' = request /\ at' \in {"rest", HeadersEnd}
        BY <3>4 DEF ReadBadHeader
      <4>2. k + 1 # hl
        BY <1>4, <2>1, <4>1 DEF Item
      <4>3. q.bad /\ k + 1 = hl - 1
        <5>1. k + 1 \in 2..hl - 1
          BY <1>4, <1>5, <4>2
        <5>2. QED BY <1>4, <2>1, <4>1, <5>1
      <4>4. at = "headers" /\ at' \in {"rest", "handle"}
        <5>1. at # "rest"
          BY <1>4, <1>6, <2>1, <4>3
        <5>2. QED BY <1>1, <4>1, <5>1 DEF HeadersEnd
      <4>5. request'.length = (IF k + 1 >= 3 THEN q.length ELSE 0) /\ k + 1 < hl
        <5>1. k < 3 => q.length = 0 \/ k + 1 < 3
          <6>1. k + 1 = 3 => M[3].is # "length"
            BY <2>1, <4>1 DEF Headers
          <6>2. k + 1 = 3 => 3 \in 2..hl - 1
            BY <1>4, <4>3
          <6>3. QED BY <1>4, <2>1, <6>1, <6>2
        <5>2. QED BY <1>4, <1>6, <2>1, <4>1, <4>3, <5>1, SMTT(30)
      <4> HIDE DEF hl, ml, q, n, M
      <4>6. ReadUpTo(k + 1)'
        BY <1>1, <2>1, <3>1, <4>1, <4>3, <4>4, <4>5, ReadUpToNext
      <4>7. QED BY <2>3, <4>4, <4>6
    <3>5. QED BY <2>2, <3>2, <3>3, <3>4
  <2>5. Serves'
    BY <1>1 DEF ReadHeader, ReadEndOfHeaders, ReadBadHeader, ReadHeaderFails, HeadersEnd, Serves
  <2>6. QED BY <1>1, <1>3, <2>1, <2>2, <2>4, <2>5, WithinNext
<1>9. QED BY <1>7, <1>8

\* What is queued stays so while nothing is added or taken.
LEMMA QueuedStays ==
  ASSUME UNCHANGED <<asked, clientEnd, broken, cat>>, NEW w, NEW j, Queued(w, j)
  PROVE  (up' = w => Queued(up, j)') /\ (Tail(up') = w => Queued(Tail(up), j)') /\ j \in 1..Said'
<1>1. PICK m \in 1..MessageLen(j) : Part(w, j, 0, m) /\ (Live => j = Len(asked) /\ m = Arrived)
  BY DEF Queued
<1>2. Said' = Said /\ Live' = Live /\ j \in 1..Said
  BY DEF Said, Live, Queued
<1>3. Live => m = IF cat' = "upload" THEN HeadLen(j) ELSE MessageLen(j)
  BY <1>1 DEF Arrived
<1>4. QED BY <1>1, <1>2, <1>3, QueuedNext

\* Where the task will be is where it will have read up to.
LEMMA ReadUpToRemains ==
  ASSUME NEW k, k = Remains', ReadUpTo(k)'
  PROVE  ReadUpTo(Remains)'
BY DEF ReadUpTo

\* The next request is there already, and the end of these headers.
LEMMA AheadHeaders ==
  ASSUME Control, Ahead, request.n \in 1..Len(asked), UNCHANGED clientVars,
         ReadHeader \/ ReadEndOfHeaders \/ ReadBadHeader \/ ReadHeaderFails
  PROVE  Ahead'
<1> DEFINE n == request.n
           q == asked[n]
           hl == HeadLen(n)
           ml == MessageLen(n)
<1>1. /\ UNCHANGED <<asked, clientEnd, broken, cat>> /\ request'.n = n /\ response'.status = response.status
      /\ at \in {"headers", "rest"} /\ ~request.headers /\ ~request.body
      /\ AskedTypes /\ request \in AnyServed /\ response \in AnyResponse /\ up \in Seq(AnyItem)
  BY DEF ReadHeader, ReadEndOfHeaders, ReadBadHeader, ReadHeaderFails, Control, RequestControl, ServerTypes,
     AnyServed, AnyResponse, clientVars, ConnTypes
<1>2. at = "rest" /\ response.status # 0 /\ ReadUpTo(ml - 1) /\ ml - 1 < hl /\ ml - 1 \in 1..ml
  BY <1>1 DEF Ahead, Answering, Remains, ReadUpTo
<1>3. PICK j \in n + 1 .. Said : up # <<>> /\ up[1] = Message(n)[ml] /\ Queued(Tail(up), j)
  BY <1>1 DEF Ahead
<1>4. /\ hl \in Nat /\ ml \in Nat /\ ml = hl + q.length /\ q.length \in Nat
      /\ Message(n)[hl] = Item("blank", 0, n)
  BY <1>1, MessageFacts
<1>5. ml = hl /\ q.length = 0 /\ request.length = 0
  <2>1. ml = hl /\ q.length = 0
    BY <1>2, <1>4
  <2>2. request.length = IF ml - 1 >= 3 THEN q.length ELSE 0
    BY <1>1, <1>2 DEF ReadUpTo
  <2>3. QED BY <2>1, <2>2
<1>6. up[1].is = "blank" /\ up[1].is # "data"
  BY <1>3, <1>4, <1>5 DEF Item
<1>7. HasLine(up) /\ LineEnd(up) = 1 /\ LineOf(up).is = "blank"
  BY <1>1, <1>3, <1>6, FirstLine
<1>8. ReadEndOfHeaders
  BY <1>7 DEF ReadHeader, ReadBadHeader, ReadHeaderFails, ReadFails, Headers
<1>9. /\ up' = Tail(up) /\ at' = "finish"
      /\ request'.length = 0 /\ request'.headers /\ ~request'.body
  <2>1. AfterLine(up) = Tail(up)
    BY <1>1, <1>3, <1>7, TailFacts DEF AfterLine
  <2>2. QED BY <1>1, <1>2, <1>5, <1>7, <1>8, <2>1 DEF ReadEndOfHeaders, HeadersEnd, EofLine, AnyServed
<1>10. Queued(up, j)' /\ j \in 1..Said'
  BY <1>1, <1>3, <1>9, QueuedStays
<1> PICK l : l = ml
  OBVIOUS
<1>11. ReadUpTo(l)'
  <2>1. l \in 1..ml /\ hl <= l /\ request'.length = ml - l
    BY <1>2, <1>4, <1>5, <1>9
  <2>2. hl = HeadLen(request'.n) /\ ml = MessageLen(request'.n) /\ q = asked[request'.n]
    BY <1>1
  <2> HIDE DEF hl, ml, q
  <2>3. /\ request'.headers => /\ hl <= l
                               /\ request'.body => l = ml
                               /\ ~request'.body => request'.length = ml - l
        /\ ~request'.headers => FALSE
    BY <1>9, <2>1
  <2>4. QED BY <1>1, <2>1, <2>2, <2>3, ReadUpToNext
<1>12. l = Remains'
  <2>1. MessageLen(request.n)' = ml
    BY <1>1, MessagesStay
  <2>2. Remains' = ml - 0
    BY <1>9, <2>1 DEF Remains
  <2>3. QED BY <1>4, <2>2
<1>13. j \in request'.n + 1 .. Said'
  <2>1. n \in Nat /\ j \in Nat /\ j >= n + 1
    BY <1>3
  <2>2. QED BY <1>1, <1>10, <2>1
<1>14. ReadUpTo(Remains)'
  BY <1>11, <1>12, ReadUpToRemains
<1>15. Answering'
  BY <1>1, <1>2, <1>9 DEF Answering
<1>16. QED BY <1>9, <1>10, <1>13, <1>14, <1>15 DEF Ahead

\* The handlers, and what they write, do not touch the request.
LEMMA UpOnward ==
  ASSUME Control, Within, request.n \in 1..Len(asked), UNCHANGED clientVars,
         \/ StaticGet \/ StaticPut \/ ReadFileFails \/ DnsParams \/ ReadFormFails \/ Lookup
         \/ Write \/ WriteShrunkFile \/ WriteFails
         \/ Conclude /\ Serves'
  PROVE  Within'
<1> DEFINE n == request.n
           q == asked[n]
           hl == HeadLen(n)
           ml == MessageLen(n)
<1>1. /\ UNCHANGED <<asked, clientEnd, broken, cat>> /\ request' = request /\ up' = up
      /\ request \in AnyServed
  BY DEF StaticGet, StaticPut, ReadFileFails, DnsParams, ReadFormFails, Lookup, Write, WriteShrunkFile,
     WriteFails, Conclude, HandlerReturns, Respond, Hangup, Serves, Control, ServerTypes, clientVars, connVars
<1>2. PICK k \in 1..ml : \E m \in k..ml : WithinAt(k, m)
  BY DEF Within
<1>3. PICK m \in k..ml : WithinAt(k, m)
  BY <1>2
<1>4. /\ at = "body" => request.headers
      /\ at = "lookup" => request.headers
      /\ at = "handle" /\ request.handler = "dns" => request.headers
      /\ at \in {"finish", "error", "end"} => request.headers
  BY <1>3 DEF Control, RequestControl, WithinAt, ReadUpTo
<1>5. /\ (Serves' /\ ~Answering) \/ (Serves' /\ Answering')
      /\ at' # "headers"
      /\ request.headers \/ (at \in {"handle", "respond"} /\ at' \in {"rest", "respond"})
  <2>1. CASE StaticGet \/ StaticPut \/ ReadFileFails \/ DnsParams \/ ReadFormFails \/ Lookup
    BY <2>1, <1>4 DEF StaticGet, StaticPut, ReadFileFails, DnsParams, ReadFormFails, Lookup,
       HandlerReturns, Respond, Rest, Answering, Serves
  <2>2. CASE Write \/ WriteShrunkFile \/ WriteFails
    BY <2>2, <1>4 DEF Write, WriteShrunkFile, WriteFails, AfterScript, Rest, Answering, Serves
  <2>3. CASE Conclude /\ Serves'
    <3>1. response \in AnyResponse /\ at = "finish" /\ request.headers
      BY <2>3, <1>4 DEF Conclude, Control, ServerTypes
    <3>2. /\ response' = [response EXCEPT !.close = @ \/ ClosesForBody]
          /\ IF response.status # 0 THEN at' = "end" ELSE at' = "error"
      BY <2>3 DEF Conclude, Hangup, Serves
    <3>3. response'.status = response.status
      BY <3>1, <3>2 DEF AnyResponse
    <3>4. QED BY <3>1, <3>2, <3>3 DEF Answering, Serves
  <2>4. QED BY <2>1, <2>2, <2>3
<1>6. k \in 1..MessageLen(request.n) /\ m \in k..MessageLen(request.n) /\ m >= k /\ Part(up', request.n, k, m)
      /\ ReadUpTo(k)
  <2>1. ml \in Nat
    BY <1>1, MessageFacts DEF Control
  <2>2. QED BY <1>1, <1>3, <2>1 DEF WithinAt
<1>7. ReadUpTo(k)'
  <2>1. hl = HeadLen(request'.n) /\ ml = MessageLen(request'.n) /\ q = asked[request'.n]
    BY <1>1
  <2>2. /\ k \in 1..ml
        /\ request'.headers => /\ hl <= k
                               /\ request'.body => k = ml
                               /\ ~request'.body => request'.length = ml - k
    BY <1>1, <1>6 DEF ReadUpTo
  <2>3. ~request'.headers =>
           /\ at' \in {"rest", "respond"} /\ at # "headers" /\ at # "rest"
           /\ k < hl
           /\ request'.length = IF k >= 3 THEN q.length ELSE 0
           /\ q.bad => k = hl - 1
           /\ q.bad
    BY <1>1, <1>5, <1>6 DEF ReadUpTo
  <2> HIDE DEF hl, ml, q, n
  <2>4. QED BY <1>1, <2>1, <2>2, <2>3, ReadUpToNext
<1>8. Remains' = Remains
  BY <1>1, MessagesStay DEF Remains
<1>9. Live /\ request.n # Len(asked) => Answering /\ k = Remains
  BY <1>3 DEF WithinAt
<1>10. QED BY <1>1, <1>3, <1>5, <1>6, <1>7, <1>8, <1>9, WithinNext

\* The handlers that read the body.
LEMMA UpBody ==
  ASSUME Control, Within, request.n \in 1..Len(asked), UNCHANGED clientVars, ReadFile \/ ReadForm
  PROVE  Within'
<1> DEFINE n == request.n
           q == asked[n]
           hl == HeadLen(n)
           ml == MessageLen(n)
<1>1. /\ UNCHANGED <<asked, clientEnd, broken, cat>> /\ request'.n = n /\ request \in AnyServed
      /\ at = "body" /\ request.headers /\ ~request.body /\ request.length > 0 /\ request.length \in Nat
      /\ AskedTypes /\ up \in Seq(AnyItem) /\ Len(up) \in Nat
  BY LenProperties DEF ReadFile, ReadForm, Control, ServerTypes, ConnTypes, AnyServed, RequestControl, clientVars
<1>2. PICK k \in 1..ml : \E m \in k..ml : WithinAt(k, m)
  BY DEF Within
<1>3. PICK m \in k..ml : WithinAt(k, m)
  BY <1>2
<1>4. /\ hl \in Nat /\ ml \in Nat
  BY <1>1, MessageFacts
<1>5. /\ k \in Nat /\ m \in Nat /\ hl <= k /\ request.length = ml - k /\ m <= ml /\ k <= m
      /\ Part(up, n, k, m) /\ Len(up) = m - k
      /\ ~(Live /\ n # Len(asked))
  BY <1>1, <1>3, <1>4 DEF WithinAt, ReadUpTo, Answering, Part
<1>6. CASE ReadFile
  <2>1. /\ up # <<>> /\ up' = Tail(up) /\ request'.headers /\ request'.length = request.length - 1
        /\ request'.body = (request.length = 1) /\ at' \in {"body", "respond"}
    BY <1>1, <1>6 DEF ReadFile, AnyServed
  <2>2. Tail(up) = SubSeq(up, 1 + 1, Len(up)) /\ 1 \in 0..Len(up)
    <3>1. Len(up) \in Nat \ {0} /\ Tail(up) = SubSeq(up, 2, Len(up)) /\ 1 + 1 = 2
      BY <1>1, <2>1, TailFacts
    <3>2. QED BY <3>1
  <2>3. Part(up', n, k + 1, m) /\ k + 1 <= m
    <3>1. Len(up) >= 1
      BY <1>1, <2>2
    <3>2. Part(SubSeq(up, 1 + 1, Len(up)), n, k + 1, m)
      BY <1>1, <1>5, <2>2, PartRest
    <3>3. Len(up) = m - k
      BY <1>5
    <3>4. k + 1 <= m
      BY <1>5, <3>1, <3>3
    <3>5. QED BY <2>1, <2>2, <3>2, <3>4
  <2>4. k + 1 \in 1..ml /\ hl <= k + 1 /\ request'.length = ml - (k + 1) /\ (request'.body => k + 1 = ml)
    <3>1. k \in Nat /\ m \in Nat /\ hl <= k /\ request.length = ml - k /\ m <= ml /\ k + 1 <= m
      BY <1>5, <2>3
    <3>2. request'.length = request.length - 1 /\ (request'.body => request.length = 1)
      BY <2>1
    <3> HIDE DEF hl, ml, n
    <3>3. QED BY <1>4, <3>1, <3>2
  <2>5. ReadUpTo(k + 1)'
    <3>1. hl = HeadLen(request'.n) /\ ml = MessageLen(request'.n) /\ q = asked[request'.n]
      BY <1>1
    <3> HIDE DEF hl, ml, q, n
    <3>2. QED BY <1>1, <2>1, <2>4, <3>1, ReadUpToNext
  <2>6. Serves'
    BY <2>1 DEF Serves
  <2>7. QED BY <1>1, <1>3, <1>5, <2>3, <2>4, <2>5, <2>6, WithinNext
<1>7. CASE ReadForm
  <2>1. PICK j \in request.length..Len(up) : up' = SubSeq(up, j + 1, Len(up))
    BY <1>7 DEF ReadForm
  <2>2. request'.headers /\ request'.length = request.length /\ request'.body /\ at' = "lookup"
    BY <1>1, <1>7 DEF ReadForm, AnyServed
  <2>3. k + j = ml /\ j \in 0..Len(up) /\ m = ml
    BY <1>1, <1>4, <1>5
  <2>4. Part(up', n, ml, m)
    BY <1>1, <1>5, <2>1, <2>3, PartRest
  <2>5. ml \in 1..ml /\ hl <= ml
    BY <1>4, <1>5
  <2> PICK l : l = ml
    OBVIOUS
  <2>6. ReadUpTo(l)'
    <3>1. hl = HeadLen(request'.n) /\ ml = MessageLen(request'.n) /\ q = asked[request'.n]
      BY <1>1
    <3> HIDE DEF hl, ml, q, n
    <3>2. QED BY <1>1, <2>2, <2>5, <3>1, ReadUpToNext
  <2>7. Serves'
    BY <2>2 DEF Serves
  <2>8. l \in 1..MessageLen(request.n) /\ m >= l /\ Part(up', request.n, l, m)
    BY <2>3, <2>4, <2>5, <1>4
  <2>9. QED BY <1>1, <1>3, <1>5, <2>6, <2>7, <2>8, WithinNext
<1>8. QED BY <1>6, <1>7

\* The end of the response, with the next request there already.
LEMMA AheadConclude ==
  ASSUME Control, Ahead, request.n \in 1..Len(asked), UNCHANGED clientVars, Conclude, Serves'
  PROVE  Ahead'
<1>1. /\ response \in AnyResponse /\ request \in AnyServed /\ at = "finish"
      /\ UNCHANGED <<asked, clientEnd, broken, cat>> /\ up' = up
  BY DEF Conclude, Control, ServerTypes, clientVars
<1>2. response.status # 0 /\ ReadUpTo(Remains)
  BY DEF Ahead, Answering
<1>3. /\ response' = [response EXCEPT !.close = @ \/ ClosesForBody]
      /\ at' = "end" /\ request' = request
  BY <1>2 DEF Conclude, Hangup, Serves
<1>4. response'.status = response.status
  BY <1>1, <1>3 DEF AnyResponse
<1>5. request.headers
  BY <1>1, <1>2 DEF ReadUpTo
<1>6. PICK j \in request.n + 1 .. Said : Queued(up, j)
  BY <1>5 DEF Ahead
<1>7. Queued(up, j)' /\ j \in 1..Said' /\ j \in request'.n + 1 .. Said'
  <2>1. Queued(up, j)' /\ j \in 1..Said'
    BY <1>1, <1>6, QueuedStays
  <2>2. j \in request.n + 1 .. Said /\ Said' = Said
    BY <1>1 DEF Said
  <2>3. QED BY <1>3, <2>1, <2>2
<1> PICK l : l = Remains
  OBVIOUS
<1>8. l = Remains'
  BY <1>1, <1>3, MessagesStay DEF Remains
<1>9. ReadUpTo(l)'
  BY <1>1, <1>2, <1>3, <1>5, MessagesStay DEF ReadUpTo
<1>10. ReadUpTo(Remains)'
  BY <1>8, <1>9, ReadUpToRemains
<1>11. QED BY <1>3, <1>4, <1>2, <1>5, <1>7, <1>10 DEF Ahead, Answering

\* The connection is kept: all of the request has been read.
LEMMA UpEndResponse ==
  ASSUME Uploads, Asks, Within \/ Ahead, request.n \in 1..Len(asked), UNCHANGED clientVars, EndResponse,
         serverEnd' = "open"
  PROVE  Waits'
<1>1. /\ Control /\ at = "end" /\ UNCHANGED <<asked, clientEnd, broken, cat, answers>> /\ up' = up
      /\ serverEnd' # "closed" /\ AskedTypes
  BY DEF EndResponse, Control, clientVars, Uploads
<1>2. at' = "request" /\ ~response.close
  BY <1>1 DEF EndResponse, Hangup
<1>3. ~ClosesForBody /\ response.status # 0
  BY <1>1, <1>2 DEF Control, ResponseControl
<1>4. CASE Ahead
  <2>1. request.headers
    BY <1>1, <1>4 DEF Ahead, ReadUpTo
  <2>2. PICK j \in request.n + 1 .. Said : Queued(up, j)
    BY <1>4, <2>1 DEF Ahead
  <2>3. Queued(up, j)' /\ j \in 1..Said'
    BY <1>1, <2>2, QueuedStays
  <2>4. QED BY <1>2, <2>3 DEF Waits
<1>5. CASE Within
  <2> DEFINE n == request.n
             ml == MessageLen(n)
  <2>1. PICK k \in 1..ml : \E m \in k..ml : WithinAt(k, m)
    BY <1>5 DEF Within
  <2>2. PICK m \in k..ml : WithinAt(k, m)
    BY <2>1
  <2>3. ml \in Nat /\ HeadLen(n) \in Nat /\ ml = HeadLen(n) + asked[n].length /\ asked[n].length \in Nat
    BY <1>1, MessageFacts
  <2>4. /\ request.body => k = ml
        /\ ~request.body => request.length = ml - k
        /\ ~request.body => request.length <= 0
        /\ Part(up, n, k, m)
    BY <1>1, <1>3, <2>2 DEF WithinAt, ReadUpTo, ClosesForBody, Control, ServerTypes, AnyServed
  <2>5. k = ml /\ m = ml
    <3>1. ~request.body => ml - k <= 0
      BY <2>4
    <3>2. k \in 1..ml /\ m \in k..ml
      OBVIOUS
    <3> HIDE DEF ml
    <3>3. QED BY <2>3, <2>4, <3>1, <3>2
  <2>6. up = <<>>
    <3>1. up \in Seq(AnyItem) /\ Len(up) = m - k
      BY <2>4 DEF Part
    <3>2. Len(up) = 0
      BY <2>3, <2>5, <3>1
    <3>3. QED BY <3>1, <3>2, EmptySeq
  <2>7. Live => cat = "send" \/ (answers[Len(asked)] # 0 /\ cat # "upload")
    <3>1. CASE n = Len(asked)
      <4>1. answers[n] # 0
        BY <1>1, <1>3 DEF Uploads, Upload, Serves
      <4>2. Live => ml = Arrived
        BY <2>2, <2>5, <3>1 DEF WithinAt
      <4>3. cat = "upload" => asked[n].length > 0 /\ Arrived = HeadLen(n)
        BY <3>1 DEF Asks, Arrived
      <4>4. QED BY <2>3, <3>1, <4>1, <4>2, <4>3
    <3>2. CASE n # Len(asked)
      BY <2>2, <3>2 DEF WithinAt
    <3>3. QED BY <3>1, <3>2
  <2>8. QED BY <1>1, <1>2, <2>6, <2>7 DEF Waits, Live
<1>6. QED BY <1>4, <1>5

\* What is cut off at the end is cut off the rest, too.
LEMMA TailTake ==
  ASSUME NEW S, NEW w \in Seq(S), NEW k \in 2..Len(w)
  PROVE  /\ SubSeq(w, 1, k) # <<>> /\ SubSeq(w, 1, k)[1] = w[1]
         /\ k - 1 \in 1..Len(Tail(w)) /\ Tail(SubSeq(w, 1, k)) = SubSeq(Tail(w), 1, k - 1)
<1> DEFINE t == SubSeq(w, 1, k)
           n == Len(w)
           r == Tail(w)
           a == Tail(t)
           b == SubSeq(r, 1, k - 1)
<1>1. n \in Nat /\ k \in 0..n /\ k >= 2 /\ k <= n
  BY LenProperties
<1>2. t \in Seq(S) /\ Len(t) = k /\ \A i \in 1..k : t[i] = w[i]
  BY <1>1, TakeFacts
<1>3. w # <<>>
  BY <1>1, EmptySeq
<1>4. r \in Seq(S) /\ Len(r) = n - 1 /\ \A i \in 1..n - 1 : r[i] = w[1 + i]
  BY <1>3, TailFacts
<1> HIDE DEF t, n, r
<1>5. t # <<>>
  BY <1>1, <1>2, EmptySeq
<1>6. a \in Seq(S) /\ Len(a) = k - 1 /\ \A i \in 1..k - 1 : a[i] = t[1 + i]
  <2>1. /\ Tail(t) \in Seq(S) /\ Len(Tail(t)) = Len(t) - 1
        /\ \A i \in 1..Len(t) - 1 : Tail(t)[i] = t[1 + i]
    BY <1>2, <1>5, TailFacts
  <2>2. QED BY <1>2, <2>1
<1>7. k - 1 \in 0..Len(r) /\ k - 1 \in 1..Len(r) /\ k - 1 \in Nat
  BY <1>1, <1>4
<1>8. b \in Seq(S) /\ Len(b) = k - 1 /\ \A i \in 1..k - 1 : b[i] = r[i]
  BY <1>4, <1>7, TakeFacts
<1> HIDE DEF a, b
<1>9. \A i \in 1..k - 1 : a[i] = b[i]
  <2>1. \A i \in 1..k - 1 : 1 + i \in 1..k /\ i \in 1..n - 1
    BY <1>1
  <2>2. QED BY <2>1, <1>2, <1>4, <1>6, <1>8
<1>10. a = b
  <2>1. \A i \in 1..Len(a) : a[i] = b[i]
    BY <1>6, <1>9
  <2>2. QED BY <2>1, <1>6, <1>8, SeqEqual
<1>11. t[1] = w[1]
  <2>1. 1 \in 1..k
    BY <1>1
  <2>2. QED BY <2>1, <1>2
<1>12. QED BY <1>5, <1>7, <1>10, <1>11 DEF t, n, r, a, b

\* What is left of a request when the connection is lost.
LEMMA QueuedTake ==
  ASSUME Control, asked' = asked, cat' = cat, ~Live', NEW w, NEW j, Queued(w, j), NEW k \in 1..Len(w)
  PROVE  /\ up' = SubSeq(w, 1, k) => Queued(up, j)'
         /\ Tail(up') = SubSeq(w, 1, k) => Queued(Tail(up), j)'
         /\ j \in 1..Said'
<1>1. PICK m \in 1..MessageLen(j) : Part(w, j, 0, m)
  BY DEF Queued
<1>2. Said' = Said /\ j \in 1..Said
  BY DEF Said, Queued
<1>3. j \in 1..Len(asked)
  <2>1. Said <= Len(asked) /\ Len(asked) \in Nat /\ Said \in Nat
    BY SaidFacts
  <2>2. QED BY <1>2, <2>1
<1>4. w \in Seq(AnyItem) /\ Len(w) = m - 0 /\ m <= MessageLen(j) /\ MessageLen(j) \in Nat
  BY <1>1, <1>3, MessageFacts DEF Part, Control
<1>5. k \in 0..Len(w) /\ k \in 1..MessageLen(j)
  BY <1>4
<1>6. Part(SubSeq(w, 1, k), j, 0, 0 + k) /\ 0 + k = k
  BY <1>1, <1>3, <1>5, PartTake DEF Control
<1>7. QED BY <1>2, <1>5, <1>6, QueuedNext

\* The network takes some of it away, and both ends will stop.
LEMMA UpBreaks ==
  ASSUME Control, UpFramed, NetworkStep
  PROVE  UpFramed'
<1>1. /\ UNCHANGED <<asked, clientEnd, serverEnd, cat, at, request, response, script, err, answers>>
      /\ ~Live' /\ up \in Seq(AnyItem) /\ Len(up) \in Nat /\ AskedTypes
  BY LenProperties DEF NetworkStep, Breaks, Live, Control, ConnTypes, serverVars, clientVars
<1>2. PICK k \in 0..Len(up) : up' = SubSeq(up, 1, k)
  BY DEF NetworkStep, Breaks
<1>3. up' \in Seq(AnyItem) /\ Len(up') = k /\ (up' = <<>> <=> k = 0)
  <2>1. up' \in Seq(AnyItem) /\ Len(up') = k
    BY <1>1, <1>2, TakeFacts
  <2>2. QED BY <2>1, EmptySeq
<1>4. (Serves => request.n > 0)' /\ (Serves => request.n \in 1..Len(asked))
  BY <1>1, ServedAsked DEF UpFramed, Serves
<1>5. CASE k = 0
  BY <1>1, <1>3, <1>4, <1>5 DEF UpFramed, Dead
<1>6. CASE k # 0 /\ serverEnd = "open"
  <2>1. k \in 1..Len(up)
    BY <1>6
  <2>2. ASSUME Doomed PROVE Doomed'
    BY <1>1, <2>2 DEF Doomed, ClosesForBody
  <2>3. ASSUME Dead PROVE FALSE
    BY <2>1, <2>3, EmptySeq DEF Dead
  <2>4. ASSUME Waits PROVE Waits'
    <3>1. PICK j \in 1..Said : Queued(up, j)
      BY <2>1, <2>4, EmptySeq DEF Waits
    <3>2. QED BY <1>1, <1>2, <2>1, <2>4, <3>1, QueuedTake DEF Waits
  <2>5. ASSUME Within PROVE Within'
    <3>1. PICK l \in 1..MessageLen(request.n) : \E m \in l..MessageLen(request.n) : WithinAt(l, m)
      BY <2>5 DEF Within
    <3>2. PICK m \in l..MessageLen(request.n) : WithinAt(l, m)
      BY <3>1
    <3>3. Serves /\ Serves' /\ request.n \in 1..Len(asked) /\ MessageLen(request.n) \in Nat
      BY <1>1, <1>4, <2>5, MessageFacts DEF Within, Serves
    <3>4. Part(up, request.n, l, m) /\ ReadUpTo(l) /\ Len(up) = m - l /\ m <= MessageLen(request.n)
      BY <3>2, <3>3 DEF WithinAt, Part
    <3>5. Part(up', request.n, l, l + k)
      BY <1>1, <1>2, <3>3, <3>4, PartTake
    <3>6. l + k \in l..MessageLen(request.n)
      BY <2>1, <3>3, <3>4
    <3>7. ReadUpTo(l)'
      BY <1>1, <3>4, MessagesStay DEF ReadUpTo
    <3>8. Part(up, request.n, l, l + k)'
      BY <1>1, <3>5, MessagesStay
    <3>9. WithinAt(l, l + k)'
      BY <1>1, <3>7, <3>8 DEF WithinAt
    <3>10. MessageLen(request.n)' = MessageLen(request.n)
      BY <1>1, MessagesStay
    <3>11. l \in 1..MessageLen(request.n)' /\ l + k \in l..MessageLen(request.n)'
      BY <3>6, <3>10
    <3>12. QED BY <3>3, <3>9, <3>11 DEF Within
  <2>6. ASSUME Ahead PROVE Ahead' \/ Within'
    <3>1. Serves /\ Serves' /\ request.n \in 1..Len(asked) /\ ReadUpTo(Remains) /\ Answering'
      BY <1>1, <1>4, <2>6 DEF Ahead, Serves, Answering
    <3>2. Said' = Said /\ Remains' = Remains /\ (Remains = MessageLen(request.n) - (IF request.headers THEN 0 ELSE 1))
      BY <1>1, MessagesStay DEF Said, Remains
    <3> PICK l : l = Remains
      OBVIOUS
    <3>3. ReadUpTo(l)' /\ l = Remains'
      BY <1>1, <3>1, <3>2, MessagesStay DEF ReadUpTo
    <3>4. ReadUpTo(Remains)'
      BY <3>3, ReadUpToRemains
    <3>5. PICK j \in request.n + 1 .. Said :
             \/ request.headers /\ Queued(up, j)
             \/ /\ ~request.headers /\ up # <<>>
                /\ up[1] = Message(request.n)[MessageLen(request.n)]
                /\ Queued(Tail(up), j)
      BY <2>6 DEF Ahead
    <3>6. CASE request.headers /\ Queued(up, j)
      <4>1. Queued(up, j)'
        BY <1>1, <1>2, <2>1, <3>6, QueuedTake
      <4>2. QED BY <1>1, <3>1, <3>2, <3>4, <3>6, <4>1 DEF Ahead
    <3>7. CASE ~request.headers /\ up[1] = Message(request.n)[MessageLen(request.n)] /\ Queued(Tail(up), j)
      <4>1. CASE k = 1
        <5> DEFINE ml == MessageLen(request.n)
        <5>1. ml \in Nat /\ l = ml - 1 /\ l \in 1..ml /\ HeadLen(request.n) >= 3 /\ HeadLen(request.n) \in Nat
          BY <1>1, <3>1, <3>2, <3>7, MessageFacts DEF ReadUpTo
        <5>2. Part(up', request.n, l, ml)
          <6>1. up'[1] = up[1]
            <7>1. 1 \in 1..k
              BY <4>1
            <7>2. QED BY <1>1, <1>2, <7>1, TakeFacts
          <6> HIDE DEF ml
          <6>2. \A x \in 1..ml - l : x = 1 /\ l + x = ml
            BY <5>1
          <6>3. up'[1] = Message(request.n)[ml]
            BY <3>7, <6>1 DEF ml
          <6>4. \A x \in 1..ml - l : up'[x] = Message(request.n)[l + x]
            BY <6>2, <6>3
          <6>5. Len(up') = ml - l /\ l <= ml /\ l \in Nat
            BY <1>3, <4>1, <5>1
          <6>6. ml <= MessageLen(request.n)
            BY <5>1 DEF ml
          <6>7. QED BY <1>3, <5>1, <6>4, <6>5, <6>6 DEF Part
        <5> PICK x : x = ml
          OBVIOUS
        <5>3. Part(up, request.n, l, x)'
          BY <1>1, <5>2, MessagesStay
        <5>4. WithinAt(l, x)'
          BY <1>1, <3>3, <5>3 DEF WithinAt
        <5>5. MessageLen(request.n)' = ml
          BY <1>1, MessagesStay
        <5>6. l \in 1..MessageLen(request.n)' /\ x \in l..MessageLen(request.n)'
          BY <5>1, <5>5
        <5>7. QED BY <3>1, <5>4, <5>6 DEF Within
      <4>2. CASE k # 1
        <5>1. k \in 2..Len(up)
          BY <2>1, <4>2
        <5>2. /\ up' # <<>> /\ up'[1] = up[1] /\ k - 1 \in 1..Len(Tail(up))
              /\ Tail(up') = SubSeq(Tail(up), 1, k - 1)
          BY <1>1, <1>2, <5>1, TailTake
        <5>3. Queued(Tail(up), j)'
          BY <1>1, <3>7, <5>2, QueuedTake
        <5>4. Message(request.n)' = Message(request.n) /\ MessageLen(request.n)' = MessageLen(request.n)
          BY <1>1, MessagesStay
        <5>5. QED BY <1>1, <3>1, <3>2, <3>4, <3>7, <5>2, <5>3, <5>4 DEF Ahead
      <4>3. QED BY <4>1, <4>2
    <3>8. QED BY <3>5, <3>6, <3>7
  <2>7. QED BY <1>4, <1>6, <2>2, <2>3, <2>4, <2>5, <2>6 DEF UpFramed
<1>7. CASE serverEnd # "open"
  BY <1>1, <1>4, <1>7 DEF UpFramed
<1>8. QED BY <1>5, <1>6, <1>7

\* What is added at the end is added to the rest, too.
LEMMA TailJoin ==
  ASSUME NEW S, NEW w \in Seq(S), NEW x \in Seq(S), w # <<>>
  PROVE  w \o x # <<>> /\ (w \o x)[1] = w[1] /\ Tail(w \o x) = Tail(w) \o x
<1> DEFINE t == w \o x
           n == Len(w)
           l == Len(x)
           r == Tail(w)
           a == Tail(t)
           b == r \o x
<1>1. n \in Nat \ {0} /\ l \in Nat /\ r \in Seq(S) /\ Len(r) = n - 1 /\ \A i \in 1..n - 1 : r[i] = w[1 + i]
  BY LenProperties, TailFacts
<1>2. /\ t \in Seq(S) /\ Len(t) = n + l /\ \A i \in 1..n : t[i] = w[i]
      /\ \A i \in 1..l : t[n + i] = x[i]
  BY JoinFacts
<1> HIDE DEF t, r
<1>3. /\ b \in Seq(S) /\ Len(b) = (n - 1) + l /\ \A i \in 1..n - 1 : b[i] = r[i]
      /\ \A i \in 1..l : b[(n - 1) + i] = x[i]
  <2>0. r \in Seq(S) /\ x \in Seq(S)
    BY <1>1
  <2>1. /\ b \in Seq(S) /\ Len(b) = Len(r) + l /\ \A i \in 1..Len(r) : b[i] = r[i]
        /\ \A i \in 1..l : b[Len(r) + i] = x[i]
    BY <2>0, JoinFacts
  <2>2. Len(r) = n - 1
    BY <1>1
  <2> HIDE DEF b, l, n
  <2>3. QED BY <2>1, <2>2
<1> HIDE DEF n, l
<1>4. t # <<>>
  BY <1>1, <1>2, EmptySeq
<1>5. a \in Seq(S) /\ Len(a) = (n + l) - 1 /\ \A i \in 1..(n + l) - 1 : a[i] = t[1 + i]
  BY <1>2, <1>4, TailFacts
<1> HIDE DEF a, b
<1>6. ASSUME NEW i \in 1..(n + l) - 1 PROVE a[i] = b[i]
  <2>1. CASE i <= n - 1
    <3>1. i \in 1..n - 1 /\ 1 + i \in 1..n
      BY <2>1, <1>1
    <3>2. QED BY <3>1, <1>1, <1>2, <1>3, <1>5
  <2>2. CASE i > n - 1
    <3>1. PICK z \in Int : z = i - (n - 1)
      BY <1>1
    <3>2. z \in 1..l /\ 1 + i = n + z /\ i = (n - 1) + z
      BY <3>1, <2>2, <1>1
    <3>3. a[i] = t[n + z]
      BY <3>2, <1>5
    <3>4. QED BY <3>2, <3>3, <1>2, <1>3
  <2>3. QED BY <2>1, <2>2, <1>1
<1>7. a = b
  <2>1. Len(a) = Len(b)
    BY <1>1, <1>3, <1>5
  <2>2. \A i \in 1..Len(a) : a[i] = b[i]
    BY <1>5, <1>6
  <2>3. QED BY <2>1, <2>2, <1>3, <1>5, SeqEqual
<1>8. t[1] = w[1]
  BY <1>1, <1>2
<1>9. QED BY <1>4, <1>7, <1>8 DEF t, r, a, b

\* How far the client has come with what it writes.
LEMMA AddsFacts ==
  ASSUME Control, NEW X, NEW k, NEW m, Adds(X, k, m)
  PROVE  /\ Live /\ Len(asked) \in 1..Len(asked) /\ Len(asked) \in Nat /\ AskedTypes
         /\ UNCHANGED <<asked, serverEnd, at, request, response, script, err, answers>>
         /\ Part(X, Len(asked), k, m) /\ k = (IF cat = "send" THEN 0 ELSE Arrived)
         /\ up \in Seq(AnyItem) /\ X \in Seq(AnyItem) /\ up' = up \o X
         /\ cat \in {"send", "upload"} /\ cat' \notin {"connect", "send"} /\ Said' = Len(asked)
         /\ Live' => m = (IF cat' = "upload" THEN HeadLen(Len(asked)) ELSE MessageLen(Len(asked))) /\ m >= 3
         /\ MessageLen(Len(asked)) \in Nat /\ m \in Nat /\ m <= MessageLen(Len(asked)) /\ k \in Nat
<1> DEFINE n == Len(asked)
<1>1. /\ Live /\ n \in 1..n /\ AskedTypes /\ Part(X, n, k, m) /\ k = (IF cat = "send" THEN 0 ELSE Arrived)
      /\ UNCHANGED <<asked, serverEnd, at, request, response, script, err, answers, broken>>
      /\ cat \in {"send", "upload"} /\ up \in Seq(AnyItem) /\ X \in Seq(AnyItem) /\ up' = up \o X
  BY DEF Adds, Control, ClientControl, Live, Arrived, Part, serverVars, ConnTypes, Client!SendHead,
     Client!SendBody, Client!Dies
<1>2. /\ MessageLen(n) \in Nat /\ HeadLen(n) \in Nat /\ HeadLen(n) >= 3
      /\ MessageLen(n) = HeadLen(n) + asked[n].length /\ asked[n].length \in Nat
  BY <1>1, MessageFacts
<1>3. m \in Nat /\ k \in Nat /\ m <= MessageLen(n)
  BY <1>1 DEF Part
<1>4. CASE cat = "send" /\ Client!SendHead /\ m = HeadLen(n)
  <2>1. cat' = IF asked[n].length > 0 THEN "upload" ELSE "status"
    BY <1>4, ClientText DEF Client!SendHead
  <2>2. QED BY <1>1, <1>2, <1>3, <1>4, <2>1 DEF Said
<1>5. CASE cat = "upload" /\ Client!SendBody /\ m = MessageLen(n)
  <2>1. cat' = "status"
    BY <1>5 DEF Client!SendBody
  <2>2. QED BY <1>1, <1>2, <1>3, <1>5, <2>1 DEF Said
<1>6. CASE cat' = "dead" /\ clientEnd' = "closed"
  BY <1>1, <1>2, <1>3, <1>6 DEF Said, Live
<1>7. QED BY <1>4, <1>5, <1>6 DEF Adds

\* A request that is under way to the server grows.
LEMMA QueuedAdd ==
  ASSUME Control, NEW X, NEW k, NEW m, Adds(X, k, m), NEW w, NEW j, Queued(w, j)
  PROVE  /\ up' = w \o X => Queued(up, j)'
         /\ Tail(up') = w \o X => Queued(Tail(up), j)'
         /\ j = Len(asked) /\ j \in 1..Said' /\ Said' = Said
<1> DEFINE n == Len(asked)
<1>1. /\ Live /\ n \in Nat /\ asked' = asked /\ Part(X, n, k, m) /\ k = (IF cat = "send" THEN 0 ELSE Arrived)
      /\ cat \in {"send", "upload"} /\ cat' \notin {"connect", "send"} /\ Said' = n
      /\ Live' => m = (IF cat' = "upload" THEN HeadLen(n) ELSE MessageLen(n))
      /\ m \in Nat /\ m <= MessageLen(n) /\ MessageLen(n) \in Nat
  BY AddsFacts
<1>2. PICK l \in 1..MessageLen(j) : Part(w, j, 0, l) /\ j = n /\ l = Arrived
  BY <1>1 DEF Queued
<1>3. j \in 1..Said
  BY DEF Queued
<1>4. cat = "upload" /\ Said = n
  <2>1. cat = "send" => Said = n - 1
    BY DEF Said
  <2>2. cat = "upload" => Said = n
    BY DEF Said
  <2>3. n \in 1..Said
    BY <1>2, <1>3
  <2> HIDE DEF n
  <2>4. cat # "send"
    BY <1>1, <2>1, <2>3
  <2>5. QED BY <1>1, <2>2, <2>4
<1>5. Part(w \o X, j, 0, m)
  BY <1>1, <1>2, <1>4, PartJoin
<1>6. m \in 1..MessageLen(j)
  <2>1. l <= m /\ l \in 1..MessageLen(j)
    BY <1>1, <1>2, <1>4 DEF Part
  <2>2. QED BY <2>1, <1>1, <1>2
<1>7. j \in 1..Said'
  BY <1>1, <1>3, <1>4
<1>8. QED BY <1>1, <1>2, <1>4, <1>5, <1>6, <1>7, QueuedNext

\* The client sends more of its last request.
LEMMA UpAdds ==
  ASSUME Uploads, UpFramed, NEW X, NEW k, NEW m, Adds(X, k, m)
  PROVE  UpFramed'
<1> DEFINE n == Len(asked)
           s == request.n
<1>1. /\ Live /\ n \in 1..n /\ n \in Nat /\ AskedTypes /\ Control
      /\ UNCHANGED <<asked, serverEnd, at, request, response, script, err, answers>>
      /\ Part(X, n, k, m) /\ k = (IF cat = "send" THEN 0 ELSE Arrived)
      /\ up \in Seq(AnyItem) /\ X \in Seq(AnyItem) /\ up' = up \o X
      /\ cat \in {"send", "upload"} /\ cat' \notin {"connect", "send"} /\ Said' = n
      /\ Live' => m = (IF cat' = "upload" THEN HeadLen(n) ELSE MessageLen(n)) /\ m >= 3
      /\ MessageLen(n) \in Nat /\ m \in Nat /\ m <= MessageLen(n) /\ k \in Nat
  BY AddsFacts DEF Uploads
<1>2. Arrived' = IF cat' = "upload" THEN HeadLen(n) ELSE MessageLen(n)
  BY <1>1, MessagesStay DEF Arrived
<1>3. (Serves => s > 0)' /\ (Serves => s \in 1..Len(asked))
  BY <1>1, ServedAsked DEF UpFramed, Serves
<1>4. ASSUME cat = "send", X # <<>>
      PROVE  /\ up' = X => Queued(up, n)'
             /\ Tail(up') = X => Queued(Tail(up), n)'
  <2>1. k = 0 /\ m \in 1..MessageLen(n)
    <3>1. Len(X) = m - 0 /\ k = 0
      BY <1>1, <1>4 DEF Part
    <3>2. Len(X) # 0
      BY <1>1, <1>4, EmptySeq
    <3>3. QED BY <1>1, <3>1, <3>2
  <2>2. QED BY <1>1, <2>1, QueuedNext
<1>5. CASE serverEnd = "open"
  <2>1. ASSUME Doomed PROVE Doomed'
    BY <1>1, <2>1 DEF Doomed, ClosesForBody
  <2>2. ~Dead
    BY <1>1 DEF Dead
  <2>3. ASSUME Waits PROVE Waits' \/ Dead'
    <3>1. CASE up = <<>>
      <4>1. cat = "send"
        BY <1>1, <2>3, <3>1, EmptySeq DEF Waits, Queued, Part
      <4>2. up' = X
        BY <1>1, <3>1, ConcatEmptySeq
      <4>3. CASE X = <<>>
        <5>1. Len(X) = m - 0
          BY <1>1, <4>1 DEF Part
        <5>2. m = 0
          BY <1>1, <4>3, <5>1, EmptySeq
        <5>3. QED BY <1>1, <4>2, <4>3, <5>2 DEF Dead
      <4>4. CASE X # <<>>
        BY <1>1, <1>4, <2>3, <4>1, <4>2, <4>4 DEF Waits
      <4>5. QED BY <4>3, <4>4
    <3>2. CASE \E j \in 1..Said : Queued(up, j)
      <4>1. PICK j \in 1..Said : Queued(up, j)
        BY <3>2
      <4>2. Queued(up, j)' /\ j \in 1..Said'
        BY <1>1, <4>1, QueuedAdd
      <4>3. QED BY <1>1, <2>3, <4>2 DEF Waits
    <3>3. QED BY <2>3, <3>1, <3>2 DEF Waits
  <2>4. ASSUME Within PROVE Within' \/ Ahead'
    <3>1. PICK l \in 1..MessageLen(s) : \E o \in l..MessageLen(s) : WithinAt(l, o)
      BY <2>4 DEF Within
    <3>2. PICK o \in l..MessageLen(s) : WithinAt(l, o)
      BY <3>1
    <3>3. Serves /\ Serves' /\ s \in 1..n /\ MessageLen(s) \in Nat
      BY <1>1, <1>3, <2>4, MessageFacts DEF Within, Serves
    <3>4. ReadUpTo(l)'
      BY <1>1, <3>2, MessagesStay DEF ReadUpTo, WithinAt
    <3>5. MessageLen(s)' = MessageLen(s) /\ Message(s)' = Message(s) /\ Remains' = Remains
      BY <1>1, MessagesStay DEF Remains
    <3>6. CASE s = n
      <4>1. cat = "upload" /\ o = k /\ Part(up, n, l, o)
        BY <1>1, <3>2, <3>6 DEF WithinAt
      <4>2. Part(up', s, l, m) /\ o <= m
        <5>1. Part(up, n, l, k) /\ Part(X, n, k, m)
          BY <1>1, <4>1
        <5>2. Part(up \o X, n, l, m)
          BY <5>1, PartJoin
        <5>3. o <= m
          BY <4>1, <5>1 DEF Part
        <5>4. QED BY <1>1, <3>6, <5>2, <5>3
      <4>3. Part(up, s, l, m)'
        BY <1>1, <4>2, MessagesStay
      <4>4. WithinAt(l, m)'
        BY <1>1, <1>2, <3>4, <3>6, <4>3 DEF WithinAt
      <4>5. m \in l..MessageLen(s)
        BY <1>1, <3>3, <3>6, <4>2
      <4>6. QED BY <3>3, <3>5, <4>4, <4>5 DEF Within
    <3>7. CASE s # n
      <4>1. /\ cat = "send" /\ Answering /\ l = Remains /\ o = MessageLen(s) /\ Part(up, s, l, o)
        BY <1>1, <3>2, <3>7 DEF WithinAt
      <4>2. CASE X = <<>>
        <5>1. up' = up
          BY <1>1, <4>2, ConcatEmptySeq
        <5>2. Len(X) = m - 0
          BY <1>1, <4>1 DEF Part
        <5>3. m = 0
          BY <1>1, <4>2, <5>2, EmptySeq
        <5>4. Part(up, s, l, o)'
          BY <1>1, <4>1, <5>1, MessagesStay
        <5>5. WithinAt(l, o)'
          BY <1>1, <3>4, <5>3, <5>4 DEF WithinAt
        <5>6. QED BY <3>3, <3>5, <5>5 DEF Within
      <4>3. CASE X # <<>>
        <5>1. ReadUpTo(Remains)'
          BY <3>4, <3>5, <4>1, ReadUpToRemains
        <5>2. Answering'
          BY <1>1, <4>1 DEF Answering
        <5>3. n \in s + 1 .. Said'
          BY <1>1, <3>3, <3>7
        <5> DEFINE ml == MessageLen(s)
        <5>4. /\ l = ml - (IF request.headers THEN 0 ELSE 1) /\ Len(up) = ml - l /\ ml \in Nat /\ l \in Nat
              /\ \A x \in 1..ml - l : up[x] = Message(s)[l + x]
          BY <3>3, <4>1 DEF Remains, Part
        <5>5. CASE request.headers
          <6>1. Len(up) = 0
            BY <5>4, <5>5
          <6>2. up' = X
            BY <1>1, <6>1, EmptySeq, ConcatEmptySeq
          <6>3. QED BY <1>1, <1>4, <4>1, <4>3, <5>1, <5>2, <5>3, <5>5, <6>2 DEF Ahead
        <5>6. CASE ~request.headers
          <6> HIDE DEF ml
          <6>1. Len(up) = 1 /\ l = ml - 1
            BY <5>4, <5>6
          <6>2. up[1] = Message(s)[ml]
            <7>1. 1 \in 1..ml - l /\ l + 1 = ml
              BY <5>4, <6>1
            <7>2. QED BY <5>4, <7>1
          <6>3. up # <<>>
            <7>1. Len(up) # 0 /\ up \in Seq(AnyItem)
              BY <1>1, <6>1
            <7>2. QED BY <7>1, EmptySeq
          <6>4. /\ up' # <<>> /\ up'[1] = up[1] /\ Tail(up') = Tail(up) \o X
            BY <1>1, <6>3, TailJoin
          <6>5. Tail(up) = <<>>
            <7>1. Tail(up) \in Seq(AnyItem) /\ Len(Tail(up)) = Len(up) - 1
              BY <1>1, <6>3, TailFacts
            <7>2. Len(Tail(up)) = 0
              BY <6>1, <7>1
            <7>3. QED BY <7>1, <7>2, EmptySeq
          <6>6. Tail(up') = X
            BY <1>1, <6>4, <6>5, ConcatEmptySeq
          <6>7. Queued(Tail(up), n)'
            BY <1>4, <4>1, <4>3, <6>6
          <6>8. up'[1] = Message(s)'[MessageLen(s)']
            BY <3>5, <6>2, <6>4 DEF ml
          <6>9. QED BY <1>1, <5>1, <5>2, <5>3, <5>6, <6>4, <6>7, <6>8 DEF Ahead
        <5>7. QED BY <5>5, <5>6
      <4>4. QED BY <4>2, <4>3
    <3>8. QED BY <3>6, <3>7
  <2>5. ASSUME Ahead PROVE Ahead'
    <3>1. Serves /\ s \in 1..Len(asked) /\ ReadUpTo(Remains) /\ Answering'
      BY <1>1, <1>3, <2>5 DEF Ahead, Serves, Answering
    <3>2. Remains' = Remains /\ Message(s)' = Message(s) /\ MessageLen(s)' = MessageLen(s)
      BY <1>1, MessagesStay DEF Remains
    <3> PICK l : l = Remains
      OBVIOUS
    <3>3. ReadUpTo(l)' /\ l = Remains'
      BY <1>1, <3>1, <3>2, MessagesStay DEF ReadUpTo
    <3>4. ReadUpTo(Remains)'
      BY <3>3, ReadUpToRemains
    <3>5. PICK j \in s + 1 .. Said :
             \/ request.headers /\ Queued(up, j)
             \/ /\ ~request.headers /\ up # <<>> /\ up[1] = Message(s)[MessageLen(s)]
                /\ Queued(Tail(up), j)
      BY <2>5 DEF Ahead
    <3>6. CASE request.headers /\ Queued(up, j)
      <4>1. Queued(up, j)' /\ Said' = Said
        BY <1>1, <3>6, QueuedAdd
      <4>2. QED BY <1>1, <3>1, <3>4, <3>6, <4>1 DEF Ahead
    <3>7. CASE /\ ~request.headers /\ up # <<>> /\ up[1] = Message(s)[MessageLen(s)] /\ Queued(Tail(up), j)
      <4>1. up' # <<>> /\ up'[1] = up[1] /\ Tail(up') = Tail(up) \o X
        BY <1>1, <3>7, TailJoin
      <4>2. Queued(Tail(up), j)' /\ Said' = Said
        BY <1>1, <3>7, <4>1, QueuedAdd
      <4>3. QED BY <1>1, <3>1, <3>2, <3>4, <3>7, <4>1, <4>2 DEF Ahead
    <3>8. QED BY <3>5, <3>6, <3>7
  <2>6. QED BY <1>3, <1>5, <2>1, <2>2, <2>3, <2>4, <2>5 DEF UpFramed
<1>6. CASE serverEnd # "open"
  BY <1>1, <1>3, <1>6 DEF UpFramed
<1>7. QED BY <1>5, <1>6

\* The server does nothing, and nothing is written to it; what the client knows is the same.
LEMMA UpSame ==
  ASSUME Control, UpFramed, Said <= Said', Said' \in Nat,
         UNCHANGED <<asked, up, serverEnd, at, request, response, script, err, answers>>,
         Live' => /\ Live /\ Arrived' = Arrived /\ (cat' = "send" <=> cat = "send")
                  /\ cat # "upload" => cat' # "upload"
  PROVE  UpFramed'
<1> DEFINE s == request.n
<1>1. (Serves => s > 0)' /\ (Serves => s \in 1..Len(asked)) /\ Said \in Nat
  BY ServedAsked, SaidFacts DEF UpFramed, Serves
<1>2. ASSUME NEW w, NEW j, Queued(w, j)
      PROVE  /\ up' = w => Queued(up, j)'
             /\ Tail(up') = w => Queued(Tail(up), j)'
             /\ j \in 1..Said'
  <2>1. PICK m \in 1..MessageLen(j) : Part(w, j, 0, m) /\ (Live => j = Len(asked) /\ m = Arrived)
    BY <1>2 DEF Queued
  <2>2. j \in 1..Said'
    <3>1. j \in 1..Said
      BY <1>2 DEF Queued
    <3>2. QED BY <3>1, <1>1
  <2>3. Live' => j = Len(asked) /\ m = IF cat' = "upload" THEN HeadLen(j) ELSE MessageLen(j)
    <3>1. Live' => m = Arrived'
      BY <2>1
    <3>2. Arrived' = IF cat' = "upload" THEN HeadLen(Len(asked)) ELSE MessageLen(Len(asked))
      BY MessagesStay DEF Arrived
    <3>3. QED BY <2>1, <3>1, <3>2
  <2>4. QED BY <2>1, <2>2, <2>3, QueuedNext
<1>3. ASSUME Dead PROVE Dead'
  BY <1>3 DEF Dead
<1>4. ASSUME Doomed PROVE Doomed'
  BY <1>4 DEF Doomed, ClosesForBody
<1>5. ASSUME Waits PROVE Waits'
  BY <1>2, <1>5 DEF Waits
<1>6. Remains' = Remains /\ Message(s)' = Message(s) /\ MessageLen(s)' = MessageLen(s)
  BY MessagesStay DEF Remains
<1>7. ASSUME Within PROVE Within'
  <2>1. PICK l \in 1..MessageLen(s) : \E o \in l..MessageLen(s) : WithinAt(l, o)
    BY <1>7 DEF Within
  <2>2. PICK o \in l..MessageLen(s) : WithinAt(l, o)
    BY <2>1
  <2>3. ReadUpTo(l)'
    BY <2>2, MessagesStay DEF ReadUpTo, WithinAt
  <2>4. Part(up, s, l, o)'
    BY <2>2, MessagesStay DEF WithinAt
  <2>5. Answering' <=> Answering
    BY DEF Answering
  <2>6. WithinAt(l, o)'
    BY <1>6, <2>2, <2>3, <2>4, <2>5 DEF WithinAt
  <2>7. QED BY <1>6, <1>7, <2>6 DEF Within, Serves
<1>8. ASSUME Ahead PROVE Ahead'
  <2>1. ReadUpTo(Remains) /\ Answering'
    BY <1>8 DEF Ahead, Answering
  <2> PICK l : l = Remains
    OBVIOUS
  <2>2. ReadUpTo(l)' /\ l = Remains'
    BY <2>1, <1>6, MessagesStay DEF ReadUpTo
  <2>3. ReadUpTo(Remains)'
    BY <2>2, ReadUpToRemains
  <2>4. PICK j \in s + 1 .. Said :
           \/ request.headers /\ Queued(up, j)
           \/ /\ ~request.headers /\ up # <<>> /\ up[1] = Message(s)[MessageLen(s)]
              /\ Queued(Tail(up), j)
    BY <1>8 DEF Ahead
  <2>5. j \in s + 1 .. Said'
    BY <1>1
  <2>6. CASE request.headers /\ Queued(up, j)
    BY <1>2, <2>1, <2>3, <2>5, <2>6 DEF Ahead
  <2>7. CASE /\ ~request.headers /\ up # <<>> /\ up[1] = Message(s)[MessageLen(s)] /\ Queued(Tail(up), j)
    BY <1>2, <1>6, <2>1, <2>3, <2>5, <2>7 DEF Ahead
  <2>8. QED BY <2>4, <2>6, <2>7
<1>9. QED BY <1>1, <1>3, <1>4, <1>5, <1>7, <1>8 DEF UpFramed

\* The client sends nothing: it reads, or gives up.
LEMMA UpClient ==
  ASSUME Control, UpFramed, [Next]_vars, Client!ClientSteps, UNCHANGED serverVars,
         ~Client!SendHead, ~Client!SendBody
  PROVE  UpFramed'
<1>1. UNCHANGED <<asked, up, serverEnd, at, request, response, script, err, answers, broken>>
  BY DEF Client!ClientSteps, Client!ConnectFails, Client!SendFails, Client!ReadStatus,
     Client!ReadHeader, Client!HeadersEof, Client!ReadSize, Client!ReadChunk, Client!ReadFooter,
     Client!ReadTrailer, Client!ReadBody, Client!ReadEof, Client!ReadFails, Client!TakeLine,
     Client!connVars, serverVars
<1>2. Said <= Said' /\ Said' \in Nat
  BY SaidGrows
<1>3. \A r : Client!BodyState(r) \in {"size", "length", "eof"}
  BY DEF Client!BodyState
<1>4. clientEnd' = "open" => clientEnd = "open" /\ cat \notin {"send", "upload"} /\ cat' \notin {"send", "upload"}
  <2>1. cat \notin {"idle", "connect", "dead"} => clientEnd = "open"
    BY DEF Control, ClientControl
  <2>2. QED BY <1>3, <2>1 DEF Client!ClientSteps, Client!ConnectFails, Client!SendFails, Client!ReadStatus,
       Client!ReadHeader, Client!HeadersEof, Client!ReadSize, Client!ReadChunk, Client!ReadFooter,
       Client!ReadTrailer, Client!ReadBody, Client!ReadEof, Client!ReadFails, Client!TakeLine,
       Client!connVars, Client!RequestReturns, Client!Returns, Client!Complete
<1>5. Live' => Live /\ cat \notin {"send", "upload"} /\ cat' \notin {"send", "upload"}
  BY <1>1, <1>4 DEF Live
<1>6. Live' => Arrived' = Arrived
  BY <1>1, <1>5, MessagesStay DEF Arrived
<1>7. QED BY <1>1, <1>2, <1>5, <1>6, UpSame

\* A call leaves the requests before it as they are.
LEMMA MessagesKept ==
  ASSUME AskedTypes, NEW q, q \in Requests[Len(asked) + 1], Len(asked) < MaxRequests,
         asked' = Append(asked, q)
  PROVE  /\ Len(asked)' = Len(asked) + 1 /\ Len(asked) \in Nat
         /\ \A i \in 1..Len(asked) : asked'[i] = asked[i]
         /\ \A i \in 1..Len(asked) :
              /\ HeadLen(i)' = HeadLen(i) /\ MessageLen(i)' = MessageLen(i) /\ Message(i)' = Message(i)
         /\ \A i \in 1..Len(asked) : \A k, m :
              /\ Part(up, i, k, m)' <=> Part(up', i, k, m)
              /\ Part(Tail(up), i, k, m)' <=> Part(Tail(up'), i, k, m)
         /\ request' = request /\ request.n \in 1..Len(asked) =>
              /\ HeadLen(request.n)' = HeadLen(request.n) /\ MessageLen(request.n)' = MessageLen(request.n)
              /\ Message(request.n)' = Message(request.n)
              /\ \A k, m : Part(up, request.n, k, m)' <=> Part(up', request.n, k, m)
<1>1. Len(asked) \in Nat /\ MaxRequests \in Nat /\ Len(asked) + 1 \in 1..MaxRequests
  BY LenProperties, SizesAssumption DEF AskedTypes
<1>2. q \in AnyRequest
  BY <1>1, RequestsAssumption
<1>3. Len(asked') = Len(asked) + 1 /\ \A i \in 1..Len(asked) : asked'[i] = asked[i]
  BY <1>2, AppendProperties DEF AskedTypes
<1>4. \A i \in 1..Len(asked) :
              /\ HeadLen(i)' = HeadLen(i) /\ MessageLen(i)' = MessageLen(i) /\ Message(i)' = Message(i)
  BY <1>3 DEF HeadLen, MessageLen, Message
<1>5. \A i \in 1..Len(asked) : \A k, m :
              /\ Part(up, i, k, m)' <=> Part(up', i, k, m)
              /\ Part(Tail(up), i, k, m)' <=> Part(Tail(up'), i, k, m)
  BY <1>4 DEF Part
<1>6. ASSUME request' = request, request.n \in 1..Len(asked)
      PROVE  /\ HeadLen(request.n)' = HeadLen(request.n) /\ MessageLen(request.n)' = MessageLen(request.n)
             /\ Message(request.n)' = Message(request.n)
  BY <1>3, <1>6 DEF HeadLen, MessageLen, Message
<1>7. ASSUME request' = request, request.n \in 1..Len(asked), NEW k, NEW m
      PROVE  Part(up, request.n, k, m)' <=> Part(up', request.n, k, m)
  BY <1>6, <1>7 DEF Part
<1>8. QED BY <1>1, <1>3, <1>4, <1>5, <1>6, <1>7

\* A client that is done knows that the server is, too, but for the end of the headers.
LEMMA Idle ==
  ASSUME Uploads, cat = "idle", serverEnd = "open", Matches(Now)
  PROVE  /\ at = "request" => answers[Len(asked)] # 0
         /\ Serves => /\ request.n = Len(asked) /\ Answering
                      /\ response.headers /\ ~response.chunked
                      /\ request.handler = "static" /\ asked[request.n].method = "GET"
<1>1. Now.cat = "idle" /\ Waiting.cat = "status"
  BY DEF Now, Waiting, Reader
<1>2. at = "request" => answers[Len(asked)] # 0
  BY <1>1 DEF Matches, Wrote
<1>3. ASSUME Serves
      PROVE  /\ request.n = Len(asked) /\ Answering
             /\ response.headers /\ ~response.chunked
             /\ request.handler = "static" /\ asked[request.n].method = "GET"
  <2>1. request.n = Len(asked)
    <3>1. ~(request.n < Len(asked))
      BY <1>1, <1>3 DEF Matches, Wrote
    <3>2. QED BY <3>1, ServedAsked DEF Uploads
  <2>2. err >= 0
    <3>1. err \in {-1, 0} \cup Statuses
      BY DEF Uploads, Control, ServerTypes
    <3>2. ~(err < 0)
      BY <1>1, <1>3, <2>1 DEF Matches, Wrote
    <3>3. QED BY <3>1, <3>2 DEF Statuses
  <2>3. /\ response.status # 0 /\ response.headers /\ ~response.chunked /\ script = <<>>
        /\ request.handler = "static"
    BY <1>1, <1>3, <2>1, <2>2 DEF Matches, Wrote
  <2>4. at \in {"rest", "finish", "end"}
    <3>1. at \in States /\ at \notin {"respond", "error", "headers", "handle", "body", "lookup"}
      BY <2>3 DEF Uploads, Control, ServerTypes, ScriptControl, ResponseControl
    <3>2. QED BY <3>1, <1>3 DEF States, Serves
  <2>5. asked[request.n].method = "GET"
    BY <2>3 DEF Uploads, Control, RequestControl
  <2>6. QED BY <2>1, <2>3, <2>4, <2>5 DEF Answering
<1>4. QED BY <1>2, <1>3

\* A new request begins behind a response that the client has read to its end.
LEMMA UpCall ==
  ASSUME Uploads, UpFramed, [Next]_vars, Live /\ serverEnd = "open" => Matches(Now),
         NEW q \in Requests[Len(asked) + 1], Len(asked) < MaxRequests, Call(q)
  PROVE  UpFramed'
<1> DEFINE s == request.n
           n == Len(asked)
<1>1. /\ Control /\ UNCHANGED <<up, clientEnd, serverEnd, broken, at, request, response, script, err, answers>>
      /\ asked' = Append(asked, q) /\ AskedTypes /\ cat = "idle"
      /\ cat' = IF clientEnd = "open" THEN "send" ELSE "connect"
      /\ up \in Seq(AnyItem)
  BY DEF Uploads, Control, ConnTypes, Call, Client!Call, serverVars
<1>2. (Serves => s > 0)' /\ (Serves => s \in 1..n) /\ Said \in Nat
  BY <1>1, ServedAsked, SaidFacts DEF UpFramed, Serves
<1>3. /\ n' = n + 1 /\ n \in Nat /\ \A i \in 1..n : asked'[i] = asked[i] /\ MessageLen(i)' = MessageLen(i)
      /\ \A i \in 1..n : \A k, m :
              /\ Part(up, i, k, m)' <=> Part(up', i, k, m)
              /\ Part(Tail(up), i, k, m)' <=> Part(Tail(up'), i, k, m)
      /\ Serves => /\ HeadLen(s)' = HeadLen(s) /\ MessageLen(s)' = MessageLen(s)
                   /\ Message(s)' = Message(s)
                   /\ \A k, m : Part(up, s, k, m)' <=> Part(up', s, k, m)
  BY <1>1, <1>2, MessagesKept
<1>4. Said = n /\ Said' = n /\ (Live' <=> Live) /\ (Live => cat' = "send")
  BY <1>1, <1>3 DEF Said, Live
<1>5. ASSUME NEW w, NEW j, Queued(w, j), ~Live
      PROVE  /\ up' = w => Queued(up, j)'
             /\ Tail(up') = w => Queued(Tail(up), j)'
             /\ j \in 1..Said'
  BY <1>3, <1>4, <1>5 DEF Queued
<1>6. Serves => ((ReadUpTo(Remains) => ReadUpTo(Remains)') /\ (Answering' <=> Answering) /\ Remains' = Remains)
  BY <1>1, <1>2, <1>3 DEF ReadUpTo, Remains, Answering
<1>7. ASSUME Dead PROVE Dead'
  BY <1>1, <1>4, <1>7 DEF Dead
<1>8. ASSUME Doomed PROVE Doomed'
  BY <1>1, <1>8 DEF Doomed, ClosesForBody
<1>9. ASSUME serverEnd = "open", Waits PROVE Waits'
  <2>1. CASE up = <<>>
    BY <1>1, <1>4, <1>9, <2>1 DEF Waits
  <2>2. CASE ~Live
    BY <1>1, <1>5, <1>9, <2>2, <1>4 DEF Waits
  <2>3. ASSUME Live, NEW j \in 1..Said, Queued(up, j) PROVE FALSE
    <3>1. PICK m \in 1..MessageLen(j) : Part(up, j, 0, m) /\ j = n
      BY <2>3 DEF Queued
    <3>2. up[1] = Message(n)[1] /\ 1 \in 1..Len(up) /\ n \in 1..n
      <4>1. MessageLen(n) \in Nat /\ n \in 1..n
        BY <1>1, <1>3, <1>4, <3>1, MessageFacts
      <4>2. Len(up) = m - 0 /\ m >= 1 /\ \A x \in 1..m - 0 : up[x] = Message(j)[0 + x]
        BY <3>1, <4>1 DEF Part
      <4>3. up[1] = Message(j)[0 + 1]
        BY <4>1, <4>2, <3>1
      <4>4. QED BY <3>1, <4>1, <4>2, <4>3
    <3>3. up[1].is = "request" /\ up[1].n = n
      <4>1. Message(n)[1] = Item("request", n, n)
        BY <1>1, <3>2, MessageFacts
      <4>2. QED BY <3>2, <4>1 DEF Item
    <3>4. answers[n] = 0
      BY <3>2, <3>3 DEF Uploads, UpOrder
    <3>5. QED BY <1>1, <1>9, <2>3, <3>4, Idle DEF Waits
  <2>4. QED BY <1>9, <2>1, <2>2, <2>3 DEF Waits
<1>10. ASSUME serverEnd = "open", Within PROVE Within'
  <2>1. PICK l \in 1..MessageLen(s) : \E o \in l..MessageLen(s) : WithinAt(l, o)
    BY <1>10 DEF Within
  <2>2. PICK o \in l..MessageLen(s) : WithinAt(l, o)
    BY <2>1
  <2>3. Serves /\ Serves' /\ s \in 1..n
    BY <1>1, <1>2, <1>10 DEF Within, Serves
  <2>4. ReadUpTo(l)'
    BY <1>1, <1>3, <2>2, <2>3 DEF ReadUpTo, WithinAt
  <2>5. Part(up, s, l, o)'
    BY <1>1, <1>3, <2>2, <2>3 DEF WithinAt
  <2>6. Live => Answering /\ l = Remains /\ o = MessageLen(s) /\ s # n'
    <3> SUFFICES ASSUME Live PROVE Answering /\ l = Remains /\ o = MessageLen(s) /\ s # n'
      OBVIOUS
    <3>1. /\ s = n /\ Answering /\ response.headers /\ asked[s].method = "GET"
      BY <1>1, <1>10, <2>3, Idle
    <3>2. o = MessageLen(s)
      BY <1>1, <2>2, <3>1 DEF WithinAt, Arrived
    <3>3. asked[s].length = 0
      <4>1. asked[s] \in Requests[s] /\ n <= MaxRequests
        BY <1>1, <2>3 DEF AskedTypes
      <4>2. s \in 1..MaxRequests
        BY <1>3, <2>3, <4>1, SizesAssumption
      <4>3. QED BY <3>1, <4>1, <4>2, RequestsAssumption
    <3>4. MessageLen(s) = HeadLen(s) /\ HeadLen(s) \in Nat
      BY <1>1, <2>3, <3>3, MessageFacts
    <3>5. /\ l \in 1..MessageLen(s)
          /\ request.headers => HeadLen(s) <= l
          /\ ~request.headers => l = HeadLen(s) - 1
      <4>1. asked[s].bad => l = HeadLen(s) - 1 \/ request.headers
        BY <2>2, <3>1 DEF WithinAt, ReadUpTo, Answering
      <4>2. ~request.headers => asked[s].bad
        BY <2>2, <3>1 DEF WithinAt, ReadUpTo, Answering
      <4>3. QED BY <2>2, <4>1, <4>2 DEF WithinAt, ReadUpTo
    <3>6. l = Remains
      BY <3>4, <3>5 DEF Remains
    <3>7. s # n'
      BY <1>3, <3>1
    <3>8. QED BY <3>1, <3>2, <3>6, <3>7
  <2>7. WithinAt(l, o)'
    <3>1. Live' => /\ cat' = "send" /\ Answering' /\ l = Remains' /\ o = MessageLen(s)'
                   /\ request'.n # Len(asked')
      BY <1>1, <1>3, <1>4, <1>6, <2>3, <2>6
    <3>2. QED BY <2>4, <2>5, <3>1 DEF WithinAt
  <2>8. l \in 1..MessageLen(s)' /\ o \in l..MessageLen(s)'
    BY <1>3, <2>3
  <2>9. QED BY <2>3, <2>7, <2>8 DEF Within
<1>11. ASSUME serverEnd = "open", Ahead PROVE Ahead'
  <2>1. Serves /\ Serves' /\ s \in 1..n /\ ReadUpTo(Remains)' /\ Answering'
    BY <1>1, <1>2, <1>6, <1>11 DEF Ahead, Answering, Serves
  <2>2. PICK j \in s + 1 .. Said :
           \/ request.headers /\ Queued(up, j)
           \/ /\ ~request.headers /\ up # <<>> /\ up[1] = Message(s)[MessageLen(s)]
              /\ Queued(Tail(up), j)
    BY <1>11 DEF Ahead
  <2>3. ~Live
    <3>1. Live => s = n
      BY <1>1, <1>11, <2>1, Idle
    <3>2. QED BY <1>3, <1>4, <2>1, <2>2, <3>1
  <2>4. j \in s + 1 .. Said'
    BY <1>4, <2>2
  <2>5. CASE request.headers /\ Queued(up, j)
    BY <1>1, <1>5, <2>1, <2>3, <2>4, <2>5 DEF Ahead
  <2>6. CASE /\ ~request.headers /\ up # <<>> /\ up[1] = Message(s)[MessageLen(s)] /\ Queued(Tail(up), j)
    BY <1>1, <1>3, <1>5, <2>1, <2>3, <2>4, <2>6 DEF Ahead
  <2>7. QED BY <2>2, <2>5, <2>6
<1>12. QED BY <1>1, <1>2, <1>7, <1>8, <1>9, <1>10, <1>11 DEF UpFramed

\* A connection that will be closed is.
LEMMA UpDoomed ==
  ASSUME Control, Doomed, ServerNext
  PROVE  Doomed' \/ serverEnd' # "open"
<1>1. at \in {"finish", "error", "end"} /\ response \in AnyResponse
  BY DEF Doomed, Control, ServerTypes
<1>2. \/ Conclude \/ EndResponse \/ (at = "error" /\ (Write \/ WriteFails))
  BY <1>1 DEF ServerNext, ReadRequest, NoMoreRequests, ReadHeader, ReadEndOfHeaders, ReadBadHeader,
     ReadHeaderFails, StaticGet, StaticPut, ReadFile, ReadFileFails, DnsParams, ReadForm,
     ReadFormFails, Lookup, Write, WriteShrunkFile, WriteFails
<1>3. CASE Conclude
  <2>1. CASE Hangup
    BY <2>1 DEF Hangup
  <2>2. CASE ~(err < 0)
    <3>1. /\ response' = [response EXCEPT !.close = @ \/ ClosesForBody]
          /\ at' \in {"end", "error"} /\ UNCHANGED <<request, err>>
      BY <1>3, <2>2 DEF Conclude
    <3>2. response'.close <=> response.close \/ ClosesForBody
      BY <1>1, <3>1 DEF AnyResponse
    <3>3. QED BY <2>2, <3>1, <3>2 DEF Doomed
  <2>3. QED BY <1>3, <2>1, <2>2 DEF Conclude
<1>4. CASE EndResponse
  <2>1. response.close
    BY <1>4 DEF EndResponse, Doomed, Control, ResponseControl, Serves
  <2>2. QED BY <1>4, <2>1 DEF EndResponse, Hangup
<1>5. CASE at = "error" /\ (Write \/ WriteFails)
  <2>1. /\ request' = request /\ err' = err /\ at' \in {"error", "end"}
        /\ response' = ResponseAfter(Head(script))
    BY <1>5 DEF Write, WriteFails, AfterScript
  <2>2. response.close => response'.close
    BY <1>5, <2>1, CallFacts
  <2>3. QED BY <2>1, <2>2 DEF Doomed, ClosesForBody
<1>6. QED BY <1>2, <1>3, <1>4, <1>5

\* The steps of the task, together.
LEMMA UpServer ==
  ASSUME Understood, Uploads, Asks, UpFramed, [Next]_vars, ServerNext, UNCHANGED clientVars
  PROVE  UpFramed'
<1>1. Control /\ (Serves => request.n \in 1..Len(asked))
  BY ServedAsked DEF UpFramed, Uploads
<1>2. at # "closed" /\ serverEnd = "open" /\ ~Connect
  BY <1>1 DEF ServerNext, ReadRequest, NoMoreRequests, ReadHeader, ReadEndOfHeaders, ReadBadHeader,
     ReadHeaderFails, StaticGet, StaticPut, ReadFile, ReadFileFails, DnsParams, ReadForm,
     ReadFormFails, Lookup, Write, WriteShrunkFile, WriteFails, Conclude, EndResponse, Control,
     RequestControl, Connect, ServerStart
<1>3. Dead \/ Doomed \/ Waits \/ Within \/ Ahead
  BY <1>2 DEF UpFramed
<1>4. CASE ReadRequest
  <2>1. up # <<>> /\ at = "request"
    BY <1>4, NoLine DEF ReadRequest
  <2>2. Waits
    BY <1>3, <2>1 DEF Dead, Doomed, Within, Ahead, Answering, Serves
  <2>3. QED BY <1>1, <1>4, <2>2, UpReadRequest DEF UpFramed
<1>5. CASE ~ReadRequest
  <2>1. Serves' => request'.n > 0
    BY <1>1, <1>5, TaskChanges DEF UpFramed
  <2>2. ASSUME Dead PROVE Dead'
    BY <1>1, <1>2, <2>2, DeadStays
  <2>3. ASSUME Doomed PROVE Doomed' \/ serverEnd' # "open"
    BY <1>1, <2>3, UpDoomed
  <2>4. ASSUME Waits PROVE serverEnd' # "open"
    <3>1. NoMoreRequests
      BY <1>5, <2>4 DEF Waits, ServerNext, ReadHeader, ReadEndOfHeaders, ReadBadHeader,
         ReadHeaderFails, StaticGet, StaticPut, ReadFile, ReadFileFails, DnsParams, ReadForm,
         ReadFormFails, Lookup, Write, WriteShrunkFile, WriteFails, Conclude, EndResponse
    <3>2. QED BY <3>1 DEF NoMoreRequests, Hangup
  <2>5. CASE Within \/ Ahead
    <3>1. Serves /\ at # "request" /\ request.n \in 1..Len(asked)
      BY <1>1, <2>5 DEF Within, Ahead, Answering, Serves
    <3>2. CASE ReadHeader \/ ReadEndOfHeaders \/ ReadBadHeader \/ ReadHeaderFails
      BY <1>1, <2>1, <2>5, <3>1, <3>2, UpHeaders, AheadHeaders DEF UpFramed
    <3>3. CASE EndResponse
      BY <1>1, <2>1, <2>5, <3>1, <3>3, UpEndResponse DEF UpFramed
    <3>4. CASE Conclude
      <4>1. CASE Serves'
        BY <1>1, <2>1, <2>5, <3>1, <3>4, <4>1, UpOnward, AheadConclude DEF UpFramed
      <4>2. CASE ~Serves'
        <5>1. serverEnd' # "open"
          BY <3>4, <4>2 DEF Conclude, Hangup, Serves
        <5>2. QED BY <2>1, <5>1 DEF UpFramed
      <4>3. QED BY <4>1, <4>2
    <3>5. CASE Within /\ (ReadFile \/ ReadForm)
      BY <1>1, <2>1, <3>1, <3>5, UpBody DEF UpFramed
    <3>6. CASE Within /\ (\/ StaticGet \/ StaticPut \/ ReadFileFails \/ DnsParams \/ ReadFormFails \/ Lookup
                          \/ Write \/ WriteShrunkFile \/ WriteFails)
      BY <1>1, <2>1, <3>1, <3>6, UpOnward DEF UpFramed
    <3>7. CASE Ahead /\ ~(ReadHeader \/ ReadEndOfHeaders \/ ReadBadHeader \/ ReadHeaderFails \/ EndResponse \/ Conclude)
      BY <1>5, <3>7 DEF Ahead, Answering, ServerNext, NoMoreRequests, ReadHeader, ReadEndOfHeaders, ReadBadHeader,
         ReadHeaderFails, StaticGet, StaticPut, ReadFile, ReadFileFails, DnsParams, ReadForm,
         ReadFormFails, Lookup, Write, WriteShrunkFile, WriteFails
    <3>8. ~NoMoreRequests
      BY <3>1 DEF NoMoreRequests
    <3>9. QED BY <1>5, <2>5, <3>2, <3>3, <3>4, <3>5, <3>6, <3>7, <3>8 DEF ServerNext
  <2>6. QED BY <1>3, <2>1, <2>2, <2>3, <2>4, <2>5 DEF UpFramed
<1>6. QED BY <1>4, <1>5

\* The server always finds the requests where it looks for them.
LEMMA UpStep ==
  ASSUME Understood, Uploads, Asks, UpFramed, [Next]_vars,
         cat = "idle" /\ Live /\ serverEnd = "open" => Matches(Now)
  PROVE  UpFramed'
<1>1. Control
  BY DEF Uploads
<1>2. CASE ServerNext /\ UNCHANGED clientVars
  BY <1>2, UpServer
<1>3. CASE NetworkStep
  BY <1>1, <1>3, UpBreaks
<1>4. CASE Connect
  <2>1. up' = <<>> /\ cat' = "send" /\ at' = "request"
    BY <1>4 DEF Connect, Client!Connect, ServerStart
  <2>2. Waits' /\ ~Serves'
    BY <2>1 DEF Waits, Serves
  <2>3. QED BY <2>2 DEF UpFramed
<1>5. CASE Client!ClientSteps /\ UNCHANGED serverVars
  <2>1. CASE ~Client!SendHead /\ ~Client!SendBody
    BY <1>1, <1>5, <2>1, UpClient
  <2> DEFINE n == Len(asked)
             H == RequestHead(asked[n], n)
             D == Data(asked[n].length, n)
  <2>2. cat \in {"send", "upload"} => n \in 1..n /\ AskedTypes
    BY <1>1, LenProperties DEF Control, ClientControl, AskedTypes
  <2>3. CASE Client!SendHead
    <3>1. cat = "send" /\ ~broken /\ up' = up \o H /\ asked' = asked /\ broken' = broken /\ down' = down
      BY <2>3, ClientText DEF Client!SendHead
    <3>2. Part(H, n, 0, HeadLen(n))
      BY <2>2, <3>1, PartHead
    <3>3. Adds(H, 0, HeadLen(n))
      BY <1>5, <2>2, <2>3, <3>1, <3>2 DEF Adds
    <3>4. QED BY <3>3, UpAdds
  <2>4. CASE Client!SendBody
    <3>1. cat = "upload" /\ ~broken /\ up' = up \o D /\ asked' = asked /\ broken' = broken /\ down' = down
      BY <2>4, ClientText DEF Client!SendBody
    <3>2. Part(D, n, HeadLen(n), MessageLen(n))
      BY <2>2, <3>1, PartBody
    <3>3. Adds(D, HeadLen(n), MessageLen(n))
      BY <1>5, <2>2, <2>4, <3>1, <3>2 DEF Adds
    <3>4. QED BY <3>3, UpAdds
  <2>5. QED BY <2>1, <2>3, <2>4
<1>6. CASE Client!Dies /\ UNCHANGED serverVars
  <2>1. CASE \E X, k, m : Adds(X, k, m)
    BY <2>1, UpAdds
  <2>2. CASE up' = up
    <3>1. UNCHANGED <<asked, serverEnd, at, request, response, script, err, answers>> /\ ~Live'
      BY <1>6 DEF Client!Dies, serverVars, Live
    <3>2. Said <= Said' /\ Said' \in Nat
      BY <1>1, SaidGrows
    <3>3. QED BY <1>1, <2>2, <3>1, <3>2, UpSame
  <2>3. cat' # cat /\ broken' = broken /\ ~broken /\ ~Connect
    <3>1. cat # "dead" /\ cat # "connect"
      BY <1>1, <1>6 DEF Client!Dies, Control, ClientControl
    <3>2. QED BY <1>6, <3>1 DEF Client!Dies, Connect, Client!Connect
  <2>4. QED BY <1>1, <2>1, <2>2, <2>3, UpChanges DEF clientVars, NetworkStep
<1>7. CASE \E q \in Requests[Len(asked) + 1] : Len(asked) < MaxRequests /\ Call(q)
  <2>1. PICK q \in Requests[Len(asked) + 1] : Len(asked) < MaxRequests /\ Call(q)
    BY <1>7
  <2>2. cat = "idle"
    BY <2>1 DEF Call, Client!Call
  <2>3. QED BY <2>1, <2>2, UpCall
<1>8. CASE Crash /\ UNCHANGED clientVars
  <2>1. serverEnd' = "closed" /\ ~Serves'
    BY <1>8 DEF Crash, Hangup, Serves
  <2>2. QED BY <2>1 DEF UpFramed
<1>10. CASE UNCHANGED vars
  <2>1. /\ UNCHANGED <<asked, up, serverEnd, at, request, response, script, err, answers>>
        /\ UNCHANGED <<cat, clientEnd, broken>>
    BY <1>10 DEF vars, connVars, serverVars, clientVars
  <2>2. Said' = Said /\ Said \in Nat /\ Live' = Live
    BY <1>1, <2>1, SaidFacts DEF Said, Live
  <2>3. Arrived' = Arrived
    BY <2>1, MessagesStay DEF Arrived
  <2>4. QED BY <1>1, <2>1, <2>2, <2>3, UpSame
<1>9. QED BY <1>2, <1>3, <1>4, <1>5, <1>6, <1>7, <1>8, <1>10, Steps

-----------------------------------------------------------------------------
(* Readers                                                                 *)

\* Nothing leaves a reader where it is.
LEMMA ReadNothing ==
  ASSUME NEW K, NEW c
  PROVE  /\ c \in K => CanRead(<<>>, c, c, K)
         /\ \A F : CanRead(<<>>, c, F, K) => F = c /\ c \in K
<1>1. Len(<<>>) = 0
  BY EmptySeq
<1>2. ASSUME c \in K PROVE CanRead(<<>>, c, c, K)
  <2> DEFINE st == [i \in 0..0 |-> c]
  <2>1. st \in [0..0 -> K] /\ st[0] = c
    BY <1>2
  <2>2. \A i \in 1..0 : FALSE
    OBVIOUS
  <2> HIDE DEF st
  <2>3. QED BY <1>1, <2>1, <2>2 DEF CanRead
<1>3. ASSUME NEW F, CanRead(<<>>, c, F, K) PROVE F = c /\ c \in K
  <2>1. PICK st \in [0..0 -> K] : st[0] = c /\ st[0] = F
    BY <1>1, <1>3 DEF CanRead
  <2>2. 0 \in 0..0
    OBVIOUS
  <2>3. QED BY <2>1, <2>2
<1>4. QED BY <1>2, <1>3

\* One item that it accepts takes it behind that.
LEMMA ReadOne ==
  ASSUME NEW K, NEW c \in K, NEW x, Accepts(c, x), After(c, x) \in K
  PROVE  CanRead(<<x>>, c, After(c, x), K)
<1> DEFINE st == [i \in 0..1 |-> IF i = 0 THEN c ELSE After(c, x)]
<1>1. Len(<<x>>) = 1 /\ <<x>>[1] = x
  OBVIOUS
<1>2. st \in [0..1 -> K] /\ st[0] = c /\ st[1] = After(c, x)
  OBVIOUS
<1>3. \A i \in 1..1 : i = 1 /\ i - 1 = 0
  OBVIOUS
<1> HIDE DEF st
<1>4. \A i \in 1..1 : Accepts(st[i - 1], <<x>>[i]) /\ st[i] = After(st[i - 1], <<x>>[i])
  BY <1>1, <1>2, <1>3
<1>5. QED BY <1>1, <1>2, <1>4 DEF CanRead

\* The first item is accepted, and what follows it read from there.
LEMMA ReadRest ==
  ASSUME NEW K, NEW w \in Seq(AnyItem), w # <<>>, NEW c, NEW F, CanRead(w, c, F, K)
  PROVE  /\ c \in K /\ w[1] \in AnyItem /\ Accepts(c, w[1]) /\ After(c, w[1]) \in K
         /\ CanRead(Tail(w), After(c, w[1]), F, K)
<1> DEFINE n == Len(w)
           t == Tail(w)
<1>1. n \in Nat \ {0} /\ Len(t) = n - 1 /\ w[1] \in AnyItem /\ \A i \in 1..n - 1 : t[i] = w[1 + i]
  BY TailFacts
<1> HIDE DEF t
<1>2. PICK st \in [0..n -> K] :
         /\ st[0] = c /\ st[n] = F
         /\ \A i \in 1..n : Accepts(st[i - 1], w[i]) /\ st[i] = After(st[i - 1], w[i])
  BY DEF CanRead
<1> HIDE DEF n
<1>3. c \in K /\ Accepts(c, w[1]) /\ st[1] = After(c, w[1]) /\ st[1] \in K
  <2>1. 0 \in 0..n /\ 1 \in 1..n /\ 1 \in 0..n /\ 1 - 1 = 0
    BY <1>1
  <2>2. QED BY <1>2, <2>1
<1> DEFINE s2 == [i \in 0..n - 1 |-> st[i + 1]]
<1>4. s2 \in [0..n - 1 -> K] /\ s2[0] = st[1] /\ s2[n - 1] = F
  <2>1. \A i \in 0..n - 1 : i + 1 \in 0..n
    BY <1>1
  <2>2. 0 \in 0..n - 1 /\ n - 1 \in 0..n - 1 /\ (n - 1) + 1 = n
    BY <1>1
  <2>3. QED BY <1>2, <2>1, <2>2
<1>5. ASSUME NEW i \in 1..n - 1
      PROVE  Accepts(s2[i - 1], t[i]) /\ s2[i] = After(s2[i - 1], t[i])
  <2>1. i \in 0..n - 1 /\ i - 1 \in 0..n - 1 /\ (i - 1) + 1 = i /\ i + 1 \in 1..n /\ (i + 1) - 1 = i /\ 1 + i = i + 1
    BY <1>1
  <2>2. s2[i - 1] = st[i] /\ s2[i] = st[i + 1] /\ t[i] = w[i + 1]
    BY <1>1, <2>1
  <2>3. Accepts(st[(i + 1) - 1], w[i + 1]) /\ st[i + 1] = After(st[(i + 1) - 1], w[i + 1])
    BY <1>2, <2>1
  <2>4. QED BY <2>1, <2>2, <2>3
<1> HIDE DEF s2
<1>6. CanRead(t, st[1], F, K)
  BY <1>1, <1>4, <1>5 DEF CanRead
<1>7. QED BY <1>1, <1>3, <1>6 DEF t

\* Two parts in turn are the whole.
LEMMA ReadJoin ==
  ASSUME NEW K, NEW w \in Seq(AnyItem), NEW x \in Seq(AnyItem), NEW c, NEW F, NEW G,
         CanRead(w, c, F, K), CanRead(x, F, G, K)
  PROVE  CanRead(w \o x, c, G, K)
<1> DEFINE n == Len(w)
           m == Len(x)
           t == w \o x
<1>1. /\ n \in Nat /\ m \in Nat /\ Len(t) = n + m
      /\ \A i \in 1..n : t[i] = w[i]
      /\ \A i \in 1..m : t[n + i] = x[i]
  BY LenProperties, JoinFacts
<1>2. PICK st \in [0..n -> K] :
         /\ st[0] = c /\ st[n] = F
         /\ \A i \in 1..n : Accepts(st[i - 1], w[i]) /\ st[i] = After(st[i - 1], w[i])
  BY DEF CanRead
<1>3. PICK su \in [0..m -> K] :
         /\ su[0] = F /\ su[m] = G
         /\ \A i \in 1..m : Accepts(su[i - 1], x[i]) /\ su[i] = After(su[i - 1], x[i])
  BY DEF CanRead
<1> HIDE DEF n, m, t
<1> DEFINE s2 == [i \in 0..n + m |-> IF i <= n THEN st[i] ELSE su[i - n]]
<1>4. \A i \in 0..n : s2[i] = st[i] /\ i \in 0..n + m
  BY <1>1
<1>5. \A i \in 0..m : s2[n + i] = su[i] /\ n + i \in 0..n + m
  <2> TAKE i \in 0..m
  <2>1. n + i \in 0..n + m /\ (n + i) - n = i /\ (n + i <= n => i = 0)
    BY <1>1
  <2>2. i = 0 => s2[n + i] = su[i]
    <3>1. i = 0 => n + i = n /\ n \in 0..n
      BY <1>1
    <3>2. QED BY <3>1, <1>2, <1>3, <1>4
  <2>3. i # 0 => s2[n + i] = su[i]
    BY <2>1
  <2>4. QED BY <2>1, <2>2, <2>3
<1>6. s2 \in [0..n + m -> K]
  <2>1. \A i \in 0..n + m : i <= n => i \in 0..n
    BY <1>1
  <2>2. \A i \in 0..n + m : ~(i <= n) => i - n \in 0..m
    BY <1>1
  <2>3. QED BY <2>1, <2>2, <1>2, <1>3
<1>7. s2[0] = c /\ s2[n + m] = G
  <2>1. 0 \in 0..n /\ m \in 0..m
    BY <1>1
  <2>2. QED BY <2>1, <1>2, <1>3, <1>4, <1>5
<1> HIDE DEF s2
<1>8. ASSUME NEW i \in 1..n + m
      PROVE  Accepts(s2[i - 1], t[i]) /\ s2[i] = After(s2[i - 1], t[i])
  <2>1. CASE i <= n
    <3>1. i \in 1..n /\ i \in 0..n /\ i - 1 \in 0..n
      BY <2>1, <1>1
    <3>2. QED BY <3>1, <1>1, <1>2, <1>4
  <2>2. CASE i > n
    <3>1. PICK j \in Int : j = i - n
      BY <1>1
    <3>2. j \in 1..m /\ i = n + j /\ j \in 0..m /\ j - 1 \in 0..m /\ n + (j - 1) = i - 1
      BY <3>1, <2>2, <1>1
    <3>3. s2[i - 1] = su[j - 1] /\ s2[i] = su[j] /\ t[i] = x[j]
      BY <3>2, <1>1, <1>5
    <3>4. QED BY <3>2, <3>3, <1>3
  <2>3. QED BY <2>1, <2>2, <1>1
<1>9. CanRead(t, c, G, K)
  BY <1>1, <1>6, <1>7, <1>8 DEF CanRead
<1>10. QED BY <1>9 DEF t

\* A part of it leaves the reader somewhere, with the next item to come.
LEMMA ReadTake ==
  ASSUME NEW K, NEW w \in Seq(AnyItem), NEW c, NEW F, CanRead(w, c, F, K), NEW k \in 0..Len(w)
  PROVE  \E G \in K : /\ CanRead(SubSeq(w, 1, k), c, G, K)
                      /\ k < Len(w) => Accepts(G, w[k + 1])
<1> DEFINE n == Len(w)
           t == SubSeq(w, 1, k)
<1>1. n \in Nat /\ k \in 0..n /\ Len(t) = k /\ \A i \in 1..k : t[i] = w[i]
  BY LenProperties, TakeFacts
<1>2. PICK st \in [0..n -> K] :
         /\ st[0] = c /\ st[n] = F
         /\ \A i \in 1..n : Accepts(st[i - 1], w[i]) /\ st[i] = After(st[i - 1], w[i])
  BY DEF CanRead
<1> HIDE DEF n, t
<1> DEFINE s2 == [i \in 0..k |-> st[i]]
<1>3. s2 \in [0..k -> K] /\ s2[0] = c /\ s2[k] = st[k] /\ st[k] \in K
  <2>1. \A i \in 0..k : i \in 0..n
    BY <1>1
  <2>2. 0 \in 0..k /\ k \in 0..k
    BY <1>1
  <2>3. QED BY <1>2, <2>1, <2>2
<1>4. ASSUME NEW i \in 1..k
      PROVE  Accepts(s2[i - 1], t[i]) /\ s2[i] = After(s2[i - 1], t[i])
  <2>1. i \in 1..n /\ i \in 0..k /\ i - 1 \in 0..k
    BY <1>1
  <2>2. s2[i - 1] = st[i - 1] /\ s2[i] = st[i] /\ t[i] = w[i]
    BY <1>1, <2>1
  <2>3. QED BY <1>2, <2>1, <2>2
<1> HIDE DEF s2
<1>5. CanRead(t, c, st[k], K)
  BY <1>1, <1>3, <1>4 DEF CanRead
<1>6. k < n => Accepts(st[k], w[k + 1])
  <2>1. k < n => k + 1 \in 1..n /\ (k + 1) - 1 = k
    BY <1>1
  <2>2. QED BY <1>2, <2>1
<1>7. QED BY <1>3, <1>5, <1>6 DEF t, n

\* What is known changes when the response begins, or is going to be longer.
LEMMA ReadAgain ==
  ASSUME NEW n, NEW s, NEW s2, NEW u, NEW u2, NEW w \in Seq(AnyItem), NEW c, NEW F,
         CanRead(w, c, F, Honest(n, s, u)), s2 = s \/ s = 0, u2 = u \/ F.cat # "idle"
  PROVE  CanRead(w, c, F, Honest(n, s2, u2))
<1> DEFINE K == Honest(n, s, u)
           l == Len(w)
<1>1. l \in Nat
  BY LenProperties
<1>2. PICK st \in [0..l -> K] :
         /\ st[0] = c /\ st[l] = F
         /\ \A i \in 1..l : Accepts(st[i - 1], w[i]) /\ st[i] = After(st[i - 1], w[i])
  BY DEF CanRead
<1> HIDE DEF l
<1>3. ASSUME NEW i \in 0..l PROVE st[i] \in Honest(n, s2, u2)
  <2>1. st[i] \in K
    BY <1>2
  <2>2. st[i].cat = "idle" => st[i] = F
    <3>1. CASE i = l
      BY <3>1, <1>2
    <3>2. CASE i # l
      <4>1. i + 1 \in 1..l /\ (i + 1) - 1 = i
        BY <1>1, <3>2
      <4>2. Accepts(st[i], w[i + 1])
        BY <1>2, <4>1
      <4>3. QED BY <4>2 DEF Accepts
    <3>3. QED BY <3>1, <3>2
  <2>3. QED BY <2>1, <2>2 DEF Honest
<1>4. st \in [0..l -> Honest(n, s2, u2)]
  BY <1>2, <1>3
<1>5. QED BY <1>2, <1>4 DEF CanRead, l

\* Where an item leaves a reader.
LEMMA AfterFacts ==
  ASSUME NEW c \in AnyReader, NEW x \in AnyItem, Accepts(c, x), c.cat \in {"chunk", "length"} => c.left > 0,
         NEW a, a = After(c, x)
  PROVE  /\ a \in AnyReader /\ a.got.of = c.got.of \cup {x.re}
         /\ a.got.units = c.got.units + (IF x.is = "data" THEN 1 ELSE 0)
         /\ a.got.status = IF c.cat = "status" THEN x.n ELSE c.got.status
         /\ a.got.length = IF x.is = "length" THEN x.n ELSE c.got.length
         /\ a.got.chunked <=> c.got.chunked \/ x.is = "chunked"
         /\ c.cat = "status" => a.cat = "headers" /\ a.left = c.left
         /\ c.cat = "headers" /\ x.is = "blank" => a.cat = Client!BodyState(c.got) /\ a.left = c.got.length
         /\ c.cat = "headers" /\ x.is # "blank" => a.cat = "headers" /\ a.left = c.left
         /\ c.cat = "size" => a.cat = (IF x.n = 0 THEN "trailer" ELSE "chunk") /\ a.left = x.n
         /\ c.cat = "chunk" => a.cat = (IF c.left = 1 THEN "footer" ELSE "chunk") /\ a.left = c.left - 1
         /\ c.cat = "footer" => a.cat = "size" /\ a.left = c.left
         /\ c.cat = "trailer" => a.cat = "idle" /\ a.left = c.left
         /\ c.cat = "length" => a.cat = (IF c.left = 1 THEN "idle" ELSE "length") /\ a.left = c.left - 1
         /\ c.cat = "eof" => a.cat = "eof" /\ a.left = c.left
<1> DEFINE g == [c.got EXCEPT !.of = @ \cup {x.re}]
           gs == [g EXCEPT !.status = x.n]
           gh == [g EXCEPT !.length  = IF x.is = "length" THEN x.n ELSE @,
                           !.chunked = @ \/ x.is = "chunked",
                           !.close   = @ \/ x.is = "close"]
           gd == [g EXCEPT !.units = @ + 1]
<1>1. /\ c.cat \in ClientStates /\ c.got \in AnyGot /\ c.left \in Nat /\ x.n \in Nat /\ x.re \in Nat
      /\ c = [cat |-> c.cat, got |-> c.got, left |-> c.left]
  BY DEF AnyReader, AnyItem
<1>2. /\ g \in AnyGot /\ g.of = c.got.of \cup {x.re} /\ g.units = c.got.units /\ g.status = c.got.status
      /\ g.length = c.got.length /\ g.chunked = c.got.chunked
  BY <1>1 DEF AnyGot
<1> HIDE DEF g
<1>3. /\ gs \in AnyGot /\ gs.of = g.of /\ gs.units = g.units /\ gs.status = x.n
      /\ gs.length = g.length /\ gs.chunked = g.chunked
  BY <1>1, <1>2 DEF AnyGot
<1>4. /\ gh \in AnyGot /\ gh.of = g.of /\ gh.units = g.units /\ gh.status = g.status
      /\ gh.length = (IF x.is = "length" THEN x.n ELSE g.length)
      /\ gh.chunked = (g.chunked \/ x.is = "chunked")
  BY <1>1, <1>2 DEF AnyGot
<1>5. /\ gd \in AnyGot /\ gd.of = g.of /\ gd.units = g.units + 1 /\ gd.status = g.status
      /\ gd.length = g.length /\ gd.chunked = g.chunked
  BY <1>1, <1>2 DEF AnyGot
<1> HIDE DEF gs, gh, gd
<1>6. \A cat1, got1, left1 :
        /\ Reader(cat1, got1, left1).cat = cat1 /\ Reader(cat1, got1, left1).got = got1
        /\ Reader(cat1, got1, left1).left = left1
        /\ cat1 \in ClientStates /\ got1 \in AnyGot /\ left1 \in Nat => Reader(cat1, got1, left1) \in AnyReader
  BY DEF Reader, AnyReader
<1>7. /\ Client!BodyState(c.got) \in {"size", "length", "eof"}
      /\ {"headers", "trailer", "chunk", "footer", "size", "idle", "length", "eof"} \subseteq ClientStates
  BY DEF Client!BodyState, ClientStates
<1>8. c.got.length \in Nat /\ c.got.units \in Nat /\ c.got.units + 0 = c.got.units
  BY <1>1 DEF AnyGot
<1>9. CASE c.cat = "status"
  <2>1. a = Reader("headers", gs, c.left)
    BY <1>9 DEF After, g, gs
  <2>2. x.is = "status"
    BY <1>9 DEF Accepts
  <2>3. a.got = gs /\ a.cat = ("headers") /\ a.left = (c.left)
    BY <1>6, <2>1
  <2>4. a \in AnyReader
    BY <1>1, <1>2, <1>3, <1>5, <1>6, <1>7, <2>1
  <2>5. QED BY <1>1, <1>2, <1>3, <1>5, <1>8, <1>9, <2>2, <2>3, <2>4
<1>10. CASE c.cat = "headers"
  <2>1. a = Reader(IF x.is = "blank" THEN Client!BodyState(c.got) ELSE "headers", gh,
                   IF x.is = "blank" THEN c.got.length ELSE c.left)
    BY <1>10 DEF After, g, gh
  <2>2. x.is \in Headers \cup {"blank"} /\ x.is # "data"
    BY <1>10 DEF Accepts, Headers
  <2>3. a \in AnyReader
    BY <1>1, <1>4, <1>6, <1>7, <1>8, <2>1
  <2>4. a.got = gh /\ a.cat = (IF x.is = "blank" THEN Client!BodyState(c.got) ELSE "headers")
        /\ a.left = (IF x.is = "blank" THEN c.got.length ELSE c.left)
    BY <1>6, <2>1
  <2>5. /\ a.got.of = c.got.of \cup {x.re} /\ a.got.status = c.got.status
        /\ a.got.length = (IF x.is = "length" THEN x.n ELSE c.got.length)
        /\ a.got.chunked <=> c.got.chunked \/ x.is = "chunked"
    BY <1>2, <1>4, <2>4
  <2>6. a.got.units = c.got.units + (IF x.is = "data" THEN 1 ELSE 0)
    BY <1>2, <1>4, <1>8, <2>2, <2>4
  <2>7. QED BY <1>10, <2>3, <2>4, <2>5, <2>6
<1>11. CASE c.cat = "size"
  <2>1. a = Reader(IF x.n = 0 THEN "trailer" ELSE "chunk", g, x.n)
    BY <1>11 DEF After, g
  <2>2. x.is = "size"
    BY <1>11 DEF Accepts
  <2>3. a.got = g /\ a.cat = (IF x.n = 0 THEN "trailer" ELSE "chunk") /\ a.left = (x.n)
    BY <1>6, <2>1
  <2>4. a \in AnyReader
    BY <1>1, <1>2, <1>3, <1>5, <1>6, <1>7, <2>1
  <2>5. QED BY <1>1, <1>2, <1>3, <1>5, <1>8, <1>11, <2>2, <2>3, <2>4
<1>12. CASE c.cat = "chunk"
  <2>1. a = Reader(IF c.left = 1 THEN "footer" ELSE "chunk", gd, c.left - 1)
    BY <1>12 DEF After, g, gd
  <2>2. x.is = "data" /\ c.left - 1 \in Nat
    BY <1>1, <1>12 DEF Accepts
  <2>3. a.got = gd /\ a.cat = (IF c.left = 1 THEN "footer" ELSE "chunk") /\ a.left = (c.left - 1)
    BY <1>6, <2>1
  <2>4. a \in AnyReader
    BY <1>1, <1>2, <1>3, <1>5, <1>6, <1>7, <2>1, <2>2
  <2>5. QED BY <1>1, <1>2, <1>3, <1>5, <1>8, <1>12, <2>2, <2>3, <2>4
<1>13. CASE c.cat = "footer"
  <2>1. a = Reader("size", g, c.left)
    BY <1>13 DEF After, g
  <2>2. x.is = "blank"
    BY <1>13 DEF Accepts
  <2>3. a.got = g /\ a.cat = ("size") /\ a.left = (c.left)
    BY <1>6, <2>1
  <2>4. a \in AnyReader
    BY <1>1, <1>2, <1>3, <1>5, <1>6, <1>7, <2>1
  <2>5. QED BY <1>1, <1>2, <1>3, <1>5, <1>8, <1>13, <2>2, <2>3, <2>4
<1>14. CASE c.cat = "trailer"
  <2>1. a = Reader("idle", g, c.left)
    BY <1>14 DEF After, g
  <2>2. x.is = "blank"
    BY <1>14 DEF Accepts
  <2>3. a.got = g /\ a.cat = ("idle") /\ a.left = (c.left)
    BY <1>6, <2>1
  <2>4. a \in AnyReader
    BY <1>1, <1>2, <1>3, <1>5, <1>6, <1>7, <2>1
  <2>5. QED BY <1>1, <1>2, <1>3, <1>5, <1>8, <1>14, <2>2, <2>3, <2>4
<1>15. CASE c.cat = "length"
  <2>1. a = Reader(IF c.left = 1 THEN "idle" ELSE "length", gd, c.left - 1)
    BY <1>15 DEF After, g, gd
  <2>2. x.is = "data" /\ c.left - 1 \in Nat
    BY <1>1, <1>15 DEF Accepts
  <2>3. a.got = gd /\ a.cat = (IF c.left = 1 THEN "idle" ELSE "length") /\ a.left = (c.left - 1)
    BY <1>6, <2>1
  <2>4. a \in AnyReader
    BY <1>1, <1>2, <1>3, <1>5, <1>6, <1>7, <2>1, <2>2
  <2>5. QED BY <1>1, <1>2, <1>3, <1>5, <1>8, <1>15, <2>2, <2>3, <2>4
<1>16. CASE c.cat = "eof"
  <2>1. a = Reader("eof", gd, c.left)
    BY <1>16 DEF After, g, gd
  <2>2. x.is = "data"
    BY <1>16 DEF Accepts
  <2>3. a.got = gd /\ a.cat = ("eof") /\ a.left = (c.left)
    BY <1>6, <2>1
  <2>4. a \in AnyReader
    BY <1>1, <1>2, <1>3, <1>5, <1>6, <1>7, <2>1, <2>2
  <2>5. QED BY <1>1, <1>2, <1>3, <1>5, <1>8, <1>16, <2>2, <2>3, <2>4
<1>17. QED BY <1>9, <1>10, <1>11, <1>12, <1>13, <1>14, <1>15, <1>16 DEF Accepts

\* An item of the response it is waiting for leaves a reader honest.
LEMMA ReadItem ==
  ASSUME NEW n \in Nat, NEW s \in Nat \ {0}, NEW u, NEW c \in Honest(n, s, u), NEW x \in AnyItem,
         x.re = n, Accepts(c, x), c.cat = "status" => x.n = s,
         c.cat \in {"chunk", "length"} => c.left > 0,
         NEW a, a = After(c, x), a.cat = "idle" => a.got.units = u
  PROVE  a \in Honest(n, s, u) /\ CanRead(<<x>>, c, a, Honest(n, s, u))
<1>1. /\ c \in AnyReader
      /\ c.cat = "status" \/ c.got.status = 0 => c = Waiting
      /\ c.got.status # 0 => c.got.of = {n} /\ c.got.status = s
  BY DEF Honest
<1>2. Waiting.cat = "status" /\ Waiting.got.status = 0 /\ Waiting.got.of = {}
  BY DEF Waiting, Reader, Client!Nothing
<1>3. /\ a \in AnyReader /\ a.got.of = c.got.of \cup {n}
      /\ a.got.status = IF c.cat = "status" THEN x.n ELSE c.got.status
  BY <1>1, AfterFacts
<1>4. a.cat # "status"
  <2>1. Client!BodyState(c.got) # "status"
    BY DEF Client!BodyState
  <2>2. QED BY <1>1, <2>1, AfterFacts DEF Accepts
<1>5. a.got.of = {n} /\ a.got.status = s
  <2>1. CASE c.cat = "status"
    BY <1>1, <1>2, <1>3, <2>1
  <2>2. CASE c.cat # "status"
    <3>1. c.got.status # 0
      BY <1>1, <1>2, <2>2
    <3>2. QED BY <1>1, <1>3, <2>2, <3>1
  <2>3. QED BY <2>1, <2>2
<1>6. a \in Honest(n, s, u)
  BY <1>3, <1>4, <1>5 DEF Honest
<1>7. QED BY <1>6, ReadOne

\* One more item behind others.
LEMMA ReadNext ==
  ASSUME NEW K, NEW w \in Seq(AnyItem), NEW x \in AnyItem, NEW c, NEW F, NEW G,
         CanRead(w, c, F, K), CanRead(<<x>>, F, G, K)
  PROVE  w \o <<x>> \in Seq(AnyItem) /\ CanRead(w \o <<x>>, c, G, K)
<1>1. <<x>> \in Seq(AnyItem)
  OBVIOUS
<1>2. QED BY <1>1, ReadJoin, JoinFacts

\* A body of a given length is read to its end.
LEMMA ReadData ==
  ASSUME NEW n \in Nat, NEW s \in Nat \ {0}, NEW u, NEW c \in Honest(n, s, u),
         c.cat = "length", NEW k \in Nat \ {0}, c.left = k, c.got.units = 0, u = k
  PROVE  \E F \in Honest(n, s, u) :
           CanRead(Data(k, n), c, F, Honest(n, s, u)) /\ F.cat = "idle"
<1> DEFINE g(i) == [c.got EXCEPT !.units = i]
           at1(i) == Reader(IF i = k THEN "idle" ELSE "length", g(i), k - i)
           d == Item("data", 0, n)
           st == [i \in 0..k |-> at1(i)]
           D == Data(k, n)
<1>1. /\ c.got \in AnyGot /\ c = [cat |-> "length", got |-> c.got, left |-> k]
      /\ c.got.status # 0 /\ c.got.of = {n} /\ c.got.status = s
  <2>1. c \in AnyReader /\ (c.got.status = 0 => c = Waiting) /\ (c.got.status # 0 => c.got.of = {n} /\ c.got.status = s)
    BY DEF Honest
  <2>2. c # Waiting
    BY DEF Waiting, Reader
  <2>3. QED BY <2>1, <2>2 DEF AnyReader
<1>2. D \in Seq(AnyItem) /\ Len(D) = k /\ \A i \in 1..k : D[i] = d
  BY DataFacts
<1>3. d.is = "data" /\ d.re = n
  BY DEF Item
<1> HIDE DEF d, D
<1>4. \A i \in Nat : /\ g(i) \in AnyGot /\ g(i).units = i /\ g(i).of = {n} /\ g(i).status = s
                     /\ [[g(i) EXCEPT !.of = @ \cup {n}] EXCEPT !.units = @ + 1] = g(i + 1)
  BY <1>1 DEF AnyGot
<1>5. g(0) = c.got
  BY <1>1 DEF AnyGot
<1> HIDE DEF g
<1>6. st[0] = c /\ st[k] = at1(k) /\ at1(k).cat = "idle" /\ \A i \in 0..k : st[i] = at1(i)
  BY <1>1, <1>5 DEF Reader
<1>7. ASSUME NEW i \in 0..k PROVE at1(i) \in Honest(n, s, u)
  <2>1. i \in Nat /\ k - i \in Nat
    OBVIOUS
  <2>2. at1(i) \in AnyReader
    BY <2>1, <1>4 DEF Reader, AnyReader, ClientStates
  <2>3. at1(i).cat # "status" /\ at1(i).got = g(i) /\ (at1(i).cat = "idle" => i = k)
    BY DEF Reader
  <2>4. g(i).of = {n} /\ g(i).status = s /\ g(i).units = i
    BY <2>1, <1>4
  <2> HIDE DEF at1
  <2>5. QED BY <2>2, <2>3, <2>4 DEF Honest
<1>8. ASSUME NEW i \in 1..k PROVE Accepts(st[i - 1], D[i]) /\ st[i] = After(st[i - 1], D[i])
  <2>1. /\ i - 1 \in 0..k /\ i \in 0..k /\ i - 1 # k /\ i - 1 \in Nat /\ (i - 1) + 1 = i
        /\ (k - (i - 1) = 1 <=> i = k) /\ (k - (i - 1)) - 1 = k - i
    OBVIOUS
  <2>2. st[i - 1] = Reader("length", g(i - 1), k - (i - 1)) /\ D[i] = d /\ st[i] = at1(i)
    BY <2>1, <1>2, <1>6
  <2> HIDE DEF st
  <2>3. Accepts(st[i - 1], D[i])
    BY <2>2, <1>3 DEF Accepts, Reader
  <2>4. After(Reader("length", g(i - 1), k - (i - 1)), d)
          = Reader(IF k - (i - 1) = 1 THEN "idle" ELSE "length",
                   [[g(i - 1) EXCEPT !.of = @ \cup {n}] EXCEPT !.units = @ + 1], (k - (i - 1)) - 1)
    BY <1>3 DEF After, Reader
  <2>5. [[g(i - 1) EXCEPT !.of = @ \cup {n}] EXCEPT !.units = @ + 1] = g(i)
    BY <1>4, <2>1
  <2>6. After(Reader("length", g(i - 1), k - (i - 1)), d) = at1(i)
    BY <2>1, <2>4, <2>5
  <2>7. QED BY <2>2, <2>3, <2>6
<1>9. st \in [0..k -> Honest(n, s, u)]
  BY <1>7
<1> HIDE DEF st, at1
<1>10. CanRead(D, c, st[k], Honest(n, s, u))
  BY <1>2, <1>6, <1>8, <1>9, SMTT(30) DEF CanRead
<1>11. st[k] \in Honest(n, s, u) /\ st[k].cat = "idle"
  BY <1>6, <1>9
<1>12. QED BY <1>10, <1>11 DEF D

-----------------------------------------------------------------------------
(* Framing of responses: the client                                        *)

\* What a client that expects a line or data finds first is that.
LEMMA Finds ==
  ASSUME ConnTypes, NEW F, CanRead(down, Now, F, Known), down # <<>>
  PROVE  /\ Now \in Known /\ down[1] \in AnyItem /\ Accepts(Now, down[1])
         /\ CanRead(Tail(down), After(Now, down[1]), F, Known)
         /\ Now.cat \notin {"chunk", "length", "eof"} =>
              HasLine(down) /\ LineOf(down) = down[1] /\ AfterLine(down) = Tail(down)
         /\ cat # "idle"
<1>1. /\ Now \in Known /\ down[1] \in AnyItem /\ Accepts(Now, down[1])
      /\ CanRead(Tail(down), After(Now, down[1]), F, Known)
  BY ReadRest DEF ConnTypes
<1>2. ASSUME Now.cat \notin {"chunk", "length", "eof"}
      PROVE  HasLine(down) /\ LineOf(down) = down[1] /\ AfterLine(down) = Tail(down)
  <2>1. down[1].is # "data"
    BY <1>1, <1>2 DEF Accepts, Headers
  <2>2. /\ HasLine(down) /\ LineEnd(down) = 1 /\ LineOf(down) = down[1]
    BY <2>1, FirstLine DEF ConnTypes
  <2>3. AfterLine(down) = SubSeq(down, 1 + 1, Len(down))
    BY <2>2 DEF AfterLine
  <2>4. Tail(down) = SubSeq(down, 2, Len(down))
    BY TailFacts DEF ConnTypes
  <2>5. QED BY <2>2, <2>3, <2>4
<1>3. cat # "idle"
  BY <1>1 DEF Accepts, Now, Reader
<1>4. QED BY <1>1, <1>2, <1>3

\* It reads what is there, and the rest is what it was.
LEMMA DownReads ==
  ASSUME Control, DownFramed, Client!ClientSteps, UNCHANGED serverVars, clientEnd' = "open",
         \/ Client!ReadStatus \/ Client!ReadHeader \/ Client!ReadSize \/ Client!ReadChunk
         \/ Client!ReadFooter \/ Client!ReadTrailer \/ Client!ReadBody
  PROVE  DownFramed'
<1> DEFINE x == down[1]
<1>1. /\ UNCHANGED <<asked, serverEnd, broken, at, request, response, script, err, answers, meant>>
      /\ clientEnd = "open" /\ down # <<>>
      /\ cat \in {"status", "headers", "size", "chunk", "footer", "trailer", "length", "eof"}
  <2>1. asked' = asked /\ serverEnd' = serverEnd /\ broken' = broken
    BY ClientFrame
  <2>2. cat \in {"status", "headers", "size", "chunk", "footer", "trailer", "length", "eof"} /\ down # <<>>
    BY ClientText, NoLine DEF Client!ReadStatus, Client!ReadHeader, Client!ReadSize, Client!ReadChunk,
       Client!ReadFooter, Client!ReadTrailer, Client!ReadBody, Client!TakeLine
  <2>3. clientEnd = "open"
    BY <2>2 DEF Control, ClientControl
  <2>4. QED BY <2>1, <2>2, <2>3 DEF serverVars
<1>2. PICK F \in AnyReader :
        CanRead(down, Now, F, Known) /\ (Live /\ serverEnd = "open" => Matches(F))
  BY <1>1 DEF DownFramed
<1>3. /\ Now.cat = cat /\ Now.got = got /\ Now.left = left
  BY <1>1 DEF Now, Reader
<1>4. /\ Accepts(Now, x) /\ CanRead(Tail(down), After(Now, x), F, Known)
      /\ cat \notin {"chunk", "length", "eof"} =>
              HasLine(down) /\ LineOf(down) = x /\ AfterLine(down) = Tail(down)
      /\ Head(down) = x
  BY <1>1, <1>2, <1>3, Finds, TailFacts DEF Control, ConnTypes
<1>5. down' = Tail(down) /\ Now' = After(Now, x)
  <2>1. CASE Client!ReadStatus
    <3>1. cat = "status" /\ x.is = "status"
      BY <2>1, <1>3, <1>4 DEF Client!ReadStatus, Accepts
    <3>2. /\ down' = Tail(down) /\ cat' = "headers" /\ left' = left
          /\ got' = [[got EXCEPT !.of = @ \cup {x.re}] EXCEPT !.status = x.n]
      BY <2>1, <3>1, <1>4, ClientText DEF Client!ReadStatus, Client!TakeLine, Client!Line, Client!With
    <3>3. QED BY <3>1, <3>2, <1>3 DEF Now, After
  <2>2. CASE Client!ReadHeader
    <3>1. cat = "headers" /\ x.is \in Headers \cup {"blank"} /\ "blank" \notin Headers
      BY <2>2, <1>3, <1>4 DEF Client!ReadHeader, Accepts, Headers
    <3>2. /\ down' = Tail(down)
          /\ cat' = (IF x.is = "blank" THEN Client!BodyState(got) ELSE "headers")
          /\ left' = (IF x.is = "blank" THEN got.length ELSE left)
          /\ got' = [[got EXCEPT !.of = @ \cup {x.re}] EXCEPT
                       !.length  = IF x.is = "length" THEN x.n ELSE @,
                       !.chunked = @ \/ x.is = "chunked",
                       !.close   = @ \/ x.is = "close"]
      BY <2>2, <3>1, <1>4, ClientText DEF Client!ReadHeader, Client!TakeLine, Client!Line, Client!With
    <3>3. Client!BodyState(got) \in {"size", "length", "eof"}
      BY DEF Client!BodyState
    <3>4. Now' = Reader(cat', got', left')
      BY <3>2, <3>3 DEF Now
    <3>5. QED BY <3>1, <3>2, <3>4, <1>3 DEF After
  <2>3. CASE Client!ReadSize
    <3>1. cat = "size" /\ x.is = "size"
      BY <2>3, <1>3, <1>4 DEF Client!ReadSize, Accepts
    <3>2. /\ down' = Tail(down) /\ cat' = (IF x.n = 0 THEN "trailer" ELSE "chunk") /\ left' = x.n
          /\ got' = [got EXCEPT !.of = @ \cup {x.re}]
      BY <2>3, <3>1, <1>4, ClientText DEF Client!ReadSize, Client!TakeLine, Client!Line, Client!With
    <3>3. QED BY <3>1, <3>2, <1>3 DEF Now, After
  <2>4. CASE Client!ReadChunk
    <3>1. /\ cat = "chunk" /\ down' = Tail(down) /\ cat' = (IF left = 1 THEN "footer" ELSE "chunk")
          /\ left' = left - 1 /\ got' = [[got EXCEPT !.of = @ \cup {x.re}] EXCEPT !.units = @ + 1]
      BY <2>4, <1>4 DEF Client!ReadChunk, Client!With
    <3>2. Now' = Reader(cat', got', left')
      BY <3>1 DEF Now
    <3>3. After(Now, x) = Reader(IF left = 1 THEN "footer" ELSE "chunk", got', left - 1)
      BY <3>1, <1>3 DEF After
    <3>4. QED BY <3>1, <3>2, <3>3
  <2>5. CASE Client!ReadFooter
    <3>1. cat = "footer" /\ x.is = "blank"
      BY <2>5, <1>3, <1>4 DEF Client!ReadFooter, Accepts
    <3>2. /\ down' = Tail(down) /\ cat' = "size" /\ left' = left
          /\ got' = [got EXCEPT !.of = @ \cup {x.re}]
      BY <2>5, <3>1, <1>4, ClientText DEF Client!ReadFooter, Client!TakeLine, Client!Line, Client!With
    <3>3. Now' = Reader("size", got', left')
      BY <3>2 DEF Now
    <3>4. After(Now, x) = Reader("size", [got EXCEPT !.of = @ \cup {x.re}], left)
      BY <3>1, <1>3 DEF After
    <3>5. QED BY <3>2, <3>3, <3>4
  <2>6. CASE Client!ReadTrailer
    <3>1. cat = "trailer" /\ x.is = "blank"
      BY <2>6, <1>3, <1>4 DEF Client!ReadTrailer, Accepts
    <3>2. /\ down' = Tail(down) /\ cat' = "idle" /\ left' = left
          /\ got' = [got EXCEPT !.of = @ \cup {x.re}]
      BY <2>6, <3>1, <1>4, ClientText DEF Client!ReadTrailer, Client!TakeLine, Client!Line, Client!With,
         Client!Complete, Client!RequestReturns, Client!Returns
    <3>3. Now' = Reader("idle", got', left')
      BY <3>2 DEF Now
    <3>4. After(Now, x) = Reader("idle", [got EXCEPT !.of = @ \cup {x.re}], left)
      BY <3>1, <1>3 DEF After
    <3>5. QED BY <3>2, <3>3, <3>4
  <2>7. CASE Client!ReadBody
    <3>1. /\ cat \in {"length", "eof"} /\ down' = Tail(down)
          /\ got' = [[got EXCEPT !.of = @ \cup {x.re}] EXCEPT !.units = @ + 1]
          /\ cat = "eof" => cat' = "eof" /\ left' = left
          /\ cat = "length" => cat' = (IF left = 1 THEN "idle" ELSE "length") /\ left' = left - 1
      BY <2>7, <1>4 DEF Client!ReadBody, Client!With, Client!Complete, Client!RequestReturns, Client!Returns
    <3>2. Now' = Reader(cat', got', left')
      BY <3>1 DEF Now
    <3>3. /\ cat = "eof" => After(Now, x) = Reader("eof", got', left)
          /\ cat = "length" => After(Now, x) = Reader(IF left = 1 THEN "idle" ELSE "length", got', left - 1)
      BY <3>1, <1>3 DEF After
    <3>4. QED BY <3>1, <3>2, <3>3
  <2>8. QED BY <2>1, <2>2, <2>3, <2>4, <2>5, <2>6, <2>7
<1>6. Known' = Known
  BY <1>1 DEF Known, Honest
<1>7. CanRead(down', Now', F, Known')
  BY <1>4, <1>5, <1>6
<1>8. Live' /\ serverEnd' = "open" => Matches(F)'
  BY <1>1, <1>2 DEF Live, Matches, Wrote, Serves
<1>9. CanRead(down, Now, F, Known)'
  BY <1>7 DEF CanRead
<1>10. QED BY <1>8, <1>9 DEF DownFramed

\* Nothing else comes.
LEMMA DownClient ==
  ASSUME Control, DownFramed, Client!ClientSteps, UNCHANGED serverVars
  PROVE  DownFramed'
<1> SUFFICES ASSUME clientEnd' = "open" PROVE DownFramed'
  BY DEF DownFramed
<1>1. UNCHANGED <<asked, serverEnd, broken, at, request, response, script, err, answers, meant>>
  BY ClientFrame DEF serverVars
<1>2. Known' = Known
  BY <1>1 DEF Known, Honest
<1>3. CASE \/ Client!ReadStatus \/ Client!ReadHeader \/ Client!ReadSize \/ Client!ReadChunk
           \/ Client!ReadFooter \/ Client!ReadTrailer \/ Client!ReadBody
  BY <1>3, DownReads
<1>4. CASE Client!SendHead \/ Client!SendBody
  <2>1. /\ clientEnd' = clientEnd /\ down' = down /\ got' = got /\ left' = left
        /\ cat \in {"send", "upload"} /\ cat' \in {"upload", "status"}
    BY <1>4 DEF Client!SendHead, Client!SendBody
  <2>2. Now' = Now
    BY <2>1 DEF Now
  <2>3. PICK F \in AnyReader :
          CanRead(down, Now, F, Known) /\ (Live /\ serverEnd = "open" => Matches(F))
    BY <2>1 DEF DownFramed
  <2>4. CanRead(down', Now', F, Known')
    BY <1>2, <2>1, <2>2, <2>3
  <2>5. CanRead(down, Now, F, Known)'
    BY <2>4 DEF CanRead
  <2>6. Live' /\ serverEnd' = "open" => Matches(F)'
    BY <1>1, <2>1, <2>3 DEF Live, Matches, Wrote, Serves
  <2>7. QED BY <2>5, <2>6 DEF DownFramed
<1>5. CASE Client!HeadersEof
  <2>1. /\ clientEnd = "open" /\ serverEnd = "closed" /\ ~HasLine(down) /\ cat = "headers"
        /\ down' = down /\ cat' = Client!BodyState(got) /\ left' = got.length /\ got' = got
    BY <1>5, ClientText DEF Client!HeadersEof, EofLine, Client!connVars
  <2>2. PICK F \in AnyReader : CanRead(down, Now, F, Known)
    BY <2>1 DEF DownFramed
  <2>3. down = <<>>
    <3>1. Now.cat = "headers"
      BY <2>1 DEF Now, Reader
    <3>2. QED BY <2>1, <2>2, <3>1, Finds DEF Control
  <2>4. Now \in Known
    BY <2>2, <2>3, ReadNothing
  <2> DEFINE G == Reader(Client!BodyState(got), got, got.length)
  <2>5. Client!BodyState(got) \in {"size", "length", "eof"}
    BY DEF Client!BodyState
  <2>6. Now' = G
    BY <2>1, <2>5 DEF Now
  <2>7. G \in Known /\ G \in AnyReader
    <3>1. /\ Now.cat = "headers" /\ Now.got = got /\ Waiting.cat = "status"
          /\ G.cat = Client!BodyState(got) /\ G.got = got
      BY <2>1 DEF Now, Reader, Waiting
    <3>2. G \in AnyReader
      <4>1. got \in AnyGot /\ got.length \in Nat
        BY DEF Control, ClientTypes, AnyGot
      <4>2. QED BY <2>5, <4>1 DEF Reader, AnyReader, ClientStates
    <3>3. got.status # 0
      BY <2>4, <3>1 DEF Known, Honest
    <3> HIDE DEF G
    <3>4. QED BY <2>4, <2>5, <3>1, <3>2, <3>3 DEF Known, Honest
  <2>8. CanRead(down', Now', G, Known')
    BY <1>2, <2>1, <2>3, <2>6, <2>7, ReadNothing
  <2>9. PICK H \in AnyReader : H = G
    BY <2>7
  <2>10. CanRead(down, Now, H, Known)'
    BY <2>8, <2>9 DEF CanRead
  <2>11. serverEnd' # "open"
    BY <1>1, <2>1
  <2>12. QED BY <2>10, <2>11 DEF DownFramed
<1>6. CASE Client!ConnectFails \/ Client!SendFails \/ Client!ReadEof \/ Client!ReadFails
  <2>1. clientEnd' = "closed"
    BY <1>6 DEF Client!ConnectFails, Client!SendFails, Client!ReadEof, Client!ReadFails,
       Client!RequestReturns, Client!Returns
  <2>2. QED BY <2>1
<1>7. QED BY <1>3, <1>4, <1>5, <1>6 DEF Client!ClientSteps

\* A connection begins with nothing, and so does a response.
LEMMA DownWaiting ==
  ASSUME down' = <<>>, Now' = Waiting, (Live /\ serverEnd = "open" => Matches(Waiting))'
  PROVE  DownFramed'
<1>1. Waiting \in AnyReader /\ Waiting \in Known'
  <2>1. Waiting \in AnyReader
    BY DEF Waiting, Reader, AnyReader, AnyGot, ClientStates, Client!Nothing
  <2>2. Waiting.cat = "status" /\ Waiting.got.status = 0
    BY DEF Waiting, Reader, Client!Nothing
  <2>3. \A n, s, u : Waiting \in Honest(n, s, u)
    BY <2>1, <2>2 DEF Honest
  <2>4. Known' = Honest(Len(asked)', answers'[Len(asked)'], meant'[Len(asked)'])
    BY DEF Known, Honest
  <2>5. QED BY <2>1, <2>3, <2>4
<1>2. CanRead(down', Now', Waiting, Known')
  BY <1>1, ReadNothing
<1>3. CanRead(down, Now, Waiting, Known)'
  BY <1>2 DEF CanRead
<1>4. (\E F \in AnyReader : CanRead(down, Now, F, Known) /\ (Live /\ serverEnd = "open" => Matches(F)))'
  <2>1. Waiting' = Waiting
    BY DEF Waiting, Client!Nothing, Reader
  <2>2. QED BY <1>1, <1>3, <2>1
<1>5. QED BY <1>4 DEF DownFramed

\* On a new connection, nothing is under way.
LEMMA DownConnect ==
  ASSUME Control, Asks, Connect
  PROVE  DownFramed'
<1>1. /\ cat = "connect" /\ cat' = "send" /\ down' = <<>> /\ got' = got /\ left' = left
      /\ at' = "request" /\ asked' = asked /\ answers' = answers
  BY DEF Connect, Client!Connect, ServerStart
<1>2. Now' = Waiting
  BY <1>1 DEF Now, Asks, Waiting
<1>3. answers[Len(asked)] = 0
  <2>1. Len(asked) \in 1..MaxRequests /\ Len(asked) > Said
    <3>1. Len(asked) > 0 /\ Said = Len(asked) - 1
      BY <1>1 DEF Control, ClientControl, Said
    <3>2. QED BY <3>1, SaidFacts
  <2>2. QED BY <2>1 DEF Control, Numbers
<1>4. Matches(Waiting)'
  BY <1>1, <1>3 DEF Matches, Wrote, Serves, Waiting, Reader, Client!Nothing
<1>5. QED BY <1>1, <1>2, <1>4, DownWaiting

\* A new call waits for a response, of which nothing is there yet.
LEMMA DownCall ==
  ASSUME Uploads, DownFramed, NEW q \in Requests[Len(asked) + 1], Len(asked) < MaxRequests, Call(q)
  PROVE  DownFramed'
<1> DEFINE n == Len(asked)
<1> SUFFICES ASSUME clientEnd' = "open" PROVE DownFramed'
  BY DEF DownFramed
<1>1. /\ UNCHANGED <<down, clientEnd, serverEnd, broken, at, request, response, script, err, answers>>
      /\ asked' = Append(asked, q) /\ Control /\ AskedTypes /\ cat = "idle" /\ cat' = "send"
      /\ got' = Client!Nothing /\ left' = 0
  BY DEF Call, Client!Call, serverVars, Uploads, Control
<1>2. n' = n + 1 /\ n \in Nat /\ n + 1 \in 1..MaxRequests /\ Said = n
  BY <1>1, MessagesKept, SizesAssumption DEF Said
<1>3. PICK F \in AnyReader :
        CanRead(down, Now, F, Known) /\ (Live /\ serverEnd = "open" => Matches(F))
  BY <1>1 DEF DownFramed
<1>4. down = <<>>
  BY <1>1, <1>3, Finds DEF Control
<1>5. F = Now
  BY <1>3, <1>4, ReadNothing
<1>6. Now' = Waiting
  BY <1>1 DEF Now, Waiting
<1>7. answers[n + 1] = 0
  BY <1>1, <1>2 DEF Control, Numbers
<1>8. ASSUME Live', serverEnd' = "open" PROVE Matches(Waiting)'
  <2>1. Live /\ serverEnd = "open" /\ Matches(Now)
    BY <1>1, <1>3, <1>5, <1>8 DEF Live
  <2>2. Serves => /\ request.n = n /\ Answering /\ response.headers /\ ~response.chunked
    BY <1>1, <2>1, Idle
  <2>3. Serves => at \in {"rest", "finish", "end"} /\ script = <<>>
    BY <1>1, <2>2 DEF Answering, Control, ScriptControl
  <2>4. request'.n = request.n /\ (Serves' <=> Serves) /\ response' = response /\ script' = script /\ at' = at
    BY <1>1 DEF Serves
  <2>5. Waiting' = Waiting
    BY DEF Waiting, Client!Nothing, Reader
  <2>6. Serves => request.n # n + 1 /\ at # "request"
    BY <1>2, <2>2 DEF Serves
  <2>7. answers'[Len(asked')] = 0 /\ Len(asked') = n + 1
    BY <1>1, <1>2, <1>7
  <2> HIDE DEF n
  <2>8. QED BY <2>2, <2>3, <2>4, <2>5, <2>6, <2>7 DEF Matches, Wrote
<1>9. QED BY <1>1, <1>4, <1>6, <1>8, DownWaiting

\* The network takes some of it away.
LEMMA DownBreaks ==
  ASSUME Control, DownFramed, NetworkStep
  PROVE  DownFramed'
<1>1. /\ UNCHANGED <<asked, clientEnd, answers, meant, cat, got, left>> /\ broken'
      /\ \E k \in 0..Len(down) : down' = SubSeq(down, 1, k)
  BY DEF NetworkStep, Breaks, serverVars, clientVars
<1>2. PICK k \in 0..Len(down) : down' = SubSeq(down, 1, k)
  BY <1>1
<1>3. Known' = Known /\ Now' = Now
  BY <1>1 DEF Known, Honest, Now
<1>4. ASSUME clientEnd = "open" PROVE \E G \in AnyReader : CanRead(down, Now, G, Known)'
  <2>1. PICK F \in AnyReader : CanRead(down, Now, F, Known)
    BY <1>4 DEF DownFramed
  <2>2. PICK G \in Known : CanRead(SubSeq(down, 1, k), Now, G, Known)
    BY <2>1, ReadTake DEF Control, ConnTypes
  <2>3. G \in AnyReader
    BY <2>2 DEF Known, Honest
  <2>4. CanRead(down', Now', G, Known')
    BY <1>2, <1>3, <2>2
  <2>5. QED BY <2>3, <2>4 DEF CanRead
<1>5. QED BY <1>1, <1>4 DEF DownFramed, Live

\* The client reads on when the server has gone, and when nothing happens.
LEMMA DownCrash ==
  ASSUME DownFramed, UNCHANGED <<asked, down, clientEnd, answers, meant, cat, got, left>>,
         serverEnd' # "open"
  PROVE  DownFramed'
<1>1. Known' = Known /\ Now' = Now
  BY DEF Known, Honest, Now
<1>2. \A F : CanRead(down, Now, F, Known)' <=> CanRead(down, Now, F, Known)
  BY <1>1 DEF CanRead
<1>3. QED BY <1>2 DEF DownFramed

-----------------------------------------------------------------------------
(* Framing of responses: the server                                        *)

\* What comes while the task waits is a request from its beginning, and the last one if both
\* ends go on.
LEMMA NextRequest ==
  ASSUME Uploads, Waits, up # <<>>
  PROVE  /\ up[1].is = "request"
         /\ Live => up[1].n = Len(asked) /\ answers[Len(asked)] = 0
<1>1. Control /\ AskedTypes /\ up \in Seq(AnyItem)
  BY DEF Uploads, Control, ConnTypes
<1>2. PICK j \in 1..Said : Queued(up, j)
  BY DEF Waits
<1>3. PICK m \in 1..MessageLen(j) : Part(up, j, 0, m) /\ (Live => j = Len(asked))
  BY <1>2 DEF Queued
<1>4. j \in 1..Len(asked)
  BY <1>1, SaidFacts
<1>5. MessageLen(j) \in Nat /\ Message(j)[1] = Item("request", j, j)
  BY <1>1, <1>4, MessageFacts
<1>6. Len(up) = m - 0 /\ m >= 1 /\ \A x \in 1..m - 0 : up[x] = Message(j)[0 + x]
  BY <1>3, <1>5 DEF Part
<1>7. up[1] = Message(j)[0 + 1] /\ 1 \in 1..Len(up)
  BY <1>5, <1>6
<1>8. up[1].is = "request" /\ up[1].n = j
  BY <1>5, <1>7 DEF Item
<1>9. answers[j] = 0
  BY <1>7, <1>8 DEF Uploads, UpOrder
<1>10. QED BY <1>3, <1>8, <1>9

\* The task reads the request line, and the client waits for the response to it.
LEMMA MatchesRequest ==
  ASSUME Uploads, UpFramed, ReadRequest, Live, serverEnd = "open", NEW F, Matches(F)
  PROVE  Matches(F)'
<1>1. up # <<>> /\ at = "request" /\ up \in Seq(AnyItem)
  BY NoLine DEF ReadRequest, Uploads, Control, ConnTypes
<1>2. Waits
  BY <1>1 DEF UpFramed, Dead, Doomed, Within, Ahead, Answering, Serves
<1>3. up[1].is = "request" /\ up[1].n = Len(asked) /\ answers[Len(asked)] = 0
  BY <1>1, <1>2, NextRequest
<1>4. LineOf(up) = up[1]
  BY <1>1, <1>3, FirstLine
<1>5. request'.n = Len(asked) /\ asked' = asked /\ at' \in {"finish", "headers", "rest"}
  BY <1>3, <1>4 DEF ReadRequest, NoRequest
<1>6. response'.status = 0 /\ ~response'.headers /\ ~response'.chunked
  BY <1>1 DEF ReadRequest, NoResponse, Uploads, Control, RequestControl, Serves
<1>7. F = Waiting
  BY <1>1, <1>3 DEF Matches, Wrote
<1>8. Len(asked) \in Nat
  BY LenProperties DEF Uploads, Control, AskedTypes
<1>9. Waiting' = Waiting /\ Waiting.cat = "status"
  BY DEF Waiting, Client!Nothing, Reader
<1>10. QED BY <1>5, <1>6, <1>7, <1>8, <1>9 DEF Matches, Wrote

\* It reads the rest, handles the request and concludes.
LEMMA MatchesOnward ==
  ASSUME Uploads, ServerNext, ~ReadRequest, ~EndResponse, at \notin {"respond", "error"},
         serverEnd' = "open", NEW F, Matches(F)
  PROVE  Matches(F)'
<1>1. Control /\ request \in AnyServed /\ response \in AnyResponse
  BY DEF Uploads, Control, ServerTypes
<1>2. Serves /\ Serves' /\ asked' = asked /\ at' # "request"
  <2>1. at # "request"
    BY DEF ServerNext, ReadRequest, NoMoreRequests, Hangup, ReadHeader, ReadEndOfHeaders, ReadBadHeader,
       ReadHeaderFails, StaticGet, StaticPut, ReadFile, ReadFileFails, DnsParams, ReadForm,
       ReadFormFails, Lookup, Write, WriteShrunkFile, WriteFails, Conclude, EndResponse
  <2>2. at # "closed"
    BY DEF ServerNext, ReadRequest, NoMoreRequests, ReadHeader, ReadEndOfHeaders, ReadBadHeader,
       ReadHeaderFails, StaticGet, StaticPut, ReadFile, ReadFileFails, DnsParams, ReadForm,
       ReadFormFails, Lookup, Write, WriteShrunkFile, WriteFails, Conclude, EndResponse
  <2>3. at' # "closed"
    BY <1>1 DEF ServerNext, ReadRequest, NoMoreRequests, Hangup, ReadHeader, ReadEndOfHeaders, ReadBadHeader,
       ReadHeaderFails, StaticGet, StaticPut, ReadFile, ReadFileFails, DnsParams, ReadForm,
       ReadFormFails, Lookup, Write, WriteShrunkFile, WriteFails, Conclude, EndResponse,
       HandlerReturns, Respond, Rest, HeadersEnd
  <2>4. at' # "request"
    BY <2>1, <1>1 DEF ServerNext, ReadRequest, NoMoreRequests, Hangup, ReadHeader, ReadEndOfHeaders, ReadBadHeader,
       ReadHeaderFails, StaticGet, StaticPut, ReadFile, ReadFileFails, DnsParams, ReadForm,
       ReadFormFails, Lookup, Write, WriteShrunkFile, WriteFails, Conclude, EndResponse,
       HandlerReturns, Respond, Rest, HeadersEnd
  <2>5. QED BY <2>1, <2>2, <2>3, <2>4, ServerFrame DEF Serves
<1>3. /\ answers' = answers /\ meant' = meant /\ request'.n = request.n /\ request'.handler = request.handler
      /\ response'.status = response.status /\ response'.headers = response.headers
      /\ response'.chunked = response.chunked
  BY <1>1, <1>2, NotWriting
<1>4. \/ at \in {"headers", "handle", "body", "lookup"}
      \/ /\ at \in {"rest", "finish"} /\ err' = err
         /\ (script' = script /\ at' \in {"rest", "finish", "end"}) \/ response.status = 0
         /\ at = "rest" => script' = script /\ at' \in {"rest", "finish", "end"}
  BY <1>1, <1>2 DEF ServerNext, NoMoreRequests, Hangup, ReadHeader, ReadEndOfHeaders, ReadBadHeader,
       ReadHeaderFails, StaticGet, StaticPut, ReadFile, ReadFileFails, DnsParams, ReadForm,
       ReadFormFails, Lookup, Write, WriteShrunkFile, WriteFails, Conclude, HeadersEnd
<1>5. /\ at \in {"headers", "handle", "body", "lookup"} => response.status = 0 /\ err >= 0
      /\ response.status = 0 => ~response.headers /\ ~response.chunked
      /\ err \in Int /\ err' \in Int
  <2>1. err \in {-1, 0} \cup Statuses /\ (err < 0 => at \in {"rest", "finish"})
    BY <1>1 DEF Control, ServerTypes, ResponseControl
  <2>2. at \in {"headers", "handle", "body", "lookup"} => response.status = 0
    BY <1>1 DEF Control, ResponseControl
  <2>3. err' \in Int
    BY <2>1 DEF ServerNext, NoMoreRequests, Hangup, ReadHeader, ReadEndOfHeaders, ReadBadHeader,
       ReadHeaderFails, StaticGet, StaticPut, ReadFile, ReadFileFails, DnsParams, ReadForm,
       ReadFormFails, Lookup, Write, WriteShrunkFile, WriteFails, Conclude, HeadersEnd,
       HandlerReturns, Respond, Statuses
  <2>4. QED BY <1>1, <2>1, <2>2, <2>3 DEF Control, ResponseControl, Statuses
<1>6. Waiting' = Waiting /\ Waiting.cat = "status"
  BY DEF Waiting, Client!Nothing, Reader
<1>7. CASE at \in {"headers", "handle", "body", "lookup"}
  <2>1. response.status = 0 /\ err >= 0 /\ ~response.headers /\ ~response.chunked
    BY <1>5, <1>7
  <2>2. ~(request.n < Len(asked))
    BY <1>2, <2>1 DEF Matches, Wrote
  <2>3. request.n = Len(asked) => F = Waiting
    BY <1>2, <2>1 DEF Matches, Wrote
  <2>4. QED BY <1>2, <1>3, <1>6, <2>1, <2>2, <2>3 DEF Matches, Wrote
<1>8. CASE at \in {"rest", "finish"}
  <2>1. err' = err
    BY <1>4, <1>8
  <2>2. CASE script' = script /\ at' \in {"rest", "finish", "end"}
    BY <1>2, <1>3, <1>6, <2>1, <2>2 DEF Matches, Wrote
  <2>3. CASE response.status = 0
    <3>1. ~(request.n < Len(asked))
      BY <1>2, <1>5, <2>3 DEF Matches, Wrote
    <3>2. QED BY <1>2, <1>3, <1>5, <1>6, <2>1, <2>3, <3>1 DEF Matches, Wrote
  <2>4. QED BY <1>4, <1>8, <2>2, <2>3
<1>9. QED BY <1>4, <1>7, <1>8

\* Two items are one and another.
LEMMA Pair ==
  ASSUME NEW x \in AnyItem, NEW y \in AnyItem
  PROVE  <<x, y>> = <<x>> \o <<y>> /\ <<x, y>> \in Seq(AnyItem) /\ <<x>> \in Seq(AnyItem)
<1>1. <<x>> \in Seq(AnyItem) /\ <<y>> \in Seq(AnyItem) /\ <<x, y>> \in Seq(AnyItem)
  OBVIOUS
<1>2. <<x>> \o <<y>> = <<x, y>>
  <2> DEFINE s == <<x>>
             t == <<y>>
             w == <<x, y>>
             v == s \o t
  <2>1. Len(s) = 1 /\ Len(t) = 1 /\ Len(w) = 2 /\ s[1] = x /\ t[1] = y /\ w[1] = x /\ w[2] = y
    OBVIOUS
  <2>2. s \in Seq(AnyItem) /\ t \in Seq(AnyItem) /\ w \in Seq(AnyItem)
    BY <1>1
  <2> HIDE DEF s, t, w
  <2>3. /\ v \in Seq(AnyItem) /\ Len(v) = Len(s) + Len(t)
        /\ \A i \in 1..Len(s) : v[i] = s[i]
        /\ \A i \in 1..Len(t) : v[Len(s) + i] = t[i]
    BY <2>2, JoinFacts
  <2> HIDE DEF v
  <2>4. Len(v) = 2 /\ v[1] = x /\ v[1 + 1] = y
    BY <2>1, <2>3
  <2>5. \A i \in 1..Len(v) : v[i] = w[i]
    BY <2>1, <2>4
  <2>6. v = w
    BY <2>1, <2>2, <2>3, <2>4, <2>5, SeqEqual
  <2>7. QED BY <2>6 DEF v, w, s, t
<1>3. QED BY <1>1, <1>2

\* The status line, and the header that comes with it.
LEMMA WriteStatus ==
  ASSUME NEW n \in Nat, NEW s \in Nat \ {0}, NEW u
  PROVE  \E G \in Honest(n, s, u) :
           /\ CanRead(<<Item("status", s, n), Item("header", 0, n)>>, Waiting, G, Honest(n, s, u))
           /\ G.cat = "headers" /\ G.got.length = 0 /\ ~G.got.chunked /\ G.got.units = 0
<1> DEFINE x == Item("status", s, n)
           y == Item("header", 0, n)
           K == Honest(n, s, u)
<1>1. x \in AnyItem /\ y \in AnyItem /\ x.is = "status" /\ x.n = s /\ x.re = n /\ y.is = "header" /\ y.re = n
  BY ItemTypes DEF Item, Lines, Headers
<1> HIDE DEF x, y
<1>2. /\ Waiting \in K /\ Waiting \in AnyReader /\ Waiting.cat = "status" /\ Waiting.got.length = 0
      /\ ~Waiting.got.chunked /\ Waiting.got.units = 0
  <2>1. /\ Waiting \in AnyReader /\ Waiting.cat = "status" /\ Waiting.got.length = 0
        /\ ~Waiting.got.chunked /\ Waiting.got.units = 0 /\ Waiting.got.status = 0
    BY DEF Waiting, Reader, AnyReader, AnyGot, ClientStates, Client!Nothing
  <2>2. QED BY <2>1 DEF Honest
<1>3. PICK a : a = After(Waiting, x)
  OBVIOUS
<1>4. Accepts(Waiting, x)
  BY <1>1, <1>2 DEF Accepts
<1>5. /\ a \in AnyReader /\ a.cat = "headers" /\ a.got.length = 0 /\ ~a.got.chunked /\ a.got.units = 0
  BY <1>1, <1>2, <1>3, <1>4, AfterFacts
<1>6. a \in K /\ CanRead(<<x>>, Waiting, a, K)
  BY <1>1, <1>2, <1>3, <1>4, <1>5, ReadItem
<1>7. PICK b : b = After(a, y)
  OBVIOUS
<1>8. Accepts(a, y)
  BY <1>1, <1>5 DEF Accepts, Headers
<1>9. /\ b.cat = "headers" /\ b.got.length = 0 /\ ~b.got.chunked /\ b.got.units = 0
  BY <1>1, <1>5, <1>7, <1>8, AfterFacts
<1>10. b \in K /\ CanRead(<<y>>, a, b, K)
  BY <1>1, <1>5, <1>6, <1>7, <1>8, <1>9, ReadItem
<1>11. CanRead(<<x, y>>, Waiting, b, K)
  BY <1>1, <1>6, <1>10, Pair, ReadNext
<1>12. QED BY <1>9, <1>10, <1>11 DEF x, y

\* One more header, or the end of the headers.
LEMMA WriteHeader ==
  ASSUME NEW n \in Nat, NEW s \in Nat \ {0}, NEW u, NEW F \in Honest(n, s, u), F.cat = "headers",
         NEW is \in Headers \cup {"blank"}, NEW k \in Nat
  PROVE  \E G \in Honest(n, s, u) :
           /\ CanRead(<<Item(is, k, n)>>, F, G, Honest(n, s, u))
           /\ G.got.units = F.got.units
           /\ G.got.length = IF is = "length" THEN k ELSE F.got.length
           /\ G.got.chunked <=> F.got.chunked \/ is = "chunked"
           /\ is # "blank" => G.cat = "headers"
           /\ is = "blank" => G.cat = Client!BodyState(F.got) /\ G.left = F.got.length
<1> DEFINE x == Item(is, k, n)
           K == Honest(n, s, u)
<1>1. x \in AnyItem /\ x.is = is /\ x.n = k /\ x.re = n /\ is # "data"
  BY ItemTypes DEF Item, Lines, Headers
<1> HIDE DEF x
<1>2. F \in AnyReader /\ F.got.units \in Nat
  BY DEF Honest, AnyReader, AnyGot
<1>3. PICK a : a = After(F, x)
  OBVIOUS
<1>4. Accepts(F, x)
  BY <1>1 DEF Accepts
<1>5. /\ a.got.units = F.got.units + 0
      /\ a.got.length = IF is = "length" THEN k ELSE F.got.length
      /\ a.got.chunked <=> F.got.chunked \/ is = "chunked"
      /\ is # "blank" => a.cat = "headers"
      /\ is = "blank" => a.cat = Client!BodyState(F.got) /\ a.left = F.got.length
  BY <1>1, <1>2, <1>3, <1>4, AfterFacts
<1>6. a.cat # "idle"
  BY <1>5 DEF Client!BodyState
<1>7. a \in K /\ CanRead(<<x>>, F, a, K)
  BY <1>1, <1>3, <1>4, <1>6, ReadItem
<1>8. QED BY <1>2, <1>5, <1>7 DEF x

\* One byte of data.
LEMMA OneByte ==
  ASSUME NEW n \in Nat
  PROVE  Data(1, n) = <<Item("data", 0, n)>>
<1> DEFINE x == Item("data", 0, n)
           D == Data(1, n)
           w == <<x>>
<1>1. x \in AnyItem
  BY ItemTypes
<1>2. D \in Seq(AnyItem) /\ Len(D) = 1 /\ \A i \in 1..1 : D[i] = x
  BY DataFacts
<1> HIDE DEF D, x
<1>3. w \in Seq(AnyItem) /\ Len(w) = 1 /\ w[1] = x
  BY <1>1
<1> HIDE DEF w
<1>4. \A i \in 1..Len(D) : D[i] = w[i]
  BY <1>2, <1>3
<1>5. D = w
  BY <1>2, <1>3, <1>4, SeqEqual
<1>6. QED BY <1>5 DEF D, w, x

\* Any other item, from a reader that takes it and does not become idle.
LEMMA WriteItem ==
  ASSUME NEW n \in Nat, NEW s \in Nat \ {0}, NEW u, NEW F \in Honest(n, s, u),
         NEW is \in {"size", "blank", "data"}, NEW k \in Nat, NEW x, x = Item(is, k, n),
         F.cat \in {"size", "chunk", "footer", "trailer", "eof"}, Accepts(F, x),
         F.cat = "chunk" => F.left > 0,
         F.cat = "trailer" => F.got.units = u
  PROVE  \E G \in Honest(n, s, u) :
           /\ x \in AnyItem /\ CanRead(<<x>>, F, G, Honest(n, s, u))
           /\ G.got.units = F.got.units + (IF is = "data" THEN 1 ELSE 0)
           /\ F.cat = "size" => G.cat = (IF k = 0 THEN "trailer" ELSE "chunk") /\ G.left = k
           /\ F.cat = "chunk" /\ F.left = 1 => G.cat = "footer"
           /\ F.cat = "footer" => G.cat = "size"
           /\ F.cat = "trailer" => G.cat = "idle"
           /\ F.cat = "eof" => G.cat = "eof"
<1> DEFINE K == Honest(n, s, u)
<1>1. x \in AnyItem /\ x.is = is /\ x.n = k /\ x.re = n
  BY ItemTypes DEF Item, Lines
<1>2. F \in AnyReader /\ F.got.units \in Nat
  BY DEF Honest, AnyReader, AnyGot
<1>3. PICK a : a = After(F, x)
  OBVIOUS
<1>4. /\ a.got.units = F.got.units + (IF is = "data" THEN 1 ELSE 0)
      /\ F.cat = "size" => a.cat = (IF k = 0 THEN "trailer" ELSE "chunk") /\ a.left = k
      /\ F.cat = "chunk" => a.cat = (IF F.left = 1 THEN "footer" ELSE "chunk")
      /\ F.cat = "footer" => a.cat = "size"
      /\ F.cat = "trailer" => a.cat = "idle"
      /\ F.cat = "eof" => a.cat = "eof"
  BY <1>1, <1>2, <1>3, AfterFacts
<1>5. a.cat = "idle" => a.got.units = u
  <2>1. a.cat = "idle" => F.cat = "trailer"
    BY <1>4
  <2>2. F.cat = "trailer" => is = "blank"
    BY <1>1 DEF Accepts
  <2>3. QED BY <1>2, <1>4, <2>1, <2>2
<1>6. a \in K /\ CanRead(<<x>>, F, a, K)
  BY <1>1, <1>3, <1>5, ReadItem
<1>7. QED BY <1>1, <1>4, <1>6

\* A chunk of one byte.
LEMMA WriteChunk ==
  ASSUME NEW n \in Nat, NEW s \in Nat \ {0}, NEW u, NEW F \in Honest(n, s, u), F.cat = "size"
  PROVE  /\ Chunk(1, n) \in Seq(AnyItem)
         /\ \E G \in Honest(n, s, u) :
              /\ CanRead(Chunk(1, n), F, G, Honest(n, s, u))
              /\ G.cat = "size" /\ G.got.units = F.got.units + 1
<1> DEFINE x == Item("size", 1, n)
           y == Item("data", 0, n)
           z == Item("blank", 0, n)
           K == Honest(n, s, u)
<1>1. x.is = "size" /\ y.is = "data" /\ z.is = "blank"
  BY DEF Item
<1>2. Chunk(1, n) = <<x>> \o <<y>> \o <<z>>
  BY OneByte DEF Chunk
<1>0. x = Item("size", 1, n) /\ y = Item("data", 0, n) /\ z = Item("blank", 0, n)
  OBVIOUS
<1> HIDE DEF x, y, z
<1>3. PICK A \in K : /\ x \in AnyItem /\ CanRead(<<x>>, F, A, K) /\ A.cat = "chunk" /\ A.left = 1
                     /\ A.got.units = F.got.units + 0
  <2>1. Accepts(F, x)
    BY <1>1 DEF Accepts
  <2>2. QED BY <1>0, <2>1, WriteItem
<1>4. PICK B \in K : y \in AnyItem /\ CanRead(<<y>>, A, B, K) /\ B.cat = "footer" /\ B.got.units = A.got.units + 1
  <2>1. Accepts(A, y)
    BY <1>1, <1>3 DEF Accepts
  <2>2. QED BY <1>0, <1>3, <2>1, WriteItem
<1>5. PICK C \in K : z \in AnyItem /\ CanRead(<<z>>, B, C, K) /\ C.cat = "size" /\ C.got.units = B.got.units + 0
  <2>1. Accepts(B, z)
    BY <1>1, <1>4 DEF Accepts
  <2>2. QED BY <1>0, <1>4, <2>1, WriteItem
<1>6. <<x>> \in Seq(AnyItem)
  BY <1>3
<1>7. <<x>> \o <<y>> \in Seq(AnyItem) /\ CanRead(<<x>> \o <<y>>, F, B, K)
  BY <1>3, <1>4, <1>6, ReadNext
<1>8. <<x>> \o <<y>> \o <<z>> \in Seq(AnyItem) /\ CanRead(<<x>> \o <<y>> \o <<z>>, F, C, K)
  BY <1>5, <1>7, ReadNext
<1>9. F.got.units \in Nat
  BY DEF Honest, AnyReader, AnyGot
<1>10. C.got.units = F.got.units + 1
  <2>1. A.got.units = F.got.units
    BY <1>3, <1>9
  <2>2. B.got.units = F.got.units + 1
    BY <1>4, <2>1
  <2>3. QED BY <1>5, <1>9, <2>2
<1>11. QED BY <1>2, <1>5, <1>8, <1>10

\* The last chunk.
LEMMA WriteLast ==
  ASSUME NEW n \in Nat, NEW s \in Nat \ {0}, NEW u, NEW F \in Honest(n, s, u), F.cat = "size",
         F.got.units = u
  PROVE  /\ LastChunk(n) \in Seq(AnyItem)
         /\ \E G \in Honest(n, s, u) : CanRead(LastChunk(n), F, G, Honest(n, s, u)) /\ G.cat = "idle"
<1> DEFINE x == Item("size", 0, n)
           z == Item("blank", 0, n)
           K == Honest(n, s, u)
<1>1. x.is = "size" /\ z.is = "blank" /\ x = Item("size", 0, n) /\ z = Item("blank", 0, n)
  BY DEF Item
<1>2. LastChunk(n) = <<x, z>>
  BY DEF LastChunk
<1> HIDE DEF x, z
<1>3. PICK A \in K : /\ x \in AnyItem /\ CanRead(<<x>>, F, A, K) /\ A.cat = "trailer"
                     /\ A.got.units = F.got.units + 0
  <2>1. Accepts(F, x)
    BY <1>1 DEF Accepts
  <2>2. QED BY <1>1, <2>1, WriteItem
<1>4. A.got.units = u
  <2>1. F.got.units \in Nat
    BY DEF Honest, AnyReader, AnyGot
  <2>2. QED BY <1>3, <2>1
<1>5. PICK B \in K : z \in AnyItem /\ CanRead(<<z>>, A, B, K) /\ B.cat = "idle"
  <2>1. Accepts(A, z)
    BY <1>1, <1>3 DEF Accepts
  <2>2. QED BY <1>1, <1>3, <1>4, <2>1, WriteItem
<1>6. QED BY <1>2, <1>3, <1>5, Pair, ReadNext

\* A header that has no consequences.
LEMMA WriteLine ==
  ASSUME NEW n \in Nat, NEW s \in Nat \ {0}, NEW u, NEW F \in Honest(n, s, u), F.cat = "headers"
  PROVE  \E G \in Honest(n, s, u) :
           /\ CanRead(<<Item("header", 0, n)>>, F, G, Honest(n, s, u))
           /\ G.cat = "headers" /\ G.got.units = F.got.units
           /\ G.got.length = F.got.length /\ (G.got.chunked <=> F.got.chunked)
<1>1. PICK e : e = "header"
  OBVIOUS
<1>2. PICK k \in Nat : k = 0
  OBVIOUS
<1>3. e \in Headers \cup {"blank"}
  BY <1>1 DEF Headers
<1>4. PICK G \in Honest(n, s, u) :
           /\ CanRead(<<Item(e, k, n)>>, F, G, Honest(n, s, u))
           /\ G.got.units = F.got.units
           /\ G.got.length = IF e = "length" THEN k ELSE F.got.length
           /\ G.got.chunked <=> F.got.chunked \/ e = "chunked"
           /\ e # "blank" => G.cat = "headers"
  BY <1>3, WriteHeader
<1>5. QED BY <1>1, <1>2, <1>4

\* The empty line, from which the reader knows how long the body is.
LEMMA WriteBlank ==
  ASSUME NEW n \in Nat, NEW s \in Nat \ {0}, NEW u, NEW F \in Honest(n, s, u), F.cat = "headers"
  PROVE  \E G \in Honest(n, s, u) :
           /\ CanRead(<<Item("blank", 0, n)>>, F, G, Honest(n, s, u))
           /\ G.got.units = F.got.units
           /\ G.cat = Client!BodyState(F.got)
           /\ G.left = F.got.length
<1>1. PICK e : e = "blank"
  OBVIOUS
<1>2. e \in Headers \cup {"blank"} /\ 0 \in Nat
  BY <1>1
<1>3. PICK G \in Honest(n, s, u) :
           /\ CanRead(<<Item(e, 0, n)>>, F, G, Honest(n, s, u))
           /\ G.got.units = F.got.units
           /\ e = "blank" => G.cat = Client!BodyState(F.got) /\ G.left = F.got.length
  BY <1>2, WriteHeader
<1>4. QED BY <1>1, <1>3

\* The headers of a file, and all of it.
LEMMA WriteFile ==
  ASSUME NEW n \in Nat, NEW s \in Nat \ {0}, NEW F \in Honest(n, s, FileSize), F.cat = "headers",
         F.got.length = 0, ~F.got.chunked, F.got.units = 0,
         NEW w, w = <<Item("length", FileSize, n), Item("blank", 0, n)>> \o Data(FileSize, n)
  PROVE  /\ w \in Seq(AnyItem)
         /\ \E G \in Honest(n, s, FileSize) :
              CanRead(w, F, G, Honest(n, s, FileSize)) /\ G.cat = "idle"
<1> DEFINE x == Item("length", FileSize, n)
           y == Item("blank", 0, n)
           K == Honest(n, s, FileSize)
<1>1. FileSize \in Nat \ {0}
  BY SizesAssumption
<1>2. x \in AnyItem /\ y \in AnyItem
  BY <1>1, ItemTypes DEF Lines, Headers
<1>3. PICK A \in K : /\ CanRead(<<x>>, F, A, K) /\ A.got.units = 0 /\ A.got.length = FileSize
                     /\ ~A.got.chunked /\ A.cat = "headers"
  BY <1>1, WriteHeader, SMTT(30) DEF Headers
<1>4. PICK B \in K : /\ CanRead(<<y>>, A, B, K) /\ B.got.units = 0
                     /\ B.cat = Client!BodyState(A.got) /\ B.left = FileSize
  BY <1>3, WriteBlank, SMTT(30)
<1>5. B.cat = "length"
  BY <1>1, <1>3, <1>4 DEF Client!BodyState
<1>6. PICK C \in K : CanRead(Data(FileSize, n), B, C, K) /\ C.cat = "idle"
  BY <1>1, <1>4, <1>5, ReadData
<1> HIDE DEF x, y
<1>7. <<x, y>> \in Seq(AnyItem) /\ CanRead(<<x, y>>, F, B, K)
  BY <1>2, <1>3, <1>4, Pair, ReadNext
<1>8. Data(FileSize, n) \in Seq(AnyItem)
  BY <1>1, DataFacts
<1>9. <<x, y>> \o Data(FileSize, n) \in Seq(AnyItem) /\ CanRead(<<x, y>> \o Data(FileSize, n), F, C, K)
  BY <1>6, <1>7, <1>8, ReadJoin, JoinFacts
<1>10. QED BY <1>6, <1>9 DEF x, y

\* The first byte of a body, with the headers before it; chunked or up to the end.
First(b, n) == <<Item(IF b THEN "chunked" ELSE "close", 0, n), Item("blank", 0, n)>>
                 \o (IF b THEN Chunk(1, n) ELSE Data(1, n))

\* The end of the headers that the first print writes, and its own bytes.
LEMMA WriteFirst ==
  ASSUME NEW n \in Nat, NEW s \in Nat \ {0}, NEW u, NEW F \in Honest(n, s, u), F.cat = "headers",
         F.got.length = 0, ~F.got.chunked, F.got.units = 0, NEW b \in BOOLEAN
  PROVE  /\ First(b, n) \in Seq(AnyItem)
         /\ \E G \in Honest(n, s, u) :
              /\ CanRead(First(b, n), F, G, Honest(n, s, u))
              /\ b => G.cat = "size" /\ G.got.units = 1
              /\ ~b => G.cat = "eof"
<1> DEFINE h == IF b THEN "chunked" ELSE "close"
           x == Item(h, 0, n)
           y == Item("blank", 0, n)
           K == Honest(n, s, u)
<1>1. h \in Headers /\ h # "length" /\ (h = "chunked" <=> b)
  BY DEF Headers
<1>2. x \in AnyItem /\ y \in AnyItem
  BY <1>1, ItemTypes DEF Lines
<1> HIDE DEF h
<1>3. PICK A \in K : /\ CanRead(<<x>>, F, A, K) /\ A.got.units = 0 /\ A.got.length = 0
                     /\ (A.got.chunked <=> b) /\ A.cat = "headers"
  <2>1. \E A \in K : /\ CanRead(<<x>>, F, A, K) /\ A.got.units = F.got.units
                     /\ A.got.length = (IF h = "length" THEN 0 ELSE F.got.length)
                     /\ (A.got.chunked <=> F.got.chunked \/ h = "chunked")
                     /\ (h # "blank" => A.cat = "headers")
    BY <1>1, WriteHeader
  <2>2. h # "blank"
    BY <1>1 DEF Headers
  <2>3. QED BY <1>1, <2>1, <2>2
<1>4. PICK B \in K : /\ CanRead(<<y>>, A, B, K) /\ B.got.units = 0
                     /\ B.cat = Client!BodyState(A.got)
  BY <1>3, WriteBlank
<1>5. B.cat = IF b THEN "size" ELSE "eof"
  BY <1>3, <1>4 DEF Client!BodyState
<1> DEFINE t == IF b THEN Chunk(1, n) ELSE Data(1, n)
<1>6. t \in Seq(AnyItem) /\ \E C \in K : /\ CanRead(t, B, C, K)
                                         /\ b => C.cat = "size" /\ C.got.units = 1
                                         /\ ~b => C.cat = "eof"
  <2>1. CASE b
    <3>1. B.cat = "size" /\ B.got.units + 1 = 1
      BY <1>4, <1>5, <2>1
    <3>2. QED BY <2>1, <3>1, WriteChunk
  <2>2. CASE ~b
    <3> DEFINE d == Item("data", 0, n)
    <3>1. B.cat = "eof" /\ Accepts(B, d)
      BY <1>5, <2>2 DEF Accepts, Item
    <3>2. PICK C \in K : d \in AnyItem /\ CanRead(<<d>>, B, C, K) /\ C.cat = "eof"
      <4>1. d = Item("data", 0, n)
        OBVIOUS
      <4> HIDE DEF d
      <4>2. "data" \in {"size", "blank", "data"} /\ 0 \in Nat /\ B.cat # "chunk" /\ B.cat # "trailer"
            /\ B.cat \in {"size", "chunk", "footer", "trailer", "eof"}
        BY <3>1
      <4>3. \E C \in K : /\ d \in AnyItem /\ CanRead(<<d>>, B, C, K)
                         /\ B.cat = "eof" => C.cat = "eof"
        BY <3>1, <4>1, <4>2, WriteItem
      <4>4. QED BY <3>1, <4>3
    <3>3. t = <<d>>
      BY <2>2, OneByte
    <3>4. <<d>> \in Seq(AnyItem)
      BY <3>2
    <3>5. QED BY <2>2, <3>2, <3>3, <3>4
  <2>3. QED BY <2>1, <2>2
<1> HIDE DEF x, y, t
<1>7. PICK C \in K : /\ CanRead(t, B, C, K)
                     /\ b => C.cat = "size" /\ C.got.units = 1
                     /\ ~b => C.cat = "eof"
  BY <1>6
<1>8. <<x, y>> \in Seq(AnyItem) /\ CanRead(<<x, y>>, F, B, K)
  BY <1>2, <1>3, <1>4, Pair, ReadNext
<1>9. <<x, y>> \o t \in Seq(AnyItem) /\ CanRead(<<x, y>> \o t, F, C, K)
  BY <1>6, <1>7, <1>8, ReadJoin, JoinFacts
<1>10. QED BY <1>7, <1>9 DEF x, y, t, h, First

\* With what a call writes, a reader gets from F to where that leaves the task.
Carries(F, c, n, r, u) ==
  /\ ItemsOf(c, n) \in Seq(AnyItem) /\ F \in Honest(n, r.status, u) /\ F.cat # "idle"
  /\ \E G \in Honest(n, r.status, u) :
       /\ CanRead(ItemsOf(c, n), F, G, Honest(n, r.status, u))
       /\ Wrote(G, r, u, c.op = "file") /\ (c.op = "file" => G.cat = "idle")

\* What a call puts on the connection takes the reader to where the task is in the response.
LEMMA WriteItems ==
  ASSUME Uploads, Handed, at \in {"respond", "error"}, NEW c, c = Head(script),
         NEW n, n = request.n, n > 0, NEW r, r = ResponseAfter(c), NEW u, u = meant[n] + BodyOf(c),
         NEW F \in Honest(n, response.status, meant[n]), Wrote(F, response, meant[n], FALSE)
  PROVE  Carries(F, c, n, r, u)
<1> DEFINE s == r.status
           K == Honest(n, s, u)
           m == meant[n]
           W == ItemsOf(c, n)
<1> SUFFICES
      /\ ItemsOf(c, n) \in Seq(AnyItem) /\ F \in Honest(n, r.status, u) /\ F.cat # "idle"
      /\ \E G \in Honest(n, r.status, u) :
           /\ CanRead(ItemsOf(c, n), F, G, Honest(n, r.status, u))
           /\ Wrote(G, r, u, c.op = "file") /\ (c.op = "file" => G.cat = "idle")
  BY DEF Carries
<1>1. /\ Control /\ request \in AnyServed /\ response \in AnyResponse /\ Serves
      /\ c \in AnyCall /\ c.op \in {"status", "header", "headers", "file", "print"}
      /\ c.op = "status" => c.status \in Statuses
      /\ r \in AnyResponse /\ s \in Statuses /\ (c.op = "status" <=> response.status = 0)
      /\ s = (IF c.op = "status" THEN c.status ELSE response.status)
      /\ r.headers <=> response.headers \/ c.op \in {"headers", "file", "print"}
      /\ ~r.headers => ~r.chunked
      /\ c.op # "print" => ~response.headers
  <2>1. Control
    BY DEF Uploads
  <2>2. request \in AnyServed /\ response \in AnyResponse /\ Serves
    BY <2>1 DEF Control, ServerTypes, Serves
  <2>3. /\ c \in AnyCall /\ c.op \in {"status", "header", "headers", "file", "print"}
        /\ c.op = "status" => c.status \in Statuses
        /\ r \in AnyResponse /\ s # 0 /\ (c.op = "status" <=> response.status = 0)
        /\ s = (IF c.op = "status" THEN c.status ELSE response.status)
        /\ r.headers <=> response.headers \/ c.op \in {"headers", "file", "print"}
        /\ ~r.headers => ~r.chunked
        /\ c.op # "print" => ~response.headers
    BY <2>1, CallFacts
  <2>4. s \in Statuses
    BY <2>3 DEF AnyResponse
  <2>5. QED BY <2>1, <2>2, <2>3, <2>4
<1>2. /\ n \in Nat /\ n \in 1..MaxRequests /\ m \in Nat /\ s \in Nat \ {0} /\ FileSize \in Nat
      /\ F \in AnyReader
  <2>1. n \in Nat /\ n \in 1..MaxRequests /\ n \in Answered
    BY <1>1, ServedAsked
  <2>2. m \in Nat
    BY <1>1, <2>1 DEF Control, ServerTypes
  <2>3. s \in Nat \ {0}
    BY <1>1 DEF Statuses
  <2>4. QED BY <2>1, <2>2, <2>3, SizesAssumption DEF Honest
<1>3. W \in Seq(AnyItem)
  BY <1>1, <1>2, ItemsTyped
<1>4. BodyOf(c) = IF c.op = "file" THEN FileSize ELSE IF c.op = "print" THEN 1 ELSE 0
  BY DEF BodyOf
<1>5. ~response.headers => m = 0
  BY <1>1, <1>2 DEF Handed
<1>6. /\ response.headers \in BOOLEAN /\ response.chunked \in BOOLEAN /\ request.http11 \in BOOLEAN
      /\ (~response.headers => ~response.chunked)
  BY <1>1 DEF AnyResponse, AnyServed, Control, ResponseControl
<1> HIDE DEF s, m
<1>7. CASE c.op = "status"
  <2>1. F = Waiting /\ u = m /\ s = c.status
    BY <1>1, <1>2, <1>4, <1>7 DEF Wrote, m
  <2>2. W = <<Item("status", s, n), Item("header", 0, n)>>
    BY <1>7, <2>1 DEF ItemsOf
  <2>3. PICK G \in K : CanRead(W, F, G, K) /\ G.cat = "headers" /\ G.got.length = 0 /\ ~G.got.chunked /\ G.got.units = 0
    <3>1. PICK G \in Honest(n, s, u) :
            /\ CanRead(<<Item("status", s, n), Item("header", 0, n)>>, Waiting, G, Honest(n, s, u))
            /\ G.cat = "headers" /\ G.got.length = 0 /\ ~G.got.chunked /\ G.got.units = 0
      BY <1>2, WriteStatus
    <3>2. QED BY <2>1, <2>2, <3>1 DEF s
  <2>4. F \in K /\ F.cat # "idle"
    BY <2>1, <1>2 DEF Honest, Waiting, Reader, Client!Nothing, s
  <2>5. ~r.headers /\ ~r.chunked /\ r.status # 0
    BY <1>1, <1>2, <1>7, <1>6 DEF s
  <2>6. Wrote(G, r, u, c.op = "file")
    BY <2>3, <2>5 DEF Wrote
  <2>7. QED BY <1>3, <1>7, <2>3, <2>4, <2>6 DEF s
<1>8. CASE c.op \in {"header", "headers", "file"} \/ (c.op = "print" /\ ~response.headers)
  <2>1. /\ F.cat = "headers" /\ F.got.length = 0 /\ ~F.got.chunked /\ F.got.units = 0 /\ m = 0
        /\ s = response.status /\ s # 0
    BY <1>1, <1>2, <1>5, <1>8 DEF Wrote, s
  <2>2. F \in K /\ F.cat # "idle"
    BY <2>1 DEF Honest, s
  <2>3. CASE c.op = "header"
    <3>1. W = <<Item("header", 0, n)>> /\ "header" \in Headers \cup {"blank"} /\ ~r.headers /\ ~r.chunked /\ r.status # 0
      BY <1>1, <1>2, <2>3, <1>6 DEF ItemsOf, Headers, s
    <3>2. PICK G \in K : /\ CanRead(<<Item("header", 0, n)>>, F, G, K)
                         /\ G.cat = "headers" /\ G.got.units = F.got.units
                         /\ G.got.length = F.got.length /\ (G.got.chunked <=> F.got.chunked)
      BY <1>2, <2>1, <2>2, WriteLine
    <3>4. CanRead(W, F, G, K) /\ G.cat = "headers" /\ G.got.length = 0 /\ ~G.got.chunked /\ G.got.units = 0
      BY <2>1, <3>1, <3>2
    <3>5. Wrote(G, r, u, c.op = "file")
      BY <3>1, <3>4 DEF Wrote
    <3>6. QED BY <1>3, <2>2, <2>3, <3>4, <3>5 DEF s
  <2>4. CASE c.op = "headers"
    <3>1. W = <<Item("blank", 0, n)>> /\ r.headers /\ ~r.chunked /\ r.status # 0
      <4>1. r = [response EXCEPT !.headers = TRUE]
        BY <2>4 DEF ResponseAfter
      <4>2. ~r.chunked
        BY <1>1, <1>6, <2>4, <4>1 DEF AnyResponse
      <4>3. QED BY <1>1, <1>2, <2>4, <4>2 DEF ItemsOf, s
    <3>2. PICK G \in K : CanRead(W, F, G, K) /\ G.cat = Client!BodyState(F.got)
      BY <1>2, <2>1, <2>2, <3>1, WriteBlank
    <3>3. G.cat = "eof"
      BY <2>1, <3>2 DEF Client!BodyState
    <3>4. Wrote(G, r, u, c.op = "file")
      BY <3>1, <3>3 DEF Wrote
    <3>5. QED BY <1>3, <2>2, <2>4, <3>2, <3>4 DEF s
  <2>5. CASE c.op = "file"
    <3>1. /\ W = <<Item("length", FileSize, n), Item("blank", 0, n)>> \o Data(FileSize, n)
          /\ r.headers /\ ~r.chunked /\ r.status # 0 /\ u = FileSize
      <4>1. r = [response EXCEPT !.headers = TRUE]
        BY <2>5 DEF ResponseAfter
      <4>2. ~r.chunked
        BY <1>1, <1>6, <2>5, <4>1 DEF AnyResponse
      <4>3. u = FileSize
        BY <1>2, <1>4, <2>1, <2>5 DEF m
      <4>4. QED BY <1>1, <1>2, <2>5, <4>2, <4>3 DEF ItemsOf, s
    <3>2. PICK G \in K : CanRead(W, F, G, K) /\ G.cat = "idle"
      BY <1>2, <2>1, <2>2, <3>1, WriteFile
    <3>3. Wrote(G, r, u, c.op = "file")
      BY <2>5, <3>1, <3>2 DEF Wrote
    <3>4. QED BY <1>3, <2>2, <3>2, <3>3 DEF s
  <2>6. CASE c.op = "print"
    <3>1. r = [response EXCEPT !.headers = TRUE, !.chunked = request.http11, !.close = @ \/ ~request.http11]
          /\ StartsBody(c.op)
      BY <1>1, <1>8, <2>6 DEF ResponseAfter, StartsBody
    <3>2. r.headers /\ (r.chunked <=> request.http11) /\ r.status # 0 /\ u = 1
      <4>1. u = 1
        BY <1>2, <1>4, <2>1, <2>6 DEF m
      <4>2. r.chunked <=> request.http11
        BY <1>1, <3>1 DEF AnyResponse
      <4>3. QED BY <1>1, <1>2, <2>6, <4>1, <4>2 DEF s
    <3> DEFINE b == request.http11
    <3>3. W = First(b, n)
      BY <2>6, <3>1, <3>2 DEF ItemsOf, First
    <3>4. PICK G \in K : /\ CanRead(W, F, G, K)
                         /\ b => G.cat = "size" /\ G.got.units = 1
                         /\ ~b => G.cat = "eof"
      <4>1. b \in BOOLEAN /\ F \in Honest(n, s, u)
        BY <1>6, <2>2
      <4> HIDE DEF b
      <4>2. QED BY <1>2, <2>1, <3>3, <4>1, WriteFirst
    <3>5. Wrote(G, r, u, c.op = "file")
      BY <2>6, <3>2, <3>4 DEF Wrote
    <3>6. QED BY <1>3, <2>2, <2>6, <3>4, <3>5 DEF s
  <2>7. QED BY <1>8, <2>3, <2>4, <2>5, <2>6
<1>9. CASE c.op = "print" /\ response.headers
  <2>1. /\ r = response /\ s = response.status /\ s # 0 /\ u = m + 1 /\ ~StartsBody(c.op)
    BY <1>1, <1>2, <1>4, <1>9 DEF ResponseAfter, StartsBody, s, m
  <2>2. W = <<>> \o (IF response.chunked THEN Chunk(1, n) ELSE Data(1, n))
    BY <1>9, <2>1 DEF ItemsOf
  <2>3. CASE response.chunked
    <3>1. F.cat = "size" /\ F.got.units = m
      BY <2>3 DEF Wrote, m
    <3>2. F \in K /\ F.cat # "idle"
      BY <2>1, <3>1 DEF Honest, s
    <3>3. PICK G \in K : CanRead(Chunk(1, n), F, G, K) /\ G.cat = "size" /\ G.got.units = F.got.units + 1
      BY <1>2, <3>1, <3>2, WriteChunk
    <3>4. W = Chunk(1, n)
      <4>1. Chunk(1, n) \in Seq(AnyItem)
        BY <1>2, <3>1, <3>2, WriteChunk
      <4>2. W = <<>> \o Chunk(1, n)
        BY <2>2, <2>3
      <4>3. QED BY <4>1, <4>2, ConcatEmptySeq
    <3>5. Wrote(G, r, u, c.op = "file")
      BY <2>1, <2>3, <3>1, <3>3 DEF Wrote, s
    <3>6. QED BY <1>3, <1>9, <3>2, <3>3, <3>4, <3>5 DEF s
  <2>4. CASE ~response.chunked
    <3> DEFINE d == Item("data", 0, n)
    <3>1. F.cat = "eof" /\ Accepts(F, d)
      BY <1>9, <2>4 DEF Wrote, Accepts, Item
    <3>2. F \in K /\ F.cat # "idle"
      BY <2>1, <3>1 DEF Honest, s
    <3>3. PICK G \in K : CanRead(<<d>>, F, G, K) /\ G.cat = "eof"
      <4>1. d = Item("data", 0, n)
        OBVIOUS
      <4> HIDE DEF d
      <4>2. "data" \in {"size", "blank", "data"} /\ 0 \in Nat /\ F.cat # "chunk" /\ F.cat # "trailer"
            /\ F.cat \in {"size", "chunk", "footer", "trailer", "eof"}
        BY <3>1
      <4>3. \E G \in K : /\ d \in AnyItem /\ CanRead(<<d>>, F, G, K)
                         /\ F.cat = "eof" => G.cat = "eof"
        BY <1>2, <3>1, <3>2, <4>1, <4>2, WriteItem
      <4>4. QED BY <3>1, <4>3
    <3>4. W = <<d>>
      <4>1. Data(1, n) \in Seq(AnyItem) /\ Data(1, n) = <<d>>
        BY <1>2, OneByte, DataFacts
      <4>2. W = <<>> \o Data(1, n)
        BY <2>2, <2>4
      <4>3. QED BY <4>1, <4>2, ConcatEmptySeq
    <3>5. Wrote(G, r, u, c.op = "file")
      BY <1>9, <2>1, <2>4, <3>3 DEF Wrote, s
    <3>6. QED BY <1>3, <1>9, <3>2, <3>3, <3>4, <3>5 DEF s
  <2>5. QED BY <2>3, <2>4
<1>10. QED BY <1>1, <1>7, <1>8, <1>9

\* A reader ends where it may be.
LEMMA ReadEnds ==
  ASSUME NEW K, NEW w \in Seq(AnyItem), NEW c, NEW F, CanRead(w, c, F, K)
  PROVE  F \in K
<1>1. Len(w) \in Nat
  BY LenProperties
<1>2. Len(w) \in 0..Len(w)
  BY <1>1
<1>3. QED BY <1>2 DEF CanRead

\* Who writes serves the last request, and has no error.
LEMMA Writing ==
  ASSUME Uploads, UpFramed, at \in {"respond", "error"}, NEW F, Matches(F), NEW n, n = Len(asked)
  PROVE  /\ request.n = n /\ n > 0 /\ n \in 1..MaxRequests /\ err >= 0 /\ answers[n] = response.status
         /\ Serves /\ Wrote(F, response, meant[n], FALSE)
<1>1. Control /\ Serves /\ script # <<>>
  BY DEF Uploads, Control, ScriptControl, Serves
<1>2. request.n > 0
  BY <1>1 DEF UpFramed
<1>3. err >= 0
  <2>1. err \in {-1, 0} \cup Statuses /\ ~(err < 0)
    BY <1>1 DEF Control, ServerTypes, ResponseControl
  <2>2. QED BY <2>1 DEF Statuses
<1>4. request.n = n
  <2>1. ~(request.n < n)
    BY <1>1 DEF Matches
  <2>2. QED BY <1>1, <2>1, ServedAsked
<1>5. answers[n] = response.status
  BY <1>1, <1>2, <1>4 DEF Uploads, Upload
<1>6. Wrote(F, response, meant[n], FALSE)
  <2>1. Wrote(F, response, meant[n], script = <<>> /\ request.handler = "static")
    BY <1>1, <1>3, <1>4 DEF Matches
  <2>2. QED BY <1>1, <2>1 DEF Wrote
<1>7. n > 0 /\ n \in 1..MaxRequests
  <2>1. request.n \in 1..Len(asked) /\ Len(asked) <= MaxRequests /\ MaxRequests \in Nat
    BY <1>1, <1>2, ServedAsked DEF Control, ConnTypes
  <2>2. request.n \in 1..MaxRequests
    BY <2>1
  <2>3. QED BY <1>2, <1>4, <2>2
<1>8. QED BY <1>1, <1>3, <1>4, <1>5, <1>6, <1>7

\* With what a call writes, all of it, the reader gets to where the task is.
LEMMA Written ==
  ASSUME Uploads, Handed, UpFramed, DownFramed, at \in {"respond", "error"}, ~broken,
         clientEnd = "open", NEW c, c = Head(script), NEW n, n = Len(asked),
         NEW r, r = ResponseAfter(c), NEW u, u = meant[n] + BodyOf(c), NEW K, K = Honest(n, r.status, u)
  PROVE  /\ Serves /\ request.n = n /\ n \in 1..MaxRequests /\ n > 0 /\ err >= 0
         /\ answers[n] = response.status /\ c \in AnyCall
         /\ c.op = "status" \/ r.status = response.status
         /\ c.op = "file" => Tail(script) = <<>> /\ request.handler = "static"
         /\ ItemsOf(c, n) \in Seq(AnyItem) /\ K \subseteq AnyReader
         /\ \E G \in K : /\ CanRead(down \o ItemsOf(c, n), Now, G, K)
                        /\ Wrote(G, r, u, c.op = "file") /\ (c.op = "file" => G.cat = "idle")
<1>1. Control /\ serverEnd = "open" /\ Live /\ down \in Seq(AnyItem)
  BY DEF Uploads, Control, ConnTypes, RequestControl, Live
<1>2. PICK F \in AnyReader : CanRead(down, Now, F, Known) /\ Matches(F)
  BY <1>1 DEF DownFramed
<1>3. /\ request.n = n /\ n > 0 /\ n \in 1..MaxRequests /\ err >= 0 /\ answers[n] = response.status
      /\ Serves /\ Wrote(F, response, meant[n], FALSE)
  BY <1>1, <1>2, Writing
<1>4. F \in Honest(n, response.status, meant[n])
  BY <1>1, <1>2, <1>3, ReadEnds DEF Known
<1>5. /\ script # <<>> /\ (c.op = "status" <=> response.status = 0) /\ c \in AnyCall
      /\ c.op = "status" \/ r.status = response.status
      /\ c.op = "file" => Tail(script) = <<>> /\ request.handler = "static"
  <2>1. /\ script # <<>> /\ c = script[1] /\ Len(script) \in Nat \ {0} /\ c \in AnyCall
        /\ (c.op = "status" <=> response.status = 0) /\ (c.op = "status" \/ r.status = response.status)
        /\ c.op = "file" => Len(script) = 1
    BY <1>1, CallFacts
  <2>2. c.op = "file" => request.handler = "static"
    BY <1>1, <2>1 DEF Control, ScriptControl
  <2>3. c.op = "file" => Tail(script) = <<>>
    <3>1. script \in Seq(AnyCall)
      BY <1>1 DEF Control, ServerTypes
    <3>2. Len(Tail(script)) = Len(script) - 1 /\ Tail(script) \in Seq(AnyCall)
      BY <2>1, <3>1, TailFacts
    <3>3. QED BY <2>1, <3>2, EmptySeq
  <2>4. QED BY <2>1, <2>2, <2>3
<1>6. /\ ItemsOf(c, n) \in Seq(AnyItem) /\ F \in K /\ F.cat # "idle"
      /\ \E G \in K : /\ CanRead(ItemsOf(c, n), F, G, K)
                     /\ Wrote(G, r, u, c.op = "file") /\ (c.op = "file" => G.cat = "idle")
  <2>1. n = request.n /\ Wrote(F, response, meant[n], FALSE)
    BY <1>3
  <2>2. /\ ItemsOf(c, n) \in Seq(AnyItem) /\ F \in Honest(n, r.status, u) /\ F.cat # "idle"
        /\ \E G \in Honest(n, r.status, u) :
             /\ CanRead(ItemsOf(c, n), F, G, Honest(n, r.status, u))
             /\ Wrote(G, r, u, c.op = "file") /\ (c.op = "file" => G.cat = "idle")
    <3>1. Carries(F, c, n, r, u)
      BY <1>3, <1>4, <2>1, WriteItems
    <3>2. QED BY <3>1 DEF Carries
  <2>3. QED BY <2>2
<1>7. PICK G \in K : /\ CanRead(ItemsOf(c, n), F, G, K)
                     /\ Wrote(G, r, u, c.op = "file") /\ (c.op = "file" => G.cat = "idle")
  BY <1>6
<1>8. CanRead(down, Now, F, K)
  <2>1. CanRead(down, Now, F, Honest(n, response.status, meant[n]))
    BY <1>2, <1>3 DEF Known
  <2>2. QED BY <1>1, <1>5, <1>6, <2>1, ReadAgain
<1>9. CanRead(down \o ItemsOf(c, n), Now, G, K)
  BY <1>1, <1>6, <1>7, <1>8, ReadJoin
<1>10. K \subseteq AnyReader
  BY DEF Honest
<1>11. QED BY <1>3, <1>5, <1>6, <1>7, <1>9, <1>10

\* A call is written, all of it.
LEMMA DownWrite ==
  ASSUME Uploads, Handed, UpFramed, DownFramed, Write, UNCHANGED clientVars, clientEnd = "open"
  PROVE  DownFramed'
<1> DEFINE n == Len(asked)
           c == Head(script)
           r == ResponseAfter(c)
           u == meant[n] + BodyOf(c)
           K == Honest(n, r.status, u)
<1>1. /\ at \in {"respond", "error"} /\ ~broken /\ Control /\ serverEnd = "open" /\ Live
      /\ UNCHANGED <<asked, clientEnd, serverEnd, broken, request, err, cat, got, left>>
      /\ response' = r /\ down' = down \o ItemsOf(c, request.n) /\ script' = Tail(script)
      /\ meant' = [meant EXCEPT ![request.n] = @ + BodyOf(c)] /\ Answer(c)
      /\ at' \in {"respond", "error", "rest", "finish", "end"}
  BY DEF Write, Uploads, Control, RequestControl, clientVars, Live, AfterScript, Rest
<1>2. /\ Serves /\ request.n = n /\ n \in 1..MaxRequests /\ n > 0 /\ err >= 0
      /\ answers[n] = response.status
      /\ c.op = "file" => Tail(script) = <<>> /\ request.handler = "static"
      /\ K \subseteq AnyReader
      /\ \E G \in K : CanRead(down \o ItemsOf(c, n), Now, G, K) /\ Wrote(G, r, u, c.op = "file")
  BY <1>1, Written
<1>3. PICK G \in K : CanRead(down \o ItemsOf(c, n), Now, G, K) /\ Wrote(G, r, u, c.op = "file")
  BY <1>2
<1>4. CanRead(down', Now, G, K) /\ G \in AnyReader
  BY <1>1, <1>2, <1>3
<1>5. answers'[n] = r.status /\ meant'[n] = u
  <2>1. answers'[request.n] = response'.status
    BY <1>1, <1>2, AnswerFacts
  <2>2. n \in Answered /\ meant \in [Answered -> Nat]
    BY <1>1, <1>2, ServedAsked DEF Control, ServerTypes
  <2>3. QED BY <1>1, <1>2, <2>1, <2>2
<1>6. Known' = K /\ Now' = Now
  <2>1. Known' = Honest(n, answers'[n], meant'[n])
    BY <1>1 DEF Known, Honest
  <2>2. QED BY <1>1, <1>5, <2>1 DEF Now
<1>7. CanRead(down, Now, G, Known)'
  BY <1>4, <1>6 DEF CanRead
<1>8. Matches(G)'
  <2>1. /\ Len(asked)' = n /\ Serves' /\ (at # "request")' /\ (request.n = n)'
        /\ (~(request.n < Len(asked)))' /\ (~(err < 0))'
    <3>1. n \in Nat /\ ~(n < n)
      BY <1>2
    <3>2. err \in Int
      BY <1>1 DEF Control, ServerTypes, Statuses
    <3>3. ~(err' < 0)
      BY <1>1, <1>2, <3>2
    <3>4. QED BY <1>1, <1>2, <3>1, <3>3 DEF Serves
  <2>2. Wrote(G, response', meant'[n], script' = <<>> /\ request'.handler = "static")
    <3>1. c.op = "file" => script' = <<>> /\ request'.handler = "static"
      BY <1>1, <1>2
    <3>2. Wrote(G, response', meant'[n], c.op = "file")
      BY <1>1, <1>3, <1>5
    <3> HIDE DEF c
    <3>3. QED BY <3>1, <3>2 DEF Wrote
  <2>3. Wrote(G, response', meant'[Len(asked')], script' = <<>> /\ request'.handler = "static")
    BY <1>1, <2>2
  <2> HIDE DEF n, c, r, u, K
  <2>4. QED BY <2>1, <2>3 DEF Matches
<1>9. QED BY <1>4, <1>7, <1>8 DEF DownFramed

\* All of one part and some of the next leave the reader somewhere.
LEMMA ReadPart ==
  ASSUME NEW K, NEW w \in Seq(AnyItem), NEW x \in Seq(AnyItem), NEW c, NEW F, CanRead(w \o x, c, F, K),
         NEW k \in 0..Len(x)
  PROVE  \E G \in K : /\ CanRead(w \o SubSeq(x, 1, k), c, G, K)
                      /\ k < Len(x) => Accepts(G, x[k + 1])
<1> DEFINE n == Len(w)
           t == w \o x
           y == w \o SubSeq(x, 1, k)
<1>1. n \in Nat /\ Len(x) \in Nat /\ k \in Nat /\ k <= Len(x)
  BY LenProperties
<1>2. /\ t \in Seq(AnyItem) /\ Len(t) = n + Len(x)
      /\ \A i \in 1..n : t[i] = w[i]
      /\ \A i \in 1..Len(x) : t[n + i] = x[i]
  BY JoinFacts
<1>3. /\ y \in Seq(AnyItem) /\ Len(y) = n + k
      /\ \A i \in 1..n : y[i] = w[i]
      /\ \A i \in 1..k : y[n + i] = x[i]
  <2>1. /\ SubSeq(x, 1, k) \in Seq(AnyItem) /\ Len(SubSeq(x, 1, k)) = k
        /\ \A i \in 1..k : SubSeq(x, 1, k)[i] = x[i]
    BY TakeFacts
  <2> DEFINE z == SubSeq(x, 1, k)
  <2> HIDE DEF z
  <2>2. /\ z \in Seq(AnyItem) /\ Len(z) = k /\ \A i \in 1..k : z[i] = x[i]
    BY <2>1 DEF z
  <2>3. /\ w \o z \in Seq(AnyItem) /\ Len(w \o z) = n + Len(z)
        /\ \A i \in 1..n : (w \o z)[i] = w[i]
        /\ \A i \in 1..Len(z) : (w \o z)[n + i] = z[i]
    <3>1. w \in Seq(AnyItem) /\ z \in Seq(AnyItem)
      BY <2>2
    <3> HIDE DEF t, y
    <3>2. QED BY <3>1, JoinFacts
  <2>4. y = w \o z
    BY DEF z
  <2>5. QED BY <1>1, <2>2, <2>3, <2>4
<1> HIDE DEF t, y, n
<1>4. \A i \in 1..n + k : y[i] = t[i]
  <2>1. ASSUME NEW i \in 1..n + k PROVE y[i] = t[i]
    <3>1. CASE i <= n
      BY <1>1, <1>2, <1>3, <3>1
    <3>2. CASE ~(i <= n)
      <4>1. PICK j \in 1..k : j = i - n
        BY <1>1, <3>2
      <4>2. j \in 1..Len(x) /\ i = n + j
        BY <1>1, <4>1
      <4>3. QED BY <1>2, <1>3, <4>1, <4>2
    <3>3. QED BY <3>1, <3>2
  <2>2. QED BY <2>1
<1>5. \E G \in K : CanRead(SubSeq(t, 1, n + k), c, G, K) /\ (n + k < Len(t) => Accepts(G, t[n + k + 1]))
  <2>1. CanRead(t, c, F, K)
    BY DEF t
  <2>2. PICK l \in 0..Len(t) : l = n + k
    BY <1>1, <1>2
  <2>3. \E G \in K : CanRead(SubSeq(t, 1, l), c, G, K) /\ (l < Len(t) => Accepts(G, t[l + 1]))
    BY <1>2, <2>1, ReadTake
  <2>4. QED BY <2>2, <2>3
<1>6. SubSeq(t, 1, n + k) = y
  <2>1. PICK l \in 0..Len(t) : l = n + k
    BY <1>1, <1>2
  <2>2. /\ SubSeq(t, 1, l) \in Seq(AnyItem) /\ Len(SubSeq(t, 1, l)) = l
        /\ \A i \in 1..l : SubSeq(t, 1, l)[i] = t[i]
    BY <1>2, TakeFacts
  <2> DEFINE z == SubSeq(t, 1, l)
  <2> HIDE DEF z
  <2>3. /\ z \in Seq(AnyItem) /\ Len(z) = Len(y) /\ \A i \in 1..Len(z) : z[i] = y[i]
    BY <1>3, <1>4, <2>1, <2>2 DEF z
  <2>4. z = y
    BY <1>3, <2>3, SeqEqual
  <2>5. QED BY <2>1, <2>4 DEF z
<1>7. k < Len(x) => n + k < Len(t) /\ t[n + k + 1] = x[k + 1]
  <2>1. ASSUME k < Len(x) PROVE n + k < Len(t) /\ t[n + k + 1] = x[k + 1]
    <3>1. PICK j \in 1..Len(x) : j = k + 1
      BY <1>1, <2>1
    <3>2. t[n + j] = x[j] /\ n + j = n + k + 1
      BY <1>1, <1>2, <3>1
    <3>3. QED BY <1>1, <1>2, <2>1, <3>1, <3>2
  <2>2. QED BY <2>1
<1>8. QED BY <1>5, <1>6, <1>7 DEF y

\* A file that has become shorter is not all that its length has promised.
LEMMA DownShrunk ==
  ASSUME Uploads, Handed, UpFramed, DownFramed, WriteShrunkFile, UNCHANGED clientVars, clientEnd = "open"
  PROVE  DownFramed'
<1> DEFINE n == Len(asked)
           c == Head(script)
           r == ResponseAfter(c)
           u == meant[n] + BodyOf(c)
           K == Honest(n, r.status, u)
           W == ItemsOf(c, n)
<1>1. /\ at = "respond" /\ at \in {"respond", "error"} /\ ~broken /\ Control
      /\ UNCHANGED <<asked, clientEnd, serverEnd, broken, request, answers, cat, got, left>>
      /\ response' = r /\ c.op = "file"
      /\ \E k \in 0..FileSize - 1 : down' = down \o SubSeq(ItemsOf(c, request.n), 1, k + 2)
      /\ meant' = [meant EXCEPT ![request.n] = @ + FileSize] /\ err' = -1
      /\ at' \in {"rest", "finish"}
  BY DEF WriteShrunkFile, Uploads, Control, clientVars, Rest
<1>2. /\ Serves /\ request.n = n /\ n \in 1..MaxRequests /\ n > 0 /\ answers[n] = response.status
      /\ r.status = response.status /\ W \in Seq(AnyItem) /\ K \subseteq AnyReader /\ c \in AnyCall
  BY <1>1, Written
<1>3. PICK F \in K : CanRead(down \o W, Now, F, K) /\ F.cat = "idle"
  BY <1>1, Written
<1>4. PICK k \in 0..Len(W) : k < Len(W) /\ down' = down \o SubSeq(W, 1, k)
  <2>1. FileSize \in Nat \ {0} /\ n \in Nat
    BY <1>2, SizesAssumption
  <2>2. Len(W) = FileSize + 2
    BY <1>1, <1>2, <2>1, ItemsTyped DEF Control, ServerTypes
  <2>3. PICK l \in 0..FileSize - 1 : down' = down \o SubSeq(W, 1, l + 2)
    BY <1>1, <1>2
  <2> HIDE DEF W
  <2>4. PICK k \in 0..Len(W) : k = l + 2 /\ k < Len(W)
    BY <2>1, <2>2
  <2>5. QED BY <2>3, <2>4
<1>5. PICK G \in K : CanRead(down', Now, G, K) /\ Accepts(G, W[k + 1])
  <2>1. down \in Seq(AnyItem)
    BY <1>1 DEF Control, ConnTypes
  <2> HIDE DEF W, K
  <2>2. QED BY <1>2, <1>3, <1>4, <2>1, ReadPart
<1>6. G.cat # "idle" /\ G \in AnyReader
  BY <1>2, <1>5 DEF Accepts
<1>7. answers'[n] = r.status /\ meant'[n] = u
  <2>1. n \in Answered /\ meant \in [Answered -> Nat] /\ BodyOf(c) = FileSize
    BY <1>1, <1>2, ServedAsked DEF Control, ServerTypes, BodyOf
  <2>2. QED BY <1>1, <1>2, <2>1
<1>8. Known' = K /\ Now' = Now
  <2>1. Known' = Honest(n, answers'[n], meant'[n])
    BY <1>1 DEF Known, Honest
  <2>2. QED BY <1>1, <1>7, <2>1 DEF Now
<1>9. CanRead(down, Now, G, Known)'
  BY <1>5, <1>8 DEF CanRead
<1>10. Matches(G)'
  <2>1. /\ Len(asked)' = n /\ (at # "request")' /\ (request.n = n)'
        /\ (~(request.n < Len(asked)))' /\ (~(err >= 0))'
    <3>1. n \in Nat /\ ~(n < n)
      BY <1>2
    <3>2. QED BY <1>1, <1>2, <3>1
  <2>2. QED BY <1>6, <2>1 DEF Matches
<1>11. QED BY <1>6, <1>9, <1>10 DEF DownFramed

\* What cannot be written is lost, and so is what would follow it.
LEMMA DownFails ==
  ASSUME Uploads, Handed, DownFramed, WriteFails, UNCHANGED clientVars, clientEnd = "open"
  PROVE  DownFramed'
<1> DEFINE n == Len(asked)
           c == Head(script)
<1>1. /\ at \in {"respond", "error"} /\ broken /\ Control /\ Answer(c) /\ response' = ResponseAfter(c)
      /\ UNCHANGED <<asked, down, clientEnd, serverEnd, broken, request, meant, cat, got, left>>
  BY DEF WriteFails, Uploads, Control, clientVars, connVars
<1>2. PICK F \in AnyReader : CanRead(down, Now, F, Known)
  BY DEF DownFramed
<1>3. answers'[n] = answers[n] \/ answers[n] = 0
  <2>1. n \in Nat /\ request.n \in Answered /\ answers \in [Answered -> {0} \cup Statuses] /\ n \in Answered
    BY <1>1, ServedAsked DEF Control, ServerTypes, Answered
  <2>2. CASE request.n = n /\ c.op = "status"
    <3>1. n > 0
      BY <1>1 DEF Control, ClientControl
    <3>2. response.status = 0
      BY <1>1, <2>2, CallFacts
    <3>3. QED BY <1>1, <2>2, <3>1, <3>2 DEF Uploads, Upload, Serves
  <2>3. CASE request.n # n \/ c.op # "status"
    BY <1>1, <2>1, <2>3 DEF Answer
  <2>4. QED BY <2>2, <2>3
<1>4. CanRead(down, Now, F, Honest(n, answers'[n], meant[n]))
  <2>1. down \in Seq(AnyItem)
    BY <1>1 DEF Control, ConnTypes
  <2>2. CanRead(down, Now, F, Honest(n, answers[n], meant[n]))
    BY <1>2 DEF Known
  <2>3. QED BY <1>3, <2>1, <2>2, ReadAgain
<1>5. CanRead(down, Now, F, Known)'
  <2>1. Known' = Honest(n, answers'[n], meant[n]) /\ Now' = Now
    BY <1>1 DEF Known, Honest, Now
  <2>2. QED BY <1>1, <1>4, <2>1 DEF CanRead
<1>6. ~Live'
  BY <1>1 DEF Live
<1>7. QED BY <1>5, <1>6 DEF DownFramed

\* What ends a response takes the reader to its end.
LEMMA WriteEnd ==
  ASSUME Uploads, UpFramed, at = "end", NEW F \in Known, Matches(F)
  PROVE  /\ ResponseEnd \in Seq(AnyItem)
         /\ \E G \in Known :
              /\ CanRead(ResponseEnd, F, G, Known)
              /\ IF answers[Len(asked)] = 0 THEN G = Waiting ELSE G.cat \in {"idle", "eof"}
<1> DEFINE n == Len(asked)
           s == response.status
           m == meant[n]
           blank == <<Item("blank", 0, request.n)>>
<1>1. /\ Control /\ Serves /\ request \in AnyServed /\ response \in AnyResponse /\ s # 0 /\ s \in Nat
      /\ err >= 0 /\ script = <<>> /\ (~response.headers => ~response.chunked) /\ n \in Nat
  <2>1. Control
    BY DEF Uploads
  <2>2. /\ Serves /\ request \in AnyServed /\ response \in AnyResponse /\ s # 0
        /\ script = <<>> /\ (~response.headers => ~response.chunked) /\ n \in Nat
    BY <2>1, ServedAsked DEF Control, ServerTypes, ResponseControl, ScriptControl, Serves
  <2>3. err >= 0
    <3>1. err \in {-1, 0} \cup Statuses /\ ~(err < 0)
      BY <2>1 DEF Control, ServerTypes, ResponseControl
    <3>2. QED BY <3>1 DEF Statuses
  <2>4. s \in Nat
    BY <2>2 DEF AnyResponse, Statuses
  <2>5. QED BY <2>1, <2>2, <2>3, <2>4
<1>2. Known = Honest(n, answers[n], m)
  BY DEF Known
<1>3. /\ ~response.headers => ResponseEnd = blank \o <<>>
      /\ response.headers /\ response.chunked => ResponseEnd = <<>> \o LastChunk(request.n)
      /\ response.headers /\ ~response.chunked => ResponseEnd = <<>> \o <<>>
  BY <1>1 DEF ResponseEnd
<1>4. /\ response.headers /\ ~response.chunked => ResponseEnd = <<>>
      /\ ~response.headers => ResponseEnd = blank /\ blank \in Seq(AnyItem)
      /\ <<>> \in Seq(AnyItem)
  <2>1. Item("blank", 0, request.n) \in AnyItem
    <3>1. PICK e \in Lines : e = "blank"
      BY DEF Lines
    <3>2. request.n \in Nat /\ 0 \in Nat
      BY <1>1 DEF AnyServed
    <3>3. QED BY <3>1, <3>2, ItemTypes
  <2>2. blank \in Seq(AnyItem) /\ <<>> \in Seq(AnyItem)
    BY <2>1, EmptySeq
  <2> HIDE DEF blank
  <2>3. blank \o <<>> = blank
    BY <2>2, ConcatEmptySeq
  <2>4. <<>> \o <<>> = <<>>
    BY <2>2, ConcatEmptySeq
  <2>5. QED BY <1>3, <2>2, <2>3, <2>4
<1>5. CASE request.n < n
  <2>1. F = Waiting /\ answers[n] = 0 /\ response.headers /\ ~response.chunked
    BY <1>1, <1>5 DEF Matches
  <2>2. ResponseEnd = <<>> /\ <<>> \in Seq(AnyItem)
    BY <1>4, <2>1
  <2>3. CanRead(<<>>, F, F, Known)
    BY ReadNothing
  <2>4. QED BY <2>1, <2>2, <2>3
<1>6. CASE ~(request.n < n)
  <2>1. request.n = n
    BY <1>1, <1>6, ServedAsked
  <2>2. Wrote(F, response, m, script = <<>> /\ request.handler = "static")
    BY <1>1, <2>1 DEF Matches
  <2>3. answers[n] = s /\ Known = Honest(n, s, m)
    <3>1. request.n > 0
      BY <1>1 DEF UpFramed
    <3>2. QED BY <1>1, <1>2, <2>1, <3>1 DEF Uploads, Upload
  <2>4. CASE ~response.headers
    <3>1. F.cat = "headers" /\ F.got.length = 0 /\ ~F.got.chunked
      BY <1>1, <2>2, <2>4 DEF Wrote
    <3>2. PICK G \in Known : CanRead(<<Item("blank", 0, n)>>, F, G, Known) /\ G.cat = Client!BodyState(F.got)
      BY <1>1, <2>3, <3>1, WriteBlank
    <3>3. G.cat = "eof"
      BY <3>1, <3>2 DEF Client!BodyState
    <3>4. ResponseEnd = <<Item("blank", 0, n)>> /\ ResponseEnd \in Seq(AnyItem)
      BY <1>4, <2>1, <2>4
    <3>5. QED BY <1>1, <2>3, <3>2, <3>3, <3>4
  <2>5. CASE response.headers /\ response.chunked
    <3>1. F.cat = "size" /\ F.got.units = m
      BY <1>1, <2>2, <2>5 DEF Wrote
    <3>2. /\ LastChunk(n) \in Seq(AnyItem)
          /\ \E G \in Known : CanRead(LastChunk(n), F, G, Known) /\ G.cat = "idle"
      BY <1>1, <2>3, <3>1, WriteLast
    <3>3. ResponseEnd = LastChunk(n)
      BY <1>3, <2>1, <2>5, <3>2, ConcatEmptySeq
    <3>4. QED BY <1>1, <2>3, <3>2, <3>3
  <2>6. CASE response.headers /\ ~response.chunked
    <3>1. F.cat \in {"idle", "eof"}
      BY <1>1, <2>2, <2>6 DEF Wrote
    <3>2. CanRead(<<>>, F, F, Known)
      BY ReadNothing
    <3>3. QED BY <1>1, <1>4, <2>3, <2>6, <3>1, <3>2
  <2>7. QED BY <2>4, <2>5, <2>6
<1>7. QED BY <1>5, <1>6

\* The response ends, and the task waits for the next request or closes the connection.
LEMMA DownEnd ==
  ASSUME Uploads, UpFramed, DownFramed, EndResponse, UNCHANGED clientVars, clientEnd = "open"
  PROVE  DownFramed'
<1> DEFINE n == Len(asked)
<1>1. /\ at = "end" /\ Control /\ serverEnd = "open" /\ down \in Seq(AnyItem)
      /\ UNCHANGED <<asked, clientEnd, broken, answers, meant, cat, got, left>>
      /\ down' = IF broken THEN down ELSE down \o ResponseEnd
      /\ at' = "request" \/ serverEnd' = "closed"
  BY DEF EndResponse, Hangup, Uploads, Control, ConnTypes, RequestControl, clientVars
<1>2. Known' = Known /\ Now' = Now
  BY <1>1 DEF Known, Honest, Now
<1>3. CASE broken
  <2>1. PICK F \in AnyReader : CanRead(down, Now, F, Known)
    BY <1>1 DEF DownFramed
  <2>2. CanRead(down, Now, F, Known)'
    BY <1>1, <1>2, <1>3, <2>1 DEF CanRead
  <2>3. ~Live'
    BY <1>1, <1>3 DEF Live
  <2>4. QED BY <2>1, <2>2, <2>3 DEF DownFramed
<1>4. CASE ~broken
  <2>1. PICK F \in AnyReader : CanRead(down, Now, F, Known) /\ Matches(F)
    BY <1>1, <1>4 DEF DownFramed, Live
  <2>2. F \in Known
    BY <1>1, <2>1, ReadEnds
  <2>3. /\ ResponseEnd \in Seq(AnyItem)
        /\ \E G \in Known :
             /\ CanRead(ResponseEnd, F, G, Known)
             /\ IF answers[n] = 0 THEN G = Waiting ELSE G.cat \in {"idle", "eof"}
    BY <1>1, <2>1, <2>2, WriteEnd
  <2>4. PICK G \in Known :
          /\ CanRead(ResponseEnd, F, G, Known)
          /\ IF answers[n] = 0 THEN G = Waiting ELSE G.cat \in {"idle", "eof"}
    BY <2>3
  <2>5. CanRead(down', Now, G, Known) /\ G \in AnyReader
    <3>1. CanRead(down \o ResponseEnd, Now, G, Known)
      BY <1>1, <2>1, <2>3, <2>4, ReadJoin
    <3>2. QED BY <1>1, <1>4, <3>1 DEF Known, Honest
  <2>6. CanRead(down, Now, G, Known)'
    BY <1>2, <2>5 DEF CanRead
  <2>7. ASSUME serverEnd' = "open" PROVE Matches(G)'
    <3>1. at' = "request" /\ ~Serves' /\ Len(asked)' = n /\ answers'[n] = answers[n]
      BY <1>1, <2>7 DEF Serves
    <3>2. (IF answers[Len(asked)] = 0 THEN G = Waiting ELSE G.cat \in {"idle", "eof"})'
      BY <1>1, <2>4, <3>1 DEF Waiting, Client!Nothing, Reader
    <3>3. QED BY <3>1, <3>2 DEF Matches
  <2>8. QED BY <2>5, <2>6, <2>7 DEF DownFramed
<1>5. QED BY <1>3, <1>4

\* The task reads and writes, and the client is where it was.
LEMMA DownServer ==
  ASSUME Uploads, Handed, UpFramed, DownFramed, ServerNext, UNCHANGED clientVars
  PROVE  DownFramed'
<1>1. asked' = asked /\ clientEnd' = clientEnd /\ broken' = broken
  BY ServerFrame
<1>2. CASE clientEnd # "open"
  BY <1>1, <1>2 DEF DownFramed
<1>3. CASE clientEnd = "open" /\ (Write \/ WriteShrunkFile \/ WriteFails \/ EndResponse)
  BY <1>3, DownWrite, DownShrunk, DownFails, DownEnd
<1>4. CASE clientEnd = "open" /\ ~(Write \/ WriteShrunkFile \/ WriteFails \/ EndResponse)
  <2>1. /\ UNCHANGED <<down, answers, meant, cat, got, left>>
        /\ at \notin {"respond", "error", "closed"}
    BY <1>4 DEF ServerNext, ReadRequest, NoMoreRequests, ReadHeader, ReadEndOfHeaders, ReadBadHeader,
         ReadHeaderFails, StaticGet, StaticPut, ReadFile, ReadFileFails, DnsParams, ReadForm,
         ReadFormFails, Lookup, Conclude, connVars, clientVars
  <2>2. Known' = Known /\ Now' = Now
    BY <1>1, <2>1 DEF Known, Honest, Now
  <2>3. serverEnd = "open" /\ (Live' <=> Live)
    BY <1>1, <2>1 DEF Uploads, Control, RequestControl, Live
  <2>4. PICK F \in AnyReader : CanRead(down, Now, F, Known) /\ (Live => Matches(F))
    BY <1>4, <2>3 DEF DownFramed
  <2>5. CanRead(down, Now, F, Known)'
    BY <2>1, <2>2, <2>4 DEF CanRead
  <2>6. ASSUME Live, serverEnd' = "open" PROVE Matches(F)'
    <3>1. CASE ReadRequest
      BY <2>3, <2>4, <2>6, <3>1, MatchesRequest
    <3>2. CASE ~ReadRequest
      <4>1. Matches(F)
        BY <2>4, <2>6
      <4>2. QED BY <1>4, <2>1, <2>6, <3>2, <4>1, MatchesOnward
    <3>3. QED BY <3>1, <3>2
  <2>7. QED BY <2>3, <2>4, <2>5, <2>6 DEF DownFramed
<1>5. QED BY <1>2, <1>3, <1>4

\* Every step keeps what is under way to the client in order.
LEMMA DownStep ==
  ASSUME Uploads, Asks, Handed, UpFramed, DownFramed, [Next]_vars
  PROVE  DownFramed'
<1>1. Control
  BY DEF Uploads
<1>2. CASE \E q \in Requests[Len(asked) + 1] : Len(asked) < MaxRequests /\ Call(q)
  BY <1>2, DownCall
<1>3. CASE ServerNext /\ UNCHANGED clientVars
  BY <1>3, DownServer
<1>4. CASE Connect
  BY <1>1, <1>4, DownConnect
<1>5. CASE Client!ClientSteps /\ UNCHANGED serverVars
  BY <1>1, <1>5, DownClient
<1>6. CASE Crash /\ UNCHANGED clientVars
  <2>1. UNCHANGED <<asked, down, clientEnd, answers, meant, cat, got, left>> /\ serverEnd' # "open"
    BY <1>6 DEF Crash, Hangup, clientVars
  <2>2. QED BY <2>1, DownCrash
<1>7. CASE Client!Dies /\ UNCHANGED serverVars
  <2>1. clientEnd' # "open"
    BY <1>7 DEF Client!Dies
  <2>2. QED BY <2>1 DEF DownFramed
<1>8. CASE NetworkStep
  BY <1>1, <1>8, DownBreaks
<1>9. CASE UNCHANGED vars
  <2>1. /\ UNCHANGED <<asked, down, clientEnd, serverEnd, broken, at, request, response, script, err>>
        /\ UNCHANGED <<answers, meant, cat, got, left>>
    BY <1>9 DEF vars, connVars, serverVars, clientVars
  <2>2. Known' = Known /\ Now' = Now /\ (Live' <=> Live)
    BY <2>1 DEF Known, Honest, Now, Live
  <2>3. \A F : (CanRead(down, Now, F, Known)' <=> CanRead(down, Now, F, Known))
    BY <2>1, <2>2 DEF CanRead
  <2>4. ASSUME NEW F, Matches(F) PROVE Matches(F)'
    BY <2>1, <2>4 DEF Matches, Wrote, Serves, Waiting, Client!Nothing, Reader
  <2>5. QED BY <2>1, <2>2, <2>3, <2>4 DEF DownFramed
<1>10. QED BY <1>2, <1>3, <1>4, <1>5, <1>6, <1>7, <1>8, <1>9, Steps

\* When the client is done with a response, there is nothing left of it, and the client knows
\* whose it was.
LEMMA Done ==
  ASSUME Control, DownFramed, cat = "idle", clientEnd = "open"
  PROVE  /\ down = <<>> /\ Now \in Known
         /\ Live /\ serverEnd = "open" => Matches(Now)
<1>1. PICK F \in AnyReader : CanRead(down, Now, F, Known) /\ (Live /\ serverEnd = "open" => Matches(F))
  BY DEF DownFramed
<1>2. down = <<>>
  <2>1. ConnTypes
    BY DEF Control
  <2>2. QED BY <1>1, <2>1, Finds
<1>3. F = Now /\ Now \in Known
  BY <1>1, <1>2, ReadNothing
<1>4. QED BY <1>1, <1>2, <1>3

\* Every step keeps both directions in order.
LEMMA FramedStep ==
  ASSUME Understood, Framed, [Next]_vars
  PROVE  Framed'
<1>1. /\ Uploads /\ Asks /\ Handed /\ UpFramed /\ DownFramed /\ Control
  BY DEF Framed, Uploads
<1>2. Uploads'
  BY <1>1, UploadsStep
<1>3. Asks'
  BY <1>1, AsksStep
<1>4. Handed'
  BY <1>1, HandedStep
<1>5. cat = "idle" /\ Live /\ serverEnd = "open" => Matches(Now)
  BY <1>1, Done DEF Live
<1>6. UpFramed'
  BY <1>1, <1>5, UpStep
<1>7. DownFramed'
  BY <1>1, DownStep
<1>8. QED BY <1>2, <1>3, <1>4, <1>6, <1>7 DEF Framed

\* In the beginning there is no connection.
LEMMA FramedInit == Init => Framed
<1> SUFFICES ASSUME Init PROVE Framed
  OBVIOUS
<1>1. Uploads
  BY UploadsInit
<1>2. /\ cat = "idle" /\ got = Client!Nothing /\ clientEnd = "none" /\ serverEnd = "none" /\ at = "closed"
      /\ meant = [i \in Answered |-> 0]
  BY DEF Init, ServerInit, Client!ClientInit
<1>3. Asks
  BY <1>2 DEF Asks
<1>4. Handed
  BY <1>2, SizesAssumption DEF Handed, Answered, Serves
<1>5. UpFramed /\ DownFramed
  BY <1>2 DEF UpFramed, DownFramed, Serves
<1>6. QED BY <1>1, <1>3, <1>4, <1>5 DEF Framed

\* The connection is in step.
LEMMA FramedInStep ==
  ASSUME Framed
  PROVE  InStep
<1>1. /\ Uploads /\ UpFramed /\ DownFramed /\ Control
  BY DEF Framed, Uploads
<1>2. ASSUME cat = "idle", clientEnd = "open"
      PROVE  down = <<>> /\ got.of = {Len(asked)} /\ got.units = meant[Len(asked)]
  <2>1. down = <<>> /\ Now \in Known
    BY <1>1, <1>2, Done
  <2>2. Now.cat = "idle" /\ Now.got = got /\ Waiting.cat = "status"
    BY <1>2 DEF Now, Reader, Waiting
  <2>3. QED BY <2>1, <2>2 DEF Known, Honest
<1>3. ASSUME at = "request", up # <<>>
      PROVE  Head(up).is = "request"
  <2>1. serverEnd = "open" /\ up \in Seq(AnyItem)
    BY <1>1, <1>3 DEF Control, RequestControl, ConnTypes
  <2>2. Waits
    BY <1>1, <1>3, <2>1 DEF UpFramed, Dead, Doomed, Within, Ahead, Answering, Serves
  <2>3. up[1].is = "request"
    BY <1>1, <1>3, <2>2, NextRequest
  <2>4. QED BY <1>3, <2>1, <2>3, TailFacts
<1>4. QED BY <1>2, <1>3 DEF InStep, KeptByClient, KeptByServer

\* So they are in order in every state.
LEMMA FramedAlways ==
  ASSUME Understood
  PROVE  Spec => []Framed
<1>1. Framed /\ [Next]_vars => Framed'
  BY FramedStep
<1>2. QED BY <1>1, FramedInit, PTL DEF Spec

\* On a connection that both ends keep, they agree where one request and its response end: when
\* client_request() returns with the connection open, it has read all of the response to its own
\* request, and when server_client_task() starts over, what comes next is a request line.
THEOREM InStepAlways ==
  ASSUME Understood
  PROVE  Spec => []InStep
<1>1. Framed => InStep
  BY FramedInStep
<1>2. QED BY <1>1, FramedAlways, PTL

-----------------------------------------------------------------------------
(* The exchange                                                            *)

\* A reader starts where it may be.
LEMMA ReadStarts ==
  ASSUME NEW K, NEW w \in Seq(AnyItem), NEW c, NEW F, CanRead(w, c, F, K)
  PROVE  c \in K
<1>1. Len(w) \in Nat
  BY LenProperties
<1>2. 0 \in 0..Len(w)
  BY <1>1
<1>3. QED BY <1>2 DEF CanRead

\* What the client knows of the response is what the server has answered.
LEMMA StatusKnown ==
  ASSUME Control, DownFramed, clientEnd = "open"
  PROVE  got.status = 0 \/ got.status = answers[Len(asked)]
<1>1. PICK F : CanRead(down, Now, F, Known)
  BY DEF DownFramed
<1>2. Now \in Known
  BY <1>1, ReadStarts DEF Control, ConnTypes
<1>3. QED BY <1>2 DEF Known, Honest, Now, Reader

\* A step of the client that returns, returns what it knows, or that it has failed.
LEMMA ClientGives ==
  ASSUME Control, Client!ClientSteps
  PROVE  \/ results' = results
         \/ /\ cat \notin {"idle", "dead"}
            /\ \/ results' = Append(results, -1)
               \/ results' = Append(results, got.status) /\ clientEnd = "open"
<1>1. cat \notin {"idle", "connect", "dead"} => clientEnd = "open"
  BY DEF Control, ClientControl
<1>2. CASE Client!ConnectFails
  BY <1>2 DEF Client!ConnectFails, Client!Returns, Client!Failed
<1>3. ASSUME NEW e \in {-1, 0, 1, 400}, Client!RequestReturns(e), cat \notin {"idle", "connect", "dead"}
      PROVE  \/ results' = Append(results, -1)
             \/ results' = Append(results, got.status) /\ clientEnd = "open"
  BY <1>1, <1>3 DEF Client!RequestReturns, Client!Returns, Client!Failed
<1>4. CASE Client!SendHead \/ Client!SendBody \/ Client!HeadersEof \/ Client!ReadHeader \/ Client!ReadChunk
  BY <1>4 DEF Client!SendHead, Client!SendBody, Client!HeadersEof, Client!ReadHeader, Client!ReadChunk
<1>5. CASE Client!SendFails
  <2>1. PICK e \in {1, -1} : Client!RequestReturns(e)
    BY <1>5 DEF Client!SendFails
  <2>2. cat \notin {"idle", "connect", "dead"}
    BY <1>5 DEF Client!SendFails
  <2>3. QED BY <1>3, <2>1, <2>2
<1>6. CASE Client!ReadStatus
  <2>1. results' = results \/ Client!RequestReturns(400)
    BY <1>6 DEF Client!ReadStatus
  <2>2. cat \notin {"idle", "connect", "dead"}
    BY <1>6 DEF Client!ReadStatus
  <2>3. QED BY <1>3, <2>1, <2>2
<1>7. CASE Client!ReadSize \/ Client!ReadFooter
  <2>1. results' = results \/ Client!RequestReturns(-1)
    BY <1>7 DEF Client!ReadSize, Client!ReadFooter
  <2>2. cat \notin {"idle", "connect", "dead"}
    BY <1>7 DEF Client!ReadSize, Client!ReadFooter
  <2>3. QED BY <1>3, <2>1, <2>2
<1>8. CASE Client!ReadTrailer \/ Client!ReadBody
  <2>1. results' = results \/ Client!RequestReturns(1) \/ Client!RequestReturns(0)
    BY <1>8 DEF Client!ReadTrailer, Client!ReadBody, Client!Complete
  <2>2. cat \notin {"idle", "connect", "dead"}
    BY <1>8 DEF Client!ReadTrailer, Client!ReadBody
  <2>3. QED BY <1>3, <2>1, <2>2
<1>9. CASE Client!ReadEof \/ Client!ReadFails
  <2>1. Client!RequestReturns(1) \/ Client!RequestReturns(-1)
    BY <1>9 DEF Client!ReadEof, Client!ReadFails
  <2>2. cat \notin {"idle", "connect", "dead"}
    BY <1>9 DEF Client!ReadEof, Client!ReadFails
  <2>3. QED BY <1>3, <2>1, <2>2
<1>10. QED BY <1>2, <1>4, <1>5, <1>6, <1>7, <1>8, <1>9 DEF Client!ClientSteps

\* The server gives at most one answer to a request.
LEMMA ServerGives ==
  ASSUME Uploads, ServerNext
  PROVE  \/ answers' = answers
         \/ /\ request.n \in Answered
            /\ request.n > 0 => request.n \in 1..Len(asked) /\ answers[request.n] = 0
            /\ \E status \in Statuses : answers' = [answers EXCEPT ![request.n] = status]
<1>1. Control
  BY DEF Uploads
<1>2. CASE Write \/ WriteFails
  <2> DEFINE c == Head(script)
  <2>1. at \in {"respond", "error"} /\ Answer(c)
    BY <1>2 DEF Write, WriteFails
  <2>2. (c.op = "status" <=> response.status = 0) /\ (c.op = "status" => c.status \in Statuses)
    BY <1>1, <2>1, CallFacts
  <2>3. request.n \in Answered /\ (request.n > 0 => request.n \in 1..Len(asked))
    BY <1>1, ServedAsked
  <2>4. response.status = 0 /\ request.n > 0 => answers[request.n] = 0
    BY <2>1 DEF Uploads, Upload, Serves
  <2> HIDE DEF c
  <2>5. QED BY <2>1, <2>2, <2>3, <2>4 DEF Answer
<1>3. CASE ~Write /\ ~WriteFails
  BY <1>3 DEF ServerNext, ReadRequest, NoMoreRequests, ReadHeader, ReadEndOfHeaders, ReadBadHeader,
     ReadHeaderFails, StaticGet, StaticPut, ReadFile, ReadFileFails, DnsParams, ReadForm,
     ReadFormFails, Lookup, WriteShrunkFile, Conclude, EndResponse
<1>4. QED BY <1>2, <1>3

\* The answers that the abstract exchange sees.
LEMMA GivenFacts ==
  ASSUME Control
  PROVE  /\ Given = [i \in 1..MaxRequests |-> answers[i]]
         /\ answers' = answers => Given' = Given
         /\ \A i \in 1..MaxRequests : Given[i] = answers[i]
         /\ \A k \in Answered : \A s : answers' = [answers EXCEPT ![k] = s] =>
              Given' = IF k = 0 THEN Given ELSE [Given EXCEPT ![k] = s]
<1>1. answers \in [Answered -> {0} \cup Statuses] /\ MaxRequests \in Nat \ {0}
  BY SizesAssumption DEF Control, ServerTypes
<1>2. ASSUME NEW k \in Answered, NEW s, answers' = [answers EXCEPT ![k] = s]
      PROVE  Given' = IF k = 0 THEN Given ELSE [Given EXCEPT ![k] = s]
  <2>1. \A i \in 1..MaxRequests : i \in Answered /\ i # 0
    BY <1>1 DEF Answered
  <2>2. \A i \in 1..MaxRequests : answers'[i] = IF i = k THEN s ELSE answers[i]
    BY <1>1, <1>2, <2>1
  <2>3. Given' = [i \in 1..MaxRequests |-> answers'[i]]
    BY DEF Given
  <2>4. k # 0 => k \in 1..MaxRequests
    BY <1>1, <1>2 DEF Answered
  <2>5. QED BY <2>1, <2>2, <2>3, <2>4 DEF Given
<1>3. QED BY <1>1, <1>2 DEF Given

\* Every step is one of the exchange, or none.
LEMMA StepIsExchange ==
  ASSUME Framed, [Next]_vars
  PROVE  [Abstract!Next]_(Abstract!vars)
<1>1. /\ Uploads /\ Asks /\ DownFramed /\ Control
  BY DEF Framed, Uploads
<1>2. Abstract!vars = <<asked, Given, results>> /\ Abstract!Failed = -1
  BY DEF Abstract!vars, Abstract!Failed
<1>3. ASSUME asked' = asked, answers' = answers, results' = results
      PROVE  UNCHANGED Abstract!vars
  BY <1>1, <1>3, GivenFacts DEF Abstract!vars
<1>4. CASE \E q \in Requests[Len(asked) + 1] : Len(asked) < MaxRequests /\ Call(q)
  <2>1. PICK q \in Requests[Len(asked) + 1] : Len(asked) < MaxRequests /\ Call(q)
    BY <1>4
  <2>2. cat = "idle" /\ asked' = Append(asked, q) /\ results' = results /\ answers' = answers
    BY <2>1 DEF Call, Client!Call, serverVars
  <2>3. Len(asked) = Len(results)
    BY <1>1, <2>2 DEF Control, ClientControl
  <2>4. Given' = Given
    BY <1>1, <2>2, GivenFacts
  <2>5. Abstract!Ask(q)
    BY <2>2, <2>3, <2>4 DEF Abstract!Ask
  <2>6. QED BY <2>1, <2>5 DEF Abstract!Next
<1>5. CASE ServerNext /\ UNCHANGED clientVars
  <2>1. asked' = asked /\ results' = results
    BY <1>5, ServerFrame DEF clientVars
  <2>2. CASE answers' = answers
    BY <1>3, <2>1, <2>2
  <2>3. CASE answers' # answers
    <3>1. /\ request.n \in Answered
          /\ request.n > 0 => request.n \in 1..Len(asked) /\ answers[request.n] = 0
      BY <1>1, <1>5, <2>3, ServerGives
    <3>2. PICK status \in Statuses : answers' = [answers EXCEPT ![request.n] = status]
      BY <1>1, <1>5, <2>3, ServerGives
    <3>3. Given' = IF request.n = 0 THEN Given ELSE [Given EXCEPT ![request.n] = status]
      BY <1>1, <3>1, <3>2, GivenFacts
    <3>4. CASE request.n = 0
      BY <2>1, <3>3, <3>4 DEF Abstract!vars
    <3>5. CASE request.n # 0
      <4>1. request.n \in 1..Len(asked) /\ answers[request.n] = 0 /\ request.n \in 1..MaxRequests
        BY <1>1, <3>1, <3>5, ServedAsked, SizesAssumption DEF Answered
      <4>2. Given[request.n] = 0
        BY <1>1, <4>1, GivenFacts
      <4>3. Abstract!Give(request.n, status)
        BY <2>1, <3>3, <3>5, <4>2 DEF Abstract!Give
      <4>4. QED BY <4>1, <4>3 DEF Abstract!Next
    <3>6. QED BY <3>4, <3>5
  <2>4. QED BY <2>2, <2>3
<1>6. CASE Client!ClientSteps /\ UNCHANGED serverVars
  <2>1. asked' = asked /\ answers' = answers
    BY <1>6, ClientFrame DEF serverVars
  <2>2. CASE results' = results
    BY <1>3, <2>1, <2>2
  <2>3. CASE results' # results
    <3>1. /\ cat \notin {"idle", "dead"}
          /\ \/ results' = Append(results, -1)
             \/ results' = Append(results, got.status) /\ clientEnd = "open"
      BY <1>1, <1>6, <2>3, ClientGives
    <3>2. Len(results) = Len(asked) - 1 /\ Len(asked) > 0 /\ Len(asked) \in Nat /\ Len(asked) <= MaxRequests
      BY <1>1, <3>1, ServedAsked DEF Control, ClientControl
    <3>3. Given' = Given /\ Given[Len(asked)] = answers[Len(asked)]
      BY <1>1, <2>1, <3>2, SizesAssumption, GivenFacts
    <3>4. \/ Given[Len(asked)] # 0 /\ results' = Append(results, Given[Len(asked)])
          \/ \E r \in {0, -1} : results' = Append(results, r)
      <4>1. clientEnd = "open" => got.status = 0 \/ got.status = answers[Len(asked)]
        BY <1>1, StatusKnown
      <4>2. QED BY <3>1, <3>3, <4>1
    <3>5. Abstract!Return(Len(asked))
      BY <1>2, <2>1, <3>2, <3>3, <3>4 DEF Abstract!Return
    <3>6. Len(asked) \in 1..Len(asked)
      BY <3>2
    <3>7. QED BY <3>5, <3>6 DEF Abstract!Next
  <2>4. QED BY <2>2, <2>3
<1>7. CASE Connect
  <2>1. asked' = asked /\ answers' = answers /\ results' = results
    BY <1>7 DEF Connect, Client!Connect, ServerStart
  <2>2. QED BY <1>3, <2>1
<1>8. CASE (Crash /\ UNCHANGED clientVars) \/ (Client!Dies /\ UNCHANGED serverVars) \/ NetworkStep
           \/ UNCHANGED vars
  <2>1. asked' = asked /\ answers' = answers /\ results' = results
    BY <1>8 DEF Crash, Client!Dies, NetworkStep, Breaks, vars, connVars, serverVars, clientVars
  <2>2. QED BY <1>3, <2>1
<1>9. QED BY <1>4, <1>5, <1>6, <1>7, <1>8, Steps

\* The programs implement the exchange: the server answers each request once at most, and what a
\* call of client_get(), client_put() or client_post() returns is the answer to its own request,
\* or no status.
THEOREM ExchangeImplemented ==
  ASSUME Understood
  PROVE  Spec => ExchangeSpec
<1>1. Init => Abstract!Init
  <2> SUFFICES ASSUME Init PROVE Abstract!Init
    OBVIOUS
  <2>1. asked = <<>> /\ results = <<>> /\ answers = [i \in Answered |-> 0]
    BY DEF Init, ServerInit, Client!ClientInit
  <2>2. \A i \in 1..MaxRequests : i \in Answered
    BY SizesAssumption DEF Answered
  <2>3. Given = [i \in 1..MaxRequests |-> 0]
    BY <2>1, <2>2 DEF Given
  <2>4. QED BY <2>1, <2>3 DEF Abstract!Init
<1>2. Framed /\ [Next]_vars => [Abstract!Next]_(Abstract!vars)
  BY StepIsExchange
<1>3. QED BY <1>1, <1>2, FramedAlways, PTL DEF Spec, ExchangeSpec, Abstract!Spec

=============================================================================
