----------------------------- MODULE HttpProofs -----------------------------
(***************************************************************************)
(* The HTTP client and server on their connections, for any number of      *)
(* calls, any requests, and files and bodies of any size.                  *)
(***************************************************************************)
EXTENDS HttpExchange, SequenceFacts

-----------------------------------------------------------------------------
(* Lines                                                                   *)

AnyItem == [is : Lines \cup {"data"}, n : Nat, re : Nat]

\* The line that http_read_line() returns has arrived, or is made up of what has.
LEMMA LineFacts ==
  ASSUME NEW w \in Seq(AnyItem), HasLine(w)
  PROVE  /\ LineEnd(w) \in 1..Len(w) /\ w[LineEnd(w)].is # "data"
         /\ LineOf(w) \in AnyItem /\ LineOf(w).is # "data"
         /\ LineOf(w) = w[LineEnd(w)] \/ LineOf(w) = Item("bad", 0, 0)
         /\ LineOf(w).is # "bad" => LineEnd(w) = 1 /\ LineOf(w) = w[1]
         /\ AfterLine(w) \in Seq(AnyItem)
         /\ Len(AfterLine(w)) = Len(w) - LineEnd(w)
         /\ \A i \in 1..Len(w) - LineEnd(w) : AfterLine(w)[i] = w[LineEnd(w) + i]
<1> DEFINE E == {i \in DOMAIN w : w[i].is # "data"}
<1>1. Len(w) \in Nat /\ DOMAIN w = 1..Len(w) /\ \A i \in 1..Len(w) : w[i] \in AnyItem
  BY LenProperties
<1>2. E \subseteq 1..Len(w) /\ E # {} /\ E \in SUBSET Nat
  BY <1>1 DEF HasLine
<1>3. \E i \in E : \A j \in E : i <= j
  BY <1>2, Least
<1>4. Min(E) \in E
  BY <1>3 DEF Min
<1>5. LineEnd(w) = Min(E)
  BY DEF LineEnd
<1> HIDE DEF E
<1>6. LineEnd(w) \in 1..Len(w) /\ w[LineEnd(w)].is # "data"
  <2>1. LineEnd(w) \in E
    BY <1>4, <1>5
  <2>2. QED BY <2>1, <1>2 DEF E
<1>7. Item("bad", 0, 0) \in AnyItem /\ Item("bad", 0, 0).is = "bad"
  BY DEF Item, AnyItem, Lines
<1>8. LineEnd(w) = 1 => w[1] = w[LineEnd(w)]
  OBVIOUS
<1>9. /\ LineOf(w) = w[LineEnd(w)] \/ LineOf(w) = Item("bad", 0, 0)
      /\ LineOf(w) \in AnyItem /\ LineOf(w).is # "data"
      /\ LineOf(w).is # "bad" => LineEnd(w) = 1 /\ LineOf(w) = w[1]
  BY <1>1, <1>6, <1>7, <1>8 DEF LineOf
<1>10. LineEnd(w) \in 0..Len(w)
  BY <1>6
<1>11. QED BY <1>6, <1>9, <1>10, RestFacts DEF AfterLine

\* What has arrived starts with a line, and it is read without what follows it.
LEMMA FirstLine ==
  ASSUME NEW w \in Seq(AnyItem), w # <<>>, w[1].is # "data"
  PROVE  /\ HasLine(w) /\ LineEnd(w) = 1 /\ LineOf(w) = w[1]
         /\ Len(AfterLine(w)) = Len(w) - 1
         /\ \A i \in 1..Len(w) - 1 : AfterLine(w)[i] = w[1 + i]
<1> DEFINE E == {i \in DOMAIN w : w[i].is # "data"}
<1>1. Len(w) \in Nat /\ DOMAIN w = 1..Len(w) /\ Len(w) > 0
  BY LenProperties, EmptySeq
<1>2. HasLine(w) /\ 1 \in E /\ E \subseteq 1..Len(w)
  BY <1>1 DEF HasLine
<1>3. \A x \in E : (\A y \in E : x <= y) => x = 1
  BY <1>1, <1>2
<1>4. \A y \in E : 1 <= y
  BY <1>1, <1>2
<1>5. Min(E) = 1
  <2> HIDE DEF E
  <2>1. \E x \in E : \A y \in E : x <= y
    BY <1>2, <1>4
  <2>2. QED BY <1>3, <2>1 DEF Min
<1>6. LineEnd(w) = 1
  BY <1>5 DEF LineEnd
<1>7. LineOf(w) = w[1]
  BY <1>6 DEF LineOf
<1>8. /\ Len(AfterLine(w)) = Len(w) - LineEnd(w)
      /\ \A i \in 1..Len(w) - LineEnd(w) : AfterLine(w)[i] = w[LineEnd(w) + i]
  BY <1>2, LineFacts
<1> HIDE DEF E
<1>9. QED BY <1>2, <1>6, <1>7, <1>8

\* There is no line where nothing has arrived.
LEMMA NoLine == ~HasLine(<<>>)
BY DEF HasLine

-----------------------------------------------------------------------------
(* Messages                                                                *)

LEMMA ItemTypes ==
  ASSUME NEW is \in Lines \cup {"data"}, NEW k \in Nat, NEW n \in Nat
  PROVE  Item(is, k, n) \in AnyItem
BY DEF Item, AnyItem

\* A header that may be there or not.
LEMMA OptionFacts ==
  ASSUME NEW s \in Seq(AnyItem), NEW x \in AnyItem, NEW b \in BOOLEAN, NEW t,
         t = s \o (IF b THEN <<x>> ELSE <<>>)
  PROVE  /\ t \in Seq(AnyItem)
         /\ Len(t) = IF b THEN Len(s) + 1 ELSE Len(s)
         /\ \A i \in 1..Len(s) : t[i] = s[i]
         /\ b => t[Len(s) + 1] = x
<1>1. CASE b
  <2>1. <<x>> \in Seq(AnyItem) /\ Len(<<x>>) = 1 /\ <<x>>[1] = x
    OBVIOUS
  <2>2. t = s \o <<x>>
    BY <1>1
  <2>3. QED BY <1>1, <2>1, <2>2, JoinFacts
<1>2. CASE ~b
  <2>1. t = s \o <<>>
    BY <1>2
  <2>2. t = s
    BY <2>1, ConcatEmptySeq
  <2>3. QED BY <1>2, <2>2
<1>3. QED BY <1>1, <1>2

\* The head of a request: its first line, headers that tell the length of the body at a fixed
\* place, a bad one last, and the empty line.
IsHead(H, q, n) ==
  /\ H \in Seq(AnyItem) /\ Len(H) >= 3 /\ (q.bad \/ q.length > 0 => Len(H) >= 4)
  /\ H[1] = Item("request", n, n) /\ H[Len(H)] = Item("blank", 0, n)
  /\ \A i \in 2..Len(H) - 1 :
       /\ H[i].is \in Headers \cup {"bad"} /\ H[i].re = n
       /\ H[i].is = "bad" <=> q.bad /\ i = Len(H) - 1
       /\ H[i].is = "length" <=> q.length > 0 /\ i = 3
       /\ H[i].is = "length" => H[i].n = q.length

LEMMA HeadFacts ==
  ASSUME NEW q \in AnyRequest, NEW n \in Nat
  PROVE  IsHead(RequestHead(q, n), q, n)
<1> DEFINE H == RequestHead(q, n)
<1>0. \E z \in BOOLEAN : z <=> q.length > 0
  OBVIOUS
<1> PICK some \in BOOLEAN : some <=> q.length > 0
  BY <1>0, Zenon
<1> DEFINE a == <<Item("request", n, n), Item("header", 0, n)>>
           l == Item("length", q.length, n)
           b == a \o (IF some THEN <<l>> ELSE <<>>)
           c == b \o (IF q.form THEN <<Item("form", 0, n)>> ELSE <<>>)
           d == c \o (IF q.close THEN <<Item("close", 0, n)>> ELSE <<>>)
           e == d \o (IF q.bad THEN <<Item("bad", 0, n)>> ELSE <<>>)
<1>1. H = e \o <<Item("blank", 0, n)>>
  BY Zenon DEF RequestHead
<1> HIDE DEF H
<1>2. /\ q.length \in Nat /\ some \in BOOLEAN /\ q.form \in BOOLEAN
      /\ q.close \in BOOLEAN /\ q.bad \in BOOLEAN
  BY DEF AnyRequest
<1>3. /\ l \in AnyItem /\ Item("form", 0, n) \in AnyItem
      /\ Item("close", 0, n) \in AnyItem /\ Item("bad", 0, n) \in AnyItem
      /\ Item("blank", 0, n) \in AnyItem
      /\ Item("request", n, n) \in AnyItem /\ Item("header", 0, n) \in AnyItem
  BY <1>2, ItemTypes DEF Lines, Headers
<1>4. a \in Seq(AnyItem) /\ Len(a) = 2 /\ a[1] = Item("request", n, n) /\ a[2] = Item("header", 0, n)
  BY <1>3
<1> HIDE DEF a, l
<1>5. /\ b \in Seq(AnyItem) /\ Len(b) = IF some THEN Len(a) + 1 ELSE Len(a)
      /\ \A i \in 1..Len(a) : b[i] = a[i]
      /\ some => b[Len(a) + 1] = l
  <2>1. b = a \o (IF some THEN <<l>> ELSE <<>>)
    OBVIOUS
  <2>2. a \in Seq(AnyItem) /\ l \in AnyItem
    BY <1>3, <1>4
  <2> HIDE DEF b
  <2>3. QED BY <2>1, <2>2, OptionFacts
<1> HIDE DEF b
<1>6. /\ c \in Seq(AnyItem) /\ Len(c) = IF q.form THEN Len(b) + 1 ELSE Len(b)
      /\ \A i \in 1..Len(b) : c[i] = b[i]
      /\ q.form => c[Len(b) + 1] = Item("form", 0, n)
  BY <1>2, <1>3, <1>5, OptionFacts
<1> HIDE DEF c
<1>7. /\ d \in Seq(AnyItem) /\ Len(d) = IF q.close THEN Len(c) + 1 ELSE Len(c)
      /\ \A i \in 1..Len(c) : d[i] = c[i]
      /\ q.close => d[Len(c) + 1] = Item("close", 0, n)
  BY <1>2, <1>3, <1>6, OptionFacts
<1> HIDE DEF d
<1>8. /\ e \in Seq(AnyItem) /\ Len(e) = IF q.bad THEN Len(d) + 1 ELSE Len(d)
      /\ \A i \in 1..Len(d) : e[i] = d[i]
      /\ q.bad => e[Len(d) + 1] = Item("bad", 0, n)
  BY <1>2, <1>3, <1>7, OptionFacts
<1> HIDE DEF e
<1>9. /\ H \in Seq(AnyItem) /\ Len(H) = Len(e) + 1
      /\ \A i \in 1..Len(e) : H[i] = e[i]
      /\ H[Len(e) + 1] = Item("blank", 0, n)
  <2>1. H = e \o (IF TRUE THEN <<Item("blank", 0, n)>> ELSE <<>>)
    BY <1>1
  <2>2. QED BY <1>3, <1>8, <2>1, OptionFacts
<1> DEFINE nb == Len(b)
           nc == Len(c)
           nd == Len(d)
           ne == Len(e)
           nh == Len(H)
<1>10. /\ nb \in 2..3 /\ nc \in nb..nb + 1 /\ nd \in nc..nc + 1 /\ ne \in nd..nd + 1 /\ nh = ne + 1
       /\ some => nb = 3
       /\ nb = 3 => some
       /\ q.bad => ne = nd + 1
  <2>1. nb = IF some THEN 3 ELSE 2
    BY <1>4, <1>5
  <2>2. nc = IF q.form THEN nb + 1 ELSE nb
    BY <1>6
  <2>3. nd = IF q.close THEN nc + 1 ELSE nc
    BY <1>7
  <2>4. ne = (IF q.bad THEN nd + 1 ELSE nd) /\ nh = ne + 1
    BY <1>8, <1>9
  <2> HIDE DEF nb, nc, nd, ne, nh
  <2>5. QED BY <2>1, <2>2, <2>3, <2>4, <1>2
<1> HIDE DEF nb, nc, nd, ne, nh
<1>11. nh >= 3 /\ (q.bad \/ q.length > 0 => nh >= 4)
  BY <1>10
<1>12. \A i \in 1..nb : i \in 1..nc /\ i \in 1..nd /\ i \in 1..ne /\ H[i] = b[i]
  <2>1. \A i \in 1..nb : i \in 1..nc /\ i \in 1..nd /\ i \in 1..ne
    BY <1>10
  <2>2. QED BY <2>1, <1>6, <1>7, <1>8, <1>9 DEF nb, nc, nd, ne
<1>13. H[1] = Item("request", n, n) /\ H[2] = Item("header", 0, n)
  <2>1. H[1] = b[1] /\ H[2] = b[2] /\ b[1] = a[1] /\ b[2] = a[2]
    BY <1>4, <1>5, <1>10, <1>12
  <2>2. QED BY <2>1, <1>4
<1>14. H[nh] = Item("blank", 0, n)
  BY <1>9 DEF nh
<1>15. ASSUME NEW i \in 2..nh - 1
       PROVE  \/ i = 2 /\ H[i] = Item("header", 0, n)
              \/ i = 3 /\ some /\ H[i] = l
              \/ i = nh - 1 /\ q.bad /\ H[i] = Item("bad", 0, n)
              \/ /\ i > nb /\ (q.bad => i # nh - 1)
                 /\ H[i] = Item("form", 0, n) \/ H[i] = Item("close", 0, n)
  <2>1. CASE i \in 1..nb
    <3>1. H[i] = b[i] /\ (i = 2 \/ (i = 3 /\ nb = 3))
      BY <2>1, <1>10, <1>12
    <3>2. some /\ nb = 3 => b[3] = l
      BY <1>4, <1>5
    <3>3. QED BY <3>1, <3>2, <1>10, <1>13
  <2>2. CASE i \in nb + 1 .. nd
    <3>1. i \in 1..nd /\ i \in 1..ne /\ (q.bad => i # nh - 1)
      BY <2>2, <1>10
    <3>2. H[i] = d[i]
      BY <3>1, <1>8, <1>9 DEF nd, ne
    <3>3. CASE i \in 1..nc
      <4>1. d[i] = c[i] /\ i = nb + 1 /\ q.form
        BY <2>2, <3>3, <1>2, <1>6, <1>7, <1>10 DEF nb, nc
      <4>2. QED BY <2>2, <3>1, <3>2, <4>1, <1>6, <1>10 DEF nb
    <3>4. CASE i = nc + 1
      <4>1. q.close
        BY <2>2, <3>4, <1>2, <1>7, <1>10 DEF nc, nd
      <4>2. QED BY <2>2, <3>1, <3>2, <3>4, <4>1, <1>7, <1>10 DEF nc
    <3>5. QED BY <2>2, <3>3, <3>4, <1>10
  <2>3. CASE i = nd + 1 /\ i <= ne
    <3>1. q.bad
      BY <2>3, <1>2, <1>8, <1>10 DEF nd, ne
    <3>2. i = nh - 1 /\ i \in 1..ne
      BY <2>3, <3>1, <1>10
    <3>3. QED BY <2>3, <3>1, <3>2, <1>8, <1>9 DEF nd, ne
  <2>4. QED BY <2>1, <2>2, <2>3, <1>10
<1>16. q.bad => H[nh - 1] = Item("bad", 0, n)
  <2>1. q.bad => nh - 1 = nd + 1 /\ nd + 1 \in 1..ne
    BY <1>10
  <2>2. QED BY <2>1, <1>8, <1>9 DEF nd, ne
<1>17. some => H[3] = l /\ nb = 3
  BY <1>4, <1>5, <1>10, <1>12
<1>18. ASSUME NEW i \in 2..nh - 1
       PROVE  /\ H[i].is \in Headers \cup {"bad"} /\ H[i].re = n
              /\ H[i].is = "bad" <=> q.bad /\ i = nh - 1
              /\ H[i].is = "length" <=> q.length > 0 /\ i = 3
              /\ H[i].is = "length" => H[i].n = q.length
  <2>1. CASE i = 2 /\ H[i] = Item("header", 0, n)
    <3>1. q.bad => nh - 1 # 2
      BY <2>1, <1>16, <1>11 DEF Item
    <3>2. H[i].is = "header" /\ H[i].re = n
      BY <2>1 DEF Item
    <3>3. QED BY <2>1, <3>1, <3>2 DEF Headers
  <2>2. CASE i = 3 /\ some /\ H[i] = l
    <3>1. H[i].is = "length" /\ H[i].re = n /\ H[i].n = q.length
      BY <2>2 DEF Item, l
    <3>2. q.bad => nh - 1 # 3
      BY <2>2, <3>1, <1>16 DEF Item
    <3>3. QED BY <2>2, <3>1, <3>2 DEF Headers
  <2>3. CASE i = nh - 1 /\ q.bad /\ H[i] = Item("bad", 0, n)
    <3>1. H[i].is = "bad" /\ H[i].re = n
      BY <2>3 DEF Item
    <3>2. some => i # 3
      BY <3>1, <1>17 DEF Item, l
    <3>3. QED BY <2>3, <3>1, <3>2
  <2>4. CASE /\ i > nb /\ (q.bad => i # nh - 1)
             /\ H[i] = Item("form", 0, n) \/ H[i] = Item("close", 0, n)
    <3>1. H[i].is \in {"form", "close"} /\ H[i].re = n
      BY <2>4 DEF Item
    <3>2. some => i # 3
      BY <2>4, <1>17
    <3>3. QED BY <2>4, <3>1, <3>2 DEF Headers
  <2>5. QED BY <2>1, <2>2, <2>3, <2>4, <1>15
<1>19. IsHead(H, q, n)
  BY <1>9, <1>11, <1>13, <1>14, <1>18 DEF nh, IsHead
<1>20. QED BY <1>19 DEF H

LEMMA DataFacts ==
  ASSUME NEW k \in Nat, NEW n \in Nat
  PROVE  /\ Data(k, n) \in Seq(AnyItem) /\ Len(Data(k, n)) = k
         /\ \A i \in 1..k : Data(k, n)[i] = Item("data", 0, n)
<1>1. Item("data", 0, n) \in AnyItem
  BY ItemTypes
<1>2. Data(k, n) \in [1..k -> AnyItem] /\ \A i \in 1..k : Data(k, n)[i] = Item("data", 0, n)
  BY <1>1 DEF Data
<1>3. Data(k, n) \in Seq(AnyItem)
  BY <1>2, SeqDef
<1>4. QED BY <1>2, <1>3, LenProperties

-----------------------------------------------------------------------------
(* Types, and the control of the server's task and of the client, which do *)
(* not depend on what comes over the connection                            *)

Ends == {"none", "open", "closed"}
States == {"closed", "request", "headers", "rest", "handle", "body", "lookup", "respond", "error",
           "finish", "end"}
ClientStates == {"idle", "connect", "send", "upload", "status", "headers", "size", "chunk",
                 "footer", "trailer", "length", "eof", "dead"}

AnyCall == [op : {"status"}, status : Statuses] \cup [op : {"header", "headers", "file", "print"}]

AnyServed ==
  [n : Nat, handler : {"none", "upload", "dns", "static"}, http11 : BOOLEAN, headers : BOOLEAN,
   length : Nat, form : BOOLEAN, body : BOOLEAN]

AnyResponse == [status : {0} \cup Statuses, headers : BOOLEAN, chunked : BOOLEAN, close : BOOLEAN]

AnyGot ==
  [status : Nat, length : Nat, chunked : BOOLEAN, close : BOOLEAN, units : Nat, of : SUBSET Nat]

AskedTypes ==
  /\ asked \in Seq(AnyRequest) /\ Len(asked) <= MaxRequests
  /\ \A i \in 1..Len(asked) : asked[i] \in Requests[i]

ConnTypes ==
  /\ up \in Seq(AnyItem) /\ down \in Seq(AnyItem)
  /\ clientEnd \in Ends /\ serverEnd \in Ends /\ broken \in BOOLEAN

ServerTypes ==
  /\ at \in States /\ request \in AnyServed /\ response \in AnyResponse
  /\ script \in Seq(AnyCall) /\ err \in {-1, 0} \cup Statuses
  /\ answers \in [Answered -> {0} \cup Statuses] /\ meant \in [Answered -> Nat]
  /\ stored \in [of : Nat, units : Nat]

ClientTypes ==
  /\ cat \in ClientStates /\ got \in AnyGot /\ left \in Nat /\ results \in Seq(Int)
  /\ cat \in {"chunk", "length"} => left > 0

\* What the client has done for the calls, and the server for the requests.
Said == IF cat \in {"connect", "send"} THEN Len(asked) - 1 ELSE Len(asked)

Numbers ==
  /\ request.n \in 0..Said
  /\ \A i \in 1..Len(up) : up[i].is = "request" => up[i].n \in 1..Said
  /\ \A i \in 1..MaxRequests : i > Said => answers[i] = 0 /\ meant[i] = 0

ClientControl ==
  /\ (cat # "idle" \/ clientEnd = "open") => Len(asked) > 0
  /\ cat = "connect" => clientEnd # "open"
  /\ cat \notin {"idle", "connect", "dead"} => clientEnd = "open"
  /\ cat = "dead" => clientEnd = "closed"
  /\ cat \notin {"idle", "dead"} => Len(results) = Len(asked) - 1
  /\ cat = "idle" => Len(results) = Len(asked)

Serves == at \notin {"closed", "request"}

\* The request.
RequestControl ==
  /\ at = "closed" <=> serverEnd # "open"
  /\ ~Serves => request = NoRequest /\ response = NoResponse
  /\ request.handler # "none" => request.n > 0
  /\ request.handler = "static" =>
       asked[request.n].method = "GET" /\ asked[request.n].name \in Names
  /\ at \in {"headers", "rest"} => ~request.headers
  /\ ~request.headers => ~request.body
  /\ at \in {"headers", "handle"} => ~request.body /\ request.handler # "none"
  /\ at = "handle" /\ request.handler = "dns" => request.headers
  /\ at = "body" => /\ ~request.body /\ request.headers /\ request.length > 0
                    /\ request.handler \in {"upload", "dns"}
  /\ at = "lookup" => request.headers

\* The response.
ResponseControl ==
  /\ at \in {"headers", "handle", "body", "lookup"} => response.status = 0
  /\ response.status = 0 => ~response.headers
  /\ ~response.headers => ~response.chunked
  /\ err < 0 => at \in {"rest", "finish"}
  /\ err # 201
  /\ at \in {"error", "end"} /\ ClosesForBody => response.close
  /\ at = "end" => response.status # 0
  /\ Serves /\ ~request.http11 /\ ~response.close =>
       \/ at = "finish" /\ err > 0 /\ response.status = 0
       \/ at = "error" /\ ~response.headers

\* What is left of a response: the status comes first, what has no length last.
Fits(s, status, headers) ==
  \A i \in 1..Len(s) :
    /\ s[i].op = "status" <=> i = 1 /\ status = 0
    /\ s[i].op \in {"file", "headers"} => i = Len(s)
    /\ s[i].op # "print" => ~headers
    /\ s[i].op = "print" => \A j \in i..Len(s) : s[j].op = "print"

ScriptControl ==
  /\ script # <<>> <=> at \in {"respond", "error"}
  /\ at = "error" => script[Len(script)].op = "print"
  /\ Fits(script, response.status, response.headers)
  /\ \A i \in 1..Len(script) :
       /\ script[i].op \in {"file", "headers"} => at = "respond" /\ request.handler = "static"
       /\ script[i].op = "status" /\ script[i].status = 201 =>
            at = "respond" /\ request.handler = "upload"

Control ==
  /\ AskedTypes /\ ConnTypes /\ ServerTypes /\ ClientTypes
  /\ Numbers /\ ClientControl /\ RequestControl /\ ResponseControl /\ ScriptControl

\* The client's instance of Http says the same of the connection as the server's.
LEMMA ClientText ==
  /\ \A w : Client!HasLine(w) <=> HasLine(w)
  /\ \A w : Client!LineOf(w) = LineOf(w)
  /\ \A w : Client!AfterLine(w) = AfterLine(w)
  /\ \A w, peer : Client!EofLine(w, peer) <=> EofLine(w, peer)
  /\ \A w, peer : Client!EofData(w, peer) <=> EofData(w, peer)
  /\ \A q, n : Client!RequestHead(q, n) = RequestHead(q, n)
  /\ \A k, n : Client!Data(k, n) = Data(k, n)
  /\ Client!Headers = Headers
  /\ Client!Asking = asked[Len(asked)]
BY Zenon DEF Client!HasLine, HasLine, Client!LineOf, LineOf, Client!LineEnd, LineEnd,
     Client!AfterLine, AfterLine, Client!EofLine, EofLine, Client!EofData, EofData,
     Client!RequestHead, RequestHead, Client!Data, Data, Client!Headers, Headers,
     Client!Asking, Client!Request, Client!Item, Item, Client!Min, Min

\* What the server's task leaves alone.
LEMMA ServerFrame ==
  ASSUME ServerNext
  PROVE  asked' = asked /\ clientEnd' = clientEnd /\ broken' = broken
BY DEF ServerNext, ReadRequest, NoMoreRequests, ReadHeader, ReadEndOfHeaders, ReadBadHeader,
     ReadHeaderFails, StaticGet, StaticPut, ReadFile, ReadFileFails, DnsParams, ReadForm,
     ReadFormFails, Lookup, Write, WriteShrunkFile, WriteFails, Conclude, EndResponse, connVars

\* What the client's steps leave alone.
LEMMA ClientFrame ==
  ASSUME Client!ClientSteps
  PROVE  asked' = asked /\ serverEnd' = serverEnd /\ broken' = broken
BY DEF Client!ClientSteps, Client!ConnectFails, Client!SendHead, Client!SendBody,
     Client!SendFails, Client!ReadStatus, Client!ReadHeader, Client!HeadersEof, Client!ReadSize,
     Client!ReadChunk, Client!ReadFooter, Client!ReadTrailer, Client!ReadBody, Client!ReadEof,
     Client!ReadFails, Client!TakeLine, Client!connVars

\* One of the steps of the network, which takes away the ends of what is under way.
NetworkStep == Breaks /\ UNCHANGED <<serverVars, clientVars>>

LEMMA Steps ==
  ASSUME Next
  PROVE  \/ Len(asked) < MaxRequests /\ \E q \in Requests[Len(asked) + 1] : Call(q)
         \/ ServerNext /\ UNCHANGED clientVars
         \/ Connect
         \/ Client!ClientSteps /\ UNCHANGED serverVars
         \/ Crash /\ UNCHANGED clientVars
         \/ Client!Dies /\ UNCHANGED serverVars
         \/ NetworkStep
BY DEF Next, ServerStep, ClientStep, NetworkResets, NetworkBreaks, Reset, Break, NetworkStep,
     ServerCrashes, ClientDies

\* Only a call changes what has been asked for.
LEMMA AskedFrame ==
  ASSUME [Next]_vars
  PROVE  \/ asked' = asked
         \/ /\ Len(asked) < MaxRequests /\ cat = "idle"
            /\ \E q \in Requests[Len(asked) + 1] : Call(q) /\ asked' = Append(asked, q)
<1>1. CASE Len(asked) < MaxRequests /\ \E q \in Requests[Len(asked) + 1] : Call(q)
  BY <1>1 DEF Call, Client!Call
<1>2. CASE ServerNext
  BY <1>2, ServerFrame
<1>3. CASE Client!ClientSteps
  BY <1>3, ClientFrame
<1>4. CASE Connect \/ Crash \/ Client!Dies \/ NetworkStep
  BY <1>4 DEF Connect, Client!Connect, Crash, Client!Dies, NetworkStep, Breaks
<1>5. CASE UNCHANGED vars
  BY <1>5 DEF vars, connVars
<1>6. QED BY <1>1, <1>2, <1>3, <1>4, <1>5, Steps

LEMMA AskedTyped ==
  ASSUME AskedTypes, [Next]_vars
  PROVE  AskedTypes' /\ Len(asked) <= Len(asked)' /\ \A i \in 1..Len(asked) : asked'[i] = asked[i]
<1>1. CASE asked' = asked
  <2>1. Len(asked) \in Nat
    BY LenProperties DEF AskedTypes
  <2>2. QED BY <1>1, <2>1 DEF AskedTypes
<1>2. ASSUME Len(asked) < MaxRequests,
             NEW q \in Requests[Len(asked) + 1], asked' = Append(asked, q)
      PROVE  AskedTypes' /\ Len(asked) <= Len(asked)' /\ \A i \in 1..Len(asked) : asked'[i] = asked[i]
  <2>1. Len(asked) \in Nat /\ MaxRequests \in Nat
    BY LenProperties, SizesAssumption DEF AskedTypes
  <2>2. Len(asked) + 1 \in 1..MaxRequests
    BY <1>2, <2>1
  <2>3. q \in AnyRequest
    BY <2>2, RequestsAssumption
  <2>4. /\ asked' \in Seq(AnyRequest) /\ Len(asked') = Len(asked) + 1
        /\ \A i \in 1..Len(asked) : asked'[i] = asked[i]
        /\ asked'[Len(asked) + 1] = q
    BY <1>2, <2>3, AppendProperties DEF AskedTypes
  <2>5. ASSUME NEW i \in 1..Len(asked') PROVE asked'[i] \in Requests[i]
    BY <2>1, <2>4 DEF AskedTypes
  <2>6. QED BY <1>2, <2>1, <2>4, <2>5 DEF AskedTypes
<1>3. QED BY <1>1, <1>2, AskedFrame

-----------------------------------------------------------------------------
(* What is under way                                                       *)

\* The sequence without its first element.
LEMMA TailFacts ==
  ASSUME NEW S, NEW w \in Seq(S), w # <<>>
  PROVE  /\ Len(w) \in Nat \ {0} /\ Head(w) = w[1] /\ w[1] \in S
         /\ Tail(w) \in Seq(S) /\ Len(Tail(w)) = Len(w) - 1
         /\ \A i \in 1..Len(w) - 1 : Tail(w)[i] = w[1 + i]
         /\ Tail(w) = SubSeq(w, 2, Len(w))
<1>1. Len(w) \in Nat \ {0}
  BY LenProperties, EmptySeq
<1>2. /\ Head(w) = w[1] /\ w[1] \in S /\ Tail(w) \in Seq(S) /\ Len(Tail(w)) = Len(w) - 1
      /\ \A i \in 1..Len(w) - 1 : Tail(w)[i] = w[i + 1]
  BY <1>1, HeadTailProperties, ElementOfSeq
<1>3. 1 \in 0..Len(w) /\ 1 + 1 = 2
  BY <1>1
<1> DEFINE r == SubSeq(w, 2, Len(w))
<1>4. r \in Seq(S) /\ Len(r) = Len(w) - 1 /\ \A i \in 1..Len(w) - 1 : r[i] = w[1 + i]
  BY <1>3, RestFacts
<1> HIDE DEF r
<1>5. \A i \in 1..Len(w) - 1 : Tail(w)[i] = w[1 + i]
  BY <1>1, <1>2
<1>6. Tail(w) = r
  BY <1>2, <1>4, <1>5, SeqEqual
<1>7. QED BY <1>1, <1>2, <1>5, <1>6 DEF r

\* The server takes what it reads from the front.
LEMMA ServerReads ==
  ASSUME up \in Seq(AnyItem), request \in AnyServed, ServerNext
  PROVE  \E k \in 0..Len(up) : up' = SubSeq(up, k + 1, Len(up))
<1>1. Len(up) \in Nat
  BY LenProperties
<1>2. CASE up' = up
  <2>1. SubSeq(up, 1, Len(up)) = up
    BY SubSeqFull
  <2>2. QED BY <1>1, <1>2, <2>1
<1>3. CASE HasLine(up) /\ up' = AfterLine(up)
  <2>1. LineEnd(up) \in 0..Len(up)
    BY <1>3, LineFacts
  <2>2. QED BY <1>3, <2>1 DEF AfterLine
<1>4. CASE up # <<>> /\ up' = Tail(up)
  <2>1. Len(up) \in Nat \ {0} /\ Tail(up) = SubSeq(up, 2, Len(up)) /\ 1 + 1 = 2
    BY <1>4, TailFacts
  <2>2. 1 \in 0..Len(up)
    BY <2>1
  <2>3. QED BY <1>4, <2>1, <2>2
<1>5. CASE \E k \in request.length..Len(up) : up' = SubSeq(up, k + 1, Len(up))
  <2>1. request.length \in Nat
    BY DEF AnyServed
  <2>2. QED BY <1>1, <1>5, <2>1
<1>6. \/ up' = up
      \/ HasLine(up) /\ up' = AfterLine(up)
      \/ up # <<>> /\ up' = Tail(up)
      \/ \E k \in request.length..Len(up) : up' = SubSeq(up, k + 1, Len(up))
  BY DEF ServerNext, ReadRequest, NoMoreRequests, ReadHeader, ReadEndOfHeaders, ReadBadHeader,
     ReadHeaderFails, StaticGet, StaticPut, ReadFile, ReadFileFails, DnsParams, ReadForm,
     ReadFormFails, Lookup, Write, WriteShrunkFile, WriteFails, Conclude, EndResponse, connVars
<1>7. QED BY <1>2, <1>3, <1>4, <1>5, <1>6

-----------------------------------------------------------------------------
(* A whole request                                                         *)

MessageOf(q, n) == RequestHead(q, n) \o Data(q.length, n)

Message(i)    == MessageOf(asked[i], i)
HeadLen(i)    == Len(RequestHead(asked[i], i))
MessageLen(i) == HeadLen(i) + asked[i].length

\* The first line, a header where they are, with a length at the third place if there is a
\* body, and a bad one at the end, the empty line, and the body.
LEMMA MessageFacts ==
  ASSUME AskedTypes, NEW n \in 1..Len(asked)
  PROVE  /\ RequestHead(asked[n], n) \in Seq(AnyItem)
         /\ asked[n] \in AnyRequest /\ asked[n].length \in Nat /\ asked[n].bad \in BOOLEAN
         /\ HeadLen(n) \in Nat /\ HeadLen(n) >= 3
         /\ asked[n].bad \/ asked[n].length > 0 => HeadLen(n) >= 4
         /\ MessageLen(n) \in Nat /\ MessageLen(n) = HeadLen(n) + asked[n].length
         /\ Message(n) \in Seq(AnyItem) /\ Len(Message(n)) = MessageLen(n)
         /\ Message(n)[1] = Item("request", n, n)
         /\ Message(n)[HeadLen(n)] = Item("blank", 0, n)
         /\ \A i \in 2..HeadLen(n) - 1 :
              /\ Message(n)[i].is \in Headers \cup {"bad"} /\ Message(n)[i].re = n
              /\ Message(n)[i].is = "bad" <=> asked[n].bad /\ i = HeadLen(n) - 1
              /\ Message(n)[i].is = "length" <=> asked[n].length > 0 /\ i = 3
              /\ Message(n)[i].is = "length" => Message(n)[i].n = asked[n].length
         /\ \A i \in HeadLen(n) + 1 .. MessageLen(n) : Message(n)[i] = Item("data", 0, n)
<1> DEFINE q == asked[n]
           H == RequestHead(q, n)
           D == Data(q.length, n)
           M == MessageOf(q, n)
           hl == Len(H)
<1>1. q \in AnyRequest /\ q.length \in Nat /\ q.bad \in BOOLEAN /\ n \in Nat
  <2>1. Len(asked) \in Nat /\ q \in AnyRequest
    BY LenProperties, ElementOfSeq DEF AskedTypes
  <2>2. QED BY <2>1 DEF AnyRequest
<1> HIDE DEF q
<1>0. IsHead(H, q, n)
  BY <1>1, HeadFacts
<1> HIDE DEF H
<1>2. /\ H \in Seq(AnyItem) /\ Len(H) >= 3 /\ (q.bad \/ q.length > 0 => Len(H) >= 4)
      /\ H[1] = Item("request", n, n) /\ H[Len(H)] = Item("blank", 0, n)
      /\ \A i \in 2..Len(H) - 1 :
           /\ H[i].is \in Headers \cup {"bad"} /\ H[i].re = n
           /\ H[i].is = "bad" <=> q.bad /\ i = Len(H) - 1
           /\ H[i].is = "length" <=> q.length > 0 /\ i = 3
           /\ H[i].is = "length" => H[i].n = q.length
  BY <1>0 DEF IsHead
<1>3. D \in Seq(AnyItem) /\ Len(D) = q.length /\ \A i \in 1..q.length : D[i] = Item("data", 0, n)
  BY <1>1, DataFacts
<1>4. M = H \o D
  BY DEF MessageOf, H
<1> HIDE DEF D, M
<1>5. /\ M \in Seq(AnyItem) /\ Len(M) = Len(H) + Len(D)
      /\ \A i \in 1..Len(H) : M[i] = H[i]
      /\ \A i \in 1..Len(D) : M[Len(H) + i] = D[i]
  <2>1. H \in Seq(AnyItem) /\ D \in Seq(AnyItem)
    BY <1>2, <1>3
  <2>2. QED BY <2>1, <1>4, JoinFacts
<1>6. hl \in Nat /\ hl >= 3 /\ (q.bad \/ q.length > 0 => hl >= 4)
  BY <1>2, LenProperties
<1>7. ASSUME NEW i \in hl + 1 .. hl + q.length PROVE M[i] = Item("data", 0, n)
  <2>1. PICK j \in Int : j = i - hl
    BY <1>6
  <2>2. j \in 1..q.length /\ i = hl + j
    BY <2>1, <1>1, <1>6
  <2>3. QED BY <2>2, <1>3, <1>5
<1>8. /\ M[1] = Item("request", n, n) /\ M[hl] = Item("blank", 0, n)
      /\ \A i \in 2..hl - 1 : M[i] = H[i]
  <2>1. \A i \in 2..hl - 1 : i \in 1..hl
    BY <1>6
  <2>2. 1 \in 1..hl /\ hl \in 1..hl
    BY <1>6
  <2>3. QED BY <1>2, <1>5, <2>1, <2>2
<1>9. \A i \in 2..hl - 1 :
         /\ M[i].is \in Headers \cup {"bad"} /\ M[i].re = n
         /\ M[i].is = "bad" <=> q.bad /\ i = hl - 1
         /\ M[i].is = "length" <=> q.length > 0 /\ i = 3
         /\ M[i].is = "length" => M[i].n = q.length
  BY <1>2, <1>8
<1>10. hl + q.length \in Nat /\ Len(M) = hl + q.length
  BY <1>1, <1>3, <1>5, <1>6
<1>11. HeadLen(n) = hl /\ MessageLen(n) = hl + q.length /\ Message(n) = M /\ RequestHead(asked[n], n) = H
  BY DEF HeadLen, MessageLen, Message, M, H, q
<1>12. asked[n] = q
  BY DEF q
<1> HIDE DEF hl
<1>13. QED BY <1>1, <1>2, <1>5, <1>6, <1>7, <1>8, <1>9, <1>10, <1>11, <1>12

\* What the client has still to write when it is killed.
Unsent ==
  (IF cat = "send" THEN RequestHead(asked[Len(asked)], Len(asked)) ELSE <<>>)
  \o (IF cat \in {"send", "upload"} THEN Data(asked[Len(asked)].length, Len(asked)) ELSE <<>>)

LEMMA UnsentFacts ==
  ASSUME AskedTypes, ClientTypes, cat # "idle" => Len(asked) > 0
  PROVE  /\ Unsent \in Seq(AnyItem)
         /\ cat = "send" => Unsent = Message(Len(asked))
         /\ cat = "upload" => Unsent = Data(asked[Len(asked)].length, Len(asked))
         /\ cat \notin {"send", "upload"} => Unsent = <<>>
<1>1. Len(asked) \in Nat
  BY LenProperties DEF AskedTypes
<1>2. CASE cat \notin {"send", "upload"}
  <2>1. <<>> \in Seq(AnyItem) /\ <<>> \o <<>> = <<>>
    BY EmptySeq, ConcatEmptySeq
  <2>2. Unsent = <<>> \o <<>>
    BY <1>2 DEF Unsent
  <2>3. QED BY <1>2, <2>1, <2>2
<1>3. CASE cat \in {"send", "upload"}
  <2>1. Len(asked) \in 1..Len(asked)
    BY <1>1, <1>3
  <2>2. /\ Message(Len(asked)) \in Seq(AnyItem) /\ asked[Len(asked)].length \in Nat
    BY <2>1, MessageFacts
  <2>3. Data(asked[Len(asked)].length, Len(asked)) \in Seq(AnyItem)
    BY <1>1, <2>2, DataFacts
  <2>4. CASE cat = "send"
    <3>1. Unsent = Message(Len(asked))
      BY <2>4 DEF Unsent, Message, MessageOf
    <3>2. QED BY <2>4, <3>1, <2>2
  <2>5. CASE cat = "upload"
    <3>1. Unsent = <<>> \o Data(asked[Len(asked)].length, Len(asked))
      BY <2>5 DEF Unsent
    <3>2. Unsent = Data(asked[Len(asked)].length, Len(asked))
      BY <3>1, <2>3, ConcatEmptySeq
    <3>3. QED BY <2>5, <3>2, <2>3
  <2>6. QED BY <1>3, <2>4, <2>5
<1>4. QED BY <1>2, <1>3

\* What is under way to the server has been, or is written by the client for its last call.
LEMMA UpTyped ==
  ASSUME AskedTypes, ConnTypes, ServerTypes, ClientTypes, ClientControl, [Next]_vars
  PROVE  /\ up' \in Seq(AnyItem)
         /\ \A i \in 1..Len(up') : up'[i].is = "request" =>
              \/ \E j \in 1..Len(up) : up[j] = up'[i]
              \/ up'[i].n = Len(asked) /\ Said' = Len(asked) /\ Len(asked) > 0
<1>1. Len(up) \in Nat /\ up \in Seq(AnyItem) /\ Len(asked) \in Nat
  BY LenProperties DEF ConnTypes, AskedTypes
<1>2. CASE up' = up
  BY <1>1, <1>2
<1>3. CASE up' = <<>>
  BY <1>3, EmptySeq
<1>4. ASSUME NEW k \in 0..Len(up), up' = SubSeq(up, k + 1, Len(up))
      PROVE  up' \in Seq(AnyItem) /\ \A i \in 1..Len(up') : \E j \in 1..Len(up) : up[j] = up'[i]
  <2>1. up' \in Seq(AnyItem) /\ Len(up') = Len(up) - k /\ \A i \in 1..Len(up) - k : up'[i] = up[k + i]
    BY <1>1, <1>4, RestFacts
  <2>2. \A i \in 1..Len(up) - k : k + i \in 1..Len(up)
    BY <1>1
  <2>3. QED BY <2>1, <2>2
<1>5. ASSUME NEW k \in 0..Len(up), up' = SubSeq(up, 1, k)
      PROVE  up' \in Seq(AnyItem) /\ \A i \in 1..Len(up') : \E j \in 1..Len(up) : up[j] = up'[i]
  <2>1. up' \in Seq(AnyItem) /\ Len(up') = k /\ \A i \in 1..k : up'[i] = up[i]
    BY <1>1, <1>5, TakeFacts
  <2>2. \A i \in 1..k : i \in 1..Len(up)
    BY <1>1
  <2>3. QED BY <2>1, <2>2
<1>6. ASSUME NEW X \in Seq(AnyItem), up' = up \o X, Said' = Len(asked), Len(asked) > 0,
             \A i \in 1..Len(X) : X[i].is = "request" => X[i].n = Len(asked)
      PROVE  /\ up' \in Seq(AnyItem)
             /\ \A i \in 1..Len(up') : up'[i].is = "request" =>
                  \/ \E j \in 1..Len(up) : up[j] = up'[i]
                  \/ up'[i].n = Len(asked) /\ Said' = Len(asked) /\ Len(asked) > 0
  <2>1. /\ up' \in Seq(AnyItem) /\ Len(up') = Len(up) + Len(X) /\ Len(X) \in Nat
        /\ \A i \in 1..Len(up) : up'[i] = up[i]
        /\ \A i \in 1..Len(X) : up'[Len(up) + i] = X[i]
    BY <1>1, <1>6, JoinFacts, LenProperties
  <2>2. ASSUME NEW i \in 1..Len(up'), up'[i].is = "request", i > Len(up)
        PROVE  up'[i].n = Len(asked)
    <3>1. PICK j \in Int : j = i - Len(up)
      BY <1>1
    <3>2. j \in 1..Len(X) /\ i = Len(up) + j
      BY <2>1, <2>2, <3>1, <1>1
    <3>3. QED BY <1>6, <2>1, <2>2, <3>2
  <2>3. QED BY <1>1, <1>6, <2>1, <2>2
<1>7. CASE Connect
  BY <1>3, <1>7 DEF Connect, Client!Connect
<1>8. CASE ServerNext
  <2>1. \E k \in 0..Len(up) : up' = SubSeq(up, k + 1, Len(up))
    BY <1>1, <1>8, ServerReads DEF ServerTypes
  <2>2. QED BY <1>4, <2>1
<1>9. CASE NetworkStep
  <2>1. \E k \in 0..Len(up) : up' = SubSeq(up, 1, k)
    BY <1>9 DEF NetworkStep, Breaks
  <2>2. QED BY <1>5, <2>1
<1>10. CASE cat \in {"send", "upload"} /\ (Client!SendHead \/ Client!SendBody)
  <2>1. Len(asked) \in 1..Len(asked) /\ Len(asked) > 0
    BY <1>1, <1>10 DEF ClientControl
  <2>2. Said' = Len(asked)
    BY <1>10 DEF Said, Client!SendHead, Client!SendBody
  <2>3. CASE Client!SendHead
    <3> DEFINE X == RequestHead(asked[Len(asked)], Len(asked))
    <3>1. up' = up \o X
      BY <2>3, ClientText DEF Client!SendHead
    <3>2. asked[Len(asked)] \in AnyRequest
      BY <2>1, MessageFacts
    <3>7. IsHead(X, asked[Len(asked)], Len(asked))
      BY <1>1, <3>2, HeadFacts
    <3> HIDE DEF X
    <3>3. /\ X \in Seq(AnyItem) /\ X[1].n = Len(asked) /\ X[Len(X)].is = "blank"
          /\ \A i \in 2..Len(X) - 1 : X[i].is \in Headers \cup {"bad"}
      BY <3>7 DEF Item, IsHead
    <3>4. Len(X) \in Nat
      BY <3>3, LenProperties
    <3>5. \A i \in 1..Len(X) : X[i].is = "request" => X[i].n = Len(asked)
      <4>1. \A i \in 1..Len(X) : i = 1 \/ i = Len(X) \/ i \in 2..Len(X) - 1
        BY <3>4
      <4>2. "request" \notin Headers \cup {"bad", "blank"}
        BY DEF Headers
      <4>3. QED BY <3>3, <4>1, <4>2
    <3>6. QED BY <1>6, <2>1, <2>2, <3>1, <3>3, <3>5
  <2>4. CASE Client!SendBody
    <3> DEFINE X == Data(asked[Len(asked)].length, Len(asked))
    <3>1. up' = up \o X
      BY <2>4, ClientText DEF Client!SendBody
    <3>2. asked[Len(asked)].length \in Nat
      BY <2>1, MessageFacts
    <3> DEFINE l == asked[Len(asked)].length
    <3>5. /\ X \in Seq(AnyItem) /\ Len(X) = l
          /\ \A i \in 1..l : X[i] = Item("data", 0, Len(asked))
      <4> HIDE DEF l
      <4>1. l \in Nat /\ X = Data(l, Len(asked))
        BY <3>2 DEF l
      <4> HIDE DEF X
      <4>2. QED BY <1>1, <4>1, DataFacts
    <3> HIDE DEF X
    <3>3. /\ X \in Seq(AnyItem) /\ Len(X) = asked[Len(asked)].length
          /\ \A i \in 1..Len(X) : X[i].is = "data"
      BY <3>5 DEF Item
    <3>4. QED BY <1>6, <2>1, <2>2, <3>1, <3>3
  <2>5. QED BY <1>10, <2>3, <2>4
<1>11. CASE Client!Dies
  <2>1. Said' = Len(asked)
    BY <1>11 DEF Said, Client!Dies
  <2>2. PICK k \in 0..Len(Unsent) : up' = up \o SubSeq(Unsent, 1, k)
    BY <1>11, ClientText DEF Client!Dies, Unsent
  <2> DEFINE X == SubSeq(Unsent, 1, k)
  <2>3. Unsent \in Seq(AnyItem)
    BY UnsentFacts DEF ClientControl
  <2>4. X \in Seq(AnyItem) /\ Len(X) = k /\ \A i \in 1..k : X[i] = Unsent[i]
    BY <2>3, TakeFacts
  <2>5. Len(asked) > 0 /\ Len(asked) \in 1..Len(asked)
    BY <1>1, <1>11 DEF ClientControl, Client!Dies
  <2>6. Len(Unsent) \in Nat
    BY <2>3, LenProperties
  <2>7. ASSUME NEW i \in 1..Len(Unsent), Unsent[i].is = "request"
        PROVE  Unsent[i].n = Len(asked)
    <3> DEFINE n == Len(asked)
               hl == HeadLen(n)
               ml == MessageLen(n)
               M == Message(n)
    <3>1. /\ M \in Seq(AnyItem) /\ Len(M) = ml /\ hl \in Nat /\ ml \in Nat /\ hl >= 3
          /\ M[1] = Item("request", n, n) /\ M[hl] = Item("blank", 0, n)
          /\ \A x \in 2..hl - 1 : M[x].is \in Headers \cup {"bad"}
          /\ \A x \in hl + 1 .. ml : M[x] = Item("data", 0, n)
          /\ asked[n].length \in Nat
      BY <2>5, MessageFacts
    <3>2. CASE cat = "send"
      <4>1. Unsent = M
        BY <3>2, UnsentFacts DEF ClientControl
      <4> HIDE DEF hl, ml, M
      <4>2. i \in 1..ml
        BY <3>1, <4>1, <2>7
      <4>3. i = 1 \/ i \in 2..hl - 1 \/ i = hl \/ i \in hl + 1 .. ml
        BY <4>2, <3>1
      <4>4. i = 1 \/ M[i].is # "request"
        BY <3>1, <4>3 DEF Headers, Item
      <4>5. QED BY <2>7, <3>1, <4>1, <4>4 DEF Item
    <3>3. CASE cat = "upload"
      <4>1. Unsent = Data(asked[n].length, n)
        BY <3>3, UnsentFacts DEF ClientControl
      <4>2. Unsent[i] = Item("data", 0, n)
        BY <4>1, <3>1, <1>1, <2>7, DataFacts
      <4>3. QED BY <2>7, <4>2 DEF Item
    <3>4. CASE cat \notin {"send", "upload"}
      <4>1. Unsent = <<>>
        BY <3>4, UnsentFacts DEF ClientControl
      <4>2. QED BY <4>1, <2>7, EmptySeq
    <3>5. QED BY <3>2, <3>3, <3>4
  <2>8. \A i \in 1..Len(X) : X[i].is = "request" => X[i].n = Len(asked)
    <3>1. \A i \in 1..k : i \in 1..Len(Unsent)
      BY <2>6
    <3> HIDE DEF X
    <3>2. QED BY <2>4, <2>7, <3>1
  <2>9. up' = up \o X
    BY <2>2
  <2> HIDE DEF X
  <2>10. QED BY <1>6, <2>1, <2>4, <2>5, <2>8, <2>9
<1>12. CASE Client!ClientSteps /\ ~(cat \in {"send", "upload"} /\ (Client!SendHead \/ Client!SendBody))
  <2>1. up' = up
    BY <1>12 DEF Client!ClientSteps, Client!ConnectFails, Client!SendHead, Client!SendBody,
     Client!SendFails, Client!ReadStatus, Client!ReadHeader, Client!HeadersEof, Client!ReadSize,
     Client!ReadChunk, Client!ReadFooter, Client!ReadTrailer, Client!ReadBody, Client!ReadEof,
     Client!ReadFails, Client!TakeLine, Client!connVars
  <2>2. QED BY <1>2, <2>1
<1>13. CASE Crash \/ (\E q \in Requests[Len(asked) + 1] : Call(q)) \/ UNCHANGED vars
  <2>1. up' = up
    BY <1>13 DEF Crash, Call, Client!Call, vars, connVars
  <2>2. QED BY <1>2, <2>1
<1>14. QED BY <1>7, <1>8, <1>9, <1>10, <1>11, <1>12, <1>13, Steps

\* What a call of the server puts on the connection.
LEMMA ItemsTyped ==
  ASSUME response \in AnyResponse, request \in AnyServed, NEW c \in AnyCall, NEW n \in Nat
  PROVE  /\ ItemsOf(c, n) \in Seq(AnyItem) /\ ResponseEnd \in Seq(AnyItem)
         /\ ResponseAfter(c) \in AnyResponse /\ BodyOf(c) \in Nat
         /\ c.op = "file" => Len(ItemsOf(c, n)) = FileSize + 2
<1>1. /\ FileSize \in Nat /\ request.n \in Nat /\ response.chunked \in BOOLEAN
      /\ request.http11 \in BOOLEAN /\ response.close \in BOOLEAN /\ response.headers \in BOOLEAN
  BY SizesAssumption DEF AnyServed, AnyResponse
<1>2. c.op \in {"status", "header", "headers", "file", "print"}
      /\ (c.op = "status" => c.status \in Statuses)
  BY DEF AnyCall
<1>3. \A s \in Statuses : s \in Nat
  BY DEF Statuses
<1>4. \A k, r \in Nat : \A is \in Lines \cup {"data"} : Item(is, k, r) \in AnyItem
  BY ItemTypes
<1>5. \A k, r \in Nat : Data(k, r) \in Seq(AnyItem) /\ Len(Data(k, r)) = k
  BY DataFacts
<1>6. \A s, t \in Seq(AnyItem) : s \o t \in Seq(AnyItem) /\ Len(s \o t) = Len(s) + Len(t)
  BY ConcatProperties
<1>7. /\ \A x \in AnyItem : <<x>> \in Seq(AnyItem)
      /\ \A x, y \in AnyItem : <<x, y>> \in Seq(AnyItem) /\ Len(<<x, y>>) = 2
  OBVIOUS
<1>8. {"status", "header", "length", "blank", "chunked", "close", "size"} \subseteq Lines \cup {"data"}
  BY DEF Lines, Headers
<1>9. <<>> \in Seq(AnyItem)
  BY EmptySeq
<1>10. ResponseAfter(c) \in AnyResponse
  BY <1>1, <1>2 DEF ResponseAfter, AnyResponse, StartsBody
<1>11. BodyOf(c) \in Nat
  BY <1>1 DEF BodyOf
<1>12. \A r \in Nat : /\ Chunk(1, r) \in Seq(AnyItem) /\ LastChunk(r) \in Seq(AnyItem)
                      /\ Data(1, r) \in Seq(AnyItem)
  <2>1. ASSUME NEW r \in Nat PROVE Chunk(1, r) \in Seq(AnyItem)
    <3>1. /\ <<Item("size", 1, r)>> \in Seq(AnyItem) /\ Data(1, r) \in Seq(AnyItem)
          /\ <<Item("blank", 0, r)>> \in Seq(AnyItem)
      BY <1>4, <1>5, <1>7, <1>8
    <3>2. <<Item("size", 1, r)>> \o Data(1, r) \in Seq(AnyItem)
      BY <3>1, <1>6
    <3>3. QED BY <3>1, <3>2, <1>6 DEF Chunk
  <2>2. ASSUME NEW r \in Nat PROVE LastChunk(r) \in Seq(AnyItem)
    BY <1>4, <1>7, <1>8 DEF LastChunk
  <2>3. QED BY <2>1, <2>2, <1>5
<1>13. ResponseEnd \in Seq(AnyItem)
  <2>1. (IF response.headers THEN <<>> ELSE <<Item("blank", 0, request.n)>>) \in Seq(AnyItem)
    BY <1>1, <1>4, <1>7, <1>8, <1>9
  <2>2. (IF response.chunked THEN LastChunk(request.n) ELSE <<>>) \in Seq(AnyItem)
    BY <1>1, <1>9, <1>12
  <2>3. QED BY <2>1, <2>2, <1>6 DEF ResponseEnd
<1>14. CASE c.op = "status"
  <2>1. c.status \in Nat
    BY <1>2, <1>3, <1>14
  <2>2. ItemsOf(c, n) \in Seq(AnyItem)
    BY <2>1, <1>4, <1>7, <1>8, <1>14 DEF ItemsOf
  <2>3. QED BY <2>2, <1>10, <1>11, <1>13, <1>14
<1>15. CASE c.op \in {"header", "headers"}
  <2>1. ItemsOf(c, n) \in Seq(AnyItem)
    BY <1>4, <1>7, <1>8, <1>15 DEF ItemsOf
  <2>2. QED BY <2>1, <1>10, <1>11, <1>13, <1>15
<1>16. CASE c.op = "file"
  <2>1. <<Item("length", FileSize, n), Item("blank", 0, n)>> \in Seq(AnyItem)
        /\ Len(<<Item("length", FileSize, n), Item("blank", 0, n)>>) = 2
    BY <1>1, <1>4, <1>7, <1>8
  <2>2. ItemsOf(c, n) = <<Item("length", FileSize, n), Item("blank", 0, n)>> \o Data(FileSize, n)
    BY <1>16 DEF ItemsOf
  <2>3. ItemsOf(c, n) \in Seq(AnyItem) /\ Len(ItemsOf(c, n)) = FileSize + 2
    BY <2>1, <2>2, <1>1, <1>5, <1>6
  <2>4. QED BY <2>3, <1>10, <1>11, <1>13
<1>17. CASE c.op = "print"
  <2> DEFINE f == IF StartsBody(c.op)
                  THEN <<Item(IF request.http11 THEN "chunked" ELSE "close", 0, n), Item("blank", 0, n)>>
                  ELSE <<>>
             r == IF ResponseAfter(c).chunked THEN Chunk(1, n) ELSE Data(1, n)
  <2>1. f \in Seq(AnyItem)
    <3>1. <<Item("chunked", 0, n), Item("blank", 0, n)>> \in Seq(AnyItem)
          /\ <<Item("close", 0, n), Item("blank", 0, n)>> \in Seq(AnyItem)
      BY <1>4, <1>7, <1>8
    <3>2. QED BY <3>1, <1>1, <1>9
  <2>2. r \in Seq(AnyItem)
    BY <1>12
  <2>3. ItemsOf(c, n) = f \o r
    BY <1>17 DEF ItemsOf
  <2> HIDE DEF f, r
  <2>4. QED BY <2>1, <2>2, <2>3, <1>6, <1>10, <1>11, <1>13, <1>17
<1>18. QED BY <1>2, <1>14, <1>15, <1>16, <1>17

\* So is what is under way to the client.
LEMMA DownTyped ==
  ASSUME ConnTypes, ServerTypes, ScriptControl, [Next]_vars
  PROVE  down' \in Seq(AnyItem)
<1>1. Len(down) \in Nat /\ down \in Seq(AnyItem)
  BY LenProperties DEF ConnTypes
<1>2. request.n \in Nat /\ request \in AnyServed /\ response \in AnyResponse
  BY DEF ServerTypes, AnyServed
<1>3. CASE down' = down
  BY <1>1, <1>3
<1>4. CASE Connect
  BY <1>4, EmptySeq DEF Connect, Client!Connect
<1>5. CASE NetworkStep
  <2>1. \E k \in 0..Len(down) : down' = SubSeq(down, 1, k)
    BY <1>5 DEF NetworkStep, Breaks
  <2>2. QED BY <2>1, <1>1, TakeFacts
<1>6. CASE HasLine(down) /\ down' = AfterLine(down)
  BY <1>1, <1>6, LineFacts
<1>7. CASE down # <<>> /\ down' = Tail(down)
  BY <1>1, <1>7, TailFacts
<1>8. CASE Client!ClientSteps
  <2>1. \/ down' = down
        \/ Client!HasLine(down) /\ down' = Client!AfterLine(down)
        \/ down # <<>> /\ down' = Tail(down)
    BY <1>8 DEF Client!ClientSteps, Client!ConnectFails, Client!SendHead, Client!SendBody,
     Client!SendFails, Client!ReadStatus, Client!ReadHeader, Client!HeadersEof, Client!ReadSize,
     Client!ReadChunk, Client!ReadFooter, Client!ReadTrailer, Client!ReadBody, Client!ReadEof,
     Client!ReadFails, Client!TakeLine, Client!connVars
  <2>2. QED BY <2>1, <1>3, <1>6, <1>7, ClientText
<1>9. ASSUME NEW X \in Seq(AnyItem), down' = down \o X
      PROVE  down' \in Seq(AnyItem)
  BY <1>1, <1>9, ConcatProperties
<1>10. script # <<>> => /\ Head(script) \in AnyCall
                        /\ ItemsOf(Head(script), request.n) \in Seq(AnyItem)
                        /\ Head(script).op = "file" => Len(ItemsOf(Head(script), request.n)) = FileSize + 2
  <2>1. script # <<>> => Head(script) \in AnyCall
    BY TailFacts DEF ServerTypes
  <2>2. QED BY <2>1, <1>2, ItemsTyped
<1>11. CASE Write
  <2>1. script # <<>> /\ down' = down \o ItemsOf(Head(script), request.n)
    BY <1>11 DEF Write, ScriptControl
  <2>2. QED BY <2>1, <1>9, <1>10
<1>12. CASE WriteShrunkFile
  <2>1. script # <<>> /\ Head(script).op = "file"
    BY <1>12 DEF WriteShrunkFile, ScriptControl
  <2>2. PICK k \in 0..FileSize - 1 : down' = down \o SubSeq(ItemsOf(Head(script), request.n), 1, k + 2)
    BY <1>12 DEF WriteShrunkFile
  <2> DEFINE X == ItemsOf(Head(script), request.n)
  <2>3. X \in Seq(AnyItem) /\ k + 2 \in 0..Len(X)
    BY <2>1, <1>10, SizesAssumption
  <2> HIDE DEF X
  <2>4. SubSeq(X, 1, k + 2) \in Seq(AnyItem)
    BY <2>3, TakeFacts
  <2>5. QED BY <2>2, <2>4, <1>9 DEF X
<1>13. CASE EndResponse
  <2>1. ResponseEnd \in Seq(AnyItem)
    <3>1. [op |-> "header"] \in AnyCall
      BY DEF AnyCall
    <3>2. QED BY <3>1, <1>2, ItemsTyped
  <2>2. QED BY <2>1, <1>3, <1>9, <1>13 DEF EndResponse
<1>14. CASE ServerNext /\ ~(Write \/ WriteShrunkFile \/ EndResponse)
  <2>1. down' = down
    BY <1>14 DEF ServerNext, ReadRequest, NoMoreRequests, ReadHeader, ReadEndOfHeaders,
     ReadBadHeader, ReadHeaderFails, StaticGet, StaticPut, ReadFile, ReadFileFails, DnsParams,
     ReadForm, ReadFormFails, Lookup, WriteFails, Conclude, connVars
  <2>2. QED BY <2>1, <1>3
<1>15. CASE Crash \/ Client!Dies \/ (\E q \in Requests[Len(asked) + 1] : Call(q)) \/ UNCHANGED vars
  BY <1>3, <1>15 DEF Crash, Client!Dies, Call, Client!Call, vars, connVars
<1>16. QED BY <1>4, <1>5, <1>8, <1>11, <1>12, <1>13, <1>14, <1>15, Steps

-----------------------------------------------------------------------------
(* The server's task                                                       *)

\* server_lookup_handler() finds the first of main()'s handlers that serves the request.
LEMMA HandlerFacts ==
  ASSUME NEW q \in AnyRequest, Serving(q) # {}
  PROVE  /\ Handlers[Min(Serving(q))].serves \in {"upload", "dns", "static"}
         /\ Handlers[Min(Serving(q))].serves = "static" => q.method = "GET" /\ q.path # "dns-query"
<1>1. /\ Handlers[1] = [method |-> "PUT",  path |-> "upload",    serves |-> "upload"]
      /\ Handlers[2] = [method |-> "GET",  path |-> "dns-query", serves |-> "dns"]
      /\ Handlers[3] = [method |-> "POST", path |-> "dns-query", serves |-> "dns"]
      /\ Handlers[4] = [method |-> "GET",  path |-> "",          serves |-> "static"]
      /\ DOMAIN Handlers = 1..4
  BY DEF Handlers
<1>13. /\ Handlers[2].path = "dns-query" /\ Handlers[2].method = "GET" /\ Handlers[4].method = "GET"
       /\ Handlers[1].serves = "upload" /\ Handlers[2].serves = "dns"
       /\ Handlers[3].serves = "dns" /\ Handlers[4].serves = "static"
  BY DEF Handlers
<1>2. Serving(q) \subseteq 1..4
  BY <1>1 DEF Serving, Matching
<1>3. Serving(q) \in SUBSET Nat
  BY <1>2
<1>4. \E i \in Serving(q) : \A j \in Serving(q) : i <= j
  BY <1>3, Least
<1>5. Min(Serving(q)) \in Serving(q) /\ \A j \in Serving(q) : Min(Serving(q)) <= j
  BY <1>4 DEF Min
<1> DEFINE m == Min(Serving(q))
<1> HIDE DEF m
<1>6. m \in 1..4 /\ Handlers[m].method = q.method
  BY <1>2, <1>5 DEF m, Serving
<1>7. q.method = "GET" /\ q.path = "dns-query" => 2 \in Serving(q)
  <2>1. 2 \in DOMAIN Handlers
    <3>1. 2 \in 1..4
      OBVIOUS
    <3>2. DOMAIN Handlers = 1..4
      BY <1>1, Zenon
    <3>3. QED BY <3>1, <3>2, Zenon
  <2> HIDE DEF Handlers
  <2>2. q.path = "dns-query" => MatchesPath(Handlers[2], q)
    BY <1>13 DEF MatchesPath
  <2>3. QED BY <1>13, <2>1, <2>2 DEF Serving, Matching
<1>8. q.method = "GET" /\ q.path = "dns-query" => m # 4
  BY <1>7, <1>5 DEF m
<1>9. m = 1 \/ m = 2 \/ m = 3 \/ m = 4
  BY <1>6
<1>10. CASE m = 4
  <2>1. q.method = "GET"
    BY <1>6, <1>10, <1>13
  <2>2. QED BY <1>8, <1>10, <1>13, <2>1 DEF m
<1>11. CASE m # 4
  <2>1. Handlers[m].serves \in {"upload", "dns"}
    BY <1>9, <1>11, <1>13
  <2>2. QED BY <2>1 DEF m
<1>12. QED BY <1>10, <1>11

\* A response starts with its status, and is no 201.
FreshScript(s) ==
  /\ s \in Seq(AnyCall) /\ s # <<>> /\ Fits(s, 0, FALSE)
  /\ \A i \in 1..Len(s) : s[i].op = "status" => s[i].status # 201

LEMMA FreshScripts ==
  /\ \A status \in Statuses \ {201} :
       /\ FreshScript(ErrorPage(status)) /\ FreshScript(DnsScript(status))
       /\ Len(ErrorPage(status)) = 4 /\ Len(DnsScript(status)) = 4
       /\ \A i \in 1..4 : /\ ErrorPage(status)[i].op \notin {"file", "headers"}
                          /\ DnsScript(status)[i].op \notin {"file", "headers"}
       /\ ErrorPage(status)[4].op = "print"
  /\ \A name \in Names \ {"none"} : FreshScript(StaticScript(name))
<1>1. /\ [op |-> "header"] \in AnyCall /\ [op |-> "print"] \in AnyCall
      /\ [op |-> "headers"] \in AnyCall /\ [op |-> "file"] \in AnyCall
      /\ \A s \in Statuses : [op |-> "status", status |-> s] \in AnyCall
  BY DEF AnyCall
<1>2. ASSUME NEW s \in Statuses, s # 201
      PROVE  LET w == <<[op |-> "status", status |-> s], [op |-> "header"], [op |-> "print"], [op |-> "print"]>>
             IN  /\ FreshScript(w) /\ Len(w) = 4 /\ w[4].op = "print"
                 /\ \A i \in 1..4 : w[i].op \notin {"file", "headers"}
  <2> DEFINE w == <<[op |-> "status", status |-> s], [op |-> "header"], [op |-> "print"], [op |-> "print"]>>
  <2>1. /\ w \in Seq(AnyCall) /\ Len(w) = 4 /\ w # <<>>
        /\ w[1] = [op |-> "status", status |-> s] /\ w[2] = [op |-> "header"]
        /\ w[3] = [op |-> "print"] /\ w[4] = [op |-> "print"]
    BY <1>1
  <2> HIDE DEF w
  <2>2. FreshScript(w)
    BY <2>1, <1>2 DEF FreshScript, Fits
  <2>3. \A i \in 1..4 : w[i].op \notin {"file", "headers"}
    BY <2>1
  <2>4. QED BY <2>1, <2>2, <2>3 DEF w
<1>3. 200 \in Statuses /\ 301 \in Statuses
  BY DEF Statuses
<1>4. FreshScript(DirScript)
  BY <1>2, <1>3 DEF DirScript
<1>5. FreshScript(RedirectScript)
  <2> DEFINE w == RedirectScript
  <2>1. /\ w \in Seq(AnyCall) /\ Len(w) = 3 /\ w # <<>>
        /\ w[1] = [op |-> "status", status |-> 301] /\ w[2] = [op |-> "header"]
        /\ w[3] = [op |-> "headers"]
    BY <1>1, <1>3 DEF RedirectScript
  <2> HIDE DEF w
  <2>2. FreshScript(w)
    BY <2>1 DEF FreshScript, Fits
  <2>3. QED BY <2>2 DEF w
<1>6. FreshScript(FileScript(FileSize))
  <2> DEFINE u == <<[op |-> "status", status |-> 200], [op |-> "header"]>>
             v == <<[op |-> "file"]>>
             w == FileScript(FileSize)
  <2>1. w = u \o v
    BY SizesAssumption DEF FileScript
  <2>2. /\ u \in Seq(AnyCall) /\ Len(u) = 2
        /\ u[1] = [op |-> "status", status |-> 200] /\ u[2] = [op |-> "header"]
        /\ v \in Seq(AnyCall) /\ Len(v) = 1 /\ v[1] = [op |-> "file"]
    BY <1>1, <1>3
  <2> HIDE DEF u, v, w
  <2>3. /\ w \in Seq(AnyCall) /\ Len(w) = 3
        /\ w[1] = [op |-> "status", status |-> 200] /\ w[2] = [op |-> "header"]
        /\ w[3] = [op |-> "file"]
    <3>1. u \in Seq(AnyCall) /\ v \in Seq(AnyCall)
      BY <2>2
    <3>2. /\ w \in Seq(AnyCall) /\ Len(w) = Len(u) + Len(v)
          /\ \A i \in 1..Len(u) : w[i] = u[i]
          /\ \A i \in 1..Len(v) : w[Len(u) + i] = v[i]
      BY <2>1, <3>1, JoinFacts
    <3>3. QED BY <2>2, <3>2
  <2>4. w # <<>>
    <3>1. Len(w) # 0
      BY <2>3
    <3>2. QED BY <2>3, <3>1, EmptySeq
  <2>5. FreshScript(w)
    BY <2>3, <2>4 DEF FreshScript, Fits
  <2>6. QED BY <2>5 DEF w
<1>7. FreshScript(FileScript(0))
  <2> DEFINE w == <<[op |-> "status", status |-> 200], [op |-> "header"]>>
  <2>0. w \in Seq(AnyCall)
    BY <1>1, <1>3
  <2>1. FileScript(0) = w
    BY <2>0, ConcatEmptySeq DEF FileScript
  <2>2. /\ Len(w) = 2 /\ w # <<>>
        /\ w[1] = [op |-> "status", status |-> 200] /\ w[2] = [op |-> "header"]
    OBVIOUS
  <2> HIDE DEF w
  <2>3. QED BY <2>0, <2>1, <2>2 DEF FreshScript, Fits
<1>8. \A name \in Names \ {"none"} : FreshScript(StaticScript(name))
  BY <1>4, <1>5, <1>6, <1>7 DEF Names, StaticScript
<1>9. QED BY <1>2, <1>8 DEF ErrorPage, DnsScript

ServerControl == ServerTypes /\ RequestControl /\ ResponseControl /\ ScriptControl

\* The task reads a request line.
LEMMA ControlReadRequest ==
  ASSUME Control, ReadRequest
  PROVE  ServerControl'
<1> DEFINE line == LineOf(up)
           q == Request(line.n)
           ok == line.is = "request" /\ q.path # "toolong"
           found == ok /\ Serving(q) # {}
<1>1. /\ at = "request" /\ HasLine(up)
      /\ request' = [NoRequest EXCEPT
                       !.n = IF line.is = "request" THEN line.n ELSE 0,
                       !.http11 = ok /\ q.http11,
                       !.handler = IF found THEN Handlers[Min(Serving(q))].serves ELSE "none"]
      /\ response' = [response EXCEPT !.close = ok /\ ~q.http11]
      /\ err' = IF ~ok THEN 400 ELSE IF found THEN 0 ELSE LookupError(q)
      /\ at' = IF ~ok THEN "finish" ELSE IF found THEN "headers" ELSE "rest"
      /\ UNCHANGED <<asked, clientEnd, serverEnd, broken, script, answers, meant, stored>>
  BY DEF ReadRequest
<1>2. line.is \in Lines /\ line.n \in Nat /\ \E i \in 1..Len(up) : line = up[i] \/ line = Item("bad", 0, 0)
  BY <1>1, LineFacts DEF Control, ConnTypes, AnyItem
<1>3. line.is = "request" => line.n \in 1..Said
  BY <1>2 DEF Control, Numbers, Item
<1>4. Len(asked) \in Nat /\ Said <= Len(asked) /\ Said \in Int
  BY LenProperties DEF Control, AskedTypes, Said
<1>5. line.is = "request" => q \in AnyRequest /\ q = asked[line.n]
                             /\ (q.method = "GET" /\ q.path # "dns-query" => q.name \in Names)
  <2>1. line.is = "request" => line.n \in 1..Len(asked) /\ line.n \in 1..MaxRequests
    BY <1>3, <1>4, SizesAssumption DEF Control, AskedTypes
  <2>2. QED BY <2>1, RequestsAssumption DEF Control, AskedTypes, Request
<1> HIDE DEF line, q
<1>6. ok \in BOOLEAN /\ found \in BOOLEAN /\ (ok => q.http11 \in BOOLEAN)
  BY <1>5 DEF AnyRequest
<1>7. found => /\ Handlers[Min(Serving(q))].serves \in {"upload", "dns", "static"}
               /\ Handlers[Min(Serving(q))].serves = "static" => q.method = "GET" /\ q.path # "dns-query"
  BY <1>5, HandlerFacts
<1>8. response = NoResponse /\ script = <<>>
  BY <1>1 DEF Control, RequestControl, ScriptControl, Serves
<1>9. LookupError(q) \in {404, 405}
  BY DEF LookupError
<1>10. /\ request'.n = (IF line.is = "request" THEN line.n ELSE 0)
       /\ (request'.http11 <=> ok /\ q.http11) /\ request'.headers = FALSE /\ request'.length = 0
       /\ request'.form = FALSE /\ request'.body = FALSE
       /\ request'.handler = (IF found THEN Handlers[Min(Serving(q))].serves ELSE "none")
  BY <1>1 DEF NoRequest
<1>11. request' \in AnyServed
  <2>1. (ok /\ q.http11) \in BOOLEAN
    OBVIOUS
  <2>2. (IF line.is = "request" THEN line.n ELSE 0) \in Nat
    BY <1>2
  <2>3. (IF found THEN Handlers[Min(Serving(q))].serves ELSE "none") \in {"none", "upload", "dns", "static"}
    BY <1>7
  <2> HIDE DEF ok, found
  <2>4. QED BY <1>1, <2>1, <2>2, <2>3 DEF NoRequest, AnyServed
<1>12. /\ response'.status = 0 /\ response'.headers = FALSE /\ response'.chunked = FALSE
       /\ (response'.close <=> ok /\ ~q.http11) /\ response' \in AnyResponse
  <2>1. (ok /\ ~q.http11) \in BOOLEAN
    OBVIOUS
  <2> HIDE DEF ok
  <2>2. response' = [NoResponse EXCEPT !.close = ok /\ ~q.http11]
    BY <1>1, <1>8
  <2>3. QED BY <2>1, <2>2 DEF NoResponse, AnyResponse
<1>13. err' \in {0, 400, 404, 405}
  BY <1>1, <1>9
<1>14. at' \in {"finish", "headers", "rest"} /\ (at' = "headers" <=> found) /\ (at' = "finish" <=> ~ok)
  BY <1>1, <1>6
<1>15. ServerTypes'
  BY <1>1, <1>11, <1>12, <1>13, <1>14 DEF ServerTypes, States, Statuses, Control, Answered
<1>16. RequestControl'
  <2>1. at' # "closed" /\ serverEnd' = "open" /\ Serves'
    BY <1>1, <1>14 DEF Control, RequestControl, Serves
  <2>2. request'.handler # "none" => request'.n > 0 /\ ok /\ found
    BY <1>3, <1>4, <1>10
  <2>3. request'.handler = "static" =>
          asked'[request'.n].method = "GET" /\ asked'[request'.n].name \in Names
    BY <1>1, <1>5, <1>7, <1>10
  <2>4. found => request'.handler # "none"
    BY <1>7, <1>10
  <2>5. QED BY <2>1, <2>2, <2>3, <2>4, <1>10, <1>14 DEF RequestControl
<1>17. ResponseControl'
  <2>1. ~ok => err' = 400
    BY <1>1
  <2>2. ok => (q.http11 \/ ~q.http11)
    OBVIOUS
  <2>3. QED BY <1>6, <1>10, <1>12, <1>13, <1>14, <2>1 DEF ResponseControl, Serves, ClosesForBody
<1>18. ScriptControl'
  <2>1. script' = <<>>
    BY <1>1, <1>8
  <2>2. Len(script') = 0
    BY <2>1
  <2>3. QED BY <1>14, <2>1, <2>2 DEF ScriptControl, Fits
<1>19. QED BY <1>15, <1>16, <1>17, <1>18 DEF ServerControl

\* It hangs up, or waits for a new connection or a new request.
LEMMA ControlIdle ==
  ASSUME Control, request' = NoRequest, response' = NoResponse, script' = <<>>, err' = 0,
         UNCHANGED <<asked, answers, meant, stored>>,
         at' \in {"closed", "request"}, at' = "closed" <=> serverEnd' # "open"
  PROVE  ServerControl'
<1>1. request' \in AnyServed /\ response' \in AnyResponse
  BY DEF NoRequest, NoResponse, AnyServed, AnyResponse
<1>2. script' \in Seq(AnyCall) /\ Len(script') = 0
  BY EmptySeq
<1>3. ServerTypes'
  BY <1>1, <1>2 DEF Control, ServerTypes, States, Answered
<1>4. RequestControl'
  BY DEF RequestControl, Serves, NoRequest
<1>5. ResponseControl'
  BY DEF ResponseControl, Serves, NoRequest, NoResponse
<1>6. ScriptControl'
  BY <1>2 DEF ScriptControl, Fits
<1>7. QED BY <1>3, <1>4, <1>5, <1>6 DEF ServerControl

\* It reads headers.
LEMMA ControlReadHeader ==
  ASSUME Control, ReadHeader
  PROVE  ServerControl'
<1> DEFINE line == LineOf(up)
<1>1. /\ at \in {"headers", "rest"} /\ HasLine(up)
      /\ request' = [request EXCEPT
           !.length = IF line.is = "length" THEN line.n ELSE @,
           !.form   = @ \/ line.is = "form"]
      /\ response' = [response EXCEPT !.close = @ \/ line.is = "close"]
      /\ UNCHANGED <<asked, serverEnd, at, script, err, answers, meant, stored>>
  BY DEF ReadHeader
<1>2. line.n \in Nat
  BY <1>1, LineFacts DEF Control, ConnTypes, AnyItem
<1> HIDE DEF line
<1>3. request \in AnyServed /\ response \in AnyResponse
  BY DEF Control, ServerTypes
<1>4. request' \in AnyServed /\ response' \in AnyResponse
  <2>1. (request.form \/ line.is = "form") \in BOOLEAN /\ (response.close \/ line.is = "close") \in BOOLEAN
    OBVIOUS
  <2>2. (IF line.is = "length" THEN line.n ELSE request.length) \in Nat
    BY <1>2, <1>3 DEF AnyServed
  <2>3. request' \in AnyServed
    BY <1>1, <1>3, <2>1, <2>2 DEF AnyServed
  <2>4. response' \in AnyResponse
    BY <1>1, <1>3, <2>1 DEF AnyResponse
  <2>5. QED BY <2>3, <2>4
<1>5. /\ request'.n = request.n /\ request'.handler = request.handler
      /\ request'.http11 = request.http11 /\ request'.headers = request.headers
      /\ request'.body = request.body
      /\ response'.status = response.status /\ response'.headers = response.headers
      /\ response'.chunked = response.chunked /\ (response.close => response'.close)
  BY <1>1, <1>3 DEF AnyServed, AnyResponse
<1>6. ServerTypes'
  BY <1>1, <1>4 DEF ServerTypes, Control, Answered
<1>7. RequestControl'
  BY <1>1, <1>5 DEF RequestControl, Control, Serves
<1>8. ResponseControl'
  BY <1>1, <1>5 DEF ResponseControl, Control, Serves, ClosesForBody
<1>9. ScriptControl'
  BY <1>1, <1>5 DEF ScriptControl, Control
<1>10. QED BY <1>6, <1>7, <1>8, <1>9 DEF ServerControl

LEMMA ControlHeadersEnd ==
  ASSUME Control, ReadEndOfHeaders \/ ReadBadHeader \/ ReadHeaderFails
  PROVE  ServerControl'
<1>1. /\ at \in {"headers", "rest"} /\ at' \in {"handle", "rest", "finish"}
      /\ at' = "handle" => at = "headers"
      /\ at' = "handle" /\ request.handler = "dns" => request'.headers
      /\ at' = "rest" => request' = request
      /\ request' = [request EXCEPT !.headers = TRUE] \/ request' = request
      /\ UNCHANGED <<asked, serverEnd, response, script, answers, meant, stored>>
      /\ err' \in {-1, 400, err}
      /\ err' = -1 /\ err # -1 => at' = "rest"
      /\ at' = "handle" => err' = err
  <2>1. at = "headers" => err >= 0
    BY DEF Control, ResponseControl, ServerTypes, Statuses
  <2>2. request \in AnyServed
    BY DEF Control, ServerTypes
  <2>3. CASE ReadEndOfHeaders
    BY <2>2, <2>3 DEF ReadEndOfHeaders, HeadersEnd, AnyServed
  <2>4. CASE ReadBadHeader
    BY <2>4 DEF ReadBadHeader, HeadersEnd
  <2>5. CASE ReadHeaderFails
    BY <2>5 DEF ReadHeaderFails
  <2>6. QED BY <2>3, <2>4, <2>5
<1>2. request \in AnyServed /\ response \in AnyResponse
  BY DEF Control, ServerTypes
<1>3. /\ request' \in AnyServed /\ request'.n = request.n /\ request'.handler = request.handler
      /\ request'.http11 = request.http11 /\ request'.body = request.body
      /\ request'.length = request.length
  <2>1. request' = [request EXCEPT !.headers = TRUE] \/ request' = request
    BY <1>1
  <2>2. CASE request' = request
    BY <1>2, <2>2
  <2>3. CASE request' = [request EXCEPT !.headers = TRUE]
    <3>1. request' \in AnyServed
      BY <1>2, <2>3 DEF AnyServed
    <3>2. QED BY <1>2, <2>3, <3>1 DEF AnyServed
  <2>4. QED BY <2>1, <2>2, <2>3
<1>4. ServerTypes'
  BY <1>1, <1>3 DEF ServerTypes, Control, Answered, States, Statuses
<1>5. RequestControl'
  <2>1. RequestControl
    BY DEF Control
  <2>2. at' = "rest" => ~request'.headers
    BY <1>1, <2>1 DEF RequestControl
  <2>3. ~request'.headers => ~request'.body
    BY <1>1, <1>3, <2>1 DEF RequestControl
  <2>4. at' = "handle" => ~request'.body /\ request'.handler # "none"
    BY <1>1, <1>3, <2>1 DEF RequestControl
  <2>5. QED BY <1>1, <1>3, <2>1, <2>2, <2>3, <2>4 DEF RequestControl, Serves
<1>6. ResponseControl'
  <2>1. ResponseControl /\ err \in {-1, 0} \cup Statuses
    BY DEF Control, ServerTypes
  <2>2. err' # 201 /\ (err' < 0 => at' \in {"rest", "finish"})
    BY <1>1, <2>1 DEF ResponseControl, Statuses
  <2>4. Serves /\ ~request.http11 /\ ~response.close => FALSE
    BY <1>1, <2>1 DEF ResponseControl, Serves
  <2>5. QED BY <1>1, <1>3, <2>1, <2>2, <2>4 DEF ResponseControl, Serves
<1>7. ScriptControl'
  BY <1>1, <1>3 DEF ScriptControl, Control
<1>8. QED BY <1>4, <1>5, <1>6, <1>7 DEF ServerControl

\* A handler returns without a response, or reads on.
LEMMA ControlReturns ==
  ASSUME Control, at \in {"handle", "body", "lookup"},
         request' = request, response' = response, script' = script,
         UNCHANGED <<asked, serverEnd, answers, meant>>, stored' \in [of : Nat, units : Nat],
         \/ at' = Rest /\ err' \in {-1, 1, 404, 405, 411, 415, 500}
         \/ /\ at = "handle" /\ err' = err /\ at' = "body" /\ request.headers /\ request.length > 0
            /\ request.handler \in {"upload", "dns"}
         \/ at = "handle" /\ err' = err /\ at' = "lookup" /\ request.headers
  PROVE  ServerControl'
<1>1. at' \in {"rest", "finish", "body", "lookup"} /\ (at' = "rest" => ~request.headers)
  BY DEF Rest
<1>2. request \in AnyServed /\ response \in AnyResponse
  BY DEF Control, ServerTypes
<1>3. ServerTypes'
  BY <1>1 DEF ServerTypes, Control, Answered, States, Statuses
<1>8. RequestControl /\ ResponseControl
  BY DEF Control
<1>9. at' = "body" => request.headers /\ request.length > 0 /\ request.handler \in {"upload", "dns"}
  BY <1>1 DEF Rest
<1>10. ~request.body \/ at \in {"body", "lookup"}
  BY <1>8 DEF RequestControl
<1>11. at' = "body" => at = "handle"
  BY DEF Rest
<1>12. at' = "lookup" => request.headers
  BY DEF Rest
<1>4. RequestControl'
  <2>1. at' = "closed" <=> serverEnd' # "open"
    BY <1>1, <1>8 DEF RequestControl
  <2>2. at' = "body" => ~request.body
    BY <1>8, <1>11 DEF RequestControl
  <2>3. /\ request.handler # "none" => request.n > 0
        /\ request.handler = "static" =>
             asked[request.n].method = "GET" /\ asked[request.n].name \in Names
        /\ ~request.headers => ~request.body
    BY <1>8 DEF RequestControl
  <2>4. QED BY <1>1, <1>9, <1>12, <2>1, <2>2, <2>3 DEF RequestControl, Serves
<1>5. ResponseControl'
  <2>1. err' < 0 => at' = "finish" \/ at' = "rest"
    BY <1>1, <1>8 DEF ResponseControl, Rest
  <2>2. err' # 201
    BY <1>8 DEF ResponseControl
  <2>3. response.status = 0 /\ ~response.headers /\ ~response.chunked
    BY <1>2, <1>8 DEF ResponseControl
  <2>4. ~request.http11 => response.close
    BY <1>8 DEF ResponseControl, Serves
  <2>5. QED BY <1>1, <2>1, <2>2, <2>3, <2>4 DEF ResponseControl, Serves
<1>6. ScriptControl'
  BY <1>1 DEF ScriptControl, Control
<1>7. QED BY <1>3, <1>4, <1>5, <1>6 DEF ServerControl

\* A handler responds.
LEMMA ControlResponds ==
  ASSUME Control, at \in {"handle", "lookup"}, UNCHANGED <<asked, serverEnd, answers, meant, stored>>,
         UNCHANGED <<request, response, err>>, at' = "respond", FreshScript(script'),
         \A i \in 1..Len(script') : script'[i].op \in {"file", "headers"} => request.handler = "static"
  PROVE  ServerControl'
<1>1. response.status = 0 /\ ~response.headers
  BY DEF Control, ResponseControl
<1>2. ServerTypes'
  BY DEF ServerTypes, Control, Answered, States, FreshScript
<1>3. RequestControl'
  BY DEF RequestControl, Control, Serves
<1>4. ResponseControl'
  BY DEF ResponseControl, Control, Serves, ServerTypes, Statuses, ClosesForBody
<1>5. ScriptControl'
  <2>1. Fits(script', response'.status, response'.headers)
    BY <1>1 DEF FreshScript, Fits
  <2>2. QED BY <2>1 DEF ScriptControl, FreshScript
<1>6. QED BY <1>2, <1>3, <1>4, <1>5 DEF ServerControl

LEMMA ControlHandlers ==
  ASSUME Control, StaticGet \/ StaticPut \/ ReadFileFails \/ DnsParams \/ ReadFormFails \/ Lookup
  PROVE  ServerControl'
<1>1. /\ asked' = asked /\ serverEnd' = serverEnd /\ answers' = answers /\ meant' = meant
  BY DEF StaticGet, StaticPut, ReadFileFails, DnsParams, ReadFormFails, Lookup, connVars
<1>2. request \in AnyServed /\ stored \in [of : Nat, units : Nat]
  BY DEF Control, ServerTypes
<1>3. CASE StaticGet
  <2> DEFINE name == asked[request.n].name
  <2>1. at = "handle" /\ request.handler = "static" /\ name \in Names /\ stored' = stored
    BY <1>3 DEF StaticGet, Control, RequestControl
  <2>2. CASE name = "none"
    BY <1>1, <1>2, <1>3, <2>1, <2>2, ControlReturns DEF StaticGet, HandlerReturns, Request
  <2>3. CASE name # "none"
    <3>1. Respond(StaticScript(name))
      BY <1>3, <2>3 DEF StaticGet, Request
    <3>2. FreshScript(StaticScript(name))
      BY <2>1, <2>3, FreshScripts
    <3> HIDE DEF name
    <3>3. QED BY <1>1, <2>1, <3>1, <3>2, ControlResponds DEF Respond
  <2>4. QED BY <2>2, <2>3
<1>4. CASE StaticPut
  <2>1. at = "handle" /\ request.handler = "upload" /\ request' = request /\ response' = response
        /\ script' = script
    BY <1>4 DEF StaticPut, HandlerReturns
  <2>2. stored' \in [of : Nat, units : Nat]
    <3>1. stored' = stored \/ stored' = [of |-> request.n, units |-> 0]
      BY <1>4 DEF StaticPut
    <3>2. QED BY <3>1, <1>2 DEF AnyServed
  <2>3. request.length \in Nat
    BY <1>2 DEF AnyServed
  <2>4. \/ at' = Rest /\ err' \in {-1, 405, 411}
        \/ err' = err /\ at' = "body" /\ request.headers /\ request.length > 0
    BY <1>4, <2>3 DEF StaticPut, HandlerReturns
  <2>5. QED BY <1>1, <2>1, <2>2, <2>4, ControlReturns
<1>5. CASE ReadFileFails \/ ReadFormFails
  <2>1. at = "body" /\ request' = request /\ response' = response /\ script' = script
        /\ stored' = stored /\ at' = Rest /\ err' \in {-1, 1}
    BY <1>5 DEF ReadFileFails, ReadFormFails, HandlerReturns
  <2>2. QED BY <1>1, <1>2, <2>1, ControlReturns
<1>6. CASE DnsParams
  <2>1. /\ at = "handle" /\ request.handler = "dns" /\ request.headers /\ stored' = stored
        /\ request.length \in Nat
    BY <1>2, <1>6 DEF DnsParams, Control, RequestControl, AnyServed
  <2>2. \/ Respond(ErrorPage(400))
        \/ HandlerReturns(411) \/ HandlerReturns(415)
        \/ at' = "lookup" /\ UNCHANGED <<request, response, script, err>>
        \/ request.length > 0 /\ at' = "body" /\ UNCHANGED <<request, response, script, err>>
    BY <1>6, <2>1 DEF DnsParams
  <2>3. CASE Respond(ErrorPage(400))
    <3>1. FreshScript(ErrorPage(400)) /\ Len(ErrorPage(400)) = 4
          /\ \A i \in 1..4 : ErrorPage(400)[i].op \notin {"file", "headers"}
      BY FreshScripts DEF Statuses
    <3>2. QED BY <1>1, <2>1, <2>3, <3>1, ControlResponds DEF Respond
  <2>4. CASE HandlerReturns(411) \/ HandlerReturns(415)
    BY <1>1, <1>2, <2>1, <2>4, ControlReturns DEF HandlerReturns
  <2>5. CASE /\ at' = "lookup" \/ (request.length > 0 /\ at' = "body")
             /\ UNCHANGED <<request, response, script, err>>
    BY <1>1, <1>2, <2>1, <2>5, ControlReturns
  <2>6. QED BY <2>2, <2>3, <2>4, <2>5
<1>7. CASE Lookup
  <2>1. at = "lookup" /\ stored' = stored
        /\ (HandlerReturns(500) \/ Respond(DnsScript(400)) \/ Respond(DnsScript(200)))
    BY <1>7 DEF Lookup
  <2>2. CASE HandlerReturns(500)
    BY <1>1, <1>2, <2>1, <2>2, ControlReturns DEF HandlerReturns
  <2>3. ASSUME NEW s \in {200, 400}, Respond(DnsScript(s))
        PROVE  ServerControl'
    <3>1. FreshScript(DnsScript(s)) /\ Len(DnsScript(s)) = 4
          /\ \A i \in 1..4 : DnsScript(s)[i].op \notin {"file", "headers"}
      BY FreshScripts DEF Statuses
    <3>2. QED BY <1>1, <2>1, <2>3, <3>1, ControlResponds DEF Respond
  <2>4. QED BY <2>1, <2>2, <2>3
<1>8. QED BY <1>3, <1>4, <1>5, <1>6, <1>7

\* The body goes to the file, and the answer is 201.
LEMMA ControlReadFile ==
  ASSUME Control, ReadFile
  PROVE  ServerControl'
<1>1. /\ at = "body" /\ request.handler = "upload" /\ ~request.body /\ request.headers
      /\ request.length > 0 /\ response.status = 0 /\ ~response.headers /\ script = <<>>
      /\ request \in AnyServed /\ stored \in [of : Nat, units : Nat] /\ request.n > 0
  BY DEF ReadFile, Control, RequestControl, ResponseControl, ServerTypes, ScriptControl
<1>2. /\ request' = [request EXCEPT !.length = @ - 1, !.body = request.length = 1]
      /\ stored' = [stored EXCEPT !.units = @ + 1]
      /\ UNCHANGED <<asked, serverEnd, response, err, answers, meant>>
      /\ \/ request.length > 1 /\ at' = "body" /\ script' = <<>>
         \/ request.length = 1 /\ at' = "respond" /\ script' = <<[op |-> "status", status |-> 201]>>
  <2>1. request.length \in Nat
    BY <1>1 DEF AnyServed
  <2>2. QED BY <1>1, <2>1 DEF ReadFile
<1>3. /\ request' \in AnyServed /\ request'.n = request.n /\ request'.handler = request.handler
      /\ request'.http11 = request.http11 /\ request'.headers = request.headers
      /\ request'.length = request.length - 1 /\ (request'.body <=> request.length = 1)
  <2>1. request.length - 1 \in Nat /\ (request.length = 1) \in BOOLEAN
    BY <1>1 DEF AnyServed
  <2>2. QED BY <1>1, <1>2, <2>1 DEF AnyServed
<1>4. stored' \in [of : Nat, units : Nat]
  BY <1>1, <1>2
<1>5. script' \in Seq(AnyCall) /\ \A i \in 1..Len(script') : /\ i = 1 /\ Len(script') = 1 /\ at' = "respond"
                                                             /\ script'[i] = [op |-> "status", status |-> 201]
  <2>1. [op |-> "status", status |-> 201] \in AnyCall
    BY DEF AnyCall, Statuses
  <2>2. CASE script' = <<>>
    <3>1. <<>> \in Seq(AnyCall) /\ Len(<<>>) = 0
      BY EmptySeq
    <3>2. script' \in Seq(AnyCall) /\ Len(script') = 0
      BY <2>2, <3>1, Zenon
    <3>3. QED BY <3>2
  <2>3. CASE at' = "respond" /\ script' = <<[op |-> "status", status |-> 201]>>
    <3> DEFINE c == [op |-> "status", status |-> 201]
    <3>1. script' = <<c>> /\ c \in AnyCall
      BY <2>1, <2>3
    <3> HIDE DEF c
    <3>2. script' \in Seq(AnyCall) /\ Len(script') = 1 /\ script'[1] = c
      BY <3>1
    <3>3. QED BY <2>3, <3>2 DEF c
  <2>4. QED BY <1>2, <2>2, <2>3
<1>6. ServerTypes'
  BY <1>2, <1>3, <1>4, <1>5 DEF ServerTypes, Control, Answered, States
<1>7. RequestControl'
  <2>1. request'.length \in Nat /\ request.length \in Nat
    BY <1>1, <1>3 DEF AnyServed
  <2>2. QED BY <1>1, <1>2, <1>3, <2>1 DEF RequestControl, Control, Serves
<1>8. ResponseControl'
  BY <1>1, <1>2, <1>3 DEF ResponseControl, Control, Serves, ServerTypes, Statuses
<1>9. ScriptControl'
  <2>1. script' # <<>> <=> at' \in {"respond", "error"}
    BY <1>2
  <2>2. at' # "error"
    BY <1>2
  <2>3. \A i \in 1..Len(script') : script'[i].op = "status" /\ script'[i].status = 201
    BY <1>5
  <2>4. QED BY <1>1, <1>2, <1>3, <1>5, <2>1, <2>2, <2>3 DEF ScriptControl, Fits
<1>10. QED BY <1>6, <1>7, <1>8, <1>9 DEF ServerControl

LEMMA ControlReadForm ==
  ASSUME Control, ReadForm
  PROVE  ServerControl'
<1>1. /\ at = "body" /\ request.handler = "dns" /\ request.headers /\ at' = "lookup"
      /\ request \in AnyServed /\ request' = [request EXCEPT !.body = TRUE]
      /\ UNCHANGED <<asked, serverEnd, response, script, err, answers, meant, stored>>
  BY DEF ReadForm, Control, RequestControl, ServerTypes
<1>2. /\ request' \in AnyServed /\ request'.n = request.n /\ request'.handler = request.handler
      /\ request'.http11 = request.http11 /\ request'.headers = request.headers
      /\ request'.length = request.length /\ request'.body
  BY <1>1 DEF AnyServed
<1>3. ServerTypes'
  BY <1>1, <1>2 DEF ServerTypes, Control, Answered, States
<1>4. RequestControl'
  BY <1>1, <1>2 DEF RequestControl, Control, Serves
<1>5. ResponseControl'
  BY <1>1, <1>2 DEF ResponseControl, Control, Serves
<1>6. ScriptControl'
  BY <1>1, <1>2 DEF ScriptControl, Control
<1>7. QED BY <1>3, <1>4, <1>5, <1>6 DEF ServerControl

\* The first of the calls that are left, and what the response is after it.
LEMMA CallFacts ==
  ASSUME Control, at \in {"respond", "error"}, NEW c, c = Head(script), NEW r, r = ResponseAfter(c)
  PROVE  /\ script # <<>> /\ c = script[1] /\ c \in AnyCall /\ Len(script) \in Nat \ {0}
         /\ c.op \in {"status", "header", "headers", "file", "print"}
         /\ c.op = "status" => c.status \in Statuses
         /\ r \in AnyResponse /\ r.status # 0
         /\ c.op = "status" <=> response.status = 0
         /\ r.status = IF c.op = "status" THEN c.status ELSE response.status
         /\ r.headers <=> response.headers \/ c.op \in {"headers", "file", "print"}
         /\ ~r.headers => ~r.chunked
         /\ response.close => r.close
         /\ c.op = "print" /\ ~request.http11 /\ ~response.headers => r.close
         /\ at = "error" => c.op \notin {"file", "headers"} /\ (Len(script) = 1 => c.op = "print")
         /\ c.op # "print" => ~response.headers
         /\ c.op \in {"file", "headers"} => Len(script) = 1 /\ at = "respond"
         /\ response.headers => c.op = "print"
<1>1. script # <<>> /\ script \in Seq(AnyCall) /\ response \in AnyResponse /\ request \in AnyServed
  BY DEF Control, ScriptControl, ServerTypes
<1>2. c = script[1] /\ c \in AnyCall /\ Len(script) \in Nat \ {0} /\ 1 \in 1..Len(script)
  BY <1>1, TailFacts
<1>3. c.op \in {"status", "header", "headers", "file", "print"} /\ (c.op = "status" => c.status \in Statuses)
  BY <1>2 DEF AnyCall
<1>4. /\ c.op = "status" <=> response.status = 0
      /\ c.op \in {"file", "headers"} => Len(script) = 1 /\ at = "respond"
      /\ c.op # "print" => ~response.headers
      /\ at = "error" => script[Len(script)].op = "print"
  BY <1>2 DEF Control, ScriptControl, Fits
<1>5. ~response.headers => ~response.chunked
  BY DEF Control, ResponseControl
<1>6. r \in AnyResponse
  BY <1>1, <1>2, ItemsTyped, SizesAssumption
<1>7. CASE c.op = "status"
  <2>1. r = [response EXCEPT !.status = c.status]
    BY <1>7 DEF ResponseAfter
  <2>2. r.status = c.status /\ r.headers = response.headers /\ r.chunked = response.chunked
        /\ r.close = response.close
    BY <2>1, <1>1 DEF AnyResponse
  <2>3. r.status # 0
    BY <2>2, <1>3, <1>7 DEF Statuses
  <2>4. QED BY <2>2, <2>3, <1>1, <1>2, <1>3, <1>4, <1>5, <1>6, <1>7
<1>8. CASE c.op = "header"
  <2>1. r = response
    BY <1>8 DEF ResponseAfter
  <2>2. QED BY <2>1, <1>1, <1>2, <1>3, <1>4, <1>5, <1>6, <1>8
<1>9. CASE c.op \in {"headers", "file"}
  <2>1. r = [response EXCEPT !.headers = TRUE]
    BY <1>9 DEF ResponseAfter
  <2>2. r.status = response.status /\ r.headers /\ r.close = response.close
    BY <2>1, <1>1 DEF AnyResponse
  <2>3. QED BY <2>2, <1>1, <1>2, <1>3, <1>4, <1>5, <1>6, <1>9
<1>10. CASE c.op = "print"
  <2>1. CASE response.headers
    <3>1. r = response
      BY <1>10, <2>1 DEF ResponseAfter, StartsBody
    <3>2. QED BY <2>1, <3>1, <1>1, <1>2, <1>3, <1>4, <1>5, <1>6, <1>10
  <2>2. CASE ~response.headers
    <3>1. r = [response EXCEPT !.headers = TRUE, !.chunked = request.http11,
                               !.close = @ \/ ~request.http11]
      BY <1>10, <2>2 DEF ResponseAfter, StartsBody
    <3>2. /\ r.status = response.status /\ r.headers = TRUE
          /\ r.close = (response.close \/ ~request.http11)
      BY <3>1, <1>1 DEF AnyResponse
    <3>3. QED BY <2>2, <3>2, <1>1, <1>2, <1>3, <1>4, <1>5, <1>6, <1>10
  <2>3. QED BY <2>1, <2>2
<1>11. QED BY <1>3, <1>7, <1>8, <1>9, <1>10

\* The calls behind it fit what has been written.
LEMMA RestOfScript ==
  ASSUME Control, at \in {"respond", "error"}, NEW r, r = ResponseAfter(Head(script))
  PROVE  /\ Tail(script) \in Seq(AnyCall) /\ Len(Tail(script)) = Len(script) - 1
         /\ Tail(script) = <<>> <=> Len(script) = 1
         /\ \A i \in 1..Len(Tail(script)) : Tail(script)[i] = script[i + 1] /\ i + 1 \in 2..Len(script)
         /\ Fits(Tail(script), r.status, r.headers)
         /\ at = "error" /\ Len(script) # 1 => Tail(script)[Len(Tail(script))].op = "print"
<1> DEFINE t == Tail(script)
<1>1. script # <<>> /\ script \in Seq(AnyCall) /\ Len(script) \in Nat \ {0}
  BY CallFacts DEF Control, ServerTypes
<1>2. /\ t \in Seq(AnyCall) /\ Len(t) = Len(script) - 1
      /\ \A i \in 1..Len(script) - 1 : t[i] = script[1 + i]
  BY <1>1, TailFacts
<1> HIDE DEF t
<1>3. t = <<>> <=> Len(script) = 1
  BY <1>1, <1>2, EmptySeq
<1>4. \A i \in 1..Len(t) : t[i] = script[i + 1] /\ i + 1 \in 2..Len(script)
  BY <1>1, <1>2
<1>5. Fits(script, response.status, response.headers)
      /\ (at = "error" => script[Len(script)].op = "print")
  BY DEF Control, ScriptControl
<1>6. r.status # 0 /\ (r.headers => response.headers \/ script[1].op \in {"headers", "file", "print"})
  BY CallFacts
<1>7. ASSUME NEW i \in 1..Len(t)
      PROVE  /\ t[i].op = "status" <=> i = 1 /\ r.status = 0
             /\ t[i].op \in {"file", "headers"} => i = Len(t)
             /\ t[i].op # "print" => ~r.headers
             /\ t[i].op = "print" => \A j \in i..Len(t) : t[j].op = "print"
  <2>1. t[i] = script[i + 1] /\ i + 1 \in 2..Len(script) /\ i + 1 \in 1..Len(script) /\ 1 \in 1..Len(script)
    BY <1>1, <1>4
  <2>2. t[i].op # "status"
    BY <2>1, <1>5 DEF Fits
  <2>3. t[i].op \in {"file", "headers"} => i = Len(t)
    BY <2>1, <1>2, <1>5 DEF Fits
  <2>4. t[i].op = "print" => \A j \in i..Len(t) : t[j].op = "print"
    <3>1. SUFFICES ASSUME t[i].op = "print", NEW j \in i..Len(t) PROVE t[j].op = "print"
      OBVIOUS
    <3>2. j \in 1..Len(t) /\ j + 1 \in i + 1 .. Len(script)
      BY <1>1, <1>2
    <3>3. script[j + 1].op = "print"
      BY <3>1, <3>2, <2>1, <1>5 DEF Fits
    <3>4. QED BY <3>2, <3>3, <1>4
  <2>5. t[i].op # "print" => ~r.headers
    <3>1. t[i].op # "print" => ~response.headers
      BY <2>1, <1>5 DEF Fits
    <3>2. script[1].op \in {"headers", "file"} => Len(script) = 1
      BY <2>1, <1>5 DEF Fits
    <3>3. script[1].op = "print" => t[i].op = "print"
      BY <2>1, <1>5 DEF Fits
    <3>4. Len(script) # 1
      BY <2>1, <1>1
    <3>5. QED BY <3>1, <3>2, <3>3, <3>4, <1>6
  <2>6. QED BY <2>2, <2>3, <2>4, <2>5, <1>6
<1>8. at = "error" /\ Len(script) # 1 => t[Len(t)].op = "print"
  <2>1. Len(script) # 1 => Len(t) \in 1..Len(t) /\ Len(t) + 1 = Len(script)
    BY <1>1, <1>2
  <2>2. QED BY <2>1, <1>4, <1>5
<1>9. QED BY <1>2, <1>3, <1>4, <1>7, <1>8 DEF t, Fits

\* A call is written, or is lost on a connection that is broken.
LEMMA ControlWrite ==
  ASSUME Control, at \in {"respond", "error"}, response' = ResponseAfter(Head(script)),
         Answer(Head(script)) \/ answers' = answers,
         meant' = meant \/ (\E k \in Nat : meant' = [meant EXCEPT ![request.n] = @ + k]),
         UNCHANGED <<asked, serverEnd, request, stored>>,
         \/ /\ script' = Tail(script) /\ at' = IF Len(script) = 1 THEN AfterScript ELSE at
            /\ err' = err \/ (at = "respond" /\ Len(script) = 1 /\ err' \in {0, -1})
         \/ script' = <<>> /\ at = "respond" /\ at' = Rest /\ err' \in {1, -1}
  PROVE  ServerControl'
<1> DEFINE c == Head(script)
           r == ResponseAfter(c)
<1>1. /\ script # <<>> /\ c = script[1] /\ c \in AnyCall /\ Len(script) \in Nat \ {0}
      /\ c.op \in {"status", "header", "headers", "file", "print"}
      /\ c.op = "status" => c.status \in Statuses
      /\ r \in AnyResponse /\ r.status # 0
      /\ r.headers <=> response.headers \/ c.op \in {"headers", "file", "print"}
      /\ ~r.headers => ~r.chunked
      /\ response.close => r.close
      /\ c.op = "print" /\ ~request.http11 /\ ~response.headers => r.close
      /\ at = "error" => c.op \notin {"file", "headers"} /\ (Len(script) = 1 => c.op = "print")
  BY CallFacts
<1>2. /\ Tail(script) \in Seq(AnyCall)
      /\ Tail(script) = <<>> <=> Len(script) = 1
      /\ \A i \in 1..Len(Tail(script)) : Tail(script)[i] = script[i + 1] /\ i + 1 \in 2..Len(script)
      /\ Fits(Tail(script), r.status, r.headers)
      /\ at = "error" /\ Len(script) # 1 => Tail(script)[Len(Tail(script))].op = "print"
  BY RestOfScript
<1>3. response' = r
  OBVIOUS
<1> HIDE DEF r
<1>4. request.n \in Answered /\ answers \in [Answered -> {0} \cup Statuses] /\ meant \in [Answered -> Nat]
  <2>1. Len(asked) \in Nat /\ Len(asked) <= MaxRequests /\ MaxRequests \in Nat
    BY LenProperties, SizesAssumption DEF Control, AskedTypes
  <2>2. Said \in {Len(asked), Len(asked) - 1} /\ request.n \in 0..Said
    BY DEF Said, Control, Numbers
  <2>3. request.n \in 0..MaxRequests
    BY <2>1, <2>2
  <2>4. QED BY <2>3 DEF Control, ServerTypes, Answered
<1>5. answers' \in [Answered -> {0} \cup Statuses]
  <2>1. CASE c.op = "status"
    BY <2>1, <1>1, <1>4 DEF Answer
  <2>2. CASE c.op # "status"
    BY <2>2, <1>4 DEF Answer
  <2>3. QED BY <2>1, <2>2
<1>6. meant' \in [Answered -> Nat]
  BY <1>4
<1> HIDE DEF c
<1>7. script' \in Seq(AnyCall) /\ Fits(script', response'.status, response'.headers)
      /\ \A i \in 1..Len(script') : script'[i] = script[i + 1] /\ i + 1 \in 1..Len(script)
  <2>1. CASE script' = Tail(script)
    BY <2>1, <1>2, <1>3
  <2>2. CASE script' = <<>>
    <3>1. <<>> \in Seq(AnyCall) /\ Len(<<>>) = 0
      BY EmptySeq
    <3>2. script' \in Seq(AnyCall) /\ Len(script') = 0
      BY <2>2, <3>1, Zenon
    <3>3. QED BY <3>2 DEF Fits
  <2>3. QED BY <2>1, <2>2
<1>8. \/ at' = at /\ err' = err /\ Len(script) # 1 /\ script' = Tail(script)
      \/ at = "respond" /\ at' = Rest /\ err' \in {err, 0, 1, -1} /\ script' = <<>>
      \/ at = "error" /\ at' = "end" /\ err' = err /\ script' = <<>> /\ Len(script) = 1
  BY <1>2 DEF AfterScript
<1>9. /\ at' = "rest" => ~request.headers
      /\ at' \in {"respond", "error", "rest", "finish", "end"}
      /\ err \in {-1, 0} \cup Statuses /\ err >= 0 /\ err # 201
      /\ request \in AnyServed /\ response \in AnyResponse
  BY <1>8 DEF Rest, Control, ResponseControl, ServerTypes, Statuses
<1>10. ServerTypes'
  <2>1. err' \in {-1, 0} \cup Statuses
    BY <1>8, <1>9 DEF Statuses
  <2>2. QED BY <1>1, <1>3, <1>5, <1>6, <1>7, <1>9, <2>1 DEF ServerTypes, Control, States, Answered
<1>11. RequestControl'
  BY <1>8, <1>9 DEF RequestControl, Control, Serves
<1>12. ResponseControl'
  <2>1. response'.status # 0 /\ (~response'.headers => ~response'.chunked)
    BY <1>1, <1>3
  <2>2. err' # 201 /\ (err' < 0 => at' \in {"rest", "finish"})
    BY <1>8, <1>9 DEF Rest
  <2>3. at' \in {"error", "end"} /\ ClosesForBody' => response'.close
    BY <1>1, <1>3, <1>8, <1>9 DEF ClosesForBody, Control, ResponseControl, Rest
  <2>4. ~request.http11 /\ ~response'.close => at' = "error" /\ ~response'.headers
    <3>1. SUFFICES ASSUME ~request.http11, ~response'.close
                   PROVE  at' = "error" /\ ~response'.headers
      OBVIOUS
    <3>2. at = "error" /\ ~response.headers
      BY <3>1, <1>1, <1>3 DEF Control, ResponseControl, Serves
    <3>3. QED BY <3>1, <3>2, <1>1, <1>3, <1>8
  <2>5. QED BY <2>1, <2>2, <2>3, <2>4, <1>9 DEF ResponseControl
<1>13. ScriptControl'
  <2>1. script' # <<>> <=> at' \in {"respond", "error"}
    <3>1. CASE at' = at /\ Len(script) # 1 /\ script' = Tail(script)
      BY <3>1, <1>2
    <3>2. CASE at' = Rest /\ script' = <<>>
      BY <3>2 DEF Rest
    <3>3. CASE at' = "end" /\ script' = <<>>
      BY <3>3
    <3>4. QED BY <3>1, <3>2, <3>3, <1>8
  <2>2. at' = "error" => script'[Len(script')].op = "print"
    BY <1>2, <1>8 DEF Rest
  <2>3. ASSUME NEW i \in 1..Len(script')
        PROVE  /\ script'[i].op \in {"file", "headers"} => at' = "respond" /\ request'.handler = "static"
               /\ script'[i].op = "status" /\ script'[i].status = 201 =>
                    at' = "respond" /\ request'.handler = "upload"
    <3>1. at' = at
      <4>1. script' # <<>>
        BY EmptySeq
      <4>2. QED BY <4>1, <1>8
    <3>2. QED BY <3>1, <1>7 DEF Control, ScriptControl
  <2>4. QED BY <2>1, <2>2, <2>3, <1>7 DEF ScriptControl
<1>14. QED BY <1>10, <1>11, <1>12, <1>13 DEF ServerControl

\* The end of a request.
LEMMA ControlConclude ==
  ASSUME Control, Conclude \/ EndResponse
  PROVE  ServerControl'
<1>1. /\ at \in {"finish", "end"} /\ asked' = asked /\ answers' = answers /\ meant' = meant
      /\ stored' = stored /\ serverEnd = "open"
  BY DEF Conclude, EndResponse, Control, RequestControl
<1>2. CASE Hangup
  BY <1>1, <1>2, ControlIdle DEF Hangup
<1>3. CASE EndResponse /\ ~Hangup
  <2>1. /\ at' = "request" /\ serverEnd' = "open" /\ request' = NoRequest /\ response' = NoResponse
        /\ err' = 0 /\ script' = <<>>
    BY <1>1, <1>3 DEF EndResponse
  <2>2. QED BY <1>1, <2>1, ControlIdle
<1>4. CASE Conclude /\ ~Hangup
  <2> DEFINE closes == ClosesForBody
  <2>1. /\ at = "finish" /\ ~(err < 0) /\ response' = [response EXCEPT !.close = @ \/ closes]
        /\ UNCHANGED <<serverEnd, request, err>>
        /\ \/ response.status # 0 /\ at' = "end" /\ script' = script
           \/ response.status = 0 /\ at' = "error" /\ script' = ErrorPage(IF err > 0 THEN err ELSE 200)
    BY <1>4 DEF Conclude
  <2>2. /\ request \in AnyServed /\ response \in AnyResponse /\ err \in {-1, 0} \cup Statuses /\ err # 201
        /\ script = <<>>
    BY <2>1 DEF Control, ServerTypes, ResponseControl, ScriptControl
  <2>3. closes \in BOOLEAN
    BY DEF ClosesForBody
  <2>4. /\ response' \in AnyResponse /\ response'.status = response.status
        /\ response'.headers = response.headers /\ response'.chunked = response.chunked
        /\ (response'.close <=> response.close \/ closes)
    <3> HIDE DEF closes
    <3>1. (response.close \/ closes) \in BOOLEAN
      OBVIOUS
    <3>2. response.close \in BOOLEAN
      BY <2>2 DEF AnyResponse
    <3>3. QED BY <3>1, <3>2, <2>1, <2>2 DEF AnyResponse
  <2> DEFINE s == IF err > 0 THEN err ELSE 200
  <2>5. s \in Statuses \ {201}
    BY <2>1, <2>2 DEF Statuses
  <2> DEFINE page == ErrorPage(s)
  <2>6. /\ FreshScript(page) /\ Len(page) = 4 /\ page[4].op = "print"
        /\ \A i \in 1..4 : page[i].op \notin {"file", "headers"}
    BY <2>5, FreshScripts
  <2>7. /\ \/ response.status # 0 /\ at' = "end" /\ script' = <<>>
           \/ response.status = 0 /\ at' = "error" /\ script' = page
    BY <2>1, <2>2
  <2> HIDE DEF page, s, closes
  <2>8. ServerTypes'
    BY <1>1, <2>1, <2>2, <2>4, <2>6, <2>7, EmptySeq
       DEF ServerTypes, Control, States, Answered, FreshScript
  <2>9. RequestControl'
    BY <1>1, <2>1, <2>7 DEF RequestControl, Control, Serves
  <2>10. ResponseControl'
    <3>1. ClosesForBody' <=> closes
      BY <2>1 DEF ClosesForBody, closes
    <3>2. /\ response.status = 0 => ~response.headers
          /\ ~response.headers => ~response.chunked
          /\ ~request.http11 /\ ~response.close => response.status = 0
      BY <2>1 DEF Control, ResponseControl, Serves
    <3>3. QED BY <3>1, <3>2, <2>1, <2>2, <2>4, <2>7 DEF ResponseControl
  <2>11. ScriptControl'
    <3>1. CASE at' = "end"
      BY <3>1, <2>7, EmptySeq DEF ScriptControl, Fits
    <3>2. CASE at' = "error"
      <4>1. script' = page /\ response'.status = 0 /\ ~response'.headers
        BY <3>2, <2>4, <2>7 DEF Control, ResponseControl
      <4>2. Fits(script', response'.status, response'.headers)
        BY <4>1, <2>6 DEF FreshScript, Fits
      <4>3. QED BY <3>2, <4>1, <4>2, <2>6 DEF ScriptControl, FreshScript
    <3>3. QED BY <3>1, <3>2, <2>7
  <2>12. QED BY <2>8, <2>9, <2>10, <2>11 DEF ServerControl
<1>5. QED BY <1>2, <1>3, <1>4

LEMMA ControlServer ==
  ASSUME Control, [Next]_vars
  PROVE  ServerControl'
<1>1. CASE ServerNext
  <2>1. CASE ReadRequest \/ ReadHeader \/ ReadEndOfHeaders \/ ReadBadHeader \/ ReadHeaderFails
    BY <2>1, ControlReadRequest, ControlReadHeader, ControlHeadersEnd
  <2>2. CASE StaticGet \/ StaticPut \/ ReadFileFails \/ DnsParams \/ ReadFormFails \/ Lookup
    BY <2>2, ControlHandlers
  <2>3. CASE ReadFile \/ ReadForm \/ Conclude \/ EndResponse
    BY <2>3, ControlReadFile, ControlReadForm, ControlConclude
  <2>4. CASE NoMoreRequests
    BY <2>4, ControlIdle DEF NoMoreRequests, Hangup
  <2>5. CASE Write
    <3>1. BodyOf(Head(script)) \in Nat
      BY SizesAssumption DEF BodyOf
    <3>2. QED BY <2>5, <3>1, ControlWrite DEF Write
  <2>6. CASE WriteShrunkFile
    <3>1. answers' = answers /\ FileSize \in Nat
      BY <2>6, SizesAssumption DEF WriteShrunkFile
    <3>2. QED BY <2>6, <3>1, ControlWrite DEF WriteShrunkFile
  <2>7. CASE WriteFails
    <3>1. /\ at \in {"respond", "error"} /\ response' = ResponseAfter(Head(script))
          /\ Answer(Head(script)) /\ meant' = meant
          /\ UNCHANGED <<asked, serverEnd, request, stored>>
      BY <2>7 DEF WriteFails, connVars
    <3>2. \/ /\ script' = Tail(script) /\ at' = IF Len(script) = 1 THEN AfterScript ELSE at
             /\ err' = err \/ (at = "respond" /\ Len(script) = 1 /\ err' \in {0, -1})
          \/ script' = <<>> /\ at = "respond" /\ at' = Rest /\ err' \in {1, -1}
      BY <2>7 DEF WriteFails
    <3>3. QED BY <3>1, <3>2, ControlWrite
  <2>8. QED BY <1>1, <2>1, <2>2, <2>3, <2>4, <2>5, <2>6, <2>7 DEF ServerNext
<1>2. CASE Crash
  BY <1>2, ControlIdle DEF Crash, Hangup
<1>3. CASE Connect
  <2>1. request = NoRequest /\ response = NoResponse /\ script = <<>> /\ err \in {-1, 0} \cup Statuses
        /\ err >= 0 /\ err # 201 /\ at = "closed"
    BY <1>3 DEF Connect, ServerStart, Control, RequestControl, ResponseControl, ScriptControl, Serves,
         ServerTypes, Statuses
  <2>2. /\ at' = "request" /\ serverEnd' = "open" /\ asked' = asked
        /\ UNCHANGED <<request, response, script, err, answers, meant, stored>>
    BY <1>3 DEF Connect, ServerStart, Client!Connect
  <2>3. ServerTypes'
    BY <2>2 DEF ServerTypes, Control, States, Answered
  <2>4. RequestControl'
    BY <2>1, <2>2 DEF RequestControl, Serves, NoRequest
  <2>5. ResponseControl'
    BY <2>1, <2>2 DEF ResponseControl, Serves, NoResponse, Statuses
  <2>6. ScriptControl'
    BY <2>1, <2>2, EmptySeq DEF ScriptControl, Fits
  <2>7. QED BY <2>3, <2>4, <2>5, <2>6 DEF ServerControl
<1>4. CASE /\ UNCHANGED serverVars /\ serverEnd' = serverEnd
  <2>1. ServerTypes' /\ ResponseControl' /\ ScriptControl'
    BY <1>4 DEF serverVars, ServerTypes, ResponseControl, ScriptControl, Control, Serves, Answered,
         ClosesForBody
  <2>2. RequestControl'
    <3>1. request.handler # "none" => request.n \in 1..Len(asked)
      BY LenProperties DEF Control, AskedTypes, Numbers, Said, RequestControl
    <3>2. \A i \in 1..Len(asked) : asked'[i] = asked[i]
      BY AskedTyped DEF Control
    <3>3. request.handler # "none" => asked'[request.n] = asked[request.n]
      BY <3>1, <3>2
    <3>4. QED BY <1>4, <3>3 DEF serverVars, RequestControl, Control, Serves
  <2>3. QED BY <2>1, <2>2 DEF ServerControl
<1>5. CASE Client!ClientSteps /\ UNCHANGED serverVars
  BY <1>4, <1>5, ClientFrame
<1>6. CASE \/ \E q \in Requests[Len(asked) + 1] : Call(q)
           \/ Client!Dies /\ UNCHANGED serverVars
           \/ NetworkStep
           \/ UNCHANGED vars
  BY <1>4, <1>6 DEF Call, Client!Call, Client!Dies, NetworkStep, Breaks, vars, connVars
<1>7. QED BY <1>1, <1>2, <1>3, <1>5, <1>6, Steps

-----------------------------------------------------------------------------
(* The client, and both                                                    *)

LEMMA EndsTyped ==
  ASSUME ConnTypes, ServerTypes, ScriptControl, AskedTypes, ClientTypes, ClientControl, [Next]_vars
  PROVE  ConnTypes'
<1>1. up' \in Seq(AnyItem) /\ down' \in Seq(AnyItem)
  BY UpTyped, DownTyped
<1>2. clientEnd' \in Ends /\ serverEnd' \in Ends /\ broken' \in BOOLEAN
  <2>1. clientEnd \in Ends /\ serverEnd \in Ends /\ broken \in BOOLEAN
    BY DEF ConnTypes
  <2>2. CASE ServerNext
    <3>1. serverEnd' \in {serverEnd, "closed"}
      BY <2>2 DEF ServerNext, ReadRequest, NoMoreRequests, ReadHeader, ReadEndOfHeaders,
           ReadBadHeader, ReadHeaderFails, StaticGet, StaticPut, ReadFile, ReadFileFails, DnsParams,
           ReadForm, ReadFormFails, Lookup, Write, WriteShrunkFile, WriteFails, Conclude,
           EndResponse, Hangup, connVars
    <3>2. QED BY <2>1, <2>2, <3>1, ServerFrame DEF Ends
  <2>3. CASE Client!ClientSteps
    <3>1. clientEnd' \in {clientEnd, "open", "closed"}
      BY <2>3 DEF Client!ClientSteps, Client!ConnectFails, Client!SendHead, Client!SendBody,
           Client!SendFails, Client!ReadStatus, Client!ReadHeader, Client!HeadersEof,
           Client!ReadSize, Client!ReadChunk, Client!ReadFooter, Client!ReadTrailer,
           Client!ReadBody, Client!ReadEof, Client!ReadFails, Client!TakeLine, Client!connVars,
           Client!RequestReturns, Client!Returns, Client!Complete
    <3>2. QED BY <2>1, <2>3, <3>1, ClientFrame DEF Ends
  <2>4. CASE Connect \/ Crash \/ Client!Dies \/ NetworkStep
    BY <2>1, <2>4 DEF Connect, Client!Connect, Crash, Hangup, Client!Dies, NetworkStep, Breaks, Ends
  <2>5. CASE (\E q \in Requests[Len(asked) + 1] : Call(q)) \/ UNCHANGED vars
    BY <2>1, <2>5 DEF Call, Client!Call, vars, connVars
  <2>6. QED BY <2>2, <2>3, <2>4, <2>5, Steps
<1>3. QED BY <1>1, <1>2 DEF ConnTypes

\* What is known of a response, with a line or a byte more.
LEMMA GotTyped ==
  ASSUME got \in AnyGot, NEW item \in AnyItem
  PROVE  /\ Client!With(item) \in AnyGot
         /\ [Client!With(item) EXCEPT !.status = item.n] \in AnyGot
         /\ [Client!With(item) EXCEPT !.units = @ + 1] \in AnyGot
         /\ [Client!With(item) EXCEPT
               !.length  = IF item.is = "length" THEN item.n ELSE @,
               !.chunked = @ \/ item.is = "chunked",
               !.close   = @ \/ item.is = "close"] \in AnyGot
<1> DEFINE g == Client!With(item)
<1>1. item.n \in Nat /\ item.re \in Nat
  BY DEF AnyItem
<1>2. g \in AnyGot
  BY <1>1 DEF Client!With, AnyGot
<1> HIDE DEF g
<1>3. (g.chunked \/ item.is = "chunked") \in BOOLEAN /\ (g.close \/ item.is = "close") \in BOOLEAN
  OBVIOUS
<1>4. (IF item.is = "length" THEN item.n ELSE g.length) \in Nat /\ g.units + 1 \in Nat
  BY <1>1, <1>2 DEF AnyGot
<1>5. /\ [g EXCEPT !.status = item.n] \in AnyGot /\ [g EXCEPT !.units = @ + 1] \in AnyGot
  BY <1>1, <1>2, <1>4 DEF AnyGot
<1>6. [g EXCEPT !.length  = IF item.is = "length" THEN item.n ELSE @,
                !.chunked = @ \/ item.is = "chunked",
                !.close   = @ \/ item.is = "close"] \in AnyGot
  BY <1>2, <1>3, <1>4 DEF AnyGot
<1>7. QED BY <1>2, <1>5, <1>6 DEF g

\* A call returns.
LEMMA ClientReturns ==
  ASSUME AskedTypes, ClientTypes, ClientControl, cat \notin {"idle", "dead"}, asked' = asked,
         got' \in AnyGot, left' \in Nat, \E r \in Int : \E keep \in BOOLEAN : Client!Returns(r, keep)
  PROVE  ClientTypes' /\ ClientControl'
<1>1. PICK r \in Int, keep \in BOOLEAN :
        results' = Append(results, r) /\ cat' = "idle" /\ clientEnd' = IF keep THEN "open" ELSE "closed"
  BY DEF Client!Returns
<1>2. results' \in Seq(Int) /\ Len(results') = Len(results) + 1
  BY <1>1, AppendProperties DEF ClientTypes
<1>3. Len(results) = Len(asked) - 1 /\ Len(asked) \in Nat /\ Len(asked) > 0
  BY LenProperties DEF ClientControl, AskedTypes
<1>4. Len(results') = Len(asked)
  BY <1>2, <1>3
<1>5. ClientTypes'
  BY <1>1, <1>2 DEF ClientTypes, ClientStates
<1>6. ClientControl'
  BY <1>1, <1>3, <1>4 DEF ClientControl
<1>7. QED BY <1>5, <1>6

\* It reads on.
LEMMA ClientReadsOn ==
  ASSUME AskedTypes, ClientTypes, ClientControl, asked' = asked, clientEnd' = clientEnd, results' = results,
         cat \in {"send", "upload", "status", "headers", "size", "chunk", "footer", "trailer", "length", "eof"},
         cat' \in {"upload", "status", "headers", "size", "chunk", "footer", "trailer", "length", "eof"},
         got' \in AnyGot, left' \in Nat, cat' \in {"chunk", "length"} => left' > 0
  PROVE  ClientTypes' /\ ClientControl'
BY DEF ClientTypes, ClientControl, ClientStates

LEMMA ControlClientSteps ==
  ASSUME Control, Client!ClientSteps
  PROVE  ClientTypes' /\ ClientControl'
<1>1. /\ AskedTypes /\ ClientTypes /\ ClientControl /\ asked' = asked
      /\ got \in AnyGot /\ left \in Nat /\ got.status \in Nat /\ got.length \in Nat
  BY ClientFrame DEF Control, ClientTypes, AnyGot
<1>2. HasLine(down) => LineOf(down) \in AnyItem
  BY LineFacts DEF Control, ConnTypes
<1>3. down # <<>> => Head(down) \in AnyItem
  BY TailFacts DEF Control, ConnTypes
<1>4. \A e : (\E r \in Int : \E keep \in BOOLEAN : Client!Returns(r, keep)) \/ ~Client!RequestReturns(e)
  <2>1. Client!Failed \in Int
    BY DEF Client!Failed
  <2>2. ASSUME NEW e PROVE Client!RequestReturns(e) =>
                             \E r \in Int : \E keep \in BOOLEAN : Client!Returns(r, keep)
    <3> DEFINE r == IF e < 0 THEN Client!Failed ELSE got.status
               keep == e = 0
    <3>1. r \in Int /\ keep \in BOOLEAN
      BY <2>1, <1>1
    <3> HIDE DEF r, keep
    <3>2. Client!RequestReturns(e) => Client!Returns(r, keep)
      BY DEF Client!RequestReturns, r, keep
    <3>3. QED BY <3>1, <3>2
  <2>3. QED BY <2>2
<1>5. Client!BodyState(got) \in {"size", "length", "eof"} /\ (Client!BodyState(got) = "length" => got.length > 0)
  BY DEF Client!BodyState
<1>6. CASE Client!ConnectFails
  <2>1. Client!Returns(Client!Failed, FALSE) /\ cat = "connect" /\ got' = got /\ left' = left
    BY <1>6 DEF Client!ConnectFails
  <2>2. Client!Failed \in Int
    BY DEF Client!Failed
  <2>3. QED BY <2>1, <2>2, <1>1, ClientReturns
<1>7. CASE Client!SendHead \/ Client!SendBody
  BY <1>1, <1>7, ClientReadsOn DEF Client!SendHead, Client!SendBody
<1>8. CASE Client!SendFails \/ Client!ReadEof \/ Client!ReadFails
  <2>1. /\ cat \notin {"idle", "dead"} /\ got' = got /\ left' = left
        /\ \E e \in {1, -1} : Client!RequestReturns(e)
    BY <1>8 DEF Client!SendFails, Client!ReadEof, Client!ReadFails
  <2>2. QED BY <2>1, <1>1, <1>4, ClientReturns
<1>9. CASE Client!ReadStatus
  <2>1. /\ cat = "status" /\ left' = left /\ LineOf(down) \in AnyItem
        /\ \/ /\ got' = [Client!With(LineOf(down)) EXCEPT !.status = LineOf(down).n]
              /\ cat' = "headers" /\ UNCHANGED <<clientEnd, results>>
           \/ Client!RequestReturns(400) /\ got' = Client!With(LineOf(down))
    BY <1>2, <1>9, ClientText DEF Client!ReadStatus, Client!TakeLine, Client!Line
  <2>2. got' \in AnyGot
    BY <2>1, <1>1, GotTyped
  <2>3. QED BY <2>1, <2>2, <1>1, <1>4, ClientReturns, ClientReadsOn
<1>10. CASE Client!ReadHeader
  <2>1. /\ cat = "headers" /\ LineOf(down) \in AnyItem
        /\ got' = [Client!With(LineOf(down)) EXCEPT
                     !.length  = IF LineOf(down).is = "length" THEN LineOf(down).n ELSE @,
                     !.chunked = @ \/ LineOf(down).is = "chunked",
                     !.close   = @ \/ LineOf(down).is = "close"]
        /\ \/ UNCHANGED <<cat, left>>
           \/ cat' = Client!BodyState(got) /\ left' = got.length
        /\ UNCHANGED <<clientEnd, results>>
    BY <1>2, <1>10, ClientText DEF Client!ReadHeader, Client!TakeLine, Client!Line
  <2>2. got' \in AnyGot
    BY <2>1, <1>1, GotTyped
  <2>3. QED BY <2>1, <2>2, <1>1, <1>5, ClientReadsOn
<1>11. CASE Client!HeadersEof
  <2>1. /\ cat = "headers" /\ cat' = Client!BodyState(got) /\ left' = got.length /\ got' = got
        /\ UNCHANGED <<clientEnd, results>>
    BY <1>11 DEF Client!HeadersEof, Client!connVars
  <2>2. QED BY <2>1, <1>1, <1>5, ClientReadsOn
<1>12. CASE Client!ReadSize
  <2>1. /\ cat = "size" /\ LineOf(down) \in AnyItem /\ got' = Client!With(LineOf(down))
        /\ \/ /\ left' = LineOf(down).n /\ cat' = IF LineOf(down).n = 0 THEN "trailer" ELSE "chunk"
              /\ UNCHANGED <<clientEnd, results>>
           \/ Client!RequestReturns(-1) /\ left' = left
    BY <1>2, <1>12, ClientText DEF Client!ReadSize, Client!TakeLine, Client!Line
  <2>2. got' \in AnyGot /\ LineOf(down).n \in Nat
    BY <2>1, <1>1, GotTyped DEF AnyItem
  <2>3. CASE Client!RequestReturns(-1) /\ left' = left
    BY <2>1, <2>2, <2>3, <1>1, <1>4, ClientReturns
  <2>4. CASE /\ left' = LineOf(down).n /\ cat' = IF LineOf(down).n = 0 THEN "trailer" ELSE "chunk"
             /\ UNCHANGED <<clientEnd, results>>
    <3>1. left' \in Nat /\ cat' \in {"trailer", "chunk"} /\ (cat' = "chunk" => left' > 0)
      BY <2>2, <2>4
    <3>2. QED BY <2>1, <2>2, <2>4, <3>1, <1>1, ClientReadsOn
  <2>5. QED BY <2>1, <2>3, <2>4
<1>13. CASE Client!ReadChunk
  <2>1. /\ cat = "chunk" /\ Head(down) \in AnyItem /\ left' = left - 1 /\ left > 0
        /\ got' = [Client!With(Head(down)) EXCEPT !.units = @ + 1]
        /\ cat' = IF left = 1 THEN "footer" ELSE "chunk"
        /\ UNCHANGED <<clientEnd, results>>
    BY <1>1, <1>3, <1>13 DEF Client!ReadChunk, ClientTypes
  <2>2. got' \in AnyGot
    BY <2>1, <1>1, GotTyped
  <2>3. left' \in Nat /\ cat' \in {"footer", "chunk"} /\ (cat' = "chunk" => left' > 0)
    BY <2>1, <1>1
  <2>4. QED BY <2>1, <2>2, <2>3, <1>1, ClientReadsOn
<1>14. CASE Client!ReadFooter
  <2>1. /\ cat = "footer" /\ LineOf(down) \in AnyItem /\ got' = Client!With(LineOf(down)) /\ left' = left
        /\ \/ cat' = "size" /\ UNCHANGED <<clientEnd, results>>
           \/ Client!RequestReturns(-1)
    BY <1>2, <1>14, ClientText DEF Client!ReadFooter, Client!TakeLine, Client!Line
  <2>2. got' \in AnyGot
    BY <2>1, <1>1, GotTyped
  <2>3. QED BY <2>1, <2>2, <1>1, <1>4, ClientReturns, ClientReadsOn
<1>15. CASE Client!ReadTrailer
  <2>1. /\ cat = "trailer" /\ LineOf(down) \in AnyItem /\ got' = Client!With(LineOf(down)) /\ left' = left
        /\ \/ UNCHANGED <<cat, clientEnd, results>>
           \/ \E e \in {0, 1} : Client!RequestReturns(e)
    BY <1>2, <1>15, ClientText DEF Client!ReadTrailer, Client!TakeLine, Client!Line, Client!Complete
  <2>2. got' \in AnyGot
    BY <2>1, <1>1, GotTyped
  <2>3. QED BY <2>1, <2>2, <1>1, <1>4, ClientReturns, ClientReadsOn
<1>16. CASE Client!ReadBody
  <2>1. /\ cat \in {"length", "eof"} /\ Head(down) \in AnyItem
        /\ got' = [Client!With(Head(down)) EXCEPT !.units = @ + 1]
        /\ \/ cat = "eof" /\ UNCHANGED <<left, cat, clientEnd, results>>
           \/ /\ cat = "length" /\ left' = left - 1
              /\ \/ left # 1 /\ UNCHANGED <<cat, clientEnd, results>>
                 \/ \E e \in {0, 1} : Client!RequestReturns(e)
    BY <1>3, <1>16 DEF Client!ReadBody, Client!Complete
  <2>2. got' \in AnyGot
    BY <2>1, <1>1, GotTyped
  <2>3. cat = "length" => left - 1 \in Nat /\ (left # 1 => left - 1 > 0)
    BY <1>1 DEF ClientTypes
  <2>4. QED BY <2>1, <2>2, <2>3, <1>1, <1>4, ClientReturns, ClientReadsOn
<1>17. QED BY <1>6, <1>7, <1>8, <1>9, <1>10, <1>11, <1>12, <1>13, <1>14, <1>15, <1>16
          DEF Client!ClientSteps

LEMMA ControlClient ==
  ASSUME Control, [Next]_vars
  PROVE  ClientTypes' /\ ClientControl'
<1>1. ClientTypes /\ ClientControl /\ AskedTypes /\ Len(asked) \in Nat
  BY LenProperties DEF Control, AskedTypes
<1>2. CASE UNCHANGED <<cat, got, left, results, clientEnd>> /\ asked' = asked
  BY <1>1, <1>2 DEF ClientTypes, ClientControl
<1>3. CASE ServerNext /\ UNCHANGED clientVars
  BY <1>2, <1>3, ServerFrame DEF clientVars
<1>4. CASE Client!ClientSteps
  BY <1>4, ControlClientSteps
<1>5. CASE (Crash /\ UNCHANGED clientVars) \/ NetworkStep \/ UNCHANGED vars
  BY <1>2, <1>5 DEF Crash, NetworkStep, Breaks, vars, connVars, clientVars
<1>6. CASE Connect
  <2>1. /\ cat = "connect" /\ cat' = "send" /\ clientEnd' = "open" /\ asked' = asked
        /\ UNCHANGED <<got, left, results>>
    BY <1>6 DEF Connect, Client!Connect
  <2>2. QED BY <2>1, <1>1 DEF ClientTypes, ClientControl, ClientStates
<1>7. CASE Client!Dies
  <2>1. /\ clientEnd = "open" /\ cat' = "dead" /\ clientEnd' = "closed" /\ asked' = asked
        /\ UNCHANGED <<got, left, results>>
    BY <1>7 DEF Client!Dies
  <2>2. QED BY <2>1, <1>1 DEF ClientTypes, ClientControl, ClientStates
<1>8. ASSUME NEW q \in Requests[Len(asked) + 1], Len(asked) < MaxRequests, Call(q)
      PROVE  ClientTypes' /\ ClientControl'
  <2>1. /\ cat = "idle" /\ asked' = Append(asked, q) /\ got' = Client!Nothing /\ left' = 0
        /\ cat' = (IF clientEnd = "open" THEN "send" ELSE "connect")
        /\ UNCHANGED <<clientEnd, results>>
    BY <1>8 DEF Call, Client!Call
  <2>2. q \in AnyRequest
    BY <1>1, <1>8, RequestsAssumption, SizesAssumption
  <2>3. Len(asked') = Len(asked) + 1
    BY <2>1, <2>2, AppendProperties DEF AskedTypes, Control
  <2>4. got' \in AnyGot
    BY <2>1 DEF Client!Nothing, AnyGot
  <2>5. QED BY <2>1, <2>3, <2>4, <1>1 DEF ClientTypes, ClientControl, ClientStates
<1>9. QED BY <1>3, <1>4, <1>5, <1>6, <1>7, <1>8, Steps

\* The client never takes back what it has said.
LEMMA SaidGrows ==
  ASSUME Control, [Next]_vars
  PROVE  /\ Said \in Nat /\ Said' \in Nat /\ Said <= Said' /\ Said <= Len(asked) /\ Len(asked) \in Nat
         /\ Len(asked) <= MaxRequests /\ MaxRequests \in Nat
<1>1. /\ Len(asked) \in Nat /\ Len(asked)' \in Nat /\ Len(asked) <= Len(asked)'
      /\ Len(asked) <= MaxRequests /\ MaxRequests \in Nat
  BY LenProperties, AskedTyped, SizesAssumption DEF Control, AskedTypes
<1>2. /\ cat # "idle" => Len(asked) > 0
      /\ cat' # "idle" => Len(asked)' > 0
  BY ControlClient DEF Control, ClientControl
<1>3. Said \in Nat /\ Said' \in Nat /\ Said <= Len(asked)
  BY <1>1, <1>2 DEF Said
<1>4. CASE asked' = asked
  <2>1. cat' \in {"connect", "send"} => cat \in {"connect", "send"}
    <3>1. CASE ServerNext /\ UNCHANGED clientVars
      BY <3>1 DEF clientVars
    <3>2. CASE Client!ClientSteps
      BY <3>2, ClientText DEF Client!ClientSteps, Client!ConnectFails, Client!SendHead,
         Client!SendBody, Client!SendFails, Client!ReadStatus, Client!ReadHeader,
         Client!HeadersEof, Client!ReadSize, Client!ReadChunk, Client!ReadFooter,
         Client!ReadTrailer, Client!ReadBody, Client!ReadEof, Client!ReadFails,
         Client!RequestReturns, Client!Returns, Client!Complete, Client!BodyState
    <3>3. CASE (Crash /\ UNCHANGED clientVars) \/ NetworkStep \/ UNCHANGED vars \/ Connect \/ Client!Dies
      BY <3>3 DEF Crash, NetworkStep, vars, clientVars, Connect, Client!Connect, Client!Dies
    <3>4. ASSUME NEW q \in Requests[Len(asked) + 1], Len(asked) < MaxRequests, Call(q)
          PROVE  FALSE
      <4>1. q \in AnyRequest /\ asked' = Append(asked, q)
        BY <1>1, <3>4, RequestsAssumption DEF Call, Client!Call
      <4>2. Len(asked') = Len(asked) + 1
        BY <4>1, AppendProperties DEF Control, AskedTypes
      <4>3. QED BY <4>2, <1>1, <1>4
    <3>5. QED BY <3>1, <3>2, <3>3, <3>4, Steps
  <2>2. QED BY <1>1, <1>3, <1>4, <2>1 DEF Said
<1>5. ASSUME NEW q \in Requests[Len(asked) + 1], Len(asked) < MaxRequests, Call(q)
      PROVE  Said <= Said'
  <2>1. q \in AnyRequest /\ asked' = Append(asked, q) /\ cat = "idle"
    BY <1>1, <1>5, RequestsAssumption DEF Call, Client!Call
  <2>2. Len(asked') = Len(asked) + 1
    BY <2>1, AppendProperties DEF Control, AskedTypes
  <2>3. QED BY <2>1, <2>2, <1>1, <1>3 DEF Said
<1>6. QED BY <1>1, <1>3, <1>4, <1>5, AskedFrame

LEMMA NumbersKept ==
  ASSUME Control, [Next]_vars
  PROVE  Numbers'
<1>1. /\ Said \in Nat /\ Said' \in Nat /\ Said <= Said' /\ Said <= Len(asked) /\ Len(asked) \in Nat
      /\ Len(asked) <= MaxRequests /\ MaxRequests \in Nat
  BY SaidGrows
<1>2. request'.n \in 0..Said
  <2>1. request.n \in 0..Said /\ request \in AnyServed
    BY DEF Control, Numbers, ServerTypes
  <2>2. CASE request'.n = request.n
    BY <2>1, <2>2
  <2>3. CASE request' = NoRequest
    BY <1>1, <2>3 DEF NoRequest
  <2>4. CASE ReadRequest
    <3>1. HasLine(up) /\ request'.n = IF LineOf(up).is = "request" THEN LineOf(up).n ELSE 0
      BY <2>4 DEF ReadRequest, NoRequest
    <3>2. LineOf(up).is = "request" => LineOf(up).n \in 1..Said
      <4>1. up \in Seq(AnyItem)
        BY DEF Control, ConnTypes
      <4>2. /\ LineEnd(up) \in 1..Len(up)
            /\ (LineOf(up) = up[LineEnd(up)] \/ LineOf(up) = Item("bad", 0, 0))
        BY <3>1, <4>1, LineFacts
      <4>3. Item("bad", 0, 0).is # "request"
        BY DEF Item
      <4>4. \A i \in 1..Len(up) : up[i].is = "request" => up[i].n \in 1..Said
        BY DEF Control, Numbers
      <4>5. QED BY <4>2, <4>3, <4>4, Zenon
    <3>3. QED BY <3>1, <3>2, <1>1
  <2>5. CASE ServerNext /\ ~ReadRequest
    <3>1. request' = NoRequest \/ request'.n = request.n
      BY <2>1, <2>5 DEF ServerNext, NoMoreRequests, ReadHeader, ReadEndOfHeaders, ReadBadHeader,
           ReadHeaderFails, StaticGet, StaticPut, ReadFile, ReadFileFails, DnsParams, ReadForm,
           ReadFormFails, Lookup, Write, WriteShrunkFile, WriteFails, Conclude, EndResponse,
           HandlerReturns, Respond, Hangup, AnyServed
    <3>2. QED BY <3>1, <2>2, <2>3
  <2>6. CASE Crash \/ Connect \/ UNCHANGED serverVars \/ NetworkStep \/ UNCHANGED vars
    BY <2>2, <2>3, <2>6 DEF Crash, Hangup, Connect, ServerStart, serverVars, NetworkStep, vars
  <2>7. CASE \E q \in Requests[Len(asked) + 1] : Call(q)
    BY <2>2, <2>7 DEF Call, serverVars
  <2>8. QED BY <2>4, <2>5, <2>6, <2>7, Steps
<1>3. \A i \in 1..Len(up') : up'[i].is = "request" => up'[i].n \in 1..Said'
  <2>1. SUFFICES ASSUME NEW i \in 1..Len(up'), up'[i].is = "request"
                 PROVE  up'[i].n \in 1..Said'
    OBVIOUS
  <2>2. CASE \E j \in 1..Len(up) : up[j] = up'[i]
    <3>1. up'[i].n \in 1..Said
      BY <2>1, <2>2 DEF Control, Numbers
    <3>2. QED BY <3>1, <1>1
  <2>3. CASE up'[i].n = Len(asked) /\ Said' = Len(asked) /\ Len(asked) > 0
    BY <2>3, <1>1
  <2>4. QED BY <2>1, <2>2, <2>3, UpTyped DEF Control
<1>4. ASSUME NEW i \in 1..MaxRequests, i > Said'
      PROVE  answers'[i] = 0 /\ meant'[i] = 0
  <2>1. i > Said /\ answers[i] = 0 /\ meant[i] = 0 /\ i # request.n
    BY <1>1, <1>4 DEF Control, Numbers
  <2>2. answers \in [Answered -> {0} \cup Statuses] /\ meant \in [Answered -> Nat] /\ i \in Answered
    BY <1>1 DEF Control, ServerTypes, Answered
  <2>3. /\ \/ answers' = answers
           \/ \E s : answers' = [answers EXCEPT ![request.n] = s]
        /\ \/ meant' = meant
           \/ \E s : meant' = [meant EXCEPT ![request.n] = s]
    <3>1. CASE ServerNext
      BY <3>1 DEF ServerNext, ReadRequest, NoMoreRequests, ReadHeader, ReadEndOfHeaders,
           ReadBadHeader, ReadHeaderFails, StaticGet, StaticPut, ReadFile, ReadFileFails, DnsParams,
           ReadForm, ReadFormFails, Lookup, Write, WriteShrunkFile, WriteFails, Conclude,
           EndResponse, Answer
    <3>2. CASE Crash \/ Connect \/ UNCHANGED serverVars \/ NetworkStep \/ UNCHANGED vars
      BY <3>2 DEF Crash, Connect, ServerStart, serverVars, NetworkStep, vars
    <3>3. CASE \E q \in Requests[Len(asked) + 1] : Call(q)
      BY <3>3 DEF Call, serverVars
    <3>4. QED BY <3>1, <3>2, <3>3, Steps
  <2>4. answers'[i] = answers[i] /\ meant'[i] = meant[i]
    BY <2>1, <2>2, <2>3
  <2>5. QED BY <2>1, <2>4
<1>5. request'.n \in 0..Said'
  BY <1>1, <1>2
<1>6. QED BY <1>3, <1>4, <1>5 DEF Numbers

LEMMA ControlInit == Init => Control
<1> SUFFICES ASSUME Init PROVE Control
  OBVIOUS
<1>1. /\ asked = <<>> /\ up = <<>> /\ down = <<>> /\ clientEnd = "none" /\ serverEnd = "none"
      /\ broken = FALSE /\ at = "closed" /\ request = NoRequest /\ response = NoResponse
      /\ script = <<>> /\ err = 0
      /\ answers = [n \in Answered |-> 0] /\ meant = [n \in Answered |-> 0]
      /\ stored = [of |-> 0, units |-> 0]
      /\ cat = "idle" /\ got = Client!Nothing /\ left = 0 /\ results = <<>>
  BY DEF Init, ServerInit, Client!ClientInit
<1>2. MaxRequests \in Nat /\ Len(<<>>) = 0
  BY SizesAssumption
<1>9. \A S : <<>> \in Seq(S)
  BY EmptySeq
<1>3. AskedTypes /\ ConnTypes
  <2>1. asked \in Seq(AnyRequest) /\ up \in Seq(AnyItem) /\ down \in Seq(AnyItem)
    BY <1>1, <1>9, Zenon
  <2>2. Len(asked) = 0
    BY <1>1, <1>2
  <2>3. Len(asked) <= MaxRequests /\ \A i \in 1..Len(asked) : asked[i] \in Requests[i]
    BY <1>2, <2>2
  <2>4. AskedTypes
    BY <2>1, <2>3, Zenon DEF AskedTypes
  <2>5. ConnTypes
    BY <1>1, <2>1 DEF ConnTypes, Ends
  <2>6. QED BY <2>4, <2>5
<1>4. ServerTypes
  <2>1. script \in Seq(AnyCall)
    BY <1>1, <1>9, Zenon
  <2>2. QED BY <1>1, <2>1 DEF ServerTypes, NoRequest, NoResponse, AnyServed, AnyResponse, States
<1>5. ClientTypes
  <2>1. results \in Seq(Int)
    BY <1>1, <1>9, Zenon
  <2>2. QED BY <1>1, <2>1 DEF ClientTypes, Client!Nothing, AnyGot, ClientStates
<1>6. Numbers
  <2>1. Said = 0
    BY <1>1, <1>2 DEF Said
  <2>2. QED BY <1>1, <1>2, <2>1 DEF Numbers, NoRequest, Answered
<1>7. ClientControl /\ RequestControl /\ ResponseControl /\ ScriptControl
  BY <1>1, <1>2 DEF ClientControl, RequestControl, ResponseControl, ScriptControl, NoRequest,
     NoResponse, Serves, Fits
<1>8. QED BY <1>3, <1>4, <1>5, <1>6, <1>7 DEF Control

LEMMA ControlStep ==
  ASSUME Control, [Next]_vars
  PROVE  Control'
<1>1. AskedTypes' /\ ConnTypes'
  BY AskedTyped, EndsTyped DEF Control
<1>2. ServerControl'
  BY ControlServer
<1>3. ClientTypes' /\ ClientControl' /\ Numbers'
  BY ControlClient, NumbersKept
<1>4. QED BY <1>1, <1>2, <1>3 DEF Control, ServerControl

\* Whatever comes over the connection, both ends keep their control: nothing is left of a
\* response where there is no status, a body is read only where one is expected, 201 comes
\* from the upload handler alone.
THEOREM ControlAlways == Spec => []Control
<1>1. QED BY ControlInit, ControlStep, PTL DEF Spec

\* The fields of both structs, and what may be under way, have their types.
THEOREM TypeAlways == Spec => []TypeOK
<1>1. Control => TypeOK
  <2> SUFFICES ASSUME Control PROVE TypeOK
    OBVIOUS
  <2>1. Len(asked) \in Nat /\ DOMAIN asked = 1..Len(asked) /\ MaxRequests \in Nat
    BY LenProperties, SizesAssumption DEF Control, AskedTypes
  <2>2. request.n \in Answered
    <3>1. Said \in {Len(asked), Len(asked) - 1} /\ request.n \in 0..Said /\ Len(asked) <= MaxRequests
      BY DEF Said, Control, Numbers, AskedTypes
    <3>2. request.n \in 0..MaxRequests
      BY <2>1, <3>1
    <3>3. QED BY <3>2 DEF Answered
  <2>3. request.length \in Nat /\ at \in States /\ cat \in ClientStates
    BY DEF Control, ServerTypes, AnyServed, ClientTypes
  <2>4. QED BY <2>1, <2>2, <2>3 DEF TypeOK, Control, AskedTypes, ConnTypes, ServerTypes, ClientTypes,
             RequestControl, ScriptControl, States, ClientStates, Ends
<1>2. QED BY <1>1, ControlAlways, PTL

-----------------------------------------------------------------------------
(* Pieces of a request                                                     *)

\* What comes after the first k items of a request, up to the m-th.
Part(w, i, k, m) ==
  /\ w \in Seq(AnyItem) /\ k \in Nat /\ m \in Nat /\ k <= m /\ m <= MessageLen(i)
  /\ Len(w) = m - k /\ \A x \in 1..m - k : w[x] = Message(i)[k + x]

\* Each item is the request's own; its first is the request line.
LEMMA PartItems ==
  ASSUME AskedTypes, NEW i \in 1..Len(asked), NEW k, NEW m, NEW w, Part(w, i, k, m)
  PROVE  \A x \in 1..Len(w) :
           /\ w[x].re = i /\ w[x] = Message(i)[k + x]
           /\ w[x].is = "request" <=> k + x = 1
           /\ w[x].is = "request" => w[x].n = i
           /\ w[x].is = "length" => w[x].n = asked[i].length
<1> DEFINE hl == HeadLen(i)
           ml == MessageLen(i)
           M == Message(i)
<1>1. /\ hl \in Nat /\ hl >= 3 /\ ml \in Nat
      /\ M[1] = Item("request", i, i) /\ M[hl] = Item("blank", 0, i)
      /\ \A y \in 2..hl - 1 :
           /\ M[y].is \in Headers \cup {"bad"} /\ M[y].re = i
           /\ M[y].is = "length" => M[y].n = asked[i].length
      /\ \A y \in hl + 1 .. ml : M[y] = Item("data", 0, i)
  BY MessageFacts
<1>2. k \in Nat /\ m \in Nat /\ m <= ml /\ Len(w) = m - k /\ \A x \in 1..m - k : w[x] = M[k + x]
  BY DEF Part
<1> HIDE DEF hl, ml, M
<1>3. ASSUME NEW y \in 1..ml
      PROVE  /\ M[y].re = i
             /\ M[y].is = "request" <=> y = 1
             /\ M[y].is = "request" => M[y].n = i
             /\ M[y].is = "length" => M[y].n = asked[i].length
  <2>1. y = 1 \/ y = hl \/ y \in 2..hl - 1 \/ y \in hl + 1 .. ml
    BY <1>1
  <2>2. CASE y = 1
    BY <2>2, <1>1 DEF Item
  <2>3. CASE y = hl
    BY <2>3, <1>1 DEF Item
  <2>4. CASE y \in 2..hl - 1
    <3>1. M[y].is # "request" /\ y # 1
      BY <2>4, <1>1 DEF Headers
    <3>2. QED BY <2>4, <3>1, <1>1
  <2>5. CASE y \in hl + 1 .. ml
    BY <2>5, <1>1 DEF Item
  <2>6. QED BY <2>1, <2>2, <2>3, <2>4, <2>5
<1>4. \A x \in 1..Len(w) : k + x \in 1..ml /\ w[x] = M[k + x]
  BY <1>1, <1>2
<1>5. QED BY <1>3, <1>4 DEF M

LEMMA PartTake ==
  ASSUME AskedTypes, NEW i \in 1..Len(asked), NEW k, NEW m, NEW w, Part(w, i, k, m), NEW j \in 0..Len(w)
  PROVE  Part(SubSeq(w, 1, j), i, k, k + j)
<1> DEFINE t == SubSeq(w, 1, j)
           n == Len(w)
<1>1. /\ w \in Seq(AnyItem) /\ k \in Nat /\ m \in Nat /\ k <= m /\ m <= MessageLen(i) /\ n = m - k
      /\ \A x \in 1..m - k : w[x] = Message(i)[k + x]
  BY DEF Part
<1>2. t \in Seq(AnyItem) /\ Len(t) = j /\ \A x \in 1..j : t[x] = w[x]
  BY <1>1, TakeFacts
<1>3. j \in 0..n
  OBVIOUS
<1> HIDE DEF t, n
<1>4. k + j \in Nat /\ k <= k + j /\ k + j <= m /\ (k + j) - k = j /\ j <= m - k /\ j \in Nat
  BY <1>1, <1>3
<1>5. \A x \in 1..j : x \in 1..m - k
  BY <1>1, <1>4
<1>6. k + j <= MessageLen(i)
  <2>1. MessageLen(i) \in Nat
    BY MessageFacts
  <2>2. QED BY <2>1, <1>1, <1>4
<1>7. Part(t, i, k, k + j)
  BY <1>1, <1>2, <1>4, <1>5, <1>6 DEF Part
<1>8. QED BY <1>7 DEF t

LEMMA PartRest ==
  ASSUME AskedTypes, NEW i \in 1..Len(asked), NEW k, NEW m, NEW w, Part(w, i, k, m), NEW j \in 0..Len(w)
  PROVE  Part(SubSeq(w, j + 1, Len(w)), i, k + j, m)
<1> DEFINE t == SubSeq(w, j + 1, Len(w))
           n == Len(w)
<1>1. /\ w \in Seq(AnyItem) /\ k \in Nat /\ m \in Nat /\ k <= m /\ m <= MessageLen(i) /\ n = m - k
      /\ \A x \in 1..m - k : w[x] = Message(i)[k + x]
  BY DEF Part
<1>2. t \in Seq(AnyItem) /\ Len(t) = n - j /\ \A x \in 1..n - j : t[x] = w[j + x]
  BY <1>1, RestFacts
<1>3. j \in 0..n
  OBVIOUS
<1> HIDE DEF t, n
<1>4. k + j \in Nat /\ k + j <= m /\ m - (k + j) = n - j /\ j \in Nat
  BY <1>1, <1>3
<1>5. \A x \in 1..n - j : j + x \in 1..m - k /\ k + (j + x) = (k + j) + x
  BY <1>1, <1>4
<1>6. \A x \in 1..n - j : t[x] = Message(i)[(k + j) + x]
  BY <1>1, <1>2, <1>5
<1>7. Part(t, i, k + j, m)
  BY <1>1, <1>2, <1>4, <1>6 DEF Part
<1>8. QED BY <1>7 DEF t

LEMMA PartJoin ==
  ASSUME NEW i, NEW k, NEW m, NEW l, NEW w, NEW x, Part(w, i, k, m), Part(x, i, m, l)
  PROVE  Part(w \o x, i, k, l)
<1> DEFINE t == w \o x
           n == Len(w)
<1>1. /\ w \in Seq(AnyItem) /\ k \in Nat /\ m \in Nat /\ k <= m /\ n = m - k
      /\ \A y \in 1..m - k : w[y] = Message(i)[k + y]
      /\ x \in Seq(AnyItem) /\ l \in Nat /\ m <= l /\ l <= MessageLen(i) /\ Len(x) = l - m
      /\ \A y \in 1..l - m : x[y] = Message(i)[m + y]
  BY DEF Part
<1>2. /\ t \in Seq(AnyItem) /\ Len(t) = n + Len(x)
      /\ \A y \in 1..n : t[y] = w[y]
      /\ \A y \in 1..Len(x) : t[n + y] = x[y]
  <2>1. w \in Seq(AnyItem) /\ x \in Seq(AnyItem)
    BY <1>1
  <2>2. QED BY <2>1, JoinFacts
<1> HIDE DEF t, n
<1>3. k <= l /\ n + (l - m) = l - k
  BY <1>1
<1>4. ASSUME NEW y \in 1..l - k PROVE t[y] = Message(i)[k + y]
  <2>1. CASE y <= n
    BY <2>1, <1>1, <1>2
  <2>2. CASE y > n
    <3>1. PICK z \in Int : z = y - n
      BY <1>1
    <3>2. z \in 1..l - m /\ y = n + z /\ m + z = k + y
      BY <3>1, <2>2, <1>1
    <3>3. QED BY <3>2, <1>1, <1>2
  <2>3. QED BY <2>1, <2>2, <1>1
<1>5. Part(t, i, k, l)
  BY <1>1, <1>2, <1>3, <1>4 DEF Part
<1>6. QED BY <1>5 DEF t

\* All of it, the head, and the body.
LEMMA PartWhole ==
  ASSUME AskedTypes, NEW i \in 1..Len(asked)
  PROVE  Part(Message(i), i, 0, MessageLen(i))
BY MessageFacts DEF Part

LEMMA PartHead ==
  ASSUME AskedTypes, NEW i \in 1..Len(asked)
  PROVE  Part(RequestHead(asked[i], i), i, 0, HeadLen(i))
<1> DEFINE H == RequestHead(asked[i], i)
           D == Data(asked[i].length, i)
<1>1. /\ H \in Seq(AnyItem) /\ HeadLen(i) \in Nat /\ MessageLen(i) \in Nat
      /\ MessageLen(i) = HeadLen(i) + asked[i].length /\ asked[i].length \in Nat
  BY MessageFacts
<1>2. i \in Nat
  BY LenProperties DEF AskedTypes
<1>3. D \in Seq(AnyItem)
  BY <1>1, <1>2, DataFacts
<1>4. Message(i) = H \o D /\ HeadLen(i) = Len(H)
  BY DEF Message, MessageOf, HeadLen
<1> HIDE DEF H, D
<1>5. \A x \in 1..Len(H) : Message(i)[x] = H[x]
  BY <1>1, <1>3, <1>4, JoinFacts
<1>6. \A x \in 1..HeadLen(i) - 0 : H[x] = Message(i)[0 + x]
  BY <1>1, <1>4, <1>5
<1>7. Part(H, i, 0, HeadLen(i))
  BY <1>1, <1>4, <1>6 DEF Part
<1>8. QED BY <1>7 DEF H

LEMMA PartBody ==
  ASSUME AskedTypes, NEW i \in 1..Len(asked)
  PROVE  Part(Data(asked[i].length, i), i, HeadLen(i), MessageLen(i))
<1> DEFINE D == Data(asked[i].length, i)
           l == asked[i].length
           hl == HeadLen(i)
<1>1. /\ hl \in Nat /\ MessageLen(i) \in Nat /\ MessageLen(i) = hl + l /\ l \in Nat
      /\ \A x \in hl + 1 .. MessageLen(i) : Message(i)[x] = Item("data", 0, i)
  BY MessageFacts
<1>2. i \in Nat
  BY LenProperties DEF AskedTypes
<1>3. D \in Seq(AnyItem) /\ Len(D) = l /\ \A x \in 1..l : D[x] = Item("data", 0, i)
  <2>1. D = Data(l, i)
    OBVIOUS
  <2> HIDE DEF D, l
  <2>2. QED BY <2>1, <1>1, <1>2, DataFacts
<1> HIDE DEF D, l, hl
<1>4. ASSUME NEW x \in 1..l PROVE D[x] = Message(i)[hl + x]
  <2>1. hl + x \in hl + 1 .. MessageLen(i)
    BY <1>1
  <2>2. QED BY <2>1, <1>1, <1>3
<1>5. MessageLen(i) - hl = l /\ hl <= MessageLen(i)
  BY <1>1
<1>6. Part(D, i, hl, MessageLen(i))
  BY <1>1, <1>3, <1>4, <1>5 DEF Part
<1>7. QED BY <1>6 DEF D, hl

\* What the client writes for its last call: the head, the body, or some of what is left
\* when it is killed.
Adds(X, k, m) ==
  LET n == Len(asked) IN
  /\ n \in 1..Len(asked) /\ cat \in {"send", "upload"} /\ ~broken /\ up' = up \o X
  /\ Part(X, n, k, m) /\ k = (IF cat = "send" THEN 0 ELSE HeadLen(n))
  /\ asked' = asked /\ broken' = broken /\ down' = down /\ UNCHANGED serverVars
  /\ \/ cat = "send" /\ Client!SendHead /\ m = HeadLen(n)
     \/ cat = "upload" /\ Client!SendBody /\ m = MessageLen(n)
     \/ Client!Dies /\ cat' = "dead" /\ clientEnd' = "closed"

\* Whatever changes what is under way to the server.
LEMMA UpChanges ==
  ASSUME Control, [Next]_vars
  PROVE  \/ up' = up /\ ~Client!SendHead
         \/ ServerNext /\ UNCHANGED clientVars /\ \E k \in 0..Len(up) : up' = SubSeq(up, k + 1, Len(up))
         \/ NetworkStep /\ \E k \in 0..Len(up) : up' = SubSeq(up, 1, k)
         \/ Connect /\ up' = <<>>
         \/ \E X, k, m : Adds(X, k, m)
<1>1. AskedTypes /\ Len(asked) \in Nat
  BY LenProperties DEF Control, AskedTypes
<1>2. cat \in {"send", "upload"} => Len(asked) \in 1..Len(asked)
  BY <1>1 DEF Control, ClientControl
<1>3. CASE Client!SendHead /\ UNCHANGED serverVars
  <2> DEFINE n == Len(asked)
             X == RequestHead(asked[n], n)
  <2>1. cat = "send" /\ ~broken /\ up' = up \o X /\ asked' = asked /\ broken' = broken /\ down' = down
    BY <1>3, ClientText DEF Client!SendHead
  <2>2. Part(X, n, 0, HeadLen(n))
    BY <1>1, <1>2, <2>1, PartHead
  <2>3. Adds(X, 0, HeadLen(n))
    BY <1>2, <1>3, <2>1, <2>2 DEF Adds
  <2>4. QED BY <2>3
<1>4. CASE Client!SendBody /\ UNCHANGED serverVars
  <2> DEFINE n == Len(asked)
             X == Data(asked[n].length, n)
  <2>1. cat = "upload" /\ ~broken /\ up' = up \o X /\ asked' = asked /\ broken' = broken /\ down' = down
    BY <1>4, ClientText DEF Client!SendBody
  <2>2. Part(X, n, HeadLen(n), MessageLen(n))
    BY <1>1, <1>2, <2>1, PartBody
  <2>3. Adds(X, HeadLen(n), MessageLen(n))
    BY <1>2, <1>4, <2>1, <2>2 DEF Adds
  <2>4. QED BY <2>3
<1>5. CASE Client!Dies /\ UNCHANGED serverVars
  <2> DEFINE n == Len(asked)
             start == IF cat = "send" THEN 0 ELSE HeadLen(n)
  <2>1. /\ ~broken /\ asked' = asked /\ broken' = broken /\ down' = down
        /\ cat' = "dead" /\ clientEnd' = "closed"
    BY <1>5 DEF Client!Dies
  <2>2. PICK j \in 0..Len(Unsent) : up' = up \o SubSeq(Unsent, 1, j)
    BY <1>5, ClientText DEF Client!Dies, Unsent
  <2>3. ClientTypes /\ (cat # "idle" => n > 0)
    BY DEF Control, ClientControl
  <2>4. CASE cat \in {"send", "upload"}
    <3>1. Part(Unsent, n, start, MessageLen(n))
      BY <1>1, <1>2, <2>3, <2>4, UnsentFacts, PartWhole, PartBody
    <3>2. Part(SubSeq(Unsent, 1, j), n, start, start + j)
      BY <1>1, <1>2, <2>4, <3>1, PartTake
    <3>3. Adds(SubSeq(Unsent, 1, j), start, start + j)
      BY <1>2, <1>5, <2>1, <2>2, <2>4, <3>2 DEF Adds
    <3>4. QED BY <3>3
  <2>5. CASE cat \notin {"send", "upload"}
    <3>1. Unsent = <<>>
      BY <1>1, <2>3, <2>5, UnsentFacts
    <3>2. Unsent \in Seq(AnyItem) /\ Len(Unsent) = 0 /\ j = 0
      BY <1>1, <2>3, <3>1, UnsentFacts, EmptySeq
    <3>3. SubSeq(Unsent, 1, j) \in Seq(AnyItem) /\ Len(SubSeq(Unsent, 1, j)) = 0
      BY <3>2, TakeFacts
    <3>4. SubSeq(Unsent, 1, j) = <<>>
      BY <3>3, EmptySeq
    <3>5. up \o <<>> = up
      BY ConcatEmptySeq DEF Control, ConnTypes
    <3>6. ~Client!SendHead
      BY <2>5 DEF Client!SendHead
    <3>7. QED BY <2>2, <3>4, <3>5, <3>6
  <2>6. QED BY <2>4, <2>5
<1>6. CASE ServerNext /\ UNCHANGED clientVars
  BY <1>6, ServerReads DEF Control, ConnTypes, ServerTypes
<1>7. CASE NetworkStep
  BY <1>7 DEF NetworkStep, Breaks
<1>8. CASE Connect
  BY <1>8 DEF Connect, Client!Connect
<1>9. CASE Client!ClientSteps /\ UNCHANGED serverVars /\ ~(Client!SendHead \/ Client!SendBody)
  BY <1>9 DEF Client!ClientSteps, Client!ConnectFails, Client!SendFails, Client!ReadStatus,
     Client!ReadHeader, Client!HeadersEof, Client!ReadSize, Client!ReadChunk, Client!ReadFooter,
     Client!ReadTrailer, Client!ReadBody, Client!ReadEof, Client!ReadFails, Client!TakeLine,
     Client!connVars
<1>10. CASE (Crash /\ UNCHANGED clientVars) \/ UNCHANGED vars \/ \E q \in Requests[Len(asked) + 1] : Call(q)
  BY <1>10 DEF Crash, vars, connVars, clientVars, Call, Client!Call, Client!SendHead
<1>11. QED BY <1>3, <1>4, <1>5, <1>6, <1>7, <1>8, <1>9, <1>10, Steps

-----------------------------------------------------------------------------
(* The body of an upload                                                   *)

\* Requests are under way in the order of the calls, and what follows a request line
\* belongs to it.
Ordered(w) ==
  /\ \A i \in 1..Len(w) - 1 : w[i + 1].is # "request" => w[i + 1].re = w[i].re
  /\ \A i, j \in 1..Len(w) :
       i < j /\ w[i].is = "request" /\ w[j].is = "request" => w[i].n < w[j].n

LEMMA OrderedRest ==
  ASSUME NEW w \in Seq(AnyItem), Ordered(w), NEW k \in 0..Len(w)
  PROVE  Ordered(SubSeq(w, k + 1, Len(w)))
<1> DEFINE t == SubSeq(w, k + 1, Len(w))
           n == Len(w)
<1>1. n \in Nat /\ k \in 0..n
  BY LenProperties
<1>2. Len(t) = n - k /\ \A i \in 1..n - k : t[i] = w[k + i]
  BY RestFacts
<1>3. /\ \A i \in 1..n - 1 : w[i + 1].is # "request" => w[i + 1].re = w[i].re
      /\ \A i, j \in 1..n :
           i < j /\ w[i].is = "request" /\ w[j].is = "request" => w[i].n < w[j].n
  BY DEF Ordered
<1> HIDE DEF t, n
<1>4. ASSUME NEW i \in 1..(n - k) - 1, t[i + 1].is # "request" PROVE t[i + 1].re = t[i].re
  <2>1. i \in 1..n - k /\ i + 1 \in 1..n - k /\ k + i \in 1..n - 1 /\ k + (i + 1) = (k + i) + 1
    BY <1>1
  <2>2. t[i] = w[k + i] /\ t[i + 1] = w[(k + i) + 1]
    BY <2>1, <1>2
  <2>3. QED BY <2>1, <2>2, <1>3, <1>4
<1>5. ASSUME NEW i \in 1..n - k, NEW j \in 1..n - k, i < j, t[i].is = "request", t[j].is = "request"
      PROVE  t[i].n < t[j].n
  <2>1. k + i \in 1..n /\ k + j \in 1..n /\ k + i < k + j
    BY <1>1, <1>5
  <2>2. t[i] = w[k + i] /\ t[j] = w[k + j]
    BY <1>2
  <2>3. QED BY <2>1, <2>2, <1>3, <1>5
<1>6. Ordered(t)
  BY <1>2, <1>4, <1>5 DEF Ordered
<1>7. QED BY <1>6 DEF t, n

LEMMA OrderedTake ==
  ASSUME NEW w \in Seq(AnyItem), Ordered(w), NEW k \in 0..Len(w)
  PROVE  Ordered(SubSeq(w, 1, k))
<1> DEFINE t == SubSeq(w, 1, k)
           n == Len(w)
<1>1. n \in Nat /\ k \in 0..n
  BY LenProperties
<1>2. Len(t) = k /\ \A i \in 1..k : t[i] = w[i]
  BY TakeFacts
<1>3. /\ \A i \in 1..n - 1 : w[i + 1].is # "request" => w[i + 1].re = w[i].re
      /\ \A i, j \in 1..n :
           i < j /\ w[i].is = "request" /\ w[j].is = "request" => w[i].n < w[j].n
  BY DEF Ordered
<1> HIDE DEF t, n
<1>4. \A i \in 1..k - 1 : i \in 1..k /\ i + 1 \in 1..k /\ i \in 1..n - 1
  BY <1>1
<1>5. \A i \in 1..k : i \in 1..n
  BY <1>1
<1>6. Ordered(t)
  BY <1>2, <1>3, <1>4, <1>5 DEF Ordered
<1>7. QED BY <1>6 DEF t

\* The client adds the next request from its first line on, or goes on where it was.
LEMMA OrderedAdd ==
  ASSUME AskedTypes, NEW n \in 1..Len(asked), NEW w \in Seq(AnyItem), Ordered(w),
         NEW X, NEW k, NEW m, Part(X, n, k, m),
         k = 0 => \A i \in 1..Len(w) : w[i].is = "request" => w[i].n < n,
         k > 0 /\ w # <<>> => w[Len(w)].re = n
  PROVE  Ordered(w \o X)
<1> DEFINE t == w \o X
           nw == Len(w)
           nx == Len(X)
<1>1. nw \in Nat /\ nx \in Nat /\ k \in Nat /\ X \in Seq(AnyItem)
  BY LenProperties DEF Part
<1>2. /\ Len(t) = nw + nx
      /\ \A i \in 1..nw : t[i] = w[i]
      /\ \A i \in 1..nx : t[nw + i] = X[i]
  <2>1. w \in Seq(AnyItem) /\ X \in Seq(AnyItem)
    BY <1>1
  <2>2. QED BY <2>1, JoinFacts
<1>3. /\ \A i \in 1..nw - 1 : w[i + 1].is # "request" => w[i + 1].re = w[i].re
      /\ \A i, j \in 1..nw :
           i < j /\ w[i].is = "request" /\ w[j].is = "request" => w[i].n < w[j].n
  BY DEF Ordered
<1>4. \A x \in 1..nx : /\ X[x].re = n
                       /\ X[x].is = "request" <=> k + x = 1
                       /\ X[x].is = "request" => X[x].n = n
  BY PartItems
<1>5. nw > 0 => w # <<>>
  BY EmptySeq
<1>6. nw > 0 /\ k > 0 => w[nw].re = n
  BY <1>5
<1> HIDE DEF t, nw, nx
<1>7. ASSUME NEW i \in nw + 1 .. nw + nx
      PROVE  /\ t[i].re = n
             /\ t[i].is = "request" <=> k = 0 /\ i = nw + 1
             /\ t[i].is = "request" => t[i].n = n
  <2>1. PICK x \in Int : x = i - nw
    BY <1>1
  <2>2. x \in 1..nx /\ i = nw + x /\ (k + x = 1 <=> k = 0 /\ i = nw + 1)
    BY <2>1, <1>1
  <2>3. QED BY <2>2, <1>2, <1>4
<1>8. ASSUME NEW i \in 1..(nw + nx) - 1, t[i + 1].is # "request"
      PROVE  t[i + 1].re = t[i].re
  <2>1. CASE i < nw
    <3>1. i \in 1..nw - 1 /\ i \in 1..nw /\ i + 1 \in 1..nw
      BY <2>1, <1>1
    <3>2. QED BY <3>1, <1>2, <1>3, <1>8
  <2>2. CASE i = nw
    <3>1. i + 1 \in nw + 1 .. nw + nx /\ i \in 1..nw /\ nw > 0
      BY <2>2, <1>1
    <3>2. k > 0
      BY <3>1, <2>2, <1>1, <1>7, <1>8
    <3>3. QED BY <3>1, <3>2, <2>2, <1>2, <1>6, <1>7
  <2>3. CASE i > nw
    <3>1. i \in nw + 1 .. nw + nx /\ i + 1 \in nw + 1 .. nw + nx
      BY <2>3, <1>1
    <3>2. QED BY <3>1, <1>7
  <2>4. QED BY <2>1, <2>2, <2>3, <1>1
<1>9. ASSUME NEW i \in 1..nw + nx, NEW j \in 1..nw + nx, i < j,
             t[i].is = "request", t[j].is = "request"
      PROVE  t[i].n < t[j].n
  <2>1. CASE j <= nw
    <3>1. i \in 1..nw /\ j \in 1..nw
      BY <2>1, <1>1, <1>9
    <3>2. QED BY <3>1, <1>2, <1>3, <1>9
  <2>2. CASE i <= nw /\ j > nw
    <3>1. i \in 1..nw /\ j \in nw + 1 .. nw + nx
      BY <2>2, <1>1
    <3>2. k = 0 /\ t[j].n = n /\ t[i] = w[i]
      BY <3>1, <1>2, <1>7, <1>9
    <3>3. w[i].n < n
      BY <3>1, <3>2, <1>9 DEF nw
    <3>4. QED BY <3>2, <3>3
  <2>3. CASE i > nw
    <3>1. i \in nw + 1 .. nw + nx /\ j \in nw + 1 .. nw + nx
      BY <2>3, <1>1, <1>9
    <3>2. i = nw + 1 /\ j = nw + 1
      BY <3>1, <1>7, <1>9
    <3>3. QED BY <3>2, <1>9
  <2>4. QED BY <2>1, <2>2, <2>3, <1>1
<1>10. Ordered(t)
  BY <1>2, <1>8, <1>9 DEF Ordered
<1>11. QED BY <1>10 DEF t

\* What is under way has not been answered, and its lengths are those of the requests.
UpOrder ==
  /\ Ordered(up)
  /\ \A i \in 1..Len(up) :
       /\ up[i].is = "length" => up[i].re \in 1..Len(asked) /\ up[i].n = asked[up[i].re].length
       /\ up[i].is = "request" => up[i].re = up[i].n /\ answers[up[i].n] = 0
       /\ up[i].is = "request" /\ Serves => request.n < up[i].n

\* Both ends of it: the server reads the headers of its request, and the client will add the
\* body of its own.
UpEnds ==
  /\ cat = "upload" /\ ~broken /\ up # <<>> => up[Len(up)].re = Len(asked)
  /\ cat = "upload" /\ ~broken /\ up = <<>> /\ at = "headers" => request.n = Len(asked)
  /\ at = "headers" /\ up # <<>> /\ up[1].is # "request" => up[1].re = request.n

\* What server_request_header() has found, and what server_static_request() makes of it.
Upload ==
  /\ Serves /\ request.n > 0 => answers[request.n] = response.status
  /\ at \in {"headers", "handle"} => request.length \in {0, asked[request.n].length}
  /\ at = "body" /\ request.handler = "upload" =>
       stored.of = request.n /\ stored.units + request.length = asked[request.n].length
  /\ at = "respond" /\ request.handler = "upload" =>
       stored.of = request.n /\ stored.units = asked[request.n].length
  /\ at = "lookup" => request.handler = "dns"

Uploads == Control /\ UpOrder /\ UpEnds /\ Upload /\ UploadIsWhole

\* What becomes of the request that the task serves, and of the answers.
LEMMA TaskChanges ==
  ASSUME Control, [Next]_vars
  PROVE  /\ \/ ReadRequest
            \/ ~Serves'
            \/ Serves /\ request'.n = request.n
         /\ \/ answers' = answers
            \/ Serves /\ ServerNext /\ \E s : answers' = [answers EXCEPT ![request.n] = s]
         /\ at' = "headers" => (ReadRequest /\ at' = "headers") \/ ReadHeader \/ (at = "headers" /\ UNCHANGED serverVars)
<1>1. request \in AnyServed
  BY DEF Control, ServerTypes
<1>2. CASE ServerNext /\ ~ReadRequest
  BY <1>1, <1>2 DEF ServerNext, NoMoreRequests, ReadHeader, ReadEndOfHeaders, ReadBadHeader,
     ReadHeaderFails, StaticGet, StaticPut, ReadFile, ReadFileFails, DnsParams, ReadForm,
     ReadFormFails, Lookup, Write, WriteShrunkFile, WriteFails, Conclude, EndResponse,
     HandlerReturns, Respond, Hangup, AnyServed, Serves, Answer, Rest, AfterScript, HeadersEnd
<1>3. CASE ReadRequest
  BY <1>3 DEF ReadRequest
<1>4. CASE Crash \/ Connect
  BY <1>4 DEF Crash, Hangup, Connect, ServerStart, Serves
<1>5. CASE UNCHANGED serverVars
  BY <1>5 DEF serverVars, Serves
<1>6. CASE NetworkStep \/ UNCHANGED vars \/ \E q \in Requests[Len(asked) + 1] : Call(q)
  BY <1>5, <1>6 DEF NetworkStep, vars, Call
<1>7. QED BY <1>2, <1>3, <1>4, <1>5, <1>6, Steps

\* The request line has been read, and nothing but it.
LEMMA LineRead ==
  ASSUME Control, HasLine(up), up' = AfterLine(up), LineOf(up).is # "bad"
  PROVE  /\ up # <<>> /\ Len(up) \in Nat \ {0} /\ LineOf(up) = up[1]
         /\ Len(up') = Len(up) - 1 /\ \A i \in 1..Len(up) - 1 : up'[i] = up[1 + i]
         /\ up' = <<>> <=> Len(up) = 1
<1>1. up \in Seq(AnyItem)
  BY DEF Control, ConnTypes
<1>2. /\ LineEnd(up) \in 1..Len(up) /\ LineEnd(up) = 1 /\ LineOf(up) = up[1]
      /\ up' \in Seq(AnyItem) /\ Len(up') = Len(up) - LineEnd(up)
      /\ \A i \in 1..Len(up) - LineEnd(up) : up'[i] = up[LineEnd(up) + i]
  BY <1>1, LineFacts
<1>3. up # <<>> /\ Len(up) \in Nat \ {0}
  BY <1>1, NoLine, EmptySeq
<1>4. Len(up') = Len(up) - 1 /\ \A i \in 1..Len(up) - 1 : up'[i] = up[1 + i]
  BY <1>2
<1>5. up' = <<>> <=> Len(up) = 1
  <2>1. up' = <<>> <=> Len(up') = 0
    BY <1>2, EmptySeq
  <2>2. QED BY <2>1, <1>3, <1>4
<1>6. QED BY <1>2, <1>3, <1>4, <1>5

LEMMA OrderStep ==
  ASSUME Uploads, [Next]_vars
  PROVE  UpOrder'
<1>1. /\ Control /\ UpOrder /\ Ordered(up) /\ up \in Seq(AnyItem) /\ Len(up) \in Nat
      /\ AskedTypes /\ Len(asked) \in Nat
  BY LenProperties DEF Uploads, UpOrder, Control, ConnTypes, AskedTypes
<1>2. /\ Len(asked) <= Len(asked') /\ Len(asked') \in Nat
      /\ \A i \in 1..Len(asked) : asked'[i] = asked[i]
  BY <1>1, AskedTyped, LenProperties DEF AskedTypes
<1>3. /\ Said \in Nat /\ Said <= Len(asked) /\ Len(asked) <= MaxRequests /\ MaxRequests \in Nat
      /\ answers \in [Answered -> {0} \cup Statuses] /\ request.n \in 0..Said
  BY <1>1, SaidGrows DEF Control, ServerTypes, Numbers
<1> DEFINE Kept(x) ==
             /\ x.is = "length" => x.re \in 1..Len(asked') /\ x.n = asked'[x.re].length
             /\ x.is = "request" => x.re = x.n /\ answers'[x.n] = 0
<1>4. ASSUME NEW j \in 1..Len(up)
      PROVE  /\ Kept(up[j])
             /\ up[j].is = "request" => up[j].n \in 1..Said
             /\ up[j].is = "request" /\ Serves => request.n < up[j].n
  <2>1. /\ up[j].is = "length" => up[j].re \in 1..Len(asked) /\ up[j].n = asked[up[j].re].length
        /\ up[j].is = "request" => up[j].re = up[j].n /\ answers[up[j].n] = 0
        /\ up[j].is = "request" /\ Serves => request.n < up[j].n
    BY <1>1 DEF UpOrder
  <2>2. up[j].is = "request" => up[j].n \in 1..Said
    BY <1>1 DEF Control, Numbers
  <2>3. ASSUME up[j].is = "length"
        PROVE  up[j].re \in 1..Len(asked') /\ up[j].n = asked'[up[j].re].length
    BY <2>1, <2>3, <1>2, <1>1
  <2>4. ASSUME up[j].is = "request" PROVE answers'[up[j].n] = 0
    <3>1. up[j].n \in Answered /\ answers[up[j].n] = 0 /\ (Serves => request.n # up[j].n)
      BY <2>1, <2>2, <2>4, <1>3 DEF Answered
    <3>2. CASE answers' = answers
      BY <3>1, <3>2
    <3>3. CASE Serves /\ \E s : answers' = [answers EXCEPT ![request.n] = s]
      BY <3>1, <3>3, <1>3
    <3>4. QED BY <3>2, <3>3, <1>1, TaskChanges
  <2>5. QED BY <2>1, <2>2, <2>3, <2>4
<1> HIDE DEF Kept
<1>5. ASSUME Ordered(up'),
             \A i \in 1..Len(up') : Kept(up'[i]) /\ (up'[i].is = "request" /\ Serves' => request'.n < up'[i].n)
      PROVE  UpOrder'
  BY <1>5 DEF UpOrder, Kept, Ordered
<1>6. ASSUME Ordered(up'), ~ReadRequest,
             \A i \in 1..Len(up') : \E j \in 1..Len(up) : up'[i] = up[j]
      PROVE  UpOrder'
  <2>1. ASSUME NEW i \in 1..Len(up')
        PROVE  Kept(up'[i]) /\ (up'[i].is = "request" /\ Serves' => request'.n < up'[i].n)
    <3>1. PICK j \in 1..Len(up) : up'[i] = up[j]
      BY <1>6
    <3>2. Serves' => Serves /\ request'.n = request.n
      BY <1>1, <1>6, TaskChanges
    <3>3. QED BY <3>1, <3>2, <1>4
  <2>2. QED BY <2>1, <1>5, <1>6
<1>7. CASE ReadRequest
  <2>1. /\ HasLine(up) /\ up' = AfterLine(up)
        /\ request'.n = IF LineOf(up).is = "request" THEN LineOf(up).n ELSE 0
    BY <1>7 DEF ReadRequest, NoRequest
  <2>2. LineEnd(up) \in 1..Len(up) /\ LineEnd(up) \in 0..Len(up)
        /\ Len(up') = Len(up) - LineEnd(up)
        /\ \A i \in 1..Len(up) - LineEnd(up) : up'[i] = up[LineEnd(up) + i]
    BY <1>1, <2>1, LineFacts
  <2>3. Ordered(up')
    BY <1>1, <2>1, <2>2, OrderedRest DEF AfterLine
  <2> DEFINE e == LineEnd(up)
  <2>4. e \in 1..Len(up) /\ Len(up') = Len(up) - e /\ \A i \in 1..Len(up) - e : up'[i] = up[e + i]
    BY <2>2
  <2> HIDE DEF e
  <2>5. ASSUME NEW i \in 1..Len(up')
        PROVE  Kept(up'[i]) /\ (up'[i].is = "request" /\ Serves' => request'.n < up'[i].n)
    <3>1. i \in 1..Len(up) - e /\ e + i \in 1..Len(up) /\ up'[i] = up[e + i]
      BY <1>1, <2>4
    <3>2. Kept(up'[i]) /\ (up'[i].is = "request" => up'[i].n \in 1..Said)
      BY <3>1, <1>4
    <3>3. ASSUME up'[i].is = "request" PROVE request'.n < up'[i].n
      <4>1. CASE LineOf(up).is = "request"
        <5>1. e = 1 /\ LineOf(up) = up[1]
          BY <1>1, <2>1, <4>1, LineFacts DEF e
        <5>2. 1 \in 1..Len(up) /\ e + i \in 1..Len(up) /\ 1 < e + i
          BY <1>1, <5>1, <3>1
        <5>3. up[1].n < up[e + i].n
          BY <1>1, <5>1, <5>2, <3>1, <3>3, <4>1 DEF Ordered
        <5>4. QED BY <5>1, <5>3, <2>1, <3>1, <4>1
      <4>2. CASE LineOf(up).is # "request"
        BY <4>2, <2>1, <3>2, <3>3, <1>3
      <4>3. QED BY <4>1, <4>2
    <3>4. QED BY <3>2, <3>3
  <2>6. QED BY <2>3, <2>5, <1>5
<1>8. CASE ~ReadRequest /\ \E k \in 0..Len(up) : up' = SubSeq(up, k + 1, Len(up))
  <2>1. PICK k \in 0..Len(up) : up' = SubSeq(up, k + 1, Len(up))
    BY <1>8
  <2>2. Ordered(up') /\ Len(up') = Len(up) - k /\ \A i \in 1..Len(up) - k : up'[i] = up[k + i]
    BY <1>1, <2>1, OrderedRest, RestFacts
  <2>3. \A i \in 1..Len(up) - k : k + i \in 1..Len(up)
    BY <1>1
  <2>4. QED BY <2>2, <2>3, <1>6, <1>8
<1>9. CASE ~ReadRequest /\ \E k \in 0..Len(up) : up' = SubSeq(up, 1, k)
  <2>1. PICK k \in 0..Len(up) : up' = SubSeq(up, 1, k)
    BY <1>9
  <2>2. Ordered(up') /\ Len(up') = k /\ \A i \in 1..k : up'[i] = up[i]
    BY <1>1, <2>1, OrderedTake, TakeFacts
  <2>3. \A i \in 1..k : i \in 1..Len(up)
    BY <1>1
  <2>4. QED BY <2>2, <2>3, <1>6, <1>9
<1>10. CASE ~ReadRequest /\ up' = up
  BY <1>1, <1>6, <1>10
<1>11. CASE ~ReadRequest /\ up' = <<>>
  <2>1. Len(up') = 0
    BY <1>11
  <2>2. Ordered(up')
    BY <2>1 DEF Ordered
  <2>3. QED BY <2>1, <2>2, <1>6, <1>11
<1>12. ASSUME NEW X, NEW k, NEW m, Adds(X, k, m), ~ReadRequest PROVE UpOrder'
  <2> DEFINE n == Len(asked)
  <2>1. /\ n \in 1..n /\ Part(X, n, k, m) /\ up' = up \o X /\ asked' = asked /\ X \in Seq(AnyItem)
        /\ k = (IF cat = "send" THEN 0 ELSE HeadLen(n)) /\ cat \in {"send", "upload"} /\ ~broken
        /\ UNCHANGED serverVars
    BY <1>12 DEF Adds, Part
  <2>2. k = 0 => cat = "send"
    <3>1. HeadLen(n) >= 3 /\ HeadLen(n) \in Nat
      BY <1>1, <2>1, MessageFacts
    <3>2. QED BY <2>1, <3>1
  <2>3. cat = "send" => Said = n - 1
    BY DEF Said
  <2>4. k = 0 => \A i \in 1..Len(up) : up[i].is = "request" => up[i].n < n
    BY <1>1, <1>3, <1>4, <2>2, <2>3
  <2>5. k > 0 /\ up # <<>> => up[Len(up)].re = n
    BY <2>1 DEF Uploads, UpEnds
  <2>6. Ordered(up')
    BY <1>1, <2>1, <2>4, <2>5, OrderedAdd
  <2>7. /\ Len(up') = Len(up) + Len(X) /\ Len(X) \in Nat
        /\ \A i \in 1..Len(up) : up'[i] = up[i]
        /\ \A i \in 1..Len(X) : up'[Len(up) + i] = X[i]
    BY <1>1, <2>1, JoinFacts, LenProperties
  <2>10. \A x \in 1..Len(X) :
           /\ X[x].re = n
           /\ X[x].is = "request" <=> k + x = 1
           /\ X[x].is = "request" => X[x].n = n
           /\ X[x].is = "length" => X[x].n = asked[n].length
    <3>1. AskedTypes /\ n \in 1..Len(asked) /\ Part(X, n, k, m)
      BY <1>1, <2>1
    <3> HIDE DEF n
    <3>2. QED BY <3>1, PartItems
  <2>8. ASSUME NEW i \in 1..Len(up')
        PROVE  Kept(up'[i]) /\ (up'[i].is = "request" /\ Serves' => request'.n < up'[i].n)
    <3>1. CASE i <= Len(up)
      <4>1. i \in 1..Len(up) /\ up'[i] = up[i]
        BY <1>1, <2>7, <3>1
      <4>2. Serves' => Serves /\ request'.n = request.n
        BY <2>1 DEF serverVars, Serves
      <4>3. QED BY <4>1, <4>2, <1>4
    <3>2. CASE i > Len(up)
      <4>1. PICK x \in Int : x = i - Len(up)
        BY <1>1
      <4>2. x \in 1..Len(X) /\ up'[i] = X[x] /\ k \in Nat
        BY <1>1, <2>1, <2>7, <3>2, <4>1 DEF Part
      <4>3. /\ X[x].re = n
            /\ X[x].is = "request" <=> k + x = 1
            /\ X[x].is = "request" => X[x].n = n
            /\ X[x].is = "length" => X[x].n = asked[n].length
        BY <2>10, <4>2
      <4>4. ASSUME X[x].is = "request"
            PROVE  answers'[n] = 0 /\ request'.n < n
        <5>1. k = 0 /\ cat = "send" /\ Said = n - 1
          BY <2>2, <2>3, <4>2, <4>3, <4>4
        <5>2. n \in 1..MaxRequests /\ n > Said
          BY <1>1, <1>3, <2>1, <5>1
        <5>3. answers[n] = 0
          BY <5>2, <1>1 DEF Control, Numbers
        <5>4. answers' = answers /\ request' = request
          BY <2>1 DEF serverVars
        <5>5. QED BY <5>1, <5>3, <5>4, <1>1, <1>3
      <4>5. Kept(X[x]) /\ (X[x].is = "request" => request'.n < X[x].n)
        BY <2>1, <4>3, <4>4 DEF Kept
      <4>6. QED BY <4>2, <4>5
    <3>3. QED BY <3>1, <3>2, <1>1, <2>7
  <2>9. QED BY <2>6, <2>8, <1>5
<1>13. QED BY <1>1, <1>7, <1>8, <1>9, <1>10, <1>11, <1>12, UpChanges

LEMMA EndsStep ==
  ASSUME Uploads, [Next]_vars
  PROVE  UpEnds'
<1>1. /\ Control /\ UpOrder /\ Ordered(up) /\ UpEnds /\ up \in Seq(AnyItem) /\ Len(up) \in Nat
      /\ AskedTypes /\ Len(asked) \in Nat
  BY LenProperties DEF Uploads, UpOrder, Control, ConnTypes, AskedTypes
<1>2. CASE ServerNext /\ UNCHANGED clientVars
  <2>1. asked' = asked /\ broken' = broken /\ cat' = cat
    BY <1>2, ServerFrame DEF clientVars
  <2>2. PICK k \in 0..Len(up) : up' = SubSeq(up, k + 1, Len(up))
    BY <1>1, <1>2, ServerReads DEF Control, ServerTypes
  <2>3. /\ up' \in Seq(AnyItem) /\ Len(up') = Len(up) - k
        /\ \A i \in 1..Len(up) - k : up'[i] = up[k + i]
    BY <1>1, <2>2, RestFacts
  <2>4. ASSUME up' # <<>> PROVE up # <<>> /\ up'[Len(up')] = up[Len(up)]
    <3>1. Len(up') # 0
      BY <2>3, <2>4, EmptySeq
    <3> DEFINE nu == Len(up)
               nv == Len(up')
    <3>2. nu \in Nat /\ nv = nu - k /\ k \in 0..nu /\ nv # 0 /\ \A i \in 1..nu - k : up'[i] = up[k + i]
      BY <1>1, <2>3, <3>1
    <3>3. nu # 0 => up # <<>>
      BY <1>1, EmptySeq
    <3> HIDE DEF nu, nv
    <3>4. nv \in 1..nu - k /\ k + nv = nu
      BY <3>2
    <3>5. up # <<>> /\ up'[nv] = up[nu]
      BY <3>2, <3>3, <3>4
    <3>6. QED BY <3>5 DEF nu, nv
  <2>5. ASSUME at' = "headers"
        PROVE  /\ up # <<>> /\ Len(up) \in Nat \ {0} /\ up[1].re = request'.n
               /\ Len(up') = Len(up) - 1 /\ \A i \in 1..Len(up) - 1 : up'[i] = up[1 + i]
               /\ up' = <<>> <=> Len(up) = 1
    <3>1. CASE ReadRequest
      <4>1. /\ HasLine(up) /\ up' = AfterLine(up) /\ LineOf(up).is = "request"
            /\ request'.n = LineOf(up).n
        BY <2>5, <3>1 DEF ReadRequest, NoRequest
      <4>2. /\ up # <<>> /\ Len(up) \in Nat \ {0} /\ LineOf(up) = up[1]
            /\ Len(up') = Len(up) - 1 /\ \A i \in 1..Len(up) - 1 : up'[i] = up[1 + i]
            /\ up' = <<>> <=> Len(up) = 1
        BY <1>1, <4>1, LineRead
      <4>3. 1 \in 1..Len(up)
        BY <4>2
      <4>4. up[1].is = "request" => up[1].re = up[1].n
        BY <1>1, <4>3 DEF UpOrder
      <4>5. QED BY <4>1, <4>2, <4>4
    <3>2. CASE ReadHeader
      <4>1. /\ HasLine(up) /\ up' = AfterLine(up) /\ LineOf(up).is \in Headers
            /\ request'.n = request.n /\ at = "headers"
        <5>1. request \in AnyServed
          BY <1>1 DEF Control, ServerTypes
        <5>2. QED BY <2>5, <3>2, <5>1 DEF ReadHeader, AnyServed
      <4>2. LineOf(up).is # "bad" /\ LineOf(up).is # "request"
        BY <4>1 DEF Headers
      <4>3. /\ up # <<>> /\ Len(up) \in Nat \ {0} /\ LineOf(up) = up[1]
            /\ Len(up') = Len(up) - 1 /\ \A i \in 1..Len(up) - 1 : up'[i] = up[1 + i]
            /\ up' = <<>> <=> Len(up) = 1
        BY <1>1, <4>1, <4>2, LineRead
      <4>4. up[1].re = request.n
        BY <1>1, <4>1, <4>2, <4>3 DEF UpEnds
      <4>5. QED BY <4>1, <4>3, <4>4
    <3>3. ReadRequest \/ ReadHeader
      BY <1>2, <2>5 DEF ServerNext, NoMoreRequests, ReadHeader, ReadEndOfHeaders, ReadBadHeader,
         ReadHeaderFails, StaticGet, StaticPut, ReadFile, ReadFileFails, DnsParams, ReadForm,
         ReadFormFails, Lookup, Write, WriteShrunkFile, WriteFails, Conclude, EndResponse,
         HandlerReturns, Respond, Hangup, Rest, AfterScript, HeadersEnd
    <3>4. QED BY <3>1, <3>2, <3>3
  <2>6. cat' = "upload" /\ ~broken' /\ up' # <<>> => up'[Len(up')].re = Len(asked')
    BY <1>1, <2>1, <2>4 DEF UpEnds
  <2>7. ASSUME cat' = "upload", ~broken', up' = <<>>, at' = "headers" PROVE request'.n = Len(asked')
    <3>1. up # <<>> /\ Len(up) = 1 /\ up[1].re = request'.n
      BY <2>5, <2>7
    <3>2. up[1].re = Len(asked)
      BY <1>1, <2>1, <2>7, <3>1 DEF UpEnds
    <3>3. QED BY <2>1, <3>1, <3>2
  <2>8. ASSUME at' = "headers", up' # <<>>, up'[1].is # "request" PROVE up'[1].re = request'.n
    <3>1. /\ Len(up) \in Nat \ {0} /\ up[1].re = request'.n
          /\ \A i \in 1..Len(up) - 1 : up'[i] = up[1 + i]
          /\ Len(up) # 1
      BY <2>5, <2>8
    <3>2. 1 \in 1..Len(up) - 1
      <4> DEFINE nu == Len(up)
      <4>1. nu \in Nat \ {0} /\ nu # 1
        BY <3>1
      <4> HIDE DEF nu
      <4>2. 1 \in 1..nu - 1
        BY <4>1
      <4>3. QED BY <4>2 DEF nu
    <3>3. up'[1] = up[1 + 1]
      BY <3>1, <3>2
    <3>4. up[1 + 1].re = up[1].re
      BY <1>1, <2>8, <3>2, <3>3 DEF Ordered
    <3>5. QED BY <3>1, <3>3, <3>4
  <2>9. QED BY <2>6, <2>7, <2>8 DEF UpEnds
<1>3. CASE NetworkStep
  <2>1. broken' = TRUE /\ at' = at /\ request' = request
    BY <1>3 DEF NetworkStep, Breaks, serverVars
  <2>2. PICK k \in 0..Len(up) : up' = SubSeq(up, 1, k)
    BY <1>3 DEF NetworkStep, Breaks
  <2>3. up' \in Seq(AnyItem) /\ Len(up') = k /\ \A i \in 1..k : up'[i] = up[i]
    BY <1>1, <2>2, TakeFacts
  <2>4. ASSUME up' # <<>> PROVE up'[1] = up[1] /\ up # <<>>
    <3>1. Len(up') # 0 /\ (Len(up) # 0 => up # <<>>)
      BY <1>1, <2>3, <2>4, EmptySeq
    <3>2. 1 \in 1..k /\ Len(up) # 0
      BY <1>1, <2>3, <3>1
    <3>3. QED BY <2>3, <3>1, <3>2
  <2>5. QED BY <1>1, <2>1, <2>4 DEF UpEnds
<1>4. ASSUME NEW X, NEW k, NEW m, Adds(X, k, m) PROVE UpEnds'
  <2> DEFINE n == Len(asked)
             nu == Len(up)
             nx == Len(X)
  <2>1. /\ n \in 1..n /\ Part(X, n, k, m) /\ up' = up \o X /\ asked' = asked /\ X \in Seq(AnyItem)
        /\ k = (IF cat = "send" THEN 0 ELSE HeadLen(n)) /\ cat \in {"send", "upload"}
        /\ ~broken /\ at' = at /\ request' = request /\ nx = m - k
    BY <1>4 DEF Adds, Part, serverVars
  <2>2. /\ up' \in Seq(AnyItem) /\ Len(up') = nu + nx /\ nx \in Nat /\ nu \in Nat
        /\ \A i \in 1..nu : up'[i] = up[i]
        /\ \A i \in 1..nx : up'[nu + i] = X[i]
    <3>1. up \in Seq(AnyItem) /\ X \in Seq(AnyItem)
      BY <1>1, <2>1
    <3>2. QED BY <2>1, <3>1, JoinFacts, LenProperties
  <2>3. \A x \in 1..nx : X[x].re = n /\ (X[x].is = "request" <=> k + x = 1)
    <3>1. AskedTypes /\ n \in 1..Len(asked) /\ Part(X, n, k, m)
      BY <1>1, <2>1
    <3> HIDE DEF n
    <3>2. QED BY <3>1, PartItems
  <2>4. (up' # <<>> => nu + nx # 0) /\ (up # <<>> <=> nu # 0)
    BY <1>1, <2>2, EmptySeq
  <2>5. HeadLen(n) \in Nat /\ HeadLen(n) >= 3
    BY <1>1, <2>1, MessageFacts
  <2>9. cat = "upload" /\ nu = 0 /\ at = "headers" => request.n = n
    BY <1>1, <2>1, <2>4 DEF UpEnds
  <2>10. nu # 0 /\ at = "headers" /\ up[1].is # "request" => up[1].re = request.n
    BY <1>1, <2>4 DEF UpEnds
  <2> HIDE DEF nu, nx, n
  <2>6. ASSUME cat' = "upload" PROVE up' # <<>> /\ up'[Len(up')].re = Len(asked')
    <3>1. k = 0 /\ m = HeadLen(n)
      BY <1>4, <2>1, <2>6 DEF Adds, Client!SendBody, n
    <3>2. nx >= 3 /\ nx \in 1..nx
      BY <2>1, <2>2, <2>5, <3>1
    <3>3. up'[nu + nx] = X[nx] /\ X[nx].re = n /\ nu + nx # 0
      BY <2>2, <2>3, <3>2
    <3>4. up' # <<>>
      BY <2>2, <3>3, EmptySeq
    <3>5. QED BY <2>1, <2>2, <3>3, <3>4 DEF n
  <2>7. ASSUME at' = "headers", up' # <<>>, up'[1].is # "request" PROVE up'[1].re = request'.n
    <3>1. CASE nu # 0
      <4>1. 1 \in 1..nu
        BY <2>2, <3>1
      <4>2. QED BY <2>1, <2>2, <2>7, <2>10, <3>1, <4>1
    <3>2. CASE nu = 0
      <4>1. nx # 0 /\ 1 \in 1..nx /\ nu + 1 = 1
        BY <2>2, <2>4, <2>7, <3>2
      <4>2. up'[1] = X[1] /\ X[1].re = n /\ k + 1 # 1
        BY <2>2, <2>3, <2>7, <4>1
      <4>3. cat = "upload"
        BY <2>1, <4>2
      <4>4. QED BY <2>1, <2>7, <2>9, <3>2, <4>2, <4>3
    <3>3. QED BY <3>1, <3>2
  <2>8. QED BY <2>6, <2>7 DEF UpEnds
<1>5. CASE up' = up /\ UNCHANGED serverVars /\ ~(cat' = "upload")
  BY <1>1, <1>5 DEF UpEnds, serverVars
<1>6. CASE Connect \/ (Crash /\ UNCHANGED clientVars)
  BY <1>1, <1>6 DEF Connect, Crash, Hangup, Client!Connect, ServerStart, UpEnds, clientVars
<1>7. CASE UNCHANGED vars
  BY <1>1, <1>7 DEF UpEnds, vars, connVars, serverVars, clientVars
<1>8. CASE (Client!ClientSteps /\ UNCHANGED serverVars) \/ (Client!Dies /\ UNCHANGED serverVars)
  <2>1. cat' = "upload" => Client!SendHead \/ (Client!ClientSteps /\ FALSE)
    BY <1>8 DEF Client!ClientSteps, Client!ConnectFails, Client!SendHead, Client!SendBody,
       Client!SendFails, Client!ReadStatus, Client!ReadHeader, Client!HeadersEof, Client!ReadSize,
       Client!ReadChunk, Client!ReadFooter, Client!ReadTrailer, Client!ReadBody, Client!ReadEof,
       Client!ReadFails, Client!TakeLine, Client!RequestReturns, Client!Returns, Client!Complete,
       Client!BodyState, Client!Dies
  <2>2. CASE up' = up /\ ~Client!SendHead
    BY <1>5, <1>8, <2>1, <2>2
  <2>3. QED BY <1>1, <1>2, <1>3, <1>4, <1>6, <2>2, UpChanges
<1>9. CASE \E q \in Requests[Len(asked) + 1] : Call(q)
  BY <1>5, <1>9 DEF Call, Client!Call
<1>10. QED BY <1>2, <1>3, <1>6, <1>7, <1>8, <1>9, Steps

\* The request that is served is one of those that have been asked for.
LEMMA ServedAsked ==
  ASSUME Control
  PROVE  /\ request.n \in Nat /\ request.n <= Len(asked) /\ Len(asked) \in Nat
         /\ request.n \in Answered /\ (request.n > 0 => request.n \in 1..Len(asked))
         /\ Len(asked) <= MaxRequests /\ MaxRequests \in Nat
<1>1. /\ Said \in Nat /\ Said <= Len(asked) /\ Len(asked) \in Nat
      /\ Len(asked) <= MaxRequests /\ MaxRequests \in Nat
  <2>1. Len(asked) \in Nat /\ Len(asked) <= MaxRequests /\ MaxRequests \in Nat
    BY LenProperties, SizesAssumption DEF Control, AskedTypes
  <2>2. cat \in {"connect", "send"} => Len(asked) > 0
    BY DEF Control, ClientControl
  <2>3. QED BY <2>1, <2>2 DEF Said
<1>2. request.n \in 0..Said
  BY DEF Control, Numbers
<1>3. QED BY <1>1, <1>2 DEF Answered

\* A call of the script that is written or lost gives the status that is remembered.
LEMMA AnswerFacts ==
  ASSUME Uploads, at \in {"respond", "error"}, NEW c, c = Head(script),
         response' = ResponseAfter(c), Answer(c) \/ (answers' = answers /\ c.op # "status"),
         request' = request
  PROVE  /\ request.n > 0 => answers'[request.n] = response'.status
         /\ answers' # answers =>
              \/ answers' = [answers EXCEPT ![request.n] = c.status] /\ c.op = "status"
         /\ c.op = "status" /\ c.status = 201 => at = "respond" /\ request.handler = "upload"
<1>1. /\ script # <<>> /\ c = script[1] /\ Len(script) \in Nat \ {0}
      /\ c.op \in {"status", "header", "headers", "file", "print"}
  BY CallFacts DEF Uploads
<1>2. /\ response \in AnyResponse /\ answers \in [Answered -> {0} \cup Statuses]
      /\ Serves /\ (request.n > 0 => answers[request.n] = response.status)
  BY DEF Uploads, Control, ServerTypes, Upload, Serves
<1>3. request.n \in Answered
  BY ServedAsked DEF Uploads
<1>4. CASE c.op = "status"
  <2>1. response' = [response EXCEPT !.status = c.status]
    BY <1>4 DEF ResponseAfter
  <2>2. answers' = [answers EXCEPT ![request.n] = c.status]
    BY <1>4 DEF Answer
  <2>3. answers'[request.n] = c.status /\ response'.status = c.status
    BY <2>1, <2>2, <1>2, <1>3 DEF AnyResponse
  <2>4. 1 \in 1..Len(script)
    BY <1>1
  <2>5. c.status = 201 => at = "respond" /\ request.handler = "upload"
    BY <1>1, <1>4, <2>4 DEF Uploads, Control, ScriptControl
  <2>6. QED BY <1>4, <2>2, <2>3, <2>5
<1>5. CASE c.op # "status"
  <2>1. answers' = answers
    BY <1>5 DEF Answer
  <2>2. response'.status = response.status
    BY <1>1, <1>2, <1>5 DEF ResponseAfter, AnyResponse, StartsBody
  <2>3. QED BY <1>2, <1>5, <2>1, <2>2
<1>6. QED BY <1>4, <1>5

LEMMA UploadServer ==
  ASSUME Uploads, ServerNext, UNCHANGED clientVars
  PROVE  Upload' /\ UploadIsWhole'
<1>1. /\ Control /\ Upload /\ UploadIsWhole /\ request \in AnyServed /\ response \in AnyResponse
      /\ stored \in [of : Nat, units : Nat] /\ answers \in [Answered -> {0} \cup Statuses]
  BY DEF Uploads, Control, ServerTypes
<1>2. asked' = asked
  BY ServerFrame
<1>3. /\ request.n \in Nat /\ request.n <= Len(asked) /\ Len(asked) \in Nat
      /\ request.n \in Answered /\ (request.n > 0 => request.n \in 1..Len(asked))
      /\ Len(asked) <= MaxRequests /\ MaxRequests \in Nat
  BY <1>1, ServedAsked
<1>4. CASE /\ at' = "closed" \/ at' = "request"
           /\ UNCHANGED <<answers, stored>>
  BY <1>1, <1>2, <1>4 DEF Upload, UploadIsWhole, Serves
<1>5. CASE /\ Serves /\ request'.n = request.n /\ request'.handler = request.handler
           /\ response'.status = response.status
           /\ UNCHANGED <<answers, stored>>
           /\ at' \in {"rest", "finish", "error", "end"} \/ (at' = "lookup" /\ request.handler = "dns")
  BY <1>1, <1>2, <1>5 DEF Upload, UploadIsWhole, Serves
<1>6. CASE ReadRequest
  <2>1. /\ HasLine(up) /\ up' = AfterLine(up) /\ response' = [response EXCEPT !.close = response'.close]
        /\ at' \in {"finish", "headers", "rest"} /\ UNCHANGED <<answers, stored>>
        /\ request'.length = 0 /\ request'.n = IF LineOf(up).is = "request" THEN LineOf(up).n ELSE 0
        /\ at = "request"
    <3>1. /\ HasLine(up) /\ up' = AfterLine(up) /\ UNCHANGED <<answers, stored>>
          /\ at' \in {"finish", "headers", "rest"} /\ at = "request"
      BY <1>6 DEF ReadRequest
    <3>2. request'.length = 0 /\ request'.n = IF LineOf(up).is = "request" THEN LineOf(up).n ELSE 0
      BY <1>6 DEF ReadRequest, NoRequest
    <3>3. \E b : response' = [response EXCEPT !.close = b]
      BY <1>6 DEF ReadRequest
    <3>4. response' = [response EXCEPT !.close = response'.close]
      BY <1>1, <3>3 DEF AnyResponse
    <3>5. QED BY <3>1, <3>2, <3>4
  <2>2. response'.status = 0
    <3>1. response = NoResponse
      BY <1>1, <2>1 DEF Control, RequestControl, Serves
    <3>2. response.status = 0
      BY <3>1 DEF NoResponse
    <3>3. QED BY <1>1, <2>1, <3>2 DEF AnyResponse
  <2>3. ASSUME request'.n > 0 PROVE answers[request'.n] = 0
    <3>1. LineOf(up).is = "request" /\ request'.n = LineOf(up).n
      BY <2>1, <2>3
    <3>2. LineOf(up) = up[1] /\ Len(up) \in Nat \ {0}
      BY <1>1, <2>1, <3>1, LineRead
    <3>3. 1 \in 1..Len(up)
      BY <3>2
    <3>4. QED BY <3>1, <3>2, <3>3 DEF Uploads, UpOrder
  <2>4. QED BY <1>1, <1>2, <2>1, <2>2, <2>3 DEF Upload, UploadIsWhole
<1>7. CASE ReadHeader
  <2>1. /\ HasLine(up) /\ up' = AfterLine(up) /\ LineOf(up).is \in Headers
        /\ at \in {"headers", "rest"} /\ at' = at /\ UNCHANGED <<answers, stored>>
        /\ request'.n = request.n /\ response'.status = response.status
        /\ request'.length = IF LineOf(up).is = "length" THEN LineOf(up).n ELSE request.length
    BY <1>1, <1>7 DEF ReadHeader, AnyServed, AnyResponse
  <2>2. ASSUME at' = "headers" PROVE request'.length \in {0, asked[request.n].length}
    <3>1. CASE LineOf(up).is # "length"
      BY <1>1, <2>1, <2>2, <3>1 DEF Upload
    <3>2. CASE LineOf(up).is = "length"
      <4>1. up # <<>> /\ Len(up) \in Nat \ {0} /\ LineOf(up) = up[1]
        BY <1>1, <2>1, <3>2, LineRead
      <4>2. 1 \in 1..Len(up)
        BY <4>1
      <4>3. up[1].re = request.n /\ up[1].n = asked[up[1].re].length
        BY <2>1, <2>2, <3>2, <4>1, <4>2 DEF Uploads, UpEnds, UpOrder
      <4>4. QED BY <2>1, <3>2, <4>1, <4>3
    <3>3. QED BY <3>1, <3>2
  <2>3. Serves /\ at' # "handle" /\ at' # "body" /\ at' # "respond"
    BY <2>1 DEF Serves
  <2>4. QED BY <1>1, <1>2, <2>1, <2>2, <2>3 DEF Upload, UploadIsWhole
<1>8. CASE ReadEndOfHeaders \/ ReadBadHeader \/ ReadHeaderFails
  <2>1. /\ at \in {"headers", "rest"} /\ at' \in {"handle", "rest", "finish"}
        /\ at' = "handle" => at = "headers"
        /\ UNCHANGED <<answers, stored, response>> /\ request'.n = request.n
        /\ request'.length = request.length /\ request'.handler = request.handler
    BY <1>1, <1>8 DEF ReadEndOfHeaders, ReadBadHeader, ReadHeaderFails, HeadersEnd, AnyServed
  <2>2. QED BY <1>1, <1>2, <2>1 DEF Upload, UploadIsWhole, Serves
<1>9. CASE StaticGet
  <2>1. /\ at = "handle" /\ UNCHANGED <<answers, stored, request, response>>
        /\ at' \in {"rest", "finish", "respond"} /\ request.handler = "static"
    BY <1>9 DEF StaticGet, HandlerReturns, Respond, Rest
  <2>2. QED BY <1>1, <1>2, <2>1 DEF Upload, UploadIsWhole, Serves
<1>10. CASE StaticPut
  <2>1. /\ at = "handle" /\ UNCHANGED <<answers, request, response>> /\ request.handler = "upload"
        /\ at' \in {"rest", "finish", "body"}
        /\ \/ stored' = stored /\ at' # "body"
           \/ stored' = [of |-> request.n, units |-> 0] /\ (at' = "body" => request.length # 0)
    BY <1>10 DEF StaticPut, HandlerReturns, Rest
  <2>2. /\ request.n > 0 /\ response.status = 0 /\ answers[request.n] = 0 /\ Serves
        /\ request.length \in {0, asked[request.n].length} /\ request.length \in Nat
    BY <1>1, <2>1 DEF Control, RequestControl, ResponseControl, Upload, Serves, AnyServed
  <2>3. at' = "body" => stored'.of = request.n /\ stored'.units + request.length = asked[request.n].length
    BY <2>1, <2>2
  <2>4. UploadIsWhole'
    BY <1>1, <1>2, <2>1, <2>2 DEF UploadIsWhole
  <2>5. QED BY <1>1, <1>2, <2>1, <2>2, <2>3, <2>4 DEF Upload, Serves
<1>11. CASE ReadFile
  <2>1. /\ at = "body" /\ request.handler = "upload" /\ UNCHANGED <<answers, response>>
        /\ request'.n = request.n /\ request'.length = request.length - 1
        /\ request'.handler = request.handler
        /\ stored'.of = stored.of /\ stored'.units = stored.units + 1
        /\ (at' = "body" /\ request.length > 1) \/ (at' = "respond" /\ ~(request.length > 1))
    BY <1>1, <1>11 DEF ReadFile, AnyServed
  <2>2. /\ request.n > 0 /\ response.status = 0 /\ answers[request.n] = 0 /\ Serves
        /\ request.length > 0 /\ request.length \in Nat /\ stored.units \in Nat
        /\ stored.of = request.n /\ stored.units + request.length = asked[request.n].length
    BY <1>1, <2>1 DEF Control, RequestControl, ResponseControl, Upload, Serves, AnyServed
  <2>3. stored'.units + request'.length = asked[request.n].length
    BY <2>1, <2>2
  <2>4. at' = "respond" => request'.length = 0 /\ stored'.units = asked[request.n].length
    BY <2>1, <2>2
  <2>5. UploadIsWhole'
    BY <1>1, <1>2, <2>1, <2>2 DEF UploadIsWhole
  <2>6. QED BY <1>1, <1>2, <2>1, <2>2, <2>3, <2>4, <2>5 DEF Upload, Serves
<1>12. CASE ReadFileFails \/ ReadFormFails
  <2>1. at = "body" /\ at' \in {"rest", "finish"} /\ UNCHANGED <<answers, stored, request, response>>
    BY <1>12 DEF ReadFileFails, ReadFormFails, HandlerReturns, Rest
  <2>2. QED BY <1>5, <2>1 DEF Serves
<1>13. CASE DnsParams
  <2>1. /\ at = "handle" /\ UNCHANGED <<answers, stored, request, response>> /\ request.handler = "dns"
        /\ at' \in {"rest", "finish", "body", "lookup", "respond"}
    BY <1>13 DEF DnsParams, HandlerReturns, Respond, Rest
  <2>2. QED BY <1>1, <1>2, <2>1 DEF Upload, UploadIsWhole, Serves
<1>14. CASE ReadForm
  <2>1. at = "body" /\ at' = "lookup" /\ UNCHANGED <<answers, stored, response>> /\ request'.n = request.n
        /\ request'.handler = request.handler /\ request.handler = "dns"
    BY <1>1, <1>14 DEF ReadForm, AnyServed
  <2>2. QED BY <1>5, <2>1 DEF Serves
<1>15. CASE Lookup
  <2>1. /\ at = "lookup" /\ UNCHANGED <<answers, stored, request, response>>
        /\ at' \in {"rest", "finish", "respond"}
    BY <1>15 DEF Lookup, HandlerReturns, Respond, Rest
  <2>2. request.handler # "upload"
    BY <1>1, <2>1 DEF Upload
  <2>3. QED BY <1>1, <1>2, <2>1, <2>2 DEF Upload, UploadIsWhole, Serves
<1>16. CASE Write \/ WriteShrunkFile \/ WriteFails
  <2> DEFINE c == Head(script)
  <2>1. /\ at \in {"respond", "error"} /\ response' = ResponseAfter(c) /\ request' = request
        /\ Answer(c) \/ (answers' = answers /\ c.op # "status")
        /\ stored' = stored /\ at' \in {at, "rest", "finish", "end"}
    BY <1>16 DEF Write, WriteShrunkFile, WriteFails, Rest, AfterScript
  <2>2. /\ request.n > 0 => answers'[request.n] = response'.status
        /\ answers' # answers => answers' = [answers EXCEPT ![request.n] = c.status] /\ c.op = "status"
        /\ c.op = "status" /\ c.status = 201 => at = "respond" /\ request.handler = "upload"
    BY <2>1, AnswerFacts
  <2> HIDE DEF c
  <2>3. ASSUME NEW i \in 1..Len(asked), answers'[i] = 201, stored.of = i
        PROVE  stored.units = asked[i].length
    <3>1. CASE answers[i] = 201
      BY <3>1, <2>3, <1>1 DEF UploadIsWhole
    <3>2. CASE answers[i] # 201
      <4>1. answers' = [answers EXCEPT ![request.n] = c.status] /\ c.op = "status" /\ i \in Answered
        BY <3>2, <2>2, <2>3, <1>3 DEF Answered
      <4>2. i = request.n /\ c.status = 201
        BY <4>1, <3>2, <2>3, <1>1
      <4>3. QED BY <4>1, <4>2, <2>2, <1>1 DEF Upload
    <3>3. QED BY <3>1, <3>2
  <2>4. UploadIsWhole'
    BY <2>1, <2>3, <1>2 DEF UploadIsWhole
  <2>5. QED BY <1>1, <1>2, <2>1, <2>2, <2>4 DEF Upload, Serves
<1>17. CASE Conclude
  <2>1. UNCHANGED <<answers, stored>>
    BY <1>17 DEF Conclude
  <2>2. CASE err < 0
    BY <1>4, <1>17, <2>1, <2>2 DEF Conclude, Hangup
  <2>3. CASE ~(err < 0)
    <3>1. /\ at = "finish" /\ at' \in {"end", "error"} /\ request' = request
          /\ response'.status = response.status
      BY <1>1, <1>17, <2>3 DEF Conclude, AnyResponse
    <3>2. QED BY <1>5, <2>1, <3>1 DEF Serves
  <2>4. QED BY <2>2, <2>3
<1>18. CASE EndResponse \/ NoMoreRequests
  BY <1>4, <1>18 DEF EndResponse, NoMoreRequests, Hangup
<1>19. QED BY <1>6, <1>7, <1>8, <1>9, <1>10, <1>11, <1>12, <1>13, <1>14, <1>15, <1>16, <1>17, <1>18
  DEF ServerNext

LEMMA UploadStep ==
  ASSUME Uploads, [Next]_vars
  PROVE  Upload' /\ UploadIsWhole'
<1>1. /\ Control /\ Upload /\ UploadIsWhole /\ AskedTypes
      /\ request.n \in Nat /\ request.n <= Len(asked) /\ Len(asked) \in Nat
      /\ request.n \in Answered /\ (request.n > 0 => request.n \in 1..Len(asked))
      /\ Len(asked) <= MaxRequests /\ MaxRequests \in Nat
  BY ServedAsked DEF Uploads, Control
<1>2. CASE UNCHANGED serverVars /\ asked' = asked
  BY <1>1, <1>2 DEF Upload, UploadIsWhole, serverVars, Serves
<1>3. CASE UNCHANGED serverVars /\ Len(asked) < MaxRequests /\ \E q \in Requests[Len(asked) + 1] : Call(q)
  <2>1. PICK q \in Requests[Len(asked) + 1] : asked' = Append(asked, q)
    BY <1>3 DEF Call, Client!Call
  <2>2. Len(asked') = Len(asked) + 1 /\ \A i \in 1..Len(asked) : asked'[i] = asked[i]
    <3>1. q \in AnyRequest
      BY <1>1, <1>3, RequestsAssumption
    <3>2. QED BY <2>1, <3>1, AppendProperties DEF Control, AskedTypes
  <2>3. answers[Len(asked) + 1] = 0
    <3>1. Len(asked) + 1 > Said /\ Len(asked) + 1 \in 1..MaxRequests
      BY <1>1, <1>3 DEF Said
    <3>2. QED BY <1>1, <3>1 DEF Control, Numbers
  <2>4. UploadIsWhole'
    <3>1. SUFFICES ASSUME NEW i \in 1..Len(asked'), answers[i] = 201, stored.of = i
                   PROVE  stored.units = asked'[i].length
      BY <1>3 DEF UploadIsWhole, serverVars
    <3>2. i \in 1..Len(asked)
      BY <1>1, <2>2, <2>3, <3>1
    <3>3. QED BY <1>1, <2>2, <3>1, <3>2 DEF UploadIsWhole
  <2>5. at \in {"headers", "handle", "body"} => request.n > 0
    BY <1>1 DEF Control, RequestControl
  <2>6. at = "respond" /\ request.handler = "upload" => request.n > 0
    BY <1>1 DEF Control, RequestControl
  <2>7. request.n > 0 => asked'[request.n] = asked[request.n]
    BY <1>1, <2>2
  <2>8. QED BY <1>1, <1>3, <2>4, <2>5, <2>6, <2>7 DEF Upload, Serves, serverVars
<1>4. CASE ServerNext /\ UNCHANGED clientVars
  BY <1>4, UploadServer
<1>5. CASE Connect \/ Crash
  BY <1>1, <1>5 DEF Connect, Client!Connect, ServerStart, Crash, Hangup, Upload, UploadIsWhole, Serves
<1>6. CASE NetworkStep \/ UNCHANGED vars
  BY <1>2, <1>6 DEF NetworkStep, Breaks, vars, connVars
<1>7. CASE (Client!ClientSteps /\ UNCHANGED serverVars) \/ (Client!Dies /\ UNCHANGED serverVars)
  BY <1>2, <1>7, ClientFrame DEF Client!Dies
<1>8. (\E q \in Requests[Len(asked) + 1] : Call(q)) => UNCHANGED serverVars
  BY DEF Call
<1>9. QED BY <1>3, <1>4, <1>5, <1>6, <1>7, <1>8, Steps

LEMMA UploadsInit == Init => Uploads
<1> SUFFICES ASSUME Init PROVE Uploads
  OBVIOUS
<1>1. up = <<>> /\ asked = <<>> /\ at = "closed" /\ cat = "idle"
  BY DEF Init, ServerInit, Client!ClientInit
<1>2. Len(up) = 0 /\ Len(asked) = 0
  BY <1>1
<1>3. UpOrder
  BY <1>2 DEF UpOrder, Ordered
<1>4. UpEnds /\ Upload /\ UploadIsWhole
  BY <1>1, <1>2 DEF UpEnds, Upload, UploadIsWhole, Serves
<1>5. QED BY <1>3, <1>4, ControlInit DEF Uploads

LEMMA UploadsStep ==
  ASSUME Uploads, [Next]_vars
  PROVE  Uploads'
BY OrderStep, EndsStep, UploadStep, ControlStep DEF Uploads

LEMMA UploadsAlways == Spec => []Uploads
<1>1. QED BY UploadsInit, UploadsStep, PTL DEF Spec

\* The answer 201 means that the file under upload/ holds all of this request's body: the
\* length that server_static_request() has is that of the request it answers, however the
\* requests, their bodies and a broken connection cut what is under way, and although
\* http_read_file() takes whatever comes.
THEOREM UploadIsWholeAlways == Spec => []UploadIsWhole
<1>1. Uploads => UploadIsWhole
  BY DEF Uploads
<1>2. QED BY <1>1, UploadsAlways, PTL

=============================================================================
