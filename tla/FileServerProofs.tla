-------------------------- MODULE FileServerProofs --------------------------
(***************************************************************************)
(* The descriptors of the server, for any limits, any tree of files, and   *)
(* any number of clients and requests.                                     *)
(*                                                                         *)
(* Each descriptor has an owner, the listener survives, and a lookup finds *)
(* what its path names.                                                    *)
(***************************************************************************)
EXTENDS FileServer, SequenceFacts

-----------------------------------------------------------------------------
(* Tables                                                                  *)

\* The lowest free descriptor is free.
LEMMA LowestFacts ==
  ASSUME NEW n \in Nat, NEW t, DOMAIN t = 0..n-1, ~Full(t)
  PROVE  Lowest(t) \in 0..n-1 /\ t[Lowest(t)] = Free
<1> DEFINE frees == {f \in DOMAIN t : t[f] = Free}
<1>1. frees \in SUBSET Nat /\ frees # {}
  BY DEF Full
<1>2. PICK k \in frees : \A l \in frees : k <= l
  BY <1>1, Least
<1>3. Min(frees) \in frees
  BY <1>2 DEF Min
<1>4. QED BY <1>3 DEF Lowest

-----------------------------------------------------------------------------
(* The walk of a lookup                                                    *)

\* What the walk makes of those that it has come to, at the i-th name.
Onward(q, c, t, i, ws) ==
  IF i = 0 THEN {Start(t, c)}
  ELSE {IF w.status # Going THEN w ELSE Step(w, c, q.method = "PUT", Path(q)[i], i = Len(Path(q))) :
          w \in ws}

IsWalk(u, q, c, t, n) == u = [i \in 0..n |-> Onward(q, c, t, i, u[i - 1])]

\* The recursion is well founded.
LEMMA WalkExists ==
  ASSUME NEW q, NEW c, NEW t, NEW n \in Nat
  PROVE  \E u : IsWalk(u, q, c, t, n)
<1> DEFINE bad == {k \in Nat : \A u : ~IsWalk(u, q, c, t, k)}
<1> SUFFICES ASSUME bad # {} PROVE FALSE
  OBVIOUS
<1>1. PICK k \in bad : \A l \in bad : k <= l
  <2>1. bad \in SUBSET Nat
    OBVIOUS
  <2>2. QED BY <2>1, Least
<1>2. CASE k = 0
  <2> DEFINE u == [i \in 0..0 |-> {Start(t, c)}]
  <2>1. IsWalk(u, q, c, t, 0)
    BY DEF IsWalk, Onward
  <2>2. QED BY <2>1, <1>1, <1>2
<1>3. CASE k > 0
  <2>1. k - 1 \in Nat /\ k - 1 \notin bad
    BY <1>1, <1>3
  <2>2. PICK v : IsWalk(v, q, c, t, k - 1)
    BY <2>1
  <2> DEFINE u == [i \in 0..k |-> Onward(q, c, t, i, v[i - 1])]
  <2>3. ASSUME NEW i \in 0..k PROVE Onward(q, c, t, i, v[i - 1]) = Onward(q, c, t, i, u[i - 1])
    <3>1. CASE i = 0
      BY <3>1 DEF Onward
    <3>2. CASE i # 0
      <4>1. i - 1 \in 0..k - 1 /\ i - 1 \in 0..k
        BY <3>2, <1>3
      <4>2. v[i - 1] = Onward(q, c, t, i - 1, v[(i - 1) - 1])
        BY <4>1, <2>2 DEF IsWalk
      <4>3. QED BY <4>1, <4>2
    <3>3. QED BY <3>1, <3>2
  <2>4. IsWalk(u, q, c, t, k)
    <3>1. u = [i \in 0..k |-> Onward(q, c, t, i, u[i - 1])]
      BY <2>3
    <3> HIDE DEF u
    <3>2. QED BY <3>1 DEF IsWalk
  <2>5. QED BY <2>4, <1>1
<1>4. QED BY <1>1, <1>2, <1>3

\* Walk is the last set of the recursion.
LEMMA WalkIs ==
  ASSUME NEW q, NEW c, NEW t, Len(Path(q)) \in Nat
  PROVE  \E u : IsWalk(u, q, c, t, Len(Path(q))) /\ Walk(q, c, t) = u[Len(Path(q))]
<1> DEFINE n == Len(Path(q))
<1>1. \E u : IsWalk(u, q, c, t, n)
  BY WalkExists
<1>2. Walk(q, c, t) = (CHOOSE u : IsWalk(u, q, c, t, n))[n]
  BY DEF Walk, IsWalk, Onward
<1>3. QED BY <1>1, <1>2

\* What a walk does to the table: it opens descriptors that were free, and as long as it has
\* not failed, exactly one.
Sound(w, t, c) ==
  /\ DOMAIN w = {"table", "fd", "node", "status", "file", "writes"}
  /\ w.status \in {Going, 200, 404, 500}
  /\ w.table = [f \in DOMAIN t |-> w.table[f]]
  /\ \A f \in DOMAIN t : \/ w.table[f] = t[f]
                         \/ t[f] = Free /\ w.table[f] = Fd("lookup", c)
  /\ w.status \in {Going, 200} =>
       w.fd \in DOMAIN t /\ t[w.fd] = Free /\ w.table = [t EXCEPT ![w.fd] = Fd("lookup", c)]

LEMMA StartSound ==
  ASSUME NEW n \in Nat, NEW S, NEW t \in [0..n-1 -> S], NEW c
  PROVE  Sound(Start(t, c), t, c)
<1>1. CASE Full(t)
  BY <1>1 DEF Start, Sound, Going
<1>2. CASE ~Full(t)
  <2>1. Lowest(t) \in 0..n-1 /\ t[Lowest(t)] = Free
    BY <1>2, LowestFacts
  <2>2. QED BY <1>2, <2>1 DEF Start, Sound, Going, Open, Fd, Free
<1>3. QED BY <1>1, <1>2

\* Going into a directory, or opening a file, replaces the one descriptor.
LEMMA IntoFacts ==
  ASSUME NEW n \in Nat, NEW S, NEW t \in [0..n-1 -> S], NEW c,
         NEW w, Sound(w, t, c), w.status = Going, ~Full(w.table)
  PROVE  /\ DOMAIN Into(w, c) = {"table", "fd", "node", "status", "file", "writes"}
         /\ Into(w, c).status = Going
         /\ Into(w, c).fd \in 0..n-1 /\ t[Into(w, c).fd] = Free
         /\ Into(w, c).table = [t EXCEPT ![Into(w, c).fd] = Fd("lookup", c)]
<1> DEFINE lo == Lowest(w.table)
<1>1. /\ DOMAIN t = 0..n-1 /\ DOMAIN w.table = 0..n-1
      /\ w.fd \in 0..n-1 /\ t[w.fd] = Free
      /\ w.table = [t EXCEPT ![w.fd] = Fd("lookup", c)]
      /\ DOMAIN w = {"table", "fd", "node", "status", "file", "writes"}
  BY DEF Sound
<1>2. lo \in 0..n-1 /\ w.table[lo] = Free
  BY <1>1, LowestFacts
<1> HIDE DEF lo
<1>3. Free # Fd("lookup", c)
  BY DEF Free, Fd
<1>4. lo # w.fd /\ t[lo] = Free
  BY <1>1, <1>2, <1>3
<1>5. [[w.table EXCEPT ![lo] = Fd("lookup", c)] EXCEPT ![w.fd] = Free] =
      [t EXCEPT ![lo] = Fd("lookup", c)]
  BY <1>1, <1>2, <1>4
<1>6. /\ Into(w, c).table = [[w.table EXCEPT ![lo] = Fd("lookup", c)] EXCEPT ![w.fd] = Free]
      /\ Into(w, c).fd = lo /\ Into(w, c).status = w.status /\ DOMAIN Into(w, c) = DOMAIN w
  BY <1>1 DEF Into, Open, Close, lo
<1>7. QED BY <1>1, <1>2, <1>4, <1>5, <1>6

LEMMA StepSound ==
  ASSUME NEW n \in Nat, NEW S, NEW t \in [0..n-1 -> S], NEW c,
         NEW w, Sound(w, t, c), w.status = Going,
         NEW create \in BOOLEAN, NEW name, NEW last \in BOOLEAN
  PROVE  Sound(Step(w, c, create, name, last), t, c)
<1> DEFINE exists == name \in Names(w.node)
           child  == IF exists THEN Children[w.node][name] ELSE None
           after  == Step(w, c, create, name, last)
<1>1. /\ DOMAIN t = 0..n-1 /\ DOMAIN w.table = 0..n-1
      /\ w.fd \in 0..n-1 /\ t[w.fd] = Free
      /\ w.table = [t EXCEPT ![w.fd] = Fd("lookup", c)]
      /\ DOMAIN w = {"table", "fd", "node", "status", "file", "writes"}
  BY DEF Sound
<1>2. ASSUME NEW status \in {404, 500} PROVE Sound(Fails(w, status), t, c)
  <2>1. Close(w.table, w.fd) = t
    <3>1. Close(w.table, w.fd) = [[t EXCEPT ![w.fd] = Fd("lookup", c)] EXCEPT ![w.fd] = Free]
      BY <1>1 DEF Close
    <3> DEFINE x == Fd("lookup", c)
    <3> HIDE DEF x
    <3>2. [[t EXCEPT ![w.fd] = x] EXCEPT ![w.fd] = Free] = t
      BY <1>1
    <3>3. QED BY <3>1, <3>2 DEF x
  <2>2. /\ Fails(w, status).table = t /\ Fails(w, status).status = status
        /\ DOMAIN Fails(w, status) = DOMAIN w
    BY <1>1, <2>1 DEF Fails
  <2>3. QED BY <1>1, <2>2 DEF Sound, Going
<1>3. ASSUME NEW status \in {404, 500} PROVE Sound(Leaks(w, status), t, c)
  <2>1. /\ Leaks(w, status).table = w.table /\ Leaks(w, status).status = status
        /\ DOMAIN Leaks(w, status) = DOMAIN w
    BY <1>1 DEF Leaks
  <2>2. Leaks(w, status).status \notin {Going, 200}
    BY <2>1 DEF Going
  <2>3. QED BY <2>1, <2>2, SMTT(60) DEF Sound
<1>4. ASSUME ~Full(w.table) PROVE Sound([Into(w, c) EXCEPT !.node = child], t, c)
  <2>1. /\ DOMAIN Into(w, c) = {"table", "fd", "node", "status", "file", "writes"}
        /\ Into(w, c).status = Going
        /\ Into(w, c).fd \in 0..n-1 /\ t[Into(w, c).fd] = Free
        /\ Into(w, c).table = [t EXCEPT ![Into(w, c).fd] = Fd("lookup", c)]
    BY <1>4, IntoFacts
  <2> DEFINE v == Into(w, c)
             x == [v EXCEPT !.node = child]
  <2> HIDE DEF v, child
  <2>2. x.table = v.table /\ x.fd = v.fd /\ x.status = v.status /\ DOMAIN x = DOMAIN v
    BY <2>1 DEF v
  <2> HIDE DEF x
  <2>3. QED BY <1>1, <2>1, <2>2 DEF Sound, v, x
<1>5. ASSUME ~Full(w.table)
      PROVE  Sound([Into(w, c) EXCEPT !.node = child, !.status = 200, !.file = TRUE,
                                      !.writes = create /\ last], t, c)
  <2>1. /\ DOMAIN Into(w, c) = {"table", "fd", "node", "status", "file", "writes"}
        /\ Into(w, c).status = Going
        /\ Into(w, c).fd \in 0..n-1 /\ t[Into(w, c).fd] = Free
        /\ Into(w, c).table = [t EXCEPT ![Into(w, c).fd] = Fd("lookup", c)]
    BY <1>5, IntoFacts
  <2> DEFINE v == Into(w, c)
             x == [v EXCEPT !.node = child, !.status = 200, !.file = TRUE,
                            !.writes = create /\ last]
  <2> HIDE DEF v, child
  <2>2. x.table = v.table /\ x.fd = v.fd /\ x.status = 200 /\ DOMAIN x = DOMAIN v
    BY <2>1 DEF v
  <2> HIDE DEF x
  <2>3. QED BY <1>1, <2>1, <2>2 DEF Sound, v, x
<1>6. \/ after = w
      \/ \E status \in {404, 500} : after \in {Fails(w, status), Leaks(w, status)}
      \/ ~Full(w.table) /\ after = [Into(w, c) EXCEPT !.node = child]
      \/ ~Full(w.table) /\ after = [Into(w, c) EXCEPT !.node = child, !.status = 200,
                                      !.file = TRUE, !.writes = create /\ last]
  <2> HIDE DEF child
  <2>1. CASE name = "." \/ name = ".."
    BY <2>1 DEF Step
  <2>2. CASE name # "." /\ name # ".." /\ exists /\ IsDir(child)
    <3>1. after = IF Full(w.table) THEN Leaks(w, 500) ELSE [Into(w, c) EXCEPT !.node = child]
      BY <2>2 DEF Step, child
    <3>2. QED BY <3>1
  <2>3. CASE name # "." /\ name # ".." /\ ~(exists /\ IsDir(child)) /\ ~exists /\ ~(create /\ last)
    BY <2>3 DEF Step, child
  <2>4. CASE name # "." /\ name # ".." /\ ~(exists /\ IsDir(child)) /\ ~(~exists /\ ~(create /\ last))
    <3>1. after = IF Full(w.table) THEN Fails(w, 500)
                  ELSE [Into(w, c) EXCEPT !.node = child, !.status = 200, !.file = TRUE,
                                          !.writes = create /\ last]
      BY <2>4 DEF Step, child
    <3>2. QED BY <3>1
  <2>5. QED BY <2>1, <2>2, <2>3, <2>4
<1> HIDE DEF after, child
<1>7. QED BY <1>2, <1>3, <1>4, <1>5, <1>6 DEF after

\* However the walk of a request ends, it has done no more to the table than that.
LEMMA WalkSound ==
  ASSUME NEW n \in Nat, NEW S, NEW t \in [0..n-1 -> S], NEW c,
         NEW q, Len(Path(q)) \in Nat, NEW w \in Walk(q, c, t)
  PROVE  Sound(w, t, c)
<1> DEFINE len == Len(Path(q))
<1>1. PICK u : IsWalk(u, q, c, t, len) /\ Walk(q, c, t) = u[len]
  BY WalkIs
<1> DEFINE bad == {i \in 0..len : \E v \in u[i] : ~Sound(v, t, c)}
<1>2. bad = {}
  <2> SUFFICES ASSUME bad # {} PROVE FALSE
    OBVIOUS
  <2>1. PICK k \in bad : \A l \in bad : k <= l
    <3>1. bad \in SUBSET Nat
      OBVIOUS
    <3> HIDE DEF bad
    <3>2. QED BY <3>1, Least
  <2>2. u[k] = Onward(q, c, t, k, u[k - 1])
    BY <1>1 DEF IsWalk
  <2>3. PICK v \in u[k] : ~Sound(v, t, c)
    OBVIOUS
  <2>4. CASE k = 0
    <3>1. v = Start(t, c)
      BY <2>2, <2>3, <2>4 DEF Onward
    <3>2. QED BY <2>3, <3>1, StartSound
  <2>5. CASE k # 0
    <3>1. k - 1 \in 0..len /\ k - 1 \notin bad
      BY <2>1, <2>5
    <3>2. PICK x \in u[k - 1] :
            v = IF x.status # Going THEN x
                ELSE Step(x, c, q.method = "PUT", Path(q)[k], k = Len(Path(q)))
      BY <2>2, <2>3, <2>5 DEF Onward
    <3>3. Sound(x, t, c)
      BY <3>1, <3>2
    <3>4. (q.method = "PUT") \in BOOLEAN /\ (k = Len(Path(q))) \in BOOLEAN
      OBVIOUS
    <3>5. CASE x.status # Going
      BY <3>2, <3>3, <3>5, <2>3
    <3>6. CASE x.status = Going
      <4>1. Sound(Step(x, c, q.method = "PUT", Path(q)[k], k = Len(Path(q))), t, c)
        BY <3>3, <3>4, <3>6, StepSound
      <4>2. QED BY <3>2, <3>6, <4>1, <2>3
    <3>7. QED BY <3>5, <3>6
  <2>6. QED BY <2>4, <2>5
<1>3. len \in 0..len
  OBVIOUS
<1>4. QED BY <1>1, <1>2, <1>3

-----------------------------------------------------------------------------
(* The inductive invariant                                                 *)

\* Whom the server has still to answer has asked for something.
AskedSound ==
  /\ asked \in [Clients -> Requests \cup {None}]
  /\ \A c \in Clients : conn[c] = "sent" => asked[c] \in Requests

\* Those in the backlog are those who wait, each once.
BacklogSound ==
  /\ backlog \in Seq(Clients)
  /\ \A i, j \in DOMAIN backlog : backlog[i] = backlog[j] => i = j
  /\ \A i \in DOMAIN backlog : conn[backlog[i]] = "pending"

\* The descriptor of the listener is never that of a connection.
ListenerIsFirst == table[0].what # "sock"

IInv == Accounted /\ ListenerSurvives /\ AskedSound /\ BacklogSound /\ ListenerIsFirst

\* The number of descriptors, and where the reactor's limit is kept to.
LEMMA LimitFacts ==
  ASSUME nfiles \in Nfiles
  PROVE  /\ Limit(nfiles) \in Nat /\ Limit(nfiles) >= 2
         /\ Limited => Limit(nfiles) < FdSetSize
BY LimitAssumption DEF Limit, Limited

\* Paths have a length.
LEMMA PathFacts ==
  ASSUME NEW q \in Requests
  PROVE  Path(q) \in Seq(STRING) /\ Len(Path(q)) \in Nat
<1>1. q.path \in Seq(STRING) /\ q.query \in Seq(STRING)
  BY RequestAssumption
<1>2. Path(q) \in Seq(STRING)
  BY <1>1, EmptySeq, ConcatProperties DEF Path
<1>3. QED BY <1>2

\* What the steps for a client put into the table.
Owned(c) == {Free, Fd("lost", None), Fd("sock", c), Fd("file", c), Fd("udp", c)}

\* The entries of the table.
Entry == [what : {"free", "listen", "sock", "file", "udp", "lost"}, of : Clients \cup {None}]

LEMMA OwnedAreEntries ==
  ASSUME NEW c \in Clients
  PROVE  Owned(c) \subseteq Entry
BY DEF Owned, Entry, Fd, Free

\* What a step does for one client leaves the others what they have.
LEMMA OthersKeep ==
  ASSUME TypeOK, NEW c \in Clients, NEW d \in Clients, d # c,
         DOMAIN table' = DOMAIN table,
         \A f \in DOMAIN table :
           table'[f] = table[f] \/ (table[f] \in Owned(c) /\ table'[f] \in Owned(c))
  PROVE  \A what \in {"sock", "file", "udp"} : Of(what, d)' = Of(what, d)
<1>1. ASSUME NEW what \in {"sock", "file", "udp"} PROVE Fd(what, d) \notin Owned(c)
  BY DEF Owned, Fd, Free
<1>2. ASSUME NEW what \in {"sock", "file", "udp"} PROVE Of(what, d)' = Of(what, d)
  <2>1. \A f \in DOMAIN table : table'[f] = Fd(what, d) <=> table[f] = Fd(what, d)
    BY <1>1, <1>2
  <2>2. QED BY <2>1 DEF Of
<1>3. QED BY <1>2

LEMMA ListenerKeeps ==
  ASSUME NEW c \in Clients, DOMAIN table' = DOMAIN table,
         \A f \in DOMAIN table :
           table'[f] = table[f] \/ (table[f] \in Owned(c) /\ table'[f] \in Owned(c))
  PROVE  Of("listen", None)' = Of("listen", None)
<1>1. Fd("listen", None) \notin Owned(c)
  BY DEF Owned, Fd, Free
<1>2. \A f \in DOMAIN table : table'[f] = Fd("listen", None) <=> table[f] = Fd("listen", None)
  BY <1>1
<1>3. QED BY <1>2 DEF Of

\* So a step for one client keeps the account if it keeps that of this client.
LEMMA AccountOfOne ==
  ASSUME IInv, NEW c \in Clients, nfiles' = nfiles, listener' = listener,
         DOMAIN table' = DOMAIN table, table' = [f \in DOMAIN table |-> table'[f]],
         \A f \in DOMAIN table :
           table'[f] = table[f] \/ (table[f] \in Owned(c) /\ table'[f] \in Owned(c)),
         NEW now \in {"open", "busy", "gone"}, conn' = [conn EXCEPT ![c] = now],
         IF now = "gone" THEN Of("sock", c)' = {} ELSE One(Of("sock", c)'),
         IF now = "busy" THEN One(Of("file", c)' \cup Of("udp", c)')
                         ELSE Of("file", c)' \cup Of("udp", c)' = {},
         OneIsLeft'
  PROVE  Accounted'
<1>1. TypeOK /\ SocketsOfTasks /\ FilesOfRequests
      /\ Of("listen", None) = IF listener = "dead" THEN {} ELSE {0}
  BY DEF IInv, Accounted
<1>2. conn' \in [Clients -> {"new", "pending", "open", "sent", "busy", "gone"}]
      /\ conn'[c] = now /\ \A d \in Clients \ {c} : conn'[d] = conn[d]
  BY <1>1 DEF TypeOK
<1>3. TypeOK'
  <2>1. table' \in [0..Limit(nfiles)-1 -> Entry]
    <3>1. table \in [0..Limit(nfiles)-1 -> Entry]
      BY <1>1 DEF TypeOK, Entry
    <3>2. QED BY <3>1, OwnedAreEntries
  <2>2. QED BY <1>1, <1>2, <2>1 DEF TypeOK, Entry
<1>4. ASSUME NEW d \in Clients \ {c}
      PROVE  /\ Of("sock", d)' = Of("sock", d) /\ Of("file", d)' = Of("file", d)
             /\ Of("udp", d)' = Of("udp", d)
  BY <1>1, OthersKeep
<1>5. SocketsOfTasks'
  <2> SUFFICES ASSUME NEW d \in Clients
               PROVE  IF conn'[d] \in {"open", "sent", "busy"} THEN One(Of("sock", d)')
                      ELSE Of("sock", d)' = {}
    BY DEF SocketsOfTasks, One
  <2>1. CASE d = c
    BY <1>2, <2>1
  <2>2. CASE d # c
    <3>1. IF conn[d] \in {"open", "sent", "busy"} THEN One(Of("sock", d)) ELSE Of("sock", d) = {}
      BY <1>1 DEF SocketsOfTasks
    <3>2. Of("sock", d)' = Of("sock", d) /\ conn'[d] = conn[d]
      BY <1>2, <1>4, <2>2
    <3>3. QED BY <3>1, <3>2
  <2>3. QED BY <2>1, <2>2
<1>6. FilesOfRequests'
  <2> SUFFICES ASSUME NEW d \in Clients
               PROVE  IF conn'[d] = "busy" THEN One(Of("file", d)' \cup Of("udp", d)')
                      ELSE Of("file", d)' \cup Of("udp", d)' = {}
    BY DEF FilesOfRequests, One
  <2>1. CASE d = c
    BY <1>2, <2>1
  <2>2. CASE d # c
    <3>1. IF conn[d] = "busy" THEN One(Of("file", d) \cup Of("udp", d))
          ELSE Of("file", d) \cup Of("udp", d) = {}
      BY <1>1 DEF FilesOfRequests
    <3>2. Of("file", d)' = Of("file", d) /\ Of("udp", d)' = Of("udp", d) /\ conn'[d] = conn[d]
      BY <1>2, <1>4, <2>2
    <3>3. QED BY <3>1, <3>2
  <2>3. QED BY <2>1, <2>2
<1>7. (Of("listen", None) = IF listener = "dead" THEN {} ELSE {0})'
  BY <1>1, ListenerKeeps
<1>8. QED BY <1>3, <1>5, <1>6, <1>7 DEF Accounted

\* What the task of one client does leaves the rest of the invariant as it is.
LEMMA RestOfOne ==
  ASSUME IInv, NEW c \in Clients, conn[c] \in {"open", "sent", "busy"},
         nfiles' = nfiles, listener' = listener, backlog' = backlog,
         NEW now \in {"open", "busy", "gone"}, conn' = [conn EXCEPT ![c] = now],
         asked' = asked \/ asked' = [asked EXCEPT ![c] = None]
  PROVE  ListenerSurvives' /\ AskedSound' /\ BacklogSound'
<1>1. TypeOK /\ AskedSound /\ BacklogSound /\ ListenerSurvives
  BY DEF IInv, Accounted
<1>2. conn'[c] = now /\ \A d \in Clients \ {c} : conn'[d] = conn[d]
  BY <1>1 DEF TypeOK
<1>3. ListenerSurvives'
  BY <1>1 DEF ListenerSurvives, Limited
<1>4. AskedSound'
  BY <1>1, <1>2 DEF AskedSound
<1>5. BacklogSound'
  BY <1>1, <1>2 DEF BacklogSound
<1>6. QED BY <1>3, <1>4, <1>5

-----------------------------------------------------------------------------
(* The tasks                                                               *)

\* A task has a socket, which is not where the listener is.
LEMMA OwnSocket ==
  ASSUME IInv, NEW c \in Clients, conn[c] \in {"open", "sent", "busy"}
  PROVE  \E s \in DOMAIN table : s # 0 /\ table[s] = Fd("sock", c) /\ Of("sock", c) = {s}
<1>1. One(Of("sock", c))
  BY DEF IInv, Accounted, SocketsOfTasks
<1>2. PICK s \in Of("sock", c) : Of("sock", c) = {s}
  BY <1>1 DEF One
<1>3. s \in DOMAIN table /\ table[s] = Fd("sock", c)
  BY DEF Of
<1>4. s # 0
  BY <1>3 DEF IInv, ListenerIsFirst, Fd
<1>5. QED BY <1>2, <1>3, <1>4

\* In u the client has not what it has in t of these kinds.
Without(t, u, whats, c) ==
  \A f \in DOMAIN t : u[f] = IF \E what \in whats : t[f] = Fd(what, c) THEN Free ELSE t[f]

\* CloseAll() frees what the client has of these kinds.
LEMMA CloseAllFacts ==
  ASSUME NEW D, NEW t \in [D -> Entry], NEW c \in Clients,
         NEW whats \in SUBSET {"sock", "file", "udp"}
  PROVE  /\ CloseAll(t, whats, c) \in [D -> Entry]
         /\ Without(t, CloseAll(t, whats, c), whats, c)
<1>1. ASSUME NEW f \in D
      PROVE  t[f].of = c /\ t[f].what \in whats <=> \E what \in whats : t[f] = Fd(what, c)
  <2>1. t[f] \in Entry
    OBVIOUS
  <2>2. t[f] = [what |-> t[f].what, of |-> t[f].of]
    BY <2>1 DEF Entry
  <2>3. QED BY <2>2 DEF Fd
<1>2. Free \in Entry
  BY OwnedAreEntries DEF Owned
<1>3. CloseAll(t, whats, c) = [f \in D |-> IF t[f].of = c /\ t[f].what \in whats
                                              THEN Free ELSE t[f]]
  BY DEF CloseAll
<1>4. QED BY <1>1, <1>2, <1>3 DEF Without

\* The account after the task has gone: of its table only the socket and what it was busy with
\* is missing.
LEMMA GoneAccount ==
  ASSUME IInv, NEW c \in Clients, conn[c] \in {"open", "sent", "busy"},
         nfiles' = nfiles, listener' = listener, backlog' = backlog,
         asked' = asked \/ asked' = [asked EXCEPT ![c] = None],
         conn' = [conn EXCEPT ![c] = "gone"],
         table' = [f \in DOMAIN table |-> table'[f]],
         NEW whats \in SUBSET {"file", "udp"}, conn[c] = "busy" => whats = {"file", "udp"},
         Without(table, table', whats \cup {"sock"}, c)
  PROVE  IInv'
<1>1. PICK s \in DOMAIN table : s # 0 /\ table[s] = Fd("sock", c) /\ Of("sock", c) = {s}
  BY OwnSocket
<1>2. DOMAIN table' = DOMAIN table
  OBVIOUS
<1>3. \A f \in DOMAIN table :
        table'[f] = table[f] \/ (table[f] \in Owned(c) /\ table'[f] \in Owned(c))
  BY DEF Owned, Without
<1>4. Of("sock", c)' = {}
  <2>1. \A f \in DOMAIN table : table'[f] # Fd("sock", c)
    BY DEF Without, Free, Fd
  <2>2. QED BY <1>2, <2>1 DEF Of
<1>5. Of("file", c)' \cup Of("udp", c)' = {}
  <2>1. CASE conn[c] = "busy"
    <3>1. \A f \in DOMAIN table : table'[f] # Fd("file", c) /\ table'[f] # Fd("udp", c)
      BY <2>1 DEF Without, Free, Fd
    <3>2. QED BY <1>2, <3>1 DEF Of
  <2>2. CASE conn[c] # "busy"
    <3>1. Of("file", c) \cup Of("udp", c) = {}
      BY <2>2 DEF IInv, Accounted, FilesOfRequests
    <3>2. \A f \in DOMAIN table : table[f] # Fd("file", c) /\ table[f] # Fd("udp", c)
      BY <3>1 DEF Of
    <3>3. \A f \in DOMAIN table : table'[f] # Fd("file", c) /\ table'[f] # Fd("udp", c)
      BY <3>2 DEF Without, Free, Fd
    <3>4. QED BY <1>2, <3>3 DEF Of
  <2>3. QED BY <2>1, <2>2
<1>6. OneIsLeft'
  <2>1. table'[s] = Free
    BY <1>1 DEF Without
  <2>2. QED BY <1>1, <1>2, <2>1 DEF OneIsLeft, Free, Fd
<1>7. ListenerIsFirst'
  <2>1. 0 \in DOMAIN table
    BY LimitFacts DEF IInv, Accounted, TypeOK
  <2>2. table'[0] = Free \/ table'[0] = table[0]
    BY <2>1 DEF Without
  <2>3. QED BY <2>2 DEF IInv, ListenerIsFirst, Free, Fd
<1>8. Accounted'
  BY <1>2, <1>3, <1>4, <1>5, <1>6, AccountOfOne, Zenon
<1>9. ListenerSurvives' /\ AskedSound' /\ BacklogSound'
  BY RestOfOne
<1>10. QED BY <1>7, <1>8, <1>9 DEF IInv

LEMMA IdleKeepsIInv ==
  ASSUME IInv, NEW c \in Clients, Idle(c) PROVE IInv'
<1>1. table \in [0..Limit(nfiles)-1 -> Entry]
  BY DEF IInv, Accounted, TypeOK, Entry
<1>2. table' = CloseAll(table, {"sock"}, c) /\ conn' = [conn EXCEPT ![c] = "gone"]
      /\ conn[c] = "open"
  BY DEF Idle, Hangup, Now
<1>3. table' \in [0..Limit(nfiles)-1 -> Entry] /\ Without(table, table', {"sock"}, c)
  <2>1. {"sock"} \in SUBSET {"sock", "file", "udp"}
    OBVIOUS
  <2>2. QED BY <1>1, <1>2, <2>1, CloseAllFacts
<1>4. DOMAIN table = 0..Limit(nfiles)-1 /\ table' = [f \in DOMAIN table |-> table'[f]]
  BY <1>1, <1>3
<1>5. {} \in SUBSET {"file", "udp"} /\ Without(table, table', {} \cup {"sock"}, c)
  <2>1. {} \cup {"sock"} = {"sock"}
    OBVIOUS
  <2>2. QED BY <1>3, <2>1
<1>6. nfiles' = nfiles /\ listener' = listener /\ backlog' = backlog /\ asked' = asked
  BY DEF Idle
<1>7. QED BY <1>2, <1>4, <1>5, <1>6, GoneAccount

LEMMA AbortKeepsIInv ==
  ASSUME IInv, NEW c \in Clients, Abort(c) PROVE IInv'
<1> DEFINE n == Limit(nfiles)
           t == CloseAll(table, {"file", "udp"}, c)
<1>1. table \in [0..n-1 -> Entry]
  BY DEF IInv, Accounted, TypeOK, Entry
<1>2. table' = CloseAll(t, {"sock"}, c) /\ conn' = [conn EXCEPT ![c] = "gone"]
      /\ conn[c] = "busy"
  BY DEF Abort, Hangup, Now
<1>3. t \in [0..n-1 -> Entry] /\ Without(table, t, {"file", "udp"}, c)
  <2>1. {"file", "udp"} \in SUBSET {"sock", "file", "udp"}
    OBVIOUS
  <2>2. QED BY <1>1, <2>1, CloseAllFacts
<1> HIDE DEF t
<1>4. table' \in [0..n-1 -> Entry] /\ Without(t, table', {"sock"}, c)
  <2>1. {"sock"} \in SUBSET {"sock", "file", "udp"}
    OBVIOUS
  <2>2. QED BY <1>2, <1>3, <2>1, CloseAllFacts
<1>5. Without(table, table', {"file", "udp"} \cup {"sock"}, c)
  BY <1>1, <1>3, <1>4 DEF Without, Fd, Free
<1>6. DOMAIN table = 0..n-1 /\ table' = [f \in DOMAIN table |-> table'[f]]
  BY <1>1, <1>4
<1>7. nfiles' = nfiles /\ listener' = listener /\ backlog' = backlog /\ asked' = asked
  BY DEF Abort
<1>8. {"file", "udp"} \in SUBSET {"file", "udp"}
  OBVIOUS
<1>9. QED BY <1>2, <1>5, <1>6, <1>7, <1>8, GoneAccount

\* What a request may change.
Moved(c) == {Free, Fd("lost", None), Fd("file", c), Fd("udp", c)}

\* The account while the task goes on: its socket is left alone.
LEMMA StayAccount ==
  ASSUME IInv, NEW c \in Clients, conn[c] \in {"open", "sent", "busy"},
         nfiles' = nfiles, listener' = listener, backlog' = backlog,
         asked' = asked \/ asked' = [asked EXCEPT ![c] = None],
         NEW now \in {"open", "busy"}, conn' = [conn EXCEPT ![c] = now],
         table' = [f \in DOMAIN table |-> table'[f]],
         \A f \in DOMAIN table :
           table'[f] = table[f] \/ (table[f] \in Moved(c) /\ table'[f] \in Moved(c)),
         IF now = "busy" THEN One(Of("file", c)' \cup Of("udp", c)')
                         ELSE Of("file", c)' \cup Of("udp", c)' = {}
  PROVE  IInv'
<1>1. PICK s \in DOMAIN table : s # 0 /\ table[s] = Fd("sock", c) /\ Of("sock", c) = {s}
  BY OwnSocket
<1>2. DOMAIN table' = DOMAIN table
  OBVIOUS
<1>3. \A f \in DOMAIN table :
        table'[f] = table[f] \/ (table[f] \in Owned(c) /\ table'[f] \in Owned(c))
  BY DEF Owned, Moved
<1>4. Fd("sock", c) \notin Moved(c)
  BY DEF Moved, Fd, Free
<1>5. One(Of("sock", c)')
  <2>1. \A f \in DOMAIN table : table'[f] = Fd("sock", c) <=> table[f] = Fd("sock", c)
    BY <1>4
  <2>2. Of("sock", c)' = Of("sock", c)
    BY <1>2, <2>1 DEF Of
  <2>3. QED BY <1>1, <2>2 DEF One
<1>6. OneIsLeft'
  <2>1. table'[s] = Fd("sock", c)
    BY <1>1, <1>4
  <2>2. QED BY <1>1, <1>2, <2>1 DEF OneIsLeft, Fd
<1>7. ListenerIsFirst'
  <2>1. 0 \in DOMAIN table
    BY LimitFacts DEF IInv, Accounted, TypeOK
  <2>2. table'[0] \in Moved(c) \/ table'[0] = table[0]
    BY <2>1
  <2>3. QED BY <2>2 DEF IInv, ListenerIsFirst, Moved, Free, Fd
<1>8. Accounted'
  <2>1. now \in {"open", "busy", "gone"} /\ now # "gone"
    OBVIOUS
  <2>2. IF now = "gone" THEN Of("sock", c)' = {} ELSE One(Of("sock", c)')
    BY <1>5, <2>1
  <2>3. QED BY <1>2, <1>3, <1>6, <2>1, <2>2, AccountOfOne, Zenon
<1>9. ListenerSurvives' /\ AskedSound' /\ BacklogSound'
  <2>1. now \in {"open", "busy", "gone"}
    OBVIOUS
  <2>2. QED BY <2>1, RestOfOne
<1>10. QED BY <1>7, <1>8, <1>9 DEF IInv

\* What a client has of files and sockets for its requests, while it is not busy.
LEMMA NothingElse ==
  ASSUME IInv, NEW c \in Clients, conn[c] # "busy"
  PROVE  \A f \in DOMAIN table : table[f] # Fd("file", c) /\ table[f] # Fd("udp", c)
<1>1. Of("file", c) \cup Of("udp", c) = {}
  BY DEF IInv, Accounted, FilesOfRequests
<1>2. QED BY <1>1 DEF Of

LEMMA FinishKeepsIInv ==
  ASSUME IInv, NEW c \in Clients, Finish(c) PROVE IInv'
<1>1. table \in [0..Limit(nfiles)-1 -> Entry]
  BY DEF IInv, Accounted, TypeOK, Entry
<1>2. table' = CloseAll(table, {"file", "udp"}, c) /\ conn' = [conn EXCEPT ![c] = "open"]
      /\ conn[c] = "busy"
  BY DEF Finish, Now
<1>3. table' \in [0..Limit(nfiles)-1 -> Entry] /\ Without(table, table', {"file", "udp"}, c)
  <2>1. {"file", "udp"} \in SUBSET {"sock", "file", "udp"}
    OBVIOUS
  <2>2. QED BY <1>1, <1>2, <2>1, CloseAllFacts
<1>4. DOMAIN table = 0..Limit(nfiles)-1 /\ table' = [f \in DOMAIN table |-> table'[f]]
  BY <1>1, <1>3
<1>5. \A f \in DOMAIN table :
        table'[f] = table[f] \/ (table[f] \in Moved(c) /\ table'[f] \in Moved(c))
  BY <1>3 DEF Without, Moved
<1>6. Of("file", c)' \cup Of("udp", c)' = {}
  <2>1. \A f \in DOMAIN table : table'[f] # Fd("file", c) /\ table'[f] # Fd("udp", c)
    BY <1>3 DEF Without, Free, Fd
  <2>2. QED BY <1>4, <2>1 DEF Of
<1>7. nfiles' = nfiles /\ listener' = listener /\ backlog' = backlog /\ asked' = asked
  BY DEF Finish
<1>8. QED BY <1>2, <1>4, <1>5, <1>6, <1>7, StayAccount

LEMMA DnsKeepsIInv ==
  ASSUME IInv, NEW c \in Clients, Dns(c) PROVE IInv'
<1> DEFINE n == Limit(nfiles)
<1>1. table \in [0..n-1 -> Entry] /\ n \in Nat
  BY LimitFacts DEF IInv, Accounted, TypeOK, Entry
<1>2. /\ nfiles' = nfiles /\ listener' = listener /\ backlog' = backlog
      /\ asked' = [asked EXCEPT ![c] = None] /\ conn[c] = "sent"
  BY DEF Dns
<1>3. \A f \in DOMAIN table : table[f] # Fd("file", c) /\ table[f] # Fd("udp", c)
  BY <1>2, NothingElse
<1>4. CASE table' = table /\ Now(c, "open")
  <2>1. table' = [f \in DOMAIN table |-> table'[f]]
    BY <1>1, <1>4
  <2>2. Of("file", c)' \cup Of("udp", c)' = {}
    BY <1>3, <1>4 DEF Of
  <2>3. QED BY <1>2, <1>4, <2>1, <2>2, StayAccount DEF Now
<1>5. CASE ~Full(table) /\ table' = Open(table, "udp", c) /\ Now(c, "busy")
  <2> DEFINE lo == Lowest(table)
  <2>1. lo \in 0..n-1 /\ table[lo] = Free
    BY <1>1, <1>5, LowestFacts
  <2>2. table' = [table EXCEPT ![lo] = Fd("udp", c)]
    BY <1>5 DEF Open
  <2> HIDE DEF lo
  <2>3. table' = [f \in DOMAIN table |-> table'[f]]
    BY <1>1, <2>2
  <2>4. \A f \in DOMAIN table :
          table'[f] = table[f] \/ (table[f] \in Moved(c) /\ table'[f] \in Moved(c))
    BY <1>1, <2>1, <2>2 DEF Moved
  <2>5. One(Of("file", c)' \cup Of("udp", c)')
    <3>1. Of("file", c)' = {} /\ Of("udp", c)' = {lo}
      <4>1. Fd("udp", c) # Fd("file", c)
        BY DEF Fd
      <4>2. \A f \in DOMAIN table : table'[f] # Fd("file", c)
        BY <1>3, <2>1, <2>2, <4>1
      <4>3. \A f \in DOMAIN table : table'[f] = Fd("udp", c) <=> f = lo
        BY <1>1, <1>3, <2>1, <2>2
      <4>4. QED BY <1>1, <2>1, <2>3, <4>2, <4>3 DEF Of
    <3>2. QED BY <3>1 DEF One
  <2>6. conn' = [conn EXCEPT ![c] = "busy"]
    BY <1>5 DEF Now
  <2>7. QED BY <1>2, <2>3, <2>4, <2>5, <2>6, StayAccount
<1>6. QED BY <1>4, <1>5 DEF Dns

LEMMA StaticKeepsIInv ==
  ASSUME IInv, NEW c \in Clients, Static(c) PROVE IInv'
<1> DEFINE n == Limit(nfiles)
           q == asked[c]
<1>1. table \in [0..n-1 -> Entry] /\ n \in Nat
  BY LimitFacts DEF IInv, Accounted, TypeOK, Entry
<1>2. /\ nfiles' = nfiles /\ listener' = listener /\ backlog' = backlog
      /\ asked' = [asked EXCEPT ![c] = None] /\ conn[c] = "sent"
  BY DEF Static
<1>3. q \in Requests
  BY <1>2 DEF IInv, AskedSound
<1>4. PICK w \in Walk(q, c, table) :
        IF Status(q, w) # 200 THEN table' = Lose(w.table) /\ Now(c, "open")
        ELSE \/ Hangup(c, Close(w.table, w.fd))
             \/ table' = Close(w.table, w.fd) /\ Now(c, "open")
             \/ table' = Keep(w.table, w.fd, c) /\ Now(c, "busy")
  BY DEF Static
<1> HIDE DEF q
<1>5. Sound(w, table, c)
  <2>1. Len(Path(q)) \in Nat
    BY <1>3, PathFacts
  <2>2. QED BY <1>1, <1>4, <2>1, WalkSound
<1>6. /\ w.table = [f \in DOMAIN table |-> w.table[f]]
      /\ \A f \in DOMAIN table : \/ w.table[f] = table[f]
                                 \/ table[f] = Free /\ w.table[f] = Fd("lookup", c)
  BY <1>5 DEF Sound
<1>7. Status(q, w) = 200 =>
        w.fd \in DOMAIN table /\ table[w.fd] = Free /\ w.table = [table EXCEPT ![w.fd] = Fd("lookup", c)]
  BY <1>5 DEF Sound, Status, Going
<1>8. \A f \in DOMAIN table : table[f] # Fd("file", c) /\ table[f] # Fd("udp", c)
  BY <1>2, NothingElse
<1>9. \A f \in DOMAIN table : table[f].what # "lookup"
  BY <1>1 DEF Entry
<1>10. Status(q, w) = 200 => Close(w.table, w.fd) = table
  <2> SUFFICES ASSUME Status(q, w) = 200 PROVE Close(w.table, w.fd) = table
    OBVIOUS
  <2> DEFINE x == Fd("lookup", c)
  <2>1. Close(w.table, w.fd) = [[table EXCEPT ![w.fd] = x] EXCEPT ![w.fd] = Free]
    BY <1>7 DEF Close
  <2> HIDE DEF x
  <2>2. w.fd \in DOMAIN table /\ table[w.fd] = Free
    BY <1>7
  <2>3. [[table EXCEPT ![w.fd] = x] EXCEPT ![w.fd] = Free] = table
    BY <1>1, <2>2
  <2>4. QED BY <2>1, <2>3
<1>11. CASE Status(q, w) = 200 /\ table' = Close(w.table, w.fd) /\ Now(c, "open")
  <2>1. table' = table
    BY <1>10, <1>11
  <2>2. table' = [f \in DOMAIN table |-> table'[f]]
    BY <1>1, <2>1
  <2>3. \A f \in DOMAIN table :
          table'[f] = table[f] \/ (table[f] \in Moved(c) /\ table'[f] \in Moved(c))
    BY <2>1
  <2>4. Of("file", c)' \cup Of("udp", c)' = {}
    BY <1>8, <2>1 DEF Of
  <2>5. conn' = [conn EXCEPT ![c] = "open"]
    BY <1>11 DEF Now
  <2>6. QED BY <1>2, <2>2, <2>3, <2>4, <2>5, StayAccount
<1>12. CASE table' = Lose(w.table) /\ Now(c, "open")
  <2>1. table' = [f \in DOMAIN table |-> table'[f]]
    BY <1>6, <1>12 DEF Lose
  <2>2. ASSUME NEW f \in DOMAIN table
        PROVE  table'[f] = table[f] \/ (table[f] = Free /\ table'[f] = Fd("lost", None))
    <3>1. table'[f] = IF w.table[f].what = "lookup" THEN Fd("lost", None) ELSE w.table[f]
      BY <1>6, <1>12 DEF Lose
    <3>2. QED BY <1>6, <1>9, <3>1 DEF Fd
  <2>3. \A f \in DOMAIN table :
          table'[f] = table[f] \/ (table[f] \in Moved(c) /\ table'[f] \in Moved(c))
    BY <2>2 DEF Moved
  <2>4. Of("file", c)' \cup Of("udp", c)' = {}
    <3>1. \A f \in DOMAIN table : table'[f] # Fd("file", c) /\ table'[f] # Fd("udp", c)
      BY <1>8, <2>2 DEF Fd
    <3>2. QED BY <2>1, <3>1 DEF Of
  <2>5. conn' = [conn EXCEPT ![c] = "open"]
    BY <1>12 DEF Now
  <2>6. QED BY <1>2, <2>1, <2>3, <2>4, <2>5, StayAccount
<1>13. CASE Status(q, w) = 200 /\ Hangup(c, Close(w.table, w.fd))
  <2>1. Close(w.table, w.fd) = table
    BY <1>13, <1>10
  <2>2. table' = CloseAll(table, {"sock"}, c) /\ conn' = [conn EXCEPT ![c] = "gone"]
    BY <1>13, <2>1 DEF Hangup, Now
  <2>3. table' \in [0..n-1 -> Entry] /\ Without(table, table', {"sock"}, c)
    <3>1. {"sock"} \in SUBSET {"sock", "file", "udp"}
      OBVIOUS
    <3>2. QED BY <1>1, <2>2, <3>1, CloseAllFacts
  <2>4. table' = [f \in DOMAIN table |-> table'[f]]
    BY <1>1, <2>3
  <2>5. {} \in SUBSET {"file", "udp"} /\ Without(table, table', {} \cup {"sock"}, c)
    <3>1. {} \cup {"sock"} = {"sock"}
      OBVIOUS
    <3>2. QED BY <2>3, <3>1
  <2>6. QED BY <1>2, <2>2, <2>4, <2>5, GoneAccount
<1>14. CASE Status(q, w) = 200 /\ table' = Keep(w.table, w.fd, c) /\ Now(c, "busy")
  <2>1. w.fd \in DOMAIN table /\ table[w.fd] = Free
        /\ w.table = [table EXCEPT ![w.fd] = Fd("lookup", c)]
    BY <1>7, <1>14
  <2>2. [w.table EXCEPT ![w.fd] = Fd("file", c)] = [table EXCEPT ![w.fd] = Fd("file", c)]
    <3> DEFINE x == Fd("lookup", c)
               y == Fd("file", c)
    <3> HIDE DEF x, y
    <3>1. [[table EXCEPT ![w.fd] = x] EXCEPT ![w.fd] = y] = [table EXCEPT ![w.fd] = y]
      BY <1>1, <2>1
    <3>2. QED BY <2>1, <3>1 DEF x, y
  <2>3. table' = [table EXCEPT ![w.fd] = Fd("file", c)]
    <3> DEFINE v == [table EXCEPT ![w.fd] = Fd("file", c)]
    <3>1. table' = Lose(v)
      BY <1>14, <2>2 DEF Keep
    <3>2. \A f \in DOMAIN table : v[f].what # "lookup"
      BY <1>1, <1>9, <2>1 DEF Fd
    <3>3. v = [f \in DOMAIN table |-> v[f]]
      BY <1>1
    <3> HIDE DEF v
    <3>4. Lose(v) = v
      BY <3>2, <3>3 DEF Lose
    <3>5. QED BY <3>1, <3>4 DEF v
  <2>4. table' = [f \in DOMAIN table |-> table'[f]]
    BY <1>1, <2>3
  <2>5. \A f \in DOMAIN table :
          table'[f] = table[f] \/ (table[f] \in Moved(c) /\ table'[f] \in Moved(c))
    BY <1>1, <2>1, <2>3 DEF Moved
  <2>6. One(Of("file", c)' \cup Of("udp", c)')
    <3>1. Of("udp", c)' = {} /\ Of("file", c)' = {w.fd}
      <4>1. Fd("udp", c) # Fd("file", c)
        BY DEF Fd
      <4>2. \A f \in DOMAIN table : table'[f] # Fd("udp", c)
        BY <1>8, <2>1, <2>3, <4>1
      <4>3. \A f \in DOMAIN table : table'[f] = Fd("file", c) <=> f = w.fd
        BY <1>1, <1>8, <2>1, <2>3
      <4>4. QED BY <2>1, <2>4, <4>2, <4>3 DEF Of
    <3>2. QED BY <3>1 DEF One
  <2>7. conn' = [conn EXCEPT ![c] = "busy"]
    BY <1>14 DEF Now
  <2>8. QED BY <1>2, <2>4, <2>5, <2>6, <2>7, StayAccount
<1>15. QED BY <1>4, <1>11, <1>12, <1>13, <1>14

-----------------------------------------------------------------------------
(* The clients and the listener                                            *)

\* What keeps the account keeps it: nothing of it changes but who has yet to be answered.
LEMMA QuietAccount ==
  ASSUME Accounted, ListenerIsFirst, UNCHANGED <<nfiles, table>>,
         listener' \in {"accept", "wait", "sleep", "dead"},
         listener' = "dead" <=> listener = "dead",
         conn' \in [Clients -> {"new", "pending", "open", "sent", "busy", "gone"}],
         \A c \in Clients : \/ conn'[c] = conn[c]
                            \/ conn[c] = "new" /\ conn'[c] = "pending"
                            \/ conn[c] = "open" /\ conn'[c] = "sent"
  PROVE  Accounted' /\ ListenerIsFirst'
<1>1. \A what, d : Of(what, d)' = Of(what, d)
  BY DEF Of
<1>2. TypeOK' /\ OneIsLeft' /\ ListenerIsFirst'
  BY DEF Accounted, TypeOK, OneIsLeft, ListenerIsFirst
<1>3. SocketsOfTasks'
  <2> SUFFICES ASSUME NEW c \in Clients
               PROVE  IF conn'[c] \in {"open", "sent", "busy"} THEN One(Of("sock", c)')
                      ELSE Of("sock", c)' = {}
    BY DEF SocketsOfTasks, One
  <2>1. IF conn[c] \in {"open", "sent", "busy"} THEN One(Of("sock", c)) ELSE Of("sock", c) = {}
    BY DEF Accounted, SocketsOfTasks
  <2>2. conn'[c] \in {"open", "sent", "busy"} <=> conn[c] \in {"open", "sent", "busy"}
    OBVIOUS
  <2>3. Of("sock", c)' = Of("sock", c)
    BY <1>1
  <2>4. QED BY <2>1, <2>2, <2>3
<1>4. FilesOfRequests'
  <2> SUFFICES ASSUME NEW c \in Clients
               PROVE  IF conn'[c] = "busy" THEN One(Of("file", c)' \cup Of("udp", c)')
                      ELSE Of("file", c)' \cup Of("udp", c)' = {}
    BY DEF FilesOfRequests, One
  <2>1. IF conn[c] = "busy" THEN One(Of("file", c) \cup Of("udp", c))
        ELSE Of("file", c) \cup Of("udp", c) = {}
    BY DEF Accounted, FilesOfRequests
  <2>2. conn'[c] = "busy" <=> conn[c] = "busy"
    OBVIOUS
  <2>3. Of("file", c)' = Of("file", c) /\ Of("udp", c)' = Of("udp", c)
    BY <1>1
  <2>4. QED BY <2>1, <2>2, <2>3
<1>5. (Of("listen", None) = IF listener = "dead" THEN {} ELSE {0})'
  BY <1>1 DEF Accounted
<1>6. QED BY <1>2, <1>3, <1>4, <1>5 DEF Accounted

LEMMA ConnectKeepsIInv ==
  ASSUME IInv, NEW c \in Clients, Connect(c) PROVE IInv'
<1>1. TypeOK /\ BacklogSound
  BY DEF IInv, Accounted
<1>2. Accounted' /\ ListenerIsFirst'
  BY <1>1, QuietAccount DEF IInv, Connect, TypeOK
<1>3. ListenerSurvives' /\ AskedSound'
  BY <1>1 DEF IInv, Connect, TypeOK, ListenerSurvives, Limited, AskedSound
<1>4. BacklogSound'
  <2>1. /\ backlog \in Seq(Clients) /\ Len(backlog) \in Nat
        /\ DOMAIN backlog = 1..Len(backlog) /\ \A i \in DOMAIN backlog : backlog[i] \in Clients
    BY <1>1 DEF BacklogSound
  <2>2. /\ backlog' \in Seq(Clients) /\ DOMAIN backlog' = 1..Len(backlog) + 1
        /\ backlog'[Len(backlog) + 1] = c
        /\ \A i \in DOMAIN backlog : backlog'[i] = backlog[i]
    BY <2>1 DEF Connect
  <2>3. \A i \in DOMAIN backlog : backlog[i] # c
    BY <1>1 DEF BacklogSound, Connect
  <2>4. conn'[c] = "pending" /\ \A d \in Clients : d # c => conn'[d] = conn[d]
    BY <1>1 DEF Connect, TypeOK
  <2>5. \A i \in DOMAIN backlog' : i \in DOMAIN backlog \/ i = Len(backlog) + 1
    BY <2>1, <2>2
  <2>6. \A i, j \in DOMAIN backlog' : backlog'[i] = backlog'[j] => i = j
    BY <1>1, <2>2, <2>3, <2>5 DEF BacklogSound
  <2>7. \A i \in DOMAIN backlog' : conn'[backlog'[i]] = "pending"
    BY <1>1, <2>1, <2>2, <2>3, <2>4, <2>5 DEF BacklogSound
  <2>8. QED BY <2>2, <2>6, <2>7 DEF BacklogSound
<1>5. QED BY <1>2, <1>3, <1>4 DEF IInv

LEMMA SendKeepsIInv ==
  ASSUME IInv, NEW c \in Clients, NEW q \in Requests, Send(c, q) PROVE IInv'
<1>1. TypeOK /\ BacklogSound /\ AskedSound
  BY DEF IInv, Accounted
<1>2. Accounted' /\ ListenerIsFirst'
  BY <1>1, QuietAccount DEF IInv, Send, TypeOK
<1>3. ListenerSurvives' /\ AskedSound'
  BY <1>1 DEF IInv, Send, TypeOK, ListenerSurvives, Limited, AskedSound
<1>4. BacklogSound'
  BY <1>1 DEF Send, TypeOK, BacklogSound
<1>5. QED BY <1>2, <1>3, <1>4 DEF IInv

\* Neither waiting nor sleeping nor waking changes anything else.
LEMMA RestingKeepsIInv ==
  ASSUME IInv, AcceptFull \/ AcceptNone \/ Wake PROVE IInv'
<1>1. /\ UNCHANGED <<nfiles, table, backlog, conn, asked, count>>
      /\ listener' \in {"accept", "wait", "sleep"} /\ listener # "dead"
  BY DEF AcceptFull, AcceptNone, Wake
<1>2. Accounted' /\ ListenerIsFirst'
  BY <1>1, QuietAccount DEF IInv, Accounted, TypeOK
<1>3. QED BY <1>1, <1>2 DEF IInv, ListenerSurvives, Limited, AskedSound, BacklogSound

\* A limit that is kept to leaves no descriptor that the reactor refuses.
LEMMA TooHighKeepsIInv ==
  ASSUME IInv, AcceptTooHigh PROVE IInv'
<1> DEFINE n == Limit(nfiles)
<1>1. /\ TypeOK /\ SocketsOfTasks /\ FilesOfRequests /\ OneIsLeft
      /\ Of("listen", None) = {0} /\ ListenerIsFirst
  BY DEF IInv, Accounted, AcceptTooHigh
<1>2. n \in Nat /\ n >= 2 /\ (Limited => n < FdSetSize) /\ FdSetSize \in Nat
  BY <1>1, LimitFacts, LimitAssumption DEF TypeOK
<1>3. table \in [0..n-1 -> Entry]
  BY <1>1 DEF TypeOK, Entry
<1>4. ListenerSurvives'
  <2>1. Lowest(table) \in 0..n-1
    BY <1>2, <1>3, LowestFacts DEF AcceptTooHigh
  <2>2. ~Limited
    BY <1>2, <2>1 DEF AcceptTooHigh
  <2>3. QED BY <2>2 DEF AcceptTooHigh, ListenerSurvives, Limited
<1>5. /\ table' = [f \in DOMAIN table |-> table'[f]]
      /\ \A f \in DOMAIN table :
           table'[f] = IF table[f].what = "listen" THEN Free ELSE table[f]
  BY DEF AcceptTooHigh
<1>6. \A what \in {"sock", "file", "udp"} : \A d \in Clients : Of(what, d)' = Of(what, d)
  <2> SUFFICES ASSUME NEW what \in {"sock", "file", "udp"}, NEW d \in Clients
               PROVE  Of(what, d)' = Of(what, d)
    OBVIOUS
  <2>1. \A f \in DOMAIN table : table'[f] = Fd(what, d) <=> table[f] = Fd(what, d)
    BY <1>5 DEF Fd, Free
  <2>2. QED BY <1>5, <2>1 DEF Of
<1>7. conn' = [c \in Clients |-> IF conn[c] = "pending" THEN "gone" ELSE conn[c]]
  BY DEF AcceptTooHigh
<1>8. TypeOK'
  <2>1. Free \in Entry
    BY DEF Free, Fd, Entry
  <2>2. table' \in [0..n-1 -> Entry]
    BY <1>3, <1>5, <2>1
  <2>3. conn' \in [Clients -> {"new", "pending", "open", "sent", "busy", "gone"}]
    BY <1>1, <1>7 DEF TypeOK
  <2>4. QED BY <1>1, <2>2, <2>3 DEF TypeOK, AcceptTooHigh, Entry
<1>9. SocketsOfTasks'
  <2> SUFFICES ASSUME NEW c \in Clients
               PROVE  IF conn'[c] \in {"open", "sent", "busy"} THEN One(Of("sock", c)')
                      ELSE Of("sock", c)' = {}
    BY DEF SocketsOfTasks, One
  <2>1. IF conn[c] \in {"open", "sent", "busy"} THEN One(Of("sock", c)) ELSE Of("sock", c) = {}
    BY <1>1 DEF SocketsOfTasks
  <2>2. conn'[c] \in {"open", "sent", "busy"} <=> conn[c] \in {"open", "sent", "busy"}
    BY <1>7
  <2>3. QED BY <1>6, <2>1, <2>2
<1>10. FilesOfRequests'
  <2> SUFFICES ASSUME NEW c \in Clients
               PROVE  IF conn'[c] = "busy" THEN One(Of("file", c)' \cup Of("udp", c)')
                      ELSE Of("file", c)' \cup Of("udp", c)' = {}
    BY DEF FilesOfRequests, One
  <2>1. IF conn[c] = "busy" THEN One(Of("file", c) \cup Of("udp", c))
        ELSE Of("file", c) \cup Of("udp", c) = {}
    BY <1>1 DEF FilesOfRequests
  <2>2. conn'[c] = "busy" <=> conn[c] = "busy"
    BY <1>7
  <2>3. QED BY <1>6, <2>1, <2>2
<1>11. OneIsLeft' /\ ListenerIsFirst'
  <2>1. PICK f \in DOMAIN table : f # 0 /\ table[f].what # "lost"
    BY <1>1 DEF OneIsLeft
  <2>2. table'[f].what # "lost"
    BY <1>5, <2>1 DEF Free, Fd
  <2>3. OneIsLeft'
    BY <1>5, <2>1, <2>2 DEF OneIsLeft
  <2>4. 0 \in DOMAIN table
    BY <1>2, <1>3
  <2>5. QED BY <1>1, <1>5, <2>3, <2>4 DEF ListenerIsFirst, Free, Fd
<1>12. Of("listen", None)' = {} /\ listener' = "dead"
  <2>1. \A f \in DOMAIN table : table'[f] # Fd("listen", None)
    BY <1>5 DEF Free, Fd
  <2>2. QED BY <1>5, <2>1 DEF Of, AcceptTooHigh
<1>13. AskedSound'
  BY <1>1, <1>7 DEF IInv, AskedSound, AcceptTooHigh, TypeOK
<1>14. BacklogSound'
  <2>1. backlog' = <<>>
    BY DEF AcceptTooHigh
  <2>2. backlog' \in Seq(Clients) /\ DOMAIN backlog' = {}
    BY <2>1, EmptySeq
  <2>3. QED BY <2>2 DEF BacklogSound
<1>15. Accounted'
  BY <1>8, <1>9, <1>10, <1>11, <1>12 DEF Accounted
<1>16. QED BY <1>4, <1>11, <1>13, <1>14, <1>15 DEF IInv

LEMMA AcceptKeepsIInv ==
  ASSUME IInv, Accept PROVE IInv'
<1> DEFINE n == Limit(nfiles)
           lo == Lowest(table)
<1>1. /\ TypeOK /\ SocketsOfTasks /\ FilesOfRequests /\ BacklogSound /\ AskedSound
      /\ Of("listen", None) = {0} /\ ListenerIsFirst
  BY DEF IInv, Accounted, Accept
<1>2. n \in Nat /\ n >= 2 /\ table \in [0..n-1 -> Entry]
  BY <1>1, LimitFacts DEF TypeOK, Entry
<1>3. lo \in 0..n-1 /\ table[lo] = Free
  BY <1>2, LowestFacts DEF Accept
<1>4. /\ backlog \in Seq(Clients) /\ backlog # <<>> /\ Len(backlog) \in Nat /\ Len(backlog) >= 1
      /\ DOMAIN backlog = 1..Len(backlog) /\ 1 \in DOMAIN backlog /\ Head(backlog) = backlog[1]
  BY <1>1 DEF BacklogSound, Accept
<1>5. PICK c \in Clients : c = backlog[1] /\ c = Head(backlog) /\ conn[c] = "pending"
  BY <1>1, <1>4 DEF BacklogSound
<1>6. table' = [table EXCEPT ![lo] = Fd("sock", c)] /\ conn' = [conn EXCEPT ![c] = "open"]
  BY <1>5 DEF Accept, Open
<1>7. /\ backlog' = Tail(backlog)
      /\ nfiles' = nfiles /\ listener' = listener /\ listener = "accept" /\ asked' = asked
  BY DEF Accept
<1> HIDE DEF lo
<1>8. lo # 0
  <2>1. 0 \in Of("listen", None)
    BY <1>1
  <2>2. table[0] = Fd("listen", None)
    BY <2>1 DEF Of
  <2>3. QED BY <1>3, <2>2 DEF Fd, Free
<1>9. DOMAIN table' = DOMAIN table /\ table' = [f \in DOMAIN table |-> table'[f]]
  BY <1>2, <1>6
<1>10. conn'[c] = "open" /\ \A d \in Clients \ {c} : conn'[d] = conn[d]
  BY <1>1, <1>5, <1>6 DEF TypeOK
<1>11. \A f \in DOMAIN table :
         table'[f] = table[f] \/ (table[f] \in Owned(c) /\ table'[f] \in Owned(c))
  BY <1>2, <1>3, <1>6 DEF Owned
<1>12. \A d \in Clients \ {c} : \A what \in {"sock", "file", "udp"} : Of(what, d)' = Of(what, d)
  BY <1>1, <1>5, <1>9, <1>11, OthersKeep
<1>13. Of("sock", c)' = {lo} /\ Of("file", c)' = {} /\ Of("udp", c)' = {}
  <2>1. Of("sock", c) = {} /\ Of("file", c) \cup Of("udp", c) = {}
    BY <1>1, <1>5 DEF SocketsOfTasks, FilesOfRequests
  <2>2. \A f \in DOMAIN table : /\ table[f] # Fd("sock", c) /\ table[f] # Fd("file", c)
                                /\ table[f] # Fd("udp", c)
    BY <2>1 DEF Of
  <2>3. Fd("sock", c) # Fd("file", c) /\ Fd("sock", c) # Fd("udp", c)
    BY DEF Fd
  <2>4. \A f \in DOMAIN table : /\ table'[f] = Fd("sock", c) <=> f = lo
                                /\ table'[f] # Fd("file", c) /\ table'[f] # Fd("udp", c)
    BY <1>2, <1>3, <1>6, <2>2, <2>3
  <2>5. QED BY <1>2, <1>3, <1>9, <2>4 DEF Of
<1>14. TypeOK'
  <2>1. table' \in [0..n-1 -> Entry]
    BY <1>2, <1>5, <1>9, <1>11, OwnedAreEntries
  <2>2. conn' \in [Clients -> {"new", "pending", "open", "sent", "busy", "gone"}]
    BY <1>1, <1>6 DEF TypeOK
  <2>3. QED BY <1>1, <1>7, <2>1, <2>2 DEF TypeOK, Entry
<1>15. SocketsOfTasks'
  <2> SUFFICES ASSUME NEW d \in Clients
               PROVE  IF conn'[d] \in {"open", "sent", "busy"} THEN One(Of("sock", d)')
                      ELSE Of("sock", d)' = {}
    BY DEF SocketsOfTasks, One
  <2>1. CASE d = c
    BY <1>10, <1>13, <2>1 DEF One
  <2>2. CASE d # c
    <3>1. IF conn[d] \in {"open", "sent", "busy"} THEN One(Of("sock", d)) ELSE Of("sock", d) = {}
      BY <1>1 DEF SocketsOfTasks
    <3>2. Of("sock", d)' = Of("sock", d) /\ conn'[d] = conn[d]
      BY <1>10, <1>12, <2>2
    <3>3. QED BY <3>1, <3>2
  <2>3. QED BY <2>1, <2>2
<1>16. FilesOfRequests'
  <2> SUFFICES ASSUME NEW d \in Clients
               PROVE  IF conn'[d] = "busy" THEN One(Of("file", d)' \cup Of("udp", d)')
                      ELSE Of("file", d)' \cup Of("udp", d)' = {}
    BY DEF FilesOfRequests, One
  <2>1. CASE d = c
    BY <1>10, <1>13, <2>1
  <2>2. CASE d # c
    <3>1. IF conn[d] = "busy" THEN One(Of("file", d) \cup Of("udp", d))
          ELSE Of("file", d) \cup Of("udp", d) = {}
      BY <1>1 DEF FilesOfRequests
    <3>2. Of("file", d)' = Of("file", d) /\ Of("udp", d)' = Of("udp", d) /\ conn'[d] = conn[d]
      BY <1>10, <1>12, <2>2
    <3>3. QED BY <3>1, <3>2
  <2>3. QED BY <2>1, <2>2
<1>17. OneIsLeft' /\ ListenerIsFirst'
  <2>1. table'[lo] = Fd("sock", c) /\ table'[0] = table[0]
    BY <1>2, <1>3, <1>6, <1>8
  <2>2. QED BY <1>1, <1>2, <1>3, <1>8, <1>9, <2>1 DEF OneIsLeft, ListenerIsFirst, Fd
<1>18. Of("listen", None)' = {0}
  BY <1>1, <1>5, <1>9, <1>11, ListenerKeeps
<1>19. Accounted'
  BY <1>7, <1>14, <1>15, <1>16, <1>17, <1>18 DEF Accounted
<1>20. AskedSound' /\ ListenerSurvives'
  BY <1>1, <1>7, <1>10 DEF AskedSound, ListenerSurvives
<1>21. BacklogSound'
  <2>1. /\ backlog' \in Seq(Clients) /\ DOMAIN backlog' = 1..Len(backlog) - 1
        /\ \A i \in 1..Len(backlog) - 1 : backlog'[i] = backlog[i + 1]
    BY <1>4, <1>7
  <2>2. \A i \in 1..Len(backlog) - 1 : /\ i + 1 \in DOMAIN backlog /\ i + 1 # 1
                                       /\ backlog[i + 1] \in Clients /\ backlog[i + 1] # c
    BY <1>1, <1>4, <1>5 DEF BacklogSound
  <2>3. \A i \in DOMAIN backlog' : conn'[backlog'[i]] = "pending"
    BY <1>1, <1>10, <2>1, <2>2 DEF BacklogSound
  <2>4. \A i, j \in DOMAIN backlog' : backlog'[i] = backlog'[j] => i = j
    <3> SUFFICES ASSUME NEW i \in 1..Len(backlog) - 1, NEW j \in 1..Len(backlog) - 1,
                        backlog[i + 1] = backlog[j + 1]
                 PROVE  i = j
      BY <2>1
    <3>1. i + 1 = j + 1
      BY <1>1, <2>2 DEF BacklogSound
    <3>2. QED BY <1>4, <3>1
  <2>5. QED BY <2>1, <2>3, <2>4 DEF BacklogSound
<1>22. QED BY <1>17, <1>19, <1>20, <1>21 DEF IInv

-----------------------------------------------------------------------------
(* The theorems                                                            *)

LEMMA InitIInv == Init => IInv
<1> SUFFICES ASSUME Init PROVE IInv
  OBVIOUS
<1> DEFINE n == Limit(nfiles)
<1>1. nfiles \in Nfiles /\ n \in Nat /\ n >= 2
  BY LimitFacts DEF Init
<1>2. table = [f \in 0..n-1 |-> IF f = 0 THEN Fd("listen", None) ELSE Free]
  BY DEF Init
<1>3. conn = [c \in Clients |-> "new"] /\ listener = "accept" /\ backlog = <<>>
  BY DEF Init
<1>4. table[0] = Fd("listen", None) /\ table[1] = Free /\ 1 \in DOMAIN table
  BY <1>1, <1>2
<1>5. ASSUME NEW what \in {"sock", "file", "udp"}, NEW c \in Clients PROVE Of(what, c) = {}
  BY <1>2 DEF Of, Fd, Free
<1>6. Of("listen", None) = {0}
  BY <1>1, <1>2 DEF Of, Fd, Free
<1>7. TypeOK
  <2>1. Fd("listen", None) \in Entry /\ Free \in Entry
    BY DEF Fd, Free, Entry
  <2>2. table \in [0..n-1 -> Entry]
    BY <1>2, <2>1
  <2>3. QED BY <1>1, <1>3, <2>2 DEF TypeOK, Entry
<1>8. SocketsOfTasks /\ FilesOfRequests
  BY <1>3, <1>5 DEF SocketsOfTasks, FilesOfRequests
<1>9. OneIsLeft /\ ListenerIsFirst
  BY <1>4 DEF OneIsLeft, ListenerIsFirst, Fd, Free
<1>10. Accounted
  BY <1>3, <1>6, <1>7, <1>8, <1>9 DEF Accounted
<1>11. ListenerSurvives
  BY <1>3 DEF ListenerSurvives
<1>12. AskedSound
  BY <1>3 DEF AskedSound, Init
<1>13. BacklogSound
  <2>1. backlog \in Seq(Clients) /\ DOMAIN backlog = {}
    BY <1>3, EmptySeq
  <2>2. QED BY <2>1 DEF BacklogSound
<1>14. QED BY <1>9, <1>10, <1>11, <1>12, <1>13 DEF IInv

LEMMA NextIInv == IInv /\ [Next]_vars => IInv'
<1> SUFFICES ASSUME IInv, [Next]_vars PROVE IInv'
  OBVIOUS
<1>1. ASSUME NEW c \in Clients, Connect(c) PROVE IInv'
  BY <1>1, ConnectKeepsIInv
<1>2. ASSUME NEW c \in Clients, NEW q \in Requests, Send(c, q) PROVE IInv'
  BY <1>2, SendKeepsIInv
<1>3. CASE ListenerStep
  BY <1>3, AcceptKeepsIInv, TooHighKeepsIInv, RestingKeepsIInv DEF ListenerStep
<1>4. ASSUME NEW c \in Clients, TaskStep(c) PROVE IInv'
  BY <1>4, StaticKeepsIInv, DnsKeepsIInv, FinishKeepsIInv, AbortKeepsIInv, IdleKeepsIInv
     DEF TaskStep
<1>5. CASE UNCHANGED vars
  <2>1. UNCHANGED <<nfiles, table, listener, backlog, conn, asked>>
    BY <1>5 DEF vars
  <2>2. Accounted' /\ ListenerIsFirst'
    BY <2>1, QuietAccount DEF IInv, Accounted, TypeOK
  <2>3. QED BY <2>1, <2>2 DEF IInv, ListenerSurvives, Limited, AskedSound, BacklogSound
<1>6. QED BY <1>1, <1>2, <1>3, <1>4, <1>5 DEF Next

\* The invariant holds in every behaviour.
THEOREM IInvHolds == Spec => []IInv
<1>1. IInv /\ [Next]_vars => IInv'
  BY NextIInv
<1>2. QED BY <1>1, InitIInv, PTL DEF Spec

\* Every descriptor of the server has an owner, and every task what its state calls for; one is
\* always left for the next connection, whatever the lookups lose.
THEOREM DescriptorsAccounted == Spec => []Accounted
<1>1. IInv => Accounted
  BY DEF IInv
<1>2. QED BY <1>1, IInvHolds, PTL

\* Running out of descriptors never ends the listener, unless a low --nfiles has switched off
\* the limit that would have kept them below FD_SETSIZE.
THEOREM ListenerCorrect == Spec => []ListenerSurvives
<1>1. IInv => ListenerSurvives
  BY DEF IInv
<1>2. QED BY <1>1, IInvHolds, PTL

-----------------------------------------------------------------------------
(* What a lookup finds                                                     *)

\* What one more name makes of a node.
Deeper(node, name) ==
  IF node = None THEN None
  ELSE IF ~IsDir(node) \/ name = "." THEN node
  ELSE IF name \in Names(node) THEN Children[node][name]
  ELSE None

IsNaming(a, path, n) == a = [i \in 0..n |-> IF i = 0 THEN Root ELSE Deeper(a[i - 1], path[i])]

LEMMA NamingExists ==
  ASSUME NEW path, NEW n \in Nat
  PROVE  \E a : IsNaming(a, path, n)
<1> DEFINE bad == {k \in Nat : \A a : ~IsNaming(a, path, k)}
<1> SUFFICES ASSUME bad # {} PROVE FALSE
  OBVIOUS
<1>1. PICK k \in bad : \A l \in bad : k <= l
  <2>1. bad \in SUBSET Nat
    OBVIOUS
  <2>2. QED BY <2>1, Least
<1>2. CASE k = 0
  <2> DEFINE a == [i \in 0..0 |-> Root]
  <2>1. IsNaming(a, path, 0)
    BY DEF IsNaming
  <2>2. QED BY <2>1, <1>1, <1>2
<1>3. CASE k > 0
  <2>1. k - 1 \in Nat /\ k - 1 \notin bad
    BY <1>1, <1>3
  <2>2. PICK b : IsNaming(b, path, k - 1)
    BY <2>1
  <2> DEFINE a == [i \in 0..k |-> IF i = 0 THEN Root ELSE Deeper(b[i - 1], path[i])]
  <2>3. ASSUME NEW i \in 0..k, i # 0 PROVE a[i - 1] = b[i - 1]
    <3>1. i - 1 \in 0..k - 1 /\ i - 1 \in 0..k
      BY <2>3, <1>3
    <3>2. b[i - 1] = IF i - 1 = 0 THEN Root ELSE Deeper(b[(i - 1) - 1], path[i - 1])
      BY <3>1, <2>2 DEF IsNaming
    <3>3. QED BY <3>1, <3>2
  <2>4. IsNaming(a, path, k)
    <3>1. a = [i \in 0..k |-> IF i = 0 THEN Root ELSE Deeper(a[i - 1], path[i])]
      BY <2>3
    <3> HIDE DEF a
    <3>2. QED BY <3>1 DEF IsNaming
  <2>5. QED BY <2>4, <1>1
<1>4. QED BY <1>1, <1>2, <1>3

LEMMA NamedIs ==
  ASSUME NEW path, Len(path) \in Nat
  PROVE  \E a : IsNaming(a, path, Len(path)) /\ Named(path) = a[Len(path)]
<1> DEFINE n == Len(path)
<1>1. \E a : IsNaming(a, path, n)
  BY NamingExists
<1>2. Named(path) = (CHOOSE a : IsNaming(a, path, n))[n]
  BY DEF Named, IsNaming, Deeper
<1>3. QED BY <1>1, <1>2

\* All but the last name lead to the directory of the last.
LEMMA NamedFront ==
  ASSUME NEW path \in Seq(STRING), path # <<>>, NEW a, IsNaming(a, path, Len(path))
  PROVE  Named(Front(path)) = a[Len(path) - 1]
<1> DEFINE n == Len(path)
<1>1. n \in Nat /\ n >= 1
  BY EmptySeq
<1>2. Len(Front(path)) = n - 1 /\ \A i \in 1..n - 1 : Front(path)[i] = path[i]
  <2>1. /\ Front(path) = SubSeq(path, 1, n - 1)
        /\ n - 1 \in 0..n
    BY <1>1 DEF Front
  <2>2. QED BY <1>1, <2>1, TakeFacts
<1>3. PICK b : IsNaming(b, Front(path), n - 1) /\ Named(Front(path)) = b[n - 1]
  BY <1>1, <1>2, NamedIs
<1> DEFINE bad == {i \in 0..n - 1 : b[i] # a[i]}
<1>4. bad = {}
  <2> SUFFICES ASSUME bad # {} PROVE FALSE
    OBVIOUS
  <2>1. PICK k \in bad : \A l \in bad : k <= l
    <3>1. bad \in SUBSET Nat
      OBVIOUS
    <3> HIDE DEF bad
    <3>2. QED BY <3>1, Least
  <2>2. /\ b[k] = IF k = 0 THEN Root ELSE Deeper(b[k - 1], Front(path)[k])
        /\ a[k] = IF k = 0 THEN Root ELSE Deeper(a[k - 1], path[k])
    <3>1. k \in 0..n - 1 /\ k \in 0..n
      BY <1>1, <2>1
    <3> HIDE DEF bad, n
    <3>2. QED BY <1>3, <3>1 DEF IsNaming, n
  <2>3. k # 0
    BY <2>2
  <2>4. k - 1 \in 0..n - 1 /\ k - 1 \notin bad /\ k \in 1..n - 1
    BY <1>1, <2>1, <2>3
  <2>5. QED BY <1>2, <2>2, <2>3, <2>4
<1>5. QED BY <1>1, <1>3, <1>4

HasFields(w) == DOMAIN w = {"table", "fd", "node", "status", "file", "writes"}

\* Where the walk has come to after i names, against what these names say.
Agrees(w, a, i, n) ==
  /\ HasFields(w)
  /\ w.status \in {Going, 200, 404, 500}
  /\ w.status = Going => w.node = a[i] /\ IsDir(a[i])
  /\ w.status = 200 => w.node = a[i] /\ ~IsDir(a[i])
  /\ w.status = 404 => a[i] = None
  /\ w.writes \in BOOLEAN
  /\ w.writes => w.status = 200 /\ i = n /\ n > 0 /\ IsDir(a[n - 1])

\* Going into a node, whatever the descriptors are.
LEMMA IntoNode ==
  ASSUME NEW w, NEW c, DOMAIN w = {"table", "fd", "node", "status", "file", "writes"}
  PROVE  /\ DOMAIN Into(w, c) = DOMAIN w
         /\ Into(w, c).status = w.status /\ Into(w, c).writes = w.writes
BY DEF Into

\* One name takes the walk to where it takes the naming.
LEMMA StepAgrees ==
  ASSUME NEW c, NEW a, NEW n \in Nat, NEW k \in 1..n, NEW name,
         NEW w, Agrees(w, a, k - 1, n), w.status = Going, a[k] = Deeper(a[k - 1], name),
         NEW create \in BOOLEAN, NEW last \in BOOLEAN, last <=> k = n
  PROVE  Agrees(Step(w, c, create, name, last), a, k, n)
<1> DEFINE exists == name \in Names(w.node)
           child  == IF exists THEN Children[w.node][name] ELSE None
           after  == Step(w, c, create, name, last)
<1>1. /\ DOMAIN w = {"table", "fd", "node", "status", "file", "writes"}
      /\ HasFields(w) /\ w.node = a[k - 1] /\ IsDir(w.node) /\ w.writes = FALSE
  BY DEF Agrees, HasFields, Going
<1>2. w.node # None
  BY <1>1, TreeAssumption DEF IsDir
<1>3. ASSUME NEW status \in {404, 500}, status = 404 => a[k] = None
      PROVE  Agrees(Fails(w, status), a, k, n) /\ Agrees(Leaks(w, status), a, k, n)
  <2>1. /\ Fails(w, status).status = status /\ Fails(w, status).writes = FALSE
        /\ DOMAIN Fails(w, status) = DOMAIN w
        /\ Leaks(w, status).status = status /\ Leaks(w, status).writes = FALSE
        /\ DOMAIN Leaks(w, status) = DOMAIN w
    BY <1>1 DEF Fails, Leaks
  <2>2. ASSUME NEW x, x.status = status, x.writes = FALSE, DOMAIN x = DOMAIN w
        PROVE  Agrees(x, a, k, n)
    <3>1. x.status # Going /\ x.status # 200 /\ x.status \in {Going, 200, 404, 500}
      BY <2>2 DEF Going
    <3>2. x.writes \in BOOLEAN /\ ~x.writes
      BY <2>2, Zenon
    <3>3. x.status = 404 => a[k] = None
      BY <1>3, <2>2
    <3>4. HasFields(x)
      BY <1>1, <2>2 DEF HasFields
    <3>5. QED BY <3>1, <3>2, <3>3, <3>4, Zenon DEF Agrees
  <2>3. QED BY <2>1, <2>2
<1>4. CASE name = "."
  <2>1. a[k] = a[k - 1] /\ after = w
    BY <1>1, <1>2, <1>4 DEF Deeper, Step
  <2>2. QED BY <1>1, <2>1 DEF Agrees, Going
<1>5. CASE name = ".."
  <2>1. after = Fails(w, 404)
    BY <1>5 DEF Step
  <2>2. name \notin Names(w.node)
    BY <1>1, <1>5, TreeAssumption DEF IsDir, Names
  <2>3. a[k] = None
    BY <1>1, <1>2, <1>5, <2>2 DEF Deeper
  <2>4. QED BY <1>3, <2>1, <2>3
<1>6. CASE name # "." /\ name # ".."
  <2>1. a[k] = child
    BY <1>1, <1>2, <1>6 DEF Deeper
  <2>2. CASE exists /\ IsDir(child)
    <3>1. after = IF Full(w.table) THEN Leaks(w, 500) ELSE [Into(w, c) EXCEPT !.node = child]
      BY <1>6, <2>2 DEF Step
    <3> DEFINE v == Into(w, c)
               x == [v EXCEPT !.node = child]
    <3>2. DOMAIN v = DOMAIN w /\ v.status = Going /\ v.writes = FALSE
      BY <1>1, IntoNode
    <3> HIDE DEF v, child, after
    <3>3. x.node = child /\ x.status = Going /\ x.writes = FALSE /\ DOMAIN x = DOMAIN w
      BY <1>1, <3>2
    <3> HIDE DEF x
    <3>4. Agrees(x, a, k, n)
      <4>1. IsDir(a[k]) /\ x.node = a[k]
        BY <2>1, <2>2, <3>3 DEF child
      <4>2. Going # 200 /\ Going # 404 /\ Going \in {Going, 200, 404, 500} /\ FALSE \in BOOLEAN
        BY DEF Going
      <4>3. HasFields(x)
        BY <1>1, <3>3 DEF HasFields
      <4>4. QED BY <3>3, <4>1, <4>2, <4>3, Zenon DEF Agrees
    <3>5. QED BY <1>3, <3>1, <3>4 DEF after, x, v
  <2>3. CASE ~exists /\ ~(create /\ last)
    <3>1. after = Leaks(w, 404)
      BY <1>6, <2>3 DEF Step
    <3>2. QED BY <1>3, <2>1, <2>3, <3>1
  <2>4. CASE ~(exists /\ IsDir(child)) /\ ~(~exists /\ ~(create /\ last))
    <3>1. after = IF Full(w.table) THEN Fails(w, 500)
                  ELSE [Into(w, c) EXCEPT !.node = child, !.status = 200, !.file = TRUE,
                                          !.writes = create /\ last]
      BY <1>6, <2>4 DEF Step
    <3> DEFINE v == Into(w, c)
               x == [v EXCEPT !.node = child, !.status = 200, !.file = TRUE,
                              !.writes = create /\ last]
    <3>2. DOMAIN v = DOMAIN w
      BY <1>1, IntoNode
    <3>3. ~IsDir(child)
      BY <2>4, TreeAssumption DEF IsDir
    <3> HIDE DEF v, child, after
    <3>4. x.node = child /\ x.status = 200 /\ x.writes = (create /\ last) /\ DOMAIN x = DOMAIN w
      BY <1>1, <3>2
    <3> HIDE DEF x
    <3>5. Agrees(x, a, k, n)
      BY <1>1, <2>1, <3>3, <3>4 DEF Agrees, HasFields, Going
    <3>6. QED BY <1>3, <3>1, <3>5 DEF after, x, v
  <2>5. QED BY <2>2, <2>3, <2>4
<1>7. QED BY <1>4, <1>5, <1>6

\* A walk that has ended stays where it is, as the names that follow do.
LEMMA EndAgrees ==
  ASSUME NEW a, NEW n \in Nat, NEW k \in 1..n, NEW name,
         NEW w, Agrees(w, a, k - 1, n), w.status # Going, a[k] = Deeper(a[k - 1], name)
  PROVE  Agrees(w, a, k, n)
<1>1. ~w.writes
  BY DEF Agrees
<1>2. CASE w.status = 200
  <2>1. w.node = a[k - 1] /\ ~IsDir(a[k - 1])
    BY <1>2 DEF Agrees
  <2>2. a[k] = a[k - 1]
    BY <2>1 DEF Deeper
  <2>3. w.status # 404
    BY <1>2
  <2>4. w.node = a[k] /\ ~IsDir(a[k])
    BY <2>1, <2>2
  <2>5. QED BY <1>1, <1>2, <2>3, <2>4, Zenon DEF Agrees
<1>3. CASE w.status = 404
  <2>1. a[k] = None
    BY <1>3 DEF Agrees, Deeper
  <2>2. w.status # 200
    BY <1>3
  <2>3. QED BY <1>1, <2>1, <2>2, Zenon DEF Agrees
<1>4. CASE w.status # 200 /\ w.status # 404
  <2>1. HasFields(w) /\ w.status \in {Going, 200, 404, 500} /\ w.writes \in BOOLEAN
    BY DEF Agrees
  <2>2. QED BY <1>1, <1>4, <2>1, Zenon DEF Agrees
<1>5. QED BY <1>2, <1>3, <1>4

\* The walk and the naming arrive at the same node.
LEMMA WalkAgrees ==
  ASSUME NEW q, NEW c, NEW t, NEW n \in Nat, n = Len(Path(q)), NEW a, IsNaming(a, Path(q), n),
         NEW w \in Walk(q, c, t)
  PROVE  Agrees(w, a, n, n)
<1>1. PICK u : IsWalk(u, q, c, t, n) /\ Walk(q, c, t) = u[n]
  BY WalkIs
<1> DEFINE bad == {i \in 0..n : \E v \in u[i] : ~Agrees(v, a, i, n)}
<1>2. bad = {}
  <2> SUFFICES ASSUME bad # {} PROVE FALSE
    OBVIOUS
  <2>1. PICK k \in bad : \A l \in bad : k <= l
    <3>1. bad \in SUBSET Nat
      OBVIOUS
    <3> HIDE DEF bad
    <3>2. QED BY <3>1, Least
  <2>2. /\ u[k] = Onward(q, c, t, k, u[k - 1])
        /\ a[k] = IF k = 0 THEN Root ELSE Deeper(a[k - 1], Path(q)[k])
    BY <1>1 DEF IsWalk, IsNaming
  <2>3. PICK v \in u[k] : ~Agrees(v, a, k, n)
    OBVIOUS
  <2>4. CASE k = 0
    <3>1. v = Start(t, c) /\ a[k] = Root
      BY <2>2, <2>3, <2>4 DEF Onward
    <3>2. IsDir(Root)
      BY TreeAssumption DEF IsDir
    <3>3. Agrees(v, a, k, n)
      BY <3>1, <3>2 DEF Start, Agrees, HasFields, Going
    <3>4. QED BY <2>3, <3>3
  <2>5. CASE k # 0
    <3>1. k - 1 \in 0..n /\ k - 1 \notin bad /\ k \in 1..n
      BY <2>1, <2>5
    <3>2. PICK x \in u[k - 1] :
            v = IF x.status # Going THEN x
                ELSE Step(x, c, q.method = "PUT", Path(q)[k], k = Len(Path(q)))
      BY <2>2, <2>3, <2>5 DEF Onward
    <3>3. Agrees(x, a, k - 1, n) /\ a[k] = Deeper(a[k - 1], Path(q)[k])
      BY <2>2, <2>5, <3>1, <3>2
    <3> DEFINE create == q.method = "PUT"
               last   == k = Len(Path(q))
    <3>4. create \in BOOLEAN /\ last \in BOOLEAN /\ (last <=> k = n)
      OBVIOUS
    <3>5. CASE x.status # Going
      BY <3>1, <3>2, <3>3, <3>5, <2>3, EndAgrees
    <3>6. CASE x.status = Going
      <4>1. v = Step(x, c, create, Path(q)[k], last)
        BY <3>2, <3>6
      <4> HIDE DEF create, last, bad
      <4>2. Agrees(Step(x, c, create, Path(q)[k], last), a, k, n)
        BY <3>1, <3>3, <3>4, <3>6, StepAgrees, Zenon
      <4>3. QED BY <4>1, <4>2, <2>3
    <3>7. QED BY <3>5, <3>6
  <2>6. QED BY <2>4, <2>5
<1>3. QED BY <1>1, <1>2

LEMMA LookupsFind == AskedSound => LookupFinds
<1> SUFFICES ASSUME AskedSound, NEW c \in Clients, conn[c] = "sent", asked[c].method # "POST",
                    Path(asked[c]) = asked[c].path, NEW w \in Walk(asked[c], c, table)
             PROVE  /\ Status(asked[c], w) = 200 => w.node = Named(asked[c].path)
                    /\ Status(asked[c], w) = 404 => Named(asked[c].path) = None
                    /\ w.writes => IsDir(Named(Front(asked[c].path)))
  BY DEF LookupFinds
<1> DEFINE q == asked[c]
           n == Len(Path(q))
<1>1. q \in Requests
  BY DEF AskedSound
<1> HIDE DEF q
<1>2. Path(q) \in Seq(STRING) /\ n \in Nat /\ Path(q) = q.path
  BY <1>1, PathFacts DEF q
<1>3. PICK a : IsNaming(a, Path(q), n) /\ Named(Path(q)) = a[n]
  BY <1>2, NamedIs
<1>4. Agrees(w, a, n, n)
  BY <1>2, <1>3, WalkAgrees DEF q
<1>5. Status(q, w) = 200 => w.node = Named(q.path)
  BY <1>2, <1>3, <1>4 DEF Status, Agrees, Going
<1>6. Status(q, w) = 404 => Named(q.path) = None
  BY <1>2, <1>3, <1>4 DEF Status, Agrees, Going
<1>7. w.writes => IsDir(Named(Front(q.path)))
  <2> SUFFICES ASSUME w.writes PROVE IsDir(Named(Front(q.path)))
    OBVIOUS
  <2>1. n > 0 /\ IsDir(a[n - 1])
    BY <1>4 DEF Agrees
  <2>2. Path(q) # <<>>
    BY <1>2, <2>1
  <2>3. Named(Front(Path(q))) = a[n - 1]
    BY <1>2, <1>3, <2>2, NamedFront
  <2>4. QED BY <1>2, <2>1, <2>3
<1>8. QED BY <1>5, <1>6, <1>7 DEF q

\* A lookup finds what the names of its path say, for any tree and any path, and nothing but the
\* target is opened for writing.
THEOREM LookupsCorrect == Spec => []LookupFinds
<1>1. IInv => LookupFinds
  BY LookupsFind DEF IInv
<1>2. QED BY <1>1, IInvHolds, PTL
=============================================================================
