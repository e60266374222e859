----------------------------- MODULE FileServer -----------------------------
(***************************************************************************)
(* The file descriptors of bin/server: the listener of tcp_server_accept(),*)
(* the connections, and what their requests open in src/server/static.c    *)
(* and src/server/dns.c.  What is sent over the connections is in          *)
(* HttpServer.                                                             *)
(*                                                                         *)
(* A task opens and closes files without yielding until it has found what  *)
(* it looks for; then it yields, with that file open, until the transfer is*)
(* over.  Descriptors are counted from the first one that stdin, stdout and*)
(* the rest of main() leave, and so are the limits.                        *)
(***************************************************************************)
EXTENDS Integers, Sequences, FiniteSets, SequencesExt, FiniteSetsExt

CONSTANTS
  Clients,      \* those who connect, each once
  MaxRequests,  \* of each of them
  Requests,     \* what they may send
  None,
  FdSetSize,    \* FD_SETSIZE, event_get_max()
  Rlimit,       \* RLIMIT_NOFILE as it is inherited
  Nfiles,       \* what may be given as --nfiles; 0 if it is not
  Root, Children  \* the tree: for each directory, its names and what they are

\* Mutant of Limit: select() is forgotten.
LimitAsInherited(given) == IF given # 0 THEN given ELSE Rlimit

\* init_nfiles(): the limit that holds then.  One that is given and low enough is only logged.
Limit(given) ==
  LET wanted == IF given # 0 THEN given ELSE Rlimit
  IN IF wanted < FdSetSize THEN Rlimit ELSE FdSetSize - 1

ASSUME LimitAssumption ==
  /\ Rlimit \in Nat /\ FdSetSize \in Nat /\ Nfiles \subseteq Nat
  /\ Rlimit >= 2 /\ FdSetSize >= 3

ASSUME RequestAssumption == \A q \in Requests : q.path \in Seq(STRING) /\ q.query \in Seq(STRING)

ASSUME TreeAssumption ==
  /\ Root \in DOMAIN Children /\ None \notin DOMAIN Children
  /\ \A dir \in DOMAIN Children : ".." \notin DOMAIN Children[dir]

VARIABLES
  nfiles,    \* options.nfiles
  table,     \* whose each fd is
  listener,  \* server_listen_task(): "accept" (it runs), "wait", "sleep", "dead"
  backlog,   \* connections that the kernel has set up
  conn,      \* of each client: "new", "pending", "open", "sent", "busy", "gone"
  asked,     \* of each client: the request that the server has still to look at
  count      \* of each client: how many it has sent

vars == <<nfiles, table, listener, backlog, conn, asked, count>>

-----------------------------------------------------------------------------
(* Descriptors                                                             *)

Fd(what, of) == [what |-> what, of |-> of]

Free == Fd("free", None)

Full(t) == \A f \in DOMAIN t : t[f] # Free

\* open(), socket(), accept(): the lowest number that is free.
Lowest(t)     == Min({f \in DOMAIN t : t[f] = Free})
Open(t, what, of) == [t EXCEPT ![Lowest(t)] = Fd(what, of)]
Close(t, f)   == [t EXCEPT ![f] = Free]

\* Everything of one kind that a client's task has.
CloseAll(t, whats, c) == [f \in DOMAIN t |-> IF t[f].of = c /\ t[f].what \in whats THEN Free ELSE t[f]]

-----------------------------------------------------------------------------
(* server_static_lookup()                                                  *)

\* tokenize() leaves its pointer behind the end of the string.  The loop goes on with what is
\* there: the query, which url_parse() has cut off in place, unless a slash came last.
Path(q) == q.path \o (IF q.slash \/ q.path = <<>> THEN <<>> ELSE q.query)

IsDir(node) == node \in DOMAIN Children
Names(dir)  == DOMAIN Children[dir]

Going == 0

\* The walk so far: `fd' is dirfd, or that of the file; `status' is Going until it ends.
Start(t, c) ==
  IF Full(t) THEN [table |-> t, fd |-> -1, node |-> None, status |-> 500, file |-> FALSE, writes |-> FALSE]
  ELSE [table |-> Open(t, "lookup", c), fd |-> Lowest(t), node |-> Root, status |-> Going,
        file |-> FALSE, writes |-> FALSE]

\* openat(), and then close() of the directory it was looked up in.
Into(w, c) == [w EXCEPT !.fd = Lowest(w.table), !.table = Close(Open(w.table, "lookup", c), w.fd)]

\* `goto error' closes the directory.
Fails(w, status) == [w EXCEPT !.status = status, !.table = Close(w.table, w.fd)]

\* So do not a return from the middle of the loop, and a goto with dirfd overwritten.
Leaks(w, status) == [w EXCEPT !.status = status]

\* Mutant of Step: any regular file on the way is opened as the target would be.
StepAnywhere(w, c, create, name, last) ==
  LET exists == name \in Names(w.node)
      child  == IF exists THEN Children[w.node][name] ELSE None
  IN IF name = "." THEN w
     ELSE IF name = ".." THEN Fails(w, 404)
     ELSE IF exists /\ IsDir(child)
     THEN IF Full(w.table) THEN Leaks(w, 500) ELSE [Into(w, c) EXCEPT !.node = child]
     ELSE IF ~exists /\ ~(create /\ last) THEN Leaks(w, 404)
     ELSE IF Full(w.table) THEN Fails(w, 500)
     ELSE [Into(w, c) EXCEPT !.node = child, !.status = 200, !.file = TRUE, !.writes = create]

\* One name of the path.
Step(w, c, create, name, last) ==
  LET exists == name \in Names(w.node)
      child  == IF exists THEN Children[w.node][name] ELSE None
  IN IF name = "." THEN w
     ELSE IF name = ".." THEN Fails(w, 404)
     ELSE IF exists /\ IsDir(child)
     THEN IF Full(w.table) THEN Leaks(w, 500) ELSE [Into(w, c) EXCEPT !.node = child]
     ELSE IF ~exists /\ ~(create /\ last) THEN Leaks(w, 404)
     ELSE IF Full(w.table) THEN Fails(w, 500)
     ELSE [Into(w, c) EXCEPT !.node = child, !.status = 200, !.file = TRUE,
                             !.writes = create /\ last]

\* The walk from the root to where it ends (one outcome; as a set, it is computed once).
Walk(q, c, t) ==
  LET path == Path(q)
      create == q.method = "PUT"
      upto[i \in 0..Len(path)] ==
        IF i = 0 THEN {Start(t, c)}
        ELSE {IF w.status # Going THEN w ELSE Step(w, c, create, path[i], i = Len(path)) :
                w \in upto[i - 1]}
  IN upto[Len(path)]

\* The status for it: a directory cannot be written.
Status(q, w) == IF w.status # Going THEN w.status ELSE IF q.method = "PUT" THEN 405 ELSE 200

\* What is still open of a lookup when nobody has its number any more.
Lose(t) == [f \in DOMAIN t |-> IF t[f].what = "lookup" THEN Fd("lost", None) ELSE t[f]]
Keep(t, f, c) == Lose([t EXCEPT ![f] = Fd("file", c)])

-----------------------------------------------------------------------------

Init ==
  /\ nfiles \in Nfiles
  /\ table = [f \in 0..Limit(nfiles) - 1 |-> IF f = 0 THEN Fd("listen", None) ELSE Free]
  /\ listener = "accept" /\ backlog = <<>>
  /\ conn = [c \in Clients |-> "new"]
  /\ asked = [c \in Clients |-> None] /\ count = [c \in Clients |-> 0]

-----------------------------------------------------------------------------
(* The clients (external)                                                  *)

Connect(c) ==
  /\ conn[c] = "new" /\ listener # "dead"
  /\ conn' = [conn EXCEPT ![c] = "pending"] /\ backlog' = Append(backlog, c)
  /\ UNCHANGED <<nfiles, table, listener, asked, count>>

Send(c, q) ==
  /\ conn[c] = "open" /\ count[c] < MaxRequests
  /\ conn' = [conn EXCEPT ![c] = "sent"]
  /\ asked' = [asked EXCEPT ![c] = q] /\ count' = [count EXCEPT ![c] = @ + 1]
  /\ UNCHANGED <<nfiles, table, listener, backlog>>

-----------------------------------------------------------------------------
(* server_listen_task(), tcp_server_accept()                               *)

\* server_client() starts a task for it.
Accept ==
  /\ listener = "accept" /\ ~Full(table) /\ backlog # <<>> /\ Lowest(table) < FdSetSize
  /\ table' = Open(table, "sock", Head(backlog))
  /\ conn' = [conn EXCEPT ![Head(backlog)] = "open"]
  /\ backlog' = Tail(backlog)
  /\ UNCHANGED <<nfiles, listener, asked, count>>

\* event_create() refuses the number: tcp_create() fails, which ends the listener.  The
\* kernel resets the connections that were waiting for it.
AcceptTooHigh ==
  /\ listener = "accept" /\ ~Full(table) /\ backlog # <<>> /\ Lowest(table) >= FdSetSize
  /\ listener' = "dead" /\ backlog' = <<>>
  /\ table' = [f \in DOMAIN table |-> IF table[f].what = "listen" THEN Free ELSE table[f]]
  /\ conn' = [c \in Clients |-> IF conn[c] = "pending" THEN "gone" ELSE conn[c]]
  /\ UNCHANGED <<nfiles, asked, count>>

\* EMFILE, which accept() returns before it looks for a connection.
AcceptFull ==
  /\ listener = "accept" /\ Full(table)
  /\ listener' = "sleep"
  /\ UNCHANGED <<nfiles, table, backlog, conn, asked, count>>

AcceptNone ==
  /\ listener = "accept" /\ ~Full(table) /\ backlog = <<>>
  /\ listener' = "wait"
  /\ UNCHANGED <<nfiles, table, backlog, conn, asked, count>>

\* Mutant of Wake: sleeping is waiting for the socket.
WakeOnlyForRead ==
  /\ listener = "wait" /\ backlog # <<>>
  /\ listener' = "accept"
  /\ UNCHANGED <<nfiles, table, backlog, conn, asked, count>>

\* select() reports the listening socket.  A timeout of zero is not looked at before select()
\* reports nothing at all.
Wake ==
  /\ \/ listener = "wait" /\ backlog # <<>>
     \/ listener = "sleep" /\ \A c \in Clients : conn[c] # "sent"
  /\ listener' = "accept"
  /\ UNCHANGED <<nfiles, table, backlog, conn, asked, count>>

-----------------------------------------------------------------------------
(* server_client_task()                                                    *)

Now(c, state) == conn' = [conn EXCEPT ![c] = state]

\* The connection is closed, and with it the task gone.
Hangup(c, t) == table' = CloseAll(t, {"sock"}, c) /\ Now(c, "gone")

\* server_static_request().
Static(c) ==
  /\ conn[c] = "sent" /\ asked[c].method \in {"GET", "PUT"}
  /\ \E w \in Walk(asked[c], c, table) :
       LET q == asked[c]
           status == Status(q, w)
       IN \* An error response, on a connection that is kept.  405 does not close what was found.
          IF status # 200 THEN table' = Lose(w.table) /\ Now(c, "open")
          ELSE \/ /\ q.method = "PUT" /\ ~w.writes
                  /\ Hangup(c, Close(w.table, w.fd))   \* open for reading: the first write fails
               \/ /\ q.method = "PUT"
                  /\ table' = Close(w.table, w.fd) /\ Now(c, "open")   \* 411, without a length
               \/ /\ q.method = "GET" \/ w.writes
                  /\ table' = Keep(w.table, w.fd, c) /\ Now(c, "busy")
  /\ asked' = [asked EXCEPT ![c] = None]
  /\ UNCHANGED <<nfiles, listener, backlog, count>>

\* server_dns_request() with a resolver in the request: dns_create() makes a socket of its own,
\* with an event, or the response is 400.
Dns(c) ==
  /\ conn[c] = "sent" /\ asked[c].method = "POST"
  /\ IF Full(table) \/ Lowest(table) >= FdSetSize
     THEN table' = table /\ Now(c, "open")
     ELSE table' = Open(table, "udp", c) /\ Now(c, "busy")
  /\ asked' = [asked EXCEPT ![c] = None]
  /\ UNCHANGED <<nfiles, listener, backlog, count>>

\* The transfer or the lookup is over, and the response sent.
Finish(c) ==
  /\ conn[c] = "busy"
  /\ table' = CloseAll(table, {"file", "udp"}, c) /\ Now(c, "open")
  /\ UNCHANGED <<nfiles, listener, backlog, asked, count>>

\* Mutant of Abort: the handler returns without its `error:'.
AbortAtOnce(c) ==
  /\ conn[c] = "busy"
  /\ Hangup(c, table)
  /\ UNCHANGED <<nfiles, listener, backlog, asked, count>>

\* It fails: an error, or a timeout.
Abort(c) ==
  /\ conn[c] = "busy"
  /\ Hangup(c, CloseAll(table, {"file", "udp"}, c))
  /\ UNCHANGED <<nfiles, listener, backlog, asked, count>>

\* The client closes the connection, or has been silent for SERVER_READ_TIMEOUT.
Idle(c) ==
  /\ conn[c] = "open"
  /\ Hangup(c, table)
  /\ UNCHANGED <<nfiles, listener, backlog, asked, count>>

-----------------------------------------------------------------------------

ListenerStep == Accept \/ AcceptTooHigh \/ AcceptFull \/ AcceptNone \/ Wake

TaskStep(c) == Static(c) \/ Dns(c) \/ Finish(c) \/ Abort(c) \/ Idle(c)

Next ==
  \/ \E c \in Clients : Connect(c) \/ \E q \in Requests : Send(c, q)
  \/ ListenerStep
  \/ \E c \in Clients : TaskStep(c)

Spec == Init /\ [][Next]_vars

\* The reactor runs who is ready; each wait of a task for its client has a timeout of 10 s.
Fairness == WF_vars(ListenerStep) /\ \A c \in Clients : WF_vars(TaskStep(c))

FairSpec == Spec /\ Fairness

-----------------------------------------------------------------------------
(* Properties                                                              *)

Of(what, c) == {f \in DOMAIN table : table[f] = Fd(what, c)}

One(S) == \E f \in S : S = {f}

TypeOK ==
  /\ nfiles \in Nfiles
  /\ table \in [0..Limit(nfiles) - 1 ->
                  [what: {"free", "listen", "sock", "file", "udp", "lost"},
                   of: Clients \cup {None}]]
  /\ listener \in {"accept", "wait", "sleep", "dead"}
  /\ conn \in [Clients -> {"new", "pending", "open", "sent", "busy", "gone"}]

\* The socket of a connection is open as long as its task is there.
SocketsOfTasks ==
  \A c \in Clients : IF conn[c] \in {"open", "sent", "busy"} THEN One(Of("sock", c))
                                                            ELSE Of("sock", c) = {}

\* One file or socket is open for a request, until its response has been sent.
FilesOfRequests ==
  \A c \in Clients : IF conn[c] = "busy" THEN One(Of("file", c) \cup Of("udp", c))
                                         ELSE Of("file", c) \cup Of("udp", c) = {}

\* A task that loses a descriptor has a socket too, which it will close.
OneIsLeft == \E f \in DOMAIN table : f # 0 /\ table[f].what # "lost"

\* Each descriptor has an owner, and each task exactly those that its state calls for, however
\* its requests have ended and whatever has failed in them.  What is open beyond that is lost
\* for good, but one descriptor is always left for the next connection.
Accounted ==
  /\ TypeOK
  /\ Of("listen", None) = IF listener = "dead" THEN {} ELSE {0}
  /\ SocketsOfTasks /\ FilesOfRequests /\ OneIsLeft

\* With a limit of its own, not one that is only logged.
Limited == nfiles = 0 \/ nfiles >= FdSetSize

\* The listener does not end for want of descriptors, whatever the inherited limit: init_nfiles()
\* keeps their numbers below FD_SETSIZE, and running out of them is survived.  (Any other error of
\* accept() ends it, see tcp_server.c:140.)
ListenerSurvives == Limited => listener # "dead"

\* The node that a path names, by its names only; what follows a file is ignored.
Named(path) ==
  LET at[i \in 0..Len(path)] ==
        IF i = 0 THEN Root
        ELSE IF at[i - 1] = None THEN None
        ELSE IF ~IsDir(at[i - 1]) \/ path[i] = "." THEN at[i - 1]
        ELSE IF path[i] \in Names(at[i - 1]) THEN Children[at[i - 1]][path[i]]
        ELSE None
  IN at[Len(path)]

\* What a lookup finds is what the path names, directories and files alike, and what exists is
\* found, unless descriptors run out; and a PUT opens for writing only what its whole path
\* names, in a directory, never a file that it leads through.  A query behind a path without
\* a slash at the end is left out: it is taken for more of the path.
LookupFinds ==
  \A c \in Clients : conn[c] = "sent" /\ asked[c].method # "POST" =>
    LET q == asked[c]
    IN Path(q) = q.path => \A w \in Walk(q, c, table) :
         /\ Status(q, w) = 200 => w.node = Named(q.path)
         /\ Status(q, w) = 404 => Named(q.path) = None
         /\ w.writes => IsDir(Named(Front(q.path)))

\* Whoever connects is accepted: "temporary accept failure: retrying".  Those who have connected
\* before run into their timeouts at the latest, and what lookups lose is never all.
PendingServed == Limited => \A c \in Clients : conn[c] = "pending" ~> conn[c] = "open"

\* server.c: "--nfiles  Limit number of open files".
NfilesLimit == nfiles # 0 => Cardinality({f \in DOMAIN table : table[f] # Free}) <= nfiles
=============================================================================
