------------------------------- MODULE Resolver -------------------------------
(***************************************************************************)
(* The DNS stub resolver of src/dns/resolve.c and src/dns/dns.c on the     *)
(* reactor of EventLoop.  Any number of tasks have a lookup in progress on *)
(* one connected UDP socket.  One of them yields on the socket's event and *)
(* receives for all; the others event_wait() in their struct dns_resolve,  *)
(* and are event_notify()'d when their answer has arrived or when the      *)
(* receiver leaves.                                                        *)
(*                                                                         *)
(* A task has at most one lookup at a time, so a struct dns_resolve is     *)
(* named by its task.  Every step of a handler that switches coroutines is *)
(* one of EventLoop's actions, conjoined with what the handler does to the *)
(* resolver.  A datagram is a record; the contents of a query are reduced  *)
(* to how much of the packet buffer is sent.                               *)
(***************************************************************************)
EXTENDS EventLoop

CONSTANTS
  Udp,            \* the event of the connected socket
  Sock,           \* its fd
  MaxLookups,     \* lookups of a task (dns.c asks for A, AAAA and MX)
  IdMod,          \* size of the id space (2^16)
  QueryTimeout,   \* dns_resolve_timeout, in clock ticks
  MaxRetry,       \* DNS_RESOLVE_RETRY
  MaxDeliveries,  \* bound: datagrams and errors that ever reach the socket
  ShortPackets,   \* may a datagram be shorter than a DNS header?
  BadChecksums,   \* may select() report one that read() then drops?
  SocketErrors,   \* may read() and write() of the socket fail (ECONNREFUSED)?
  LateTicks       \* may the clock run while tasks run, or past a deadline?

ASSUME LookupsIsNat  == MaxLookups \in Nat
ASSUME IdModIsPos    == IdMod \in Nat \ {0, 1}
ASSUME TimeoutIsPos  == QueryTimeout \in Nat \ {0} /\ QueryTimeout <= MaxTimeout
ASSUME RetryIsNat    == MaxRetry \in Nat
ASSUME DeliveriesIsNat == MaxDeliveries \in Nat
ASSUME SlotsAreTasks == Slots = Tasks /\ Udp \in Events /\ Sock \in Fds

VARIABLES
  at,          \* where each task is in dns_resolve(); "idle" outside of it
  nth,         \* number of lookups the task has begun
  outcome,     \* what the last dns_resolve() of the task returned
  ids, resolves,                     \* the fields of struct dns
  id, left, retry, response, reply,  \* ... of struct dns_resolve
  ptr,         \* its packet.ptr: what a dns_query() of the packet would send
  first,       \* dns_resolve_response()'s `resolve': the head of the list
  budget,      \* dns_resolve_response()'s `timeout'
  wire,        \* queries that were sent, each answered any number of times
  inbox,       \* datagrams in the socket's receive buffer
  deliveries,  \* number of datagrams and errors that have arrived
  failing      \* the socket has a pending error

lookupVars   == <<nth, outcome, ids, id, ptr>>
resolveVars  == <<at, lookupVars, resolves, left, retry, response, reply, first, budget>>
networkVars  == <<wire, inbox, deliveries, failing>>
resolverVars == <<resolveVars, networkVars>>

-----------------------------------------------------------------------------
(* Types and helpers                                                       *)

\* "new": not started; "idle": in the program, outside of dns_resolve().
Places   == {"new", "idle", "sync", "recv", "expired", "return"}
Outcomes == {"none", "answer", "rcode", "timeout", "error"}

\* Positions of packet->ptr: after the header, after the question.
HeaderOnly == 1
Complete   == 2

\* A query on the wire, and the answer to it.  `of' and `nth' say which lookup
\* it belongs to; nothing in the program reads them.
Queries == [id : 0..IdMod-1, of : Tasks, nth : 1..MaxLookups,
            size : {HeaderOnly, Complete}]
\* A datagram that has less than a DNS header.
Short == [id |-> IdMod]
\* One with a bad checksum: it wakes the receiver, who finds nothing to read.
Corrupt == [id |-> IdMod + 1]

\* What may come without any query.
Junk == {p \in {Short} : ShortPackets} \cup {p \in {Corrupt} : BadChecksums}

\* The first resolve of the list that has the id, or None.
Matching(i) ==
  LET hits == {k \in DOMAIN resolves : id[resolves[k]] = i}
  IN  IF hits = {} THEN None
      ELSE resolves[CHOOSE k \in hits : \A l \in hits : k <= l]

\* dns->resolves, as a set.
Pending == ToSet(resolves)

\* The running task is in its own code, at place p of dns_resolve().
At(t, p) == running = t /\ pc[t] = "run" /\ at[t] = p

Goto(t, p) == at' = [at EXCEPT ![t] = p]

-----------------------------------------------------------------------------
(* dns_resolve(), up to dns_resolve_sync()                                 *)

\* Mutants of Query: the id is not taken, or the query goes to the list's head.
QueryWith(t, nextId, list) ==
  /\ At(t, "idle") /\ nth[t] < MaxLookups
  /\ nth'  = [nth EXCEPT ![t] = @ + 1]
  /\ id'   = [id EXCEPT ![t] = ids]
  /\ ids'  = nextId
  /\ wire' = wire \cup {[id |-> ids, of |-> t, nth |-> nth'[t], size |-> Complete]}
  /\ ptr'  = [ptr EXCEPT ![t] = HeaderOnly]
  /\ left' = [left EXCEPT ![t] = QueryTimeout]
  /\ retry' = [retry EXCEPT ![t] = 0]
  /\ response' = [response EXCEPT ![t] = 0]
  /\ reply' = [reply EXCEPT ![t] = None]
  /\ resolves' = list
  /\ Goto(t, "sync")
  /\ UNCHANGED <<outcome, first, budget, inbox, deliveries, failing, loopState>>
QueryKeepsId(t) == QueryWith(t, ids, Append(resolves, t))
QueryAtHead(t)  == QueryWith(t, (ids + 1) % IdMod, <<t>> \o resolves)

\* dns_resolve_create(), dns_query_question() and dns_resolve_query().  The
\* dns_query() sends the packet up to its ptr, packs the header again at the
\* start and leaves ptr behind it.
Query(t) ==
  /\ At(t, "idle") /\ nth[t] < MaxLookups
  /\ nth'  = [nth EXCEPT ![t] = @ + 1]
  /\ id'   = [id EXCEPT ![t] = ids]
  /\ ids'  = (ids + 1) % IdMod
  /\ wire' = wire \cup {[id |-> ids, of |-> t, nth |-> nth'[t], size |-> Complete]}
  /\ ptr'  = [ptr EXCEPT ![t] = HeaderOnly]
  /\ left' = [left EXCEPT ![t] = QueryTimeout]
  /\ retry' = [retry EXCEPT ![t] = 0]
  /\ response' = [response EXCEPT ![t] = 0]
  /\ reply' = [reply EXCEPT ![t] = None]
  /\ resolves' = Append(resolves, t)
  /\ Goto(t, "sync")
  /\ UNCHANGED <<outcome, first, budget, inbox, deliveries, failing, loopState>>

\* The same when the datagram cannot be sent: the resolve is freed again, before
\* it was listed.
QueryFails(t) ==
  /\ SocketErrors
  /\ At(t, "idle") /\ nth[t] < MaxLookups
  /\ nth' = [nth EXCEPT ![t] = @ + 1]
  /\ ids' = (ids + 1) % IdMod
  /\ outcome' = [outcome EXCEPT ![t] = "error"]
  /\ UNCHANGED <<at, id, ptr, resolves, left, retry, response, reply, first, budget,
                 networkVars, loopState>>

-----------------------------------------------------------------------------
(* dns_resolve_sync() and dns_resolve_response()                           *)

\* Mutant of SyncReceive: the timeout is that of the caller's own query.
SyncReceiveOwnTimeout(t) ==
  /\ At(t, "sync") /\ response[t] = 0
  /\ task[Udp] = None
  /\ first'  = [first EXCEPT ![t] = HeadOf(resolves)]
  /\ budget' = [budget EXCEPT ![t] = left[t]]
  /\ Goto(t, IF left[t] = 0 THEN "expired" ELSE "recv")
  /\ UNCHANGED <<lookupVars, resolves, left, retry, response, reply, networkVars,
                 loopState>>

\* No task is yielding on the socket: receive for everybody, until the head of
\* the list times out.
SyncReceive(t) ==
  /\ At(t, "sync") /\ response[t] = 0
  /\ task[Udp] = None
  /\ LET head == HeadOf(resolves)
     IN  /\ first'  = [first EXCEPT ![t] = head]
         /\ budget' = [budget EXCEPT ![t] = left[head]]
         /\ Goto(t, IF left[head] = 0 THEN "expired" ELSE "recv")
  /\ UNCHANGED <<lookupVars, resolves, left, retry, response, reply, networkVars,
                 loopState>>

\* Another task is: wait for it.
SyncWait(t) ==
  /\ At(t, "sync") /\ response[t] = 0
  /\ task[Udp] # None
  /\ EventWait(Udp, t)
  /\ UNCHANGED resolverVars

\* event_wait() returns; around the loop.
WaitEnds(t) ==
  /\ running = t /\ WaitReturn
  /\ UNCHANGED resolverVars

\* udp_read() finds nothing to read, now or again, and yields for all of its timeout.
ReceiveYield(t) ==
  /\ At(t, "recv")
  /\ inbox = {} \/ Corrupt \in inbox
  /\ ~failing
  /\ inbox' = inbox \ {Corrupt}
  /\ EventYield(Udp, {"R"}, budget[t])
  /\ UNCHANGED <<resolveVars, wire, deliveries, failing>>

\* Mutant of ReceiveReturn: what event_yield() returns is not looked at.
ReceiveReturnExpired(t) ==
  /\ running = t /\ YieldReturn
  /\ Goto(t, "expired")
  /\ UNCHANGED <<lookupVars, resolves, left, retry, response, reply, first, budget,
                 networkVars>>

\* event_yield() returns in udp_read(): 0 to read again, 1 for the timeout.
ReceiveReturn(t) ==
  /\ running = t /\ YieldReturn
  /\ Goto(t, IF "T" \in flags[Udp] THEN "expired" ELSE "recv")
  /\ UNCHANGED <<lookupVars, resolves, left, retry, response, reply, first, budget,
                 networkVars>>

\* Mutant of Deliver: the other task is not told.
DeliverSilently(t, next) == Goto(t, "sync") /\ UNCHANGED loopState

\* What dns_resolve_sync() does with next, which dns_resolve_response() has just
\* taken from the list: nothing if it is t's own or nobody waits for it, and else
\* notify; then around the loop, whose condition is the `break' too.
Deliver(t, next) ==
  /\ Goto(t, "sync")
  /\ IF next = t \/ waitp[next] = None THEN UNCHANGED loopState ELSE EventNotify(next)

\* sock_read() returns an answer to the query of a listed resolve.
ReceiveAnswer(t, p) ==
  LET next == Matching(p.id)
  IN  /\ At(t, "recv") /\ p \in inbox /\ next # None
      /\ inbox'    = inbox \ {p}
      /\ response' = [response EXCEPT ![next] = 1]
      /\ reply'    = [reply EXCEPT ![next] = p]
      /\ resolves' = Unlink(resolves, next)
      /\ Deliver(t, next)
      /\ UNCHANGED <<lookupVars, left, retry, first, budget, wire, deliveries, failing>>

\* ... or one that no listed resolve asked for: "unmatched response".
ReceiveUnmatched(t, p) ==
  /\ At(t, "recv") /\ p \in inbox \ {Short, Corrupt} /\ Matching(p.id) = None
  /\ inbox' = inbox \ {p}
  /\ Goto(t, "sync")
  /\ UNCHANGED <<lookupVars, resolves, left, retry, response, reply, first, budget,
                 wire, deliveries, failing, loopState>>

\* ... or less than a header: dns_response() returns 1, as for a timeout.
ReceiveShort(t) ==
  /\ At(t, "recv") /\ Short \in inbox
  /\ inbox' = inbox \ {Short}
  /\ Goto(t, "expired")
  /\ UNCHANGED <<lookupVars, resolves, left, retry, response, reply, first, budget,
                 wire, deliveries, failing, loopState>>

\* Mutants of Retry: one too many, not moved to the tail, or not counted.
RetryWith(t, limit, list, count) ==
  LET r == first[t]
  IN  /\ At(t, "expired") /\ retry[r] < limit
      /\ wire' = wire \cup {[id |-> id[r], of |-> r, nth |-> nth[r], size |-> ptr[r]]}
      /\ ptr'  = [ptr EXCEPT ![r] = HeaderOnly]
      /\ left' = [left EXCEPT ![r] = QueryTimeout]
      /\ retry' = [retry EXCEPT ![r] = count]
      /\ resolves' = list
      /\ Goto(t, "sync")
      /\ UNCHANGED <<nth, outcome, ids, id, response, reply, first, budget,
                     inbox, deliveries, failing, loopState>>
RetryOnceMore(t)  == RetryWith(t, MaxRetry + 1, Append(Unlink(resolves, first[t]), first[t]),
                               retry[first[t]] + 1)
RetryInPlace(t)   == RetryWith(t, MaxRetry, resolves, retry[first[t]] + 1)
RetryUncounted(t) == RetryWith(t, MaxRetry, Append(Unlink(resolves, first[t]), first[t]),
                               retry[first[t]])

\* dns_resolve_retry() of the resolve that was at the head of the list when this
\* task began to receive.
Retry(t) ==
  LET r == first[t]
  IN  /\ At(t, "expired") /\ retry[r] < MaxRetry
      /\ wire' = wire \cup {[id |-> id[r], of |-> r, nth |-> nth[r], size |-> ptr[r]]}
      /\ ptr'  = [ptr EXCEPT ![r] = HeaderOnly]
      /\ left' = [left EXCEPT ![r] = QueryTimeout]
      /\ retry' = [retry EXCEPT ![r] = @ + 1]
      /\ resolves' = Append(Unlink(resolves, r), r)
      /\ Goto(t, "sync")
      /\ UNCHANGED <<nth, outcome, ids, id, response, reply, first, budget,
                     inbox, deliveries, failing, loopState>>

\* Mutant of GiveUp: the resolve stays in the list.
GiveUpListed(t) ==
  LET r == first[t]
  IN  /\ At(t, "expired") /\ retry[r] >= MaxRetry
      /\ response' = [response EXCEPT ![r] = -1]
      /\ Deliver(t, r)
      /\ UNCHANGED <<lookupVars, resolves, left, retry, reply, first, budget, networkVars>>

\* "retry exceeded".
GiveUp(t) ==
  LET r == first[t]
  IN  /\ At(t, "expired") /\ retry[r] >= MaxRetry
      /\ response' = [response EXCEPT ![r] = -1]
      /\ resolves' = Unlink(resolves, r)
      /\ Deliver(t, r)
      /\ UNCHANGED <<lookupVars, left, retry, reply, first, budget, networkVars>>

\* The read() of udp_read(), or the write() of a retransmission, fails: -1 all
\* the way up to dns_resolve(), which free()s the resolve, listed or not.
SocketFails(t) ==
  /\ SocketErrors
  /\ \/ At(t, "recv") /\ failing /\ failing' = FALSE
     \/ At(t, "expired") /\ retry[first[t]] < MaxRetry /\ UNCHANGED failing
  /\ outcome' = [outcome EXCEPT ![t] = "error"]
  /\ Goto(t, "idle")
  /\ UNCHANGED <<nth, ids, id, ptr, resolves, left, retry, response, reply, first,
                 budget, wire, inbox, deliveries, loopState>>

\* Mutant of Poke: it is not done.
PokeNobody(t) ==
  /\ At(t, "sync") /\ response[t] # 0
  /\ Goto(t, "return")
  /\ UNCHANGED <<lookupVars, resolves, left, retry, response, reply, first, budget,
                 networkVars, loopState>>

\* After the loop: wake the task at the head of the list to receive from now on.
Poke(t) ==
  /\ At(t, "sync") /\ response[t] # 0
  /\ Goto(t, "return")
  /\ LET next == HeadOf(resolves)
     IN  IF next # None /\ waitp[next] # None THEN EventNotify(next)
         ELSE UNCHANGED loopState
  /\ UNCHANGED <<lookupVars, resolves, left, retry, response, reply, first, budget,
                 networkVars>>

\* What dns_resolve() can return.  An answer to a query without its question has
\* an error rcode; any answer may.
Returned(t) ==
  IF response[t] = -1 THEN {"timeout"}
  ELSE {"rcode"} \cup {o \in {"answer"} : reply[t].size = Complete}

ResolveReturns(t) ==
  /\ At(t, "return")
  /\ \E o \in Returned(t) : outcome' = [outcome EXCEPT ![t] = o]
  /\ Goto(t, "idle")
  /\ UNCHANGED <<nth, ids, id, ptr, resolves, left, retry, response, reply, first,
                 budget, networkVars, loopState>>

-----------------------------------------------------------------------------
(* The network (external) and the clock                                    *)

\* The server answers a query it has received.  Queries and answers are lost
\* when this is not done, and delayed, reordered or duplicated as it is done late,
\* in any order, or again.
Arrive(p) ==
  /\ deliveries < MaxDeliveries
  /\ p \in wire \cup Junk
  /\ p \notin inbox
  /\ inbox' = inbox \cup {p}
  /\ deliveries' = deliveries + 1
  /\ UNCHANGED <<wire, failing, resolveVars, loopState>>

\* An ICMP error for an earlier send.
Refuse ==
  /\ SocketErrors /\ ~failing /\ wire # {}
  /\ deliveries < MaxDeliveries
  /\ failing' = TRUE
  /\ deliveries' = deliveries + 1
  /\ UNCHANGED <<wire, inbox, resolveVars, loopState>>

\* One clock tick.  Unless LateTicks, tasks run in no time and whoever has an
\* expired deadline runs before the next tick.
Pass ==
  /\ (\E t \in Pending : left[t] > 0) \/ \E e \in Armed : timeout[e] > 0
  /\ LateTicks \/ (running = None /\ \A t \in Pending : left[t] > 0)
  /\ left' = [t \in Tasks |-> IF t \in Pending /\ left[t] > 0 THEN left[t] - 1 ELSE left[t]]
  /\ Tick \/ ((\A e \in Armed : timeout[e] = 0) /\ UNCHANGED loopState)
  /\ UNCHANGED <<at, lookupVars, resolves, retry, response, reply, first, budget,
                 networkVars>>

\* event_main_run(): select() reports the socket iff there is something to read.
Readable == inbox # {} \/ failing
MainLoop ==
  /\ \/ \E e \in Events : Collect(e) \/ Dispatch(e) \/ DispatchSkip(e)
     \/ Readable /\ SelectReady({Sock}, {})
     \/ ~Readable /\ \E e \in Events : SelectTimeout(e)
     \/ DispatchEnd
     \/ LoopExit
  /\ UNCHANGED resolverVars
=============================================================================
