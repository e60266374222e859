------------------------------ MODULE DnsClient ------------------------------
(***************************************************************************)
(* The dns program, src/dns.c: main() opens the resolver's socket, starts  *)
(* one task per argument and enters event_main_run().  Each task looks its *)
(* name up for a number of record types, one after the other, and stops at *)
(* the first lookup that does not return an answer.                        *)
(***************************************************************************)
EXTENDS Resolver, FiniteSets

vars == <<loopState, resolverVars>>

-----------------------------------------------------------------------------
(* main()                                                                  *)

\* dns_create(): udp_connect() and udp_create().
OpenSocket ==
  /\ running = None /\ events = <<>>
  /\ EventCreate(Udp, Sock)
  /\ UNCHANGED resolverVars

StartTask(t) ==
  /\ running = None /\ Linked(Udp)
  /\ at[t] = "new"
  /\ EventStart(t)
  /\ Goto(t, "idle")
  /\ UNCHANGED <<lookupVars, resolves, left, retry, response, reply, first, budget,
                 networkVars>>

EnterLoop ==
  /\ Linked(Udp) /\ \A t \in Tasks : at[t] # "new"
  /\ RunLoop
  /\ UNCHANGED resolverVars

-----------------------------------------------------------------------------
(* The task dns()                                                          *)

GoesOn(t) == outcome[t] \in {"none", "answer"} /\ nth[t] < MaxLookups

Lookup(t) == GoesOn(t) /\ (Query(t) \/ QueryFails(t))

TaskEnds(t) ==
  /\ At(t, "idle") /\ ~GoesOn(t)
  /\ TaskReturn
  /\ UNCHANGED resolverVars

TaskStep(t) ==
  \/ Lookup(t) \/ TaskEnds(t)
  \/ SyncReceive(t) \/ SyncWait(t) \/ WaitEnds(t)
  \/ ReceiveYield(t) \/ ReceiveReturn(t)
  \/ \E p \in inbox : ReceiveAnswer(t, p) \/ ReceiveUnmatched(t, p)
  \/ ReceiveShort(t)
  \/ Retry(t) \/ GiveUp(t) \/ SocketFails(t)
  \/ Poke(t) \/ ResolveReturns(t)

-----------------------------------------------------------------------------
(* The specification                                                       *)

ResolverInit ==
  /\ at       = [t \in Tasks |-> "new"]
  /\ nth      = [t \in Tasks |-> 0]
  /\ outcome  = [t \in Tasks |-> "none"]
  /\ ids \in 0..IdMod-2 /\ resolves = <<>>     \* random() % UINT16_MAX
  /\ id       = [t \in Tasks |-> 0]
  /\ left     = [t \in Tasks |-> 0]
  /\ retry    = [t \in Tasks |-> 0]
  /\ response = [t \in Tasks |-> 0]
  /\ reply    = [t \in Tasks |-> None]
  /\ ptr      = [t \in Tasks |-> HeaderOnly]
  /\ first    = [t \in Tasks |-> None]
  /\ budget   = [t \in Tasks |-> 0]
  /\ wire = {} /\ inbox = {} /\ deliveries = 0 /\ failing = FALSE

System ==
  \/ OpenSocket \/ (\E t \in Tasks : StartTask(t)) \/ EnterLoop
  \/ \E t \in Tasks : TaskStep(t)
  \/ MainLoop

Network == Refuse \/ \E p \in wire \cup Junk : Arrive(p)

Stopped == Exited /\ UNCHANGED resolverVars

ClientNext == System \/ Network \/ Pass \/ Stopped
ClientInit == Init /\ ResolverInit

\* The process is scheduled, and time passes; nothing is asked of the network.
ClientSpec ==
  /\ ClientInit /\ [][ClientNext]_vars
  /\ WF_vars(System) /\ WF_vars(Pass)

-----------------------------------------------------------------------------
(* Properties                                                              *)

\* Every variable of the resolver and of the network holds a value of its type.
ResolverTypeOK ==
  /\ at \in [Tasks -> Places]
  /\ nth \in [Tasks -> 0..MaxLookups]
  /\ outcome \in [Tasks -> Outcomes]
  /\ ids \in 0..IdMod-1 /\ id \in [Tasks -> 0..IdMod-1]
  /\ resolves \in Seq(Tasks)
  /\ left \in [Tasks -> 0..QueryTimeout] /\ budget \in [Tasks -> 0..QueryTimeout]
  /\ retry \in [Tasks -> 0..MaxRetry]
  /\ response \in [Tasks -> {-1, 0, 1}]
  /\ reply \in [Tasks -> Queries \cup {None}]
  /\ ptr \in [Tasks -> {HeaderOnly, Complete}]
  /\ first \in [Tasks -> Tasks \cup {None}]
  /\ wire \subseteq Queries /\ inbox \subseteq Queries \cup {Short, Corrupt}
  /\ deliveries \in 0..MaxDeliveries /\ failing \in BOOLEAN

\* dns_resolve() has a query out for t, and no answer yet.
Waiting(t) == at[t] \in {"sync", "recv", "expired"} /\ response[t] = 0

\* dns->resolves (resolve.c:143, 260, 289) holds each unanswered lookup once, and
\* nothing else: no answered one, and no struct that has been freed (resolve.c:466).
ListMatchesLookups ==
  /\ Distinct(resolves)
  /\ \A t \in Tasks : t \in Pending <=> Waiting(t)

\* "which should be the most timeouty resolve, given fixed timeouts" (resolve.c:222):
\* the list stays sorted by deadline through sends and retransmissions.
DeadlineOrder ==
  \A i, j \in DOMAIN resolves : i < j => left[resolves[i]] <= left[resolves[j]]

\* dns_resolve_response() uses `resolve' (resolve.c:223) after it has yielded, while
\* other tasks were sending queries: it still is the head of the list.
HeadStays ==
  \A t \in Tasks : at[t] \in {"recv", "expired"} => first[t] = HeadOf(resolves)

\* "a task that is yield()'ing on an event has a strict responsibility to notify()
\* any other tasks wait()'ing on that event - if it doesn't, those tasks will all die"
\* (resolve.c:324): back in main(), as long as a task is in event_wait(), some other
\* is yielding on the socket.
NoOrphans ==
  running = None /\ (\E t \in Tasks : pc[t] = "wait") => task[Udp] # None

\* The receiver's timeout (resolve.c:226) is the deadline of the earliest lookup,
\* however the list has changed since it yielded: no retransmission is late.
DeadlineWatched ==
  running = None /\ Pending # {} => timeout[Udp] = left[HeadOf(resolves)]

\* dns_resolve_sync() (resolve.c:370-380): no task is left in event_wait() once its
\* lookup has an answer or has timed out.
NoForgottenAnswer ==
  running = None => \A t \in Tasks : pc[t] = "wait" => response[t] = 0

\* resolve.c:267-289: an answer that a lookup takes is one to its own query, not a
\* late or repeated one to an earlier query or to that of another task.  (Outside of
\* dns_resolve() a task has no struct dns_resolve.)
OwnAnswer ==
  \A t \in Tasks : at[t] # "idle" /\ reply[t] # None =>
    reply[t].of = t /\ reply[t].nth = nth[t]

\* "Returns 1 on timeout" (dns/dns.h:64), the only case in which resolve.c:242-265
\* sends a query again or gives it up: its own time is over.
RetryWhenExpired ==
  [][\A t \in Tasks : (retry'[t] > retry[t] \/ response'[t] < response[t]) /\ nth'[t] = nth[t]
       => left[t] = 0]_vars

\* Each task has a resolver to itself, and every lookup returns, whatever the network
\* does and whoever receives.
Service == INSTANCE LookupService WITH
  Clients  <- Tasks,
  MaxTries <- MaxRetry + 1,
  tries    <- [t \in Tasks |-> IF at[t] \in {"new", "idle"} THEN 0 ELSE retry[t] + 1],
  lookups  <- nth,
  result   <- outcome
ServiceSpec == Service!Spec

\* dns_resolve() has freed a resolve that is listed (resolve.c:466), and a task is left that
\* may follow the list into it.
FreedInUse ==
  \E t \in Pending : ~Waiting(t) /\ \E u \in Tasks \ {t} : at[u] = "new" \/ pc[u] # "free"

\* dns_resolve_sync() returns to each of its callers, unless one of them has left freed memory
\* to the others.
EveryLookupReturns == Service!Returns \/ <>FreedInUse

\* event_main_run() returns (event.c:594), and not before every task has, with the same
\* exception.
ProgramEnds == <>(FreedInUse \/ (phase = "exit" /\ \A t \in Tasks : pc[t] = "free"))

\* "dispatch; old packet should still be intact.." (resolve.c:158): what is sent
\* is always the complete query.
RetransmissionIntact == \A p \in wire : p.size = Complete
=============================================================================
