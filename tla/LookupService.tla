---------------------------- MODULE LookupService ----------------------------
(***************************************************************************)
(* What dns_resolve() promises its callers (src/dns.h:165-174), however    *)
(* many tasks share the socket: each task has a resolver to itself.  A     *)
(* lookup sends its query, sends it again a number of times, and returns   *)
(* an answer, or a timeout when its last transmission was not answered, or *)
(* an internal error.                                                      *)
(***************************************************************************)
EXTENDS Integers

CONSTANTS
  Clients,     \* the tasks
  MaxLookups,  \* lookups of a client
  MaxTries     \* transmissions of a query

VARIABLES
  tries,    \* transmissions of the client's query so far; 0 when it has none
  lookups,  \* lookups the client has begun
  result    \* what its last lookup returned

vars == <<tries, lookups, result>>

Init ==
  /\ tries   = [c \in Clients |-> 0]
  /\ lookups = [c \in Clients |-> 0]
  /\ result  = [c \in Clients |-> "none"]

Count(c) == lookups[c] < MaxLookups /\ lookups' = [lookups EXCEPT ![c] = @ + 1]

Begin(c) ==
  /\ tries[c] = 0 /\ Count(c)
  /\ tries' = [tries EXCEPT ![c] = 1]
  /\ UNCHANGED result

\* The query could not be sent.
Reject(c) ==
  /\ tries[c] = 0 /\ Count(c)
  /\ result' = [result EXCEPT ![c] = "error"]
  /\ UNCHANGED tries

Resend(c) ==
  /\ tries[c] \in 1..MaxTries-1
  /\ tries' = [tries EXCEPT ![c] = @ + 1]
  /\ UNCHANGED <<lookups, result>>

Finish(c, r) ==
  /\ tries[c] > 0
  /\ r = "timeout" => tries[c] = MaxTries
  /\ tries'  = [tries EXCEPT ![c] = 0]
  /\ result' = [result EXCEPT ![c] = r]
  /\ UNCHANGED lookups

Next == \E c \in Clients :
  \/ Begin(c) \/ Reject(c) \/ Resend(c)
  \/ \E r \in {"answer", "rcode", "timeout", "error"} : Finish(c, r)

Spec == Init /\ [][Next]_vars

\* Every lookup returns.
Returns == \A c \in Clients : tries[c] > 0 ~> tries[c] = 0
=============================================================================
