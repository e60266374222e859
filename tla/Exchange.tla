------------------------------ MODULE Exchange ------------------------------
(***************************************************************************)
(* What HTTP is for: the client asks, the server answers each request once *)
(* at most, and the call returns that answer, or that it has failed.       *)
(***************************************************************************)
EXTENDS Integers, Sequences

CONSTANTS Requests, Statuses, MaxRequests

Failed == -1

VARIABLES
  asked,     \* the requests, in the order of the calls
  answers,   \* the status that the server gave to each, or 0
  results    \* what the calls returned; the last one may not have yet

vars == <<asked, answers, results>>

Init == asked = <<>> /\ answers = [i \in 1..MaxRequests |-> 0] /\ results = <<>>

Ask(q) ==
  /\ Len(asked) = Len(results)
  /\ asked' = Append(asked, q)
  /\ UNCHANGED <<answers, results>>

Give(i, status) ==
  /\ answers[i] = 0
  /\ answers' = [answers EXCEPT ![i] = status]
  /\ UNCHANGED <<asked, results>>

\* client.h: "Returns HTTP response status, or <0 on error."  The code returns 0 as well.
Return(i) ==
  /\ Len(results) = i - 1
  /\ \/ answers[i] # 0 /\ results' = Append(results, answers[i])
     \/ \E r \in {0, Failed} : results' = Append(results, r)
  /\ UNCHANGED <<asked, answers>>

Next ==
  \/ Len(asked) < MaxRequests /\ \E q \in Requests[Len(asked) + 1] : Ask(q)
  \/ \E i \in 1..Len(asked) : Return(i) \/ \E status \in Statuses : Give(i, status)

Spec == Init /\ [][Next]_vars
=============================================================================
