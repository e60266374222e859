--------------------------- MODULE ReactorProofs ---------------------------
(***************************************************************************)
(* First the reactor, for any number of events, tasks, fds and pointers,   *)
(* and any program that calls it as EventLoop allows.                      *)
(*                                                                         *)
(* The inductive invariant IInv says of every coroutine where it is        *)
(* suspended and what the events and the wait pointers hold for it.  From  *)
(* it follow the safety properties of a state.  Those of a step, and the   *)
(* freshness of what select() reported, have a proof of their own on top.  *)
(*                                                                         *)
(* Then the dns program on it, for any number of tasks, lookups and        *)
(* retries.  It keeps to the contract of the reactor: each of its steps is *)
(* a step of EventLoop or leaves the reactor alone, so that what is proved *)
(* of an arbitrary program holds of this one.  And the hand-over of the    *)
(* socket from task to task in dns_resolve_sync() never strands a task     *)
(* that waits, unless the socket fails.                                    *)
(***************************************************************************)
EXTENDS DnsClient, SequenceTheorems, WellFoundedInduction, FiniteSetTheorems, TLAPS

-----------------------------------------------------------------------------
(* What the operations on the lists of events and tasks return             *)

\* RemoveAt() closes the gap.
LEMMA RemoveAtFacts ==
  ASSUME NEW S, NEW s \in Seq(S), NEW i \in 1..Len(s)
  PROVE  /\ RemoveAt(s, i) \in Seq(S)
         /\ Len(RemoveAt(s, i)) = Len(s) - 1
         /\ \A j \in 1..Len(s)-1 : RemoveAt(s, i)[j] = IF j < i THEN s[j] ELSE s[j+1]
<1> DEFINE front == SubSeq(s, 1, i-1)
           back  == SubSeq(s, i+1, Len(s))
<1>1. front \in Seq(S) /\ Len(front) = i-1 /\ \A j \in 1..i-1 : front[j] = s[j]
  BY SubSeqProperties
<1>2. /\ back \in Seq(S) /\ Len(back) = Len(s) - i
      /\ \A j \in 1..Len(s)-i : back[j] = s[i+j]
  BY SubSeqProperties
<1>3. RemoveAt(s, i) = front \o back
  BY DEF RemoveAt
<1> HIDE DEF front, back
<1>4. Len(s) \in Nat
  BY LenProperties
<1>5. /\ front \o back \in Seq(S)
      /\ Len(front \o back) = Len(s) - 1
      /\ \A j \in 1..Len(s)-1 : (front \o back)[j] =
            IF j <= Len(front) THEN front[j] ELSE back[j - Len(front)]
  <2>1. /\ front \o back \in Seq(S)
        /\ Len(front \o back) = Len(front) + Len(back)
        /\ \A j \in 1..Len(front) + Len(back) : (front \o back)[j] =
              IF j <= Len(front) THEN front[j] ELSE back[j - Len(front)]
    BY <1>1, <1>2, ConcatProperties, Zenon
  <2>2. Len(front) + Len(back) = Len(s) - 1
    BY <1>1, <1>2, <1>4
  <2>3. QED BY <2>1, <2>2, Zenon
<1>6. ASSUME NEW j \in 1..Len(s)-1
      PROVE  (front \o back)[j] = IF j < i THEN s[j] ELSE s[j+1]
  <2>1. CASE j < i
    BY <2>1, <1>1, <1>4, <1>5
  <2>2. CASE ~(j < i)
    <3>1. j - (i-1) \in 1..Len(s)-i /\ i + (j - (i-1)) = j+1
      BY <2>2, <1>4
    <3>2. (front \o back)[j] = back[j - (i-1)]
      BY <2>2, <1>1, <1>4, <1>5
    <3>3. QED BY <3>1, <3>2, <2>2, <1>2
  <2>3. QED BY <2>1, <2>2
<1>7. QED BY <1>3, <1>5, <1>6

\* TAILQ_REMOVE() of a linked element unlinks it and nothing else.
LEMMA UnlinkFacts ==
  ASSUME NEW S, NEW q \in Seq(S), Distinct(q), NEW e \in ToSet(q)
  PROVE  /\ Unlink(q, e) \in Seq(S)
         /\ Distinct(Unlink(q, e))
         /\ ToSet(Unlink(q, e)) = ToSet(q) \ {e}
<1> DEFINE n == Len(q)
           i == IndexOf(q, e)
           u == RemoveAt(q, i)
<1>1. n \in Nat /\ DOMAIN q = 1..n
  BY LenProperties
<1>2. i \in 1..n /\ q[i] = e
  BY <1>1 DEF IndexOf, ToSet
<1>3. /\ u \in Seq(S) /\ Len(u) = n - 1
      /\ \A j \in 1..n-1 : u[j] = IF j < i THEN q[j] ELSE q[j+1]
  BY <1>2, RemoveAtFacts
<1>4. DOMAIN u = 1..n-1
  BY <1>3, LenProperties
<1>5. Unlink(q, e) = u
  BY DEF Unlink
<1> HIDE DEF n, i, u
<1>6. Distinct(u)
  <2>1. SUFFICES ASSUME NEW j \in 1..n-1, NEW k \in 1..n-1, u[j] = u[k]
                 PROVE  j = k
    BY <1>4 DEF Distinct
  <2> DEFINE old(m) == IF m < i THEN m ELSE m + 1
  <2>2. old(j) \in 1..n /\ old(k) \in 1..n
    BY <1>1, <1>2
  <2>3. q[old(j)] = q[old(k)]
    BY <2>1, <1>3
  <2>4. old(j) = old(k)
    BY <2>2, <2>3, <1>1 DEF Distinct
  <2>5. QED BY <2>4, <1>1, <1>2
<1>7. ToSet(u) = ToSet(q) \ {e}
  <2>1. ASSUME NEW x \in ToSet(u) PROVE x \in ToSet(q) \ {e}
    <3>1. PICK j \in 1..n-1 : u[j] = x
      BY <2>1, <1>4 DEF ToSet
    <3>2. PICK k \in 1..n : k # i /\ q[k] = x
      <4>1. CASE j < i
        BY <4>1, <3>1, <1>1, <1>3
      <4>2. CASE ~(j < i)
        <5>1. j + 1 \in 1..n /\ j + 1 # i /\ q[j+1] = x
          BY <4>2, <3>1, <1>1, <1>2, <1>3
        <5>2. QED BY <5>1
      <4>3. QED BY <4>1, <4>2
    <3>3. QED BY <3>2, <1>1, <1>2 DEF ToSet, Distinct
  <2>2. ASSUME NEW x \in ToSet(q) \ {e} PROVE x \in ToSet(u)
    <3>1. PICK k \in 1..n : q[k] = x
      BY <1>1 DEF ToSet
    <3>2. k # i
      BY <3>1, <1>2
    <3>3. CASE k < i
      <4>1. k \in 1..n-1 /\ u[k] = x
        BY <3>1, <3>3, <1>1, <1>2, <1>3
      <4>2. QED BY <4>1, <1>4 DEF ToSet
    <3>4. CASE k > i
      <4>1. k-1 \in 1..n-1 /\ u[k-1] = x
        BY <3>1, <3>4, <1>1, <1>2, <1>3
      <4>2. QED BY <4>1, <1>4 DEF ToSet
    <3>5. QED BY <3>1, <3>2, <3>3, <3>4, <1>1, <1>2
  <2>3. QED BY <2>1, <2>2
<1>8. QED BY <1>3, <1>5, <1>6, <1>7

\* TAILQ_INSERT_TAIL() of an element that is not linked keeps the list well formed.
LEMMA AppendFacts ==
  ASSUME NEW S, NEW q \in Seq(S), Distinct(q), NEW e \in S, e \notin ToSet(q)
  PROVE  /\ Append(q, e) \in Seq(S)
         /\ Distinct(Append(q, e))
         /\ ToSet(Append(q, e)) = ToSet(q) \cup {e}
<1> DEFINE n == Len(q)
           a == Append(q, e)
<1>1. n \in Nat /\ DOMAIN q = 1..n
  BY LenProperties
<1>2. /\ a \in Seq(S) /\ DOMAIN a = 1..n+1
      /\ a[n+1] = e /\ \A i \in 1..n : a[i] = q[i]
  BY <1>1, AppendProperties
<1> HIDE DEF n, a
<1>3. Distinct(a)
  BY <1>1, <1>2 DEF Distinct, ToSet
<1>4. ToSet(a) = ToSet(q) \cup {e}
  <2>1. \A x \in ToSet(a) : x \in ToSet(q) \cup {e}
    BY <1>1, <1>2 DEF ToSet
  <2>2. \A x \in ToSet(q) : x \in ToSet(a)
    <3>1. SUFFICES ASSUME NEW i \in 1..n PROVE q[i] \in ToSet(a)
      BY <1>1 DEF ToSet
    <3>2. i \in 1..n+1 /\ a[i] = q[i]
      BY <1>1, <1>2
    <3>3. QED BY <3>2, <1>2 DEF ToSet
  <2>3. e \in ToSet(a)
    <3>1. n+1 \in 1..n+1
      BY <1>1
    <3>2. QED BY <3>1, <1>2 DEF ToSet
  <2>4. QED BY <2>1, <2>2, <2>3
<1>5. QED BY <1>2, <1>3, <1>4 DEF a

\* TAILQ_REMOVE() leaves the others in their order.
LEMMA UnlinkKeepsOrder ==
  ASSUME NEW S, NEW q \in Seq(S), NEW e \in ToSet(q),
         NEW j \in DOMAIN Unlink(q, e), NEW k \in DOMAIN Unlink(q, e), j < k
  PROVE  \E m, n \in DOMAIN q : m < n /\ q[m] = Unlink(q, e)[j] /\ q[n] = Unlink(q, e)[k]
<1> DEFINE len == Len(q)
           i == IndexOf(q, e)
           u == RemoveAt(q, i)
<1>1. len \in Nat /\ DOMAIN q = 1..len
  OBVIOUS
<1>2. i \in 1..len
  BY DEF IndexOf, ToSet
<1>3. /\ u \in Seq(S) /\ Len(u) = len - 1
      /\ \A l \in 1..len-1 : u[l] = IF l < i THEN q[l] ELSE q[l+1]
  BY <1>2, RemoveAtFacts
<1>4. j \in 1..len-1 /\ k \in 1..len-1
  BY <1>3 DEF Unlink
<1> DEFINE old(l) == IF l < i THEN l ELSE l + 1
<1>5. old(j) \in 1..len /\ old(k) \in 1..len /\ old(j) < old(k)
  BY <1>1, <1>2, <1>4
<1>6. u[j] = q[old(j)] /\ u[k] = q[old(k)]
  BY <1>3, <1>4
<1>7. QED BY <1>1, <1>5, <1>6 DEF Unlink

-----------------------------------------------------------------------------
(* The inductive invariant                                                 *)

\* The task list of events is well formed, and event_next is in it.
ListOK == Distinct(events) /\ CursorLinked

\* What a task finds when it is switched back in: only the running coroutine is
\* between its resumption and the rest of its call, a woken one has the event
\* it was woken for, and only a suspended one has anything registered or a wait.
ResumeOK ==
  \A t \in Tasks :
    /\ pc[t] \in {"woken", "notified"} => running = t
    /\ pc[t] = "woken" => event[t] \in Events /\ task[event[t]] = t
    /\ pc[t] \notin {"yield", "woken"} => registered[t] = 0
    /\ pc[t] \notin {"wait", "notified"} => wait[t] = None

IInv ==
  /\ TypeOK /\ ListOK /\ SwitchStack /\ ResumeOK
  /\ WaitersSuspended /\ PendingSuspended /\ ArmedHasTask

-----------------------------------------------------------------------------
(* The coroutine stack under the two switches                              *)

\* event_switch() into a suspended or new task: main() and the tasks on the stack
\* still form one chain of co_call()s that ends in the running coroutine.
LEMMA SwitchKeepsStack ==
  ASSUME TypeOK, SwitchStack, NEW t \in Tasks, ~Active(t),
         NEW place \in {"run", "woken", "notified"}, Switch(t, place)
  PROVE  SwitchStack'
<1>2. callee[t] = None
  BY NoneIsNoTask DEF SwitchStack, Coroutines
<1>5. QED
  BY <1>2, NoneIsNoTask DEF SwitchStack, Switch, TypeOK, Active

\* co_resume(), or the end of a task function: the chain loses its last link, and
\* event_main->task is again what the resumed frame had saved.
LEMMA SwitchBackKeepsStack ==
  ASSUME TypeOK, SwitchStack, running # None,
         NEW place \in {"free", "yield", "wait"}, SwitchBack(place)
  PROVE  SwitchStack'
<1> DEFINE to == restarget[running]
<1>1. running \in Tasks /\ Active(running)
  BY DEF TypeOK, Coroutines, SwitchStack
<1>2. /\ to \in Coroutines /\ to # running
      /\ to # None => Active(to)
      /\ callee[to] = running /\ saved[to] = to
  BY <1>1 DEF SwitchStack, TypeOK
<1>3. QED
  BY <1>2, NoneIsNoTask DEF SwitchStack, SwitchBack, TypeOK, Active

-----------------------------------------------------------------------------
(* Initial states                                                          *)

\* event_main_create(): no events, no tasks, main() executes.
THEOREM InitIInv == Init => IInv
<1> SUFFICES ASSUME Init PROVE IInv
  OBVIOUS
<1>1. TypeOK
  BY TimeoutIsNat DEF Init, TypeOK, Coroutines, PCs, Phases
<1>2. ListOK
  BY DEF Init, ListOK, Distinct, CursorLinked
<1>3. SwitchStack /\ ResumeOK
  BY DEF Init, SwitchStack, ResumeOK, Coroutines, Active
<1>4. WaitersSuspended /\ PendingSuspended
  BY DEF Init, WaitersSuspended, PendingSuspended
<1>5. ArmedHasTask
  BY DEF Init, ArmedHasTask, Armed, ToSet
<1>6. QED BY <1>1, <1>2, <1>3, <1>4, <1>5 DEF IInv
-----------------------------------------------------------------------------
(* The list of events                                                      *)

\* TAILQ_NEXT() is NULL or linked.
LEMMA NextFacts ==
  ASSUME NEW S, NEW q \in Seq(S), NEW e \in ToSet(q)
  PROVE  NextOf(q, e) \in ToSet(q) \cup {None}
<1>2. IndexOf(q, e) \in 1..Len(q)
  BY DEF IndexOf, ToSet
<1>3. CASE IndexOf(q, e) = Len(q)
  BY <1>3 DEF NextOf
<1>4. CASE IndexOf(q, e) # Len(q)
  <2>1. IndexOf(q, e) + 1 \in 1..Len(q)
    BY <1>2, <1>4
  <2>2. QED BY <2>1 DEF NextOf, ToSet
<1>5. QED BY <1>3, <1>4

\* TAILQ_FIRST() is NULL or linked.
LEMMA HeadFacts ==
  ASSUME NEW S, NEW q \in Seq(S)
  PROVE  HeadOf(q) \in ToSet(q) \cup {None}
BY DEF HeadOf, ToSet

\* Only events are linked.
LEMMA LinkedAreEvents ==
  ASSUME events \in Seq(Events)
  PROVE  ToSet(events) \subseteq Events
BY DEF ToSet

-----------------------------------------------------------------------------
(* Every step preserves the invariant                                      *)

\* event_create(): the new event is listed once, and nothing is armed on it.
LEMMA EventCreateKeeps ==
  ASSUME IInv, NEW e \in Events, NEW f \in Fds, EventCreate(e, f)
  PROVE  IInv'
<1>a. /\ events' \in Seq(Events) /\ Distinct(events)'
      /\ ToSet(events)' = ToSet(events) \cup {e}
  <2>1. events \in Seq(Events) /\ Distinct(events) /\ e \notin ToSet(events)
    BY DEF IInv, TypeOK, ListOK, EventCreate, Linked
  <2>2. events' = Append(events, e)
    BY DEF EventCreate
  <2>4. QED BY <2>1, <2>2, AppendFacts
<1>1. TypeOK'
  BY TimeoutIsNat
  DEF IInv, TypeOK, Coroutines, EventCreate, taskVars, switchVars, loopVars
<1>2. ListOK'
  BY <1>a DEF IInv, ListOK, CursorLinked, Linked, EventCreate, loopVars
<1>3. SwitchStack'
  BY DEF IInv, SwitchStack, Active, EventCreate, switchVars
<1>4. ResumeOK'
  BY DEF IInv, ResumeOK, EventCreate, MayCall, taskVars, switchVars
<1>5. WaitersSuspended'
  BY DEF IInv, WaitersSuspended, EventCreate, taskVars, switchVars
<1>6. PendingSuspended'
  BY <1>a DEF IInv, PendingSuspended, Live, Linked, EventCreate, taskVars, switchVars
<1>7. ArmedHasTask'
  BY <1>a DEF IInv, TypeOK, ArmedHasTask, Armed, EventCreate
<1>8. QED BY <1>1, <1>2, <1>3, <1>4, <1>5, <1>6, <1>7 DEF IInv

\* _event_start(): the new task holds no event and waits for none.
LEMMA EventStartKeeps ==
  ASSUME IInv, NEW t \in Tasks, EventStart(t)
  PROVE  IInv'
<1>1. TypeOK'
  BY DEF IInv, TypeOK, Coroutines, PCs, EventStart, Switch, eventVars, loopVars
<1>2. ListOK'
  BY DEF IInv, ListOK, CursorLinked, Linked, EventStart, eventVars, loopVars
<1>3. SwitchStack'
  BY SwitchKeepsStack DEF IInv, EventStart, Active
<1>4. ResumeOK'
  BY NoneIsNoTask DEF IInv, ResumeOK, EventStart, MayCall, Switch
<1>5. WaitersSuspended'
  BY DEF IInv, WaitersSuspended, EventStart, Switch
<1>6. PendingSuspended'
  BY DEF IInv, PendingSuspended, Live, Linked, EventStart, Switch, eventVars
<1>7. ArmedHasTask'
  BY DEF IInv, ArmedHasTask, Armed, EventStart, eventVars
<1>8. QED BY <1>1, <1>2, <1>3, <1>4, <1>5, <1>6, <1>7 DEF IInv

\* _event_yield() up to its co_resume(): what is armed has the task that yields,
\* which counts it.
LEMMA EventYieldKeeps ==
  ASSUME IInv, NEW e \in Events, NEW fl \in YieldFlags,
         NEW ticks \in 0..MaxTimeout \cup {None}, EventYield(e, fl, ticks)
  PROVE  IInv'
<1>a. /\ running \in Tasks /\ pc[running] = "run" /\ registered[running] = 0
      /\ \A o \in Events : task[o] # running
  BY DEF IInv, TypeOK, Coroutines, ResumeOK, PendingSuspended, EventYield, MayCall
<1>1. TypeOK'
  BY NoneIsNoEvent, TimeoutIsNat
  DEF IInv, TypeOK, Coroutines, Flags, PCs, EventYield, MayCall, SwitchBack, YieldFlags,
      loopVars
<1>2. ListOK'
  BY DEF IInv, ListOK, CursorLinked, Linked, EventYield, loopVars
<1>3. SwitchStack'
  BY SwitchBackKeepsStack DEF IInv, EventYield
<1>4. ResumeOK'
  BY DEF IInv, ResumeOK, TypeOK, EventYield, MayCall, SwitchBack
<1>5. WaitersSuspended'
  BY DEF IInv, WaitersSuspended, EventYield, MayCall, SwitchBack
<1>6. PendingSuspended'
  <2>1. SUFFICES ASSUME NEW o \in Events, task'[o] # None
                 PROVE  /\ Live(o)'
                        /\ \/ pc'[task'[o]] = "yield"
                           \/ pc'[task'[o]] = "woken" /\ event'[task'[o]] = o
                        /\ registered'[task'[o]] = 1
                        /\ \A p \in Events : task'[p] = task'[o] => p = o
    BY DEF PendingSuspended
  <2>2. CASE o = e
    BY <1>a, <2>2 DEF IInv, TypeOK, EventYield, SwitchBack, Live, Linked
  <2>3. CASE o # e
    BY <1>a, <2>1, <2>3 DEF IInv, PendingSuspended, EventYield, SwitchBack, Live, Linked
  <2>4. QED BY <2>2, <2>3
<1>7. ArmedHasTask'
  BY DEF IInv, ArmedHasTask, TypeOK, Armed, EventYield
<1>8. QED BY <1>1, <1>2, <1>3, <1>4, <1>5, <1>6, <1>7 DEF IInv

\* The rest of _event_yield(): the event is disarmed and its count taken back.
LEMMA YieldReturnKeeps ==
  ASSUME IInv, YieldReturn
  PROVE  IInv'
<1>a. /\ running \in Tasks /\ event[running] \in Events
      /\ task[event[running]] = running /\ registered[running] = 1
  BY DEF IInv, TypeOK, Coroutines, ResumeOK, PendingSuspended, YieldReturn
<1>1. TypeOK'
  BY <1>a, TimeoutIsNat DEF IInv, TypeOK, Coroutines, PCs, YieldReturn, loopVars
<1>2. ListOK'
  BY DEF IInv, ListOK, CursorLinked, Linked, YieldReturn, loopVars
<1>3. SwitchStack'
  BY DEF IInv, SwitchStack, Active, YieldReturn
<1>4. ResumeOK'
  BY DEF IInv, ResumeOK, TypeOK, PendingSuspended, YieldReturn
<1>5. WaitersSuspended'
  BY DEF IInv, WaitersSuspended, YieldReturn
<1>6. PendingSuspended'
  BY DEF IInv, PendingSuspended, TypeOK, Live, Linked, YieldReturn
<1>7. ArmedHasTask'
  BY DEF IInv, ArmedHasTask, TypeOK, Armed, YieldReturn
<1>8. QED BY <1>1, <1>2, <1>3, <1>4, <1>5, <1>6, <1>7 DEF IInv

\* event_wait() up to its co_resume(): the pointer that is set was NULL, so that no
\* other task loses its one pointer.
LEMMA EventWaitKeeps ==
  ASSUME IInv, NEW e \in Events, NEW s \in Slots, EventWait(e, s)
  PROVE  IInv'
<1>a. running \in Tasks /\ pc[running] = "run"
  BY DEF IInv, TypeOK, Coroutines, EventWait, MayCall
<1>1. TypeOK'
  BY DEF IInv, TypeOK, Coroutines, PCs, EventWait, SwitchBack, eventVars, loopVars
<1>2. ListOK'
  BY DEF IInv, ListOK, CursorLinked, Linked, EventWait, eventVars, loopVars
<1>3. SwitchStack'
  BY SwitchBackKeepsStack DEF IInv, EventWait
<1>4. ResumeOK'
  BY DEF IInv, ResumeOK, TypeOK, EventWait, MayCall, SwitchBack
<1>5. WaitersSuspended'
  BY <1>a, NoneIsNoTask, NoneIsNoEvent
  DEF IInv, WaitersSuspended, TypeOK, EventWait, SwitchBack
<1>6. PendingSuspended'
  BY DEF IInv, PendingSuspended, Live, Linked, EventWait, MayCall, SwitchBack, eventVars
<1>7. ArmedHasTask'
  BY DEF IInv, ArmedHasTask, Armed, EventWait, eventVars
<1>8. QED BY <1>1, <1>2, <1>3, <1>4, <1>5, <1>6, <1>7 DEF IInv

\* The rest of event_wait(): the task that was notified is no longer pointed to.
LEMMA WaitReturnKeeps ==
  ASSUME IInv, WaitReturn
  PROVE  IInv'
<1>1. TypeOK'
  BY DEF IInv, TypeOK, PCs, WaitReturn, eventVars, loopVars
<1>2. ListOK'
  BY DEF IInv, ListOK, CursorLinked, Linked, WaitReturn, eventVars, loopVars
<1>3. SwitchStack'
  BY DEF IInv, SwitchStack, Active, WaitReturn
<1>4. ResumeOK'
  BY DEF IInv, ResumeOK, TypeOK, WaitReturn
<1>5. WaitersSuspended'
  BY DEF IInv, WaitersSuspended, WaitReturn
<1>6. PendingSuspended'
  BY DEF IInv, PendingSuspended, Live, Linked, WaitReturn, eventVars
<1>7. ArmedHasTask'
  BY DEF IInv, ArmedHasTask, Armed, WaitReturn, eventVars
<1>8. QED BY <1>1, <1>2, <1>3, <1>4, <1>5, <1>6, <1>7 DEF IInv

\* event_notify(): the pointer is NULL before the task that it named is switched in.
LEMMA EventNotifyKeeps ==
  ASSUME IInv, NEW s \in Slots, EventNotify(s)
  PROVE  IInv'
<1> DEFINE t == waitp[s]
<1>a. t \in Tasks /\ pc[t] = "wait" /\ pc[running] = "run" /\ t # running
  BY DEF IInv, TypeOK, Coroutines, WaitersSuspended, EventNotify, MayCall
<1>1. TypeOK'
  BY DEF IInv, TypeOK, Coroutines, PCs, EventNotify, Switch, eventVars, loopVars
<1>2. ListOK'
  BY DEF IInv, ListOK, CursorLinked, Linked, EventNotify, eventVars, loopVars
<1>3. SwitchStack'
  BY <1>a, SwitchKeepsStack DEF IInv, EventNotify, Active
<1>4. ResumeOK'
  BY <1>a DEF IInv, ResumeOK, EventNotify, Switch
<1>5. WaitersSuspended'
  BY DEF IInv, WaitersSuspended, TypeOK, EventNotify, Switch
<1>6. PendingSuspended'
  BY <1>a DEF IInv, PendingSuspended, Live, Linked, EventNotify, Switch, eventVars
<1>7. ArmedHasTask'
  BY DEF IInv, ArmedHasTask, Armed, EventNotify, eventVars
<1>8. QED BY <1>1, <1>2, <1>3, <1>4, <1>5, <1>6, <1>7 DEF IInv

\* event_destroy(): a task that yields on the event loses it and its count; the
\* event stays listed, marked, as long as event_main_run() may be iterating.
LEMMA EventDestroyKeeps ==
  ASSUME IInv, NEW e \in Events, EventDestroy(e)
  PROVE  IInv'
<1>a. /\ events' \in Seq(Events) /\ Distinct(events)'
      /\ \A o \in ToSet(events)' : o \in ToSet(events)
      /\ \A o \in ToSet(events) : o # e => o \in ToSet(events)'
      /\ destroy' \in [Events -> BOOLEAN]
      /\ \A o \in Events : o # e => destroy'[o] = destroy[o] /\ flags'[o] = flags[o]
      /\ e \in ToSet(events)' => destroy'[e] /\ current # None
      /\ current # None => UNCHANGED <<events, fd, flags, timeout>>
  <2>1. CASE current # None
    BY <2>1 DEF IInv, TypeOK, ListOK, EventDestroy
  <2>2. CASE current = None
    <3>1. events \in Seq(Events) /\ Distinct(events) /\ e \in ToSet(events)
      BY DEF IInv, TypeOK, ListOK, EventDestroy, Live, Linked
    <3>2. events' = Unlink(events, e)
      BY <2>2 DEF EventDestroy, Free
    <3>4. /\ events' \in Seq(Events) /\ Distinct(events)'
          /\ ToSet(events)' = ToSet(events) \ {e}
      BY <3>1, <3>2, UnlinkFacts
    <3>5. QED BY <3>4 DEF IInv, TypeOK, EventDestroy, Free
  <2>3. QED BY <2>1, <2>2
<1>b. \A o \in Events : o # e /\ task[o] # None => task[o] # task[e]
  BY DEF IInv, PendingSuspended
<1>1. TypeOK'
  <2>1. registered' \in [Tasks -> Nat]
    BY DEF IInv, TypeOK, EventDestroy
  <2>2. CASE current # None
    BY <2>1, <2>2 DEF IInv, TypeOK, Coroutines, EventDestroy, switchVars, loopVars
  <2>3. CASE current = None
    <3>1. /\ fd' \in [Events -> Fds \cup {None}]
          /\ flags' \in [Events -> SUBSET Flags]
          /\ timeout' \in [Events -> 0..MaxTimeout]
      <4>1. Free(e)
        BY <2>3 DEF EventDestroy
      <4>2. QED BY <4>1, TimeoutIsNat DEF IInv, TypeOK, Free
    <3>2. task' \in [Events -> Coroutines]
      BY DEF IInv, TypeOK, Coroutines, EventDestroy
    <3>3. QED
      BY <1>a, <3>1, <3>2 DEF IInv, TypeOK, EventDestroy, switchVars, loopVars
  <2>4. QED BY <2>2, <2>3
<1>2. ListOK'
  <2>1. CASE current # None
    BY <2>1 DEF IInv, ListOK, CursorLinked, Linked, EventDestroy, loopVars
  <2>2. CASE current = None
    BY <1>a, <2>2 DEF IInv, ListOK, CursorLinked, SwitchStack, EventDestroy, MayCall, loopVars
  <2>3. QED BY <2>1, <2>2
<1>3. SwitchStack'
  BY DEF IInv, SwitchStack, Active, EventDestroy, switchVars
<1>4. ResumeOK'
  BY DEF IInv, ResumeOK, EventDestroy, MayCall, switchVars
<1>5. WaitersSuspended'
  BY DEF IInv, WaitersSuspended, EventDestroy, switchVars
<1>6. PendingSuspended'
  <2>1. \A o \in Events : task'[o] # None => o # e /\ task'[o] = task[o]
    BY DEF IInv, TypeOK, EventDestroy
  <2>2. \A o \in Events : task'[o] # None =>
          registered'[task[o]] = registered[task[o]]
    BY <1>b DEF IInv, TypeOK, Coroutines, EventDestroy
  <2>3. QED
    BY <1>a, <2>1, <2>2 DEF IInv, PendingSuspended, Live, Linked, EventDestroy, switchVars
<1>7. ArmedHasTask'
  BY <1>a, LinkedAreEvents DEF IInv, TypeOK, ArmedHasTask, Armed, EventDestroy
<1>8. QED BY <1>1, <1>2, <1>3, <1>4, <1>5, <1>6, <1>7 DEF IInv

\* event_task() ends: nothing names the task any more.
LEMMA TaskReturnKeeps ==
  ASSUME IInv, TaskReturn
  PROVE  IInv'
<1>1. TypeOK'
  BY DEF IInv, TypeOK, Coroutines, PCs, TaskReturn, SwitchBack, eventVars, taskVars,
         loopVars
<1>2. ListOK'
  BY DEF IInv, ListOK, CursorLinked, Linked, TaskReturn, eventVars, loopVars
<1>3. SwitchStack'
  BY SwitchBackKeepsStack DEF IInv, TaskReturn
<1>4. ResumeOK'
  BY DEF IInv, ResumeOK, TaskReturn, MayCall, SwitchBack, taskVars
<1>5. WaitersSuspended'
  BY DEF IInv, WaitersSuspended, TaskReturn, MayCall, SwitchBack, taskVars
<1>6. PendingSuspended'
  BY DEF IInv, PendingSuspended, Live, Linked, TaskReturn, MayCall, SwitchBack,
         eventVars, taskVars
<1>7. ArmedHasTask'
  BY DEF IInv, ArmedHasTask, Armed, TaskReturn, eventVars
<1>8. QED BY <1>1, <1>2, <1>3, <1>4, <1>5, <1>6, <1>7 DEF IInv

\* The first loop of event_main_run() frees a marked event, which no task holds;
\* event_next is NULL by then.
LEMMA CollectKeeps ==
  ASSUME IInv, NEW e \in Events, Collect(e)
  PROVE  IInv'
<1>a. /\ events' \in Seq(Events) /\ Distinct(events)'
      /\ ToSet(events)' = ToSet(events) \ {e}
  BY UnlinkFacts DEF IInv, TypeOK, ListOK, Collect, Free, Linked
<1>1. TypeOK'
  BY <1>a, TimeoutIsNat DEF IInv, TypeOK, Collect, Free, taskVars, switchVars, loopVars
<1>2. ListOK'
  BY <1>a DEF IInv, ListOK, CursorLinked, Collect, loopVars
<1>3. SwitchStack'
  BY DEF IInv, SwitchStack, Active, Collect, switchVars
<1>4. ResumeOK'
  BY DEF IInv, ResumeOK, Collect, taskVars, switchVars
<1>5. WaitersSuspended'
  BY DEF IInv, WaitersSuspended, Collect, taskVars, switchVars
<1>6. PendingSuspended'
  BY <1>a
  DEF IInv, PendingSuspended, Live, Linked, Collect, Free, taskVars, switchVars
<1>7. ArmedHasTask'
  BY <1>a DEF IInv, ArmedHasTask, Armed, Collect, Free
<1>8. QED BY <1>1, <1>2, <1>3, <1>4, <1>5, <1>6, <1>7 DEF IInv

\* select() reaches the deadline: timeout_event has a task, suspended on it.
LEMMA SelectTimeoutKeeps ==
  ASSUME IInv, NEW e \in Events, SelectTimeout(e)
  PROVE  IInv'
<1> DEFINE t == task[e]
<1>a. e \in Armed /\ ~destroy[e]
  BY DEF SelectTimeout, TimeoutEvent, Scanned, Armed
<1>b. t \in Tasks /\ running = None
  BY <1>a DEF IInv, TypeOK, Coroutines, ArmedHasTask, SelectTimeout, Scanned
<1>c. pc[t] = "yield"
  BY <1>b, NoneIsNoTask DEF IInv, PendingSuspended, ResumeOK
<1>1. TypeOK'
  BY DEF IInv, TypeOK, Flags, PCs, SelectTimeout, Switch, loopVars
<1>2. ListOK'
  BY DEF IInv, ListOK, CursorLinked, Linked, SelectTimeout, loopVars
<1>3. SwitchStack'
  BY <1>b, <1>c, SwitchKeepsStack DEF IInv, SelectTimeout, Active
<1>4. ResumeOK'
  BY <1>b, <1>c, NoneIsNoTask DEF IInv, TypeOK, ResumeOK, SelectTimeout, Switch
<1>5. WaitersSuspended'
  BY <1>c DEF IInv, WaitersSuspended, SelectTimeout, Switch
<1>6. PendingSuspended'
  BY DEF IInv, PendingSuspended, TypeOK, Live, Linked, SelectTimeout, Switch
<1>7. ArmedHasTask'
  BY <1>b, NoneIsNoTask DEF IInv, ArmedHasTask, Armed, SelectTimeout
<1>8. QED BY <1>1, <1>2, <1>3, <1>4, <1>5, <1>6, <1>7 DEF IInv

\* The second loop switches into the task of an event: that task is suspended, and
\* event_next stays in the list whatever the task will do.
LEMMA DispatchKeeps ==
  ASSUME IInv, NEW e \in Events, Dispatch(e)
  PROVE  IInv'
<1> DEFINE t == task[e]
<1>a. Linked(e) /\ cursor' \in ToSet(events) \cup {None}
  <2>1. events \in Seq(Events) /\ e \in ToSet(events)
    BY NoneIsNoEvent DEF IInv, TypeOK, ListOK, CursorLinked, Dispatch, AtEvent, Linked
  <2>2. cursor' = NextOf(events, e)
    BY DEF Dispatch
  <2>3. QED BY <2>1, <2>2, NextFacts DEF Linked
<1>b. t \in Tasks /\ running = None
  BY DEF IInv, TypeOK, Coroutines, Dispatch, AtEvent
<1>c. pc[t] = "yield"
  BY <1>b, NoneIsNoTask DEF IInv, PendingSuspended, ResumeOK
<1>1. TypeOK'
  <2>1. Hits(e) \in SUBSET Flags
    BY DEF IInv, TypeOK, Hits
  <2>2. cursor' \in Events \cup {None}
    BY <1>a, LinkedAreEvents DEF IInv, TypeOK
  <2>3. QED
    BY <2>1, <2>2 DEF IInv, TypeOK, PCs, Dispatch, Switch
<1>2. ListOK'
  BY <1>a DEF IInv, ListOK, CursorLinked, Linked, Dispatch, AtEvent
<1>3. SwitchStack'
  BY <1>b, <1>c, SwitchKeepsStack DEF IInv, Dispatch, Active
<1>4. ResumeOK'
  BY <1>b, <1>c, NoneIsNoTask DEF IInv, TypeOK, ResumeOK, Dispatch, Switch
<1>5. WaitersSuspended'
  BY <1>c DEF IInv, WaitersSuspended, Dispatch, Switch
<1>6. PendingSuspended'
  BY DEF IInv, PendingSuspended, TypeOK, Live, Linked, Dispatch, Switch
<1>7. ArmedHasTask'
  BY DEF IInv, ArmedHasTask, Armed, Dispatch
<1>8. QED BY <1>1, <1>2, <1>3, <1>4, <1>5, <1>6, <1>7 DEF IInv

\* The clock: a deadline comes nearer, nothing else changes.
LEMMA TickKeeps ==
  ASSUME IInv, Tick
  PROVE  IInv'
<1>1. TypeOK'
  BY TimeoutIsNat DEF IInv, TypeOK, Tick, taskVars, switchVars, loopVars
<1>2. ListOK'
  BY DEF IInv, ListOK, CursorLinked, Linked, Tick, loopVars
<1>3. SwitchStack'
  BY DEF IInv, SwitchStack, Active, Tick, switchVars
<1>4. ResumeOK'
  BY DEF IInv, ResumeOK, Tick, taskVars, switchVars
<1>5. WaitersSuspended'
  BY DEF IInv, WaitersSuspended, Tick, taskVars, switchVars
<1>6. PendingSuspended'
  BY DEF IInv, PendingSuspended, Live, Linked, Tick, taskVars, switchVars
<1>7. ArmedHasTask'
  BY DEF IInv, ArmedHasTask, Armed, Tick
<1>8. QED BY <1>1, <1>2, <1>3, <1>4, <1>5, <1>6, <1>7 DEF IInv

\* A step of event_main_run() that touches no event and no task.
LEMMA QuietKeeps ==
  ASSUME IInv, UNCHANGED <<eventVars, taskVars, switchVars>>,
         phase' \in Phases, cursor' \in ToSet(events) \cup {None},
         cursor' # None => phase' = "dispatch",
         rset' \subseteq Fds, wset' \subseteq Fds, polled' \subseteq Events
  PROVE  IInv'
<1> USE DEF eventVars, taskVars, switchVars
<1>1. TypeOK'
  BY LinkedAreEvents DEF IInv, TypeOK
<1>2. ListOK'
  BY DEF IInv, ListOK, Distinct, CursorLinked, Linked
<1>3. SwitchStack' /\ ResumeOK'
  BY DEF IInv, SwitchStack, ResumeOK, Active
<1>4. WaitersSuspended' /\ PendingSuspended' /\ ArmedHasTask'
  BY DEF IInv, WaitersSuspended, PendingSuspended, ArmedHasTask, Armed, Live, Linked
<1>5. QED BY <1>1, <1>2, <1>3, <1>4 DEF IInv

\* The invariant is inductive.
THEOREM NextKeepsIInv == IInv /\ [Next]_loopState => IInv'
<1> SUFFICES ASSUME IInv, [Next]_loopState PROVE IInv'
  OBVIOUS
<1>1. CASE Call
  BY <1>1, EventCreateKeeps, EventStartKeeps, EventYieldKeeps, EventWaitKeeps,
     EventNotifyKeeps, EventDestroyKeeps, TaskReturnKeeps DEF Call
<1>2. CASE Return
  BY <1>2, YieldReturnKeeps, WaitReturnKeeps DEF Return
<1>3. CASE Loop
  <2>1. CASE RunLoop
    BY <2>1, QuietKeeps DEF IInv, TypeOK, ListOK, CursorLinked, RunLoop, Phases
  <2>2. CASE \E e \in Events : Collect(e)
    BY <2>2, CollectKeeps
  <2>3. ASSUME NEW r \in SUBSET Fds, NEW w \in SUBSET Fds, SelectReady(r, w)
        PROVE  IInv'
    <3>1. HeadOf(events) \in ToSet(events) \cup {None} /\ Armed \subseteq Events
      BY HeadFacts, LinkedAreEvents DEF IInv, TypeOK, Armed
    <3>2. QED BY <2>3, <3>1, QuietKeeps DEF SelectReady, Phases
  <2>4. CASE \E e \in Events : SelectTimeout(e)
    BY <2>4, SelectTimeoutKeeps
  <2>5. CASE \E e \in Events : Dispatch(e)
    BY <2>5, DispatchKeeps
  <2>6. ASSUME NEW e \in Events, DispatchSkip(e)
        PROVE  IInv'
    <3>1. cursor' \in ToSet(events) \cup {None}
      <4>1. events \in Seq(Events) /\ e \in ToSet(events)
        BY <2>6, NoneIsNoEvent
        DEF IInv, TypeOK, ListOK, CursorLinked, DispatchSkip, AtEvent, Linked
      <4>2. cursor' = NextOf(events, e)
        BY <2>6 DEF DispatchSkip
      <4>3. QED BY <4>1, <4>2, NextFacts
    <3>2. QED BY <2>6, <3>1, QuietKeeps DEF IInv, TypeOK, DispatchSkip, AtEvent
  <2>7. CASE DispatchEnd
    BY <2>7, QuietKeeps DEF DispatchEnd, Phases
  <2>8. CASE LoopExit
    BY <2>8, QuietKeeps DEF IInv, TypeOK, ListOK, CursorLinked, LoopExit, Scanned, Phases
  <2>9. QED BY <1>3, <2>1, <2>2, <2>3, <2>4, <2>5, <2>6, <2>7, <2>8 DEF Loop
<1>4. CASE Tick
  BY <1>4, TickKeeps
<1>5. CASE UNCHANGED loopState
  BY <1>5, QuietKeeps DEF loopState, loopVars, IInv, TypeOK, ListOK, CursorLinked, Linked
<1>6. QED BY <1>1, <1>2, <1>3, <1>4, <1>5 DEF Next, Exited

-----------------------------------------------------------------------------
(* What the reactor guarantees                                             *)

\* The reactor keeps the invariant, whatever program calls it.
THEOREM IInvHolds == Spec => []IInv
BY InitIInv, NextKeepsIInv, PTL DEF Spec

\* Every variable keeps the values of its C type.
THEOREM TypeCorrect == Spec => []TypeOK
BY IInvHolds, PTL DEF IInv

\* event_switch() maintains event_main->task and the stack of switches.
THEOREM StackCorrect == Spec => []SwitchStack
BY IInvHolds, PTL DEF IInv

\* A wait pointer names a task suspended in event_wait(), one pointer each.
THEOREM WaitersCorrect == Spec => []WaitersSuspended
BY IInvHolds, PTL DEF IInv

\* An event is pending for a task suspended on it, counted exactly once.
THEOREM PendingCorrect == Spec => []PendingSuspended
BY IInvHolds, PTL DEF IInv

\* event_main_run() never finds an armed event without a task to switch into.
THEOREM ArmedCorrect == Spec => []ArmedHasTask
BY IInvHolds, PTL DEF IInv

\* event_next is never dangling.
THEOREM CursorCorrect == Spec => []CursorLinked
BY IInvHolds, PTL DEF IInv, ListOK

\* A switch only enters a coroutine that is not on the stack.
THEOREM NoSwitchLoopHolds == Spec => NoSwitchLoop
<1>1. IInv /\ [Next]_loopState => [EntersSuspended]_loopState
  <2>1. SUFFICES ASSUME IInv, Next, NEW t \in Tasks,
                        running' = t, callee'[running] = t, running # t
                 PROVE  ~Active(t)
    BY DEF EntersSuspended
  <2>2. running \in Coroutines /\ callee[running] # t
    BY <2>1, NoneIsNoTask DEF IInv, TypeOK, SwitchStack
  <2>4. \/ \E u \in Tasks : EventStart(u)
        \/ \E s \in Slots : EventNotify(s)
        \/ \E e \in Events : SelectTimeout(e) \/ Dispatch(e)
        \/ running # None /\ \E place : SwitchBack(place)
    BY <2>1
    DEF Next, Call, Return, Loop, EventCreate, EventYield, YieldReturn, EventWait,
        WaitReturn, EventDestroy, TaskReturn, RunLoop, Collect, SelectReady,
        DispatchSkip, DispatchEnd, LoopExit, Tick, Exited, loopState, switchVars
  <2>5. CASE \E u \in Tasks : EventStart(u)
    BY <2>1, <2>5 DEF EventStart, Switch, Active
  <2>6. CASE \E s \in Slots : EventNotify(s)
    BY <2>1, <2>6 DEF IInv, WaitersSuspended, EventNotify, Switch, Active
  <2>7. CASE \E e \in Events : SelectTimeout(e) \/ Dispatch(e)
    <3>1. PICK e \in Events : running = None /\ task[e] = t
      BY <2>1, <2>7 DEF SelectTimeout, Dispatch, Scanned, AtEvent, Switch
    <3>2. QED
      <4>1. pc[t] # "woken"
        BY <2>1 DEF IInv, ResumeOK
      <4>2. pc[t] = "yield"
        BY <2>1, <3>1, <4>1 DEF IInv, PendingSuspended
      <4>3. QED BY <4>2 DEF Active
  <2>8. CASE running # None /\ \E place : SwitchBack(place)
    <3>1. running \in Tasks /\ restarget[running] # running
      <4>1. running \in Tasks /\ Active(running) /\ callee[running] = None
        BY <2>1, <2>8 DEF IInv, TypeOK, Coroutines, SwitchStack
      <4>2. callee[restarget[running]] = running
        BY <2>1, <4>1 DEF IInv, SwitchStack
      <4>3. QED BY <2>8, <4>1, <4>2
    <3>2. callee'[running] = callee[running]
      BY <2>8, <3>1 DEF IInv, TypeOK, SwitchBack
    <3>3. QED BY <2>1, <2>2, <3>2
  <2>9. QED BY <2>4, <2>5, <2>6, <2>7, <2>8
<1>2. QED BY <1>1, IInvHolds, PTL DEF Spec, NoSwitchLoop

\* A yield ends in event_main_run() only, with the event the task yielded on.
THEOREM OnlyLoopEndsYieldHolds == Spec => OnlyLoopEndsYield
<1>1. IInv /\ [Next]_loopState => [EndsYieldForEvent]_loopState
  <2>1. SUFFICES ASSUME IInv, Next, NEW t \in Tasks, pc[t] = "yield", pc'[t] # "yield"
                 PROVE  running = None /\ event'[t] # None /\ task[event'[t]] = t
    BY DEF EndsYieldForEvent
  <2>2. t # running
    BY <2>1, NoneIsNoTask DEF IInv, TypeOK, SwitchStack, Active
  <2>3. pc' # pc
    BY <2>1
  <2>4. CASE \E e \in Events : SelectTimeout(e) \/ Dispatch(e)
    <3>1. PICK e \in Events : SelectTimeout(e) \/ Dispatch(e)
      BY <2>4
    <3>2. running = None /\ pc' = [pc EXCEPT ![task[e]] = "woken"]
      BY <3>1 DEF SelectTimeout, Dispatch, Scanned, AtEvent, Switch
    <3>3. task[e] = t
      BY <2>1, <3>2 DEF IInv, TypeOK
    <3>4. event'[t] = e
      BY <2>1, <3>1, <3>3 DEF IInv, TypeOK, SelectTimeout, Dispatch
    <3>5. QED BY <3>2, <3>3, <3>4, NoneIsNoEvent
  <2>5. CASE \E u \in Tasks : EventStart(u)
    BY <2>1, <2>5 DEF IInv, TypeOK, EventStart, Switch
  <2>6. CASE \E s \in Slots : EventNotify(s)
    BY <2>1, <2>6 DEF IInv, WaitersSuspended, EventNotify, Switch
  <2>7. CASE \E place : pc' = [pc EXCEPT ![running] = place]
    BY <2>1, <2>2, <2>7 DEF IInv, TypeOK
  <2>8. CASE Call
    <3>1. ASSUME NEW place, SwitchBack(place) PROVE pc' = [pc EXCEPT ![running] = place]
      BY <3>1 DEF SwitchBack
    <3>2. QED
      BY <2>3, <2>5, <2>6, <2>7, <2>8, <3>1
      DEF Call, EventCreate, EventYield, EventWait, EventDestroy, TaskReturn, switchVars
  <2>9. CASE Return
    BY <2>7, <2>9 DEF Return, YieldReturn, WaitReturn
  <2>10. CASE Loop
    BY <2>3, <2>4, <2>10
    DEF Loop, RunLoop, Collect, SelectReady, DispatchSkip, DispatchEnd, LoopExit, switchVars
  <2>11. CASE Tick \/ Exited
    BY <2>3, <2>11 DEF Tick, Exited, loopState, switchVars
  <2>12. QED BY <2>1, <2>8, <2>9, <2>10, <2>11 DEF Next
<1>2. QED BY <1>1, IInvHolds, PTL DEF Spec, OnlyLoopEndsYield

-----------------------------------------------------------------------------
(* The coroutines on the stack, from main() to the one that executes       *)

\* s is the stack of coroutines: each was switched into by the one before it, and
\* the active tasks are exactly those on it.
StackIs(s) ==
  /\ s \in Seq(Coroutines) /\ Len(s) > 0 /\ Distinct(s)
  /\ s[1] = None /\ s[Len(s)] = running
  /\ \A i \in 1..Len(s)-1 : s[i+1] \in Tasks /\ restarget[s[i+1]] = s[i]
  /\ \A t \in Tasks : Active(t) <=> t \in ToSet(s)

StackOK == \E s : StackIs(s)

\* A switch pushes a task that was not on the stack.
LEMMA SwitchPushes ==
  ASSUME IInv, StackOK, NEW t \in Tasks, ~Active(t),
         NEW place \in {"run", "woken", "notified"}, Switch(t, place)
  PROVE  StackOK'
<1>1. PICK s : StackIs(s)
  BY DEF StackOK
<1> DEFINE n == Len(s)
           a == Append(s, t)
<1>2. n \in Nat /\ n > 0 /\ DOMAIN s = 1..n /\ t \in Coroutines
  BY <1>1 DEF StackIs, Coroutines
<1>3. t \notin ToSet(s)
  BY <1>1 DEF StackIs
<1>4. a \in Seq(Coroutines) /\ Distinct(a) /\ ToSet(a) = ToSet(s) \cup {t}
  BY <1>1, <1>2, AppendFacts DEF StackIs
<1>5. Len(a) = n + 1 /\ a[n+1] = t /\ \A i \in 1..n : a[i] = s[i]
  BY DEF StackIs
<1> HIDE DEF a, n
<1>6. \A i \in 1..n : s[i] # t
  BY <1>2, <1>3 DEF ToSet
<1>7. /\ running' = t
      /\ restarget' = [restarget EXCEPT ![t] = running]
      /\ pc' = [pc EXCEPT ![t] = place]
  BY DEF Switch
<1>8. ASSUME NEW i \in 1..n
      PROVE  a[i+1] \in Tasks /\ restarget'[a[i+1]] = a[i]
  <2>1. CASE i = n
    BY <2>1, <1>1, <1>2, <1>5, <1>7 DEF StackIs, IInv, TypeOK
  <2>2. CASE i # n
    <3>1. i \in 1..n-1 /\ i + 1 \in 1..n
      BY <1>2, <2>2
    <3>2. s[i+1] \in Tasks /\ restarget[s[i+1]] = s[i] /\ s[i+1] # t
      BY <1>1, <1>6, <3>1 DEF StackIs, n
    <3>q. QED BY <1>5, <1>7, <3>1, <3>2 DEF IInv, TypeOK
  <2>q. QED BY <2>1, <2>2
<1>9. ASSUME NEW u \in Tasks
      PROVE  Active(u)' <=> u \in ToSet(a)
  <2>1. CASE u = t
    BY <2>1, <1>4, <1>7 DEF Active, IInv, TypeOK
  <2>2. CASE u # t
    BY <2>2, <1>1, <1>4, <1>7 DEF Active, StackIs
  <2>q. QED BY <2>1, <2>2
<1>10. a[1] = None /\ a[Len(a)] = running' /\ Len(a) > 0 /\ Len(a) - 1 = n
  BY <1>1, <1>2, <1>5, <1>7 DEF StackIs
<1>q. QED
  BY <1>4, <1>8, <1>9, <1>10 DEF StackOK, StackIs

\* Switching back pops the task that executed.
LEMMA SwitchBackPops ==
  ASSUME IInv, StackOK, running # None, NEW place \in {"free", "yield", "wait"}, SwitchBack(place)
  PROVE  StackOK'
<1>1. PICK s : StackIs(s)
  BY DEF StackOK
<1> DEFINE n == Len(s)
           u == SubSeq(s, 1, n-1)
<1>2. n \in Nat /\ n > 1 /\ DOMAIN s = 1..n /\ running \in Tasks
  BY <1>1 DEF StackIs, IInv, TypeOK, Coroutines
<1>3. /\ u \in Seq(Coroutines) /\ Len(u) = n-1 /\ DOMAIN u = 1..n-1
      /\ \A i \in 1..n-1 : u[i] = s[i]
  BY <1>1 DEF StackIs
<1> HIDE DEF u, n
<1>4. Distinct(u)
  BY <1>1, <1>2, <1>3 DEF StackIs, Distinct
<1>5. s[n] = running /\ restarget[running] = s[n-1] /\ s[1] = None
  <2>1. s[n] = running /\ s[1] = None
    BY <1>1 DEF StackIs, n
  <2>2. n \in 2..n
    BY <1>2
  <2>3. restarget[s[n]] = s[n-1]
    BY <1>1, <2>2 DEF StackIs, n
  <2>4. QED BY <2>1, <2>3
<1>6. \A i \in 1..n : s[i] = running <=> i = n
  BY <1>1, <1>2 DEF StackIs, Distinct
<1>7. /\ running' = s[n-1]
      /\ restarget' = [restarget EXCEPT ![running] = None]
      /\ pc' = [pc EXCEPT ![running] = place]
  BY <1>5 DEF SwitchBack
<1>8. ASSUME NEW i \in 1..n-2
      PROVE  u[i+1] \in Tasks /\ restarget'[u[i+1]] = u[i]
  <2>1. i \in 1..n-1 /\ i+1 \in 1..n-1 /\ i+1 \in 1..n /\ i+1 # n
    BY <1>2
  <2>2. s[i+1] \in Tasks /\ restarget[s[i+1]] = s[i]
    BY <1>1 DEF StackIs, n
  <2>3. s[i+1] # running
    BY <1>6, <2>1
  <2>q. QED BY <1>3, <1>7, <2>1, <2>2, <2>3 DEF IInv
<1>9. ASSUME NEW x \in Tasks
      PROVE  Active(x)' <=> x \in ToSet(u)
  <2>1. x \in ToSet(u) <=> x \in ToSet(s) /\ x # running
    <3>1. \A i : i \in 1..n-1 <=> i \in 1..n /\ i # n
      BY <1>2
    <3>2. x \in ToSet(u) <=> \E i \in 1..n-1 : s[i] = x
      BY <1>3 DEF ToSet
    <3>3. x \in ToSet(s) <=> \E i \in 1..n : s[i] = x
      BY <1>2 DEF ToSet
    <3>q. QED BY <1>6, <3>1, <3>2, <3>3
  <2>2. CASE x = running
    <3>1. pc'[x] = place
      BY <1>7, <2>2 DEF IInv, TypeOK
    <3>q. QED BY <2>1, <2>2, <3>1 DEF Active
  <2>3. CASE x # running
    <3>1. pc'[x] = pc[x]
      BY <1>7, <2>3 DEF IInv, TypeOK
    <3>q. QED BY <1>1, <2>1, <2>3, <3>1 DEF Active, StackIs
  <2>q. QED BY <2>2, <2>3
<1>10. u[1] = None /\ u[Len(u)] = running' /\ Len(u) > 0 /\ Len(u) - 1 = n-2
  BY <1>2, <1>3, <1>5, <1>7
<1>q. QED
  <2>1. \A i \in 1..Len(u)-1 : u[i+1] \in Tasks /\ restarget'[u[i+1]] = u[i]
    BY <1>8, <1>10
  <2>2. StackIs(u)'
    BY <1>3, <1>4, <1>9, <1>10, <2>1 DEF StackIs
  <2>q. QED BY <2>2 DEF StackOK

\* Every step pushes, pops, or leaves the stack as it is.
LEMMA StackKept ==
  ASSUME IInv, StackOK, [Next]_loopState
  PROVE  StackOK'
<1>1. CASE UNCHANGED <<running, restarget>> /\ \A t \in Tasks : Active(t)' <=> Active(t)
  BY <1>1 DEF StackOK, StackIs
<1>2. CASE UNCHANGED switchVars
  BY <1>1, <1>2 DEF switchVars, Active
<1>3. ASSUME NEW t \in Tasks, EventStart(t)
      PROVE  StackOK'
  BY <1>3, SwitchPushes DEF EventStart, Active
<1>4. ASSUME NEW s \in Slots, EventNotify(s)
      PROVE  StackOK'
  <2>1. waitp[s] \in Tasks /\ pc[waitp[s]] = "wait"
    BY <1>4 DEF IInv, TypeOK, Coroutines, WaitersSuspended, EventNotify
  <2>q. QED BY <1>4, <2>1, SwitchPushes DEF EventNotify, Active
<1>5. ASSUME NEW e \in Events, SelectTimeout(e) \/ Dispatch(e)
      PROVE  StackOK'
  <2>1. running = None /\ task[e] \in Tasks
    <3>1. CASE Dispatch(e)
      BY <3>1 DEF Dispatch, AtEvent, IInv, TypeOK, Coroutines
    <3>2. CASE SelectTimeout(e)
      <4>1. running = None /\ e \in Armed /\ ~destroy[e]
        BY <3>2 DEF SelectTimeout, TimeoutEvent, Scanned, Armed
      <4>q. QED BY <4>1 DEF IInv, ArmedHasTask, TypeOK, Coroutines
    <3>q. QED BY <1>5, <3>1, <3>2
  <2>2. pc[task[e]] = "yield"
    BY <2>1, NoneIsNoTask DEF IInv, ResumeOK, PendingSuspended
  <2>q. QED BY <1>5, <2>1, <2>2, SwitchPushes DEF SelectTimeout, Dispatch, Active
<1>6. CASE \/ \E e \in Events, f \in Fds : EventCreate(e, f)
           \/ \E e \in Events : EventDestroy(e)
  BY <1>2, <1>6 DEF EventCreate, EventDestroy
<1>7. CASE \/ \E e \in Events, fl \in YieldFlags, ticks \in 0..MaxTimeout \cup {None} :
                EventYield(e, fl, ticks)
           \/ \E e \in Events, s \in Slots : EventWait(e, s)
           \/ TaskReturn
  BY <1>7, SwitchBackPops DEF EventYield, EventWait, TaskReturn
<1>8. CASE Call
  BY <1>3, <1>4, <1>6, <1>7, <1>8 DEF Call
<1>9. CASE Return
  <2>1. running \in Tasks /\ UNCHANGED <<running, restarget>>
    BY <1>9 DEF IInv, TypeOK, Coroutines, Return, YieldReturn, WaitReturn
  <2>2. pc[running] \in {"woken", "notified"} /\ pc' = [pc EXCEPT ![running] = "run"]
    BY <1>9 DEF Return, YieldReturn, WaitReturn
  <2>q. QED BY <1>1, <2>1, <2>2 DEF IInv, TypeOK, Active
<1>10. CASE Loop
  BY <1>2, <1>5, <1>10
  DEF Loop, RunLoop, Collect, SelectReady, DispatchSkip, DispatchEnd, LoopExit
<1>11. CASE Tick \/ UNCHANGED loopState
  BY <1>2, <1>11 DEF Tick, loopState
<1>q. QED BY <1>8, <1>9, <1>10, <1>11 DEF Next, Exited

\* main() executes only when every task is suspended or has returned.
THEOREM MainRunsAloneHolds == Spec => []MainRunsAlone
<1>1. Init => StackOK
  <2> SUFFICES ASSUME Init PROVE StackIs(<<None>>)
    BY DEF StackOK
  <2>1. <<None>> \in Seq(Coroutines) /\ Len(<<None>>) = 1 /\ ToSet(<<None>>) = {None}
    BY DEF Coroutines, ToSet
  <2>q. QED BY <2>1, NoneIsNoTask DEF Init, StackIs, Distinct, Active
<1>2. IInv /\ StackOK => MainRunsAlone
  <2> SUFFICES ASSUME IInv, running = None, NEW s, StackIs(s), NEW t \in Tasks
               PROVE  ~Active(t)
    BY DEF StackOK, MainRunsAlone
  <2>1. Len(s) \in Nat /\ DOMAIN s = 1..Len(s)
    BY DEF StackIs
  <2>2. Len(s) = 1
    BY <2>1 DEF StackIs, Distinct
  <2>3. t \notin ToSet(s)
    BY <2>2, NoneIsNoTask DEF StackIs, ToSet
  <2>q. QED BY <2>3 DEF StackIs
<1>3. IInv /\ StackOK /\ [Next]_loopState => StackOK'
  BY StackKept
<1>q. QED BY <1>1, <1>2, <1>3, IInvHolds, PTL DEF Spec
-----------------------------------------------------------------------------
(* Readiness is fresh unless fds are reused within a pass                  *)

\* Linked events have distinct fds, but for those that have been destroyed, and the fd_sets
\* only hold fds of events that were pending at the last select().
FdSets ==
  /\ \A a, b \in ToSet(events) : fd[a] = fd[b] => a = b \/ destroy[a] \/ destroy[b]
  /\ polled \subseteq ToSet(events)
  /\ rset \cup wset \subseteq {fd[p] : p \in polled}
  /\ phase # "dispatch" => rset = {} /\ wset = {} /\ polled = {}

\* Nobody gets an fd that an event in use has, and what was polled stays linked as long as the
\* pass goes on.
LEMMA FdSetsKept ==
  ASSUME IInv, FdSets, [Next]_loopState
  PROVE  FdSets'
<1>1. CASE UNCHANGED <<events, fd, destroy, phase, rset, wset, polled>>
  BY <1>1 DEF FdSets
<1>2. ASSUME NEW e \in Events, NEW f \in Fds, EventCreate(e, f)
      PROVE  FdSets'
  <2>1. ToSet(events)' = ToSet(events) \cup {e} /\ e \notin ToSet(events)
    BY <1>2, AppendFacts DEF IInv, TypeOK, ListOK, EventCreate, Linked
  <2>2. \A a \in ToSet(events) :
          /\ fd[a] = f => destroy[a]
          /\ fd'[a] = fd[a] /\ destroy'[a] = destroy[a]
    BY <1>2, <2>1, LinkedAreEvents DEF IInv, TypeOK, EventCreate, FdIsFree
  <2>3. fd'[e] = f
    BY <1>2 DEF IInv, TypeOK, EventCreate
  <2>4. \A a, b \in ToSet(events)' : fd'[a] = fd'[b] => a = b \/ destroy'[a] \/ destroy'[b]
    BY <2>1, <2>2, <2>3 DEF FdSets
  <2>5. UNCHANGED <<phase, rset, wset, polled>>
    BY <1>2 DEF EventCreate, loopVars
  <2>6. {fd'[p] : p \in polled'} = {fd[p] : p \in polled}
    BY <2>2, <2>5 DEF FdSets
  <2>7. QED BY <2>1, <2>4, <2>5, <2>6 DEF FdSets
<1>3. ASSUME NEW e \in Events, EventDestroy(e)
      PROVE  FdSets'
  <2>1. CASE current # None
    <3>1. /\ UNCHANGED <<events, fd, phase, rset, wset, polled>>
          /\ destroy' = [destroy EXCEPT ![e] = TRUE]
      BY <1>3, <2>1 DEF EventDestroy, loopVars
    <3>2. \A a \in ToSet(events) : a \in Events /\ (destroy[a] => destroy'[a])
      BY <3>1, LinkedAreEvents DEF IInv, TypeOK
    <3>3. QED BY <3>1, <3>2 DEF FdSets
  <2>2. CASE current = None
    <3>1. /\ ToSet(events)' = ToSet(events) \ {e} /\ fd' = [fd EXCEPT ![e] = None]
          /\ destroy' = [destroy EXCEPT ![e] = FALSE]
      BY <1>3, <2>2, UnlinkFacts DEF IInv, TypeOK, ListOK, EventDestroy, Free, Live, Linked
    <3>2. phase # "dispatch" /\ UNCHANGED <<phase, rset, wset, polled>>
      BY <1>3, <2>2 DEF IInv, SwitchStack, EventDestroy, MayCall, loopVars
    <3>3. QED BY <3>1, <3>2 DEF IInv, TypeOK, FdSets
  <2>3. QED BY <2>1, <2>2
<1>4. ASSUME NEW e \in Events, Collect(e)
      PROVE  FdSets'
  <2>1. /\ ToSet(events)' = ToSet(events) \ {e} /\ fd' = [fd EXCEPT ![e] = None]
        /\ destroy' = [destroy EXCEPT ![e] = FALSE]
    BY <1>4, UnlinkFacts DEF IInv, TypeOK, ListOK, Collect, Free, Linked
  <2>2. QED BY <1>4, <2>1 DEF FdSets, Collect, loopVars
<1>5. ASSUME NEW r \in SUBSET Fds, NEW w \in SUBSET Fds, SelectReady(r, w)
      PROVE  FdSets'
  BY <1>5 DEF FdSets, SelectReady, Armed, eventVars
<1>6. CASE RunLoop \/ DispatchEnd \/ LoopExit
  BY <1>6 DEF FdSets, RunLoop, DispatchEnd, LoopExit, Scanned, eventVars
<1>7. CASE Call
  BY <1>1, <1>2, <1>3, <1>7
  DEF Call, EventStart, EventYield, EventWait, EventNotify, TaskReturn, eventVars, loopVars
<1>8. CASE Loop
  BY <1>1, <1>4, <1>5, <1>6, <1>8
  DEF Loop, SelectTimeout, Dispatch, DispatchSkip, eventVars, loopVars
<1>9. CASE Return \/ Tick \/ UNCHANGED loopState
  BY <1>1, <1>9 DEF Return, YieldReturn, WaitReturn, Tick, loopState, eventVars, loopVars
<1>10. QED BY <1>7, <1>8, <1>9 DEF Next, Exited

\* Each step of event_main_run() that wakes a task for R or W does so for an fd that was
\* polled, and a task that is woken goes on at once.
LEMMA StaleKept ==
  ASSUME IInv, FdSets, StaleOnlyByReuse, [Next]_loopState
  PROVE  StaleOnlyByReuse'
<1>1. CASE UNCHANGED <<pc, flags, event, polled, destroy, fd>>
  BY <1>1 DEF StaleOnlyByReuse, WokenByFd
<1>2. CASE \A t \in Tasks : pc'[t] # "woken"
  BY <1>2 DEF StaleOnlyByReuse, WokenByFd
<1>3. ASSUME running = None \/ pc[running] # "woken", NEW t \in Tasks
      PROVE  pc[t] # "woken"
  BY <1>3, NoneIsNoTask DEF IInv, ResumeOK
<1>4. ASSUME NEW place, place # "woken", running # None, MayCall, SwitchBack(place)
      PROVE  \A t \in Tasks : pc'[t] # "woken"
  BY <1>3, <1>4 DEF IInv, TypeOK, SwitchBack, MayCall
<1>5. ASSUME NEW u \in Tasks, NEW place, place # "woken", MayCall, Switch(u, place)
      PROVE  \A t \in Tasks : pc'[t] # "woken"
  BY <1>3, <1>5 DEF IInv, TypeOK, Switch, MayCall
<1>6. CASE Call
  <2>1. ASSUME NEW s \in Slots, EventNotify(s) PROVE waitp[s] \in Tasks
    BY <2>1 DEF IInv, TypeOK, Coroutines, EventNotify
  <2>2. CASE UNCHANGED pc
    BY <1>2, <1>3, <1>6, <2>2
    DEF Call, EventCreate, EventStart, EventYield, EventWait, EventNotify, EventDestroy,
        TaskReturn, MayCall
  <2>3. QED
    BY <1>2, <1>4, <1>5, <1>6, <2>1, <2>2
    DEF Call, EventCreate, EventStart, EventYield, EventWait, EventNotify, EventDestroy,
        TaskReturn, switchVars
<1>7. CASE Return
  BY <1>2, <1>7 DEF IInv, TypeOK, ResumeOK, Return, YieldReturn, WaitReturn
<1>8. ASSUME NEW e \in Events, SelectTimeout(e) \/ Dispatch(e)
      PROVE  StaleOnlyByReuse'
  <2>1. /\ running = None /\ event' = [event EXCEPT ![task[e]] = e]
        /\ UNCHANGED <<polled, fd, destroy>>
    BY <1>8 DEF SelectTimeout, Dispatch, Scanned, AtEvent, loopVars
  <2>2. \A t \in Tasks : pc'[t] = "woken" => t = task[e]
    BY <1>3, <1>8, <2>1 DEF IInv, TypeOK, SelectTimeout, Dispatch, Switch
  <2>3. flags'[e] # {"T"} => e \in polled \/ \E o \in polled : destroy[o] /\ fd[o] = fd[e]
    <3>1. CASE SelectTimeout(e)
      BY <3>1 DEF IInv, TypeOK, SelectTimeout
    <3>2. CASE Dispatch(e)
      <4>1. e \in ToSet(events) /\ fd[e] \in rset \cup wset
        BY <3>2, NoneIsNoEvent DEF IInv, ListOK, CursorLinked, Linked, Dispatch, AtEvent, Hits
      <4>2. ~destroy[e]
        BY <3>2 DEF IInv, PendingSuspended, Live, Dispatch
      <4>3. PICK o \in polled : fd[o] = fd[e]
        BY <4>1 DEF FdSets
      <4>4. o = e \/ destroy[o]
        BY <4>1, <4>2, <4>3 DEF FdSets
      <4>5. QED BY <4>3, <4>4
    <3>3. QED BY <1>8, <3>1, <3>2
  <2>4. ASSUME NEW t \in Tasks, WokenByFd(t)'
        PROVE  /\ event'[t] = e
               /\ flags'[e] # {"T"}
    BY <2>1, <2>2, <2>4 DEF IInv, TypeOK, WokenByFd
  <2>5. QED BY <2>1, <2>3, <2>4 DEF StaleOnlyByReuse
<1>9. CASE Loop
  <2>1. CASE UNCHANGED pc /\ running = None
    BY <1>2, <1>3, <2>1
  <2>2. QED
    BY <1>8, <1>9, <2>1
    DEF Loop, RunLoop, Collect, SelectReady, DispatchSkip, DispatchEnd, LoopExit,
        Scanned, AtEvent, switchVars
<1>10. CASE Tick \/ UNCHANGED loopState
  BY <1>1, <1>10 DEF Tick, loopState, eventVars, taskVars, switchVars, loopVars
<1>11. QED BY <1>6, <1>7, <1>9, <1>10 DEF Next, Exited

\* Whatever fds the kernel hands out again during a pass, a task that is woken for R or W was
\* pending when select() polled its event, or the event has got the fd of one that was, and that
\* has been destroyed in this pass.
THEOREM StalenessCorrect == Spec => []StaleOnlyByReuse
<1>1. Init => FdSets /\ StaleOnlyByReuse
  BY DEF Init, FdSets, StaleOnlyByReuse, WokenByFd, ToSet
<1>2. IInv /\ FdSets /\ StaleOnlyByReuse /\ [Next]_loopState
        => FdSets' /\ StaleOnlyByReuse'
  BY FdSetsKept, StaleKept
<1>3. QED BY <1>1, <1>2, IInvHolds, PTL DEF Spec

-----------------------------------------------------------------------------
(* The list of resolves                                                    *)

\* An element that is queued behind others does not become the head.
LEMMA AppendKeepsHead ==
  ASSUME NEW S, NEW q \in Seq(S), NEW x \in S, NEW y \in ToSet(q)
  PROVE  HeadOf(Append(q, x)) = HeadOf(q)
<1>2. 1 \in 1..Len(q) /\ q # <<>>
  BY DEF ToSet
<1>q. QED BY <1>2 DEF HeadOf

\* The head of a list that is not empty is in it.
LEMMA HeadIsListed ==
  ASSUME NEW S, NEW q \in Seq(S), NEW y \in ToSet(q)
  PROVE  HeadOf(q) \in ToSet(q)
BY DEF HeadOf, ToSet

\* Moving an element to the tail keeps the list well formed.
LEMMA RequeueFacts ==
  ASSUME NEW S, NEW q \in Seq(S), Distinct(q), NEW x \in ToSet(q)
  PROVE  /\ Append(Unlink(q, x), x) \in Seq(S)
         /\ Distinct(Append(Unlink(q, x), x))
         /\ ToSet(Append(Unlink(q, x), x)) = ToSet(q)
<1>1. x \in S
  BY DEF ToSet
<1>2. /\ Unlink(q, x) \in Seq(S) /\ Distinct(Unlink(q, x))
      /\ ToSet(Unlink(q, x)) = ToSet(q) \ {x}
  BY UnlinkFacts
<1>3. /\ Append(Unlink(q, x), x) \in Seq(S)
      /\ Distinct(Append(Unlink(q, x), x))
      /\ ToSet(Append(Unlink(q, x), x)) = ToSet(Unlink(q, x)) \cup {x}
  BY <1>1, <1>2, AppendFacts
<1>q. QED BY <1>2, <1>3

\* A set of numbers has a smallest one.
LEMMA Smallest ==
  ASSUME NEW H \in SUBSET Nat, H # {}
  PROVE  \E k \in H : \A l \in H : k <= l
<1>1. PICK k \in H : \A l \in H : ~(<<l, k>> \in OpToRel(<, Nat))
  BY NatLessThanWellFounded, WFMin
<1>2. \A l \in H : ~(l < k)
  BY <1>1 DEF OpToRel
<1>q. QED BY <1>2

\* Only a listed resolve is matched, and only by a datagram that has a header.
LEMMA MatchingFacts ==
  ASSUME ResolverTypeOK, NEW i, Matching(i) # None
  PROVE  /\ Matching(i) \in Pending /\ Matching(i) \in Tasks /\ i \in 0..IdMod-1
         /\ id[Matching(i)] = i
<1> DEFINE hits == {k \in DOMAIN resolves : id[resolves[k]] = i}
<1>1. Len(resolves) \in Nat /\ DOMAIN resolves = 1..Len(resolves)
  BY DEF ResolverTypeOK
<1>2. hits # {}
  BY DEF Matching
<1>3. PICK k \in hits : \A l \in hits : k <= l
  <2>1. hits \in SUBSET Nat
    BY <1>1
  <2>q. QED BY <1>2, <2>1, Smallest
<1>4. \E l \in hits : Matching(i) = resolves[l] /\ id[resolves[l]] = i
  BY <1>3 DEF Matching
<1>q. QED BY <1>4 DEF ResolverTypeOK, Pending, ToSet

-----------------------------------------------------------------------------
(* The inductive invariant                                                 *)

\* The list: each lookup without an answer once, and what a failed one has left.
ResolvesOK ==
  /\ Distinct(resolves)
  /\ \A t \in Tasks : Waiting(t) => t \in Pending
  /\ \A t \in Pending :
       /\ nth[t] > 0
       /\ Waiting(t) \/ (SocketErrors /\ at[t] = "idle" /\ outcome[t] = "error")

\* Between dns_resolve_response()'s look at the list and its return, the task holds
\* the socket, by running or by yielding on it.
ReceiverOK ==
  \A t \in Tasks : at[t] \in {"recv", "expired"} =>
    /\ response[t] = 0
    /\ first[t] = HeadOf(resolves)
    /\ task[Udp] = t \/ (task[Udp] = None /\ running = t /\ pc[t] = "run")

\* Where a task is in the program agrees with where it is in the reactor.
PlacesOK ==
  /\ \A t \in Tasks :
       /\ pc[t] \in {"yield", "woken"} => at[t] = "recv" /\ task[Udp] = t
       /\ pc[t] \in {"wait", "notified"} => at[t] = "sync"
       /\ pc[t] = "free" => at[t] \in {"new", "idle"}
       /\ at[t] = "new" => pc[t] = "free"
       /\ pc[t] = "wait" => waitp[t] = t /\ response[t] = 0
       /\ waitp[t] \in {None, t}
  /\ \A e \in Events : e # Udp => task[e] = None

\* As long as a task waits, another one receives, or has yet to leave
\* dns_resolve_sync() and will look for one to receive.
WatchOK ==
  ~SocketErrors /\ (\E t \in Tasks : pc[t] = "wait") =>
    \/ task[Udp] # None
    \/ \E t \in Tasks : Active(t) /\ at[t] \in {"sync", "recv", "expired"}

RInv == ResolverTypeOK /\ ResolvesOK /\ ReceiverOK /\ PlacesOK /\ WatchOK

-----------------------------------------------------------------------------
(* What the invariants say of a step's first state                         *)

\* The types that the steps below need.
LEMMA Types ==
  ASSUME IInv, RInv
  PROVE  /\ pc \in [Tasks -> PCs] /\ running \in Tasks \cup {None}
         /\ task \in [Events -> Tasks \cup {None}]
         /\ waitp \in [Tasks -> Tasks \cup {None}]
         /\ at \in [Tasks -> Places] /\ response \in [Tasks -> {-1, 0, 1}]
         /\ nth \in [Tasks -> 0..MaxLookups] /\ outcome \in [Tasks -> Outcomes]
         /\ first \in [Tasks -> Tasks \cup {None}]
         /\ resolves \in Seq(Tasks) /\ Pending \subseteq Tasks
<1>1. Pending \subseteq Tasks
  BY DEF RInv, ResolverTypeOK, Pending, ToSet
<1>q. QED BY <1>1, SlotsAreTasks DEF IInv, RInv, TypeOK, Coroutines, ResolverTypeOK

\* How the tasks of the resolver stand in the reactor.
LEMMA Shape ==
  ASSUME IInv, RInv
  PROVE  /\ running # None => Active(running)
         /\ \A t \in Tasks : pc[t] \in {"woken", "notified"} => running = t
         /\ \A t \in Tasks : pc[t] = "woken" => event[t] = Udp
         /\ \A t \in Tasks : task[Udp] = t => pc[t] \in {"yield", "woken"}
         /\ \A t \in Tasks : waitp[t] = t => pc[t] = "wait"
         /\ None \notin Tasks /\ Udp \in Events
<1>1. \A t \in Tasks : pc[t] = "woken" => event[t] \in Events /\ task[event[t]] = t
  BY DEF IInv, ResumeOK
<1>2. \A t \in Tasks : pc[t] = "woken" => event[t] = Udp
  BY <1>1, NoneIsNoTask DEF RInv, PlacesOK
<1>3. \A t \in Tasks : task[Udp] = t => pc[t] \in {"yield", "woken"}
  BY SlotsAreTasks, NoneIsNoTask DEF IInv, PendingSuspended
<1>4. \A t \in Tasks : waitp[t] = t => pc[t] = "wait"
  BY SlotsAreTasks, NoneIsNoTask DEF IInv, WaitersSuspended
<1>q. QED
  BY <1>2, <1>3, <1>4, SlotsAreTasks, NoneIsNoTask DEF IInv, SwitchStack, ResumeOK

\* A step that leaves the resolver alone keeps what is only about the resolver.
LEMMA ReactorStep ==
  ASSUME RInv, UNCHANGED resolverVars
  PROVE  ResolverTypeOK' /\ ResolvesOK'
<1>1. ResolverTypeOK'
  BY DEF RInv, ResolverTypeOK, resolverVars, resolveVars, lookupVars, networkVars
<1>2. ResolvesOK'
  BY DEF RInv, ResolvesOK, Pending, Waiting, resolverVars, resolveVars, lookupVars
<1>q. QED BY <1>1, <1>2

-----------------------------------------------------------------------------
(* Every step preserves the invariant                                      *)

\* udp_connect() and dns_create() in main(): the event of the socket.
LEMMA OpenSocketKeeps ==
  ASSUME IInv, RInv, OpenSocket
  PROVE  RInv'
<1>0. UNCHANGED resolverVars
  BY DEF OpenSocket
<1>1. ResolverTypeOK' /\ ResolvesOK'
  BY <1>0, ReactorStep
<1>2. UNCHANGED <<task, pc, running, waitp>>
  <2>1. task[Udp] = None
    BY SlotsAreTasks DEF IInv, PendingSuspended, OpenSocket, EventCreate, Live
  <2>2. task' = [task EXCEPT ![Udp] = None] /\ UNCHANGED <<pc, running, waitp>>
    BY DEF OpenSocket, EventCreate, taskVars, switchVars
  <2>q. QED BY <2>1, <2>2, Types
<1>3. ReceiverOK' /\ PlacesOK' /\ WatchOK'
  BY <1>0, <1>2
  DEF RInv, ReceiverOK, PlacesOK, WatchOK, Active, resolverVars, resolveVars
<1>q. QED BY <1>1, <1>3 DEF RInv

\* main() calls event_main_run().
LEMMA EnterLoopKeeps ==
  ASSUME IInv, RInv, EnterLoop
  PROVE  RInv'
<1>0. UNCHANGED resolverVars
  BY DEF EnterLoop
<1>1. ResolverTypeOK' /\ ResolvesOK'
  BY <1>0, ReactorStep
<1>2. ReceiverOK'
  BY DEF RInv, ReceiverOK, EnterLoop, RunLoop, eventVars, resolverVars, resolveVars
<1>3. PlacesOK'
  BY DEF RInv, PlacesOK, EnterLoop, RunLoop, eventVars, taskVars, switchVars,
         resolverVars, resolveVars
<1>4. WatchOK'
  BY DEF RInv, WatchOK, Active, EnterLoop, RunLoop, eventVars, switchVars, resolverVars,
         resolveVars
<1>q. QED BY <1>1, <1>2, <1>3, <1>4 DEF RInv

\* A task of dns.c returns: it has no lookup out.
LEMMA TaskEndsKeeps ==
  ASSUME IInv, RInv, NEW t \in Tasks, TaskEnds(t)
  PROVE  RInv'
<1>0. UNCHANGED resolverVars
  BY DEF TaskEnds
<1>1. ResolverTypeOK' /\ ResolvesOK'
  BY <1>0, ReactorStep
<1>2. ReceiverOK'
  BY DEF RInv, ReceiverOK, At, TaskEnds, TaskReturn, eventVars, resolverVars,
         resolveVars
<1>3. PlacesOK'
  BY DEF RInv, PlacesOK, At, TaskEnds, TaskReturn, SwitchBack, eventVars, taskVars,
         resolverVars, resolveVars
<1>4. WatchOK'
  BY DEF RInv, WatchOK, Active, At, TaskEnds, TaskReturn, SwitchBack, eventVars,
         resolverVars, resolveVars
<1>q. QED BY <1>1, <1>2, <1>3, <1>4 DEF RInv

\* event_wait() in dns_resolve_sync(): taken only while another task yields on the
\* socket, which is what WatchOK asks for.
LEMMA SyncWaitKeeps ==
  ASSUME IInv, RInv, NEW t \in Tasks, SyncWait(t)
  PROVE  RInv'
<1>0. UNCHANGED resolverVars
  BY DEF SyncWait
<1>1. ResolverTypeOK' /\ ResolvesOK'
  BY <1>0, ReactorStep
<1>2. ReceiverOK'
  BY DEF RInv, ReceiverOK, SyncWait, EventWait, eventVars, resolverVars, resolveVars
<1>3. PlacesOK'
  BY Types
  DEF RInv, PlacesOK, At, SyncWait, EventWait, SwitchBack, eventVars, resolverVars,
      resolveVars
<1>4. WatchOK'
  BY DEF WatchOK, SyncWait, EventWait, eventVars
<1>q. QED BY <1>1, <1>2, <1>3, <1>4 DEF RInv

\* event_wait() returns into the loop of dns_resolve_sync().
LEMMA WaitEndsKeeps ==
  ASSUME IInv, RInv, NEW t \in Tasks, WaitEnds(t)
  PROVE  RInv'
<1>0. UNCHANGED resolverVars
  BY DEF WaitEnds
<1>1. ResolverTypeOK' /\ ResolvesOK'
  BY <1>0, ReactorStep
<1>2. ReceiverOK'
  BY DEF RInv, ReceiverOK, WaitEnds, WaitReturn, eventVars, resolverVars, resolveVars
<1>3. PlacesOK'
  BY DEF RInv, PlacesOK, WaitEnds, WaitReturn, eventVars, resolverVars, resolveVars
<1>4. WatchOK'
  BY DEF RInv, WatchOK, PlacesOK, Active, WaitEnds, WaitReturn, resolverVars,
         resolveVars
<1>q. QED BY <1>1, <1>2, <1>3, <1>4 DEF RInv

\* udp_read() yields: from now on the event of the socket names the receiver.
LEMMA ReceiveYieldKeeps ==
  ASSUME IInv, RInv, NEW t \in Tasks, ReceiveYield(t)
  PROVE  RInv'
<1>1. ResolverTypeOK' /\ ResolvesOK'
  BY DEF RInv, ResolverTypeOK, ResolvesOK, Pending, Waiting, ReceiveYield, resolveVars,
         lookupVars
<1>2. ReceiverOK'
  BY Types, Shape
  DEF RInv, ReceiverOK, ReceiveYield, EventYield, resolveVars
<1>3. PlacesOK'
  BY Types, Shape
  DEF RInv, PlacesOK, At, ReceiveYield, EventYield, SwitchBack, resolveVars
<1>4. WatchOK'
  BY Types, Shape DEF WatchOK, ReceiveYield, EventYield
<1>q. QED BY <1>1, <1>2, <1>3, <1>4 DEF RInv

\* main() starts a task, which has no lookup out yet.
LEMMA StartTaskKeeps ==
  ASSUME IInv, RInv, NEW t \in Tasks, StartTask(t)
  PROVE  RInv'
<1>1. ResolverTypeOK'
  BY DEF RInv, ResolverTypeOK, Places, StartTask, Goto, networkVars, lookupVars
<1>2. ResolvesOK'
  BY DEF RInv, ResolvesOK, Pending, Waiting, StartTask, Goto, lookupVars
<1>3. ReceiverOK'
  BY DEF RInv, ReceiverOK, StartTask, Goto, EventStart, eventVars
<1>4. PlacesOK'
  BY Types DEF RInv, PlacesOK, StartTask, Goto, EventStart, Switch, eventVars
<1>5. WatchOK'
  BY DEF RInv, WatchOK, Active, StartTask, Goto, EventStart, Switch, eventVars
<1>q. QED BY <1>1, <1>2, <1>3, <1>4, <1>5 DEF RInv

\* dns_resolve() whose first send fails: nothing was listed.
LEMMA QueryFailsKeeps ==
  ASSUME IInv, RInv, NEW t \in Tasks, QueryFails(t)
  PROVE  RInv'
<1>a. nth[t] + 1 \in 0..MaxLookups /\ (ids + 1) % IdMod \in 0..IdMod-1
  BY LookupsIsNat, IdModIsPos DEF RInv, ResolverTypeOK, QueryFails
<1>1. ResolverTypeOK'
  BY <1>a DEF RInv, ResolverTypeOK, Outcomes, QueryFails, networkVars
<1>2. ResolvesOK'
  BY Types DEF RInv, ResolvesOK, Pending, Waiting, QueryFails
<1>3. ReceiverOK'
  BY DEF RInv, ReceiverOK, QueryFails, At, loopState, eventVars
<1>4. PlacesOK'
  BY DEF RInv, PlacesOK, QueryFails, loopState, eventVars, taskVars, switchVars
<1>5. WatchOK'
  BY DEF RInv, WatchOK, PlacesOK, QueryFails
<1>q. QED BY <1>1, <1>2, <1>3, <1>4, <1>5 DEF RInv

\* dns_resolve_sync() finds nobody yielding: the task becomes the receiver, for the
\* head of the list.
LEMMA SyncReceiveKeeps ==
  ASSUME IInv, RInv, NEW t \in Tasks, SyncReceive(t)
  PROVE  RInv'
<1>a. HeadOf(resolves) \in Tasks
  <2>1. t \in Pending
    BY DEF RInv, ResolvesOK, Waiting, SyncReceive, At
  <2>q. QED BY <2>1, Types, HeadIsListed DEF Pending
<1>1. ResolverTypeOK'
  BY <1>a DEF RInv, ResolverTypeOK, Places, SyncReceive, Goto, networkVars, lookupVars
<1>2. ResolvesOK'
  BY DEF RInv, ResolvesOK, Pending, Waiting, SyncReceive, At, Goto, lookupVars
<1>3. ReceiverOK'
  BY Types DEF RInv, ReceiverOK, SyncReceive, At, Goto, loopState, eventVars, switchVars
<1>4. PlacesOK'
  BY DEF RInv, PlacesOK, SyncReceive, At, Goto, loopState, eventVars, taskVars,
         switchVars
<1>5. WatchOK'
  BY DEF RInv, WatchOK, Active, SyncReceive, Goto, loopState, switchVars
<1>q. QED BY <1>1, <1>2, <1>3, <1>4, <1>5 DEF RInv

\* event_yield() returns in udp_read(): the receiver runs and the event is free.
LEMMA ReceiveReturnKeeps ==
  ASSUME IInv, RInv, NEW t \in Tasks, ReceiveReturn(t)
  PROVE  RInv'
<1>1. ResolverTypeOK'
  BY DEF RInv, ResolverTypeOK, Places, ReceiveReturn, Goto, networkVars, lookupVars
<1>2. ResolvesOK'
  BY DEF RInv, ResolvesOK, PlacesOK, Pending, Waiting, ReceiveReturn, Goto, YieldReturn,
         lookupVars
<1>3. ReceiverOK'
  BY Types DEF RInv, ReceiverOK, PlacesOK, ReceiveReturn, Goto, YieldReturn
<1>4. PlacesOK'
  BY Types DEF RInv, PlacesOK, ReceiveReturn, Goto, YieldReturn
<1>5. WatchOK'
  BY Types DEF WatchOK, Active, ReceiveReturn, Goto, YieldReturn
<1>q. QED BY <1>1, <1>2, <1>3, <1>4, <1>5 DEF RInv

\* "unmatched response": the receiver goes around the loop.
LEMMA ReceiveUnmatchedKeeps ==
  ASSUME IInv, RInv, NEW t \in Tasks, NEW p \in inbox, ReceiveUnmatched(t, p)
  PROVE  RInv'
<1>1. ResolverTypeOK'
  BY DEF RInv, ResolverTypeOK, Places, ReceiveUnmatched, Goto, lookupVars
<1>2. ResolvesOK'
  BY DEF RInv, ResolvesOK, Pending, Waiting, ReceiveUnmatched, At, Goto, lookupVars
<1>3. ReceiverOK'
  BY Types, Shape DEF RInv, ReceiverOK, ReceiveUnmatched, At, Goto
<1>4. PlacesOK'
  BY DEF RInv, PlacesOK, ReceiveUnmatched, At, Goto, loopState, eventVars, taskVars,
         switchVars
<1>5. WatchOK'
  BY DEF WatchOK, Active, ReceiveUnmatched, At, Goto, loopState, switchVars
<1>q. QED BY <1>1, <1>2, <1>3, <1>4, <1>5 DEF RInv

\* A datagram without a header is taken for a timeout of the head.
LEMMA ReceiveShortKeeps ==
  ASSUME IInv, RInv, NEW t \in Tasks, ReceiveShort(t)
  PROVE  RInv'
<1>1. ResolverTypeOK'
  BY DEF RInv, ResolverTypeOK, Places, ReceiveShort, Goto, lookupVars
<1>2. ResolvesOK'
  BY DEF RInv, ResolvesOK, Pending, Waiting, ReceiveShort, At, Goto, lookupVars
<1>3. ReceiverOK'
  BY DEF RInv, ReceiverOK, ReceiveShort, At, Goto, loopState, eventVars, switchVars
<1>4. PlacesOK'
  BY DEF RInv, PlacesOK, ReceiveShort, At, Goto, loopState, eventVars, taskVars,
         switchVars
<1>5. WatchOK'
  BY DEF WatchOK, Active, ReceiveShort, At, Goto, loopState, switchVars
<1>q. QED BY <1>1, <1>2, <1>3, <1>4, <1>5 DEF RInv

\* An error of the socket: the receiver leaves, its resolve stays in the list.  WatchOK
\* promises nothing in this case.
LEMMA SocketFailsKeeps ==
  ASSUME IInv, RInv, NEW t \in Tasks, SocketFails(t)
  PROVE  RInv'
<1>1. ResolverTypeOK'
  BY DEF RInv, ResolverTypeOK, Places, Outcomes, SocketFails, Goto
<1>2. ResolvesOK'
  BY Types DEF RInv, ResolvesOK, Pending, Waiting, SocketFails, Goto
<1>3. ReceiverOK'
  BY Types, Shape DEF RInv, ReceiverOK, SocketFails, At, Goto
<1>4. PlacesOK'
  BY DEF RInv, PlacesOK, SocketFails, At, Goto, loopState, eventVars, taskVars,
         switchVars
<1>5. WatchOK'
  BY DEF RInv, WatchOK, PlacesOK, SocketFails
<1>q. QED BY <1>1, <1>2, <1>3, <1>4, <1>5 DEF RInv

\* dns_resolve() returns: it has a response, so nothing of it is listed.
LEMMA ResolveReturnsKeeps ==
  ASSUME IInv, RInv, NEW t \in Tasks, ResolveReturns(t)
  PROVE  RInv'
<1>a. outcome' \in [Tasks -> Outcomes]
  <2>1. Returned(t) \subseteq Outcomes
    BY DEF Returned, Outcomes
  <2>2. \E o \in Returned(t) : outcome' = [outcome EXCEPT ![t] = o]
    BY DEF ResolveReturns
  <2>q. QED BY <2>1, <2>2, Types
<1>1. ResolverTypeOK'
  BY <1>a DEF RInv, ResolverTypeOK, Places, ResolveReturns, Goto, networkVars
<1>2. ResolvesOK'
  BY DEF RInv, ResolvesOK, Pending, Waiting, ResolveReturns, At, Goto
<1>3. ReceiverOK'
  BY DEF RInv, ReceiverOK, ResolveReturns, At, Goto, loopState, eventVars
<1>4. PlacesOK'
  BY DEF RInv, PlacesOK, ResolveReturns, At, Goto, loopState, eventVars, taskVars,
         switchVars
<1>5. WatchOK'
  BY DEF RInv, WatchOK, Active, ResolveReturns, At, Goto, loopState, eventVars,
         switchVars
<1>q. QED BY <1>1, <1>2, <1>3, <1>4, <1>5 DEF RInv

\* An ICMP error arrives.
LEMMA RefuseKeeps ==
  ASSUME IInv, RInv, Refuse
  PROVE  RInv'
<1>a. deliveries' \in 0..MaxDeliveries
  BY DeliveriesIsNat DEF RInv, ResolverTypeOK, Refuse
<1>1. ResolverTypeOK'
  BY <1>a DEF RInv, ResolverTypeOK, Refuse, lookupVars, resolveVars
<1>2. ResolvesOK'
  BY DEF RInv, ResolvesOK, Pending, Waiting, Refuse, lookupVars, resolveVars
<1>3. ReceiverOK'
  BY DEF RInv, ReceiverOK, Refuse, loopState, eventVars, switchVars, resolveVars
<1>4. PlacesOK'
  BY DEF RInv, PlacesOK, Refuse, loopState, eventVars, taskVars, switchVars, resolveVars
<1>5. WatchOK'
  BY DEF RInv, WatchOK, PlacesOK, Refuse
<1>q. QED BY <1>1, <1>2, <1>3, <1>4, <1>5 DEF RInv

\* A datagram arrives.
LEMMA ArriveKeeps ==
  ASSUME IInv, RInv, NEW p \in wire \cup Junk, Arrive(p)
  PROVE  RInv'
<1>a. deliveries' \in 0..MaxDeliveries
  BY DeliveriesIsNat DEF RInv, ResolverTypeOK, Arrive
<1>b. Junk \subseteq {Short, Corrupt}
  BY DEF Junk
<1>1. ResolverTypeOK'
  BY <1>a, <1>b DEF RInv, ResolverTypeOK, Arrive, lookupVars, resolveVars
<1>2. ResolvesOK'
  BY DEF RInv, ResolvesOK, Pending, Waiting, Arrive, lookupVars, resolveVars
<1>3. ReceiverOK'
  BY DEF RInv, ReceiverOK, Arrive, loopState, eventVars, switchVars, resolveVars
<1>4. PlacesOK'
  BY DEF RInv, PlacesOK, Arrive, loopState, eventVars, taskVars, switchVars, resolveVars
<1>5. WatchOK'
  BY DEF RInv, WatchOK, Active, Arrive, loopState, eventVars, switchVars, resolveVars
<1>q. QED BY <1>1, <1>2, <1>3, <1>4, <1>5 DEF RInv

\* The clock: deadlines of listed resolves come nearer.
LEMMA PassKeeps ==
  ASSUME IInv, RInv, Pass
  PROVE  RInv'
<1>a. left' \in [Tasks -> 0..QueryTimeout]
  <2>1. left \in [Tasks -> 0..QueryTimeout] /\ QueryTimeout \in Nat
    BY TimeoutIsPos DEF RInv, ResolverTypeOK
  <2>2. left' = [u \in Tasks |-> IF u \in Pending /\ left[u] > 0 THEN left[u] - 1 ELSE left[u]]
    BY DEF Pass
  <2> HIDE DEF Pending
  <2>q. QED BY <2>1, <2>2
<1>1. ResolverTypeOK'
  BY <1>a DEF RInv, ResolverTypeOK, Pass, networkVars, lookupVars
<1>2. ResolvesOK'
  BY DEF RInv, ResolvesOK, Pending, Waiting, Pass, lookupVars
<1>3. ReceiverOK'
  BY DEF RInv, ReceiverOK, Pass, Tick, loopState, eventVars, switchVars
<1>4. PlacesOK'
  BY DEF RInv, PlacesOK, Pass, Tick, loopState, eventVars, taskVars, switchVars
<1>5. WatchOK'
  BY DEF RInv, WatchOK, Active, Pass, Tick, loopState, eventVars, switchVars
<1>q. QED BY <1>1, <1>2, <1>3, <1>4, <1>5 DEF RInv

\* The process has exited.
LEMMA StoppedKeeps ==
  ASSUME IInv, RInv, Stopped
  PROVE  RInv'
<1>1. ResolverTypeOK'
  BY DEF RInv, ResolverTypeOK, Stopped, resolverVars, networkVars, lookupVars,
         resolveVars
<1>2. ResolvesOK'
  BY DEF RInv, ResolvesOK, Pending, Waiting, Stopped, resolverVars, lookupVars,
         resolveVars
<1>3. ReceiverOK'
  BY DEF RInv, ReceiverOK, Stopped, Exited, resolverVars, loopState, eventVars,
         resolveVars
<1>4. PlacesOK'
  BY DEF RInv, PlacesOK, Stopped, Exited, resolverVars, loopState, eventVars, taskVars,
         switchVars, resolveVars
<1>5. WatchOK'
  BY DEF RInv, WatchOK, Active, Stopped, Exited, resolverVars, loopState, eventVars,
         switchVars, resolveVars
<1>q. QED BY <1>1, <1>2, <1>3, <1>4, <1>5 DEF RInv

\* What a step of event_main_run() changes for the tasks: at most one task, which
\* was yielding, is switched in.
LEMMA MainLoopStep ==
  ASSUME IInv, RInv, MainLoop
  PROVE  /\ running = None /\ UNCHANGED <<task, waitp>>
         /\ \/ UNCHANGED <<pc, running>>
            \/ \E t \in Tasks : /\ pc[t] = "yield"
                                /\ pc' = [pc EXCEPT ![t] = "woken"] /\ running' = t
<1>1. ASSUME NEW e \in Events, Collect(e) \/ DispatchSkip(e)
      PROVE  running = None /\ UNCHANGED <<task, waitp, pc, running>>
  BY <1>1 DEF Collect, DispatchSkip, AtEvent, eventVars, taskVars, switchVars
<1>2. CASE DispatchEnd \/ LoopExit \/ SelectReady({Sock}, {})
  BY <1>2 DEF DispatchEnd, LoopExit, SelectReady, Scanned, eventVars, taskVars, switchVars
<1>3. ASSUME NEW e \in Events, task[e] # None, Switch(task[e], "woken"), running = None
      PROVE  \E t \in Tasks : /\ pc[t] = "yield"
                              /\ pc' = [pc EXCEPT ![t] = "woken"] /\ running' = t
  <2>1. task[e] \in Tasks
    BY <1>3, Types
  <2>2. pc[task[e]] = "yield"
    BY <1>3, <2>1, Shape DEF RInv, PlacesOK
  <2>q. QED BY <1>3, <2>1, <2>2 DEF Switch
<1>4. ASSUME NEW e \in Events, Dispatch(e)
      PROVE  /\ task[e] # None /\ Switch(task[e], "woken")
             /\ running = None /\ UNCHANGED <<task, waitp>>
  BY <1>4 DEF Dispatch, AtEvent
<1>5. ASSUME NEW e \in Events, SelectTimeout(e)
      PROVE  /\ task[e] # None /\ Switch(task[e], "woken")
             /\ running = None /\ UNCHANGED <<task, waitp>>
  <2>1. e \in Armed /\ ~destroy[e]
    BY <1>5 DEF SelectTimeout, TimeoutEvent, Scanned, Armed
  <2>2. task[e] # None
    BY <2>1 DEF IInv, ArmedHasTask
  <2>q. QED BY <1>5, <2>2 DEF SelectTimeout, Scanned
<1>q. QED BY <1>1, <1>2, <1>3, <1>4, <1>5 DEF MainLoop

\* event_main_run() switches into the receiver, and into nobody else.
LEMMA MainLoopKeeps ==
  ASSUME IInv, RInv, MainLoop
  PROVE  RInv'
<1>0. UNCHANGED resolverVars
  BY DEF MainLoop
<1>1. ResolverTypeOK' /\ ResolvesOK'
  BY <1>0, ReactorStep
<1>2. ReceiverOK'
  BY <1>0, MainLoopStep DEF RInv, ReceiverOK, resolverVars, resolveVars
<1>3. PlacesOK'
  BY <1>0, MainLoopStep, Types DEF RInv, PlacesOK, resolverVars, resolveVars
<1>4. WatchOK'
  BY <1>0, MainLoopStep, Types DEF RInv, WatchOK, Active, resolverVars, resolveVars
<1>q. QED BY <1>1, <1>2, <1>3, <1>4 DEF RInv

\* dns_query_question() and dns_resolve_query(): the new resolve is queued behind the
\* others, so that the head that a receiver watches stays.
LEMMA QueryKeeps ==
  ASSUME IInv, RInv, NEW t \in Tasks, GoesOn(t), Query(t)
  PROVE  RInv'
<1>a. t \notin Pending /\ running = t /\ pc[t] = "run"
  BY DEF RInv, ResolvesOK, Waiting, Query, At, GoesOn
<1>b. /\ resolves' \in Seq(Tasks) /\ Distinct(resolves')
      /\ ToSet(resolves') = Pending \cup {t}
  BY <1>a, AppendFacts, Types DEF RInv, ResolvesOK, Query, Pending
<1>c. \A u \in Pending : HeadOf(resolves') = HeadOf(resolves)
  BY AppendKeepsHead, Types DEF Query, Pending
<1>d. nth[t] + 1 \in 1..MaxLookups
  BY LookupsIsNat, Types DEF Query
<1>e. ids \in 0..IdMod-1 /\ (ids + 1) % IdMod \in 0..IdMod-1
  <2>1. ids \in 0..IdMod-1
    BY DEF RInv, ResolverTypeOK
  <2>q. QED BY <2>1, IdModIsPos
<1>f. wire' \subseteq Queries
  <2>1. nth'[t] = nth[t] + 1
    BY Types DEF Query
  <2>2. [id |-> ids, of |-> t, nth |-> nth'[t], size |-> Complete] \in Queries
    BY <1>d, <1>e, <2>1 DEF Queries
  <2>q. QED BY <2>2 DEF RInv, ResolverTypeOK, Query
<1>1. ResolverTypeOK'
  <2>1. /\ at' \in [Tasks -> Places] /\ nth' \in [Tasks -> 0..MaxLookups]
        /\ ids' \in 0..IdMod-1 /\ id' \in [Tasks -> 0..IdMod-1]
    BY <1>d, <1>e DEF RInv, ResolverTypeOK, Query, Goto, Places
  <2>2. /\ left' \in [Tasks -> 0..QueryTimeout] /\ retry' \in [Tasks -> 0..MaxRetry]
        /\ response' \in [Tasks -> {-1, 0, 1}] /\ reply' \in [Tasks -> Queries \cup {None}]
        /\ ptr' \in [Tasks -> {HeaderOnly, Complete}]
    BY TimeoutIsPos, RetryIsNat DEF RInv, ResolverTypeOK, Query
  <2>3. UNCHANGED <<outcome, budget, first, inbox, deliveries, failing>>
    BY DEF Query
  <2>q. QED BY <1>b, <1>f, <2>1, <2>2, <2>3 DEF RInv, ResolverTypeOK
<1>2. ResolvesOK'
  BY Types, <1>b DEF RInv, ResolvesOK, Pending, Waiting, Query, Goto
<1>3. ReceiverOK'
  BY <1>a, <1>c
  DEF RInv, ResolvesOK, ReceiverOK, Waiting, Query, Goto, loopState, eventVars
<1>4. PlacesOK'
  BY <1>a DEF RInv, PlacesOK, Query, Goto, loopState, eventVars, taskVars, switchVars
<1>5. WatchOK'
  BY Types, <1>a DEF WatchOK, Active, Query, Goto, loopState, switchVars
<1>q. QED BY <1>1, <1>2, <1>3, <1>4, <1>5 DEF RInv

\* A receiver that is running: the resolve it looks at is its list's head, and nobody
\* else receives.
LEMMA Expired ==
  ASSUME IInv, RInv, NEW t \in Tasks, At(t, "expired") \/ At(t, "recv")
  PROVE  /\ first[t] \in Tasks /\ first[t] \in Pending
         /\ task[Udp] = None /\ response[t] = 0 /\ t \in Pending
         /\ \A u \in Tasks : at[u] \in {"recv", "expired"} => u = t
<1>1. response[t] = 0 /\ first[t] = HeadOf(resolves) /\ t \in Pending
  BY DEF RInv, ReceiverOK, ResolvesOK, Waiting, At
<1>2. task[Udp] = None
  BY Shape DEF At, RInv, ReceiverOK
<1>3. first[t] \in Pending
  BY <1>1, HeadIsListed, Types DEF Pending
<1>4. \A u \in Tasks : at[u] \in {"recv", "expired"} => u = t
  BY Shape DEF RInv, ReceiverOK, At
<1>q. QED BY <1>1, <1>2, <1>3, <1>4, Types

\* dns_resolve_retry(): the head goes to the tail, and the receiver goes back to
\* look at the new head.
LEMMA RetryKeeps ==
  ASSUME IInv, RInv, NEW t \in Tasks, Retry(t)
  PROVE  RInv'
<1> DEFINE r == first[t]
<1>a. r \in Tasks /\ r \in Pending /\ \A u \in Tasks : at[u] \in {"recv", "expired"} => u = t
  BY Expired DEF Retry
<1>b. /\ resolves' \in Seq(Tasks) /\ Distinct(resolves')
      /\ ToSet(resolves') = Pending
  BY <1>a, RequeueFacts, Types DEF RInv, ResolvesOK, Retry, Pending
<1>c. retry' \in [Tasks -> 0..MaxRetry]
  <2>1. retry \in [Tasks -> 0..MaxRetry]
    BY DEF RInv, ResolverTypeOK
  <2>2. retry[r] < MaxRetry /\ retry' = [retry EXCEPT ![r] = retry[r] + 1]
    BY DEF Retry
  <2>q. QED BY <1>a, <2>1, <2>2, RetryIsNat
<1>d. wire' \subseteq Queries
  <2>1. nth[r] > 0
    BY <1>a DEF RInv, ResolvesOK
  <2>2. nth[r] \in 1..MaxLookups
    BY <1>a, <2>1, Types
  <2>3. id[r] \in 0..IdMod-1 /\ ptr[r] \in {HeaderOnly, Complete}
    BY <1>a DEF RInv, ResolverTypeOK
  <2>4. [id |-> id[r], of |-> r, nth |-> nth[r], size |-> ptr[r]] \in Queries
    BY <1>a, <2>2, <2>3 DEF Queries
  <2>q. QED BY <2>4 DEF RInv, ResolverTypeOK, Retry
<1>1. ResolverTypeOK'
  <2>1. at' \in [Tasks -> Places]
    BY Types DEF Retry, Goto, Places
  <2>3. left' \in [Tasks -> 0..QueryTimeout] /\ ptr' \in [Tasks -> {HeaderOnly, Complete}]
    <3>1. /\ left' = [left EXCEPT ![r] = QueryTimeout]
          /\ ptr' = [ptr EXCEPT ![r] = HeaderOnly]
      BY DEF Retry
    <3>2. QueryTimeout \in 0..QueryTimeout
      BY TimeoutIsPos
    <3>q. QED BY <3>1, <3>2 DEF RInv, ResolverTypeOK
  <2>2. UNCHANGED <<nth, outcome, ids, id, response, reply, first, budget, inbox,
                    deliveries, failing>>
    BY DEF Retry
  <2>q. QED BY <1>b, <1>c, <1>d, <2>1, <2>2, <2>3 DEF RInv, ResolverTypeOK
<1>2. ResolvesOK'
  <2>1. Pending' = Pending /\ Distinct(resolves)'
    BY <1>b DEF Pending, Distinct
  <2>2. \A u \in Tasks : /\ Waiting(u)' <=> Waiting(u)
                         /\ nth'[u] = nth[u] /\ outcome'[u] = outcome[u]
                         /\ at[u] = "idle" => at'[u] = "idle"
    BY DEF Waiting, Retry, At, Goto
  <2>q. QED BY <2>1, <2>2, Types DEF RInv, ResolvesOK
<1>3. ReceiverOK'
  BY Types, <1>a DEF ReceiverOK, Retry, Goto
<1>4. PlacesOK'
  BY DEF RInv, PlacesOK, Retry, At, Goto, loopState, eventVars, taskVars, switchVars
<1>5. WatchOK'
  BY DEF WatchOK, Active, Retry, At, Goto, loopState, switchVars
<1>q. QED BY <1>1, <1>2, <1>3, <1>4, <1>5 DEF RInv

\* What it is to notify a task of the resolver, if it waits.
LEMMA NotifyStep ==
  ASSUME IInv, RInv, NEW t \in Tasks, running = t, NEW u \in Tasks,
         IF u = t \/ waitp[u] = None THEN UNCHANGED loopState ELSE EventNotify(u)
  PROVE  /\ UNCHANGED task
         /\ \/ /\ pc[u] # "wait" \/ u = t
               /\ UNCHANGED <<pc, running, waitp>>
            \/ /\ pc[u] = "wait" /\ u # t
               /\ pc' = [pc EXCEPT ![u] = "notified"] /\ running' = u
               /\ waitp' = [waitp EXCEPT ![u] = None]
<1>1. CASE u = t \/ waitp[u] = None
  BY <1>1, Shape DEF RInv, PlacesOK, loopState, eventVars, taskVars, switchVars
<1>2. CASE ~(u = t \/ waitp[u] = None)
  <2>1. waitp[u] = u /\ pc[u] = "wait"
    BY <1>2, Shape DEF RInv, PlacesOK
  <2>q. QED BY <1>2, <2>1 DEF EventNotify, Switch, eventVars
<1>q. QED BY <1>1, <1>2

\* A resolve leaves the list when it has a response, or has timed out.
LEMMA UnlistStep ==
  ASSUME IInv, RInv, NEW u \in Tasks, u \in Pending, NEW v \in {-1, 1},
         resolves' = Unlink(resolves, u), response' = [response EXCEPT ![u] = v],
         NEW t \in Tasks, at[t] \in {"recv", "expired"}, Goto(t, "sync"),
         UNCHANGED <<nth, outcome>>
  PROVE  resolves' \in Seq(Tasks) /\ ResolvesOK'
<1>1. /\ resolves' \in Seq(Tasks) /\ Distinct(resolves')
      /\ ToSet(resolves') = Pending \ {u}
  BY UnlinkFacts, Types DEF RInv, ResolvesOK, Pending
<1>2. Pending' = Pending \ {u} /\ Distinct(resolves)'
  BY <1>1 DEF Pending, Distinct
<1>3. ~Waiting(u)'
  BY Types DEF Waiting
<1>4. \A w \in Tasks : w # u => (Waiting(w)' <=> Waiting(w))
  BY DEF Waiting, Goto
<1>5. \A w \in Tasks : at[w] = "idle" => at'[w] = "idle"
  BY DEF Goto
<1>q. QED BY <1>1, <1>2, <1>3, <1>4, <1>5, Types DEF RInv, ResolvesOK

\* "retry exceeded": the head leaves the list, and the task that waits for it is
\* notified.
LEMMA GiveUpKeeps ==
  ASSUME IInv, RInv, NEW t \in Tasks, GiveUp(t)
  PROVE  RInv'
<1> DEFINE r == first[t]
<1>a. /\ r \in Tasks /\ r \in Pending /\ running = t /\ pc[t] = "run" /\ at[t] = "expired"
      /\ task[Udp] = None /\ \A u \in Tasks : at[u] \in {"recv", "expired"} => u = t
  BY Expired DEF GiveUp, At
<1>b. /\ UNCHANGED task
      /\ \/ /\ pc[r] # "wait" \/ r = t
            /\ UNCHANGED <<pc, running, waitp>>
         \/ /\ pc[r] = "wait" /\ r # t
            /\ pc' = [pc EXCEPT ![r] = "notified"] /\ running' = r
            /\ waitp' = [waitp EXCEPT ![r] = None]
  BY <1>a, NotifyStep DEF GiveUp, Deliver
<1>c. /\ at' = [at EXCEPT ![t] = "sync"] /\ response' = [response EXCEPT ![r] = -1]
      /\ resolves' = Unlink(resolves, r) /\ UNCHANGED first
  BY DEF GiveUp, Deliver, Goto
<1>d. resolves' \in Seq(Tasks) /\ ResolvesOK'
  <2>1. UNCHANGED <<nth, outcome>> /\ Goto(t, "sync")
    BY DEF GiveUp, Deliver, lookupVars
  <2>q. QED BY <1>a, <1>c, <2>1, UnlistStep
<1>1. ResolverTypeOK'
  <2>1. at' \in [Tasks -> Places] /\ response' \in [Tasks -> {-1, 0, 1}]
    BY <1>c, Types DEF Places
  <2>2. UNCHANGED <<lookupVars, left, retry, reply, first, budget, networkVars>>
    BY DEF GiveUp
  <2>q. QED BY <1>d, <2>1, <2>2 DEF RInv, ResolverTypeOK, lookupVars, networkVars
<1>2. ResolvesOK'
  BY <1>d
<1>3. ReceiverOK'
  BY Types, <1>a, <1>c DEF ReceiverOK
<1>4. PlacesOK'
  BY Types, <1>a, <1>b, <1>c DEF RInv, PlacesOK
<1>5. WatchOK'
  BY Types, <1>a, <1>b, <1>c DEF WatchOK, Active
<1>q. QED BY <1>1, <1>2, <1>3, <1>4, <1>5 DEF RInv

\* An answer: the resolve it matches leaves the list, and the task that waits for it
\* is notified.
LEMMA ReceiveAnswerKeeps ==
  ASSUME IInv, RInv, NEW t \in Tasks, NEW p \in inbox, ReceiveAnswer(t, p)
  PROVE  RInv'
<1> DEFINE r == Matching(p.id)
<1>a. /\ r \in Tasks /\ r \in Pending /\ running = t /\ pc[t] = "run" /\ at[t] = "recv"
      /\ task[Udp] = None /\ \A u \in Tasks : at[u] \in {"recv", "expired"} => u = t
  <2>1. At(t, "recv") /\ r # None
    BY DEF ReceiveAnswer
  <2>2. r \in Tasks /\ r \in Pending
    BY <2>1, MatchingFacts DEF RInv
  <2>3. task[Udp] = None /\ \A u \in Tasks : at[u] \in {"recv", "expired"} => u = t
    BY <2>1, Expired
  <2>q. QED BY <2>1, <2>2, <2>3 DEF At
<1>b. /\ UNCHANGED task
      /\ \/ /\ pc[r] # "wait" \/ r = t
            /\ UNCHANGED <<pc, running, waitp>>
         \/ /\ pc[r] = "wait" /\ r # t
            /\ pc' = [pc EXCEPT ![r] = "notified"] /\ running' = r
            /\ waitp' = [waitp EXCEPT ![r] = None]
  <2> HIDE DEF r
  <2>1. IF r = t \/ waitp[r] = None THEN UNCHANGED loopState ELSE EventNotify(r)
    BY DEF ReceiveAnswer, Deliver, r
  <2>q. QED BY <1>a, <2>1, NotifyStep
<1>c. /\ at' = [at EXCEPT ![t] = "sync"] /\ response' = [response EXCEPT ![r] = 1]
      /\ reply' = [reply EXCEPT ![r] = p] /\ inbox' = inbox \ {p}
      /\ resolves' = Unlink(resolves, r) /\ UNCHANGED <<nth, outcome, first>>
  BY DEF ReceiveAnswer, Deliver, Goto, lookupVars
<1>e. UNCHANGED <<lookupVars, left, retry, budget, wire, deliveries, failing>>
  BY DEF ReceiveAnswer
<1>f. p \in Queries
  <2>1. p.id \in 0..IdMod-1
    BY MatchingFacts DEF ReceiveAnswer, RInv
  <2>2. p # Short /\ p # Corrupt
    BY <2>1, IdModIsPos DEF Short, Corrupt
  <2>q. QED BY <2>2 DEF RInv, ResolverTypeOK
<1> HIDE DEF r
<1>d. resolves' \in Seq(Tasks) /\ ResolvesOK'
  BY <1>a, <1>c, UnlistStep DEF Goto
<1>1. ResolverTypeOK'
  <2>1. at' \in [Tasks -> Places] /\ response' \in [Tasks -> {-1, 0, 1}]
    BY <1>c, Types DEF Places
  <2>2. /\ reply' \in [Tasks -> Queries \cup {None}]
        /\ inbox' \subseteq Queries \cup {Short, Corrupt}
    BY <1>c, <1>f DEF RInv, ResolverTypeOK
  <2>q. QED BY <1>c, <1>d, <1>e, <2>1, <2>2 DEF RInv, ResolverTypeOK, lookupVars
<1>2. ResolvesOK'
  BY <1>d
<1>3. ReceiverOK'
  BY Types, <1>a, <1>c DEF ReceiverOK
<1>4. PlacesOK'
  BY Types, <1>a, <1>b, <1>c DEF RInv, PlacesOK
<1>5. WatchOK'
  BY Types, <1>a, <1>b, <1>c DEF WatchOK, Active
<1>q. QED BY <1>1, <1>2, <1>3, <1>4, <1>5 DEF RInv

\* After the loop of dns_resolve_sync(): whoever waits at the head of the list is
\* notified, and has to find a receiver from now on; if nobody waits there, all that
\* wait have one already.
LEMMA PokeKeeps ==
  ASSUME IInv, RInv, NEW t \in Tasks, Poke(t)
  PROVE  RInv'
<1> DEFINE h == HeadOf(resolves)
<1>a. running = t /\ pc[t] = "run" /\ at[t] = "sync" /\ response[t] # 0
  BY DEF Poke, At
<1>b. /\ at' = [at EXCEPT ![t] = "return"]
      /\ UNCHANGED <<lookupVars, resolves, left, retry, response, reply, first, budget,
                     networkVars>>
  BY DEF Poke, Goto
<1>c. h # None => h \in Pending /\ h \in Tasks
  BY HeadFacts, Types DEF Pending
<1>d. /\ UNCHANGED task
      /\ \/ /\ h # None => pc[h] # "wait"
            /\ UNCHANGED <<pc, running, waitp>>
         \/ /\ h \in Tasks /\ pc[h] = "wait" /\ h # t
            /\ pc' = [pc EXCEPT ![h] = "notified"] /\ running' = h
            /\ waitp' = [waitp EXCEPT ![h] = None]
  <2> HIDE DEF h
  <2>1. CASE h # None /\ waitp[h] # None
    <3>1. pc[h] = "wait" /\ h # t
      BY <1>a, <1>c, <2>1, Shape DEF RInv, PlacesOK
    <3>2. EventNotify(h)
      BY <2>1 DEF Poke, h
    <3>q. QED BY <1>a, <1>c, <2>1, <3>1, <3>2, NotifyStep
  <2>2. CASE ~(h # None /\ waitp[h] # None)
    <3>1. UNCHANGED loopState
      BY <2>2 DEF Poke, h
    <3>2. h # None => pc[h] # "wait"
      BY <1>c, <2>2 DEF RInv, PlacesOK
    <3>q. QED BY <3>1, <3>2 DEF loopState, eventVars, taskVars, switchVars
  <2>q. QED BY <2>1, <2>2
<1> HIDE DEF h
<1>1. ResolverTypeOK'
  <2>1. at' \in [Tasks -> Places]
    BY <1>b, Types DEF Places
  <2>q. QED BY <1>b, <2>1 DEF RInv, ResolverTypeOK, lookupVars, networkVars
<1>2. ResolvesOK'
  <2>1. Pending' = Pending /\ (Distinct(resolves)' <=> Distinct(resolves))
    BY <1>b DEF Pending, Distinct
  <2>2. \A u \in Tasks : /\ Waiting(u)' <=> Waiting(u)
                         /\ nth'[u] = nth[u] /\ outcome'[u] = outcome[u]
                         /\ at[u] = "idle" => at'[u] = "idle"
    BY <1>a, <1>b DEF Waiting, lookupVars
  <2>q. QED BY <2>1, <2>2, Types DEF RInv, ResolvesOK, Pending
<1>3. ReceiverOK'
  BY <1>a, <1>b, <1>d DEF RInv, ReceiverOK
<1>4. PlacesOK'
  BY Types, <1>a, <1>b, <1>d DEF RInv, PlacesOK
<1>5. WatchOK'
  <2> SUFFICES ASSUME ~SocketErrors, NEW w \in Tasks, pc'[w] = "wait"
               PROVE  \/ task'[Udp] # None
                      \/ \E u \in Tasks : Active(u)' /\ at'[u] \in {"sync", "recv", "expired"}
    BY DEF WatchOK
  <2>1. w \in Pending
    BY <1>d, Types DEF RInv, PlacesOK, ResolvesOK, Waiting
  <2>2. h \in Pending /\ h \in Tasks
    BY <2>1, HeadIsListed, Types DEF Pending, h
  <2>3. at[h] \in {"sync", "recv", "expired"} /\ response[h] = 0 /\ h # t
    BY <1>a, <2>2 DEF RInv, ResolvesOK, Waiting
  <2>4. at'[h] \in {"sync", "recv", "expired"}
    BY <1>b, <2>3
  <2>5. CASE pc'[h] = "notified"
    BY <2>2, <2>4, <2>5 DEF Active
  <2>6. CASE pc'[h] # "notified"
    <3>1. pc[h] # "wait" /\ UNCHANGED <<pc, task>>
      BY <1>d, <2>2, <2>6, Types, Shape
    <3>2. pc[h] \in {"run", "woken", "notified"} \/ task[Udp] = h
      <4>1. pc[h] # "free" /\ (pc[h] = "yield" => task[Udp] = h)
        BY <2>2, <2>3 DEF RInv, PlacesOK
      <4>2. pc[h] \in PCs
        BY <2>2, Types
      <4>q. QED BY <3>1, <4>1, <4>2 DEF PCs
    <3>q. QED BY <2>2, <2>4, <3>1, <3>2, Shape DEF Active
  <2>q. QED BY <2>5, <2>6
<1>q. QED BY <1>1, <1>2, <1>3, <1>4, <1>5 DEF RInv

\* The whole next-state relation.
LEMMA ClientStepKeeps ==
  ASSUME IInv, RInv, ClientNext
  PROVE  RInv'
<1>1. ASSUME NEW t \in Tasks, TaskStep(t)
      PROVE  RInv'
  <2>1. CASE Lookup(t)
    BY <2>1, QueryKeeps, QueryFailsKeeps DEF Lookup
  <2>2. CASE TaskEnds(t) \/ SyncReceive(t) \/ SyncWait(t) \/ WaitEnds(t)
    BY <2>2, TaskEndsKeeps, SyncReceiveKeeps, SyncWaitKeeps, WaitEndsKeeps
  <2>3. CASE ReceiveYield(t) \/ ReceiveReturn(t) \/ ReceiveShort(t)
    BY <2>3, ReceiveYieldKeeps, ReceiveReturnKeeps, ReceiveShortKeeps
  <2>4. CASE \E p \in inbox : ReceiveAnswer(t, p) \/ ReceiveUnmatched(t, p)
    BY <2>4, ReceiveAnswerKeeps, ReceiveUnmatchedKeeps
  <2>5. CASE Retry(t) \/ GiveUp(t) \/ SocketFails(t)
    BY <2>5, RetryKeeps, GiveUpKeeps, SocketFailsKeeps
  <2>6. CASE Poke(t) \/ ResolveReturns(t)
    BY <2>6, PokeKeeps, ResolveReturnsKeeps
  <2>q. QED BY <1>1, <2>1, <2>2, <2>3, <2>4, <2>5, <2>6 DEF TaskStep
<1>2. CASE OpenSocket \/ (\E t \in Tasks : StartTask(t)) \/ EnterLoop
  BY <1>2, OpenSocketKeeps, StartTaskKeeps, EnterLoopKeeps
<1>3. CASE MainLoop
  BY <1>3, MainLoopKeeps
<1>4. CASE Network
  BY <1>4, RefuseKeeps, ArriveKeeps DEF Network
<1>5. CASE Pass \/ Stopped
  BY <1>5, PassKeeps, StoppedKeeps
<1>q. QED BY <1>1, <1>2, <1>3, <1>4, <1>5 DEF ClientNext, System

-----------------------------------------------------------------------------
(* The program on the reactor                                              *)

\* A step of a task is a call that event.h allows, the return of one, or in its own
\* code.
LEMMA TaskStepIsCall ==
  ASSUME IInv, RInv, NEW t \in Tasks, TaskStep(t)
  PROVE  [Next]_loopState
<1>1. CASE TaskEnds(t)
  BY <1>1 DEF TaskEnds, Next, Call
<1>2. CASE SyncWait(t)
  BY <1>2, SlotsAreTasks DEF SyncWait, Next, Call
<1>3. CASE ReceiveYield(t)
  <2>1. budget[t] \in 0..MaxTimeout
    BY TimeoutIsNat, TimeoutIsPos DEF RInv, ResolverTypeOK
  <2>2. EventYield(Udp, {"R"}, budget[t])
    BY <1>3 DEF ReceiveYield
  <2>q. QED BY <2>1, <2>2, SlotsAreTasks DEF Next, Call, YieldFlags
<1>4. CASE WaitEnds(t) \/ ReceiveReturn(t)
  BY <1>4 DEF WaitEnds, ReceiveReturn, Next, Return
<1>5. CASE Poke(t)
  <2>1. UNCHANGED loopState \/ \E s \in Slots : EventNotify(s)
    BY <1>5, HeadFacts, Types, SlotsAreTasks DEF Poke, Pending
  <2>q. QED BY <2>1 DEF Next, Call
<1>6. CASE GiveUp(t)
  <2>1. first[t] \in Slots
    BY <1>6, Expired, SlotsAreTasks DEF GiveUp
  <2>q. QED BY <1>6, <2>1 DEF GiveUp, Deliver, Next, Call
<1>7. ASSUME NEW p \in inbox, ReceiveAnswer(t, p)
      PROVE  [Next]_loopState
  <2>1. Matching(p.id) \in Slots
    BY <1>7, MatchingFacts, SlotsAreTasks DEF ReceiveAnswer, RInv
  <2>q. QED BY <1>7, <2>1 DEF ReceiveAnswer, Deliver, Next, Call
<1>8. CASE \/ Lookup(t) \/ SyncReceive(t) \/ ReceiveShort(t) \/ Retry(t) \/ SocketFails(t)
           \/ ResolveReturns(t) \/ \E p \in inbox : ReceiveUnmatched(t, p)
  BY <1>8 DEF Lookup, Query, QueryFails, SyncReceive, ReceiveShort, Retry, SocketFails,
              ResolveReturns, ReceiveUnmatched
<1>q. QED
  BY <1>1, <1>2, <1>3, <1>4, <1>5, <1>6, <1>7, <1>8 DEF TaskStep

\* Every step is one of the reactor, or leaves the reactor alone.
LEMMA ClientStepIsLoopStep ==
  ASSUME IInv, RInv, [ClientNext]_vars
  PROVE  [Next]_loopState
<1>1. CASE OpenSocket \/ (\E t \in Tasks : StartTask(t)) \/ EnterLoop
  BY <1>1, SlotsAreTasks DEF OpenSocket, StartTask, EnterLoop, Next, Call, Loop
<1>2. CASE MainLoop
  BY <1>2, SlotsAreTasks DEF MainLoop, Next, Loop
<1>3. CASE Network
  BY <1>3 DEF Network, Refuse, Arrive
<1>4. CASE Pass \/ Stopped
  BY <1>4 DEF Pass, Stopped, Next
<1>5. CASE UNCHANGED vars
  BY <1>5 DEF vars
<1>q. QED BY <1>1, <1>2, <1>3, <1>4, <1>5, TaskStepIsCall DEF ClientNext, System

\* Initially nothing is looked up.
LEMMA ClientInitRInv == ClientInit => RInv
<1> SUFFICES ASSUME ClientInit PROVE RInv
  OBVIOUS
<1>1. ResolverTypeOK
  <2>1. 0 \in 0..MaxLookups /\ 0 \in 0..IdMod-1 /\ 0..IdMod-2 \subseteq 0..IdMod-1
        /\ 0 \in 0..QueryTimeout /\ 0 \in 0..MaxRetry /\ 0 \in 0..MaxDeliveries
    BY LookupsIsNat, IdModIsPos, TimeoutIsPos, RetryIsNat, DeliveriesIsNat
  <2>2. <<>> \in Seq(Tasks)
    OBVIOUS
  <2>q. QED BY <2>1, <2>2 DEF ClientInit, ResolverInit, ResolverTypeOK, Places, Outcomes
<1>2. Pending = {}
  BY DEF ClientInit, ResolverInit, Pending, ToSet
<1>3. ResolvesOK
  BY <1>2 DEF ClientInit, ResolverInit, ResolvesOK, Distinct, Waiting
<1>4. ReceiverOK /\ PlacesOK /\ WatchOK
  BY SlotsAreTasks DEF ClientInit, Init, ResolverInit, ReceiverOK, PlacesOK, WatchOK
<1>q. QED BY <1>1, <1>3, <1>4 DEF RInv

\* Whatever the network does, for any number of tasks, lookups, retries and datagrams,
\* the dns program keeps the invariant of the reactor and its own.
THEOREM ClientInvHolds == ClientSpec => [](IInv /\ RInv)
<1>1. ClientInit => IInv /\ RInv
  BY InitIInv, ClientInitRInv DEF ClientInit
<1>2. IInv /\ RInv /\ [ClientNext]_vars => IInv' /\ RInv'
  <2> SUFFICES ASSUME IInv, RInv, [ClientNext]_vars
               PROVE  IInv' /\ RInv'
    OBVIOUS
  <2>1. IInv'
    BY ClientStepIsLoopStep, NextKeepsIInv
  <2>2. CASE ClientNext
    BY <2>1, <2>2, ClientStepKeeps
  <2>3. CASE UNCHANGED vars
    BY <2>1, <2>3
    DEF vars, loopState, switchVars, eventVars, taskVars, resolverVars, resolveVars,
        lookupVars, networkVars, RInv, ResolverTypeOK, ResolvesOK, Pending, Waiting,
        ReceiverOK, PlacesOK, WatchOK, Active
  <2>q. QED BY <2>2, <2>3
<1>q. QED BY <1>1, <1>2, PTL DEF ClientSpec

\* dns_resolve() and the dns program call the reactor as EventLoop allows, so that all that
\* is proved of Spec holds of the dns program.
THEOREM ClientUsesLoop == ClientSpec => Spec
<1>1. ClientInit => Init
  BY DEF ClientInit
<1>2. IInv /\ RInv /\ [ClientNext]_vars => [Next]_loopState
  BY ClientStepIsLoopStep
<1>q. QED BY <1>1, <1>2, ClientInvHolds, PTL DEF ClientSpec, Spec

-----------------------------------------------------------------------------
(* The properties                                                          *)

\* Every variable of the resolver keeps the values of its type; retry (resolve.c:242)
\* in particular stays within DNS_RESOLVE_RETRY.
THEOREM ResolverTypeCorrect == ClientSpec => []ResolverTypeOK
<1>1. RInv => ResolverTypeOK
  BY DEF RInv
<1>q. QED BY <1>1, ClientInvHolds, PTL

\* dns_resolve_response() uses `resolve' (resolve.c:223) across its yield: it still is
\* the head of the list when the task goes on.
THEOREM HeadCorrect == ClientSpec => []HeadStays
<1>1. RInv => HeadStays
  BY DEF RInv, ReceiverOK, HeadStays
<1>q. QED BY <1>1, ClientInvHolds, PTL

\* resolve.c:370-380: no task sleeps in event_wait() on an answer that has come.
THEOREM DeliveryCorrect == ClientSpec => []NoForgottenAnswer
<1>1. RInv => NoForgottenAnswer
  BY DEF RInv, PlacesOK, NoForgottenAnswer
<1>q. QED BY <1>1, ClientInvHolds, PTL

\* dns->resolves is the set of unanswered lookups, each once, if no socket call fails.
\* (If one fails, resolve.c:466 frees a resolve that stays listed.)
THEOREM ListCorrect ==
  ASSUME ~SocketErrors
  PROVE  ClientSpec => []ListMatchesLookups
<1>1. IInv /\ RInv => ListMatchesLookups
  BY DEF RInv, ResolvesOK, ListMatchesLookups
<1>q. QED BY <1>1, ClientInvHolds, PTL

\* The strict responsibility of resolve.c:324 is met, if no socket call fails: as long
\* as a task waits, another yields on the socket.
THEOREM NoTaskIsOrphaned ==
  ASSUME ~SocketErrors
  PROVE  ClientSpec => []NoOrphans
<1>1. RInv /\ MainRunsAlone => NoOrphans
  BY DEF RInv, WatchOK, MainRunsAlone, NoOrphans
<1>2. ClientSpec => []MainRunsAlone
  BY ClientUsesLoop, MainRunsAloneHolds
<1>q. QED BY <1>1, <1>2, ClientInvHolds, PTL

-----------------------------------------------------------------------------
(* The order of the list                                                   *)

Sorted(q, due) == \A i, j \in DOMAIN q : i < j => due[q[i]] <= due[q[j]]

Dues == [Tasks -> 0..QueryTimeout]

\* Taking a lookup from the list keeps the rest sorted.
LEMMA SortedUnlink ==
  ASSUME NEW q \in Seq(Tasks), NEW due, Sorted(q, due), NEW x \in ToSet(q)
  PROVE  Sorted(Unlink(q, x), due)
<1> SUFFICES ASSUME NEW i \in DOMAIN Unlink(q, x), NEW j \in DOMAIN Unlink(q, x), i < j
             PROVE  due[Unlink(q, x)[i]] <= due[Unlink(q, x)[j]]
  BY DEF Sorted
<1>1. PICK m, n \in DOMAIN q : m < n /\ q[m] = Unlink(q, x)[i] /\ q[n] = Unlink(q, x)[j]
  BY UnlinkKeepsOrder
<1>q. QED BY <1>1 DEF Sorted

\* A lookup that has just been sent has the latest deadline of all.
LEMMA SortedAppend ==
  ASSUME NEW q \in Seq(Tasks), NEW due \in Dues, Sorted(q, due),
         NEW x \in Tasks, x \notin ToSet(q), NEW later, later = [due EXCEPT ![x] = QueryTimeout]
  PROVE  Sorted(Append(q, x), later)
<1> DEFINE n == Len(q)
           a == Append(q, x)
<1>1. /\ n \in Nat /\ DOMAIN q = 1..n /\ \A i \in 1..n : q[i] \in Tasks
      /\ DOMAIN a = 1..n+1 /\ a[n+1] = x /\ \A i \in 1..n : a[i] = q[i]
  OBVIOUS
<1>2. \A i \in 1..n : q[i] # x
  BY <1>1 DEF ToSet
<1>3. /\ later[x] = QueryTimeout /\ QueryTimeout \in Nat
      /\ \A y \in Tasks : y # x => later[y] = due[y]
      /\ \A y \in Tasks : due[y] \in Nat /\ due[y] <= QueryTimeout
  BY TimeoutIsPos DEF Dues
<1> HIDE DEF a, n
<1> SUFFICES ASSUME NEW i \in 1..n+1, NEW j \in 1..n+1, i < j
             PROVE  later[a[i]] <= later[a[j]]
  BY <1>1 DEF Sorted, a
<1>4. i \in 1..n
  BY <1>1
<1>5. later[a[i]] = due[q[i]] /\ q[i] \in Tasks
  BY <1>1, <1>2, <1>3, <1>4
<1>6. CASE j = n+1
  BY <1>1, <1>3, <1>5, <1>6
<1>7. CASE j # n+1
  <2>1. j \in 1..n
    BY <1>1, <1>7
  <2>2. later[a[j]] = due[q[j]]
    BY <1>1, <1>2, <1>3, <2>1
  <2>q. QED BY <1>1, <1>4, <1>5, <2>1, <2>2 DEF Sorted
<1>q. QED BY <1>6, <1>7

\* The clock runs alike for all.
LEMMA SortedPass ==
  ASSUME NEW q \in Seq(Tasks), NEW due \in Dues, Sorted(q, due), NEW later,
         later = [t \in Tasks |-> IF t \in ToSet(q) /\ due[t] > 0 THEN due[t] - 1 ELSE due[t]]
  PROVE  Sorted(q, later)
<1> SUFFICES ASSUME NEW i \in DOMAIN q, NEW j \in DOMAIN q, i < j
             PROVE  later[q[i]] <= later[q[j]]
  BY DEF Sorted
<1>1. q[i] \in Tasks /\ q[j] \in Tasks /\ q[i] \in ToSet(q) /\ q[j] \in ToSet(q)
  BY DEF ToSet
<1>2. /\ due[q[i]] \in Nat /\ due[q[j]] \in Nat /\ due[q[i]] <= due[q[j]]
  BY <1>1, TimeoutIsPos DEF Sorted, Dues
<1>q. QED BY <1>1, <1>2

LEMMA OrderKept ==
  ASSUME IInv, RInv, DeadlineOrder, [ClientNext]_vars
  PROVE  DeadlineOrder'
<1>1. /\ resolves \in Seq(Tasks) /\ Distinct(resolves) /\ left \in Dues
      /\ Sorted(resolves, left)
  BY DEF RInv, ResolverTypeOK, ResolvesOK, DeadlineOrder, Sorted, Dues
<1> SUFFICES Sorted(resolves', left')
  BY DEF DeadlineOrder, Sorted
<1>2. ASSUME NEW t \in Tasks, TaskStep(t)
      PROVE  Sorted(resolves', left')
  <2>1. CASE Lookup(t)
    <3>1. CASE Query(t)
      <4>1. t \notin ToSet(resolves)
        BY <2>1, <3>1 DEF RInv, ResolvesOK, Waiting, Query, At, Lookup, GoesOn, Pending
      <4>q. QED BY <1>1, <3>1, <4>1, SortedAppend DEF Query
    <3>2. CASE QueryFails(t)
      BY <1>1, <3>2 DEF QueryFails
    <3>q. QED BY <2>1, <3>1, <3>2 DEF Lookup
  <2>2. CASE Retry(t)
    <3> DEFINE r == first[t]
               u == Unlink(resolves, r)
    <3>1. r \in Tasks /\ r \in ToSet(resolves)
      BY <2>2, Expired DEF Retry, Pending
    <3>2. u \in Seq(Tasks) /\ ToSet(u) = ToSet(resolves) \ {r}
      BY <1>1, <3>1, UnlinkFacts
    <3>3. Sorted(u, left)
      BY <1>1, <3>1, SortedUnlink
    <3>4. resolves' = Append(u, r) /\ left' = [left EXCEPT ![r] = QueryTimeout]
      BY <2>2 DEF Retry
    <3>5. r \notin ToSet(u)
      BY <3>2
    <3> HIDE DEF r, u
    <3>q. QED BY <1>1, <3>1, <3>2, <3>3, <3>4, <3>5, SortedAppend
  <2>3. CASE GiveUp(t)
    <3>1. first[t] \in ToSet(resolves)
      BY <2>3, Expired DEF GiveUp, Pending
    <3>q. QED BY <1>1, <2>3, <3>1, SortedUnlink DEF GiveUp
  <2>4. ASSUME NEW p \in inbox, ReceiveAnswer(t, p) PROVE Sorted(resolves', left')
    <3>1. Matching(p.id) \in ToSet(resolves)
      BY <2>4, MatchingFacts DEF ReceiveAnswer, RInv, Pending
    <3>q. QED BY <1>1, <2>4, <3>1, SortedUnlink DEF ReceiveAnswer
  <2>5. CASE UNCHANGED <<resolves, left>>
    BY <1>1, <2>5
  <2>q. QED
    BY <1>2, <2>1, <2>2, <2>3, <2>4, <2>5
    DEF TaskStep, TaskEnds, SyncReceive, SyncWait, WaitEnds, ReceiveYield, ReceiveReturn,
        ReceiveUnmatched, ReceiveShort, SocketFails, Poke, ResolveReturns, resolverVars,
        resolveVars
<1>3. CASE Pass
  BY <1>1, <1>3, SortedPass DEF Pass, Pending
<1>4. CASE OpenSocket \/ (\E t \in Tasks : StartTask(t)) \/ EnterLoop \/ MainLoop \/ Stopped
  BY <1>1, <1>4
  DEF OpenSocket, StartTask, EnterLoop, MainLoop, Stopped, resolverVars, resolveVars
<1>5. CASE Network
  BY <1>1, <1>5 DEF Network, Refuse, Arrive, resolveVars
<1>6. CASE UNCHANGED vars
  BY <1>1, <1>6 DEF vars, resolverVars, resolveVars
<1>q. QED BY <1>2, <1>3, <1>4, <1>5, <1>6 DEF ClientNext, System

\* "which should be the most timeouty resolve, given fixed timeouts" (resolve.c:222): the
\* list is sorted by deadline, whatever is sent, answered and sent again.
THEOREM OrderCorrect == ClientSpec => []DeadlineOrder
<1>1. ClientInit => DeadlineOrder
  BY DEF ClientInit, ResolverInit, DeadlineOrder
<1>2. IInv /\ RInv /\ DeadlineOrder /\ [ClientNext]_vars => DeadlineOrder'
  BY OrderKept
<1>q. QED BY <1>1, <1>2, ClientInvHolds, PTL DEF ClientSpec

-----------------------------------------------------------------------------
(* The timeout of the receiver                                             *)

\* The reactor has the socket's event only, and its dispatch loop comes to it only
\* if select() has reported the socket.
LoopOK ==
  /\ events \in {<<>>, <<Udp>>}
  /\ \A e \in Events : ~destroy[e]
  /\ cursor \in {None, Udp}
  /\ cursor = Udp => phase = "dispatch" /\ running = None /\ Readable

\* A receiver that yields is woken when the head of the list is due.
AlarmOK ==
  \A t \in Tasks : pc[t] = "yield" =>
    flags[Udp] = {"R", "T"} /\ timeout[Udp] = left[HeadOf(resolves)]

\* One that has been woken is told the reason.
WakeOK ==
  \A t \in Tasks : pc[t] = "woken" =>
    IF "T" \in flags[Udp] THEN left[HeadOf(resolves)] = 0 ELSE Readable

\* One that is about to read will find something, or yield until the head is due.
BudgetOK ==
  \A t \in Tasks : pc[t] = "run" /\ at[t] = "recv" =>
    Readable \/ budget[t] = left[HeadOf(resolves)]

TimeInv == LoopOK /\ AlarmOK /\ WakeOK /\ BudgetOK

\* Where the receiver is, from what it does.
LEMMA ReceiverShape ==
  ASSUME IInv, RInv
  PROVE  /\ \A t \in Tasks : at[t] \in {"recv", "expired"} /\ pc[t] = "run" => running = t
         /\ \A t \in Tasks : at[t] = "expired" => running = t /\ pc[t] = "run"
         /\ \A t \in Tasks : pc[t] = "woken" => running = t /\ task[Udp] = t /\ at[t] = "recv"
         /\ \A t \in Tasks : pc[t] = "yield" => task[Udp] = t /\ at[t] = "recv"
         /\ \A t \in Tasks : at[t] \in {"recv", "expired"} =>
              HeadOf(resolves) \in Pending /\ first[t] = HeadOf(resolves)
<1>1. ASSUME NEW t \in Tasks, at[t] \in {"recv", "expired"}
      PROVE  /\ HeadOf(resolves) \in Pending /\ first[t] = HeadOf(resolves)
             /\ pc[t] = "run" => running = t
             /\ at[t] = "expired" => running = t /\ pc[t] = "run"
  <2>1. t \in Pending /\ first[t] = HeadOf(resolves)
    BY <1>1 DEF RInv, ReceiverOK, ResolvesOK, Waiting
  <2>2. HeadOf(resolves) \in Pending
    BY <2>1, HeadIsListed, Types DEF Pending
  <2>3. task[Udp] = t => pc[t] \in {"yield", "woken"} /\ at[t] = "recv"
    BY Shape DEF RInv, PlacesOK
  <2>q. QED BY <1>1, <2>1, <2>2, <2>3 DEF RInv, ReceiverOK
<1>q. QED BY <1>1, Shape DEF RInv, PlacesOK

\* When nobody receives, nothing is asked of the timeout.
LEMMA NobodyReceives ==
  ASSUME PlacesOK', task'[Udp] = None, None \notin Tasks,
         \A t \in Tasks : pc'[t] = "run" => at'[t] # "recv"
  PROVE  AlarmOK' /\ WakeOK' /\ BudgetOK'
BY DEF PlacesOK, AlarmOK, WakeOK, BudgetOK

\* When the receiver yields and another task runs, the timeout stays right as long as
\* the head does.
LEMMA OthersRun ==
  ASSUME IInv, RInv, AlarmOK, NEW t \in Tasks, running = t, at[t] # "recv",
         UNCHANGED <<flags, timeout>>,
         \A u \in Tasks : pc'[u] = "yield" => pc[u] = "yield",
         \A u \in Tasks : pc'[u] # "woken",
         \A u \in Tasks : pc'[u] = "run" => at'[u] # "recv",
         \A u \in Tasks : pc[u] = "yield" => left'[HeadOf(resolves)'] = left[HeadOf(resolves)]
  PROVE  AlarmOK' /\ WakeOK' /\ BudgetOK'
BY DEF AlarmOK, WakeOK, BudgetOK

\* The tasks leave the list of events alone.
LEMMA TaskKeepsLoop ==
  ASSUME LoopOK, Udp # None, NEW t \in Tasks, t # None, TaskStep(t)
  PROVE  running = t /\ LoopOK'
<1>1. running = t
  BY DEF TaskStep, Lookup, Query, QueryFails, TaskEnds, SyncReceive, SyncWait, WaitEnds,
         ReceiveYield, ReceiveReturn, ReceiveAnswer, ReceiveUnmatched, ReceiveShort, Retry,
         GiveUp, SocketFails, Poke, ResolveReturns, At
<1>2. UNCHANGED <<events, destroy, cursor>>
  <2>1. ASSUME NEW s, EventNotify(s) PROVE UNCHANGED <<events, destroy, cursor>>
    BY <2>1 DEF EventNotify, eventVars, loopVars
  <2>2. CASE UNCHANGED loopState
    BY <2>2 DEF loopState, eventVars, loopVars
  <2>3. CASE TaskEnds(t) \/ SyncWait(t) \/ WaitEnds(t) \/ ReceiveYield(t) \/ ReceiveReturn(t)
    BY <2>3 DEF TaskEnds, TaskReturn, SyncWait, EventWait, WaitEnds, WaitReturn, ReceiveYield,
                EventYield, ReceiveReturn, YieldReturn, eventVars, loopVars
  <2>4. CASE Poke(t) \/ GiveUp(t) \/ \E p \in inbox : ReceiveAnswer(t, p)
    BY <2>1, <2>2, <2>4 DEF Poke, GiveUp, ReceiveAnswer, Deliver
  <2>q. QED
    BY <2>2, <2>3, <2>4
    DEF TaskStep, Lookup, Query, QueryFails, SyncReceive, ReceiveUnmatched, ReceiveShort, Retry,
        SocketFails, ResolveReturns
<1>q. QED BY <1>1, <1>2 DEF LoopOK

\* The receiver has something in hand: it leaves the socket.
LEMMA ReceiverLeaves ==
  ASSUME IInv, RInv, RInv', NEW t \in Tasks,
         \/ ReceiveShort(t) \/ Retry(t) \/ GiveUp(t) \/ SocketFails(t)
         \/ \E p \in inbox : ReceiveAnswer(t, p) \/ ReceiveUnmatched(t, p)
  PROVE  AlarmOK' /\ WakeOK' /\ BudgetOK'
<1>1. At(t, "expired") \/ At(t, "recv")
  BY DEF ReceiveShort, Retry, GiveUp, SocketFails, ReceiveAnswer, ReceiveUnmatched
<1>2. task[Udp] = None /\ \A u \in Tasks : at[u] \in {"recv", "expired"} => u = t
  BY <1>1, Expired
<1>3. UNCHANGED task
  <2>1. ASSUME NEW s, EventNotify(s) PROVE UNCHANGED task
    BY <2>1 DEF EventNotify, eventVars
  <2>2. CASE UNCHANGED loopState
    BY <2>2 DEF loopState, eventVars
  <2>q. QED
    BY <2>1, <2>2 DEF ReceiveShort, Retry, GiveUp, SocketFails, ReceiveAnswer,
                      ReceiveUnmatched, Deliver
<1>4. \E p \in {"sync", "expired", "idle"} : at' = [at EXCEPT ![t] = p]
  BY DEF ReceiveShort, Retry, GiveUp, SocketFails, ReceiveAnswer, ReceiveUnmatched, Deliver,
         Goto
<1>5. \A u \in Tasks : at'[u] # "recv"
  BY <1>2, <1>4, Types
<1>q. QED BY <1>2, <1>3, <1>5, Shape, NobodyReceives DEF RInv

\* A task that does not receive runs on, sends, waits or returns.
LEMMA OthersKeepTime ==
  ASSUME IInv, RInv, RInv', AlarmOK, NEW t \in Tasks, running = t,
         \/ Lookup(t) \/ TaskEnds(t) \/ SyncWait(t) \/ WaitEnds(t) \/ Poke(t)
         \/ ResolveReturns(t)
  PROVE  AlarmOK' /\ WakeOK' /\ BudgetOK'
<1>1. at[t] \notin {"recv", "expired"} /\ pc[t] # "woken"
  <2>1. at[t] \in {"idle", "sync", "return"}
    BY Shape DEF RInv, PlacesOK, Lookup, Query, QueryFails, TaskEnds, SyncWait, WaitEnds,
                 WaitReturn, Poke, ResolveReturns, At
  <2>q. QED BY <2>1, ReceiverShape
<1>2. UNCHANGED <<flags, timeout>>
      /\ \A u \in Tasks : pc'[u] = pc[u] \/ pc'[u] \in {"free", "wait", "notified"}
                          \/ (u = t /\ pc'[u] = "run")
  <2>1. CASE UNCHANGED loopState
    BY <2>1 DEF loopState, eventVars, switchVars
  <2>2. ASSUME NEW s, EventNotify(s)
        PROVE  /\ UNCHANGED <<flags, timeout>>
               /\ \A u \in Tasks : pc'[u] = pc[u] \/ pc'[u] \in {"free", "wait", "notified"}
    BY <2>2, Types DEF EventNotify, Switch, eventVars
  <2>3. CASE TaskEnds(t) \/ SyncWait(t) \/ WaitEnds(t)
    BY <2>3, Types
    DEF TaskEnds, TaskReturn, SyncWait, EventWait, WaitEnds, WaitReturn, SwitchBack, eventVars
  <2>q. QED BY <2>1, <2>2, <2>3 DEF Lookup, Query, QueryFails, Poke, ResolveReturns
<1>3. \A u \in Tasks : at'[u] = at[u] \/ (u = t /\ at'[u] # "recv")
  BY Types DEF Lookup, Query, QueryFails, TaskEnds, SyncWait, WaitEnds, Poke, ResolveReturns,
         Goto, resolverVars, resolveVars
<1>4. \A u \in Tasks : pc'[u] = "yield" => pc[u] = "yield"
  BY <1>2
<1>5. \A u \in Tasks : pc'[u] # "woken"
  BY <1>1, <1>2, ReceiverShape
<1>6. \A u \in Tasks : pc'[u] = "run" => at'[u] # "recv"
  BY <1>1, <1>2, <1>3, ReceiverShape
<1>7. ASSUME NEW u \in Tasks, pc[u] = "yield"
      PROVE  left'[HeadOf(resolves)'] = left[HeadOf(resolves)]
  <2>1. HeadOf(resolves) \in Pending
    BY <1>7, ReceiverShape
  <2>2. CASE Query(t) /\ GoesOn(t)
    <3>1. t \notin Pending
      BY <2>2 DEF RInv, ResolvesOK, Waiting, Query, At, GoesOn
    <3>2. HeadOf(resolves)' = HeadOf(resolves)
      BY <2>1, <2>2, AppendKeepsHead, Types DEF Query, Pending
    <3>3. left' = [left EXCEPT ![t] = QueryTimeout] /\ HeadOf(resolves) \in Tasks
      BY <2>1, <2>2, Types DEF Query
    <3>q. QED BY <2>1, <3>1, <3>2, <3>3 DEF RInv, ResolverTypeOK
  <2>3. CASE UNCHANGED <<resolves, left>>
    BY <2>3
  <2>q. QED
    BY <2>2, <2>3
    DEF Lookup, QueryFails, TaskEnds, SyncWait, WaitEnds, Poke, ResolveReturns, resolverVars,
        resolveVars
<1>q. QED BY <1>1, <1>2, <1>4, <1>5, <1>6, <1>7, OthersRun

\* The receiver sets its timeout, and finds out why it was woken.
LEMMA ReceiverKeepsTime ==
  ASSUME IInv, RInv, RInv', AlarmOK, WakeOK, BudgetOK, NEW t \in Tasks,
         Corrupt \notin inbox, SyncReceive(t) \/ ReceiveYield(t) \/ ReceiveReturn(t)
  PROVE  AlarmOK' /\ WakeOK' /\ BudgetOK'
<1>1. CASE SyncReceive(t)
  <2>1. /\ running = t /\ task[Udp] = None /\ UNCHANGED <<pc, left, resolves>>
        /\ budget'[t] = left[HeadOf(resolves)]
        /\ \A u \in Tasks : u # t => at'[u] = at[u]
    BY <1>1, Types DEF SyncReceive, At, Goto, loopState, switchVars, RInv, ResolverTypeOK
  <2>2. \A u \in Tasks : pc[u] \notin {"yield", "woken"}
    BY <2>1, ReceiverShape, Shape
  <2>q. QED BY <2>1, <2>2, ReceiverShape DEF AlarmOK, WakeOK, BudgetOK
<1>2. CASE ReceiveYield(t)
  <2>1. /\ running = t /\ pc[t] = "run" /\ at[t] = "recv" /\ ~Readable
        /\ UNCHANGED <<left, resolves, at>>
    BY <1>2 DEF ReceiveYield, At, Readable, resolveVars
  <2>2. budget[t] = left[HeadOf(resolves)]
    BY <2>1 DEF BudgetOK
  <2>3. budget[t] # None
    <3>1. budget \in [Tasks -> 0..QueryTimeout]
      BY DEF RInv, ResolverTypeOK
    <3>2. budget[t] \in 0..MaxTimeout
      BY <3>1, TimeoutIsNat, TimeoutIsPos
    <3>3. QED BY <3>2, NoneIsNoTimeout
  <2>4. /\ flags'[Udp] = {"R", "T"} /\ timeout'[Udp] = left'[HeadOf(resolves)']
    BY <1>2, <2>1, <2>2, <2>3, Shape DEF ReceiveYield, EventYield, IInv, TypeOK
  <2>5. pc' = [pc EXCEPT ![t] = "yield"]
    BY <1>2, <2>1 DEF ReceiveYield, EventYield, SwitchBack
  <2>6. \A u \in Tasks : pc'[u] # "woken" /\ (pc'[u] = "run" => at'[u] # "recv")
    BY <2>1, <2>5, Types, ReceiverShape
  <2>q. QED BY <2>4, <2>6 DEF AlarmOK, WakeOK, BudgetOK
<1>3. CASE ReceiveReturn(t)
  <2>1. /\ running = t /\ pc[t] = "woken"
        /\ UNCHANGED <<left, resolves, inbox, failing>>
        /\ at' = [at EXCEPT ![t] = IF "T" \in flags[Udp] THEN "expired" ELSE "recv"]
        /\ pc' = [pc EXCEPT ![t] = "run"]
    BY <1>3 DEF ReceiveReturn, YieldReturn, Goto, networkVars
  <2>2. task[Udp] = t
    BY <2>1, ReceiverShape
  <2>3. \A u \in Tasks : pc'[u] \notin {"yield", "woken"}
    BY <2>1, <2>2, Types, ReceiverShape
  <2>4. ASSUME NEW u \in Tasks, pc'[u] = "run", at'[u] = "recv"
        PROVE  Readable'
    <3>1. u = t
      BY <2>1, <2>2, <2>4, Types, ReceiverShape
    <3>2. "T" \notin flags[Udp]
      BY <2>1, <2>4, <3>1, Types
    <3>q. QED BY <2>1, <3>2 DEF WakeOK, Readable
  <2>q. QED BY <2>3, <2>4 DEF AlarmOK, WakeOK, BudgetOK
<1>q. QED BY <1>1, <1>2, <1>3

\* main() before the loop, and the network.
LEMMA MainKeepsTime ==
  ASSUME IInv, RInv, TimeInv,
         \/ OpenSocket \/ (\E t \in Tasks : StartTask(t)) \/ EnterLoop \/ Network \/ Stopped
         \/ UNCHANGED vars
  PROVE  TimeInv'
<1>0. Udp # None /\ Udp \in Events
  BY SlotsAreTasks, NoneIsNoEvent
<1>1. CASE OpenSocket
  <2>1. \A t \in Tasks : pc[t] \notin {"yield", "woken"}
    <3>1. task[Udp] = None
      BY <1>1, <1>0 DEF IInv, PendingSuspended, OpenSocket, Live, Linked, ToSet
    <3>q. QED BY <3>1, ReceiverShape, Shape
  <2>2. /\ UNCHANGED <<pc, running, phase, cursor, at, budget, left, resolves, inbox, failing>>
        /\ events' = <<Udp>> /\ destroy' = [destroy EXCEPT ![Udp] = FALSE]
    BY <1>1 DEF OpenSocket, EventCreate, switchVars, loopVars, resolverVars, resolveVars,
                networkVars
  <2>3. LoopOK'
    BY <1>0, <2>2 DEF TimeInv, LoopOK, Readable, IInv, TypeOK
  <2>4. AlarmOK' /\ WakeOK' /\ BudgetOK'
    BY <2>1, <2>2 DEF TimeInv, AlarmOK, WakeOK, BudgetOK, Readable
  <2>q. QED BY <2>3, <2>4 DEF TimeInv
<1>2. ASSUME NEW t \in Tasks, StartTask(t)
      PROVE  TimeInv'
  <2>1. /\ UNCHANGED <<events, flags, timeout, destroy, phase, cursor, budget, left, resolves,
                       inbox, failing>>
        /\ running = None /\ phase # "dispatch"
        /\ at' = [at EXCEPT ![t] = "idle"] /\ pc' = [pc EXCEPT ![t] = "run"]
    BY <1>2 DEF StartTask, EventStart, MayCall, Switch, Goto, eventVars, loopVars, networkVars
  <2>2. LoopOK'
    BY <1>0, <2>1 DEF TimeInv, LoopOK
  <2>3. AlarmOK' /\ WakeOK' /\ BudgetOK'
    BY <2>1, Types DEF TimeInv, AlarmOK, WakeOK, BudgetOK, Readable
  <2>q. QED BY <2>2, <2>3 DEF TimeInv
<1>3. CASE EnterLoop
  <2>1. /\ UNCHANGED <<events, flags, timeout, destroy, cursor, budget, left, resolves,
                       inbox, failing, pc, running, at>>
        /\ phase = "main"
    BY <1>3 DEF EnterLoop, RunLoop, eventVars, switchVars, resolverVars, resolveVars,
                networkVars
  <2>q. QED BY <1>0, <2>1 DEF TimeInv, LoopOK, AlarmOK, WakeOK, BudgetOK, Readable
<1>4. CASE Network \/ Stopped \/ UNCHANGED vars
  <2>1. UNCHANGED <<loopState, resolveVars>> /\ (Readable => Readable')
    BY <1>4 DEF Network, Refuse, Arrive, Stopped, Exited, vars, resolverVars, networkVars,
                Readable
  <2>2. UNCHANGED <<events, flags, timeout, destroy, phase, cursor, running, pc, at, budget,
                    left, resolves>>
    BY <2>1 DEF loopState, eventVars, switchVars, loopVars, resolveVars
  <2>q. QED BY <2>1, <2>2 DEF TimeInv, LoopOK, AlarmOK, WakeOK, BudgetOK
<1>q. QED BY <1>1, <1>2, <1>3, <1>4

\* The clock runs for the timeout of select() and for the lookups alike.
LEMMA PassKeepsTime ==
  ASSUME IInv, RInv, TimeInv, ~LateTicks, Pass
  PROVE  TimeInv'
<1>1. /\ running = None /\ \A t \in Pending : left[t] > 0
      /\ left' = [t \in Tasks |-> IF t \in Pending /\ left[t] > 0 THEN left[t] - 1 ELSE left[t]]
      /\ Tick \/ ((\A e \in Armed : timeout[e] = 0) /\ UNCHANGED loopState)
      /\ UNCHANGED <<at, resolves, budget, inbox, failing>>
  BY DEF Pass, networkVars
<1>2. UNCHANGED <<events, flags, task, destroy, phase, cursor, running, pc>>
  BY <1>1 DEF Tick, loopState, eventVars, switchVars, loopVars
<1>3. LoopOK'
  BY <1>1, <1>2 DEF TimeInv, LoopOK, Readable
<1>4. \A t \in Tasks : pc[t] # "woken" /\ ~(pc[t] = "run" /\ at[t] = "recv")
  BY <1>1, ReceiverShape, Shape
<1>5. ASSUME NEW t \in Tasks, pc[t] = "yield"
      PROVE  timeout'[Udp] = left[HeadOf(resolves)] - 1
             /\ left'[HeadOf(resolves)] = left[HeadOf(resolves)] - 1
  <2> DEFINE h == HeadOf(resolves)
  <2>1. h \in Pending /\ h \in Tasks /\ left[h] > 0 /\ task[Udp] = t
    BY <1>1, <1>5, ReceiverShape, Types
  <2>2. flags[Udp] = {"R", "T"} /\ timeout[Udp] = left[h]
    BY <1>5 DEF TimeInv, AlarmOK
  <2>3. left[h] \in Nat
    BY <2>1, TimeoutIsPos DEF RInv, ResolverTypeOK
  <2>4. Udp \in Armed
    <3>1. Linked(Udp)
      BY <2>1, Shape DEF IInv, PendingSuspended, Live
    <3>q. QED BY <2>2, <3>1 DEF Armed, Linked
  <2> HIDE DEF h
  <2>5. Tick
    BY <1>1, <2>1, <2>2, <2>3, <2>4
  <2>6. timeout'[Udp] = left[h] - 1
    BY <2>1, <2>2, <2>3, <2>5, Shape DEF Tick
  <2>7. left'[h] = left[h] - 1
    BY <1>1, <2>1
  <2>q. QED BY <2>6, <2>7 DEF h
<1>6. AlarmOK'
  BY <1>1, <1>2, <1>5 DEF TimeInv, AlarmOK
<1>7. WakeOK' /\ BudgetOK'
  BY <1>1, <1>2, <1>4 DEF WakeOK, BudgetOK
<1>q. QED BY <1>3, <1>6, <1>7 DEF TimeInv

\* event_main_run() wakes the receiver when there is something to read, or when the
\* head is due.
LEMMA MainLoopKeepsTime ==
  ASSUME IInv, RInv, RInv', TimeInv, MainLoop
  PROVE  TimeInv'
<1>0. /\ running = None /\ UNCHANGED <<at, budget, left, resolves, inbox, failing>>
      /\ Udp # None /\ Udp \in Events /\ UNCHANGED task
  BY MainLoopStep, SlotsAreTasks, NoneIsNoEvent
  DEF MainLoop, resolverVars, resolveVars, networkVars
<1>1. \A e \in Events : Linked(e) => e = Udp
  BY DEF TimeInv, LoopOK, Linked, ToSet
<1>2. \A t \in Tasks : pc[t] # "woken" /\ ~(pc[t] = "run" /\ at[t] = "recv")
  BY <1>0, ReceiverShape, Shape
<1>3. NextOf(events, Udp) = None \/ events = <<>>
  <2>1. CASE events = <<Udp>>
    <3>1. IndexOf(events, Udp) = 1
      BY <2>1 DEF IndexOf
    <3>q. QED BY <2>1, <3>1 DEF NextOf
  <2>q. QED BY <2>1 DEF TimeInv, LoopOK
<1>4. ASSUME UNCHANGED <<events, destroy, flags, timeout, pc, running>>,
             cursor' = None \/ (cursor' = Udp /\ phase' = "dispatch" /\ Readable)
      PROVE  TimeInv'
  <2>1. LoopOK'
    BY <1>0, <1>4 DEF TimeInv, LoopOK, Readable
  <2>q. QED BY <1>0, <1>4, <2>1 DEF TimeInv, AlarmOK, WakeOK, BudgetOK, Readable
<1>5. ASSUME NEW e \in Events, Collect(e)
      PROVE  FALSE
  BY <1>5 DEF Collect, TimeInv, LoopOK
<1>6. ASSUME NEW e \in Events, DispatchSkip(e)
      PROVE  TimeInv'
  <2>1. e = Udp /\ events # <<>>
    BY <1>6, <1>0, NoneIsNoEvent DEF DispatchSkip, AtEvent, TimeInv, LoopOK, IInv, ListOK,
                                     CursorLinked, Linked, ToSet
  <2>q. QED BY <1>3, <1>4, <1>6, <2>1 DEF DispatchSkip, eventVars, switchVars
<1>7. CASE Readable /\ SelectReady({Sock}, {})
  <2>1. HeadOf(events) \in {None, Udp}
    BY DEF TimeInv, LoopOK, HeadOf
  <2>q. QED BY <1>4, <1>7, <2>1 DEF SelectReady, eventVars, switchVars
<1>8. CASE DispatchEnd \/ LoopExit
  <2>1. cursor = None
    BY <1>8 DEF DispatchEnd, LoopExit, Scanned, TimeInv, LoopOK
  <2>q. QED BY <1>4, <1>8, <2>1 DEF DispatchEnd, LoopExit, eventVars, switchVars
<1>9. ASSUME task[Udp] # None, Switch(task[Udp], "woken"), UNCHANGED <<events, destroy>>,
             cursor' = None,
             IF "T" \in flags'[Udp] THEN left[HeadOf(resolves)] = 0 ELSE Readable
      PROVE  TimeInv'
  <2>1. task[Udp] \in Tasks /\ pc' = [pc EXCEPT ![task[Udp]] = "woken"]
    BY <1>9, Types, Shape DEF Switch
  <2>2. LoopOK'
    BY <1>0, <1>9 DEF TimeInv, LoopOK
  <2>3. WakeOK' /\ BudgetOK'
    BY <1>0, <1>2, <1>9, <2>1, Types DEF WakeOK, BudgetOK, Readable
  <2>4. AlarmOK'
    BY <1>0, <2>1, Types, ReceiverShape DEF AlarmOK
  <2>q. QED BY <2>2, <2>3, <2>4 DEF TimeInv
<1>10. ASSUME NEW e \in Events, Dispatch(e)
       PROVE  TimeInv'
  <2>1. e = Udp /\ events # <<>> /\ Readable
    BY <1>10, <1>0, NoneIsNoEvent DEF Dispatch, AtEvent, TimeInv, LoopOK, IInv, ListOK,
                                      CursorLinked, Linked, ToSet
  <2>2. flags'[Udp] = Hits(Udp) /\ "T" \notin Hits(Udp)
    BY <1>0, <1>10, <2>1 DEF Dispatch, Hits, IInv, TypeOK
  <2>q. QED BY <1>3, <1>9, <1>10, <2>1, <2>2 DEF Dispatch
<1>11. ASSUME NEW e \in Events, SelectTimeout(e)
       PROVE  TimeInv'
  <2>1. e \in Armed /\ e = Udp
    BY <1>1, <1>11 DEF SelectTimeout, TimeoutEvent, Armed, Linked
  <2>2. task[Udp] # None
    BY <2>1, <1>0 DEF IInv, ArmedHasTask, TimeInv, LoopOK
  <2>3. pc[task[Udp]] = "yield" /\ task[Udp] \in Tasks
    BY <1>0, <1>2, <2>2, Types, Shape
  <2>4. left[HeadOf(resolves)] = 0
    BY <1>11, <2>1, <2>3 DEF SelectTimeout, TimeInv, AlarmOK
  <2>5. flags'[Udp] = {"T"} /\ cursor = None /\ UNCHANGED <<cursor, events, destroy>>
    BY <1>0, <1>11, <2>1 DEF SelectTimeout, Scanned, TimeInv, LoopOK, IInv, TypeOK, loopVars
  <2>q. QED BY <1>9, <1>11, <2>1, <2>2, <2>4, <2>5 DEF SelectTimeout
<1>q. QED
  BY <1>5, <1>6, <1>7, <1>8, <1>10, <1>11 DEF MainLoop

\* What is received was sent, or need not have been.
LEMMA InboxGrows ==
  ASSUME [ClientNext]_vars
  PROVE  inbox' \subseteq inbox \/ \E p \in wire \cup Junk : inbox' = inbox \cup {p}
<1>1. CASE \E t \in Tasks : TaskStep(t)
  BY <1>1
  DEF TaskStep, Lookup, Query, QueryFails, TaskEnds, SyncReceive, SyncWait, WaitEnds,
      ReceiveYield, ReceiveReturn, ReceiveAnswer, ReceiveUnmatched, ReceiveShort, Retry,
      GiveUp, SocketFails, Poke, ResolveReturns, resolverVars, networkVars
<1>2. CASE Network
  BY <1>2 DEF Network, Refuse, Arrive
<1>3. CASE \/ OpenSocket \/ (\E t \in Tasks : StartTask(t)) \/ EnterLoop \/ MainLoop
           \/ Pass \/ Stopped \/ UNCHANGED vars
  BY <1>3 DEF OpenSocket, StartTask, EnterLoop, MainLoop, Pass, Stopped, vars,
              resolverVars, networkVars
<1>q. QED BY <1>1, <1>2, <1>3 DEF ClientNext, System

\* No query looks like what the network makes up.
LEMMA JunkIsNoQuery ==
  ASSUME RInv
  PROVE  /\ Short \notin wire /\ Corrupt \notin wire /\ Short # Corrupt
         /\ (Short \in Junk => ShortPackets) /\ (Corrupt \in Junk => BadChecksums)
<1>1. \A p \in Queries : p.id \in 0..IdMod-1
  BY DEF Queries
<1>2. /\ Short.id = IdMod /\ IdMod \notin 0..IdMod-1
      /\ Corrupt.id = IdMod + 1 /\ IdMod + 1 \notin 0..IdMod-1 /\ IdMod # IdMod + 1
  BY IdModIsPos DEF Short, Corrupt
<1>3. Short # Corrupt
  BY <1>2
<1>q. QED BY <1>1, <1>2, <1>3 DEF RInv, ResolverTypeOK, Junk

LEMMA ChecksumsKept ==
  ASSUME RInv, Corrupt \notin inbox, ~BadChecksums, [ClientNext]_vars
  PROVE  Corrupt \notin inbox'
BY InboxGrows, JunkIsNoQuery

\* Every step.
LEMMA TimeKept ==
  ASSUME IInv, RInv, RInv', TimeInv, Corrupt \notin inbox, ~LateTicks, [ClientNext]_vars
  PROVE  TimeInv'
<1>1. ASSUME NEW t \in Tasks, TaskStep(t)
      PROVE  TimeInv'
  <2>1. running = t /\ LoopOK'
    BY <1>1, TaskKeepsLoop, SlotsAreTasks, NoneIsNoEvent, NoneIsNoTask DEF TimeInv
  <2>2. AlarmOK' /\ WakeOK' /\ BudgetOK'
    <3>1. CASE \/ ReceiveShort(t) \/ Retry(t) \/ GiveUp(t) \/ SocketFails(t)
               \/ \E p \in inbox : ReceiveAnswer(t, p) \/ ReceiveUnmatched(t, p)
      BY <3>1, ReceiverLeaves
    <3>2. CASE \/ Lookup(t) \/ TaskEnds(t) \/ SyncWait(t) \/ WaitEnds(t) \/ Poke(t)
               \/ ResolveReturns(t)
      BY <2>1, <3>2, OthersKeepTime DEF TimeInv
    <3>3. CASE SyncReceive(t) \/ ReceiveYield(t) \/ ReceiveReturn(t)
      BY <3>3, ReceiverKeepsTime DEF TimeInv
    <3>q. QED BY <1>1, <3>1, <3>2, <3>3 DEF TaskStep
  <2>q. QED BY <2>1, <2>2 DEF TimeInv
<1>2. CASE Pass
  BY <1>2, PassKeepsTime
<1>3. CASE MainLoop
  BY <1>3, MainLoopKeepsTime
<1>4. CASE \/ OpenSocket \/ (\E t \in Tasks : StartTask(t)) \/ EnterLoop \/ Network \/ Stopped
           \/ UNCHANGED vars
  BY <1>4, MainKeepsTime
<1>q. QED BY <1>1, <1>2, <1>3, <1>4 DEF ClientNext, System

\* The receiver's timeout (resolve.c:226) is the deadline of the earliest lookup, however
\* many queries, answers and other receivers there were since it yielded, if no socket
\* call fails, the clock waits for the tasks and no datagram has a bad checksum.
THEOREM DeadlineIsWatched ==
  ASSUME ~SocketErrors, ~LateTicks, ~BadChecksums
  PROVE  ClientSpec => []DeadlineWatched
<1> DEFINE TInv == TimeInv /\ Corrupt \notin inbox
<1>1. ClientInit => TInv
  BY SlotsAreTasks, NoneIsNoEvent
  DEF ClientInit, Init, ResolverInit, TimeInv, LoopOK, AlarmOK, WakeOK, BudgetOK
<1>2. IInv /\ RInv /\ (IInv /\ RInv)' /\ TInv /\ [ClientNext]_vars => TInv'
  BY TimeKept, ChecksumsKept
<1>3. ClientSpec => []TInv
  BY <1>1, <1>2, ClientInvHolds, PTL DEF ClientSpec
<1>4. IInv /\ RInv /\ TimeInv /\ MainRunsAlone => DeadlineWatched
  <2> SUFFICES ASSUME IInv, RInv, TimeInv, MainRunsAlone, running = None, NEW t \in Pending
               PROVE  timeout[Udp] = left[HeadOf(resolves)]
    BY DEF DeadlineWatched
  <2>1. t \in Tasks /\ Waiting(t)
    BY Types DEF RInv, ResolvesOK
  <2>2. pc[t] \in {"yield", "wait"}
    <3>1. pc[t] # "free" /\ ~Active(t) /\ pc[t] \in PCs
      BY <2>1, Types DEF RInv, PlacesOK, Waiting, MainRunsAlone
    <3>q. QED BY <3>1 DEF Active, PCs
  <2>3. task[Udp] # None
    BY <2>1, <2>2, NoneIsNoTask, ReceiverShape DEF RInv, WatchOK, MainRunsAlone
  <2>4. task[Udp] \in Tasks /\ pc[task[Udp]] = "yield"
    BY <2>3, Types, Shape DEF MainRunsAlone, Active
  <2>q. QED BY <2>4 DEF TimeInv, AlarmOK
<1>5. ClientSpec => []MainRunsAlone
  BY ClientUsesLoop, MainRunsAloneHolds
<1>q. QED BY <1>3, <1>4, <1>5, ClientInvHolds, PTL

\* A lookup is only taken for expired when its time is over, and every datagram has a
\* header.
ExpiredOK ==
  /\ \A t \in Tasks : at[t] = "expired" => left[first[t]] = 0
  /\ Short \notin inbox

LEMMA ExpiredKept ==
  ASSUME IInv, RInv, TimeInv, ExpiredOK, ~LateTicks, ~ShortPackets, [ClientNext]_vars
  PROVE  ExpiredOK'
<1>1. Short \notin inbox'
  BY InboxGrows, JunkIsNoQuery DEF ExpiredOK
<1>2. ASSUME NEW u \in Tasks, at'[u] = "expired", UNCHANGED <<left, first>>, at'[u] = at[u]
      PROVE  left'[first'[u]] = 0
  BY <1>2 DEF ExpiredOK
<1>3. ASSUME NEW t \in Tasks, TaskStep(t), NEW u \in Tasks, at'[u] = "expired"
      PROVE  left'[first'[u]] = 0
  <2>1. CASE \/ TaskEnds(t) \/ SyncWait(t) \/ WaitEnds(t) \/ ReceiveYield(t)
    BY <1>2, <1>3, <2>1
    DEF TaskEnds, SyncWait, WaitEnds, ReceiveYield, resolverVars, resolveVars
  <2>2. CASE \/ QueryFails(t) \/ GiveUp(t) \/ SocketFails(t) \/ Poke(t) \/ ResolveReturns(t)
             \/ \E p \in inbox : ReceiveAnswer(t, p) \/ ReceiveUnmatched(t, p)
    BY <1>2, <1>3, <2>2, Types
    DEF QueryFails, GiveUp, SocketFails, Poke, ResolveReturns, ReceiveAnswer, ReceiveUnmatched,
        Deliver, Goto
  <2>3. CASE Query(t) \/ Retry(t)
    <3>1. \A w \in Tasks : w # t => at[w] # "expired"
      BY <2>3, ReceiverShape DEF Query, Retry, At
    <3>q. QED BY <1>3, <2>3, <3>1, Types DEF Query, Retry, Goto
  <2>4. CASE SyncReceive(t)
    <3>1. CASE u = t
      BY <1>3, <2>4, <3>1, Types DEF SyncReceive, Goto
    <3>2. CASE u # t
      <4>1. at'[u] = at[u] /\ at[u] = "expired"
        BY <1>3, <2>4, <3>2, Types DEF SyncReceive, Goto
      <4>2. FALSE
        BY <2>4, <3>2, <4>1, ReceiverShape DEF SyncReceive, At
      <4>q. QED BY <4>2
    <3>q. QED BY <3>1, <3>2
  <2>5. CASE ReceiveReturn(t)
    <3>1. /\ running = t /\ pc[t] = "woken" /\ UNCHANGED <<left, first>>
          /\ at' = [at EXCEPT ![t] = IF "T" \in flags[Udp] THEN "expired" ELSE "recv"]
      BY <2>5 DEF ReceiveReturn, YieldReturn, Goto
    <3>2. CASE u = t
      <4>1. "T" \in flags[Udp]
        BY <1>3, <3>1, <3>2, Types
      <4>2. left[HeadOf(resolves)] = 0
        BY <3>1, <4>1 DEF TimeInv, WakeOK
      <4>3. first[t] = HeadOf(resolves)
        BY <3>1, ReceiverShape
      <4>q. QED BY <3>1, <3>2, <4>2, <4>3
    <3>3. CASE u # t
      BY <1>2, <1>3, <3>1, <3>3, Types
    <3>q. QED BY <3>2, <3>3
  <2>6. CASE ReceiveShort(t)
    BY <2>6 DEF ReceiveShort, ExpiredOK
  <2>q. QED BY <1>3, <2>1, <2>2, <2>3, <2>4, <2>5, <2>6 DEF TaskStep, Lookup
<1>4. CASE Pass
  <2>1. \A u \in Tasks : at'[u] # "expired"
    <3>1. running = None /\ UNCHANGED at
      BY <1>4 DEF Pass
    <3>q. QED BY <3>1, ReceiverShape, Shape
  <2>q. QED BY <1>1, <2>1 DEF ExpiredOK
<1>5. CASE \E t \in Tasks : StartTask(t)
  BY <1>1, <1>5, Types DEF StartTask, Goto, ExpiredOK
<1>6. CASE OpenSocket \/ EnterLoop \/ MainLoop \/ Network \/ Stopped \/ UNCHANGED vars
  BY <1>1, <1>6
  DEF OpenSocket, EnterLoop, MainLoop, Network, Refuse, Arrive, Stopped, vars, resolverVars,
      resolveVars, ExpiredOK
<1>7. CASE \E t \in Tasks : TaskStep(t)
  BY <1>1, <1>3, <1>7 DEF ExpiredOK
<1>q. QED BY <1>4, <1>5, <1>6, <1>7 DEF ClientNext, System

\* "Returns 1 on timeout" (dns/dns.h:64): resolve.c:242-265 sends a query again, or gives
\* it up, only when its own time is over, if the clock waits for the tasks and every
\* datagram has a header and a good checksum.
THEOREM RetriesAreDue ==
  ASSUME ~LateTicks, ~ShortPackets, ~BadChecksums
  PROVE  ClientSpec => RetryWhenExpired
<1> DEFINE Due == \A t \in Tasks : (retry'[t] > retry[t] \/ response'[t] < response[t])
                    /\ nth'[t] = nth[t] => left[t] = 0
<1> DEFINE TInv == TimeInv /\ ExpiredOK /\ Corrupt \notin inbox
<1>1. ClientInit => TInv
  BY SlotsAreTasks, NoneIsNoEvent
  DEF ClientInit, Init, ResolverInit, TimeInv, LoopOK, AlarmOK, WakeOK, BudgetOK, ExpiredOK
<1>2. IInv /\ RInv /\ (IInv /\ RInv)' /\ TInv /\ [ClientNext]_vars => TInv'
  BY TimeKept, ExpiredKept, ChecksumsKept
<1>3. IInv /\ RInv /\ ExpiredOK /\ [ClientNext]_vars => [Due]_vars
  <2> SUFFICES ASSUME IInv, RInv, ExpiredOK, ClientNext, NEW u \in Tasks,
                      retry'[u] > retry[u] \/ response'[u] < response[u], nth'[u] = nth[u]
               PROVE  left[u] = 0
    OBVIOUS
  <2>0. retry[u] \in Int /\ response[u] \in {-1, 0, 1} /\ nth[u] \in Int
        /\ retry \in [Tasks -> 0..MaxRetry]
    BY LookupsIsNat, RetryIsNat DEF RInv, ResolverTypeOK
  <2>1. ASSUME UNCHANGED <<retry, response>> PROVE FALSE
    BY <2>0, <2>1
  <2>2. ASSUME NEW t \in Tasks, TaskStep(t) PROVE left[u] = 0
    <3>1. CASE Query(t)
      <4>1. nth' = [nth EXCEPT ![t] = nth[t] + 1] /\ retry' = [retry EXCEPT ![t] = 0]
            /\ response' = [response EXCEPT ![t] = 0]
        BY <3>1 DEF Query
      <4>2. u # t
        BY <2>0, <4>1, Types
      <4>q. QED BY <2>0, <4>1, <4>2, Types
    <3>2. CASE Retry(t) \/ GiveUp(t)
      <4>1. u = first[t]
        BY <2>0, <3>2, Types DEF Retry, GiveUp
      <4>q. QED BY <3>2, <4>1 DEF ExpiredOK, Retry, GiveUp, At
    <3>3. ASSUME NEW p \in inbox, ReceiveAnswer(t, p) PROVE left[u] = 0
      <4>1. UNCHANGED retry /\ (response'[u] = response[u] \/ response'[u] = 1)
        BY <3>3, Types DEF ReceiveAnswer
      <4>q. QED BY <2>0, <4>1
    <3>4. CASE UNCHANGED <<retry, response>>
      BY <2>1, <3>4
    <3>q. QED
      BY <2>2, <3>1, <3>2, <3>3, <3>4
      DEF TaskStep, Lookup, QueryFails, TaskEnds, SyncReceive, SyncWait, WaitEnds, ReceiveYield,
          ReceiveReturn, ReceiveUnmatched, ReceiveShort, SocketFails, Poke, ResolveReturns,
          resolverVars, resolveVars
  <2>3. CASE OpenSocket \/ (\E t \in Tasks : StartTask(t)) \/ EnterLoop \/ MainLoop
             \/ Network \/ Pass \/ Stopped
    BY <2>1, <2>3
    DEF OpenSocket, StartTask, EnterLoop, MainLoop, Network, Refuse, Arrive, Pass, Stopped,
        resolverVars, resolveVars
  <2>q. QED BY <2>2, <2>3 DEF ClientNext, System
<1> HIDE DEF Due
<1>4. ClientSpec => [][Due]_vars
  BY <1>1, <1>2, <1>3, ClientInvHolds, PTL DEF ClientSpec
<1>q. QED BY <1>4 DEF Due, RetryWhenExpired

-----------------------------------------------------------------------------
(* The ids of the queries                                                  *)

\* Every lookup that the program can begin, and those that it has begun.
Lookups == Tasks \X (1..MaxLookups)
Begun   == {a \in Lookups : a[2] <= nth[a[1]]}

\* The id of the n-th lookup after the first, whose id is s.
Turn(s, n) == IF s + n < IdMod THEN s + n ELSE s + n - IdMod

\* f numbers the lookups in the order in which they began; the id of a datagram and of a
\* listed resolve is that of its lookup.
Numbered(s, f) ==
  /\ \A a \in Begun : f[a] < Cardinality(Begun)
  /\ \A a, b \in Begun : f[a] = f[b] => a = b
  /\ ids = Turn(s, Cardinality(Begun))
  /\ \A p \in wire : <<p.of, p.nth>> \in Begun /\ p.id = Turn(s, f[<<p.of, p.nth>>])
  /\ \A t \in Pending : id[t] = Turn(s, f[<<t, nth[t]>>])

IdsOK ==
  /\ inbox \subseteq wire \cup {Short, Corrupt}
  /\ \E s \in 0..IdMod-1 : \E f \in [Lookups -> Nat] : Numbered(s, f)

\* There are no more lookups than ids.
EnoughIds == IsFiniteSet(Lookups) /\ Cardinality(Lookups) <= IdMod

\* No two lookups have the same id.
LEMMA TurnFacts ==
  ASSUME NEW s \in 0..IdMod-1, NEW m \in 0..IdMod-1, NEW n \in 0..IdMod-1
  PROVE  /\ Turn(s, m) \in 0..IdMod-1
         /\ Turn(s, m) = Turn(s, n) => m = n
         /\ (Turn(s, m) + 1) % IdMod = Turn(s, m + 1)
<1>1. /\ Turn(s, m) \in 0..IdMod-1
      /\ Turn(s, m) = Turn(s, n) => m = n
      /\ Turn(s, m + 1) = IF Turn(s, m) = IdMod - 1 THEN 0 ELSE Turn(s, m) + 1
  BY IdModIsPos DEF Turn
<1>2. \A k \in 0..IdMod-1 : (k + 1) % IdMod = IF k = IdMod - 1 THEN 0 ELSE k + 1
  BY IdModIsPos
<1>q. QED BY <1>1, <1>2

\* The types of what the ids are about.
LEMMA IdTypes ==
  ASSUME RInv
  PROVE  /\ nth \in [Tasks -> 0..MaxLookups] /\ id \in [Tasks -> 0..IdMod-1]
         /\ ids \in 0..IdMod-1 /\ MaxLookups \in Nat
         /\ \A p \in wire : p.of \in Tasks /\ p.nth \in 1..MaxLookups /\ p.id \in 0..IdMod-1
         /\ \A t \in Pending : t \in Tasks /\ nth[t] \in 1..MaxLookups /\ <<t, nth[t]>> \in Begun
<1>1. /\ nth \in [Tasks -> 0..MaxLookups] /\ id \in [Tasks -> 0..IdMod-1]
      /\ ids \in 0..IdMod-1 /\ MaxLookups \in Nat
  BY LookupsIsNat DEF RInv, ResolverTypeOK
<1>2. \A p \in wire : p.of \in Tasks /\ p.nth \in 1..MaxLookups /\ p.id \in 0..IdMod-1
  BY DEF RInv, ResolverTypeOK, Queries
<1>3. ASSUME NEW t \in Pending
      PROVE  t \in Tasks /\ nth[t] \in 1..MaxLookups /\ <<t, nth[t]>> \in Begun
  <2>1. t \in Tasks
    BY DEF RInv, ResolverTypeOK, Pending, ToSet
  <2>2. nth[t] \in 1..MaxLookups
    BY <1>1, <2>1 DEF RInv, ResolvesOK
  <2>q. QED BY <1>1, <2>1, <2>2 DEF Begun, Lookups
<1>q. QED BY <1>1, <1>2, <1>3

\* There never were more lookups than ids.
LEMMA BegunFacts ==
  ASSUME EnoughIds
  PROVE  IsFiniteSet(Begun) /\ Cardinality(Begun) \in Nat /\ Cardinality(Begun) <= IdMod
<1>1. Begun \in SUBSET Lookups
  BY DEF Begun
<1>2. IsFiniteSet(Begun) /\ Cardinality(Begun) <= Cardinality(Lookups)
  BY <1>1, FS_Subset DEF EnoughIds
<1>3. Cardinality(Begun) \in Nat /\ Cardinality(Lookups) \in Nat
  BY <1>2, FS_CardinalityType DEF EnoughIds
<1>q. QED BY <1>2, <1>3, IdModIsPos DEF EnoughIds

\* A lookup that begins is a new one, and its number is the number of those before it.
LEMMA LookupBegins ==
  ASSUME EnoughIds, RInv, NEW t \in Tasks, nth[t] < MaxLookups,
         nth' = [nth EXCEPT ![t] = nth[t] + 1]
  PROVE  /\ Begun' = Begun \cup {<<t, nth'[t]>>} /\ <<t, nth'[t]>> \in Lookups
         /\ <<t, nth'[t]>> \notin Begun
         /\ Cardinality(Begun') = Cardinality(Begun) + 1
         /\ Cardinality(Begun) < IdMod
<1> DEFINE a == <<t, nth[t] + 1>>
<1>1. /\ nth'[t] = nth[t] + 1 /\ a \in Lookups /\ a[1] = t /\ a[2] = nth[t] + 1
      /\ nth[t] \in Nat
  BY IdTypes DEF Lookups
<1>2. a \notin Begun
  BY <1>1 DEF Begun
<1>3. \A b \in Lookups : b[2] <= nth'[b[1]] <=> (b[2] <= nth[b[1]] \/ b = a)
  <2> SUFFICES ASSUME NEW u \in Tasks, NEW k \in 1..MaxLookups
               PROVE  k <= nth'[u] <=> (k <= nth[u] \/ <<u, k>> = a)
    BY DEF Lookups
  <2>1. CASE u = t
    BY <2>1, IdTypes
  <2>2. CASE u # t
    BY <2>2, IdTypes
  <2>q. QED BY <2>1, <2>2
<1>4. Begun' = Begun \cup {a}
  BY <1>1, <1>3 DEF Begun, Lookups
<1>5. Cardinality(Begun') = Cardinality(Begun) + 1
  BY <1>2, <1>4, BegunFacts, FS_AddElement
<1>6. Begun \cup {a} \in SUBSET Lookups
  BY <1>1 DEF Begun
<1>7. Cardinality(Begun \cup {a}) <= Cardinality(Lookups)
  BY <1>6, FS_Subset DEF EnoughIds
<1>8. Cardinality(Lookups) \in Nat
  BY FS_CardinalityType DEF EnoughIds
<1>9. Cardinality(Begun) < IdMod
  BY <1>4, <1>5, <1>7, <1>8, BegunFacts, IdModIsPos DEF EnoughIds
<1> HIDE DEF a
<1>q. QED BY <1>1, <1>2, <1>4, <1>5, <1>9 DEF a

\* A step in which no lookup begins: what it sends is a listed query again.
LEMMA NumberingStays ==
  ASSUME RInv, IdsOK, UNCHANGED <<nth, ids, id>>, Pending' \subseteq Pending,
         inbox' \subseteq wire' \cup {Short, Corrupt},
         \A p \in wire' : p \in wire \/ \E r \in Pending :
                            p.of = r /\ p.nth = nth[r] /\ p.id = id[r]
  PROVE  IdsOK'
<1>1. PICK s \in 0..IdMod-1, f \in [Lookups -> Nat] : Numbered(s, f)
  BY DEF IdsOK
<1>2. Begun' = Begun
  BY DEF Begun
<1>3. ASSUME NEW p \in wire'
      PROVE  <<p.of, p.nth>> \in Begun /\ p.id = Turn(s, f[<<p.of, p.nth>>])
  <2>1. CASE p \in wire
    BY <1>1, <2>1 DEF Numbered
  <2>2. ASSUME NEW r \in Pending, p.of = r /\ p.nth = nth[r] /\ p.id = id[r]
        PROVE  <<p.of, p.nth>> \in Begun /\ p.id = Turn(s, f[<<p.of, p.nth>>])
    <3>1. <<r, nth[r]>> \in Begun
      BY IdTypes
    <3>2. id[r] = Turn(s, f[<<r, nth[r]>>])
      BY <1>1 DEF Numbered
    <3>q. QED BY <2>2, <3>1, <3>2
  <2>q. QED BY <2>1, <2>2
<1>4. \A t \in Pending' : id'[t] = Turn(s, f[<<t, nth'[t]>>])
  BY <1>1 DEF Numbered
<1>5. Numbered(s, f)'
  BY <1>1, <1>2, <1>3, <1>4 DEF Numbered, Turn
<1>q. QED BY <1>5 DEF IdsOK

\* A step in which one begins, and sends its query or not.
LEMMA NumberingGrows ==
  ASSUME RInv, IdsOK, EnoughIds, NEW t \in Tasks, t \notin Pending, nth[t] < MaxLookups,
         nth' = [nth EXCEPT ![t] = nth[t] + 1], ids' = (ids + 1) % IdMod,
         Pending' \subseteq Pending \cup {t},
         \A u \in Pending : id'[u] = id[u],
         t \in Pending' => id'[t] = ids,
         inbox' \subseteq wire' \cup {Short, Corrupt},
         \A p \in wire' : p \in wire \/ (p.of = t /\ p.nth = nth'[t] /\ p.id = ids)
  PROVE  IdsOK'
<1>1. PICK s \in 0..IdMod-1, f \in [Lookups -> Nat] : Numbered(s, f)
  BY DEF IdsOK
<1> DEFINE a == <<t, nth'[t]>>
           c == Cardinality(Begun)
<1>2. /\ Begun' = Begun \cup {a} /\ a \in Lookups /\ a \notin Begun
      /\ Cardinality(Begun') = c + 1 /\ c < IdMod /\ c \in Nat
  BY LookupBegins, BegunFacts
<1>3. PICK g \in [Lookups -> Nat] :
        g[a] = c /\ \A b \in Begun : g[b] = f[b] /\ b # a
  <2>1. [f EXCEPT ![a] = c] \in [Lookups -> Nat]
    BY <1>2
  <2>q. QED BY <1>2, <2>1 DEF Begun
<1>4. \A b \in Begun : f[b] \in Nat /\ f[b] < c
  BY <1>1 DEF Numbered, Begun
<1>5. ids = Turn(s, c) /\ c \in 0..IdMod-1
  BY <1>1, <1>2, IdModIsPos DEF Numbered
<1>6. ids' = Turn(s, c + 1)
  BY <1>5, TurnFacts
<1>7. \A b \in Begun' : g[b] < c + 1
  BY <1>2, <1>3, <1>4
<1>8. \A b, d \in Begun' : g[b] = g[d] => b = d
  <2>1. \A b, d \in Begun : f[b] = f[d] => b = d
    BY <1>1 DEF Numbered
  <2>2. \A b \in Begun : g[b] # c
    BY <1>2, <1>3, <1>4
  <2> HIDE DEF a, c
  <2>q. QED BY <1>2, <1>3, <2>1, <2>2
<1>9. ASSUME NEW p \in wire'
      PROVE  <<p.of, p.nth>> \in Begun' /\ p.id = Turn(s, g[<<p.of, p.nth>>])
  <2>1. CASE p \in wire
    <3>1. <<p.of, p.nth>> \in Begun /\ p.id = Turn(s, f[<<p.of, p.nth>>])
      BY <1>1, <2>1 DEF Numbered
    <3> HIDE DEF a, c
    <3>q. QED BY <1>2, <1>3, <3>1
  <2>2. CASE p.of = t /\ p.nth = nth'[t] /\ p.id = ids
    <3>1. <<p.of, p.nth>> = a
      BY <2>2
    <3> HIDE DEF a, c
    <3>q. QED BY <1>2, <1>3, <1>5, <2>2, <3>1
  <2>q. QED BY <2>1, <2>2
<1>10. ASSUME NEW u \in Pending'
       PROVE  id'[u] = Turn(s, g[<<u, nth'[u]>>])
  <2>1. CASE u = t
    <3>1. id'[u] = ids /\ <<u, nth'[u]>> = a
      BY <2>1
    <3> HIDE DEF a, c
    <3>q. QED BY <1>3, <1>5, <3>1
  <2>2. CASE u # t
    <3>1. u \in Pending
      BY <2>2
    <3>2. /\ id'[u] = id[u] /\ nth'[u] = nth[u] /\ <<u, nth[u]>> \in Begun
      BY <2>2, <3>1, IdTypes
    <3>3. id[u] = Turn(s, f[<<u, nth[u]>>])
      BY <1>1, <3>1 DEF Numbered
    <3> HIDE DEF a, c
    <3>q. QED BY <1>3, <3>2, <3>3
  <2>q. QED BY <2>1, <2>2
<1>11. Numbered(s, g)'
  <2> HIDE DEF a, c
  <2>q. QED BY <1>2, <1>6, <1>7, <1>8, <1>9, <1>10 DEF Numbered, Turn
<1>q. QED BY <1>3, <1>11 DEF IdsOK

\* Every step.
LEMMA IdsKept ==
  ASSUME IInv, RInv, EnoughIds, IdsOK, [ClientNext]_vars
  PROVE  IdsOK'
<1>1. inbox' \subseteq wire \cup {Short, Corrupt}
  BY InboxGrows DEF IdsOK, Junk
<1>2. ASSUME UNCHANGED <<nth, ids, id, wire>>, Pending' \subseteq Pending
      PROVE  IdsOK'
  BY <1>1, <1>2, NumberingStays
<1>3. ASSUME UNCHANGED <<nth, ids, id, wire, resolves>>
      PROVE  IdsOK'
  BY <1>2, <1>3 DEF Pending
<1>4. resolves \in Seq(Tasks) /\ Distinct(resolves)
  BY DEF RInv, ResolverTypeOK, ResolvesOK
<1>5. ASSUME NEW t \in Tasks, TaskStep(t)
      PROVE  IdsOK'
  <2>1. CASE Lookup(t)
    <3>1. /\ t \notin Pending /\ nth[t] < MaxLookups
          /\ nth' = [nth EXCEPT ![t] = nth[t] + 1] /\ ids' = (ids + 1) % IdMod
      BY <2>1 DEF RInv, ResolvesOK, Waiting, Query, QueryFails, At, Lookup, GoesOn
    <3>2. CASE Query(t)
      <4>1. Pending' = Pending \cup {t}
        BY <1>4, <3>1, <3>2, AppendFacts DEF Query, Pending
      <4>2. /\ id' = [id EXCEPT ![t] = ids]
            /\ wire' = wire \cup
                 {[id |-> ids, of |-> t, nth |-> nth'[t], size |-> Complete]}
        BY <3>2 DEF Query
      <4>3. /\ \A u \in Pending : id'[u] = id[u]
            /\ t \in Pending' => id'[t] = ids
        BY <3>1, <4>2, IdTypes
      <4>4. \A p \in wire' : p \in wire \/ (p.of = t /\ p.nth = nth'[t] /\ p.id = ids)
        BY <4>2
      <4>q. QED BY <1>1, <3>1, <4>1, <4>2, <4>3, <4>4, NumberingGrows
    <3>3. CASE QueryFails(t)
      <4>1. UNCHANGED <<id, wire, resolves>>
        BY <3>3 DEF QueryFails, networkVars
      <4>2. Pending' = Pending
        BY <4>1 DEF Pending
      <4>q. QED BY <1>1, <3>1, <4>1, <4>2, NumberingGrows
    <3>q. QED BY <2>1, <3>2, <3>3 DEF Lookup
  <2>2. CASE Retry(t)
    <3> DEFINE r == first[t]
    <3>1. r \in Pending
      BY <2>2, Expired DEF Retry
    <3>2. /\ UNCHANGED <<nth, ids, id>> /\ resolves' = Append(Unlink(resolves, r), r)
          /\ wire' = wire \cup {[id |-> id[r], of |-> r, nth |-> nth[r], size |-> ptr[r]]}
      BY <2>2 DEF Retry
    <3>3. Pending' = Pending
      BY <1>4, <3>1, <3>2, RequeueFacts DEF Pending
    <3>4. \A p \in wire' : p \in wire \/ \E w \in Pending :
                             p.of = w /\ p.nth = nth[w] /\ p.id = id[w]
      BY <3>1, <3>2
    <3>q. QED BY <1>1, <3>2, <3>3, <3>4, NumberingStays
  <2>3. CASE GiveUp(t)
    <3>1. first[t] \in Pending
      BY <2>3, Expired DEF GiveUp
    <3>2. Pending' \subseteq Pending
      BY <1>4, <2>3, <3>1, UnlinkFacts DEF GiveUp, Pending
    <3>q. QED BY <1>2, <2>3, <3>2 DEF GiveUp, lookupVars, networkVars
  <2>4. ASSUME NEW p \in inbox, ReceiveAnswer(t, p) PROVE IdsOK'
    <3>1. Matching(p.id) \in Pending
      BY <2>4, MatchingFacts DEF ReceiveAnswer, RInv
    <3>2. Pending' \subseteq Pending
      BY <1>4, <2>4, <3>1, UnlinkFacts DEF ReceiveAnswer, Pending
    <3>q. QED BY <1>2, <2>4, <3>2 DEF ReceiveAnswer, lookupVars
  <2>5. CASE UNCHANGED <<lookupVars, resolves, wire>>
    BY <1>3, <2>5 DEF lookupVars
  <2>6. CASE SocketFails(t)
    BY <1>3, <2>6 DEF SocketFails
  <2>7. CASE ResolveReturns(t)
    BY <1>3, <2>7 DEF ResolveReturns, networkVars
  <2>q. QED
    BY <1>5, <2>1, <2>2, <2>3, <2>4, <2>5, <2>6, <2>7
    DEF TaskStep, TaskEnds, SyncReceive, SyncWait, WaitEnds, ReceiveYield, ReceiveReturn,
        ReceiveUnmatched, ReceiveShort, Poke, resolverVars, resolveVars, networkVars
<1>6. CASE OpenSocket \/ (\E t \in Tasks : StartTask(t)) \/ EnterLoop \/ MainLoop \/ Pass
           \/ Stopped
  BY <1>3, <1>6
  DEF OpenSocket, StartTask, EnterLoop, MainLoop, Pass, Stopped, resolverVars, resolveVars,
      lookupVars, networkVars
<1>7. CASE Network
  BY <1>3, <1>7 DEF Network, Refuse, Arrive, resolveVars, lookupVars
<1>8. CASE UNCHANGED vars
  BY <1>3, <1>8 DEF vars, resolverVars, resolveVars, lookupVars, networkVars
<1>q. QED BY <1>5, <1>6, <1>7, <1>8 DEF ClientNext, System

\* A datagram whose id is that of a listed resolve answers it.
LEMMA MatchIsOwn ==
  ASSUME RInv, EnoughIds, IdsOK, NEW p \in inbox, Matching(p.id) # None
  PROVE  LET r == Matching(p.id) IN p.of = r /\ p.nth = nth[r]
<1> DEFINE r == Matching(p.id)
<1>1. r \in Pending /\ p.id \in 0..IdMod-1 /\ id[r] = p.id
  BY MatchingFacts DEF RInv
<1>2. p \in wire
  <2>1. p # Short /\ p # Corrupt
    BY <1>1, IdModIsPos DEF Short, Corrupt
  <2>q. QED BY <2>1 DEF IdsOK
<1>3. PICK s \in 0..IdMod-1, f \in [Lookups -> Nat] : Numbered(s, f)
  BY DEF IdsOK
<1> DEFINE a == <<p.of, p.nth>>
           b == <<r, nth[r]>>
<1>4. a \in Begun /\ b \in Begun
  BY <1>1, <1>2, <1>3, IdTypes DEF Numbered
<1>5. Turn(s, f[a]) = Turn(s, f[b])
  BY <1>1, <1>2, <1>3 DEF Numbered
<1>6. f[a] \in 0..IdMod-1 /\ f[b] \in 0..IdMod-1
  <2>1. \A d \in Begun : f[d] \in Nat /\ f[d] < Cardinality(Begun)
    BY <1>3 DEF Numbered, Begun
  <2> HIDE DEF a, b
  <2>q. QED BY <1>4, <2>1, BegunFacts, IdModIsPos
<1>7. f[a] = f[b]
  BY <1>5, <1>6, TurnFacts
<1>8. a = b
  BY <1>3, <1>4, <1>7 DEF Numbered
<1>q. QED BY <1>8

LEMMA AnswersKept ==
  ASSUME IInv, RInv, EnoughIds, IdsOK, OwnAnswer, [ClientNext]_vars
  PROVE  OwnAnswer'
<1> SUFFICES ASSUME NEW u \in Tasks, at'[u] # "idle", reply'[u] # None
             PROVE  reply'[u].of = u /\ reply'[u].nth = nth'[u]
  BY DEF OwnAnswer
<1>1. ASSUME at[u] # "idle", reply'[u] = reply[u], nth'[u] = nth[u]
      PROVE  reply'[u].of = u /\ reply'[u].nth = nth'[u]
  BY <1>1 DEF OwnAnswer
<1>2. /\ at \in [Tasks -> Places] /\ nth \in [Tasks -> 0..MaxLookups]
      /\ reply \in [Tasks -> Queries \cup {None}]
  BY Types DEF RInv, ResolverTypeOK
<1>3. ASSUME NEW t \in Tasks, TaskStep(t)
      PROVE  reply'[u].of = u /\ reply'[u].nth = nth'[u]
  <2>1. CASE Query(t)
    <3>1. reply' = [reply EXCEPT ![t] = None] /\ at' = [at EXCEPT ![t] = "sync"]
          /\ nth' = [nth EXCEPT ![t] = nth[t] + 1]
      BY <2>1 DEF Query, Goto
    <3>q. QED BY <1>1, <1>2, <3>1
  <2>2. CASE QueryFails(t)
    <3>1. UNCHANGED <<reply, at>> /\ at[t] = "idle" /\ nth' = [nth EXCEPT ![t] = nth[t] + 1]
      BY <2>2 DEF QueryFails, At
    <3>q. QED BY <1>1, <1>2, <3>1
  <2>3. ASSUME NEW p \in inbox, ReceiveAnswer(t, p)
        PROVE  reply'[u].of = u /\ reply'[u].nth = nth'[u]
    <3> DEFINE r == Matching(p.id)
    <3>1. /\ r # None /\ nth' = nth /\ reply' = [reply EXCEPT ![r] = p]
          /\ at' = [at EXCEPT ![t] = "sync"] /\ at[t] = "recv"
      BY <2>3 DEF ReceiveAnswer, Deliver, Goto, At, lookupVars
    <3>2. p.of = r /\ p.nth = nth[r] /\ r \in Tasks
      BY <3>1, MatchIsOwn, MatchingFacts DEF RInv
    <3>3. at[u] # "idle"
      BY <1>2, <3>1
    <3> HIDE DEF r
    <3>q. QED BY <1>1, <1>2, <3>1, <3>2, <3>3
  <2>4. CASE UNCHANGED <<nth, reply, at>>
    BY <1>1, <2>4
  <2>5. ASSUME UNCHANGED <<nth, reply>>, at[t] # "idle", NEW l, at' = [at EXCEPT ![t] = l]
        PROVE  reply'[u].of = u /\ reply'[u].nth = nth'[u]
    BY <1>1, <1>2, <2>5
  <2>6. CASE \/ SyncReceive(t) \/ ReceiveShort(t) \/ Retry(t) \/ GiveUp(t) \/ Poke(t)
             \/ SocketFails(t) \/ ResolveReturns(t) \/ \E p \in inbox : ReceiveUnmatched(t, p)
    BY <2>5, <2>6
    DEF SyncReceive, ReceiveShort, Retry, GiveUp, Poke, SocketFails, ResolveReturns,
        ReceiveUnmatched, Deliver, Goto, At, lookupVars
  <2>7. CASE ReceiveReturn(t)
    <3>1. at[t] = "recv"
      BY <2>7, Shape DEF ReceiveReturn, YieldReturn, RInv, PlacesOK
    <3>q. QED BY <2>5, <2>7, <3>1 DEF ReceiveReturn, Goto, lookupVars
  <2>q. QED
    BY <1>3, <2>1, <2>2, <2>3, <2>4, <2>6, <2>7
    DEF TaskStep, Lookup, TaskEnds, SyncWait, WaitEnds, ReceiveYield, resolverVars,
        resolveVars, lookupVars
<1>4. ASSUME NEW t \in Tasks, StartTask(t)
      PROVE  reply'[u].of = u /\ reply'[u].nth = nth'[u]
  BY <1>1, <1>2, <1>4 DEF StartTask, Goto, lookupVars
<1>5. CASE OpenSocket \/ EnterLoop \/ MainLoop \/ Network \/ Pass \/ Stopped \/ UNCHANGED vars
  BY <1>1, <1>5
  DEF OpenSocket, EnterLoop, MainLoop, Network, Refuse, Arrive, Pass, Stopped, vars,
      resolverVars, resolveVars, lookupVars
<1>q. QED BY <1>3, <1>4, <1>5 DEF ClientNext, System

\* resolve.c:267-289: whatever is late, repeated or reordered, and whoever receives it, a
\* lookup takes no answer but one to its own query, if there are no more lookups than ids.
\* (With one more, TLC finds a lookup that takes a late answer to another.)
THEOREM AnswersAreOwn ==
  ASSUME EnoughIds
  PROVE  ClientSpec => []OwnAnswer
<1>1. ClientInit => IdsOK
  <2> SUFFICES ASSUME ClientInit PROVE IdsOK
    OBVIOUS
  <2>1. /\ wire = {} /\ inbox = {} /\ Pending = {} /\ ids \in 0..IdMod-1
        /\ nth = [t \in Tasks |-> 0]
    BY IdModIsPos DEF ClientInit, ResolverInit, Pending, ToSet
  <2>2. Begun = {}
    BY <2>1 DEF Begun, Lookups
  <2>3. Cardinality(Begun) = 0
    BY <2>2, FS_EmptySet
  <2>4. [a \in Lookups |-> 0] \in [Lookups -> Nat] /\ Turn(ids, 0) = ids
    BY <2>1, IdModIsPos DEF Turn
  <2>5. Numbered(ids, [a \in Lookups |-> 0])
    BY <2>1, <2>2, <2>3, <2>4 DEF Numbered
  <2>q. QED BY <2>1, <2>4, <2>5 DEF IdsOK
<1>2. ClientInit => OwnAnswer
  BY DEF ClientInit, ResolverInit, OwnAnswer
<1>3. IInv /\ RInv /\ (IdsOK /\ OwnAnswer) /\ [ClientNext]_vars => (IdsOK /\ OwnAnswer)'
  BY IdsKept, AnswersKept
<1>q. QED BY <1>1, <1>2, <1>3, ClientInvHolds, PTL DEF ClientSpec

-----------------------------------------------------------------------------
(* The service                                                             *)

\* What LookupService has of a task: the transmissions of its query.
Tries == [t \in Tasks |-> IF at[t] \in {"new", "idle"} THEN 0 ELSE retry[t] + 1]

\* A lookup is given up after the last retry only.
LastTry == \A t \in Tasks : at[t] # "idle" /\ response[t] = -1 => retry[t] = MaxRetry

\* A step that goes from one place of dns_resolve() to another is none of the service.
LEMMA TriesStay ==
  ASSUME RInv, UNCHANGED retry, NEW t \in Tasks, at[t] \notin {"new", "idle"},
         NEW l, at' = [at EXCEPT ![t] = l], l \notin {"new", "idle"}
  PROVE  Tries' = Tries
<1>1. at \in [Tasks -> Places]
  BY DEF RInv, ResolverTypeOK
<1>2. \A u \in Tasks : at'[u] \in {"new", "idle"} <=> at[u] \in {"new", "idle"}
  BY <1>1
<1>q. QED BY <1>2 DEF Tries

\* The values of Tries, and how a step changes one of them.
LEMMA TriesAt ==
  /\ \A u \in Tasks : Tries[u]  = IF at[u]  \in {"new", "idle"} THEN 0 ELSE retry[u] + 1
  /\ \A u \in Tasks : Tries'[u] = IF at'[u] \in {"new", "idle"} THEN 0 ELSE retry'[u] + 1
BY DEF Tries

LEMMA OneTry ==
  ASSUME NEW t \in Tasks, NEW n, Tries'[t] = n,
         \A u \in Tasks : u # t => Tries'[u] = Tries[u]
  PROVE  Tries' = [Tries EXCEPT ![t] = n]
BY DEF Tries

LEMMA LastTryKept ==
  ASSUME IInv, RInv, LastTry, [ClientNext]_vars
  PROVE  LastTry'
<1> SUFFICES ASSUME NEW u \in Tasks, at'[u] # "idle", response'[u] = -1
             PROVE  retry'[u] = MaxRetry
  BY DEF LastTry
<1>1. ASSUME at[u] # "idle", response'[u] = response[u], retry'[u] = retry[u]
      PROVE  retry'[u] = MaxRetry
  BY <1>1 DEF LastTry
<1>2. /\ at \in [Tasks -> Places] /\ response \in [Tasks -> {-1, 0, 1}]
      /\ retry \in [Tasks -> 0..MaxRetry]
  BY DEF RInv, ResolverTypeOK
<1>3. ASSUME NEW t \in Tasks, TaskStep(t)
      PROVE  retry'[u] = MaxRetry
  <2>1. CASE Query(t)
    <3>1. /\ response' = [response EXCEPT ![t] = 0] /\ retry' = [retry EXCEPT ![t] = 0]
          /\ at' = [at EXCEPT ![t] = "sync"]
      BY <2>1 DEF Query, Goto
    <3>q. QED BY <1>1, <1>2, <3>1
  <2>2. CASE Retry(t)
    <3> DEFINE r == first[t]
    <3>1. /\ UNCHANGED response /\ retry' = [retry EXCEPT ![r] = retry[r] + 1]
          /\ at' = [at EXCEPT ![t] = "sync"] /\ at[t] = "expired"
      BY <2>2 DEF Retry, Goto, At
    <3>2. r \in Pending /\ r \in Tasks
      BY <2>2, Expired DEF Retry
    <3>3. at[u] # "idle"
      BY <1>2, <3>1
    <3>4. u # r
      BY <3>1, <3>2, <3>3 DEF RInv, ResolvesOK, Waiting
    <3> HIDE DEF r
    <3>q. QED BY <1>1, <1>2, <3>1, <3>2, <3>3, <3>4
  <2>3. CASE GiveUp(t)
    <3> DEFINE r == first[t]
    <3>1. /\ UNCHANGED retry /\ response' = [response EXCEPT ![r] = -1]
          /\ at' = [at EXCEPT ![t] = "sync"] /\ at[t] = "expired" /\ retry[r] >= MaxRetry
      BY <2>3 DEF GiveUp, Deliver, Goto, At
    <3>2. r \in Tasks
      BY <2>3, Expired DEF GiveUp
    <3>3. at[u] # "idle"
      BY <1>2, <3>1
    <3> HIDE DEF r
    <3>4. CASE u = r
      BY <1>2, <3>1, <3>2, <3>4, RetryIsNat
    <3>5. CASE u # r
      BY <1>1, <1>2, <3>1, <3>3, <3>5
    <3>q. QED BY <3>4, <3>5
  <2>4. ASSUME NEW p \in inbox, ReceiveAnswer(t, p)
        PROVE  retry'[u] = MaxRetry
    <3> DEFINE r == Matching(p.id)
    <3>1. /\ r # None /\ UNCHANGED retry /\ response' = [response EXCEPT ![r] = 1]
          /\ at' = [at EXCEPT ![t] = "sync"] /\ at[t] = "recv"
      BY <2>4 DEF ReceiveAnswer, Deliver, Goto, At
    <3> HIDE DEF r
    <3>q. QED BY <1>1, <1>2, <3>1
  <2>5. CASE UNCHANGED <<response, retry, at>>
    BY <1>1, <2>5
  <2>6. ASSUME UNCHANGED <<response, retry>>, at[t] # "idle", NEW l, at' = [at EXCEPT ![t] = l]
        PROVE  retry'[u] = MaxRetry
    BY <1>1, <1>2, <2>6
  <2>7. CASE \/ SyncReceive(t) \/ ReceiveShort(t) \/ Poke(t) \/ SocketFails(t)
             \/ ResolveReturns(t) \/ \E p \in inbox : ReceiveUnmatched(t, p)
    BY <2>6, <2>7
    DEF SyncReceive, ReceiveShort, Poke, SocketFails, ResolveReturns, ReceiveUnmatched, Goto, At
  <2>8. CASE ReceiveReturn(t)
    <3>1. at[t] = "recv"
      BY <2>8, Shape DEF ReceiveReturn, YieldReturn, RInv, PlacesOK
    <3>q. QED BY <2>6, <2>8, <3>1 DEF ReceiveReturn, Goto
  <2>q. QED
    BY <1>3, <2>1, <2>2, <2>3, <2>4, <2>5, <2>7, <2>8
    DEF TaskStep, Lookup, QueryFails, TaskEnds, SyncWait, WaitEnds, ReceiveYield,
        resolverVars, resolveVars
<1>4. ASSUME NEW t \in Tasks, StartTask(t)
      PROVE  retry'[u] = MaxRetry
  BY <1>1, <1>2, <1>4 DEF StartTask, Goto
<1>5. CASE OpenSocket \/ EnterLoop \/ MainLoop \/ Network \/ Pass \/ Stopped \/ UNCHANGED vars
  BY <1>1, <1>5
  DEF OpenSocket, EnterLoop, MainLoop, Network, Refuse, Arrive, Pass, Stopped, vars,
      resolverVars, resolveVars
<1>q. QED BY <1>3, <1>4, <1>5 DEF ClientNext, System

\* Each step is one of the service, of a single task, or none.
LEMMA StepIsService ==
  ASSUME IInv, RInv, LastTry, [ClientNext]_vars
  PROVE  [Service!Next]_(Service!vars)
<1>1. ASSUME Tries' = Tries, UNCHANGED <<nth, outcome>>
      PROVE  UNCHANGED Service!vars
  BY <1>1 DEF Service!vars, Tries
<1>2. ASSUME UNCHANGED <<at, retry, nth, outcome>>
      PROVE  UNCHANGED Service!vars
  BY <1>1, <1>2 DEF Tries
<1>3. /\ at \in [Tasks -> Places] /\ retry \in [Tasks -> 0..MaxRetry]
      /\ outcome \in [Tasks -> Outcomes]
  BY DEF RInv, ResolverTypeOK
<1>4. ASSUME NEW t \in Tasks, TaskStep(t)
      PROVE  [Service!Next]_(Service!vars)
  <2>1. CASE Query(t)
    <3>1. /\ at[t] = "idle" /\ nth[t] < MaxLookups /\ nth' = [nth EXCEPT ![t] = nth[t] + 1]
          /\ retry' = [retry EXCEPT ![t] = 0] /\ at' = [at EXCEPT ![t] = "sync"]
          /\ UNCHANGED outcome
      BY <2>1 DEF Query, Goto, At
    <3>2. Tries[t] = 0 /\ Tries'[t] = 1 /\ \A u \in Tasks : u # t => Tries'[u] = Tries[u]
      BY <1>3, <3>1, TriesAt
    <3>3. Tries' = [Tries EXCEPT ![t] = 1]
      BY <3>2, OneTry
    <3>4. Service!Begin(t)
      BY <3>1, <3>2, <3>3 DEF Service!Begin, Service!Count, Tries
    <3>q. QED BY <3>4 DEF Service!Next
  <2>2. CASE QueryFails(t)
    <3>1. /\ at[t] = "idle" /\ nth[t] < MaxLookups /\ nth' = [nth EXCEPT ![t] = nth[t] + 1]
          /\ UNCHANGED <<at, retry>> /\ outcome' = [outcome EXCEPT ![t] = "error"]
      BY <2>2 DEF QueryFails, At
    <3>2. Tries[t] = 0 /\ Tries' = Tries
      BY <3>1 DEF Tries
    <3>3. Service!Reject(t)
      BY <3>1, <3>2 DEF Service!Reject, Service!Count, Tries
    <3>q. QED BY <3>3 DEF Service!Next
  <2>3. CASE Retry(t)
    <3>0. PICK r \in Tasks : r = first[t]
      BY <2>3, Expired DEF Retry
    <3>1. /\ UNCHANGED <<nth, outcome>> /\ retry' = [retry EXCEPT ![r] = retry[r] + 1]
          /\ at' = [at EXCEPT ![t] = "sync"] /\ at[t] = "expired" /\ retry[r] < MaxRetry
      BY <2>3, <3>0 DEF Retry, Goto, At
    <3>2. \A u \in Tasks : at'[u] \in {"new", "idle"} <=> at[u] \in {"new", "idle"}
      BY <1>3, <3>1
    <3>3. CASE at[r] \in {"new", "idle"}
      <4>1. Tries' = Tries
        BY <1>3, <3>1, <3>2, <3>3 DEF Tries
      <4>q. QED BY <1>1, <3>1, <4>1
    <3>4. CASE at[r] \notin {"new", "idle"}
      <4>1. /\ Tries[r] \in 1..(MaxRetry + 1) - 1 /\ Tries'[r] = Tries[r] + 1
            /\ \A u \in Tasks : u # r => Tries'[u] = Tries[u]
        BY <1>3, <3>1, <3>2, <3>4, RetryIsNat, TriesAt
      <4>2. Tries' = [Tries EXCEPT ![r] = Tries[r] + 1]
        BY <4>1, OneTry
      <4>3. Service!Resend(r)
        BY <3>1, <4>1, <4>2 DEF Service!Resend, Tries
      <4>q. QED BY <4>3 DEF Service!Next
    <3>q. QED BY <3>3, <3>4
  <2>4. ASSUME UNCHANGED <<nth, retry>>, at[t] \notin {"new", "idle"},
               at' = [at EXCEPT ![t] = "idle"],
               NEW o \in {"answer", "rcode", "timeout", "error"},
               outcome' = [outcome EXCEPT ![t] = o],
               o = "timeout" => retry[t] = MaxRetry
        PROVE  [Service!Next]_(Service!vars)
    <3>1. /\ Tries[t] > 0 /\ Tries'[t] = 0
          /\ \A u \in Tasks : u # t => Tries'[u] = Tries[u]
          /\ o = "timeout" => Tries[t] = MaxRetry + 1
      BY <1>3, <2>4, RetryIsNat, TriesAt
    <3>2. Tries' = [Tries EXCEPT ![t] = 0]
      BY <3>1, OneTry
    <3>3. Service!Finish(t, o)
      BY <2>4, <3>1, <3>2 DEF Service!Finish, Tries
    <3>q. QED BY <3>3 DEF Service!Next
  <2>5. CASE SocketFails(t)
    BY <2>4, <2>5 DEF SocketFails, Goto, At
  <2>6. CASE ResolveReturns(t)
    <3>1. PICK o \in Returned(t) : outcome' = [outcome EXCEPT ![t] = o]
      BY <2>6 DEF ResolveReturns
    <3>2. /\ o \in {"answer", "rcode", "timeout", "error"}
          /\ o = "timeout" => response[t] = -1
      BY <3>1 DEF Returned
    <3>3. /\ at[t] = "return" /\ UNCHANGED <<nth, retry>> /\ at' = [at EXCEPT ![t] = "idle"]
      BY <2>6 DEF ResolveReturns, Goto, At
    <3>4. o = "timeout" => retry[t] = MaxRetry
      BY <3>2, <3>3 DEF LastTry
    <3>q. QED BY <2>4, <3>1, <3>2, <3>3, <3>4
  <2>7. ASSUME UNCHANGED <<nth, outcome, retry>>, at[t] \notin {"new", "idle"}, NEW l,
               at' = [at EXCEPT ![t] = l], l \notin {"new", "idle"}
        PROVE  [Service!Next]_(Service!vars)
    <3>1. Tries' = Tries
      BY <2>7, TriesStay
    <3>2. UNCHANGED Service!vars
      BY <1>1, <2>7, <3>1
    <3>q. QED BY <3>2
  <2>8. CASE SyncReceive(t)
    <3>1. /\ UNCHANGED <<nth, outcome, retry>> /\ at[t] = "sync"
          /\ \E l \in {"recv", "expired"} : at' = [at EXCEPT ![t] = l]
      BY <2>8 DEF SyncReceive, Goto, At, lookupVars
    <3>q. QED BY <2>7, <3>1
  <2>9. CASE \/ ReceiveShort(t) \/ GiveUp(t) \/ Poke(t)
             \/ \E p \in inbox : ReceiveAnswer(t, p) \/ ReceiveUnmatched(t, p)
    <3>1. /\ UNCHANGED <<nth, outcome, retry>> /\ at[t] \in {"sync", "recv", "expired"}
          /\ \E l \in {"sync", "expired", "return"} : at' = [at EXCEPT ![t] = l]
      BY <2>9
      DEF ReceiveShort, GiveUp, Poke, ReceiveAnswer, ReceiveUnmatched, Deliver, Goto, At,
          lookupVars
    <3>q. QED BY <2>7, <3>1
  <2>10. CASE ReceiveReturn(t)
    <3>1. at[t] = "recv"
      BY <2>10, Shape DEF ReceiveReturn, YieldReturn, RInv, PlacesOK
    <3>2. /\ UNCHANGED <<nth, outcome, retry>>
          /\ \E l \in {"recv", "expired"} : at' = [at EXCEPT ![t] = l]
      BY <2>10 DEF ReceiveReturn, Goto, lookupVars
    <3>q. QED BY <2>7, <3>1, <3>2
  <2>11. CASE TaskEnds(t) \/ SyncWait(t) \/ WaitEnds(t) \/ ReceiveYield(t)
    BY <1>2, <2>11
    DEF TaskEnds, SyncWait, WaitEnds, ReceiveYield, resolverVars, resolveVars, lookupVars
  <2>q. QED
    BY <1>4, <2>1, <2>2, <2>3, <2>5, <2>6, <2>8, <2>9, <2>10, <2>11 DEF TaskStep, Lookup
<1>5. ASSUME NEW t \in Tasks, StartTask(t)
      PROVE  [Service!Next]_(Service!vars)
  <2>1. /\ at[t] = "new" /\ at' = [at EXCEPT ![t] = "idle"] /\ UNCHANGED <<nth, outcome, retry>>
    BY <1>5 DEF StartTask, Goto, lookupVars
  <2>2. \A u \in Tasks : at'[u] \in {"new", "idle"} <=> at[u] \in {"new", "idle"}
    BY <1>3, <2>1
  <2>3. Tries' = Tries
    BY <2>1, <2>2 DEF Tries
  <2>q. QED BY <1>1, <2>1, <2>3
<1>6. CASE OpenSocket \/ EnterLoop \/ MainLoop \/ Network \/ Pass \/ Stopped \/ UNCHANGED vars
  BY <1>2, <1>6
  DEF OpenSocket, EnterLoop, MainLoop, Network, Refuse, Arrive, Pass, Stopped, vars,
      resolverVars, resolveVars, lookupVars
<1>q. QED BY <1>4, <1>5, <1>6 DEF ClientNext, System

\* However many tasks share the socket, and whoever receives, retransmits or gives up for
\* whom, each of them has what it would have of a resolver to itself (dns.h:165-174): a
\* query that is sent at most MaxRetry + 1 times, and a timeout only after the last.
THEOREM ResolverIsService == ClientSpec => ServiceSpec
<1>1. ClientInit => Service!Init
  BY DEF ClientInit, ResolverInit, Service!Init
<1>2. ClientInit => LastTry
  BY DEF ClientInit, ResolverInit, LastTry
<1>3. IInv /\ RInv /\ LastTry /\ [ClientNext]_vars => LastTry'
  BY LastTryKept
<1>4. IInv /\ RInv /\ LastTry /\ [ClientNext]_vars => [Service!Next]_(Service!vars)
  BY StepIsService
<1>q. QED BY <1>1, <1>2, <1>3, <1>4, ClientInvHolds, PTL DEF ClientSpec, ServiceSpec, Service!Spec
=============================================================================
