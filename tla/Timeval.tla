-------------------------------- MODULE Timeval --------------------------------
(***************************************************************************)
(* Deadlines as struct timeval: the two conversions of src/common/util.c   *)
(* and the search of event_main_run() for the earliest one.  EventLoop and *)
(* Resolver count clock ticks instead; here is what a tick stands for.     *)
(***************************************************************************)
EXTENDS Integers

CONSTANTS
  Second,     \* microseconds in a second (10^6)
  Timers,     \* events that may have a timeout
  Timeouts,   \* what callers pass, e.g. SERVER_READ_TIMEOUT
  Remainders, \* what may be left until a deadline of resolve.c, which passes that
  MaxTime,    \* bound: the latest time at which a timer is armed
  None

Timevals == [sec : Nat, usec : Nat]

ASSUME SecondIsPos    == Second \in Nat \ {0}
ASSUME TimeoutsTimeval == Timeouts \subseteq Timevals
ASSUME RemaindersNat  == Remainders \subseteq Nat
ASSUME MaxTimeIsNat   == MaxTime \in Nat

VARIABLES
  clock,  \* microseconds since the epoch
  stamp,  \* event->timeout of each timer, or None
  due     \* history: when it should wake its task

vars == <<clock, stamp, due>>

Value(tv) == tv.sec * Second + tv.usec

AsTimeval(n) == [sec |-> n \div Second, usec |-> n % Second]

\* gettimeofday().
Now == AsTimeval(clock)

\* Mutant of TimestampFromTimeout: the microseconds are set, not added.
TimestampWithoutUsec(now, timeout) ==
  [sec |-> now.sec + timeout.sec, usec |-> timeout.usec]

\* timestamp_from_timeout(), without the carry ("XXX: tv_usec overflow?").
TimestampFromTimeout(now, timeout) ==
  [sec |-> now.sec + timeout.sec, usec |-> now.usec + timeout.usec]

\* timeout_from_timestamp() returns 1, or sets the timeout.
InPast(now, ts) ==
  /\ ~(ts.sec >= now.sec /\ ts.usec >= now.usec)
  /\ ~(ts.sec > now.sec /\ ts.usec < now.usec)

TimeoutFromTimestamp(now, ts) ==
  IF InPast(now, ts) THEN [sec |-> 0, usec |-> 0]
  ELSE IF ts.usec >= now.usec
  THEN [sec |-> ts.sec - now.sec, usec |-> ts.usec - now.usec]
  ELSE [sec |-> ts.sec - now.sec - 1, usec |-> Second + ts.usec - now.usec]

\* Mutant of Before: only the seconds are compared.
BeforeBySeconds(a, b) == a.sec < b.sec

\* The comparison in event_main_run().
Before(a, b) == a.sec < b.sec \/ (a.sec = b.sec /\ a.usec < b.usec)

Armed == {e \in Timers : stamp[e] # None}

\* timeout_event: none is before it.
TimeoutEvent(e) == e \in Armed /\ \A o \in Armed : ~Before(stamp[o], stamp[e])

-----------------------------------------------------------------------------
\* event_register().
Arm(e, timeout) ==
  /\ stamp[e] = None /\ clock <= MaxTime
  /\ stamp' = [stamp EXCEPT ![e] = TimestampFromTimeout(Now, timeout)]
  /\ due'   = [due EXCEPT ![e] = clock + Value(timeout)]
  /\ UNCHANGED clock

\* The resolver's receiver: the timeout is what is left until the deadline of a lookup.
ArmUntil(e, deadline) ==
  /\ stamp[e] = None /\ clock <= MaxTime
  /\ stamp' = [stamp EXCEPT ![e] =
       TimestampFromTimeout(Now, TimeoutFromTimestamp(Now, AsTimeval(deadline)))]
  /\ due'   = [due EXCEPT ![e] = deadline]
  /\ UNCHANGED clock

\* select() sleeps for the timeout, and e's task is woken.
Wake(e) ==
  /\ TimeoutEvent(e)
  /\ clock' = clock + Value(TimeoutFromTimestamp(Now, stamp[e]))
  /\ stamp' = [stamp EXCEPT ![e] = None]
  /\ UNCHANGED due

\* select() returns earlier, and tasks may run past any deadline; e's own is taken
\* back if its fd is ready.
Work ==
  /\ clock <= MaxTime /\ clock' = clock + 1
  /\ \/ UNCHANGED stamp
     \/ \E e \in Armed : stamp' = [stamp EXCEPT ![e] = None]
  /\ UNCHANGED due

\* Nothing is pending: event_main_run() returns.
Exited == Armed = {} /\ UNCHANGED vars

Init ==
  /\ clock \in Second .. 2 * Second - 1     \* tv_sec is never 0
  /\ stamp = [e \in Timers |-> None]
  /\ due   = [e \in Timers |-> 0]

Next ==
  \/ \E e \in Timers :
       \/ \E t \in Timeouts : Arm(e, t)
       \/ \E left \in Remainders : ArmUntil(e, clock + left)
       \/ Wake(e)
  \/ Work \/ Exited

Spec == Init /\ [][Next]_vars

-----------------------------------------------------------------------------
(* Properties                                                              *)

\* A timestamp stands for the time at which it is due, though it may have more than a
\* second in tv_usec (util.c:116-119).
StampsAreDue == \A e \in Armed : stamp[e] \in Timevals /\ Value(stamp[e]) = due[e]

\* No timestamp has more than a second in tv_usec.  Timeouts in whole seconds keep this.
Carried == \A e \in Armed : stamp[e].usec < Second

\* event_main_run() (event.c:580-587, 607-616) then wakes the timer that is due first, when
\* it is due: not earlier, and later only if it was busy.
WakesWhenDue ==
  [][Carried => \A e \in Timers : Wake(e) =>
       /\ clock' = IF due[e] > clock THEN due[e] ELSE clock
       /\ \A o \in Armed : due[e] <= due[o]]_vars
=============================================================================
