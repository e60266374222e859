----------------------------- MODULE TimevalProofs -----------------------------
(***************************************************************************)
(* The conversions of Timeval, for any number of microseconds in a second. *)
(***************************************************************************)
EXTENDS Timeval, TLAPS

\* One second more is Second microseconds more.
LEMMA Carry ==
  ASSUME NEW a \in Int
  PROVE  (a + 1) * Second = a * Second + Second
BY SecondIsPos

LEMMA MinusIsExact ==
  ASSUME NEW a \in Int, NEW b \in Int
  PROVE  (a - b) * Second = a * Second - b * Second
BY SecondIsPos

\* gettimeofday() gives the time in full, with less than a second in tv_usec.
LEMMA NowIsExact ==
  ASSUME NEW n \in Nat
  PROVE  AsTimeval(n) \in Timevals /\ AsTimeval(n).usec < Second /\ Value(AsTimeval(n)) = n
BY SecondIsPos DEF AsTimeval, Timevals, Value

-----------------------------------------------------------------------------
(* timeout_from_timestamp()                                                *)

\* For a timestamp that has been carried, timeout_from_timestamp() (util.c:131-147) says
\* "in past" exactly when it is, and otherwise gives exactly the time that is left.
THEOREM TimeoutIsExact ==
  ASSUME NEW now \in Timevals, NEW ts \in Timevals,
         now.usec < Second, ts.usec < Second
  PROVE  /\ InPast(now, ts) <=> Value(ts) < Value(now)
         /\ ~InPast(now, ts) =>
              /\ TimeoutFromTimestamp(now, ts) \in Timevals
              /\ Value(TimeoutFromTimestamp(now, ts)) = Value(ts) - Value(now)
<1> DEFINE a == ts.sec - now.sec
           left == TimeoutFromTimestamp(now, ts)
<1>1. /\ ts.sec \in Nat /\ ts.usec \in Nat /\ now.sec \in Nat /\ now.usec \in Nat
      /\ a \in Int /\ Second \in Nat \ {0}
  BY SecondIsPos DEF Timevals
<1>2. /\ Value(ts) \in Int /\ Value(now) \in Int /\ a * Second \in Int
      /\ Value(ts) - Value(now) = a * Second + ts.usec - now.usec
  <2>1. ts.sec * Second \in Int /\ now.sec * Second \in Int
    BY <1>1
  <2>2. a * Second = ts.sec * Second - now.sec * Second
    BY <1>1, MinusIsExact
  <2>q. QED BY <1>1, <2>1, <2>2 DEF Value
<1>3. CASE a > 0
  <2>1. a * Second >= Second
    BY <1>1, <1>3
  <2>2. ~InPast(now, ts) /\ ~(Value(ts) < Value(now))
    <3>1. ~InPast(now, ts)
      BY <1>1, <1>3 DEF InPast
    <3>2. a * Second + ts.usec - now.usec > 0
      <4> HIDE DEF a
      <4>q. QED BY <1>1, <1>2, <2>1
    <3>q. QED BY <1>2, <3>1, <3>2
  <2>3. left \in Timevals /\ Value(left) = a * Second + ts.usec - now.usec
    <3>1. CASE ts.usec >= now.usec
      <4>1. left = [sec |-> a, usec |-> ts.usec - now.usec]
        BY <2>2, <3>1 DEF TimeoutFromTimestamp
      <4>q. QED BY <1>1, <1>2, <1>3, <3>1, <4>1 DEF Timevals, Value
    <3>2. CASE ts.usec < now.usec
      <4>1. left = [sec |-> a - 1, usec |-> Second + ts.usec - now.usec]
        BY <1>1, <2>2, <3>2 DEF TimeoutFromTimestamp
      <4>2. a * Second = (a - 1) * Second + Second /\ (a - 1) * Second \in Int
        BY <1>1, Carry
      <4>3. left \in Timevals
        BY <1>1, <1>3, <3>2, <4>1 DEF Timevals
      <4>4. Value(left) = (a - 1) * Second + (Second + ts.usec - now.usec)
        BY <4>1 DEF Value
      <4> HIDE DEF a, left
      <4>q. QED BY <1>1, <4>2, <4>3, <4>4
    <3>q. QED BY <1>1, <3>1, <3>2
  <2>q. QED BY <1>2, <2>2, <2>3
<1>4. CASE a = 0
  <2>1. a * Second = 0
    BY <1>1, <1>4
  <2>2. InPast(now, ts) <=> ts.usec < now.usec
    BY <1>1, <1>4 DEF InPast
  <2>3. ASSUME ~InPast(now, ts)
        PROVE  left \in Timevals /\ Value(left) = ts.usec - now.usec
    <3>1. left = [sec |-> 0, usec |-> ts.usec - now.usec]
      BY <1>1, <1>4, <2>2, <2>3 DEF TimeoutFromTimestamp
    <3>q. QED BY <1>1, <2>2, <2>3, <3>1 DEF Timevals, Value
  <2> HIDE DEF a, left
  <2>q. QED BY <1>1, <1>2, <2>1, <2>2, <2>3 DEF left
<1>5. CASE a < 0
  <2>1. a * Second <= -Second
    BY <1>1, <1>5
  <2>2. InPast(now, ts)
    BY <1>1, <1>5 DEF InPast
  <2>3. Value(ts) - Value(now) < 0
    <3> HIDE DEF a
    <3>q. QED BY <1>1, <1>2, <2>1
  <2>q. QED BY <1>2, <2>2, <2>3
<1>q. QED BY <1>1, <1>3, <1>4, <1>5

\* The comparison of event_main_run() (event.c:580-583) is that of the times, for
\* timestamps that have been carried.
THEOREM BeforeIsEarlier ==
  ASSUME NEW a \in Timevals, NEW b \in Timevals, a.usec < Second, b.usec < Second
  PROVE  Before(a, b) <=> Value(a) < Value(b)
<1> DEFINE d == b.sec - a.sec
<1>1. /\ a.sec \in Nat /\ a.usec \in Nat /\ b.sec \in Nat /\ b.usec \in Nat
      /\ d \in Int /\ Second \in Nat \ {0}
  BY SecondIsPos DEF Timevals
<1>2. /\ Value(a) \in Int /\ Value(b) \in Int /\ d * Second \in Int
      /\ Value(b) - Value(a) = d * Second + b.usec - a.usec
  <2>1. a.sec * Second \in Int /\ b.sec * Second \in Int
    BY <1>1
  <2>2. d * Second = b.sec * Second - a.sec * Second
    BY <1>1, MinusIsExact
  <2>q. QED BY <1>1, <2>1, <2>2 DEF Value
<1>3. /\ d > 0 => d * Second >= Second
      /\ d = 0 => d * Second = 0
      /\ d < 0 => d * Second <= -Second
  BY <1>1
<1>4. /\ d > 0 => Before(a, b)
      /\ d = 0 => (Before(a, b) <=> a.usec < b.usec)
      /\ d < 0 => ~Before(a, b)
  BY <1>1 DEF Before
<1> HIDE DEF d
<1>q. QED BY <1>1, <1>2, <1>3, <1>4

-----------------------------------------------------------------------------
(* The timers                                                              *)

TypeOK ==
  /\ clock \in Nat
  /\ stamp \in [Timers -> Timevals \cup {None}]
  /\ due \in [Timers -> Nat]

\* timestamp_from_timeout() adds up.
LEMMA TimestampIsExact ==
  ASSUME NEW now \in Timevals, NEW t \in Timevals
  PROVE  /\ TimestampFromTimeout(now, t) \in Timevals
         /\ Value(TimestampFromTimeout(now, t)) = Value(now) + Value(t)
<1>1. (now.sec + t.sec) * Second = now.sec * Second + t.sec * Second
  BY SecondIsPos DEF Timevals
<1>2. /\ now.sec * Second \in Nat /\ t.sec * Second \in Nat
      /\ now.usec \in Nat /\ t.usec \in Nat /\ now.sec \in Nat /\ t.sec \in Nat
  BY SecondIsPos DEF Timevals
<1>q. QED BY <1>1, <1>2 DEF TimestampFromTimeout, Timevals, Value

\* timeout_from_timestamp() never gives a negative time.
LEMMA TimeoutIsTimeval ==
  ASSUME NEW now \in Timevals, NEW ts \in Timevals, now.usec < Second
  PROVE  /\ TimeoutFromTimestamp(now, ts) \in Timevals
         /\ Value(TimeoutFromTimestamp(now, ts)) \in Nat
<1>1. TimeoutFromTimestamp(now, ts) \in Timevals
  BY SecondIsPos DEF Timevals, TimeoutFromTimestamp, InPast
<1>q. QED BY <1>1, SecondIsPos DEF Timevals, Value

\* Every timestamp stands for the time at which its timer is due.
THEOREM StampsCorrect == Spec => [](TypeOK /\ StampsAreDue)
<1>1. Init => TypeOK /\ StampsAreDue
  BY SecondIsPos DEF Init, TypeOK, StampsAreDue, Armed
<1>2. TypeOK /\ StampsAreDue /\ [Next]_vars => TypeOK' /\ StampsAreDue'
  <2> SUFFICES ASSUME TypeOK, StampsAreDue, [Next]_vars
               PROVE  TypeOK' /\ StampsAreDue'
    OBVIOUS
  <2>1. Now \in Timevals /\ Now.usec < Second /\ Value(Now) = clock
    BY NowIsExact DEF TypeOK, Now
  <2>2. ASSUME NEW e \in Timers, NEW t \in Timevals, NEW n \in Nat, clock + Value(t) = n,
               stamp' = [stamp EXCEPT ![e] = TimestampFromTimeout(Now, t)],
               due' = [due EXCEPT ![e] = n], UNCHANGED clock
        PROVE  TypeOK' /\ StampsAreDue'
    BY <2>1, <2>2, TimestampIsExact DEF TypeOK, StampsAreDue, Armed
  <2>3. ASSUME NEW e \in Timers, NEW t \in Timeouts, Arm(e, t)
        PROVE  TypeOK' /\ StampsAreDue'
    <3>1. t \in Timevals /\ Value(t) \in Nat
      BY TimeoutsTimeval, SecondIsPos DEF Timevals, Value
    <3>2. clock + Value(t) \in Nat
      BY <3>1 DEF TypeOK
    <3>q. QED BY <2>2, <2>3, <3>1, <3>2 DEF Arm
  <2>4. ASSUME NEW e \in Timers, NEW left \in Remainders, ArmUntil(e, clock + left)
        PROVE  TypeOK' /\ StampsAreDue'
    <3> DEFINE ts == AsTimeval(clock + left)
               t  == TimeoutFromTimestamp(Now, ts)
    <3>1. clock + left \in Nat /\ clock \in Nat /\ left \in Nat
      BY RemaindersNat DEF TypeOK
    <3>2. ts \in Timevals /\ ts.usec < Second /\ Value(ts) = clock + left
      BY <3>1, NowIsExact
    <3> HIDE DEF ts
    <3>3. t \in Timevals /\ Value(t) = left
      BY <2>1, <3>1, <3>2, TimeoutIsExact
    <3>4. stamp' = [stamp EXCEPT ![e] = TimestampFromTimeout(Now, t)]
      BY <2>4 DEF ArmUntil, ts
    <3> HIDE DEF t
    <3>q. QED BY <2>2, <2>4, <3>1, <3>3, <3>4 DEF ArmUntil
  <2>5. ASSUME NEW e \in Timers, Wake(e)
        PROVE  TypeOK' /\ StampsAreDue'
    <3>1. Value(TimeoutFromTimestamp(Now, stamp[e])) \in Nat
      BY <2>1, <2>5, TimeoutIsTimeval DEF Wake, TimeoutEvent, StampsAreDue
    <3>q. QED BY <2>5, <3>1 DEF Wake, TypeOK, StampsAreDue, Armed
  <2>6. CASE Work
    BY <2>6 DEF Work, TypeOK, StampsAreDue, Armed
  <2>7. CASE Exited \/ UNCHANGED vars
    BY <2>7 DEF Exited, vars, TypeOK, StampsAreDue, Armed
  <2>q. QED BY <2>3, <2>4, <2>5, <2>6, <2>7 DEF Next
<1>q. QED BY <1>1, <1>2, PTL DEF Spec

\* The server's timeouts, in whole seconds, never need the carry that
\* timestamp_from_timeout() (util.c:116-119) does not do.
THEOREM WholeSecondsCarried ==
  ASSUME Remainders = {}, \A t \in Timeouts : t.usec = 0
  PROVE  Spec => []Carried
<1>1. Init => Carried
  BY DEF Init, Carried, Armed
<1>2. TypeOK /\ StampsAreDue /\ Carried /\ [Next]_vars => Carried'
  <2> SUFFICES ASSUME TypeOK, StampsAreDue, Carried, [Next]_vars PROVE Carried'
    OBVIOUS
  <2>1. Now \in Timevals /\ Now.usec < Second
    BY NowIsExact DEF TypeOK, Now
  <2>2. ASSUME NEW e \in Timers, NEW t \in Timeouts, Arm(e, t)
        PROVE  Carried'
    <3>1. TimestampFromTimeout(Now, t).usec = Now.usec
      BY <2>1 DEF TimestampFromTimeout, Timevals
    <3>q. QED BY <2>1, <2>2, <3>1 DEF Arm, Carried, Armed, TypeOK
  <2>3. CASE \E e \in Timers : Wake(e)
    BY <2>3 DEF Wake, Carried, Armed, TypeOK
  <2>4. CASE Work \/ Exited \/ UNCHANGED vars
    BY <2>4 DEF Work, Exited, vars, Carried, Armed, TypeOK
  <2>q. QED BY <2>2, <2>3, <2>4 DEF Next
<1>q. QED BY <1>1, <1>2, StampsCorrect, PTL DEF Spec

\* event_main_run() (event.c:580-616) wakes each timer when it is due, and the earliest first,
\* as long as no timestamp has more than a second in tv_usec.
THEOREM WakesCorrect == Spec => WakesWhenDue
<1>1. TypeOK /\ StampsAreDue =>
        (Carried => \A e \in Timers : Wake(e) =>
           /\ clock' = IF due[e] > clock THEN due[e] ELSE clock
           /\ \A o \in Armed : due[e] <= due[o])
  <2> SUFFICES ASSUME TypeOK, StampsAreDue, Carried, NEW e \in Timers, Wake(e)
               PROVE  /\ clock' = IF due[e] > clock THEN due[e] ELSE clock
                      /\ \A o \in Armed : due[e] <= due[o]
    OBVIOUS
  <2>1. Now \in Timevals /\ Now.usec < Second /\ Value(Now) = clock
    BY NowIsExact DEF TypeOK, Now
  <2>2. /\ stamp[e] \in Timevals /\ stamp[e].usec < Second /\ Value(stamp[e]) = due[e]
        /\ \A o \in Armed : ~Before(stamp[o], stamp[e])
    BY DEF Wake, TimeoutEvent, StampsAreDue, Carried
  <2>3. clock' = IF due[e] > clock THEN due[e] ELSE clock
    <3>1. clock \in Nat /\ due[e] \in Nat
      BY DEF TypeOK
    <3>2. clock' = clock + Value(TimeoutFromTimestamp(Now, stamp[e]))
      BY DEF Wake
    <3>3. CASE InPast(Now, stamp[e])
      <4>1. Value(TimeoutFromTimestamp(Now, stamp[e])) = 0
        BY <3>3, SecondIsPos DEF TimeoutFromTimestamp, Value
      <4>q. QED BY <2>1, <2>2, <3>1, <3>2, <3>3, <4>1, TimeoutIsExact
    <3>4. CASE ~InPast(Now, stamp[e])
      BY <2>1, <2>2, <3>1, <3>2, <3>4, TimeoutIsExact
    <3>q. QED BY <3>3, <3>4
  <2>4. ASSUME NEW o \in Armed
        PROVE  due[e] <= due[o]
    <3>1. stamp[o] \in Timevals /\ stamp[o].usec < Second /\ Value(stamp[o]) = due[o]
      BY DEF StampsAreDue, Carried
    <3>2. ~(due[o] < due[e])
      BY <2>2, <3>1, BeforeIsEarlier
    <3>q. QED BY <3>2 DEF TypeOK, Armed
  <2>q. QED BY <2>3, <2>4
<1>q. QED BY <1>1, StampsCorrect, PTL DEF Spec, WakesWhenDue
=============================================================================
