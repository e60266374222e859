------------------------------ MODULE EventLoop ------------------------------
(***************************************************************************)
(* The reactor of src/common/event.c: one thread, coroutine tasks (libpcl) *)
(* and a select() loop.  A task runs until it suspends itself: in          *)
(* _event_yield() on an event that event_main_run() polls, or in           *)
(* event_wait() until another task event_notify()s it.  Every switch into  *)
(* a task is a co_call() in event_switch(); every suspension is a          *)
(* co_resume() of whoever called last; tasks therefore nest like calls.    *)
(*                                                                         *)
(* The programs that use the reactor are left open here: the running task, *)
(* or main() outside of event_main_run(), makes any call that the contract *)
(* of event.h allows.  Modules that model a program (DnsClient) conjoin    *)
(* these actions with the program's own steps.                             *)
(***************************************************************************)
EXTENDS TailQueue

CONSTANTS
  Tasks,        \* struct event_task objects, named by the job they run
  Events,       \* struct event objects
  Fds,          \* file descriptors
  Slots,        \* the places a struct event_task *wait pointer is stored in
  MaxTimeout,   \* longest timeout, in clock ticks
  ReuseFds,     \* may an fd get a new event before the old one is collected?
  None          \* the NULL pointer; as a coroutine it stands for main()

ASSUME NoneIsNoTask  == None \notin Tasks
ASSUME NoneIsNoEvent == None \notin Events
ASSUME TimeoutIsNat  == MaxTimeout \in Nat
ASSUME NoneIsNoTimeout == None \notin 0..MaxTimeout
ASSUME ReuseIsBool   == ReuseFds \in BOOLEAN

VARIABLES
  current,     \* event_main->task
  events,      \* event_main->events, a TAILQ
  fd, flags, timeout, task, destroy,    \* the fields of struct event
  registered, wait, event,              \* the fields of struct event_task
  waitp,       \* the wait pointers that event_wait() sets
  pc,          \* where each coroutine is
  running,     \* libpcl: the coroutine that executes
  restarget,   \* libpcl: where co_resume() of each coroutine goes
  callee,      \* the frame of event_switch() in each coroutine: its `task'
  saved,       \* ... and its `main_task'
  phase,       \* where main() is: before, in or after event_main_run()
  cursor,      \* event_next of the dispatch loop
  rset, wset,  \* the fd_sets that select() left
  polled       \* history: the events that were armed at the last select()

eventVars  == <<events, fd, flags, timeout, task, destroy>>
taskVars   == <<registered, wait, event, waitp>>
switchVars == <<current, pc, running, restarget, callee, saved>>
loopVars   == <<phase, cursor, rset, wset, polled>>
loopState  == <<eventVars, taskVars, switchVars, loopVars>>

-----------------------------------------------------------------------------
(* Types and helpers                                                       *)

Coroutines == Tasks \cup {None}
Flags      == {"R", "W", "T"}        \* EVENT_READ, EVENT_WRITE, EVENT_TIMEOUT
Phases     == {"main", "scan", "dispatch", "exit"}
PCs        == {"free", "run", "yield", "wait", "woken", "notified"}

\* On the coroutine stack: executing, or inside an event_switch() of its own.
Active(t) == pc[t] \in {"run", "woken", "notified"}

Linked(e)  == e \in ToSet(events)
Live(e)    == Linked(e) /\ ~destroy[e]
Armed      == {e \in ToSet(events) : flags[e] # {}}

\* TAILQ_FIRST() and TAILQ_NEXT().
HeadOf(q)    == IF q = <<>> THEN None ELSE q[1]
NextOf(q, x) == IF IndexOf(q, x) = Len(q) THEN None ELSE q[IndexOf(q, x) + 1]

-----------------------------------------------------------------------------
(* Coroutine switches                                                      *)

\* event_switch(): co_call() into t, which then is at position at.
Switch(t, at) ==
  /\ callee'    = [callee EXCEPT ![running] = t]
  /\ saved'     = [saved EXCEPT ![running] = current]
  /\ current'   = t
  /\ running'   = t
  /\ restarget' = [restarget EXCEPT ![t] = running]
  /\ pc'        = [pc EXCEPT ![t] = at]

\* Mutant of SwitchBack: the frame does not restore its own main_task.
SwitchBackToMain(at) ==
  LET to == restarget[running]
  IN  /\ running'   = to
      /\ current'   = None
      /\ callee'    = [callee EXCEPT ![to] = None]
      /\ saved'     = [saved EXCEPT ![to] = None]
      /\ restarget' = [restarget EXCEPT ![running] = None]
      /\ pc'        = [pc EXCEPT ![running] = at]

\* Mutant of SwitchBack: main() is resumed, not the caller.
SwitchBackPastCaller(at) ==
  /\ running'   = None
  /\ current'   = saved[None]
  /\ callee'    = [callee EXCEPT ![None] = None]
  /\ saved'     = [saved EXCEPT ![None] = None]
  /\ restarget' = [restarget EXCEPT ![running] = None]
  /\ pc'        = [pc EXCEPT ![running] = at]

\* co_resume() by the running coroutine, which stays at position at; also the
\* implicit one of a task function that returns (at = "free").  Execution goes
\* on after the co_call() of the coroutine resumed, in *its* event_switch()
\* frame: that frame restores event_main->task, and frees its callee if that
\* has exited.
SwitchBack(at) ==
  LET to == restarget[running]
  IN  /\ running'   = to
      /\ current'   = saved[to]
      /\ callee'    = [callee EXCEPT ![to] = None]
      /\ saved'     = [saved EXCEPT ![to] = None]
      /\ restarget' = [restarget EXCEPT ![running] = None]
      /\ pc'        = [pc EXCEPT ![running] = at]

-----------------------------------------------------------------------------
(* The API of event.h                                                      *)

\* main() executes outside of event_main_run(), or a task executes that is not
\* just being resumed.
MayCall ==
  IF running = None THEN phase \in {"main", "exit"} ELSE pc[running] = "run"

\* An fd belongs to one event; the owner closes the fd when it destroys the
\* event, and the kernel may hand it out again at once.
FdIsFree(f) ==
  \A e \in ToSet(events) : fd[e] = f => ReuseFds /\ destroy[e]

EventCreate(e, f) ==
  /\ MayCall /\ phase # "exit"
  /\ ~Linked(e) /\ FdIsFree(f)
  /\ events'  = Append(events, e)
  /\ fd'      = [fd EXCEPT ![e] = f]
  /\ flags'   = [flags EXCEPT ![e] = {}]
  /\ timeout' = [timeout EXCEPT ![e] = 0]
  /\ task'    = [task EXCEPT ![e] = None]
  /\ destroy' = [destroy EXCEPT ![e] = FALSE]
  /\ UNCHANGED <<taskVars, switchVars, loopVars>>

\* _event_start() by main() or by a task: the new task runs at once.
EventStart(t) ==
  /\ MayCall /\ phase # "exit"
  /\ pc[t] = "free"
  /\ registered' = [registered EXCEPT ![t] = 0]
  /\ wait'       = [wait EXCEPT ![t] = None]
  /\ event'      = [event EXCEPT ![t] = None]
  /\ Switch(t, "run")
  /\ UNCHANGED <<eventVars, waitp, loopVars>>

\* Mutant of EventYield: event_register() does not count.
EventYieldUncounted(e, fl, left) ==
  /\ running # None /\ MayCall
  /\ Live(e) /\ task[e] = None
  /\ task'    = [task EXCEPT ![e] = running]
  /\ flags'   = [flags EXCEPT ![e] = IF left = None THEN fl ELSE fl \cup {"T"}]
  /\ timeout' = [timeout EXCEPT ![e] = IF left = None THEN 0 ELSE left]
  /\ SwitchBack("yield")
  /\ UNCHANGED <<events, fd, destroy, taskVars, loopVars>>

\* event_register() and the co_resume() of _event_yield(), for event_yield()
\* (fl a nonempty set of R and W) and event_sleep() (fl = {"T"}); left is the
\* timeout in ticks, or None for the NULL pointer.
EventYield(e, fl, left) ==
  /\ running # None /\ MayCall
  /\ Live(e) /\ task[e] = None
  /\ task'       = [task EXCEPT ![e] = running]
  /\ flags'      = [flags EXCEPT ![e] = IF left = None THEN fl ELSE fl \cup {"T"}]
  /\ timeout'    = [timeout EXCEPT ![e] = IF left = None THEN 0 ELSE left]
  /\ registered' = [registered EXCEPT ![running] = @ + 1]
  /\ SwitchBack("yield")
  /\ UNCHANGED <<events, fd, destroy, wait, event, waitp, loopVars>>

\* Mutant of YieldReturn: the event keeps its flags.
YieldReturnKeepsFlags ==
  /\ running # None /\ pc[running] = "woken"
  /\ flags' = flags
  /\ LET e == event[running]
     IN  /\ timeout' = [timeout EXCEPT ![e] = 0]
         /\ task'    = [task EXCEPT ![e] = None]
  /\ registered' = [registered EXCEPT ![running] = @ - 1]
  /\ event'      = [event EXCEPT ![running] = None]
  /\ pc'         = [pc EXCEPT ![running] = "run"]
  /\ UNCHANGED <<events, fd, destroy, wait, waitp, current, running, restarget,
                 callee, saved, loopVars>>

\* The rest of _event_yield() and of its caller, once event_main_run() has
\* switched back in.  The flags it reads say what the caller returns.
YieldReturn ==
  /\ running # None /\ pc[running] = "woken"
  /\ LET e == event[running]
     IN  /\ flags'   = [flags EXCEPT ![e] = {}]
         /\ timeout' = [timeout EXCEPT ![e] = 0]
         /\ task'    = [task EXCEPT ![e] = None]
  /\ registered' = [registered EXCEPT ![running] = @ - 1]
  /\ event'      = [event EXCEPT ![running] = None]
  /\ pc'         = [pc EXCEPT ![running] = "run"]
  /\ UNCHANGED <<events, fd, destroy, wait, waitp, current, running, restarget,
                 callee, saved, loopVars>>

\* event_wait(), up to its co_resume().
EventWait(e, s) ==
  /\ running # None /\ MayCall
  /\ Live(e)
  /\ wait[running] = None /\ waitp[s] = None
  /\ waitp' = [waitp EXCEPT ![s] = running]
  /\ wait'  = [wait EXCEPT ![running] = e]
  /\ SwitchBack("wait")
  /\ UNCHANGED <<eventVars, registered, event, loopVars>>

\* The rest of event_wait().
WaitReturn ==
  /\ running # None /\ pc[running] = "notified"
  /\ wait' = [wait EXCEPT ![running] = None]
  /\ pc'   = [pc EXCEPT ![running] = "run"]
  /\ UNCHANGED <<eventVars, registered, event, waitp, current, running, restarget,
                 callee, saved, loopVars>>

\* Mutant of EventNotify: *notifyp stays set.
EventNotifyKeepsPointer(s) ==
  /\ running # None /\ MayCall
  /\ wait[running] = None /\ waitp[s] # None
  /\ Switch(waitp[s], "notified")
  /\ UNCHANGED <<eventVars, taskVars, loopVars>>

\* event_notify(); its two refusals (the caller has a wait of its own, or the
\* pointer is NULL) change nothing.
EventNotify(s) ==
  /\ running # None /\ MayCall
  /\ wait[running] = None /\ waitp[s] # None
  /\ waitp' = [waitp EXCEPT ![s] = None]
  /\ Switch(waitp[s], "notified")
  /\ UNCHANGED <<eventVars, registered, wait, event, loopVars>>

\* TAILQ_REMOVE() and free(); the object is as good as new.
Free(e) ==
  /\ events'  = Unlink(events, e)
  /\ fd'      = [fd EXCEPT ![e] = None]
  /\ flags'   = [flags EXCEPT ![e] = {}]
  /\ timeout' = [timeout EXCEPT ![e] = 0]
  /\ destroy' = [destroy EXCEPT ![e] = FALSE]

\* Mutant of EventDestroy: the event is freed at once, within tasks as well.
EventDestroyAtOnce(e) ==
  /\ MayCall /\ Live(e)
  /\ registered' = [t \in Tasks |->
       IF t = task[e] /\ registered[t] > 0 THEN registered[t] - 1 ELSE registered[t]]
  /\ task' = [task EXCEPT ![e] = None]
  /\ Free(e)
  /\ UNCHANGED <<wait, event, waitp, switchVars, loopVars>>

\* event_destroy(): the yielding task, if any, loses the event.  Within a task
\* the event is only marked, event_main_run() collects it.
EventDestroy(e) ==
  /\ MayCall /\ Live(e)
  /\ registered' = [t \in Tasks |->
       IF t = task[e] /\ registered[t] > 0 THEN registered[t] - 1 ELSE registered[t]]
  /\ task' = [task EXCEPT ![e] = None]
  /\ IF current # None
     THEN destroy' = [destroy EXCEPT ![e] = TRUE] /\ UNCHANGED <<events, fd, flags, timeout>>
     ELSE Free(e)
  /\ UNCHANGED <<wait, event, waitp, switchVars, loopVars>>

\* event_task(): the task's function returns.
TaskReturn ==
  /\ running # None /\ MayCall
  /\ SwitchBack("free")
  /\ UNCHANGED <<eventVars, taskVars, loopVars>>

-----------------------------------------------------------------------------
(* event_main_run()                                                        *)

RunLoop ==
  /\ running = None /\ phase = "main"
  /\ phase' = "scan"
  /\ UNCHANGED <<eventVars, taskVars, switchVars, cursor, rset, wset, polled>>

\* The delayed event_destroy() of the first loop.
Collect(e) ==
  /\ running = None /\ phase = "scan"
  /\ Linked(e) /\ destroy[e]
  /\ Free(e)
  /\ UNCHANGED <<task, taskVars, switchVars, loopVars>>

\* The first loop has seen every event and collected the destroyed ones.
Scanned == running = None /\ phase = "scan" /\ \A e \in ToSet(events) : ~destroy[e]

\* timeout_event: one with the earliest deadline.
TimeoutEvent(e) ==
  /\ e \in Armed /\ "T" \in flags[e]
  /\ \A o \in Armed : "T" \in flags[o] => timeout[e] <= timeout[o]

\* select() returns some of the fds that are ready.
SelectReady(r, w) ==
  /\ Scanned
  /\ r \cup w # {}
  /\ r \subseteq {fd[e] : e \in {a \in Armed : "R" \in flags[a]}}
  /\ w \subseteq {fd[e] : e \in {a \in Armed : "W" \in flags[a]}}
  /\ rset' = r /\ wset' = w
  /\ cursor' = HeadOf(events)
  /\ polled' = Armed
  /\ phase' = "dispatch"
  /\ UNCHANGED <<eventVars, taskVars, switchVars>>

\* select() returns 0 at the deadline: that one event is notified.
SelectTimeout(e) ==
  /\ Scanned
  /\ TimeoutEvent(e) /\ timeout[e] = 0
  /\ flags' = [flags EXCEPT ![e] = {"T"}]
  /\ event' = [event EXCEPT ![task[e]] = e]
  /\ Switch(task[e], "woken")
  /\ UNCHANGED <<events, fd, timeout, task, destroy, registered, wait, waitp, loopVars>>

\* Mutant of Hits: the fd is not looked up in the sets.
HitsAnyFd(e) == {f \in flags[e] : \/ f = "R" /\ rset # {}
                                  \/ f = "W" /\ wset # {}}

\* The flags of an event that select() reported, as the dispatch loop tests it.
Hits(e) == {f \in flags[e] : \/ f = "R" /\ fd[e] \in rset
                             \/ f = "W" /\ fd[e] \in wset}

AtEvent(e) == running = None /\ phase = "dispatch" /\ cursor = e

\* event_next is read before the task runs.
Dispatch(e) ==
  /\ AtEvent(e)
  /\ Hits(e) # {} /\ task[e] # None
  /\ cursor' = NextOf(events, e)
  /\ flags'  = [flags EXCEPT ![e] = Hits(e)]
  /\ event'  = [event EXCEPT ![task[e]] = e]
  /\ Switch(task[e], "woken")
  /\ UNCHANGED <<events, fd, timeout, task, destroy, registered, wait, waitp,
                 phase, rset, wset, polled>>

\* Not ready, destroyed during this pass, or (the log_fatal) without a task.
DispatchSkip(e) ==
  /\ AtEvent(e)
  /\ Hits(e) = {} \/ task[e] = None
  /\ cursor' = NextOf(events, e)
  /\ UNCHANGED <<eventVars, taskVars, switchVars, phase, rset, wset, polled>>

DispatchEnd ==
  /\ running = None /\ phase = "dispatch" /\ cursor = None
  /\ phase' = "scan"
  /\ rset' = {} /\ wset' = {} /\ polled' = {}
  /\ UNCHANGED <<eventVars, taskVars, switchVars, cursor>>

\* No event has flags: event_main_run() returns 0.
LoopExit ==
  /\ Scanned /\ Armed = {}
  /\ phase' = "exit"
  /\ UNCHANGED <<eventVars, taskVars, switchVars, cursor, rset, wset, polled>>

\* Time passes, for every pending timeout alike.
Tick ==
  /\ \E e \in Armed : timeout[e] > 0
  /\ timeout' = [e \in Events |-> IF timeout[e] = 0 THEN 0 ELSE timeout[e] - 1]
  /\ UNCHANGED <<events, fd, flags, task, destroy, taskVars, switchVars, loopVars>>

-----------------------------------------------------------------------------
(* The specification                                                       *)

Init ==
  /\ current = None /\ running = None
  /\ events = <<>>
  /\ fd         = [e \in Events |-> None]
  /\ flags      = [e \in Events |-> {}]
  /\ timeout    = [e \in Events |-> 0]
  /\ task       = [e \in Events |-> None]
  /\ destroy    = [e \in Events |-> FALSE]
  /\ registered = [t \in Tasks |-> 0]
  /\ wait       = [t \in Tasks |-> None]
  /\ event      = [t \in Tasks |-> None]
  /\ waitp      = [s \in Slots |-> None]
  /\ pc         = [t \in Tasks |-> "free"]
  /\ restarget  = [t \in Tasks |-> None]
  /\ callee     = [c \in Coroutines |-> None]
  /\ saved      = [c \in Coroutines |-> None]
  /\ phase = "main" /\ cursor = None
  /\ rset = {} /\ wset = {} /\ polled = {}

YieldFlags == {{"R"}, {"W"}, {"R", "W"}, {"T"}}

\* A call of the API, by main() or by the running task.
Call ==
  \/ \E e \in Events, f \in Fds : EventCreate(e, f)
  \/ \E t \in Tasks : EventStart(t)
  \/ \E e \in Events, fl \in YieldFlags, left \in 0..MaxTimeout \cup {None} :
       EventYield(e, fl, left)
  \/ \E e \in Events, s \in Slots : EventWait(e, s)
  \/ \E s \in Slots : EventNotify(s)
  \/ \E e \in Events : EventDestroy(e)
  \/ TaskReturn

\* The part of a task that runs when it is switched back in.
Return == YieldReturn \/ WaitReturn

\* The steps of event_main_run(), whatever the tasks are.
Loop ==
  \/ RunLoop
  \/ \E e \in Events : Collect(e)
  \/ \E r, w \in SUBSET Fds : SelectReady(r, w)
  \/ \E e \in Events : SelectTimeout(e)
  \/ \E e \in Events : Dispatch(e)
  \/ \E e \in Events : DispatchSkip(e)
  \/ DispatchEnd
  \/ LoopExit

\* event_main_run() has returned: the program stops.
Exited == running = None /\ phase = "exit" /\ UNCHANGED loopState

Next == Call \/ Return \/ Loop \/ Tick \/ Exited

Spec == Init /\ [][Next]_loopState

-----------------------------------------------------------------------------
(* Properties                                                              *)

\* Every variable holds a value of its C type; an event or a task that is not
\* allocated holds the values of a fresh one where a later step could tell.
TypeOK ==
  /\ current \in Coroutines /\ running \in Coroutines
  /\ events \in Seq(Events)
  /\ fd \in [Events -> Fds \cup {None}]
  /\ flags \in [Events -> SUBSET Flags]
  /\ timeout \in [Events -> 0..MaxTimeout]
  /\ task \in [Events -> Coroutines]
  /\ destroy \in [Events -> BOOLEAN]
  /\ registered \in [Tasks -> Nat]
  /\ wait \in [Tasks -> Events \cup {None}]
  /\ event \in [Tasks -> Events \cup {None}]
  /\ waitp \in [Slots -> Coroutines]
  /\ pc \in [Tasks -> PCs]
  /\ restarget \in [Tasks -> Coroutines]
  /\ callee \in [Coroutines -> Coroutines]
  /\ saved \in [Coroutines -> Coroutines]
  /\ phase \in Phases
  /\ cursor \in Events \cup {None}
  /\ rset \subseteq Fds /\ wset \subseteq Fds
  /\ polled \subseteq Events

\* event_switch() (event.c:153-162): event_main->task always names the
\* coroutine that executes, through every nesting of event_start(),
\* event_notify() and event_main_run().  A coroutine suspends to the one whose
\* event_switch() frame called it, which is itself on the stack, so that no
\* frame restores, or frees, another frame's task.
SwitchStack ==
  /\ current = running
  /\ running # None => Active(running)
  /\ callee[running] = None
  /\ \A t \in Tasks : Active(t) =>
       LET c == restarget[t]
       IN  /\ c # None => Active(c)
           /\ callee[c] = t /\ saved[c] = c
  /\ \A c \in Coroutines : callee[c] # None =>
       /\ Active(callee[c]) /\ restarget[callee[c]] = c
       /\ c # None => Active(c)

\* "it will rewind the task stack, eventually ending up back in event_main()"
\* (resolve.c:313): when main() executes, every task is suspended or has returned; no
\* coroutine is left behind in an event_switch() that nobody will resume.
MainRunsAlone == running = None => \A t \in Tasks : ~Active(t)

\* event_wait() and event_notify() (event.c:435-507): a wait pointer that is
\* set names a task suspended in event_wait(), never one that has moved on, and
\* a suspended waiter is held by exactly one pointer, so it is neither
\* forgotten nor notified twice.
WaitersSuspended ==
  /\ \A s \in Slots : waitp[s] # None => pc[waitp[s]] = "wait"
  /\ \A t \in Tasks : pc[t] = "wait" =>
       /\ wait[t] # None
       /\ \E s \in Slots : waitp[s] = t
  /\ \A s1, s2 \in Slots : waitp[s1] = waitp[s2] /\ waitp[s1] # None => s1 = s2

\* event_register(), _event_yield() and event_destroy(): the task an event is
\* pending for is suspended in _event_yield(), or has just been switched into
\* for this very event; task->registered counts those events, so the decrement
\* marked "might underflow" (event.c:348) never does.
PendingSuspended ==
  \A e \in Events : task[e] # None =>
    /\ Live(e)
    /\ \/ pc[task[e]] = "yield"
       \/ pc[task[e]] = "woken" /\ event[task[e]] = e
    /\ registered[task[e]] = 1
    /\ \A o \in Events : task[o] = task[e] => o = e

\* event_main_run() (event.c:629-674): an event that select() is told to watch
\* has a task to switch into: timeout_event->task is never NULL, and there is no
\* "spurious event activation".
ArmedHasTask ==
  \A e \in Armed : destroy[e] \/ task[e] # None

\* "event_destroy -safe loop" (event.c:558, 644): event_next, read before the
\* task runs, is still in the list when the loop gets to it.
CursorLinked ==
  cursor # None => phase = "dispatch" /\ Linked(cursor)

\* "no task may event_switch() into a task that it has been event_switch()'d
\* into from" (event.c:157): a switch only enters a coroutine that is new or
\* suspended.
EntersSuspended ==
  \A t \in Tasks : running' = t /\ callee'[running] = t /\ running # t => ~Active(t)

NoSwitchLoop == [][EntersSuspended]_loopState

\* Only event_main_run() ends a yield, for an event that is pending for that
\* task; event_notify() and event_start() cannot.
EndsYieldForEvent ==
  \A t \in Tasks : pc[t] = "yield" /\ pc'[t] # "yield"
    => running = None /\ event'[t] # None /\ task[event'[t]] = t

OnlyLoopEndsYield == [][EndsYieldForEvent]_loopState

\* A task is switched into because its fd was found ready, not because its time is over.
WokenByFd(t) == pc[t] = "woken" /\ flags[event[t]] # {"T"}

\* "Returns 0 on success (event happaned)" (event.h:84): a task that is woken for
\* R or W was pending when select() polled its event.
FreshReadiness == \A t \in Tasks : WokenByFd(t) => event[t] \in polled

\* The fd_sets of event.c:652 are read during a pass in which tasks destroy and create events.
\* A readiness that select() did not find for the event itself is that of an event which was
\* polled in this pass, on the same fd, and has been destroyed since: it is never that of
\* another fd, of an event that is still in use, or of a pass before.
StaleOnlyByReuse ==
  \A t \in Tasks : WokenByFd(t) =>
    \/ event[t] \in polled
    \/ \E e \in polled : destroy[e] /\ fd[e] = fd[event[t]]
=============================================================================
