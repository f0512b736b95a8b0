------------------------------- MODULE Timer -------------------------------
(***************************************************************************)
(* The timers of one thread, src/posix/timer.c.  The thread calls          *)
(* timer_loop() again and again; timer_loop() walks the thread's list and  *)
(* calls the handlers of the timers that are due.  Handlers call back: they*)
(* create, start, stop, trigger and destroy timers, their own included,    *)
(* while the walk is under way.                                            *)
(*                                                                         *)
(* Time is counted in ticks, Milli of them to a millisecond and Second to  *)
(* a second, and passes between any two steps.  A timeval is a record of   *)
(* seconds and ticks that need not be normalised: timer_start() adds the   *)
(* two parts separately.                                                   *)
(* How threads find their lists is the subject of TimerLoops.              *)
(***************************************************************************)
EXTENDS Integers, Sequences, SequencesExt

CONSTANTS
  Timers,     \* the timers malloc() can return
  Head_,      \* the list head inside struct timer_loop
  Second,     \* ticks of a second
  Milli,      \* ticks of a millisecond
  Timeouts,   \* first timeouts given to timer_start(): milliseconds, in ticks
  Repeats,    \* periods given to timer_start(): milliseconds, in ticks
  MaxTime     \* bound: the clock stops here

WholeMillis == \A ticks \in Timeouts \cup Repeats \cup {Second} : ticks % Milli = 0

TimerAssumption ==
  /\ Head_ \notin Timers
  /\ Second \in Nat \ {0} /\ Milli \in Nat \ {0}
  /\ Timeouts \subseteq Nat /\ Repeats \subseteq Nat
  /\ WholeMillis
  /\ MaxTime \in Nat

VARIABLES
  clock,      \* gettimeofday(), in ticks
  timers,     \* loop->timers, newest first
  timer,      \* struct timer: handler set or not, timeout, repeat
  at,         \* "app", "walk" (in timer_loop), "handler", or "dead"
  now, next,  \* timer_loop()'s now and _next
  pos, n,     \* its cursors: a timer or Head_
  misused,    \* a call that the code does not survive was made (history)
  touched     \* timers started or triggered during this walk (history)

walk == <<now, next, pos, n>>
vars == <<clock, timers, timer, at, walk, misused, touched>>

-----------------------------------------------------------------------------
(* struct timeval and the macros of <sys/time.h>.                          *)

Tv(s, u) == [sec |-> s, usec |-> u]
Zero == Tv(0, 0)
Timeval(ticks) == Tv(ticks \div Second, ticks % Second)
Ticks(t) == t.sec * Second + t.usec
Normal(t) == t.usec < Second

timerisset(t) == t # Zero

Before(a, b) == IF a.sec = b.sec THEN a.usec < b.usec ELSE a.sec < b.sec

timeradd(a, b) ==
  LET u == a.usec + b.usec
  IN IF u >= Second THEN Tv(a.sec + b.sec + 1, u - Second) ELSE Tv(a.sec + b.sec, u)

Earlier(a, b) == IF Before(a, b) THEN a ELSE b

-----------------------------------------------------------------------------

Blank == [handler |-> FALSE, timeout |-> Zero, repeat |-> Zero]

Init ==
  /\ clock = Second
  /\ timers = <<>>
  /\ timer = [t \in Timers |-> Blank]
  /\ at = "app"
  /\ now = Zero /\ next = Zero /\ pos = Head_ /\ n = Head_
  /\ misused = FALSE
  /\ touched = {}

Tick ==
  /\ clock < MaxTime
  /\ clock' = clock + 1
  /\ UNCHANGED <<timers, timer, at, walk, misused, touched>>

-----------------------------------------------------------------------------
(* The calls, from the application's own code or from a handler.  After a  *)
(* misuse no more are made: only the walk goes on.                         *)

Calling == ~misused /\ at \in {"app", "handler"}

timer_new(t) ==
  /\ Calling
  /\ t \notin Range(timers)
  /\ timers' = <<t>> \o timers
  /\ timer' = [timer EXCEPT ![t] = Blank]
  /\ touched' = touched \cup {t}
  /\ UNCHANGED <<clock, at, walk, misused>>

(* Where a timer of the list is linked.                                    *)
Place(t) == CHOOSE j \in DOMAIN timers : timers[j] = t

(* list_del() and free(); with its last timer a thread loses its loop, and *)
(* with it the head of the list timer_loop() may be walking.               *)
timer_destroy(t) ==
  /\ Calling
  /\ t \in Range(timers)
  /\ timers' = RemoveAt(timers, Place(t))
  /\ timer' = [timer EXCEPT ![t] = Blank]
  /\ misused' = (misused \/ (at = "handler" /\ (t = n \/ timers' = <<>>)))
  /\ UNCHANGED <<clock, at, walk, touched>>

timer_start(t, timeout, repeat) ==
  /\ Calling
  /\ t \in Range(timers)
  /\ timer' = [timer EXCEPT ![t] =
       [handler |-> TRUE,
        timeout |-> Tv(clock \div Second + timeout \div Second,
                       (clock % Second) + (timeout % Second)),
        repeat |-> Timeval(repeat)]]
  /\ touched' = touched \cup {t}
  /\ UNCHANGED <<clock, timers, at, walk, misused>>

timer_stop(t) ==
  /\ Calling
  /\ t \in Range(timers)
  /\ timer' = [timer EXCEPT ![t] = Blank]
  /\ UNCHANGED <<clock, timers, at, walk, misused, touched>>

(* A timer that is not started has no handler that timer_loop() could call.*)
timer_trigger(t) ==
  /\ Calling
  /\ t \in Range(timers)
  /\ timer' = [timer EXCEPT ![t].timeout = Timeval(clock)]
  /\ misused' = (misused \/ ~timer[t].handler)
  /\ touched' = touched \cup {t}
  /\ UNCHANGED <<clock, timers, at, walk>>

Calls ==
  \E t \in Timers :
    \/ timer_new(t) \/ timer_destroy(t) \/ timer_stop(t) \/ timer_trigger(t)
    \/ \E timeout \in Timeouts, repeat \in Repeats : timer_start(t, timeout, repeat)

-----------------------------------------------------------------------------
(* timer_loop(), one list entry per step.                                  *)

(* list_next_entry() of a timer in the list, or of the head.               *)
After(x) ==
  IF x = Head_ THEN timers[1]
  ELSE IF Place(x) = Len(timers) THEN Head_ ELSE timers[Place(x) + 1]

(* The loop exists: timer_loop() asserts it.                               *)
LoopBegin ==
  /\ at = "app"
  /\ timers # <<>>
  /\ now' = Timeval(clock)
  /\ next' = Tv(now'.sec + 1, now'.usec)
  /\ pos' = After(Head_)
  /\ n' = After(pos')
  /\ at' = "walk"
  /\ touched' = {}
  /\ UNCHANGED <<clock, timers, timer, misused>>

Walking == at = "walk" /\ pos # Head_

(* The end of list_for_each_entry_safe()'s body: pos = n, n = n->next.     *)
(* n is still good if its timer, or the loop for the head, is still there; *)
(* otherwise freed memory is read, which may end the process or the walk.  *)
Live(x) == IF x = Head_ THEN timers # <<>> ELSE x \in Range(timers)

(* Fault, for the mutation runs (so are the operators below whose comment  *)
(* says "fault"): the plain list_for_each_entry() is used.                 *)
AdvanceUnsafe ==
  IF Live(pos)
  THEN pos' = After(pos) /\ n' = Head_ /\ at' = "walk"
  ELSE at' \in {"dead", "app"} /\ pos' = Head_ /\ n' = Head_

Advance ==
  IF Live(n)
  THEN pos' = n /\ n' = After(n) /\ at' = "walk"
  ELSE at' \in {"dead", "app"} /\ pos' = Head_ /\ n' = Head_

NotSet ==
  /\ Walking
  /\ ~timerisset(timer[pos].timeout)
  /\ Advance
  /\ UNCHANGED <<clock, timers, timer, now, next, misused, touched>>

NotDue ==
  /\ Walking
  /\ Before(now, timer[pos].timeout)
  /\ next' = Earlier(timer[pos].timeout, next)
  /\ Advance
  /\ UNCHANGED <<clock, timers, timer, now, misused, touched>>

(* Fault: one period is added even if several were missed.                 *)
RescheduleOnce(t) ==
  IF timerisset(t.repeat) THEN timeradd(t.timeout, t.repeat) ELSE Zero

(* The timeout after k periods.                                            *)
Deadlines(t) ==
  LET nth[k \in 0..clock + 1] ==
        IF k = 0 THEN t.timeout ELSE timeradd(nth[k - 1], t.repeat)
  IN nth

(* The new timeout: none, or the first multiple of the period that has not *)
(* passed (do timeradd() while in the past).                               *)
Reschedule(t) ==
  LET Stops(k) == ~Before(Deadlines(t)[k], now)
  IN IF timerisset(t.repeat)
     THEN Deadlines(t)[CHOOSE k \in 1..clock + 1 : Stops(k) /\ \A j \in 1..k-1 : ~Stops(j)]
     ELSE Zero

(* Fault: whole seconds are compared, as time(0) would.                    *)
DueInSeconds(t) == timerisset(t.timeout) /\ t.timeout.sec <= now.sec

Due(t) == timerisset(t.timeout) /\ ~Before(now, t.timeout)

(* The timer is rescheduled, then its handler is called.                   *)
Fire ==
  /\ Walking
  /\ Due(timer[pos])
  /\ LET later == Reschedule(timer[pos])
     IN /\ timer' = [timer EXCEPT ![pos].timeout = later]
        /\ next' = IF later = Zero THEN next ELSE Earlier(later, next)
  /\ at' = IF timer[pos].handler THEN "handler" ELSE "dead"
  /\ UNCHANGED <<clock, timers, now, pos, n, misused, touched>>

(* Fault: timer_loop() returns after the first handler.                    *)
HandlerEndsWalk ==
  /\ at = "handler"
  /\ at' = "app"
  /\ UNCHANGED <<clock, timers, timer, walk, misused, touched>>

HandlerReturns ==
  /\ at = "handler"
  /\ Advance
  /\ UNCHANGED <<clock, timers, timer, now, next, misused, touched>>

(* Fault: the rest is rounded up to the next millisecond.                  *)
RoundedUp(u) == -((-u) \div Milli) * Milli

(* Division in C rounds towards zero.                                      *)
Truncated(u) == IF u >= 0 THEN (u \div Milli) * Milli ELSE -(((-u) \div Milli) * Milli)

(* What timer_loop() stores in *next: how long the caller may sleep, whole *)
(* milliseconds (here in ticks).  The seconds and the rest are subtracted  *)
(* apart, so that a negative rest is rounded up.                           *)
Sleep ==
  IF Before(Timeval(clock), next)
  THEN LET s == next.sec - clock \div Second
           u == next.usec - (clock % Second)
       IN s * Second + Truncated(u)
  ELSE 0

LoopEnd ==
  /\ at = "walk"
  /\ pos = Head_
  /\ at' = "app"
  /\ UNCHANGED <<clock, timers, timer, walk, misused, touched>>

timer_loop == LoopBegin \/ NotSet \/ NotDue \/ Fire \/ HandlerReturns \/ LoopEnd

Next == Tick \/ Calls \/ timer_loop

Spec == Init /\ [][Next]_vars

(* The thread comes back to timer_loop() and its handlers return.          *)
FairSpec == Spec /\ WF_vars(timer_loop)

-----------------------------------------------------------------------------

(* The type of the state.                                                  *)
AnyTimeval == [sec : Nat, usec : Nat]

TypeOK ==
  /\ clock \in Nat
  /\ timers \in Seq(Timers)
  /\ timer \in [Timers -> [handler : BOOLEAN, timeout : AnyTimeval, repeat : AnyTimeval]]
  /\ at \in {"app", "walk", "handler", "dead"}
  /\ now \in AnyTimeval /\ next \in AnyTimeval
  /\ pos \in Timers \cup {Head_} /\ n \in Timers \cup {Head_}
  /\ misused \in BOOLEAN
  /\ touched \subseteq Timers

(* "current timer will be killed in handler": a handler may destroy its    *)
(* own timer, and create, start, stop and trigger others, while            *)
(* timer_loop() walks the list.  Only three things bring the process       *)
(* down or make it read freed memory: a handler that destroys the timer the*)
(* walk comes to next, or the thread's last timer, and triggering a timer  *)
(* that has no handler.                                                    *)
CursorsLive == at \in {"walk", "handler"} => Live(n) /\ (at = "walk" => Live(pos))

DiesOnlyMisused == at = "dead" \/ ~CursorsLive => misused

(* No handler is called before its time, except within the very second it  *)
(* is due in, when timer_start() stored a tv_usec of a second or more.     *)
NotEarly ==
  [][Fire => LET due == Ticks(timer[pos].timeout)
             IN \/ clock >= due
                \/ ~Normal(timer[pos].timeout) /\ clock \div Second = due \div Second]_vars

(* A repeating timer keeps its rhythm: however late timer_loop() comes, the*)
(* next timeout is a whole number of periods later and not in the past.    *)
KeepsRhythm ==
  [][Fire /\ timerisset(timer[pos].repeat)
     => LET due == Ticks(timer[pos].timeout)
            later == Ticks(timer'[pos].timeout)
        IN later >= Ticks(now) /\ (later - due) % Ticks(timer[pos].repeat) = 0]_vars

(* Who sleeps for as long as timer_loop() says wakes up before the next    *)
(* timeout of every timer that no handler has started or triggered during  *)
(* the walk, or less than a millisecond after it when the next timeout is  *)
(* in another second; tv_usec fields of a second or more void the promise. *)
NoOversleep ==
  [][LoopEnd /\ ~misused /\ Normal(next)
     => \A t \in Range(timers) \ touched :
          timerisset(timer[t].timeout) /\ Normal(timer[t].timeout)
          => LET due == Ticks(timer[t].timeout)
             IN \/ Sleep = 0
                \/ clock + Sleep <= due
                \/ clock + Sleep < due + Milli /\ next.sec > clock \div Second]_vars

(* A timer whose time has come is run in the end, unless it is stopped,    *)
(* restarted or destroyed before.                                          *)
Overdue(t) ==
  /\ t \in Range(timers)
  /\ timerisset(timer[t].timeout)
  /\ Ticks(timer[t].timeout) <= clock

DueRuns ==
  \A t \in Timers :
    Overdue(t) ~> ~Overdue(t) \/ (at = "handler" /\ pos = t) \/ at = "dead"

=============================================================================
