----------------------------- MODULE TimerLoops -----------------------------
(***************************************************************************)
(* How the threads of a process find their timers, src/posix/timer.c: one  *)
(* list of loops, _loops, shared by all threads without a lock.            *)
(* timer_new() looks for the thread's loop and links a new one at the head *)
(* of the list; the last timer_destroy() unlinks it; timer_loop() looks    *)
(* for it and asserts that it is there.                                    *)
(*                                                                         *)
(* Cells are the list heads, each load and store of a cell that another    *)
(* thread can see is a step.  A thread has at most one timer here.         *)
(***************************************************************************)
EXTENDS Integers

CONSTANTS
  Threads,
  Loops,       \* the struct timer_loop objects malloc() can return
  Root,        \* the head of _loops
  None

(* The head of the list is no loop, and NULL is neither a loop nor a       *)
(* thread.                                                                 *)
LoopsAssumption == Root \notin Loops /\ None \notin Loops \cup Threads

VARIABLES
  after, before,  \* next and prev of the cells
  pid,         \* loop -> the thread it was made for, None while it is free
  at,          \* thread -> where it is
  loop,        \* thread -> the loop of its timer, None if it has no timer
  cur,         \* thread -> the cell find_timer_loop() looks at, or the loop it links
  ends,        \* thread -> the neighbours __list_add() or __list_del() was given
  overlapped,  \* two threads were inside the module at the same time (history)
  failed       \* assert(loop) failed, or freed memory was used as a loop

cells == <<after, before, pid>>
vars == <<cells, at, loop, cur, ends, overlapped, failed>>

Cells == Loops \cup {Root}
NoEnds == [prev |-> None, next |-> None]

Init ==
  /\ after = [c \in Cells |-> c]
  /\ before = [c \in Cells |-> c]
  /\ pid = [l \in Loops |-> None]
  /\ at = [t \in Threads |-> "idle"]
  /\ loop = [t \in Threads |-> None]
  /\ cur = [t \in Threads |-> None]
  /\ ends = [t \in Threads |-> NoEnds]
  /\ overlapped = FALSE
  /\ failed = FALSE

Goto(t, here, there) == at[t] = here /\ at' = [at EXCEPT ![t] = there]

Enter(t, there) ==
  /\ ~failed
  /\ Goto(t, "idle", there)
  /\ overlapped' = (overlapped \/ \E u \in Threads : at[u] # "idle")

-----------------------------------------------------------------------------
(* find_timer_loop(), for timer_new() and for timer_loop().                *)

FindBegin(t, why) ==
  /\ Enter(t, why)
  /\ cur' = [cur EXCEPT ![t] = after[Root]]
  /\ UNCHANGED <<cells, loop, ends, failed>>

timer_new(t) == loop[t] = None /\ FindBegin(t, "new")
timer_loop(t) == loop[t] # None /\ FindBegin(t, "loop")

Finding(t) == ~failed /\ at[t] \in {"new", "loop"}

FindNext(t) ==
  /\ Finding(t)
  /\ cur[t] # Root
  /\ pid[cur[t]] \in Threads \ {t}
  /\ cur' = [cur EXCEPT ![t] = after[cur[t]]]
  /\ UNCHANGED <<cells, at, loop, ends, overlapped, failed>>

Found(t) ==
  /\ Finding(t)
  /\ cur[t] # Root
  /\ pid[cur[t]] = t
  /\ at' = [at EXCEPT ![t] = "idle"]
  /\ loop' = [loop EXCEPT ![t] = cur[t]]
  /\ UNCHANGED <<cells, cur, ends, overlapped, failed>>

(* The walk reads a loop that another thread has freed, or timer_loop()    *)
(* comes to the end of the list.                                           *)
Fails(t) ==
  /\ Finding(t)
  /\ IF cur[t] = Root THEN at[t] = "loop" ELSE pid[cur[t]] = None
  /\ failed' = TRUE
  /\ UNCHANGED <<cells, at, loop, cur, ends, overlapped>>

-----------------------------------------------------------------------------
(* timer_loop_new() and list_add().                                        *)

NotFound(t, l) ==
  /\ Finding(t)
  /\ at[t] = "new"
  /\ cur[t] = Root
  /\ pid[l] = None
  /\ Goto(t, "new", "add1")
  /\ pid' = [pid EXCEPT ![l] = t]
  /\ after' = [after EXCEPT ![l] = l]
  /\ before' = [before EXCEPT ![l] = l]
  /\ cur' = [cur EXCEPT ![t] = l]
  /\ ends' = [ends EXCEPT ![t] = [prev |-> Root, next |-> after[Root]]]
  /\ UNCHANGED <<loop, overlapped, failed>>

Add1(t) ==
  /\ ~failed
  /\ Goto(t, "add1", "add2")
  /\ before' = [before EXCEPT ![ends[t].next] = cur[t]]
  /\ UNCHANGED <<after, pid, loop, cur, ends, overlapped, failed>>

(* The two stores into the new cell.                                       *)
Add2(t) ==
  /\ ~failed
  /\ Goto(t, "add2", "add3")
  /\ after' = [after EXCEPT ![cur[t]] = ends[t].next]
  /\ before' = [before EXCEPT ![cur[t]] = ends[t].prev]
  /\ UNCHANGED <<pid, loop, cur, ends, overlapped, failed>>

Add3(t) ==
  /\ ~failed
  /\ Goto(t, "add3", "idle")
  /\ after' = [after EXCEPT ![ends[t].prev] = cur[t]]
  /\ loop' = [loop EXCEPT ![t] = cur[t]]
  /\ UNCHANGED <<before, pid, cur, ends, overlapped, failed>>

-----------------------------------------------------------------------------
(* timer_destroy() of the last timer: list_del() and free().               *)

timer_destroy(t) ==
  /\ loop[t] # None
  /\ Enter(t, "del1")
  /\ ends' = [ends EXCEPT ![t] = [prev |-> before[loop[t]], next |-> after[loop[t]]]]
  /\ UNCHANGED <<cells, loop, cur, failed>>

Del1(t) ==
  /\ ~failed
  /\ Goto(t, "del1", "del2")
  /\ before' = [before EXCEPT ![ends[t].next] = ends[t].prev]
  /\ UNCHANGED <<after, pid, loop, cur, ends, overlapped, failed>>

(* Fault, for the mutation run: the cell is freed and stays linked.        *)
Del2StaysLinked(t) ==
  /\ ~failed
  /\ Goto(t, "del2", "idle")
  /\ pid' = [pid EXCEPT ![loop[t]] = None]
  /\ loop' = [loop EXCEPT ![t] = None]
  /\ UNCHANGED <<after, before, cur, ends, overlapped, failed>>

Del2(t) ==
  /\ ~failed
  /\ Goto(t, "del2", "idle")
  /\ after' = [after EXCEPT ![ends[t].prev] = ends[t].next]
  /\ pid' = [pid EXCEPT ![loop[t]] = None]
  /\ loop' = [loop EXCEPT ![t] = None]
  /\ UNCHANGED <<before, cur, ends, overlapped, failed>>

Next ==
  \E t \in Threads :
    \/ timer_new(t) \/ timer_loop(t) \/ timer_destroy(t)
    \/ FindNext(t) \/ Found(t) \/ Fails(t) \/ \E l \in Loops : NotFound(t, l)
    \/ Add1(t) \/ Add2(t) \/ Add3(t) \/ Del1(t) \/ Del2(t)

Spec == Init /\ [][Next]_vars

-----------------------------------------------------------------------------

(* assert(loop) of timer_loop() holds, and no freed loop is used, unless   *)
(* two threads have been inside these functions at the same time: the      *)
(* missing lock is the only way a thread loses its timers.                 *)
FoundUnlessOverlapped == failed => overlapped

(* assert(loop) of timer_loop(), as the code states it: tests/test_timer.c *)
(* makes timers in two threads at once.                                    *)
LoopFound == ~failed

=============================================================================
