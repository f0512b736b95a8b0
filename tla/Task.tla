-------------------------------- MODULE Task --------------------------------
(***************************************************************************)
(* The worker thread of src/posix/task.c and the thread that owns it.      *)
(*                                                                         *)
(* The two share the plain ints t_state and t_control: no lock, no atomic, *)
(* no condition variable.  Every load and every store of them is a step of *)
(* its own, in program order; a build that merges neighbouring loads of    *)
(* t_control shows a subset of these behaviours.                           *)
(*                                                                         *)
(* The owner starts the task once, meets the assertions of task_suspend()  *)
(* and task_resume() by looking at task_state() first, as tests/test_task.c*)
(* does, and stops a task it has started at most once.                     *)
(***************************************************************************)
EXTENDS Integers, TLAPS

CONSTANTS
  CanResume,   \* the owner uses task_resume()
  MaxCommands  \* bound: calls of task_suspend() and task_resume()

ASSUME TaskAssumption == CanResume \in BOOLEAN /\ MaxCommands \in Nat

VARIABLES
  t_state,     \* "pending", "running" or "stopped"
  t_control,   \* "none", "suspend", "resume" or "stop"
  at,          \* where task_routine() is; "none" before pthread_create()
  owner,       \* "idle", "freed", "crashed", or the call it is inside of:
               \* "suspending", "resuming", "stopping", "destroying"
  commands,    \* calls of task_suspend() and task_resume() so far
  overwritten  \* an acknowledged resume has wiped out a later command (history)

vars == <<t_state, t_control, at, owner, commands, overwritten>>

Where == {"none", "enter", "top", "resume?", "running", "ack", "suspend?", "pend",
          "sleep", "fn", "exit"}

(* task_new()                                                              *)
Init ==
  /\ t_state = "pending"
  /\ t_control = "none"
  /\ at = "none"
  /\ owner = "idle"
  /\ commands = 0
  /\ overwritten = FALSE

-----------------------------------------------------------------------------
(* task_routine().                                                         *)

Goto(here, there) == at = here /\ at' = there

Enter ==
  /\ Goto("enter", "top")
  /\ t_state' = "running"
  /\ UNCHANGED <<t_control, owner, commands, overwritten>>

(* A load of t_control and the branch on it.                               *)
Branch(here, value, yes, no) ==
  /\ Goto(here, IF t_control = value THEN yes ELSE no)
  /\ UNCHANGED <<t_state, t_control, owner, commands, overwritten>>

(* A fault for the mutation runs (so are the operators below whose comment *)
(* says "fault"): a stop request is not looked for.                        *)
IgnoreStop == Branch("top", "none", "resume?", "resume?")

CheckStop == Branch("top", "stop", "exit", "resume?")

CheckResume == Branch("resume?", "resume", "running", "suspend?")

SetRunning ==
  /\ Goto("running", "ack")
  /\ t_state' = "running"
  /\ UNCHANGED <<t_control, owner, commands, overwritten>>

(* The store that acknowledges the resume does not look at what it wipes   *)
(* out.                                                                    *)
AckResume ==
  /\ Goto("ack", "suspend?")
  /\ t_control' = "none"
  /\ overwritten' = (overwritten \/ t_control # "resume")
  /\ UNCHANGED <<t_state, owner, commands>>

(* Fault: a suspended task goes on.                                        *)
IgnoreSuspend == Branch("suspend?", "suspend", "fn", "fn")

CheckSuspend == Branch("suspend?", "suspend", "pend", "fn")

SetPending ==
  /\ Goto("pend", "sleep")
  /\ t_state' = "pending"
  /\ UNCHANGED <<t_control, owner, commands, overwritten>>

(* Fault: the loop is not begun anew.                                      *)
WakeFallsThrough ==
  /\ Goto("sleep", "fn")
  /\ UNCHANGED <<t_state, t_control, owner, commands, overwritten>>

Wake ==
  /\ Goto("sleep", "top")
  /\ UNCHANGED <<t_state, t_control, owner, commands, overwritten>>

(* run_fn() or timeout_fn() returns, with 0 or with a reason to end.       *)
FnReturns ==
  /\ at = "fn"
  /\ at' \in {"top", "exit"}
  /\ UNCHANGED <<t_state, t_control, owner, commands, overwritten>>

task_routine ==
  \/ Enter \/ CheckStop \/ CheckResume \/ SetRunning \/ AckResume \/ CheckSuspend
  \/ SetPending \/ Wake \/ FnReturns

-----------------------------------------------------------------------------
(* The owner's calls.                                                      *)

task_start ==
  /\ owner = "idle"
  /\ Goto("none", "enter")
  /\ UNCHANGED <<t_state, t_control, owner, commands, overwritten>>

(* task_suspend() and task_resume(): the assertion loads t_state, ...      *)
Asserts(state, call) ==
  /\ owner = "idle"
  /\ commands < MaxCommands
  /\ t_state = state
  /\ owner' = call
  /\ commands' = commands + 1
  /\ UNCHANGED <<t_state, t_control, at, overwritten>>

(* ... and t_control is stored later, whatever the state is by then.       *)
Command(call, control) ==
  /\ owner = call
  /\ t_control' = control
  /\ owner' = "idle"
  /\ UNCHANGED <<t_state, at, commands, overwritten>>

task_suspend == Asserts("running", "suspending") \/ Command("suspending", "suspend")

task_resume ==
  CanResume /\ (Asserts("pending", "resuming") \/ Command("resuming", "resume"))

(* task_stop() up to pthread_join(), on the owner's or task_destroy()'s    *)
(* account.                                                                *)
StopRequest(who) ==
  /\ owner = "idle"
  /\ at # "none"
  /\ t_state # "stopped"
  /\ t_control' = "stop"
  /\ owner' = who
  /\ UNCHANGED <<t_state, at, commands, overwritten>>

task_stop == StopRequest("stopping")

(* Fault: the thread is not waited for.                                    *)
StopDoesNotJoin ==
  /\ owner \in {"stopping", "destroying"}
  /\ t_state' = "stopped"
  /\ owner' = IF owner = "stopping" THEN "idle" ELSE "freed"
  /\ UNCHANGED <<t_control, at, commands, overwritten>>

(* pthread_join() returns; task_destroy() frees the task.                  *)
Joined ==
  /\ owner \in {"stopping", "destroying"}
  /\ at = "exit"
  /\ t_state' = "stopped"
  /\ owner' = IF owner = "stopping" THEN "idle" ELSE "freed"
  /\ UNCHANGED <<t_control, at, commands, overwritten>>

(* task_destroy(): of a running task it begins with task_stop(); of a task *)
(* never started it joins thread 0, which is undefined.                    *)
DestroyRunning == StopRequest("destroying")

DestroyStopped ==
  /\ owner = "idle"
  /\ t_state = "stopped"
  /\ owner' = "freed"
  /\ UNCHANGED <<t_state, t_control, at, commands, overwritten>>

DestroyUnstarted ==
  /\ owner = "idle"
  /\ at = "none"
  /\ owner' \in {"freed", "crashed"}
  /\ UNCHANGED <<t_state, t_control, at, commands, overwritten>>

(* The owner needs nothing more.                                           *)
Finished ==
  /\ owner \in {"freed", "crashed"}
  /\ UNCHANGED vars

Owner ==
  \/ task_start \/ task_suspend \/ task_resume \/ task_stop \/ Joined
  \/ DestroyRunning \/ DestroyStopped \/ DestroyUnstarted \/ Finished

Next == task_routine \/ Owner

Spec == Init /\ [][Next]_vars

(* The thread is scheduled, sleep() and the task's function return, and    *)
(* pthread_join() returns once the thread has ended.                       *)
FairSpec == Spec /\ WF_vars(task_routine) /\ WF_vars(Joined)

-----------------------------------------------------------------------------
(* What a task guarantees its owner.                                       *)

(* The type of the state.                                                  *)
TypeOK ==
  /\ t_state \in {"pending", "running", "stopped"}
  /\ t_control \in {"none", "suspend", "resume", "stop"}
  /\ at \in Where
  /\ owner \in {"idle", "suspending", "resuming", "stopping", "destroying", "freed",
                "crashed"}
  /\ commands \in 0..MaxCommands
  /\ overwritten \in BOOLEAN

(* The thread has ended, or never began, when its task is freed and when   *)
(* it is reported stopped: nothing it refers to is touched any more.       *)
NoUseAfterFree == owner = "freed" \/ t_state = "stopped" => at \in {"none", "exit"}

(* The owner may touch what the function works on once it has suspended    *)
(* the task and task_state() says pending.  (After task_resume() it may    *)
(* not, although the state is still pending: a resume that arrives between *)
(* the tests for resume and suspend lets the function run once more before *)
(* the state follows.)                                                     *)
QuietWhenPending == t_state = "pending" /\ t_control = "suspend" => at # "fn"

(* task_stop() and task_destroy() return, unless the thread wiped out the  *)
(* stop request while it acknowledged an earlier resume.                   *)
Stopping == owner \in {"stopping", "destroying"}

StopReturnsUnlessOverwritten == Stopping ~> ~Stopping \/ overwritten

(* A suspend request is obeyed, unless another command replaces it or the  *)
(* function ends the thread.                                               *)
SuspendObeyed ==
  t_control = "suspend" /\ at # "none" ~> t_state = "pending" \/ t_control # "suspend" \/ at = "exit"

(* tests/test_task.c: after task_stop() the task is stopped.               *)
StopReturns == Stopping ~> ~Stopping

-----------------------------------------------------------------------------
(* Proofs: for any number of commands, at any interleaving of loads and    *)
(* stores.                                                                 *)

(* The inductive invariant.  A state of "stopped" is only ever written by  *)
(* the owner after pthread_join(), so that the thread has ended.  While    *)
(* the last command is a suspend the thread has seen, it can only be in    *)
(* the part of the loop that leads back to sleep(): the owner cannot issue *)
(* a suspend before the state is "running".  The last three conjuncts are  *)
(* about a call whose assertion is out of date when it stores: the state   *)
(* only leaves "running" under a suspend request, which a second suspend   *)
(* repeats, and a late resume does not meet a suspend the thread has yet   *)
(* to carry out.                                                           *)
Dozing == {"top", "resume?", "suspend?", "pend", "sleep"}

IInv ==
  /\ TypeOK
  /\ at = "none" => t_state = "pending"
  /\ t_state = "stopped" => at = "exit"
  /\ owner \in {"stopping", "destroying"} => at # "none"
  /\ owner = "freed" => at \in {"none", "exit"}
  /\ t_state = "pending" /\ t_control = "suspend" => at \in Dozing
  /\ t_state = "pending" /\ owner = "suspending" => t_control = "suspend"
  /\ t_state = "running" /\ owner = "resuming" => t_control # "suspend"
  /\ t_state = "running" /\ at = "pend" =>
       t_control = "suspend" \/ owner \in {"stopping", "destroying"}

LEMMA InitIInv == Init => IInv
<1> SUFFICES ASSUME Init PROVE IInv
  OBVIOUS
<1>1. overwritten \in BOOLEAN
  BY Zenon DEF Init
<1>2. commands \in 0..MaxCommands
  BY TaskAssumption DEF Init
<1> QED BY <1>1, <1>2 DEF Init, IInv, TypeOK, Where, Dozing

(* One step per action; the thread's steps only run while it has neither   *)
(* ended nor not begun, which keeps them apart from the owner's last ones. *)
LEMMA NextIInv == IInv /\ [Next]_vars => IInv'
<1> SUFFICES ASSUME IInv, [Next]_vars PROVE IInv'
  OBVIOUS
<1> USE TaskAssumption DEF IInv, TypeOK, Where, Dozing, Goto, Branch
<1>1. CASE Enter
  BY <1>1 DEF Enter
<1>2. CASE CheckStop \/ CheckResume \/ CheckSuspend
  BY <1>2 DEF CheckStop, CheckResume, CheckSuspend
<1>3. CASE SetRunning
  BY <1>3 DEF SetRunning
<1>4. CASE AckResume
  BY <1>4 DEF AckResume
<1>5. CASE SetPending
  BY <1>5 DEF SetPending
<1>6. CASE Wake
  BY <1>6 DEF Wake
<1>7. CASE FnReturns
  BY <1>7 DEF FnReturns
<1>8. CASE task_start
  BY <1>8 DEF task_start
<1>9. CASE task_suspend \/ task_resume
  BY <1>9 DEF task_suspend, task_resume, Asserts, Command
<1>10. CASE task_stop \/ DestroyRunning
  BY <1>10 DEF task_stop, DestroyRunning, StopRequest
<1>11. CASE Joined
  BY <1>11 DEF Joined
<1>12. CASE DestroyStopped \/ DestroyUnstarted
  BY <1>12 DEF DestroyStopped, DestroyUnstarted
<1>13. CASE Finished \/ UNCHANGED vars
  BY <1>13 DEF Finished, vars
<1> QED
  BY <1>1, <1>2, <1>3, <1>4, <1>5, <1>6, <1>7, <1>8, <1>9, <1>10, <1>11, <1>12, <1>13
  DEF Next, task_routine, Owner

(* Every reachable state has its type: t_state and t_control only ever     *)
(* hold constants of their own enumeration.                                *)
THEOREM TypeCorrect == Spec => []TypeOK
<1>1. IInv => TypeOK
  BY DEF IInv
<1> QED BY InitIInv, NextIInv, <1>1, PTL DEF Spec

(* task_destroy() frees a task, and task_stop() reports it stopped, only   *)
(* when its thread has ended.                                              *)
THEOREM FreeIsSafe == Spec => []NoUseAfterFree
<1>1. IInv => NoUseAfterFree
  BY DEF IInv, NoUseAfterFree
<1> QED BY InitIInv, NextIInv, <1>1, PTL DEF Spec

(* A suspended task that reports "pending" is not inside its function.     *)
THEOREM SuspendedIsQuiet == Spec => []QuietWhenPending
<1>1. IInv => QuietWhenPending
  BY DEF IInv, QuietWhenPending, Dozing
<1> QED BY InitIInv, NextIInv, <1>1, PTL DEF Spec

(* Why task_stop() returns, but for scheduling: the request stays in       *)
(* t_control unless an acknowledgement wipes it out, ...                   *)
StopKept == Stopping => t_control = "stop" \/ overwritten

(* ... and as long as it does, every step of the thread is one nearer to   *)
(* its end, wherever in the loop the request found it.                     *)
StepsLeft(where) ==
  CASE where = "exit" -> 0
    [] where = "top" -> 1
    [] where \in {"enter", "sleep", "fn"} -> 2
    [] where \in {"pend", "suspend?"} -> 3
    [] where \in {"resume?", "ack"} -> 4
    [] OTHER -> 5

StopDrawsNear ==
  [][Stopping /\ ~overwritten' /\ at' # at => StepsLeft(at') < StepsLeft(at)]_vars

LEMMA NextStopKept == TypeOK /\ StopKept /\ [Next]_vars => StopKept'
<1> SUFFICES ASSUME TypeOK, StopKept, [Next]_vars PROVE StopKept'
  OBVIOUS
<1> USE DEF TypeOK, StopKept, Stopping
<1>1. CASE AckResume
  BY <1>1 DEF AckResume
<1>2. CASE task_suspend \/ task_resume
  BY <1>2 DEF task_suspend, task_resume, Asserts, Command
<1>3. CASE task_stop \/ DestroyRunning
  BY <1>3 DEF task_stop, DestroyRunning, StopRequest
<1>4. CASE Joined \/ DestroyStopped \/ DestroyUnstarted
  BY <1>4 DEF Joined, DestroyStopped, DestroyUnstarted
<1>5. CASE UNCHANGED <<t_control, owner, overwritten>>
  BY <1>5
<1> QED
  BY <1>1, <1>2, <1>3, <1>4, <1>5
  DEF Next, task_routine, Owner, Enter, CheckStop, CheckResume, SetRunning, CheckSuspend,
      SetPending, Wake, FnReturns, task_start, Finished, Branch, vars

LEMMA StopKeptInvariance == Spec => [](TypeOK /\ StopKept)
<1>1. Init => StopKept
  BY DEF Init, StopKept, Stopping
<1> QED BY <1>1, NextStopKept, TypeCorrect, PTL DEF Spec

(* A stop request is not lost but to an acknowledged resume.               *)
THEOREM StopRequestKept == Spec => []StopKept
  BY StopKeptInvariance, PTL

(* A thread asked to stop has at most four steps left, unless it           *)
(* acknowledges a resume first.                                            *)
THEOREM StopReached == Spec => StopDrawsNear
<1>1. TypeOK /\ StopKept /\ [Next]_vars
      => [Stopping /\ ~overwritten' /\ at' # at => StepsLeft(at') < StepsLeft(at)]_vars
  <2> SUFFICES ASSUME TypeOK, StopKept, [Next]_vars, Stopping, ~overwritten', at' # at
               PROVE  StepsLeft(at') < StepsLeft(at)
    OBVIOUS
  <2> USE DEF Goto, Branch, StepsLeft
  <2>1. overwritten => overwritten'
    BY DEF Next, task_routine, Owner, Enter, CheckStop, CheckResume, SetRunning, AckResume,
           CheckSuspend, SetPending, Wake, FnReturns, task_start, task_suspend, task_resume,
           Asserts, Command, task_stop, DestroyRunning, StopRequest, Joined, DestroyStopped,
           DestroyUnstarted, Finished, vars
  <2>2. t_control = "stop" /\ owner # "idle"
    BY <2>1 DEF StopKept, Stopping
  <2>3. task_routine
    BY <2>2 DEF Next, Owner, task_start, task_suspend, task_resume, Asserts, Command, task_stop,
                DestroyRunning, StopRequest, Joined, DestroyStopped, DestroyUnstarted, Finished, vars
  <2>4. ~AckResume
    BY <2>2 DEF AckResume
  <2>5. CASE Enter \/ SetRunning \/ SetPending \/ Wake
    BY <2>5 DEF Enter, SetRunning, SetPending, Wake
  <2>6. CASE CheckStop \/ CheckResume \/ CheckSuspend
    BY <2>2, <2>6 DEF CheckStop, CheckResume, CheckSuspend
  <2>7. CASE FnReturns
    BY <2>7 DEF FnReturns
  <2> QED BY <2>3, <2>4, <2>5, <2>6, <2>7 DEF task_routine
<1> QED BY <1>1, StopKeptInvariance, PTL DEF Spec, StopDrawsNear

(* The same for a suspend request, from wherever in the loop the thread is *)
(* to the state "pending" or its end.                                      *)
StepsToPending(where) ==
  CASE where \in {"enter", "sleep", "fn"} -> 5
    [] where = "top" -> 4
    [] where = "resume?" -> 3
    [] where = "suspend?" -> 2
    [] where = "pend" -> 1
    [] where = "exit" -> 0
    [] where = "ack" -> 6
    [] OTHER -> 7

SuspendDrawsNear ==
  [][at # "none" /\ t_control = "suspend" /\ t_control' = "suspend" /\ at' # at
     => t_state' = "pending" \/ StepsToPending(at') < StepsToPending(at)]_vars

(* A thread asked to suspend has at most five steps left to "pending",     *)
(* unless the request is replaced or wiped out meanwhile.                  *)
THEOREM SuspendReached == Spec => SuspendDrawsNear
<1>1. TypeOK /\ [Next]_vars
      => [at # "none" /\ t_control = "suspend" /\ t_control' = "suspend" /\ at' # at
          => t_state' = "pending" \/ StepsToPending(at') < StepsToPending(at)]_vars
  <2> SUFFICES ASSUME TypeOK, [Next]_vars, at # "none", t_control = "suspend",
                      t_control' = "suspend", at' # at
               PROVE  t_state' = "pending" \/ StepsToPending(at') < StepsToPending(at)
    OBVIOUS
  <2> USE DEF Goto, Branch, StepsToPending
  <2>1. task_routine
    BY DEF Next, Owner, task_start, task_suspend, task_resume, Asserts, Command, task_stop,
           DestroyRunning, StopRequest, Joined, DestroyStopped, DestroyUnstarted, Finished, vars
  <2>2. ~AckResume
    BY DEF AckResume
  <2>3. CASE Enter \/ SetRunning \/ SetPending \/ Wake
    BY <2>3 DEF Enter, SetRunning, SetPending, Wake
  <2>4. CASE CheckStop \/ CheckResume \/ CheckSuspend
    BY <2>4 DEF CheckStop, CheckResume, CheckSuspend
  <2>5. CASE FnReturns
    BY <2>5 DEF FnReturns
  <2> QED BY <2>1, <2>2, <2>3, <2>4, <2>5 DEF task_routine
<1> QED BY <1>1, TypeCorrect, PTL DEF Spec, SuspendDrawsNear

=============================================================================
