---------------------------- MODULE ModuleLoader ----------------------------
(***************************************************************************)
(* The module loader, src/posix/module.c: shared objects are opened, named *)
(* in the list `modules` and started with their __module_init(), which may *)
(* itself load, rename and unload modules, as may their __module_exit().   *)
(* The calls that are under way are a stack of frames; a step runs up to   *)
(* the next call of an init or exit function, or its return.               *)
(*                                                                         *)
(* A path stands for one file, and for the struct module made for it; files*)
(* of two directories may have the same name.  Parameters, aliases and     *)
(* versions are not looked at by the loader and left out.                  *)
(***************************************************************************)
EXTENDS Integers, Sequences, FiniteSets, SequencesExt

CONSTANTS
  Head_, Stale,  \* cursors: the list head, a freed module
  Paths,
  Filename,   \* path -> name, get_filename()
  Aliases,    \* further names given with module_set_name()
  NotLibs,    \* paths dlopen() refuses
  NoInit, NoExit,  \* paths of libraries without the symbol
  Dir,        \* the directory: a sequence of [path, reg], reg: a file or a link
  MaxDepth    \* bound: calls under way at once

LoaderAssumption ==
  /\ Head_ \notin Paths /\ Stale \notin Paths \cup {Head_}
  /\ NotLibs \cup NoInit \cup NoExit \subseteq Paths
  /\ Filename \in [Paths -> Range(Filename)]
  /\ Dir \in Seq([path : Paths, reg : BOOLEAN])
  /\ MaxDepth \in Nat

Names == Range(Filename) \cup Aliases

VARIABLES
  modules,    \* the list, newest first
  name,       \* path -> m->name, the file name while it is not loaded
  refs,       \* path -> dlopen() calls not undone by dlclose()
  err,        \* _err
  stack,      \* the calls under way, the innermost first
  up,         \* modules whose init function returned 0 (history)
  misused,    \* a module was unloaded that a call under way still needs (history)
  dead        \* freed memory or unmapped code was used

vars == <<modules, name, refs, err, stack, up, misused, dead>>

Init ==
  /\ modules = <<>>
  /\ name = Filename
  /\ refs = [p \in Paths |-> 0]
  /\ err = "ERELOAD"
  /\ stack = <<>>
  /\ up = {}
  /\ misused = FALSE
  /\ dead = FALSE

Top == stack[1]
In(op) == stack # <<>> /\ Top.op = op

(* The application's own code runs, or an init or exit function.  After a  *)
(* misuse no more calls are made: only those under way go on.              *)
Calling == ~misused /\ (stack = <<>> \/ In("init") \/ In("exit"))

HasRoom == Len(stack) < MaxDepth

-----------------------------------------------------------------------------

Answers(m, x) == name[m] = x \/ Filename[m] = x

find_module(x) == \E m \in Range(modules) : Answers(m, x)

(* Where a module of the list is linked.                                   *)
Place(m) == CHOOSE j \in DOMAIN modules : modules[j] = m

(* list_next_entry(), for a module in the list.                            *)
After(m) == IF Place(m) = Len(modules) THEN Head_ ELSE modules[Place(m) + 1]

Unlinked(m) == RemoveAt(modules, Place(m))

(* The calls under way once the names are no longer answered to and the    *)
(* modules in gone are freed: an init or exit function has lost its code,  *)
(* unload_all_modules() its n.  lost and left are histories.               *)
Lose(frames, names, gone) ==
  [i \in DOMAIN frames |->
     LET c == frames[i] IN
     CASE c.op = "dir" -> [c EXCEPT !.lost = @ \cup names]
       [] c.op = "all" -> [c EXCEPT !.left = @ \ gone, !.n = IF @ \in gone THEN Stale ELSE @]
       [] c.op \in {"init", "exit"} -> IF c.m \in gone THEN [op |-> "gone"] ELSE c
       [] OTHER -> c]

(* A load that came back with NULL: load_modules_from_dir() takes note.    *)
Refused(frames) ==
  IF frames # <<>> /\ frames[1].op = "dir"
  THEN [frames EXCEPT ![1].rc = -1] ELSE frames

(* Fault, for the mutation runs (so are the operators below whose comment  *)
(* says "fault"): the result of the last file counts.                      *)
AcceptedAgain(frames) ==
  IF frames # <<>> /\ frames[1].op = "dir"
  THEN [frames EXCEPT ![1].rc = 0] ELSE frames

Accepted(frames) == frames

-----------------------------------------------------------------------------
(* load_module(), up to the call of the init function.                     *)

Fails(reason, frames) ==
  /\ err' = reason
  /\ stack' = Refused(frames)
  /\ UNCHANGED <<modules, name, refs, up, misused, dead>>

Start(path, frames) ==
  /\ refs' = [refs EXCEPT ![path] = @ + 1]
  /\ modules' = <<path>> \o modules
  /\ stack' = <<[op |-> "init", m |-> path]>> \o frames
  /\ UNCHANGED <<name, err, up, misused, dead>>

Load(path, frames) ==
  \/ find_module(Filename[path]) /\ Fails("ERELOAD", frames)
  \/ ~find_module(Filename[path]) /\ path \in NotLibs /\ Fails("EOPEN", frames)
  \/ ~find_module(Filename[path]) /\ path \in NoInit /\ Fails("ESYM", frames)
  \/ /\ ~find_module(Filename[path])
     /\ path \notin NotLibs \cup NoInit
     /\ Start(path, frames)

load_module(path) == Calling /\ HasRoom /\ Load(path, stack)

InitReturns ==
  /\ ~dead
  /\ In("init")
  /\ up' = up \cup {Top.m}
  /\ stack' = Accepted(Tail(stack))
  /\ UNCHANGED <<modules, name, refs, err, misused, dead>>

Failing == ~dead /\ In("init") /\ err' = "EINIT"

InitFails ==
  /\ Failing
  /\ refs' = [refs EXCEPT ![Top.m] = @ - 1]
  /\ modules' = Unlinked(Top.m)
  /\ name' = [name EXCEPT ![Top.m] = Filename[Top.m]]
  /\ stack' = Refused(Tail(stack))
  /\ UNCHANGED <<up, misused, dead>>

-----------------------------------------------------------------------------
(* unload_module(): the exit function, if there is one, then dlclose(),    *)
(* list_del() and free().                                                  *)

(* A call under way comes back to m: its init or exit function runs, or    *)
(* unload_all_modules() has it as its n.                                   *)
Needed(m, frames) ==
  \E i \in DOMAIN frames :
    \/ frames[i].op \in {"init", "exit"} /\ frames[i].m = m
    \/ frames[i].op = "all" /\ frames[i].n = m

(* Fault: with NDEBUG, assert(dlclose(m->handle) == 0) does not close it.  *)
FinishNDEBUG(m, frames) ==
  /\ modules' = Unlinked(m)
  /\ name' = [name EXCEPT ![m] = Filename[m]]
  /\ stack' = Lose(frames, {name[m], Filename[m]}, {m})
  /\ up' = up \ {m}
  /\ UNCHANGED refs

Finish(m, frames) ==
  /\ refs' = [refs EXCEPT ![m] = @ - 1]
  /\ modules' = Unlinked(m)
  /\ name' = [name EXCEPT ![m] = Filename[m]]
  /\ stack' = Lose(frames, {name[m], Filename[m]}, {m})
  /\ up' = up \ {m}

(* Fault: the module is freed before its exit function is called.          *)
UnloadEarly(m, frames) ==
  /\ misused' = (misused \/ Needed(m, frames))
  /\ Finish(m, <<[op |-> "exit", m |-> m]>> \o frames)
  /\ UNCHANGED <<err, dead>>

Unload(m, frames) ==
  /\ misused' = (misused \/ Needed(m, frames))
  /\ IF m \in NoExit
     THEN err' = "ESYM" /\ Finish(m, frames)
     ELSE /\ stack' = <<[op |-> "exit", m |-> m]>> \o frames
          /\ UNCHANGED <<modules, name, refs, err, up>>
  /\ UNCHANGED dead

unload_module(m) == Calling /\ HasRoom /\ m \in Range(modules) /\ Unload(m, stack)

ExitReturns ==
  /\ ~dead
  /\ In("exit")
  /\ Finish(Top.m, Tail(stack))
  /\ UNCHANGED <<err, misused, dead>>

(* A function returns into a module that was closed and freed meanwhile.   *)
ReturnsNowhere ==
  /\ ~dead
  /\ In("gone")
  /\ dead' = TRUE
  /\ UNCHANGED <<modules, name, refs, err, stack, up, misused>>

-----------------------------------------------------------------------------
(* load_modules_from_dir(): one file per step.                             *)

OpendirFails ==
  /\ Calling
  /\ err' = "EOPEN"
  /\ UNCHANGED <<modules, name, refs, stack, up, misused, dead>>

load_modules_from_dir ==
  /\ Calling /\ HasRoom
  /\ stack' = <<[op |-> "dir", rest |-> Dir, rc |-> 0, lost |-> {}]>> \o stack
  /\ UNCHANGED <<modules, name, refs, err, up, misused, dead>>

Reading == ~dead /\ In("dir") /\ Top.rest # <<>>
Entry == Head(Top.rest)
Passed == [stack EXCEPT ![1].rest = Tail(@)]

(* Not a file or a link, or a module answers to the file's name.           *)
SkipEntry ==
  /\ Reading
  /\ ~Entry.reg \/ find_module(Filename[Entry.path])
  /\ stack' = Passed
  /\ UNCHANGED <<modules, name, refs, err, up, misused, dead>>

LoadEntry ==
  /\ Reading
  /\ HasRoom
  /\ Entry.reg /\ ~find_module(Filename[Entry.path])
  /\ Load(Entry.path, Passed)

DirDone ==
  /\ ~dead
  /\ In("dir") /\ Top.rest = <<>>
  /\ stack' = Tail(stack)
  /\ UNCHANGED <<modules, name, refs, err, up, misused, dead>>

-----------------------------------------------------------------------------
(* unload_all_modules(): list_for_each_entry_safe(), pos being unloaded.   *)

First == IF modules = <<>> THEN Head_ ELSE modules[1]

unload_all_modules ==
  /\ Calling /\ HasRoom
  /\ stack' = <<[op |-> "all", n |-> First, left |-> Range(modules)]>> \o stack
  /\ UNCHANGED <<modules, name, refs, err, up, misused, dead>>

(* Fault: the walk stops at the first module.                              *)
NextOnlyOnce(m) == Head_

NextOf(m) == After(m)

UnloadNext ==
  /\ ~dead
  /\ In("all") /\ Top.n # Head_
  /\ HasRoom
  /\ IF Top.n # Stale
     THEN Unload(Top.n, [stack EXCEPT ![1].n = NextOf(Top.n)])
     ELSE dead' = TRUE /\ UNCHANGED <<modules, name, refs, err, stack, up, misused>>

AllDone ==
  /\ ~dead
  /\ In("all") /\ Top.n = Head_
  /\ stack' = Tail(stack)
  /\ UNCHANGED <<modules, name, refs, err, up, misused, dead>>

-----------------------------------------------------------------------------

module_set_name(m, x) ==
  /\ Calling
  /\ m \in Range(modules)
  /\ name' = [name EXCEPT ![m] = x]
  /\ stack' = Lose(stack, {name[m]}, {})
  /\ UNCHANGED <<modules, refs, err, up, misused, dead>>

Next ==
  \/ \E m \in Paths : load_module(m) \/ unload_module(m) \/ \E x \in Names : module_set_name(m, x)
  \/ InitReturns \/ InitFails \/ ExitReturns \/ ReturnsNowhere
  \/ OpendirFails \/ load_modules_from_dir \/ SkipEntry \/ LoadEntry \/ DirDone
  \/ unload_all_modules \/ UnloadNext \/ AllDone

Spec == Init /\ [][Next]_vars

-----------------------------------------------------------------------------

(* The type of the state.                                                  *)
TypeOK ==
  /\ modules \in Seq(Paths)
  /\ name \in [Paths -> Names]
  /\ refs \in [Paths -> Nat]
  /\ err \in {"ERELOAD", "EOPEN", "ESYM", "EINIT"}
  /\ Len(stack) <= MaxDepth
  /\ up \subseteq Range(modules)
  /\ misused \in BOOLEAN /\ dead \in BOOLEAN

(* No library is loaded a second time while it is loaded or being loaded,  *)
(* not from another directory, not by a module's own init function, and    *)
(* not after it was renamed: two modules in the list never have the same   *)
(* file name.                                                              *)
OneCopy ==
  \A i, j \in DOMAIN modules :
    Filename[modules[i]] = Filename[modules[j]] => i = j

(* A file is open exactly while a module of that path is listed, whatever  *)
(* fails and however calls nest: no handle leaks, none is closed twice.    *)
HandlesMatch ==
  \A p \in Paths :
    refs[p] = Cardinality({i \in DOMAIN modules : modules[i] = p})

(* Both: what is open is what is listed, once.                             *)
OpenOnce == OneCopy /\ HandlesMatch

(* The process survives what init and exit functions do to the list, and   *)
(* exit functions run only for modules whose init function has returned 0, *)
(* except that functions must not unload a module whose own function is    *)
(* running, nor the one that unload_all_modules() unloads next.            *)
OrderlyUnlessMisused ==
  ~misused =>
    /\ ~dead
    /\ \A i \in DOMAIN stack : stack[i].op = "exit" => stack[i].m \in up

(* When load_modules_from_dir() returns 0, a module answers to the name of *)
(* every file of the directory, unless it was unloaded or renamed during   *)
(* the call.                                                               *)
DirLoaded ==
  [][DirDone /\ Top.rc = 0
     => \A i \in DOMAIN Dir :
          Dir[i].reg => \/ find_module(Filename[Dir[i].path])
                        \/ Filename[Dir[i].path] \in Top.lost]_vars

(* When unload_all_modules() returns, no module is left that was up when it*)
(* was called; modules that exit functions have loaded may be.             *)
AllUnloaded ==
  [][AllDone /\ ~misused => Top.left \cap Range(modules) = {}]_vars

=============================================================================
