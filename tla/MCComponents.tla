---------------------------- MODULE MCComponents ----------------------------
(***************************************************************************)
(* The library's independent parts, checked in one model: a behaviour is   *)
(* about one of them, its subject, while the others stay as they began.    *)
(* The receive buffer is the module extended, the others are instances;    *)
(* those with proofs are instantiated with them, for ComponentsProofs.     *)
(***************************************************************************)
EXTENDS AtBuf, TLC

VARIABLES
  subject,
  rawbuf, offset_in, offset_out, ring_io, ring_dead,            \* RingBuf
  services, meant, ambiguous,                                   \* SvcHub
  cflag, speed, asked,                                          \* SerialLine
  after, before, pid, loops_at, loop, cur, ends, overlapped, failed,  \* TimerLoops
  clock, timers, timer, timer_at, now, next, pos, n, timer_misused, touched,  \* Timer
  modules, name, refs, err, stack, up, misused, dead            \* ModuleLoader

CONSTANTS
  RingSize, RingChunk,      \* RingBuf's Size and MaxLen
  Funcs, HeaderLen, MaxServices,
  Threads, Loops, None, Head_, Stale,
  Timers, Second, Milli, Timeouts, Repeats, MaxTime,
  MaxDepth, liba, oldliba, libb, text, noinit

(* Callers that leave a byte spare.                                        *)
Ring == INSTANCE RingBuf
        WITH Size <- RingSize, MaxLen <- RingChunk, LeaveGap <- TRUE,
             io <- ring_io, dead <- ring_dead

(* Headers that differ, that begin with one another, and that differ only  *)
(* behind the length a service keeps.                                      *)
MCNames == {<<1>>, <<2>>, <<1, 2>>, <<2, 2>>, <<1, 2, 1>>, <<1, 2, 2>>, <<2, 1, 1>>}

Hub == INSTANCE SvcHub WITH Names <- MCNames

Line == INSTANCE SerialLine

TimerList == INSTANCE TimerLoops WITH Root <- Head_, at <- loops_at

TimerLoop == INSTANCE TimerProofs WITH at <- timer_at, misused <- timer_misused

(* A library in two directories, one without an exit function, a file that *)
(* is no library, and a library without an init function.                  *)
MCPaths == {liba, oldliba, libb, text, noinit}

MCFilename ==
  liba :> "a" @@ oldliba :> "a" @@ libb :> "b" @@ text :> "t" @@ noinit :> "n"

MCDir == <<[path |-> text, reg |-> FALSE], [path |-> libb, reg |-> TRUE],
           [path |-> liba, reg |-> TRUE]>>

Loader == INSTANCE ModuleLoaderProofs
          WITH Paths <- MCPaths, Filename <- MCFilename, Aliases <- {"x"},
               NotLibs <- {text}, NoInit <- {noinit}, NoExit <- {libb}, Dir <- MCDir

ASSUME PartsAssumption ==
  /\ Ring!RingBufAssumption /\ Hub!HubAssumption /\ TimerList!LoopsAssumption
  /\ TimerLoop!TimerAssumption /\ Loader!LoaderAssumption

-----------------------------------------------------------------------------

atbuf == vars
ring == <<rawbuf, offset_in, offset_out, ring_io, ring_dead>>
hub == <<services, meant, ambiguous>>
line == <<cflag, speed, asked>>
loops == <<after, before, pid, loops_at, loop, cur, ends, overlapped, failed>>
timing == <<clock, timers, timer, timer_at, now, next, pos, n, timer_misused, touched>>
loader == <<modules, name, refs, err, stack, up, misused, dead>>
all == <<subject, atbuf, ring, hub, line, loops, timing, loader>>

InitAll ==
  /\ subject \in {"atbuf", "ring", "hub", "line", "loops", "timing", "loader"}
  /\ Init /\ Ring!Init /\ Hub!Init /\ Line!Init
  /\ TimerList!Init /\ TimerLoop!Init /\ Loader!Init

NextAll ==
  /\ UNCHANGED subject
  /\ \/ subject = "atbuf" /\ Next /\ UNCHANGED <<ring, hub, line, loops, timing, loader>>
     \/ subject = "ring" /\ Ring!Next /\ UNCHANGED <<atbuf, hub, line, loops, timing, loader>>
     \/ subject = "hub" /\ Hub!Next /\ UNCHANGED <<atbuf, ring, line, loops, timing, loader>>
     \/ subject = "line" /\ Line!Next /\ UNCHANGED <<atbuf, ring, hub, loops, timing, loader>>
     \/ subject = "loops" /\ TimerList!Next /\ UNCHANGED <<atbuf, ring, hub, line, timing, loader>>
     \/ subject = "timing" /\ TimerLoop!Next /\ UNCHANGED <<atbuf, ring, hub, line, loops, loader>>
     \/ subject = "loader" /\ Loader!Next /\ UNCHANGED <<atbuf, ring, hub, line, loops, timing>>

(* The thread of the timers comes back to timer_loop() and its handlers    *)
(* return; nothing else is promised to go on.                              *)
SpecAll == InitAll /\ [][NextAll]_all /\ WF_timing(TimerLoop!timer_loop)

-----------------------------------------------------------------------------

(* The types of the parts' states; with it the ring buffer's offsets index *)
(* its memory, and atbuf's are never negative.                             *)
TypesOK == TypeOK /\ Ring!TypeOK /\ TimerLoop!TypeOK /\ Loader!TypeOK

(* As long as its callers leave a byte spare, the ring buffer is a         *)
(* first-in first-out queue of bytes: wrapping around is invisible.        *)
RingFifo == Ring!FifoQueue

(* As long as no two headers are prefixes of one another, the service hub  *)
(* removes what was registered under a name and nothing else, and requests *)
(* reach the newest handler of the name they begin with.                   *)
HubActsAsTable == Hub!ActsAsTable

(* A serial line is set as serial_ioctl() was last asked to, except that   *)
(* seven bits with parity come out as eight.                               *)
LineSetAsAsked == Line!SetAsAsked

(* A thread finds its timer loop, and no freed loop is used, unless two    *)
(* threads have been inside timer.c at the same time.                      *)
LoopFoundUnlessOverlapped == TimerList!FoundUnlessOverlapped

(* timer_loop() survives handlers that destroy their own timer, and create,*)
(* start, stop and trigger others; only a handler that destroys the timer  *)
(* the walk comes to next or the thread's last timer, and triggering a     *)
(* timer without a handler, end the process.                               *)
TimerDiesOnlyMisused == TimerLoop!DiesOnlyMisused

(* timer_loop() calls no handler before its time, except within the second *)
(* it is due in, when timer_start() stored a tv_usec of a second or more.  *)
TimerNotEarly == TimerLoop!NotEarly

(* However late timer_loop() comes, a repeating timer keeps its rhythm and *)
(* is not put into the past again.                                         *)
TimerKeepsRhythm == TimerLoop!KeepsRhythm

(* Who sleeps for as long as timer_loop() says wakes up in time, or less   *)
(* than a millisecond late, for every timer that no handler has touched    *)
(* during the walk.                                                        *)
TimerNoOversleep == TimerLoop!NoOversleep

(* A timer whose time has come is run by timer_loop() in the end, unless it*)
(* is stopped, restarted or destroyed before.                              *)
TimerDueRuns == TimerLoop!DueRuns

(* No library is loaded twice, not from another directory, not by a        *)
(* module's own init function and not after it was renamed, and a file is  *)
(* open exactly while a module of that path is listed, whatever            *)
(* load_module() fails at and however calls nest.                          *)
LoaderOpenOnce == Loader!OpenOnce

(* The process survives what init and exit functions do to the list, and   *)
(* only modules that were started have their exit function called, unless a*)
(* function unloads a module whose function is running or the one that     *)
(* unload_all_modules() unloads next.                                      *)
LoaderOrderly == Loader!OrderlyUnlessMisused

(* When load_modules_from_dir() returns 0 a module answers to the name of  *)
(* every file, unless it was unloaded or renamed during the call.          *)
LoaderDirLoaded == Loader!DirLoaded

(* When unload_all_modules() returns, no module is left that was in the    *)
(* list when it was called.                                                *)
LoaderAllUnloaded == Loader!AllUnloaded

=============================================================================
