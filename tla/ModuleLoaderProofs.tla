------------------------- MODULE ModuleLoaderProofs -------------------------
(***************************************************************************)
(* The loader keeps its list in order for any set of files, any directory  *)
(* and any depth of calls.  The invariants say what the calls under way    *)
(* still refer to: that is what the list may not lose under them.          *)
(***************************************************************************)
EXTENDS ModuleLoader, ListLemmas, FiniteSetTheorems, TLAPS

Entries == [path : Paths, reg : BOOLEAN]
CallFrame == [op : {"init", "exit"}, m : Paths]
DirFrame == [op : {"dir"}, rest : Seq(Entries), rc : {0, -1}, lost : SUBSET Names]
AllFrame == [op : {"all"}, n : Paths \cup {Head_, Stale}, left : SUBSET Paths]
GoneFrame == [op : {"gone"}]
Frame == CallFrame \cup DirFrame \cup AllFrame \cup GoneFrame

(* A call that returns to m's code, or reads m next; and one that has seen *)
(* m in the list at all.                                                   *)
Awaits(c, m) == (c.op \in {"init", "exit"} /\ c.m = m) \/ (c.op = "all" /\ c.n = m)
Mentions(c, m) == Awaits(c, m) \/ (c.op = "all" /\ m \in c.left)

(* What is open is what is listed.                                         *)
ListInv ==
  /\ modules \in Seq(Paths)
  /\ OneCopy
  /\ refs \in [Paths -> Nat]
  /\ \A p \in Paths : refs[p] = IF p \in Range(modules) THEN 1 ELSE 0
  /\ up \subseteq Range(modules)

(* The calls know only modules that are listed, and no call has seen a     *)
(* module whose init function was called after it.                         *)
Linked(frames) ==
  \A i \in DOMAIN frames : \A m \in Paths : Mentions(frames[i], m) => m \in Range(modules)

Fresh(frames) ==
  \A i \in DOMAIN frames :
    frames[i].op = "init" =>
      /\ frames[i].m \notin up
      /\ \A j \in DOMAIN frames : j > i => ~Mentions(frames[j], frames[i].m)

(* Without misuse no call has lost anything, and a module being unloaded is*)
(* awaited by no call but the one of its exit function.                    *)
Unharmed(frames) ==
  /\ \A i \in DOMAIN frames :
       /\ frames[i].op # "gone"
       /\ frames[i].op = "all" => frames[i].n # Stale
  /\ \A i \in DOMAIN frames :
       frames[i].op = "exit" =>
         /\ frames[i].m \in up
         /\ \A j \in DOMAIN frames : j > i => ~Awaits(frames[j], frames[i].m)

FramesInv(frames) ==
  /\ frames \in Seq(Frame)
  /\ Linked(frames)
  /\ Fresh(frames)
  /\ ~misused => Unharmed(frames)

(* A module that is not up yet is being started.                           *)
Starting(frames, m) == \E i \in DOMAIN frames : frames[i].op = "init" /\ frames[i].m = m

Started == ~misused => \A m \in Range(modules) \ up : Starting(stack, m)

IInv ==
  /\ ListInv
  /\ FramesInv(stack)
  /\ Started
  /\ name \in [Paths -> Names]
  /\ err \in {"ERELOAD", "EOPEN", "ESYM", "EINIT"}
  /\ Len(stack) <= MaxDepth
  /\ misused \in BOOLEAN /\ dead \in BOOLEAN
  /\ dead => misused

(* unload_all_modules() comes to every module it has left: n stands before *)
(* it in the list, or its exit function has just been called.              *)
NotBefore(m, x) ==
  \E j, k \in DOMAIN modules : j <= k /\ modules[j] = m /\ modules[k] = x

Ahead(frames, i, x) ==
  \/ NotBefore(frames[i].n, x)
  \/ i > 1 /\ frames[i - 1].op = "exit" /\ frames[i - 1].m = x

AllAhead(frames, gone) ==
  \A i \in DOMAIN frames :
    frames[i].op = "all" => \A x \in frames[i].left : x \in gone \/ Ahead(frames, i, x)

AllInv == ~misused => AllAhead(stack, {})

(* load_modules_from_dir() has accounted for every file it has passed: a   *)
(* module answers to its name, and not one that a call above it may still  *)
(* fail to start, except for the file being loaded.                        *)
Answered(frames, j, x) ==
  \E m \in Range(modules) :
    /\ Answers(m, x)
    /\ \A h \in DOMAIN frames : h < j - 1 => ~(frames[h].op = "init" /\ frames[h].m = m)

(* The files load_modules_from_dir() has passed.                           *)
Seen(c) == 1..(Len(Dir) - Len(c.rest))

(* A file it takes for loaded.                                             *)
Counts(c, i) == Dir[i].reg /\ c.rc = 0 /\ Filename[Dir[i].path] \notin c.lost

InDir(c) ==
  /\ Len(c.rest) <= Len(Dir)
  /\ \A i \in DOMAIN c.rest : c.rest[i] = Dir[Len(Dir) - Len(c.rest) + i]

Accounted(frames, j) ==
  /\ InDir(frames[j])
  /\ \A i \in Seen(frames[j]) :
       Counts(frames[j], i) => Answered(frames, j, Filename[Dir[i].path])

DirOK(frames) == \A j \in DOMAIN frames : frames[j].op = "dir" => Accounted(frames, j)

DirInv == DirOK(stack)

-----------------------------------------------------------------------------
(* The list.                                                               *)

LEMMA PlaceParts ==
  ASSUME ListInv, NEW m \in Range(modules)
  PROVE  /\ Place(m) \in DOMAIN modules /\ modules[Place(m)] = m /\ m \in Paths
         /\ \A j \in DOMAIN modules : modules[j] = m => j = Place(m)
<1>1. \E j \in DOMAIN modules : modules[j] = m
  BY DEF Range
<1>2. Place(m) \in DOMAIN modules /\ modules[Place(m)] = m
  BY <1>1 DEF Place
<1>3. m \in Paths
  BY <1>2 DEF ListInv
<1>4. \A j \in DOMAIN modules : modules[j] = m => j = Place(m)
  BY <1>2 DEF ListInv, OneCopy
<1> QED BY <1>2, <1>3, <1>4

(* list_del(): the others stay, in their order.                            *)
LEMMA UnlinkedParts ==
  ASSUME ListInv, NEW m \in Range(modules)
  PROVE  /\ Unlinked(m) \in Seq(Paths)
         /\ Range(Unlinked(m)) = Range(modules) \ {m}
         /\ \A i \in DOMAIN Unlinked(m) :
              /\ (IF i < Place(m) THEN i ELSE i + 1) \in DOMAIN modules
              /\ Unlinked(m)[i] = modules[IF i < Place(m) THEN i ELSE i + 1]
         /\ \A k \in DOMAIN modules : k # Place(m) =>
              /\ (IF k < Place(m) THEN k ELSE k - 1) \in DOMAIN Unlinked(m)
              /\ Unlinked(m)[IF k < Place(m) THEN k ELSE k - 1] = modules[k]
<1> DEFINE u == RemoveAt(modules, Place(m))
<1>1. modules \in Seq(Paths) /\ Place(m) \in DOMAIN modules /\ modules[Place(m)] = m
  BY PlaceParts DEF ListInv
<1>2. \A j \in DOMAIN modules : modules[j] = m => j = Place(m)
  BY PlaceParts
<1>3. /\ u \in Seq(Paths) /\ DOMAIN u = 1..(Len(modules) - 1)
      /\ \A k \in DOMAIN u : u[k] = modules[IF k < Place(m) THEN k ELSE k + 1]
  BY <1>1, RemoveAtParts
<1> HIDE DEF u
<1>4. DOMAIN modules = 1..Len(modules) /\ Len(modules) \in Nat /\ Place(m) \in 1..Len(modules)
  BY <1>1
<1>5. \A i \in DOMAIN u : (IF i < Place(m) THEN i ELSE i + 1) \in DOMAIN modules
  BY <1>3, <1>4
<1>6. ASSUME NEW k \in DOMAIN modules, k # Place(m)
      PROVE  /\ (IF k < Place(m) THEN k ELSE k - 1) \in DOMAIN u
             /\ u[IF k < Place(m) THEN k ELSE k - 1] = modules[k]
  <2>1. CASE k < Place(m)
    BY <1>3, <1>4, <2>1
  <2>2. CASE ~(k < Place(m))
    <3>1. k - 1 \in 1..(Len(modules) - 1) /\ ~(k - 1 < Place(m)) /\ (k - 1) + 1 = k
      BY <1>4, <1>6, <2>2
    <3> QED BY <1>3, <2>2, <3>1
  <2> QED BY <2>1, <2>2
<1>7. \A i \in DOMAIN u : (IF i < Place(m) THEN i ELSE i + 1) # Place(m)
  BY <1>3, <1>4
<1>8. Range(u) = Range(modules) \ {m}
  <2>1. ASSUME NEW x \in Range(u) PROVE x \in Range(modules) /\ x # m
    BY <1>2, <1>3, <1>5, <1>7 DEF Range
  <2>2. ASSUME NEW x \in Range(modules), x # m PROVE x \in Range(u)
    BY <1>1, <1>6, <2>2 DEF Range
  <2> QED BY <2>1, <2>2
<1>9. Unlinked(m) = u
  BY DEF Unlinked, u
<1> QED BY <1>3, <1>5, <1>6, <1>8, <1>9

(* list_next_entry().                                                      *)
LEMMA AfterParts ==
  ASSUME LoaderAssumption, ListInv, NEW m \in Range(modules)
  PROVE  /\ After(m) \in Range(modules) \cup {Head_} /\ After(m) # Stale
         /\ \A x \in Paths : NotBefore(m, x) => x = m \/ NotBefore(After(m), x)
<1>1. /\ modules \in Seq(Paths) /\ Place(m) \in DOMAIN modules
      /\ \A j \in DOMAIN modules : modules[j] = m => j = Place(m)
  BY PlaceParts DEF ListInv
<1>2. DOMAIN modules = 1..Len(modules) /\ Len(modules) \in Nat
  BY <1>1
<1>3. Range(modules) \subseteq Paths
  BY <1>1, SeqParts
<1>4. CASE Place(m) = Len(modules)
  <2>1. After(m) = Head_
    BY <1>4 DEF After
  <2>2. ASSUME NEW x \in Paths, NotBefore(m, x) PROVE x = m
    <3>1. PICK j, k \in DOMAIN modules : j <= k /\ modules[j] = m /\ modules[k] = x
      BY <2>2 DEF NotBefore
    <3>2. j = Place(m)
      BY <1>1, <3>1
    <3>3. k = j
      BY <1>2, <1>4, <3>1, <3>2
    <3> QED BY <3>1, <3>3
  <2>3. Head_ # Stale
    BY DEF LoaderAssumption
  <2> QED BY <2>1, <2>2, <2>3
<1>5. CASE Place(m) # Len(modules)
  <2>1. Place(m) + 1 \in DOMAIN modules
    BY <1>1, <1>2, <1>5
  <2>2. After(m) = modules[Place(m) + 1]
    BY <1>5 DEF After
  <2>3. After(m) \in Range(modules)
    BY <2>1, <2>2 DEF Range
  <2>4. After(m) # Stale
    BY <1>3, <2>3 DEF LoaderAssumption
  <2>5. ASSUME NEW x \in Paths, NotBefore(m, x) PROVE x = m \/ NotBefore(After(m), x)
    <3>1. PICK j, k \in DOMAIN modules : j <= k /\ modules[j] = m /\ modules[k] = x
      BY <2>5 DEF NotBefore
    <3>2. j = Place(m)
      BY <1>1, <3>1
    <3>3. CASE k = j
      BY <3>1, <3>3
    <3>4. CASE k # j
      <4>1. Place(m) + 1 <= k
        BY <1>2, <3>1, <3>2, <3>4
      <4> QED BY <2>1, <2>2, <3>1, <4>1 DEF NotBefore
    <3> QED BY <3>3, <3>4
  <2> QED BY <2>3, <2>4, <2>5
<1> QED BY <1>4, <1>5

(* A new module in front.                                                  *)
LEMMA InFront ==
  ASSUME ListInv, NEW m \in Paths, modules' = <<m>> \o modules
  PROVE  /\ modules' \in Seq(Paths) /\ Range(modules') = Range(modules) \cup {m}
         /\ modules'[1] = m /\ 1 \in DOMAIN modules'
         /\ \A i \in DOMAIN modules : i + 1 \in DOMAIN modules' /\ modules'[i + 1] = modules[i]
         /\ \A i \in DOMAIN modules' :
              i # 1 => i - 1 \in DOMAIN modules /\ modules'[i] = modules[i - 1]
<1>1. modules \in Seq(Paths) /\ <<m>> \in Seq(Paths)
  BY DEF ListInv
<1>2. modules' \in Seq(Paths) /\ Len(modules') = Len(modules) + 1 /\ modules'[1] = m
  BY <1>1
<1>3. \A i \in DOMAIN modules : i + 1 \in DOMAIN modules' /\ modules'[i + 1] = modules[i]
  BY <1>1, <1>2
<1>4. \A i \in DOMAIN modules' :
        i # 1 => i - 1 \in DOMAIN modules /\ modules'[i] = modules[i - 1]
  BY <1>1, <1>2
<1>5. 1 \in DOMAIN modules'
  BY <1>1, <1>2
<1>6. Range(modules') = Range(modules) \cup {m}
  <2>1. ASSUME NEW x \in Range(modules') PROVE x \in Range(modules) \cup {m}
    <3>1. PICK i \in DOMAIN modules' : x = modules'[i]
      BY DEF Range
    <3> QED BY <1>2, <1>4, <3>1 DEF Range
  <2>2. ASSUME NEW x \in Range(modules) PROVE x \in Range(modules')
    BY <1>3 DEF Range
  <2>3. m \in Range(modules')
    BY <1>2, <1>5 DEF Range
  <2> QED BY <2>1, <2>2, <2>3
<1> QED BY <1>2, <1>3, <1>4, <1>5, <1>6

(* dlopen() and list_add() of a file nothing answers for.                  *)
LEMMA StartList ==
  ASSUME LoaderAssumption, ListInv, NEW p \in Paths, ~find_module(Filename[p]), up' = up,
         modules' = <<p>> \o modules, refs' = [refs EXCEPT ![p] = @ + 1]
  PROVE  ListInv' /\ p \notin Range(modules)
<1>1. \A m \in Range(modules) : Filename[m] # Filename[p]
  BY DEF find_module, Answers
<1>2. p \notin Range(modules)
  BY <1>1
<1>3. \A i \in DOMAIN modules : modules[i] \in Range(modules)
  BY DEF Range
<1>4. ASSUME NEW i \in DOMAIN modules', NEW j \in DOMAIN modules',
             Filename[modules'[i]] = Filename[modules'[j]]
      PROVE  i = j
  <2>1. CASE i = 1 \/ j = 1
    BY <1>1, <1>3, <1>4, <2>1, InFront
  <2>2. CASE i # 1 /\ j # 1
    <3>1. /\ i - 1 \in DOMAIN modules /\ modules'[i] = modules[i - 1]
          /\ j - 1 \in DOMAIN modules /\ modules'[j] = modules[j - 1]
      BY <2>2, InFront
    <3>2. i - 1 = j - 1
      BY <1>4, <3>1 DEF ListInv, OneCopy
    <3>3. modules' \in Seq(Paths)
      BY InFront
    <3>4. i \in Nat /\ j \in Nat
      BY <3>3
    <3> QED BY <3>2, <3>4
  <2> QED BY <2>1, <2>2
<1>5. OneCopy'
  BY <1>4 DEF OneCopy
<1>6. modules' \in Seq(Paths) /\ Range(modules') = Range(modules) \cup {p}
  BY InFront
<1>7. refs \in [Paths -> Nat] /\ refs[p] = 0
  BY <1>2 DEF ListInv
<1>8. refs' \in [Paths -> Nat]
  BY <1>7
<1>9. \A q \in Paths : refs'[q] = IF q \in Range(modules') THEN 1 ELSE 0
  <2> TAKE q \in Paths
  <2>1. refs[q] = IF q \in Range(modules) THEN 1 ELSE 0
    BY DEF ListInv
  <2> QED BY <1>2, <1>6, <1>7, <2>1
<1>10. up' \subseteq Range(modules')
  BY <1>6 DEF ListInv
<1> QED BY <1>2, <1>5, <1>6, <1>8, <1>9, <1>10 DEF ListInv

(* dlclose() and list_del() of a module that is listed.                    *)
LEMMA FinishList ==
  ASSUME LoaderAssumption, ListInv, NEW m \in Range(modules), up' \subseteq Range(modules) \ {m},
         modules' = Unlinked(m), refs' = [refs EXCEPT ![m] = @ - 1]
  PROVE  ListInv' /\ Range(modules') = Range(modules) \ {m} /\ m \in Paths
<1>1. modules' \in Seq(Paths) /\ Range(modules') = Range(modules) \ {m}
  BY UnlinkedParts
<1>2. m \in Paths /\ Place(m) \in DOMAIN modules /\ modules \in Seq(Paths)
  BY PlaceParts DEF ListInv
<1>3. OneCopy'
  <2>1. ASSUME NEW i \in DOMAIN modules', NEW j \in DOMAIN modules',
               Filename[modules'[i]] = Filename[modules'[j]]
        PROVE  i = j
    <3> DEFINE at(k) == IF k < Place(m) THEN k ELSE k + 1
    <3>1. /\ at(i) \in DOMAIN modules /\ modules'[i] = modules[at(i)]
          /\ at(j) \in DOMAIN modules /\ modules'[j] = modules[at(j)]
      BY UnlinkedParts
    <3>2. at(i) = at(j)
      <4> HIDE DEF at
      <4> QED BY <2>1, <3>1 DEF ListInv, OneCopy
    <3>3. i \in Nat /\ j \in Nat /\ Place(m) \in Nat
      BY <1>1, <1>2
    <3> QED BY <3>2, <3>3
  <2> QED BY <2>1 DEF OneCopy
<1>4. refs \in [Paths -> Nat] /\ refs[m] = 1
  BY <1>2 DEF ListInv
<1>5. refs' \in [Paths -> Nat]
  BY <1>2, <1>4
<1>6. \A q \in Paths : refs'[q] = IF q \in Range(modules') THEN 1 ELSE 0
  <2> TAKE q \in Paths
  <2>1. refs[q] = IF q \in Range(modules) THEN 1 ELSE 0
    BY DEF ListInv
  <2> QED BY <1>1, <1>2, <1>4, <2>1
<1> QED BY <1>1, <1>2, <1>3, <1>5, <1>6 DEF ListInv

-----------------------------------------------------------------------------
(* The frames.                                                             *)

LEMMA FrameParts ==
  ASSUME NEW c \in Frame
  PROVE  /\ c.op \in {"init", "exit", "dir", "all", "gone"}
         /\ c.op \in {"init", "exit"} => c \in CallFrame /\ c.m \in Paths
         /\ c.op = "dir" => c \in DirFrame
         /\ c.op = "all" => c \in AllFrame
<1>1. CASE c \in CallFrame
  BY <1>1 DEF CallFrame
<1>2. CASE c \in DirFrame
  BY <1>2 DEF DirFrame
<1>3. CASE c \in AllFrame
  BY <1>3 DEF AllFrame
<1>4. CASE c \in GoneFrame
  BY <1>4 DEF GoneFrame
<1> QED BY <1>1, <1>2, <1>3, <1>4 DEF Frame

LEMMA PushParts ==
  ASSUME NEW frames \in Seq(Frame), NEW c \in Frame
  PROVE  /\ <<c>> \o frames \in Seq(Frame)
         /\ Len(<<c>> \o frames) = Len(frames) + 1
         /\ (<<c>> \o frames)[1] = c /\ 1 \in DOMAIN (<<c>> \o frames)
         /\ \A i \in DOMAIN frames :
              i + 1 \in DOMAIN (<<c>> \o frames) /\ (<<c>> \o frames)[i + 1] = frames[i]
         /\ \A i \in DOMAIN (<<c>> \o frames) :
              i # 1 => i - 1 \in DOMAIN frames /\ (<<c>> \o frames)[i] = frames[i - 1]
<1>1. <<c>> \in Seq(Frame)
  OBVIOUS
<1>2. <<c>> \o frames \in Seq(Frame) /\ Len(<<c>> \o frames) = Len(frames) + 1
  BY <1>1
<1> QED BY <1>1, <1>2

LEMMA PopParts ==
  ASSUME NEW frames \in Seq(Frame), frames # <<>>
  PROVE  /\ Tail(frames) \in Seq(Frame) /\ Len(Tail(frames)) = Len(frames) - 1
         /\ frames[1] \in Frame /\ 1 \in DOMAIN frames
         /\ \A i \in DOMAIN Tail(frames) :
              i + 1 \in DOMAIN frames /\ Tail(frames)[i] = frames[i + 1]
         /\ \A i \in DOMAIN frames :
              i # 1 => i - 1 \in DOMAIN Tail(frames) /\ Tail(frames)[i - 1] = frames[i]
  OBVIOUS

(* What a call under way, c, loses when names and modules go.              *)
Losing(c, d, names, gone) ==
  /\ c.op = "dir" =>
       /\ d.op = "dir" /\ d.rest = c.rest /\ d.rc = c.rc
       /\ d.lost = c.lost \cup names
  /\ c.op = "all" =>
       /\ d.op = "all" /\ d.left = c.left \ gone
       /\ d.n = IF c.n \in gone THEN Stale ELSE c.n
  /\ c.op \in {"init", "exit"} =>
       IF c.m \in gone THEN d.op = "gone" ELSE d = c
  /\ c.op = "gone" => d.op = "gone"

LEMMA LoseParts ==
  ASSUME LoaderAssumption, NEW frames \in Seq(Frame), NEW names, names \subseteq Names,
         NEW gone, gone \subseteq Paths
  PROVE  /\ Lose(frames, names, gone) \in Seq(Frame)
         /\ Len(Lose(frames, names, gone)) = Len(frames)
         /\ DOMAIN Lose(frames, names, gone) = DOMAIN frames
         /\ \A i \in DOMAIN frames :
              Losing(frames[i], Lose(frames, names, gone)[i], names, gone)
<1> DEFINE s == Lose(frames, names, gone)
<1>1. DOMAIN s = DOMAIN frames
  BY DEF Lose
<1>2. ASSUME NEW i \in DOMAIN frames, frames[i].op = "dir"
      PROVE  /\ s[i] = [frames[i] EXCEPT !.lost = @ \cup names]
             /\ s[i] \in DirFrame /\ s[i].op = "dir" /\ s[i].rest = frames[i].rest
             /\ s[i].rc = frames[i].rc /\ s[i].lost = frames[i].lost \cup names
  <2>1. s[i] = [frames[i] EXCEPT !.lost = @ \cup names]
    BY <1>2 DEF Lose
  <2>2. frames[i] \in DirFrame
    BY <1>2, FrameParts
  <2> HIDE DEF s
  <2> QED BY <1>2, <2>1, <2>2 DEF DirFrame
<1>3. ASSUME NEW i \in DOMAIN frames, frames[i].op = "all"
      PROVE  /\ s[i] \in AllFrame /\ s[i].op = "all" /\ s[i].left = frames[i].left \ gone
             /\ s[i].n = IF frames[i].n \in gone THEN Stale ELSE frames[i].n
  <2>1. s[i] = [frames[i] EXCEPT !.left = @ \ gone, !.n = IF @ \in gone THEN Stale ELSE @]
    BY <1>3 DEF Lose
  <2>2. frames[i] \in AllFrame
    BY <1>3, FrameParts
  <2> HIDE DEF s
  <2> QED BY <1>3, <2>1, <2>2, ZenonT(60) DEF AllFrame
<1>4. ASSUME NEW i \in DOMAIN frames, frames[i].op \in {"init", "exit"}
      PROVE  s[i] = IF frames[i].m \in gone THEN [op |-> "gone"] ELSE frames[i]
  BY <1>4 DEF Lose
<1>5. ASSUME NEW i \in DOMAIN frames, frames[i].op = "gone"
      PROVE  s[i] = frames[i]
  BY <1>5 DEF Lose
<1>6. s = [i \in DOMAIN frames |-> s[i]]
  BY DEF Lose
<1> HIDE DEF s
<1>7. ASSUME NEW i \in DOMAIN frames PROVE s[i] \in Frame
  <2>1. frames[i] \in Frame /\ frames[i].op \in {"init", "exit", "dir", "all", "gone"}
    BY FrameParts
  <2>2. [op |-> "gone"] \in Frame
    BY DEF Frame, GoneFrame
  <2> QED BY <1>2, <1>3, <1>4, <1>5, <2>1, <2>2 DEF Frame
<1>8. s \in Seq(Frame) /\ Len(s) = Len(frames)
  <2>1. DOMAIN frames = 1..Len(frames) /\ Len(frames) \in Nat
    OBVIOUS
  <2>2. s \in [1..Len(frames) -> Frame]
    BY <1>1, <1>6, <1>7, <2>1
  <2> QED BY <2>1, <2>2
<1>9. ASSUME NEW i \in DOMAIN frames, frames[i].op \in {"init", "exit"}
      PROVE  IF frames[i].m \in gone THEN s[i].op = "gone" ELSE s[i] = frames[i]
  BY <1>4, <1>9
<1>10. s = Lose(frames, names, gone)
  BY DEF s
<1>11. \A i \in DOMAIN frames : Losing(frames[i], s[i], names, gone)
  BY <1>2, <1>3, <1>5, <1>9 DEF Losing
<1> QED BY <1>1, <1>8, <1>10, <1>11

-----------------------------------------------------------------------------
(* The calls under way and what they know.                                 *)

LEMMA NeededIs ==
  ASSUME NEW m, NEW frames
  PROVE  Needed(m, frames) <=> \E i \in DOMAIN frames : Awaits(frames[i], m)
  BY DEF Needed, Awaits

(* A call returns.                                                         *)
LEMMA PopInv ==
  ASSUME FramesInv(stack), stack # <<>>
  PROVE  FramesInv(Tail(stack))
<1> DEFINE s == Tail(stack)
<1>1. stack \in Seq(Frame)
  BY DEF FramesInv
<1>2. s \in Seq(Frame) /\ \A i \in DOMAIN s : i + 1 \in DOMAIN stack /\ s[i] = stack[i + 1] /\ i \in Nat
  BY <1>1
<1> HIDE DEF s
<1>3. Linked(s)
  BY <1>2 DEF FramesInv, Linked
<1>4. \A i, j \in DOMAIN s : j > i => j + 1 > i + 1
  BY <1>2
<1>5. Fresh(s)
  BY <1>2, <1>4 DEF FramesInv, Fresh
<1>6. ~misused => Unharmed(s)
  BY <1>2, <1>4 DEF FramesInv, Unharmed
<1> QED BY <1>2, <1>3, <1>5, <1>6 DEF FramesInv, s

(* The innermost call goes on by itself.                                   *)
LEMMA TopInv ==
  ASSUME NEW frames, FramesInv(frames), frames # <<>>, NEW s \in Seq(Frame), DOMAIN s = DOMAIN frames,
         \A i \in DOMAIN s : i # 1 => s[i] = frames[i],
         s[1].op \in {"dir", "all"},
         s[1].op = "all" => s[1].n # Stale,
         \A m \in Paths : Mentions(s[1], m) => m \in Range(modules)
  PROVE  FramesInv(s)
<1>1. Linked(s)
  BY DEF FramesInv, Linked
<1>2. \A i, j \in DOMAIN s : j > i => j # 1
  OBVIOUS
<1>3. Fresh(s)
  <2> SUFFICES ASSUME NEW i \in DOMAIN s, s[i].op = "init"
               PROVE  /\ s[i].m \notin up
                      /\ \A j \in DOMAIN s : j > i => ~Mentions(s[j], s[i].m)
    BY DEF Fresh
  <2>1. i # 1
    OBVIOUS
  <2> QED BY <1>2, <2>1 DEF FramesInv, Fresh
<1>4. ASSUME ~misused PROVE Unharmed(s)
  <2>1. ASSUME NEW i \in DOMAIN s PROVE s[i].op # "gone" /\ (s[i].op = "all" => s[i].n # Stale)
    BY <1>4 DEF FramesInv, Unharmed
  <2>2. ASSUME NEW i \in DOMAIN s, s[i].op = "exit"
        PROVE  s[i].m \in up /\ \A j \in DOMAIN s : j > i => ~Awaits(s[j], s[i].m)
    <3>1. i # 1
      BY <2>2
    <3> QED BY <1>2, <1>4, <2>2, <3>1 DEF FramesInv, Unharmed
  <2> QED BY <2>1, <2>2 DEF Unharmed
<1> QED BY <1>1, <1>3, <1>4 DEF FramesInv

(* An init function is called.                                             *)
LEMMA StartFrames ==
  ASSUME ListInv, NEW frames, FramesInv(frames), NEW p \in Paths, p \notin Range(modules),
         modules' = <<p>> \o modules, up' = up, misused' = misused,
         stack' = <<[op |-> "init", m |-> p]>> \o frames
  PROVE  FramesInv(stack)'
<1> DEFINE c == [op |-> "init", m |-> p]
<1>1. c \in Frame /\ c.op = "init" /\ c.m = p
  BY DEF Frame, CallFrame
<1>2. frames \in Seq(Frame)
  BY DEF FramesInv
<1> HIDE DEF c
<1>3. /\ stack' \in Seq(Frame) /\ stack'[1] = c /\ 1 \in DOMAIN stack'
      /\ \A i \in DOMAIN stack' : i # 1 => i - 1 \in DOMAIN frames /\ stack'[i] = frames[i - 1]
  BY <1>1, <1>2, PushParts DEF c
<1>4. Range(modules') = Range(modules) \cup {p}
  BY InFront
<1>5. \A i, j \in DOMAIN stack' : j > i => j # 1 /\ (i # 1 => j - 1 > i - 1)
  BY <1>3
<1>6. \A i \in DOMAIN frames : ~Mentions(frames[i], p)
  BY DEF FramesInv, Linked
<1>7. p \notin up
  BY DEF ListInv
<1>8. ASSUME NEW i \in DOMAIN stack', NEW m \in Paths, Mentions(stack'[i], m)
      PROVE  m \in Range(modules')
  <2>1. CASE i = 1
    BY <1>1, <1>3, <1>4, <1>8, <2>1 DEF Mentions, Awaits
  <2>2. CASE i # 1
    BY <1>3, <1>4, <1>8, <2>2 DEF FramesInv, Linked
  <2> QED BY <2>1, <2>2
<1>9. ASSUME NEW i \in DOMAIN stack', stack'[i].op = "init"
      PROVE  /\ stack'[i].m \notin up
             /\ \A j \in DOMAIN stack' : j > i => ~Mentions(stack'[j], stack'[i].m)
  <2>1. CASE i = 1
    BY <1>1, <1>3, <1>5, <1>6, <1>7, <2>1
  <2>2. CASE i # 1
    BY <1>3, <1>5, <1>9, <2>2 DEF FramesInv, Fresh
  <2> QED BY <2>1, <2>2
<1>10. ASSUME ~misused, NEW i \in DOMAIN stack'
       PROVE  /\ stack'[i].op # "gone"
              /\ stack'[i].op = "all" => stack'[i].n # Stale
  <2>1. CASE i = 1
    BY <1>1, <1>3, <2>1
  <2>2. CASE i # 1
    BY <1>3, <1>10, <2>2 DEF FramesInv, Unharmed
  <2> QED BY <2>1, <2>2
<1>11. ASSUME ~misused, NEW i \in DOMAIN stack', stack'[i].op = "exit"
       PROVE  /\ stack'[i].m \in up
              /\ \A j \in DOMAIN stack' : j > i => ~Awaits(stack'[j], stack'[i].m)
  <2>1. i # 1
    BY <1>1, <1>3, <1>11
  <2> QED BY <1>3, <1>5, <1>11, <2>1 DEF FramesInv, Unharmed
<1>12. Linked(stack)'
  BY <1>8 DEF Linked, Mentions, Awaits
<1>13. Fresh(stack)'
  BY <1>9 DEF Fresh, Mentions, Awaits
<1>14. ~misused' => Unharmed(stack)'
  BY <1>10, <1>11 DEF Unharmed, Awaits
<1> QED BY <1>3, <1>12, <1>13, <1>14 DEF FramesInv

(* An exit function is called.                                             *)
LEMMA ExitFrames ==
  ASSUME ListInv, NEW frames, FramesInv(frames), NEW p \in Range(modules),
         misused' = (misused \/ Needed(p, frames)), ~misused' => p \in up,
         modules' = modules, up' = up,
         stack' = <<[op |-> "exit", m |-> p]>> \o frames
  PROVE  FramesInv(stack)'
<1> DEFINE c == [op |-> "exit", m |-> p]
<1>1. p \in Paths
  BY PlaceParts
<1>2. c \in Frame /\ c.op = "exit" /\ c.m = p
  BY <1>1 DEF Frame, CallFrame
<1>3. frames \in Seq(Frame)
  BY DEF FramesInv
<1> HIDE DEF c
<1>4. /\ stack' \in Seq(Frame) /\ stack'[1] = c /\ 1 \in DOMAIN stack'
      /\ \A i \in DOMAIN stack' : i # 1 => i - 1 \in DOMAIN frames /\ stack'[i] = frames[i - 1]
  BY <1>2, <1>3, PushParts DEF c
<1>5. \A i, j \in DOMAIN stack' : j > i => j # 1 /\ (i # 1 => j - 1 > i - 1)
  BY <1>4
<1>6. ASSUME ~misused' PROVE ~misused /\ \A i \in DOMAIN frames : ~Awaits(frames[i], p)
  BY <1>6, NeededIs
<1>7. ASSUME NEW i \in DOMAIN stack', NEW m \in Paths, Mentions(stack'[i], m)
      PROVE  m \in Range(modules)
  <2>1. CASE i = 1
    BY <1>2, <1>4, <1>7, <2>1 DEF Mentions, Awaits
  <2>2. CASE i # 1
    BY <1>4, <1>7, <2>2 DEF FramesInv, Linked
  <2> QED BY <2>1, <2>2
<1>8. ASSUME NEW i \in DOMAIN stack', stack'[i].op = "init"
      PROVE  /\ stack'[i].m \notin up
             /\ \A j \in DOMAIN stack' : j > i => ~Mentions(stack'[j], stack'[i].m)
  <2>1. i # 1
    BY <1>2, <1>4, <1>8
  <2> QED BY <1>4, <1>5, <1>8, <2>1 DEF FramesInv, Fresh
<1>9. ASSUME ~misused', NEW i \in DOMAIN stack'
      PROVE  /\ stack'[i].op # "gone"
             /\ stack'[i].op = "all" => stack'[i].n # Stale
  <2>1. CASE i = 1
    BY <1>2, <1>4, <2>1
  <2>2. CASE i # 1
    BY <1>4, <1>6, <1>9, <2>2 DEF FramesInv, Unharmed
  <2> QED BY <2>1, <2>2
<1>10. ASSUME ~misused', NEW i \in DOMAIN stack', stack'[i].op = "exit"
       PROVE  /\ stack'[i].m \in up
              /\ \A j \in DOMAIN stack' : j > i => ~Awaits(stack'[j], stack'[i].m)
  <2>1. CASE i = 1
    BY <1>2, <1>4, <1>5, <1>6, <1>10, <2>1
  <2>2. CASE i # 1
    BY <1>4, <1>5, <1>6, <1>10, <2>2 DEF FramesInv, Unharmed
  <2> QED BY <2>1, <2>2
<1>11. Linked(stack)'
  BY <1>7 DEF Linked, Mentions, Awaits
<1>12. Fresh(stack)'
  BY <1>8 DEF Fresh, Mentions, Awaits
<1>13. ~misused' => Unharmed(stack)'
  BY <1>9, <1>10 DEF Unharmed, Awaits
<1> QED BY <1>4, <1>11, <1>12, <1>13 DEF FramesInv

(* A call that changes nothing yet.                                        *)
LEMMA PlainFrames ==
  ASSUME FramesInv(stack), NEW c \in Frame, c.op \in {"dir", "all"},
         c.op = "all" => c.n # Stale,
         \A m \in Paths : Mentions(c, m) => m \in Range(modules),
         UNCHANGED <<modules, up, misused>>,
         stack' = <<c>> \o stack
  PROVE  FramesInv(stack)'
<1>1. stack \in Seq(Frame)
  BY DEF FramesInv
<1>2. /\ stack' \in Seq(Frame) /\ stack'[1] = c /\ 1 \in DOMAIN stack'
      /\ \A i \in DOMAIN stack' : i # 1 => i - 1 \in DOMAIN stack /\ stack'[i] = stack[i - 1]
  BY <1>1, PushParts
<1>3. \A i, j \in DOMAIN stack' : j > i => j # 1 /\ (i # 1 => j - 1 > i - 1)
  BY <1>2
<1>4. ASSUME NEW i \in DOMAIN stack', NEW m \in Paths, Mentions(stack'[i], m)
      PROVE  m \in Range(modules)
  BY <1>2, <1>4 DEF FramesInv, Linked
<1>5. ASSUME NEW i \in DOMAIN stack', stack'[i].op = "init"
      PROVE  /\ stack'[i].m \notin up
             /\ \A j \in DOMAIN stack' : j > i => ~Mentions(stack'[j], stack'[i].m)
  <2>1. i # 1
    BY <1>2, <1>5
  <2> QED BY <1>2, <1>3, <1>5, <2>1 DEF FramesInv, Fresh
<1>6. ASSUME ~misused, NEW i \in DOMAIN stack'
      PROVE  /\ stack'[i].op # "gone"
             /\ stack'[i].op = "all" => stack'[i].n # Stale
  BY <1>2, <1>6 DEF FramesInv, Unharmed
<1>7. ASSUME ~misused, NEW i \in DOMAIN stack', stack'[i].op = "exit"
      PROVE  /\ stack'[i].m \in up
             /\ \A j \in DOMAIN stack' : j > i => ~Awaits(stack'[j], stack'[i].m)
  <2>1. i # 1
    BY <1>2, <1>7
  <2> QED BY <1>2, <1>3, <1>7, <2>1 DEF FramesInv, Unharmed
<1>8. Linked(stack)'
  BY <1>4 DEF Linked, Mentions, Awaits
<1>9. Fresh(stack)'
  BY <1>5 DEF Fresh, Mentions, Awaits
<1>10. ~misused' => Unharmed(stack)'
  BY <1>6, <1>7 DEF Unharmed, Awaits
<1> QED BY <1>2, <1>8, <1>9, <1>10 DEF FramesInv

(* Modules are freed, or names given up, under the calls.                  *)
LEMMA LoseFrames ==
  ASSUME LoaderAssumption, NEW frames, FramesInv(frames), NEW gone, gone \subseteq Paths,
         NEW names, names \subseteq Names, Range(modules') = Range(modules) \ gone, up' = up \ gone,
         ~misused' => ~misused /\ \A m \in gone, i \in DOMAIN frames : ~Awaits(frames[i], m),
         stack' = Lose(frames, names, gone)
  PROVE  FramesInv(stack)'
<1>1. frames \in Seq(Frame)
  BY DEF FramesInv
<1>2. stack' \in Seq(Frame) /\ DOMAIN stack' = DOMAIN frames
  BY <1>1, LoseParts
<1>3. \A i \in DOMAIN frames : frames[i].op \in {"init", "exit", "dir", "all", "gone"}
  BY <1>1, FrameParts
<1>4. ASSUME NEW i \in DOMAIN frames
      PROVE  /\ frames[i].op = "dir" => stack'[i].op = "dir"
             /\ frames[i].op = "gone" => stack'[i].op = "gone"
             /\ frames[i].op = "all" =>
                  /\ stack'[i].op = "all" /\ stack'[i].left = frames[i].left \ gone
                  /\ stack'[i].n = IF frames[i].n \in gone THEN Stale ELSE frames[i].n
             /\ frames[i].op \in {"init", "exit"} =>
                  IF frames[i].m \in gone THEN stack'[i].op = "gone" ELSE stack'[i] = frames[i]
  <2>1. Losing(frames[i], stack'[i], names, gone)
    BY <1>1, LoseParts
  <2> QED BY <2>1 DEF Losing
<1>5. Stale \notin Paths
  BY DEF LoaderAssumption
<1>6. ASSUME NEW i \in DOMAIN frames, NEW m \in Paths
      PROVE  /\ Awaits(stack'[i], m) => Awaits(frames[i], m) /\ m \notin gone
             /\ Mentions(stack'[i], m) => Mentions(frames[i], m) /\ m \notin gone
  <2>1. CASE frames[i].op \in {"dir", "gone"}
    BY <1>4, <2>1 DEF Awaits, Mentions
  <2>2. CASE frames[i].op = "all"
    BY <1>4, <1>5, <2>2 DEF Awaits, Mentions
  <2>3. CASE frames[i].op \in {"init", "exit"}
    BY <1>4, <2>3 DEF Awaits, Mentions
  <2> QED BY <1>3, <2>1, <2>2, <2>3
<1>7. ASSUME NEW i \in DOMAIN frames, stack'[i].op \in {"init", "exit"}
      PROVE  stack'[i] = frames[i] /\ frames[i].m \notin gone /\ frames[i].m \in Paths
  <2>1. frames[i].op \in {"init", "exit"}
    BY <1>3, <1>4, <1>7
  <2>2. frames[i].m \in Paths
    BY <1>1, <2>1, FrameParts
  <2> QED BY <1>4, <1>7, <2>1, <2>2
<1>8. ASSUME NEW i \in DOMAIN frames, NEW m \in Paths, Mentions(stack'[i], m)
      PROVE  m \in Range(modules')
  BY <1>6, <1>8 DEF FramesInv, Linked
<1>9. ASSUME NEW i \in DOMAIN frames, stack'[i].op = "init"
      PROVE  /\ stack'[i].m \notin up'
             /\ \A j \in DOMAIN frames : j > i => ~Mentions(stack'[j], stack'[i].m)
  <2>1. stack'[i] = frames[i] /\ frames[i].m \in Paths
    BY <1>7, <1>9
  <2>2. frames[i].m \notin up /\ \A j \in DOMAIN frames : j > i => ~Mentions(frames[j], frames[i].m)
    BY <1>9, <2>1 DEF FramesInv, Fresh
  <2> QED BY <1>6, <2>1, <2>2
<1>10. ASSUME ~misused', NEW i \in DOMAIN frames
       PROVE  /\ stack'[i].op # "gone"
              /\ stack'[i].op = "all" => stack'[i].n # Stale
  <2>1. /\ frames[i].op # "gone"
        /\ frames[i].op = "all" => frames[i].n # Stale
    BY <1>10 DEF FramesInv, Unharmed
  <2>2. \A m \in gone : ~Awaits(frames[i], m)
    BY <1>10
  <2>3. CASE frames[i].op = "dir"
    BY <1>4, <2>3
  <2>4. CASE frames[i].op = "all"
    BY <1>4, <2>1, <2>2, <2>4 DEF Awaits
  <2>5. CASE frames[i].op \in {"init", "exit"}
    <3>1. frames[i].m \notin gone
      BY <2>2, <2>5 DEF Awaits
    <3> QED BY <1>4, <2>5, <3>1
  <2> QED BY <1>3, <2>1, <2>3, <2>4, <2>5
<1>11. ASSUME ~misused', NEW i \in DOMAIN frames, stack'[i].op = "exit"
       PROVE  /\ stack'[i].m \in up'
              /\ \A j \in DOMAIN frames : j > i => ~Awaits(stack'[j], stack'[i].m)
  <2>1. stack'[i] = frames[i] /\ frames[i].m \in Paths /\ frames[i].m \notin gone
    BY <1>7, <1>11
  <2>2. frames[i].m \in up /\ \A j \in DOMAIN frames : j > i => ~Awaits(frames[j], frames[i].m)
    BY <1>11, <2>1 DEF FramesInv, Unharmed
  <2> QED BY <1>6, <2>1, <2>2
<1>12. Linked(stack)'
  BY <1>2, <1>8 DEF Linked, Mentions, Awaits
<1>13. Fresh(stack)'
  BY <1>2, <1>9 DEF Fresh, Mentions, Awaits
<1>14. ~misused' => Unharmed(stack)'
  BY <1>2, <1>10, <1>11 DEF Unharmed, Awaits
<1> QED BY <1>2, <1>12, <1>13, <1>14 DEF FramesInv

(* load_modules_from_dir() takes note of a failure.                        *)
LEMMA RefusedInv ==
  ASSUME NEW frames, FramesInv(frames)
  PROVE  /\ FramesInv(Refused(frames))
         /\ DOMAIN Refused(frames) = DOMAIN frames /\ Len(Refused(frames)) = Len(frames)
         /\ \A i \in DOMAIN frames :
              /\ Refused(frames)[i].op = frames[i].op
              /\ frames[i].op # "dir" => Refused(frames)[i] = frames[i]
<1>1. frames \in Seq(Frame)
  BY DEF FramesInv
<1>2. CASE frames # <<>> /\ frames[1].op = "dir"
  <2> DEFINE c == [frames[1] EXCEPT !.rc = -1]
             s == [frames EXCEPT ![1] = c]
  <2>1. 1 \in DOMAIN frames /\ frames[1] \in DirFrame
    BY <1>1, <1>2, FrameParts
  <2>2. c \in DirFrame /\ c.op = "dir"
    BY <2>1 DEF DirFrame
  <2>3. c \in Frame
    BY <2>2 DEF Frame
  <2>4. Refused(frames) = s
    BY <1>2 DEF Refused
  <2> HIDE DEF c
  <2>5. s \in Seq(Frame) /\ DOMAIN s = DOMAIN frames /\ Len(s) = Len(frames)
    BY <1>1, <2>1, <2>3
  <2>6. s[1] = c /\ \A i \in DOMAIN s : i # 1 => s[i] = frames[i]
    BY <1>1, <2>1
  <2> HIDE DEF s
  <2>7. \A m \in Paths : ~Mentions(s[1], m)
    BY <2>2, <2>6 DEF Mentions, Awaits
  <2>8. FramesInv(s)
    BY <1>2, <2>2, <2>5, <2>6, <2>7, TopInv
  <2> QED BY <1>2, <2>2, <2>4, <2>5, <2>6, <2>8
<1>3. CASE ~(frames # <<>> /\ frames[1].op = "dir")
  BY <1>3 DEF Refused
<1> QED BY <1>2, <1>3

LEMMA StayInv ==
  ASSUME NEW s, FramesInv(s), UNCHANGED <<modules, up, misused>>, stack' = s
  PROVE  FramesInv(stack)'
  BY DEF FramesInv, Linked, Fresh, Unharmed, Mentions, Awaits

LEMMA StartingKept ==
  ASSUME NEW s, NEW t, NEW m, DOMAIN s = DOMAIN t, Starting(s, m),
         \A i \in DOMAIN s : s[i].op = "init" => t[i] = s[i]
  PROVE  Starting(t, m)
  BY DEF Starting

-----------------------------------------------------------------------------
(* The operations that other operations use keep the invariant.            *)

LEMMA TopParts ==
  ASSUME LoaderAssumption, IInv, stack # <<>>
  PROVE  /\ stack \in Seq(Frame) /\ 1 \in DOMAIN stack /\ Top \in Frame
         /\ Top.op \in {"init", "exit"} => Top.m \in Paths /\ Top.m \in Range(modules)
         /\ \A i \in DOMAIN stack : i # 1 => i > 1
         /\ Len(Tail(stack)) <= MaxDepth /\ FramesInv(Tail(stack))
<1>1. stack \in Seq(Frame)
  BY DEF IInv, FramesInv
<1>2. 1 \in DOMAIN stack /\ stack[1] \in Frame /\ Len(stack) \in Nat /\ Len(Tail(stack)) = Len(stack) - 1
  BY <1>1
<1>3. Top.op \in {"init", "exit"} => Top.m \in Paths
  BY <1>2, FrameParts DEF Top
<1>4. Top.op \in {"init", "exit"} => Mentions(Top, Top.m)
  BY DEF Mentions, Awaits
<1>5. Top.op \in {"init", "exit"} => Top.m \in Range(modules)
  BY <1>2, <1>3, <1>4 DEF IInv, FramesInv, Linked, Top
<1>6. \A i \in DOMAIN stack : i # 1 => i > 1
  BY <1>1
<1>7. Len(Tail(stack)) <= MaxDepth
  <2>1. Len(stack) <= MaxDepth /\ MaxDepth \in Nat
    BY DEF IInv, LoaderAssumption
  <2> QED BY <1>2, <2>1
<1>8. FramesInv(Tail(stack))
  BY PopInv DEF IInv
<1> QED BY <1>1, <1>2, <1>3, <1>5, <1>6, <1>7, <1>8 DEF Top

(* load_module() up to the init function, called on frames.                *)
LEMMA LoadInv ==
  ASSUME LoaderAssumption, IInv, NEW p \in Paths, NEW frames, FramesInv(frames),
         Len(frames) = Len(stack), HasRoom, Load(p, frames),
         \A m : Starting(stack, m) => Starting(frames, m)
  PROVE  IInv'
<1>1. Len(frames) + 1 <= MaxDepth /\ Len(frames) <= MaxDepth /\ frames \in Seq(Frame)
  <2>1. stack \in Seq(Frame) /\ frames \in Seq(Frame) /\ MaxDepth \in Nat
    BY DEF IInv, FramesInv, LoaderAssumption
  <2>2. Len(stack) \in Nat
    BY <2>1
  <2> QED BY <2>1, <2>2 DEF HasRoom
<1>2. ASSUME NEW e \in {"ERELOAD", "EOPEN", "ESYM"}, Fails(e, frames) PROVE IInv'
  <2>1. FramesInv(stack)'
    BY <1>2, RefusedInv, StayInv DEF Fails
  <2>2. Len(stack') <= MaxDepth
    BY <1>1, <1>2, RefusedInv DEF Fails
  <2>3. ASSUME NEW m, Starting(frames, m) PROVE Starting(stack', m)
    <3>1. \A i \in DOMAIN frames : frames[i].op = "init" => Refused(frames)[i] = frames[i]
      BY RefusedInv
    <3>2. DOMAIN Refused(frames) = DOMAIN frames
      BY RefusedInv
    <3> QED BY <1>2, <2>3, <3>1, <3>2, StartingKept DEF Fails
  <2>4. Started'
    <3>1. UNCHANGED <<modules, up, misused>>
      BY <1>2 DEF Fails
    <3>2. \A m : Starting(stack, m) => Starting(stack', m)
      BY <2>3
    <3>3. ~misused => \A m \in Range(modules) \ up : Starting(stack, m)
      BY DEF IInv, Started
    <3>4. ~misused' => \A m \in Range(modules') \ up' : Starting(stack', m)
      BY <3>1, <3>2, <3>3
    <3> QED BY <3>4 DEF Started, Starting
  <2>5. ListInv'
    BY <1>2 DEF IInv, ListInv, OneCopy, Fails
  <2> QED BY <1>2, <2>1, <2>2, <2>4, <2>5 DEF IInv, Fails
<1>3. ASSUME ~find_module(Filename[p]), Start(p, frames) PROVE IInv'
  <2>1. ListInv' /\ p \notin Range(modules)
    BY <1>3, StartList DEF IInv, Start
  <2>2. FramesInv(stack)'
    BY <1>3, <2>1, StartFrames DEF IInv, Start
  <2> DEFINE c == [op |-> "init", m |-> p]
  <2>3. c \in Frame /\ c.op = "init" /\ c.m = p /\ stack' = <<c>> \o frames
    BY <1>3 DEF Frame, CallFrame, Start
  <2> HIDE DEF c
  <2>4. /\ stack'[1] = c /\ 1 \in DOMAIN stack' /\ Len(stack') = Len(frames) + 1
        /\ \A i \in DOMAIN frames : i + 1 \in DOMAIN stack' /\ stack'[i + 1] = frames[i]
    BY <1>1, <2>3, PushParts
  <2>5. Starting(stack', p)
    BY <2>3, <2>4 DEF Starting
  <2>6. \A m : Starting(frames, m) => Starting(stack', m)
    BY <2>4 DEF Starting
  <2>7. Started'
    <3>1. Range(modules') = Range(modules) \cup {p} /\ up' = up /\ misused' = misused
      BY <1>3, InFront DEF IInv, Start
    <3>2. ~misused => \A m \in Range(modules) \ up : Starting(stack, m)
      BY DEF IInv, Started
    <3>3. ~misused' => \A m \in Range(modules') \ up' : Starting(stack', m)
      BY <2>5, <2>6, <3>1, <3>2
    <3> QED BY <3>3 DEF Started, Starting
  <2> QED BY <1>1, <1>3, <2>1, <2>2, <2>4, <2>7 DEF IInv, Start
<1> QED BY <1>2, <1>3 DEF Load

(* dlclose(), list_del() and free(), under the calls in frames.            *)
LEMMA FinishInv ==
  ASSUME LoaderAssumption, IInv, NEW m \in Range(modules), NEW frames, FramesInv(frames),
         Len(frames) <= MaxDepth, Finish(m, frames), dead' = dead,
         err' \in {"ERELOAD", "EOPEN", "ESYM", "EINIT"}, misused' \in BOOLEAN,
         ~misused' => ~misused /\ \A i \in DOMAIN frames : ~Awaits(frames[i], m),
         \A x : Starting(stack, x) => Starting(frames, x)
  PROVE  IInv'
<1>1. up' = up \ {m} /\ up \subseteq Range(modules) /\ ListInv
  BY DEF Finish, IInv, ListInv
<1>2. ListInv' /\ Range(modules') = Range(modules) \ {m} /\ m \in Paths
  BY <1>1, FinishList DEF Finish
<1> DEFINE names == {name[m], Filename[m]}
<1>3. names \subseteq Names /\ Filename[m] \in Names
  <2>1. name[m] \in Names
    BY <1>2 DEF IInv
  <2>2. Filename[m] \in Range(Filename)
    BY <1>2 DEF LoaderAssumption
  <2> QED BY <2>1, <2>2 DEF Names
<1>4. stack' = Lose(frames, names, {m}) /\ {m} \subseteq Paths
  BY <1>2 DEF Finish
<1> HIDE DEF names
<1>5. FramesInv(stack)'
  BY <1>1, <1>2, <1>3, <1>4, LoseFrames
<1>6. frames \in Seq(Frame)
  BY DEF FramesInv
<1>7. /\ Len(stack') <= MaxDepth /\ DOMAIN stack' = DOMAIN frames
      /\ \A i \in DOMAIN frames : Losing(frames[i], stack'[i], names, {m})
  BY <1>3, <1>4, <1>6, LoseParts
<1>8. ASSUME NEW x, x # m, Starting(frames, x) PROVE Starting(stack', x)
  <2>1. PICK i \in DOMAIN frames : frames[i].op = "init" /\ frames[i].m = x
    BY <1>8 DEF Starting
  <2>2. stack'[i] = frames[i]
    BY <1>7, <1>8, <2>1 DEF Losing
  <2> QED BY <1>7, <2>1, <2>2 DEF Starting
<1>9. Started'
  <2>1. ~misused => \A x \in Range(modules) \ up : Starting(stack, x)
    BY DEF IInv, Started
  <2>2. ~misused' => \A x \in Range(modules') \ up' : Starting(stack', x)
    BY <1>1, <1>2, <1>8, <2>1
  <2> QED BY <2>2 DEF Started, Starting
<1>10. name' \in [Paths -> Names]
  BY <1>2, <1>3 DEF IInv, Finish
<1>11. dead' \in BOOLEAN /\ (dead' => misused')
  BY DEF IInv
<1> QED BY <1>2, <1>5, <1>7, <1>9, <1>10, <1>11 DEF IInv

(* unload_module(), called on frames.                                      *)
LEMMA UnloadInv ==
  ASSUME LoaderAssumption, IInv, NEW m \in Range(modules), NEW frames, FramesInv(frames),
         Len(frames) = Len(stack), HasRoom, Unload(m, frames),
         \A x : Starting(stack, x) => Starting(frames, x)
  PROVE  IInv'
<1>1. Len(frames) + 1 <= MaxDepth /\ Len(frames) <= MaxDepth /\ frames \in Seq(Frame)
  <2>1. stack \in Seq(Frame) /\ frames \in Seq(Frame) /\ MaxDepth \in Nat
    BY DEF IInv, FramesInv, LoaderAssumption
  <2>2. Len(stack) \in Nat
    BY <2>1
  <2> QED BY <2>1, <2>2 DEF HasRoom
<1>2. /\ misused' = (misused \/ Needed(m, frames)) /\ dead' = dead /\ misused' \in BOOLEAN
      /\ misused \in BOOLEAN
  BY DEF Unload, IInv, Needed
<1>3. ~misused' => ~misused /\ \A i \in DOMAIN frames : ~Awaits(frames[i], m)
  BY <1>2, NeededIs
<1>4. CASE m \in NoExit
  <2>1. err' = "ESYM" /\ Finish(m, frames)
    BY <1>4 DEF Unload
  <2> QED BY <1>1, <1>2, <1>3, <2>1, FinishInv
<1>5. CASE m \notin NoExit
  <2>1. stack' = <<[op |-> "exit", m |-> m]>> \o frames /\ UNCHANGED <<modules, name, refs, err, up>>
    BY <1>5 DEF Unload
  <2>2. \A x : Starting(frames, x) => \E i \in DOMAIN frames : Awaits(frames[i], x)
    BY DEF Starting, Awaits
  <2>3. ~misused => \A x \in Range(modules) \ up : Starting(stack, x)
    BY DEF IInv, Started
  <2>4. ~misused' => m \in up
    BY <1>3, <2>2, <2>3
  <2>5. ListInv /\ modules' = modules /\ up' = up
    BY <2>1 DEF IInv
  <2>6. FramesInv(stack)'
    BY <1>2, <2>1, <2>4, <2>5, ExitFrames
  <2> DEFINE c == [op |-> "exit", m |-> m]
  <2>7. c \in Frame /\ stack' = <<c>> \o frames
    BY <2>1, <2>5, PlaceParts DEF Frame, CallFrame
  <2> HIDE DEF c
  <2>8. /\ Len(stack') = Len(frames) + 1
        /\ \A i \in DOMAIN frames : i + 1 \in DOMAIN stack' /\ stack'[i + 1] = frames[i]
    BY <1>1, <2>7, PushParts
  <2>9. \A x : Starting(frames, x) => Starting(stack', x)
    BY <2>8 DEF Starting
  <2>10. Started'
    <3>1. ~misused' => \A x \in Range(modules') \ up' : Starting(stack', x)
      BY <1>3, <2>3, <2>5, <2>9
    <3> QED BY <3>1 DEF Started, Starting
  <2>11. ListInv'
    BY <2>1 DEF IInv, ListInv, OneCopy
  <2>12. dead' \in BOOLEAN /\ (dead' => misused')
    BY <1>2 DEF IInv
  <2> QED BY <1>1, <1>2, <2>1, <2>6, <2>8, <2>10, <2>11, <2>12 DEF IInv
<1> QED BY <1>4, <1>5

-----------------------------------------------------------------------------
(* The steps keep the invariant, one lemma per step that does more than    *)
(* call one of the operations above.                                       *)

LEMMA InitReturnsInv ==
  ASSUME LoaderAssumption, IInv, InitReturns
  PROVE  IInv'
<1>1. /\ stack # <<>> /\ Top.op = "init" /\ up' = up \cup {Top.m} /\ stack' = Tail(stack)
      /\ UNCHANGED <<modules, name, refs, err, misused, dead>>
  BY DEF InitReturns, In, Accepted
<1>2. /\ stack \in Seq(Frame) /\ 1 \in DOMAIN stack /\ Top.m \in Range(modules)
      /\ FramesInv(Tail(stack)) /\ Len(Tail(stack)) <= MaxDepth
      /\ \A i \in DOMAIN stack : i # 1 => i > 1
  BY <1>1, TopParts
<1>3. /\ stack' \in Seq(Frame)
      /\ \A i \in DOMAIN stack' : i + 1 \in DOMAIN stack /\ stack'[i] = stack[i + 1] /\ i + 1 > 1
      /\ \A i \in DOMAIN stack : i # 1 => i - 1 \in DOMAIN stack' /\ stack'[i - 1] = stack[i]
  BY <1>1, <1>2
<1>4. \A j \in DOMAIN stack : j > 1 => ~Mentions(stack[j], Top.m)
  BY <1>1, <1>2 DEF IInv, FramesInv, Fresh, Top
<1>5. \A i \in DOMAIN stack' : stack'[i].op = "init" => stack'[i].m # Top.m
  BY <1>3, <1>4 DEF Mentions, Awaits
<1>6. Linked(stack') /\ Fresh(stack') /\ (~misused => Unharmed(stack'))
  BY <1>1, <1>2 DEF FramesInv
<1>7. Linked(stack)'
  BY <1>1, <1>6 DEF Linked, Mentions, Awaits
<1>8. Fresh(stack)'
  BY <1>1, <1>5, <1>6 DEF Fresh, Mentions, Awaits
<1>9. ~misused' => Unharmed(stack)'
  BY <1>1, <1>6 DEF Unharmed, Awaits
<1>10. FramesInv(stack)'
  BY <1>3, <1>7, <1>8, <1>9 DEF FramesInv
<1>11. ASSUME NEW m, m # Top.m, Starting(stack, m) PROVE Starting(stack', m)
  <2>1. PICK i \in DOMAIN stack : stack[i].op = "init" /\ stack[i].m = m
    BY <1>11 DEF Starting
  <2>2. i # 1
    BY <1>11, <2>1 DEF Top
  <2> QED BY <1>3, <2>1, <2>2 DEF Starting
<1>12. Started'
  <2>1. ~misused => \A m \in Range(modules) \ up : Starting(stack, m)
    BY DEF IInv, Started
  <2>2. ~misused' => \A m \in Range(modules') \ up' : Starting(stack', m)
    BY <1>1, <1>11, <2>1
  <2> QED BY <2>2 DEF Started, Starting
<1>13. ListInv'
  BY <1>1, <1>2 DEF IInv, ListInv, OneCopy
<1> QED BY <1>1, <1>2, <1>10, <1>12, <1>13 DEF IInv

LEMMA InitFailsInv ==
  ASSUME LoaderAssumption, IInv, InitFails
  PROVE  IInv' /\ Top.m \in Range(modules) /\ Range(modules') = Range(modules) \ {Top.m}
<1> DEFINE s == Refused(Tail(stack))
<1>1. /\ stack # <<>> /\ Top.op = "init" /\ stack' = s /\ err' = "EINIT"
      /\ refs' = [refs EXCEPT ![Top.m] = @ - 1] /\ modules' = Unlinked(Top.m)
      /\ name' = [name EXCEPT ![Top.m] = Filename[Top.m]]
      /\ UNCHANGED <<up, misused, dead>>
  BY DEF InitFails, Failing, In
<1>2. /\ stack \in Seq(Frame) /\ 1 \in DOMAIN stack /\ Top.m \in Range(modules)
      /\ FramesInv(Tail(stack)) /\ Len(Tail(stack)) <= MaxDepth
      /\ \A i \in DOMAIN stack : i # 1 => i > 1
  BY <1>1, TopParts
<1> HIDE DEF s
<1>3. /\ \A i \in DOMAIN Tail(stack) :
           i + 1 \in DOMAIN stack /\ Tail(stack)[i] = stack[i + 1] /\ i + 1 > 1
      /\ \A i \in DOMAIN stack :
           i # 1 => i - 1 \in DOMAIN Tail(stack) /\ Tail(stack)[i - 1] = stack[i]
  BY <1>1, <1>2
<1>4. /\ FramesInv(s) /\ Len(s) <= MaxDepth /\ DOMAIN s = DOMAIN Tail(stack)
      /\ \A i \in DOMAIN s :
           /\ s[i].op = Tail(stack)[i].op
           /\ Tail(stack)[i].op # "dir" => s[i] = Tail(stack)[i]
  BY <1>2, RefusedInv DEF s
<1>5. Top.m \notin up /\ \A j \in DOMAIN stack : j > 1 => ~Mentions(stack[j], Top.m)
  BY <1>1, <1>2 DEF IInv, FramesInv, Fresh, Top
<1>6. \A i \in DOMAIN s : ~Mentions(s[i], Top.m)
  BY <1>3, <1>4, <1>5 DEF Mentions, Awaits
<1>7. up' \subseteq Range(modules) \ {Top.m} /\ ListInv
  BY <1>1, <1>5 DEF IInv, ListInv
<1>8. ListInv' /\ Range(modules') = Range(modules) \ {Top.m} /\ Top.m \in Paths
  BY <1>1, <1>2, <1>7, FinishList
<1>9. Linked(stack)'
  <2>1. \A i \in DOMAIN s : \A m \in Paths : Mentions(s[i], m) => m \in Range(modules) \ {Top.m}
    BY <1>4, <1>6 DEF FramesInv, Linked
  <2> QED BY <1>1, <1>8, <2>1 DEF Linked, Mentions, Awaits
<1>10. FramesInv(stack)'
  <2>1. s \in Seq(Frame) /\ Fresh(s) /\ (~misused => Unharmed(s))
    BY <1>4 DEF FramesInv
  <2>2. Fresh(stack)'
    BY <1>1, <2>1 DEF Fresh, Mentions, Awaits
  <2>3. ~misused' => Unharmed(stack)'
    BY <1>1, <2>1 DEF Unharmed, Awaits
  <2> QED BY <1>1, <1>9, <2>1, <2>2, <2>3 DEF FramesInv
<1>11. ASSUME NEW m, m # Top.m, Starting(stack, m) PROVE Starting(s, m)
  <2>1. PICK i \in DOMAIN stack : stack[i].op = "init" /\ stack[i].m = m
    BY <1>11 DEF Starting
  <2>2. i # 1
    BY <1>11, <2>1 DEF Top
  <2>3. i - 1 \in DOMAIN s /\ s[i - 1] = stack[i]
    BY <1>3, <1>4, <2>1, <2>2
  <2> QED BY <2>1, <2>3 DEF Starting
<1>12. Started'
  <2>1. ~misused => \A m \in Range(modules) \ up : Starting(stack, m)
    BY DEF IInv, Started
  <2>2. ~misused' => \A m \in Range(modules') \ up' : Starting(stack', m)
    BY <1>1, <1>8, <1>11, <2>1
  <2> QED BY <2>2 DEF Started, Starting
<1>13. name' \in [Paths -> Names]
  <2>1. Filename[Top.m] \in Names
    <3>1. Filename[Top.m] \in Range(Filename)
      BY <1>8 DEF LoaderAssumption
    <3> QED BY <3>1 DEF Names
  <2> QED BY <1>1, <2>1 DEF IInv
<1> QED BY <1>1, <1>2, <1>4, <1>8, <1>10, <1>12, <1>13 DEF IInv

LEMMA ExitReturnsInv ==
  ASSUME LoaderAssumption, IInv, ExitReturns
  PROVE  IInv'
<1>1. /\ stack # <<>> /\ Top.op = "exit" /\ Finish(Top.m, Tail(stack))
      /\ UNCHANGED <<err, misused, dead>>
  BY DEF ExitReturns, In
<1>2. /\ stack \in Seq(Frame) /\ 1 \in DOMAIN stack /\ Top.m \in Range(modules)
      /\ FramesInv(Tail(stack)) /\ Len(Tail(stack)) <= MaxDepth
      /\ \A i \in DOMAIN stack : i # 1 => i > 1
  BY <1>1, TopParts
<1>3. /\ \A i \in DOMAIN Tail(stack) :
           i + 1 \in DOMAIN stack /\ Tail(stack)[i] = stack[i + 1] /\ i + 1 > 1
      /\ \A i \in DOMAIN stack :
           i # 1 => i - 1 \in DOMAIN Tail(stack) /\ Tail(stack)[i - 1] = stack[i]
  BY <1>1, <1>2
<1>4. ~misused => \A j \in DOMAIN stack : j > 1 => ~Awaits(stack[j], Top.m)
  BY <1>1, <1>2 DEF IInv, FramesInv, Unharmed, Top
<1>5. ~misused' => ~misused /\ \A i \in DOMAIN Tail(stack) : ~Awaits(Tail(stack)[i], Top.m)
  BY <1>1, <1>3, <1>4
<1>6. ASSUME NEW x, Starting(stack, x) PROVE Starting(Tail(stack), x)
  <2>1. PICK i \in DOMAIN stack : stack[i].op = "init" /\ stack[i].m = x
    BY <1>6 DEF Starting
  <2>2. i # 1
    BY <1>1, <2>1 DEF Top
  <2> QED BY <1>3, <2>1, <2>2 DEF Starting
<1>7. /\ dead' = dead /\ err' \in {"ERELOAD", "EOPEN", "ESYM", "EINIT"} /\ misused' \in BOOLEAN
  BY <1>1 DEF IInv
<1> DEFINE s == Tail(stack)
           m == Top.m
<1>8. /\ m \in Range(modules) /\ FramesInv(s) /\ Len(s) <= MaxDepth /\ Finish(m, s)
      /\ ~misused' => ~misused /\ \A i \in DOMAIN s : ~Awaits(s[i], m)
      /\ \A x : Starting(stack, x) => Starting(s, x)
  BY <1>1, <1>2, <1>5, <1>6
<1> HIDE DEF s, m
<1> QED BY <1>7, <1>8, FinishInv

(* A call comes back, or goes on, without touching the list.               *)
LEMMA GoesOnInv ==
  ASSUME LoaderAssumption, IInv, FramesInv(stack'), Len(stack') <= MaxDepth,
         \A m : Starting(stack, m) => Starting(stack', m),
         UNCHANGED <<modules, name, refs, up, misused, dead>>,
         err' \in {"ERELOAD", "EOPEN", "ESYM", "EINIT"}
  PROVE  IInv'
<1>1. FramesInv(stack)'
  BY StayInv
<1>2. Started'
  <2>1. ~misused => \A m \in Range(modules) \ up : Starting(stack, m)
    BY DEF IInv, Started
  <2>2. ~misused' => \A m \in Range(modules') \ up' : Starting(stack', m)
    BY <2>1
  <2> QED BY <2>2 DEF Started, Starting
<1>3. ListInv'
  BY DEF IInv, ListInv, OneCopy
<1> QED BY <1>1, <1>2, <1>3 DEF IInv

(* load_modules_from_dir() goes on to the next file.                       *)
LEMMA PassedInv ==
  ASSUME LoaderAssumption, IInv, Reading
  PROVE  /\ FramesInv(Passed) /\ Len(Passed) = Len(stack) /\ DOMAIN Passed = DOMAIN stack
         /\ Top \in DirFrame /\ Entry \in Entries
         /\ Passed[1] = [Top EXCEPT !.rest = Tail(@)] /\ Passed[1].op = "dir"
         /\ \A i \in DOMAIN stack : i # 1 => Passed[i] = stack[i]
         /\ \A m : Starting(stack, m) <=> Starting(Passed, m)
<1>1. stack # <<>> /\ Top.op = "dir" /\ Top.rest # <<>>
  BY DEF Reading, In
<1>2. stack \in Seq(Frame) /\ 1 \in DOMAIN stack /\ Top \in DirFrame
  BY <1>1, TopParts, FrameParts
<1> DEFINE c == [Top EXCEPT !.rest = Tail(@)]
<1>3. Top.rest \in Seq(Entries)
  BY <1>2 DEF DirFrame
<1>4. Tail(Top.rest) \in Seq(Entries) /\ Entry \in Entries
  BY <1>1, <1>3 DEF Entry
<1>5. c \in DirFrame /\ c.op = "dir"
  BY <1>1, <1>2, <1>4 DEF DirFrame
<1>6. c \in Frame
  BY <1>5 DEF Frame
<1>7. Passed = [stack EXCEPT ![1] = c]
  BY DEF Passed, Top
<1> HIDE DEF c
<1>8. /\ Passed \in Seq(Frame) /\ DOMAIN Passed = DOMAIN stack /\ Len(Passed) = Len(stack)
      /\ Passed[1] = c /\ \A i \in DOMAIN stack : i # 1 => Passed[i] = stack[i]
  BY <1>2, <1>6, <1>7
<1>9. \A m \in Paths : ~Mentions(Passed[1], m)
  BY <1>5, <1>8 DEF Mentions, Awaits
<1>10. FramesInv(stack) /\ Passed[1].op = "dir"
  BY <1>5, <1>8 DEF IInv
<1>11. FramesInv(Passed)
  BY <1>1, <1>8, <1>9, <1>10, TopInv
<1>12. \A i \in DOMAIN stack : stack[i].op = "init" \/ Passed[i].op = "init" => Passed[i] = stack[i]
  BY <1>1, <1>5, <1>8 DEF Top
<1>13. \A m : Starting(stack, m) <=> Starting(Passed, m)
  BY <1>8, <1>12 DEF Starting
<1> QED BY <1>2, <1>4, <1>5, <1>8, <1>11, <1>13 DEF c

(* unload_all_modules() moves its n on to the next module.                 *)
LEMMA WalkInv ==
  ASSUME LoaderAssumption, IInv, In("all"), Top.n # Head_, Top.n # Stale
  PROVE  /\ Top.n \in Range(modules)
         /\ FramesInv([stack EXCEPT ![1].n = After(Top.n)])
         /\ Len([stack EXCEPT ![1].n = After(Top.n)]) = Len(stack)
         /\ DOMAIN [stack EXCEPT ![1].n = After(Top.n)] = DOMAIN stack
         /\ [stack EXCEPT ![1].n = After(Top.n)][1] = [Top EXCEPT !.n = After(Top.n)]
         /\ \A i \in DOMAIN stack : i # 1 => [stack EXCEPT ![1].n = After(Top.n)][i] = stack[i]
         /\ \A x : Starting(stack, x) => Starting([stack EXCEPT ![1].n = After(Top.n)], x)
         /\ Top \in AllFrame
<1>1. stack # <<>> /\ Top.op = "all"
  BY DEF In
<1>2. stack \in Seq(Frame) /\ 1 \in DOMAIN stack /\ Top \in AllFrame
  BY <1>1, TopParts, FrameParts
<1>3. Top.n \in Paths
  BY <1>2 DEF AllFrame
<1>4. Top.n \in Range(modules) /\ \A m \in Top.left : m \in Range(modules)
  <2>1. Mentions(Top, Top.n) /\ \A m \in Top.left : Mentions(Top, m)
    BY <1>1 DEF Mentions, Awaits
  <2>2. Top.left \subseteq Paths
    BY <1>2 DEF AllFrame
  <2> QED BY <1>2, <1>3, <2>1, <2>2 DEF IInv, FramesInv, Linked, Top
<1>5. After(Top.n) \in Range(modules) \cup {Head_} /\ After(Top.n) # Stale
  BY <1>4, AfterParts DEF IInv
<1>6. Range(modules) \subseteq Paths
  BY SeqParts DEF IInv, ListInv
<1> DEFINE c == [Top EXCEPT !.n = After(Top.n)]
           s == [stack EXCEPT ![1].n = After(Top.n)]
<1>7. c \in AllFrame /\ c.op = "all" /\ c.n = After(Top.n) /\ c.left = Top.left
  BY <1>1, <1>2, <1>5, <1>6 DEF AllFrame
<1>8. c \in Frame
  BY <1>7 DEF Frame
<1>9. s = [stack EXCEPT ![1] = c]
  BY DEF Top
<1> HIDE DEF c, s
<1>10. /\ s \in Seq(Frame) /\ DOMAIN s = DOMAIN stack /\ Len(s) = Len(stack)
       /\ s[1] = c /\ \A i \in DOMAIN stack : i # 1 => s[i] = stack[i]
  BY <1>2, <1>8, <1>9
<1>11. \A m \in Paths : Mentions(s[1], m) => m \in Range(modules)
  <2>1. Head_ \notin Paths
    BY DEF LoaderAssumption
  <2> QED BY <1>4, <1>5, <1>7, <1>10, <2>1 DEF Mentions, Awaits
<1>12. FramesInv(stack) /\ s[1].op = "all" /\ s[1].n # Stale
  BY <1>5, <1>7, <1>10 DEF IInv
<1>13. FramesInv(s)
  BY <1>1, <1>10, <1>11, <1>12, TopInv
<1>14. \A i \in DOMAIN stack : stack[i].op = "init" => s[i] = stack[i]
  BY <1>1, <1>10 DEF Top
<1>15. \A x : Starting(stack, x) => Starting(s, x)
  BY <1>10, <1>14 DEF Starting
<1> QED BY <1>2, <1>4, <1>10, <1>13, <1>15 DEF c, s

LEMMA UnloadNextInv ==
  ASSUME LoaderAssumption, IInv, UnloadNext
  PROVE  IInv'
<1>1. CASE Top.n # Stale
  <2> DEFINE s == [stack EXCEPT ![1].n = After(Top.n)]
             m == Top.n
  <2>1. In("all") /\ Top.n # Head_ /\ HasRoom /\ Unload(m, s)
    BY <1>1 DEF UnloadNext, NextOf
  <2>2. /\ m \in Range(modules) /\ FramesInv(s) /\ Len(s) = Len(stack)
        /\ \A x : Starting(stack, x) => Starting(s, x)
    BY <1>1, <2>1, WalkInv
  <2> HIDE DEF s, m
  <2> QED BY <2>1, <2>2, UnloadInv
<1>2. CASE Top.n = Stale
  <2>1. /\ dead' = TRUE /\ UNCHANGED <<modules, name, refs, err, stack, up, misused>>
        /\ stack # <<>> /\ Top.op = "all"
    BY <1>2 DEF UnloadNext, In
  <2>2. 1 \in DOMAIN stack
    BY <2>1, TopParts
  <2>3. misused
    BY <1>2, <2>1, <2>2 DEF IInv, FramesInv, Unharmed, Top
  <2>4. FramesInv(stack)'
    BY <2>1, StayInv DEF IInv
  <2>5. ListInv' /\ Started'
    BY <2>1 DEF IInv, ListInv, OneCopy, Started, Starting
  <2> QED BY <2>1, <2>3, <2>4, <2>5 DEF IInv
<1> QED BY <1>1, <1>2

LEMMA SetNameInv ==
  ASSUME LoaderAssumption, IInv, NEW m \in Paths, NEW x \in Names, module_set_name(m, x)
  PROVE  IInv'
<1> DEFINE names == {name[m]}
<1>1. /\ name' = [name EXCEPT ![m] = x] /\ stack' = Lose(stack, names, {})
      /\ UNCHANGED <<modules, refs, err, up, misused, dead>>
  BY DEF module_set_name
<1>2. names \subseteq Names /\ name' \in [Paths -> Names]
  BY <1>1 DEF IInv
<1>3. stack \in Seq(Frame)
  BY DEF IInv, FramesInv
<1> HIDE DEF names
<1>4. FramesInv(stack)'
  <2> DEFINE none == {}
  <2>1. /\ none \subseteq Paths /\ Range(modules') = Range(modules) \ none /\ up' = up \ none
        /\ ~misused' => ~misused /\ \A p \in none, i \in DOMAIN stack : ~Awaits(stack[i], p)
        /\ stack' = Lose(stack, names, none) /\ FramesInv(stack)
    BY <1>1 DEF IInv
  <2> HIDE DEF none
  <2> QED BY <1>2, <2>1, LoseFrames
<1>5. /\ Len(stack') = Len(stack) /\ DOMAIN stack' = DOMAIN stack
      /\ \A i \in DOMAIN stack : Losing(stack[i], stack'[i], names, {})
  BY <1>1, <1>2, <1>3, LoseParts
<1>6. \A i \in DOMAIN stack : stack[i].op = "init" => stack'[i] = stack[i]
  BY <1>5 DEF Losing
<1>7. \A p : Starting(stack, p) => Starting(stack', p)
  BY <1>5, <1>6 DEF Starting
<1>8. Started'
  <2>1. ~misused => \A p \in Range(modules) \ up : Starting(stack, p)
    BY DEF IInv, Started
  <2>2. ~misused' => \A p \in Range(modules') \ up' : Starting(stack', p)
    BY <1>1, <1>7, <2>1
  <2> QED BY <2>2 DEF Started, Starting
<1>9. ListInv'
  BY <1>1 DEF IInv, ListInv, OneCopy
<1>10. Len(stack') <= MaxDepth
  BY <1>5 DEF IInv
<1> QED BY <1>1, <1>2, <1>4, <1>8, <1>9, <1>10 DEF IInv

LEMMA InitInv == LoaderAssumption /\ Init => IInv
<1> SUFFICES ASSUME LoaderAssumption, Init PROVE IInv
  OBVIOUS
<1>1. modules = <<>> /\ stack = <<>> /\ up = {} /\ misused = FALSE /\ dead = FALSE
  BY DEF Init
<1>2. Range(modules) = {}
  BY <1>1 DEF Range
<1>3. ListInv
  BY <1>1, <1>2 DEF Init, ListInv, OneCopy
<1>4. FramesInv(stack)
  BY <1>1 DEF FramesInv, Linked, Fresh, Unharmed
<1>5. Started
  BY <1>2 DEF Started
<1>6. name \in [Paths -> Names]
  BY DEF Init, LoaderAssumption, Names
<1>7. Len(stack) <= MaxDepth
  BY <1>1 DEF LoaderAssumption
<1> QED BY <1>1, <1>3, <1>4, <1>5, <1>6, <1>7 DEF IInv, Init

LEMMA NextInv == LoaderAssumption /\ IInv /\ [Next]_vars => IInv'
<1> SUFFICES ASSUME LoaderAssumption, IInv, [Next]_vars PROVE IInv'
  OBVIOUS
<1>1. /\ FramesInv(stack) /\ err \in {"ERELOAD", "EOPEN", "ESYM", "EINIT"}
      /\ Len(stack) <= MaxDepth /\ stack \in Seq(Frame) /\ MaxDepth \in Nat
  BY DEF IInv, FramesInv, LoaderAssumption
<1>2. ASSUME NEW m \in Paths, load_module(m) PROVE IInv'
  BY <1>1, <1>2, LoadInv DEF load_module
<1>3. ASSUME NEW m \in Paths, unload_module(m) PROVE IInv'
  BY <1>1, <1>3, UnloadInv DEF unload_module
<1>4. ASSUME NEW m \in Paths, NEW x \in Names, module_set_name(m, x) PROVE IInv'
  BY <1>4, SetNameInv
<1>5. CASE ReturnsNowhere
  <2>1. /\ dead' = TRUE /\ UNCHANGED <<modules, name, refs, err, stack, up, misused>>
        /\ stack # <<>> /\ Top.op = "gone"
    BY <1>5 DEF ReturnsNowhere, In
  <2>2. 1 \in DOMAIN stack
    BY <2>1, TopParts
  <2>3. misused
    BY <2>1, <2>2 DEF IInv, FramesInv, Unharmed, Top
  <2>4. FramesInv(stack)'
    BY <1>1, <2>1, StayInv
  <2>5. ListInv' /\ Started'
    BY <2>1 DEF IInv, ListInv, OneCopy, Started, Starting
  <2> QED BY <2>1, <2>3, <2>4, <2>5 DEF IInv
<1>6. CASE OpendirFails
  <2>1. stack' = stack
    BY <1>6 DEF OpendirFails
  <2> QED BY <1>1, <1>6, <2>1, GoesOnInv DEF OpendirFails
<1>7. ASSUME NEW c \in Frame, c.op \in {"dir", "all"}, c.op = "all" => c.n # Stale,
             \A m \in Paths : Mentions(c, m) => m \in Range(modules),
             HasRoom, stack' = <<c>> \o stack,
             UNCHANGED <<modules, name, refs, err, up, misused, dead>>
      PROVE  IInv'
  <2>1. FramesInv(stack)'
    BY <1>1, <1>7, PlainFrames
  <2>2. /\ Len(stack') = Len(stack) + 1
        /\ \A i \in DOMAIN stack : i + 1 \in DOMAIN stack' /\ stack'[i + 1] = stack[i]
    BY <1>1, <1>7, PushParts
  <2>3. Len(stack') <= MaxDepth
    BY <1>1, <1>7, <2>2 DEF HasRoom
  <2>4. \A m : Starting(stack, m) => Starting(stack', m)
    BY <2>2 DEF Starting
  <2>5. Started'
    <3>1. ~misused => \A m \in Range(modules) \ up : Starting(stack, m)
      BY DEF IInv, Started
    <3>2. ~misused' => \A m \in Range(modules') \ up' : Starting(stack', m)
      BY <1>7, <2>4, <3>1
    <3> QED BY <3>2 DEF Started, Starting
  <2>6. ListInv'
    BY <1>7 DEF IInv, ListInv, OneCopy
  <2> QED BY <1>7, <2>1, <2>3, <2>5, <2>6 DEF IInv
<1>8. CASE load_modules_from_dir
  <2> DEFINE c == [op |-> "dir", rest |-> Dir, rc |-> 0, lost |-> {}]
  <2>1. c \in DirFrame /\ c.op = "dir"
    BY DEF DirFrame, LoaderAssumption, Entries
  <2>2. c \in Frame /\ \A m \in Paths : ~Mentions(c, m)
    BY <2>1 DEF Frame, Mentions, Awaits
  <2>3. HasRoom /\ stack' = <<c>> \o stack /\ UNCHANGED <<modules, name, refs, err, up, misused, dead>>
    BY <1>8 DEF load_modules_from_dir
  <2> HIDE DEF c
  <2> QED BY <1>7, <2>1, <2>2, <2>3
<1>9. CASE unload_all_modules
  <2> DEFINE c == [op |-> "all", n |-> First, left |-> Range(modules)]
  <2>1. modules \in Seq(Paths) /\ Range(modules) \subseteq Paths
    BY SeqParts DEF IInv, ListInv
  <2>2. First \in Range(modules) \cup {Head_}
    BY <2>1 DEF First, Range
  <2>3. c \in AllFrame /\ c.op = "all" /\ c.n = First /\ c.left = Range(modules)
    BY <2>1, <2>2 DEF AllFrame
  <2>4. HasRoom /\ stack' = <<c>> \o stack /\ UNCHANGED <<modules, name, refs, err, up, misused, dead>>
    BY <1>9 DEF unload_all_modules
  <2> HIDE DEF c
  <2>5. Head_ \notin Paths /\ Stale \notin Paths \cup {Head_}
    BY DEF LoaderAssumption
  <2>6. c.n # Stale /\ c \in Frame /\ \A m \in Paths : Mentions(c, m) => m \in Range(modules)
    BY <2>1, <2>2, <2>3, <2>5 DEF Frame, Mentions, Awaits
  <2> QED BY <1>7, <2>3, <2>4, <2>6
<1>10. CASE SkipEntry
  <2>1. Reading /\ stack' = Passed /\ UNCHANGED <<modules, name, refs, err, up, misused, dead>>
    BY <1>10 DEF SkipEntry
  <2>2. FramesInv(stack') /\ Len(stack') = Len(stack) /\ \A m : Starting(stack, m) => Starting(stack', m)
    BY <2>1, PassedInv
  <2> QED BY <1>1, <2>1, <2>2, GoesOnInv
<1>11. CASE LoadEntry
  <2> DEFINE s == Passed
             p == Entry.path
  <2>1. Reading /\ HasRoom /\ Load(p, s)
    BY <1>11 DEF LoadEntry
  <2>2. FramesInv(s) /\ Len(s) = Len(stack) /\ \A m : Starting(stack, m) => Starting(s, m)
    BY <2>1, PassedInv
  <2>3. p \in Paths
    BY <2>1, PassedInv DEF Entries
  <2> HIDE DEF s, p
  <2> QED BY <2>1, <2>2, <2>3, LoadInv
<1>12. ASSUME DirDone \/ AllDone PROVE IInv'
  <2>1. /\ stack # <<>> /\ Top.op \in {"dir", "all"} /\ stack' = Tail(stack)
        /\ UNCHANGED <<modules, name, refs, err, up, misused, dead>>
    BY <1>12 DEF DirDone, AllDone, In
  <2>2. FramesInv(stack') /\ Len(stack') <= MaxDepth
    BY <2>1, TopParts
  <2>3. \A i \in DOMAIN stack : i # 1 => i - 1 \in DOMAIN stack' /\ stack'[i - 1] = stack[i]
    BY <1>1, <2>1
  <2>4. \A i \in DOMAIN stack : stack[i].op = "init" => i # 1
    BY <2>1 DEF Top
  <2>5. \A m : Starting(stack, m) => Starting(stack', m)
    BY <2>3, <2>4 DEF Starting
  <2> QED BY <1>1, <2>1, <2>2, <2>5, GoesOnInv
<1>13. CASE UNCHANGED vars
  <2>1. stack' = stack /\ UNCHANGED <<modules, name, refs, up, misused, dead, err>>
    BY <1>13 DEF vars
  <2> QED BY <1>1, <2>1, GoesOnInv
<1> QED BY <1>2, <1>3, <1>4, <1>5, <1>6, <1>8, <1>9, <1>10, <1>11, <1>12, <1>13,
          InitReturnsInv, InitFailsInv, ExitReturnsInv, UnloadNextInv DEF Next

-----------------------------------------------------------------------------
(* The type of the state is kept by every step.                            *)
THEOREM TypeCorrect ==
  ASSUME LoaderAssumption
  PROVE  Spec => []TypeOK
<1>1. Init => IInv
  BY InitInv
<1>2. IInv /\ [Next]_vars => IInv'
  BY NextInv
<1>3. IInv => TypeOK
  BY DEF IInv, ListInv, TypeOK
<1> QED BY <1>1, <1>2, <1>3, PTL DEF Spec

(* What dlopen() has opened is what is listed.                             *)
LEMMA HandlesCounted ==
  ASSUME ListInv
  PROVE  OpenOnce
<1>1. ASSUME NEW p \in Paths
      PROVE  refs[p] = Cardinality({i \in DOMAIN modules : modules[i] = p})
  <2>1. refs[p] = IF p \in Range(modules) THEN 1 ELSE 0
    BY DEF ListInv
  <2>2. CASE p \in Range(modules)
    <3>1. /\ Place(p) \in DOMAIN modules /\ modules[Place(p)] = p
          /\ \A j \in DOMAIN modules : modules[j] = p => j = Place(p)
      BY <2>2, PlaceParts
    <3>2. {i \in DOMAIN modules : modules[i] = p} = {Place(p)}
      BY <3>1
    <3> QED BY <2>1, <2>2, <3>2, FS_Singleton
  <2>3. CASE p \notin Range(modules)
    <3>1. {i \in DOMAIN modules : modules[i] = p} = {}
      BY <2>3 DEF Range
    <3> QED BY <2>1, <2>3, <3>1, FS_EmptySet
  <2> QED BY <2>2, <2>3
<1> QED BY <1>1 DEF OpenOnce, HandlesMatch, ListInv

(* No library is loaded twice, and a file is open exactly while a module of*)
(* that path is listed, whatever load_module() fails at and however calls  *)
(* nest.                                                                   *)
THEOREM OpenedOnce ==
  ASSUME LoaderAssumption
  PROVE  Spec => []OpenOnce
<1>1. Init => IInv
  BY InitInv
<1>2. IInv /\ [Next]_vars => IInv'
  BY NextInv
<1>3. IInv => OpenOnce
  BY HandlesCounted DEF IInv
<1> QED BY <1>1, <1>2, <1>3, PTL DEF Spec

(* The process survives what init and exit functions do, and exit functions*)
(* run only for modules that were started, unless a function unloads a     *)
(* module that a call under way comes back to.                             *)
THEOREM OrderlyCalls ==
  ASSUME LoaderAssumption
  PROVE  Spec => []OrderlyUnlessMisused
<1>1. Init => IInv
  BY InitInv
<1>2. IInv /\ [Next]_vars => IInv'
  BY NextInv
<1>3. IInv => OrderlyUnlessMisused
  BY DEF IInv, FramesInv, Unharmed, OrderlyUnlessMisused
<1> QED BY <1>1, <1>2, <1>3, PTL DEF Spec

-----------------------------------------------------------------------------
(* unload_all_modules() gets to every module it has left.                  *)

LEMMA AheadSame ==
  ASSUME NEW s, NEW t, NEW gone, AllAhead(s, gone), DOMAIN t = DOMAIN s, s \in Seq(Frame),
         \A i \in DOMAIN s : s[i].op = "exit" \/ t[i].op = "all" => t[i] = s[i]
  PROVE  AllAhead(t, gone)
<1> SUFFICES ASSUME NEW i \in DOMAIN t, t[i].op = "all", NEW x \in t[i].left, x \notin gone
             PROVE  Ahead(t, i, x)
  BY DEF AllAhead
<1>1. t[i] = s[i] /\ Ahead(s, i, x)
  BY DEF AllAhead
<1>2. i > 1 => i - 1 \in DOMAIN s
  OBVIOUS
<1> QED BY <1>1, <1>2 DEF Ahead

LEMMA AheadPush ==
  ASSUME NEW s \in Seq(Frame), AllAhead(s, {}), NEW c \in Frame, c.op # "all"
  PROVE  AllAhead(<<c>> \o s, {})
<1> DEFINE t == <<c>> \o s
<1>1. /\ t[1] = c /\ \A i \in DOMAIN t : i # 1 => i - 1 \in DOMAIN s /\ t[i] = s[i - 1]
      /\ t \in Seq(Frame) /\ \A i \in DOMAIN s : i + 1 \in DOMAIN t /\ t[i + 1] = s[i]
  BY PushParts
<1> HIDE DEF t
<1>2. ASSUME NEW i \in DOMAIN t, t[i].op = "all", NEW x \in t[i].left
      PROVE  Ahead(t, i, x)
  <2>1. i # 1 /\ i - 1 \in DOMAIN s /\ t[i] = s[i - 1] /\ i > 1
    BY <1>1, <1>2
  <2>2. Ahead(s, i - 1, x)
    BY <1>2, <2>1 DEF AllAhead
  <2>3. i - 1 > 1 => i - 1 \in DOMAIN t /\ t[i - 1] = s[(i - 1) - 1]
    BY <1>1, <2>1
  <2> QED BY <2>1, <2>2, <2>3 DEF Ahead
<1> QED BY <1>2 DEF AllAhead, t

LEMMA AheadPop ==
  ASSUME NEW s \in Seq(Frame), NEW gone, AllAhead(s, gone), s # <<>>,
         s[1].op # "exit" \/ s[1].m \in gone
  PROVE  AllAhead(Tail(s), gone)
<1> DEFINE t == Tail(s)
<1>1. t \in Seq(Frame) /\ \A i \in DOMAIN t : i + 1 \in DOMAIN s /\ t[i] = s[i + 1] /\ i \in Nat
  OBVIOUS
<1> HIDE DEF t
<1>2. ASSUME NEW i \in DOMAIN t, t[i].op = "all", NEW x \in t[i].left, x \notin gone
      PROVE  Ahead(t, i, x)
  <2>1. Ahead(s, i + 1, x) /\ t[i] = s[i + 1]
    BY <1>1, <1>2 DEF AllAhead
  <2>2. (i + 1) - 1 = i /\ i \in Nat /\ (i > 1 \/ i = 1)
    BY <1>1
  <2>3. i > 1 => i - 1 \in DOMAIN t /\ t[i - 1] = s[i]
    <3>1. i > 1 => i - 1 \in DOMAIN t /\ (i - 1) + 1 = i
      BY <1>1
    <3> QED BY <1>1, <3>1
  <2> QED BY <1>2, <2>1, <2>2, <2>3 DEF Ahead
<1> QED BY <1>2 DEF AllAhead, t

(* The calls after some have lost modules.                                 *)
LEMMA AheadLose ==
  ASSUME LoaderAssumption, NEW s \in Seq(Frame), NEW names, names \subseteq Names,
         NEW gone, gone \subseteq Paths, AllAhead(s, gone),
         \A m \in gone, i \in DOMAIN s : ~Awaits(s[i], m)
  PROVE  AllAhead(Lose(s, names, gone), {})
<1> DEFINE t == Lose(s, names, gone)
<1>1. /\ t \in Seq(Frame) /\ DOMAIN t = DOMAIN s
      /\ \A i \in DOMAIN s : Losing(s[i], t[i], names, gone)
  BY LoseParts
<1> HIDE DEF t
<1>2. ASSUME NEW i \in DOMAIN t, t[i].op = "all", NEW x \in t[i].left
      PROVE  Ahead(t, i, x)
  <2>1. s[i].op = "all"
    <3>1. s[i].op \in {"init", "exit", "dir", "all", "gone"}
      BY <1>1, FrameParts
    <3> QED BY <1>1, <1>2, <3>1 DEF Losing
  <2>2. x \in s[i].left /\ x \notin gone
    BY <1>1, <1>2, <2>1 DEF Losing
  <2>3. t[i].n = s[i].n
    BY <1>1, <2>1 DEF Losing, Awaits
  <2>4. Ahead(s, i, x)
    BY <1>1, <2>1, <2>2 DEF AllAhead
  <2>5. i > 1 => i - 1 \in DOMAIN s
    BY <1>1
  <2>6. i > 1 /\ s[i - 1].op = "exit" /\ s[i - 1].m = x => t[i - 1] = s[i - 1]
    BY <1>1, <2>2, <2>5 DEF Losing
  <2> QED BY <2>3, <2>4, <2>6 DEF Ahead
<1> QED BY <1>2 DEF AllAhead, t

LEMMA NotBeforeStays ==
  ASSUME ListInv, NEW x, NEW y, NotBefore(x, y),
         \/ UNCHANGED modules
         \/ \E p \in Paths : modules' = <<p>> \o modules
         \/ \E m \in Range(modules) : m # x /\ m # y /\ modules' = Unlinked(m)
  PROVE  NotBefore(x, y)'
<1>1. PICK j, k \in DOMAIN modules : j <= k /\ modules[j] = x /\ modules[k] = y
  BY DEF NotBefore
<1>2. j \in Nat /\ k \in Nat
  BY DEF ListInv
<1>3. CASE UNCHANGED modules
  BY <1>1, <1>3 DEF NotBefore
<1>4. ASSUME NEW p \in Paths, modules' = <<p>> \o modules PROVE NotBefore(x, y)'
  <2>1. /\ j + 1 \in DOMAIN modules' /\ modules'[j + 1] = x
        /\ k + 1 \in DOMAIN modules' /\ modules'[k + 1] = y
    BY <1>1, <1>4, InFront
  <2>2. j + 1 <= k + 1
    BY <1>1, <1>2
  <2> QED BY <2>1, <2>2 DEF NotBefore
<1>5. ASSUME NEW m \in Range(modules), m # x, m # y, modules' = Unlinked(m)
      PROVE  NotBefore(x, y)'
  <2>1. Place(m) \in DOMAIN modules /\ modules[Place(m)] = m
    BY PlaceParts
  <2>2. j # Place(m) /\ k # Place(m) /\ Place(m) \in Nat
    BY <1>1, <1>5, <2>1 DEF ListInv
  <2> DEFINE at(h) == IF h < Place(m) THEN h ELSE h - 1
  <2>3. /\ at(j) \in DOMAIN modules' /\ modules'[at(j)] = x
        /\ at(k) \in DOMAIN modules' /\ modules'[at(k)] = y
    BY <1>1, <1>5, <2>2, UnlinkedParts
  <2>4. at(j) <= at(k)
    BY <1>1, <1>2, <2>2
  <2> HIDE DEF at
  <2> QED BY <2>3, <2>4 DEF NotBefore
<1> QED BY <1>3, <1>4, <1>5

(* The list changes under calls that are not concerned.                    *)
LEMMA AheadStays ==
  ASSUME ListInv, NEW s, AllAhead(s, {}), stack' = s,
         \/ UNCHANGED modules
         \/ \E p \in Paths : modules' = <<p>> \o modules
         \/ \E m \in Range(modules) :
              /\ modules' = Unlinked(m)
              /\ \A i \in DOMAIN s : ~Mentions(s[i], m)
  PROVE  AllInv'
<1>1. ASSUME NEW i \in DOMAIN s, s[i].op = "all", NEW x \in s[i].left, NEW n, n = s[i].n
      PROVE  \/ NotBefore(n, x)'
             \/ i > 1 /\ s[i - 1].op = "exit" /\ s[i - 1].m = x
  <2>1. \/ NotBefore(n, x)
        \/ i > 1 /\ s[i - 1].op = "exit" /\ s[i - 1].m = x
    BY <1>1 DEF AllAhead, Ahead
  <2>2. \A m : ~Mentions(s[i], m) => m # n /\ m # x
    BY <1>1 DEF Mentions, Awaits
  <2>3. \/ UNCHANGED modules
        \/ \E p \in Paths : modules' = <<p>> \o modules
        \/ \E m \in Range(modules) : m # n /\ m # x /\ modules' = Unlinked(m)
    BY <1>1, <2>2
  <2> QED BY <2>1, <2>3, NotBeforeStays
<1> QED BY <1>1 DEF AllInv, AllAhead, Ahead, NotBefore

(* After a module has gone no call knows it.                               *)
LEMMA LoseForgets ==
  ASSUME LoaderAssumption, NEW s \in Seq(Frame), NEW names, names \subseteq Names,
         NEW gone, gone \subseteq Paths, NEW m \in gone, NEW i \in DOMAIN s
  PROVE  ~Mentions(Lose(s, names, gone)[i], m)
<1> DEFINE d == Lose(s, names, gone)[i]
<1>1. Losing(s[i], d, names, gone) /\ s[i].op \in {"init", "exit", "dir", "all", "gone"}
  BY LoseParts, FrameParts
<1> HIDE DEF d
<1>2. Stale \notin Paths
  BY DEF LoaderAssumption
<1>3. ~Mentions(d, m)
  <2>1. CASE s[i].op \in {"dir", "gone"}
    BY <1>1, <2>1 DEF Losing, Mentions, Awaits
  <2>2. CASE s[i].op = "all"
    BY <1>1, <1>2, <2>2 DEF Losing, Mentions, Awaits
  <2>3. CASE s[i].op \in {"init", "exit"}
    BY <1>1, <2>3 DEF Losing, Mentions, Awaits
  <2> QED BY <1>1, <2>1, <2>2, <2>3
<1> QED BY <1>3 DEF d

LEMMA FinishNames ==
  ASSUME LoaderAssumption, IInv, NEW m \in Range(modules)
  PROVE  m \in Paths /\ {name[m], Filename[m]} \subseteq Names /\ {m} \subseteq Paths
<1>1. m \in Paths
  BY PlaceParts DEF IInv
<1>2. name[m] \in Names /\ Filename[m] \in Range(Filename)
  BY <1>1 DEF IInv, LoaderAssumption
<1> QED BY <1>1, <1>2 DEF Names

LEMMA FinishAhead ==
  ASSUME LoaderAssumption, IInv, NEW m \in Range(modules), NEW frames \in Seq(Frame),
         AllAhead(frames, {m}), Finish(m, frames), \A i \in DOMAIN frames : ~Awaits(frames[i], m)
  PROVE  AllInv'
<1> DEFINE names == {name[m], Filename[m]}
           gone == {m}
           s == Lose(frames, names, gone)
<1>1. names \subseteq Names /\ gone \subseteq Paths /\ m \in gone
  BY FinishNames
<1>2. modules' = Unlinked(m) /\ stack' = s
  BY DEF Finish
<1>3. AllAhead(frames, gone) /\ \A x \in gone, i \in DOMAIN frames : ~Awaits(frames[i], x)
  OBVIOUS
<1> HIDE DEF names, gone
<1>4. DOMAIN s = DOMAIN frames
  BY <1>1, LoseParts
<1>5. AllAhead(s, {})
  BY <1>1, <1>3, AheadLose
<1>6. \A i \in DOMAIN s : ~Mentions(s[i], m)
  BY <1>1, <1>4, LoseForgets
<1> HIDE DEF s
<1>7. ListInv
  BY DEF IInv
<1> QED BY <1>2, <1>5, <1>6, <1>7, AheadStays

LEMMA LoadAhead ==
  ASSUME IInv, NEW p \in Paths, NEW frames, FramesInv(frames), AllAhead(frames, {}),
         Load(p, frames)
  PROVE  AllInv'
<1>1. ListInv /\ frames \in Seq(Frame)
  BY DEF IInv, FramesInv
<1>2. ASSUME NEW e, Fails(e, frames) PROVE AllInv'
  <2> DEFINE s == Refused(frames)
  <2>1. stack' = s /\ UNCHANGED modules
    BY <1>2 DEF Fails
  <2>2. /\ DOMAIN s = DOMAIN frames
        /\ \A i \in DOMAIN frames : frames[i].op = "exit" \/ s[i].op = "all" => s[i] = frames[i]
    BY RefusedInv
  <2> HIDE DEF s
  <2>3. AllAhead(s, {})
    BY <1>1, <2>2, AheadSame
  <2> QED BY <1>1, <2>1, <2>3, AheadStays
<1>3. ASSUME Start(p, frames) PROVE AllInv'
  <2> DEFINE c == [op |-> "init", m |-> p]
  <2>1. c \in Frame /\ c.op # "all" /\ stack' = <<c>> \o frames /\ modules' = <<p>> \o modules
    BY <1>3 DEF Frame, CallFrame, Start
  <2> HIDE DEF c
  <2>2. AllAhead(<<c>> \o frames, {})
    BY <1>1, <2>1, AheadPush
  <2> QED BY <1>1, <2>1, <2>2, AheadStays
<1> QED BY <1>2, <1>3 DEF Load

(* unload_module(m), called on frames that have to get to every module but *)
(* m; if one of them is unload_all_modules(), it is the caller.            *)
LEMMA UnloadAhead ==
  ASSUME LoaderAssumption, IInv, NEW m \in Range(modules), NEW frames, FramesInv(frames),
         AllAhead(frames, {m}), AllAhead(frames, {}) \/ (frames # <<>> /\ frames[1].op = "all"),
         \A i \in DOMAIN frames :
           i > 1 /\ frames[i].op = "all" => \A x \in frames[i].left : Ahead(frames, i, x),
         Unload(m, frames)
  PROVE  AllInv'
<1>1. frames \in Seq(Frame) /\ ListInv /\ m \in Paths
  BY PlaceParts DEF IInv, FramesInv
<1> SUFFICES ASSUME ~misused' PROVE AllInv'
  BY DEF AllInv
<1>2. \A i \in DOMAIN frames : ~Awaits(frames[i], m)
  BY NeededIs DEF Unload
<1>3. CASE m \in NoExit
  <2>1. Finish(m, frames)
    BY <1>3 DEF Unload
  <2> QED BY <1>1, <1>2, <2>1, FinishAhead
<1>4. CASE m \notin NoExit
  <2> DEFINE c == [op |-> "exit", m |-> m]
             s == <<c>> \o frames
  <2>1. c \in Frame /\ c.op = "exit" /\ c.m = m /\ stack' = s /\ UNCHANGED modules
    BY <1>1, <1>4 DEF Frame, CallFrame, Unload
  <2> HIDE DEF c
  <2>2. /\ s[1] = c /\ \A i \in DOMAIN s : i # 1 => i - 1 \in DOMAIN frames /\ s[i] = frames[i - 1]
        /\ s \in Seq(Frame)
    BY <1>1, <2>1, PushParts
  <2> HIDE DEF s
  <2>3. ASSUME NEW i \in DOMAIN s, s[i].op = "all", NEW x \in s[i].left
        PROVE  Ahead(s, i, x)
    <3>1. i # 1 /\ i - 1 \in DOMAIN frames /\ s[i] = frames[i - 1] /\ i > 1
      BY <2>1, <2>2, <2>3
    <3>2. CASE Ahead(frames, i - 1, x)
      <4>1. i - 1 > 1 => i - 1 \in DOMAIN s /\ i - 1 # 1
        BY <2>2, <3>1
      <4>2. i - 1 > 1 => s[i - 1] = frames[(i - 1) - 1]
        BY <2>2, <4>1
      <4> QED BY <3>1, <3>2, <4>2 DEF Ahead
    <3>3. CASE ~Ahead(frames, i - 1, x)
      <4>1. i - 1 = 1
        <5>1. ~(i - 1 > 1)
          BY <2>3, <3>1, <3>3
        <5>2. i \in Nat /\ i - 1 >= 1
          BY <1>1, <2>2, <3>1
        <5> QED BY <5>1, <5>2
      <4>2. x = m
        BY <2>3, <3>1, <3>3 DEF AllAhead
      <4> QED BY <2>1, <2>2, <3>1, <4>1, <4>2 DEF Ahead
    <3> QED BY <3>2, <3>3
  <2>4. AllAhead(s, {})
    BY <2>3 DEF AllAhead
  <2> QED BY <1>1, <2>1, <2>4, AheadStays
<1> QED BY <1>3, <1>4

LEMMA NextAhead == LoaderAssumption /\ IInv /\ AllInv /\ [Next]_vars => AllInv'
<1> SUFFICES ASSUME LoaderAssumption, IInv, AllInv, [Next]_vars, ~misused' PROVE AllInv'
  BY DEF AllInv
<1>1. ListInv /\ FramesInv(stack) /\ stack \in Seq(Frame)
  BY DEF IInv, FramesInv
<1>2. ASSUME NEW m \in Paths, load_module(m) PROVE AllInv'
  <2>1. ~misused /\ Load(m, stack)
    BY <1>2 DEF load_module, Calling
  <2> QED BY <1>1, <2>1, LoadAhead DEF AllInv
<1>3. ASSUME NEW m \in Paths, unload_module(m) PROVE AllInv'
  <2>1. ~misused /\ m \in Range(modules) /\ Unload(m, stack)
    BY <1>3 DEF unload_module, Calling
  <2>2. AllAhead(stack, {}) /\ AllAhead(stack, {m})
    BY <2>1 DEF AllInv, AllAhead
  <2>3. \A i \in DOMAIN stack : stack[i].op = "all" => \A x \in stack[i].left : Ahead(stack, i, x)
    BY <2>2 DEF AllAhead
  <2> QED BY <1>1, <2>1, <2>2, <2>3, UnloadAhead
<1>4. ASSUME NEW m \in Paths, NEW x \in Names, module_set_name(m, x) PROVE AllInv'
  <2> DEFINE names == {name[m]}
             s == Lose(stack, names, {})
  <2>1. ~misused /\ stack' = s /\ UNCHANGED modules /\ names \subseteq Names
    BY <1>4 DEF module_set_name, Calling, IInv
  <2> HIDE DEF names
  <2>2. AllAhead(s, {})
    BY <1>1, <2>1, AheadLose DEF AllInv
  <2> QED BY <1>1, <2>1, <2>2, AheadStays
<1>5. CASE InitReturns
  <2>1. stack # <<>> /\ stack[1].op = "init" /\ stack' = Tail(stack) /\ UNCHANGED <<modules, misused>>
    BY <1>5 DEF InitReturns, In, Accepted, Top
  <2>2. AllAhead(Tail(stack), {})
    BY <1>1, <2>1, AheadPop DEF AllInv
  <2> QED BY <1>1, <2>1, <2>2, AheadStays
<1>6. CASE InitFails
  <2> DEFINE t == Tail(stack)
             s == Refused(t)
  <2>1. /\ stack # <<>> /\ stack[1].op = "init" /\ Top.op = "init" /\ stack' = s
        /\ modules' = Unlinked(Top.m) /\ UNCHANGED misused
    BY <1>6 DEF InitFails, Failing, In, Top
  <2>2. AllAhead(t, {})
    BY <1>1, <2>1, AheadPop DEF AllInv
  <2>3. /\ FramesInv(t) /\ t \in Seq(Frame) /\ Top.m \in Range(modules) /\ 1 \in DOMAIN stack
        /\ \A i \in DOMAIN t : i + 1 \in DOMAIN stack /\ t[i] = stack[i + 1] /\ i + 1 > 1
    BY <1>1, <2>1, TopParts
  <2>4. /\ DOMAIN s = DOMAIN t
        /\ \A i \in DOMAIN t : s[i].op = t[i].op /\ (t[i].op # "dir" => s[i] = t[i])
    BY <2>3, RefusedInv
  <2> HIDE DEF t, s
  <2>5. AllAhead(s, {})
    BY <2>2, <2>3, <2>4, AheadSame
  <2>6. \A j \in DOMAIN stack : j > 1 => ~Mentions(stack[j], Top.m)
    BY <1>1, <2>1, <2>3 DEF FramesInv, Fresh, Top
  <2>7. \A i \in DOMAIN s : ~Mentions(s[i], Top.m)
    BY <2>3, <2>4, <2>6 DEF Mentions, Awaits
  <2> QED BY <1>1, <2>1, <2>3, <2>5, <2>7, AheadStays
<1>7. CASE ExitReturns
  <2> DEFINE t == Tail(stack)
             m == Top.m
  <2>1. /\ stack # <<>> /\ stack[1].op = "exit" /\ Finish(m, t) /\ UNCHANGED misused
        /\ Top.op = "exit" /\ m = stack[1].m
    BY <1>7 DEF ExitReturns, In, Top
  <2>2. AllAhead(stack, {m})
    BY <2>1 DEF AllInv, AllAhead
  <2>3. AllAhead(t, {m})
    BY <1>1, <2>1, <2>2, AheadPop
  <2>4. /\ t \in Seq(Frame) /\ m \in Range(modules) /\ 1 \in DOMAIN stack
        /\ \A i \in DOMAIN t : i + 1 \in DOMAIN stack /\ t[i] = stack[i + 1] /\ i + 1 > 1
    BY <1>1, <2>1, TopParts
  <2>5. \A j \in DOMAIN stack : j > 1 => ~Awaits(stack[j], m)
    BY <1>1, <2>1, <2>4 DEF FramesInv, Unharmed
  <2>6. \A i \in DOMAIN t : ~Awaits(t[i], m)
    BY <2>4, <2>5
  <2> HIDE DEF t, m
  <2> QED BY <2>1, <2>3, <2>4, <2>6, FinishAhead
<1>8. CASE ReturnsNowhere \/ OpendirFails \/ UNCHANGED vars
  <2>1. UNCHANGED <<modules, stack, misused>>
    BY <1>8 DEF ReturnsNowhere, OpendirFails, vars
  <2> QED BY <1>1, <2>1, AheadStays DEF AllInv
<1>9. CASE load_modules_from_dir
  <2> DEFINE c == [op |-> "dir", rest |-> Dir, rc |-> 0, lost |-> {}]
  <2>1. c \in DirFrame /\ c.op # "all"
    BY DEF DirFrame, LoaderAssumption, Entries
  <2>2. stack' = <<c>> \o stack /\ UNCHANGED <<modules, misused>> /\ c \in Frame
    BY <1>9, <2>1 DEF load_modules_from_dir, Frame
  <2> HIDE DEF c
  <2>3. AllAhead(<<c>> \o stack, {})
    BY <1>1, <2>1, <2>2, AheadPush DEF AllInv
  <2> QED BY <1>1, <2>2, <2>3, AheadStays
<1>10. CASE SkipEntry
  <2>1. Reading /\ stack' = Passed /\ UNCHANGED <<modules, misused>>
    BY <1>10 DEF SkipEntry
  <2>2. Top.op = "dir"
    BY <2>1 DEF Reading, In
  <2>3. /\ DOMAIN Passed = DOMAIN stack
        /\ \A i \in DOMAIN stack : stack[i].op = "exit" \/ Passed[i].op = "all" => Passed[i] = stack[i]
    BY <2>1, <2>2, PassedInv DEF Top
  <2>4. AllAhead(Passed, {})
    BY <1>1, <2>1, <2>3, AheadSame DEF AllInv
  <2> QED BY <1>1, <2>1, <2>4, AheadStays
<1>11. CASE LoadEntry
  <2> DEFINE s == Passed
             p == Entry.path
  <2>1. Reading /\ Load(p, s)
    BY <1>11 DEF LoadEntry
  <2>2. Top.op = "dir"
    BY <2>1 DEF Reading, In
  <2>3. /\ DOMAIN s = DOMAIN stack /\ FramesInv(s) /\ p \in Paths
        /\ \A i \in DOMAIN stack : stack[i].op = "exit" \/ s[i].op = "all" => s[i] = stack[i]
    BY <2>1, <2>2, PassedInv DEF Top, Entries
  <2>4. misused' = misused
    BY <2>1 DEF Load, Fails, Start
  <2>5. AllAhead(stack, {})
    BY <2>4 DEF AllInv
  <2> HIDE DEF s, p
  <2>6. AllAhead(s, {})
    BY <1>1, <2>3, <2>5, AheadSame
  <2> QED BY <2>1, <2>3, <2>6, LoadAhead
<1>12. CASE DirDone \/ AllDone
  <2>1. /\ stack # <<>> /\ stack[1].op # "exit" /\ stack' = Tail(stack)
        /\ UNCHANGED <<modules, misused>>
    BY <1>12 DEF DirDone, AllDone, In, Top
  <2>2. AllAhead(Tail(stack), {})
    BY <1>1, <2>1, AheadPop DEF AllInv
  <2> QED BY <1>1, <2>1, <2>2, AheadStays
<1>13. CASE unload_all_modules
  <2> DEFINE c == [op |-> "all", n |-> First, left |-> Range(modules)]
             s == <<c>> \o stack
  <2>1. modules \in Seq(Paths) /\ Range(modules) \subseteq Paths
    BY <1>1, SeqParts DEF ListInv
  <2>2. First \in Range(modules) \cup {Head_}
    BY <2>1 DEF First, Range
  <2>3. c \in AllFrame /\ c.n = First /\ c.left = Range(modules)
    BY <2>1, <2>2 DEF AllFrame
  <2>4. stack' = s /\ UNCHANGED <<modules, misused>> /\ c \in Frame
    BY <1>13, <2>3 DEF unload_all_modules, Frame
  <2> HIDE DEF c
  <2>5. /\ s[1] = c /\ \A i \in DOMAIN s : i # 1 => i - 1 \in DOMAIN stack /\ s[i] = stack[i - 1]
        /\ s \in Seq(Frame)
    BY <1>1, <2>4, PushParts
  <2> HIDE DEF s
  <2>6. AllAhead(stack, {})
    BY <2>4 DEF AllInv
  <2>7. ASSUME NEW x \in Range(modules) PROVE NotBefore(First, x)
    <3>1. PICK k \in DOMAIN modules : modules[k] = x
      BY DEF Range
    <3>2. 1 \in DOMAIN modules /\ 1 <= k /\ First = modules[1]
      BY <2>1, <3>1 DEF First
    <3> QED BY <3>1, <3>2 DEF NotBefore
  <2>8. ASSUME NEW i \in DOMAIN s, s[i].op = "all", NEW x \in s[i].left PROVE Ahead(s, i, x)
    <3>1. CASE i = 1
      BY <2>3, <2>5, <2>7, <2>8, <3>1 DEF Ahead
    <3>2. CASE i # 1
      <4>1. i - 1 \in DOMAIN stack /\ s[i] = stack[i - 1] /\ i > 1
        BY <2>5, <3>2
      <4>2. Ahead(stack, i - 1, x)
        BY <2>6, <2>8, <4>1 DEF AllAhead
      <4>3. i - 1 > 1 => i - 1 \in DOMAIN s /\ i - 1 # 1
        BY <2>5, <4>1
      <4> QED BY <2>5, <4>1, <4>2, <4>3 DEF Ahead
    <3> QED BY <3>1, <3>2
  <2>9. AllAhead(s, {})
    BY <2>8 DEF AllAhead
  <2> QED BY <1>1, <2>4, <2>9, AheadStays
<1>14. CASE UnloadNext
  <2> DEFINE m == Top.n
             s == [stack EXCEPT ![1].n = After(Top.n)]
  <2>1. In("all") /\ Top.n # Head_ /\ stack # <<>> /\ stack[1].op = "all"
    BY <1>14 DEF UnloadNext, In, Top
  <2>2. misused => misused'
    BY <1>14 DEF UnloadNext, Unload
  <2>3. Top.n # Stale
    <3>1. 1 \in DOMAIN stack
      BY <2>1, TopParts
    <3> QED BY <1>1, <2>1, <2>2, <3>1 DEF FramesInv, Unharmed, Top
  <2>4. /\ m \in Range(modules) /\ FramesInv(s) /\ DOMAIN s = DOMAIN stack
        /\ s[1] = [Top EXCEPT !.n = After(Top.n)] /\ Top \in AllFrame
        /\ \A i \in DOMAIN stack : i # 1 => s[i] = stack[i]
    BY <2>1, <2>3, WalkInv
  <2>5. Unload(m, s)
    BY <1>14, <2>3 DEF UnloadNext, NextOf
  <2>6. s[1].op = "all" /\ s[1].n = After(m) /\ s[1].left = stack[1].left
    BY <2>1, <2>4 DEF AllFrame, Top
  <2> HIDE DEF s
  <2>7. AllAhead(stack, {}) /\ stack[1].n = m
    BY <2>2 DEF AllInv, Top
  <2>8. Range(modules) \subseteq Paths
    BY <1>1, SeqParts DEF ListInv
  <2>9. ASSUME NEW x \in s[1].left PROVE x = m \/ NotBefore(After(m), x)
    <3>1. 1 \in DOMAIN stack /\ stack[1] \in AllFrame
      BY <2>1, <2>4, TopParts DEF Top
    <3>2. NotBefore(m, x) /\ x \in Paths
      BY <2>1, <2>6, <2>7, <3>1 DEF AllAhead, Ahead, AllFrame
    <3> QED BY <1>1, <2>4, <3>2, AfterParts
  <2>10. ASSUME NEW i \in DOMAIN s, i > 1, s[i].op = "all", NEW x \in s[i].left
         PROVE  Ahead(s, i, x)
    <3>1. s[i] = stack[i] /\ Ahead(stack, i, x) /\ i - 1 \in DOMAIN stack
      BY <1>1, <2>4, <2>7, <2>10 DEF AllAhead
    <3>2. stack[i - 1].op = "exit" => s[i - 1] = stack[i - 1]
      BY <2>1, <2>4, <3>1
    <3> QED BY <3>1, <3>2 DEF Ahead
  <2>11. AllAhead(s, {m})
    <3>1. \A i \in DOMAIN s : i = 1 \/ i > 1
      BY <1>1, <2>4
    <3> QED BY <2>6, <2>9, <2>10, <3>1 DEF AllAhead, Ahead
  <2>12. s # <<>>
    BY <2>1, <2>4
  <2> HIDE DEF m
  <2> QED BY <2>4, <2>5, <2>6, <2>10, <2>11, <2>12, UnloadAhead
<1> QED BY <1>2, <1>3, <1>4, <1>5, <1>6, <1>7, <1>8, <1>9, <1>10, <1>11, <1>12, <1>13, <1>14 DEF Next

(* When unload_all_modules() returns, no module is left that was in the    *)
(* list when it was called, unless a function unloaded the next one.       *)
THEOREM EverythingUnloaded ==
  ASSUME LoaderAssumption
  PROVE  Spec => AllUnloaded
<1>1. Init => IInv /\ AllInv
  <2>1. Init => AllInv
    BY DEF Init, AllInv, AllAhead
  <2> QED BY <2>1, InitInv
<1>2. IInv /\ AllInv /\ [Next]_vars => (IInv /\ AllInv)'
  BY NextInv, NextAhead
<1>3. IInv /\ AllInv /\ AllDone /\ ~misused => Top.left \cap Range(modules) = {}
  <2> SUFFICES ASSUME IInv, AllInv, AllDone, ~misused, NEW x \in Top.left PROVE FALSE
    OBVIOUS
  <2>1. stack # <<>> /\ Top.op = "all" /\ Top.n = Head_
    BY DEF AllDone, In
  <2>2. 1 \in DOMAIN stack
    BY <2>1, TopParts
  <2>3. NotBefore(Head_, x)
    BY <2>1, <2>2 DEF AllInv, AllAhead, Ahead, Top
  <2>4. Head_ \in Range(modules) /\ Range(modules) \subseteq Paths
    BY <2>3, SeqParts, ZenonT(60) DEF NotBefore, Range, IInv, ListInv
  <2> QED BY <2>4 DEF LoaderAssumption
<1> QED BY <1>1, <1>2, <1>3, PTL DEF Spec, AllUnloaded

-----------------------------------------------------------------------------
(* load_modules_from_dir() accounts for every file.                        *)

(* Calls that know less, or have fewer init functions above them.          *)
LEMMA DirSame ==
  ASSUME NEW s, NEW t, DirOK(s), DOMAIN t = DOMAIN s,
         \A i \in DOMAIN s :
           /\ t[i].op = "dir" =>
                /\ s[i].op = "dir" /\ t[i].rest = s[i].rest /\ s[i].lost \subseteq t[i].lost
                /\ t[i].rc = 0 => s[i].rc = 0
           /\ t[i].op = "init" => t[i] = s[i]
  PROVE  DirOK(t)
<1> SUFFICES ASSUME NEW j \in DOMAIN t, t[j].op = "dir" PROVE Accounted(t, j)
  BY DEF DirOK
<1>1. Accounted(s, j) /\ t[j].rest = s[j].rest
  BY DEF DirOK
<1>2. InDir(t[j]) /\ Seen(t[j]) = Seen(s[j])
  BY <1>1 DEF Accounted, InDir, Seen
<1>3. \A i : Counts(t[j], i) => Counts(s[j], i)
  BY DEF Counts
<1>4. \A x : Answered(s, j, x) => Answered(t, j, x)
  BY DEF Answered
<1> QED BY <1>1, <1>2, <1>3, <1>4 DEF Accounted

LEMMA DirPush ==
  ASSUME NEW s \in Seq(Frame), DirOK(s), NEW c \in Frame, c.op # "dir",
         c.op = "init" => c.m \notin Range(modules)
  PROVE  DirOK(<<c>> \o s)
<1> DEFINE t == <<c>> \o s
<1>1. /\ t[1] = c /\ \A i \in DOMAIN t : i # 1 => i - 1 \in DOMAIN s /\ t[i] = s[i - 1]
      /\ t \in Seq(Frame)
  BY PushParts
<1> HIDE DEF t
<1> SUFFICES ASSUME NEW j \in DOMAIN t, t[j].op = "dir" PROVE Accounted(t, j)
  BY DEF DirOK, t
<1>2. j # 1 /\ j - 1 \in DOMAIN s /\ t[j] = s[j - 1]
  BY <1>1
<1>3. Accounted(s, j - 1)
  BY <1>2 DEF DirOK
<1>4. ASSUME NEW x, Answered(s, j - 1, x) PROVE Answered(t, j, x)
  <2>1. PICK m \in Range(modules) :
          /\ Answers(m, x)
          /\ \A h \in DOMAIN s : h < (j - 1) - 1 => ~(s[h].op = "init" /\ s[h].m = m)
    BY <1>4 DEF Answered
  <2>2. ASSUME NEW h \in DOMAIN t, h < j - 1 PROVE ~(t[h].op = "init" /\ t[h].m = m)
    <3>1. CASE h = 1
      BY <1>1, <3>1
    <3>2. CASE h # 1
      <4>1. h - 1 \in DOMAIN s /\ t[h] = s[h - 1]
        BY <1>1, <3>2
      <4>2. h - 1 < (j - 1) - 1
        BY <1>1, <2>2
      <4> QED BY <2>1, <4>1, <4>2
    <3> QED BY <3>1, <3>2
  <2> QED BY <2>1, <2>2 DEF Answered
<1> QED BY <1>2, <1>3, <1>4 DEF Accounted

LEMMA DirPop ==
  ASSUME NEW s \in Seq(Frame), DirOK(s), s # <<>>
  PROVE  DirOK(Tail(s))
<1> DEFINE t == Tail(s)
<1>1. t \in Seq(Frame) /\ \A i \in DOMAIN t : i + 1 \in DOMAIN s /\ t[i] = s[i + 1] /\ i \in Nat
  OBVIOUS
<1> HIDE DEF t
<1> SUFFICES ASSUME NEW j \in DOMAIN t, t[j].op = "dir" PROVE Accounted(t, j)
  BY DEF DirOK, t
<1>2. Accounted(s, j + 1) /\ t[j] = s[j + 1]
  BY <1>1 DEF DirOK
<1>3. ASSUME NEW x, Answered(s, j + 1, x) PROVE Answered(t, j, x)
  <2>1. PICK m \in Range(modules) :
          /\ Answers(m, x)
          /\ \A h \in DOMAIN s : h < (j + 1) - 1 => ~(s[h].op = "init" /\ s[h].m = m)
    BY <1>3 DEF Answered
  <2>2. ASSUME NEW h \in DOMAIN t, h < j - 1 PROVE ~(t[h].op = "init" /\ t[h].m = m)
    <3>1. h + 1 < (j + 1) - 1
      BY <1>1, <2>2
    <3> QED BY <1>1, <2>1, <3>1
  <2> QED BY <2>1, <2>2 DEF Answered
<1> QED BY <1>2, <1>3 DEF Accounted

(* The list and the names change, but whoever answered to the name of a    *)
(* file that counts still does.                                            *)
LEMMA DirStays ==
  ASSUME NEW s, DirOK(s), stack' = s,
         \A m \in Range(modules), j \in DOMAIN s : \A x :
           s[j].op = "dir" /\ Answers(m, x) /\ x \notin s[j].lost
           => m \in Range(modules') /\ (name'[m] = x \/ Filename[m] = x)
  PROVE  DirInv'
<1>1. ASSUME NEW j \in DOMAIN s, s[j].op = "dir", NEW i \in Seen(s[j]), Counts(s[j], i)
      PROVE  \E m \in Range(modules') :
               /\ name'[m] = Filename[Dir[i].path] \/ Filename[m] = Filename[Dir[i].path]
               /\ \A h \in DOMAIN s : h < j - 1 => ~(s[h].op = "init" /\ s[h].m = m)
  <2>1. PICK m \in Range(modules) :
               /\ Answers(m, Filename[Dir[i].path])
               /\ \A h \in DOMAIN s : h < j - 1 => ~(s[h].op = "init" /\ s[h].m = m)
    BY <1>1 DEF DirOK, Accounted, Answered
  <2>2. Filename[Dir[i].path] \notin s[j].lost
    BY <1>1 DEF Counts
  <2>3. m \in Range(modules') /\ (name'[m] = Filename[Dir[i].path] \/ Filename[m] = Filename[Dir[i].path])
    BY <1>1, <2>1, <2>2
  <2> QED BY <2>1, <2>3
<1>2. \A j \in DOMAIN s : s[j].op = "dir" => InDir(s[j])
  BY DEF DirOK, Accounted
<1> QED BY <1>1, <1>2 DEF DirInv, DirOK, Accounted, Answered, Answers, Seen, Counts, InDir

(* dlclose(), list_del() and free().                                       *)
LEMMA FinishDir ==
  ASSUME LoaderAssumption, IInv, NEW m \in Range(modules), NEW frames \in Seq(Frame),
         DirOK(frames), Finish(m, frames)
  PROVE  DirInv'
<1> DEFINE names == {name[m], Filename[m]}
           gone == {m}
           s == Lose(frames, names, gone)
<1>1. names \subseteq Names /\ gone \subseteq Paths /\ m \in Paths
  BY FinishNames
<1>2. /\ modules' = Unlinked(m) /\ stack' = s
      /\ name' = [name EXCEPT ![m] = Filename[m]]
  BY DEF Finish
<1>3. \A x : Answers(m, x) => x \in names
  BY DEF Answers
<1>4. /\ DOMAIN s = DOMAIN frames
      /\ \A i \in DOMAIN frames : Losing(frames[i], s[i], names, gone)
  BY <1>1, LoseParts
<1> HIDE DEF names, gone, s
<1>5. ASSUME NEW i \in DOMAIN frames
      PROVE  /\ s[i].op = "dir" =>
                  /\ frames[i].op = "dir" /\ s[i].rest = frames[i].rest
                  /\ frames[i].lost \subseteq s[i].lost /\ names \subseteq s[i].lost
                  /\ s[i].rc = 0 => frames[i].rc = 0
             /\ s[i].op = "init" => s[i] = frames[i]
  <2>1. frames[i].op \in {"init", "exit", "dir", "all", "gone"}
    BY FrameParts
  <2> QED BY <1>4, <2>1 DEF Losing
<1>6. DirOK(s)
  BY <1>4, <1>5, DirSame
<1>7. Range(modules') = Range(modules) \ {m} /\ \A p \in Range(modules) \ {m} : name'[p] = name[p]
  <2>1. ListInv /\ Range(modules) \subseteq Paths /\ name \in [Paths -> Names]
    BY SeqParts DEF IInv, ListInv
  <2> QED BY <1>1, <1>2, <2>1, UnlinkedParts
<1>8. \A p \in Range(modules), j \in DOMAIN s : \A x :
           s[j].op = "dir" /\ Answers(p, x) /\ x \notin s[j].lost
           => p \in Range(modules') /\ (name'[p] = x \/ Filename[p] = x)
  BY <1>3, <1>4, <1>5, <1>7 DEF Answers
<1> QED BY <1>2, <1>6, <1>8, DirStays

LEMMA UnloadDir ==
  ASSUME LoaderAssumption, IInv, NEW m \in Range(modules), NEW frames \in Seq(Frame),
         DirOK(frames), Unload(m, frames)
  PROVE  DirInv'
<1>1. CASE m \in NoExit
  BY <1>1, FinishDir DEF Unload
<1>2. CASE m \notin NoExit
  <2> DEFINE c == [op |-> "exit", m |-> m]
  <2>1. m \in Paths
    BY PlaceParts DEF IInv
  <2>2. c \in Frame /\ c.op = "exit" /\ stack' = <<c>> \o frames /\ UNCHANGED <<modules, name>>
    BY <1>2, <2>1 DEF Frame, CallFrame, Unload
  <2> HIDE DEF c
  <2>3. DirOK(<<c>> \o frames)
    BY <2>2, DirPush
  <2> QED BY <2>2, <2>3, DirStays DEF Answers
<1> QED BY <1>1, <1>2

(* load_module() by an application, or by an init or exit function.        *)
LEMMA LoadDir ==
  ASSUME LoaderAssumption, IInv, NEW p \in Paths, DirInv, Load(p, stack)
  PROVE  DirInv'
<1>1. ListInv /\ FramesInv(stack) /\ stack \in Seq(Frame)
  BY DEF IInv, FramesInv
<1>2. ASSUME NEW e, Fails(e, stack) PROVE DirInv'
  <2> DEFINE s == Refused(stack)
  <2>1. stack' = s /\ UNCHANGED <<modules, name>>
    BY <1>2 DEF Fails
  <2>2. s = stack \/ (stack # <<>> /\ stack[1].op = "dir" /\ s = [stack EXCEPT ![1].rc = -1])
    BY DEF Refused
  <2> HIDE DEF s
  <2>3. CASE s = stack
    BY <2>1, <2>3, DirStays DEF DirInv, Answers
  <2>4. CASE stack # <<>> /\ stack[1].op = "dir" /\ s = [stack EXCEPT ![1].rc = -1]
    <3>1. 1 \in DOMAIN stack /\ stack[1] \in DirFrame
      BY <1>1, <2>4, FrameParts
    <3>2. s[1] = [stack[1] EXCEPT !.rc = -1] /\ DOMAIN s = DOMAIN stack
          /\ \A i \in DOMAIN stack : i # 1 => s[i] = stack[i]
      BY <1>1, <2>4, <3>1
    <3>3. s[1].op = "dir" /\ s[1].rest = stack[1].rest /\ s[1].lost = stack[1].lost /\ s[1].rc = -1
      BY <3>1, <3>2 DEF DirFrame
    <3>4. ASSUME NEW i \in DOMAIN stack
          PROVE  /\ s[i].op = "dir" =>
                      /\ stack[i].op = "dir" /\ s[i].rest = stack[i].rest
                      /\ stack[i].lost \subseteq s[i].lost
                      /\ s[i].rc = 0 => stack[i].rc = 0
                 /\ s[i].op = "init" => s[i] = stack[i]
      <4>1. CASE i = 1
        BY <2>4, <3>3, <4>1
      <4>2. CASE i # 1
        BY <3>2, <4>2
      <4> QED BY <4>1, <4>2
    <3>5. DirOK(stack)
      BY DEF DirInv
    <3>6. DirOK(s)
      BY <3>2, <3>4, <3>5, DirSame
    <3> QED BY <2>1, <3>6, DirStays DEF Answers
  <2> QED BY <2>2, <2>3, <2>4
<1>3. ASSUME ~find_module(Filename[p]), Start(p, stack) PROVE DirInv'
  <2> DEFINE c == [op |-> "init", m |-> p]
  <2>1. /\ c \in Frame /\ c.op = "init" /\ c.m = p /\ stack' = <<c>> \o stack
        /\ modules' = <<p>> \o modules /\ name' = name
    BY <1>3 DEF Frame, CallFrame, Start
  <2>2. p \notin Range(modules)
    BY <1>3 DEF find_module, Answers
  <2> HIDE DEF c
  <2>3. DirOK(<<c>> \o stack)
    BY <1>1, <2>1, <2>2, DirPush DEF DirInv
  <2>4. Range(modules) \subseteq Range(modules')
    BY <1>1, <2>1, InFront
  <2> QED BY <2>1, <2>3, <2>4, DirStays DEF Answers
<1> QED BY <1>2, <1>3 DEF Load

(* One file further: all is accounted for but that file.                   *)
LEMMA PassedDir ==
  ASSUME LoaderAssumption, IInv, DirInv, Reading
  PROVE  /\ \A j \in DOMAIN Passed : Passed[j].op = "dir" =>
              /\ InDir(Passed[j])
              /\ \A i \in Seen(Passed[j]) :
                   Counts(Passed[j], i) =>
                     \/ Answered(Passed, j, Filename[Dir[i].path])
                     \/ j = 1 /\ Dir[i] = Entry
<1> DEFINE s == Passed
           c == [Top EXCEPT !.rest = Tail(@)]
<1>1. /\ DOMAIN s = DOMAIN stack /\ s[1] = c /\ Top \in DirFrame
      /\ \A i \in DOMAIN stack : i # 1 => s[i] = stack[i]
      /\ s[1].op = "dir"
  BY PassedInv
<1> HIDE DEF s
<1>2. stack # <<>> /\ Top.op = "dir" /\ Top.rest # <<>> /\ Top.rest \in Seq(Entries)
  BY <1>1 DEF Reading, In, DirFrame
<1>3. c.rest = Tail(Top.rest) /\ c.rc = Top.rc /\ c.lost = Top.lost
  BY <1>1 DEF DirFrame
<1>4. 1 \in DOMAIN stack /\ stack[1] = Top
  BY <1>2, TopParts DEF Top
<1>5. Accounted(stack, 1) /\ InDir(Top)
  BY <1>2, <1>4 DEF DirInv, DirOK, Accounted
<1> HIDE DEF c
<1>6. \A j \in DOMAIN stack : \A x : Answered(stack, j, x) => Answered(s, j, x)
  <2>1. \A i \in DOMAIN stack : s[i].op = "init" => s[i] = stack[i]
    BY <1>1
  <2> QED BY <1>1, <2>1 DEF Answered
<1>7. Dir \in Seq(Entries) /\ Len(Dir) \in Nat /\ Len(Top.rest) \in Nat /\ Len(Top.rest) >= 1
  <2>1. Dir \in Seq(Entries)
    BY DEF LoaderAssumption, Entries
  <2> QED BY <1>2, <2>1
<1>8. /\ Len(c.rest) = Len(Top.rest) - 1 /\ Len(c.rest) \in Nat
      /\ \A i \in DOMAIN c.rest : c.rest[i] = Top.rest[i + 1] /\ i + 1 \in DOMAIN Top.rest /\ i \in Nat
      /\ Entry = Top.rest[1] /\ 1 \in DOMAIN Top.rest
  BY <1>2, <1>3 DEF Entry
<1>9. InDir(c)
  <2>1. Len(c.rest) <= Len(Dir)
    BY <1>5, <1>7, <1>8 DEF InDir
  <2>2. ASSUME NEW i \in DOMAIN c.rest PROVE c.rest[i] = Dir[Len(Dir) - Len(c.rest) + i]
    <3>1. c.rest[i] = Dir[Len(Dir) - Len(Top.rest) + (i + 1)]
      BY <1>5, <1>8 DEF InDir
    <3>2. i \in Nat /\ Len(c.rest) = Len(Top.rest) - 1
      BY <1>8
    <3>3. \A a, b, k \in Nat : a - b + (k + 1) = a - (b - 1) + k
      OBVIOUS
    <3>4. Len(Dir) - Len(Top.rest) + (i + 1) = Len(Dir) - (Len(Top.rest) - 1) + i
      BY <1>7, <3>2, <3>3
    <3> QED BY <3>1, <3>2, <3>4
  <2> QED BY <2>1, <2>2 DEF InDir
<1>10. ASSUME NEW i \in Seen(c), Counts(c, i)
       PROVE  Answered(s, 1, Filename[Dir[i].path]) \/ Dir[i] = Entry
  <2>1. Entry = Dir[Len(Dir) - Len(Top.rest) + 1]
    BY <1>5, <1>8 DEF InDir
  <2>2. i \in Seen(Top) \/ i = Len(Dir) - Len(Top.rest) + 1
    <3>1. Len(Top.rest) <= Len(Dir)
      BY <1>5 DEF InDir
    <3> QED BY <1>7, <1>8, <1>10, <3>1 DEF Seen
  <2>3. CASE i \in Seen(Top)
    <3>1. Counts(Top, i)
      BY <1>3, <1>10 DEF Counts
    <3>2. Answered(stack, 1, Filename[Dir[i].path])
      BY <1>4, <1>5, <2>3, <3>1 DEF Accounted
    <3> QED BY <1>4, <1>6, <3>2
  <2> QED BY <2>1, <2>2, <2>3
<1>11. ASSUME NEW j \in DOMAIN s, j # 1, s[j].op = "dir"
       PROVE  InDir(s[j]) /\ \A i \in Seen(s[j]) :
                Counts(s[j], i) => Answered(s, j, Filename[Dir[i].path])
  <2>1. s[j] = stack[j] /\ j \in DOMAIN stack
    BY <1>1, <1>11
  <2>2. Accounted(stack, j)
    BY <1>11, <2>1 DEF DirInv, DirOK
  <2> QED BY <1>6, <2>1, <2>2 DEF Accounted
<1> QED BY <1>1, <1>9, <1>10, <1>11 DEF s

LEMMA SkipDir ==
  ASSUME LoaderAssumption, IInv, DirInv, SkipEntry
  PROVE  DirInv'
<1> DEFINE s == Passed
<1>1. /\ Reading /\ stack' = s /\ UNCHANGED <<modules, name>>
      /\ ~Entry.reg \/ find_module(Filename[Entry.path])
  BY DEF SkipEntry
<1>2. \A j \in DOMAIN s : s[j].op = "dir" =>
        /\ InDir(s[j])
        /\ \A i \in Seen(s[j]) :
             Counts(s[j], i) => \/ Answered(s, j, Filename[Dir[i].path])
                                \/ j = 1 /\ Dir[i] = Entry
  BY <1>1, PassedDir
<1>3. DOMAIN s \subseteq Nat \ {0}
  <2>1. s \in Seq(Frame)
    BY <1>1, PassedInv DEF FramesInv
  <2> QED BY <2>1
<1> HIDE DEF s
<1>4. ~Entry.reg \/ Answered(s, 1, Filename[Entry.path])
  <2>1. \A h \in DOMAIN s : ~(h < 1 - 1)
    BY <1>3
  <2> QED BY <1>1, <2>1 DEF find_module, Answered
<1>5. DirOK(s)
  BY <1>2, <1>4 DEF DirOK, Accounted, Counts
<1> QED BY <1>1, <1>5, DirStays DEF Answers

LEMMA LoadEntryDir ==
  ASSUME LoaderAssumption, IInv, DirInv, LoadEntry
  PROVE  DirInv'
<1> DEFINE s == Passed
           p == Entry.path
<1>1. Reading /\ Load(p, s)
  BY DEF LoadEntry
<1>2. \A j \in DOMAIN s : s[j].op = "dir" =>
        /\ InDir(s[j])
        /\ \A i \in Seen(s[j]) :
             Counts(s[j], i) => \/ Answered(s, j, Filename[Dir[i].path])
                                \/ j = 1 /\ Dir[i] = Entry
  BY <1>1, PassedDir
<1>3. s \in Seq(Frame) /\ s[1].op = "dir" /\ Entry \in Entries /\ ListInv /\ DOMAIN s = DOMAIN stack
  BY <1>1, PassedInv DEF FramesInv, IInv
<1>4. 1 \in DOMAIN s /\ s # <<>>
  <2>1. stack # <<>>
    BY <1>1 DEF Reading, In
  <2> QED BY <1>3, <2>1, TopParts
<1>5. p \in Paths
  BY <1>3 DEF Entries
<1> HIDE DEF s
<1>6. ASSUME NEW e, Fails(e, s) PROVE DirInv'
  <2> DEFINE t == [s EXCEPT ![1].rc = -1]
  <2>1. stack' = t /\ UNCHANGED <<modules, name>>
    BY <1>3, <1>4, <1>6 DEF Fails, Refused
  <2>2. s[1] \in DirFrame
    BY <1>3, <1>4, FrameParts
  <2>3. /\ DOMAIN t = DOMAIN s /\ t[1] = [s[1] EXCEPT !.rc = -1]
        /\ \A i \in DOMAIN s : i # 1 => t[i] = s[i]
    BY <1>3, <1>4
  <2> HIDE DEF t
  <2>4. t[1].op = "dir" /\ t[1].rest = s[1].rest /\ t[1].rc = -1
    BY <1>3, <2>2, <2>3 DEF DirFrame
  <2>5. \A j \in DOMAIN s : \A x : Answered(s, j, x) => Answered(t, j, x)
    <3>1. \A i \in DOMAIN s : t[i].op = "init" => t[i] = s[i]
      BY <2>3, <2>4
    <3> QED BY <2>3, <3>1 DEF Answered
  <2>6. Accounted(t, 1)
    <3>1. InDir(t[1])
      BY <1>2, <1>3, <1>4, <2>4 DEF InDir
    <3>2. \A i : ~Counts(t[1], i)
      BY <2>4 DEF Counts
    <3> QED BY <3>1, <3>2 DEF Accounted
  <2>7. ASSUME NEW j \in DOMAIN t, j # 1, t[j].op = "dir" PROVE Accounted(t, j)
    BY <1>2, <2>3, <2>5, <2>7 DEF Accounted
  <2>8. DirOK(t)
    BY <2>6, <2>7 DEF DirOK
  <2> QED BY <2>1, <2>8, DirStays DEF Answers
<1>7. ASSUME ~find_module(Filename[p]), Start(p, s) PROVE DirInv'
  <2> DEFINE c == [op |-> "init", m |-> p]
             t == <<c>> \o s
  <2>1. /\ c \in Frame /\ c.op = "init" /\ c.m = p /\ stack' = t
        /\ modules' = <<p>> \o modules /\ name' = name
    BY <1>5, <1>7 DEF Frame, CallFrame, Start
  <2>2. p \notin Range(modules)
    BY <1>7 DEF find_module, Answers
  <2>3. Range(modules') = Range(modules) \cup {p}
    BY <1>3, <1>5, <2>1, InFront
  <2> HIDE DEF c, p
  <2>4. /\ t[1] = c /\ \A i \in DOMAIN t : i # 1 => i - 1 \in DOMAIN s /\ t[i] = s[i - 1]
        /\ t \in Seq(Frame)
    BY <1>3, <2>1, PushParts
  <2> HIDE DEF t
  <2>5. ASSUME NEW j \in DOMAIN t, t[j].op = "dir", NEW i \in Seen(t[j]), Counts(t[j], i)
        PROVE  \E m \in Range(modules') :
                 /\ name'[m] = Filename[Dir[i].path] \/ Filename[m] = Filename[Dir[i].path]
                 /\ \A h \in DOMAIN t : h < j - 1 => ~(t[h].op = "init" /\ t[h].m = m)
    <3> DEFINE x == Filename[Dir[i].path]
    <3>1. j # 1 /\ j - 1 \in DOMAIN s /\ t[j] = s[j - 1]
      BY <2>1, <2>4, <2>5
    <3>2. Answered(s, j - 1, x) \/ (j - 1 = 1 /\ Dir[i] = Entry)
      BY <1>2, <2>5, <3>1
    <3>3. CASE Answered(s, j - 1, x)
      <4>1. PICK m \in Range(modules) :
              /\ Answers(m, x)
              /\ \A h \in DOMAIN s : h < (j - 1) - 1 => ~(s[h].op = "init" /\ s[h].m = m)
        BY <3>3 DEF Answered
      <4>2. ASSUME NEW h \in DOMAIN t, h < j - 1 PROVE ~(t[h].op = "init" /\ t[h].m = m)
        <5>1. CASE h = 1
          BY <2>1, <2>2, <2>4, <5>1
        <5>2. CASE h # 1
          <6>1. h - 1 \in DOMAIN s /\ t[h] = s[h - 1]
            BY <2>4, <5>2
          <6>2. h - 1 < (j - 1) - 1
            BY <2>4, <4>2
          <6> QED BY <4>1, <6>1, <6>2
        <5> QED BY <5>1, <5>2
      <4>3. m \in Range(modules') /\ (name'[m] = x \/ Filename[m] = x)
        BY <2>1, <2>3, <4>1 DEF Answers
      <4> QED BY <4>2, <4>3
    <3>4. CASE j - 1 = 1 /\ Dir[i] = Entry
      <4>1. p \in Range(modules') /\ Filename[p] = x
        BY <2>3, <3>4 DEF p
      <4>2. \A h \in DOMAIN t : ~(h < j - 1)
        BY <2>4, <3>4
      <4> QED BY <4>1, <4>2
    <3> QED BY <3>2, <3>3, <3>4
  <2>6. \A j \in DOMAIN t : t[j].op = "dir" => InDir(t[j])
    <3> SUFFICES ASSUME NEW j \in DOMAIN t, t[j].op = "dir" PROVE InDir(t[j])
      OBVIOUS
    <3>1. j # 1 /\ j - 1 \in DOMAIN s /\ t[j] = s[j - 1]
      BY <2>1, <2>4
    <3> QED BY <1>2, <3>1
  <2> QED BY <2>1, <2>5, <2>6, SMTT(60) DEF DirInv, DirOK, Accounted, Answered, Answers, Seen, Counts, InDir
<1> HIDE DEF p
<1> QED BY <1>1, <1>6, <1>7 DEF Load

LEMMA InitFailsDir ==
  ASSUME LoaderAssumption, IInv, DirInv, InitFails
  PROVE  DirInv'
<1> DEFINE u == Tail(stack)
           s == Refused(u)
           m == Top.m
<1>1. /\ stack # <<>> /\ Top.op = "init" /\ stack' = s
      /\ name' = [name EXCEPT ![m] = Filename[m]]
  BY DEF InitFails, Failing, In
<1>2. m \in Range(modules) /\ Range(modules') = Range(modules) \ {m}
  BY InitFailsInv
<1>3. /\ stack \in Seq(Frame) /\ 1 \in DOMAIN stack /\ FramesInv(u) /\ u \in Seq(Frame)
      /\ \A i \in DOMAIN u : i + 1 \in DOMAIN stack /\ u[i] = stack[i + 1] /\ i \in Nat
  BY <1>1, TopParts
<1>4. stack[1].op = "init" /\ stack[1].m = m
  BY <1>1 DEF Top
<1>5. /\ DOMAIN s = DOMAIN u
      /\ \A i \in DOMAIN u : s[i].op = u[i].op /\ (u[i].op # "dir" => s[i] = u[i])
  BY <1>3, RefusedInv
<1>6. \A i \in DOMAIN u : i # 1 => s[i] = u[i]
  BY <1>3 DEF Refused
<1>7. ASSUME 1 \in DOMAIN u, u[1].op = "dir" PROVE s[1].rest = u[1].rest /\ s[1].rc = -1
  <2>1. u[1] \in DirFrame /\ u # <<>>
    BY <1>3, <1>7, FrameParts
  <2>2. s[1] = [u[1] EXCEPT !.rc = -1]
    BY <1>3, <1>7, <2>1 DEF Refused
  <2> HIDE DEF s, u
  <2> QED BY <2>1, <2>2 DEF DirFrame
<1>8. \A p \in Range(modules) \ {m} : name'[p] = name[p]
  <2>1. Range(modules) \subseteq Paths /\ name \in [Paths -> Names]
    BY SeqParts DEF IInv, ListInv
  <2> QED BY <1>1, <1>2, <2>1
<1> HIDE DEF s, u, m
<1>9. ASSUME NEW j \in DOMAIN s, s[j].op = "dir"
      PROVE  /\ InDir(s[j])
             /\ \A i \in Seen(s[j]) : Counts(s[j], i) =>
                  \E p \in Range(modules') :
                    /\ name'[p] = Filename[Dir[i].path] \/ Filename[p] = Filename[Dir[i].path]
                    /\ \A h \in DOMAIN s : h < j - 1 => ~(s[h].op = "init" /\ s[h].m = p)
  <2>1. j \in DOMAIN u /\ u[j] = stack[j + 1] /\ u[j].op = "dir" /\ j \in Nat
    BY <1>3, <1>5, <1>9
  <2>2. Accounted(stack, j + 1)
    BY <1>3, <2>1 DEF DirInv, DirOK
  <2>3. CASE j = 1
    <3>1. s[j].rest = u[j].rest /\ s[j].rc = -1
      BY <1>7, <2>1, <2>3
    <3>2. InDir(s[j]) /\ \A i : ~Counts(s[j], i)
      BY <2>1, <2>2, <3>1 DEF Accounted, InDir, Counts
    <3> QED BY <3>2
  <2>4. CASE j # 1
    <3>1. s[j] = stack[j + 1]
      BY <1>6, <2>1, <2>4
    <3>2. ASSUME NEW i \in Seen(s[j]), Counts(s[j], i)
          PROVE  \E p \in Range(modules') :
                    /\ name'[p] = Filename[Dir[i].path] \/ Filename[p] = Filename[Dir[i].path]
                    /\ \A h \in DOMAIN s : h < j - 1 => ~(s[h].op = "init" /\ s[h].m = p)
      <4>1. PICK p \in Range(modules) :
              /\ Answers(p, Filename[Dir[i].path])
              /\ \A h \in DOMAIN stack : h < (j + 1) - 1 => ~(stack[h].op = "init" /\ stack[h].m = p)
        BY <2>2, <3>1, <3>2 DEF Accounted, Answered
      <4>2. p # m
        <5>1. 1 < (j + 1) - 1
          BY <2>1, <2>4, <1>3
        <5> QED BY <1>3, <1>4, <4>1, <5>1
      <4>3. ASSUME NEW h \in DOMAIN s, h < j - 1 PROVE ~(s[h].op = "init" /\ s[h].m = p)
        <5>1. h + 1 \in DOMAIN stack /\ u[h] = stack[h + 1] /\ h + 1 < (j + 1) - 1
          BY <1>3, <1>5, <2>1, <4>3
        <5>2. ~(u[h].op = "init" /\ u[h].m = p)
          BY <4>1, <5>1
        <5> QED BY <1>5, <5>2
      <4>4. p \in Range(modules') /\ name'[p] = name[p]
        BY <1>2, <1>8, <4>1, <4>2
      <4> QED BY <4>1, <4>3, <4>4 DEF Answers
    <3>3. InDir(s[j])
      BY <2>2, <3>1 DEF Accounted
    <3> QED BY <3>2, <3>3
  <2> QED BY <2>3, <2>4
<1> QED BY <1>1, <1>9 DEF DirInv, DirOK, Accounted, Answered, Answers, Seen, Counts, InDir

LEMMA SetNameDir ==
  ASSUME LoaderAssumption, IInv, DirInv, NEW m \in Paths, NEW x \in Names, module_set_name(m, x)
  PROVE  DirInv'
<1> DEFINE names == {name[m]}
           s == Lose(stack, names, {})
<1>1. stack' = s /\ modules' = modules /\ name' = [name EXCEPT ![m] = x]
  BY DEF module_set_name
<1>2. names \subseteq Names /\ stack \in Seq(Frame) /\ name \in [Paths -> Names]
  BY DEF IInv, FramesInv
<1>3. /\ DOMAIN s = DOMAIN stack
      /\ \A i \in DOMAIN stack : Losing(stack[i], s[i], names, {})
  BY <1>2, LoseParts
<1>4. name[m] \in names
  OBVIOUS
<1> HIDE DEF names, s
<1>5. ASSUME NEW i \in DOMAIN stack
      PROVE  /\ s[i].op = "dir" =>
                  /\ stack[i].op = "dir" /\ s[i].rest = stack[i].rest
                  /\ stack[i].lost \subseteq s[i].lost /\ names \subseteq s[i].lost
                  /\ s[i].rc = 0 => stack[i].rc = 0
             /\ s[i].op = "init" => s[i] = stack[i]
  <2>1. stack[i].op \in {"init", "exit", "dir", "all", "gone"}
    BY <1>2, FrameParts
  <2> QED BY <1>3, <2>1 DEF Losing
<1>6. DirOK(stack)
  BY DEF DirInv
<1>7. DirOK(s)
  BY <1>3, <1>5, <1>6, DirSame
<1>8. \A p \in Range(modules) : p # m => name'[p] = name[p]
  <2>1. Range(modules) \subseteq Paths
    BY SeqParts DEF IInv, ListInv
  <2> QED BY <1>1, <1>2, <2>1
<1>9. \A p \in Range(modules), j \in DOMAIN s : \A y :
           s[j].op = "dir" /\ Answers(p, y) /\ y \notin s[j].lost
           => p \in Range(modules') /\ (name'[p] = y \/ Filename[p] = y)
  BY <1>1, <1>3, <1>4, <1>5, <1>8 DEF Answers
<1> QED BY <1>1, <1>7, <1>9, DirStays

LEMMA NextDir == LoaderAssumption /\ IInv /\ DirInv /\ [Next]_vars => DirInv'
<1> SUFFICES ASSUME LoaderAssumption, IInv, DirInv, [Next]_vars PROVE DirInv'
  OBVIOUS
<1>1. stack \in Seq(Frame) /\ DirOK(stack)
  BY DEF IInv, FramesInv, DirInv
<1>2. ASSUME NEW m \in Paths, load_module(m) PROVE DirInv'
  BY <1>2, LoadDir DEF load_module
<1>3. ASSUME NEW m \in Paths, unload_module(m) PROVE DirInv'
  BY <1>1, <1>3, UnloadDir DEF unload_module
<1>4. ASSUME NEW m \in Paths, NEW x \in Names, module_set_name(m, x) PROVE DirInv'
  BY <1>4, SetNameDir
<1>5. CASE InitReturns \/ DirDone \/ AllDone
  <2>1. stack # <<>> /\ stack' = Tail(stack) /\ UNCHANGED <<modules, name>>
    BY <1>5 DEF InitReturns, DirDone, AllDone, In, Accepted
  <2>2. DirOK(Tail(stack))
    BY <1>1, <2>1, DirPop
  <2> QED BY <2>1, <2>2, DirStays DEF Answers
<1>6. CASE InitFails
  BY <1>6, InitFailsDir
<1>7. CASE ExitReturns
  <2> DEFINE t == Tail(stack)
             m == Top.m
  <2>1. stack # <<>> /\ Top.op = "exit" /\ Finish(m, t)
    BY <1>7 DEF ExitReturns, In
  <2>2. DirOK(t) /\ t \in Seq(Frame) /\ m \in Range(modules)
    BY <1>1, <2>1, DirPop, TopParts
  <2> HIDE DEF t, m
  <2> QED BY <2>1, <2>2, FinishDir
<1>8. CASE ReturnsNowhere \/ OpendirFails \/ UNCHANGED vars
  <2>1. UNCHANGED <<modules, stack, name>>
    BY <1>8 DEF ReturnsNowhere, OpendirFails, vars
  <2> QED BY <1>1, <2>1, DirStays DEF Answers
<1>9. CASE load_modules_from_dir
  <2> DEFINE c == [op |-> "dir", rest |-> Dir, rc |-> 0, lost |-> {}]
             s == <<c>> \o stack
  <2>1. Dir \in Seq(Entries) /\ Len(Dir) \in Nat
    BY DEF LoaderAssumption, Entries
  <2>2. c \in DirFrame /\ c.rest = Dir /\ c.op = "dir"
    BY <2>1 DEF DirFrame
  <2>3. stack' = s /\ UNCHANGED <<modules, name>> /\ c \in Frame
    BY <1>9, <2>2 DEF load_modules_from_dir, Frame
  <2> HIDE DEF c
  <2>4. /\ s[1] = c /\ \A i \in DOMAIN s : i # 1 => i - 1 \in DOMAIN stack /\ s[i] = stack[i - 1]
        /\ s \in Seq(Frame)
    BY <1>1, <2>3, PushParts
  <2> HIDE DEF s
  <2>5. InDir(c) /\ Seen(c) = {}
    BY <2>1, <2>2 DEF InDir, Seen
  <2>6. ASSUME NEW j \in DOMAIN s, s[j].op = "dir" PROVE Accounted(s, j)
    <3>1. CASE j = 1
      BY <2>4, <2>5, <3>1 DEF Accounted
    <3>2. CASE j # 1
      <4>1. j - 1 \in DOMAIN stack /\ s[j] = stack[j - 1]
        BY <2>4, <3>2
      <4>2. Accounted(stack, j - 1)
        BY <1>1, <2>6, <4>1 DEF DirOK
      <4>3. ASSUME NEW x, Answered(stack, j - 1, x) PROVE Answered(s, j, x)
        <5>1. PICK m \in Range(modules) :
                /\ Answers(m, x)
                /\ \A h \in DOMAIN stack : h < (j - 1) - 1 => ~(stack[h].op = "init" /\ stack[h].m = m)
          BY <4>3 DEF Answered
        <5>2. ASSUME NEW h \in DOMAIN s, h < j - 1 PROVE ~(s[h].op = "init" /\ s[h].m = m)
          <6>1. CASE h = 1
            BY <2>2, <2>4, <6>1
          <6>2. CASE h # 1
            <7>1. h - 1 \in DOMAIN stack /\ s[h] = stack[h - 1]
              BY <2>4, <6>2
            <7>2. h - 1 < (j - 1) - 1
              BY <2>4, <5>2
            <7> QED BY <5>1, <7>1, <7>2
          <6> QED BY <6>1, <6>2
        <5> QED BY <5>1, <5>2 DEF Answered
      <4> QED BY <4>1, <4>2, <4>3 DEF Accounted
    <3> QED BY <3>1, <3>2
  <2>7. DirOK(s)
    BY <2>6 DEF DirOK
  <2> QED BY <2>3, <2>7, DirStays DEF Answers
<1>10. CASE SkipEntry
  BY <1>10, SkipDir
<1>11. CASE LoadEntry
  BY <1>11, LoadEntryDir
<1>12. CASE unload_all_modules
  <2> DEFINE c == [op |-> "all", n |-> First, left |-> Range(modules)]
  <2>1. modules \in Seq(Paths) /\ Range(modules) \subseteq Paths
    BY SeqParts DEF IInv, ListInv
  <2>2. First \in Range(modules) \cup {Head_}
    BY <2>1 DEF First, Range
  <2>3. c \in AllFrame /\ c.op = "all"
    BY <2>1, <2>2 DEF AllFrame
  <2>4. stack' = <<c>> \o stack /\ UNCHANGED <<modules, name>> /\ c \in Frame
    BY <1>12, <2>3 DEF unload_all_modules, Frame
  <2> HIDE DEF c
  <2>5. DirOK(<<c>> \o stack)
    BY <1>1, <2>3, <2>4, DirPush
  <2> QED BY <2>4, <2>5, DirStays DEF Answers
<1>13. CASE UnloadNext
  <2>1. In("all") /\ Top.n # Head_ /\ stack # <<>> /\ stack[1].op = "all"
    BY <1>13 DEF UnloadNext, In, Top
  <2>2. CASE Top.n = Stale
    <3>1. UNCHANGED <<modules, stack, name>>
      BY <1>13, <2>2 DEF UnloadNext
    <3> QED BY <1>1, <3>1, DirStays DEF Answers
  <2>3. CASE Top.n # Stale
    <3> DEFINE m == Top.n
               s == [stack EXCEPT ![1].n = After(Top.n)]
    <3>1. /\ m \in Range(modules) /\ FramesInv(s) /\ DOMAIN s = DOMAIN stack
          /\ s[1] = [Top EXCEPT !.n = After(Top.n)] /\ Top \in AllFrame
          /\ \A i \in DOMAIN stack : i # 1 => s[i] = stack[i]
      BY <2>1, <2>3, WalkInv
    <3>2. Unload(m, s)
      BY <1>13, <2>3 DEF UnloadNext, NextOf
    <3>3. s[1].op = "all" /\ s \in Seq(Frame)
      BY <3>1 DEF AllFrame, FramesInv
    <3> HIDE DEF s
    <3>4. \A i \in DOMAIN stack : s[i].op \in {"dir", "init"} => s[i] = stack[i]
      BY <3>1, <3>3
    <3>5. DirOK(s)
      BY <1>1, <3>1, <3>4, DirSame
    <3> HIDE DEF m
    <3> QED BY <3>1, <3>2, <3>3, <3>5, UnloadDir
  <2> QED BY <2>2, <2>3
<1> QED BY <1>2, <1>3, <1>4, <1>5, <1>6, <1>7, <1>8, <1>9, <1>10, <1>11, <1>12, <1>13 DEF Next

(* When load_modules_from_dir() returns 0 a module answers to the name of  *)
(* every file of the directory, unless it was unloaded or renamed during   *)
(* the call: a failure is noted even if it comes at the end of an init     *)
(* function that has loaded directories itself.                            *)
THEOREM DirectoryLoaded ==
  ASSUME LoaderAssumption
  PROVE  Spec => DirLoaded
<1> DEFINE Loaded == \A i \in DOMAIN Dir :
                       Dir[i].reg => \/ find_module(Filename[Dir[i].path])
                                     \/ Filename[Dir[i].path] \in Top.lost
<1>1. Init => IInv /\ DirInv
  <2>1. Init => DirInv
    BY DEF Init, DirInv, DirOK
  <2> QED BY <2>1, InitInv
<1>2. IInv /\ DirInv /\ [Next]_vars => (IInv /\ DirInv)'
  BY NextInv, NextDir
<1>3. IInv /\ DirInv /\ DirDone /\ Top.rc = 0 => Loaded
  <2> SUFFICES ASSUME IInv, DirInv, DirDone, Top.rc = 0, NEW i \in DOMAIN Dir, Dir[i].reg,
                      Filename[Dir[i].path] \notin Top.lost
               PROVE  find_module(Filename[Dir[i].path])
    OBVIOUS
  <2>1. stack # <<>> /\ Top.op = "dir" /\ Top.rest = <<>>
    BY DEF DirDone, In
  <2>2. 1 \in DOMAIN stack /\ stack[1] = Top
    BY <2>1, TopParts DEF Top
  <2>3. Accounted(stack, 1)
    BY <2>1, <2>2 DEF DirInv, DirOK
  <2>4. Dir \in Seq(Entries)
    BY DEF LoaderAssumption, Entries
  <2>5. i \in Seen(Top)
    BY <2>1, <2>4 DEF Seen
  <2>6. Counts(Top, i)
    BY DEF Counts
  <2>7. Answered(stack, 1, Filename[Dir[i].path])
    BY <2>2, <2>3, <2>5, <2>6 DEF Accounted
  <2> QED BY <2>7 DEF Answered, find_module
<1> QED BY <1>1, <1>2, <1>3, PTL DEF Spec, DirLoaded, Loaded

=============================================================================
