---------------------------- MODULE TimerProofs ----------------------------
(***************************************************************************)
(* timer_loop() for any set of timers, any timeouts and periods, and       *)
(* however long handlers take.  IInv says what timevals there can be and   *)
(* where the walk's cursors point; WInv what the walk has counted so far.  *)
(***************************************************************************)
EXTENDS Timer, ListLemmas, TLAPS

-----------------------------------------------------------------------------
(* Arithmetic of seconds and ticks.                                        *)

LEMMA DivMod ==
  ASSUME NEW S \in Nat \ {0}, NEW a \in Nat
  PROVE  a \div S \in Nat /\ a % S \in Nat /\ a % S < S /\ a = (a \div S) * S + (a % S)
  OBVIOUS

LEMMA DivOf ==
  ASSUME NEW S \in Nat \ {0}, NEW q \in Nat, NEW r \in Nat, r < S
  PROVE  (q * S + r) \div S = q
  OBVIOUS

LEMMA Multiples ==
  ASSUME NEW S \in Nat \ {0}, NEW q \in Nat, NEW r \in Nat
  PROVE  /\ (q + r) * S = q * S + r * S
         /\ q < r => q * S + S <= r * S
         /\ q <= r => q * S <= r * S
         /\ q * S \in Nat
  OBVIOUS

LEMMA TimevalParts ==
  ASSUME TimerAssumption, NEW a \in Nat
  PROVE  /\ Timeval(a) \in AnyTimeval /\ Normal(Timeval(a)) /\ Ticks(Timeval(a)) = a
         /\ Timeval(a).sec = a \div Second /\ Timeval(a).usec = a % Second
<1>1. Second \in Nat \ {0}
  BY DEF TimerAssumption
<1>2. a \div Second \in Nat /\ a % Second \in Nat /\ a % Second < Second
      /\ a = (a \div Second) * Second + (a % Second)
  BY <1>1, DivMod
<1> QED BY <1>2 DEF Timeval, Tv, AnyTimeval, Normal, Ticks

(* timercmp() orders timevals.                                             *)
LEMMA BeforeOrder ==
  ASSUME NEW a \in AnyTimeval, NEW b \in AnyTimeval, NEW c \in AnyTimeval
  PROVE  /\ ~Before(a, b) /\ ~Before(b, c) => ~Before(a, c)
         /\ Before(a, b) => ~Before(b, a)
         /\ ~Before(a, a)
  BY DEF Before, AnyTimeval

LEMMA EarlierParts ==
  ASSUME NEW a \in AnyTimeval, NEW b \in AnyTimeval
  PROVE  Earlier(a, b) \in AnyTimeval /\ ~Before(a, Earlier(a, b)) /\ ~Before(b, Earlier(a, b))
  BY BeforeOrder DEF Earlier

(* What timercmp() says in ticks.                                          *)
LEMMA BeforeTicks ==
  ASSUME TimerAssumption, NEW a \in AnyTimeval, NEW b \in AnyTimeval, Normal(b), ~Before(a, b)
  PROVE  Ticks(a) >= Ticks(b)
<1>1. /\ a.sec \in Nat /\ a.usec \in Nat /\ b.sec \in Nat /\ b.usec \in Nat
      /\ Second \in Nat \ {0} /\ b.usec < Second
  BY DEF AnyTimeval, Normal, TimerAssumption
<1>2. a.sec * Second \in Nat /\ b.sec * Second \in Nat
  BY <1>1, Multiples
<1>3. CASE a.sec = b.sec
  BY <1>1, <1>2, <1>3 DEF Before, Ticks
<1>4. CASE a.sec # b.sec
  <2>1. b.sec < a.sec
    BY <1>1, <1>4 DEF Before
  <2>2. b.sec * Second + Second <= a.sec * Second
    BY <1>1, <2>1, Multiples
  <2> QED BY <1>1, <1>2, <2>2 DEF Ticks
<1> QED BY <1>3, <1>4

LEMMA AddParts ==
  ASSUME TimerAssumption, NEW a \in AnyTimeval, NEW b \in AnyTimeval, Normal(b),
         a.usec < 2 * Second
  PROVE  /\ timeradd(a, b) \in AnyTimeval
         /\ timeradd(a, b).usec < 2 * Second
         /\ Ticks(timeradd(a, b)) = Ticks(a) + Ticks(b)
         /\ Normal(a) => Normal(timeradd(a, b))
         /\ ~Normal(a) => timeradd(a, b).sec > a.sec
<1>1. /\ a.sec \in Nat /\ a.usec \in Nat /\ b.sec \in Nat /\ b.usec \in Nat
      /\ Second \in Nat \ {0} /\ b.usec < Second
  BY DEF AnyTimeval, Normal, TimerAssumption
<1>2. /\ a.sec * Second \in Nat /\ b.sec * Second \in Nat
      /\ (a.sec + b.sec) * Second = a.sec * Second + b.sec * Second
      /\ (a.sec + b.sec + 1) * Second = a.sec * Second + b.sec * Second + Second
  BY <1>1
<1>3. CASE a.usec + b.usec >= Second
  <2>1. timeradd(a, b) = [sec |-> a.sec + b.sec + 1, usec |-> (a.usec + b.usec) - Second]
    BY <1>3, Zenon DEF timeradd, Tv
  <2> QED BY <1>1, <1>2, <1>3, <2>1 DEF AnyTimeval, Ticks, Normal
<1>4. CASE ~(a.usec + b.usec >= Second)
  <2>1. timeradd(a, b) = [sec |-> a.sec + b.sec, usec |-> a.usec + b.usec]
    BY <1>4, Zenon DEF timeradd, Tv
  <2> QED BY <1>1, <1>2, <1>4, <2>1 DEF AnyTimeval, Ticks, Normal
<1> QED BY <1>3, <1>4

-----------------------------------------------------------------------------
(* The timeouts timer_loop() goes through when it reschedules a timer.     *)

Struct == [handler : BOOLEAN, timeout : AnyTimeval, repeat : AnyTimeval]

(* Timevals as timer_start() and timer_loop() make them.                   *)
Sane(t) == t.timeout.usec < 2 * Second /\ Normal(t.repeat)

(* There is such a sequence, of any length.                                *)
LEMMA ChainExists ==
  ASSUME TimerAssumption, NEW t \in Struct, Sane(t), NEW m \in Nat
  PROVE  \E f \in [0..m -> AnyTimeval] :
           /\ f[0] = t.timeout
           /\ \A k \in 1..m : f[k] = timeradd(f[k - 1], t.repeat)
           /\ f[m].usec < 2 * Second
<1> DEFINE Chain(f, l) ==
             /\ f[0] = t.timeout
             /\ \A k \in 1..l : f[k] = timeradd(f[k - 1], t.repeat)
             /\ f[l].usec < 2 * Second
           Bad == {l \in Nat : ~\E f \in [0..l -> AnyTimeval] : Chain(f, l)}
<1>1. t.timeout \in AnyTimeval /\ t.repeat \in AnyTimeval /\ t.timeout.usec < 2 * Second
      /\ Normal(t.repeat)
  BY DEF Struct, Sane
<1>2. ASSUME Bad # {} PROVE FALSE
  <2>1. PICK l \in Bad : \A y \in Bad : l <= y
    <3>1. Bad \subseteq Nat
      OBVIOUS
    <3> HIDE DEF Bad
    <3> QED BY <1>2, <3>1, LeastNat
  <2>2. CASE l = 0
    <3>1. Chain([k \in 0..0 |-> t.timeout], 0)
      BY <1>1
    <3>2. [k \in 0..0 |-> t.timeout] \in [0..0 -> AnyTimeval]
      BY <1>1
    <3> HIDE DEF Chain
    <3> QED BY <2>2, <3>1, <3>2
  <2>3. CASE l # 0
    <3>1. l \in Nat /\ l - 1 \in Nat /\ l - 1 \notin Bad
      <4>1. l \in Nat
        BY <2>1
      <4> HIDE DEF Bad
      <4> QED BY <2>1, <2>3, <4>1
    <3>2. PICK f \in [0..(l - 1) -> AnyTimeval] : Chain(f, l - 1)
      BY <3>1
    <3> DEFINE last == timeradd(f[l - 1], t.repeat)
               g == [k \in 0..l |-> IF k = l THEN last ELSE f[k]]
    <3>3. f[l - 1] \in AnyTimeval /\ f[l - 1].usec < 2 * Second
      BY <3>1, <3>2
    <3>4. last \in AnyTimeval /\ last.usec < 2 * Second
      BY <1>1, <3>3, AddParts
    <3> HIDE DEF last
    <3>5. g \in [0..l -> AnyTimeval]
      BY <3>1, <3>2, <3>4
    <3>6. g[0] = t.timeout /\ g[l] = last /\ g[l - 1] = f[l - 1]
      BY <2>3, <3>1, <3>2
    <3>7. ASSUME NEW k \in 1..l PROVE g[k] = timeradd(g[k - 1], t.repeat)
      <4>1. CASE k = l
        BY <3>6, <4>1 DEF last
      <4>2. CASE k # l
        <5>1. k \in 1..(l - 1) /\ k - 1 \in 0..l /\ k - 1 # l /\ k \in 0..l
          BY <3>1, <4>2
        <5>2. g[k] = f[k] /\ g[k - 1] = f[k - 1]
          BY <4>2, <5>1
        <5> QED BY <3>2, <5>1, <5>2
      <4> QED BY <4>1, <4>2
    <3> HIDE DEF g
    <3>8. Chain(g, l)
      BY <3>4, <3>6, <3>7
    <3> HIDE DEF Chain
    <3> QED BY <3>5, <3>8
  <2> QED BY <2>2, <2>3
<1>3. m \notin Bad
  BY <1>2
<1> QED BY <1>3

LEMMA DeadlinesDef ==
  ASSUME TimerAssumption, NEW t \in Struct, Sane(t), clock \in Nat
  PROVE  /\ Deadlines(t)[0] = t.timeout
         /\ \A k \in 1..clock + 1 : Deadlines(t)[k] = timeradd(Deadlines(t)[k - 1], t.repeat)
<1> DEFINE D == Deadlines(t)
           Body(f) == [k \in 0..clock + 1 |->
                         IF k = 0 THEN t.timeout ELSE timeradd(f[k - 1], t.repeat)]
<1>1. D = CHOOSE f : f = Body(f)
  BY DEF Deadlines
<1>2. clock + 1 \in Nat
  OBVIOUS
<1>3. PICK f \in [0..clock + 1 -> AnyTimeval] :
        /\ f[0] = t.timeout
        /\ \A k \in 1..clock + 1 : f[k] = timeradd(f[k - 1], t.repeat)
  BY <1>2, ChainExists
<1>4. f = Body(f)
  <2>1. \A k \in 0..clock + 1 : f[k] = IF k = 0 THEN t.timeout ELSE timeradd(f[k - 1], t.repeat)
    BY <1>3
  <2> QED BY <1>3, <2>1
<1>5. D = Body(D)
  <2> HIDE DEF D, Body
  <2> QED BY <1>1, <1>4
<1> HIDE DEF D
<1>6. D[0] = t.timeout
  <2>1. 0 \in 0..clock + 1
    OBVIOUS
  <2> QED BY <1>5, <2>1
<1>7. ASSUME NEW k \in 1..clock + 1 PROVE D[k] = timeradd(D[k - 1], t.repeat)
  <2>1. k \in 0..clock + 1 /\ k # 0
    OBVIOUS
  <2> QED BY <1>5, <2>1
<1> QED BY <1>6, <1>7 DEF D

(* Each is a period later; unless they are normal the seconds alone grow.  *)
LEMMA DeadlineParts ==
  ASSUME TimerAssumption, NEW t \in Struct, Sane(t), clock \in Nat, NEW m \in 0..clock + 1
  PROVE  /\ Deadlines(t)[m] \in AnyTimeval
         /\ Deadlines(t)[m].usec < 2 * Second
         /\ Ticks(Deadlines(t)[m]) = Ticks(t.timeout) + m * Ticks(t.repeat)
         /\ Normal(Deadlines(t)[m]) \/ Deadlines(t)[m].sec >= m
<1> DEFINE D == Deadlines(t)
           Good(k) == /\ D[k] \in AnyTimeval
                      /\ D[k].usec < 2 * Second
                      /\ Ticks(D[k]) = Ticks(t.timeout) + k * Ticks(t.repeat)
                      /\ Normal(D[k]) \/ D[k].sec >= k
           Bad == {k \in 0..clock + 1 : ~Good(k)}
<1>1. /\ t.timeout \in AnyTimeval /\ t.repeat \in AnyTimeval /\ t.timeout.usec < 2 * Second
      /\ Normal(t.repeat)
  BY DEF Struct, Sane
<1>2. D[0] = t.timeout /\ \A k \in 1..clock + 1 : D[k] = timeradd(D[k - 1], t.repeat)
  BY DeadlinesDef
<1> HIDE DEF D
<1>3. Ticks(t.timeout) \in Nat /\ Ticks(t.repeat) \in Nat
  BY <1>1 DEF Ticks, AnyTimeval, TimerAssumption
<1>4. Good(0)
  BY <1>1, <1>2, <1>3 DEF AnyTimeval
<1>5. ASSUME NEW k \in 1..clock + 1, Good(k - 1) PROVE Good(k)
  <2>1. D[k] = timeradd(D[k - 1], t.repeat)
    BY <1>2
  <2>2. /\ D[k] \in AnyTimeval /\ D[k].usec < 2 * Second
        /\ Ticks(D[k]) = Ticks(D[k - 1]) + Ticks(t.repeat)
        /\ Normal(D[k - 1]) => Normal(D[k])
        /\ ~Normal(D[k - 1]) => D[k].sec > D[k - 1].sec
    BY <1>1, <1>5, <2>1, AddParts
  <2>3. Ticks(D[k]) = Ticks(t.timeout) + k * Ticks(t.repeat)
    <3>1. k \in Nat /\ k - 1 \in Nat /\ Ticks(D[k - 1]) = Ticks(t.timeout) + (k - 1) * Ticks(t.repeat)
      BY <1>5
    <3>2. (k - 1) * Ticks(t.repeat) + Ticks(t.repeat) = k * Ticks(t.repeat)
      BY <1>3, <3>1
    <3>3. (k - 1) * Ticks(t.repeat) \in Nat /\ k * Ticks(t.repeat) \in Nat
      BY <1>3, <3>1
    <3> QED BY <1>3, <2>2, <3>1, <3>2, <3>3
  <2>4. Normal(D[k]) \/ D[k].sec >= k
    <3>1. k \in Nat /\ D[k].sec \in Nat /\ D[k - 1].sec \in Nat
      BY <1>5, <2>2 DEF AnyTimeval
    <3> QED BY <1>5, <2>2, <3>1
  <2> QED BY <2>2, <2>3, <2>4
<1> HIDE DEF Good
<1>6. ASSUME Bad # {} PROVE FALSE
  <2>1. Bad \subseteq Nat
    OBVIOUS
  <2>2. PICK k \in Bad : \A y \in Bad : k <= y
    <3> HIDE DEF Bad
    <3> QED BY <1>6, <2>1, LeastNat
  <2>3. k # 0
    BY <1>4, <2>2
  <2>4. k - 1 \in 0..clock + 1 /\ k - 1 \notin Bad /\ k \in 1..clock + 1
    BY <2>2, <2>3
  <2> QED BY <1>5, <2>2, <2>4
<1>7. Good(m)
  BY <1>6
<1> QED BY <1>7 DEF Good, D

(* The first timeout that is not in the past comes within clock + 1 steps. *)
LEMMA DeadlineReached ==
  ASSUME TimerAssumption, NEW t \in Struct, Sane(t), clock \in Nat, timerisset(t.repeat),
         now \in AnyTimeval, Normal(now), Ticks(now) <= clock
  PROVE  \E k \in 1..clock + 1 :
           ~Before(Deadlines(t)[k], now) /\ \A j \in 1..k-1 : Before(Deadlines(t)[j], now)
<1> DEFINE D == Deadlines(t)
           Stop == {k \in 1..clock + 1 : ~Before(D[k], now)}
           last == clock + 1
<1>1. /\ last \in Nat /\ last \in 0..clock + 1 /\ last \in 1..clock + 1 /\ last > clock
      /\ Second \in Nat \ {0}
  BY DEF TimerAssumption
<1>2. /\ D[last] \in AnyTimeval
      /\ Ticks(D[last]) = Ticks(t.timeout) + last * Ticks(t.repeat)
      /\ Normal(D[last]) \/ D[last].sec >= last
  BY <1>1, DeadlineParts
<1> HIDE DEF D, last
<1>3. t.timeout \in AnyTimeval /\ t.repeat \in AnyTimeval /\ Normal(t.repeat)
  BY DEF Struct, Sane
<1>4. /\ Ticks(t.timeout) \in Nat /\ Ticks(t.repeat) \in Nat /\ Ticks(now) \in Nat
      /\ Ticks(D[last]) \in Nat
  BY <1>1, <1>2, <1>3 DEF Ticks, AnyTimeval
<1>5. Ticks(t.repeat) >= 1
  <2>1. t.repeat.sec # 0 \/ t.repeat.usec # 0
    BY <1>3 DEF timerisset, Zero, Tv, AnyTimeval
  <2>2. t.repeat.sec \in Nat /\ t.repeat.usec \in Nat
    BY <1>3 DEF AnyTimeval
  <2>3. t.repeat.sec # 0 => t.repeat.sec * Second >= 1
    BY <1>1, <2>2
  <2>4. t.repeat.sec * Second \in Nat
    BY <1>1, <2>2
  <2> QED BY <2>1, <2>2, <2>3, <2>4 DEF Ticks
<1>6. Ticks(D[last]) > clock
  <2>1. \A a, b \in Nat : b >= 1 => a * b >= a /\ a * b \in Nat
    OBVIOUS
  <2>2. last * Ticks(t.repeat) >= last /\ last * Ticks(t.repeat) \in Nat
    BY <1>1, <1>4, <1>5, <2>1
  <2> QED BY <1>1, <1>2, <1>4, <2>2
<1>7. ~Before(D[last], now)
  <2>1. CASE Normal(D[last])
    <3>1. Before(D[last], now) => ~Before(now, D[last])
      BY <1>2, BeforeOrder
    <3>2. ~Before(now, D[last]) => Ticks(now) >= Ticks(D[last])
      BY <1>2, <2>1, BeforeTicks
    <3> QED BY <1>4, <1>6, <3>1, <3>2
  <2>2. CASE D[last].sec >= last
    <3>1. now.sec \in Nat /\ now.usec \in Nat /\ D[last].sec \in Nat
      BY <1>2 DEF AnyTimeval
    <3>2. \A a, b \in Nat : b # 0 => a * b >= a /\ a * b \in Nat
      OBVIOUS
    <3>3. now.sec * Second >= now.sec /\ now.sec * Second \in Nat
      BY <1>1, <3>1, <3>2
    <3>4. now.sec <= Ticks(now)
      BY <3>1, <3>3 DEF Ticks
    <3>5. now.sec < D[last].sec
      BY <1>1, <1>4, <2>2, <3>1, <3>4
    <3> QED BY <3>1, <3>5 DEF Before
  <2> QED BY <1>2, <2>1, <2>2
<1>8. Stop # {} /\ Stop \subseteq Nat
  BY <1>1, <1>7
<1>9. PICK k \in Stop : \A y \in Stop : k <= y
  <2> HIDE DEF Stop
  <2> QED BY <1>8, LeastNat
<1>10. k \in 1..clock + 1 /\ ~Before(D[k], now)
  BY <1>9
<1>11. ASSUME NEW j \in 1..k-1 PROVE Before(D[j], now)
  <2>1. j \in 1..clock + 1 /\ j < k
    BY <1>10
  <2> QED BY <1>9, <2>1
<1> QED BY <1>10, <1>11 DEF D

(* So the walk stops there: a whole number of periods on, and not in the   *)
(* past.                                                                   *)
LEMMA Rescheduled ==
  ASSUME TimerAssumption, NEW t \in Struct, Sane(t), clock \in Nat,
         now \in AnyTimeval, Normal(now), Ticks(now) <= clock
  PROVE  /\ Reschedule(t) \in AnyTimeval /\ Reschedule(t).usec < 2 * Second
         /\ timerisset(t.repeat)
            => /\ ~Before(Reschedule(t), now)
               /\ \E k \in Nat : Ticks(Reschedule(t)) = Ticks(t.timeout) + k * Ticks(t.repeat)
<1>1. CASE ~timerisset(t.repeat)
  BY <1>1 DEF Reschedule, Zero, Tv, AnyTimeval, TimerAssumption
<1>2. CASE timerisset(t.repeat)
  <2> DEFINE D == Deadlines(t)
             First(k) == ~Before(D[k], now) /\ \A j \in 1..k-1 : ~~Before(D[j], now)
             stop == CHOOSE k \in 1..clock + 1 : First(k)
  <2>1. \E k \in 1..clock + 1 : First(k)
    BY <1>2, DeadlineReached
  <2>2. stop \in 1..clock + 1 /\ First(stop)
    <3> HIDE DEF First
    <3> QED BY <2>1
  <2>3. Reschedule(t) = D[stop]
    BY <1>2 DEF Reschedule
  <2> HIDE DEF stop
  <2>4. /\ D[stop] \in AnyTimeval /\ D[stop].usec < 2 * Second
        /\ Ticks(D[stop]) = Ticks(t.timeout) + stop * Ticks(t.repeat)
    BY <2>2, DeadlineParts
  <2>5. ~Before(D[stop], now) /\ stop \in Nat
    BY <2>2
  <2> HIDE DEF D
  <2> QED BY <2>3, <2>4, <2>5
<1> QED BY <1>1, <1>2

-----------------------------------------------------------------------------
(* The inductive invariant.                                                *)

Distinct == \A i \in DOMAIN timers : \A j \in DOMAIN timers : timers[i] = timers[j] => i = j

(* Only timers with a handler have a timeout.                              *)
Armed == \A t \in Range(timers) : timerisset(timer[t].timeout) => timer[t].handler

IInv ==
  /\ TypeOK /\ Distinct
  /\ \A t \in Timers : Sane(timer[t])
  /\ Normal(now) /\ Ticks(now) <= clock
  /\ DiesOnlyMisused
  /\ ~misused => Armed

(* Where the walk goes on, and what it has still before it.                *)
Cursor == IF at = "walk" THEN pos ELSE n

Ahead(t) ==
  \E i \in DOMAIN timers : \E j \in DOMAIN timers :
    i <= j /\ timers[i] = Cursor /\ timers[j] = t

Following(i) == IF i = Len(timers) THEN Head_ ELSE timers[i + 1]

(* What the walk has left behind will not be slept past.                   *)
WInv ==
  /\ at = "walk" /\ ~misused => \A i \in DOMAIN timers : timers[i] = pos => n = Following(i)
  /\ at \in {"walk", "handler"} /\ ~misused
     => \A t \in Range(timers) \ touched :
          timerisset(timer[t].timeout) => Ahead(t) \/ ~Before(timer[t].timeout, next)

-----------------------------------------------------------------------------
(* The list and the cursors.                                               *)

LEMMA PlaceParts ==
  ASSUME timers \in Seq(Timers), NEW t \in Range(timers)
  PROVE  t \in Timers /\ Place(t) \in DOMAIN timers /\ timers[Place(t)] = t
<1>1. \E j \in DOMAIN timers : timers[j] = t
  BY DEF Range
<1>2. Place(t) \in DOMAIN timers /\ timers[Place(t)] = t
  BY <1>1 DEF Place
<1> QED BY <1>2, SeqParts

LEMMA AfterIs ==
  ASSUME TimerAssumption, timers \in Seq(Timers), Distinct, NEW i \in DOMAIN timers
  PROVE  After(timers[i]) = Following(i)
<1>1. timers[i] \in Timers /\ timers[i] \in Range(timers) /\ timers[i] # Head_
  BY SeqParts DEF Range, TimerAssumption
<1>2. Place(timers[i]) = i
  BY <1>1, PlaceParts DEF Distinct
<1> QED BY <1>1, <1>2 DEF After, Following

LEMMA FollowingParts ==
  ASSUME timers \in Seq(Timers), NEW i \in DOMAIN timers
  PROVE  /\ Following(i) \in Timers \cup {Head_}
         /\ Following(i) # Head_ => Following(i) \in Range(timers)
         /\ \A j \in DOMAIN timers :
              i < j => \E h \in DOMAIN timers : h <= j /\ timers[h] = Following(i)
<1>1. Len(timers) \in Nat /\ i \in 1..Len(timers) /\ DOMAIN timers = 1..Len(timers)
  OBVIOUS
<1>2. CASE i = Len(timers)
  BY <1>1, <1>2 DEF Following
<1>3. CASE i # Len(timers)
  <2>1. i + 1 \in DOMAIN timers
    BY <1>1, <1>3
  <2>2. Following(i) = timers[i + 1]
    BY <1>3 DEF Following
  <2>3. timers[i + 1] \in Timers /\ timers[i + 1] \in Range(timers)
    BY <2>1, SeqParts DEF Range
  <2>4. \A j \in DOMAIN timers : i < j => i + 1 <= j
    BY <1>1
  <2> QED BY <2>1, <2>2, <2>3, <2>4
<1> QED BY <1>2, <1>3

LEMMA AfterParts ==
  ASSUME TimerAssumption, timers \in Seq(Timers), Distinct,
         NEW x \in Timers \cup {Head_}, Live(x)
  PROVE  /\ timers # <<>>
         /\ After(x) \in Timers \cup {Head_} /\ Live(After(x))
         /\ x = Head_ => After(x) \in Range(timers)
<1>1. CASE x = Head_
  <2>1. timers # <<>> /\ 1 \in DOMAIN timers
    BY <1>1 DEF Live
  <2>2. timers[1] \in Timers /\ timers[1] \in Range(timers)
    BY <2>1, SeqParts DEF Range
  <2>3. After(x) = timers[1]
    BY <1>1 DEF After
  <2> QED BY <2>1, <2>2, <2>3 DEF Live, TimerAssumption
<1>2. CASE x # Head_
  <2>1. x \in Range(timers)
    BY <1>2 DEF Live
  <2>2. PICK i \in DOMAIN timers : timers[i] = x
    BY <2>1 DEF Range
  <2>3. After(x) = Following(i)
    BY <2>2, AfterIs
  <2>4. timers # <<>>
    BY <2>2
  <2> QED BY <1>2, <2>3, <2>4, FollowingParts DEF Live
<1> QED BY <1>1, <1>2

(* The end of the loop's body.                                             *)
LEMMA AdvanceParts ==
  ASSUME TimerAssumption, IInv, at \in {"walk", "handler"}, Advance
  PROVE  /\ at' \in {"app", "walk", "dead"}
         /\ pos' \in Timers \cup {Head_} /\ n' \in Timers \cup {Head_}
         /\ ~misused => /\ at' = "walk" /\ pos' = n /\ n' = After(n)
                        /\ Live(n) /\ Live(After(n)) /\ timers # <<>>
<1>1. n \in Timers \cup {Head_} /\ timers \in Seq(Timers) /\ Distinct
  BY DEF IInv, TypeOK
<1>2. ~misused => Live(n)
  BY DEF IInv, DiesOnlyMisused, CursorsLive
<1>3. CASE Live(n)
  <2>1. After(n) \in Timers \cup {Head_} /\ Live(After(n)) /\ timers # <<>>
    BY <1>1, <1>3, AfterParts
  <2>2. at' = "walk" /\ pos' = n /\ n' = After(n)
    BY <1>3 DEF Advance
  <2> QED BY <1>1, <1>3, <2>1, <2>2
<1>4. CASE ~Live(n)
  BY <1>2, <1>4 DEF Advance
<1> QED BY <1>3, <1>4

-----------------------------------------------------------------------------
(* Every step keeps the invariant.                                         *)

LEMMA BlankParts ==
  ASSUME TimerAssumption
  PROVE  Blank \in Struct /\ Sane(Blank) /\ ~timerisset(Blank.timeout)
  BY DEF Blank, Struct, Sane, Zero, Tv, AnyTimeval, Normal, timerisset, TimerAssumption

LEMMA InitInv == TimerAssumption /\ Init => IInv
<1> SUFFICES ASSUME TimerAssumption, Init PROVE IInv
  OBVIOUS
<1>1. Second \in Nat \ {0}
  BY DEF TimerAssumption
<1>2. Zero \in AnyTimeval /\ Normal(Zero) /\ Zero.usec = 0 /\ Ticks(Zero) = 0
  BY <1>1 DEF Zero, Tv, AnyTimeval, Normal, Ticks
<1>3. TypeOK
  <2>1. timer \in [Timers -> Struct]
    BY BlankParts DEF Init
  <2>2. timers \in Seq(Timers)
    BY DEF Init
  <2>3. clock \in Nat /\ now \in AnyTimeval /\ next \in AnyTimeval
    BY <1>1, <1>2 DEF Init
  <2> QED BY <2>1, <2>2, <2>3 DEF Init, TypeOK, Struct
<1>4. Distinct /\ Armed
  BY DEF Init, Distinct, Armed, Range
<1>5. \A t \in Timers : Sane(timer[t])
  BY <1>1, <1>2 DEF Init, Sane, Blank
<1>6. Normal(now) /\ Ticks(now) <= clock
  BY <1>1, <1>2 DEF Init
<1>7. DiesOnlyMisused
  BY DEF Init, DiesOnlyMisused, CursorsLive
<1> QED BY <1>3, <1>4, <1>5, <1>6, <1>7 DEF IInv

LEMMA StartParts ==
  ASSUME TimerAssumption, clock \in Nat, NEW timeout \in Timeouts, NEW repeat \in Repeats,
         NEW new, new = [handler |-> TRUE,
           timeout |-> Tv(clock \div Second + timeout \div Second,
                          (clock % Second) + (timeout % Second)),
           repeat |-> Timeval(repeat)]
  PROVE  new \in Struct /\ Sane(new) /\ new.handler
<1>1. Second \in Nat \ {0} /\ timeout \in Nat /\ repeat \in Nat
  BY DEF TimerAssumption
<1>2. /\ clock \div Second \in Nat /\ clock % Second \in Nat /\ clock % Second < Second
      /\ timeout \div Second \in Nat /\ timeout % Second \in Nat /\ timeout % Second < Second
  BY <1>1, DivMod
<1>3. Timeval(repeat) \in AnyTimeval /\ Normal(Timeval(repeat))
  BY <1>1, TimevalParts
<1> QED BY <1>1, <1>2, <1>3 DEF Struct, Sane, Tv, AnyTimeval

(* A call changes one timer's record, and the list where it says so.       *)
LEMMA CallInv ==
  ASSUME TimerAssumption, IInv, Calling, NEW t \in Timers, NEW new \in Struct, Sane(new),
         timer' = [timer EXCEPT ![t] = new],
         timers' \in Seq(Timers), Distinct', Range(timers') \subseteq Range(timers) \cup {t},
         touched' \subseteq Timers, misused' \in BOOLEAN,
         ~misused' /\ timerisset(new.timeout) => new.handler,
         ~misused' /\ at = "handler" => Live(n)',
         UNCHANGED <<clock, at, walk>>
  PROVE  IInv'
<1>1. TypeOK'
  BY DEF IInv, TypeOK, Struct, walk
<1>2. \A x \in Timers : Sane(timer[x])'
  <2>1. ASSUME NEW x \in Timers PROVE Sane(timer'[x])
    BY DEF IInv, TypeOK
  <2> QED BY <2>1 DEF Sane, Normal
<1>3. Normal(now)' /\ (Ticks(now) <= clock)'
  BY DEF IInv, Normal, Ticks, walk
<1>4. DiesOnlyMisused'
  BY DEF IInv, DiesOnlyMisused, CursorsLive, Calling
<1>5. ~misused' => Armed'
  BY DEF IInv, Armed, Calling, TypeOK, timerisset
<1> QED BY <1>1, <1>2, <1>3, <1>4, <1>5 DEF IInv

(* A new timer at the front of the list, and one taken out of it.          *)
LEMMA PrependParts ==
  ASSUME timers \in Seq(Timers), Distinct, NEW t \in Timers, t \notin Range(timers),
         timers' = <<t>> \o timers
  PROVE  /\ timers' \in Seq(Timers) /\ Distinct' /\ Range(timers') = Range(timers) \cup {t}
         /\ Len(timers') = Len(timers) + 1
         /\ \A i \in DOMAIN timers : i + 1 \in DOMAIN timers' /\ timers'[i + 1] = timers[i]
<1>1. /\ timers' \in Seq(Timers) /\ Len(timers') = Len(timers) + 1 /\ Len(timers) \in Nat
      /\ timers'[1] = t /\ 1 \in DOMAIN timers'
      /\ DOMAIN timers' = 1..(Len(timers) + 1) /\ DOMAIN timers = 1..Len(timers)
  OBVIOUS
<1>2. \A i \in DOMAIN timers : i + 1 \in DOMAIN timers' /\ timers'[i + 1] = timers[i]
  BY <1>1
<1>3. \A i \in DOMAIN timers' : i # 1 => i - 1 \in DOMAIN timers /\ timers'[i] = timers[i - 1]
  BY <1>1
<1>4. Range(timers') = Range(timers) \cup {t}
  <2>1. \A i \in DOMAIN timers' : timers'[i] \in Range(timers) \cup {t}
    BY <1>1, <1>3 DEF Range
  <2>2. \A i \in DOMAIN timers : timers[i] \in Range(timers')
    BY <1>2 DEF Range
  <2>3. t \in Range(timers')
    BY <1>1 DEF Range
  <2> QED BY <2>1, <2>2, <2>3, ZenonT(60) DEF Range
<1>5. Distinct'
  <2> SUFFICES ASSUME NEW i \in DOMAIN timers', NEW j \in DOMAIN timers',
                      timers'[i] = timers'[j]
               PROVE  i = j
    BY DEF Distinct
  <2>1. \A k \in DOMAIN timers' : k # 1 => timers'[k] # t
    BY <1>3 DEF Range
  <2>2. CASE i = 1 \/ j = 1
    BY <1>1, <2>1, <2>2
  <2>3. CASE i # 1 /\ j # 1
    <3>1. i - 1 \in DOMAIN timers /\ j - 1 \in DOMAIN timers /\ timers[i - 1] = timers[j - 1]
      BY <1>3, <2>3
    <3>2. i - 1 = j - 1
      BY <3>1 DEF Distinct
    <3> QED BY <1>1, <3>2
  <2> QED BY <2>2, <2>3
<1> QED BY <1>1, <1>2, <1>4, <1>5

LEMMA UnlinkParts ==
  ASSUME timers \in Seq(Timers), Distinct, NEW t \in Range(timers),
         timers' = RemoveAt(timers, Place(t))
  PROVE  /\ timers' \in Seq(Timers) /\ Distinct' /\ Range(timers') = Range(timers) \ {t}
         /\ \A i \in DOMAIN timers : \A j \in DOMAIN timers :
              i <= j /\ timers[i] # t /\ timers[j] # t =>
                \E h \in DOMAIN timers' : \E k \in DOMAIN timers' :
                  h <= k /\ timers'[h] = timers[i] /\ timers'[k] = timers[j]
<1> DEFINE r == RemoveAt(timers, Place(t))
<1>1. Place(t) \in DOMAIN timers /\ timers[Place(t)] = t
  BY PlaceParts
<1>2. (\A i, j \in DOMAIN timers : timers[i] = timers[j] => i = j) /\ timers' = r
  BY DEF Distinct
<1>3. /\ r \in Seq(Timers)
      /\ Range(r) = Range(timers) \ {timers[Place(t)]}
      /\ \A i, j \in DOMAIN r : r[i] = r[j] => i = j
      /\ \A j, k \in DOMAIN timers : j <= k /\ j # Place(t) /\ k # Place(t) =>
           \E h, i \in DOMAIN r : h <= i /\ r[h] = timers[j] /\ r[i] = timers[k]
  BY <1>1, <1>2, RemoveAtDistinct
<1> HIDE DEF r
<1>4. /\ timers' \in Seq(Timers)
      /\ Range(timers') = Range(timers) \ {t}
      /\ \A i, j \in DOMAIN timers' : timers'[i] = timers'[j] => i = j
      /\ \A j, k \in DOMAIN timers : j <= k /\ j # Place(t) /\ k # Place(t) =>
           \E h, i \in DOMAIN timers' :
             h <= i /\ timers'[h] = timers[j] /\ timers'[i] = timers[k]
  BY <1>1, <1>2, <1>3
<1>5. Distinct'
  BY <1>4 DEF Distinct
<1> QED BY <1>1, <1>4, <1>5

LEMMA NewInv ==
  ASSUME TimerAssumption, IInv, NEW t \in Timers, timer_new(t) PROVE IInv'
<1>1. timers \in Seq(Timers) /\ Distinct /\ timers' = <<t>> \o timers /\ t \notin Range(timers)
  BY DEF IInv, TypeOK, timer_new
<1>2. timers' \in Seq(Timers) /\ Distinct' /\ Range(timers') = Range(timers) \cup {t}
      /\ Len(timers') = Len(timers) + 1
  BY <1>1, PrependParts
<1>3. timers' # <<>>
  BY <1>1, <1>2
<1>4. at = "handler" => Live(n)'
  BY <1>2, <1>3 DEF IInv, DiesOnlyMisused, CursorsLive, Live, timer_new, walk, Calling
<1>5. touched' \subseteq Timers /\ misused' \in BOOLEAN
  BY DEF IInv, TypeOK, timer_new
<1> QED BY <1>2, <1>4, <1>5, CallInv, BlankParts DEF timer_new

LEMMA DestroyInv ==
  ASSUME TimerAssumption, IInv, NEW t \in Timers, timer_destroy(t) PROVE IInv'
<1>1. timers \in Seq(Timers) /\ Distinct /\ timers' = RemoveAt(timers, Place(t)) /\ t \in Range(timers)
  BY DEF IInv, TypeOK, timer_destroy
<1>2. timers' \in Seq(Timers) /\ Distinct' /\ Range(timers') = Range(timers) \ {t}
  BY <1>1, UnlinkParts
<1>3. ~misused' /\ at = "handler" => Live(n)'
  BY <1>2 DEF IInv, DiesOnlyMisused, CursorsLive, Live, timer_destroy, walk, Calling
<1>4. touched' \subseteq Timers /\ misused' \in BOOLEAN
  BY DEF IInv, TypeOK, timer_destroy
<1> QED BY <1>2, <1>3, <1>4, CallInv, BlankParts DEF timer_destroy

LEMMA ListKept ==
  ASSUME IInv, Calling, UNCHANGED <<timers, at, walk>>
  PROVE  /\ timers' \in Seq(Timers) /\ Distinct' /\ Range(timers') \subseteq Range(timers)
         /\ at = "handler" => Live(n)'
<1>1. timers' = timers /\ n' = n /\ timers \in Seq(Timers) /\ Distinct
  BY DEF walk, IInv, TypeOK
<1>2. Distinct' /\ (at = "handler" => Live(n)')
  BY <1>1 DEF IInv, Distinct, DiesOnlyMisused, CursorsLive, Live, Calling
<1> QED BY <1>1, <1>2

LEMMA StartInv ==
  ASSUME TimerAssumption, IInv, NEW t \in Timers, NEW timeout \in Timeouts,
         NEW repeat \in Repeats, timer_start(t, timeout, repeat)
  PROVE  IInv'
<1> DEFINE new == [handler |-> TRUE,
                   timeout |-> Tv(clock \div Second + timeout \div Second,
                                  (clock % Second) + (timeout % Second)),
                   repeat |-> Timeval(repeat)]
<1>1. timer' = [timer EXCEPT ![t] = new]
  BY DEF timer_start
<1>2. new \in Struct /\ Sane(new) /\ new.handler
  BY StartParts DEF IInv, TypeOK
<1> HIDE DEF new
<1>3. /\ timers' \in Seq(Timers) /\ Distinct' /\ Range(timers') \subseteq Range(timers)
      /\ at = "handler" => Live(n)'
  BY ListKept DEF timer_start
<1>4. touched' \subseteq Timers /\ misused' \in BOOLEAN
  BY DEF IInv, TypeOK, timer_start
<1> QED BY <1>1, <1>2, <1>3, <1>4, CallInv DEF timer_start

LEMMA StopInv ==
  ASSUME TimerAssumption, IInv, NEW t \in Timers, timer_stop(t) PROVE IInv'
<1>1. /\ timers' \in Seq(Timers) /\ Distinct' /\ Range(timers') \subseteq Range(timers)
      /\ at = "handler" => Live(n)'
  BY ListKept DEF timer_stop
<1>2. touched' \subseteq Timers /\ misused' \in BOOLEAN
  BY DEF IInv, TypeOK, timer_stop
<1> QED BY <1>1, <1>2, CallInv, BlankParts DEF timer_stop

LEMMA TriggerInv ==
  ASSUME TimerAssumption, IInv, NEW t \in Timers, timer_trigger(t) PROVE IInv'
<1> DEFINE new == [timer[t] EXCEPT !.timeout = Timeval(clock)]
<1>1. timer' = [timer EXCEPT ![t] = new]
  BY DEF timer_trigger, IInv, TypeOK
<1>2. Timeval(clock) \in AnyTimeval /\ Normal(Timeval(clock))
  BY TimevalParts DEF IInv, TypeOK
<1>3. new \in Struct /\ Sane(new) /\ (~misused' => new.handler)
  <2>1. timer[t] \in Struct /\ Sane(timer[t]) /\ (~misused' => timer[t].handler)
    BY DEF IInv, TypeOK, Struct, timer_trigger
  <2>2. /\ new.handler = timer[t].handler /\ new.timeout = Timeval(clock)
        /\ new.repeat = timer[t].repeat /\ new \in Struct
    BY <1>2, <2>1 DEF Struct
  <2>3. Timeval(clock).usec < 2 * Second
    BY <1>2 DEF Normal, AnyTimeval, TimerAssumption
  <2> HIDE DEF new
  <2> QED BY <2>1, <2>2, <2>3 DEF Sane
<1> HIDE DEF new
<1>4. /\ timers' \in Seq(Timers) /\ Distinct' /\ Range(timers') \subseteq Range(timers)
      /\ at = "handler" => Live(n)'
  BY ListKept DEF timer_trigger
<1>5. touched' \subseteq Timers /\ misused' \in BOOLEAN
  BY DEF IInv, TypeOK, timer_trigger
<1> QED BY <1>1, <1>3, <1>4, <1>5, CallInv DEF timer_trigger

LEMMA TickInv ==
  ASSUME TimerAssumption, IInv, Tick PROVE IInv'
<1>1. TypeOK'
  BY DEF IInv, TypeOK, Tick, walk
<1>2. Distinct' /\ (\A t \in Timers : Sane(timer[t])') /\ Normal(now)'
      /\ (~misused => Armed)' /\ DiesOnlyMisused'
  BY DEF IInv, Tick, walk, Distinct, Sane, Normal, Armed, DiesOnlyMisused, CursorsLive, Live
<1>3. (Ticks(now) <= clock)'
  <2>1. Ticks(now) \in Nat /\ clock \in Nat /\ Ticks(now) <= clock
    <3>1. now.sec \in Nat /\ now.usec \in Nat /\ Second \in Nat /\ clock \in Nat
      BY DEF IInv, TypeOK, AnyTimeval, TimerAssumption
    <3> QED BY <3>1 DEF IInv, Ticks
  <2>2. now' = now /\ clock' = clock + 1
    BY DEF Tick, walk
  <2>3. Ticks(now)' = Ticks(now)
    BY <2>2 DEF Ticks
  <2> QED BY <2>1, <2>2, <2>3
<1> QED BY <1>1, <1>2, <1>3 DEF IInv

LEMMA AdvanceInv ==
  ASSUME TimerAssumption, IInv, at \in {"walk", "handler"}, Advance, next' \in AnyTimeval,
         UNCHANGED <<clock, timers, timer, now, misused, touched>>
  PROVE  IInv'
<1>1. /\ at' \in {"app", "walk", "dead"}
      /\ pos' \in Timers \cup {Head_} /\ n' \in Timers \cup {Head_}
      /\ ~misused => at' = "walk" /\ pos' = n /\ n' = After(n) /\ Live(n) /\ Live(After(n))
  BY AdvanceParts
<1>2. TypeOK'
  BY <1>1 DEF IInv, TypeOK
<1>3. Distinct' /\ (\A t \in Timers : Sane(timer[t])') /\ (~misused => Armed)'
  BY DEF IInv, Distinct, Sane, Normal, Armed
<1>4. Normal(now)' /\ (Ticks(now) <= clock)'
  BY DEF IInv, Normal, Ticks
<1>5. DiesOnlyMisused'
  BY <1>1 DEF DiesOnlyMisused, CursorsLive, Live
<1> QED BY <1>2, <1>3, <1>4, <1>5 DEF IInv

LEMMA LoopBeginInv ==
  ASSUME TimerAssumption, IInv, LoopBegin PROVE IInv'
<1>1. timers \in Seq(Timers) /\ Distinct /\ timers # <<>> /\ clock \in Nat
  BY DEF IInv, TypeOK, LoopBegin
<1>2. After(Head_) \in Range(timers) /\ After(Head_) \in Timers /\ After(Head_) # Head_
  <2>1. Live(Head_)
    BY <1>1 DEF Live
  <2>2. After(Head_) \in Range(timers)
    BY <1>1, <2>1, AfterParts
  <2> QED BY <1>1, <2>2, SeqParts DEF TimerAssumption
<1>3. pos' = After(Head_) /\ Live(pos') /\ n' = After(pos')
  BY <1>2 DEF Live, LoopBegin
<1>4. n' \in Timers \cup {Head_} /\ Live(n')
  BY <1>1, <1>2, <1>3, AfterParts
<1>5. /\ now' = Timeval(clock) /\ now' \in AnyTimeval /\ Normal(now') /\ Ticks(now') = clock
  BY <1>1, TimevalParts DEF LoopBegin
<1>6. next' \in AnyTimeval
  <2>1. next' = [sec |-> now'.sec + 1, usec |-> now'.usec]
    BY DEF LoopBegin, Tv
  <2> QED BY <1>5, <2>1 DEF AnyTimeval
<1>7. TypeOK'
  BY <1>2, <1>3, <1>4, <1>5, <1>6 DEF IInv, TypeOK, LoopBegin
<1>8. Distinct' /\ (\A t \in Timers : Sane(timer[t])') /\ (~misused => Armed)'
  BY DEF IInv, Distinct, Sane, Normal, Armed, LoopBegin
<1>9. Normal(now)' /\ (Ticks(now) <= clock)'
  BY <1>1, <1>5 DEF Normal, Ticks, LoopBegin
<1>10. DiesOnlyMisused'
  BY <1>3, <1>4 DEF DiesOnlyMisused, CursorsLive, Live, LoopBegin
<1> QED BY <1>7, <1>8, <1>9, <1>10 DEF IInv

(* What is stored when a timer is due.                                     *)
LEMMA FireParts ==
  ASSUME TimerAssumption, IInv, Fire
  PROVE  /\ pos \in Timers /\ timer[pos] \in Struct
         /\ Reschedule(timer[pos]) \in AnyTimeval
         /\ Reschedule(timer[pos]).usec < 2 * Second
         /\ timer' = [timer EXCEPT ![pos].timeout = Reschedule(timer[pos])]
         /\ timer'[pos].timeout = Reschedule(timer[pos])
         /\ next' \in AnyTimeval
         /\ ~Before(next, next')
         /\ Reschedule(timer[pos]) # Zero => ~Before(Reschedule(timer[pos]), next')
         /\ timerisset(timer[pos].repeat)
            => /\ ~Before(Reschedule(timer[pos]), now)
               /\ \E k \in Nat : Ticks(Reschedule(timer[pos]))
                                 = Ticks(timer[pos].timeout) + k * Ticks(timer[pos].repeat)
<1>1. pos \in Timers /\ timer[pos] \in Struct /\ Sane(timer[pos])
  BY DEF IInv, TypeOK, Struct, Fire, Walking
<1>2. clock \in Nat /\ now \in AnyTimeval /\ Normal(now) /\ Ticks(now) <= clock
      /\ next \in AnyTimeval
  BY DEF IInv, TypeOK
<1> DEFINE later == Reschedule(timer[pos])
<1>3. /\ later \in AnyTimeval /\ later.usec < 2 * Second
      /\ timerisset(timer[pos].repeat)
            => /\ ~Before(later, now)
               /\ \E k \in Nat : Ticks(later)
                                 = Ticks(timer[pos].timeout) + k * Ticks(timer[pos].repeat)
  BY <1>1, <1>2, Rescheduled
<1>4. /\ timer' = [timer EXCEPT ![pos].timeout = later]
      /\ next' = IF later = Zero THEN next ELSE Earlier(later, next)
  BY DEF Fire
<1> HIDE DEF later
<1>5. timer'[pos].timeout = later
  BY <1>1, <1>4 DEF IInv, TypeOK
<1>6. next' \in AnyTimeval /\ ~Before(next, next') /\ (later # Zero => ~Before(later, next'))
  BY <1>2, <1>3, <1>4, EarlierParts, BeforeOrder
<1> QED BY <1>1, <1>3, <1>4, <1>5, <1>6 DEF later

LEMMA FireInv ==
  ASSUME TimerAssumption, IInv, Fire PROVE IInv'
<1> DEFINE later == Reschedule(timer[pos])
<1>1. /\ pos \in Timers /\ timer[pos] \in Struct /\ later \in AnyTimeval
      /\ later.usec < 2 * Second /\ next' \in AnyTimeval
      /\ timer' = [timer EXCEPT ![pos].timeout = later]
  BY FireParts
<1> HIDE DEF later
<1>2. TypeOK'
  <2>1. timer' \in [Timers -> Struct]
    BY <1>1 DEF IInv, TypeOK, Struct
  <2> QED BY <1>1, <2>1 DEF IInv, TypeOK, Struct, Fire
<1>3. Distinct'
  BY DEF IInv, Distinct, Fire
<1>4. \A t \in Timers : Sane(timer[t])'
  <2>1. ASSUME NEW t \in Timers PROVE Sane(timer'[t])
    <3>1. Sane(timer[t]) /\ timer'[t].repeat = timer[t].repeat
          /\ timer'[t].timeout = IF t = pos THEN later ELSE timer[t].timeout
      BY <1>1 DEF IInv, TypeOK, Struct
    <3> QED BY <1>1, <3>1 DEF Sane
  <2> QED BY <2>1 DEF Sane, Normal
<1>5. Normal(now)' /\ (Ticks(now) <= clock)'
  BY DEF IInv, Normal, Ticks, Fire
<1>6. ~misused => timer[pos].handler /\ Live(n)
  <2> SUFFICES ASSUME ~misused PROVE timer[pos].handler /\ Live(n)
    OBVIOUS
  <2>1. Live(n) /\ Live(pos) /\ Armed
    BY DEF IInv, DiesOnlyMisused, CursorsLive, Fire, Walking
  <2>2. pos \in Range(timers)
    BY <2>1 DEF Live, Fire, Walking
  <2> QED BY <2>1, <2>2 DEF Armed, Fire, Due
<1>7. DiesOnlyMisused'
  BY <1>6 DEF IInv, DiesOnlyMisused, CursorsLive, Live, Fire
<1>8. (~misused => Armed)'
  <2> SUFFICES ASSUME ~misused PROVE Armed'
    BY DEF Fire
  <2>1. Armed /\ timer[pos].handler /\ timers \in Seq(Timers)
    BY <1>6 DEF IInv, TypeOK
  <2>2. ASSUME NEW t \in Range(timers), timerisset(timer'[t].timeout)
        PROVE  timer'[t].handler
    <3>1. t \in Timers
      BY <2>1, SeqParts
    <3>2. timer'[t].handler = timer[t].handler
          /\ timer'[t].timeout = IF t = pos THEN later ELSE timer[t].timeout
      BY <1>1, <3>1 DEF IInv, TypeOK, Struct
    <3> QED BY <2>1, <2>2, <3>2 DEF Armed
  <2>3. timers' = timers
    BY DEF Fire
  <2> QED BY <2>2, <2>3 DEF Armed, timerisset, Zero, Tv
<1> QED BY <1>2, <1>3, <1>4, <1>5, <1>7, <1>8 DEF IInv

LEMMA LoopEndInv ==
  ASSUME IInv, LoopEnd PROVE IInv'
<1>1. TypeOK'
  BY DEF IInv, TypeOK, LoopEnd, walk
<1> QED BY <1>1 DEF IInv, LoopEnd, walk, Distinct, Sane, Normal, Ticks, Armed, DiesOnlyMisused,
                    CursorsLive, Live

LEMMA NextInv == TimerAssumption /\ IInv /\ [Next]_vars => IInv'
<1> SUFFICES ASSUME TimerAssumption, IInv, [Next]_vars PROVE IInv'
  OBVIOUS
<1>1. CASE Tick
  BY <1>1, TickInv
<1>2. CASE Calls
  BY <1>2, NewInv, DestroyInv, StopInv, TriggerInv, StartInv DEF Calls
<1>3. CASE LoopBegin
  BY <1>3, LoopBeginInv
<1>4. CASE NotSet
  <2>1. next' \in AnyTimeval
    BY <1>4 DEF NotSet, IInv, TypeOK
  <2> QED BY <1>4, <2>1, AdvanceInv DEF NotSet, Walking
<1>5. CASE NotDue
  <2>1. pos \in Timers /\ timer[pos].timeout \in AnyTimeval /\ next \in AnyTimeval
    BY <1>5 DEF NotDue, Walking, IInv, TypeOK
  <2>2. next' \in AnyTimeval
    BY <1>5, <2>1, EarlierParts DEF NotDue
  <2> QED BY <1>5, <2>2, AdvanceInv DEF NotDue, Walking
<1>6. CASE Fire
  BY <1>6, FireInv
<1>7. CASE HandlerReturns
  <2>1. next' \in AnyTimeval
    BY <1>7 DEF HandlerReturns, IInv, TypeOK
  <2> QED BY <1>7, <2>1, AdvanceInv DEF HandlerReturns
<1>8. CASE LoopEnd
  BY <1>8, LoopEndInv
<1>9. CASE UNCHANGED vars
  <2>1. TypeOK'
    BY <1>9 DEF IInv, TypeOK, vars, walk
  <2> QED BY <1>9, <2>1 DEF IInv, vars, walk, Distinct, Sane, Normal, Ticks, Armed,
                            DiesOnlyMisused, CursorsLive, Live
<1> QED BY <1>1, <1>2, <1>3, <1>4, <1>5, <1>6, <1>7, <1>8, <1>9 DEF Next, timer_loop

LEMMA Invariance == ASSUME TimerAssumption PROVE Spec => []IInv
<1>1. Init => IInv
  BY InitInv
<1>2. IInv /\ [Next]_vars => IInv'
  BY NextInv
<1> QED BY <1>1, <1>2, PTL DEF Spec

(* Every state of timer.c's data has its type.                             *)
THEOREM TypeCorrect == ASSUME TimerAssumption PROVE Spec => []TypeOK
<1>1. Spec => []IInv
  BY Invariance
<1>2. IInv => TypeOK
  BY DEF IInv
<1> QED BY <1>1, <1>2, PTL

(* timer_loop() survives handlers that destroy their own timer and create, *)
(* start, stop and trigger others, for any number of timers: only the three*)
(* misuses make it read freed memory or call a handler that is not there.  *)
THEOREM WalkSurvives == ASSUME TimerAssumption PROVE Spec => []DiesOnlyMisused
<1>1. Spec => []IInv
  BY Invariance
<1>2. IInv => DiesOnlyMisused
  BY DEF IInv
<1> QED BY <1>1, <1>2, PTL

(* timer_loop() calls no handler before its time, except within the second *)
(* it is due in, when timer_start() stored a tv_usec of a second or more.  *)
THEOREM FiresNotEarly == ASSUME TimerAssumption PROVE Spec => NotEarly
<1>1. Spec => []IInv
  BY Invariance
<1>2. ASSUME IInv, Fire
      PROVE  \/ clock >= Ticks(timer[pos].timeout)
             \/ /\ ~Normal(timer[pos].timeout)
                /\ clock \div Second = Ticks(timer[pos].timeout) \div Second
  <2> DEFINE t == timer[pos].timeout
  <2>1. t \in AnyTimeval /\ t.usec < 2 * Second /\ ~Before(now, t)
    <3>1. timer[pos] \in Struct /\ Sane(timer[pos])
      BY <1>2 DEF IInv, TypeOK, Struct, Fire, Walking
    <3>2. Due(timer[pos])
      BY <1>2 DEF Fire
    <3> QED BY <3>1, <3>2 DEF Struct, Sane, Due
  <2> HIDE DEF t
  <2>2. /\ clock \in Nat /\ now \in AnyTimeval /\ Normal(now) /\ Ticks(now) <= clock
        /\ Second \in Nat \ {0}
    BY <1>2 DEF IInv, TypeOK, TimerAssumption
  <2>3. /\ t.sec \in Nat /\ t.usec \in Nat /\ now.sec \in Nat /\ now.usec \in Nat
    BY <2>1, <2>2 DEF AnyTimeval
  <2>4. Ticks(t) \in Nat /\ Ticks(now) \in Nat
    BY <2>2, <2>3 DEF Ticks
  <2>5. CASE Normal(t)
    <3>1. Ticks(now) >= Ticks(t)
      BY <2>1, <2>2, <2>5, BeforeTicks
    <3> QED BY <2>2, <2>4, <3>1 DEF t
  <2>6. CASE ~Normal(t) /\ clock < Ticks(t)
    <3> DEFINE q == t.sec + 1
    <3>1. q \in Nat /\ q * Second \in Nat /\ t.sec * Second + Second = q * Second
          /\ t.sec * Second \in Nat
      BY <2>2, <2>3
    <3>2. now.sec >= q
      BY <2>1, <2>2, <2>3, <2>6 DEF Before, Normal
    <3> HIDE DEF q
    <3>3. q * Second <= now.sec * Second /\ now.sec * Second \in Nat
      BY <2>2, <2>3, <3>1, <3>2, Multiples
    <3>4. q * Second <= clock
      BY <2>2, <2>3, <2>4, <3>1, <3>3 DEF Ticks
    <3>5. t.usec >= Second
      BY <2>2, <2>3, <2>6 DEF Normal
    <3>6. Ticks(t) = q * Second + (t.usec - Second) /\ t.usec - Second \in Nat
          /\ t.usec - Second < Second
      BY <2>1, <2>2, <2>3, <3>1, <3>5 DEF Ticks
    <3>7. Ticks(t) \div Second = q
      BY <2>2, <3>1, <3>6, DivOf
    <3>8. clock - q * Second \in Nat /\ clock - q * Second < Second
          /\ clock = q * Second + (clock - q * Second)
      BY <2>2, <2>4, <2>6, <3>1, <3>4, <3>6
    <3>9. clock \div Second = q
      <4> DEFINE r == clock - q * Second
      <4>1. r \in Nat /\ r < Second /\ clock = q * Second + r
        BY <3>8
      <4> HIDE DEF r
      <4> QED BY <2>2, <3>1, <4>1, DivOf
    <3> QED BY <2>6, <3>7, <3>9 DEF t
  <2> QED BY <2>2, <2>4, <2>5, <2>6 DEF t
<1>3. IInv /\ [Next]_vars =>
        [Fire => LET due == Ticks(timer[pos].timeout)
                 IN \/ clock >= due
                    \/ ~Normal(timer[pos].timeout) /\ clock \div Second = due \div Second]_vars
  BY <1>2
<1> QED BY <1>1, <1>3, PTL DEF Spec, NotEarly

(* A repeating timer keeps its rhythm: however late timer_loop() comes, the*)
(* next timeout is a whole number of periods later and not in the past.    *)
THEOREM RhythmKept == ASSUME TimerAssumption PROVE Spec => KeepsRhythm
<1>1. Spec => []IInv
  BY Invariance
<1>2. ASSUME IInv, Fire, timerisset(timer[pos].repeat)
      PROVE  /\ Ticks(timer'[pos].timeout) >= Ticks(now)
             /\ (Ticks(timer'[pos].timeout) - Ticks(timer[pos].timeout))
                % Ticks(timer[pos].repeat) = 0
  <2> DEFINE later == Reschedule(timer[pos])
  <2>1. /\ timer[pos] \in Struct /\ later \in AnyTimeval /\ timer'[pos].timeout = later
        /\ ~Before(later, now)
        /\ \E k \in Nat : Ticks(later) = Ticks(timer[pos].timeout) + k * Ticks(timer[pos].repeat)
    BY <1>2, FireParts
  <2>2. PICK k \in Nat :
          Ticks(later) = Ticks(timer[pos].timeout) + k * Ticks(timer[pos].repeat)
    BY <2>1
  <2> HIDE DEF later
  <2>3. now \in AnyTimeval /\ Normal(now)
    BY <1>2 DEF IInv, TypeOK
  <2>4. Ticks(later) >= Ticks(now)
    BY <2>1, <2>3, BeforeTicks
  <2>5. /\ timer[pos].timeout.sec \in Nat /\ timer[pos].timeout.usec \in Nat
        /\ timer[pos].repeat.sec \in Nat /\ timer[pos].repeat.usec \in Nat
        /\ Second \in Nat \ {0}
        /\ timer[pos].repeat.sec # 0 \/ timer[pos].repeat.usec # 0
    BY <1>2, <2>1 DEF Struct, AnyTimeval, TimerAssumption, timerisset, Zero, Tv
  <2>6. Ticks(timer[pos].timeout) \in Nat
    BY <2>5 DEF Ticks
  <2>7. Ticks(timer[pos].repeat) \in Nat \ {0}
    <3> DEFINE a == timer[pos].repeat.sec * Second
    <3>1. a \in Nat /\ (timer[pos].repeat.sec # 0 => a >= 1)
      BY <2>5
    <3>2. Ticks(timer[pos].repeat) = a + timer[pos].repeat.usec
      BY DEF Ticks
    <3> HIDE DEF a
    <3> QED BY <2>5, <3>1, <3>2
  <2>8. \A a, b, c \in Nat : c # 0 => ((a + b * c) - a) % c = 0
    <3> SUFFICES ASSUME NEW a \in Nat, NEW b \in Nat, NEW c \in Nat, c # 0
                 PROVE  ((a + b * c) - a) % c = 0
      OBVIOUS
    <3>1. (b * c) % c = 0 /\ b * c \in Nat
      OBVIOUS
    <3>2. \A d \in Nat : (a + d) - a = d
      OBVIOUS
    <3>3. (a + b * c) - a = b * c
      BY <3>1, <3>2
    <3> QED BY <3>1, <3>3
  <2>9. (Ticks(later) - Ticks(timer[pos].timeout)) % Ticks(timer[pos].repeat) = 0
    <3> DEFINE A == Ticks(timer[pos].timeout)
               C == Ticks(timer[pos].repeat)
    <3>1. A \in Nat /\ C \in Nat /\ C # 0 /\ k \in Nat
      BY <2>6, <2>7
    <3>2. Ticks(later) = A + k * C
      BY <2>2
    <3> HIDE DEF A, C
    <3>3. ((A + k * C) - A) % C = 0
      BY <2>8, <3>1, Zenon
    <3> QED BY <3>2, <3>3, Zenon DEF A, C
  <2> QED BY <2>1, <2>4, <2>9
<1>3. IInv /\ [Next]_vars =>
        [Fire /\ timerisset(timer[pos].repeat)
         => LET due == Ticks(timer[pos].timeout)
                later == Ticks(timer'[pos].timeout)
            IN later >= Ticks(now) /\ (later - due) % Ticks(timer[pos].repeat) = 0]_vars
  BY <1>2
<1> QED BY <1>1, <1>3, PTL DEF Spec, KeepsRhythm

-----------------------------------------------------------------------------
(* What the walk has counted.                                              *)

(* The walk goes on at n, past the entry it has dealt with.                *)
LEMMA AdvanceCounts ==
  ASSUME TimerAssumption, IInv, ~misused, at \in {"walk", "handler"}, Advance,
         UNCHANGED <<timers, timer, misused, touched>>,
         \A t \in Range(timers) \ touched :
           timerisset(timer[t].timeout) =>
             \/ \E i \in DOMAIN timers : \E j \in DOMAIN timers :
                  i <= j /\ timers[i] = n /\ timers[j] = t
             \/ ~Before(timer[t].timeout, next')
  PROVE  WInv'
<1>1. at' = "walk" /\ pos' = n /\ n' = After(n) /\ timers \in Seq(Timers) /\ Distinct
  BY AdvanceParts DEF IInv, TypeOK
<1>2. ASSUME NEW i \in DOMAIN timers', timers'[i] = pos' PROVE n' = Following(i)'
  <2>1. n' = Following(i)
    BY <1>1, <1>2, AfterIs
  <2> QED BY <2>1 DEF Following
<1>3. ASSUME NEW t \in Range(timers') \ touched', timerisset(timer'[t].timeout)
      PROVE  \/ \E i \in DOMAIN timers' : \E j \in DOMAIN timers' :
                  i <= j /\ timers'[i] = pos' /\ timers'[j] = t
             \/ ~Before(timer'[t].timeout, next')
  BY <1>1, <1>3
<1> QED BY <1>1, <1>2, <1>3 DEF WInv, Ahead, Cursor, timerisset, Before, Zero, Tv

(* Entries ahead of pos other than pos are ahead of n.                     *)
LEMMA AheadOfNext ==
  ASSUME TimerAssumption, IInv, WInv, ~misused, at = "walk",
         NEW t \in Range(timers) \ touched, t # pos, timerisset(timer[t].timeout)
  PROVE  \/ \E i \in DOMAIN timers : \E j \in DOMAIN timers :
              i <= j /\ timers[i] = n /\ timers[j] = t
         \/ ~Before(timer[t].timeout, next)
<1>1. CASE Ahead(t)
  <2>1. PICK i \in DOMAIN timers, j \in DOMAIN timers : i <= j /\ timers[i] = pos /\ timers[j] = t
    BY <1>1 DEF Ahead, Cursor
  <2>2. i < j /\ n = Following(i) /\ timers \in Seq(Timers)
    BY <2>1 DEF WInv, IInv, TypeOK
  <2>3. \E h \in DOMAIN timers : h <= j /\ timers[h] = n
    BY <2>2, FollowingParts
  <2> QED BY <2>1, <2>3
<1>2. CASE ~Ahead(t)
  BY <1>2 DEF WInv
<1> QED BY <1>1, <1>2

LEMMA CallCounts ==
  ASSUME IInv, WInv, Calling, at = "handler", NEW t \in Timers,
         NEW new, timer' = [timer EXCEPT ![t] = new],
         t \in touched' \/ ~timerisset(new.timeout) \/ t \notin Range(timers'),
         touched \subseteq touched',
         Range(timers') \subseteq Range(timers) \cup {t},
         ~misused' => \A i \in DOMAIN timers : \A j \in DOMAIN timers :
           i <= j /\ timers[i] = n /\ timers[j] # t =>
             \E h \in DOMAIN timers' : \E k \in DOMAIN timers' :
               h <= k /\ timers'[h] = timers[i] /\ timers'[k] = timers[j],
         UNCHANGED <<at, walk>>
  PROVE  WInv'
<1> SUFFICES ASSUME ~misused', NEW x \in Range(timers') \ touched', timerisset(timer'[x].timeout)
             PROVE  \/ \E i \in DOMAIN timers' : \E j \in DOMAIN timers' :
                         i <= j /\ timers'[i] = n /\ timers'[j] = x
                    \/ ~Before(timer'[x].timeout, next)
  BY DEF WInv, Ahead, Cursor, walk, timerisset, Before, Zero, Tv
<1>1. x # t /\ x \in Range(timers) \ touched
  BY DEF IInv, TypeOK
<1>2. x \in Timers /\ timer'[x] = timer[x]
  <2>1. x \in Timers
    BY <1>1, SeqParts DEF IInv, TypeOK
  <2> QED BY <1>1, <2>1 DEF IInv, TypeOK
<1>3. Ahead(x) \/ ~Before(timer[x].timeout, next)
  BY <1>1, <1>2 DEF WInv, Calling
<1> QED BY <1>1, <1>2, <1>3 DEF Ahead, Cursor

LEMMA CallsCount == TimerAssumption /\ IInv /\ WInv /\ Calls => WInv'
<1> SUFFICES ASSUME TimerAssumption, IInv, WInv, Calls PROVE WInv'
  OBVIOUS
<1>1. PICK t \in Timers :
        \/ timer_new(t) \/ timer_destroy(t) \/ timer_stop(t) \/ timer_trigger(t)
        \/ \E timeout \in Timeouts, repeat \in Repeats : timer_start(t, timeout, repeat)
  BY DEF Calls
<1>2. at' = at /\ UNCHANGED walk /\ Calling
  BY <1>1 DEF timer_new, timer_destroy, timer_stop, timer_trigger, timer_start
<1>3. CASE at = "app"
  BY <1>2, <1>3 DEF WInv
<1>4. CASE at = "handler"
  <2>0. timers \in Seq(Timers) /\ Distinct
    BY DEF IInv, TypeOK
  <2>1. CASE timer_new(t)
    <3>1. timers' = <<t>> \o timers /\ t \notin Range(timers) /\ touched' = touched \cup {t}
          /\ timer' = [timer EXCEPT ![t] = Blank]
      BY <2>1 DEF timer_new
    <3>2. /\ Range(timers') = Range(timers) \cup {t}
          /\ \A i \in DOMAIN timers : i + 1 \in DOMAIN timers' /\ timers'[i + 1] = timers[i]
      BY <2>0, <3>1, PrependParts
    <3>3. \A i \in DOMAIN timers : \A j \in DOMAIN timers :
            i <= j => \E h \in DOMAIN timers' : \E k \in DOMAIN timers' :
              h <= k /\ timers'[h] = timers[i] /\ timers'[k] = timers[j]
      <4> SUFFICES ASSUME NEW i \in DOMAIN timers, NEW j \in DOMAIN timers, i <= j
                   PROVE  \E h \in DOMAIN timers' : \E k \in DOMAIN timers' :
                            h <= k /\ timers'[h] = timers[i] /\ timers'[k] = timers[j]
        OBVIOUS
      <4>1. i + 1 <= j + 1
        BY <2>0
      <4> QED BY <3>2, <4>1
    <3> QED BY <1>2, <1>4, <3>1, <3>2, <3>3, CallCounts
  <2>2. CASE timer_destroy(t)
    <3>1. /\ timers' = RemoveAt(timers, Place(t)) /\ t \in Range(timers) /\ touched' = touched
          /\ timer' = [timer EXCEPT ![t] = Blank] /\ (~misused' => t # n)
      BY <1>4, <2>2 DEF timer_destroy
    <3>2. /\ Range(timers') = Range(timers) \ {t}
          /\ \A i \in DOMAIN timers : \A j \in DOMAIN timers :
              i <= j /\ timers[i] # t /\ timers[j] # t =>
                \E h \in DOMAIN timers' : \E k \in DOMAIN timers' :
                  h <= k /\ timers'[h] = timers[i] /\ timers'[k] = timers[j]
      BY <2>0, <3>1, UnlinkParts
    <3> QED BY <1>2, <1>4, <3>1, <3>2, CallCounts, ZenonT(60)
  <2>3. CASE timer_stop(t)
    BY <1>2, <1>4, <2>3, CallCounts, BlankParts DEF timer_stop
  <2>4. CASE timer_trigger(t)
    <3>1. timer' = [timer EXCEPT ![t] = [timer[t] EXCEPT !.timeout = Timeval(clock)]]
          /\ touched' = touched \cup {t} /\ timers' = timers
      BY <2>4 DEF timer_trigger, IInv, TypeOK
    <3> QED BY <1>2, <1>4, <3>1, CallCounts
  <2>5. CASE \E timeout \in Timeouts, repeat \in Repeats : timer_start(t, timeout, repeat)
    <3>1. PICK timeout \in Timeouts, repeat \in Repeats : timer_start(t, timeout, repeat)
      BY <2>5
    <3>2. touched' = touched \cup {t} /\ timers' = timers
          /\ \E new : timer' = [timer EXCEPT ![t] = new]
      BY <3>1 DEF timer_start
    <3> QED BY <1>2, <1>4, <3>2, CallCounts
  <2> QED BY <1>1, <2>1, <2>2, <2>3, <2>4, <2>5
<1> QED BY <1>2, <1>3, <1>4 DEF Calling

LEMMA LoopBeginCounts ==
  ASSUME TimerAssumption, IInv, LoopBegin PROVE WInv'
<1>1. /\ timers \in Seq(Timers) /\ Distinct /\ timers # <<>> /\ 1 \in DOMAIN timers
      /\ timers' = timers /\ at' = "walk" /\ pos' = timers[1] /\ n' = After(pos')
  BY DEF IInv, TypeOK, LoopBegin, After
<1>2. ASSUME NEW i \in DOMAIN timers', timers'[i] = pos' PROVE n' = Following(i)'
  <2>1. n' = Following(i)
    BY <1>1, <1>2, AfterIs
  <2> QED BY <1>1, <2>1 DEF Following
<1>3. ASSUME NEW t \in Range(timers') \ touched'
      PROVE  \E i \in DOMAIN timers' : \E j \in DOMAIN timers' :
                  i <= j /\ timers'[i] = pos' /\ timers'[j] = t
  <2>1. PICK j \in DOMAIN timers : timers[j] = t
    BY <1>1 DEF Range
  <2>2. 1 <= j
    BY <1>1
  <2> QED BY <1>1, <2>1, <2>2
<1> QED BY <1>1, <1>2, <1>3 DEF WInv, Ahead, Cursor

LEMMA FireCounts ==
  ASSUME TimerAssumption, IInv, WInv, Fire PROVE WInv'
<1> DEFINE later == Reschedule(timer[pos])
<1>1. /\ pos \in Timers /\ timer[pos] \in Struct /\ later \in AnyTimeval
      /\ timer' = [timer EXCEPT ![pos].timeout = later]
      /\ timer'[pos].timeout = later
      /\ next' \in AnyTimeval /\ ~Before(next, next')
      /\ later # Zero => ~Before(later, next')
  BY FireParts
<1> HIDE DEF later
<1>2. /\ timers' = timers /\ n' = n /\ touched' = touched /\ misused' = misused
      /\ at = "walk" /\ at' # "walk"
  BY DEF Fire, Walking
<1> SUFFICES ASSUME ~misused, NEW t \in Range(timers) \ touched, timerisset(timer'[t].timeout)
             PROVE  \/ \E i \in DOMAIN timers : \E j \in DOMAIN timers :
                         i <= j /\ timers[i] = n /\ timers[j] = t
                    \/ ~Before(timer'[t].timeout, next')
  BY <1>2 DEF WInv, Ahead, Cursor, timerisset, Before, Zero, Tv
<1>3. t \in Timers
  BY SeqParts DEF IInv, TypeOK
<1>4. CASE t = pos
  BY <1>1, <1>4 DEF timerisset
<1>5. CASE t # pos
  <2>1. timer'[t] = timer[t] /\ timer[t].timeout \in AnyTimeval /\ next \in AnyTimeval
    BY <1>1, <1>3, <1>5 DEF IInv, TypeOK
  <2>2. \/ \E i \in DOMAIN timers : \E j \in DOMAIN timers :
              i <= j /\ timers[i] = n /\ timers[j] = t
        \/ ~Before(timer[t].timeout, next)
    BY <1>2, <1>5, <2>1, AheadOfNext
  <2> QED BY <1>1, <2>1, <2>2, BeforeOrder
<1> QED BY <1>4, <1>5

LEMMA NotDueCounts ==
  ASSUME TimerAssumption, IInv, WInv, NotSet \/ NotDue, ~misused PROVE WInv'
<1>1. /\ UNCHANGED <<timers, timer, misused, touched>> /\ Advance /\ at = "walk"
      /\ pos \in Timers
  BY DEF NotSet, NotDue, Walking, IInv, TypeOK
<1>2. timer[pos].timeout \in AnyTimeval /\ next \in AnyTimeval
  BY <1>1 DEF IInv, TypeOK
<1>3. next' \in AnyTimeval /\ ~Before(next, next')
      /\ (timerisset(timer[pos].timeout) => ~Before(timer[pos].timeout, next'))
  <2>1. CASE NotSet
    BY <1>2, <2>1, BeforeOrder DEF NotSet
  <2>2. CASE NotDue
    BY <1>2, <2>2, EarlierParts DEF NotDue
  <2> QED BY <2>1, <2>2
<1>4. ASSUME NEW t \in Range(timers) \ touched, timerisset(timer[t].timeout)
      PROVE  \/ \E i \in DOMAIN timers : \E j \in DOMAIN timers :
                  i <= j /\ timers[i] = n /\ timers[j] = t
             \/ ~Before(timer[t].timeout, next')
  <2>1. CASE t = pos
    BY <1>3, <1>4, <2>1
  <2>2. CASE t # pos
    <3>1. t \in Timers
      BY SeqParts DEF IInv, TypeOK
    <3>2. timer[t].timeout \in AnyTimeval
      BY <3>1 DEF IInv, TypeOK
    <3>3. \/ \E i \in DOMAIN timers : \E j \in DOMAIN timers :
                i <= j /\ timers[i] = n /\ timers[j] = t
          \/ ~Before(timer[t].timeout, next)
      BY <1>1, <1>4, <2>2, AheadOfNext
    <3> QED BY <1>2, <1>3, <3>2, <3>3, BeforeOrder
  <2> QED BY <2>1, <2>2
<1> QED BY <1>1, <1>4, AdvanceCounts

LEMMA HandlerReturnsCounts ==
  ASSUME TimerAssumption, IInv, WInv, HandlerReturns, ~misused PROVE WInv'
<1>1. /\ UNCHANGED <<timers, timer, misused, touched, next>> /\ Advance /\ at = "handler"
  BY DEF HandlerReturns
<1>2. \A t \in Range(timers) \ touched :
           timerisset(timer[t].timeout) =>
             \/ \E i \in DOMAIN timers : \E j \in DOMAIN timers :
                  i <= j /\ timers[i] = n /\ timers[j] = t
             \/ ~Before(timer[t].timeout, next')
  BY <1>1 DEF WInv, Ahead, Cursor
<1> QED BY <1>1, <1>2, AdvanceCounts

LEMMA WalkCounts == TimerAssumption /\ IInv /\ WInv /\ [Next]_vars => WInv'
<1> SUFFICES ASSUME TimerAssumption, IInv, WInv, [Next]_vars PROVE WInv'
  OBVIOUS
<1>1. CASE Tick \/ UNCHANGED vars
  BY <1>1 DEF WInv, Tick, vars, walk, Ahead, Cursor, Following, timerisset, Before, Zero, Tv
<1>2. CASE Calls
  BY <1>2, CallsCount
<1>3. CASE LoopBegin
  BY <1>3, LoopBeginCounts
<1>4. CASE NotSet \/ NotDue \/ HandlerReturns
  <2>1. misused' = misused
    BY <1>4 DEF NotSet, NotDue, HandlerReturns
  <2>2. misused => WInv'
    BY <2>1 DEF WInv
  <2> QED BY <1>4, <2>2, NotDueCounts, HandlerReturnsCounts
<1>5. CASE Fire
  BY <1>5, FireCounts
<1>6. CASE LoopEnd
  BY <1>6 DEF WInv, LoopEnd
<1> QED BY <1>1, <1>2, <1>3, <1>4, <1>5, <1>6 DEF Next, timer_loop

(* Rounding towards zero never adds a whole millisecond, and adds nothing  *)
(* to what is not negative.                                                *)
LEMMA TruncatedParts ==
  ASSUME TimerAssumption, NEW u \in Int
  PROVE  Truncated(u) \in Int /\ Truncated(u) < u + Milli /\ (u >= 0 => Truncated(u) <= u)
<1>1. Milli \in Nat \ {0}
  BY DEF TimerAssumption
<1>2. CASE u >= 0
  <2> DEFINE q == u \div Milli
             r == u % Milli
  <2>1. q \in Int /\ r \in Int /\ r >= 0 /\ r < Milli /\ u = Milli * q + r
    BY <1>1, <1>2
  <2>2. Truncated(u) = q * Milli
    BY <1>2 DEF Truncated
  <2> HIDE DEF q, r
  <2>3. q * Milli = Milli * q /\ q * Milli \in Int
    BY <1>1, <2>1
  <2> DEFINE p == q * Milli
  <2>4. p \in Int /\ u = p + r /\ Truncated(u) = p
    BY <2>1, <2>2, <2>3
  <2> HIDE DEF p
  <2> QED BY <1>1, <2>1, <2>4
<1>3. CASE ~(u >= 0)
  <2> DEFINE v == -u
             q == v \div Milli
             r == v % Milli
  <2>0. v \in Int /\ v > 0
    BY <1>3
  <2>1. q \in Int /\ r \in Int /\ r >= 0 /\ r < Milli /\ v = Milli * q + r
    <3> HIDE DEF v
    <3> QED BY <1>1, <2>0
  <2>2. Truncated(u) = -(q * Milli)
    BY <1>3 DEF Truncated
  <2> HIDE DEF q, r
  <2>3. q * Milli = Milli * q /\ q * Milli \in Int
    BY <1>1, <2>1
  <2> DEFINE p == q * Milli
  <2>4. p \in Int /\ -u = p + r /\ Truncated(u) = -p
    BY <2>1, <2>2, <2>3
  <2> HIDE DEF p, v
  <2> QED BY <1>1, <1>3, <2>1, <2>4
<1> QED BY <1>2, <1>3

(* The sleep ends before the deadline it was computed from, or less than a *)
(* millisecond after it if that is in another second.                      *)
LEMMA SleepParts ==
  ASSUME TimerAssumption, clock \in Nat, next \in AnyTimeval
  PROVE  /\ Sleep \in Int /\ Ticks(next) \in Nat
         /\ \/ Sleep = 0
            \/ clock + Sleep <= Ticks(next)
            \/ clock + Sleep < Ticks(next) + Milli /\ next.sec > clock \div Second
<1> DEFINE cs == clock \div Second
           cu == clock % Second
           s == next.sec - cs
           u == next.usec - cu
           a == next.sec * Second
           c == cs * Second
           m == Truncated(u)
<1>1. /\ Second \in Nat \ {0} /\ Milli \in Nat \ {0} /\ next.sec \in Nat /\ next.usec \in Nat
      /\ cs \in Nat /\ cu \in Nat /\ clock = cs * Second + cu
      /\ Timeval(clock).sec = cs /\ Timeval(clock).usec = cu
  <2>1. /\ Second \in Nat \ {0} /\ Milli \in Nat \ {0} /\ next.sec \in Nat /\ next.usec \in Nat
    BY DEF TimerAssumption, AnyTimeval
  <2>2. cs \in Nat /\ cu \in Nat /\ clock = cs * Second + cu
    BY <2>1, DivMod
  <2>3. Timeval(clock).sec = cs /\ Timeval(clock).usec = cu
    BY TimevalParts
  <2> QED BY <2>1, <2>2, <2>3
<1>2. Sleep = IF Before(Timeval(clock), next) THEN s * Second + m ELSE 0
  BY DEF Sleep
<1>3. m \in Int /\ m < u + Milli /\ (u >= 0 => m <= u) /\ u \in Int
  <2>1. u \in Int
    BY <1>1
  <2> HIDE DEF u
  <2> QED BY <2>1, TruncatedParts
<1>4. Before(Timeval(clock), next) => next.sec > cs \/ u >= 0
  <2> HIDE DEF cs, cu
  <2> QED BY <1>1 DEF Before
<1> HIDE DEF m, cs, cu
<1>5. a \in Nat /\ c \in Nat /\ s * Second = a - c /\ clock = c + cu /\ Ticks(next) = a + next.usec
  <2>1. (next.sec - cs) * Second = next.sec * Second - cs * Second
    BY <1>1
  <2> QED BY <1>1, <2>1 DEF Ticks
<1> DEFINE d == s * Second
<1>6. d = a - c /\ Sleep = IF Before(Timeval(clock), next) THEN d + m ELSE 0
  BY <1>2, <1>5
<1> HIDE DEF a, c, s, d
<1>7. Sleep \in Int /\ Ticks(next) \in Nat
  BY <1>1, <1>3, <1>5, <1>6
<1>8. CASE Before(Timeval(clock), next)
  <2>1. Sleep = (a - c) + m
    BY <1>6, <1>8
  <2>2. CASE u >= 0
    BY <1>1, <1>3, <1>5, <1>7, <2>1, <2>2
  <2>3. CASE ~(u >= 0)
    <3>1. next.sec > clock \div Second
      BY <1>4, <1>8, <2>3 DEF cs
    <3>2. clock + Sleep < Ticks(next) + Milli
      BY <1>1, <1>3, <1>5, <1>7, <2>1
    <3> QED BY <1>7, <3>1, <3>2
  <2> QED BY <2>2, <2>3
<1>9. CASE ~Before(Timeval(clock), next)
  BY <1>6, <1>7, <1>9
<1> QED BY <1>8, <1>9

(* Who sleeps for as long as timer_loop() says wakes up in time, or less   *)
(* than a millisecond late, for every timer that no handler has touched    *)
(* during the walk, however many timers there are and whatever the handlers*)
(* do to the list.                                                         *)
THEOREM SleepNotTooLong == ASSUME TimerAssumption PROVE Spec => NoOversleep
<1>1. Spec => []IInv
  BY Invariance
<1>2. Init => WInv
  BY DEF Init, WInv
<1>3. IInv /\ WInv /\ [Next]_vars => WInv'
  BY WalkCounts
<1>4. ASSUME IInv, WInv, LoopEnd, ~misused, Normal(next), NEW t \in Range(timers) \ touched,
             timerisset(timer[t].timeout), Normal(timer[t].timeout)
      PROVE  \/ Sleep = 0
             \/ clock + Sleep <= Ticks(timer[t].timeout)
             \/ clock + Sleep < Ticks(timer[t].timeout) + Milli /\ next.sec > clock \div Second
  <2>1. pos = Head_ /\ at = "walk" /\ timers \in Seq(Timers) /\ t \in Timers
    BY <1>4, SeqParts DEF LoopEnd, IInv, TypeOK
  <2>2. ~Ahead(t)
    BY <2>1, SeqParts DEF Ahead, Cursor, TimerAssumption
  <2>3. ~Before(timer[t].timeout, next)
    BY <1>4, <2>1, <2>2 DEF WInv
  <2>4. timer[t].timeout \in AnyTimeval /\ next \in AnyTimeval /\ clock \in Nat
    BY <1>4, <2>1 DEF IInv, TypeOK
  <2>5. Ticks(timer[t].timeout) >= Ticks(next)
    BY <1>4, <2>3, <2>4, BeforeTicks
  <2>6. Ticks(next) \in Nat /\ Ticks(timer[t].timeout) \in Nat
    <3>1. /\ next.sec \in Nat /\ next.usec \in Nat /\ Second \in Nat
          /\ timer[t].timeout.sec \in Nat /\ timer[t].timeout.usec \in Nat
      BY <2>4 DEF AnyTimeval, TimerAssumption
    <3> QED BY <3>1 DEF Ticks
  <2>7. /\ Sleep \in Int
        /\ \/ Sleep = 0
           \/ clock + Sleep <= Ticks(next)
           \/ clock + Sleep < Ticks(next) + Milli /\ next.sec > clock \div Second
    BY <2>4, SleepParts
  <2>8. Milli \in Nat
    BY DEF TimerAssumption
  <2> QED BY <2>4, <2>5, <2>6, <2>7, <2>8
<1>5. IInv /\ WInv /\ [Next]_vars =>
        [LoopEnd /\ ~misused /\ Normal(next)
         => \A t \in Range(timers) \ touched :
              timerisset(timer[t].timeout) /\ Normal(timer[t].timeout)
              => LET due == Ticks(timer[t].timeout)
                 IN \/ Sleep = 0
                    \/ clock + Sleep <= due
                    \/ clock + Sleep < due + Milli /\ next.sec > clock \div Second]_vars
  BY <1>4
<1> QED BY <1>1, <1>2, <1>3, <1>5, PTL DEF Spec, NoOversleep

=============================================================================
