----------------------------- MODULE ListLemmas -----------------------------
(***************************************************************************)
(* What the operators on sequences do that stand for the library's lists:  *)
(* list_add() in front, list_add_tail(), list_del() in the middle; and that*)
(* sets of numbers have a least one.                                       *)
(***************************************************************************)
EXTENDS Integers, Sequences, SequencesExt, TLAPS, WellFoundedInduction

(* Lists of one type are lists of a larger one.                            *)
LEMMA SeqMono ==
  ASSUME NEW S, NEW T, S \subseteq T, NEW s \in Seq(S)
  PROVE  s \in Seq(T)
  OBVIOUS

(* The parts of a list and the ways of making it longer keep the type of   *)
(* its elements.                                                           *)
LEMMA SeqParts ==
  ASSUME NEW S, NEW s \in Seq(S)
  PROVE  /\ s # <<>> => Head(s) \in S /\ Tail(s) \in Seq(S)
         /\ \A x \in S : Append(s, x) \in Seq(S) /\ Cons(x, s) \in Seq(S)
         /\ \A t \in Seq(S) : s \o t \in Seq(S)
         /\ \A i \in DOMAIN s : s[i] \in S
         /\ Range(s) \subseteq S
  BY DEF Range, Cons

(* list_del(): one element goes, the others close up in the same order.    *)
LEMMA RemoveAtParts ==
  ASSUME NEW S, NEW s \in Seq(S), NEW i \in DOMAIN s
  PROVE  /\ RemoveAt(s, i) \in Seq(S)
         /\ DOMAIN RemoveAt(s, i) = 1..(Len(s) - 1)
         /\ \A k \in DOMAIN RemoveAt(s, i) : RemoveAt(s, i)[k] = s[IF k < i THEN k ELSE k + 1]
<1> DEFINE a == SubSeq(s, 1, i - 1)
           b == SubSeq(s, i + 1, Len(s))
<1>1. i \in 1..Len(s) /\ Len(s) \in Nat
  OBVIOUS
<1>2. /\ a \in Seq(S) /\ Len(a) = i - 1
      /\ \A k \in 1..(i - 1) : a[k] = s[k]
  BY <1>1
<1>3. /\ b \in Seq(S) /\ Len(b) = Len(s) - i
      /\ \A k \in 1..(Len(s) - i) : b[k] = s[k + i]
  BY <1>1
<1>4. RemoveAt(s, i) = a \o b
  BY DEF RemoveAt
<1> HIDE DEF a, b
<1>5. a \o b \in Seq(S) /\ Len(a \o b) = Len(s) - 1
  BY <1>1, <1>2, <1>3
<1>6. ASSUME NEW k \in 1..(Len(s) - 1) PROVE (a \o b)[k] = s[IF k < i THEN k ELSE k + 1]
  <2>1. CASE k < i
    BY <1>1, <1>2, <1>3, <2>1
  <2>2. CASE ~(k < i)
    <3>1. k - (i - 1) \in 1..(Len(s) - i)
      BY <1>1, <2>2
    <3>2. (a \o b)[k] = b[k - (i - 1)]
      <4>1. k > Len(a) /\ k <= Len(a) + Len(b) /\ k \in Nat /\ Len(a) = i - 1
        BY <1>1, <1>2, <1>3, <2>2
      <4>2. a \in Seq(S) /\ b \in Seq(S)
        BY <1>2, <1>3
      <4>3. (a \o b)[k] = b[k - Len(a)]
        BY <4>1, <4>2
      <4> QED BY <4>1, <4>3
    <3>3. b[k - (i - 1)] = s[(k - (i - 1)) + i]
      BY <1>3, <3>1
    <3>4. (k - (i - 1)) + i = k + 1
      BY <1>1
    <3> QED BY <2>2, <3>2, <3>3, <3>4
  <2> QED BY <2>1, <2>2
<1>7. DOMAIN (a \o b) = 1..(Len(s) - 1)
  BY <1>5
<1> QED BY <1>4, <1>5, <1>6, <1>7

(* list_del() keeps the type of the elements.                              *)
LEMMA RemoveAtSeq ==
  ASSUME NEW S, NEW s \in Seq(S), NEW i \in DOMAIN s
  PROVE  RemoveAt(s, i) \in Seq(S)
  BY RemoveAtParts

(* A set of natural numbers has a least element.                           *)
LEMMA LeastNat ==
  ASSUME NEW T, T \subseteq Nat, T # {}
  PROVE  \E x \in T : \A y \in T : x <= y
<1> DEFINE R == OpToRel(<, Nat)
<1>1. IsWellFoundedOn(R, Nat)
  BY NatLessThanWellFounded
<1>2. \A x, y \in Nat : y < x => <<y, x>> \in R
  BY DEF OpToRel
<1> HIDE DEF R
<1>3. PICK x \in T : \A y \in T : ~(<<y, x>> \in R)
  BY <1>1, WFMin
<1>4. ASSUME NEW y \in T PROVE x <= y
  <2>1. x \in Nat /\ y \in Nat
    OBVIOUS
  <2>2. ~(y < x)
    BY <1>2, <1>3, <2>1
  <2> QED BY <2>1, <2>2
<1> QED BY <1>4

(* list_del() from a list without duplicates.                              *)
LEMMA RemoveAtDistinct ==
  ASSUME NEW S, NEW s \in Seq(S), NEW p \in DOMAIN s,
         \A i, j \in DOMAIN s : s[i] = s[j] => i = j
  PROVE  /\ RemoveAt(s, p) \in Seq(S)
         /\ Range(RemoveAt(s, p)) = Range(s) \ {s[p]}
         /\ \A i, j \in DOMAIN RemoveAt(s, p) : RemoveAt(s, p)[i] = RemoveAt(s, p)[j] => i = j
         /\ \A j, k \in DOMAIN s : j <= k /\ j # p /\ k # p =>
              \E h, i \in DOMAIN RemoveAt(s, p) :
                h <= i /\ RemoveAt(s, p)[h] = s[j] /\ RemoveAt(s, p)[i] = s[k]
<1> DEFINE u == RemoveAt(s, p)
           old(i) == IF i < p THEN i ELSE i + 1
           new(k) == IF k < p THEN k ELSE k - 1
<1>1. /\ u \in Seq(S) /\ DOMAIN u = 1..(Len(s) - 1)
      /\ \A k \in DOMAIN u : u[k] = s[old(k)]
  BY RemoveAtParts
<1>2. DOMAIN s = 1..Len(s) /\ Len(s) \in Nat /\ p \in 1..Len(s)
  OBVIOUS
<1> HIDE DEF u
<1>3. \A i \in DOMAIN u : old(i) \in DOMAIN s /\ old(i) # p
  BY <1>1, <1>2
<1>4. ASSUME NEW k \in DOMAIN s, k # p PROVE new(k) \in DOMAIN u /\ u[new(k)] = s[k]
  <2>1. CASE k < p
    BY <1>1, <1>2, <2>1
  <2>2. CASE ~(k < p)
    <3>1. k - 1 \in 1..(Len(s) - 1) /\ ~(k - 1 < p) /\ (k - 1) + 1 = k
      BY <1>2, <1>4, <2>2
    <3> QED BY <1>1, <2>2, <3>1
  <2> QED BY <2>1, <2>2
<1>5. \A i, j \in DOMAIN u : old(i) = old(j) => i = j
  BY <1>1, <1>2
<1>6. \A j, k \in DOMAIN s : j <= k /\ j # p /\ k # p => new(j) <= new(k)
  BY <1>2
<1> HIDE DEF old, new
<1>7. Range(u) = Range(s) \ {s[p]}
  <2>1. ASSUME NEW x \in Range(u) PROVE x \in Range(s) /\ x # s[p]
    BY <1>1, <1>3 DEF Range
  <2>2. ASSUME NEW x \in Range(s), x # s[p] PROVE x \in Range(u)
    BY <1>4, <2>2 DEF Range
  <2> QED BY <2>1, <2>2
<1>8. \A i, j \in DOMAIN u : u[i] = u[j] => i = j
  BY <1>1, <1>3, <1>5
<1>9. \A j, k \in DOMAIN s : j <= k /\ j # p /\ k # p =>
        \E h, i \in DOMAIN u : h <= i /\ u[h] = s[j] /\ u[i] = s[k]
  BY <1>4, <1>6
<1> QED BY <1>1, <1>7, <1>8, <1>9 DEF u

(* A function on 1..n is a sequence of length n.                           *)
LEMMA FunctionSeq ==
  ASSUME NEW S, NEW n \in Nat, NEW f \in [1..n -> S]
  PROVE  f \in Seq(S) /\ Len(f) = n /\ DOMAIN f = 1..n
  OBVIOUS

(* Sequences with the same elements are the same.                          *)
LEMMA SeqEqual ==
  ASSUME NEW S, NEW a \in Seq(S), NEW b \in Seq(S), Len(a) = Len(b),
         \A i \in 1..Len(a) : a[i] = b[i]
  PROVE  a = b
<1>1. \A s \in Seq(S) : s = [i \in 1..Len(s) |-> s[i]]
  OBVIOUS
<1> QED BY <1>1

(* Which element of a concatenation is which.                              *)
LEMMA ConcatParts ==
  ASSUME NEW S, NEW a \in Seq(S), NEW b \in Seq(S)
  PROVE  /\ a \o b \in Seq(S) /\ Len(a) \in Nat /\ Len(b) \in Nat
         /\ Len(a \o b) = Len(a) + Len(b)
         /\ DOMAIN (a \o b) = 1..(Len(a) + Len(b))
         /\ \A i \in 1..Len(a) : (a \o b)[i] = a[i]
         /\ \A i \in 1..Len(b) : (a \o b)[Len(a) + i] = b[i]
<1>1. \A i \in 1..Len(b) : (a \o b)[Len(a) + i] = b[i]
  <2> TAKE i \in 1..Len(b)
  <2>1. Len(a) \in Nat /\ i \in Nat /\ i > 0 /\ Len(a) + i \in 1..(Len(a) + Len(b))
    OBVIOUS
  <2>2. (a \o b)[Len(a) + i] = b[(Len(a) + i) - Len(a)]
    BY <2>1
  <2>3. (Len(a) + i) - Len(a) = i
    BY <2>1
  <2> QED BY <2>2, <2>3
<1> QED BY <1>1

-----------------------------------------------------------------------------
(* A chain of prefixes: g[m] is the first m sequences of s, joined.        *)
Links(g, s, n) == g[0] = <<>> /\ \A m \in 1..n : g[m] = g[m - 1] \o s[m]

Joins(g, s, n, S) == g \in [0..n -> Seq(S)] /\ Links(g, s, n)

LEMMA JoinsExist ==
  ASSUME NEW S, NEW n \in Nat, NEW s \in [1..n -> Seq(S)]
  PROVE  \E g : Joins(g, s, n, S)
<1> DEFINE T == {m \in 0..n : ~ \E g : Joins(g, s, m, S)}
<1> SUFFICES ASSUME T # {} PROVE FALSE
  <2>1. n \in 0..n
    OBVIOUS
  <2> QED BY <2>1, Zenon
<1>1. PICK m \in T : \A k \in T : m <= k
  <2>1. T \subseteq Nat
    OBVIOUS
  <2> HIDE DEF T
  <2> QED BY <2>1, LeastNat
<1>2. m \in 0..n /\ \A g : ~Joins(g, s, m, S)
  OBVIOUS
<1>3. m # 0
  <2> SUFFICES ASSUME m = 0 PROVE FALSE
    OBVIOUS
  <2> DEFINE e == [i \in 0..0 |-> <<>>]
  <2>1. <<>> \in Seq(S)
    OBVIOUS
  <2>2. e \in [0..m -> Seq(S)] /\ e[0] = <<>> /\ 1..m = {}
    BY <2>1
  <2> QED BY <1>2, <2>2 DEF Joins, Links
<1>4. m - 1 \in 0..n /\ m - 1 \notin T
  <2> HIDE DEF T
  <2> QED BY <1>1, <1>2, <1>3
<1>5. PICK g : Joins(g, s, m - 1, S)
  BY <1>4, Zenon
<1> HIDE DEF T
<1> DEFINE h == [i \in 0..m |-> IF i = m THEN g[m - 1] \o s[m] ELSE g[i]]
<1>6. /\ g \in [0..m - 1 -> Seq(S)] /\ g[0] = <<>>
      /\ \A i \in 1..m - 1 : g[i] = g[i - 1] \o s[i]
  BY <1>5 DEF Joins, Links
<1>7. m \in 1..n /\ m - 1 \in 0..m - 1 /\ \A i \in 0..m : i # m => i \in 0..m - 1
  BY <1>2, <1>3
<1>8. g[m - 1] \o s[m] \in Seq(S)
  <2>1. g[m - 1] \in Seq(S) /\ s[m] \in Seq(S)
    BY <1>6, <1>7
  <2> QED BY <2>1
<1>9. h \in [0..m -> Seq(S)]
  <2>1. ASSUME NEW i \in 0..m PROVE (IF i = m THEN g[m - 1] \o s[m] ELSE g[i]) \in Seq(S)
    BY <1>6, <1>7, <1>8
  <2> QED BY <2>1
<1>10. h[0] = <<>>
  BY <1>3, <1>6, <1>7
<1>11. ASSUME NEW i \in 1..m PROVE h[i] = h[i - 1] \o s[i]
  <2>1. i - 1 \in 0..m /\ i - 1 # m /\ i \in 0..m /\ h[i - 1] = g[i - 1]
    BY <1>7
  <2>2. CASE i = m
    BY <2>1, <2>2
  <2>3. CASE i # m
    <3>1. i \in 1..m - 1 /\ h[i] = g[i]
      BY <1>7, <2>1, <2>3
    <3> QED BY <1>6, <2>1, <3>1
  <2> QED BY <2>2, <2>3
<1> HIDE DEF h
<1> QED BY <1>2, <1>9, <1>10, <1>11 DEF Joins, Links

(* The sequences joined so far depend on those sequences only.             *)
LEMMA JoinsUnique ==
  ASSUME NEW n \in Nat, NEW s, NEW g, NEW h,
         Links(g, s, n), Links(h, s, n)
  PROVE  \A m \in 0..n : g[m] = h[m]
<1> DEFINE T == {m \in 0..n : g[m] # h[m]}
<1> SUFFICES ASSUME T # {} PROVE FALSE
  OBVIOUS
<1>1. PICK m \in T : \A k \in T : m <= k
  <2>1. T \subseteq Nat
    OBVIOUS
  <2> HIDE DEF T
  <2> QED BY <2>1, LeastNat
<1>2. m \in 0..n /\ g[m] # h[m] /\ m # 0
  BY DEF Links
<1>3. m - 1 \in 0..n /\ m - 1 \notin T /\ m \in 1..n
  BY <1>1, <1>2
<1>4. g[m - 1] = h[m - 1]
  BY <1>3
<1> HIDE DEF T
<1> QED BY <1>2, <1>3, <1>4 DEF Links

(* What FlattenSeq() computes: the last of the prefixes.                   *)
LEMMA FlattenIsJoin ==
  ASSUME NEW S, NEW n \in Nat, NEW s \in [1..n -> Seq(S)], NEW g, Joins(g, s, n, S)
  PROVE  FlattenSeq(s) = g[n]
<1>1. s \in Seq(Seq(S)) /\ Len(s) = n
  OBVIOUS
<1>2. CASE n = 0
  BY <1>1, <1>2 DEF FlattenSeq, Joins, Links
<1>3. CASE n # 0
  <2> DEFINE E(f) == [i \in 1..n |-> IF i = 1 THEN s[i] ELSE f[i - 1] \o s[i]]
             c == CHOOSE f : f = E(f)
             w == [i \in 1..n |-> g[i]]
  <2>1. w = E(w)
    <3>1. ASSUME NEW i \in 1..n PROVE g[i] = IF i = 1 THEN s[i] ELSE w[i - 1] \o s[i]
      <4>1. g[i] = g[i - 1] \o s[i] /\ g[0] = <<>> /\ s[i] \in Seq(S)
        BY DEF Joins, Links
      <4>2. i = 1 => g[i] = s[i]
        BY <4>1
      <4>3. i # 1 => i - 1 \in 1..n
        OBVIOUS
      <4> QED BY <4>1, <4>2, <4>3
    <3> QED BY <3>1
  <2> HIDE DEF w
  <2>2. c = E(c)
    BY <2>1, Zenon
  <2>3. FlattenSeq(s) = c[n]
    BY <1>1, <1>3 DEF FlattenSeq
  <2> HIDE DEF c
  <2>4. \A i \in 1..n : c[i] = IF i = 1 THEN s[i] ELSE c[i - 1] \o s[i]
    BY <2>2
  <2> DEFINE h == [i \in 0..n |-> IF i = 0 THEN <<>> ELSE c[i]]
  <2>5. ASSUME NEW i \in 1..n PROVE h[i] = h[i - 1] \o s[i]
    <3>1. i \in 0..n /\ i - 1 \in 0..n /\ s[i] \in Seq(S) /\ h[i] = c[i]
      OBVIOUS
    <3>2. CASE i = 1
      BY <2>4, <3>1, <3>2
    <3>3. CASE i # 1
      <4>1. h[i - 1] = c[i - 1]
        BY <3>1, <3>3
      <4> QED BY <2>4, <3>1, <3>3, <4>1
    <3> QED BY <3>2, <3>3
  <2>6. h[0] = <<>> /\ h[n] = c[n]
    BY <1>3
  <2> HIDE DEF h
  <2>7. h[n] = g[n]
    <3>1. Links(g, s, n) /\ Links(h, s, n)
      <4>1. Links(g, s, n)
        BY Zenon DEF Joins
      <4>2. Links(h, s, n)
        BY <2>5, <2>6, Zenon DEF Links
      <4> QED BY <4>1, <4>2
    <3>2. \A i \in 0..n : g[i] = h[i]
      BY <3>1, JoinsUnique, SMT
    <3>3. n \in 0..n
      OBVIOUS
    <3> QED BY <3>2, <3>3, Zenon
  <2> QED BY <2>3, <2>6, <2>7
<1> QED BY <1>2, <1>3

(* a is a prefix of b.                                                     *)
Begins(a, b) == Len(a) <= Len(b) /\ \A i \in 1..Len(a) : b[i] = a[i]

(* What was joined first stays in front.                                   *)
LEMMA JoinsPrefix ==
  ASSUME NEW S, NEW n \in Nat, NEW s \in [1..n -> Seq(S)], NEW g, Joins(g, s, n, S),
         NEW k \in 0..n, NEW m \in 0..n, k <= m
  PROVE  Begins(g[k], g[m])
<1> DEFINE T == {x \in k..n : ~Begins(g[k], g[x])}
<1> SUFFICES ASSUME T # {} PROVE FALSE
  <2>1. m \in k..n
    OBVIOUS
  <2> QED BY <2>1, Zenon
<1>1. PICK x \in T : \A y \in T : x <= y
  <2>1. T \subseteq Nat
    OBVIOUS
  <2> HIDE DEF T
  <2> QED BY <2>1, LeastNat
<1>2. x \in k..n /\ ~Begins(g[k], g[x])
  BY Zenon
<1> HIDE DEF T
<1>3. \A y \in 0..n : g[y] \in Seq(S)
  BY DEF Joins
<1>4. x # k
  <2>1. Len(g[k]) \in Nat
    BY <1>3
  <2>2. Begins(g[k], g[k])
    BY <2>1 DEF Begins
  <2> QED BY <1>2, <2>2, Zenon
<1>5. x - 1 \in k..n /\ x - 1 \notin T /\ x \in 1..n /\ x - 1 \in 0..n
  BY <1>1, <1>2, <1>4
<1>6. Begins(g[k], g[x - 1])
  BY <1>5, Zenon DEF T
<1>7. g[x] = g[x - 1] \o s[x]
  BY <1>5, Zenon DEF Joins, Links
<1>8. g[x - 1] \in Seq(S) /\ s[x] \in Seq(S) /\ g[k] \in Seq(S)
  BY <1>3, <1>5
<1>9. /\ Len(g[x]) = Len(g[x - 1]) + Len(s[x])
      /\ \A i \in 1..Len(g[x - 1]) : g[x][i] = g[x - 1][i]
  <2>1. \A a, b \in Seq(S) : /\ Len(a \o b) = Len(a) + Len(b)
                             /\ \A i \in 1..Len(a) : (a \o b)[i] = a[i]
    OBVIOUS
  <2>2. /\ Len(g[x - 1] \o s[x]) = Len(g[x - 1]) + Len(s[x])
        /\ \A i \in 1..Len(g[x - 1]) : (g[x - 1] \o s[x])[i] = g[x - 1][i]
    BY <1>8, <2>1, Zenon
  <2> QED BY <1>7, <2>2, Zenon
<1>10. Len(g[x - 1]) \in Nat /\ Len(s[x]) \in Nat /\ Len(g[k]) \in Nat
  BY <1>8
<1>11. Begins(g[k], g[x])
  <2>1. Len(g[k]) <= Len(g[x - 1]) /\ \A i \in 1..Len(g[k]) : g[x - 1][i] = g[k][i]
    BY <1>6, Zenon DEF Begins
  <2>2. Len(g[k]) <= Len(g[x])
    <3>1. Len(g[k]) <= Len(g[x - 1]) /\ Len(g[x]) = Len(g[x - 1]) + Len(s[x])
      BY <1>9, <2>1, Zenon
    <3>2. \A a, b, c \in Nat : a <= b => a <= b + c
      OBVIOUS
    <3> QED BY <1>10, <3>1, <3>2, Zenon
  <2>3. \A i \in 1..Len(g[k]) : i \in 1..Len(g[x - 1])
    BY <1>10, <2>1
  <2>4. \A i \in 1..Len(g[k]) : g[x][i] = g[k][i]
    BY <1>9, <2>1, <2>3, Zenon
  <2> QED BY <2>2, <2>4, Zenon DEF Begins
<1> QED BY <1>2, <1>11, Zenon

(* Every element comes from one of the sequences joined.                   *)
LEMMA JoinsCover ==
  ASSUME NEW S, NEW n \in Nat, NEW s \in [1..n -> Seq(S)], NEW g, Joins(g, s, n, S),
         NEW p \in 1..Len(g[n])
  PROVE  \E k \in 1..n : Len(g[k - 1]) < p /\ p <= Len(g[k])
<1> DEFINE T == {x \in 0..n : p <= Len(g[x])}
<1>1. n \in T
  OBVIOUS
<1>2. PICK k \in T : \A y \in T : k <= y
  <2>1. T \subseteq Nat
    OBVIOUS
  <2> HIDE DEF T
  <2> QED BY <1>1, <2>1, LeastNat
<1>3. k \in 0..n /\ p <= Len(g[k])
  OBVIOUS
<1>4. \A y \in 0..n : g[y] \in Seq(S) /\ Len(g[y]) \in Nat
  BY DEF Joins
<1>5. k # 0
  <2>1. Len(g[0]) = 0
    BY DEF Joins, Links
  <2>2. p \in Nat /\ p > 0
    BY <1>4
  <2> QED BY <1>3, <2>1, <2>2
<1>6. k - 1 \in 0..n /\ k \in 1..n /\ k - 1 \notin T
  <2> HIDE DEF T
  <2> QED BY <1>2, <1>3, <1>5
<1>7. ~(p <= Len(g[k - 1]))
  BY <1>6
<1>8. p \in Nat /\ Len(g[k - 1]) \in Nat
  BY <1>4, <1>6
<1>9. Len(g[k - 1]) < p
  BY <1>7, <1>8
<1> QED BY <1>3, <1>6, <1>9

=============================================================================
