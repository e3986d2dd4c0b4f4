----------------------------- MODULE MapProofs -----------------------------
(***************************************************************************)
(* The map, whatever its lines and stations, the vehicles and who occupies *)
(* what: the search of PathSearch answers a shortest path and the halt     *)
(* station it picks is the nearest; Fleet, which chooses among the answers *)
(* of that search, keeps the promises of Reservations, and a vehicle holds *)
(* what it needs and nothing else.                                         *)
(***************************************************************************)
EXTENDS Fleet, PathSearch, TLAPS, FiniteSetTheorems, SequenceTheorems,
        WellFoundedInduction

\* Induction over the natural numbers, for a set in place of a predicate.
LEMMA SetInduction ==
    ASSUME NEW S \in SUBSET Nat, 0 \in S, \A n \in S : n + 1 \in S
    PROVE  S = Nat
<1> DEFINE R == OpToRel(<, Nat)
           T == Nat \ S
<1>1. SUFFICES ASSUME T # {} PROVE FALSE
  OBVIOUS
<1>2. PICK m \in T : \A n \in T : ~(<<n, m>> \in R)
  <2>1. IsWellFoundedOn(R, Nat)
    BY NatLessThanWellFounded
  <2> HIDE DEF R
  <2> QED
    BY <1>1, <2>1, WFMin
<1>3. m \in Nat /\ m # 0 /\ m - 1 \in Nat /\ m - 1 < m
  OBVIOUS
<1>4. <<m - 1, m>> \in R
  BY <1>3 DEF OpToRel
<1>5. m - 1 \in S
  BY <1>2, <1>3, <1>4
<1>6. (m - 1) + 1 = m
  BY <1>3
<1> QED
  BY <1>5, <1>6

\* Of the numbers in a set there is a least one.
LEMMA LeastOf == ASSUME NEW S \in SUBSET Nat, S # {} PROVE \E m \in S : \A n \in S : m <= n
<1> DEFINE R == OpToRel(<, Nat)
<1>1. PICK m \in S : \A n \in S : ~(<<n, m>> \in R)
  <2>1. IsWellFoundedOn(R, Nat)
    BY NatLessThanWellFounded
  <2> HIDE DEF R
  <2> QED
    BY <2>1, WFMin
<1>2. \A n \in S : ~(n < m)
  BY <1>1 DEF OpToRel
<1> QED
  BY <1>2

-----------------------------------------------------------------------------
(* Paths: what ShortestRoute compares *)

\* A path over some lines that begins at a station: each line goes on a the
\* one before, and no station is visited twice.
Simple(p, lines, a) ==
    /\ p \in Seq(lines)
    /\ \A i \in 1..Len(p) : Start(p[i]) = IF i = 1 THEN a ELSE End(p[i - 1])
    /\ \A i \in 1..Len(p) : End(p[i]) # a
    /\ \A i, j \in 1..Len(p) : End(p[i]) = End(p[j]) => i = j
SimpleTo(p, lines, a, b) ==
    Simple(p, lines, a) /\ Len(p) # 0 /\ End(p[Len(p)]) = b

\* Lines that lead on to a new station.
On(p, lines, a) == {l \in lines : Ends[l][1] = Search!Last(p, a)
                                     /\ Ends[l][2] \notin Search!Been(p, a)}

\* One more line.
LEMMA SimpleAppend ==
    ASSUME NEW lines, NEW a, NEW p, Simple(p, lines, a),
           NEW l \in On(p, lines, a)
    PROVE  Simple(Append(p, l), lines, a) /\ Len(Append(p, l)) = Len(p) + 1
<1> DEFINE q == Append(p, l)
<1>1. p \in Seq(lines) /\ Len(p) \in Nat /\ DOMAIN p = 1..Len(p) /\ l \in lines
  BY DEF Simple, On
<1>2. /\ q \in Seq(lines) /\ Len(q) = Len(p) + 1 /\ q[Len(p) + 1] = l
      /\ \A i \in 1..Len(p) : q[i] = p[i]
  BY <1>1
<1>3. p = <<>> <=> Len(p) = 0
  BY <1>1
<1>4. Start(l) = IF Len(p) = 0 THEN a ELSE End(p[Len(p)])
  BY <1>3 DEF Start, End, On, Search!Last
<1>5. End(l) # a /\ \A i \in 1..Len(p) : End(l) # End(p[i])
  BY <1>1 DEF End, On, Search!Been
<1> HIDE DEF q
<1>6. ASSUME NEW i \in 1..(Len(p) + 1)
      PROVE  Start(q[i]) = IF i = 1 THEN a ELSE End(q[i - 1])
  <2>1. CASE i = Len(p) + 1
    <3>1. i # 1 => i - 1 = Len(p) /\ i - 1 \in 1..Len(p)
      BY <2>1, <1>1
    <3> QED
      BY <2>1, <3>1, <1>1, <1>2, <1>4
  <2>2. CASE i # Len(p) + 1
    <3>1. i \in 1..Len(p) /\ (i # 1 => i - 1 \in 1..Len(p))
      BY <2>2, <1>1
    <3> QED
      BY <3>1, <1>1, <1>2 DEF Simple
  <2> QED
    BY <2>1, <2>2
<1>7. ASSUME NEW i \in 1..(Len(p) + 1)
      PROVE  i = Len(p) + 1 \/ i \in 1..Len(p)
  BY <1>1
<1>8. \A i \in 1..(Len(p) + 1) : End(q[i]) # a
  BY <1>1, <1>2, <1>5, <1>7 DEF Simple
<1>9. \A i, j \in 1..(Len(p) + 1) : End(q[i]) = End(q[j]) => i = j
  BY <1>1, <1>2, <1>5, <1>7 DEF Simple
<1> QED
  BY <1>2, <1>6, <1>8, <1>9 DEF Simple, q

\* And one less.
LEMMA SimpleFront ==
    ASSUME NEW lines, NEW a, NEW q, Simple(q, lines, a), Len(q) # 0
    PROVE  \E p : /\ Simple(p, lines, a) /\ Len(p) + 1 = Len(q)
                  /\ \E l \in On(p, lines, a) : q = Append(p, l)
<1>0. PICK n \in Nat : Len(q) = n + 1
  <2>1. Len(q) \in Nat
    BY DEF Simple
  <2> QED
    BY <2>1
<1> DEFINE p == [i \in 1..n |-> q[i]]
           l == q[n + 1]
<1>1. q \in Seq(lines) /\ \A i \in 1..(n + 1) : q[i] \in lines
  BY <1>0 DEF Simple
<1>2. p \in Seq(lines) /\ Len(p) = n /\ \A i \in 1..n : p[i] = q[i] /\ i \in 1..(n + 1)
  <2>1. \A i \in 1..n : i \in 1..(n + 1)
    OBVIOUS
  <2> QED
    BY <1>1, <2>1
<1>3. l \in lines
  BY <1>1
<1>4. q = Append(p, l)
  <2>1. Append(p, l) \in Seq(lines) /\ Len(Append(p, l)) = n + 1
        /\ Append(p, l)[n + 1] = l /\ \A i \in 1..n : Append(p, l)[i] = q[i]
    BY <1>2, <1>3
  <2>2. \A i \in 1..(n + 1) : i = n + 1 \/ i \in 1..n
    OBVIOUS
  <2> HIDE DEF p
  <2>3. \A i \in 1..(n + 1) : Append(p, l)[i] = q[i]
    BY <2>1, <2>2
  <2> QED
    BY <1>0, <1>1, <2>1, <2>3, SeqEqual
<1> HIDE DEF p
<1>5. Simple(p, lines, a)
  <2>1. \A i \in 1..n : i # 1 => i - 1 \in 1..n
    OBVIOUS
  <2>2. \A i \in 1..n : Start(p[i]) = IF i = 1 THEN a ELSE End(p[i - 1])
    BY <1>0, <1>2, <2>1 DEF Simple
  <2>3. /\ \A i \in 1..n : End(p[i]) # a
        /\ \A i, j \in 1..n : End(p[i]) = End(p[j]) => i = j
    BY <1>0, <1>2 DEF Simple
  <2> QED
    BY <1>0, <1>2, <2>2, <2>3 DEF Simple
<1>6. l \in On(p, lines, a)
  <2>1. p = <<>> <=> n = 0
    BY <1>2
  <2>2. Start(l) = IF n = 0 THEN a ELSE End(p[n])
    <3>1. n + 1 \in 1..(n + 1) /\ (n + 1) - 1 = n /\ (n # 0 => n \in 1..n /\ n + 1 # 1)
      OBVIOUS
    <3> QED
      BY <3>1, <1>0, <1>2 DEF Simple
  <2>3. End(l) # a /\ \A i \in 1..n : End(l) # End(p[i])
    <3>1. n + 1 \in 1..(n + 1) /\ \A i \in 1..n : i # n + 1
      OBVIOUS
    <3> QED
      BY <3>1, <1>0, <1>2 DEF Simple
  <2>4. DOMAIN p = 1..n
    BY <1>2
  <2> QED
    BY <1>2, <1>3, <2>1, <2>2, <2>3, <2>4 DEF On, Start, End, Search!Last, Search!Been
<1> QED
  BY <1>0, <1>2, <1>4, <1>5, <1>6

\* It has fewer lines than there are stations.
LEMMA SimpleIsShort ==
    ASSUME NEW lines \in SUBSET Line, NEW a \in Station, NEW p, Simple(p, lines, a)
    PROVE  Len(p) <= Cardinality(Station) - 1
<1> DEFINE n == Len(p)
           f == [i \in 0..n |-> IF i = 0 THEN a ELSE End(p[i])]
<1>1. n \in Nat /\ p \in Seq(lines) /\ \A i \in 1..n : p[i] \in lines
  BY DEF Simple
<1>2. IsFiniteSet(Station) /\ Cardinality(Station) \in Nat
  BY GraphAssumption, FS_CardinalityType
<1>3. f \in [0..n -> Station]
  <2>1. \A l \in Line : End(l) \in Station
    BY GraphAssumption DEF End
  <2> QED
    BY <1>1, <2>1
<1>4. IsFiniteSet(0..n) /\ Cardinality(0..n) = n + 1
  BY <1>1, FS_Interval
<1>5. \A i, j \in 0..n : i # j => f[i] # f[j]
  <2>1. \A i \in 0..n : i = 0 \/ i \in 1..n
    BY <1>1
  <2> QED
    BY <2>1 DEF Simple
<1> HIDE DEF n, f
<1>6. ~(Cardinality(Station) < n + 1)
  BY <1>2, <1>3, <1>4, <1>5, FS_PigeonHole
<1> QED
  BY <1>1, <1>2, <1>6 DEF n

\* So these are the paths that ShortestRoute compares.
LEMMA PathsOverAre ==
    ASSUME NEW lines \in SUBSET Line, NEW a \in Station, NEW b, NEW p
    PROVE  p \in Search!PathsOver(lines, a, b) <=> SimpleTo(p, lines, a, b)
<1> DEFINE M == Cardinality(Station) - 1
           on(q) == {l \in lines : Ends[l][1] = Search!Last(q, a)
                                   /\ Ends[l][2] \notin Search!Been(q, a)}
           next(ps) == UNION {{Append(q, l) : l \in on(q)} : q \in ps}
           paths[n \in 0..M] == IF n = 0 THEN {<<>>} ELSE next(paths[n - 1])
<1>1. M \in Int
  <2>1. Cardinality(Station) \in Nat
    BY FS_CardinalityType, GraphAssumption
  <2> QED
    BY <2>1
<1>2. p \in Search!PathsOver(lines, a, b)
        <=> p \in UNION {paths[n] : n \in 1..M} /\ Search!Last(p, a) = b
  BY DEF Search!PathsOver
<1>3. \A q : on(q) = On(q, lines, a)
  BY DEF On
<1> HIDE DEF M, next
\* The recursive definition does define a function.
<1>4. \A n \in 0..M : paths[n] = IF n = 0 THEN {<<>>} ELSE next(paths[n - 1])
  <2> DEFINE fits(g, k) == g = [n \in 0..k |-> IF n = 0 THEN {<<>>}
                                               ELSE next(g[n - 1])]
             S == {k \in Nat : \E g : fits(g, k)}
  <2>1. 0 \in S
    <3> DEFINE g == [n \in 0..0 |-> {<<>>}]
    <3>1. g = [n \in 0..0 |-> IF n = 0 THEN {<<>>} ELSE next(g[n - 1])]
      OBVIOUS
    <3> HIDE DEF g
    <3> QED
      BY <3>1
  <2>2. ASSUME NEW k \in S PROVE k + 1 \in S
    <3>1. PICK g : fits(g, k)
      OBVIOUS
    <3> DEFINE h == [n \in 0..(k + 1) |-> IF n <= k THEN g[n] ELSE next(g[k])]
    <3>2. ASSUME NEW n \in 0..(k + 1)
          PROVE  h[n] = IF n = 0 THEN {<<>>} ELSE next(h[n - 1])
      <4>1. n # 0 => n - 1 \in 0..(k + 1) /\ h[n - 1] = g[n - 1]
        OBVIOUS
      <4>2. n <= k => g[n] = IF n = 0 THEN {<<>>} ELSE next(g[n - 1])
        <5>1. k \in Nat /\ n \in Nat
          OBVIOUS
        <5>2. n <= k => n \in 0..k
          BY <5>1
        <5>3. \A i \in 0..k : g[i] = IF i = 0 THEN {<<>>} ELSE next(g[i - 1])
          BY <3>1
        <5> QED
          BY <5>2, <5>3
      <4>3. h[n] = IF n <= k THEN g[n] ELSE next(g[k])
        OBVIOUS
      <4>4. ~(n <= k) => n - 1 = k /\ n # 0
        OBVIOUS
      <4> HIDE DEF h
      <4> QED
        BY <4>1, <4>2, <4>3, <4>4
    <3>3. h = [n \in 0..(k + 1) |-> IF n = 0 THEN {<<>>} ELSE next(h[n - 1])]
      BY <3>2
    <3>4. k + 1 \in Nat
      OBVIOUS
    <3> HIDE DEF h
    <3> QED
      BY <3>3, <3>4
  <2>3. S = Nat
    <3>1. S \in SUBSET Nat
      OBVIOUS
    <3> HIDE DEF S
    <3> QED
      BY <2>1, <2>2, <3>1, SetInduction
  <2>4. CASE M \in Nat
    <3>1. \E g : g = [n \in 0..M |-> IF n = 0 THEN {<<>>} ELSE next(g[n - 1])]
      BY <2>3, <2>4
    <3>2. paths = [n \in 0..M |-> IF n = 0 THEN {<<>>} ELSE next(paths[n - 1])]
      BY <3>1
    <3> HIDE DEF paths
    <3> QED
      BY <3>2
  <2>5. CASE M \notin Nat
    BY <2>5, <1>1
  <2> QED
    BY <2>4, <2>5
<1> HIDE DEF paths, on
<1>5. \A n \in 0..M : \A q : q \in paths[n] <=> Simple(q, lines, a) /\ Len(q) = n
  <2> DEFINE S == {n \in Nat : n \in 0..M =>
                     \A q : q \in paths[n] <=> Simple(q, lines, a) /\ Len(q) = n}
  <2>1. 0 \in S
    <3>1. Simple(<<>>, lines, a) /\ Len(<<>>) = 0
      BY DEF Simple
    <3>2. \A q : Simple(q, lines, a) /\ Len(q) = 0 => q = <<>>
      BY DEF Simple
    <3>3. 0 \in 0..M => paths[0] = {<<>>}
      BY <1>4
    <3> QED
      BY <3>1, <3>2, <3>3
  <2>2. ASSUME NEW n \in S PROVE n + 1 \in S
    <3> SUFFICES ASSUME n + 1 \in 0..M, NEW q
                 PROVE  q \in paths[n + 1] <=> Simple(q, lines, a) /\ Len(q) = n + 1
      OBVIOUS
    <3>1. n \in 0..M /\ n \in Nat /\ n + 1 # 0 /\ (n + 1) - 1 = n
      BY <1>1
    <3>2. \A o : o \in paths[n] <=> Simple(o, lines, a) /\ Len(o) = n
      BY <3>1
    <3>3. paths[n + 1] = next(paths[n])
      BY <3>1, <1>4
    <3>4. q \in paths[n + 1] <=> \E o \in paths[n] : \E l \in On(o, lines, a) :
                                   q = Append(o, l)
      BY <3>3, <1>3 DEF next
    <3>5. ASSUME q \in paths[n + 1] PROVE Simple(q, lines, a) /\ Len(q) = n + 1
      <4>1. PICK o : /\ Simple(o, lines, a) /\ Len(o) = n
                     /\ \E l \in On(o, lines, a) : q = Append(o, l)
        BY <3>2, <3>4, <3>5
      <4> QED
        BY <4>1, SimpleAppend
    <3>6. ASSUME Simple(q, lines, a), Len(q) = n + 1 PROVE q \in paths[n + 1]
      <4>1. \E o : /\ Simple(o, lines, a) /\ Len(o) + 1 = Len(q)
                   /\ \E l \in On(o, lines, a) : q = Append(o, l)
        BY <3>1, <3>6, SimpleFront
      <4>2. PICK o : /\ Simple(o, lines, a) /\ Len(o) + 1 = Len(q)
                     /\ \E l \in On(o, lines, a) : q = Append(o, l)
        BY <4>1
      <4>3. Len(o) = n
        BY <3>1, <3>6, <4>2 DEF Simple
      <4> QED
        BY <4>2, <4>3, <3>2, <3>4
    <3> QED
      BY <3>5, <3>6
  <2>3. S = Nat
    <3>1. S \in SUBSET Nat
      OBVIOUS
    <3> HIDE DEF S
    <3> QED
      BY <2>1, <2>2, <3>1, SetInduction
  <2> QED
    BY <2>3, <1>1
<1>6. p \in UNION {paths[n] : n \in 1..M} <=> Simple(p, lines, a) /\ Len(p) \in 1..M
  <2>1. \A n \in 1..M : n \in 0..M
    BY <1>1
  <2> QED
    BY <1>5, <2>1
<1>7. Simple(p, lines, a) => Len(p) \in Nat /\ Len(p) <= M /\ (p = <<>> <=> Len(p) = 0)
  BY SimpleIsShort DEF Simple, M
<1>8. Simple(p, lines, a) /\ Len(p) # 0 => Search!Last(p, a) = End(p[Len(p)])
  BY <1>7 DEF Search!Last, End
<1>9. Simple(p, lines, a) => (Len(p) \in 1..M <=> Len(p) # 0)
  BY <1>1, <1>7
<1> QED
  BY <1>2, <1>6, <1>8, <1>9 DEF SimpleTo

\* A path is as long as its lines together.
Sums(s, p) ==
    /\ s \in [0..Len(p) -> Nat] /\ s[0] = 0
    /\ \A i \in 1..Len(p) : s[i] = s[i - 1] + Length[p[i]]

LEMMA LengthIsSum ==
    ASSUME NEW p \in Seq(Line)
    PROVE  \E s : Sums(s, p) /\ Search!LengthOf(p) = s[Len(p)]
<1> DEFINE N == Len(p)
           sum[i \in 0..N] == IF i = 0 THEN 0 ELSE sum[i - 1] + Length[p[i]]
<1>1. N \in Nat /\ \A i \in 1..N : Length[p[i]] \in Nat
  BY GraphAssumption
<1>2. Search!LengthOf(p) = sum[N]
  BY DEF Search!LengthOf
<1> HIDE DEF N
<1>3. sum = [i \in 0..N |-> IF i = 0 THEN 0 ELSE sum[i - 1] + Length[p[i]]]
  <2> DEFINE fits(g, k) == g = [n \in 0..k |-> IF n = 0 THEN 0
                                               ELSE g[n - 1] + Length[p[n]]]
             S == {k \in Nat : \E g : fits(g, k)}
  <2>1. 0 \in S
    <3> DEFINE g == [n \in 0..0 |-> 0]
    <3>1. g = [n \in 0..0 |-> IF n = 0 THEN 0 ELSE g[n - 1] + Length[p[n]]]
      OBVIOUS
    <3> HIDE DEF g
    <3> QED
      BY <3>1
  <2>2. ASSUME NEW k \in S PROVE k + 1 \in S
    <3>1. PICK g : fits(g, k)
      OBVIOUS
    <3> DEFINE h == [n \in 0..(k + 1) |-> IF n <= k THEN g[n]
                                          ELSE g[k] + Length[p[k + 1]]]
    <3>2. ASSUME NEW n \in 0..(k + 1)
          PROVE  h[n] = IF n = 0 THEN 0 ELSE h[n - 1] + Length[p[n]]
      <4>1. n # 0 => n - 1 \in 0..(k + 1) /\ h[n - 1] = g[n - 1]
        OBVIOUS
      <4>2. n <= k => g[n] = IF n = 0 THEN 0 ELSE g[n - 1] + Length[p[n]]
        <5>1. n <= k => n \in 0..k
          OBVIOUS
        <5>2. \A i \in 0..k : g[i] = IF i = 0 THEN 0 ELSE g[i - 1] + Length[p[i]]
          BY <3>1
        <5> QED
          BY <5>1, <5>2
      <4>3. h[n] = IF n <= k THEN g[n] ELSE g[k] + Length[p[k + 1]]
        OBVIOUS
      <4>4. ~(n <= k) => n - 1 = k /\ n = k + 1 /\ n # 0
        OBVIOUS
      <4> HIDE DEF h
      <4> QED
        BY <4>1, <4>2, <4>3, <4>4
    <3>3. h = [n \in 0..(k + 1) |-> IF n = 0 THEN 0 ELSE h[n - 1] + Length[p[n]]]
      BY <3>2
    <3>4. k + 1 \in Nat
      OBVIOUS
    <3> HIDE DEF h
    <3> QED
      BY <3>3, <3>4
  <2>3. S = Nat
    <3>1. S \in SUBSET Nat
      OBVIOUS
    <3> HIDE DEF S
    <3> QED
      BY <2>1, <2>2, <3>1, SetInduction
  <2>4. \E g : g = [i \in 0..N |-> IF i = 0 THEN 0 ELSE g[i - 1] + Length[p[i]]]
    BY <2>3, <1>1
  <2> QED
    BY <2>4
<1> HIDE DEF sum
<1>4. \A i \in 0..N : sum[i] = IF i = 0 THEN 0 ELSE sum[i - 1] + Length[p[i]]
  BY <1>3
<1>5. \A i \in 0..N : sum[i] \in Nat
  <2> DEFINE S == {n \in Nat : n \in 0..N => sum[n] \in Nat}
  <2>1. 0 \in S
    BY <1>4
  <2>2. ASSUME NEW n \in S PROVE n + 1 \in S
    <3> SUFFICES ASSUME n + 1 \in 0..N PROVE sum[n + 1] \in Nat
      OBVIOUS
    <3>1. n \in 0..N /\ n + 1 \in 1..N /\ n + 1 # 0 /\ (n + 1) - 1 = n
      BY <1>1
    <3>2. sum[n + 1] = sum[n] + Length[p[n + 1]]
      BY <3>1, <1>4
    <3> QED
      BY <3>1, <3>2, <1>1
  <2>3. S = Nat
    <3>1. S \in SUBSET Nat
      OBVIOUS
    <3> HIDE DEF S
    <3> QED
      BY <2>1, <2>2, <3>1, SetInduction
  <2> QED
    BY <2>3
<1>6. Sums(sum, p)
  <2>1. sum \in [0..N -> Nat]
    BY <1>3, <1>5
  <2>2. sum[0] = 0 /\ \A i \in 1..N : sum[i] = sum[i - 1] + Length[p[i]]
    <3>1. 0 \in 0..N /\ \A i \in 1..N : i \in 0..N /\ i # 0
      BY <1>1
    <3> QED
      BY <3>1, <1>4
  <2> QED
    BY <2>1, <2>2 DEF Sums, N
<1> QED
  BY <1>2, <1>6 DEF N

-----------------------------------------------------------------------------
(* Types *)

SearchTypeOK ==
    /\ goal \in {"path", "halt"}
    /\ phase \in {"ask", "search", "trace", "done", "pick", "found"}
    /\ from \in Station /\ to \in Station
    /\ color \in [Line -> {"white", "gray", "black"}]
    /\ dist \in [Line -> Nat] /\ father \in [Line -> Line \cup {0}]
    /\ Q \in SUBSET Line /\ index \in Line \cup {0}
    /\ distance \in Nat /\ result \in Seq(Line)
    /\ halts \in SUBSET HaltStations /\ halt \in HaltStations \cup {0}
    /\ nearest \in Nat
    /\ goal = "halt" /\ phase \notin {"pick", "found"} => from \in HaltStations
    /\ phase \in {"pick", "found"} => goal = "halt"

LEMMA Lengths ==
    /\ Infinity \in Nat /\ \A l \in Line : Length[l] \in Nat /\ Length[l] > 0
    /\ \A l \in Line : Start(l) \in Station /\ End(l) \in Station
    /\ HaltStations \subseteq Station /\ 0 \notin Line /\ 0 \notin Station
BY GraphAssumption, GraphAssumption DEF Start, End, HaltStations

LEMMA SearchTypesInit == SearchInit => SearchTypeOK
BY Lengths DEF SearchInit, SearchTypeOK

LEMMA SearchTypesNext == SearchTypeOK /\ [SearchNext]_pathVars => SearchTypeOK'
<1> SUFFICES ASSUME SearchTypeOK, [SearchNext]_pathVars PROVE SearchTypeOK'
  OBVIOUS
<1> USE DEF askVars, searchVars, haltVars
<1>1. ASSUME Refuse \/ There PROVE SearchTypeOK'
  <2>1. /\ phase = "ask" /\ phase' = "done" /\ distance' \in Nat /\ result' = <<>>
        /\ UNCHANGED <<goal, to, from, color, dist, father, Q, index, halts, halt, nearest>>
    BY <1>1, Lengths DEF Refuse, There
  <2>2. result' \in Seq(Line)
    BY <2>1
  <2> QED
    BY <2>1, <2>2 DEF SearchTypeOK
<1>2. ASSUME Enter PROVE SearchTypeOK'
  <2> DEFINE first == {l \in Allowed : Start(l) = from} \ Blocked
  <2>1. first \subseteq Line
    BY DEF Allowed
  <2>2. /\ phase = "ask" /\ phase' = "search" /\ Q' = first
        /\ color' = [l \in Line |-> IF l \in Blocked THEN "black"
                                    ELSE IF l \in first THEN "gray" ELSE "white"]
        /\ dist' = [l \in Line |-> IF l \in first THEN Length[l] ELSE Infinity]
        /\ father' = [l \in Line |-> 0]
        /\ UNCHANGED <<goal, to, from, index, distance, result, halts, halt, nearest>>
    BY <1>2 DEF Enter
  <2> HIDE DEF first
  <2>3. color' \in [Line -> {"white", "gray", "black"}]
    BY <2>2
  <2>4. dist' \in [Line -> Nat] /\ father' \in [Line -> Line \cup {0}]
    BY <2>2, Lengths
  <2> QED
    BY <2>1, <2>2, <2>3, <2>4 DEF SearchTypeOK
<1>3. ASSUME NEW l \in Line, Relax(l) PROVE SearchTypeOK'
  <2> DEFINE ms == Improved(l)
  <2>1. ms \subseteq Line
    BY DEF Improved, Adjacent
  <2>2. /\ color' = [m \in Line |-> IF m = l THEN "black"
                                    ELSE IF m \in ms THEN "gray" ELSE color[m]]
        /\ dist' = [m \in Line |-> IF m \in ms THEN dist[l] + Length[m] ELSE dist[m]]
        /\ father' = [m \in Line |-> IF m \in ms THEN l ELSE father[m]]
        /\ Q' = (Q \cup ms) \ {l}
        /\ UNCHANGED <<phase, goal, to, from, index, distance, result, halts, halt, nearest>>
    BY <1>3 DEF Relax, Requeue
  <2> HIDE DEF ms
  <2>3. \A m \in Line : dist[l] + Length[m] \in Nat /\ dist[m] \in Nat
    BY Lengths DEF SearchTypeOK
  <2>4. dist' \in [Line -> Nat] /\ father' \in [Line -> Line \cup {0}]
    BY <2>2, <2>3 DEF SearchTypeOK
  <2>5. color' \in [Line -> {"white", "gray", "black"}] /\ Q' \in SUBSET Line
    BY <2>1, <2>2 DEF SearchTypeOK
  <2> QED
    BY <2>2, <2>4, <2>5 DEF SearchTypeOK
<1>4. ASSUME Choose PROVE SearchTypeOK'
  <2>1. /\ phase = "search" /\ phase' = "trace" /\ result' = <<>>
        /\ UNCHANGED <<goal, to, from, color, dist, father, Q, halts, halt, nearest>>
    BY <1>4 DEF Choose
  <2>2. \/ index' = 0 /\ distance' = Infinity
        \/ \E l \in Line : index' = l /\ distance' = dist[l]
    BY <1>4 DEF Choose
  <2>3. index' \in Line \cup {0} /\ distance' \in Nat /\ result' \in Seq(Line)
    BY <2>1, <2>2, Lengths DEF SearchTypeOK
  <2> QED
    BY <2>1, <2>3 DEF SearchTypeOK
<1>5. ASSUME Trace PROVE SearchTypeOK'
  <2>1. index \in Line /\ result' = <<index>> \o result /\ index' = father[index]
    BY <1>5 DEF Trace, SearchTypeOK
  <2>2. result' \in Seq(Line) /\ index' \in Line \cup {0}
    BY <2>1 DEF SearchTypeOK
  <2> QED
    BY <1>5, <2>2 DEF Trace, SearchTypeOK
<1>6. ASSUME Traced \/ KeepHalt \/ Found PROVE SearchTypeOK'
  <2>1. CASE Traced \/ Found
    BY <2>1 DEF Traced, Found, SearchTypeOK
  <2>2. CASE KeepHalt
    <3>1. from \in HaltStations
      BY <2>2 DEF KeepHalt, SearchTypeOK
    <3> QED
      BY <2>2, <3>1 DEF KeepHalt, SearchTypeOK
  <2> QED
    BY <1>6, <2>1, <2>2
<1>7. ASSUME NEW h \in halts, SkipHalt(h) \/ TryHalt(h) PROVE SearchTypeOK'
  BY <1>7, Lengths DEF SkipHalt, TryHalt, SearchTypeOK
<1>8. ASSUME UNCHANGED pathVars PROVE SearchTypeOK'
  BY <1>8 DEF pathVars, SearchTypeOK
<1> QED
  BY <1>1, <1>2, <1>3, <1>4, <1>5, <1>6, <1>7, <1>8 DEF SearchNext

-----------------------------------------------------------------------------
(* The search, line by line *)

Searching == phase \in {"search", "trace"}

\* The line a labelled line is reached by.
ByFather(l) ==
    IF father[l] = 0
      THEN Start(l) = from /\ dist[l] = Length[l]
      ELSE /\ l \in Adjacent(father[l])
           /\ color[father[l]] = "black"
           /\ Labelled(father[l])
           /\ dist[l] = dist[father[l]] + Length[l]
Done(l) == Labelled(l) /\ color[l] = "black"

\* What holds of all lines while the search goes on.
Tree == \A l \in Line : Labelled(l) => ByFather(l)
Ordered == \A l \in Line, m \in Q : Done(l) => dist[l] <= dist[m]
Marked ==
    /\ Q = {l \in Line : color[l] = "gray"}
    /\ \A l \in Line \cap Blocked : color[l] = "black"
    /\ \A l \in Line : /\ ~Labelled(l) => dist[l] = Infinity
                       /\ Labelled(l) => l \in Allowed
\* A line out of the start is reached by no other.
Firsts == \A l \in Allowed \ Blocked : Start(l) = from => Labelled(l) /\ father[l] = 0
\* What is next to a line that is done has been reached.
Closed == \A l \in Line : Done(l) =>
              \A m \in (Adjacent(l) \cap Allowed) \ Blocked :
                  Labelled(m) /\ dist[m] <= dist[l] + Length[m]
FrontierInv ==
    Searching => /\ from # to /\ Open
                 /\ Tree /\ Ordered /\ Marked /\ Firsts /\ Closed

LEMMA FrontierIs == FrontierInv => FrontierExact
BY DEF FrontierInv, FrontierExact, Searching, Tree, Ordered, Marked, ByFather, Done

\* What the question is does not change while it is answered.
SameQuestion == UNCHANGED <<mapVars, askVars, from>>
LEMMA QuestionKept ==
    ASSUME SameQuestion
    PROVE  Blocked' = Blocked /\ Allowed' = Allowed /\ Open' = Open
<1> USE DEF SameQuestion, mapVars, askVars
<1>1. Blocked' = Blocked
  BY DEF Blocked, OthersAmong
<1>2. UturnPoints(from, to)' = UturnPoints(from, to)
  BY DEF UturnPoints
<1>3. \A l, u : Passable(l, agv, u)' = Passable(l, agv, u)
  BY DEF Passable, OthersAmong, StationFree, GroupFree
<1>4. Allowed' = Allowed
  BY <1>2, <1>3 DEF Allowed
<1>5. Open' = Open
  BY DEF Open, StationFree
<1> QED
  BY <1>1, <1>4, <1>5

LEMMA FrontierEnter ==
    ASSUME SearchTypeOK, Enter
    PROVE  FrontierInv'
<1> DEFINE first == {l \in Allowed : Start(l) = from} \ Blocked
<1>1. /\ Q' = first /\ from # to /\ Open
      /\ color' = [l \in Line |-> IF l \in Blocked THEN "black"
                                  ELSE IF l \in first THEN "gray" ELSE "white"]
      /\ dist' = [l \in Line |-> IF l \in first THEN Length[l] ELSE Infinity]
      /\ father' = [l \in Line |-> 0] /\ UNCHANGED <<from, to>>
  BY DEF Enter, askVars
<1>2. Blocked' = Blocked /\ Allowed' = Allowed /\ Open' = Open
  BY QuestionKept DEF Enter, SameQuestion
<1>3. first \subseteq Line /\ \A l \in first : Start(l) = from /\ l \in Allowed /\ l \notin Blocked
  BY DEF Allowed
<1>4. \A l \in Allowed \ Blocked : Start(l) = from => l \in first
  OBVIOUS
<1> HIDE DEF first
<1>5. \A l \in Line : Labelled(l)' <=> l \in first
  BY <1>1, <1>2, <1>3 DEF Labelled
<1>6. \A l \in Line : ~Done(l)'
  BY <1>1, <1>3, <1>5 DEF Done
<1>7. Tree'
  BY <1>1, <1>3, <1>5 DEF Tree, ByFather
<1>8. Ordered' /\ Closed'
  BY <1>6 DEF Ordered, Closed
<1>9. Marked'
  BY <1>1, <1>2, <1>3, <1>5 DEF Marked
<1>10. Firsts'
  <2>1. \A l \in Allowed : l \in Line
    BY DEF Allowed
  <2> QED
    BY <1>1, <1>2, <1>4, <1>5, <2>1 DEF Firsts
<1> QED
  BY <1>1, <1>2, <1>7, <1>8, <1>9, <1>10 DEF FrontierInv

\* One round of the search.
LEMMA FrontierRelax ==
    ASSUME SearchTypeOK, FrontierInv, NEW l \in Line, Relax(l)
    PROVE  FrontierInv'
<1> DEFINE ms == Improved(l)
<1>1. /\ l \in Q /\ \A m \in Q : dist[l] <= dist[m]
      /\ color' = [m \in Line |-> IF m = l THEN "black"
                                  ELSE IF m \in ms THEN "gray" ELSE color[m]]
      /\ dist' = [m \in Line |-> IF m \in ms THEN dist[l] + Length[m] ELSE dist[m]]
      /\ father' = [m \in Line |-> IF m \in ms THEN l ELSE father[m]]
      /\ Q' = (Q \cup ms) \ {l} /\ UNCHANGED <<from, to, phase>>
  BY DEF Relax, IsFront, Requeue, askVars
<1>2. Blocked' = Blocked /\ Allowed' = Allowed /\ Open' = Open
  BY QuestionKept DEF Relax, SameQuestion
<1>3. /\ from # to /\ Open /\ Tree /\ Ordered /\ Marked /\ Firsts /\ Closed
  BY DEF FrontierInv, Searching, Relax
<1>4. /\ \A m \in ms : /\ m \in Line /\ m # l /\ m \in Adjacent(l) /\ m \in Allowed
                       /\ \/ color[m] = "white"
                          \/ color[m] = "gray" /\ dist[m] > dist[l] + Length[m]
      /\ \A m \in (Adjacent(l) \cap Allowed) \ ms :
            /\ color[m] # "white"
            /\ color[m] = "gray" => ~(dist[m] > dist[l] + Length[m])
  <2>1. \A m \in Adjacent(l) : m \in Line /\ m # l
    BY DEF Adjacent
  <2>2. \A m : m \in ms <=> /\ m \in Adjacent(l) /\ m \in Allowed
                            /\ \/ color[m] = "white"
                               \/ color[m] = "gray" /\ dist[m] > dist[l] + Length[m]
    BY DEF Improved
  <2> HIDE DEF ms
  <2> QED
    BY <2>1, <2>2
<1> HIDE DEF ms
<1>5. \A m \in Line : /\ dist[m] \in Nat /\ dist'[m] \in Nat /\ Length[m] \in Nat
                      /\ dist[l] + Length[m] \in Nat /\ color[m] \in {"white", "gray", "black"}
  BY <1>1, Lengths DEF SearchTypeOK
<1>6. \A m \in ms : m \notin Blocked /\ color[m] # "black"
  BY <1>3, <1>4 DEF Marked
<1>7. color[l] = "gray" /\ l \notin Blocked /\ l \notin ms /\ Labelled(l)
  BY <1>1, <1>3, <1>4 DEF Marked, Labelled
<1>8. \A m \in Line : Labelled(m)' <=> Labelled(m) \/ m \in ms
  BY <1>1, <1>2, <1>6, <1>7 DEF Labelled
<1>9. \A m \in Line : /\ Done(m)' <=> Done(m) \/ m = l
                      /\ Done(m)' => m \notin ms
  BY <1>1, <1>4, <1>6, <1>7, <1>8 DEF Done, Labelled
<1>10. \A m \in Line : /\ m \in ms => /\ color'[m] = "gray" /\ father'[m] = l
                                      /\ dist'[m] = dist[l] + Length[m]
                       /\ m \notin ms => father'[m] = father[m] /\ dist'[m] = dist[m]
                       /\ m \notin ms /\ m # l => color'[m] = color[m]
  BY <1>1, <1>4
<1>11. ASSUME NEW m \in Line, Labelled(m)' PROVE ByFather(m)'
  <2>1. CASE m \in ms
    <3>1. l # 0 /\ Labelled(l)' /\ color'[l] = "black" /\ dist'[l] = dist[l]
      BY <1>1, <1>7, <1>8, <1>10, Lengths
    <3> QED
      BY <2>1, <3>1, <1>4, <1>10 DEF ByFather
  <2>2. CASE m \notin ms
    <3>1. ByFather(m) /\ father'[m] = father[m] /\ dist'[m] = dist[m]
      BY <2>2, <1>3, <1>8, <1>10, <1>11 DEF Tree
    <3>2. CASE father[m] = 0
      BY <1>1, <3>1, <3>2 DEF ByFather
    <3>3. CASE father[m] # 0
      <4>1. father[m] \in Line /\ Done(father[m])
        BY <3>1, <3>3 DEF ByFather, SearchTypeOK, Done
      <4>2. Done(father[m])' /\ dist'[father[m]] = dist[father[m]]
        BY <4>1, <1>9, <1>10
      <4> QED
        BY <3>1, <3>3, <4>2 DEF ByFather, Done
    <3> QED
      BY <3>2, <3>3
  <2> QED
    BY <2>1, <2>2
<1>12. ASSUME NEW k \in Line, NEW m \in Q', Done(k)' PROVE dist'[k] <= dist'[m]
  <2>1. dist'[k] = dist[k] /\ dist[k] <= dist[l] /\ k \in Line
    BY <1>1, <1>3, <1>5, <1>9, <1>10, <1>12 DEF Ordered
  <2>2. m \in Line /\ dist[l] <= dist'[m]
    <3>1. CASE m \in ms
      BY <3>1, <1>4, <1>5, <1>10
    <3>2. CASE m \notin ms
      <4>1. m \in Q
        BY <3>2, <1>1
      <4> QED
        BY <3>2, <4>1, <1>1, <1>10 DEF SearchTypeOK
    <3> QED
      BY <3>1, <3>2
  <2> QED
    BY <2>1, <2>2, <1>5
<1>13. Marked'
  <2>1. Q' = {m \in Line : color'[m] = "gray"}
    BY <1>1, <1>3, <1>4, <1>7, <1>10 DEF Marked
  <2>2. \A m \in Line \cap Blocked : color'[m] = "black"
    BY <1>1, <1>3, <1>6, <1>7, <1>10 DEF Marked
  <2>3. \A m \in Line : /\ ~Labelled(m)' => dist'[m] = Infinity
                        /\ Labelled(m)' => m \in Allowed
    BY <1>3, <1>4, <1>8, <1>10 DEF Marked
  <2> QED
    BY <1>2, <2>1, <2>2, <2>3 DEF Marked
<1>14. Firsts'
  <2>1. ASSUME NEW m \in Allowed \ Blocked, Start(m) = from
        PROVE  Labelled(m)' /\ father'[m] = 0
    <3>1. m \in Line
      BY DEF Allowed
    <3>2. Labelled(m) /\ father[m] = 0 /\ ByFather(m)
      BY <1>3, <2>1, <3>1 DEF Firsts, Tree
    <3>3. dist[m] = Length[m] /\ color[m] # "white"
      BY <3>2 DEF ByFather, Labelled
    <3>4. m \notin ms
      BY <1>4, <1>5, <3>1, <3>3
    <3> QED
      BY <1>8, <1>10, <3>1, <3>2, <3>4
  <2> QED
    BY <1>1, <1>2, <2>1 DEF Firsts
<1>15. Closed'
  <2>1. ASSUME NEW k \in Line, Done(k)', NEW m \in (Adjacent(k) \cap Allowed) \ Blocked
        PROVE  Labelled(m)' /\ dist'[m] <= dist'[k] + Length[m]
    <3>1. m \in Line /\ dist'[k] = dist[k]
      BY <1>9, <1>10, <2>1 DEF Adjacent
    <3>2. CASE k = l
      <4>1. CASE m \in ms
        BY <3>1, <3>2, <4>1, <1>5, <1>8, <1>10
      <4>2. CASE m \notin ms
        <5>1. Labelled(m) /\ dist'[m] = dist[m]
          BY <3>1, <3>2, <4>2, <1>4, <1>10, <2>1 DEF Labelled
        <5>2. color[m] = "gray" => dist[m] <= dist[l] + Length[m]
          BY <3>1, <3>2, <4>2, <1>4, <1>5, <2>1
        <5>3. color[m] = "black" => dist[m] <= dist[l]
          BY <1>1, <1>3, <3>1, <5>1 DEF Ordered, Done
        <5>4. color[m] \in {"gray", "black"}
          BY <1>5, <3>1, <5>1 DEF Labelled
        <5> QED
          BY <3>1, <3>2, <5>1, <5>2, <5>3, <5>4, <1>5, <1>8
      <4> QED
        BY <4>1, <4>2
    <3>3. CASE k # l
      <4>1. Labelled(m) /\ dist[m] <= dist[k] + Length[m]
        BY <3>3, <1>3, <1>9, <2>1 DEF Closed
      <4>2. dist'[m] <= dist[m]
        BY <3>1, <4>1, <1>4, <1>5, <1>10 DEF Labelled
      <4> QED
        BY <3>1, <4>1, <4>2, <1>5, <1>8
    <3> QED
      BY <3>2, <3>3
  <2> QED
    BY <1>2, <2>1 DEF Closed
<1>16. Tree' /\ Ordered'
  BY <1>11, <1>12 DEF Tree, Ordered
<1> QED
  BY <1>1, <1>2, <1>3, <1>13, <1>14, <1>15, <1>16 DEF FrontierInv

\* The labels stay while the answer is traced back.
LEMMA FrontierKept ==
    ASSUME FrontierInv, SameQuestion, UNCHANGED <<color, dist, father, Q>>,
           Searching' => Searching
    PROVE  FrontierInv'
<1>1. Blocked' = Blocked /\ Allowed' = Allowed /\ Open' = Open
  BY QuestionKept
<1>2. UNCHANGED <<from, to>>
  BY DEF SameQuestion, askVars
<1>3. \A l : (Labelled(l)' <=> Labelled(l)) /\ (Done(l)' <=> Done(l))
  BY <1>1 DEF Labelled, Done
<1>4. \A l : ByFather(l)' <=> ByFather(l)
  BY <1>2, <1>3 DEF ByFather
<1>5. /\ Tree => Tree'
      /\ Ordered => Ordered'
      /\ Closed => Closed'
  BY <1>1, <1>3, <1>4 DEF Tree, Ordered, Closed
<1>6. Marked => Marked'
  BY <1>1, <1>3 DEF Marked
<1>7. Firsts => Firsts'
  BY <1>1, <1>2, <1>3 DEF Firsts
<1> QED
  BY <1>1, <1>2, <1>5, <1>6, <1>7 DEF FrontierInv

LEMMA FrontierNext ==
    ASSUME SearchTypeOK, FrontierInv, [SearchNext]_pathVars
    PROVE  FrontierInv'
<1> USE DEF searchVars, haltVars
<1>1. ASSUME Refuse \/ There \/ Traced PROVE FrontierInv'
  BY <1>1 DEF Refuse, There, Traced, FrontierInv, Searching
<1>2. ASSUME Choose \/ Trace PROVE FrontierInv'
  BY <1>2, FrontierKept DEF Choose, Trace, Searching, SameQuestion
<1>3. ASSUME KeepHalt \/ Found PROVE FrontierInv'
  BY <1>3 DEF KeepHalt, Found, FrontierInv, Searching
<1>4. ASSUME NEW h \in halts, SkipHalt(h) \/ TryHalt(h) PROVE FrontierInv'
  BY <1>4 DEF SkipHalt, TryHalt, FrontierInv, Searching
<1>5. ASSUME UNCHANGED pathVars PROVE FrontierInv'
  BY <1>5, FrontierKept DEF pathVars, Searching, SameQuestion
<1> QED
  BY <1>1, <1>2, <1>3, <1>4, <1>5, FrontierEnter, FrontierRelax DEF SearchNext

-----------------------------------------------------------------------------
(* Tracing the answer back *)

\* No line into its end is nearer; the search did not come back to its start.
NearestLines ==
    {l \in Line : /\ Labelled(l) /\ End(l) # from
                  /\ \A m \in Line : Labelled(m) /\ End(m) = End(l) => dist[l] <= dist[m]}

Searched == phase = "trace" /\ Q = {}
Into == {l \in Line : End(l) = to /\ dist[l] < Infinity}
NoWayBack == Into = {} /\ index = 0 /\ result = <<>> /\ distance = Infinity
LastLine == IF Len(result) = 0 THEN index ELSE result[Len(result)]
Traceable ==
    /\ LastLine # 0 /\ End(LastLine) = to /\ dist[LastLine] = distance
    /\ index # 0 => index \in NearestLines
    /\ \A i \in 1..Len(result) :
         /\ result[i] \in NearestLines
         /\ father[result[i]] = IF i = 1 THEN index ELSE result[i - 1]
         /\ index # 0 => dist[index] < dist[result[i]]
    /\ \A i, j \in 1..Len(result) : i < j => dist[result[i]] < dist[result[j]]
TraceInv == phase = "trace" => Q = {} /\ (NoWayBack \/ Traceable)

\* When the search is over every line that was reached is done.
LEMMA AllDone ==
    ASSUME SearchTypeOK, FrontierInv, Searched
    PROVE  /\ Tree /\ Firsts /\ Closed /\ Marked /\ from # to /\ Open
           /\ \A l \in Line : Labelled(l) => Done(l)
<1>1. Tree /\ Firsts /\ Closed /\ Marked /\ from # to /\ Open
  BY DEF FrontierInv, Searching, Searched
<1>2. \A l \in Line : color[l] # "gray"
  BY <1>1 DEF Marked, Searched
<1>3. \A l \in Line : color[l] \in {"white", "gray", "black"}
  BY DEF SearchTypeOK
<1> QED
  BY <1>1, <1>2, <1>3 DEF Done, Labelled

\* The father of a nearest line is a nearest line: if a nearer one into its end
\* could not go on to the line, as that would be straight back, the line's own
\* end would have been reached before.
LEMMA FatherNearest ==
    ASSUME SearchTypeOK, FrontierInv, Searched, NEW l \in NearestLines, father[l] # 0
    PROVE  father[l] \in NearestLines /\ dist[father[l]] < dist[l]
<1> DEFINE f == father[l]
<1>1. /\ l \in Line /\ Labelled(l) /\ End(l) # from
      /\ \A m \in Line : Labelled(m) /\ End(m) = End(l) => dist[l] <= dist[m]
  BY DEF NearestLines
<1>2. /\ Tree /\ Firsts /\ Closed /\ Marked /\ \A m \in Line : Labelled(m) => Done(m)
  BY AllDone
<1>3. \A m \in Line : dist[m] \in Nat /\ Length[m] \in Nat /\ Length[m] > 0
  BY Lengths DEF SearchTypeOK
<1>4. f \in Line /\ Labelled(f) /\ l \in Adjacent(f) /\ dist[l] = dist[f] + Length[l]
  BY <1>1, <1>2 DEF Tree, ByFather, SearchTypeOK
<1>5. End(f) = Start(l) /\ dist[f] < dist[l]
  BY <1>1, <1>3, <1>4 DEF Adjacent
<1>6. l \in Allowed \ Blocked
  BY <1>1, <1>2 DEF Marked, Labelled
<1>7. Start(l) # from
  BY <1>2, <1>6 DEF Firsts
<1> HIDE DEF f
<1>8. ASSUME NEW n \in Line, Labelled(n), End(n) = End(f), dist[n] < dist[f] PROVE FALSE
  <2>1. Done(n) /\ ByFather(n)
    BY <1>2, <1>8 DEF Tree
  <2>2. CASE l \in Adjacent(n)
    <3>1. dist[l] <= dist[n] + Length[l]
      BY <1>2, <1>6, <2>1, <2>2 DEF Closed
    <3> QED
      BY <3>1, <1>1, <1>3, <1>4, <1>8
  <2>3. CASE l = n
    BY <2>3, <1>1, <1>3, <1>4, <1>5, <1>8
  <2>4. CASE l # n /\ l \notin Adjacent(n)
    <3>1. Start(n) = End(l)
      BY <2>4, <1>1, <1>5, <1>8 DEF Adjacent
    <3>2. father[n] # 0
      BY <3>1, <1>1, <2>1 DEF ByFather
    <3>3. /\ father[n] \in Line /\ Labelled(father[n]) /\ n \in Adjacent(father[n])
          /\ dist[n] = dist[father[n]] + Length[n]
      BY <2>1, <3>2 DEF ByFather, SearchTypeOK
    <3>4. End(father[n]) = End(l)
      BY <3>1, <3>3 DEF Adjacent
    <3>5. dist[l] <= dist[father[n]]
      BY <1>1, <3>3, <3>4
    <3> QED
      BY <3>3, <3>5, <1>1, <1>3, <1>4, <1>5, <1>8
  <2> QED
    BY <2>2, <2>3, <2>4
<1>9. \A m \in Line : Labelled(m) /\ End(m) = End(f) => dist[f] <= dist[m]
  BY <1>3, <1>4, <1>8
<1> QED
  BY <1>4, <1>5, <1>7, <1>9 DEF NearestLines, f

LEMMA TraceChoose ==
    ASSUME SearchTypeOK, FrontierInv, Choose
    PROVE  TraceInv'
<1>1. /\ phase = "search" /\ Q = {} /\ Q' = {} /\ result' = <<>> /\ UNCHANGED <<from, to, color, dist, father>>
      /\ SameQuestion
  BY DEF Choose, askVars, SameQuestion
<1>2. Blocked' = Blocked
  BY <1>1, QuestionKept
<1>3. \A l : Labelled(l)' <=> Labelled(l)
  BY <1>1, <1>2 DEF Labelled
<1>4. Marked /\ from # to
  BY <1>1 DEF FrontierInv, Searching
<1>5. CASE Into = {}
  <2>1. index' = 0 /\ distance' = Infinity
    BY <1>5 DEF Choose, Into
  <2>2. Into' = {}
    BY <1>1, <1>5 DEF Into
  <2> QED
    BY <1>1, <2>1, <2>2 DEF TraceInv, NoWayBack
<1>6. CASE Into # {}
  <2>1. PICK l \in Into : IsNearest(l, Into) /\ index' = l /\ distance' = dist[l]
    BY <1>6 DEF Choose, Into
  <2>2. /\ l \in Line /\ l # 0 /\ End(l) = to /\ dist[l] < Infinity
        /\ \A m \in Into : dist[l] <= dist[m]
    BY <2>1, Lengths DEF Into, IsNearest
  <2>3. Labelled(l)
    BY <2>2, <1>4, Lengths DEF Marked
  <2>4. \A m \in Line : End(m) = to => dist[l] <= dist[m]
    <3>1. \A m \in Line : dist[m] \in Nat
      BY DEF SearchTypeOK
    <3>2. \A m \in Line : End(m) = to /\ m \notin Into => ~(dist[m] < Infinity)
      BY DEF Into
    <3> QED
      BY <2>2, <3>1, <3>2, Lengths
  <2>5. l \in NearestLines'
    BY <1>1, <1>3, <1>4, <2>2, <2>3, <2>4 DEF NearestLines
  <2>6. Len(result') = 0
    BY <1>1
  <2>7. LastLine' = l
    BY <2>1, <2>6 DEF LastLine
  <2>8. Traceable'
    BY <1>1, <2>1, <2>2, <2>5, <2>6, <2>7 DEF Traceable
  <2> QED
    BY <1>1, <2>8 DEF TraceInv
<1> QED
  BY <1>5, <1>6

LEMMA TraceStep ==
    ASSUME SearchTypeOK, FrontierInv, TraceInv, Trace
    PROVE  TraceInv'
<1>1. /\ phase = "trace" /\ Q = {} /\ Q' = {} /\ index # 0 /\ result' = <<index>> \o result
      /\ index' = father[index] /\ distance' = distance
      /\ UNCHANGED <<from, to, color, dist, father>> /\ SameQuestion
  BY DEF Trace, askVars, SameQuestion, TraceInv
<1>2. Traceable
  BY <1>1 DEF TraceInv, NoWayBack
<1>3. Blocked' = Blocked
  BY <1>1, QuestionKept
<1>4. NearestLines' = NearestLines
  BY <1>1, <1>3 DEF NearestLines, Labelled
<1>5. index \in NearestLines /\ index \in Line
  BY <1>1, <1>2 DEF Traceable, NearestLines
<1>6. index' # 0 => index' \in NearestLines /\ dist[index'] < dist[index]
  BY <1>1, <1>5, FatherNearest DEF Searched
<1> DEFINE n == Len(result)
<1>7. n \in Nat /\ result \in Seq(Line)
  BY DEF SearchTypeOK
<1>8. /\ Len(result') = n + 1 /\ result'[1] = index
      /\ \A i \in 1..n : result'[i + 1] = result[i]
  BY <1>1, <1>5, <1>7
<1>9. \A i \in 1..(n + 1) : i = 1 \/ (i # 1 /\ i - 1 \in 1..n /\ result'[i] = result[i - 1])
  <2>1. ASSUME NEW i \in 1..(n + 1), i # 1
        PROVE  i - 1 \in 1..n /\ result'[i] = result[i - 1]
    <3>1. i - 1 \in 1..n /\ (i - 1) + 1 = i
      BY <1>7, <2>1
    <3> QED
      BY <1>8, <3>1
  <2> QED
    BY <2>1
<1> HIDE DEF n
<1>10. \A i \in 1..n : /\ result[i] \in NearestLines /\ dist[index] < dist[result[i]]
                       /\ father[result[i]] = IF i = 1 THEN index ELSE result[i - 1]
  BY <1>1, <1>2 DEF Traceable, n
<1>11. \A i \in 1..n : result[i] \in Line /\ dist[result[i]] \in Nat
  BY <1>7 DEF n, SearchTypeOK
<1>12. dist[index] \in Nat /\ (index' # 0 => dist[index'] \in Nat)
  BY <1>5, <1>6 DEF SearchTypeOK, NearestLines
<1>13. ASSUME NEW i \in 1..(n + 1)
       PROVE  /\ result'[i] \in NearestLines'
              /\ father'[result'[i]] = IF i = 1 THEN index' ELSE result'[i - 1]
              /\ index' # 0 => dist'[index'] < dist'[result'[i]]
  <2>1. CASE i = 1
    BY <2>1, <1>1, <1>4, <1>5, <1>6, <1>8
  <2>2. CASE i # 1
    <3>1. i - 1 \in 1..n /\ result'[i] = result[i - 1] /\ i - 1 \in 1..(n + 1)
      BY <2>2, <1>7, <1>9 DEF n
    <3>2. result'[i] \in NearestLines' /\ dist[index] < dist[result'[i]] /\ dist[result'[i]] \in Nat
      BY <3>1, <1>4, <1>10, <1>11
    <3>3. result'[i - 1] = IF i - 1 = 1 THEN index ELSE result[(i - 1) - 1]
      BY <3>1, <1>8, <1>9
    <3>4. father[result'[i]] = result'[i - 1]
      BY <3>1, <3>3, <1>10
    <3>5. index' # 0 => dist[index'] < dist[result'[i]]
      BY <3>2, <1>6, <1>12
    <3> QED
      BY <2>2, <3>2, <3>4, <3>5, <1>1
  <2> QED
    BY <2>1, <2>2
<1>14. ASSUME NEW i \in 1..(n + 1), NEW j \in 1..(n + 1), i < j
       PROVE  dist'[result'[i]] < dist'[result'[j]]
  <2>1. j # 1 /\ j - 1 \in 1..n /\ result'[j] = result[j - 1]
    BY <1>7, <1>9, <1>14 DEF n
  <2>2. CASE i = 1
    BY <2>1, <2>2, <1>1, <1>8, <1>10
  <2>3. CASE i # 1
    <3>1. i - 1 \in 1..n /\ result'[i] = result[i - 1] /\ i - 1 < j - 1
      BY <2>3, <1>7, <1>9, <1>14 DEF n
    <3> QED
      BY <2>1, <3>1, <1>1, <1>2 DEF Traceable, n
  <2> QED
    BY <2>2, <2>3
<1>15. LastLine' = LastLine
  <2>1. n + 1 \in 1..(n + 1) /\ (n + 1 # 1 => (n + 1) - 1 = n) /\ n + 1 # 0
    BY <1>7 DEF n
  <2>2. LastLine' = result'[n + 1]
    BY <1>8, <2>1 DEF LastLine
  <2>3. CASE n = 0
    BY <2>2, <2>3, <1>8 DEF LastLine, n
  <2>4. CASE n # 0
    <3>1. result'[n + 1] = result[n]
      BY <2>1, <2>4, <1>7, <1>8 DEF n
    <3> QED
      BY <2>2, <2>4, <3>1 DEF LastLine, n
  <2> QED
    BY <2>3, <2>4
<1>16. LastLine' # 0 /\ End(LastLine') = to' /\ dist'[LastLine'] = distance'
  BY <1>1, <1>2, <1>15 DEF Traceable
<1>17. index' # 0 => index' \in NearestLines'
  BY <1>4, <1>6
<1>18. Traceable'
  BY <1>8, <1>13, <1>14, <1>16, <1>17 DEF Traceable
<1> QED
  BY <1>1, <1>18 DEF TraceInv

LEMMA TraceNext ==
    ASSUME SearchTypeOK, FrontierInv, TraceInv, [SearchNext]_pathVars
    PROVE  TraceInv'
<1>1. ASSUME phase' # "trace" PROVE TraceInv'
  BY <1>1 DEF TraceInv
<1>2. ASSUME Refuse \/ There \/ Enter \/ Traced \/ KeepHalt \/ Found PROVE phase' # "trace"
  BY <1>2 DEF Refuse, There, Enter, Traced, KeepHalt, Found
<1>3. ASSUME NEW h \in halts, SkipHalt(h) \/ TryHalt(h) PROVE phase' # "trace"
  BY <1>3 DEF SkipHalt, TryHalt
<1>4. ASSUME NEW l \in Line, Relax(l) PROVE phase' # "trace"
  BY <1>4 DEF Relax
<1>5. ASSUME UNCHANGED pathVars PROVE TraceInv'
  <2>1. SameQuestion /\ UNCHANGED <<phase, color, dist, father, Q, index, distance, result, from, to>>
    BY <1>5 DEF pathVars, searchVars, SameQuestion, askVars
  <2>2. Blocked' = Blocked
    BY <2>1, QuestionKept
  <2>3. NearestLines' = NearestLines
    BY <2>1, <2>2 DEF NearestLines, Labelled
  <2>4. LastLine' = LastLine /\ Into' = Into
    BY <2>1 DEF LastLine, Into
  <2>5. (Traceable => Traceable') /\ (NoWayBack => NoWayBack')
    BY <2>1, <2>3, <2>4 DEF Traceable, NoWayBack
  <2> QED
    BY <2>1, <2>5 DEF TraceInv
<1> QED
  BY <1>1, <1>2, <1>3, <1>4, <1>5, TraceChoose, TraceStep DEF SearchNext

-----------------------------------------------------------------------------
(* The answer *)

TheQuestion == [from |-> from, to |-> to, open |-> Open, lines |-> Allowed]
TheAnswer == [distance |-> distance, lines |-> result]

\* No path is shorter than the distance of its last line.
LEMMA LowerBound ==
    ASSUME SearchTypeOK, FrontierInv, Searched, NEW o, SimpleTo(o, Allowed, from, to)
    PROVE  /\ o[Len(o)] \in Line /\ Labelled(o[Len(o)])
           /\ dist[o[Len(o)]] <= Search!LengthOf(o)
<1> DEFINE n == Len(o)
<1>1. /\ Firsts /\ Closed /\ Tree /\ from # to /\ \A l \in Line : Labelled(l) => Done(l)
  BY AllDone
<1>2. /\ n \in Nat /\ n # 0 /\ o \in Seq(Allowed) /\ End(o[n]) = to
      /\ \A i \in 1..n : /\ o[i] \in Allowed /\ o[i] \in Line /\ End(o[i]) # from
                         /\ Start(o[i]) = IF i = 1 THEN from ELSE End(o[i - 1])
      /\ \A i, j \in 1..n : End(o[i]) = End(o[j]) => i = j
  <2>1. \A l \in Allowed : l \in Line
    BY DEF Allowed
  <2> QED
    BY <2>1 DEF SimpleTo, Simple
<1>3. o \in Seq(Line)
  BY <1>2 DEF Allowed
<1> HIDE DEF n
<1>4. PICK s : Sums(s, o) /\ Search!LengthOf(o) = s[n]
  BY <1>3, LengthIsSum DEF n
<1>5. /\ s[0] = 0 /\ \A i \in 0..n : s[i] \in Nat
      /\ \A i \in 1..n : s[i] = s[i - 1] + Length[o[i]]
  BY <1>4 DEF Sums, n
<1>6. \A l \in Line : dist[l] \in Nat /\ Length[l] \in Nat
  BY Lengths DEF SearchTypeOK
<1>7. ASSUME NEW i \in 1..n PROVE o[i] \notin Blocked
  <2>1. CASE i = 1
    BY <2>1, <1>1, <1>2 DEF Blocked
  <2>2. CASE i # 1
    <3>1. i - 1 \in 1..n /\ n \in 1..n /\ i - 1 # n
      BY <2>2, <1>2
    <3>2. Start(o[i]) = End(o[i - 1]) /\ End(o[i - 1]) # to
      BY <2>2, <3>1, <1>2
    <3> QED
      BY <3>2 DEF Blocked
  <2> QED
    BY <2>1, <2>2
<1>8. ASSUME NEW k \in Nat, k + 1 \in 1..n, k # 0 PROVE o[k + 1] \in Adjacent(o[k])
  <2>1. k \in 1..n /\ k + 1 # 1 /\ (k + 1) - 1 = k /\ k + 1 # k
        /\ (k # 1 => k - 1 \in 1..n /\ k - 1 # k + 1)
    BY <1>2, <1>8
  <2>2. Start(o[k + 1]) = End(o[k]) /\ o[k + 1] \in Line /\ o[k + 1] # o[k]
    BY <1>2, <1>8, <2>1
  <2>3. Start(o[k]) # End(o[k + 1])
    <3>1. Start(o[k]) = IF k = 1 THEN from ELSE End(o[k - 1])
      BY <1>2, <2>1
    <3> QED
      BY <1>2, <1>8, <2>1, <3>1
  <2> QED
    BY <2>2, <2>3 DEF Adjacent
<1>9. \A k \in Nat : k + 1 \in 1..n => Labelled(o[k + 1]) /\ dist[o[k + 1]] <= s[k + 1]
  <2> DEFINE S == {k \in Nat : k + 1 \in 1..n =>
                     Labelled(o[k + 1]) /\ dist[o[k + 1]] <= s[k + 1]}
  <2>1. 0 \in S
    <3> SUFFICES ASSUME 1 \in 1..n PROVE Labelled(o[1]) /\ dist[o[1]] <= s[1]
      OBVIOUS
    <3>1. Start(o[1]) = from /\ o[1] \in Allowed \ Blocked /\ o[1] \in Line
      BY <1>2, <1>7
    <3>2. Labelled(o[1]) /\ father[o[1]] = 0
      BY <1>1, <3>1 DEF Firsts
    <3>3. dist[o[1]] = Length[o[1]]
      BY <1>1, <3>1, <3>2 DEF Tree, ByFather
    <3>4. s[1] = Length[o[1]]
      BY <1>5, <1>6, <3>1
    <3> QED
      BY <1>6, <3>1, <3>2, <3>3, <3>4
  <2>2. ASSUME NEW k \in S PROVE k + 1 \in S
    <3> SUFFICES ASSUME (k + 1) + 1 \in 1..n
                 PROVE  Labelled(o[(k + 1) + 1]) /\ dist[o[(k + 1) + 1]] <= s[(k + 1) + 1]
      OBVIOUS
    <3>1. k + 1 \in Nat /\ k + 1 \in 1..n /\ k + 1 # 0 /\ ((k + 1) + 1) - 1 = k + 1
          /\ k + 1 \in 0..n
      BY <1>2
    <3>2. Labelled(o[k + 1]) /\ dist[o[k + 1]] <= s[k + 1] /\ o[k + 1] \in Line
      BY <1>2, <3>1
    <3> DEFINE m == o[(k + 1) + 1]
    <3>3. m \in Adjacent(o[k + 1]) /\ m \in Allowed /\ m \notin Blocked /\ m \in Line
      BY <1>2, <1>7, <1>8, <3>1
    <3>4. Labelled(m) /\ dist[m] <= dist[o[k + 1]] + Length[m]
      BY <1>1, <3>2, <3>3 DEF Closed
    <3>5. s[(k + 1) + 1] = s[k + 1] + Length[m] /\ s[k + 1] \in Nat
      BY <1>5, <3>1
    <3> HIDE DEF m
    <3>6. dist[m] <= s[k + 1] + Length[m]
      BY <1>6, <3>2, <3>3, <3>4, <3>5
    <3> QED
      BY <3>4, <3>5, <3>6 DEF m
  <2>3. S = Nat
    <3>1. S \in SUBSET Nat
      OBVIOUS
    <3> HIDE DEF S
    <3> QED
      BY <2>1, <2>2, <3>1, SetInduction
  <2> QED
    BY <2>3
<1>10. n - 1 \in Nat /\ (n - 1) + 1 = n /\ n \in 1..n
  BY <1>2
<1>11. Labelled(o[n]) /\ dist[o[n]] <= s[n]
  BY <1>9, <1>10
<1> QED
  BY <1>2, <1>4, <1>10, <1>11 DEF n

\* What was traced back is a path, as long as was said.
LEMMA TracedPath ==
    ASSUME SearchTypeOK, FrontierInv, Searched, Traceable, index = 0
    PROVE  SimpleTo(result, Allowed, from, to) /\ Search!LengthOf(result) = distance
<1> DEFINE n == Len(result)
<1>1. n \in Nat /\ result \in Seq(Line) /\ \A i \in 1..n : result[i] \in Line
  BY DEF SearchTypeOK
<1>2. Tree /\ Marked
  BY AllDone
<1>3. /\ n # 0 /\ End(result[n]) = to /\ dist[result[n]] = distance
      /\ \A i \in 1..n : /\ result[i] \in NearestLines
                         /\ father[result[i]] = IF i = 1 THEN 0 ELSE result[i - 1]
      /\ \A i, j \in 1..n : i < j => dist[result[i]] < dist[result[j]]
  BY DEF Traceable, LastLine
<1>4. \A i \in 1..n : /\ Labelled(result[i]) /\ End(result[i]) # from
                      /\ \A m \in Line : Labelled(m) /\ End(m) = End(result[i])
                                           => dist[result[i]] <= dist[m]
  BY <1>3 DEF NearestLines
<1>5. \A l \in Line : dist[l] \in Nat /\ Length[l] \in Nat
  BY Lengths DEF SearchTypeOK
<1> HIDE DEF n
<1>6. result \in Seq(Allowed)
  <2>1. \A i \in 1..n : result[i] \in Allowed
    BY <1>1, <1>2, <1>4 DEF Marked
  <2> QED
    BY <1>1, <2>1 DEF n
<1>7. ASSUME NEW i \in 1..n
      PROVE  IF i = 1 THEN Start(result[i]) = from /\ dist[result[i]] = Length[result[i]]
             ELSE /\ i - 1 \in 1..n /\ Start(result[i]) = End(result[i - 1])
                  /\ dist[result[i]] = dist[result[i - 1]] + Length[result[i]]
  <2>1. ByFather(result[i])
    BY <1>1, <1>2, <1>4 DEF Tree
  <2>2. CASE i = 1
    BY <2>1, <2>2, <1>3 DEF ByFather
  <2>3. CASE i # 1
    <3>1. i - 1 \in 1..n
      BY <2>3, <1>1
    <3>2. father[result[i]] = result[i - 1] /\ result[i - 1] # 0
      BY <2>3, <3>1, <1>1, <1>3, Lengths
    <3> QED
      BY <2>1, <2>3, <3>1, <3>2 DEF ByFather, Adjacent
  <2> QED
    BY <2>2, <2>3
<1>8. ASSUME NEW i \in 1..n, NEW j \in 1..n, End(result[i]) = End(result[j])
      PROVE  i = j
  <2>1. dist[result[i]] \in Nat /\ dist[result[j]] \in Nat
    BY <1>1, <1>5
  <2>2. dist[result[i]] <= dist[result[j]] /\ dist[result[j]] <= dist[result[i]]
    BY <1>1, <1>4, <1>8
  <2>3. ~(i < j) /\ ~(j < i)
    BY <1>3, <2>1, <2>2
  <2> QED
    BY <1>1, <2>3
<1>9. SimpleTo(result, Allowed, from, to)
  <2>1. \A i \in 1..n : Start(result[i]) = IF i = 1 THEN from ELSE End(result[i - 1])
    BY <1>7
  <2> QED
    BY <1>3, <1>4, <1>6, <1>8, <2>1 DEF SimpleTo, Simple, n
<1>10. PICK s : Sums(s, result) /\ Search!LengthOf(result) = s[n]
  BY <1>1, LengthIsSum DEF n
<1>11. s[0] = 0 /\ \A i \in 1..n : s[i] = s[i - 1] + Length[result[i]]
  BY <1>10 DEF Sums, n
<1>12. \A k \in Nat : k + 1 \in 1..n => dist[result[k + 1]] = s[k + 1]
  <2> DEFINE S == {k \in Nat : k + 1 \in 1..n => dist[result[k + 1]] = s[k + 1]}
  <2>1. 0 \in S
    <3> SUFFICES ASSUME 1 \in 1..n PROVE dist[result[1]] = s[1]
      OBVIOUS
    <3>1. s[1] = Length[result[1]]
      BY <1>1, <1>5, <1>11
    <3> QED
      BY <3>1, <1>7
  <2>2. ASSUME NEW k \in S PROVE k + 1 \in S
    <3> SUFFICES ASSUME (k + 1) + 1 \in 1..n
                 PROVE  dist[result[(k + 1) + 1]] = s[(k + 1) + 1]
      OBVIOUS
    <3>1. k + 1 \in 1..n /\ ((k + 1) + 1) - 1 = k + 1 /\ (k + 1) + 1 # 1
      BY <1>1
    <3>2. dist[result[k + 1]] = s[k + 1]
      BY <3>1
    <3> DEFINE i == (k + 1) + 1
    <3>3. i \in 1..n /\ i # 1 /\ i - 1 = k + 1
      BY <3>1
    <3> HIDE DEF i
    <3>4. dist[result[i]] = dist[result[i - 1]] + Length[result[i]]
      BY <3>3, <1>7
    <3>5. s[i] = s[i - 1] + Length[result[i]]
      BY <3>3, <1>11
    <3>6. dist[result[i]] = s[i]
      BY <3>2, <3>3, <3>4, <3>5
    <3> QED
      BY <3>6 DEF i
  <2>3. S = Nat
    <3>1. S \in SUBSET Nat
      OBVIOUS
    <3> HIDE DEF S
    <3> QED
      BY <2>1, <2>2, <3>1, SetInduction
  <2> QED
    BY <2>3
<1>13. n - 1 \in Nat /\ (n - 1) + 1 = n /\ n \in 1..n
  BY <1>1, <1>3
<1> QED
  BY <1>3, <1>9, <1>10, <1>12, <1>13

LEMMA PathsHaveLengths ==
    ASSUME NEW lines \in SUBSET Line, NEW a \in Station, NEW b,
           NEW p \in Search!PathsOver(lines, a, b)
    PROVE  p \in Seq(Line) /\ Search!LengthOf(p) \in Nat
<1>1. p \in Seq(Line)
  BY PathsOverAre DEF SimpleTo, Simple
<1>2. PICK s : Sums(s, p) /\ Search!LengthOf(p) = s[Len(p)]
  BY <1>1, LengthIsSum
<1>3. Len(p) \in Nat
  BY <1>1
<1> QED
  BY <1>1, <1>2, <1>3 DEF Sums

LEMMA AnswersAre ==
    ASSUME NEW q, NEW ps, ps = Search!PathsOver(q.lines, q.from, q.to), q.open \in BOOLEAN
    PROVE  Search!Answers(q) =
             IF ~q.open THEN {[distance |-> Infinity, lines |-> <<>>]}
             ELSE IF q.from = q.to THEN {[distance |-> 0, lines |-> <<>>]}
             ELSE IF ps = {} THEN {[distance |-> Infinity, lines |-> <<>>]}
             ELSE {[distance |-> Search!LengthOf(p), lines |-> p] : p \in Search!Shortest(ps)}
BY DEF Search!Answers, Search!NoWay

LEMMA TracedAnswer ==
    ASSUME SearchTypeOK, FrontierInv, TraceInv, phase = "trace", index = 0
    PROVE  TheAnswer \in Search!Answers(TheQuestion)
<1> DEFINE ps == Search!PathsOver(Allowed, from, to)
<1>1. Searched /\ (NoWayBack \/ Traceable)
  BY DEF TraceInv, Searched
<1>2. from # to /\ Open
  BY <1>1, AllDone
<1>3. from \in Station /\ Allowed \in SUBSET Line
  BY DEF SearchTypeOK, Allowed
<1>4. \A p : p \in ps <=> SimpleTo(p, Allowed, from, to)
  BY <1>3, PathsOverAre
<1>5. \A p \in ps : /\ p[Len(p)] \in Line /\ Labelled(p[Len(p)]) /\ End(p[Len(p)]) = to
                    /\ dist[p[Len(p)]] <= Search!LengthOf(p)
  BY <1>1, <1>4, LowerBound DEF SimpleTo
<1>6. \A p \in ps : p \in Seq(Line) /\ Search!LengthOf(p) \in Nat
  BY <1>3, PathsHaveLengths
<1> HIDE DEF ps
<1>7. Search!Answers(TheQuestion) =
        IF ps = {} THEN {[distance |-> Infinity, lines |-> <<>>]}
        ELSE {[distance |-> Search!LengthOf(p), lines |-> p] : p \in Search!Shortest(ps)}
  <2>1. /\ TheQuestion.from = from /\ TheQuestion.to = to
        /\ TheQuestion.open = Open /\ TheQuestion.lines = Allowed
    BY DEF TheQuestion
  <2>2. Open \in BOOLEAN
    BY <1>2
  <2> QED
    BY <1>2, <2>1, <2>2, AnswersAre DEF ps
<1>8. CASE NoWayBack
  <2>1. ASSUME NEW p \in ps PROVE FALSE
    <3>1. SimpleTo(p, Line, from, to)
      BY <1>4, <1>6 DEF SimpleTo, Simple
    <3>2. p \in Search!PathsOver(Line, from, to)
      BY <3>1, <1>3, PathsOverAre
    <3>3. Search!LengthOf(p) < Infinity
      BY <3>2, RoadsAssumption DEF SearchTypeOK
    <3>4. dist[p[Len(p)]] < Infinity
      <4>1. dist[p[Len(p)]] \in Nat /\ Infinity \in Nat
        BY <1>5, Lengths DEF SearchTypeOK
      <4> QED
        BY <3>3, <4>1, <1>5, <1>6
    <3>5. p[Len(p)] \in Into
      BY <1>5, <3>4 DEF Into
    <3> QED
      BY <1>8, <3>5 DEF NoWayBack
  <2>2. ps = {}
    BY <2>1
  <2> QED
    BY <1>7, <1>8, <2>2 DEF NoWayBack, TheAnswer
<1>9. CASE Traceable
  <2>1. result \in ps /\ Search!LengthOf(result) = distance
    BY <1>1, <1>4, <1>9, TracedPath
  <2>2. \A p \in ps : distance <= Search!LengthOf(p)
    <3>1. Len(result) # 0 /\ result[Len(result)] \in NearestLines
          /\ dist[result[Len(result)]] = distance /\ End(result[Len(result)]) = to
      <4>1. Len(result) # 0 /\ Len(result) \in Nat
        BY <1>9 DEF Traceable, LastLine, SearchTypeOK
      <4>2. Len(result) \in 1..Len(result)
        BY <4>1
      <4> QED
        BY <1>9, <4>1, <4>2 DEF Traceable, LastLine
    <3>2. \A l \in Line : Labelled(l) /\ End(l) = to => distance <= dist[l]
      BY <3>1 DEF NearestLines
    <3>3. \A l \in Line : dist[l] \in Nat
      BY DEF SearchTypeOK
    <3>4. distance \in Nat
      BY DEF SearchTypeOK
    <3> QED
      BY <1>5, <1>6, <3>2, <3>3, <3>4
  <2>3. result \in Search!Shortest(ps)
    BY <2>1, <2>2 DEF Search!Shortest
  <2> QED
    BY <1>7, <2>1, <2>3 DEF TheAnswer
<1> QED
  BY <1>1, <1>8, <1>9

-----------------------------------------------------------------------------
(* PathSearch implements ShortestRoute *)

AnswerInv == phase = "done" => TheAnswer \in Search!Answers(TheQuestion)
SearchInv == SearchTypeOK /\ FrontierInv /\ TraceInv /\ AnswerInv

LEMMA TheQuestionKept == ASSUME SameQuestion PROVE TheQuestion' = TheQuestion
BY QuestionKept DEF SameQuestion, askVars, TheQuestion

\* The steps that answer.
LEMMA StepAnswers ==
    ASSUME SearchTypeOK, FrontierInv, TraceInv, Refuse \/ There \/ Traced
    PROVE  /\ SameQuestion /\ phase \in {"ask", "trace"} /\ phase' = "done"
           /\ TheAnswer' \in Search!Answers(TheQuestion)
<1> USE DEF searchVars, askVars, haltVars, SameQuestion
<1>1. /\ TheQuestion.from = from /\ TheQuestion.to = to
      /\ TheQuestion.open = Open /\ TheQuestion.lines = Allowed
      /\ Open \in BOOLEAN
  BY DEF TheQuestion, Open
<1>2. /\ ~Open => Search!Answers(TheQuestion) = {[distance |-> Infinity, lines |-> <<>>]}
      /\ Open /\ from = to
           => Search!Answers(TheQuestion) = {[distance |-> 0, lines |-> <<>>]}
  BY <1>1, AnswersAre
<1>3. ASSUME Refuse
      PROVE  SameQuestion /\ phase = "ask" /\ phase' = "done" /\ TheAnswer' \in Search!Answers(TheQuestion)
  <2>1. ~Open /\ TheAnswer' = [distance |-> Infinity, lines |-> <<>>]
    BY <1>3 DEF Refuse, TheAnswer
  <2> QED
    BY <1>3, <1>2, <2>1 DEF Refuse
<1>4. ASSUME There
      PROVE  SameQuestion /\ phase = "ask" /\ phase' = "done" /\ TheAnswer' \in Search!Answers(TheQuestion)
  <2>1. Open /\ from = to /\ TheAnswer' = [distance |-> 0, lines |-> <<>>]
    BY <1>4 DEF There, TheAnswer
  <2> QED
    BY <1>4, <1>2, <2>1 DEF There
<1>5. ASSUME Traced
      PROVE  SameQuestion /\ phase = "trace" /\ phase' = "done" /\ TheAnswer' \in Search!Answers(TheQuestion)
  <2>1. phase = "trace" /\ index = 0 /\ phase' = "done" /\ TheAnswer' = TheAnswer /\ SameQuestion
    BY <1>5 DEF Traced, TheAnswer
  <2> QED
    BY <2>1, TracedAnswer
<1> QED
  BY <1>3, <1>4, <1>5

LEMMA AnswerNext ==
    ASSUME SearchTypeOK, FrontierInv, TraceInv, AnswerInv, [SearchNext]_pathVars
    PROVE  AnswerInv'
<1>1. ASSUME Refuse \/ There \/ Traced PROVE AnswerInv'
  <2>1. TheAnswer' \in Search!Answers(TheQuestion) /\ TheQuestion' = TheQuestion
    BY <1>1, StepAnswers, TheQuestionKept
  <2> QED
    BY <2>1 DEF AnswerInv
<1>2. ASSUME Enter \/ Choose \/ Trace \/ KeepHalt \/ Found PROVE phase' # "done"
  BY <1>2 DEF Enter, Choose, Trace, KeepHalt, Found
<1>3. ASSUME NEW h \in halts, SkipHalt(h) \/ TryHalt(h) PROVE phase' # "done"
  BY <1>3 DEF SkipHalt, TryHalt
<1>4. ASSUME NEW l \in Line, Relax(l) PROVE phase' # "done"
  BY <1>4 DEF Relax
<1>5. ASSUME UNCHANGED pathVars PROVE AnswerInv'
  <2>1. phase' = phase /\ TheAnswer' = TheAnswer /\ SameQuestion
    BY <1>5 DEF pathVars, searchVars, SameQuestion, askVars, TheAnswer
  <2>2. TheQuestion' = TheQuestion
    BY <2>1, TheQuestionKept
  <2> QED
    BY <2>1, <2>2 DEF AnswerInv
<1>6. phase' # "done" => AnswerInv'
  BY DEF AnswerInv
<1> QED
  BY <1>1, <1>2, <1>3, <1>4, <1>5, <1>6 DEF SearchNext

LEMMA InvInit == SearchInit => SearchInv
<1>1. SearchInit => FrontierInv /\ TraceInv /\ AnswerInv
  BY DEF SearchInit, FrontierInv, Searching, TraceInv, AnswerInv
<1> QED
  BY <1>1, SearchTypesInit DEF SearchInv

LEMMA InvNext == SearchInv /\ [SearchNext]_pathVars => SearchInv'
BY SearchTypesNext, FrontierNext, TraceNext, AnswerNext DEF SearchInv

LEMMA SearchInvAlways == SearchSpec => []SearchInv
BY InvInit, InvNext, PTL DEF SearchSpec

\* Where the answer can be seen.
Ended == phase \in {"done", "pick", "found"}
Shown == IF Ended THEN TheAnswer ELSE [distance |-> Infinity, lines |-> <<0>>]

LEMMA Mapping ==
    /\ Search!vars = <<TheQuestion, Shown>>
    /\ Search!NoAnswer = [distance |-> Infinity, lines |-> <<0>>]
BY DEF Search!vars, Search!NoAnswer, TheQuestion, Shown, Ended, TheAnswer

LEMMA AnswerSeen == ASSUME SearchTypeOK PROVE TheAnswer # Search!NoAnswer
<1>1. result # <<0>>
  <2>1. <<0>> \in Seq(Line) => <<0>>[1] \in Line
    OBVIOUS
  <2> QED
    BY <2>1, Lengths DEF SearchTypeOK
<1> QED
  BY <1>1, Mapping DEF TheAnswer

LEMMA QuestionType == ASSUME SearchTypeOK PROVE TheQuestion \in Search!Question
<1>1. Open \in BOOLEAN
  BY DEF Open
<1>2. Allowed \in SUBSET Line
  BY DEF Allowed
<1> QED
  BY <1>1, <1>2 DEF TheQuestion, Search!Question, SearchTypeOK

LEMMA InitMapped == SearchInit => Search!Init
<1> SUFFICES ASSUME SearchInit PROVE Search!Init
  OBVIOUS
<1>1. TheQuestion \in Search!Question
  BY SearchTypesInit, QuestionType
<1>2. Shown \in {Search!NoAnswer, Search!NoWay}
  BY Mapping DEF SearchInit, Shown, Ended, TheAnswer, Search!NoWay
<1> QED
  BY <1>1, <1>2 DEF Search!Init, TheQuestion, Shown, Ended, TheAnswer

LEMMA NextMapped == SearchInv /\ SearchInv' /\ [SearchNext]_pathVars => [Search!Next]_Search!vars
<1> SUFFICES ASSUME SearchInv, SearchInv', [SearchNext]_pathVars
             PROVE  Search!Next \/ UNCHANGED Search!vars
  OBVIOUS
<1> USE DEF searchVars, askVars, haltVars
<1>1. ASSUME Refuse \/ There \/ Traced PROVE Search!Answer
  <2>1. /\ TheAnswer' \in Search!Answers(TheQuestion) /\ TheQuestion' = TheQuestion
        /\ Shown = Search!NoAnswer /\ Shown' = TheAnswer'
    BY <1>1, StepAnswers, TheQuestionKept, Mapping DEF SearchInv, Shown, Ended
  <2> QED
    BY <2>1 DEF Search!Answer, TheQuestion, Shown, Ended, TheAnswer
<1>2. ASSUME SameQuestion, Shown' = Shown PROVE UNCHANGED Search!vars
  <2>1. TheQuestion' = TheQuestion
    BY <1>2, TheQuestionKept
  <2>2. Search!vars' = <<TheQuestion', Shown'>>
    BY DEF Search!vars, TheQuestion, Shown, Ended, TheAnswer
  <2> QED
    BY <1>2, <2>1, <2>2, Mapping
<1>3. ASSUME Enter \/ Choose \/ Trace PROVE SameQuestion /\ Shown' = Shown
  BY <1>3 DEF Enter, Choose, Trace, SameQuestion, Shown, Ended
<1>4. ASSUME NEW l \in Line, Relax(l) PROVE SameQuestion /\ Shown' = Shown
  BY <1>4 DEF Relax, SameQuestion, Shown, Ended
<1>5. ASSUME KeepHalt \/ Found \/ UNCHANGED pathVars PROVE SameQuestion /\ Shown' = Shown
  BY <1>5 DEF KeepHalt, Found, pathVars, SameQuestion, Shown, Ended, TheAnswer
<1>6. ASSUME NEW h \in halts, SkipHalt(h) PROVE SameQuestion /\ Shown' = Shown
  BY <1>6 DEF SkipHalt, SameQuestion, Shown, Ended, TheAnswer
<1>7. ASSUME NEW h \in halts, TryHalt(h) PROVE Search!Ask
  <2>1. Shown = TheAnswer /\ Shown' = Search!NoAnswer
    BY <1>7, Mapping DEF TryHalt, Shown, Ended
  <2>2. Shown # Search!NoAnswer
    BY <2>1, AnswerSeen DEF SearchInv
  <2>3. TheQuestion' \in Search!Question
    <3>1. Open' \in BOOLEAN /\ Allowed' \in SUBSET Line
      BY DEF Open, Allowed
    <3> QED
      BY <3>1 DEF TheQuestion, Search!Question, SearchInv, SearchTypeOK
  <2> QED
    BY <2>1, <2>2, <2>3 DEF Search!Ask, TheQuestion, Shown, Ended, TheAnswer
<1> QED
  BY <1>1, <1>2, <1>3, <1>4, <1>5, <1>6, <1>7 DEF SearchNext, Search!Next

-----------------------------------------------------------------------------
(* The nearest halt station *)

TheWay(a, b) == [from |-> a, to |-> b, open |-> TRUE, lines |-> Line]
Far(a, b) == (CHOOSE x \in Search!Answers(TheWay(a, b)) : TRUE).distance

\* All answers to a question have the same distance.
LEMMA FarIs ==
    ASSUME NEW a \in Station, NEW b \in Station
    PROVE  /\ Far(a, b) \in Nat
           /\ \A x \in Search!Answers(TheWay(a, b)) : x.distance = Far(a, b)
<1> DEFINE ps == Search!PathsOver(Line, a, b)
           as == Search!Answers(TheWay(a, b))
<1>1. as = IF a = b THEN {[distance |-> 0, lines |-> <<>>]}
           ELSE IF ps = {} THEN {[distance |-> Infinity, lines |-> <<>>]}
           ELSE {[distance |-> Search!LengthOf(p), lines |-> p] : p \in Search!Shortest(ps)}
  <2>1. /\ TheWay(a, b).from = a /\ TheWay(a, b).to = b
        /\ TheWay(a, b).open = TRUE /\ TheWay(a, b).lines = Line
    BY DEF TheWay
  <2> QED
    BY <2>1, AnswersAre
<1>2. \A p \in ps : Search!LengthOf(p) \in Nat
  BY PathsHaveLengths
<1>3. Far(a, b) = (CHOOSE x \in as : TRUE).distance
  BY DEF Far
<1> HIDE DEF ps, as
<1>4. as # {} /\ \A x, y \in as : x.distance = y.distance /\ x.distance \in Nat
  <2>1. CASE a = b \/ ps = {}
    <3>1. PICK n \in Nat : as = {[distance |-> n, lines |-> <<>>]}
      <4>1. CASE a = b
        BY <1>1, <4>1
      <4>2. CASE a # b
        BY <1>1, <2>1, <4>2, Lengths
      <4> QED
        BY <4>1, <4>2
    <3>2. as # {} /\ \A x \in as : x.distance = n
      BY <3>1
    <3> QED
      BY <3>2
  <2>2. CASE a # b /\ ps # {}
    <3>1. as = {[distance |-> Search!LengthOf(p), lines |-> p] : p \in Search!Shortest(ps)}
      BY <1>1, <2>2
    <3>2. \E p \in ps : \A o \in ps : Search!LengthOf(p) <= Search!LengthOf(o)
      <4> DEFINE S == {Search!LengthOf(p) : p \in ps}
      <4>1. S \in SUBSET Nat /\ S # {}
        BY <1>2, <2>2
      <4>2. PICK m \in S : \A n \in S : m <= n
        <5> HIDE DEF S
        <5> QED
          BY <4>1, LeastOf
      <4> QED
        BY <4>2
    <3>3. Search!Shortest(ps) # {}
      BY <3>2 DEF Search!Shortest
    <3>4. \A p, o \in Search!Shortest(ps) :
              Search!LengthOf(p) = Search!LengthOf(o) /\ Search!LengthOf(p) \in Nat
      <4>1. \A p \in Search!Shortest(ps) : /\ p \in ps /\ Search!LengthOf(p) \in Nat
                /\ \A o \in Search!Shortest(ps) : Search!LengthOf(p) <= Search!LengthOf(o)
        BY <1>2 DEF Search!Shortest
      <4> QED
        BY <4>1
    <3>5. \A x \in as : \E p \in Search!Shortest(ps) : x.distance = Search!LengthOf(p)
      BY <3>1
    <3>6. as # {}
      BY <3>1, <3>3
    <3> QED
      BY <3>4, <3>5, <3>6
  <2> QED
    BY <2>1, <2>2
<1>5. (CHOOSE x \in as : TRUE) \in as
  BY <1>4
<1> QED
  BY <1>3, <1>4, <1>5 DEF as

LEMMA HowFarIs == \A h : HowFar(h) = Far(h, to)
<1> SUFFICES ASSUME NEW h PROVE HowFar(h) = Far(h, to)
  OBVIOUS
<1>1. [from |-> h, to |-> to, lines |-> Line, open |-> TRUE] = TheWay(h, to)
  BY DEF TheWay
<1> QED
  BY <1>1 DEF HowFar, Far

\* The halt stations whose search is over.
Tried == HaltStations \ (halts \cup (IF phase \in {"pick", "found"} THEN {} ELSE {from}))

\* The nearest of those.
HaltInv ==
    goal = "halt" =>
        /\ phase \in {"pick", "found"} \/ StationFree(from, agv)
        /\ phase = "found" => halts = {}
        /\ nearest <= Infinity
        /\ IF halt = 0 THEN nearest = Infinity
                       ELSE halt \in FoundHalts /\ nearest = Far(halt, to)
        /\ \A h \in Tried \cap FoundHalts : nearest <= Far(h, to)

LEMMA HaltIs == SearchTypeOK /\ HaltInv => NearestHalt
<1> SUFFICES ASSUME SearchTypeOK, HaltInv, phase = "found"
             PROVE  /\ (halt = 0) <=> (FoundHalts = {})
                    /\ halt # 0 => /\ halt \in FoundHalts
                                   /\ \A h \in FoundHalts : HowFar(halt) <= HowFar(h)
  BY DEF NearestHalt
<1>1. goal = "halt" /\ halts = {}
  BY DEF SearchTypeOK, HaltInv
<1>2. Tried = HaltStations /\ FoundHalts \subseteq HaltStations
  BY <1>1 DEF Tried, FoundHalts
<1>3. \A h \in FoundHalts : nearest <= HowFar(h)
  BY <1>1, <1>2, HowFarIs DEF HaltInv
<1>4. \A h \in FoundHalts : HowFar(h) \in Nat /\ HowFar(h) < Infinity
  BY <1>2, HowFarIs, FarIs, Lengths DEF FoundHalts, SearchTypeOK
<1>5. halt = 0 => FoundHalts = {}
  <2>1. halt = 0 => nearest = Infinity
    BY <1>1 DEF HaltInv
  <2> QED
    BY <1>3, <1>4, <2>1, Lengths
<1>6. halt # 0 => halt \in FoundHalts /\ nearest = HowFar(halt)
  BY <1>1, HowFarIs DEF HaltInv
<1> QED
  BY <1>3, <1>5, <1>6

\* The answer of a search from a halt station.
LEMMA HaltAnswer ==
    ASSUME SearchTypeOK, AnswerInv, goal = "halt", phase = "done"
    PROVE  distance = Far(from, to)
<1>1. Open = TRUE /\ Allowed = Line
  BY DEF Open, Allowed
<1>2. TheQuestion = TheWay(from, to)
  BY <1>1 DEF TheQuestion, TheWay
<1>3. TheAnswer \in Search!Answers(TheWay(from, to)) /\ TheAnswer.distance = distance
  BY <1>2 DEF AnswerInv, TheAnswer
<1> QED
  BY <1>3, FarIs DEF SearchTypeOK

\* What is compared stays as it is.
LEMMA FoundKept == ASSUME UNCHANGED <<mapVars, askVars>> PROVE FoundHalts' = FoundHalts
<1>1. \A h : HowFar(h)' = HowFar(h)
  BY DEF HowFar, askVars
<1>2. \A h : StationFree(h, agv)' <=> StationFree(h, agv)
  BY DEF StationFree, mapVars, askVars
<1> QED
  BY <1>1, <1>2 DEF FoundHalts

\* A step that does not come to the end of a search.
LEMMA HaltKept ==
    ASSUME HaltInv, UNCHANGED <<mapVars, askVars, halt, nearest>>,
           Tried' \cap FoundHalts \subseteq Tried,
           phase' \in {"pick", "found"} \/ StationFree(from', agv),
           phase' = "found" => halts' = {}
    PROVE  HaltInv'
<1>1. FoundHalts' = FoundHalts
  BY FoundKept
<1>2. goal' = goal /\ to' = to /\ halt' = halt /\ nearest' = nearest
  BY DEF askVars
<1>3. StationFree(from', agv) => StationFree(from, agv)'
  BY DEF StationFree, mapVars, askVars
<1> QED
  BY <1>1, <1>2, <1>3 DEF HaltInv

LEMMA HaltKeep ==
    ASSUME SearchTypeOK, AnswerInv, HaltInv, KeepHalt
    PROVE  HaltInv'
<1>1. /\ phase = "done" /\ goal = "halt" /\ phase' = "pick" /\ UNCHANGED <<mapVars, askVars, from, halts>>
      /\ goal' = goal /\ to' = to
      /\ IF distance < nearest THEN halt' = from /\ nearest' = distance
                               ELSE UNCHANGED <<halt, nearest>>
  BY DEF KeepHalt, IsCloser, askVars
<1>2. FoundHalts' = FoundHalts
  BY <1>1, FoundKept
<1>3. distance = Far(from, to) /\ from \in HaltStations /\ StationFree(from, agv)
  BY <1>1, HaltAnswer DEF HaltInv, SearchTypeOK
<1>4. /\ nearest <= Infinity /\ nearest \in Nat /\ distance \in Nat /\ Infinity \in Nat
      /\ IF halt = 0 THEN nearest = Infinity ELSE halt \in FoundHalts /\ nearest = Far(halt, to)
      /\ \A h \in Tried \cap FoundHalts : nearest <= Far(h, to)
  BY <1>1, Lengths DEF HaltInv, SearchTypeOK
<1>5. \A h \in HaltStations : Far(h, to) \in Nat
  BY FarIs, Lengths DEF SearchTypeOK
<1>6. \A h \in Tried' : h \in HaltStations /\ (h \in Tried \/ h = from)
  BY <1>1 DEF Tried
<1>7. CASE distance < nearest
  <2>1. from \in FoundHalts /\ from # 0
    BY <1>3, <1>4, <1>7, HowFarIs, Lengths DEF FoundHalts
  <2>2. \A h \in Tried' \cap FoundHalts : distance <= Far(h, to)
    BY <1>3, <1>4, <1>5, <1>6, <1>7
  <2>3. distance <= Infinity
    BY <1>4, <1>7
  <2> QED
    BY <1>1, <1>2, <1>3, <1>7, <2>1, <2>2, <2>3 DEF HaltInv
<1>8. CASE ~(distance < nearest)
  <2>1. \A h \in Tried' \cap FoundHalts : nearest <= Far(h, to)
    BY <1>3, <1>4, <1>5, <1>6, <1>8
  <2> QED
    BY <1>1, <1>2, <1>4, <1>8, <2>1 DEF HaltInv
<1> QED
  BY <1>7, <1>8

LEMMA HaltNext == SearchTypeOK /\ AnswerInv /\ HaltInv /\ [SearchNext]_pathVars => HaltInv'
<1> SUFFICES ASSUME SearchTypeOK, AnswerInv, HaltInv, [SearchNext]_pathVars PROVE HaltInv'
  OBVIOUS
<1> USE DEF askVars, haltVars
<1>0. goal = "path" /\ UNCHANGED askVars => HaltInv'
  BY DEF HaltInv
<1>1. UNCHANGED askVars
  BY DEF SearchNext, Refuse, There, Enter, Choose, Trace, Traced, Relax, SkipHalt, TryHalt,
         KeepHalt, Found, pathVars
<1>2. SUFFICES ASSUME goal = "halt" PROVE HaltInv'
  BY <1>0, <1>1 DEF SearchTypeOK
<1>3. phase \in {"pick", "found"} \/ StationFree(from, agv)
  BY <1>2 DEF HaltInv
<1>4. ASSUME Refuse \/ There \/ Enter \/ Choose \/ Trace \/ Traced PROVE HaltInv'
  <2>1. /\ UNCHANGED <<mapVars, askVars, from, halts, halt, nearest>>
        /\ phase \notin {"pick", "found"} /\ phase' \notin {"pick", "found"}
    BY <1>4 DEF Refuse, There, Enter, Choose, Trace, Traced
  <2> QED
    BY <1>3, <2>1, HaltKept DEF Tried
<1>5. ASSUME NEW l \in Line, Relax(l) PROVE HaltInv'
  <2>1. /\ UNCHANGED <<mapVars, askVars, from, halts, halt, nearest>>
        /\ phase \notin {"pick", "found"} /\ phase' \notin {"pick", "found"}
    BY <1>5 DEF Relax
  <2> QED
    BY <1>3, <2>1, HaltKept DEF Tried
<1>6. ASSUME NEW h \in halts, SkipHalt(h) PROVE HaltInv'
  <2>1. h \notin FoundHalts
    BY <1>6 DEF SkipHalt, FoundHalts
  <2>2. Tried' \cap FoundHalts \subseteq Tried
    BY <1>6, <2>1 DEF SkipHalt, Tried
  <2> QED
    BY <1>6, <2>2, HaltKept DEF SkipHalt
<1>7. ASSUME NEW h \in halts, TryHalt(h) PROVE HaltInv'
  <2>1. Tried' \subseteq Tried
    BY <1>7 DEF TryHalt, Tried
  <2> QED
    BY <1>7, <2>1, HaltKept DEF TryHalt
<1>8. ASSUME Found PROVE HaltInv'
  <2>1. Tried' = Tried
    BY <1>8 DEF Found, Tried
  <2> QED
    BY <1>8, <2>1, HaltKept DEF Found
<1>9. ASSUME UNCHANGED pathVars PROVE HaltInv'
  <2>1. /\ UNCHANGED <<mapVars, askVars, from, halts, halt, nearest, phase>>
    BY <1>9 DEF pathVars
  <2>2. Tried' = Tried
    BY <2>1 DEF Tried
  <2>3. phase = "found" => halts = {}
    BY <1>2 DEF HaltInv
  <2> QED
    BY <1>3, <2>1, <2>2, <2>3, HaltKept
<1> QED
  BY <1>4, <1>5, <1>6, <1>7, <1>8, <1>9, HaltKeep DEF SearchNext

LEMMA HaltInit == SearchInit => HaltInv
<1> SUFFICES ASSUME SearchInit, goal = "halt" PROVE HaltInv
  BY DEF HaltInv
<1>1. phase = "pick" /\ halts = HaltStations /\ halt = 0 /\ nearest = Infinity
  BY DEF SearchInit
<1>2. Tried = {}
  BY <1>1 DEF Tried
<1> QED
  BY <1>1, <1>2, Lengths DEF HaltInv

-----------------------------------------------------------------------------
(* Theorems *)

\* The search keeps its types: the distances are numbers, a line's father is a
\* line or none, and a search from a halt station starts at one.
THEOREM SearchTypeCorrect == SearchSpec => []SearchTypeOK
<1>1. SearchInv => SearchTypeOK
  BY DEF SearchInv
<1> QED
  BY <1>1, SearchInvAlways, PTL

\* The labels of getPath are exact on every map: the lines in the multimap are
\* the gray ones, each with the distance by its father, and no line that is
\* done is farther than one that is not (mapmanager.cpp:1078-1124).
THEOREM FrontierExactAlways == SearchSpec => []FrontierExact
<1>1. SearchInv => FrontierExact
  BY FrontierIs DEF SearchInv
<1> QED
  BY <1>1, SearchInvAlways, PTL

\* What a search answers is a shortest path over the lines it may take, with
\* its length, or none where there is none, and one question at a time is
\* answered: the safety half of ShortestRoute (mapmanager.cpp:665).
THEOREM AnswersAreShortest == SearchSpec => Search!Safety
<1>1. SearchInit => Search!Init
  BY InitMapped
<1>2. SearchInv /\ SearchInv' /\ [SearchNext]_pathVars => [Search!Next]_Search!vars
  BY NextMapped
<1> QED
  BY <1>1, <1>2, SearchInvAlways, PTL DEF SearchSpec, Search!Safety

\* And so a search that ends is all that ShortestRoute says it is: that it does
\* end is what a run shows.
THEOREM EndedAreShortest == SearchSpec /\ []<>Ended => AnswersShortest
<1>1. SearchInv /\ Ended =>
        (IF phase \in {"done", "pick", "found"}
           THEN [distance |-> distance, lines |-> result]
           ELSE [distance |-> Infinity, lines |-> <<0>>]) # Search!NoAnswer
  BY AnswerSeen DEF SearchInv, Ended, TheAnswer
<1> QED
  BY <1>1, SearchInvAlways, AnswersAreShortest, PTL DEF AnswersShortest, Search!Spec

\* The halt station found belongs to no other vehicle, and the aim is no
\* nearer from any other such station, on every map (mapmanager.cpp:785).
THEOREM NearestHaltAlways == SearchSpec => []NearestHalt
<1>1. SearchInit => HaltInv
  BY HaltInit
<1>2. SearchInv /\ HaltInv /\ [SearchNext]_pathVars => HaltInv'
  BY HaltNext DEF SearchInv
<1>3. SearchInv /\ HaltInv => NearestHalt
  BY HaltIs DEF SearchInv
<1> QED
  BY <1>1, <1>2, <1>3, SearchInvAlways, PTL DEF SearchSpec-----------------------------------------------------------------------------
(* What the distributor gets from a search *)

\* The two modules mean the same paths.
LEMMA SamePaths ==
    ASSUME NEW lines, NEW a, NEW b
    PROVE  Route!PathsOver(lines, a, b) = Search!PathsOver(lines, a, b)
  BY DEF Route!PathsOver, Route!Last, Route!Been,
         Search!PathsOver, Search!Last, Search!Been

-----------------------------------------------------------------------------
(* Types *)

PCs == {"idle", "ready", "left", "moving", "freeing", "arrived"}
Plans == [agv : Vehicle, aim : Station \cup {0}, path : Seq(Line),
          lines : Seq(Line)]

FleetTypeOK ==
    /\ lineOcc \in [Line -> SUBSET Agv]
    /\ stationOcc \in [Station -> Vehicle \cup {0}]
    /\ now \in [Vehicle -> Station \cup {0}]
    /\ last \in [Vehicle -> Station]
    /\ saved \in [Vehicle -> [now : Station \cup {0}, last : Station]]
    /\ path \in [Vehicle -> Seq(Line)] /\ pos \in [Vehicle -> Nat \ {0}]
    /\ pc \in [Vehicle -> PCs]
    /\ toFree \in [Vehicle -> Seq(Station \cup Line)]
    /\ cancelled \in [Vehicle -> BOOLEAN]
    /\ plan \in Plans \cup {NoPlan}
    /\ past \in [Vehicle -> {"clean", "spoilt"}]

\* What the distributor is about to occupy is a path of an idle vehicle whose
\* aim and whose opposite lines nobody else has.
PlanInv ==
    plan # NoPlan =>
      /\ pc[plan.agv] = "idle"
      /\ plan.path # <<>> /\ Simple(plan.path, Line, From(plan.agv))
      /\ plan.aim # 0 => /\ plan.aim = End(plan.path[Len(plan.path)])
                         /\ stationOcc[plan.aim] \in {0, plan.agv}
      /\ \A i \in DOMAIN plan.lines :
           /\ \E j \in DOMAIN plan.path : plan.lines[i] = plan.path[j]
           /\ \A r \in Reverse(plan.lines[i]) :
                lineOcc[r] \ {Operator} \subseteq {plan.agv}

\* Where a vehicle is on its path, and what it has still to free.
Passed(v) == IF pc[v] \in {"freeing", "arrived"} THEN pos[v] ELSE pos[v] - 1
Place(v, n) == IF n = 0 THEN Start(path[v][1]) ELSE End(path[v][n])
Way(v) ==
    pc[v] # "idle" =>
      /\ path[v] # <<>> /\ Simple(path[v], Line, Start(path[v][1]))
      /\ Passed(v) <= Len(path[v])
      /\ pc[v] # "ready" => pos[v] <= Len(path[v])
      /\ pc[v] \in {"ready", "freeing", "arrived"} =>
           From(v) = Place(v, Passed(v)) /\ (Passed(v) > 0 => now[v] # 0)
      /\ pc[v] = "freeing" => \A i \in DOMAIN toFree[v] :
           \E k \in 1..pos[v] : toFree[v][i] \in {Start(path[v][k]), path[v][k]}
WayInv == \A v \in Vehicle : Way(v)

\* What a vehicle that nothing was taken from occupies: without a path, the
\* station it is at; with one that is being planned, what has been occupied of
\* it; under way, what is ahead and what it is about to free.
Goal(p) == End(p[Len(p)])
AtRest(v) ==
    /\ now[v] # 0 => stationOcc[now[v]] = v
    /\ plan.agv # v =>
         /\ \A l \in Line : v \notin lineOcc[l]
         /\ \A s \in Station : stationOcc[s] = v => s = now[v]
Planned(v) ==
    /\ plan.aim = 0 => stationOcc[Goal(plan.path)] = v
    /\ \A i \in DOMAIN plan.path :
         \/ v \in lineOcc[plan.path[i]]
         \/ \E j \in DOMAIN plan.lines : plan.lines[j] = plan.path[i]
    /\ \A l \in Line : v \in lineOcc[l] =>
         \E i \in DOMAIN plan.path : l = plan.path[i]
    /\ \A s \in Station : stationOcc[s] = v =>
         s = now[v] \/ (plan.aim = 0 /\ s = Goal(plan.path))
UnderWay(v) ==
    /\ ~cancelled[v]
    /\ stationOcc[Goal(path[v])] = v
    /\ \A i \in DOMAIN path[v] : i > Passed(v) => v \in lineOcc[path[v][i]]
    /\ \A l \in Line : v \in lineOcc[l] =>
         \/ \E i \in DOMAIN path[v] : i > Passed(v) /\ l = path[v][i]
         \/ pc[v] = "freeing" /\ \E i \in DOMAIN toFree[v] : l = toFree[v][i]
    /\ \A s \in Station : stationOcc[s] = v =>
         s = Goal(path[v]) \/ (pc[v] = "ready" /\ s = now[v])
Hold(v) ==
    Clean(v) =>
      /\ pc[v] = "idle" => AtRest(v)
      /\ pc[v] = "idle" /\ plan.agv = v => Planned(v)
      /\ pc[v] # "idle" => UnderWay(v)
HoldInv == \A v \in Vehicle : Hold(v)

\* The vehicle with the last row is one of those it is chosen from: there are
\* finitely many vehicles, so the row of one of them is the greatest.
LEMMA LastRowIsOne ==
    ASSUME NEW vs \in SUBSET Vehicle, vs # {}
    PROVE  LastRow(vs) \in vs
<1>1. IsFiniteSet(vs)
  BY GraphAssumption, FS_Subset DEF Vehicle
<1>2. PICK n \in Nat : ExistsSurjection(1..n, vs)
  BY <1>1, FS_NatSurjection
<1>3. PICK f \in [1..n -> vs] : \A v \in vs : \E i \in 1..n : f[i] = v
  BY <1>2 DEF ExistsSurjection, Surjection
<1>4. n >= 1
  BY <1>2, <1>3
<1>5. \A v \in vs : Row[v] \in Nat
  BY FleetAssumption
<1> DEFINE S == {k \in Nat : k + 1 \in 1..n => \E m \in 1..n :
                   \A i \in 1..(k + 1) : Row[f[i]] <= Row[f[m]]}
<1>6. 0 \in S
  BY <1>3, <1>4, <1>5
<1>7. ASSUME NEW k \in S PROVE k + 1 \in S
  <2> SUFFICES ASSUME (k + 1) + 1 \in 1..n
               PROVE  \E m \in 1..n : \A i \in 1..((k + 1) + 1) :
                         Row[f[i]] <= Row[f[m]]
    OBVIOUS
  <2>1. PICK m \in 1..n : \A i \in 1..(k + 1) : Row[f[i]] <= Row[f[m]]
    OBVIOUS
  <2>2. Row[f[m]] \in Nat /\ Row[f[(k + 1) + 1]] \in Nat
    BY <1>3, <1>5
  <2>3. \A i \in 1..((k + 1) + 1) : i \in 1..(k + 1) \/ i = (k + 1) + 1
    OBVIOUS
  <2>4. \A i \in 1..((k + 1) + 1) : Row[f[i]] \in Nat
    BY <1>3, <1>5
  <2>5. CASE Row[f[(k + 1) + 1]] <= Row[f[m]]
    BY <2>1, <2>3, <2>5
  <2>6. CASE ~(Row[f[(k + 1) + 1]] <= Row[f[m]])
    <3>1. ASSUME NEW i \in 1..(k + 1)
          PROVE  Row[f[i]] <= Row[f[(k + 1) + 1]]
      <4>1. Row[f[i]] <= Row[f[m]] /\ Row[f[i]] \in Nat
        BY <2>1, <2>4
      <4> QED
        BY <2>2, <2>6, <4>1
    <3>2. Row[f[(k + 1) + 1]] <= Row[f[(k + 1) + 1]]
      BY <2>2
    <3> QED
      BY <2>3, <3>1, <3>2
  <2> QED
    BY <2>5, <2>6
<1>8. S = Nat
  <2>1. S \in SUBSET Nat
    OBVIOUS
  <2> HIDE DEF S
  <2> QED
    BY <1>6, <1>7, <2>1, SetInduction
<1>9. PICK m \in 1..n : \A i \in 1..n : Row[f[i]] <= Row[f[m]]
  <2>1. \A k \in S : k + 1 \in 1..n => \E m \in 1..n :
           \A i \in 1..(k + 1) : Row[f[i]] <= Row[f[m]]
    OBVIOUS
  <2> HIDE DEF S
  <2>2. n - 1 \in Nat /\ (n - 1) + 1 = n /\ n \in 1..n
    BY <1>4
  <2>3. PICK k \in S : k + 1 = n
    BY <2>2, <1>8
  <2>4. \E m \in 1..n : \A i \in 1..(k + 1) : Row[f[i]] <= Row[f[m]]
    BY <2>1, <2>2, <2>3
  <2> QED
    BY <2>3, <2>4
<1>10. \A v \in vs : Row[v] <= Row[f[m]]
  BY <1>3, <1>9
<1> QED
  BY <1>3, <1>10 DEF LastRow

LEMMA StationsOfType ==
    ASSUME NEW where
    PROVE  /\ StationsOf(where) \in [Station -> Vehicle \cup {0}]
           /\ \A s \in Station, v \in Vehicle :
                 StationsOf(where)[s] = v => where[v].now = s
<1>1. \A s \in Station :
         LET at == {v \in Vehicle : where[v].now = s}
         IN  at # {} => LastRow(at) \in at
  BY LastRowIsOne
<1>2. 0 \notin Vehicle
  BY GraphAssumption DEF Vehicle
<1> QED
  BY <1>1, <1>2 DEF StationsOf

\* A vehicle that is alone where it is gets its station.
LEMMA StationsOfAlone ==
    ASSUME NEW where, NEW v \in Vehicle, where[v].now \in Station,
           \A w \in Vehicle : where[w].now = where[v].now => w = v
    PROVE  StationsOf(where)[where[v].now] = v
<1> DEFINE at == {w \in Vehicle : where[w].now = where[v].now}
<1>1. at = {v}
  OBVIOUS
<1>2. LastRow(at) \in at
  BY <1>1, LastRowIsOne
<1> QED
  BY <1>1, <1>2 DEF StationsOf

-----------------------------------------------------------------------------
(* Type correctness *)

LEMMA BestPathsShape ==
    ASSUME FleetTypeOK, NEW v \in Vehicle, NEW aim, NEW p \in BestPaths(v, aim)
    PROVE  /\ p # <<>> /\ Simple(p, Line, From(v)) /\ Goal(p) = aim
           /\ StationFree(aim, v)
           /\ \A i \in DOMAIN p : \A r \in Reverse(p[i]) :
                ~OthersAmong(lineOcc[r], v)
<1> DEFINE lines == {l \in Line : Passable(l, v, UturnPoints(From(v), aim))}
<1>1. p \in Search!PathsOver(lines, From(v), aim) /\ StationFree(aim, v)
  BY SamePaths DEF BestPaths, Route!Shortest
<1>2. lines \subseteq Line /\ From(v) \in Station
  BY DEF FleetTypeOK, From
<1>3. \A l \in lines : \A r \in Reverse(l) : ~OthersAmong(lineOcc[r], v)
  BY DEF Passable
<1> HIDE DEF lines
<1>4. Simple(p, lines, From(v)) /\ p # <<>> /\ Goal(p) = aim
  BY <1>1, <1>2, PathsOverAre DEF SimpleTo, Goal
<1>5. p \in Seq(lines) /\ p \in Seq(Line) /\ \A i \in DOMAIN p : p[i] \in lines
  BY <1>2, <1>4 DEF Simple
<1>6. Simple(p, Line, From(v))
  BY <1>4, <1>5 DEF Simple
<1> QED
  BY <1>1, <1>3, <1>4, <1>5, <1>6

\* What onArriveStation frees are stations and lines of the path.
LEMMA BehindShape ==
    ASSUME NEW p \in Seq(Line), NEW n \in 1..Len(p)
    PROVE  /\ Behind(p, n) \in Seq(Station \cup Line)
           /\ \A i \in DOMAIN Behind(p, n) :
                \E k \in 1..n : Behind(p, n)[i] \in {Start(p[k]), p[k]}
           /\ \A k \in 1..n : \E i \in DOMAIN Behind(p, n) :
                Behind(p, n)[i] = p[k]
<1> DEFINE b == [k \in 1..(2 * n) |-> IF k % 2 = 1 THEN Start(p[(k + 1) \div 2])
                                       ELSE p[k \div 2]]
<1>1. n \in Nat /\ 2 * n \in Nat /\ Len(p) \in Nat
  OBVIOUS
<1>2. \A l \in Line : Start(l) \in Station
  BY GraphAssumption DEF Start
<1>3. ASSUME NEW k \in 1..(2 * n)
      PROVE  \E j \in 1..n : b[k] \in {Start(p[j]), p[j]}
  <2>1. CASE k % 2 = 1
    <3>1. (k + 1) \div 2 \in 1..n
      BY <1>1, <2>1
    <3> QED
      BY <2>1, <3>1
  <2>2. CASE k % 2 # 1
    <3>1. k \div 2 \in 1..n
      BY <1>1, <2>2
    <3> QED
      BY <2>2, <3>1
  <2> QED
    BY <2>1, <2>2
<1>4. \A j \in 1..n : p[j] \in Line
  BY <1>1
<1>5. b \in [1..(2 * n) -> Station \cup Line]
  <2>1. \A k \in 1..(2 * n) : b[k] \in Station \cup Line
    <3> HIDE DEF b
    <3> QED
      BY <1>2, <1>3, <1>4
  <2> QED
    BY <2>1
<1>6. ASSUME NEW k \in 1..n
      PROVE  2 * k \in 1..(2 * n) /\ b[2 * k] = p[k]
  <2>1. 2 * k \in 1..(2 * n) /\ (2 * k) % 2 = 0 /\ (2 * k) \div 2 = k
    BY <1>1
  <2> QED
    BY <2>1
<1>7. Behind(p, n) = b /\ DOMAIN b = 1..(2 * n)
  BY DEF Behind
<1> HIDE DEF b
<1>8. b \in Seq(Station \cup Line)
  BY <1>1, <1>5
<1> QED
  BY <1>3, <1>6, <1>7, <1>8

LEMMA TypesInit == Init => FleetTypeOK
<1> SUFFICES ASSUME Init PROVE FleetTypeOK
  OBVIOUS
<1>1. StationsOf(AtHome) \in [Station -> Vehicle \cup {0}]
  BY StationsOfType
<1> QED
  BY <1>1, FleetAssumption DEF Init, FleetTypeOK, AtHome, PCs

LEMMA TailShape ==
    ASSUME NEW S, NEW s \in Seq(S), s # <<>>
    PROVE  /\ \A i \in DOMAIN Tail(s) :
                i + 1 \in DOMAIN s /\ Tail(s)[i] = s[i + 1]
           /\ \A i \in DOMAIN s \ {1} :
                i - 1 \in DOMAIN Tail(s) /\ Tail(s)[i - 1] = s[i]
OBVIOUS

\* Lines and stations, seen one at a time.
LEMMA GraphShape ==
    /\ \A l \in Line : Start(l) \in Station /\ End(l) \in Station
    /\ Station \cap Line = {} /\ 0 \notin Station /\ 0 \notin Line
    /\ 0 \notin Vehicle /\ Operator \notin Vehicle /\ Vehicle \subseteq Agv
BY GraphAssumption DEF Start, End, Vehicle

LEMMA GotoShape ==
    ASSUME NEW v \in Vehicle, NEW a \in PCs, NEW b \in PCs,
           pc \in [Vehicle -> PCs], Goto(v, a, b)
    PROVE  pc' \in [Vehicle -> PCs]
BY DEF Goto

LEMMA GotoInPCs ==
    /\ pc \in [Vehicle -> PCs]
    /\ \E v \in Vehicle :
          \/ Leave(v) \/ GoOn(v) \/ Record(v) \/ Arrive(v) \/ NextStation(v) \/ Finish(v)
    => pc' \in [Vehicle -> PCs]
<1> SUFFICES ASSUME pc \in [Vehicle -> PCs],
                    NEW v \in Vehicle,
                    Leave(v) \/ GoOn(v) \/ Record(v) \/ Arrive(v) \/ NextStation(v) \/ Finish(v)
             PROVE  pc' \in [Vehicle -> PCs]
  OBVIOUS
<1>1. /\ "idle" \in PCs /\ "ready" \in PCs /\ "left" \in PCs
      /\ "moving" \in PCs /\ "freeing" \in PCs /\ "arrived" \in PCs
  BY DEF PCs
<1>2. PICK a \in PCs, b \in PCs : Goto(v, a, b)
  BY <1>1 DEF Leave, GoOn, Record, Arrive, NextStation, Finish
<1> QED
  BY <1>2, GotoShape

LEMMA TypesNext ==
    FleetTypeOK /\ PlanInv /\ WayInv /\ [Next]_vars => FleetTypeOK'
<1> SUFFICES ASSUME FleetTypeOK, PlanInv, WayInv, [Next]_vars PROVE FleetTypeOK'
  OBVIOUS
<1> USE GraphShape DEF FleetTypeOK, mapVars, agvVars, boundVars
<1>1. ASSUME NEW v \in Vehicle, NEW s \in Station, Plan(v, s)
      PROVE  FleetTypeOK'
  <2>1. PICK p \in BestPaths(v, s) :
           plan' = [agv |-> v, aim |-> s, path |-> p, lines |-> p]
    BY <1>1 DEF Plan
  <2>2. p \in Seq(Line)
    BY BestPathsShape DEF Simple
  <2>3. plan' \in Plans
    BY <2>1, <2>2 DEF Plans
  <2> QED
    BY <1>1, <2>3 DEF Plan
<1>2. ASSUME OccupyAim PROVE FleetTypeOK'
  <2>1. plan \in Plans
    BY <1>2 DEF OccupyAim, NoPlan
  <2> QED
    BY <1>2, <2>1 DEF OccupyAim, AddOccuStation, Plans
<1>3. ASSUME OccupyLine PROVE FleetTypeOK'
  <2>1. plan \in Plans
    BY <1>3 DEF OccupyLine, NoPlan
  <2>2. plan.lines \in Seq(Line) /\ plan.lines # <<>>
    BY <1>3, <2>1 DEF OccupyLine, Plans
  <2>3. Head(plan.lines) \in Line /\ Tail(plan.lines) \in Seq(Line)
    BY <2>2
  <2>4. plan' \in Plans
    BY <1>3, <2>1, <2>3 DEF OccupyLine, Plans
  <2>5. lineOcc' \in [Line -> SUBSET Agv]
    BY <1>3, <2>1 DEF OccupyLine, AddOccuLine, Plans
  <2>6. UNCHANGED <<stationOcc, now, last, saved, path, pos, pc, toFree,
                    cancelled, past>>
    BY <1>3 DEF OccupyLine, AddOccuLine
  <2> QED
    BY <2>4, <2>5, <2>6
<1>4. ASSUME Dispatch PROVE FleetTypeOK'
  <2>1. plan \in Plans
    BY <1>4 DEF Dispatch
  <2> QED
    BY <1>4, <2>1 DEF Dispatch, Plans, PCs
<1>5. ASSUME NEW v \in Vehicle, Leave(v) PROVE FleetTypeOK'
  <2>1. pc' \in [Vehicle -> PCs]
    BY <1>5, GotoInPCs
  <2>3. now' \in [Vehicle -> Station \cup {0}]
    BY <1>5 DEF Leave
  <2>2. stationOcc' \in [Station -> Vehicle \cup {0}]
    BY <1>5 DEF Leave, FreeStation
  <2> QED
    BY <1>5, <2>1, <2>2, <2>3 DEF Leave, FreeStation
<1>6. ASSUME NEW v \in Vehicle, GoOn(v) PROVE FleetTypeOK'
  <2>1. pc' \in [Vehicle -> PCs]
    BY <1>6, GotoInPCs
  <2> QED
    BY <1>6, <2>1 DEF GoOn
<1>7. ASSUME NEW v \in Vehicle, Record(v) PROVE FleetTypeOK'
  <2>1. pc' \in [Vehicle -> PCs]
    BY <1>7, GotoInPCs
  <2>2. saved' \in [Vehicle -> [now : Station \cup {0}, last : Station]]
    BY <1>7 DEF Record
  <2> QED
    BY <1>7, <2>1, <2>2 DEF Record
<1>8. ASSUME NEW v \in Vehicle, Arrive(v) PROVE FleetTypeOK'
  <2>1. pos[v] \in 1..Len(path[v]) /\ path[v] \in Seq(Line)
    BY <1>8 DEF Arrive, Goto, Way, WayInv
  <2>2. Behind(path[v], pos[v]) \in Seq(Station \cup Line)
    BY <2>1, BehindShape
  <2>3. Road(v) \in Line
    BY <2>1 DEF Road
  <2>4. pc' \in [Vehicle -> PCs]
    BY <1>8, GotoInPCs
  <2> QED
    BY <1>8, <2>2, <2>3, <2>4 DEF Arrive
<1>9. ASSUME NEW v \in Vehicle, FreeNext(v) PROVE FleetTypeOK'
  <2>1. Tail(toFree[v]) \in Seq(Station \cup Line)
    BY <1>9 DEF FreeNext
  <2>2. toFree' \in [Vehicle -> Seq(Station \cup Line)]
    <3>1. toFree' = [toFree EXCEPT ![v] = Tail(toFree[v])]
      BY <1>9 DEF FreeNext
    <3>2. toFree \in [Vehicle -> Seq(Station \cup Line)]
      OBVIOUS
    <3> QED
      BY <2>1, <3>1, <3>2
  <2>3. \E e : FreeStation(e, v) \/ FreeLine(e, v)
    BY <1>9 DEF FreeNext
  <2>4. /\ lineOcc' \in [Line -> SUBSET Agv]
        /\ stationOcc' \in [Station -> Vehicle \cup {0}]
    <3>1. PICK e : FreeStation(e, v) \/ FreeLine(e, v)
      BY <2>3
    <3>2. CASE FreeStation(e, v)
      BY <3>2 DEF FreeStation
    <3>3. CASE FreeLine(e, v)
      <4>1. lineOcc' = [lineOcc EXCEPT ![e] = lineOcc[e] \ {v}]
        BY <3>3 DEF FreeLine
      <4>2. \A l \in Line : lineOcc'[l] \in SUBSET Agv
        BY <4>1
      <4> QED
        BY <3>3, <4>1, <4>2 DEF FreeLine
    <3> QED
      BY <3>1, <3>2, <3>3
  <2>5. UNCHANGED <<now, last, saved, path, pos, pc, cancelled, plan, past>>
    BY <1>9 DEF FreeNext
  <2> QED
    BY <2>2, <2>4, <2>5
<1>10. ASSUME NEW v \in Vehicle, NextStation(v) PROVE FleetTypeOK'
  <2>1. now[v] # 0
    <3>1. pc[v] = "arrived" /\ Passed(v) = pos[v] /\ pos[v] > 0
      BY <1>10 DEF NextStation, Goto, Passed
    <3>2. pc[v] # "idle" /\ pc[v] \in {"ready", "freeing", "arrived"}
      BY <3>1
    <3> HIDE DEF FleetTypeOK
    <3> QED
      BY <3>1, <3>2 DEF Way, WayInv
  <2>2. last' \in [Vehicle -> Station]
    BY <1>10, <2>1 DEF NextStation
  <2>3. pc' \in [Vehicle -> PCs]
    BY <1>10, GotoInPCs
  <2> QED
    BY <1>10, <2>2, <2>3 DEF NextStation
<1>11. ASSUME NEW v \in Vehicle, Finish(v) PROVE FleetTypeOK'
  <2>1. pc' \in [Vehicle -> PCs]
    BY <1>11, GotoInPCs
  <2> QED
    BY <1>11, <2>1 DEF Finish
<1>12. ASSUME NEW v \in Vehicle, Cancel(v) PROVE FleetTypeOK'
  BY <1>12 DEF Cancel
<1>13. ASSUME SetMap PROVE FleetTypeOK'
  BY <1>13 DEF SetMap
<1>14. ASSUME Restart PROVE FleetTypeOK'
  <2>1. stationOcc' \in [Station -> Vehicle \cup {0}]
    BY <1>14, StationsOfType DEF Restart
  <2>2. /\ now' \in [Vehicle -> Station \cup {0}]
        /\ last' \in [Vehicle -> Station]
    BY <1>14 DEF Restart
  <2>3. saved' \in [Vehicle -> [now : Station \cup {0}, last : Station]]
    BY <1>14, <2>2 DEF Restart
  <2>4. past' \in [Vehicle -> {"clean", "spoilt"}]
    BY <1>14 DEF Restart
  <2> QED
    BY <1>14, <2>1, <2>2, <2>3, <2>4 DEF Restart, PCs
<1>15. ASSUME NEW g \in Group, StopLift(g) PROVE FleetTypeOK'
  BY <1>15, FleetAssumption DEF StopLift
<1>16. ASSUME NEW g \in Group, StartLift(g) PROVE FleetTypeOK'
  BY <1>16 DEF StartLift
<1>17. CASE UNCHANGED vars
  BY <1>17 DEF vars
<1> QED
  BY <1>1, <1>2, <1>3, <1>4, <1>5, <1>6, <1>7, <1>8, <1>9, <1>10, <1>11, <1>12,
     <1>13, <1>14, <1>15, <1>16, <1>17 DEF Next, Distribute, Drive

-----------------------------------------------------------------------------
(* What the distributor is about to occupy *)

\* Steps that occupy nothing and do not move the vehicle of the plan.
LEMMA PlanStays ==
    ASSUME FleetTypeOK, PlanInv, plan' = plan,
           plan # NoPlan => /\ pc'[plan.agv] = "idle"
                            /\ now'[plan.agv] = now[plan.agv]
                            /\ last'[plan.agv] = last[plan.agv],
           \A s \in Station : stationOcc'[s] \in {0, stationOcc[s]},
           \A r \in Line : lineOcc'[r] \subseteq lineOcc[r] \cup {Operator}
    PROVE  PlanInv'
<1> SUFFICES ASSUME plan # NoPlan PROVE PlanInv'
  BY DEF PlanInv
<1>1. plan \in Plans
  BY DEF FleetTypeOK
<1>2. From(plan.agv)' = From(plan.agv)
  BY DEF From
<1>3. plan.aim # 0 => stationOcc'[plan.aim] \in {0, plan.agv}
  BY <1>1 DEF PlanInv, Plans
<1>4. ASSUME NEW i \in DOMAIN plan.lines, NEW r \in Reverse(plan.lines[i])
      PROVE  lineOcc'[r] \ {Operator} \subseteq {plan.agv}
  <2>1. r \in Line
    BY DEF Reverse
  <2>2. lineOcc[r] \ {Operator} \subseteq {plan.agv}
    BY DEF PlanInv
  <2> QED
    BY <2>1, <2>2
<1> QED
  BY <1>2, <1>3, <1>4 DEF PlanInv

LEMMA PlanNext == FleetTypeOK /\ PlanInv /\ [Next]_vars => PlanInv'
<1> SUFFICES ASSUME FleetTypeOK, PlanInv, [Next]_vars PROVE PlanInv'
  OBVIOUS
<1> USE GraphShape DEF mapVars, agvVars, boundVars
<1>1. ASSUME NEW v \in Vehicle, NEW s \in Station, Plan(v, s)
      PROVE  PlanInv'
  <2>1. PICK p \in BestPaths(v, s) :
           plan' = [agv |-> v, aim |-> s, path |-> p, lines |-> p]
    BY <1>1 DEF Plan
  <2>2. /\ p # <<>> /\ Simple(p, Line, From(v)) /\ Goal(p) = s
        /\ StationFree(s, v)
        /\ \A i \in DOMAIN p : \A r \in Reverse(p[i]) :
             ~OthersAmong(lineOcc[r], v)
    BY BestPathsShape
  <2>3. From(v)' = From(v) /\ UNCHANGED <<lineOcc, stationOcc, pc>>
    BY <1>1 DEF Plan, From
  <2>4. pc[v] = "idle"
    BY <1>1 DEF Plan, Idle
  <2> QED
    BY <2>1, <2>2, <2>3, <2>4 DEF PlanInv, Goal, StationFree, OthersAmong
<1>2. ASSUME OccupyAim PROVE PlanInv'
  <2>1. plan # NoPlan /\ plan \in Plans
    BY <1>2 DEF OccupyAim, NoPlan, FleetTypeOK
  <2>2. plan' = [plan EXCEPT !.aim = 0] /\ UNCHANGED <<lineOcc, pc>>
        /\ From(plan.agv)' = From(plan.agv)
    BY <1>2 DEF OccupyAim, AddOccuStation, From
  <2>3. /\ plan'.agv = plan.agv /\ plan'.aim = 0 /\ plan'.path = plan.path
        /\ plan'.lines = plan.lines
    BY <2>1, <2>2 DEF Plans
  <2> QED
    BY <2>1, <2>2, <2>3 DEF PlanInv
<1>3. ASSUME OccupyLine PROVE PlanInv'
  <2>1. plan # NoPlan /\ plan \in Plans /\ plan.aim = 0 /\ plan.lines # <<>>
    BY <1>3 DEF OccupyLine, NoPlan, FleetTypeOK
  <2>2. /\ plan' = [plan EXCEPT !.lines = Tail(plan.lines)] /\ UNCHANGED pc
        /\ From(plan.agv)' = From(plan.agv)
        /\ lineOcc' = [lineOcc EXCEPT ![Head(plan.lines)] = @ \cup {plan.agv}]
    BY <1>3 DEF OccupyLine, AddOccuLine, From
  <2>3. /\ plan'.agv = plan.agv /\ plan'.aim = 0 /\ plan'.path = plan.path
        /\ plan'.lines = Tail(plan.lines)
    BY <2>1, <2>2 DEF Plans
  <2>4. \A i \in DOMAIN Tail(plan.lines) :
           /\ i + 1 \in DOMAIN plan.lines
           /\ Tail(plan.lines)[i] = plan.lines[i + 1]
    <3>1. plan.lines \in Seq(Line) /\ plan.lines # <<>>
      BY <2>1 DEF Plans
    <3> QED
      BY <3>1, TailShape
  <2>5. \A r \in Line : lineOcc'[r] \subseteq lineOcc[r] \cup {plan.agv}
    BY <2>2 DEF FleetTypeOK
  <2>6. ASSUME NEW i \in DOMAIN plan'.lines
        PROVE  /\ \E j \in DOMAIN plan.path : plan'.lines[i] = plan.path[j]
               /\ \A r \in Reverse(plan'.lines[i]) :
                    lineOcc'[r] \ {Operator} \subseteq {plan.agv}
    <3>1. i + 1 \in DOMAIN plan.lines /\ plan'.lines[i] = plan.lines[i + 1]
      BY <2>3, <2>4
    <3>2. \A r \in Reverse(plan.lines[i + 1]) :
            r \in Line /\ lineOcc[r] \ {Operator} \subseteq {plan.agv}
      BY <2>1, <3>1 DEF PlanInv, Reverse
    <3> QED
      BY <2>1, <2>5, <3>1, <3>2 DEF PlanInv
  <2> QED
    BY <2>1, <2>2, <2>3, <2>6 DEF PlanInv
<1>4. ASSUME Dispatch \/ Restart PROVE PlanInv'
  BY <1>4 DEF Dispatch, Restart, PlanInv
<1>5. ASSUME NEW v \in Vehicle, Drive(v) PROVE PlanInv'
  <2>1. pc[v] # "idle" /\ plan' = plan
    BY <1>5 DEF Drive, Leave, GoOn, Record, Arrive, FreeNext, NextStation,
                Finish, Goto
  <2>2. plan # NoPlan => plan.agv \in Vehicle /\ plan.agv # v
    BY <2>1 DEF PlanInv, FleetTypeOK, Plans
  <2>3. \A w \in Vehicle \ {v} :
          pc'[w] = pc[w] /\ now'[w] = now[w] /\ last'[w] = last[w]
    BY <1>5 DEF Drive, Leave, GoOn, Record, Arrive, FreeNext, NextStation,
                Finish, Goto, FleetTypeOK
  <2>4. \/ UNCHANGED <<lineOcc, stationOcc>>
        \/ \E e : FreeStation(e, v) \/ FreeLine(e, v)
    BY <1>5 DEF Drive, Leave, GoOn, Record, Arrive, FreeNext, NextStation,
                Finish
  <2>5. /\ \A s \in Station : stationOcc'[s] \in {0, stationOcc[s]}
        /\ \A r \in Line : lineOcc'[r] \subseteq lineOcc[r]
    BY <2>4 DEF FreeStation, FreeLine, FleetTypeOK
  <2> QED
    BY <2>1, <2>2, <2>3, <2>5, PlanStays DEF PlanInv
<1>6. ASSUME NEW v \in Vehicle, Cancel(v) PROVE PlanInv'
  BY <1>6, PlanStays DEF Cancel, PlanInv
<1>7. ASSUME SetMap PROVE PlanInv'
  BY <1>7, PlanStays DEF SetMap, PlanInv
<1>8. ASSUME NEW g \in Group, StopLift(g) \/ StartLift(g) PROVE PlanInv'
  <2>1. UNCHANGED <<plan, pc, now, last, stationOcc>>
    BY <1>8 DEF StopLift, StartLift
  <2>2. \A r \in Line : lineOcc'[r] \subseteq lineOcc[r] \cup {Operator}
    BY <1>8 DEF StopLift, StartLift
  <2> QED
    BY <2>1, <2>2, PlanStays DEF PlanInv
<1>9. CASE UNCHANGED vars
  BY <1>9, PlanStays DEF vars, PlanInv
<1> QED
  BY <1>1, <1>2, <1>3, <1>4, <1>5, <1>6, <1>7, <1>8, <1>9 DEF Next, Distribute

-----------------------------------------------------------------------------
(* The promises of Reservations *)

\* The users of the lines, as Reservations sees them.
Users == [l \in Line |-> lineOcc[l] \ {Operator}]

LEMMA InitPromise == Init => Reserved!Init
<1> SUFFICES ASSUME Init PROVE Reserved!Init
  OBVIOUS
<1>1. StationsOf(AtHome) \in [Station -> Vehicle \cup {0}]
  BY StationsOfType
<1>2. [l \in Line |-> lineOcc[l] \ {Operator}] = [l \in Line |-> {}]
  BY DEF Init
<1> QED
  BY <1>1, <1>2 DEF Init, Reserved!Init, Reserved!NobodyUses

\* Each step takes or gives up one thing as Reservations allows, or nothing.
LEMMA StepPromise ==
    FleetTypeOK /\ PlanInv /\ [Next]_vars => [Reserved!Next]_(Reserved!vars)
<1> SUFFICES ASSUME FleetTypeOK, PlanInv, [Next]_vars
             PROVE  [Reserved!Next]_(Reserved!vars)
  OBVIOUS
<1> USE GraphShape DEF mapVars, agvVars, boundVars
<1>1. ASSUME UNCHANGED stationOcc, UNCHANGED lineOcc
      PROVE  UNCHANGED Reserved!vars
  BY <1>1 DEF Reserved!vars
<1>2. ASSUME NEW v \in Vehicle, NEW s \in Station, FreeStation(s, v)
      PROVE  [Reserved!Next]_(Reserved!vars)
  <2>1. CASE stationOcc[s] = v
    <3>1. Reserved!GiveStation(v, s)
      BY <1>2, <2>1 DEF FreeStation, Reserved!GiveStation, FleetTypeOK
    <3> QED
      BY <3>1 DEF Reserved!Next
  <2>2. CASE stationOcc[s] # v
    <3>1. UNCHANGED <<stationOcc, lineOcc>>
      BY <1>2, <2>2 DEF FreeStation, FleetTypeOK
    <3> QED
      BY <3>1, <1>1
  <2> QED
    BY <2>1, <2>2
<1>3. ASSUME NEW v \in Vehicle, NEW l \in Line, FreeLine(l, v)
      PROVE  [Reserved!Next]_(Reserved!vars)
  <2>1. Users' = [Users EXCEPT ![l] = @ \ {v}]
    BY <1>3 DEF FreeLine, FleetTypeOK, Users
  <2>2. Reserved!GiveLine(v, l)
    BY <1>3, <2>1 DEF FreeLine, Reserved!GiveLine, Users
  <2> QED
    BY <2>2 DEF Reserved!Next
<1>4. ASSUME OccupyAim PROVE Reserved!Next
  <2>1. plan # NoPlan /\ plan \in Plans /\ plan.aim # 0
    BY <1>4 DEF OccupyAim, NoPlan, FleetTypeOK
  <2>2. plan.agv \in Vehicle /\ plan.aim \in Station
        /\ stationOcc[plan.aim] \in {0, plan.agv}
    BY <2>1 DEF PlanInv, Plans
  <2>3. Reserved!TakeStation(plan.agv, plan.aim)
    BY <1>4, <2>2 DEF OccupyAim, AddOccuStation, Reserved!TakeStation
  <2> QED
    BY <2>2, <2>3 DEF Reserved!Next
<1>5. ASSUME OccupyLine PROVE Reserved!Next
  <2>1. plan # NoPlan /\ plan \in Plans /\ plan.lines # <<>>
    BY <1>5 DEF OccupyLine, NoPlan, FleetTypeOK
  <2>2. PICK v \in Vehicle : v = plan.agv
    BY <2>1 DEF Plans
  <2>3. PICK l \in Line : l = Head(plan.lines)
    BY <2>1 DEF Plans
  <2>4. 1 \in DOMAIN plan.lines /\ l = plan.lines[1]
    BY <2>1, <2>3 DEF Plans
  <2>5. \A r \in Reverse(l) : lineOcc[r] \ {Operator} \subseteq {v}
    BY <2>1, <2>2, <2>4 DEF PlanInv
  <2>6. /\ lineOcc' = [lineOcc EXCEPT ![l] = @ \cup {v}]
        /\ UNCHANGED stationOcc
    BY <1>5, <2>2, <2>3 DEF OccupyLine, AddOccuLine
  <2>7. Users' = [Users EXCEPT ![l] = @ \cup {v}]
    <3>1. \A k \in Line : lineOcc'[k] = IF k = l THEN lineOcc[k] \cup {v}
                                        ELSE lineOcc[k]
      BY <2>6 DEF FleetTypeOK
    <3>2. v # Operator
      OBVIOUS
    <3>3. \A k \in Line : Users'[k] = IF k = l THEN Users[k] \cup {v}
                                      ELSE Users[k]
      BY <3>1, <3>2 DEF Users
    <3> QED
      BY <3>3 DEF Users
  <2>8. \A k \in Reverse(l) \cap Line : Users[k] \subseteq {v}
    BY <2>5 DEF Users
  <2>9. Reserved!TakeLine(v, l)
    BY <2>6, <2>7, <2>8 DEF Reserved!TakeLine, Users
  <2> QED
    BY <2>9 DEF Reserved!Next
<1>6. ASSUME NEW v \in Vehicle, Drive(v)
      PROVE  [Reserved!Next]_(Reserved!vars)
  <2>1. CASE Leave(v)
    <3>1. FreeStation(now[v], v) /\ now[v] \in Station
      BY <2>1 DEF Leave, FleetTypeOK
    <3> QED
      BY <3>1, <1>2
  <2>2. CASE FreeNext(v)
    <3>1. toFree[v] \in Seq(Station \cup Line) /\ toFree[v] # <<>>
      BY <2>2 DEF FreeNext, FleetTypeOK
    <3>2. Head(toFree[v]) \in Station \cup Line
      BY <3>1
    <3>3. \/ \E s \in Station : FreeStation(s, v)
          \/ \E l \in Line : FreeLine(l, v)
      BY <2>2, <3>2 DEF FreeNext
    <3> QED
      BY <3>3, <1>2, <1>3
  <2>3. CASE GoOn(v) \/ Record(v) \/ Arrive(v) \/ NextStation(v) \/ Finish(v)
    BY <2>3, <1>1 DEF GoOn, Record, Arrive, NextStation, Finish
  <2> QED
    BY <1>6, <2>1, <2>2, <2>3 DEF Drive
<1>7. ASSUME SetMap \/ Restart PROVE Reserved!Next
  <2>1. stationOcc' \in [Station -> Vehicle \cup {0}]
    BY <1>7, StationsOfType DEF SetMap, Restart
  <2>2. Users' = [l \in Line |-> {}]
    BY <1>7 DEF SetMap, Restart, Users
  <2>3. Reserved!Reset
    BY <2>1, <2>2 DEF Reserved!Reset, Reserved!NobodyUses, Users
  <2> QED
    BY <2>3 DEF Reserved!Next
<1>8. ASSUME NEW g \in Group, StopLift(g) \/ StartLift(g)
      PROVE  UNCHANGED Reserved!vars
  <2>1. Users' = Users /\ UNCHANGED stationOcc
    BY <1>8 DEF StopLift, StartLift, Users
  <2> QED
    BY <2>1 DEF Reserved!vars, Users
<1>9. ASSUME NEW v \in Vehicle, Cancel(v) PROVE UNCHANGED Reserved!vars
  BY <1>9, <1>1 DEF Cancel
<1>10. ASSUME NEW v \in Vehicle, NEW s \in Station, Plan(v, s) \/ Dispatch
       PROVE  UNCHANGED Reserved!vars
  BY <1>10, <1>1 DEF Plan, Dispatch
<1>11. CASE Dispatch
  BY <1>11, <1>1 DEF Dispatch
<1>12. CASE UNCHANGED vars
  BY <1>12, <1>1 DEF vars
<1> QED
  BY <1>4, <1>5, <1>6, <1>7, <1>8, <1>9, <1>10, <1>11, <1>12
     DEF Next, Distribute

-----------------------------------------------------------------------------
(* Where the vehicles are on their paths *)

\* A vehicle that a step leaves alone is where it was.
Same(v) == /\ pc'[v] = pc[v] /\ path'[v] = path[v] /\ pos'[v] = pos[v]
           /\ now'[v] = now[v] /\ last'[v] = last[v] /\ toFree'[v] = toFree[v]

LEMMA WayStays == ASSUME NEW v, Way(v), Same(v) PROVE Way(v)'
BY DEF Way, Same, Passed, Place, From

\* A step of one vehicle leaves the others alone.
LEMMA DriveIsLocal ==
    ASSUME FleetTypeOK, NEW v \in Vehicle, Drive(v)
    PROVE  /\ \A w \in Vehicle \ {v} : Same(w)
           /\ pc[v] # "idle" /\ path' = path /\ cancelled' = cancelled
           /\ plan' = plan /\ past' = past
BY DEF Drive, Leave, GoOn, Record, Arrive, FreeNext, NextStation, Finish, Goto,
       FleetTypeOK, Same, agvVars

LEMMA WayNext == FleetTypeOK /\ PlanInv /\ WayInv /\ [Next]_vars => WayInv'
<1> SUFFICES ASSUME FleetTypeOK, PlanInv, WayInv, [Next]_vars PROVE WayInv'
  OBVIOUS
<1> USE DEF mapVars, agvVars, boundVars
<1>1. ASSUME NEW v \in Vehicle, Drive(v) PROVE WayInv'
  <2> SUFFICES Way(v)'
    BY <1>1, DriveIsLocal, WayStays DEF WayInv
  <2>0. /\ Way(v) /\ pc \in [Vehicle -> PCs]
        /\ now \in [Vehicle -> Station \cup {0}]
        /\ last \in [Vehicle -> Station] /\ path[v] \in Seq(Line)
        /\ pos \in [Vehicle -> Nat \ {0}]
        /\ toFree \in [Vehicle -> Seq(Station \cup Line)]
        /\ 0 \notin Station
    BY GraphShape DEF WayInv, FleetTypeOK
  <2>1. CASE Leave(v)
    BY <2>0, <2>1 DEF Leave, Goto, Over, Way, Passed, Place, From
  <2>2. CASE GoOn(v)
    BY <2>0, <2>2 DEF GoOn, Goto, Over, Way, Passed, Place, From
  <2>3. CASE Record(v)
    BY <2>0, <2>3 DEF Record, Goto, Way, Passed, Place, From
  <2>4. CASE Arrive(v)
    <3>1. pc[v] = "moving" /\ pc'[v] = "freeing" /\ path' = path /\ pos' = pos
      BY <2>0, <2>4 DEF Arrive, Goto
    <3>2. pos[v] \in 1..Len(path[v])
      BY <2>0, <3>1 DEF Way
    <3>3. now'[v] = End(path[v][pos[v]]) /\ now'[v] # 0
      BY <2>0, <2>4, <3>2, GraphShape DEF Arrive, Road
    <3>4. toFree'[v] = Behind(path[v], pos[v])
      BY <2>0, <2>4 DEF Arrive
    <3>5. \A i \in DOMAIN toFree'[v] : \E k \in 1..pos[v] :
             toFree'[v][i] \in {Start(path[v][k]), path[v][k]}
      <4>1. \A i \in DOMAIN Behind(path[v], pos[v]) : \E k \in 1..pos[v] :
               Behind(path[v], pos[v])[i] \in {Start(path[v][k]), path[v][k]}
        BY <2>0, <3>2, BehindShape
      <4> QED
        BY <3>4, <4>1
    <3> QED
      BY <2>0, <3>1, <3>2, <3>3, <3>5 DEF Way, Passed, Place, From
  <2>5. CASE FreeNext(v)
    <3>1. /\ pc[v] = "freeing" /\ toFree[v] # <<>>
          /\ toFree' = [toFree EXCEPT ![v] = Tail(toFree[v])]
          /\ UNCHANGED <<pc, path, pos, now, last>>
      BY <2>5 DEF FreeNext
    <3>2. toFree'[v] = Tail(toFree[v]) /\ toFree[v] \in Seq(Station \cup Line)
      BY <2>0, <3>1
    <3>3. \A i \in DOMAIN toFree'[v] :
             i + 1 \in DOMAIN toFree[v] /\ toFree'[v][i] = toFree[v][i + 1]
      <4>1. \A i \in DOMAIN Tail(toFree[v]) :
               i + 1 \in DOMAIN toFree[v]
               /\ Tail(toFree[v])[i] = toFree[v][i + 1]
        BY <3>1, <3>2, TailShape
      <4> QED
        BY <3>2, <4>1
    <3>4. pc[v] = "freeing" /\ pc'[v] = "freeing" /\ path' = path /\ pos' = pos /\ now' = now /\ last' = last
      BY <3>1
    <3>5. \A i \in DOMAIN toFree'[v] :
             \E k \in 1..pos[v] : toFree'[v][i] \in {Start(path[v][k]), path[v][k]}
      <4>1. \A i \in DOMAIN toFree[v] :
               \E k \in 1..pos[v] : toFree[v][i] \in {Start(path[v][k]), path[v][k]}
        BY <2>0, <3>4 DEF Way
      <4> QED
        BY <3>3, <4>1
    <3>6. /\ path[v] # <<>> /\ Simple(path[v], Line, Start(path[v][1]))
          /\ Passed(v) <= Len(path[v]) /\ pos[v] <= Len(path[v])
          /\ From(v) = Place(v, Passed(v)) /\ (Passed(v) > 0 => now[v] # 0)
      BY <2>0, <3>4 DEF Way
    <3>7. Passed(v)' = Passed(v) /\ From(v)' = From(v) /\ Place(v, Passed(v))' = Place(v, Passed(v))
      BY <3>4 DEF Passed, Place, From
    <3> QED
      BY <3>4, <3>5, <3>6, <3>7 DEF Way
  <2>6. CASE NextStation(v)
    <3>1. /\ pc[v] = "arrived" /\ pc'[v] = "ready" /\ pos'[v] = pos[v] + 1
          /\ path' = path /\ now' = now
      BY <2>0, <2>6 DEF NextStation, Goto
    <3>2. Passed(v)' = Passed(v) /\ Passed(v) = pos[v] /\ pos[v] \in Nat \ {0}
      BY <2>0, <3>1 DEF Passed
    <3>3. pos[v] <= Len(path[v]) /\ now[v] # 0 /\ now[v] = Place(v, Passed(v))
      BY <2>0, <3>1, <3>2 DEF Way, From
    <3> QED
      BY <2>0, <3>1, <3>2, <3>3 DEF Way, Place, From
  <2>7. CASE Finish(v)
    BY <2>0, <2>7 DEF Finish, Goto, Way
  <2> QED
    BY <1>1, <2>1, <2>2, <2>3, <2>4, <2>5, <2>6, <2>7 DEF Drive
<1>2. CASE Dispatch
  <2>1. plan # NoPlan /\ plan \in Plans
    BY <1>2 DEF Dispatch, FleetTypeOK
  <2>2. PICK v \in Vehicle : v = plan.agv
    BY <2>1 DEF Plans
  <2>3. /\ plan.path # <<>> /\ plan.path \in Seq(Line)
        /\ Simple(plan.path, Line, From(v))
    BY <2>1, <2>2 DEF PlanInv, Plans
  <2>4. From(v) = Start(plan.path[1])
    <3>1. 1 \in DOMAIN plan.path
      BY <2>3
    <3> QED
      BY <2>3, <3>1 DEF Simple
  <2>5. /\ pc'[v] = "ready" /\ path'[v] = plan.path /\ pos'[v] = 1
        /\ UNCHANGED <<now, last, toFree>> /\ \A w \in Vehicle \ {v} : Same(w)
    BY <1>2, <2>2 DEF Dispatch, FleetTypeOK, Same
  <2>6. Way(v)'
    BY <2>3, <2>4, <2>5 DEF Way, Passed, Place, From
  <2> QED
    BY <2>5, <2>6, WayStays DEF WayInv
<1>3. CASE Restart
  BY <1>3 DEF Restart, WayInv, Way
<1>4. ASSUME UNCHANGED <<pc, path, pos, now, last, toFree>> PROVE WayInv'
  BY <1>4, WayStays DEF WayInv, Same
<1>5. CASE UNCHANGED vars \/ SetMap \/ OccupyAim \/ OccupyLine
  BY <1>4, <1>5 DEF vars, SetMap, OccupyAim, OccupyLine
<1>6. ASSUME NEW v \in Vehicle, Cancel(v) PROVE WayInv'
  BY <1>4, <1>6 DEF Cancel
<1>7. ASSUME NEW v \in Vehicle, NEW s \in Station, Plan(v, s) PROVE WayInv'
  BY <1>4, <1>7 DEF Plan
<1>8. ASSUME NEW g \in Group, StopLift(g) \/ StartLift(g) PROVE WayInv'
  BY <1>4, <1>8 DEF StopLift, StartLift
<1> QED
  BY <1>1, <1>2, <1>3, <1>5, <1>6, <1>7, <1>8 DEF Next, Distribute

-----------------------------------------------------------------------------
(* What the vehicles occupy *)

\* A step that changes neither a vehicle, its plan nor what it occupies.
Untouched(v) ==
    /\ Same(v) /\ past'[v] = past[v] /\ cancelled'[v] = cancelled[v]
    /\ \A l \in Line : v \in lineOcc'[l] <=> v \in lineOcc[l]
    /\ \A s \in Station : stationOcc'[s] = v <=> stationOcc[s] = v

LEMMA HoldStays ==
    ASSUME FleetTypeOK, PlanInv, WayInv, NEW v \in Vehicle, Hold(v),
           Untouched(v), plan.agv = v \/ plan'.agv = v => plan' = plan
    PROVE  Hold(v)'
<1> SUFFICES ASSUME Clean(v)'
             PROVE  /\ pc'[v] = "idle" => AtRest(v)'
                    /\ pc'[v] = "idle" /\ plan'.agv = v => Planned(v)'
                    /\ pc'[v] # "idle" => UnderWay(v)'
  BY DEF Hold
<1>1. Clean(v)
  BY DEF Clean, Untouched
<1>2. CASE pc[v] = "idle"
  <2>1. AtRest(v)'
    BY <1>1, <1>2, GraphShape DEF Hold, AtRest, Untouched, Same, FleetTypeOK
  <2>2. ASSUME plan'.agv = v PROVE Planned(v)'
    <3>1. plan' = plan /\ plan.agv = v /\ plan \in Plans /\ plan # NoPlan
      BY <2>2, GraphShape DEF FleetTypeOK, NoPlan
    <3>2. plan.path \in Seq(Line) /\ plan.path # <<>>
      BY <3>1 DEF Plans, PlanInv
    <3>3. /\ \A i \in DOMAIN plan.path : plan.path[i] \in Line
          /\ Goal(plan.path) \in Station
      BY <3>2, GraphShape DEF Goal
    <3>4. Planned(v)
      BY <1>1, <1>2, <3>1 DEF Hold
    <3> QED
      BY <3>1, <3>3, <3>4 DEF Planned, Untouched, Same
  <2> QED
    BY <1>2, <2>1, <2>2 DEF Untouched, Same
<1>3. CASE pc[v] # "idle"
  <2>1. UnderWay(v)
    BY <1>1, <1>3 DEF Hold
  <2>2. path[v] \in Seq(Line) /\ path[v] # <<>>
    BY <1>3 DEF FleetTypeOK, WayInv, Way
  <2>3. /\ \A i \in DOMAIN path[v] : path[v][i] \in Line
        /\ Goal(path[v]) \in Station
    BY <2>2, GraphShape DEF Goal
  <2>4. Passed(v)' = Passed(v)
    BY DEF Passed, Untouched, Same
  <2>5. UnderWay(v)'
    BY <2>1, <2>3, <2>4 DEF UnderWay, Untouched, Same
  <2> QED
    BY <1>3, <2>5 DEF Untouched, Same
<1> QED
  BY <1>2, <1>3

\* A vehicle's step takes nothing from another vehicle.
LEMMA DriveLeavesOthers ==
    ASSUME FleetTypeOK, NEW v \in Vehicle, Drive(v), NEW w \in Vehicle \ {v}
    PROVE  Untouched(w)
<1>1. Same(w) /\ cancelled' = cancelled /\ past' = past
  BY DriveIsLocal
<1>2. \/ UNCHANGED <<lineOcc, stationOcc>>
      \/ \E e : FreeStation(e, v) \/ FreeLine(e, v)
  BY DEF Drive, Leave, GoOn, Record, Arrive, FreeNext, NextStation, Finish,
         mapVars
<1>3. /\ \A l \in Line : w \in lineOcc'[l] <=> w \in lineOcc[l]
      /\ \A s \in Station : stationOcc'[s] = w <=> stationOcc[s] = w
  <2>1. ASSUME NEW e, FreeStation(e, v)
        PROVE  /\ \A s \in Station : stationOcc'[s] = w <=> stationOcc[s] = w
               /\ lineOcc' = lineOcc
    BY <2>1, GraphShape DEF FreeStation, FleetTypeOK
  <2>2. ASSUME NEW e, FreeLine(e, v)
        PROVE  /\ \A l \in Line : w \in lineOcc'[l] <=> w \in lineOcc[l]
               /\ stationOcc' = stationOcc
    BY <2>2 DEF FreeLine, FleetTypeOK
  <2> QED
    BY <1>2, <2>1, <2>2
<1> QED
  BY <1>1, <1>3 DEF Untouched

\* On a path that visits no station twice, what is behind is not ahead.
LEMMA BehindIsNotAhead ==
    ASSUME NEW p, NEW a, Simple(p, Line, a), p # <<>>,
           NEW k \in DOMAIN p
    PROVE  /\ Start(p[k]) # Goal(p)
           /\ \A i \in DOMAIN p : i > k => p[i] # p[k]
<1>1. p \in Seq(Line) /\ DOMAIN p = 1..Len(p) /\ Len(p) \in Nat
      /\ Len(p) \in DOMAIN p
  BY DEF Simple
<1>2. ASSUME NEW i \in DOMAIN p, i > k PROVE p[i] # p[k]
  BY <1>1, <1>2 DEF Simple
<1>3. CASE k = 1
  BY <1>1, <1>3 DEF Simple, Goal
<1>4. CASE k # 1
  <2>1. k - 1 \in DOMAIN p /\ k - 1 # Len(p)
    BY <1>1, <1>4
  <2> QED
    BY <1>1, <1>4, <2>1 DEF Simple, Goal
<1> QED
  BY <1>2, <1>3, <1>4

LEMMA HoldDrive ==
    ASSUME FleetTypeOK, PlanInv, WayInv, NEW v \in Vehicle, Hold(v), Drive(v)
    PROVE  Hold(v)'
<1>1. pc[v] # "idle" /\ path' = path /\ cancelled' = cancelled
      /\ plan' = plan /\ past' = past
  BY DriveIsLocal
<1> SUFFICES ASSUME Clean(v)
             PROVE  /\ pc'[v] = "idle" => AtRest(v)'
                    /\ pc'[v] = "idle" /\ plan'.agv = v => Planned(v)'
                    /\ pc'[v] # "idle" => UnderWay(v)'
  BY <1>1 DEF Hold, Clean
<1> DEFINE p == path[v]
<1>2. UnderWay(v) /\ Way(v)
  BY <1>1 DEF Hold, WayInv
<1>3. /\ p \in Seq(Line) /\ p # <<>> /\ Simple(p, Line, Start(p[1]))
      /\ DOMAIN p = 1..Len(p) /\ Len(p) \in DOMAIN p /\ Len(p) \in Nat
      /\ pos[v] \in Nat \ {0}
  BY <1>1, <1>2 DEF FleetTypeOK, Way
<1>4. /\ \A i \in DOMAIN p : p[i] \in Line /\ Start(p[i]) \in Station
      /\ Goal(p) \in Station
  BY <1>3, GraphShape DEF Goal
<1>5. \A k \in DOMAIN p : /\ Start(p[k]) # Goal(p)
                          /\ \A i \in DOMAIN p : i > k => p[i] # p[k]
  BY <1>3, BehindIsNotAhead
<1> USE GraphShape DEF mapVars, agvVars, boundVars
<1>6. CASE Leave(v)
  <2>1. /\ pc[v] = "ready" /\ pc'[v] = "left" /\ pos' = pos
        /\ now[v] # 0 /\ now'[v] = 0 /\ pos[v] <= Len(p)
    BY <1>6, <1>2 DEF Leave, Goto, Over, UnderWay, FleetTypeOK
  <2>2. now[v] = Start(p[pos[v]])
    <3>1. From(v) = now[v] /\ From(v) = Place(v, pos[v] - 1)
      BY <2>1, <1>2 DEF From, Way, Passed
    <3>2. pos[v] # 1 => pos[v] - 1 # 0 /\ pos[v] \in DOMAIN p
      BY <1>3, <2>1
    <3> QED
      BY <1>3, <2>1, <3>1, <3>2 DEF Place, Simple
  <2>3. now[v] # Goal(p) /\ now[v] \in Station
    BY <1>3, <1>4, <1>5, <2>1, <2>2
  <2>4. /\ stationOcc' = [stationOcc EXCEPT ![now[v]] =
                              IF @ = v THEN 0 ELSE @]
        /\ lineOcc' = lineOcc
    BY <1>6 DEF Leave, FreeStation
  <2>5. \A s \in Station :
           stationOcc'[s] = v <=> stationOcc[s] = v /\ s # now[v]
    BY <2>3, <2>4 DEF FleetTypeOK
  <2>6. Passed(v)' = Passed(v)
    BY <2>1 DEF Passed
  <2> QED
    BY <1>1, <1>2, <1>4, <2>1, <2>3, <2>4, <2>5, <2>6 DEF UnderWay
<1>7. CASE GoOn(v)
  <2>1. /\ pc[v] = "ready" /\ pc'[v] = "moving" /\ pos' = pos
        /\ now[v] = 0 /\ UNCHANGED <<lineOcc, stationOcc>>
    BY <1>7 DEF GoOn, Goto, FleetTypeOK
  <2>2. Passed(v)' = Passed(v)
    BY <2>1 DEF Passed
  <2> QED
    BY <1>1, <1>2, <2>1, <2>2 DEF UnderWay
<1>8. CASE Record(v)
  <2>1. /\ \/ pc[v] = "left" /\ pc'[v] = "moving"
           \/ pc[v] = "freeing" /\ pc'[v] = "arrived" /\ toFree[v] = <<>>
        /\ UNCHANGED <<pos, now, lineOcc, stationOcc, toFree>>
    BY <1>8 DEF Record, Goto, FleetTypeOK
  <2>2. Passed(v)' = Passed(v)
    BY <2>1 DEF Passed
  <2>3. pc[v] = "freeing" => DOMAIN toFree[v] = {}
    BY <2>1
  <2> QED
    BY <1>1, <1>2, <2>1, <2>2, <2>3 DEF UnderWay
<1>9. CASE Arrive(v)
  <2>1. /\ pc[v] = "moving" /\ pc'[v] = "freeing" /\ pos' = pos
        /\ toFree'[v] = Behind(p, pos[v]) /\ UNCHANGED <<lineOcc, stationOcc>>
    BY <1>9 DEF Arrive, Goto, FleetTypeOK
  <2>2. pos[v] \in DOMAIN p
    BY <1>2, <1>3, <2>1 DEF Way
  <2>3. Passed(v) = pos[v] - 1 /\ Passed(v)' = pos[v]
    BY <2>1 DEF Passed
  <2>4. \E i \in DOMAIN toFree'[v] : toFree'[v][i] = p[pos[v]]
    <3>1. pos[v] \in 1..Len(p)
      BY <1>3, <2>2
    <3>2. \E i \in DOMAIN Behind(p, pos[v]) : Behind(p, pos[v])[i] = p[pos[v]]
      BY <1>3, <3>1, BehindShape
    <3> QED
      BY <2>1, <3>2
  <2>5. \A l \in Line : v \in lineOcc[l] =>
           \/ \E i \in DOMAIN p : i > pos[v] /\ l = p[i]
           \/ \E i \in DOMAIN toFree'[v] : l = toFree'[v][i]
    <3>1. \A i \in DOMAIN p : i > pos[v] - 1 => i > pos[v] \/ i = pos[v]
      BY <1>3
    <3> QED
      BY <1>2, <2>1, <2>3, <2>4, <3>1 DEF UnderWay
  <2>6. \A i \in DOMAIN p : i > pos[v] => i > pos[v] - 1
    BY <1>3
  <2> QED
    BY <1>1, <1>2, <2>1, <2>3, <2>5, <2>6 DEF UnderWay
<1>10. CASE FreeNext(v)
  <2> DEFINE e == Head(toFree[v])
  <2>1. /\ pc[v] = "freeing" /\ toFree[v] # <<>>
        /\ toFree[v] \in Seq(Station \cup Line)
        /\ toFree'[v] = Tail(toFree[v])
        /\ UNCHANGED <<pc, pos, now>>
    BY <1>10 DEF FreeNext, FleetTypeOK
  <2>2. e = toFree[v][1] /\ 1 \in DOMAIN toFree[v] /\ e \in Station \cup Line
    BY <2>1
  <2>3. PICK k \in 1..pos[v] : e \in {Start(p[k]), p[k]}
    BY <1>2, <2>1, <2>2 DEF Way
  <2>4. k \in DOMAIN p /\ pos[v] \in DOMAIN p
    BY <1>2, <1>3, <2>1 DEF Way
  <2>5. Passed(v)' = Passed(v) /\ Passed(v) = pos[v]
    BY <2>1 DEF Passed
  <2>6. \A i \in DOMAIN toFree[v] : toFree[v][i] # e =>
           \E j \in DOMAIN toFree'[v] : toFree'[v][j] = toFree[v][i]
    <3> SUFFICES ASSUME NEW i \in DOMAIN toFree[v], toFree[v][i] # e
                 PROVE  \E j \in DOMAIN toFree'[v] :
                           toFree'[v][j] = toFree[v][i]
      OBVIOUS
    <3>1. i # 1
      BY <2>2
    <3>2. i - 1 \in DOMAIN Tail(toFree[v])
          /\ Tail(toFree[v])[i - 1] = toFree[v][i]
      BY <2>1, <3>1, TailShape
    <3> QED
      BY <2>1, <3>2
  <2>7. ASSUME NEW l \in Line, v \in lineOcc[l], l # e
        PROVE  \/ \E i \in DOMAIN p : i > pos[v] /\ l = p[i]
               \/ \E i \in DOMAIN toFree'[v] : l = toFree'[v][i]
    <3>1. \/ \E i \in DOMAIN p : i > pos[v] /\ l = p[i]
          \/ \E i \in DOMAIN toFree[v] : l = toFree[v][i]
      BY <1>2, <2>5, <2>7 DEF UnderWay
    <3> HIDE DEF e
    <3> QED
      BY <2>6, <2>7, <3>1
  <2>8. CASE e \in Station
    <3>1. /\ stationOcc' = [stationOcc EXCEPT ![e] = IF @ = v THEN 0 ELSE @]
          /\ lineOcc' = lineOcc
      BY <1>10, <2>8 DEF FreeNext, FreeStation
    <3>2. e # Goal(p)
      BY <1>4, <1>5, <2>3, <2>4, <2>8
    <3>3. \A s \in Station : stationOcc'[s] = v <=> stationOcc[s] = v /\ s # e
      BY <2>8, <3>1 DEF FleetTypeOK
    <3>4. \A l \in Line : l # e
      BY <2>8
    <3> HIDE DEF e
    <3> QED
      BY <1>1, <1>2, <1>4, <2>1, <2>5, <2>7, <3>1, <3>2, <3>3, <3>4
         DEF UnderWay
  <2>9. CASE e \notin Station
    <3>1. /\ lineOcc' = [lineOcc EXCEPT ![e] = @ \ {v}]
          /\ stationOcc' = stationOcc
      BY <1>10, <2>9 DEF FreeNext, FreeLine
    <3>2. \A l \in Line : v \in lineOcc'[l] <=> v \in lineOcc[l] /\ l # e
      BY <3>1 DEF FleetTypeOK
    <3>3. e = p[k]
      BY <1>4, <2>3, <2>4, <2>9
    <3>4. \A i \in DOMAIN p : i > pos[v] => p[i] # e
      <4>1. \A i \in DOMAIN p : i > pos[v] => i > k
        BY <1>3
      <4> QED
        BY <1>5, <2>4, <3>3, <4>1
    <3> HIDE DEF e
    <3> QED
      BY <1>1, <1>2, <1>4, <2>1, <2>5, <2>7, <3>1, <3>2, <3>4 DEF UnderWay
  <2> QED
    BY <2>8, <2>9
<1>11. CASE NextStation(v)
  <2>1. /\ pc[v] = "arrived" /\ pc'[v] = "ready" /\ pos'[v] = pos[v] + 1
        /\ UNCHANGED <<now, lineOcc, stationOcc>>
    BY <1>11 DEF NextStation, Goto, FleetTypeOK
  <2>2. Passed(v) = pos[v] /\ Passed(v)' = pos[v]
    BY <1>3, <2>1 DEF Passed
  <2> QED
    BY <1>1, <1>2, <2>1, <2>2 DEF UnderWay
<1>12. CASE Finish(v)
  <2>1. /\ pc[v] = "ready" /\ pos[v] > Len(p) /\ pc'[v] = "idle"
        /\ UNCHANGED <<pos, now, lineOcc, stationOcc>>
    BY <1>12, <1>2 DEF Finish, Goto, Over, UnderWay, FleetTypeOK
  <2>2. Passed(v) = pos[v] - 1 /\ Passed(v) = Len(p) /\ Len(p) > 0
    BY <1>2, <1>3, <2>1 DEF Passed, Way
  <2>3. now[v] = Goal(p)
    BY <1>2, <1>3, <2>1, <2>2 DEF Way, From, Place, Goal
  <2>4. \A i \in DOMAIN p : ~(i > Passed(v))
    BY <1>3, <2>2
  <2>5. /\ stationOcc[now[v]] = v
        /\ \A l \in Line : v \notin lineOcc[l]
        /\ \A s \in Station : stationOcc[s] = v => s = now[v]
    BY <1>2, <2>1, <2>3, <2>4 DEF UnderWay
  <2>6. plan.agv # v
    BY <1>1 DEF PlanInv, NoPlan
  <2> QED
    BY <1>1, <2>1, <2>5, <2>6 DEF AtRest
<1> QED
  BY <1>6, <1>7, <1>8, <1>9, <1>10, <1>11, <1>12 DEF Drive

LEMMA HoldPlan ==
    ASSUME FleetTypeOK, PlanInv, WayInv, HoldInv, Distribute
    PROVE  HoldInv'
<1> USE GraphShape DEF mapVars, agvVars, boundVars
<1>1. ASSUME NEW v \in Vehicle, NEW s \in Station, Plan(v, s) PROVE HoldInv'
  <2>1. PICK p \in BestPaths(v, s) :
           plan' = [agv |-> v, aim |-> s, path |-> p, lines |-> p]
    BY <1>1 DEF Plan
  <2>2. /\ plan = NoPlan /\ plan.agv = 0 /\ pc[v] = "idle"
        /\ UNCHANGED <<lineOcc, stationOcc, now, last, path, pos, pc, toFree,
                       cancelled, past>>
    BY <1>1 DEF Plan, Idle, NoPlan
  <2>3. \A w \in Vehicle : Untouched(w)
    BY <2>2 DEF Untouched, Same
  <2>4. \A w \in Vehicle \ {v} : Hold(w)'
    BY <2>1, <2>2, <2>3, HoldStays DEF HoldInv
  <2>5. ASSUME Clean(v)' PROVE AtRest(v)' /\ Planned(v)'
    <3>1. AtRest(v) /\ plan.agv # v
      BY <2>2, <2>5 DEF HoldInv, Hold, Clean
    <3>2. plan'.aim # 0 /\ plan'.agv = v /\ plan'.path = plan'.lines
      BY <2>1
    <3> QED
      BY <2>2, <3>1, <3>2 DEF AtRest, Planned
  <2>6. Hold(v)'
    BY <2>2, <2>5 DEF Hold
  <2> QED
    BY <2>4, <2>6 DEF HoldInv
<1>2. CASE OccupyAim
  <2>1. plan # NoPlan /\ plan \in Plans /\ plan.aim # 0
    BY <1>2 DEF OccupyAim, NoPlan, FleetTypeOK
  <2>2. PICK v \in Vehicle : v = plan.agv
    BY <2>1 DEF Plans
  <2>3. /\ plan.aim \in Station /\ plan.aim = Goal(plan.path)
        /\ stationOcc[plan.aim] \in {0, v} /\ pc[v] = "idle"
    BY <2>1, <2>2 DEF PlanInv, Plans, Goal
  <2>4. /\ stationOcc' = [stationOcc EXCEPT ![plan.aim] = v]
        /\ UNCHANGED <<lineOcc, now, last, path, pos, pc, toFree, cancelled,
                       past>>
    BY <1>2, <2>2 DEF OccupyAim, AddOccuStation
  <2>5. /\ plan'.agv = v /\ plan'.aim = 0 /\ plan'.path = plan.path
        /\ plan'.lines = plan.lines
    BY <1>2, <2>1, <2>2 DEF OccupyAim, Plans
  <2>6. \A s \in Station : stationOcc'[s] = IF s = plan.aim THEN v
                                            ELSE stationOcc[s]
    BY <2>4 DEF FleetTypeOK
  <2>7. ASSUME NEW w \in Vehicle \ {v} PROVE Hold(w)'
    <3>1. Untouched(w)
      BY <2>3, <2>4, <2>6 DEF Untouched, Same
    <3> QED
      BY <2>2, <2>5, <3>1, HoldStays DEF HoldInv
  <2>8. ASSUME Clean(v)' PROVE AtRest(v)' /\ Planned(v)'
    <3>1. AtRest(v) /\ Planned(v)
      BY <2>2, <2>3, <2>4, <2>8 DEF HoldInv, Hold, Clean
    <3>2. now[v] \in Station \cup {0}
      BY DEF FleetTypeOK
    <3>3. AtRest(v)'
      BY <2>4, <2>5, <2>6, <3>1, <3>2 DEF AtRest
    <3>4. Planned(v)'
      BY <2>1, <2>3, <2>4, <2>5, <2>6, <3>1 DEF Planned
    <3> QED
      BY <3>3, <3>4
  <2>9. Hold(v)'
    BY <2>3, <2>4, <2>8 DEF Hold
  <2> QED
    BY <2>7, <2>9 DEF HoldInv
<1>3. CASE OccupyLine
  <2>1. plan # NoPlan /\ plan \in Plans /\ plan.aim = 0 /\ plan.lines # <<>>
    BY <1>3 DEF OccupyLine, NoPlan, FleetTypeOK
  <2>2. PICK v \in Vehicle : v = plan.agv
    BY <2>1 DEF Plans
  <2>3. plan.lines \in Seq(Line) /\ pc[v] = "idle"
    BY <2>1, <2>2 DEF PlanInv, Plans
  <2>4. PICK l \in Line : l = plan.lines[1]
    BY <2>1, <2>3
  <2>5. 1 \in DOMAIN plan.lines /\ Head(plan.lines) = l
    BY <2>1, <2>3, <2>4
  <2>6. /\ lineOcc' = [lineOcc EXCEPT ![l] = @ \cup {v}]
        /\ UNCHANGED <<stationOcc, now, last, path, pos, pc, toFree, cancelled,
                       past>>
    BY <1>3, <2>2, <2>5 DEF OccupyLine, AddOccuLine
  <2>7. /\ plan'.agv = v /\ plan'.aim = 0 /\ plan'.path = plan.path
        /\ plan'.lines = Tail(plan.lines)
    BY <1>3, <2>1, <2>2 DEF OccupyLine, Plans
  <2>8. \A k \in Line : lineOcc'[k] = IF k = l THEN lineOcc[k] \cup {v}
                                      ELSE lineOcc[k]
    BY <2>6 DEF FleetTypeOK
  <2>9. ASSUME NEW w \in Vehicle \ {v} PROVE Hold(w)'
    <3>1. Untouched(w)
      BY <2>6, <2>8 DEF Untouched, Same
    <3> QED
      BY <2>2, <2>7, <3>1, HoldStays DEF HoldInv
  <2>10. ASSUME Clean(v)' PROVE AtRest(v)' /\ Planned(v)'
    <3>1. AtRest(v) /\ Planned(v)
      BY <2>2, <2>3, <2>6, <2>10 DEF HoldInv, Hold, Clean
    <3>2. AtRest(v)'
      BY <2>6, <2>7, <3>1 DEF AtRest
    <3>3. \A j \in DOMAIN plan.lines : plan.lines[j] # l =>
             \E k \in DOMAIN plan'.lines : plan'.lines[k] = plan.lines[j]
      <4> SUFFICES ASSUME NEW j \in DOMAIN plan.lines, plan.lines[j] # l
                   PROVE  \E k \in DOMAIN plan'.lines :
                             plan'.lines[k] = plan.lines[j]
        OBVIOUS
      <4>1. j # 1
        BY <2>4
      <4>2. j - 1 \in DOMAIN Tail(plan.lines)
            /\ Tail(plan.lines)[j - 1] = plan.lines[j]
        BY <2>1, <2>3, <4>1, TailShape
      <4> QED
        BY <2>7, <4>2
    <3>4. \A i \in DOMAIN plan.path : plan.path[i] \in Line
      BY <2>1 DEF Plans
    <3>5. \E i \in DOMAIN plan.path : l = plan.path[i]
      BY <2>1, <2>4, <2>5 DEF PlanInv
    <3>6. \A i \in DOMAIN plan.path :
             \/ v \in lineOcc'[plan.path[i]]
             \/ \E j \in DOMAIN plan'.lines : plan'.lines[j] = plan.path[i]
      <4> SUFFICES ASSUME NEW i \in DOMAIN plan.path,
                          v \notin lineOcc'[plan.path[i]]
                   PROVE  \E j \in DOMAIN plan'.lines :
                             plan'.lines[j] = plan.path[i]
        OBVIOUS
      <4>1. plan.path[i] # l /\ v \notin lineOcc[plan.path[i]]
        BY <2>8, <3>4
      <4>2. PICK j \in DOMAIN plan.lines : plan.lines[j] = plan.path[i]
        BY <3>1, <4>1 DEF Planned
      <4>3. \E k \in DOMAIN plan'.lines : plan'.lines[k] = plan.lines[j]
        BY <3>3, <4>1, <4>2
      <4> QED
        BY <4>2, <4>3
    <3>7. \A k \in Line : v \in lineOcc'[k] =>
             \E i \in DOMAIN plan.path : k = plan.path[i]
      BY <2>8, <3>1, <3>5 DEF Planned
    <3>8. Planned(v)'
      BY <2>1, <2>6, <2>7, <3>1, <3>6, <3>7 DEF Planned
    <3> QED
      BY <3>2, <3>8
  <2>11. Hold(v)'
    BY <2>3, <2>6, <2>10 DEF Hold
  <2> QED
    BY <2>9, <2>11 DEF HoldInv
<1>4. CASE Dispatch
  <2>1. plan # NoPlan /\ plan \in Plans /\ plan.aim = 0 /\ plan.lines = <<>>
    BY <1>4 DEF Dispatch, FleetTypeOK
  <2>2. PICK v \in Vehicle : v = plan.agv
    BY <2>1 DEF Plans
  <2>3. pc[v] = "idle" /\ DOMAIN plan.lines = {} /\ plan.path \in Seq(Line)
    BY <2>1, <2>2 DEF PlanInv, Plans
  <2>4. /\ pc'[v] = "ready" /\ path'[v] = plan.path /\ pos'[v] = 1
        /\ ~cancelled'[v] /\ plan' = NoPlan
        /\ UNCHANGED <<lineOcc, stationOcc, now, past>>
    BY <1>4, <2>2 DEF Dispatch, FleetTypeOK
  <2>5. ASSUME NEW w \in Vehicle \ {v} PROVE Hold(w)'
    <3>1. Untouched(w)
      BY <1>4, <2>2 DEF Dispatch, FleetTypeOK, Untouched, Same
    <3>2. plan.agv # w /\ plan'.agv # w
      BY <2>2, <2>4 DEF NoPlan
    <3> QED
      BY <3>1, <3>2, HoldStays DEF HoldInv
  <2>6. ASSUME Clean(v)' PROVE UnderWay(v)'
    <3>1. Planned(v)
      BY <2>2, <2>3, <2>4, <2>6 DEF HoldInv, Hold, Clean
    <3>2. Passed(v)' = 0
      BY <2>4 DEF Passed
    <3>3. \A i \in DOMAIN plan.path : i > 0
      BY <2>3
    <3> QED
      BY <2>1, <2>3, <2>4, <3>1, <3>2, <3>3 DEF UnderWay, Planned
  <2>7. Hold(v)'
    BY <2>4, <2>6 DEF Hold
  <2> QED
    BY <2>5, <2>7 DEF HoldInv
<1> QED
  BY <1>1, <1>2, <1>3, <1>4 DEF Distribute

LEMMA HoldNext ==
    FleetTypeOK /\ PlanInv /\ WayInv /\ HoldInv /\ [Next]_vars => HoldInv'
<1> SUFFICES ASSUME FleetTypeOK, PlanInv, WayInv, HoldInv, [Next]_vars
             PROVE  HoldInv'
  OBVIOUS
<1> USE GraphShape DEF mapVars, agvVars, boundVars
<1>1. CASE Distribute
  BY <1>1, HoldPlan
<1>2. ASSUME NEW v \in Vehicle, Drive(v) PROVE HoldInv'
  <2>1. Hold(v)'
    BY <1>2, HoldDrive DEF HoldInv
  <2>2. ASSUME NEW w \in Vehicle \ {v} PROVE Hold(w)'
    BY <1>2, DriveIsLocal, DriveLeavesOthers, HoldStays DEF HoldInv
  <2> QED
    BY <2>1, <2>2 DEF HoldInv
<1>3. ASSUME NEW v \in Vehicle, Cancel(v) PROVE HoldInv'
  <2>1. ~Clean(v)'
    BY <1>3 DEF Cancel, Clean, FleetTypeOK
  <2>2. ASSUME NEW w \in Vehicle \ {v} PROVE Untouched(w) /\ plan' = plan
    BY <1>3 DEF Cancel, Untouched, Same, FleetTypeOK
  <2>3. \A w \in Vehicle \ {v} : Hold(w)'
    BY <2>2, HoldStays DEF HoldInv
  <2> QED
    BY <2>1, <2>3 DEF HoldInv, Hold
<1>4. CASE SetMap
  <2>1. \A v \in Vehicle : ~Clean(v)'
    BY <1>4 DEF SetMap, Clean
  <2> QED
    BY <2>1 DEF HoldInv, Hold
<1>5. CASE Restart
  <2> SUFFICES ASSUME NEW v \in Vehicle, Clean(v)' PROVE AtRest(v)'
    BY <1>5 DEF HoldInv, Hold, Restart, NoPlan
  <2>1. /\ stationOcc' = StationsOf(saved) /\ now'[v] = saved[v].now
        /\ \A l \in Line : v \notin lineOcc'[l]
    BY <1>5 DEF Restart
  <2>2. \A s \in Station : stationOcc'[s] = v => s = now'[v]
    BY <2>1, StationsOfType
  <2>3. ASSUME now'[v] # 0 PROVE stationOcc'[now'[v]] = v
    <3>1. saved[v].now \in Station
      BY <2>1, <2>3 DEF FleetTypeOK
    <3>2. \A w \in Vehicle : now'[w] = saved[w].now
      BY <1>5 DEF Restart
    <3>3. \A w \in Vehicle : saved[w].now = saved[v].now => w = v
      BY <1>5, <2>3, <3>2 DEF Restart, Clean
    <3> QED
      BY <2>1, <3>1, <3>3, StationsOfAlone
  <2> QED
    BY <2>1, <2>2, <2>3 DEF AtRest
<1>6. ASSUME NEW g \in Group, StopLift(g) \/ StartLift(g) PROVE HoldInv'
  <2>1. /\ UNCHANGED <<stationOcc, plan, past>> /\ UNCHANGED agvVars
        /\ \A v \in Vehicle, l \in Line : v \in lineOcc'[l] <=> v \in lineOcc[l]
    BY <1>6 DEF StopLift, StartLift
  <2>2. \A v \in Vehicle : Untouched(v)
    BY <2>1 DEF Untouched, Same
  <2> QED
    BY <2>1, <2>2, HoldStays DEF HoldInv
<1>7. CASE UNCHANGED vars
  <2>1. plan' = plan /\ \A v \in Vehicle : Untouched(v)
    BY <1>7 DEF vars, Untouched, Same
  <2> QED
    BY <2>1, HoldStays DEF HoldInv
<1> QED
  BY <1>1, <1>2, <1>3, <1>4, <1>5, <1>6, <1>7 DEF Next

-----------------------------------------------------------------------------
(* Theorems *)

IInv == FleetTypeOK /\ PlanInv /\ WayInv /\ HoldInv

LEMMA InitInv == Init => IInv
<1> SUFFICES ASSUME Init PROVE IInv
  OBVIOUS
<1>1. FleetTypeOK
  BY TypesInit
<1>2. PlanInv /\ WayInv
  BY DEF Init, PlanInv, WayInv, Way
<1>3. ASSUME NEW v \in Vehicle PROVE AtRest(v)
  <2>1. AtHome[v].now = Home[v] /\ Home[v] \in Station
        /\ \A w \in Vehicle : AtHome[w].now = AtHome[v].now => w = v
    BY FleetAssumption DEF AtHome
  <2>2. StationsOf(AtHome)[Home[v]] = v
    BY <2>1, StationsOfAlone
  <2>3. \A s \in Station : StationsOf(AtHome)[s] = v => s = Home[v]
    BY <2>1, StationsOfType
  <2> QED
    BY <2>2, <2>3 DEF Init, AtRest
<1>4. HoldInv
  BY <1>3, GraphShape DEF Init, HoldInv, Hold, NoPlan
<1> QED
  BY <1>1, <1>2, <1>4 DEF IInv

LEMMA InvAlways == Spec => []IInv
<1>1. IInv /\ [Next]_vars => IInv'
  BY TypesNext, PlanNext, WayNext, HoldNext DEF IInv
<1> QED
  BY InitInv, <1>1, PTL DEF Spec

\* The state of the map and of every vehicle is of the kind the code declares.
THEOREM FleetTypeCorrect == Spec => []FleetTypeOK
BY InvAlways, PTL DEF IInv

\* The occupancy keeps the promises of Reservations, whatever the map, the
\* paths, the cancelled tasks and the upsets: nobody takes another's station
\* or a line whose opposite another has, although the search for a path
\* (mapmanager.cpp:119-232) is over when its lines are occupied.
THEOREM PromiseKept == Spec => Promise
<1>1. Init => Reserved!Init
  BY InitPromise
<1>2. IInv /\ [Next]_vars => [Reserved!Next]_(Reserved!vars)
  BY StepPromise DEF IInv
<1> QED
  BY <1>1, <1>2, InvAlways, PTL DEF Spec, Promise, Reserved!Spec

\* A vehicle under way holds what is ahead of it, on every map: what it gives
\* up when it leaves and when it arrives (agv.cpp:77-122) is behind it,
\* because no path visits a station twice.
THEOREM HoldsWhatItNeedsAlways == Spec => []HoldsWhatItNeeds
<1>1. IInv => HoldsWhatItNeeds
  <2> SUFFICES ASSUME IInv, NEW v \in Vehicle, Clean(v),
                      pc[v] \notin {"idle", "freeing", "arrived"}
               PROVE  /\ \A l \in Ahead(v) : v \in lineOcc[l]
                      /\ stationOcc[End(path[v][Len(path[v])])] = v
    BY DEF HoldsWhatItNeeds
  <2>1. UnderWay(v) /\ Passed(v) = pos[v] - 1 /\ pos[v] \in Nat \ {0}
        /\ path[v] \in Seq(Line)
    BY DEF IInv, HoldInv, Hold, Passed, FleetTypeOK
  <2>2. \A i \in pos[v]..Len(path[v]) :
           i \in DOMAIN path[v] /\ i > Passed(v)
    BY <2>1
  <2> QED
    BY <2>1, <2>2 DEF UnderWay, Ahead, Goal
<1> QED
  BY <1>1, InvAlways, PTL

\* A vehicle without a task occupies no line and no station but its own, and
\* that one it does occupy, after a crash too: onArriveStation frees all that
\* a path has occupied, station by station (agv.cpp:122).
THEOREM NothingKeptAlways == Spec => []NothingKept
<1>1. IInv => NothingKept
  BY DEF IInv, HoldInv, Hold, AtRest, NothingKept
<1> QED
  BY <1>1, InvAlways, PTL

\* Steps that keep what Reservations promises keep two vehicles apart.
LEMMA HeadOnNext ==
    ASSUME FleetTypeOK, NoHeadOn, [Reserved!Next]_(Reserved!vars)
    PROVE  NoHeadOn'
<1>1. Users \in [Line -> SUBSET Vehicle]
  BY DEF Users, FleetTypeOK, Vehicle
<1>2. \A l \in Line : \A k \in Reverse(l) : k \in Line /\ l \in Reverse(k)
  BY DEF Reverse
<1>3. \A v \in Vehicle, l \in Line : v \in lineOcc[l] <=> v \in Users[l]
  BY DEF Users, Vehicle
<1>4. \A v \in Vehicle, l \in Line : v \in lineOcc'[l] <=> v \in Users'[l]
  BY DEF Users, Vehicle
<1>5. \A l \in Line : \A k \in Reverse(l) : \A v \in Users[l], w \in Users[k] : v = w
  BY <1>1, <1>2, <1>3 DEF NoHeadOn
<1>6. SUFFICES ASSUME NEW l \in Line, NEW k \in Reverse(l), NEW v \in Vehicle, NEW w \in Vehicle,
                      v \in Users'[l], w \in Users'[k]
               PROVE  v = w
  BY <1>2, <1>4 DEF NoHeadOn
<1>7. ASSUME UNCHANGED Users PROVE v = w
  BY <1>5, <1>6, <1>7
<1>8. ASSUME NEW a \in Vehicle, NEW m \in Line, Reserved!TakeLine(a, m) PROVE v = w
  <2>1. /\ \A r \in Reverse(m) \cap Line : Users[r] \subseteq {a}
        /\ Users' = [Users EXCEPT ![m] = @ \cup {a}]
    BY <1>8 DEF Reserved!TakeLine, Users
  <2>2. /\ v \in Users[l] \/ (l = m /\ v = a)
        /\ w \in Users[k] \/ (k = m /\ w = a)
    BY <1>1, <1>2, <1>6, <2>1
  <2> QED
    BY <1>2, <1>5, <2>1, <2>2
<1>9. ASSUME NEW a \in Vehicle, NEW m \in Line, Reserved!GiveLine(a, m) PROVE v = w
  <2>1. Users' = [Users EXCEPT ![m] = @ \ {a}]
    BY <1>9 DEF Reserved!GiveLine, Users
  <2>2. v \in Users[l] /\ w \in Users[k]
    BY <1>1, <1>2, <1>6, <2>1
  <2> QED
    BY <1>5, <2>2
<1>10. ASSUME Reserved!Reset PROVE v = w
  <2>1. Users' = [m \in Line |-> {}]
    BY <1>10 DEF Reserved!Reset, Reserved!NobodyUses, Users
  <2> QED
    BY <1>6, <2>1
<1>11. ASSUME NEW a \in Vehicle, NEW s \in Station,
              Reserved!TakeStation(a, s) \/ Reserved!GiveStation(a, s)
       PROVE  v = w
  BY <1>7, <1>11 DEF Reserved!TakeStation, Reserved!GiveStation, Users
<1>12. ASSUME UNCHANGED Reserved!vars PROVE v = w
  BY <1>7, <1>12 DEF Reserved!vars, Users
<1> QED
  BY <1>8, <1>9, <1>10, <1>11, <1>12 DEF Reserved!Next

\* A line and its opposite are never recorded as occupied by two vehicles, on
\* any map and whatever is cancelled or crashes: what pathPassable asks before
\* the lines are occupied is still true then (mapmanager.cpp:692-712).
THEOREM NoHeadOnAlways == Spec => []NoHeadOn
<1>1. Init => NoHeadOn
  BY DEF Init, NoHeadOn, Vehicle
<1>2. IInv /\ NoHeadOn /\ [Next]_vars => NoHeadOn'
  BY StepPromise, HeadOnNext DEF IInv
<1> QED
  BY <1>1, <1>2, InvAlways, PTL DEF Spec

\* No vehicle on its way has a line before it whose opposite another one drives
\* or has before it, on any map, as long as no cancel and no new map took from
\* either what it occupied: the records say who drives where, and they hold no
\* line both ways (mapmanager.cpp:692-712, agv.cpp:77-122).
THEOREM NobodyMeetsAlways == Spec => []NobodyMeets
<1>1. ASSUME IInv, NEW v \in Vehicle, Clean(v), NEW l \in ToDrive(v)
      PROVE  l \in Line /\ v \in lineOcc[l]
  <2>1. UnderWay(v) /\ pos[v] \in Nat \ {0} /\ path[v] \in Seq(Line)
    BY <1>1 DEF IInv, HoldInv, Hold, ToDrive, FleetTypeOK
  <2>2. PICK i \in 1..Len(path[v]) : i > Passed(v) /\ l = path[v][i]
    BY <1>1, <2>1 DEF ToDrive, Ahead, Passed
  <2>3. i \in DOMAIN path[v] /\ path[v][i] \in Line
    BY <2>1
  <2> QED
    BY <2>1, <2>2, <2>3 DEF UnderWay
<1>2. IInv /\ NoHeadOn => NobodyMeets
  <2> SUFFICES ASSUME IInv, NoHeadOn, NEW v \in Vehicle, NEW w \in Vehicle, v # w,
                      Clean(v), Clean(w), NEW l \in ToDrive(v), NEW k \in ToDrive(w),
                      k \in Reverse(l)
               PROVE  FALSE
    BY DEF NobodyMeets
  <2>1. l \in Line /\ v \in lineOcc[l] /\ w \in lineOcc[k]
    BY <1>1
  <2> QED
    BY <2>1 DEF NoHeadOn
<1> QED
  BY <1>2, InvAlways, NoHeadOnAlways, PTL

-----------------------------------------------------------------------------
(* Fleet rests on PathSearch *)

LEMMA SameShortest == \A ps : Route!Shortest(ps) = Search!Shortest(ps)
  BY DEF Route!Shortest, Route!LengthOf, Search!Shortest, Search!LengthOf

\* What a search for a vehicle answers when it is done is what Fleet lets the
\* distributor choose from: one of BestPaths, or nothing when there is none.
SearchServes ==
    phase = "done" /\ goal = "path" /\ from # to /\ ~modifying =>
      \A v \in Vehicle : v = agv /\ From(v) = from =>
        IF BestPaths(v, to) = {} THEN result = <<>>
                                 ELSE result \in BestPaths(v, to)

\* Fleet's distributor may take the answer of getBestPath for granted, on every
\* map and whoever occupies what (taskmanager.cpp:257).
THEOREM SearchServesFleet == SearchSpec => []SearchServes
<1>1. ASSUME SearchTypeOK, AnswerInv, phase = "done", goal = "path", from # to,
             ~modifying, NEW v \in Vehicle, v = agv, From(v) = from
      PROVE  IF BestPaths(v, to) = {} THEN result = <<>>
                                      ELSE result \in BestPaths(v, to)
  <2> DEFINE ps == Search!PathsOver(Allowed, from, to)
             open == StationFree(from, v) /\ StationFree(to, v)
  <2>1. /\ TheQuestion.from = from /\ TheQuestion.to = to
        /\ TheQuestion.open = Open /\ TheQuestion.lines = Allowed
    BY DEF TheQuestion
  <2>2. Open = open /\ Open \in BOOLEAN
    BY <1>1 DEF Open
  <2>3. Allowed = {l \in Line : Passable(l, v, UturnPoints(from, to))}
    BY <1>1 DEF Allowed
  <2>4. BestPaths(v, to) = IF open THEN Search!Shortest(ps) ELSE {}
    BY <1>1, <2>3, SamePaths, SameShortest DEF BestPaths
  <2>5. TheAnswer \in Search!Answers(TheQuestion) /\ TheAnswer.lines = result
    BY <1>1 DEF AnswerInv, TheAnswer
  <2> HIDE DEF ps, open
  <2>6. Search!Answers(TheQuestion) =
          IF ~open \/ ps = {} THEN {[distance |-> Infinity, lines |-> <<>>]}
          ELSE {[distance |-> Search!LengthOf(p), lines |-> p] :
                  p \in Search!Shortest(ps)}
    BY <1>1, <2>1, <2>2, AnswersAre DEF ps
  <2>7. CASE ~open
    BY <2>4, <2>5, <2>6, <2>7
  <2>8. CASE open /\ ps = {}
    <3>1. Search!Shortest(ps) = {}
      BY <2>8 DEF Search!Shortest
    <3> QED
      BY <2>4, <2>5, <2>6, <2>8, <3>1
  <2>9. CASE open /\ ps # {}
    BY <2>4, <2>5, <2>6, <2>9
  <2> QED
    BY <2>7, <2>8, <2>9
<1>2. SearchInv => SearchServes
  BY <1>1 DEF SearchInv, SearchServes
<1> QED
  BY <1>2, SearchInvAlways, PTL
=============================================================================
