--------------------------- MODULE SpeakPreparerProofs --------------------------
(***************************************************************************)
(* Proofs about SpeakPreparer, for any clips, fetches, workers, attempts    *)
(* and item lists.                                                          *)
(***************************************************************************)
EXTENDS SpeakPreparer, FiniteSetTheorems, SequenceTheorems, TLAPS

(* ------------------------- Keeping some positions ------------------------ *)

\* Every set of numbers has a least one.
LEMMA LeastNumber ==
  ASSUME NEW T \in SUBSET Nat, T # {}
  PROVE  \E x \in T : \A y \in T : x <= y
<1>1. PICK x \in T : \A y \in T : <<y, x>> \notin OpToRel(<, Nat)
  BY WFMin, NatLessThanWellFounded, Zenon
<1>2. \A y \in T : ~(y < x)
  BY <1>1, Zenon DEF OpToRel
<1> QED
  BY <1>2

\* What the recursion of Keep says of a function.
KeptTo(f, s, I, m) ==
  f = [n \in 0..m |-> IF n = 0 THEN <<>> ELSE IF n \in I THEN Append(f[n - 1], s[n]) ELSE f[n - 1]]

\* There is such a function, of every length.
LEMMA KeptExists ==
  ASSUME NEW s, NEW I, NEW l \in Nat
  PROVE  \E f : KeptTo(f, s, I, l)
<1> DEFINE bad == {m \in Nat : ~ \E f : KeptTo(f, s, I, m)}
<1> SUFFICES ASSUME bad # {} PROVE FALSE
  OBVIOUS
<1>1. PICK m \in bad : \A y \in bad : m <= y
  BY LeastNumber
<1>2. CASE m = 0
  <2> DEFINE f == [n \in 0..0 |-> <<>>]
  <2>1. KeptTo(f, s, I, 0)
    BY DEF KeptTo
  <2> QED
    BY <1>1, <1>2, <2>1
<1>3. CASE m # 0
  <2>1. m - 1 \in Nat /\ m - 1 \notin bad /\ m \in Nat
    BY <1>1, <1>3
  <2>2. PICK g : KeptTo(g, s, I, m - 1)
    BY <2>1
  <2> DEFINE f == [n \in 0..m |-> IF n = m THEN IF m \in I THEN Append(g[m - 1], s[m]) ELSE g[m - 1]
                                 ELSE g[n]]
  <2>3. \A n \in 0..m - 1 : f[n] = g[n]
    BY <2>1
  <2>4. \A n \in 0..m - 1 :
          g[n] = IF n = 0 THEN <<>> ELSE IF n \in I THEN Append(g[n - 1], s[n]) ELSE g[n - 1]
    BY <2>2, Zenon DEF KeptTo
  <2>5. f[m] = IF m \in I THEN Append(g[m - 1], s[m]) ELSE g[m - 1]
    BY <2>1
  <2>9. f = [n \in 0..m |-> f[n]]
    OBVIOUS
  <2> HIDE DEF f
  <2>6. ASSUME NEW n \in 0..m
        PROVE  f[n] = IF n = 0 THEN <<>> ELSE IF n \in I THEN Append(f[n - 1], s[n]) ELSE f[n - 1]
    <3>1. CASE n = m
      <4>1. f[m - 1] = g[m - 1]
        BY <2>1, <2>3
      <4> QED
        BY <1>3, <2>5, <3>1, <4>1
    <3>2. CASE n = 0
      BY <1>3, <2>1, <2>3, <2>4, <3>2
    <3>3. CASE n # m /\ n # 0
      <4>1. n \in 0..m - 1 /\ n - 1 \in 0..m - 1
        BY <2>1, <3>3
      <4> QED
        BY <2>3, <2>4, <3>3, <4>1
    <3> QED
      BY <3>1, <3>2, <3>3
  <2>7. KeptTo(f, s, I, m)
    BY <2>6, <2>9, Zenon DEF KeptTo
  <2> QED
    BY <1>1, <2>7
<1> QED
  BY <1>2, <1>3

\* So Keep is its value at the end.
LEMMA KeepIs ==
  ASSUME NEW s, NEW I, Len(s) \in Nat
  PROVE  \E f : KeptTo(f, s, I, Len(s)) /\ Keep(s, I) = f[Len(s)]
<1> DEFINE f == CHOOSE f : KeptTo(f, s, I, Len(s))
<1>1. KeptTo(f, s, I, Len(s))
  BY KeptExists
<1>2. Keep(s, I) = f[Len(s)]
  BY Zenon DEF Keep, KeptTo
<1> QED
  BY <1>1, <1>2

\* What was kept after n positions.
KeptSoFar(r, X, s, I, n) ==
  /\ r \in Seq(X) /\ Len(r) <= n
  /\ \A i \in 1..Len(r) : \E j \in I : j <= n /\ r[i] = s[j]
  /\ \A j \in I : j <= n => \E i \in 1..Len(r) : r[i] = s[j]
  /\ (\A i, j \in I : s[i] = s[j] => i = j) => \A i, j \in 1..Len(r) : r[i] = r[j] => i = j
  /\ (\E i \in 1..n : i \notin I) => Len(r) < n

\* What one more position, kept or not, makes of it.
LEMMA KeptStep ==
  ASSUME NEW X, NEW s \in Seq(X), NEW I \in SUBSET (1..Len(s)), NEW n \in 1..Len(s),
         NEW r, KeptSoFar(r, X, s, I, n - 1)
  PROVE  KeptSoFar(IF n \in I THEN Append(r, s[n]) ELSE r, X, s, I, n)
<1>0. /\ n \in Nat \ {0} /\ s[n] \in X /\ Len(s) \in Nat
      /\ r \in Seq(X) /\ Len(r) \in Nat /\ Len(r) <= n - 1
      /\ \A j \in I : j \in 1..Len(s)
  BY DEF KeptSoFar
<1>1. CASE n \notin I
  <2>1. \A j \in I : j <= n <=> j <= n - 1
    BY <1>0, <1>1
  <2>2. Len(r) < n
    BY <1>0
  <2>3. KeptSoFar(r, X, s, I, n)
    BY <1>0, <2>1, <2>2 DEF KeptSoFar
  <2> QED
    BY <1>1, <2>3
<1>2. CASE n \in I
  <2> DEFINE q == Append(r, s[n])
  <2>1. /\ q \in Seq(X) /\ Len(q) = Len(r) + 1 /\ q[Len(r) + 1] = s[n]
        /\ \A i \in 1..Len(r) : q[i] = r[i]
    BY <1>0
  <2> HIDE DEF q
  <2>2. Len(q) <= n
    BY <1>0, <2>1
  <2>3. ASSUME NEW i \in 1..Len(q) PROVE \E j \in I : j <= n /\ q[i] = s[j]
    <3>1. CASE i = Len(r) + 1
      BY <1>0, <1>2, <2>1, <3>1
    <3>2. CASE i \in 1..Len(r)
      <4>1. PICK j \in I : j <= n - 1 /\ r[i] = s[j]
        BY <3>2 DEF KeptSoFar
      <4> QED
        BY <1>0, <2>1, <3>2, <4>1
    <3> QED
      BY <1>0, <2>1, <3>1, <3>2
  <2>4. ASSUME NEW j \in I, j <= n PROVE \E i \in 1..Len(q) : q[i] = s[j]
    <3>1. CASE j = n
      BY <1>0, <2>1, <3>1
    <3>2. CASE j <= n - 1
      <4>1. PICK i \in 1..Len(r) : r[i] = s[j]
        BY <3>2 DEF KeptSoFar
      <4> QED
        BY <1>0, <2>1, <4>1
    <3> QED
      BY <1>0, <2>4, <3>1, <3>2
  <2>5. ASSUME \A i, j \in I : s[i] = s[j] => i = j,
               NEW i \in 1..Len(q), NEW j \in 1..Len(q), q[i] = q[j]
        PROVE  i = j
    <3>1. ASSUME NEW h \in 1..Len(r) PROVE q[h] # s[n]
      <4>1. PICK g \in I : g <= n - 1 /\ r[h] = s[g]
        BY DEF KeptSoFar
      <4>2. g # n
        BY <1>0, <4>1
      <4> QED
        BY <1>2, <2>1, <2>5, <4>1, <4>2
    <3>2. CASE i \in 1..Len(r) /\ j \in 1..Len(r)
      BY <2>1, <2>5, <3>2 DEF KeptSoFar
    <3>3. CASE i = Len(r) + 1 \/ j = Len(r) + 1
      BY <1>0, <2>1, <2>5, <3>1, <3>3
    <3> QED
      BY <1>0, <2>1, <3>2, <3>3
  <2>6. ASSUME NEW i \in 1..n, i \notin I PROVE Len(q) < n
    <3>1. i \in 1..n - 1
      BY <1>0, <1>2, <2>6
    <3>2. Len(r) < n - 1
      BY <2>6, <3>1 DEF KeptSoFar
    <3> QED
      BY <1>0, <2>1, <3>2
  <2>7. KeptSoFar(q, X, s, I, n)
    BY <2>1, <2>2, <2>3, <2>4, <2>5, <2>6 DEF KeptSoFar
  <2> QED
    BY <1>2, <2>7 DEF q
<1> QED
  BY <1>1, <1>2

\* Keep keeps the elements at the positions and no others, each as often as it
\* is there, and is shorter where a position is missing.
LEMMA KeepFacts ==
  ASSUME NEW X, NEW s \in Seq(X), NEW I \in SUBSET (1..Len(s))
  PROVE  KeptSoFar(Keep(s, I), X, s, I, Len(s))
<1>1. PICK f : KeptTo(f, s, I, Len(s)) /\ Keep(s, I) = f[Len(s)]
  BY KeepIs
<1>2. \A n \in 0..Len(s) :
        f[n] = IF n = 0 THEN <<>> ELSE IF n \in I THEN Append(f[n - 1], s[n]) ELSE f[n - 1]
  BY <1>1, Zenon DEF KeptTo
<1> DEFINE bad == {n \in 0..Len(s) : ~ KeptSoFar(f[n], X, s, I, n)}
<1>3. bad = {}
  <2> SUFFICES ASSUME bad # {} PROVE FALSE
    OBVIOUS
  <2>4. bad \in SUBSET Nat
    OBVIOUS
  <2> HIDE DEF bad
  <2>1. PICK n \in bad : \A m \in bad : n <= m
    BY <2>4, LeastNumber
  <2> USE DEF bad
  <2>2. CASE n = 0
    <3>1. f[0] = <<>>
      BY <1>2, <2>2
    <3>2. KeptSoFar(<<>>, X, s, I, 0)
      BY DEF KeptSoFar
    <3> QED
      BY <2>1, <2>2, <3>1, <3>2
  <2>3. CASE n # 0
    <3>1. n \in 1..Len(s) /\ n - 1 \in 0..Len(s) /\ n - 1 \notin bad
      BY <2>1, <2>3
    <3>2. KeptSoFar(f[n - 1], X, s, I, n - 1)
      BY <3>1
    <3>3. f[n] = IF n \in I THEN Append(f[n - 1], s[n]) ELSE f[n - 1]
      BY <1>2, <2>3, <3>1
    <3>4. KeptSoFar(f[n], X, s, I, n)
      BY <3>1, <3>2, <3>3, KeptStep
    <3> QED
      BY <2>1, <3>4
  <2> QED
    BY <2>2, <2>3
<1>4. Len(s) \in 0..Len(s)
  OBVIOUS
<1> QED
  BY <1>1, <1>3, <1>4

\* Without in the terms of the queues.
LEMMA WithoutFacts ==
  ASSUME NEW X, NEW q \in Seq(X), NEW S
  PROVE  /\ Without(q, S) \in Seq(X)
         /\ ToSet(Without(q, S)) = ToSet(q) \ S
         /\ Len(Without(q, S)) <= Len(q)
         /\ ToSet(q) \cap S # {} => Len(Without(q, S)) < Len(q)
         /\ IsInjective(q) => IsInjective(Without(q, S))
<1> DEFINE I == {i \in 1..Len(q) : q[i] \notin S}
           r == Without(q, S)
<1>1. KeptSoFar(r, X, q, I, Len(q))
  BY KeepFacts DEF Without
<1> HIDE DEF r
<1>2. r \in Seq(X) /\ Len(r) <= Len(q) /\ DOMAIN r = 1..Len(r) /\ DOMAIN q = 1..Len(q)
  BY <1>1 DEF KeptSoFar
<1>3. ToSet(r) = ToSet(q) \ S
  <2>1. ASSUME NEW x \in ToSet(r) PROVE x \in ToSet(q) \ S
    <3>1. PICK i \in 1..Len(r) : x = r[i]
      BY <1>2 DEF ToSet
    <3>2. PICK j \in I : r[i] = q[j]
      BY <1>1, <3>1 DEF KeptSoFar
    <3> QED
      BY <1>2, <3>1, <3>2 DEF ToSet
  <2>2. ASSUME NEW x \in ToSet(q) \ S PROVE x \in ToSet(r)
    <3>1. PICK j \in 1..Len(q) : x = q[j]
      BY <1>2 DEF ToSet
    <3>2. j \in I /\ j <= Len(q)
      BY <3>1
    <3>3. PICK i \in 1..Len(r) : r[i] = q[j]
      BY <1>1, <3>2 DEF KeptSoFar
    <3> QED
      BY <1>2, <3>1, <3>3 DEF ToSet
  <2> QED
    BY <2>1, <2>2
<1>4. ASSUME ToSet(q) \cap S # {} PROVE Len(r) < Len(q)
  <2>1. PICK i \in 1..Len(q) : q[i] \in S
    BY <1>2, <1>4 DEF ToSet
  <2>2. i \notin I
    BY <2>1
  <2> QED
    BY <1>1, <2>2 DEF KeptSoFar
<1>5. ASSUME IsInjective(q) PROVE IsInjective(r)
  <2>1. \A i, j \in I : q[i] = q[j] => i = j
    BY <1>2, <1>5 DEF IsInjective
  <2> QED
    BY <1>1, <1>2, <2>1 DEF KeptSoFar, IsInjective
<1> QED
  BY <1>2, <1>3, <1>4, <1>5 DEF r

\* A queueing puts each key it wants at the front, once.
LEMMA WantedFacts ==
  ASSUME NEW items \in Seq(Keys)
  PROVE  /\ Wanted(items) \in Seq(Keys)
         /\ IsInjective(Wanted(items))
         /\ ToSet(Wanted(items)) =
              {k \in ToSet(items) : job[k].state = "background" \/ (~Pending(k) /\ k \notin stored)}
<1> DEFINE Fits(k) == job[k].state = "background" \/ (~Pending(k) /\ k \notin stored)
           I == {i \in 1..Len(items) :
                   /\ \A h \in 1..i - 1 : items[h] # items[i]
                   /\ Fits(items[i])}
           r == Wanted(items)
<1>1. KeptSoFar(r, Keys, items, I, Len(items))
  <2>1. I \in SUBSET (1..Len(items))
    OBVIOUS
  <2>2. r = Keep(items, I)
    BY DEF Wanted
  <2> HIDE DEF I, r
  <2> QED
    BY <2>1, <2>2, KeepFacts
<1> HIDE DEF r
<1>2. r \in Seq(Keys) /\ DOMAIN r = 1..Len(r) /\ DOMAIN items = 1..Len(items)
  BY <1>1 DEF KeptSoFar
<1>3. \A i, j \in I : items[i] = items[j] => i = j
  <2> SUFFICES ASSUME NEW i \in I, NEW j \in I, items[i] = items[j], i < j PROVE FALSE
    OBVIOUS
  <2> QED
    OBVIOUS
<1>4. IsInjective(r)
  BY <1>1, <1>2, <1>3 DEF KeptSoFar, IsInjective
<1>5. ASSUME NEW x \in ToSet(r) PROVE x \in ToSet(items) /\ Fits(x)
  <2>1. PICK i \in 1..Len(r) : x = r[i]
    BY <1>2 DEF ToSet
  <2>2. PICK j \in I : r[i] = items[j]
    BY <1>1, <2>1 DEF KeptSoFar
  <2>3. j \in 1..Len(items) /\ Fits(items[j])
    OBVIOUS
  <2> HIDE DEF Fits
  <2> QED
    BY <1>2, <2>1, <2>2, <2>3 DEF ToSet
<1>6. ASSUME NEW x \in ToSet(items), Fits(x) PROVE x \in ToSet(r)
  <2> DEFINE at == {i \in 1..Len(items) : items[i] = x}
  <2>1. at # {} /\ at \subseteq Nat
    BY <1>2 DEF ToSet
  <2>2. PICK j \in at : \A i \in at : j <= i
    BY <2>1, LeastNumber
  <2>3. j \in I /\ j <= Len(items) /\ items[j] = x
    <3>1. j \in 1..Len(items) /\ items[j] = x /\ Fits(items[j])
      BY <1>6
    <3>2. ASSUME NEW h \in 1..j - 1 PROVE items[h] # items[j]
      <4>1. h \in 1..Len(items) /\ ~(j <= h)
        BY <3>1
      <4> QED
        BY <2>2, <3>1, <4>1
    <3> HIDE DEF Fits
    <3> QED
      BY <3>1, <3>2
  <2>4. PICK i \in 1..Len(r) : r[i] = items[j]
    BY <1>1, <2>3 DEF KeptSoFar
  <2> QED
    BY <1>2, <2>3, <2>4 DEF ToSet
<1> QED
  BY <1>2, <1>4, <1>5, <1>6 DEF r
(* ------------------------------- The queues ------------------------------ *)

\* At the back of a queue.
LEMMA Appended ==
  ASSUME NEW X, NEW q \in Seq(X), NEW x \in X
  PROVE  /\ Append(q, x) \in Seq(X) /\ Len(Append(q, x)) = Len(q) + 1
         /\ ToSet(Append(q, x)) = ToSet(q) \cup {x}
         /\ IsInjective(q) /\ x \notin ToSet(q) => IsInjective(Append(q, x))
<1> DEFINE r == Append(q, x)
<1>1. /\ r \in Seq(X) /\ Len(r) = Len(q) + 1 /\ Len(q) \in Nat /\ r[Len(q) + 1] = x
      /\ DOMAIN r = 1..Len(q) + 1 /\ DOMAIN q = 1..Len(q) /\ \A i \in 1..Len(q) : r[i] = q[i]
  OBVIOUS
<1> HIDE DEF r
<1>2. ToSet(r) = ToSet(q) \cup {x}
  <2>1. ASSUME NEW y \in ToSet(r) PROVE y \in ToSet(q) \cup {x}
    BY <1>1 DEF ToSet
  <2>2. ASSUME NEW y \in ToSet(q) PROVE y \in ToSet(r)
    BY <1>1 DEF ToSet
  <2>3. x \in ToSet(r)
    BY <1>1 DEF ToSet
  <2> QED
    BY <2>1, <2>2, <2>3
<1>3. ASSUME IsInjective(q), x \notin ToSet(q) PROVE IsInjective(r)
  <2>1. \A i \in 1..Len(q) : r[i] # x
    BY <1>1, <1>3 DEF ToSet
  <2>2. \A i, j \in 1..Len(q) : r[i] = r[j] => i = j
    BY <1>1, <1>3 DEF IsInjective
  <2>3. \A i \in 1..Len(q) + 1 : i \in 1..Len(q) \/ i = Len(q) + 1
    BY <1>1
  <2> QED
    BY <1>1, <2>1, <2>2, <2>3 DEF IsInjective
<1> QED
  BY <1>1, <1>2, <1>3 DEF r

\* One sequence before another.
LEMMA Concatenated ==
  ASSUME NEW X, NEW s \in Seq(X), NEW t \in Seq(X)
  PROVE  /\ s \o t \in Seq(X) /\ Len(s \o t) = Len(s) + Len(t)
         /\ ToSet(s \o t) = ToSet(s) \cup ToSet(t)
         /\ IsInjective(s) /\ IsInjective(t) /\ ToSet(s) \cap ToSet(t) = {} => IsInjective(s \o t)
<1> DEFINE r == s \o t
<1>1. /\ r \in Seq(X) /\ Len(r) = Len(s) + Len(t) /\ Len(s) \in Nat /\ Len(t) \in Nat
      /\ DOMAIN r = 1..Len(s) + Len(t) /\ DOMAIN s = 1..Len(s) /\ DOMAIN t = 1..Len(t)
      /\ \A i \in 1..Len(s) : r[i] = s[i]
      /\ \A i \in 1..Len(s) + Len(t) : i > Len(s) => r[i] = t[i - Len(s)]
  OBVIOUS
<1> HIDE DEF r
<1>2. \A i \in 1..Len(t) : i + Len(s) \in 1..Len(s) + Len(t) /\ r[i + Len(s)] = t[i]
  BY <1>1
<1>3. \A i \in 1..Len(s) + Len(t) : i \in 1..Len(s) \/ (i > Len(s) /\ i - Len(s) \in 1..Len(t))
  BY <1>1
<1>4. ToSet(r) = ToSet(s) \cup ToSet(t)
  <2>1. ASSUME NEW y \in ToSet(r) PROVE y \in ToSet(s) \cup ToSet(t)
    <3>1. PICK i \in 1..Len(s) + Len(t) : y = r[i]
      BY <1>1 DEF ToSet
    <3> QED
      BY <1>1, <1>3, <3>1 DEF ToSet
  <2>2. ASSUME NEW y \in ToSet(s) PROVE y \in ToSet(r)
    BY <1>1 DEF ToSet
  <2>3. ASSUME NEW y \in ToSet(t) PROVE y \in ToSet(r)
    <3>1. PICK i \in 1..Len(t) : y = t[i]
      BY <1>1 DEF ToSet
    <3> QED
      BY <1>1, <1>2, <3>1 DEF ToSet
  <2> QED
    BY <2>1, <2>2, <2>3
<1>5. ASSUME IsInjective(s), IsInjective(t), ToSet(s) \cap ToSet(t) = {},
             NEW i \in 1..Len(s) + Len(t), NEW j \in 1..Len(s) + Len(t), r[i] = r[j]
      PROVE  i = j
  <2>1. CASE i \in 1..Len(s) /\ j \in 1..Len(s)
    BY <1>1, <1>5, <2>1 DEF IsInjective
  <2>2. CASE i > Len(s) /\ j > Len(s)
    <3>1. /\ i - Len(s) \in 1..Len(t) /\ j - Len(s) \in 1..Len(t)
          /\ t[i - Len(s)] = t[j - Len(s)]
      BY <1>1, <1>3, <1>5, <2>2
    <3>2. i - Len(s) = j - Len(s)
      BY <1>1, <1>5, <3>1 DEF IsInjective
    <3> QED
      BY <1>1, <3>2
  <2>3. ASSUME NEW g \in 1..Len(s), NEW h \in 1..Len(s) + Len(t), h > Len(s) PROVE r[g] # r[h]
    <3>1. r[g] \in ToSet(s)
      BY <1>1 DEF ToSet
    <3>2. h - Len(s) \in 1..Len(t) /\ r[h] = t[h - Len(s)]
      BY <1>1, <1>3, <2>3
    <3>3. r[h] \in ToSet(t)
      BY <1>1, <3>2 DEF ToSet
    <3> QED
      BY <1>5, <3>1, <3>3
  <2> QED
    BY <1>3, <1>5, <2>1, <2>2, <2>3
<1> QED
  BY <1>1, <1>4, <1>5 DEF r, IsInjective

\* What is left when the first is taken.
LEMMA Taken ==
  ASSUME NEW X, NEW q \in Seq(X), q # <<>>
  PROVE  /\ Head(q) \in ToSet(q) /\ Head(q) \in X
         /\ Tail(q) \in Seq(X) /\ Len(Tail(q)) = Len(q) - 1
         /\ IsInjective(q) => IsInjective(Tail(q)) /\ ToSet(Tail(q)) = ToSet(q) \ {Head(q)}
<1> DEFINE r == Tail(q)
<1>1. /\ Head(q) = q[1] /\ q[1] \in X /\ Len(q) \in Nat \ {0} /\ DOMAIN q = 1..Len(q)
  OBVIOUS
<1>2. /\ r \in Seq(X) /\ Len(r) = Len(q) - 1 /\ DOMAIN r = 1..Len(q) - 1
      /\ \A i \in 1..Len(q) - 1 : r[i] = q[i + 1]
  BY <1>1, HeadTailProperties
<1> HIDE DEF r
<1>3. Head(q) \in ToSet(q)
  BY <1>1 DEF ToSet
<1>4. ASSUME IsInjective(q) PROVE IsInjective(r) /\ ToSet(r) = ToSet(q) \ {Head(q)}
  <2>1. \A i, j \in 1..Len(q) : q[i] = q[j] => i = j
    BY <1>1, <1>4 DEF IsInjective
  <2>2. ASSUME NEW i \in 1..Len(q) - 1, NEW j \in 1..Len(q) - 1, r[i] = r[j] PROVE i = j
    <3>1. i + 1 \in 1..Len(q) /\ j + 1 \in 1..Len(q) /\ q[i + 1] = q[j + 1]
      BY <1>1, <1>2, <2>2
    <3>2. i + 1 = j + 1
      BY <2>1, <3>1
    <3> QED
      BY <1>1, <3>2
  <2>3. ASSUME NEW y \in ToSet(r) PROVE y \in ToSet(q) /\ y # Head(q)
    <3>1. PICK i \in 1..Len(q) - 1 : y = q[i + 1]
      BY <1>2 DEF ToSet
    <3>2. i + 1 \in 1..Len(q) /\ i + 1 # 1 /\ 1 \in 1..Len(q)
      BY <1>1
    <3> QED
      BY <1>1, <2>1, <3>1, <3>2 DEF ToSet
  <2>4. ASSUME NEW y \in ToSet(q), y # Head(q) PROVE y \in ToSet(r)
    <3>1. PICK i \in 1..Len(q) : y = q[i]
      BY <1>1 DEF ToSet
    <3>2. i - 1 \in 1..Len(q) - 1 /\ r[i - 1] = q[i - 1 + 1] /\ i - 1 + 1 = i
      BY <1>1, <1>2, <2>4, <3>1
    <3> QED
      BY <1>2, <3>1, <3>2 DEF ToSet
  <2> QED
    BY <1>2, <2>2, <2>3, <2>4 DEF IsInjective
<1> QED
  BY <1>1, <1>2, <1>3, <1>4 DEF r

\* The next job is the first urgent one, or else the first of the background.
LEMMA NextJob ==
  ASSUME NEW s \in Seq(Keys), NEW t \in Seq(Keys)
  PROVE  /\ s # <<>> => Head(s \o t) = Head(s) /\ s \o t # <<>>
         /\ s = <<>> => s \o t = t
<1>1. CASE s = <<>>
  BY <1>1, ConcatEmptySeq
<1>2. CASE s # <<>>
  <2>1. Len(s) \in Nat \ {0} /\ Head(s) = s[1] /\ Len(s \o t) = Len(s) + Len(t) /\ Len(t) \in Nat
    BY <1>2
  <2>2. s \o t # <<>> /\ (s \o t)[1] = s[1] /\ s \o t \in Seq(Keys)
    BY <2>1
  <2>3. Head(s \o t) = (s \o t)[1]
    BY <2>2
  <2> QED
    BY <1>2, <2>1, <2>2, <2>3
<1> QED
  BY <1>1, <1>2

(* --------------------------- The invariant ------------------------------- *)

JobRec == [state : {"idle", "failed"} \cup InFlight, attempts : 0..MaxAttempts,
           timer : {"none", "armed", "fired"}]
WorkerRec == [pc : {"off", "next", "run", "finish"},
              key : Keys \cup {None}, result : {"none"} \cup Outcomes]
CallRec == [pc : {"idle", "lock", "wait", "done"}, key : Keys \cup {None}]

\* A job j whose key has l late timers: waiting to be retried it has a timer, as
\* no other has; queued or retrying it has an attempt left, being made it has
\* used one.
Good(j, l) ==
  /\ j \in JobRec /\ l \in 0..MaxFired
  /\ j.state = "retrying" => j.timer # "none" /\ j.attempts \in 1..MaxAttempts - 1
  /\ j.state # "retrying" => j.timer = "none"
  /\ j.state \in Queued => j.attempts < MaxAttempts
  /\ j.state = "generating" => j.attempts > 0
  /\ j.timer = "fired" => l < MaxFired

JobsGood ==
  /\ job = [k \in Keys |-> job[k]] /\ late = [k \in Keys |-> late[k]]
  /\ \A k \in Keys : Good(job[k], late[k])

\* A worker has a clip from the time it takes one until it finishes it, and the
\* map calls generating what some worker has.
WorkersGood ==
  /\ worker \in [Workers -> WorkerRec]
  /\ \A w \in Workers : worker[w].key # None <=> worker[w].pc \in {"run", "finish"}
  /\ \A w \in Workers : worker[w].pc = "finish" => worker[w].result \in Outcomes
  /\ OneSynthesis
  /\ \A k \in Keys : job[k].state = "generating" => \E w \in Workers : worker[w].key = k

\* A fetch has a key, and the job it waits on is out of Forget's and halt's reach.
CallsGood ==
  /\ call \in [Callers -> CallRec]
  /\ \A c \in Callers :
       /\ call[c].pc \in {"lock", "wait"} => call[c].key \in Keys
       /\ call[c].pc = "wait" => job[call[c].key].state \in {"urgent", "generating"}

QueuesGood ==
  /\ urgent \in Seq(Keys) /\ background \in Seq(Keys)
  /\ IsInjective(urgent) /\ IsInjective(background)
  /\ ToSet(urgent) = In({"urgent"})
  /\ ToSet(background) = In({"background"})

IInv ==
  /\ JobsGood /\ WorkersGood /\ CallsGood /\ QueuesGood
  /\ WorkConserving /\ stored \subseteq Keys

NextWorkers == {w \in Workers : worker[w].pc = "next"}

\* It holds at first.
LEMMA InitInv == Init => IInv
<1> SUFFICES ASSUME Init PROVE IInv
  OBVIOUS
<1>1. JobsGood
  <2>1. \A k \in Keys : job[k] = [state |-> "idle", attempts |-> 0, timer |-> "none"] /\ late[k] = 0
    BY DEF Init, NoJob
  <2>2. Good([state |-> "idle", attempts |-> 0, timer |-> "none"], 0)
    BY PreparerAssumption DEF Good, JobRec, InFlight, Queued
  <2> QED
    BY <2>1, <2>2 DEF Init, JobsGood
<1>2. \A k \in Keys : job[k].state = "idle"
  BY DEF Init, NoJob
<1>3. QueuesGood
  <2>1. ToSet(<<>>) = {} /\ IsInjective(<<>>) /\ <<>> \in Seq(Keys)
    BY DEF ToSet, IsInjective
  <2>2. In({"urgent"}) = {} /\ In({"background"}) = {}
    BY <1>2 DEF In
  <2> QED
    BY <2>1, <2>2 DEF Init, QueuesGood
<1>4. WorkersGood
  <2>1. worker \in [Workers -> WorkerRec]
    BY DEF Init, Off, WorkerRec
  <2>2. \A w \in Workers : worker[w].key = None /\ worker[w].pc = "off"
    BY DEF Init, Off
  <2> QED
    BY <1>2, <2>1, <2>2 DEF WorkersGood, OneSynthesis
<1>5. CallsGood
  BY DEF Init, NoCall, CallsGood, CallRec
<1>6. WorkConserving
  <2>1. NextWorkers = {}
    BY DEF Init, Off, NextWorkers
  <2>2. Len(urgent) + Len(background) <= Cardinality(NextWorkers)
    BY <2>1, FS_EmptySet DEF Init
  <2> QED
    BY <2>2 DEF WorkConserving, NextWorkers
<1> QED
  BY <1>1, <1>3, <1>4, <1>5, <1>6 DEF IInv, Init

(* ----------------------------- Parts of a step --------------------------- *)

\* A step that leaves every worker its clip.
SameHands ==
  \A w \in Workers :
    /\ worker'[w].key = worker[w].key
    /\ worker'[w].pc \in {"run", "finish"} <=> worker[w].pc \in {"run", "finish"}
    /\ worker'[w].pc = "finish" => worker[w].pc = "finish" /\ worker'[w].result = worker[w].result

\* A worker that starts has no clip, and either none is left or there are as
\* many on their way as there are queued jobs.
LEMMA Spawned ==
  ASSUME WorkersGood, NEW queued \in Nat, Spawn(queued)
  PROVE  /\ worker' \in [Workers -> WorkerRec]
         /\ SameHands
         /\ \/ \A w \in Workers : worker'[w].pc # "off"
            \/ queued <= Cardinality(NextWorkers')
<1> DEFINE off == {w \in Workers : worker[w].pc = "off"}
           n == IF queued < Cardinality(off) THEN queued ELSE Cardinality(off)
<1>1. PICK S \in kSubset(n, off) :
        worker' = [w \in Workers |-> IF w \in S THEN [Off EXCEPT !.pc = "next"] ELSE worker[w]]
  BY Zenon DEF Spawn
<1>2. S \subseteq off /\ Cardinality(S) = n
  BY <1>1 DEF kSubset
<1>3. worker \in [Workers -> WorkerRec]
  BY DEF WorkersGood
<1>4. [Off EXCEPT !.pc = "next"] = [pc |-> "next", key |-> None, result |-> "none"]
  BY DEF Off
<1>5. \A w \in Workers : w \in S => worker[w].pc = "off" /\ worker[w].key = None
  BY <1>2 DEF WorkersGood
<1>6. worker' \in [Workers -> WorkerRec]
  <2>1. [pc |-> "next", key |-> None, result |-> "none"] \in WorkerRec
    BY DEF WorkerRec
  <2> QED
    BY <1>1, <1>3, <1>4, <2>1
<1>7. \A w \in Workers :
        IF w \in S THEN worker'[w] = [pc |-> "next", key |-> None, result |-> "none"]
                   ELSE worker'[w] = worker[w]
  BY <1>1, <1>4
<1>8. IsFiniteSet(Workers) /\ IsFiniteSet(off) /\ Cardinality(off) \in Nat
      /\ IsFiniteSet(NextWorkers') /\ IsFiniteSet(S)
  BY PreparerAssumption, <1>2, FS_Subset, FS_CardinalityType DEF NextWorkers
<1>9. SameHands
  BY <1>5, <1>7 DEF SameHands
<1>10. CASE queued < Cardinality(off)
  <2>1. S \subseteq NextWorkers'
    BY <1>2, <1>7 DEF NextWorkers
  <2>2. Cardinality(S) <= Cardinality(NextWorkers')
    BY <1>8, <2>1, FS_Subset
  <2>3. queued <= Cardinality(NextWorkers')
    BY <1>2, <1>10, <2>2
  <2> QED
    BY <1>6, <1>9, <2>3
<1>11. CASE ~(queued < Cardinality(off))
  <2>1. S = off
    BY <1>2, <1>8, <1>11, FS_Subset
  <2>2. \A w \in Workers : worker'[w].pc # "off"
    BY <1>7, <2>1
  <2> QED
    BY <1>6, <1>9, <2>2
<1> QED
  BY <1>10, <1>11

\* What a step that queues and spawns leaves.
LEMMA SpawnKeeps ==
  ASSUME WorkersGood, urgent' \in Seq(Keys), background' \in Seq(Keys),
         Spawn(Len(urgent') + Len(background')),
         \A k \in Keys : job'[k].state = "generating" <=> job[k].state = "generating"
  PROVE  WorkersGood' /\ WorkConserving'
<1>1. Len(urgent') + Len(background') \in Nat
  OBVIOUS
<1>2. /\ worker' \in [Workers -> WorkerRec] /\ SameHands
      /\ \/ \A w \in Workers : worker'[w].pc # "off"
         \/ Len(urgent') + Len(background') <= Cardinality(NextWorkers')
  BY <1>1, Spawned
<1>3. WorkersGood'
  BY <1>2 DEF WorkersGood, WorkerRec, SameHands, OneSynthesis
<1> QED
  BY <1>2, <1>3 DEF WorkConserving, NextWorkers

\* Workers none of whom moves, beside jobs that are generated as before.
LEMMA WorkersKept ==
  ASSUME WorkersGood, worker' = worker,
         \A k \in Keys : job'[k].state = "generating" <=> job[k].state = "generating"
  PROVE  WorkersGood'
BY DEF WorkersGood, WorkerRec, OneSynthesis

\* The calls are as before or have left, and what they wait on stays in reach.
LEMMA CallsKept ==
  ASSUME CallsGood, UNCHANGED call,
         \A k \in Keys : job[k].state \in {"urgent", "generating"}
                           => job'[k].state \in {"urgent", "generating"}
  PROVE  CallsGood'
BY DEF CallsGood

\* A fetch starts to wait.
LEMMA CallWaits ==
  ASSUME CallsGood, NEW c \in Callers, call[c].pc = "lock",
         call' = [call EXCEPT ![c].pc = "wait"],
         job'[call[c].key].state \in {"urgent", "generating"},
         \A k \in Keys : job[k].state \in {"urgent", "generating"}
                           => job'[k].state \in {"urgent", "generating"}
  PROVE  CallsGood'
<1>1. call \in [Callers -> CallRec] /\ call[c].key \in Keys
  BY DEF CallsGood
<1>2. call'[c].pc = "wait" /\ call'[c].key = call[c].key /\ call'[c] \in CallRec
  BY <1>1 DEF CallRec
<1>3. \A d \in Callers : d # c => call'[d] = call[d]
  BY <1>1
<1>4. call' \in [Callers -> CallRec]
  BY <1>1, <1>2
<1> QED
  BY <1>1, <1>2, <1>3, <1>4 DEF CallsGood

\* No fewer workers on their way, none off, no more jobs queued.
LEMMA ConservedBy ==
  ASSUME WorkConserving,
         \A w \in Workers : worker[w].pc # "off" => worker'[w].pc # "off",
         \A w \in Workers : worker[w].pc = "next" => worker'[w].pc = "next",
         urgent \in Seq(Keys), background \in Seq(Keys),
         urgent' \in Seq(Keys), background' \in Seq(Keys),
         Len(urgent') + Len(background') <= Len(urgent) + Len(background)
  PROVE  WorkConserving'
<1>1. NextWorkers \subseteq NextWorkers' /\ IsFiniteSet(NextWorkers')
  BY PreparerAssumption, FS_Subset DEF NextWorkers
<1>2. /\ Cardinality(NextWorkers) <= Cardinality(NextWorkers')
      /\ Cardinality(NextWorkers) \in Nat /\ Cardinality(NextWorkers') \in Nat
  BY <1>1, FS_Subset, FS_CardinalityType
<1>3. Len(urgent') + Len(background') \in Nat /\ Len(urgent) + Len(background) \in Nat
  OBVIOUS
<1> QED
  BY <1>2, <1>3 DEF WorkConserving, NextWorkers

\* The same jobs, queues and timers.
LEMMA JobsKept ==
  ASSUME JobsGood, QueuesGood, UNCHANGED <<job, late, urgent, background>>
  PROVE  JobsGood' /\ QueuesGood'
BY DEF JobsGood, QueuesGood, In

\* A key without a job, and a new job, are good whatever timers are late.
LEMMA GoodStart ==
  ASSUME NEW l \in 0..MaxFired
  PROVE  /\ Good(NoJob, l) /\ NoJob.state = "idle"
         /\ \A queue \in Queued : Good(NewJob(queue), l) /\ NewJob(queue).state = queue
<1>1. NoJob = [state |-> "idle", attempts |-> 0, timer |-> "none"]
  BY DEF NoJob
<1>2. \A queue \in Queued : NewJob(queue) = [state |-> queue, attempts |-> 0, timer |-> "none"]
  BY <1>1 DEF NewJob
<1> QED
  BY <1>1, <1>2, PreparerAssumption DEF Good, JobRec, InFlight, Queued

\* A timer that could not be stopped is one more late one, within the bound.
LEMMA TimersStopped ==
  ASSUME JobsGood, NEW S, StopTimers(S)
  PROVE  /\ late' = [k \in Keys |-> late'[k]]
         /\ \A k \in Keys : late'[k] \in 0..MaxFired /\ (k \notin S => late'[k] = late[k])
<1>1. \A k \in Keys : Good(job[k], late[k])
  BY DEF JobsGood
<1>2. \A k \in Keys : late[k] \in 0..MaxFired /\ (job[k].timer = "fired" => late[k] < MaxFired)
  BY <1>1 DEF Good
<1> QED
  BY <1>2, PreparerAssumption DEF StopTimers

\* A queueing changes what is idle, failed or in the background, and has workers
\* for all of it.
LEMMA QueueStep ==
  ASSUME IInv, NEW items \in Seq(Keys), Queue(items)
  PROVE  IInv'
<1> DEFINE batch == Wanted(items)
           front == ToSet(batch)
           rest == Without(background, front)
<1>1. /\ job' = [k \in Keys |-> IF k \in front /\ ~Pending(k) THEN NewJob("background") ELSE job[k]]
      /\ background' = batch \o rest
      /\ Spawn(Len(urgent) + Len(background'))
      /\ UNCHANGED <<urgent, call, late, stored>>
  BY Zenon DEF Queue
<1>2. /\ batch \in Seq(Keys) /\ IsInjective(batch)
      /\ front = {k \in ToSet(items) : job[k].state = "background" \/ (~Pending(k) /\ k \notin stored)}
  BY WantedFacts
<1>3. /\ rest \in Seq(Keys) /\ (IsInjective(background) => IsInjective(rest))
      /\ ToSet(rest) = ToSet(background) \ front
  BY WithoutFacts DEF IInv, QueuesGood
<1>4. front \subseteq Keys
  BY <1>2 DEF ToSet
<1> HIDE DEF batch, front, rest
<1>5. /\ background' \in Seq(Keys) /\ ToSet(background') = ToSet(batch) \cup ToSet(rest)
      /\ (IsInjective(batch) /\ IsInjective(rest) /\ ToSet(batch) \cap ToSet(rest) = {}
            => IsInjective(background'))
  BY <1>1, <1>2, <1>3, Concatenated
<1>6. /\ \A k \in Keys : k \in front /\ ~Pending(k) => job'[k] = NewJob("background")
      /\ \A k \in Keys : ~(k \in front /\ ~Pending(k)) => job'[k] = job[k]
  BY <1>1
<1>7. \A k \in Keys : Good(job[k], late[k]) /\ late[k] \in 0..MaxFired
  BY DEF IInv, JobsGood, Good
<1>8. NewJob("background").state = "background"
      /\ \A k \in Keys : Good(NewJob("background"), late[k])
  BY <1>7, GoodStart DEF Queued, NewJob, NoJob
<1>9. \A k \in Keys :
        /\ k \in front /\ ~Pending(k) => /\ job'[k].state = "background"
                                         /\ job[k].state \notin {"urgent", "background", "generating"}
        /\ k \in front => job'[k].state = "background"
        /\ ~(k \in front /\ ~Pending(k)) => job'[k].state = job[k].state
  BY <1>2, <1>6, <1>8 DEF Pending, InFlight, Queued
<1>10. JobsGood'
  <2>1. late' = late /\ late = [k \in Keys |-> late[k]] /\ job' = [k \in Keys |-> job'[k]]
    BY <1>1 DEF IInv, JobsGood
  <2> QED
    BY <1>6, <1>7, <1>8, <2>1 DEF JobsGood
<1>11. QueuesGood'
  <2>1. In({"urgent"})' = In({"urgent"})
    BY <1>9 DEF In
  <2>2. In({"background"})' = In({"background"}) \cup front
    BY <1>4, <1>9 DEF In
  <2>3. ToSet(batch) = front
    BY DEF front
  <2> QED
    BY <1>1, <1>2, <1>3, <1>5, <2>1, <2>2, <2>3 DEF IInv, QueuesGood
<1>12. WorkersGood' /\ WorkConserving'
  <2>1. \A k \in Keys : job'[k].state = "generating" <=> job[k].state = "generating"
    BY <1>9
  <2>2. urgent' = urgent /\ urgent' \in Seq(Keys) /\ Spawn(Len(urgent') + Len(background'))
    BY <1>1 DEF IInv, QueuesGood
  <2> QED
    BY <1>5, <2>1, <2>2, SpawnKeeps DEF IInv
<1>13. CallsGood'
  <2>1. \A k \in Keys : job[k].state \in {"urgent", "generating"}
                          => job'[k].state \in {"urgent", "generating"}
    BY <1>9
  <2> QED
    BY <1>1, <2>1, CallsKept DEF IInv
<1> QED
  BY <1>1, <1>10, <1>11, <1>12, <1>13 DEF IInv

\* What Forget drops leaves the map, the background queue and the timers at once.
LEMMA ForgetStep ==
  ASSUME IInv, NEW keys, Forget(keys)
  PROVE  IInv'
<1> DEFINE S == keys \cap In({"background", "retrying", "failed"})
<1>1. /\ job' = [k \in Keys |-> IF k \in S THEN NoJob ELSE job[k]] /\ StopTimers(S)
      /\ background' = Without(background, S)
      /\ UNCHANGED <<urgent, worker, call, stored>>
  BY Zenon DEF Forget, Drop
<1>2. \A k \in S : k \in Keys /\ job[k].state \in {"background", "retrying", "failed"}
  BY DEF In
<1> HIDE DEF S
<1>3. /\ late' = [k \in Keys |-> late'[k]]
      /\ \A k \in Keys : late'[k] \in 0..MaxFired /\ (k \notin S => late'[k] = late[k])
  BY <1>1, TimersStopped DEF IInv
<1>4. \A k \in Keys : Good(NoJob, late'[k]) /\ NoJob.state = "idle"
  BY <1>3, GoodStart
<1>5. \A k \in Keys :
        IF k \in S THEN job'[k] = NoJob /\ job'[k].state = "idle" ELSE job'[k] = job[k]
  BY <1>1, <1>4
<1>6. JobsGood'
  BY <1>1, <1>3, <1>4, <1>5 DEF IInv, JobsGood
<1>7. /\ background' \in Seq(Keys) /\ ToSet(background') = ToSet(background) \ S
      /\ Len(background') <= Len(background) /\ IsInjective(background')
  BY <1>1, WithoutFacts DEF IInv, QueuesGood
<1>8. QueuesGood'
  <2>1. In({"urgent"})' = In({"urgent"})
    BY <1>2, <1>5 DEF In
  <2>2. In({"background"})' = In({"background"}) \ S
    BY <1>2, <1>5 DEF In
  <2> QED
    BY <1>1, <1>7, <2>1, <2>2 DEF IInv, QueuesGood
<1>9. \A k \in Keys : job'[k].state = "generating" <=> job[k].state = "generating"
  BY <1>2, <1>5
<1>10. \A k \in Keys : job[k].state \in {"urgent", "generating"}
                         => job'[k].state \in {"urgent", "generating"}
  BY <1>2, <1>5
<1>11. WorkersGood' /\ CallsGood'
  BY <1>1, <1>9, <1>10, WorkersKept, CallsKept DEF IInv
<1>12. WorkConserving'
  <2>1. urgent \in Seq(Keys) /\ background \in Seq(Keys) /\ urgent' = urgent /\ worker' = worker
    BY <1>1 DEF IInv, QueuesGood
  <2>2. Len(urgent') + Len(background') <= Len(urgent) + Len(background)
    BY <1>7, <2>1
  <2> QED
    BY <1>7, <2>1, <2>2, ConservedBy DEF IInv
<1> QED
  BY <1>1, <1>6, <1>8, <1>11, <1>12 DEF IInv

\* A fetch that looks, returns or finds its clip stored, and one that joins a job
\* which is being made or waited on.
LEMMA CallStep ==
  ASSUME IInv, NEW c \in Callers,
         \/ \E k \in Keys : Look(c, k)
         \/ UrgentAlready(c) \/ UrgentStored(c) \/ Answer(c) \/ Abandon(c)
  PROVE  IInv'
<1>1. UNCHANGED <<job, urgent, background, worker, late, stored>>
  BY DEF Look, UrgentAlready, UrgentStored, Answer, Abandon, Return
<1>2. JobsGood' /\ QueuesGood' /\ WorkersGood'
  BY <1>1, JobsKept, WorkersKept DEF IInv
<1>3. WorkConserving'
  BY <1>1 DEF IInv, WorkConserving
<1>4. CallsGood'
  <2>1. CASE UrgentAlready(c)
    BY <1>1, <2>1, CallWaits DEF IInv, UrgentAlready, WaitOn
  <2>2. CASE \/ \E k \in Keys : Look(c, k)
             \/ UrgentStored(c) \/ Answer(c) \/ Abandon(c)
    <3>1. PICK r \in CallRec : /\ call' = [call EXCEPT ![c] = r] /\ r.pc # "wait"
                               /\ r.pc = "lock" => r.key \in Keys
      <4>1. ASSUME NEW k \in Keys, Look(c, k) PROVE [pc |-> "lock", key |-> k] \in CallRec
        BY DEF CallRec
      <4>2. NoCall \in CallRec /\ NoCall.pc = "idle"
        BY DEF CallRec, NoCall
      <4> QED
        BY <2>2, <4>1, <4>2 DEF Look, UrgentStored, Answer, Abandon, Return
    <3> QED
      BY <1>1, <3>1 DEF IInv, CallsGood
  <2> QED
    BY <2>1, <2>2
<1> QED
  BY <1>1, <1>2, <1>3, <1>4 DEF IInv

\* A clip asked for moves from the background to the urgent queue.
LEMMA UrgentBackgroundStep ==
  ASSUME IInv, NEW c \in Callers, UrgentBackground(c)
  PROVE  IInv'
<1> DEFINE k == call[c].key
<1>1. /\ call[c].pc = "lock" /\ job[k].state = "background" /\ call' = [call EXCEPT ![c].pc = "wait"]
      /\ job' = [job EXCEPT ![k].state = "urgent"]
      /\ urgent' = Append(urgent, k) /\ background' = Without(background, {k})
      /\ UNCHANGED <<worker, late, stored>>
  BY DEF UrgentBackground, WaitOn
<1>2. k \in Keys
  BY <1>1 DEF IInv, CallsGood
<1> HIDE DEF k
<1>3. /\ job'[k] = [job[k] EXCEPT !.state = "urgent"] /\ job' = [x \in Keys |-> job'[x]]
      /\ \A x \in Keys : x # k => job'[x] = job[x]
  BY <1>1, <1>2 DEF IInv, JobsGood
<1>4. Good(job[k], late[k])
  BY <1>2 DEF IInv, JobsGood
<1>5. job'[k].state = "urgent" /\ Good(job'[k], late[k])
  BY <1>1, <1>3, <1>4 DEF Good, JobRec, InFlight, Queued
<1>6. JobsGood'
  BY <1>1, <1>3, <1>5 DEF IInv, JobsGood
<1>7. k \in ToSet(background) /\ k \notin ToSet(urgent)
  BY <1>1, <1>2 DEF IInv, QueuesGood, In
<1>8. /\ urgent \in Seq(Keys) /\ background \in Seq(Keys)
      /\ urgent' \in Seq(Keys) /\ Len(urgent') = Len(urgent) + 1
      /\ ToSet(urgent') = ToSet(urgent) \cup {k} /\ IsInjective(urgent')
  BY <1>1, <1>2, <1>7, Appended DEF IInv, QueuesGood
<1>9. /\ background' \in Seq(Keys) /\ ToSet(background') = ToSet(background) \ {k}
      /\ Len(background') < Len(background) /\ IsInjective(background')
  BY <1>1, <1>7, WithoutFacts DEF IInv, QueuesGood
<1>10. QueuesGood'
  <2>1. In({"urgent"})' = In({"urgent"}) \cup {k} /\ In({"background"})' = In({"background"}) \ {k}
    BY <1>2, <1>3, <1>5 DEF In
  <2> QED
    BY <1>8, <1>9, <2>1 DEF IInv, QueuesGood
<1>11. \A x \in Keys : job'[x].state = "generating" <=> job[x].state = "generating"
  BY <1>1, <1>3, <1>5
<1>12. WorkersGood'
  BY <1>1, <1>11, WorkersKept DEF IInv
<1>13. CallsGood'
  <2>1. \A x \in Keys : job[x].state \in {"urgent", "generating"}
                          => job'[x].state \in {"urgent", "generating"}
    BY <1>1, <1>3, <1>5
  <2>2. job'[call[c].key].state \in {"urgent", "generating"}
    BY <1>5 DEF k
  <2> QED
    BY <1>1, <2>1, <2>2, CallWaits DEF IInv
<1>14. WorkConserving'
  <2>1. Len(urgent') + Len(background') <= Len(urgent) + Len(background)
    BY <1>8, <1>9
  <2> QED
    BY <1>1, <1>8, <1>9, <2>1, ConservedBy DEF IInv
<1> QED
  BY <1>1, <1>6, <1>10, <1>12, <1>13, <1>14 DEF IInv

\* A clip asked for while it waits to be retried: its timer is stopped or late.
LEMMA UrgentRetryingStep ==
  ASSUME IInv, NEW c \in Callers, UrgentRetrying(c)
  PROVE  IInv'
<1> DEFINE k == call[c].key
<1>1. /\ call[c].pc = "lock" /\ job[k].state = "retrying" /\ call' = [call EXCEPT ![c].pc = "wait"]
      /\ job' = [job EXCEPT ![k].state = "urgent", ![k].timer = "none"] /\ StopTimers({k})
      /\ urgent' = Append(urgent, k) /\ Spawn(Len(urgent') + Len(background))
      /\ UNCHANGED <<background, stored>>
  BY DEF UrgentRetrying, WaitOn
<1>2. k \in Keys
  BY <1>1 DEF IInv, CallsGood
<1> HIDE DEF k
<1>3. /\ job' = [x \in Keys |-> job'[x]] /\ \A x \in Keys : x # k => job'[x] = job[x]
      /\ job'[k] = [[job[k] EXCEPT !.state = "urgent"] EXCEPT !.timer = "none"]
  BY <1>1, <1>2 DEF IInv, JobsGood
<1>4. Good(job[k], late[k])
  BY <1>2 DEF IInv, JobsGood
<1>5. /\ late' = [x \in Keys |-> late'[x]]
      /\ \A x \in Keys : late'[x] \in 0..MaxFired /\ (x # k => late'[x] = late[x])
  BY <1>1, TimersStopped DEF IInv
<1>6. job'[k].state = "urgent" /\ Good(job'[k], late'[k])
  <2>1. late'[k] \in 0..MaxFired
    BY <1>2, <1>5
  <2>2. job'[k] = [state |-> "urgent", attempts |-> job[k].attempts, timer |-> "none"]
        /\ job[k].attempts \in 0..MaxAttempts /\ job[k].attempts < MaxAttempts
    <3>1. job[k] \in JobRec /\ job[k].attempts \in 1..MaxAttempts - 1
      BY <1>1, <1>4 DEF Good
    <3>2. job[k].attempts \in 0..MaxAttempts /\ job[k].attempts < MaxAttempts
      BY <3>1, PreparerAssumption
    <3> QED
      BY <1>3, <3>1, <3>2 DEF JobRec
  <2> QED
    BY <2>1, <2>2 DEF Good, JobRec, InFlight, Queued
<1>7. JobsGood'
  BY <1>3, <1>5, <1>6 DEF IInv, JobsGood
<1>8. k \notin ToSet(urgent) /\ k \notin ToSet(background)
  BY <1>1, <1>2 DEF IInv, QueuesGood, In
<1>9. /\ urgent' \in Seq(Keys) /\ background' \in Seq(Keys) /\ background' = background
      /\ ToSet(urgent') = ToSet(urgent) \cup {k} /\ IsInjective(urgent')
  BY <1>1, <1>2, <1>8, Appended DEF IInv, QueuesGood
<1>10. QueuesGood'
  <2>1. In({"urgent"})' = In({"urgent"}) \cup {k}
    BY <1>1, <1>2, <1>3, <1>6 DEF In
  <2>2. In({"background"})' = In({"background"})
    BY <1>1, <1>2, <1>3, <1>6 DEF In
  <2> QED
    BY <1>9, <2>1, <2>2 DEF IInv, QueuesGood
<1>11. WorkersGood' /\ WorkConserving'
  <2>1. \A x \in Keys : job'[x].state = "generating" <=> job[x].state = "generating"
    BY <1>1, <1>3, <1>6
  <2> QED
    BY <1>1, <1>9, <2>1, SpawnKeeps DEF IInv
<1>12. CallsGood'
  <2>1. \A x \in Keys : job[x].state \in {"urgent", "generating"}
                          => job'[x].state \in {"urgent", "generating"}
    BY <1>1, <1>3, <1>6
  <2>2. job'[call[c].key].state \in {"urgent", "generating"}
    BY <1>6 DEF k
  <2> QED
    BY <1>1, <2>1, <2>2, CallWaits DEF IInv
<1> QED
  BY <1>1, <1>7, <1>10, <1>11, <1>12 DEF IInv

\* A clip asked for that has no job, or a failed one, gets a new job.
LEMMA UrgentNewStep ==
  ASSUME IInv, NEW c \in Callers, UrgentNew(c)
  PROVE  IInv'
<1> DEFINE k == call[c].key
<1>1. /\ call[c].pc = "lock" /\ job[k].state \in {"idle", "failed"}
      /\ call' = [call EXCEPT ![c].pc = "wait"]
      /\ job' = [job EXCEPT ![k] = NewJob("urgent")]
      /\ urgent' = Append(urgent, k) /\ Spawn(Len(urgent') + Len(background))
      /\ UNCHANGED <<background, late, stored>>
  BY DEF UrgentNew, WaitOn
<1>2. k \in Keys
  BY <1>1 DEF IInv, CallsGood
<1> HIDE DEF k
<1>3. /\ job' = [x \in Keys |-> job'[x]] /\ \A x \in Keys : x # k => job'[x] = job[x]
      /\ job'[k] = NewJob("urgent")
  BY <1>1, <1>2 DEF IInv, JobsGood
<1>4. late[k] \in 0..MaxFired
  BY <1>2 DEF IInv, JobsGood, Good
<1>5. job'[k].state = "urgent" /\ Good(job'[k], late[k])
  BY <1>3, <1>4, GoodStart DEF Queued
<1>6. JobsGood'
  BY <1>1, <1>3, <1>5 DEF IInv, JobsGood
<1>7. k \notin ToSet(urgent) /\ k \notin ToSet(background)
  BY <1>1, <1>2 DEF IInv, QueuesGood, In
<1>8. /\ urgent' \in Seq(Keys) /\ background' \in Seq(Keys) /\ background' = background
      /\ ToSet(urgent') = ToSet(urgent) \cup {k} /\ IsInjective(urgent')
  BY <1>1, <1>2, <1>7, Appended DEF IInv, QueuesGood
<1>9. QueuesGood'
  <2>1. In({"urgent"})' = In({"urgent"}) \cup {k} /\ In({"background"})' = In({"background"})
    BY <1>1, <1>2, <1>3, <1>5 DEF In
  <2> QED
    BY <1>8, <2>1 DEF IInv, QueuesGood
<1>10. WorkersGood' /\ WorkConserving'
  <2>1. \A x \in Keys : job'[x].state = "generating" <=> job[x].state = "generating"
    BY <1>1, <1>3, <1>5
  <2> QED
    BY <1>1, <1>8, <2>1, SpawnKeeps DEF IInv
<1>11. CallsGood'
  <2>1. \A x \in Keys : job[x].state \in {"urgent", "generating"}
                          => job'[x].state \in {"urgent", "generating"}
    BY <1>1, <1>3, <1>5
  <2>2. job'[call[c].key].state \in {"urgent", "generating"}
    BY <1>5 DEF k
  <2> QED
    BY <1>1, <2>1, <2>2, CallWaits DEF IInv
<1> QED
  BY <1>1, <1>6, <1>9, <1>10, <1>11 DEF IInv

\* The first job in line becomes the worker's.
LEMMA TakeStep ==
  ASSUME IInv, NEW w \in Workers, Take(w)
  PROVE  IInv'
<1> DEFINE k == Head(urgent \o background)
<1>1. /\ worker[w].pc = "next" /\ urgent \o background # <<>>
      /\ IF urgent # <<>> THEN urgent' = Tail(urgent) /\ UNCHANGED background
                          ELSE background' = Tail(background) /\ UNCHANGED urgent
      /\ worker' = [worker EXCEPT ![w] = [pc |-> "run", key |-> k, result |-> "none"]]
      /\ job' = [job EXCEPT ![k].state = "generating", ![k].attempts = @ + 1]
      /\ UNCHANGED <<call, late, stored>>
  BY DEF Take
<1> HIDE DEF k
<1>2. urgent \in Seq(Keys) /\ background \in Seq(Keys)
  BY DEF IInv, QueuesGood
<1>3. /\ k \in Keys /\ k \in In({"urgent"}) \cup In({"background"})
      /\ urgent' \in Seq(Keys) /\ background' \in Seq(Keys)
      /\ Len(urgent') + Len(background') = Len(urgent) + Len(background) - 1
      /\ IsInjective(urgent') /\ IsInjective(background')
      /\ ToSet(urgent') = ToSet(urgent) \ {k} /\ ToSet(background') = ToSet(background) \ {k}
  <2>1. CASE urgent # <<>>
    <3>1. k = Head(urgent) /\ urgent' = Tail(urgent) /\ background' = background
      BY <1>1, <1>2, <2>1, NextJob DEF k
    <3>2. /\ k \in ToSet(urgent) /\ k \in Keys /\ urgent' \in Seq(Keys)
          /\ Len(urgent') = Len(urgent) - 1
          /\ IsInjective(urgent') /\ ToSet(urgent') = ToSet(urgent) \ {k}
      BY <1>2, <2>1, <3>1, Taken DEF IInv, QueuesGood
    <3>3. k \notin ToSet(background)
      BY <3>2 DEF IInv, QueuesGood, In
    <3>4. Len(urgent') + Len(background') = Len(urgent) + Len(background) - 1
      BY <1>2, <3>1, <3>2
    <3> QED
      BY <1>2, <3>1, <3>2, <3>3, <3>4 DEF IInv, QueuesGood
  <2>2. CASE urgent = <<>>
    <3>1. /\ k = Head(background) /\ background # <<>>
          /\ background' = Tail(background) /\ urgent' = urgent
      BY <1>1, <1>2, <2>2, NextJob DEF k
    <3>2. /\ k \in ToSet(background) /\ k \in Keys /\ background' \in Seq(Keys)
          /\ Len(background') = Len(background) - 1
          /\ IsInjective(background') /\ ToSet(background') = ToSet(background) \ {k}
      BY <1>2, <3>1, Taken DEF IInv, QueuesGood
    <3>3. k \notin ToSet(urgent)
      BY <3>2 DEF IInv, QueuesGood, In
    <3>4. Len(urgent') + Len(background') = Len(urgent) + Len(background) - 1
      BY <1>2, <3>1, <3>2
    <3> QED
      BY <1>2, <3>1, <3>2, <3>3, <3>4 DEF IInv, QueuesGood
  <2> QED
    BY <2>1, <2>2
<1>4. job[k].state \in Queued /\ Good(job[k], late[k])
  BY <1>3 DEF IInv, JobsGood, In, Queued
<1>5. /\ job' = [x \in Keys |-> job'[x]] /\ \A x \in Keys : x # k => job'[x] = job[x]
      /\ job'[k] = [[job[k] EXCEPT !.state = "generating"] EXCEPT !.attempts = @ + 1]
  BY <1>1, <1>3 DEF IInv, JobsGood
<1>6. job'[k].state = "generating" /\ Good(job'[k], late[k])
  <2>1. /\ job[k].attempts \in 0..MaxAttempts /\ job[k].attempts < MaxAttempts
        /\ job[k] \in JobRec /\ job[k].timer = "none" /\ late[k] \in 0..MaxFired
    <3>1. job[k].state # "retrying"
      BY <1>4 DEF Queued
    <3>2. job[k].attempts < MaxAttempts /\ job[k] \in JobRec /\ late[k] \in 0..MaxFired
      BY <1>4 DEF Good
    <3>3. job[k].timer = "none"
      BY <1>4, <3>1 DEF Good
    <3> QED
      BY <3>2, <3>3 DEF JobRec
  <2>2. job'[k] = [state |-> "generating", attempts |-> job[k].attempts + 1, timer |-> "none"]
    BY <1>5, <2>1 DEF JobRec
  <2>3. job[k].attempts + 1 \in 0..MaxAttempts /\ job[k].attempts + 1 > 0
    BY <2>1, PreparerAssumption
  <2> QED
    BY <2>1, <2>2, <2>3 DEF Good, JobRec, InFlight, Queued
<1>7. JobsGood'
  BY <1>1, <1>5, <1>6 DEF IInv, JobsGood
<1>8. QueuesGood'
  <2>1. In({"urgent"})' = In({"urgent"}) \ {k} /\ In({"background"})' = In({"background"}) \ {k}
    BY <1>3, <1>5, <1>6 DEF In
  <2> QED
    BY <1>3, <2>1 DEF IInv, QueuesGood
<1>9. /\ worker' \in [Workers -> WorkerRec] /\ worker'[w].key = k /\ worker'[w].pc = "run"
      /\ \A v \in Workers : v # w => worker'[v] = worker[v]
  <2>1. [pc |-> "run", key |-> k, result |-> "none"] \in WorkerRec
    BY <1>3 DEF WorkerRec
  <2> QED
    BY <1>1, <2>1 DEF IInv, WorkersGood
<1>10. WorkersGood'
  <2>1. k # None /\ \A v \in Workers : worker[v].key # k
    BY <1>3, <1>4, PreparerAssumption DEF IInv, WorkersGood, OneSynthesis, Queued
  <2>2. worker[w].key = None
    BY <1>1 DEF IInv, WorkersGood
  <2>3. \A v \in Workers : worker[v].key # None => worker[v].key \in Keys
    BY DEF IInv, WorkersGood, WorkerRec
  <2>4. OneSynthesis'
    <3> SUFFICES ASSUME NEW v \in Workers, worker'[v].key # None
                 PROVE  /\ job'[worker'[v].key].state = "generating"
                        /\ \A u \in Workers \ {v} : worker'[u].key # worker'[v].key
      BY DEF OneSynthesis
    <3>1. CASE v = w
      BY <1>6, <1>9, <2>1, <3>1
    <3>2. CASE v # w
      <4>1. worker'[v] = worker[v] /\ worker[v].key \in Keys /\ worker[v].key # k
        BY <1>9, <2>1, <2>3, <3>2
      <4>2. /\ job[worker[v].key].state = "generating"
            /\ \A u \in Workers \ {v} : worker[u].key # worker[v].key
        BY <4>1, PreparerAssumption DEF IInv, WorkersGood, OneSynthesis
      <4> QED
        BY <1>5, <1>9, <3>2, <4>1, <4>2
    <3> QED
      BY <3>1, <3>2
  <2>5. \A x \in Keys : job'[x].state = "generating" => \E v \in Workers : worker'[v].key = x
    <3> TAKE x \in Keys
    <3>1. CASE x = k
      BY <1>9, <3>1
    <3>2. CASE x # k
      BY <1>5, <1>9, <2>2, <3>2, PreparerAssumption DEF IInv, WorkersGood
    <3> QED
      BY <3>1, <3>2
  <2> QED
    BY <1>9, <2>1, <2>4, <2>5 DEF IInv, WorkersGood
<1>11. CallsGood'
  <2>1. \A x \in Keys : job[x].state \in {"urgent", "generating"}
                          => job'[x].state \in {"urgent", "generating"}
    BY <1>5, <1>6
  <2> QED
    BY <1>1, <2>1, CallsKept DEF IInv
<1>12. WorkConserving'
  <2>1. NextWorkers' = NextWorkers \ {w} /\ w \in NextWorkers
    BY <1>1, <1>9 DEF NextWorkers
  <2>2. IsFiniteSet(NextWorkers) /\ Cardinality(NextWorkers) \in Nat
    BY PreparerAssumption, FS_Subset, FS_CardinalityType DEF NextWorkers
  <2>3. Cardinality(NextWorkers') = Cardinality(NextWorkers) - 1
    BY <2>1, <2>2, FS_RemoveElement
  <2>4. Len(urgent) + Len(background) \in Nat
    BY <1>2
  <2>5. CASE \A v \in Workers : worker[v].pc # "off"
    BY <1>9, <2>5 DEF WorkConserving
  <2>6. CASE Len(urgent) + Len(background) <= Cardinality(NextWorkers)
    <3>1. Len(urgent') + Len(background') <= Cardinality(NextWorkers')
      BY <1>3, <2>2, <2>3, <2>4, <2>6
    <3> QED
      BY <3>1 DEF WorkConserving, NextWorkers
  <2> QED
    BY <2>5, <2>6 DEF IInv, WorkConserving, NextWorkers
<1> QED
  BY <1>1, <1>7, <1>8, <1>10, <1>11, <1>12 DEF IInv

\* A worker retires where nothing is queued.
LEMMA RetireStep ==
  ASSUME IInv, NEW w \in Workers, Retire(w)
  PROVE  IInv'
<1>1. /\ worker[w].pc = "next" /\ urgent \o background = <<>>
      /\ worker' = [worker EXCEPT ![w] = Off]
      /\ UNCHANGED <<job, urgent, background, call, late, stored>>
  BY DEF Retire
<1>2. JobsGood' /\ QueuesGood' /\ CallsGood'
  BY <1>1, JobsKept, CallsKept DEF IInv
<1>3. Off \in WorkerRec /\ Off.pc = "off" /\ Off.key = None
  BY DEF Off, WorkerRec
<1>4. /\ worker \in [Workers -> WorkerRec] /\ worker[w].key = None
      /\ worker' \in [Workers -> WorkerRec] /\ SameHands
  BY <1>1, <1>3 DEF IInv, WorkersGood, SameHands
<1>5. WorkersGood'
  BY <1>1, <1>4 DEF IInv, WorkersGood, SameHands, OneSynthesis
<1>6. WorkConserving'
  <2>1. urgent \in Seq(Keys) /\ background \in Seq(Keys)
    BY DEF IInv, QueuesGood
  <2>2. Len(urgent') + Len(background') = 0
    <3>1. Len(urgent \o background) = Len(urgent) + Len(background)
      BY <2>1
    <3> QED
      BY <1>1, <2>1, <3>1
  <2>3. Cardinality(NextWorkers') \in Nat
    BY PreparerAssumption, FS_Subset, FS_CardinalityType DEF NextWorkers
  <2> QED
    BY <2>2, <2>3 DEF WorkConserving, NextWorkers
<1> QED
  BY <1>1, <1>2, <1>5, <1>6 DEF IInv

\* The synthesis ends, and the worker keeps its clip until it finishes it.
LEMMA RunStep ==
  ASSUME IInv, NEW w \in Workers, NEW result \in Outcomes, Run(w, result)
  PROVE  IInv'
<1>1. /\ worker[w].pc = "run"
      /\ worker' = [worker EXCEPT ![w].pc = "finish", ![w].result = result]
      /\ stored' = IF result = "made" THEN stored \cup {worker[w].key} ELSE stored
      /\ UNCHANGED <<job, urgent, background, call, late>>
  BY DEF Run
<1>2. JobsGood' /\ QueuesGood' /\ CallsGood'
  BY <1>1, JobsKept, CallsKept DEF IInv
<1>3. worker \in [Workers -> WorkerRec] /\ worker[w].key \in Keys
  <2>1. worker \in [Workers -> WorkerRec] /\ worker[w].key # None
    BY <1>1 DEF IInv, WorkersGood
  <2> QED
    BY <2>1 DEF WorkerRec
<1>4. /\ worker'[w] = [pc |-> "finish", key |-> worker[w].key, result |-> result]
      /\ \A v \in Workers : v # w => worker'[v] = worker[v]
      /\ worker' = [v \in Workers |-> worker'[v]]
  <2>1. worker'[w] = [[worker[w] EXCEPT !.pc = "finish"] EXCEPT !.result = result]
        /\ worker' = [v \in Workers |-> worker'[v]]
        /\ \A v \in Workers : v # w => worker'[v] = worker[v]
    BY <1>1, <1>3
  <2>2. worker[w] \in WorkerRec
    BY <1>3
  <2>3. worker'[w] = [pc |-> "finish", key |-> worker[w].key, result |-> result]
    BY <2>1, <2>2 DEF WorkerRec
  <2> QED
    BY <2>1, <2>3
<1>5. worker' \in [Workers -> WorkerRec]
  <2>1. worker'[w] \in WorkerRec
    BY <1>3, <1>4 DEF WorkerRec
  <2> QED
    BY <1>3, <1>4, <2>1
<1>6. WorkersGood'
  <2>1. \A v \in Workers : worker'[v].key = worker[v].key
    BY <1>4
  <2>2. OneSynthesis'
    BY <1>1, <2>1 DEF IInv, WorkersGood, OneSynthesis
  <2>3. \A v \in Workers : worker'[v].key # None <=> worker'[v].pc \in {"run", "finish"}
    BY <1>1, <1>4, <2>1 DEF IInv, WorkersGood
  <2>4. \A v \in Workers : worker'[v].pc = "finish" => worker'[v].result \in Outcomes
    BY <1>4 DEF IInv, WorkersGood
  <2> QED
    BY <1>1, <1>5, <2>1, <2>2, <2>3, <2>4 DEF IInv, WorkersGood
<1>7. WorkConserving'
  <2>1. /\ urgent \in Seq(Keys) /\ background \in Seq(Keys)
        /\ urgent' \in Seq(Keys) /\ background' \in Seq(Keys)
        /\ Len(urgent') + Len(background') <= Len(urgent) + Len(background)
    BY <1>1 DEF IInv, QueuesGood
  <2>2. \A v \in Workers : worker[v].pc # "off" => worker'[v].pc # "off"
    BY <1>4
  <2>3. \A v \in Workers : worker[v].pc = "next" => worker'[v].pc = "next"
    BY <1>1, <1>4
  <2> QED
    BY <2>1, <2>2, <2>3, ConservedBy DEF IInv
<1>8. stored' \subseteq Keys
  BY <1>1, <1>3 DEF IInv
<1> QED
  BY <1>2, <1>6, <1>7, <1>8 DEF IInv

\* Whatever a synthesis ended in: the worker lets go of its clip, those who
\* waited for it have their answer, and its job ends or waits to be retried.
LEMMA FinishKeeps ==
  ASSUME IInv, NEW w \in Workers, NEW results, Finishing(w, results),
         job' = [k \in Keys |-> job'[k]], late' = [k \in Keys |-> late'[k]],
         \A k \in Keys : Good(job'[k], late'[k]),
         job'[worker[w].key].state \in {"idle", "failed", "retrying"},
         urgent' = urgent, ToSet(background') = In({"background"})',
         background' \in Seq(Keys), Len(background') <= Len(background), IsInjective(background'),
         \A k \in Keys : k # worker[w].key =>
           \/ job'[k].state = job[k].state
           \/ job[k].state \in {"background", "retrying"} /\ job'[k].state = "idle",
         stored' = stored
  PROVE  IInv'
<1> DEFINE x == worker[w].key
<1>1. /\ worker[w].pc = "finish" /\ worker' = [worker EXCEPT ![w] = [Off EXCEPT !.pc = "next"]]
      /\ call' = [c \in Callers |-> IF call[c] = [pc |-> "wait", key |-> x]
                                    THEN [call[c] EXCEPT !.pc = "done"] ELSE call[c]]
  BY DEF Finishing
<1>2. /\ x \in Keys /\ job[x].state = "generating"
      /\ \A v \in Workers \ {w} : worker[v].key # x
      /\ worker \in [Workers -> WorkerRec]
  <2>1. x # None /\ worker \in [Workers -> WorkerRec]
    BY <1>1 DEF IInv, WorkersGood
  <2>2. x \in Keys
    BY <2>1 DEF WorkerRec
  <2> QED
    BY <2>1, <2>2 DEF IInv, WorkersGood, OneSynthesis
<1>3. [Off EXCEPT !.pc = "next"] = [pc |-> "next", key |-> None, result |-> "none"]
  BY DEF Off
<1>4. /\ worker' \in [Workers -> WorkerRec] /\ worker'[w].key = None /\ worker'[w].pc = "next"
      /\ \A v \in Workers : v # w => worker'[v] = worker[v]
  <2>1. [pc |-> "next", key |-> None, result |-> "none"] \in WorkerRec
    BY DEF WorkerRec
  <2> QED
    BY <1>1, <1>2, <1>3, <2>1
<1> HIDE DEF x
<1>5. job'[x].state \in {"idle", "failed", "retrying"}
  BY DEF x
<1>6. \A k \in Keys : k # x =>
           \/ job'[k].state = job[k].state
           \/ job[k].state \in {"background", "retrying"} /\ job'[k].state = "idle"
  BY DEF x
<1>7. WorkersGood'
  <2>1. \A v \in Workers : worker[v].key # None => worker[v].key \in Keys
    BY <1>2 DEF WorkerRec
  <2>2. ASSUME NEW v \in Workers, worker'[v].key # None
        PROVE  /\ job'[worker'[v].key].state = "generating"
               /\ \A u \in Workers \ {v} : worker'[u].key # worker'[v].key
    <3>1. v # w /\ worker'[v] = worker[v]
      BY <1>4, <2>2
    <3>2. /\ job[worker[v].key].state = "generating" /\ worker[v].key \in Keys /\ worker[v].key # x
          /\ \A u \in Workers \ {v} : worker[u].key # worker[v].key
      BY <1>2, <2>1, <2>2, <3>1 DEF IInv, WorkersGood, OneSynthesis
    <3> QED
      BY <1>4, <1>6, <2>2, <3>1, <3>2
  <2>3. ASSUME NEW k \in Keys, job'[k].state = "generating" PROVE \E v \in Workers : worker'[v].key = k
    <3>1. k # x /\ job[k].state = "generating"
      BY <1>5, <1>6, <2>3
    <3>2. PICK v \in Workers : worker[v].key = k
      BY <3>1 DEF IInv, WorkersGood
    <3>3. v # w
      BY <3>1, <3>2 DEF x
    <3> QED
      BY <1>4, <3>2, <3>3
  <2>4. OneSynthesis'
    BY <2>2 DEF OneSynthesis
  <2>5. \A v \in Workers : worker'[v].key # None <=> worker'[v].pc \in {"run", "finish"}
    BY <1>4 DEF IInv, WorkersGood
  <2>6. \A v \in Workers : worker'[v].pc = "finish" => worker'[v].result \in Outcomes
    BY <1>4 DEF IInv, WorkersGood
  <2> QED
    BY <1>4, <2>3, <2>4, <2>5, <2>6 DEF WorkersGood
<1>8. CallsGood'
  <2>1. call \in [Callers -> CallRec]
    BY DEF IInv, CallsGood
  <2>2. ASSUME NEW c \in Callers
        PROVE  \/ call'[c] = [pc |-> "done", key |-> x]
               \/ call'[c] = call[c] /\ (call[c].pc = "wait" => call[c].key # x)
    <3>1. CASE call[c] = [pc |-> "wait", key |-> x]
      BY <1>1, <3>1
    <3>2. CASE call[c] # [pc |-> "wait", key |-> x]
      <4>1. call'[c] = call[c]
        BY <1>1, <3>2
      <4>2. ~(call[c].pc = "wait" /\ call[c].key = x)
        BY <2>1, <3>2 DEF CallRec
      <4> QED
        BY <4>1, <4>2
    <3> QED
      BY <3>1, <3>2
  <2>3. [pc |-> "done", key |-> x] \in CallRec
    BY <1>2 DEF CallRec
  <2>4. call' \in [Callers -> CallRec]
    <3>1. call' = [c \in Callers |-> call'[c]]
      BY <1>1
    <3> QED
      BY <2>1, <2>2, <2>3, <3>1
  <2>5. ASSUME NEW c \in Callers
        PROVE  /\ call'[c].pc \in {"lock", "wait"} => call'[c].key \in Keys
               /\ call'[c].pc = "wait" => job'[call'[c].key].state \in {"urgent", "generating"}
    BY <1>6, <2>2 DEF IInv, CallsGood
  <2> QED
    BY <2>4, <2>5 DEF CallsGood
<1>9. QueuesGood'
  <2>1. In({"urgent"})' = In({"urgent"})
    BY <1>2, <1>5, <1>6 DEF In
  <2> QED
    BY <2>1 DEF IInv, QueuesGood
<1>10. WorkConserving'
  <2>1. /\ urgent \in Seq(Keys) /\ background \in Seq(Keys) /\ urgent' \in Seq(Keys)
        /\ Len(urgent') + Len(background') <= Len(urgent) + Len(background)
    <3>1. urgent \in Seq(Keys) /\ background \in Seq(Keys)
      BY DEF IInv, QueuesGood
    <3> QED
      BY <3>1
  <2>2. \A v \in Workers : worker[v].pc # "off" => worker'[v].pc # "off"
    BY <1>4
  <2>3. \A v \in Workers : worker[v].pc = "next" => worker'[v].pc = "next"
    BY <1>4
  <2> QED
    BY <2>1, <2>2, <2>3, ConservedBy DEF IInv
<1>11. JobsGood' /\ stored' \subseteq Keys
  BY DEF IInv, JobsGood
<1> QED
  BY <1>7, <1>8, <1>9, <1>10, <1>11 DEF IInv

\* The job that a worker finishes.
LEMMA FinishedJob ==
  ASSUME IInv, NEW w \in Workers, NEW results, Finishing(w, results)
  PROVE  /\ worker[w].key \in Keys /\ job[worker[w].key].state = "generating"
         /\ Good(job[worker[w].key], late[worker[w].key])
<1>1. worker[w].pc = "finish" /\ worker[w].result \in results
  BY DEF Finishing
<1>2. worker[w].key \in Keys
  <2>1. worker[w].key # None /\ worker[w] \in WorkerRec
    BY <1>1 DEF IInv, WorkersGood
  <2> QED
    BY <2>1 DEF WorkerRec
<1>3. job[worker[w].key].state = "generating"
  BY <1>2, PreparerAssumption DEF IInv, WorkersGood, OneSynthesis
<1> QED
  BY <1>1, <1>2, <1>3 DEF IInv, JobsGood

\* One job changes as its worker finishes it: nothing else is touched.
LEMMA FinishOne ==
  ASSUME IInv, NEW w \in Workers, NEW results, Finishing(w, results),
         NEW j, job' = [job EXCEPT ![worker[w].key] = j],
         Good(j, late[worker[w].key]), j.state \in {"idle", "failed", "retrying"},
         UNCHANGED <<urgent, background, late, stored>>
  PROVE  IInv'
<1> DEFINE x == worker[w].key
<1>1. x \in Keys /\ job[x].state = "generating"
  BY FinishedJob
<1>2. /\ job' = [k \in Keys |-> job'[k]] /\ job'[x] = j /\ late' = [k \in Keys |-> late'[k]]
      /\ \A k \in Keys : k # x => job'[k] = job[k]
  BY <1>1 DEF IInv, JobsGood
<1>3. \A k \in Keys : Good(job'[k], late'[k])
  BY <1>2 DEF IInv, JobsGood
<1>4. /\ background \in Seq(Keys) /\ Len(background) \in Nat /\ IsInjective(background)
      /\ ToSet(background) = In({"background"})
  BY DEF IInv, QueuesGood
<1>5. In({"background"})' = In({"background"})
  BY <1>1, <1>2 DEF In
<1>6. Len(background') <= Len(background)
  BY <1>4
<1>7. job'[worker[w].key].state \in {"idle", "failed", "retrying"}
  BY <1>2
<1>8. \A k \in Keys : k # worker[w].key =>
           \/ job'[k].state = job[k].state
           \/ job[k].state \in {"background", "retrying"} /\ job'[k].state = "idle"
  BY <1>2
<1> QED
  BY <1>2, <1>3, <1>4, <1>5, <1>6, <1>7, <1>8, FinishKeeps, ZenonT(40)

\* A synthesis ends with the clip, with a retry to come, or for good.
LEMMA FinishSimpleStep ==
  ASSUME IInv, NEW w \in Workers,
         FinishMade(w) \/ FinishUnstored(w) \/ FinishRetry(w) \/ FinishFailed(w)
  PROVE  IInv'
<1> DEFINE x == worker[w].key
<1>1. PICK results : Finishing(w, results)
  BY DEF FinishMade, FinishUnstored, FinishRetry, FinishFailed
<1>2. x \in Keys /\ job[x].state = "generating" /\ Good(job[x], late[x])
  BY <1>1, FinishedJob
<1>3. late[x] \in 0..MaxFired /\ job[x] \in JobRec /\ job[x].timer = "none" /\ job[x].attempts > 0
      /\ job[x].attempts \in 0..MaxAttempts
  <2>1. late[x] \in 0..MaxFired /\ job[x] \in JobRec /\ job[x].timer = "none" /\ job[x].attempts > 0
    BY <1>2 DEF Good
  <2> QED
    BY <2>1 DEF JobRec
<1>4. job = [k \in Keys |-> job[k]]
  BY DEF IInv, JobsGood
<1>5. CASE FinishMade(w)
  <2>1. job' = [job EXCEPT ![x] = NoJob] /\ UNCHANGED <<urgent, background, late, stored>>
    <3>1. job' = [k \in Keys |-> IF k \in {x} THEN NoJob ELSE job[k]]
      BY <1>5, Zenon DEF FinishMade, Drop
    <3> QED
      BY <1>2, <1>4, <1>5, <3>1 DEF FinishMade
  <2>2. Good(NoJob, late[x]) /\ NoJob.state = "idle"
    BY <1>3, GoodStart
  <2> QED
    BY <1>1, <2>1, <2>2, FinishOne
<1>6. CASE FinishUnstored(w) \/ FinishFailed(w)
  <2> DEFINE j == [job[x] EXCEPT !.state = "failed"]
  <2>1. job' = [job EXCEPT ![x] = j] /\ UNCHANGED <<urgent, background, late, stored>>
    BY <1>6 DEF FinishUnstored, FinishFailed
  <2>2. j = [state |-> "failed", attempts |-> job[x].attempts, timer |-> "none"]
    BY <1>3 DEF JobRec
  <2> HIDE DEF j
  <2>3. Good(j, late[x]) /\ j.state = "failed"
    BY <1>3, <2>2 DEF Good, JobRec, InFlight, Queued
  <2> QED
    BY <1>1, <2>1, <2>3, FinishOne
<1>7. CASE FinishRetry(w)
  <2> DEFINE j == [[job[x] EXCEPT !.state = "retrying"] EXCEPT !.timer = "armed"]
  <2>1. job' = [job EXCEPT ![x] = j] /\ job[x].attempts < MaxAttempts
        /\ UNCHANGED <<urgent, background, late, stored>>
    BY <1>7 DEF FinishRetry
  <2>2. j = [state |-> "retrying", attempts |-> job[x].attempts, timer |-> "armed"]
    <3> DEFINE i == [job[x] EXCEPT !.state = "retrying"]
    <3>1. i = [state |-> "retrying", attempts |-> job[x].attempts, timer |-> "none"]
      BY <1>3 DEF JobRec
    <3> HIDE DEF i
    <3>2. j = [i EXCEPT !.timer = "armed"]
      BY DEF i
    <3> QED
      BY <3>1, <3>2
  <2> HIDE DEF j
  <2>3. job[x].attempts \in 1..MaxAttempts - 1
    BY <1>3, <2>1, PreparerAssumption
  <2>4. Good(j, late[x]) /\ j.state = "retrying"
    BY <1>3, <2>2, <2>3 DEF Good, JobRec, InFlight, Queued
  <2> QED
    BY <1>1, <2>1, <2>4, FinishOne
<1> QED
  BY <1>5, <1>6, <1>7

\* A halt reaches the background and what waits to be retried, nothing else.
LEMMA FinishHaltStep ==
  ASSUME IInv, NEW w \in Workers, FinishHalt(w)
  PROVE  IInv'
<1> DEFINE x == worker[w].key
           S == ToSet(background) \cup In({"retrying"})
           j == [NoJob EXCEPT !.state = "failed"]
<1>1. /\ Finishing(w, Failures)
      /\ job' = [[k \in Keys |-> IF k \in S THEN NoJob ELSE job[k]] EXCEPT ![x].state = "failed"]
      /\ StopTimers(S) /\ background' = <<>> /\ UNCHANGED <<urgent, stored>>
  BY Zenon DEF FinishHalt, Drop
<1>2. x \in Keys /\ job[x].state = "generating" /\ Good(job[x], late[x])
  BY <1>1, FinishedJob
<1>3. \A k \in Keys : k \in S <=> job[k].state \in {"background", "retrying"}
  BY DEF IInv, QueuesGood, In
<1> HIDE DEF S, x
<1>4. x \notin S
  BY <1>2, <1>3
<1>5. /\ late' = [k \in Keys |-> late'[k]]
      /\ \A k \in Keys : late'[k] \in 0..MaxFired /\ (k \notin S => late'[k] = late[k])
  BY <1>1, TimersStopped DEF IInv
<1>6. /\ job' = [k \in Keys |-> job'[k]] /\ job'[x] = [job[x] EXCEPT !.state = "failed"]
      /\ \A k \in Keys : k # x => job'[k] = IF k \in S THEN NoJob ELSE job[k]
  BY <1>1, <1>2, <1>4
<1>7. job'[x].state = "failed" /\ Good(job'[x], late'[x])
  <2>1. late[x] \in 0..MaxFired /\ job[x] \in JobRec /\ job[x].timer = "none" /\ late'[x] = late[x]
    BY <1>2, <1>4, <1>5 DEF Good
  <2>2. job'[x] = [state |-> "failed", attempts |-> job[x].attempts, timer |-> "none"]
        /\ job[x].attempts \in 0..MaxAttempts
    BY <1>6, <2>1 DEF JobRec
  <2> QED
    BY <2>1, <2>2 DEF Good, JobRec, InFlight, Queued
<1>8. \A k \in Keys : Good(NoJob, late'[k]) /\ NoJob.state = "idle"
  BY <1>5, GoodStart
<1>9. \A k \in Keys : Good(job'[k], late'[k])
  BY <1>5, <1>6, <1>7, <1>8 DEF IInv, JobsGood
<1>10. \A k \in Keys : k # x =>
           \/ job'[k].state = job[k].state
           \/ job[k].state \in {"background", "retrying"} /\ job'[k].state = "idle"
  BY <1>3, <1>6, <1>8
<1>11. /\ ToSet(background') = In({"background"})' /\ background' \in Seq(Keys)
       /\ Len(background') <= Len(background) /\ IsInjective(background')
  <2>1. \A k \in Keys : job'[k].state # "background"
    BY <1>3, <1>6, <1>7, <1>8
  <2>2. In({"background"})' = {}
    BY <2>1 DEF In
  <2>3. ToSet(<<>>) = {} /\ IsInjective(<<>>) /\ <<>> \in Seq(Keys) /\ Len(<<>>) = 0
    BY DEF ToSet, IsInjective
  <2>4. Len(background) \in Nat
    BY DEF IInv, QueuesGood
  <2> QED
    BY <1>1, <2>2, <2>3, <2>4
<1>12. job'[worker[w].key].state \in {"idle", "failed", "retrying"}
  BY <1>7 DEF x
<1>13. \A k \in Keys : k # worker[w].key =>
           \/ job'[k].state = job[k].state
           \/ job[k].state \in {"background", "retrying"} /\ job'[k].state = "idle"
  BY <1>10 DEF x
<1> QED
  BY <1>1, <1>5, <1>6, <1>9, <1>11, <1>12, <1>13, FinishKeeps

\* A timer fires, and its function waits for the lock.
LEMMA FireStep ==
  ASSUME IInv, NEW k \in Keys, Fire(k)
  PROVE  IInv'
<1>1. /\ job[k].timer = "armed" /\ late[k] < MaxFired
      /\ job' = [job EXCEPT ![k].timer = "fired"]
      /\ UNCHANGED <<urgent, background, worker, call, late, stored>>
  BY DEF Fire
<1>2. /\ job' = [x \in Keys |-> job'[x]] /\ \A x \in Keys : x # k => job'[x] = job[x]
      /\ job'[k] = [job[k] EXCEPT !.timer = "fired"]
  BY <1>1 DEF IInv, JobsGood
<1>3. Good(job[k], late[k])
  BY DEF IInv, JobsGood
<1>4. /\ job[k].state = "retrying" /\ late[k] \in 0..MaxFired /\ job[k] \in JobRec
      /\ job[k].attempts \in 1..MaxAttempts - 1
  BY <1>1, <1>3 DEF Good
<1>5. job'[k] = [state |-> "retrying", attempts |-> job[k].attempts, timer |-> "fired"]
      /\ job[k].attempts \in 0..MaxAttempts
  BY <1>2, <1>4 DEF JobRec
<1>6. Good(job'[k], late'[k])
  BY <1>1, <1>4, <1>5 DEF Good, JobRec, InFlight, Queued
<1>7. \A x \in Keys : job'[x].state = job[x].state
  BY <1>2, <1>4, <1>5
<1>8. JobsGood'
  BY <1>1, <1>2, <1>6 DEF IInv, JobsGood
<1>9. QueuesGood'
  <2>1. In({"urgent"})' = In({"urgent"}) /\ In({"background"})' = In({"background"})
    BY <1>7 DEF In
  <2> QED
    BY <1>1, <2>1 DEF IInv, QueuesGood
<1>10. WorkersGood' /\ CallsGood'
  BY <1>1, <1>7, WorkersKept, CallsKept DEF IInv
<1> QED
  BY <1>1, <1>8, <1>9, <1>10 DEF IInv, WorkConserving

\* The retried job goes to the front of the background, with a worker to take it.
LEMMA RequeueStep ==
  ASSUME IInv, NEW k \in Keys, Requeue(k)
  PROVE  IInv'
<1>1. /\ job[k].timer = "fired"
      /\ job' = [job EXCEPT ![k].timer = "none", ![k].state = "background"]
      /\ background' = <<k>> \o background
      /\ Spawn(Len(urgent) + Len(background'))
      /\ UNCHANGED <<urgent, call, late, stored>>
  BY DEF Requeue
<1>2. /\ job' = [x \in Keys |-> job'[x]] /\ \A x \in Keys : x # k => job'[x] = job[x]
      /\ job'[k] = [[job[k] EXCEPT !.timer = "none"] EXCEPT !.state = "background"]
  BY <1>1 DEF IInv, JobsGood
<1>3. Good(job[k], late[k])
  BY DEF IInv, JobsGood
<1>4. /\ job[k].state = "retrying" /\ late[k] \in 0..MaxFired /\ job[k] \in JobRec
      /\ job[k].attempts \in 1..MaxAttempts - 1
  BY <1>1, <1>3 DEF Good
<1>5. job'[k] = [state |-> "background", attempts |-> job[k].attempts, timer |-> "none"]
  BY <1>2, <1>4 DEF JobRec
<1>6. job[k].attempts \in 0..MaxAttempts /\ job[k].attempts < MaxAttempts
  BY <1>4, PreparerAssumption
<1>7. Good(job'[k], late'[k])
  BY <1>1, <1>4, <1>5, <1>6 DEF Good, JobRec, InFlight, Queued
<1>8. JobsGood'
  BY <1>1, <1>2, <1>7 DEF IInv, JobsGood
<1>9. k \notin ToSet(background)
  BY <1>4 DEF IInv, QueuesGood, In
<1>10. /\ background' \in Seq(Keys) /\ ToSet(background') = ToSet(background) \cup {k}
       /\ IsInjective(background')
  <2>1. /\ <<k>> \in Seq(Keys) /\ IsInjective(<<k>>) /\ ToSet(<<k>>) = {k}
    BY DEF IsInjective, ToSet
  <2>2. background \in Seq(Keys) /\ IsInjective(background)
    BY DEF IInv, QueuesGood
  <2> DEFINE one == <<k>>
  <2> HIDE DEF one
  <2>3. one \in Seq(Keys) /\ IsInjective(one) /\ ToSet(one) = {k}
    BY <2>1 DEF one
  <2>4. ToSet(one) \cap ToSet(background) = {}
    BY <1>9, <2>3
  <2>5. /\ one \o background \in Seq(Keys) /\ IsInjective(one \o background)
        /\ ToSet(one \o background) = ToSet(one) \cup ToSet(background)
    BY <2>2, <2>3, <2>4, Concatenated
  <2> QED
    BY <1>1, <2>3, <2>5 DEF one
<1>11. QueuesGood'
  <2>1. In({"urgent"})' = In({"urgent"})
    BY <1>2, <1>4, <1>5 DEF In
  <2>2. In({"background"})' = In({"background"}) \cup {k}
    BY <1>2, <1>4, <1>5 DEF In
  <2> QED
    BY <1>1, <1>10, <2>1, <2>2 DEF IInv, QueuesGood
<1>12. WorkersGood' /\ WorkConserving'
  <2>1. \A x \in Keys : job'[x].state = "generating" <=> job[x].state = "generating"
    BY <1>2, <1>4, <1>5
  <2>2. urgent' \in Seq(Keys) /\ Spawn(Len(urgent') + Len(background'))
    BY <1>1 DEF IInv, QueuesGood
  <2> QED
    BY <1>10, <2>1, <2>2, SpawnKeeps DEF IInv
<1>13. CallsGood'
  <2>1. \A x \in Keys : job[x].state \in {"urgent", "generating"}
                          => job'[x].state \in {"urgent", "generating"}
    BY <1>2, <1>4, <1>5
  <2> QED
    BY <1>1, <2>1, CallsKept DEF IInv
<1> QED
  BY <1>1, <1>8, <1>11, <1>12, <1>13 DEF IInv

\* A late timer finds its job gone; a clip comes to the store or leaves it.
LEMMA AsideStep ==
  ASSUME IInv, NEW k \in Keys, RequeueLate(k) \/ Cache(k) \/ Evict(k)
  PROVE  IInv'
<1>1. UNCHANGED <<job, urgent, background, worker, call>>
  BY DEF RequeueLate, Cache, Evict
<1>2. late' = late \/ (late[k] > 0 /\ late' = [late EXCEPT ![k] = @ - 1])
  BY DEF RequeueLate, Cache, Evict
<1>3. stored' \subseteq Keys
  BY DEF IInv, RequeueLate, Cache, Evict
<1>4. JobsGood'
  <2>1. \A x \in Keys : Good(job[x], late[x]) /\ late[x] \in 0..MaxFired
    BY DEF IInv, JobsGood, Good
  <2>2. late' = [x \in Keys |-> late'[x]]
        /\ \A x \in Keys : late'[x] \in 0..MaxFired /\ late'[x] <= late[x]
    BY <1>2, <2>1, PreparerAssumption DEF IInv, JobsGood
  <2>3. ASSUME NEW x \in Keys PROVE Good(job'[x], late'[x])
    <3>1. job[x].timer = "fired" => late'[x] < MaxFired
      BY <2>1, <2>2, PreparerAssumption DEF Good
    <3> QED
      BY <1>1, <2>1, <2>2, <3>1 DEF Good
  <2> QED
    BY <1>1, <2>2, <2>3 DEF IInv, JobsGood
<1>5. QueuesGood' /\ WorkersGood' /\ CallsGood' /\ WorkConserving'
  <2>1. WorkersGood' /\ CallsGood'
    BY <1>1, WorkersKept, CallsKept DEF IInv
  <2>2. QueuesGood'
    BY <1>1 DEF IInv, QueuesGood, In
  <2> QED
    BY <1>1, <2>1, <2>2 DEF IInv, WorkConserving
<1> QED
  BY <1>3, <1>4, <1>5 DEF IInv

\* Every step keeps it.
LEMMA NextStep ==
  ASSUME IInv, [Next]_vars
  PROVE  IInv'
<1>1. ASSUME NEW items \in Batches, Queue(items) \/ Forget(ToSet(items)) PROVE IInv'
  <2>1. items \in Seq(Keys)
    BY PreparerAssumption
  <2> QED
    BY <1>1, <2>1, QueueStep, ForgetStep
<1>2. ASSUME NEW c \in Callers, Fetch(c) PROVE IInv'
  BY <1>2, CallStep, UrgentBackgroundStep, UrgentRetryingStep, UrgentNewStep DEF Fetch
<1>3. ASSUME NEW w \in Workers, Work(w) PROVE IInv'
  BY <1>3, TakeStep, RetireStep, RunStep, FinishSimpleStep, FinishHaltStep DEF Work, Finish
<1>4. ASSUME NEW k \in Keys, Timer(k) \/ Cache(k) \/ Evict(k) PROVE IInv'
  BY <1>4, FireStep, RequeueStep, AsideStep DEF Timer
<1>5. CASE UNCHANGED vars
  <2>1. UNCHANGED <<job, urgent, background, worker, call, late, stored>>
    BY <1>5 DEF vars
  <2>2. WorkersGood' /\ CallsGood' /\ JobsGood' /\ QueuesGood'
    BY <2>1, WorkersKept, CallsKept, JobsKept DEF IInv
  <2> QED
    BY <2>1, <2>2 DEF IInv, WorkConserving
<1> QED
  BY <1>1, <1>2, <1>3, <1>4, <1>5 DEF Next

(* ------------------------------- Theorems -------------------------------- *)

\* The invariant is inductive.
THEOREM Inductive == Spec => []IInv
BY InitInv, NextStep, PTL DEF Spec

\* It says what the types are.
LEMMA InvTypes == IInv => TypeOK
<1> SUFFICES ASSUME IInv PROVE TypeOK
  OBVIOUS
<1>1. job \in [Keys -> JobRec] /\ late \in [Keys -> 0..MaxFired]
  <2>1. \A k \in Keys : job[k] \in JobRec /\ late[k] \in 0..MaxFired
    BY DEF IInv, JobsGood, Good
  <2> QED
    BY <2>1 DEF IInv, JobsGood
<1> QED
  BY <1>1, Zenon DEF IInv, WorkersGood, CallsGood, QueuesGood, TypeOK, JobRec, WorkerRec, CallRec

\* Every variable has its type: no clip is tried more than MaxAttempts times per
\* request.
THEOREM TypeCorrect == Spec => []TypeOK
BY InvTypes, Inductive, PTL

\* The queues hold exactly the queued jobs of the map, each once, and a timer is
\* there exactly where a job waits for one, after any sequence of requests,
\* halts, retries and late timers.
THEOREM JobsSoundAlways == Spec => []JobsSound
<1>1. IInv => JobsSound
  <2> SUFFICES ASSUME IInv PROVE QueuesSound /\ RetriesTimed
    BY DEF JobsSound
  <2>1. ToSet(urgent) \cap ToSet(background) = {}
    BY DEF IInv, QueuesGood, In
  <2>2. IsInjective(urgent \o background)
    BY <2>1, Concatenated DEF IInv, QueuesGood
  <2>3. RetriesTimed
    BY DEF IInv, JobsGood, Good, RetriesTimed
  <2> QED
    BY <2>2, <2>3 DEF IInv, QueuesGood, QueuesSound
<1> QED
  BY <1>1, Inductive, PTL

\* A clip is synthesized by one worker at a time, whose map entry says so.
THEOREM OneSynthesisAlways == Spec => []OneSynthesis
<1>1. IInv => OneSynthesis
  BY DEF IInv, WorkersGood
<1> QED
  BY <1>1, Inductive, PTL

\* No clip waits in a queue with a worker to spare.
THEOREM WorkConservingAlways == Spec => []WorkConserving
<1>1. IInv => WorkConserving
  BY DEF IInv
<1> QED
  BY <1>1, Inductive, PTL

\* Nobody waits on a job that nothing will finish.
THEOREM NobodyStrandedAlways == Spec => []NobodyStranded
<1>1. IInv => NobodyStranded
  <2> SUFFICES ASSUME IInv, NEW c \in Callers, call[c].pc = "wait"
               PROVE  \/ Contains(urgent, call[c].key)
                      \/ \E w \in Workers : worker[w].key = call[c].key
    BY DEF NobodyStranded
  <2>1. call[c].key \in Keys /\ job[call[c].key].state \in {"urgent", "generating"}
    BY DEF IInv, CallsGood
  <2>2. CASE job[call[c].key].state = "generating"
    BY <2>1, <2>2 DEF IInv, WorkersGood
  <2>3. CASE job[call[c].key].state = "urgent"
    <3>1. call[c].key \in ToSet(urgent) /\ urgent \in Seq(Keys)
      BY <2>1, <2>3 DEF IInv, QueuesGood, In
    <3> QED
      BY <3>1 DEF ToSet, Contains
  <2> QED
    BY <2>1, <2>2, <2>3
<1> QED
  BY <1>1, Inductive, PTL


(* ------------------- Every step is a step of SpeakClips ------------------ *)

\* A clip's work as SpeakClips sees it, and a clip a step leaves as it is there.
WorkOf(k) == IF job[k].state \in Queued THEN "queued" ELSE job[k].state
SameWork(k) == WorkOf(k)' = WorkOf(k) /\ job'[k].attempts = job[k].attempts
\* A clip whose work becomes what, its count as it was or from nothing.
NowIs(k, what) == WorkOf(k)' = what /\ job'[k].attempts = job[k].attempts
NowAnew(k, what) == WorkOf(k)' = what /\ job'[k].attempts = 0

\* Nothing to see.
LEMMA ShowsNothing ==
  ASSUME \A k \in Keys : SameWork(k), stored' = stored
  PROVE  UNCHANGED Clips!vars
BY DEF Clips!vars, SameWork, WorkOf

\* The clips of S are asked for.
LEMMA ShowsAsk ==
  ASSUME NEW S \in SUBSET Keys, stored' = stored,
         \A k \in S : k \notin stored /\ WorkOf(k) \in {"idle", "failed"} /\ NowAnew(k, "queued"),
         \A k \in Keys \ S : SameWork(k)
  PROVE  Clips!Ask(S)
BY DEF Clips!Ask, Clips!Become, Clips!Restart, NowAnew, SameWork, WorkOf

\* A clip that waits to be retried is queued again.
LEMMA ShowsResume ==
  ASSUME NEW x \in Keys, stored' = stored, WorkOf(x) = "retrying", NowIs(x, "queued"),
         \A k \in Keys \ {x} : SameWork(k)
  PROVE  Clips!Resume(x)
BY DEF Clips!Resume, Clips!Become, NowIs, SameWork, WorkOf

\* A synthesis starts.
LEMMA ShowsStart ==
  ASSUME NEW x \in Keys, stored' = stored, WorkOf(x) = "queued", job[x].attempts < MaxAttempts,
         WorkOf(x)' = "generating", job'[x].attempts = job[x].attempts + 1,
         \A k \in Keys \ {x} : SameWork(k)
  PROVE  Clips!Start(x)
BY DEF Clips!Start, Clips!Become, SameWork, WorkOf

\* A synthesis ends with the clip ...
LEMMA ShowsMade ==
  ASSUME NEW x \in Keys, stored' = stored, WorkOf(x) = "generating", NowAnew(x, "idle"),
         \A k \in Keys \ {x} : SameWork(k)
  PROVE  Clips!Made(x)
BY DEF Clips!Made, Clips!Become, Clips!Restart, NowAnew, SameWork, WorkOf

\* ... with a retry to come.
LEMMA ShowsRetry ==
  ASSUME NEW x \in Keys, stored' = stored, WorkOf(x) = "generating", NowIs(x, "retrying"),
         job[x].attempts < MaxAttempts,
         \A k \in Keys \ {x} : SameWork(k)
  PROVE  Clips!Retry(x)
BY DEF Clips!Retry, Clips!Become, NowIs, SameWork, WorkOf

\* ... or for good, and with the clips of S called off.
LEMMA ShowsGiveUp ==
  ASSUME NEW x \in Keys, NEW S \in SUBSET (Keys \ {x}), stored' = stored,
         WorkOf(x) = "generating", NowIs(x, "failed"),
         \A k \in S : WorkOf(k) \in {"queued", "retrying"} /\ NowAnew(k, "idle"),
         \A k \in Keys \ (S \cup {x}) : SameWork(k)
  PROVE  Clips!GiveUp(x, S)
<1>1. x \notin S
  OBVIOUS
<1> QED
  BY <1>1 DEF Clips!GiveUp, Clips!Restart, NowIs, NowAnew, SameWork, WorkOf

\* The clips of S are no longer wanted.
LEMMA ShowsForget ==
  ASSUME NEW S \in SUBSET Keys, stored' = stored,
         \A k \in S : WorkOf(k) \in {"queued", "retrying", "failed"} /\ NowAnew(k, "idle"),
         \A k \in Keys \ S : SameWork(k)
  PROVE  Clips!Forget(S)
BY DEF Clips!Forget, Clips!Become, Clips!Restart, NowAnew, SameWork, WorkOf

\* The cache gains a clip or loses one.
LEMMA ShowsCache ==
  ASSUME NEW x \in Keys, \A k \in Keys : SameWork(k)
  PROVE  /\ stored' = stored \cup {x} => Clips!Store(x)
         /\ stored' = stored \ {x} => Clips!Evict(x)
BY DEF Clips!Store, Clips!Evict, SameWork, WorkOf

\* A change of one job and no other.
LEMMA OneJob ==
  ASSUME IInv, NEW x \in Keys, NEW j, job' = [job EXCEPT ![x] = j]
  PROVE  job'[x] = j /\ \A k \in Keys \ {x} : SameWork(k)
BY DEF IInv, JobsGood, SameWork, WorkOf

Refines == [Clips!Next]_(Clips!vars)

\* Queue asks for what is neither pending nor stored.
LEMMA QueueRefines ==
  ASSUME IInv, NEW items \in Seq(Keys), Queue(items)
  PROVE  Refines
<1> DEFINE front == ToSet(Wanted(items))
<1>1. /\ job' = [k \in Keys |-> IF k \in front /\ ~Pending(k) THEN NewJob("background") ELSE job[k]]
      /\ stored' = stored
  BY Zenon DEF Queue
<1>2. front = {k \in ToSet(items) : job[k].state = "background" \/ (~Pending(k) /\ k \notin stored)}
  BY WantedFacts
<1>3. front \subseteq Keys
  BY <1>2 DEF ToSet
<1> HIDE DEF front
<1>0. PICK S \in SUBSET Keys : S = {k \in front : ~Pending(k)}
  BY <1>3
<1>4. /\ \A k \in S : k \in Keys /\ job'[k] = NewJob("background") /\ ~Pending(k) /\ k \notin stored
      /\ \A k \in Keys \ S : job'[k] = job[k]
  BY <1>0, <1>1, <1>2, <1>3 DEF Pending, InFlight, Queued
<1>5. \A k \in Keys : job[k].state \in {"idle", "failed"} \cup InFlight
  BY DEF IInv, JobsGood, Good, JobRec
<1>6. NewJob("background") = [state |-> "background", attempts |-> 0, timer |-> "none"]
  BY DEF NewJob, NoJob
<1>7. \A k \in S : k \notin stored /\ WorkOf(k) \in {"idle", "failed"} /\ NowAnew(k, "queued")
  BY <1>4, <1>5, <1>6 DEF NowAnew, WorkOf, Pending, InFlight, Queued
<1>8. \A k \in Keys \ S : SameWork(k)
  BY <1>4 DEF SameWork, WorkOf
<1>9. Clips!Ask(S)
  BY <1>1, <1>4, <1>7, <1>8, ShowsAsk
<1> QED
  BY <1>9 DEF Refines, Clips!Next

\* Forget forgets what it drops.
LEMMA ForgetRefines ==
  ASSUME IInv, NEW keys, Forget(keys)
  PROVE  Refines
<1>0. PICK S \in SUBSET Keys : S = keys \cap In({"background", "retrying", "failed"})
  BY DEF In
<1>1. job' = [k \in Keys |-> IF k \in S THEN NoJob ELSE job[k]] /\ stored' = stored
  BY <1>0, Zenon DEF Forget, Drop
<1>2. \A k \in S : k \in Keys /\ job[k].state \in {"background", "retrying", "failed"}
  BY <1>0 DEF In
<1>3. \A k \in S : WorkOf(k) \in {"queued", "retrying", "failed"} /\ NowAnew(k, "idle")
  BY <1>1, <1>2 DEF WorkOf, NowAnew, NoJob, Queued
<1>4. \A k \in Keys \ S : SameWork(k)
  BY <1>1 DEF SameWork, WorkOf
<1>5. Clips!Forget(S)
  BY <1>1, <1>2, <1>3, <1>4, ShowsForget
<1> QED
  BY <1>5 DEF Refines, Clips!Next

\* A fetch asks for a new clip or resumes a retried one; otherwise it shows nothing.
LEMMA FetchRefines ==
  ASSUME IInv, NEW c \in Callers, Fetch(c)
  PROVE  Refines
<1>1. ASSUME UNCHANGED <<job, stored>> PROVE Refines
  BY <1>1, ShowsNothing DEF SameWork, WorkOf, Refines
<1>2. CASE UrgentBackground(c)
  <2>0. PICK x \in Keys : x = call[c].key
    BY <1>2 DEF UrgentBackground, WaitOn, IInv, CallsGood
  <2>1. /\ job[x].state = "background" /\ stored' = stored
        /\ job' = [job EXCEPT ![x] = [job[x] EXCEPT !.state = "urgent"]]
    BY <1>2, <2>0 DEF UrgentBackground, WaitOn, IInv, CallsGood
  <2>2. job'[x] = [job[x] EXCEPT !.state = "urgent"] /\ \A k \in Keys \ {x} : SameWork(k)
    BY <2>1, OneJob
  <2>3. job[x] \in JobRec
    BY <2>1 DEF IInv, JobsGood, Good
  <2>4. SameWork(x)
    BY <2>1, <2>2, <2>3 DEF SameWork, WorkOf, Queued, JobRec
  <2> QED
    BY <2>1, <2>2, <2>4, ShowsNothing DEF Refines
<1>3. CASE UrgentRetrying(c)
  <2>0. PICK x \in Keys : x = call[c].key
    BY <1>3 DEF UrgentRetrying, WaitOn, IInv, CallsGood
  <2>1. /\ job[x].state = "retrying" /\ stored' = stored
        /\ job' = [job EXCEPT ![x] = [[job[x] EXCEPT !.state = "urgent"] EXCEPT !.timer = "none"]]
    BY <1>3, <2>0 DEF UrgentRetrying, WaitOn, IInv, CallsGood, JobsGood
  <2>2. /\ job'[x] = [[job[x] EXCEPT !.state = "urgent"] EXCEPT !.timer = "none"]
        /\ \A k \in Keys \ {x} : SameWork(k)
    BY <2>1, OneJob
  <2>3. job[x] \in JobRec
    BY <2>1 DEF IInv, JobsGood, Good
  <2>4. WorkOf(x) = "retrying" /\ NowIs(x, "queued")
    BY <2>1, <2>2, <2>3 DEF NowIs, WorkOf, Queued, JobRec
  <2> QED
    BY <2>1, <2>2, <2>4, ShowsResume DEF Refines, Clips!Next
<1>4. CASE UrgentNew(c)
  <2>0. PICK x \in Keys : x = call[c].key
    BY <1>4 DEF UrgentNew, WaitOn, IInv, CallsGood
  <2>1. /\ job[x].state \in {"idle", "failed"} /\ stored' = stored /\ x \notin stored
        /\ job' = [job EXCEPT ![x] = NewJob("urgent")]
    BY <1>4, <2>0 DEF UrgentNew, WaitOn, IInv, CallsGood
  <2>2. job'[x] = NewJob("urgent") /\ \A k \in Keys \ {x} : SameWork(k)
    BY <2>1, OneJob
  <2>3. NewJob("urgent") = [state |-> "urgent", attempts |-> 0, timer |-> "none"]
    BY DEF NewJob, NoJob
  <2>4. WorkOf(x) \in {"idle", "failed"} /\ NowAnew(x, "queued")
    BY <2>1, <2>2, <2>3 DEF NowAnew, WorkOf, Queued
  <2>5. Clips!Ask({x})
    BY <2>1, <2>2, <2>4, ShowsAsk
  <2> QED
    BY <2>5 DEF Refines, Clips!Next
<1>5. CASE \/ \E k \in Keys : Look(c, k)
           \/ UrgentAlready(c) \/ UrgentStored(c) \/ Answer(c) \/ Abandon(c)
  BY <1>1, <1>5 DEF Look, UrgentAlready, UrgentStored, Answer, Abandon, Return
<1> QED
  BY <1>2, <1>3, <1>4, <1>5 DEF Fetch

\* A worker starts a synthesis of what waits for one.
LEMMA TakeRefines ==
  ASSUME IInv, NEW w \in Workers, Take(w)
  PROVE  Refines
<1> DEFINE q == urgent \o background
<1>1. q \in Seq(Keys) /\ q # <<>> /\ ToSet(q) = ToSet(urgent) \cup ToSet(background)
  BY Concatenated DEF Take, IInv, QueuesGood
<1>2. Head(q) \in Keys /\ Head(q) \in ToSet(q)
  <2> HIDE DEF q
  <2> QED
    BY <1>1, Taken
<1>3. PICK x \in Keys : x = Head(q)
  BY <1>2
<1>4. /\ job' = [job EXCEPT ![x] = [[job[x] EXCEPT !.state = "generating"] EXCEPT !.attempts = @ + 1]]
      /\ stored' = stored
  BY <1>3 DEF Take, IInv, JobsGood
<1> HIDE DEF q
<1>5. /\ job'[x] = [[job[x] EXCEPT !.state = "generating"] EXCEPT !.attempts = @ + 1]
      /\ \A k \in Keys \ {x} : SameWork(k)
  BY <1>4, OneJob
<1>6. job[x].state \in Queued
  BY <1>1, <1>2, <1>3 DEF IInv, QueuesGood, In, Queued
<1>7. job[x] \in JobRec /\ job[x].attempts < MaxAttempts
  BY <1>6 DEF IInv, JobsGood, Good
<1>8. job'[x] = [state |-> "generating", attempts |-> job[x].attempts + 1, timer |-> job[x].timer]
  BY <1>5, <1>7 DEF JobRec
<1>9. WorkOf(x) = "queued" /\ WorkOf(x)' = "generating" /\ job'[x].attempts = job[x].attempts + 1
  BY <1>6, <1>8 DEF WorkOf, Queued
<1>10. Clips!Start(x)
  BY <1>4, <1>5, <1>7, <1>9, ShowsStart
<1> QED
  BY <1>10 DEF Refines, Clips!Next

\* A synthesis that made a clip stores it before it ends.
LEMMA RunRefines ==
  ASSUME IInv, NEW w \in Workers, NEW result \in Outcomes, Run(w, result)
  PROVE  Refines
<1>1. /\ worker[w].pc = "run" /\ job' = job
      /\ stored' = IF result = "made" THEN stored \cup {worker[w].key} ELSE stored
  BY DEF Run
<1>2. worker[w].key \in Keys
  <2>1. worker[w] \in WorkerRec /\ worker[w].key # None
    BY <1>1 DEF IInv, WorkersGood
  <2> QED
    BY <2>1 DEF WorkerRec
<1>3. \A k \in Keys : SameWork(k)
  BY <1>1 DEF SameWork, WorkOf
<1>4. CASE result = "made"
  BY <1>1, <1>2, <1>3, <1>4, ShowsCache DEF Refines, Clips!Next
<1>5. CASE result # "made"
  BY <1>1, <1>3, <1>5, ShowsNothing DEF Refines
<1> QED
  BY <1>4, <1>5

\* It ends in one of the ways SpeakClips knows.
LEMMA FinishRefines ==
  ASSUME IInv, NEW w \in Workers, Finish(w)
  PROVE  Refines
<1>1. PICK results : Finishing(w, results)
  BY DEF Finish, FinishMade, FinishUnstored, FinishHalt, FinishRetry, FinishFailed
<1>0. PICK x \in Keys : x = worker[w].key
  BY <1>1, FinishedJob
<1>2. job[x].state = "generating" /\ Good(job[x], late[x])
  BY <1>0, <1>1, FinishedJob
<1>3. job[x] \in JobRec /\ WorkOf(x) = "generating" /\ job = [k \in Keys |-> job[k]]
  BY <1>2 DEF Good, WorkOf, Queued, IInv, JobsGood
<1>4. stored' = stored
  BY DEF Finish, FinishMade, FinishUnstored, FinishHalt, FinishRetry, FinishFailed
<1>5. CASE FinishMade(w)
  <2>1. job' = [k \in Keys |-> IF k \in {x} THEN NoJob ELSE job[k]]
    BY <1>0, <1>5, Zenon DEF FinishMade, Drop
  <2>2. NowAnew(x, "idle") /\ \A k \in Keys \ {x} : SameWork(k)
    BY <1>2, <2>1 DEF NowAnew, SameWork, WorkOf, NoJob, Queued
  <2> QED
    BY <1>2, <1>3, <1>4, <2>2, ShowsMade DEF Refines, Clips!Next
<1>6. CASE FinishUnstored(w) \/ FinishFailed(w)
  <2>1. job' = [job EXCEPT ![x] = [job[x] EXCEPT !.state = "failed"]]
    BY <1>0, <1>6 DEF FinishUnstored, FinishFailed
  <2>2. job'[x] = [job[x] EXCEPT !.state = "failed"] /\ \A k \in Keys \ {x} : SameWork(k)
    BY <1>2, <2>1, OneJob
  <2>3. NowIs(x, "failed")
    BY <1>3, <2>2 DEF NowIs, WorkOf, Queued, JobRec
  <2>4. Clips!GiveUp(x, {})
    BY <1>2, <1>3, <1>4, <2>2, <2>3, ShowsGiveUp
  <2> QED
    BY <1>2, <2>4 DEF Refines, Clips!Next
<1>7. CASE FinishRetry(w)
  <2>1. /\ job' = [job EXCEPT ![x] = [[job[x] EXCEPT !.state = "retrying"] EXCEPT !.timer = "armed"]]
        /\ job[x].attempts < MaxAttempts
    BY <1>0, <1>3, <1>7 DEF FinishRetry
  <2>2. /\ job'[x] = [[job[x] EXCEPT !.state = "retrying"] EXCEPT !.timer = "armed"]
        /\ \A k \in Keys \ {x} : SameWork(k)
    BY <1>2, <2>1, OneJob
  <2>3. NowIs(x, "retrying")
    BY <1>3, <2>2 DEF NowIs, WorkOf, Queued, JobRec
  <2> QED
    BY <1>2, <1>3, <1>4, <2>1, <2>2, <2>3, ShowsRetry DEF Refines, Clips!Next
<1>8. CASE FinishHalt(w)
  <2>0. PICK S \in SUBSET Keys : S = ToSet(background) \cup In({"retrying"})
    BY DEF IInv, QueuesGood, In
  <2>1. job' = [[k \in Keys |-> IF k \in S THEN NoJob ELSE job[k]] EXCEPT ![x].state = "failed"]
    BY <1>0, <1>8, <2>0, Zenon DEF FinishHalt, Drop
  <2>2. \A k \in Keys : k \in S <=> job[k].state \in {"background", "retrying"}
    BY <2>0 DEF IInv, QueuesGood, In
  <2>3. x \notin S
    BY <1>2, <2>2
  <2>4. /\ job'[x] = [job[x] EXCEPT !.state = "failed"]
        /\ \A k \in Keys \ {x} : job'[k] = IF k \in S THEN NoJob ELSE job[k]
    BY <1>2, <2>1, <2>3
  <2>5. NowIs(x, "failed")
    BY <1>3, <2>4 DEF NowIs, WorkOf, Queued, JobRec
  <2>6. \A k \in S : WorkOf(k) \in {"queued", "retrying"} /\ NowAnew(k, "idle")
    BY <2>2, <2>3, <2>4 DEF NowAnew, WorkOf, NoJob, Queued
  <2>7. \A k \in Keys \ (S \cup {x}) : SameWork(k)
    BY <2>4 DEF SameWork, WorkOf
  <2>8. S \in SUBSET (Keys \ {x}) /\ Clips!GiveUp(x, S)
    BY <1>2, <1>3, <1>4, <2>2, <2>3, <2>5, <2>6, <2>7, ShowsGiveUp
  <2> QED
    BY <1>2, <2>8 DEF Refines, Clips!Next
<1> QED
  BY <1>5, <1>6, <1>7, <1>8 DEF Finish

\* A retry timer that finds its job puts it back to work.
LEMMA TimerRefines ==
  ASSUME IInv, NEW x \in Keys, Timer(x)
  PROVE  Refines
<1>1. stored' = stored
  BY DEF Timer, Fire, Requeue, RequeueLate
<1>2. Good(job[x], late[x]) /\ job[x] \in JobRec
  BY DEF IInv, JobsGood, Good
<1>3. CASE Fire(x)
  <2>1. job' = [job EXCEPT ![x] = [job[x] EXCEPT !.timer = "fired"]]
    BY <1>3 DEF Fire
  <2>2. job'[x] = [job[x] EXCEPT !.timer = "fired"] /\ \A k \in Keys \ {x} : SameWork(k)
    BY <2>1, OneJob
  <2>3. SameWork(x)
    BY <1>2, <2>2 DEF SameWork, WorkOf, JobRec
  <2> QED
    BY <1>1, <2>2, <2>3, ShowsNothing DEF Refines
<1>4. CASE Requeue(x)
  <2>1. job' = [job EXCEPT ![x] = [[job[x] EXCEPT !.timer = "none"] EXCEPT !.state = "background"]]
    BY <1>4 DEF Requeue, IInv, JobsGood
  <2>2. /\ job'[x] = [[job[x] EXCEPT !.timer = "none"] EXCEPT !.state = "background"]
        /\ \A k \in Keys \ {x} : SameWork(k)
    BY <2>1, OneJob
  <2>3. job[x].state = "retrying"
    BY <1>2, <1>4 DEF Requeue, Good
  <2>4. WorkOf(x) = "retrying" /\ NowIs(x, "queued")
    BY <1>2, <2>2, <2>3 DEF NowIs, WorkOf, Queued, JobRec
  <2> QED
    BY <1>1, <2>2, <2>4, ShowsResume DEF Refines, Clips!Next
<1>5. CASE RequeueLate(x)
  BY <1>5, ShowsNothing DEF RequeueLate, SameWork, WorkOf, Refines
<1> QED
  BY <1>3, <1>4, <1>5 DEF Timer

\* The surroundings of the cache.
LEMMA CacheRefines ==
  ASSUME IInv, NEW x \in Keys, Cache(x) \/ Evict(x)
  PROVE  Refines
<1>1. \A k \in Keys : SameWork(k)
  BY DEF Cache, Evict, SameWork, WorkOf
<1>2. Clips!Store(x) \/ Clips!Evict(x)
  BY <1>1, ShowsCache DEF Cache, Evict
<1> QED
  BY <1>2 DEF Refines, Clips!Next

\* All of them.
LEMMA StepRefines ==
  ASSUME IInv, [Next]_vars
  PROVE  Refines
<1>1. ASSUME NEW items \in Batches, Queue(items) \/ Forget(ToSet(items)) PROVE Refines
  <2>1. items \in Seq(Keys)
    BY PreparerAssumption
  <2> QED
    BY <1>1, <2>1, QueueRefines, ForgetRefines
<1>2. ASSUME NEW c \in Callers, Fetch(c) PROVE Refines
  BY <1>2, FetchRefines
<1>3. ASSUME NEW w \in Workers, Work(w) PROVE Refines
  <2>1. CASE Retire(w)
    BY <2>1, ShowsNothing DEF Retire, SameWork, WorkOf, Refines
  <2> QED
    BY <1>3, <2>1, TakeRefines, RunRefines, FinishRefines DEF Work
<1>4. ASSUME NEW k \in Keys, Timer(k) \/ Cache(k) \/ Evict(k) PROVE Refines
  BY <1>4, TimerRefines, CacheRefines
<1>5. CASE UNCHANGED vars
  BY <1>5, ShowsNothing DEF vars, SameWork, WorkOf, Refines
<1> QED
  BY <1>1, <1>2, <1>3, <1>4, <1>5 DEF Next

\* SpeakPreparer implements SpeakClips: whatever its queues, workers, timers and
\* fetches do, each clip is asked for, made by one synthesis at a time, tried at
\* most MaxAttempts times per request, and retried, given up or forgotten from
\* the states that allow it.
THEOREM ImplementsClipsAlways == Spec => ImplementsClips
<1>1. Init => Clips!Init
  BY DEF Init, Clips!Init, NoJob, Queued
<1>2. IInv /\ [Next]_vars => [Clips!Next]_(Clips!vars)
  BY StepRefines DEF Refines
<1> QED
  BY <1>1, <1>2, Inductive, PTL DEF Spec, ImplementsClips, Clips!Spec
================================================================================
