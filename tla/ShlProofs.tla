------------------------------ MODULE ShlProofs ------------------------------
(***************************************************************************)
(* Proofs about Shl: the list of layers is one list, utmp follows it, and  *)
(* await() comes back, for any number of layers.                           *)
(*                                                                         *)
(* The layers of a list are given by ranks: l_next leads to the next       *)
(* higher rank, l_prev to the next lower one.  Then a layer leaves the     *)
(* list without any change to the ranks of the others, and a layer that    *)
(* goes to the end of it gets a rank above all others.                     *)
(***************************************************************************)
EXTENDS Shl, Integers, FiniteSetTheorems, WellFoundedInduction, TLAPS

N == Cardinality(Layer)

ListSet ==
    [l0 : Pointer, lcur : Pointer, next : [Layer -> Pointer], prev : [Layer -> Pointer]]

Rank == [Layer -> Nat]

\* The layers C form the list h, in the order of their ranks.
Ordered(h, C, r) ==
    /\ C \subseteq Layer
    /\ \A k, m \in C : r[k] = r[m] => k = m
    /\ h.l0 = Null => C = {}
    /\ h.l0 # Null => h.l0 \in C /\ \A m \in C : r[h.l0] <= r[m]
    /\ \A k \in C : h.next[k] = Null => \A m \in C : r[m] <= r[k]
    /\ \A k \in C : h.next[k] # Null =>
          h.next[k] \in C /\ r[k] < r[h.next[k]] /\ \A m \in C : r[m] <= r[k] \/ r[h.next[k]] <= r[m]
    /\ \A k \in C : h.prev[k] = Null => \A m \in C : r[k] <= r[m]
    /\ \A k \in C : h.prev[k] # Null =>
          h.prev[k] \in C /\ r[h.prev[k]] < r[k] /\ \A m \in C : r[m] <= r[h.prev[k]] \/ r[k] <= r[m]

-----------------------------------------------------------------------------
(* The walk along l_next *)

\* The natural numbers are well-ordered: what induction needs.
LEMMA LeastNat ==
  ASSUME NEW S, S \subseteq Nat, S # {}
  PROVE  \E m \in S : \A n \in S : m <= n
<1> DEFINE R == {ss \in Nat \X Nat : ss[1] < ss[2]}
<1>1. IsWellFoundedOn(R, Nat)
  BY NatLessThanWellFounded DEF OpToRel
<1>2. \E x \in S : \A y \in S : ~ (<<y, x>> \in R)
  <2> HIDE DEF R
  <2> QED
    BY <1>1, WFMin
<1>3. PICK x \in S : \A y \in S : ~ (<<y, x>> \in R)
  BY <1>2
<1>4. \A y \in S : <<y, x>> \in Nat \X Nat
  OBVIOUS
<1>5. \A y \in S : ~(y < x)
  BY <1>3, <1>4
<1> QED
  BY <1>5

\* The set of layers is finite.
LEMMA LayersFinite == IsFiniteSet(Layer) /\ N \in Nat
  BY LayerAssumption, FS_CardinalityType DEF N

\* g is the walk of M steps through the list h.
IsWalk(g, h, M) ==
    g = [i \in 1..M |-> IF i = 1 THEN h.l0
                        ELSE IF g[i - 1] = Null THEN Null ELSE h.next[g[i - 1]]]

\* The walk from a first layer along next is defined by its recursion.
LEMMA WalkExists ==
  ASSUME NEW M \in Nat, NEW h
  PROVE  \E g : IsWalk(g, h, M)
<1> USE DEF IsWalk
<1> DEFINE S == {n \in Nat : ~ \E g : IsWalk(g, h, n)}
<1>1. SUFFICES ASSUME S # {} PROVE FALSE
  OBVIOUS
<1>2. PICK m \in S : \A n \in S : m <= n
  <2>1. S \subseteq Nat
    OBVIOUS
  <2> HIDE DEF S
  <2> QED
    BY <1>1, <2>1, LeastNat
<1>3. m \in Nat /\ ~ \E g : IsWalk(g, h, m)
  OBVIOUS
<1>4. CASE m = 0
  <2> DEFINE g == [i \in 1..0 |-> h.l0]
  <2>1. 1..0 = {}
    OBVIOUS
  <2>2. IsWalk(g, h, 0)
    BY <2>1
  <2> QED
    BY <2>2, <1>3, <1>4
<1>5. CASE m # 0
  <2>1. m - 1 \in Nat /\ ~(m <= m - 1)
    BY <1>5, <1>3
  <2>2. m - 1 \notin S
    <3> HIDE DEF S
    <3> QED
      BY <2>1, <1>2
  <2>3. PICK f : IsWalk(f, h, m - 1)
    BY <2>1, <2>2
  <2> DEFINE g == [i \in 1..m |-> IF i = 1 THEN h.l0
                                  ELSE IF f[i - 1] = Null THEN Null ELSE h.next[f[i - 1]]]
  <2>4. \A i \in 1..(m - 1) : g[i] = f[i]
    BY <2>1, <2>3
  <2>5. \A i \in 1..m : i # 1 => i - 1 \in 1..(m - 1)
    BY <1>3
  <2>6. \A i \in 1..m : i # 1 => g[i - 1] = f[i - 1]
    BY <2>4, <2>5
  <2>7. IsWalk(g, h, m)
    BY <2>6
  <2> QED
    BY <2>7, <1>3
<1> QED
  BY <1>4, <1>5

\* Each layer of the walk is the next of the one before.
LEMMA WalkStep ==
  ASSUME NEW h
  PROVE  /\ Walk(h) = [i \in 1..(N + 1) |-> Walk(h)[i]]
         /\ Walk(h)[1] = h.l0
         /\ \A i \in 2..(N + 1) :
               Walk(h)[i] = IF Walk(h)[i - 1] = Null THEN Null ELSE h.next[Walk(h)[i - 1]]
<1>1. \E g : IsWalk(g, h, N + 1)
  <2>1. N + 1 \in Nat
    BY LayersFinite
  <2> QED
    BY <2>1, WalkExists
<1>2. Walk(h) = CHOOSE g : IsWalk(g, h, N + 1)
  BY DEF Walk, N, IsWalk
<1>3. IsWalk(Walk(h), h, N + 1)
  BY <1>1, <1>2
<1>4. 1 \in 1..(N + 1) /\ \A i \in 2..(N + 1) : i \in 1..(N + 1) /\ i # 1
  BY LayersFinite
<1> QED
  BY <1>3, <1>4 DEF IsWalk

\* What the walk through an ordered list has found when it comes to a place: all layers of a
\* lower rank, each once.
Found(h, C, r, i) ==
    LET w == Walk(h) IN
    /\ w[i] \in C \cup {Null}
    /\ w[i] # Null => \A m \in C : r[m] < r[w[i]] => \E j \in 1..(i - 1) : w[j] = m
    /\ w[i] = Null => \A m \in C : \E j \in 1..(i - 1) : w[j] = m
    /\ w[i] # Null => \A j \in 1..(i - 1) : w[j] \in C /\ r[w[j]] < r[w[i]]

\* The walk finds the layers in their order.
LEMMA WalkFinds ==
  ASSUME NEW h, NEW C, NEW r \in Rank, Ordered(h, C, r)
  PROVE  \A i \in 1..(N + 1) : Found(h, C, r, i)
<1> DEFINE w == Walk(h)
<1> DEFINE S == {i \in 1..(N + 1) : ~Found(h, C, r, i)}
<1>n. N \in Nat /\ Null \notin Layer /\ C \subseteq Layer
  BY LayersFinite, LayerAssumption DEF Ordered
<1>r. \A k \in C : r[k] \in Nat
  BY <1>n DEF Rank
<1>1. SUFFICES ASSUME S # {} PROVE FALSE
  OBVIOUS
<1>2. PICK i \in S : \A j \in S : i <= j
  <2>1. S \subseteq Nat
    BY <1>n
  <2> HIDE DEF S
  <2> QED
    BY <1>1, <2>1, LeastNat
<1>3. i \in 1..(N + 1) /\ ~Found(h, C, r, i)
  OBVIOUS
<1>4. CASE i = 1
  <2>1. w[1] = h.l0 /\ 1..(1 - 1) = {}
    BY WalkStep
  <2>2. Found(h, C, r, 1)
    BY <2>1, <1>n, <1>r DEF Found, Ordered
  <2> QED
    BY <2>2, <1>3, <1>4
<1>5. CASE i # 1
  <2> DEFINE p == i - 1
  <2>1. p \in 1..(N + 1) /\ ~(i <= p) /\ i \in 2..(N + 1) /\ p \in Nat
    BY <1>3, <1>5, <1>n
  <2>2. p \notin S
    <3> HIDE DEF S
    <3> QED
      BY <2>1, <1>2
  <2>3. Found(h, C, r, p)
    BY <2>1, <2>2
  <2>4. w[i] = IF w[p] = Null THEN Null ELSE h.next[w[p]]
    BY <2>1, WalkStep
  <2>5. 1..(i - 1) = 1..(p - 1) \cup {p}
    BY <2>1
  <2>6. CASE w[p] = Null
    <3>1. w[i] = Null
      BY <2>4, <2>6
    <3>2. \A m \in C : \E j \in 1..(i - 1) : w[j] = m
      BY <2>3, <2>5, <2>6 DEF Found
    <3> QED
      BY <3>1, <3>2, <1>3 DEF Found
  <2>7. CASE w[p] # Null
    <3> DEFINE k == w[p]
    <3>1. k \in C /\ w[i] = h.next[k]
      BY <2>3, <2>4, <2>7 DEF Found
    <3>2. \A m \in C : r[m] <= r[k] => \E j \in 1..(i - 1) : w[j] = m
      <4> SUFFICES ASSUME NEW m \in C, r[m] <= r[k] PROVE \E j \in 1..(i - 1) : w[j] = m
        OBVIOUS
      <4>1. CASE r[m] < r[k]
        BY <4>1, <2>3, <2>5, <2>7 DEF Found
      <4>2. CASE r[m] = r[k]
        BY <4>2, <3>1, <2>5 DEF Ordered
      <4> QED
        BY <4>1, <4>2, <3>1, <1>r
    <3>3. \A j \in 1..(i - 1) : w[j] \in C /\ r[w[j]] <= r[k]
      <4> SUFFICES ASSUME NEW j \in 1..(i - 1) PROVE w[j] \in C /\ r[w[j]] <= r[k]
        OBVIOUS
      <4>1. CASE j = p
        BY <4>1, <3>1, <1>r
      <4>2. CASE j \in 1..(p - 1)
        BY <4>2, <2>3, <2>7, <3>1, <1>r DEF Found
      <4> QED
        BY <4>1, <4>2, <2>5
    <3> HIDE DEF w, S, k
    <3>4. CASE h.next[k] = Null
      <4>1. \A m \in C : r[m] <= r[k]
        BY <3>1, <3>4 DEF Ordered
      <4>2. w[i] = Null /\ \A m \in C : \E j \in 1..(i - 1) : w[j] = m
        BY <4>1, <3>1, <3>2, <3>4
      <4> QED
        BY <4>2, <1>3 DEF Found, w
    <3>5. CASE h.next[k] # Null
      <4>1. w[i] \in C /\ r[k] < r[w[i]] /\ \A m \in C : r[m] <= r[k] \/ r[w[i]] <= r[m]
        BY <3>1, <3>5 DEF Ordered
      <4>2. \A m \in C : r[m] < r[w[i]] => \E j \in 1..(i - 1) : w[j] = m
        BY <4>1, <3>1, <3>2, <1>r
      <4>3. \A j \in 1..(i - 1) : w[j] \in C /\ r[w[j]] < r[w[i]]
        BY <4>1, <3>1, <3>3, <1>r
      <4> QED
        BY <4>1, <4>2, <4>3, <3>5, <3>1, <1>3 DEF Found, w
    <3> QED
      BY <3>4, <3>5
  <2> QED
    BY <2>6, <2>7
<1> QED
  BY <1>4, <1>5

\* The walk through an ordered list finds its layers and ends, and its last layer is the one
\* without l_next.
LEMMA WalkOrdered ==
  ASSUME NEW h, NEW C, NEW r \in Rank, Ordered(h, C, r)
  PROVE  /\ Chain(h) = C
         /\ Walk(h)[N + 1] = Null
         /\ IsFiniteSet(C) /\ Cardinality(C) \in Nat
         /\ Listed(h) \in Seq(Layer) /\ Len(Listed(h)) = Cardinality(C)
         /\ C # {} => Cardinality(C) # 0 /\ Listed(h)[Cardinality(C)] \in C
                      /\ h.next[Listed(h)[Cardinality(C)]] = Null
<1> DEFINE w == Walk(h)
<1>n. N \in Nat /\ Null \notin Layer /\ C \subseteq Layer
  BY LayersFinite, LayerAssumption DEF Ordered
<1>r. \A k \in C : r[k] \in Nat
  BY <1>n DEF Rank
<1>w. \A i \in 1..(N + 1) : Found(h, C, r, i)
  BY WalkFinds
<1>1. \A i, j \in 1..(N + 1) : j < i /\ w[i] # Null => w[j] \in C /\ r[w[j]] < r[w[i]]
  BY <1>w, <1>n DEF Found
<1>2. w[N + 1] = Null
  <2> SUFFICES ASSUME w[N + 1] # Null PROVE FALSE
    OBVIOUS
  <2> DEFINE f == [i \in 1..(N + 1) |-> w[i]]
  <2>1. \A i \in 1..(N + 1) : w[i] \in C
    <3>1. w[N + 1] \in C
      BY <1>w, <1>n DEF Found
    <3> QED
      BY <3>1, <1>1, <1>n
  <2>2. f \in [1..(N + 1) -> Layer]
    BY <2>1, <1>n
  <2>3. IsFiniteSet(1..(N + 1)) /\ Cardinality(1..(N + 1)) = N + 1
    BY FS_Interval, <1>n
  <2>4. PICK x, y \in 1..(N + 1) : x # y /\ f[x] = f[y]
    <3> HIDE DEF f
    <3>1. Cardinality(Layer) < Cardinality(1..(N + 1))
      BY <2>3, <1>n DEF N
    <3> QED
      BY <2>2, <2>3, <3>1, LayersFinite, FS_PigeonHole
  <2>5. w[x] = w[y] /\ r[w[x]] \in Nat /\ w[x] # Null /\ w[y] # Null
    BY <2>1, <2>4, <1>r, <1>n
  <2>6. x < y \/ y < x
    BY <2>4
  <2> QED
    BY <1>1, <2>5, <2>6
<1>3. \A m \in C : \E j \in 1..N : w[j] = m
  BY <1>2, <1>w, <1>n DEF Found
<1>4. Chain(h) = C
  <2>1. Chain(h) = {w[i] : i \in 1..N} \ {Null}
    BY DEF Chain, N
  <2>2. \A i \in 1..N : w[i] \in C \cup {Null}
    BY <1>w, <1>n DEF Found
  <2> HIDE DEF w
  <2> QED
    BY <2>1, <2>2, <1>3, <1>n
<1>5. PICK e \in 1..(N + 1) : w[e] = Null /\ \A j \in 1..(N + 1) : w[j] = Null => e <= j
  <2> DEFINE S == {i \in 1..(N + 1) : w[i] = Null}
  <2>1. N + 1 \in S /\ S \subseteq Nat
    BY <1>2, <1>n
  <2>2. PICK e \in S : \A n \in S : e <= n
    <3> HIDE DEF S
    <3> QED
      BY <2>1, LeastNat
  <2> QED
    BY <2>2
<1> DEFINE d == e - 1
<1>6. d \in 0..N /\ e = d + 1
  BY <1>n
<1>7. \A i \in 1..d : w[i] \in C
  BY <1>5, <1>6, <1>w, <1>n DEF Found
<1>8. IsFiniteSet(C) /\ Cardinality(C) = d
  <2> DEFINE f == [i \in 1..d |-> w[i]]
  <2>1. f \in [1..d -> C]
    BY <1>7
  <2>2. \A x, y \in 1..d : f[x] = f[y] => x = y
    <3> SUFFICES ASSUME NEW x \in 1..d, NEW y \in 1..d, f[x] = f[y], x # y PROVE FALSE
      OBVIOUS
    <3>1. w[x] = w[y] /\ w[x] \in C /\ r[w[x]] \in Nat /\ w[x] # Null /\ w[y] # Null
      BY <1>7, <1>r, <1>n
    <3>2. x < y \/ y < x
      BY <1>6
    <3>3. x \in 1..(N + 1) /\ y \in 1..(N + 1)
      BY <1>6, <1>n
    <3> QED
      BY <3>1, <3>2, <3>3, <1>1
  <2>3. \A m \in C : \E x \in 1..d : f[x] = m
    BY <1>5, <1>6, <1>w DEF Found
  <2>4. f \in Bijection(1..d, C)
    <3> HIDE DEF f
    <3> QED
      BY <2>1, <2>2, <2>3 DEF Bijection, Injection, Surjection, IsInjective
  <2>5. ExistsBijection(1..d, C)
    BY <2>4 DEF ExistsBijection
  <2>6. IsFiniteSet(1..d) /\ Cardinality(1..d) = d
    BY FS_Interval, <1>6, <1>n
  <2> QED
    BY <2>5, <2>6, FS_Bijection
<1>9. Listed(h) = [i \in 1..d |-> w[i]]
  BY <1>4, <1>8 DEF Listed
<1>10. Listed(h) \in Seq(Layer) /\ Len(Listed(h)) = d
  <2> HIDE DEF w, d
  <2>1. d \in Nat /\ \A i \in 1..d : w[i] \in Layer
    BY <1>6, <1>7, <1>n
  <2> QED
    BY <2>1, <1>9
<1>11. ASSUME C # {} PROVE d # 0 /\ Listed(h)[d] \in C /\ h.next[Listed(h)[d]] = Null
  <2>1. d # 0
    BY <1>11, <1>5, <1>6, <1>w DEF Found
  <2>2. d \in 1..d /\ e \in 2..(N + 1)
    BY <2>1, <1>6
  <2>3. w[e] = IF w[d] = Null THEN Null ELSE h.next[w[d]]
    BY <2>2, WalkStep
  <2>4. w[d] \in C /\ w[d] # Null /\ Listed(h)[d] = w[d]
    BY <2>2, <1>7, <1>9, <1>n
  <2> QED
    BY <2>1, <2>3, <2>4, <1>5
<1> QED
  BY <1>2, <1>4, <1>6, <1>8, <1>10, <1>11

-----------------------------------------------------------------------------
(* The operations on the list *)

\* lalloc() puts a new layer behind all others.
LEMMA AddLastOrdered ==
  ASSUME NEW h \in ListSet, NEW C, NEW r \in Rank, Ordered(h, C, r), NEW l \in Layer, l \notin C
  PROVE  /\ AddLast(h, l) \in ListSet /\ AddLast(h, l).lcur = h.lcur
         /\ \E r2 \in Rank : Ordered(AddLast(h, l), C \cup {l}, r2) /\ \A k \in C : r2[k] < r2[l]
<1> DEFINE g == AddLast(h, l)
<1>n. Null \notin Layer /\ C \subseteq Layer /\ l # Null
  BY LayerAssumption DEF Ordered
<1>t. h.next \in [Layer -> Pointer] /\ h.prev \in [Layer -> Pointer] /\ h.l0 \in Pointer /\ h.lcur \in Pointer
  BY DEF ListSet
<1>r. \A k \in Layer : r[k] \in Nat
  BY DEF Rank
<1>1. CASE h.l0 = Null
  <2>1. g = [h EXCEPT !.l0 = l, !.next[l] = Null, !.prev[l] = Null]
    BY <1>1 DEF AddLast
  <2>2. g.l0 = l /\ g.lcur = h.lcur /\ g.next = [h.next EXCEPT ![l] = Null] /\ g.prev = [h.prev EXCEPT ![l] = Null]
        /\ g = [l0 |-> g.l0, lcur |-> g.lcur, next |-> g.next, prev |-> g.prev]
    BY <2>1 DEF ListSet
  <2>3. g \in ListSet
    BY <2>2, <1>t DEF ListSet, Pointer
  <2>4. C = {}
    BY <1>1 DEF Ordered
  <2>5. g.next[l] = Null /\ g.prev[l] = Null
    BY <2>2, <1>t
  <2>6. Ordered(g, C \cup {l}, r)
    <3> HIDE DEF g
    <3> QED
      BY <2>2, <2>4, <2>5, <1>n, <1>r DEF Ordered
  <2> QED
    BY <2>2, <2>3, <2>4, <2>6
<1>2. CASE h.l0 # Null
  <2> DEFINE lp == CHOOSE k \in Chain(h) : h.next[k] = Null
  <2>1. g = [h EXCEPT !.next[lp] = l, !.next[l] = Null, !.prev[l] = lp]
    BY <1>2 DEF AddLast
  <2>2. lp \in C /\ h.next[lp] = Null
    <3>1. \E k \in Chain(h) : h.next[k] = Null
      BY <1>2, WalkOrdered DEF Ordered
    <3> QED
      BY <3>1, WalkOrdered
  <2> HIDE DEF lp
  <2>3. g.l0 = h.l0 /\ g.lcur = h.lcur /\ g.next = [h.next EXCEPT ![lp] = l, ![l] = Null]
        /\ g.prev = [h.prev EXCEPT ![l] = lp]
        /\ g = [l0 |-> g.l0, lcur |-> g.lcur, next |-> g.next, prev |-> g.prev]
    BY <2>1 DEF ListSet
  <2>4. g \in ListSet
    BY <2>2, <2>3, <1>t, <1>n DEF ListSet, Pointer
  <2> DEFINE r2 == [r EXCEPT ![l] = r[lp] + 1]
  <2>5. r2 \in Rank /\ r2[l] = r[lp] + 1 /\ \A k \in C : r2[k] = r[k]
    BY <1>r, <1>n, <2>2 DEF Rank
  <2>6. g.next[l] = Null /\ g.next[lp] = l /\ \A k \in C : k # lp => g.next[k] = h.next[k]
    BY <2>2, <2>3, <1>t, <1>n
  <2>7. g.prev[l] = lp /\ \A k \in C : g.prev[k] = h.prev[k]
    BY <2>2, <2>3, <1>t, <1>n
  <2>8. \A m \in C : r[m] <= r[lp]
    BY <2>2 DEF Ordered
  <2> HIDE DEF g, r2
  <2>9. \A k \in C : r2[k] < r2[l] /\ r2[k] \in Nat /\ r2[l] \in Nat /\ r2[k] <= r2[lp]
    BY <2>2, <2>5, <2>8, <1>r, <1>n
  <2>10. Ordered(g, C \cup {l}, r2)
    <3>1. \A k, m \in C \cup {l} : r2[k] = r2[m] => k = m
      BY <2>5, <2>9 DEF Ordered
    <3>2. g.l0 # Null /\ g.l0 \in C /\ \A m \in C \cup {l} : r2[g.l0] <= r2[m]
      BY <2>3, <2>5, <2>9, <1>2 DEF Ordered
    <3>3. \A k \in C \cup {l} : g.next[k] = Null => \A m \in C \cup {l} : r2[m] <= r2[k]
      <4>1. \A k \in C : k # lp => h.next[k] # Null
        BY <2>2, <2>8, <1>r, <1>n DEF Ordered
      <4>2. \A k \in C : g.next[k] # Null
        BY <4>1, <2>6, <1>n
      <4>3. \A m \in C \cup {l} : r2[m] <= r2[l]
        BY <2>2, <2>9
      <4> QED
        BY <4>2, <4>3
    <3>4. ASSUME NEW k \in C \cup {l}, g.next[k] # Null
          PROVE  g.next[k] \in C \cup {l} /\ r2[k] < r2[g.next[k]]
                 /\ \A m \in C \cup {l} : r2[m] <= r2[k] \/ r2[g.next[k]] <= r2[m]
      <4>1. CASE k = l
        BY <4>1, <3>4, <2>6
      <4>2. CASE k = lp
        BY <4>2, <2>2, <2>6, <2>9
      <4>3. CASE k \in C /\ k # lp
        <5>1. g.next[k] = h.next[k] /\ h.next[k] \in C /\ r[k] < r[h.next[k]]
              /\ \A m \in C : r[m] <= r[k] \/ r[h.next[k]] <= r[m]
          BY <4>3, <3>4, <2>6 DEF Ordered
        <5> QED
          BY <5>1, <4>3, <2>5, <2>9
      <4> QED
        BY <4>1, <4>2, <4>3
    <3>5. \A k \in C \cup {l} : g.prev[k] = Null => \A m \in C \cup {l} : r2[k] <= r2[m]
      <4> SUFFICES ASSUME NEW k \in C \cup {l}, g.prev[k] = Null, NEW m \in C \cup {l} PROVE r2[k] <= r2[m]
        OBVIOUS
      <4>1. k \in C /\ h.prev[k] = Null
        BY <2>2, <2>7, <1>n
      <4>2. \A x \in C : r[k] <= r[x]
        BY <4>1 DEF Ordered
      <4> QED
        BY <4>1, <4>2, <2>5, <2>9
    <3>6. ASSUME NEW k \in C \cup {l}, g.prev[k] # Null
          PROVE  g.prev[k] \in C \cup {l} /\ r2[g.prev[k]] < r2[k]
                 /\ \A m \in C \cup {l} : r2[m] <= r2[g.prev[k]] \/ r2[k] <= r2[m]
      <4>1. CASE k = l
        BY <4>1, <2>2, <2>7, <2>9
      <4>2. CASE k \in C
        <5>1. g.prev[k] = h.prev[k] /\ h.prev[k] \in C /\ r[h.prev[k]] < r[k]
              /\ \A m \in C : r[m] <= r[h.prev[k]] \/ r[k] <= r[m]
          BY <4>2, <3>6, <2>7 DEF Ordered
        <5> QED
          BY <5>1, <4>2, <2>5, <2>9
      <4> QED
        BY <4>1, <4>2
    <3> QED
      BY <3>1, <3>2, <3>3, <3>4, <3>5, <3>6, <1>n DEF Ordered
  <2> QED
    BY <2>3, <2>4, <2>5, <2>9, <2>10 DEF g
<1> QED
  BY <1>1, <1>2

\* lfree() takes a layer out.
LEMMA FreeOrdered ==
  ASSUME NEW h \in ListSet, NEW C, NEW r \in Rank, Ordered(h, C, r), NEW l \in C
  PROVE  /\ Free(h, l) \in ListSet /\ Free(h, l).lcur = h.lcur
         /\ Ordered(Free(h, l), C \ {l}, r)
<1> DEFINE g == Free(h, l)
           p == h.prev[l]
           n == h.next[l]
           next1 == IF p # Null THEN [h.next EXCEPT ![p] = n] ELSE h.next
           prev1 == IF n # Null THEN [h.prev EXCEPT ![n] = p] ELSE h.prev
<1>n. Null \notin Layer /\ C \subseteq Layer /\ l \in Layer
  BY LayerAssumption DEF Ordered
<1>t. h.next \in [Layer -> Pointer] /\ h.prev \in [Layer -> Pointer] /\ h.l0 \in Pointer /\ h.lcur \in Pointer
  BY DEF ListSet
<1>r. \A k \in C : r[k] \in Nat
  BY <1>n DEF Rank
<1>1. g.l0 = (IF l = h.l0 THEN n ELSE h.l0) /\ g.lcur = h.lcur
      /\ g.next = [next1 EXCEPT ![l] = Null] /\ g.prev = [prev1 EXCEPT ![l] = Null]
      /\ g = [l0 |-> g.l0, lcur |-> g.lcur, next |-> g.next, prev |-> g.prev]
  <2> HIDE DEF next1, prev1
  <2>1. g = [h EXCEPT !.l0 = IF l = h.l0 THEN n ELSE h.l0, !.next = [next1 EXCEPT ![l] = Null],
                      !.prev = [prev1 EXCEPT ![l] = Null]]
    BY DEF Free, next1, prev1
  <2> QED
    BY <2>1 DEF ListSet
<1>2. p \in Pointer /\ n \in Pointer
  BY <1>t, <1>n
<1>3. next1 \in [Layer -> Pointer] /\ prev1 \in [Layer -> Pointer]
  BY <1>t, <1>2 DEF Pointer
<1>4. g \in ListSet
  <2> HIDE DEF next1, prev1, p, n, g
  <2>1. g.next \in [Layer -> Pointer] /\ g.prev \in [Layer -> Pointer] /\ g.l0 \in Pointer /\ g.lcur \in Pointer
    BY <1>1, <1>2, <1>3, <1>t, <1>n DEF Pointer
  <2> QED
    BY <1>1, <2>1 DEF ListSet
<1>5. \A k \in C \ {l} : g.next[k] = IF k = p THEN n ELSE h.next[k]
  BY <1>1, <1>2, <1>t, <1>n DEF Pointer
<1>6. \A k \in C \ {l} : g.prev[k] = IF k = n THEN p ELSE h.prev[k]
  BY <1>1, <1>2, <1>t, <1>n DEF Pointer
<1>7. /\ p = Null => \A m \in C : r[l] <= r[m]
      /\ p # Null => p \in C /\ r[p] < r[l] /\ \A m \in C : r[m] <= r[p] \/ r[l] <= r[m]
      /\ n = Null => \A m \in C : r[m] <= r[l]
      /\ n # Null => n \in C /\ r[l] < r[n] /\ \A m \in C : r[m] <= r[l] \/ r[n] <= r[m]
  BY DEF Ordered
<1>8. Ordered(g, C \ {l}, r)
  <2> HIDE DEF g, p, n, next1, prev1
  <2>1. \A k, m \in C : r[k] = r[m] => k = m
    BY DEF Ordered
  <2>2. g.l0 = Null => C \ {l} = {}
    <3>1. CASE l = h.l0
      <4>1. \A m \in C : r[l] <= r[m]
        BY <3>1, <1>n DEF Ordered
      <4>2. g.l0 = n
        BY <3>1, <1>1
      <4> QED
        BY <4>1, <4>2, <1>7, <2>1, <1>r
    <3>2. CASE l # h.l0
      <4>1. h.l0 # Null
        BY DEF Ordered
      <4> QED
        BY <3>2, <4>1, <1>1
    <3> QED
      BY <3>1, <3>2
  <2>3. g.l0 # Null => g.l0 \in C \ {l} /\ \A m \in C \ {l} : r[g.l0] <= r[m]
    <3>0. h.l0 # Null /\ h.l0 \in C /\ \A m \in C : r[h.l0] <= r[m]
      BY DEF Ordered
    <3>1. CASE l = h.l0
      <4> SUFFICES ASSUME n # Null PROVE n \in C \ {l} /\ \A m \in C \ {l} : r[n] <= r[m]
        BY <3>1, <1>1
      <4>1. n \in C /\ r[l] < r[n] /\ \A m \in C : r[m] <= r[l] \/ r[n] <= r[m]
        BY <1>7
      <4>2. n # l
        BY <4>1, <1>r
      <4>3. ASSUME NEW m \in C \ {l} PROVE r[n] <= r[m]
        <5>1. r[m] # r[l] /\ r[l] <= r[m] /\ r[m] \in Nat /\ r[l] \in Nat
          BY <3>0, <3>1, <2>1, <1>r
        <5> QED
          BY <5>1, <4>1
      <4> QED
        BY <4>1, <4>2, <4>3
    <3>2. CASE l # h.l0
      BY <3>0, <3>2, <1>1
    <3> QED
      BY <3>1, <3>2
  <2>4. ASSUME NEW k \in C \ {l}, g.next[k] = Null, NEW m \in C \ {l} PROVE r[m] <= r[k]
    <3>1. CASE k = p
      <4>1. n = Null /\ r[m] <= r[l] /\ r[m] # r[l] /\ p # Null
        BY <3>1, <2>4, <1>5, <1>7, <2>1, <1>n
      <4> QED
        BY <4>1, <1>7, <3>1, <1>r
    <3>2. CASE k # p
      BY <3>2, <2>4, <1>5 DEF Ordered
    <3> QED
      BY <3>1, <3>2
  <2>5. ASSUME NEW k \in C \ {l}, g.next[k] # Null
        PROVE  g.next[k] \in C \ {l} /\ r[k] < r[g.next[k]]
               /\ \A m \in C \ {l} : r[m] <= r[k] \/ r[g.next[k]] <= r[m]
    <3>1. CASE k = p
      <4>1. g.next[k] = n /\ n # Null /\ p # Null
        BY <3>1, <2>5, <1>5, <1>n
      <4>2. n \in C /\ r[l] < r[n] /\ r[p] < r[l] /\ p \in C
        BY <4>1, <1>7
      <4>3. \A m \in C \ {l} : r[m] <= r[p] \/ r[n] <= r[m]
        BY <4>1, <4>2, <1>7, <2>1, <1>r
      <4> QED
        BY <4>1, <4>2, <4>3, <3>1, <1>r
    <3>2. CASE k # p
      <4>1. g.next[k] = h.next[k] /\ h.next[k] \in C /\ r[k] < r[h.next[k]]
            /\ \A m \in C : r[m] <= r[k] \/ r[h.next[k]] <= r[m]
        BY <3>2, <2>5, <1>5 DEF Ordered
      <4>2. h.next[k] # l
        <5> SUFFICES ASSUME h.next[k] = l PROVE FALSE
          OBVIOUS
        <5>1. r[k] < r[l] /\ \A m \in C : r[m] <= r[k] \/ r[l] <= r[m]
          BY <4>1
        <5>2. p # Null
          BY <5>1, <1>7, <1>r
        <5>3. p \in C /\ r[p] < r[l] /\ (r[k] <= r[p] \/ r[l] <= r[k]) /\ (r[p] <= r[k] \/ r[l] <= r[p])
          BY <5>1, <5>2, <1>7
        <5>4. r[p] = r[k]
          BY <5>1, <5>3, <1>r
        <5> QED
          BY <5>3, <5>4, <2>1, <3>2
      <4> QED
        BY <4>1, <4>2
    <3> QED
      BY <3>1, <3>2
  <2>6. ASSUME NEW k \in C \ {l}, g.prev[k] = Null, NEW m \in C \ {l} PROVE r[k] <= r[m]
    <3>1. CASE k = n
      <4>1. p = Null /\ r[l] <= r[m] /\ r[m] # r[l] /\ n # Null
        BY <3>1, <2>6, <1>6, <1>7, <2>1, <1>n
      <4> QED
        BY <4>1, <1>7, <3>1, <1>r
    <3>2. CASE k # n
      BY <3>2, <2>6, <1>6 DEF Ordered
    <3> QED
      BY <3>1, <3>2
  <2>7. ASSUME NEW k \in C \ {l}, g.prev[k] # Null
        PROVE  g.prev[k] \in C \ {l} /\ r[g.prev[k]] < r[k]
               /\ \A m \in C \ {l} : r[m] <= r[g.prev[k]] \/ r[k] <= r[m]
    <3>1. CASE k = n
      <4>1. g.prev[k] = p /\ n # Null /\ p # Null
        BY <3>1, <2>7, <1>6, <1>n
      <4>2. n \in C /\ r[l] < r[n] /\ r[p] < r[l] /\ p \in C
        BY <4>1, <1>7
      <4>3. \A m \in C \ {l} : r[m] <= r[p] \/ r[n] <= r[m]
        BY <4>1, <4>2, <1>7, <2>1, <1>r
      <4> QED
        BY <4>1, <4>2, <4>3, <3>1, <1>r
    <3>2. CASE k # n
      <4>1. g.prev[k] = h.prev[k] /\ h.prev[k] \in C /\ r[h.prev[k]] < r[k]
            /\ \A m \in C : r[m] <= r[h.prev[k]] \/ r[k] <= r[m]
        BY <3>2, <2>7, <1>6 DEF Ordered
      <4>2. h.prev[k] # l
        <5> SUFFICES ASSUME h.prev[k] = l PROVE FALSE
          OBVIOUS
        <5>1. r[l] < r[k] /\ \A m \in C : r[m] <= r[l] \/ r[k] <= r[m]
          BY <4>1
        <5>2. n # Null
          BY <5>1, <1>7, <1>r
        <5>3. n \in C /\ r[l] < r[n] /\ (r[n] <= r[l] \/ r[k] <= r[n]) /\ (r[k] <= r[l] \/ r[n] <= r[k])
          BY <5>1, <5>2, <1>7
        <5>4. r[n] = r[k]
          BY <5>1, <5>3, <1>r
        <5> QED
          BY <5>3, <5>4, <2>1, <3>2
      <4> QED
        BY <4>1, <4>2
    <3> QED
      BY <3>1, <3>2
  <2> QED
    BY <2>1, <2>2, <2>3, <2>4, <2>5, <2>6, <2>7, <1>n DEF Ordered
<1> QED
  BY <1>1, <1>4, <1>8

\* setcur() moves a layer to the end and makes it the current one.
LEMMA SetCurOrdered ==
  ASSUME NEW h \in ListSet, NEW C, NEW r \in Rank, Ordered(h, C, r), NEW l \in C
  PROVE  /\ SetCur(h, l) \in ListSet /\ SetCur(h, l).lcur = l
         /\ \E r2 \in Rank : Ordered(SetCur(h, l), C, r2) /\ \A k \in C : r2[k] <= r2[l]
<1>n. Null \notin Layer /\ C \subseteq Layer /\ l \in Layer /\ l # Null
  BY LayerAssumption DEF Ordered
<1>t. h.next \in [Layer -> Pointer] /\ h.prev \in [Layer -> Pointer] /\ h.l0 \in Pointer /\ h.lcur \in Pointer
  BY DEF ListSet
<1>1. CASE h.next[l] = Null
  <2> DEFINE g == SetCur(h, l)
  <2>1. g = [h EXCEPT !.lcur = l]
    BY <1>1 DEF SetCur
  <2>2. g.l0 = h.l0 /\ g.lcur = l /\ g.next = h.next /\ g.prev = h.prev /\ g \in ListSet
    BY <2>1, <1>n DEF ListSet, Pointer
  <2>3. Ordered(g, C, r)
    <3> HIDE DEF g
    <3> QED
      BY <2>2 DEF Ordered
  <2>4. \A k \in C : r[k] <= r[l]
    BY <1>1 DEF Ordered
  <2> QED
    BY <2>2, <2>3, <2>4
<1>2. CASE h.next[l] # Null
  <2> DEFINE f == Free(h, l)
             g == AddLast(f, l)
             s == SetCur(h, l)
             end == CHOOSE k \in Chain(h) : h.next[k] = Null
             p == h.prev[l]
             n == h.next[l]
             next1 == IF p # Null THEN [h.next EXCEPT ![p] = n] ELSE h.next
             prev1 == IF n # Null THEN [h.prev EXCEPT ![n] = p] ELSE h.prev
  <2>1. f \in ListSet /\ f.lcur = h.lcur /\ Ordered(f, C \ {l}, r)
    BY FreeOrdered
  <2>2. g \in ListSet /\ g.lcur = f.lcur
    BY <2>1, <1>n, AddLastOrdered
  <2>3. PICK r2 \in Rank : Ordered(g, (C \ {l}) \cup {l}, r2) /\ \A k \in C \ {l} : r2[k] < r2[l]
    BY <2>1, <1>n, AddLastOrdered
  <2>4. n \in C /\ n \in Layer /\ n # Null /\ p \in Pointer /\ p # l /\ n # l
    <3>1. \A k \in C : r[k] \in Nat
      BY <1>n DEF Rank
    <3> QED
      BY <3>1, <1>2, <1>n, <1>t DEF Ordered
  <2>5. f.l0 = (IF l = h.l0 THEN n ELSE h.l0) /\ f.next = [next1 EXCEPT ![l] = Null] /\ f.prev = [prev1 EXCEPT ![l] = Null]
    <3> HIDE DEF next1, prev1
    <3>1. f = [h EXCEPT !.l0 = IF l = h.l0 THEN n ELSE h.l0, !.next = [next1 EXCEPT ![l] = Null],
                        !.prev = [prev1 EXCEPT ![l] = Null]]
      BY DEF Free, next1, prev1
    <3> QED
      BY <3>1 DEF ListSet
  <2>6. end \in C /\ h.next[end] = Null
    <3>1. \E k \in Chain(h) : h.next[k] = Null
      BY WalkOrdered DEF Ordered
    <3> QED
      BY <3>1, WalkOrdered
  <2>7. \A k \in C : h.next[k] = Null => k = end
    <3> SUFFICES ASSUME NEW k \in C, h.next[k] = Null PROVE k = end
      OBVIOUS
    <3>1. r[k] <= r[end] /\ r[end] <= r[k] /\ r[k] \in Nat /\ r[end] \in Nat
      <4> HIDE DEF end
      <4> QED
        BY <2>6, <1>n DEF Ordered, Rank
    <3>2. r[k] = r[end]
      BY <3>1
    <3> HIDE DEF end
    <3> QED
      BY <3>2, <2>6 DEF Ordered
  <2>8. \A k \in Layer : f.next[k] = (IF k = l THEN Null ELSE IF k = p THEN n ELSE h.next[k])
                         /\ f.prev[k] = (IF k = l THEN Null ELSE IF k = n THEN p ELSE h.prev[k])
    <3>1. next1 \in [Layer -> Pointer] /\ prev1 \in [Layer -> Pointer]
      BY <1>t, <2>4 DEF Pointer
    <3>2. \A k \in Layer : next1[k] = (IF k = p THEN n ELSE h.next[k]) /\ prev1[k] = (IF k = n THEN p ELSE h.prev[k])
      BY <1>t, <1>n, <2>4 DEF Pointer
    <3> HIDE DEF next1, prev1, f
    <3> QED
      BY <3>1, <3>2, <2>5
  <2>9. end # l /\ end # p /\ f.next[end] = Null
    <3>1. end # l
      BY <2>6, <1>2
    <3>2. end # p
      <4> SUFFICES ASSUME p = end PROVE FALSE
        OBVIOUS
      <4>1. p \in C /\ r[p] < r[l] /\ r[l] <= r[p] /\ r[p] \in Nat /\ r[l] \in Nat
        BY <2>6, <1>n DEF Ordered, Rank
      <4> QED
        BY <4>1
    <3> QED
      BY <3>1, <3>2, <2>6, <2>8, <1>n
  <2>10. \A k \in C \ {l} : f.next[k] = Null => k = end
    BY <2>4, <2>7, <2>8, <1>n
  <2>11. f.l0 # Null
    BY <2>5, <2>4 DEF Ordered
  <2>12. Chain(f) = C \ {l}
    BY <2>1, WalkOrdered
  <2> HIDE DEF f, end, p, n, next1, prev1
  <2>13. (CHOOSE k \in Chain(f) : f.next[k] = Null) = end
    BY <2>6, <2>9, <2>10, <2>12
  <2>14. g = [f EXCEPT !.next[end] = l, !.next[l] = Null, !.prev[l] = end]
    BY <2>11, <2>13 DEF AddLast
  <2>15. g.l0 = f.l0 /\ g.next = [f.next EXCEPT ![end] = l, ![l] = Null] /\ g.prev = [f.prev EXCEPT ![l] = end]
    BY <2>14, <2>1 DEF ListSet
  <2>16. s = [h EXCEPT !.l0 = IF p = Null THEN n ELSE h.l0,
                       !.next = [k \in Layer |-> IF k = l THEN Null ELSE IF k = end THEN l
                                                 ELSE IF k = p THEN n ELSE h.next[k]],
                       !.prev = [k \in Layer |-> IF k = l THEN end ELSE IF k = n THEN p ELSE h.prev[k]],
                       !.lcur = l]
    BY <1>2 DEF SetCur, p, n, end
  <2>17. s.l0 = (IF p = Null THEN n ELSE h.l0) /\ s.lcur = l
         /\ s.next = [k \in Layer |-> IF k = l THEN Null ELSE IF k = end THEN l ELSE IF k = p THEN n ELSE h.next[k]]
         /\ s.prev = [k \in Layer |-> IF k = l THEN end ELSE IF k = n THEN p ELSE h.prev[k]]
         /\ s = [l0 |-> s.l0, lcur |-> s.lcur, next |-> s.next, prev |-> s.prev]
    BY <2>16 DEF ListSet
  <2>18. f.next \in [Layer -> Pointer] /\ f.prev \in [Layer -> Pointer]
    BY <2>1 DEF ListSet
  <2>19. \A k \in Layer : s.next[k] = g.next[k] /\ s.prev[k] = g.prev[k]
    <3> HIDE DEF s, g
    <3> QED
      BY <2>8, <2>9, <2>15, <2>17, <2>18, <2>6, <1>n
  <2>20. s.l0 = g.l0
    <3>1. p = Null <=> l = h.l0
      <4>1. h.l0 # Null /\ h.l0 \in C /\ \A m \in C : r[h.l0] <= r[m]
        BY DEF Ordered
      <4>2. p = Null => \A m \in C : r[l] <= r[m]
        BY DEF Ordered, p
      <4>3. p # Null => p \in C /\ r[p] < r[l]
        BY DEF Ordered, p
      <4>4. \A k, m \in C : r[k] \in Nat /\ (r[k] = r[m] => k = m)
        BY <1>n DEF Ordered, Rank
      <4>5. ASSUME p = Null PROVE l = h.l0
        <5>1. r[l] = r[h.l0]
          BY <4>1, <4>2, <4>4, <4>5
        <5> QED
          BY <5>1, <4>1, <4>4
      <4>6. ASSUME l = h.l0 PROVE p = Null
        BY <4>1, <4>3, <4>4, <4>6
      <4> QED
        BY <4>5, <4>6
    <3> QED
      BY <3>1, <2>5, <2>15, <2>17
  <2>21. s \in ListSet
    <3>1. g.next \in [Layer -> Pointer] /\ g.prev \in [Layer -> Pointer] /\ g.l0 \in Pointer
      BY <2>2 DEF ListSet
    <3>2. s.next \in [Layer -> Pointer] /\ s.prev \in [Layer -> Pointer]
      <4> HIDE DEF g, s
      <4> QED
        BY <3>1, <2>17, <2>19
    <3> HIDE DEF g, s
    <3> QED
      BY <3>1, <3>2, <2>17, <2>20, <1>n DEF ListSet, Pointer
  <2>22. Ordered(s, C, r2)
    <3>1. (C \ {l}) \cup {l} = C
      OBVIOUS
    <3>2. Ordered(g, C, r2)
      BY <3>1, <2>3
    <3>3. \A k \in C : s.next[k] = g.next[k] /\ s.prev[k] = g.prev[k]
      BY <2>19, <1>n
    <3> HIDE DEF g, s
    <3> QED
      BY <3>2, <3>3, <2>20 DEF Ordered
  <2>23. \A k \in C : r2[k] <= r2[l]
    BY <2>3, <1>n DEF Rank
  <2> QED
    BY <2>17, <2>21, <2>22, <2>23
<1> QED
  BY <1>1, <1>2

-----------------------------------------------------------------------------
(* The list with its current layer *)

\* The list is in the order of r, the current layer is in it, and only layers that were sent
\* SIGHUP (dead) are behind the current one.
SoundBy(h, C, r, dead) ==
    /\ Ordered(h, C, r)
    /\ h.lcur \in C \/ (h.lcur = Null /\ C = {})
    /\ h.lcur \in C => \A k \in C : r[h.lcur] < r[k] => k \in dead

Sound(h, C, dead) == h \in ListSet /\ \E r \in Rank : SoundBy(h, C, r, dead)

\* What a sound list says of the chain.
LEMMA SoundChain ==
  ASSUME NEW h, NEW C, NEW dead, Sound(h, C, dead)
  PROVE  /\ Chain(h) = C /\ C \subseteq Layer
         /\ Walk(h)[N + 1] = Null
         /\ \A l \in C : (h.prev[l] = Null <=> l = h.l0)
                         /\ (h.next[l] # Null => h.next[l] \in C /\ h.prev[h.next[l]] = l)
                         /\ (h.prev[l] # Null => h.prev[l] \in C)
         /\ h.lcur \in C \/ (h.lcur = Null /\ h.l0 = Null /\ C = {})
         /\ h.l0 = Null <=> C = {}
<1>1. PICK r \in Rank : SoundBy(h, C, r, dead)
  BY DEF Sound
<1>2. Ordered(h, C, r)
  BY <1>1 DEF SoundBy
<1>n. Null \notin Layer /\ C \subseteq Layer
  BY <1>2, LayerAssumption DEF Ordered
<1>r. \A k, m \in C : r[k] \in Nat /\ (r[k] = r[m] => k = m)
  BY <1>2, <1>n DEF Rank, Ordered
<1>3. Chain(h) = C /\ Walk(h)[N + 1] = Null
  BY <1>2, WalkOrdered
<1>4. h.l0 = Null <=> C = {}
  BY <1>2 DEF Ordered
<1>5. ASSUME NEW l \in C PROVE h.prev[l] = Null <=> l = h.l0
  <2>1. h.l0 # Null /\ h.l0 \in C /\ \A m \in C : r[h.l0] <= r[m]
    BY <1>2 DEF Ordered
  <2>2. h.prev[l] = Null => r[l] <= r[h.l0]
    BY <1>2, <2>1 DEF Ordered
  <2>3. h.prev[l] # Null => h.prev[l] \in C /\ r[h.prev[l]] < r[l]
    BY <1>2 DEF Ordered
  <2>4. ASSUME h.prev[l] = Null PROVE l = h.l0
    <3>1. r[l] = r[h.l0]
      BY <2>1, <2>2, <2>4, <1>r
    <3> QED
      BY <3>1, <2>1, <1>r
  <2>5. ASSUME l = h.l0 PROVE h.prev[l] = Null
    BY <2>1, <2>3, <2>5, <1>r
  <2> QED
    BY <2>4, <2>5
<1>6. ASSUME NEW l \in C, h.next[l] # Null PROVE h.next[l] \in C /\ h.prev[h.next[l]] = l
  <2> DEFINE n == h.next[l]
             p == h.prev[n]
  <2>1. n \in C /\ r[l] < r[n] /\ \A m \in C : r[m] <= r[l] \/ r[n] <= r[m]
    BY <1>2, <1>6 DEF Ordered
  <2>2. p # Null
    <3> SUFFICES ASSUME p = Null PROVE FALSE
      OBVIOUS
    <3>1. r[n] <= r[l]
      <4> HIDE DEF n
      <4> QED
        BY <2>1, <1>2 DEF Ordered
    <3> QED
      BY <3>1, <2>1, <1>r
  <2>3. p \in C /\ r[p] < r[n] /\ \A m \in C : r[m] <= r[p] \/ r[n] <= r[m]
    <3> HIDE DEF n
    <3> QED
      BY <2>1, <2>2, <1>2 DEF Ordered
  <2> HIDE DEF n, p
  <2>4. r[p] = r[l]
    BY <2>1, <2>3, <1>r
  <2>5. p = l
    BY <2>3, <2>4, <1>r
  <2> QED
    BY <2>1, <2>5 DEF n, p
<1>7. \A l \in C : h.prev[l] # Null => h.prev[l] \in C
  BY <1>2 DEF Ordered
<1> QED
  BY <1>1, <1>3, <1>4, <1>5, <1>6, <1>7, <1>n DEF SoundBy

\* The list of doio()'s descriptors.
LEMMA SoundListed ==
  ASSUME NEW h, NEW C, NEW dead, Sound(h, C, dead)
  PROVE  /\ IsFiniteSet(C) /\ Cardinality(C) \in Nat
         /\ Listed(h) \in Seq(Layer) /\ Len(Listed(h)) = Cardinality(C)
         /\ h.lcur \in C /\ h.next[h.lcur] = Null =>
               Len(Listed(h)) > 0 /\ h.lcur = Listed(h)[Len(Listed(h))]
<1>1. PICK r \in Rank : SoundBy(h, C, r, dead)
  BY DEF Sound
<1>2. Ordered(h, C, r)
  BY <1>1 DEF SoundBy
<1>r. \A k, m \in C : r[k] \in Nat /\ (r[k] = r[m] => k = m)
  BY <1>2 DEF Rank, Ordered
<1> DEFINE d == Cardinality(C)
           e == Listed(h)[d]
<1>3. d \in Nat /\ Len(Listed(h)) = d /\ (C # {} => d # 0 /\ e \in C /\ h.next[e] = Null)
  BY <1>2, WalkOrdered
<1> HIDE DEF d, e
<1>4. ASSUME h.lcur \in C, h.next[h.lcur] = Null
      PROVE  d > 0 /\ h.lcur = e
  <2>1. d # 0 /\ e \in C /\ h.next[e] = Null
    BY <1>3, <1>4
  <2>2. r[e] <= r[h.lcur] /\ r[h.lcur] <= r[e]
    BY <2>1, <1>4, <1>2 DEF Ordered
  <2>3. r[e] = r[h.lcur]
    BY <2>1, <2>2, <1>4, <1>r
  <2> QED
    BY <2>1, <2>3, <1>3, <1>4, <1>r
<1> QED
  BY <1>2, <1>3, <1>4, WalkOrdered DEF d, e

\* setcur() on a sound list; nothing is behind the current layer then.
LEMMA SoundSetCur ==
  ASSUME NEW h, NEW C, NEW dead, Sound(h, C, dead), NEW l \in C
  PROVE  /\ Sound(SetCur(h, l), C, {})
         /\ SetCur(h, l).lcur = l /\ SetCur(h, l).next[l] = Null
<1>1. PICK r \in Rank : SoundBy(h, C, r, dead) /\ h \in ListSet
  BY DEF Sound
<1>2. Ordered(h, C, r)
  BY <1>1 DEF SoundBy
<1> DEFINE g == SetCur(h, l)
<1>3. g \in ListSet /\ g.lcur = l
  BY <1>1, <1>2, SetCurOrdered
<1>4. PICK r2 \in Rank : Ordered(g, C, r2) /\ \A k \in C : r2[k] <= r2[l]
  BY <1>1, <1>2, SetCurOrdered
<1> HIDE DEF g
<1>5. \A k \in C : r2[k] \in Nat
  BY <1>4 DEF Ordered, Rank
<1>6. SoundBy(g, C, r2, {})
  BY <1>3, <1>4, <1>5 DEF SoundBy
<1>7. g.next[l] = Null
  <2>1. g.next[l] # Null => g.next[l] \in C /\ r2[l] < r2[g.next[l]]
    BY <1>4 DEF Ordered
  <2> QED
    BY <2>1, <1>4, <1>5
<1> QED
  BY <1>3, <1>6, <1>7 DEF Sound, g

\* More layers may have been sent SIGHUP.
LEMMA SoundMore ==
  ASSUME NEW h, NEW C, NEW dead, Sound(h, C, dead), NEW more, dead \subseteq more
  PROVE  Sound(h, C, more)
  BY DEF Sound, SoundBy

\* lalloc() and setcur().
LEMMA SoundCreate ==
  ASSUME NEW h, NEW C, NEW dead, Sound(h, C, dead), NEW l \in Layer, l \notin C
  PROVE  /\ Sound(SetCur(AddLast(h, l), l), C \cup {l}, {})
         /\ SetCur(AddLast(h, l), l).lcur = l /\ SetCur(AddLast(h, l), l).next[l] = Null
<1>1. PICK r \in Rank : SoundBy(h, C, r, dead) /\ h \in ListSet
  BY DEF Sound
<1>2. Ordered(h, C, r)
  BY <1>1 DEF SoundBy
<1> DEFINE f == AddLast(h, l)
           g == [f EXCEPT !.lcur = l]
<1>3. f \in ListSet
  BY <1>1, <1>2, AddLastOrdered
<1>4. PICK r1 \in Rank : Ordered(f, C \cup {l}, r1) /\ \A k \in C : r1[k] < r1[l]
  BY <1>1, <1>2, AddLastOrdered
<1> HIDE DEF f
<1> DEFINE s == SetCur(f, l)
<1>5. l \in C \cup {l}
  OBVIOUS
<1>6. s \in ListSet /\ s.lcur = l
  BY <1>3, <1>4, <1>5, SetCurOrdered
<1>7. PICK r2 \in Rank : Ordered(s, C \cup {l}, r2) /\ \A k \in C \cup {l} : r2[k] <= r2[l]
  BY <1>3, <1>4, <1>5, SetCurOrdered
<1> HIDE DEF s
<1>8. \A k \in C \cup {l} : r2[k] \in Nat
  BY <1>7 DEF Ordered, Rank
<1>9. SoundBy(s, C \cup {l}, r2, {})
  BY <1>6, <1>7, <1>8 DEF SoundBy
<1>10. s.next[l] = Null
  <2>1. s.next[l] # Null => s.next[l] \in C \cup {l} /\ r2[l] < r2[s.next[l]]
    BY <1>7 DEF Ordered
  <2> QED
    BY <2>1, <1>7, <1>8
<1> QED
  BY <1>6, <1>9, <1>10 DEF Sound, s, f

\* What is left of the list when a layer ends: all others, or, when the layer was current and
\* first, nothing; then all others were sent SIGHUP.
Buried(h, l) == Free(IF l = h.lcur THEN SetPrev(h, TRUE) ELSE h, l)

LEMMA SoundBury ==
  ASSUME NEW h, NEW C, NEW dead, Sound(h, C, dead), NEW l \in C
  PROVE  /\ \E C2 : C2 \subseteq C \ {l} /\ (C \ {l}) \ C2 \subseteq dead /\ Sound(Buried(h, l), C2, dead)
         /\ l # h.lcur => /\ Buried(h, l).lcur = h.lcur
                          /\ h.next[h.lcur] = Null => Buried(h, l).next[h.lcur] = Null
<1>1. PICK r \in Rank : SoundBy(h, C, r, dead) /\ h \in ListSet
  BY DEF Sound
<1>2. Ordered(h, C, r)
  BY <1>1 DEF SoundBy
<1>n. Null \notin Layer /\ C \subseteq Layer /\ l \in Layer
  BY <1>2, LayerAssumption DEF Ordered
<1>r. \A k, m \in C : r[k] \in Nat /\ (r[k] = r[m] => k = m)
  BY <1>2 DEF Rank, Ordered
<1>3. CASE l # h.lcur
  <2> DEFINE g == Free(h, l)
  <2>1. Buried(h, l) = g
    BY <1>3 DEF Buried
  <2>2. g \in ListSet /\ g.lcur = h.lcur /\ Ordered(g, C \ {l}, r)
    BY <1>1, <1>2, FreeOrdered
  <2>3. h.lcur \in C \ {l}
    BY <1>1, <1>3 DEF SoundBy
  <2> HIDE DEF g
  <2>4. SoundBy(g, C \ {l}, r, dead)
    BY <2>2, <2>3, <1>1 DEF SoundBy
  <2>5. h.next[h.lcur] = Null => g.next[h.lcur] = Null
    <3> SUFFICES ASSUME h.next[h.lcur] = Null, g.next[h.lcur] # Null PROVE FALSE
      OBVIOUS
    <3>1. g.next[h.lcur] \in C /\ r[h.lcur] < r[g.next[h.lcur]]
      BY <2>2, <2>3 DEF Ordered
    <3>2. r[g.next[h.lcur]] <= r[h.lcur]
      BY <3>1, <2>3, <1>2 DEF Ordered
    <3> QED
      BY <3>1, <3>2, <2>3, <1>r
  <2>6. Sound(g, C \ {l}, dead)
    BY <2>2, <2>4 DEF Sound
  <2> QED
    BY <2>1, <2>2, <2>5, <2>6
<1>4. CASE l = h.lcur
  <2> DEFINE p == h.prev[l]
             f == SetPrev(h, TRUE)
             g == Free(f, l)
  <2>1. Buried(h, l) = g
    BY <1>4 DEF Buried
  <2>2. \A k \in C : r[l] < r[k] => k \in dead
    BY <1>1, <1>4 DEF SoundBy
  <2>3. CASE p # Null
    <3>1. f = [h EXCEPT !.lcur = p]
      BY <2>3, <1>4 DEF SetPrev
    <3>2. p \in C /\ r[p] < r[l] /\ \A m \in C : r[m] <= r[p] \/ r[l] <= r[m]
      BY <2>3, <1>2 DEF Ordered
    <3> HIDE DEF p
    <3>3. f.lcur = p /\ f.l0 = h.l0 /\ f.next = h.next /\ f.prev = h.prev /\ f \in ListSet
      BY <3>1, <3>2, <1>1, <1>n DEF ListSet, Pointer
    <3> HIDE DEF f
    <3>4. Ordered(f, C, r)
      BY <3>3, <1>2 DEF Ordered
    <3>5. g \in ListSet /\ g.lcur = p /\ Ordered(g, C \ {l}, r)
      BY <3>3, <3>4, FreeOrdered
    <3>6. p \in C \ {l}
      BY <3>2, <1>r
    <3>7. \A k \in C \ {l} : r[p] < r[k] => k \in dead
      <4> SUFFICES ASSUME NEW k \in C \ {l}, r[p] < r[k] PROVE k \in dead
        OBVIOUS
      <4>1. r[l] <= r[k] /\ r[l] # r[k]
        BY <3>2, <1>r
      <4> QED
        BY <4>1, <2>2, <1>r
    <3> HIDE DEF g
    <3>8. Sound(g, C \ {l}, dead)
      BY <3>5, <3>6, <3>7 DEF Sound, SoundBy
    <3> QED
      BY <3>8, <2>1, <1>4
  <2>4. CASE p = Null
    <3>1. f = [h EXCEPT !.l0 = Null, !.lcur = Null]
      BY <2>4, <1>4 DEF SetPrev
    <3>2. f.lcur = Null /\ f.l0 = Null /\ f.next = h.next /\ f.prev = h.prev /\ f \in ListSet
      BY <3>1, <1>1 DEF ListSet, Pointer
    <3> HIDE DEF f
    <3> DEFINE n == f.next[l]
               q == f.prev[l]
               next1 == IF q # Null THEN [f.next EXCEPT ![q] = n] ELSE f.next
               prev1 == IF n # Null THEN [f.prev EXCEPT ![n] = q] ELSE f.prev
    <3>3. f.next \in [Layer -> Pointer] /\ f.prev \in [Layer -> Pointer] /\ n \in Pointer /\ q \in Pointer
      BY <3>2, <1>n DEF ListSet
    <3>4. next1 \in [Layer -> Pointer] /\ prev1 \in [Layer -> Pointer]
      BY <3>3 DEF Pointer
    <3>5. g = [f EXCEPT !.l0 = IF l = f.l0 THEN n ELSE f.l0, !.next = [next1 EXCEPT ![l] = Null],
                        !.prev = [prev1 EXCEPT ![l] = Null]]
      BY DEF Free
    <3> HIDE DEF next1, prev1
    <3>6. g \in ListSet /\ g.l0 = Null /\ g.lcur = Null
      <4> HIDE DEF g
      <4> QED
        BY <3>2, <3>4, <3>5, <1>n DEF ListSet, Pointer
    <3>7. (C \ {l}) \subseteq dead
      <4> SUFFICES ASSUME NEW k \in C \ {l} PROVE k \in dead
        OBVIOUS
      <4>1. r[l] <= r[k] /\ r[l] # r[k]
        BY <2>4, <1>2, <1>r DEF Ordered
      <4> QED
        BY <4>1, <2>2, <1>r
    <3> HIDE DEF g
    <3>8. SoundBy(g, {}, r, dead)
      BY <3>6 DEF SoundBy, Ordered
    <3>9. Sound(g, {}, dead)
      BY <3>6, <3>8 DEF Sound
    <3> QED
      BY <3>7, <3>9, <2>1, <1>4
  <2> QED
    BY <2>3, <2>4
<1> QED
  BY <1>3, <1>4

\* ldelete(): the layer stays in the list.
LEMMA SoundDelete ==
  ASSUME NEW h, NEW C, NEW dead, Sound(h, C, dead), NEW l \in C
  PROVE  Sound(IF l = h.lcur THEN SetPrev(h, FALSE) ELSE h, C, dead \cup {l})
<1>1. PICK r \in Rank : SoundBy(h, C, r, dead) /\ h \in ListSet
  BY DEF Sound
<1>2. Ordered(h, C, r)
  BY <1>1 DEF SoundBy
<1>n. Null \notin Layer /\ C \subseteq Layer /\ l \in Layer
  BY <1>2, LayerAssumption DEF Ordered
<1>r. \A k, m \in C : r[k] \in Nat /\ (r[k] = r[m] => k = m)
  BY <1>2 DEF Rank, Ordered
<1>3. CASE l # h.lcur
  BY <1>3, SoundMore
<1>4. CASE l = h.lcur
  <2> DEFINE p == h.prev[l]
             q == IF p # Null THEN p ELSE h.l0
             g == SetPrev(h, FALSE)
  <2>1. g = [h EXCEPT !.lcur = q]
    BY <1>4 DEF SetPrev
  <2>2. \A k \in C : r[l] < r[k] => k \in dead
    BY <1>1, <1>4 DEF SoundBy
  <2>3. q \in C /\ \A k \in C : r[q] < r[k] => r[l] <= r[k]
    <3>1. CASE p # Null
      <4>1. p \in C /\ \A m \in C : r[m] <= r[p] \/ r[l] <= r[m]
        BY <3>1, <1>2 DEF Ordered
      <4> HIDE DEF p
      <4> QED
        BY <3>1, <4>1, <1>r
    <3>2. CASE p = Null
      <4>1. h.l0 \in C
        BY <1>2 DEF Ordered
      <4>2. \A m \in C : r[l] <= r[m]
        BY <3>2, <1>2 DEF Ordered
      <4> QED
        BY <3>2, <4>1, <4>2
    <3> QED
      BY <3>1, <3>2
  <2> HIDE DEF q
  <2>4. g.lcur = q /\ g.l0 = h.l0 /\ g.next = h.next /\ g.prev = h.prev /\ g \in ListSet
    BY <2>1, <2>3, <1>1, <1>n DEF ListSet, Pointer
  <2> HIDE DEF g
  <2>5. \A k \in C : r[q] < r[k] => k \in dead \cup {l}
    <3> SUFFICES ASSUME NEW k \in C, r[q] < r[k], k # l PROVE k \in dead
      OBVIOUS
    <3>1. r[l] <= r[k] /\ r[l] # r[k]
      BY <2>3, <1>r
    <3> QED
      BY <3>1, <2>2, <1>r
  <2>6. Ordered(g, C, r)
    BY <2>4, <1>2 DEF Ordered
  <2>7. SoundBy(g, C, r, dead \cup {l})
    BY <2>3, <2>4, <2>5, <2>6 DEF SoundBy
  <2> QED
    BY <2>4, <2>7, <1>4 DEF Sound, g
<1> QED
  BY <1>3, <1>4

-----------------------------------------------------------------------------
(* The invariant *)

\* A process that has not been waited for has a layer; a layer that is lost from the list was
\* sent SIGHUP.
AllocInv ==
    /\ Chain(list) \subseteq alloc
    /\ Orphans \subseteq deleted
    /\ \A l \in Layer : proc[l] # "none" => l \in alloc

\* poll() is for a loop that goes on, and its last descriptor is the current layer's.
LoopInv == (pc = "poll" => ~endloop) /\ LastIsCurrent

\* The layers whose terminal has hung up.
Ended == {l \in Layer : proc[l] \in {"away", "exiting", "zombie"}}

\* As long as no layer is lost, await() is called no more often than there are such layers.
HupInv ==
    /\ Orphans = {} /\ pc = "event" => Cardinality(hups) <= Cardinality(Ended)
    /\ Orphans = {} /\ pc = "await" => Cardinality(hups) + 1 <= Cardinality(Ended)

Inv ==
    /\ TypeOK
    /\ Sound(list, Chain(list), deleted)
    /\ AllocInv /\ LoopInv /\ UtmpFollows /\ HupInv

Procs == {"none", "running", "away", "exiting", "zombie"}

\* The empty list.
LEMMA SoundEmpty == Sound(Empty, {}, {})
<1> DEFINE r == [l \in Layer |-> 0]
<1>1. r \in Rank /\ Empty \in ListSet /\ Empty.l0 = Null /\ Empty.lcur = Null
  BY DEF Rank, Empty, ListSet, Pointer
<1> HIDE DEF r
<1>2. SoundBy(Empty, {}, r, {})
  BY <1>1 DEF SoundBy, Ordered
<1> QED
  BY <1>1, <1>2 DEF Sound

\* shl starts without a layer.
LEMMA InvInit == Init => Inv
<1> SUFFICES ASSUME Init PROVE Inv
  OBVIOUS
<1> USE DEF Init
<1>1. Sound(list, {}, {})
  BY SoundEmpty
<1>2. Chain(list) = {}
  BY <1>1, SoundChain
<1>3. Cardinality({}) = 0
  BY FS_EmptySet
<1>4. TypeOK
  <2>1. list \in ListSet
    BY <1>1 DEF Sound
  <2>2. <<>> \in Seq(Layer) /\ Len(<<>>) = 0
    OBVIOUS
  <2>3. MAXLAYER \in Nat
    BY LayersFinite, LayerAssumption DEF N
  <2>4. QED
    <3>1. list \in [l0 : Pointer, lcur : Pointer, next : [Layer -> Pointer], prev : [Layer -> Pointer]]
      BY <2>1 DEF ListSet
    <3>2. alloc \subseteq Layer /\ Cardinality(alloc) <= MAXLAYER
      BY <1>3, <2>3
    <3>3. pfd \in Seq(Layer) /\ Len(pfd) <= MAXLAYER
      BY <2>2, <2>3
    <3> QED
      BY <3>1, <3>2, <3>3 DEF TypeOK
<1>5. AllocInv /\ LoopInv /\ UtmpFollows /\ HupInv
  BY <1>2 DEF AllocInv, LoopInv, UtmpFollows, HupInv, Orphans, LastIsCurrent
<1> QED
  BY <1>1, <1>2, <1>4, <1>5 DEF Inv

\* A command that ends with a new call of doio().
LEMMA CommandStep ==
  ASSUME Inv, NEW b \in BOOLEAN, DoIO(list', b), NEW C, Sound(list', C, deleted'),
         alloc' \subseteq Layer, Cardinality(alloc') <= MAXLAYER, C \subseteq alloc', alloc' \ C \subseteq deleted',
         proc' \in [Layer -> Procs], \A l \in Layer : proc'[l] # "none" => l \in alloc',
         blk' \subseteq alloc', utmp' \subseteq alloc', C \subseteq utmp', hadquit' \in BOOLEAN,
         deleted' \subseteq Layer,
         b => list'.lcur \in C /\ list'.next[list'.lcur] = Null
  PROVE  Inv'
<1>1. Chain(list') = C
  BY SoundChain
<1>2. list' \in ListSet
  BY DEF Sound
<1>3. /\ Listed(list') \in Seq(Layer) /\ Len(Listed(list')) = Cardinality(C)
      /\ list'.lcur \in C /\ list'.next[list'.lcur] = Null =>
            Len(Listed(list')) > 0 /\ list'.lcur = Listed(list')[Len(Listed(list'))]
  BY SoundListed
<1>4. Cardinality(C) <= MAXLAYER
  <2>1. IsFiniteSet(alloc')
    BY LayersFinite, FS_Subset
  <2>2. Cardinality(C) <= Cardinality(alloc') /\ IsFiniteSet(C)
    BY <2>1, FS_Subset
  <2>3. Cardinality(C) \in Nat /\ Cardinality(alloc') \in Nat /\ MAXLAYER \in Nat
    BY <2>1, <2>2, FS_CardinalityType, LayersFinite, LayerAssumption DEF N
  <2> QED
    BY <2>2, <2>3
<1>5. pc' = "poll" /\ layermode' = b /\ typed' = "none" /\ endloop' = FALSE /\ pfd' = Listed(list')
      /\ muted' = {} /\ ins' = {} /\ hups' = {}
  BY DEF DoIO
<1>6. TypeOK'
  BY <1>2, <1>3, <1>4, <1>5 DEF TypeOK, ListSet, Procs
<1>7. AllocInv'
  BY <1>1 DEF AllocInv, Orphans
<1>8. LoopInv'
  <2>1. LastIsCurrent'
    BY <1>3, <1>5 DEF LastIsCurrent
  <2> QED
    BY <2>1, <1>5 DEF LoopInv
<1>9. UtmpFollows' /\ HupInv'
  BY <1>1, <1>5 DEF UtmpFollows, HupInv
<1> QED
  BY <1>1, <1>6, <1>7, <1>8, <1>9 DEF Inv

\* A command that leaves the list and the layers alone.
LEMMA IdleStep ==
  ASSUME Inv, pc = "execute", DoIO(list, FALSE), UNCHANGED <<list, alloc, proc, utmp, deleted>>,
         hadquit' \in BOOLEAN, blk' \subseteq alloc
  PROVE  Inv'
<1> DEFINE C == Chain(list)
<1>1. Sound(list', C, deleted') /\ DoIO(list', FALSE)
  BY DEF Inv
<1>2. C \subseteq alloc /\ alloc \ C \subseteq deleted /\ \A l \in Layer : proc[l] # "none" => l \in alloc
  BY DEF Inv, AllocInv, Orphans
<1>3. alloc \subseteq Layer /\ Cardinality(alloc) <= MAXLAYER /\ proc \in [Layer -> Procs] /\ deleted \subseteq Layer
  BY DEF Inv, TypeOK, Procs
<1>4. utmp \subseteq alloc /\ C \subseteq utmp
  BY DEF Inv, UtmpFollows, Runs
<1> HIDE DEF C
<1> QED
  BY <1>1, <1>2, <1>3, <1>4, CommandStep

\* Each command keeps the invariant.
LEMMA CommandKeeps == ASSUME Inv, Command PROVE Inv'
<1> DEFINE C == Chain(list)
<1>n. Null \notin Layer /\ C \subseteq Layer
  BY LayerAssumption, SoundChain DEF Inv
<1>s. Sound(list, C, deleted)
  BY DEF Inv
<1>2. C \subseteq alloc /\ alloc \ C \subseteq deleted /\ \A l \in Layer : proc[l] # "none" => l \in alloc
  BY DEF Inv, AllocInv, Orphans
<1>3. alloc \subseteq Layer /\ Cardinality(alloc) <= MAXLAYER /\ proc \in [Layer -> Procs] /\ deleted \subseteq Layer
      /\ blk \subseteq alloc /\ hadquit \in BOOLEAN
  BY DEF Inv, TypeOK, Procs
<1>4. utmp \subseteq alloc /\ (pc = "execute" => C \subseteq utmp)
  BY DEF Inv, UtmpFollows, Runs
<1> HIDE DEF C
<1>5. ASSUME Create PROVE Inv'
  <2>1. PICK l \in Layer \ alloc :
           /\ list' = SetCur(AddLast(list, l), l)
           /\ alloc' = alloc \cup {l}
           /\ proc' = [proc EXCEPT ![l] = "running"]
           /\ utmp' = utmp \cup {l}
           /\ deleted' = deleted \ {l}
    BY <1>5 DEF Create
  <2>2. pc = "execute" /\ DoIO(list', TRUE) /\ hadquit' = FALSE /\ blk' = blk /\ Cardinality(alloc) < MAXLAYER
    BY <1>5 DEF Create
  <2>3. Sound(list', C \cup {l}, {}) /\ list'.lcur = l /\ list'.next[l] = Null
    BY <2>1, <1>2, <1>s, SoundCreate
  <2>4. Sound(list', C \cup {l}, deleted')
    BY <2>3, SoundMore
  <2>5. Cardinality(alloc') <= MAXLAYER
    <3>1. IsFiniteSet(alloc)
      BY <1>3, LayersFinite, FS_Subset
    <3>2. Cardinality(alloc') = Cardinality(alloc) + 1 /\ Cardinality(alloc) \in Nat
      BY <2>1, <3>1, FS_AddElement, FS_CardinalityType
    <3>3. MAXLAYER \in Nat
      BY LayersFinite, LayerAssumption DEF N
    <3> QED
      BY <2>2, <3>2, <3>3
  <2>6. alloc' \subseteq Layer /\ C \cup {l} \subseteq alloc' /\ alloc' \ (C \cup {l}) \subseteq deleted'
    BY <2>1, <1>2, <1>3
  <2>7. proc' \in [Layer -> Procs] /\ \A k \in Layer : proc'[k] # "none" => k \in alloc'
    BY <2>1, <1>2, <1>3 DEF Procs
  <2>8. blk' \subseteq alloc' /\ utmp' \subseteq alloc' /\ C \cup {l} \subseteq utmp' /\ hadquit' \in BOOLEAN /\ deleted' \subseteq Layer
    BY <2>1, <2>2, <1>3, <1>4
  <2> DEFINE D == C \cup {l}
  <2>9. list'.lcur \in D /\ list'.next[list'.lcur] = Null
    BY <2>3
  <2> HIDE DEF D
  <2> QED
    BY <2>2, <2>4, <2>5, <2>6, <2>7, <2>8, <2>9, CommandStep DEF D
<1>6. ASSUME CreateFails PROVE Inv'
  <2>1. PICK l \in Layer \ alloc : list' = Free(SetPrev(SetCur(AddLast(list, l), l), TRUE), l)
    BY <1>6 DEF CreateFails
  <2>2. pc = "execute" /\ DoIO(list', FALSE) /\ hadquit' = FALSE /\ UNCHANGED <<alloc, proc, blk, utmp, deleted>>
    BY <1>6 DEF CreateFails
  <2> DEFINE h == SetCur(AddLast(list, l), l)
  <2>3. Sound(h, C \cup {l}, {}) /\ h.lcur = l
    BY <2>1, <1>2, <1>s, SoundCreate
  <2> HIDE DEF h
  <2>4. list' = Buried(h, l)
    BY <2>1, <2>3 DEF h, Buried
  <2>5. l \in C \cup {l}
    OBVIOUS
  <2>6. PICK D : D \subseteq (C \cup {l}) \ {l} /\ ((C \cup {l}) \ {l}) \ D \subseteq {} /\ Sound(Buried(h, l), D, {})
    BY <2>3, <2>5, SoundBury
  <2>7. D = C
    BY <2>1, <2>6, <1>2
  <2>8. Sound(list', C, deleted')
    BY <2>4, <2>6, <2>7, SoundMore
  <2> QED
    BY <2>2, <2>8, <1>2, <1>3, <1>4, CommandStep
<1>7. ASSUME Resume PROVE Inv'
  <2>1. PICK l \in C : list' = SetCur(list, l)
    BY <1>7 DEF Resume, C
  <2>2. pc = "execute" /\ DoIO(list', TRUE) /\ hadquit' = FALSE /\ UNCHANGED <<alloc, proc, blk, utmp, deleted>>
    BY <1>7 DEF Resume
  <2>3. Sound(list', C, {}) /\ list'.lcur = l /\ list'.next[l] = Null
    BY <2>1, <1>s, SoundSetCur
  <2>4. Sound(list', C, deleted')
    BY <2>3, SoundMore
  <2> QED
    BY <2>1, <2>2, <2>3, <2>4, <1>2, <1>3, <1>4, CommandStep
<1>8. ASSUME Toggle PROVE Inv'
  <2> DEFINE l == IF list.prev[list.lcur] = Null THEN list.lcur ELSE list.prev[list.lcur]
  <2>1. list' = SetCur(list, l) /\ list.lcur # Null
    BY <1>8 DEF Toggle
  <2>2. pc = "execute" /\ DoIO(list', TRUE) /\ hadquit' = FALSE /\ UNCHANGED <<alloc, proc, blk, utmp, deleted>>
    BY <1>8 DEF Toggle
  <2>3. l \in C
    BY <2>1, <1>s, SoundChain
  <2> HIDE DEF l
  <2>4. Sound(list', C, {}) /\ list'.lcur = l /\ list'.next[l] = Null
    BY <2>1, <2>3, <1>s, SoundSetCur
  <2>5. Sound(list', C, deleted')
    BY <2>4, SoundMore
  <2> QED
    BY <2>2, <2>3, <2>4, <2>5, <1>2, <1>3, <1>4, CommandStep
<1>9. ASSUME Delete PROVE Inv'
  <2>1. PICK l \in C : /\ list' = IF l = list.lcur THEN SetPrev(list, FALSE) ELSE list
                       /\ deleted' = deleted \cup {l}
    BY <1>9 DEF Delete, C
  <2>2. pc = "execute" /\ DoIO(list', FALSE) /\ hadquit' = FALSE /\ UNCHANGED <<alloc, proc, blk, utmp>>
    BY <1>9 DEF Delete
  <2>3. Sound(list', C, deleted')
    BY <2>1, <1>s, SoundDelete
  <2>4. alloc' \ C \subseteq deleted' /\ deleted' \subseteq Layer
    BY <2>1, <2>2, <1>2, <1>3, <1>n
  <2> QED
    BY <2>2, <2>3, <2>4, <1>2, <1>3, <1>4, CommandStep
<1>10. ASSUME Block PROVE Inv'
  <2>1. PICK l \in C \cap Talking : blk' \in {blk \cup {l}, blk \ {l}}
    BY <1>10 DEF Block, C
  <2>2. blk' \subseteq alloc
    BY <2>1, <1>2, <1>3
  <2> QED
    BY <2>2, <1>10, IdleStep DEF Block
<1>11. ASSUME NoCommand PROVE Inv'
  BY <1>11, <1>3, IdleStep DEF NoCommand
<1>12. ASSUME QuitWarns PROVE Inv'
  BY <1>12, <1>3, IdleStep DEF QuitWarns
<1>13. ASSUME Quit PROVE Inv'
  <2>1. utmp' = utmp \ Chain(list) /\ pc' = "quit" /\ hadquit' = hadquit
        /\ UNCHANGED <<list, alloc, proc, blk, layermode, typed, doiovars, deleted>>
    BY <1>13 DEF Quit, QuitNow
  <2>2. TypeOK'
    BY <2>1 DEF Inv, TypeOK, doiovars
  <2>3. Sound(list, Chain(list), deleted)' /\ AllocInv'
    BY <2>1 DEF Inv, AllocInv, Orphans
  <2>4. LoopInv' /\ UtmpFollows' /\ HupInv'
    BY <2>1, <1>4 DEF LoopInv, LastIsCurrent, UtmpFollows, HupInv, Runs
  <2> QED
    BY <2>2, <2>3, <2>4 DEF Inv
<1> QED
  BY <1>5, <1>6, <1>7, <1>8, <1>9, <1>10, <1>11, <1>12, <1>13 DEF Command

\* A step that leaves the list, the layers and their processes alone.
LEMMA SameList ==
  ASSUME Inv, UNCHANGED <<list, alloc, proc, utmp, deleted>>
  PROVE  /\ Sound(list, Chain(list), deleted)' /\ AllocInv'
         /\ (Runs' => Runs) => UtmpFollows'
         /\ Ended' = Ended /\ Orphans' = Orphans
<1>1. Sound(list, Chain(list), deleted)' /\ AllocInv' /\ Orphans' = Orphans
  BY DEF Inv, AllocInv, Orphans
<1>2. Ended' = Ended
  BY DEF Ended
<1>3. (Runs' => Runs) => UtmpFollows'
  <2>1. Chain(list)' = Chain(list)
    OBVIOUS
  <2> QED
    BY <2>1 DEF Inv, UtmpFollows
<1> QED
  BY <1>1, <1>2, <1>3

\* A step of doio() with its descriptors.
LEMMA HandleKeeps == ASSUME Inv, Poll \/ Handle \/ OnHup PROVE Inv'
<1>t. TypeOK
  BY DEF Inv
<1>h. IsFiniteSet(hups) /\ IsFiniteSet(Ended) /\ Cardinality(hups) \in Nat /\ Cardinality(Ended) \in Nat
  <2>1. hups \subseteq Layer /\ Ended \subseteq Layer
    BY <1>t DEF TypeOK, Ended
  <2>2. IsFiniteSet(hups) /\ IsFiniteSet(Ended)
    BY <2>1, LayersFinite, FS_Subset
  <2> QED
    BY <2>2, FS_CardinalityType
<1>1. ASSUME Poll PROVE Inv'
  <2>1. PICK readable \in SUBSET ((Talking \cap Polled \cap alloc) \ muted), key \in {"no", "text", "end"} :
           /\ ins' = readable
           /\ hups' = HungUp \ readable
           /\ typed' = CASE layermode \/ key = "no" -> typed
                         [] key = "text" -> "part"
                         [] key = "end" -> "line"
           /\ endloop' = (key = "end")
    BY <1>1 DEF Poll
  <2>2. pc = "poll" /\ pc' = "event"
        /\ UNCHANGED <<list, alloc, proc, blk, utmp, hadquit, layermode, pfd, muted, deleted>>
    BY <1>1 DEF Poll
  <2>3. typed' \in {"none", "part", "line"}
    <3>1. CASE layermode \/ key = "no"
      BY <3>1, <2>1, <1>t DEF TypeOK
    <3>2. CASE ~layermode /\ key = "text"
      BY <3>2, <2>1
    <3>3. CASE ~layermode /\ key = "end"
      BY <3>3, <2>1
    <3> QED
      BY <3>1, <3>2, <3>3
  <2>4. ins' \subseteq Layer /\ hups' \subseteq Layer /\ hups' \subseteq Ended
    BY <2>1, <1>t, LayerAssumption DEF TypeOK, HungUp, Ended
  <2>5. TypeOK'
    BY <2>1, <2>2, <2>3, <2>4, <1>t DEF TypeOK
  <2>6. LoopInv'
    BY <2>1, <2>2 DEF Inv, LoopInv, LastIsCurrent, Runs
  <2>7. HupInv'
    <3>1. Ended' = Ended
      BY <2>2, SameList
    <3>2. Cardinality(hups') <= Cardinality(Ended)
      BY <2>4, <1>h, FS_Subset
    <3> QED
      BY <3>1, <3>2, <2>2 DEF HupInv
  <2> QED
    BY <2>2, <2>5, <2>6, <2>7, SameList DEF Inv, Runs
<1>2. ASSUME Output PROVE Inv'
  <2>1. PICK i \in 1..Len(pfd) :
           /\ ins' = ins \ {pfd[i]}
           /\ muted' \in {muted, muted \cup {pfd[i]}}
           /\ pc' \in {"crash", pc}
    BY <1>2 DEF Output
  <2>2. pc = "event" /\ UNCHANGED <<list, alloc, proc, blk, utmp, hadquit, layermode, typed, endloop, pfd, hups, deleted>>
    BY <1>2 DEF Output
  <2>3. pfd[i] \in Layer
    BY <1>t DEF TypeOK
  <2>4. TypeOK'
    BY <2>1, <2>2, <2>3, <1>t DEF TypeOK
  <2>5. LoopInv'
    BY <2>1, <2>2 DEF Inv, LoopInv, LastIsCurrent, Runs
  <2>6. HupInv'
    BY <2>1, <2>2, SameList DEF Inv, HupInv
  <2> QED
    BY <2>2, <2>4, <2>5, <2>6, SameList DEF Inv, Runs
<1>3. ASSUME Hup PROVE Inv'
  <2>1. PICK i \in 1..Len(pfd) : pfd[i] \in hups /\ hups' = hups \ {pfd[i]}
    BY <1>3 DEF Hup
  <2>2. pc = "event" /\ pc' = "await"
        /\ UNCHANGED <<list, alloc, proc, blk, utmp, hadquit, layermode, typed, endloop, pfd, muted, ins, deleted>>
    BY <1>3 DEF Hup
  <2>3. TypeOK'
    BY <2>1, <2>2, <1>t DEF TypeOK
  <2>4. LoopInv'
    BY <2>1, <2>2 DEF Inv, LoopInv, LastIsCurrent, Runs
  <2>5. HupInv'
    <3>1. Cardinality(hups') = Cardinality(hups) - 1
      BY <2>1, <1>h, FS_RemoveElement
    <3>2. Ended' = Ended /\ Orphans' = Orphans
      BY <2>2, SameList
    <3> QED
      BY <3>1, <3>2, <2>2, <1>h DEF Inv, HupInv
  <2> QED
    BY <2>2, <2>3, <2>4, <2>5, SameList DEF Inv, Runs
<1>4. ASSUME Await PROVE Inv'
  <2>1. PICK l \in Layer :
           /\ proc[l] = "zombie"
           /\ proc' = [proc EXCEPT ![l] = "none"]
           /\ IF l \in Chain(list)
                THEN Bury(l) /\ pc' = "event"
                ELSE UNCHANGED <<list, alloc, blk, endloop, utmp, pc>>
    BY <1>4 DEF Await
  <2>2. pc = "await" /\ UNCHANGED <<hadquit, layermode, typed, pfd, muted, ins, hups, deleted>>
    BY <1>4 DEF Await
  <2> DEFINE C == Chain(list)
  <2>3. C \subseteq Layer /\ C \subseteq alloc /\ alloc \ C \subseteq deleted /\ C \subseteq utmp /\ utmp \subseteq alloc
        /\ l \in alloc /\ \A k \in Layer : proc[k] # "none" => k \in alloc
    BY <2>1, <2>2, SoundChain DEF Inv, AllocInv, Orphans, UtmpFollows, Runs
  <2>4. proc \in [Layer -> Procs] /\ proc' \in [Layer -> Procs]
    BY <2>1, <1>t DEF TypeOK, Procs
  <2>5. Ended' = Ended \ {l} /\ l \in Ended
    BY <2>1, <2>4 DEF Ended
  <2>6. CASE l \in C
    <3>1. Bury(l) /\ pc' = "event"
      BY <2>1, <2>6
    <3>2. /\ list' = Buried(list, l) /\ alloc' = alloc \ {l} /\ blk' = blk \ {l}
          /\ endloop' = (endloop \/ l = list.lcur) /\ utmp' = utmp \ {l}
      BY <3>1 DEF Bury, Buried
    <3>s. Sound(list, C, deleted)
      BY DEF Inv
    <3> HIDE DEF C
    <3>3. PICK D : D \subseteq C \ {l} /\ (C \ {l}) \ D \subseteq deleted /\ Sound(list', D, deleted)
      BY <3>2, <3>s, <2>6, SoundBury
    <3>4. Sound(list', D, deleted') /\ Chain(list') = D
      BY <3>3, <2>2, SoundChain
    <3>5. TypeOK'
      <4>1. list' \in ListSet
        BY <3>4 DEF Sound
      <4>2. Cardinality(alloc') <= MAXLAYER
        <5>1. IsFiniteSet(alloc) /\ Cardinality(alloc) <= MAXLAYER /\ MAXLAYER \in Nat
          BY <1>t, LayersFinite, LayerAssumption, FS_Subset DEF TypeOK, N
        <5>2. Cardinality(alloc') = Cardinality(alloc) - 1 /\ Cardinality(alloc) \in Nat
          BY <5>1, <3>2, <2>3, FS_RemoveElement, FS_CardinalityType
        <5> QED
          BY <5>1, <5>2
      <4>3. endloop' \in BOOLEAN
        BY <3>2
      <4> QED
        BY <4>1, <4>2, <4>3, <3>1, <3>2, <2>2, <2>4, <1>t DEF TypeOK, ListSet, Procs
    <3>6. AllocInv'
      <4>1. D \subseteq alloc' /\ alloc' \ D \subseteq deleted'
        BY <3>2, <3>3, <2>2, <2>3
      <4>2. \A k \in Layer : proc'[k] # "none" => k \in alloc'
        BY <3>2, <2>1, <2>3, <2>4
      <4> QED
        BY <4>1, <4>2, <3>4 DEF AllocInv, Orphans
    <3>7. LoopInv'
      <4>1. SUFFICES ASSUME layermode', ~endloop'
                     PROVE  Len(pfd') > 0 /\ list'.lcur = pfd'[Len(pfd')] /\ list'.next[list'.lcur] = Null
        BY <3>1 DEF LoopInv, LastIsCurrent
      <4>2. l # list.lcur /\ ~endloop /\ layermode
        BY <4>1, <3>2, <2>2
      <4>3. Len(pfd) > 0 /\ list.lcur = pfd[Len(pfd)] /\ list.next[list.lcur] = Null
        BY <4>2, <2>2 DEF Inv, LoopInv, LastIsCurrent, Runs
      <4>4. list'.lcur = list.lcur /\ list'.next[list.lcur] = Null
        BY <4>2, <4>3, <3>2, <3>s, <2>6, SoundBury
      <4> QED
        BY <4>3, <4>4, <2>2
    <3>8. UtmpFollows'
      <4>1. D \subseteq utmp' /\ utmp' \subseteq alloc'
        BY <3>2, <3>3, <2>3
      <4> QED
        BY <4>1, <3>4 DEF UtmpFollows
    <3>9. HupInv'
      <4>1. Orphans' = {} => Orphans = {}
        BY <3>2, <3>3, <3>4, <2>3, <2>6 DEF Orphans, C
      <4>2. Cardinality(Ended') = Cardinality(Ended) - 1
        BY <2>5, <1>h, FS_RemoveElement
      <4> QED
        BY <4>1, <4>2, <3>1, <2>2, <1>h DEF Inv, HupInv
    <3> QED
      BY <3>4, <3>5, <3>6, <3>7, <3>8, <3>9 DEF Inv
  <2>7. CASE l \notin C
    <3>1. UNCHANGED <<list, alloc, blk, endloop, utmp, pc>>
      BY <2>1, <2>7
    <3>2. TypeOK'
      BY <3>1, <2>2, <2>4, <1>t DEF TypeOK, Procs
    <3>3. Sound(list, Chain(list), deleted)'
      BY <3>1, <2>2 DEF Inv
    <3>4. AllocInv'
      <4>1. \A k \in Layer : proc'[k] # "none" => k \in alloc
        BY <2>1, <2>3, <2>4
      <4> QED
        BY <4>1, <3>1, <2>2 DEF Inv, AllocInv, Orphans
    <3>5. LoopInv' /\ UtmpFollows'
      BY <3>1, <2>2 DEF Inv, LoopInv, LastIsCurrent, UtmpFollows, Runs
    <3>6. HupInv'
      <4>1. l \in Orphans'
        BY <3>1, <2>3, <2>7 DEF Orphans
      <4> QED
        BY <4>1 DEF HupInv
    <3> QED
      BY <3>2, <3>3, <3>4, <3>5, <3>6 DEF Inv
  <2> QED
    BY <2>6, <2>7
<1>5. ASSUME AwaitNone PROVE Inv'
  <2>1. /\ pc = "await" /\ pc' = "event" /\ \A l \in Layer : proc[l] = "none"
        /\ endloop' = (endloop \/ list.lcur = Null)
        /\ UNCHANGED <<list, alloc, proc, blk, utmp, hadquit, layermode, typed, pfd, muted, ins, hups, deleted>>
    BY <1>5 DEF AwaitNone
  <2>2. TypeOK'
    BY <2>1, <1>t DEF TypeOK
  <2>3. LoopInv'
    BY <2>1 DEF Inv, LoopInv, LastIsCurrent, Runs
  <2>4. HupInv'
    BY <2>1, <1>h, SameList DEF Inv, HupInv
  <2> QED
    BY <2>1, <2>2, <2>3, <2>4, SameList DEF Inv, Runs
<1>6. ASSUME RoundOver PROVE Inv'
  <2>1. pc = "event" /\ UNCHANGED <<list, alloc, proc, blk, utmp, hadquit, deleted>>
    BY <1>6 DEF RoundOver
  <2>2. CASE ~endloop
    <3>1. pc' = "poll" /\ UNCHANGED <<layermode, typed, doiovars>>
      BY <2>2, <1>6 DEF RoundOver
    <3>2. TypeOK'
      BY <3>1, <2>1, <1>t DEF TypeOK, doiovars
    <3>3. LoopInv' /\ HupInv'
      BY <3>1, <2>1, <2>2 DEF Inv, LoopInv, LastIsCurrent, Runs, HupInv, doiovars
    <3> QED
      BY <3>1, <3>2, <3>3, <2>1, SameList DEF Inv, Runs
  <2>3. CASE endloop /\ (layermode \/ typed = "none")
    <3>1. DoIO(list, FALSE)
      BY <2>3, <1>6 DEF RoundOver
    <3>2. hadquit' \in BOOLEAN /\ blk' \subseteq alloc
      BY <2>1, <1>t DEF TypeOK
    <3> DEFINE C == Chain(list)
    <3>3. Sound(list', C, deleted') /\ DoIO(list', FALSE)
      BY <3>1, <2>1 DEF Inv
    <3>4. C \subseteq alloc /\ alloc \ C \subseteq deleted /\ \A l \in Layer : proc[l] # "none" => l \in alloc
      BY DEF Inv, AllocInv, Orphans
    <3>5. alloc \subseteq Layer /\ Cardinality(alloc) <= MAXLAYER /\ proc \in [Layer -> Procs] /\ deleted \subseteq Layer
      BY <1>t DEF TypeOK, Procs
    <3>6. utmp \subseteq alloc /\ C \subseteq utmp
      BY <2>1 DEF Inv, UtmpFollows, Runs
    <3> HIDE DEF C
    <3> QED
      BY <2>1, <3>2, <3>3, <3>4, <3>5, <3>6, CommandStep
  <2>4. CASE endloop /\ ~layermode /\ typed # "none"
    <3>1. pc' = "execute" /\ UNCHANGED <<layermode, typed, doiovars>>
      BY <2>4, <1>6 DEF RoundOver
    <3>2. TypeOK'
      BY <3>1, <2>1, <1>t DEF TypeOK, doiovars
    <3>3. LoopInv' /\ HupInv'
      BY <3>1, <2>1, <2>4 DEF Inv, LoopInv, LastIsCurrent, Runs, HupInv, doiovars
    <3> QED
      BY <3>1, <3>2, <3>3, <2>1, SameList DEF Inv, Runs
  <2> QED
    BY <2>2, <2>3, <2>4
<1>7. ASSUME OnHup PROVE Inv'
  <2>1. utmp' = utmp \ Chain(list) /\ pc' = "quit" /\ hadquit' = hadquit
        /\ UNCHANGED <<list, alloc, proc, blk, layermode, typed, doiovars, deleted>>
    BY <1>7 DEF OnHup, QuitNow
  <2>2. TypeOK'
    BY <2>1, <1>t DEF TypeOK, doiovars
  <2>3. Sound(list, Chain(list), deleted)' /\ AllocInv'
    BY <2>1 DEF Inv, AllocInv, Orphans
  <2>4. LoopInv' /\ UtmpFollows' /\ HupInv'
    BY <2>1 DEF Inv, LoopInv, LastIsCurrent, UtmpFollows, HupInv, Runs
  <2> QED
    BY <2>2, <2>3, <2>4 DEF Inv
<1> QED
  BY <1>1, <1>2, <1>3, <1>4, <1>5, <1>6, <1>7 DEF Handle

\* A step of a layer's process.
LEMMA LayerKeeps ==
  ASSUME Inv, NEW l \in Layer, Leave(l) \/ Exit(l) \/ Die(l)
  PROVE  Inv'
<1>1. PICK from \in {"running", "away", "exiting"}, to \in {"away", "exiting", "zombie"} : LayerStep(l, from, to)
  BY DEF Leave, Exit, Die
<1>2. /\ proc[l] = from /\ proc' = [proc EXCEPT ![l] = to]
      /\ UNCHANGED <<list, alloc, blk, utmp, hadquit, pc, layermode, typed, doiovars, deleted>>
  BY <1>1 DEF LayerStep
<1>3. proc \in [Layer -> Procs]
  BY DEF Inv, TypeOK, Procs
<1>4. TypeOK'
  BY <1>2 DEF Inv, TypeOK, doiovars
<1>5. Sound(list, Chain(list), deleted)'
  BY <1>2 DEF Inv
<1>6. AllocInv'
  BY <1>2, <1>3 DEF Inv, AllocInv, Orphans
<1>7. LoopInv' /\ UtmpFollows'
  BY <1>2 DEF Inv, LoopInv, LastIsCurrent, UtmpFollows, Runs, doiovars
<1>8. HupInv'
  <2>1. Ended \subseteq Ended' /\ Ended' \subseteq Layer /\ hups \subseteq Layer
    BY <1>2, <1>3 DEF Ended, Inv, TypeOK
  <2>2. IsFiniteSet(Ended') /\ IsFiniteSet(hups)
    BY <2>1, LayersFinite, FS_Subset
  <2>3. Cardinality(Ended) <= Cardinality(Ended') /\ Cardinality(Ended) \in Nat /\ Cardinality(Ended') \in Nat
        /\ Cardinality(hups) \in Nat
    BY <2>1, <2>2, FS_Subset, FS_CardinalityType
  <2>4. Orphans' = Orphans /\ pc' = pc /\ hups' = hups
    BY <1>2 DEF Orphans, doiovars
  <2> QED
    BY <2>3, <2>4 DEF Inv, HupInv
<1> QED
  BY <1>4, <1>5, <1>6, <1>7, <1>8 DEF Inv

\* The invariant is kept by every step.
LEMMA InvStep == Inv /\ [Next]_vars => Inv'
<1>1. ASSUME Inv, UNCHANGED vars PROVE Inv'
  <2>1. TypeOK' /\ Sound(list, Chain(list), deleted)' /\ AllocInv'
    BY <1>1 DEF vars, Inv, TypeOK, AllocInv, Orphans
  <2>2. LoopInv' /\ UtmpFollows' /\ HupInv'
    BY <1>1 DEF vars, Inv, LoopInv, LastIsCurrent, UtmpFollows, Runs, HupInv, Orphans, Ended
  <2> QED
    BY <2>1, <2>2 DEF Inv
<1> QED
  BY <1>1, CommandKeeps, HandleKeeps, LayerKeeps DEF Next

\* The invariant implies the properties.
LEMMA InvImplies == Inv => ListSound /\ AwaitReturns
<1> SUFFICES ASSUME Inv PROVE ListSound /\ AwaitReturns
  OBVIOUS
<1>1. OneList
  BY SoundChain DEF Inv, OneList, AllocInv, N
<1>2. ListSound
  BY <1>1 DEF Inv, ListSound, OrphanWasDeleted, AllocInv, LoopInv
<1>3. AwaitReturns
  <2> SUFFICES ASSUME pc = "await", Orphans = {}, \A l \in Layer : proc[l] # "away"
               PROVE  \E l \in Chain(list) : proc[l] \in {"exiting", "zombie"}
    BY DEF AwaitReturns
  <2>1. hups \subseteq Layer /\ Ended \subseteq Layer
    BY DEF Inv, TypeOK, Ended
  <2>2. IsFiniteSet(hups) /\ IsFiniteSet(Ended)
    BY <2>1, LayersFinite, FS_Subset
  <2>3. Cardinality(hups) \in Nat /\ Cardinality(Ended) \in Nat
    BY <2>2, FS_CardinalityType
  <2>4. Cardinality(Ended) # 0
    BY <2>3 DEF Inv, HupInv
  <2>5. Ended # {}
    BY <2>4, FS_EmptySet
  <2>6. PICK l \in Ended : TRUE
    BY <2>5
  <2>7. l \in alloc /\ proc[l] \in {"exiting", "zombie"}
    BY <2>6 DEF Ended, Inv, AllocInv
  <2> QED
    BY <2>7 DEF Orphans
<1> QED
  BY <1>2, <1>3

\* The invariant holds in every behaviour of shl.
LEMMA Invariance == Spec => []Inv
  BY InvInit, InvStep, PTL DEF Spec

\* However layers are made, moved, deleted and end, the layers are one list, with l_prev backwards
\* what l_next is forwards; a layer leaves it before its end only after it was sent SIGHUP; and
\* while a layer has the terminal, the last descriptor of doio() is the current layer's.
THEOREM ListStaysSound == Spec => []ListSound
  BY Invariance, InvImplies, PTL

\* The utmp file has an entry for each layer of the list, and none for a layer whose place is free.
THEOREM UtmpIsRight == Spec => []UtmpFollows
<1>1. Inv => UtmpFollows
  BY DEF Inv
<1> QED
  BY <1>1, Invariance, PTL

\* await() waits where there is something to wait for: it is called once for each terminal that
\* hung up, and as many processes have left theirs, unless a layer was lost.
THEOREM AwaitComesBack == Spec => []AwaitReturns
  BY Invariance, InvImplies, PTL
=============================================================================
