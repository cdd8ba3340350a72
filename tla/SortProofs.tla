----------------------------- MODULE SortProofs -----------------------------
(***************************************************************************)
(* Proofs about Sort: that no line is lost or doubled on its way through   *)
(* the runs, the passes and the buffers, and that what is written is in    *)
(* order; that sort -c tells whether its operand is; that term() finds     *)
(* every temporary file, wherever a signal came; and that sort -m has      *)
(* merged the operand that is the output file before it empties it.        *)
(*                                                                         *)
(* SortInv says which files there are and where sort is with them, FlowInv *)
(* where the lines are and in which order, CheckInv how far sort -c is.    *)
(* They rest on four things: that no two temporary files have one name     *)
(* (NamesDiffer), that quicksort() and the insertion of a buffer keep what *)
(* they move (MovedSame, AdvancedRow), that counts add up (TotalApart),    *)
(* and that Joined keeps every line (JoinedCounts).                        *)
(***************************************************************************)
EXTENDS Sort, FiniteSetTheorems, NaturalsInduction, TLAPS

-----------------------------------------------------------------------------
(* Counting lines *)

Line == 1..MaxLine

At(s, l) == {k \in 1..Len(s) : s[k] = l}

\* A line is counted by a number, which is 0 when it is not there.
LEMMA CountType ==
    ASSUME NEW s \in Seq(Line), NEW l
    PROVE  /\ IsFiniteSet(At(s, l)) /\ Count(s, l) = Cardinality(At(s, l))
           /\ Count(s, l) \in Nat
           /\ Count(s, l) > 0 <=> \E k \in 1..Len(s) : s[k] = l
  <1>1. IsFiniteSet(1..Len(s))
    BY FS_Interval
  <1>2. IsFiniteSet(At(s, l))
    BY <1>1, FS_Subset DEF At
  <1>3. Count(s, l) = Cardinality(At(s, l))
    BY DEF Count, At
  <1>4. Cardinality(At(s, l)) \in Nat
    BY <1>2, FS_CardinalityType
  <1>5. Cardinality(At(s, l)) = 0 <=> At(s, l) = {}
    BY <1>2, FS_EmptySet
  <1>6. At(s, l) # {} <=> \E k \in 1..Len(s) : s[k] = l
    BY DEF At
  <1> QED
    BY <1>2, <1>3, <1>4, <1>5, <1>6

\* No line is in the empty sequence.
LEMMA CountEmpty == \A l : Count(<<>>, l) = 0
  <1> TAKE l
  <1>1. {k \in 1..Len(<<>>) : <<>>[k] = l} = {}
    OBVIOUS
  <1> QED
    BY <1>1, FS_EmptySet DEF Count

\* A sequence of one line.
LEMMA CountOne ==
    ASSUME NEW x \in Line, NEW l
    PROVE  Count(<<x>>, l) = IF x = l THEN 1 ELSE 0
  <1>1. CASE x = l
    <2>1. {k \in 1..Len(<<x>>) : <<x>>[k] = l} = {1}
      BY <1>1
    <2> QED
      BY <1>1, <2>1, FS_Singleton DEF Count
  <1>2. CASE x # l
    <2>1. {k \in 1..Len(<<x>>) : <<x>>[k] = l} = {}
      BY <1>2
    <2> QED
      BY <1>2, <2>1, FS_EmptySet DEF Count
  <1> QED
    BY <1>1, <1>2

\* Two sequences, one after the other.
LEMMA CountJoin ==
    ASSUME NEW s \in Seq(Line), NEW t \in Seq(Line), NEW l
    PROVE  Count(s \o t, l) = Count(s, l) + Count(t, l)
  <1> DEFINE moved == {k + Len(s) : k \in At(t, l)}
             f == [k \in At(t, l) |-> k + Len(s)]
  <1>1. Len(s) \in Nat /\ Len(t) \in Nat /\ s \o t \in Seq(Line) /\ Len(s \o t) = Len(s) + Len(t)
    OBVIOUS
  <1>2. At(t, l) \subseteq Nat
    BY <1>1 DEF At
  <1>3. At(s \o t, l) = At(s, l) \cup moved
    <2>1. ASSUME NEW k \in At(s \o t, l) PROVE k \in At(s, l) \cup moved
      <3>1. CASE k <= Len(s)
        BY <1>1, <2>1, <3>1 DEF At
      <3>2. CASE k > Len(s)
        <4>1. k - Len(s) \in At(t, l)
          BY <1>1, <2>1, <3>2 DEF At
        <4>2. k = (k - Len(s)) + Len(s)
          BY <1>1, <2>1 DEF At
        <4> QED
          BY <4>1, <4>2
      <3> QED
        BY <1>1, <2>1, <3>1, <3>2 DEF At
    <2>2. ASSUME NEW k \in At(s, l) PROVE k \in At(s \o t, l)
      BY <1>1, <2>2 DEF At
    <2>3. ASSUME NEW k \in At(t, l) PROVE k + Len(s) \in At(s \o t, l)
      <3>1. k \in 1..Len(t) /\ t[k] = l
        BY <2>3 DEF At
      <3>2. (s \o t)[k + Len(s)] = t[k]
        BY <1>1, <3>1
      <3> QED
        BY <1>1, <3>1, <3>2 DEF At
    <2> QED
      BY <2>1, <2>2, <2>3
  <1>4. At(s, l) \cap moved = {}
    BY <1>1, <1>2 DEF At
  <1>5. f \in Bijection(At(t, l), moved)
    <2>1. f \in [At(t, l) -> moved]
      OBVIOUS
    <2>2. \A i, j \in At(t, l) : f[i] = f[j] => i = j
      BY <1>1, <1>2
    <2>3. \A m \in moved : \E k \in At(t, l) : f[k] = m
      OBVIOUS
    <2> HIDE DEF f, moved
    <2> QED
      BY <2>1, <2>2, <2>3, Zenon DEF Bijection, Injection, Surjection, IsInjective
  <1> HIDE DEF moved, f
  <1>6. IsFiniteSet(At(t, l)) /\ IsFiniteSet(At(s, l))
    BY CountType
  <1>7. ExistsBijection(At(t, l), moved)
    BY <1>5 DEF ExistsBijection
  <1>8. IsFiniteSet(moved) /\ Cardinality(moved) = Cardinality(At(t, l))
    BY <1>6, <1>7, FS_Bijection
  <1>9. Cardinality(At(s \o t, l)) = Cardinality(At(s, l)) + Cardinality(moved) - Cardinality({})
    BY <1>3, <1>4, <1>6, <1>8, FS_Union
  <1>10. Cardinality({}) = 0
    BY FS_EmptySet
  <1>11. /\ Count(s \o t, l) = Cardinality(At(s \o t, l)) /\ Count(s, l) = Cardinality(At(s, l))
         /\ Count(t, l) = Cardinality(At(t, l)) /\ Count(s, l) \in Nat /\ Count(t, l) \in Nat
    BY <1>1, CountType
  <1> QED
    BY <1>8, <1>9, <1>10, <1>11

\* A sequence that is cut in two.
LEMMA CountCut ==
    ASSUME NEW s \in Seq(Line), NEW n \in 0..Len(s), NEW l
    PROVE  /\ SubSeq(s, 1, n) \in Seq(Line) /\ SubSeq(s, n + 1, Len(s)) \in Seq(Line)
           /\ Count(s, l) = Count(SubSeq(s, 1, n), l) + Count(SubSeq(s, n + 1, Len(s)), l)
  <1>1. SubSeq(s, 1, n) \in Seq(Line) /\ SubSeq(s, n + 1, Len(s)) \in Seq(Line)
    OBVIOUS
  <1> DEFINE t == SubSeq(s, 1, n)
             r == SubSeq(s, n + 1, Len(s))
  <1>2. t \o r = s
    <2>1. n \in Nat /\ Len(s) \in Nat /\ n <= Len(s)
      OBVIOUS
    <2>2. Len(t) = n /\ Len(r) = Len(s) - n
      BY <2>1
    <2>3. \A k \in 1..n : t[k] = s[k]
      BY <2>1
    <2>4. \A k \in 1..Len(s) - n : r[k] = s[n + k]
      BY <2>1
    <2>5. t \in Seq(Line) /\ r \in Seq(Line)
      BY <1>1
    <2> HIDE DEF t, r
    <2>6. t \o r \in Seq(Line) /\ Len(t \o r) = Len(s)
      BY <2>1, <2>2, <2>5
    <2>7. \A k \in 1..Len(s) : (t \o r)[k] = s[k]
      <3> TAKE k \in 1..Len(s)
      <3>1. CASE k <= n
        BY <2>1, <2>2, <2>3, <2>5, <3>1
      <3>2. CASE k > n
        <4>1. (t \o r)[k] = r[k - n]
          BY <2>1, <2>2, <2>5, <3>2
        <4>2. k - n \in 1..Len(s) - n /\ n + (k - n) = k
          BY <2>1, <3>2
        <4> QED
          BY <2>4, <4>1, <4>2
      <3>3. k <= n \/ k > n
        BY <2>1
      <3> QED
        BY <3>1, <3>2, <3>3, Zenon
    <2> DEFINE j == t \o r
    <2>8. j \in Seq(Line) /\ Len(j) = Len(s) /\ \A k \in 1..Len(s) : j[k] = s[k]
      BY <2>6, <2>7
    <2> HIDE DEF j
    <2>9. j = s
      BY <2>8
    <2> QED
      BY <2>9 DEF j
  <1>3. Count(t \o r, l) = Count(t, l) + Count(r, l)
    BY <1>1, CountJoin
  <1> QED
    BY <1>1, <1>2, <1>3

\* A sequence without its first line.
LEMMA CountTail ==
    ASSUME NEW s \in Seq(Line), s # <<>>, NEW l
    PROVE  /\ Head(s) \in Line /\ Tail(s) \in Seq(Line)
           /\ Count(s, l) = (IF Head(s) = l THEN 1 ELSE 0) + Count(Tail(s), l)
  <1>1. Head(s) \in Line /\ Tail(s) \in Seq(Line) /\ <<Head(s)>> \in Seq(Line)
    OBVIOUS
  <1>2. s = <<Head(s)>> \o Tail(s)
    OBVIOUS
  <1>3. Count(<<Head(s)>> \o Tail(s), l) = Count(<<Head(s)>>, l) + Count(Tail(s), l)
    BY <1>1, CountJoin
  <1>4. Count(<<Head(s)>>, l) = IF Head(s) = l THEN 1 ELSE 0
    BY <1>1, CountOne
  <1> QED
    BY <1>1, <1>2, <1>3, <1>4

-----------------------------------------------------------------------------
(* Counting in several sequences *)

\* f gives sequences of lines, for finitely many places.
Many(f) == IsFiniteSet(DOMAIN f) /\ \A i \in DOMAIN f : f[i] \in Seq(Line)

\* An occurrence is a place in one of the sequences.
LEMMA Occurs ==
    ASSUME NEW f, NEW l, NEW o
    PROVE  o \in Occurrences(f, l) <=> \E i \in DOMAIN f : \E k \in At(f[i], l) : o = <<i, k>>
  BY DEF Occurrences, At

\* A line is counted by a number, which is 0 when it is nowhere.
LEMMA TotalType ==
    ASSUME NEW f, Many(f), NEW l
    PROVE  /\ IsFiniteSet(Occurrences(f, l)) /\ Total(f, l) \in Nat
           /\ Total(f, l) > 0 <=> \E i \in DOMAIN f : Count(f[i], l) > 0
  <1> DEFINE all == {1..Len(f[i]) : i \in DOMAIN f}
             one(i) == {i} \X At(f[i], l)
             parts == {one(i) : i \in DOMAIN f}
  <1>1. \A i \in DOMAIN f : IsFiniteSet(one(i))
    <2> TAKE i \in DOMAIN f
    <2>1. IsFiniteSet(At(f[i], l))
      BY CountType DEF Many
    <2>2. IsFiniteSet({i})
      BY FS_Singleton
    <2> QED
      BY <2>1, <2>2, FS_Product
  <1>2. IsFiniteSet(parts)
    <2> DEFINE g == [i \in DOMAIN f |-> one(i)]
    <2>1. g \in Surjection(DOMAIN f, parts)
      BY DEF Surjection
    <2> QED
      BY <2>1, FS_Surjection DEF Many
  <1>3. IsFiniteSet(UNION parts)
    BY <1>1, <1>2, FS_UNION
  <1>4. Occurrences(f, l) = UNION parts
    BY DEF Occurrences, At
  <1> HIDE DEF parts
  <1>5. IsFiniteSet(Occurrences(f, l))
    BY <1>3, <1>4
  <1>6. Total(f, l) \in Nat /\ (Total(f, l) = 0 <=> Occurrences(f, l) = {})
    BY <1>5, FS_CardinalityType, FS_EmptySet DEF Total
  <1>7. Occurrences(f, l) # {} <=> \E i \in DOMAIN f : At(f[i], l) # {}
    <2>1. ASSUME NEW o \in Occurrences(f, l) PROVE \E i \in DOMAIN f : At(f[i], l) # {}
      <3>1. PICK i \in DOMAIN f : \E k \in At(f[i], l) : o = <<i, k>>
        BY Occurs
      <3> QED
        BY <3>1
    <2>2. ASSUME NEW i \in DOMAIN f, NEW k \in At(f[i], l) PROVE <<i, k>> \in Occurrences(f, l)
      BY Occurs
    <2> QED
      BY <2>1, <2>2
  <1>8. \A i \in DOMAIN f : At(f[i], l) # {} <=> Count(f[i], l) > 0
    BY CountType DEF Many, At
  <1> QED
    BY <1>5, <1>6, <1>7, <1>8

\* Two lots of sequences are counted together.
LEMMA TotalApart ==
    ASSUME NEW f, NEW g, NEW h, Many(f), Many(g), NEW l,
           DOMAIN h = DOMAIN f \cup DOMAIN g, DOMAIN f \cap DOMAIN g = {},
           \A i \in DOMAIN f : h[i] = f[i], \A i \in DOMAIN g : h[i] = g[i]
    PROVE  Many(h) /\ Total(h, l) = Total(f, l) + Total(g, l)
  <1>1. Many(h)
    BY FS_Union DEF Many
  <1>2. Occurrences(h, l) = Occurrences(f, l) \cup Occurrences(g, l)
    BY DEF Occurrences
  <1>3. Occurrences(f, l) \cap Occurrences(g, l) = {}
    <2> SUFFICES ASSUME NEW o, o \in Occurrences(f, l), o \in Occurrences(g, l) PROVE FALSE
      OBVIOUS
    <2>1. PICK i \in DOMAIN f : \E k \in At(f[i], l) : o = <<i, k>>
      BY Occurs
    <2>2. PICK j \in DOMAIN g : \E k \in At(g[j], l) : o = <<j, k>>
      BY Occurs
    <2> QED
      BY <2>1, <2>2
  <1>4. IsFiniteSet(Occurrences(f, l)) /\ IsFiniteSet(Occurrences(g, l))
    BY TotalType
  <1>5. Total(h, l) = Total(f, l) + Total(g, l) - Cardinality({})
    BY <1>2, <1>3, <1>4, FS_Union DEF Total
  <1> QED
    BY <1>1, <1>5, FS_EmptySet, TotalType

\* None at all.
LEMMA TotalNone ==
    ASSUME NEW f, DOMAIN f = {}, NEW l PROVE Many(f) /\ Total(f, l) = 0
  <1>1. Occurrences(f, l) = {}
    BY DEF Occurrences
  <1> QED
    BY <1>1, FS_EmptySet DEF Many, Total

\* A single one.
LEMMA TotalSingle ==
    ASSUME NEW f, NEW x, DOMAIN f = {x}, f[x] \in Seq(Line), NEW l
    PROVE  Many(f) /\ Total(f, l) = Count(f[x], l)
  <1> DEFINE p == [k \in At(f[x], l) |-> <<x, k>>]
  <1>1. Many(f)
    BY FS_Singleton DEF Many
  <1>2. p \in Bijection(At(f[x], l), Occurrences(f, l))
    <2>1. p \in [At(f[x], l) -> Occurrences(f, l)]
      BY Occurs
    <2>2. \A i, j \in At(f[x], l) : p[i] = p[j] => i = j
      OBVIOUS
    <2>3. \A o \in Occurrences(f, l) : \E k \in At(f[x], l) : p[k] = o
      BY Occurs
    <2> HIDE DEF p
    <2> QED
      BY <2>1, <2>2, <2>3, Zenon DEF Bijection, Injection, Surjection, IsInjective
  <1>3. ExistsBijection(At(f[x], l), Occurrences(f, l))
    BY <1>2 DEF ExistsBijection
  <1> QED
    BY <1>1, <1>3, CountType, FS_Bijection DEF Total

\* One of them, and the others.
Others(f, x) == [i \in DOMAIN f \ {x} |-> f[i]]

\* What is counted in one of them and in the others.
LEMMA TotalAt ==
    ASSUME NEW f, Many(f), NEW x \in DOMAIN f, NEW l
    PROVE  Many(Others(f, x)) /\ Total(f, l) = Total(Others(f, x), l) + Count(f[x], l)
  <1> DEFINE g == [i \in {x} |-> f[i]]
  <1>1. DOMAIN g = {x} /\ g[x] = f[x] /\ f[x] \in Seq(Line)
    BY DEF Many
  <1>2. Many(g) /\ Total(g, l) = Count(f[x], l)
    <2> HIDE DEF g
    <2> QED
      BY <1>1, TotalSingle
  <1>3. Many(Others(f, x))
    BY FS_Subset DEF Many, Others
  <1>4. /\ DOMAIN f = DOMAIN Others(f, x) \cup DOMAIN g /\ DOMAIN Others(f, x) \cap DOMAIN g = {}
        /\ \A i \in DOMAIN Others(f, x) : f[i] = Others(f, x)[i]
        /\ \A i \in DOMAIN g : f[i] = g[i]
    BY DEF Others
  <1> DEFINE o == Others(f, x)
  <1> HIDE DEF g, o
  <1>5. Total(f, l) = Total(o, l) + Total(g, l)
    <2>1. Many(o)
      BY <1>3 DEF o
    <2>2. /\ DOMAIN f = DOMAIN o \cup DOMAIN g /\ DOMAIN o \cap DOMAIN g = {}
          /\ \A i \in DOMAIN o : f[i] = o[i]
          /\ \A i \in DOMAIN g : f[i] = g[i]
      BY <1>4 DEF o
    <2> QED
      BY <1>2, <2>1, <2>2, TotalApart
  <1> QED
    BY <1>2, <1>3, <1>5 DEF o

\* The same sequences in other places.
LEMMA TotalMoved ==
    ASSUME NEW f, Many(f), NEW g, NEW p \in Bijection(DOMAIN g, DOMAIN f), NEW l,
           \A i \in DOMAIN g : g[i] = f[p[i]]
    PROVE  Many(g) /\ Total(g, l) = Total(f, l)
  <1>1. /\ p \in [DOMAIN g -> DOMAIN f] /\ \A i, j \in DOMAIN g : p[i] = p[j] => i = j
        /\ \A i \in DOMAIN f : \E j \in DOMAIN g : p[j] = i
    BY DEF Bijection, Injection, Surjection, IsInjective
  <1>2. p \in Injection(DOMAIN g, DOMAIN f)
    BY DEF Bijection
  <1>3. IsFiniteSet(DOMAIN g)
    BY <1>2, FS_Injection DEF Many
  <1>4. Many(g)
    BY <1>1, <1>3 DEF Many
  <1> DEFINE q == [o \in Occurrences(g, l) |-> <<p[o[1]], o[2]>>]
  <1>5. q \in Bijection(Occurrences(g, l), Occurrences(f, l))
    <2>1. \A o \in Occurrences(g, l) : q[o] \in Occurrences(f, l)
      <3> TAKE o \in Occurrences(g, l)
      <3>1. PICK i \in DOMAIN g : \E k \in At(g[i], l) : o = <<i, k>>
        BY Occurs
      <3>2. PICK k \in At(g[i], l) : o = <<i, k>>
        BY <3>1
      <3>3. k \in At(f[p[i]], l) /\ p[i] \in DOMAIN f /\ q[o] = <<p[i], k>>
        BY <1>1, <3>2
      <3> QED
        BY <3>3, Occurs
    <2>2. \A o, r \in Occurrences(g, l) : q[o] = q[r] => o = r
      <3> TAKE o, r \in Occurrences(g, l)
      <3>1. PICK i \in DOMAIN g : \E k \in At(g[i], l) : o = <<i, k>>
        BY Occurs
      <3>2. PICK j \in DOMAIN g : \E k \in At(g[j], l) : r = <<j, k>>
        BY Occurs
      <3> QED
        BY <1>1, <3>1, <3>2
    <2>3. \A o \in Occurrences(f, l) : \E r \in Occurrences(g, l) : q[r] = o
      <3> TAKE o \in Occurrences(f, l)
      <3>1. PICK i \in DOMAIN f : \E k \in At(f[i], l) : o = <<i, k>>
        BY Occurs
      <3>2. PICK k \in At(f[i], l) : o = <<i, k>>
        BY <3>1
      <3>3. PICK j \in DOMAIN g : p[j] = i
        BY <1>1
      <3>4. <<j, k>> \in Occurrences(g, l)
        BY <3>2, <3>3, Occurs
      <3>5. q[<<j, k>>] = o
        BY <3>2, <3>3, <3>4
      <3> QED
        BY <3>4, <3>5
    <2>4. q \in [Occurrences(g, l) -> Occurrences(f, l)]
      BY <2>1
    <2> HIDE DEF q
    <2> QED
      BY <2>2, <2>3, <2>4, Zenon DEF Bijection, Injection, Surjection, IsInjective
  <1>6. ExistsBijection(Occurrences(g, l), Occurrences(f, l))
    BY <1>5 DEF ExistsBijection
  <1>7. IsFiniteSet(Occurrences(g, l))
    BY <1>4, TotalType
  <1> QED
    BY <1>4, <1>6, <1>7, FS_Bijection DEF Total

\* Without those that are empty.
LEMMA TotalFull ==
    ASSUME NEW f, Many(f), NEW g, NEW l,
           g = [i \in {j \in DOMAIN f : f[j] # <<>>} |-> f[i]]
    PROVE  Many(g) /\ Total(g, l) = Total(f, l)
  <1>1. Many(g)
    BY FS_Subset DEF Many
  <1>2. \A i \in DOMAIN f : f[i] = <<>> => At(f[i], l) = {}
    BY DEF At
  <1>3. DOMAIN g \subseteq DOMAIN f /\ \A i \in DOMAIN g : g[i] = f[i]
    OBVIOUS
  <1>4. \A i \in DOMAIN f : At(f[i], l) # {} => i \in DOMAIN g
    BY <1>2
  <1>5. ASSUME NEW o \in Occurrences(g, l) PROVE o \in Occurrences(f, l)
    <2>1. PICK i \in DOMAIN g : \E k \in At(g[i], l) : o = <<i, k>>
      BY Occurs
    <2> QED
      BY <1>3, <2>1, Occurs
  <1>6. ASSUME NEW o \in Occurrences(f, l) PROVE o \in Occurrences(g, l)
    <2>1. PICK i \in DOMAIN f : \E k \in At(f[i], l) : o = <<i, k>>
      BY Occurs
    <2>2. i \in DOMAIN g /\ \E k \in At(g[i], l) : o = <<i, k>>
      BY <1>3, <1>4, <2>1
    <2> QED
      BY <2>2, Occurs
  <1>7. Occurrences(g, l) = Occurrences(f, l)
    BY <1>5, <1>6
  <1> QED
    BY <1>1, <1>7 DEF Total

-----------------------------------------------------------------------------
(* What is defined by recursion *)

\* The natural numbers are well-ordered: what induction needs.
LEMMA LeastNat ==
    ASSUME NEW S, S \subseteq Nat, S # {}
    PROVE  \E m \in S : \A n \in S : m <= n
  <1> DEFINE R == {ss \in Nat \X Nat : ss[1] < ss[2]}
  <1>1. IsWellFoundedOn(R, Nat)
    BY NatLessThanWellFounded DEF OpToRel
  <1>2. \E x \in S : \A y \in S : ~ (<<y, x>> \in R)
    <2> HIDE DEF R
    <2> QED
      BY <1>1, WFMin
  <1>3. PICK x \in S : \A y \in S : ~ (<<y, x>> \in R)
    BY <1>2
  <1>4. \A y \in S : <<y, x>> \in Nat \X Nat
    OBVIOUS
  <1>5. \A y \in S : ~(y < x)
    BY <1>3, <1>4
  <1> QED
    BY <1>5

\* g joins the first m sequences of s.
IsJoin(g, s, m) == g = [n \in 0..m |-> IF n = 0 THEN <<>> ELSE g[n - 1] \o s[n]]

\* There is such a function.
LEMMA JoinExists ==
    ASSUME NEW s, NEW M \in Nat
    PROVE  \E g : IsJoin(g, s, M)
  <1> DEFINE S == {n \in Nat : ~ \E g : IsJoin(g, s, n)}
  <1>1. SUFFICES ASSUME S # {} PROVE FALSE
    OBVIOUS
  <1>2. PICK m \in S : \A n \in S : m <= n
    <2>1. S \subseteq Nat
      OBVIOUS
    <2> HIDE DEF S
    <2> QED
      BY <1>1, <2>1, LeastNat
  <1>3. m # 0
    <2>1. IsJoin([n \in 0..0 |-> <<>>], s, 0)
      BY DEF IsJoin
    <2> QED
      BY <2>1
  <1>4. m - 1 \in Nat /\ m - 1 \notin S
    BY <1>2, <1>3
  <1>5. PICK g : IsJoin(g, s, m - 1)
    BY <1>4
  <1> DEFINE h == [n \in 0..m |-> IF n = m THEN g[m - 1] \o s[m] ELSE g[n]]
  <1>6. DOMAIN g = 0..m - 1
    BY <1>5 DEF IsJoin
  <1>7. \A n \in 0..m : h[n] = IF n = 0 THEN <<>> ELSE h[n - 1] \o s[n]
    <2> TAKE n \in 0..m
    <2>1. CASE n = m
      <3>1. h[n] = g[m - 1] \o s[m] /\ h[n - 1] = g[m - 1]
        BY <1>3, <1>4, <2>1
      <3> QED
        BY <1>3, <2>1, <3>1
    <2>2. CASE n # m /\ n # 0
      <3>1. n \in 0..m - 1 /\ n - 1 \in 0..m /\ n - 1 # m
        BY <2>2
      <3>2. h[n] = g[n] /\ h[n - 1] = g[n - 1]
        BY <2>2, <3>1
      <3>3. g[n] = g[n - 1] \o s[n]
        BY <1>5, <2>2, <3>1 DEF IsJoin
      <3> QED
        BY <2>2, <3>2, <3>3
    <2>3. CASE n # m /\ n = 0
      <3>1. h[n] = g[n] /\ n \in 0..m - 1
        BY <1>4, <2>3
      <3>2. g[n] = <<>>
        BY <1>5, <2>3, <3>1 DEF IsJoin
      <3> QED
        BY <2>3, <3>1, <3>2
    <2> QED
      BY <2>1, <2>2, <2>3
  <1>8. h = [n \in 0..m |-> h[n]]
    OBVIOUS
  <1> HIDE DEF h
  <1>9. IsJoin(h, s, m)
    BY <1>7, <1>8 DEF IsJoin
  <1> QED
    BY <1>9

\* The operands one after the other have all of their lines.
LEMMA JoinedCounts ==
    ASSUME NEW s \in Seq(Seq(Line))
    PROVE  Joined(s) \in Seq(Line) /\ \A l : Count(Joined(s), l) = Total(s, l)
  <1> DEFINE g == CHOOSE g : IsJoin(g, s, Len(s))
             first(n) == [i \in 1..n |-> s[i]]
             Right(n) == g[n] \in Seq(Line) /\ \A l : Count(g[n], l) = Total(first(n), l)
  <1>1. Len(s) \in Nat
    OBVIOUS
  <1>2. IsJoin(g, s, Len(s))
    BY <1>1, JoinExists
  <1>3. Joined(s) = g[Len(s)]
    BY DEF Joined, IsJoin
  <1> HIDE DEF g
  <1>4. g[0] = <<>> /\ \A n \in 1..Len(s) : g[n] = g[n - 1] \o s[n]
    <2> DEFINE body(n) == IF n = 0 THEN <<>> ELSE g[n - 1] \o s[n]
    <2>1. g = [n \in 0..Len(s) |-> body(n)]
      BY <1>2 DEF IsJoin
    <2>2. \A n \in 0..Len(s) : g[n] = body(n)
      <3> HIDE DEF body
      <3> QED
        BY <2>1
    <2>3. 0 \in 0..Len(s) /\ \A n \in 1..Len(s) : n \in 0..Len(s) /\ n # 0
      BY <1>1
    <2>4. body(0) = <<>>
      OBVIOUS
    <2>5. \A n \in 1..Len(s) : body(n) = g[n - 1] \o s[n]
      BY <2>3
    <2> HIDE DEF body
    <2> QED
      BY <2>2, <2>3, <2>4, <2>5
  <1>5. Right(0)
    <2>1. g[0] \in Seq(Line)
      BY <1>4
    <2>2. DOMAIN first(0) = {}
      OBVIOUS
    <2> HIDE DEF first
    <2>3. \A l : Total(first(0), l) = 0
      BY <2>2, TotalNone
    <2> QED
      BY <1>4, <2>1, <2>3, CountEmpty
  <1>6. ASSUME NEW n \in 1..Len(s), Right(n - 1) PROVE Right(n)
    <2>1. g[n - 1] \in Seq(Line) /\ s[n] \in Seq(Line) /\ g[n] = g[n - 1] \o s[n]
      <3>1. g[n - 1] \in Seq(Line)
        BY <1>6
      <3>2. s[n] \in Seq(Line)
        OBVIOUS
      <3>3. g[n] = g[n - 1] \o s[n]
        BY <1>4
      <3> QED
        BY <3>1, <3>2, <3>3
    <2>2. g[n] \in Seq(Line)
      BY <2>1
    <2>3. ASSUME NEW l PROVE Count(g[n], l) = Total(first(n), l)
      <3>1. Count(g[n], l) = Count(g[n - 1], l) + Count(s[n], l)
        BY <2>1, CountJoin
      <3> DEFINE f == first(n)
      <3>2. f = [i \in 1..n |-> s[i]]
        OBVIOUS
      <3>3. Many(f)
        <4>1. IsFiniteSet(1..n)
          BY FS_Interval
        <4>2. \A i \in 1..n : f[i] \in Seq(Line)
          OBVIOUS
        <4> QED
          BY <4>1, <4>2 DEF Many
      <3>4. n \in DOMAIN f /\ f[n] = s[n]
        OBVIOUS
      <3>5. Others(f, n) = first(n - 1)
        <4>1. (1..n) \ {n} = 1..n - 1
          OBVIOUS
        <4>2. \A i \in 1..n - 1 : f[i] = s[i]
          OBVIOUS
        <4>3. DOMAIN f = 1..n
          OBVIOUS
        <4> HIDE DEF f
        <4> QED
          BY <4>1, <4>2, <4>3 DEF Others
      <3> HIDE DEF f
      <3>6. Total(f, l) = Total(Others(f, n), l) + Count(f[n], l)
        BY <3>3, <3>4, TotalAt
      <3>7. Total(first(n - 1), l) = Count(g[n - 1], l)
        BY <1>6
      <3> HIDE DEF first
      <3> QED
        BY <3>1, <3>4, <3>5, <3>6, <3>7 DEF f
    <2> QED
      BY <2>2, <2>3
  <1>7. Right(Len(s))
    <2> DEFINE S == {n \in Nat : n <= Len(s) /\ ~Right(n)}
    <2> HIDE DEF Right
    <2>1. SUFFICES ASSUME S # {} PROVE FALSE
      BY <1>1
    <2>2. PICK m \in S : \A n \in S : m <= n
      <3>1. S \subseteq Nat
        OBVIOUS
      <3> HIDE DEF S
      <3> QED
        BY <2>1, <3>1, LeastNat
    <2>3. m # 0
      BY <1>5, <2>2
    <2>4. m - 1 \in Nat /\ m - 1 \notin S /\ m - 1 <= Len(s) /\ m \in 1..Len(s)
      BY <1>1, <2>2, <2>3
    <2>5. Right(m - 1)
      BY <2>4
    <2>6. Right(m)
      BY <1>6, <2>4, <2>5
    <2> QED
      BY <2>2, <2>6
  <1>8. first(Len(s)) = s
    OBVIOUS
  <1> HIDE DEF first
  <1> QED
    BY <1>3, <1>7, <1>8

-----------------------------------------------------------------------------
(* The names of temporary files *)

\* What setfil() makes of i, if f gives the names of lesser numbers.
Named(f, i) ==
    IF i < Letters * Letters THEN <<i \div Letters, i % Letters>>
    ELSE LET high == f[i \div Letters]
         IN <<high[1], high[2], i % Letters>> \o SubSeq(high, 3, Len(high))

\* f gives the names of the numbers up to n.
Names(f, n) == f = [i \in 0..n |-> Named(f, i)]

\* The numbers that are made into names, high digits first.
LEMMA Digits ==
    ASSUME NEW i \in Nat
    PROVE  /\ i \div Letters \in Nat /\ i % Letters \in 0..Letters - 1
           /\ i = (Letters * (i \div Letters)) + (i % Letters)
           /\ i >= Letters * Letters => i \div Letters < i /\ i \div Letters \in 0..i - 1
  <1>1. PICK L \in Nat : L = Letters /\ L >= 2
    BY SortAssumption
  <1>2. i \div L \in Nat /\ i % L \in 0..L - 1 /\ i = (L * (i \div L)) + (i % L)
    BY <1>1
  <1>3. i >= L * L => i > 0
    BY <1>1
  <1>4. i > 0 => i \div L < i
    BY <1>1
  <1> QED
    BY <1>1, <1>2, <1>3, <1>4

\* There are such names.
LEMMA NamesExist ==
    ASSUME NEW M \in Nat PROVE \E f : Names(f, M)
  <1> DEFINE S == {n \in Nat : ~ \E f : Names(f, n)}
  <1>1. SUFFICES ASSUME S # {} PROVE FALSE
    OBVIOUS
  <1>2. PICK m \in S : \A n \in S : m <= n
    <2>1. S \subseteq Nat
      OBVIOUS
    <2> HIDE DEF S
    <2> QED
      BY <1>1, <2>1, LeastNat
  <1>3. m \in Nat /\ ~ \E f : Names(f, m)
    OBVIOUS
  <1>4. \E f : f = [i \in 0..m - 1 |-> Named(f, i)]
    <2>1. CASE m = 0
      <3> DEFINE f == [i \in 0..m - 1 |-> 0]
      <3>1. 0..m - 1 = {}
        BY <2>1
      <3>2. f = [i \in 0..m - 1 |-> Named(f, i)]
        BY <3>1
      <3> QED
        BY <3>2
    <2>2. CASE m # 0
      <3>1. m - 1 \in Nat /\ m - 1 \notin S
        BY <1>2, <1>3, <2>2
      <3>2. \E f : Names(f, m - 1)
        BY <3>1
      <3> QED
        BY <3>2 DEF Names
    <2> QED
      BY <2>1, <2>2
  <1>5. PICK f : f = [i \in 0..m - 1 |-> Named(f, i)]
    BY <1>4
  <1> DEFINE h == [i \in 0..m |-> IF i = m THEN Named(f, m) ELSE f[i]]
  <1>6. \A i \in 0..m : h[i] = Named(f, i)
    <2> TAKE i \in 0..m
    <2>1. CASE i = m
      BY <2>1
    <2>2. CASE i # m
      <3>1. i \in 0..m - 1 /\ h[i] = f[i]
        BY <1>3, <2>2
      <3> DEFINE v(k) == Named(f, k)
      <3>2. f = [k \in 0..m - 1 |-> v(k)]
        BY <1>5
      <3> HIDE DEF v
      <3>3. f[i] = v(i)
        BY <3>1, <3>2
      <3> QED
        BY <3>1, <3>3 DEF v
    <2> QED
      BY <2>1, <2>2
  <1>7. \A i \in 0..m : Named(h, i) = Named(f, i)
    <2> TAKE i \in 0..m
    <2>1. CASE i < Letters * Letters
      BY <2>1 DEF Named
    <2>2. CASE ~(i < Letters * Letters)
      <3>1. i \in Nat /\ i >= Letters * Letters
        BY <1>3, <2>2, SortAssumption
      <3>2. i \div Letters \in 0..i - 1
        BY <3>1, Digits
      <3>3. i \div Letters \in 0..m /\ i \div Letters # m
        BY <1>3, <3>1, <3>2
      <3>4. h[i \div Letters] = f[i \div Letters]
        BY <3>3
      <3> HIDE DEF h
      <3> QED
        BY <3>4 DEF Named
    <2> QED
      BY <2>1, <2>2
  <1>8. h = [i \in 0..m |-> h[i]]
    OBVIOUS
  <1> HIDE DEF h
  <1>9. h = [i \in 0..m |-> Named(h, i)]
    BY <1>6, <1>7, <1>8
  <1> QED
    BY <1>3, <1>9 DEF Names

\* Wherever they end, they are the same.
LEMMA NamesAgree ==
    ASSUME NEW f, NEW g, NEW m \in Nat, NEW n \in Nat, Names(f, m), Names(g, n),
           NEW k \in Nat, k <= m, k <= n
    PROVE  f[k] = g[k]
  <1> DEFINE S == {i \in Nat : i <= m /\ i <= n /\ f[i] # g[i]}
  <1>1. SUFFICES ASSUME S # {} PROVE FALSE
    OBVIOUS
  <1>2. PICK i \in S : \A j \in S : i <= j
    <2>1. S \subseteq Nat
      OBVIOUS
    <2> HIDE DEF S
    <2> QED
      BY <1>1, <2>1, LeastNat
  <1>3. f[i] = Named(f, i) /\ g[i] = Named(g, i)
    <2> DEFINE v(j) == Named(f, j)
               w(j) == Named(g, j)
    <2>1. f = [j \in 0..m |-> v(j)] /\ g = [j \in 0..n |-> w(j)] /\ i \in 0..m /\ i \in 0..n
      BY DEF Names
    <2> HIDE DEF v, w
    <2>2. f[i] = v(i) /\ g[i] = w(i)
      BY <2>1
    <2> QED
      BY <2>2 DEF v, w
  <1>4. i \in Nat /\ i <= m /\ i <= n /\ f[i] # g[i]
    OBVIOUS
  <1>5. Named(f, i) = Named(g, i)
    <2>1. CASE i < Letters * Letters
      BY <2>1 DEF Named
    <2>2. CASE ~(i < Letters * Letters)
      <3>1. i \in Nat /\ i >= Letters * Letters
        BY <2>2, SortAssumption
      <3>2. i \div Letters \in Nat /\ i \div Letters < i
        BY <3>1, Digits
      <3>3. f[i \div Letters] = g[i \div Letters]
        BY <1>2, <1>4, <3>2
      <3> QED
        BY <3>3 DEF Named
    <2> QED
      BY <2>1, <2>2
  <1> QED
    BY <1>3, <1>4, <1>5

\* The equation that defines Name.
LEMMA NameIs == \A i \in Nat : Name[i] = Named(Name, i)
  <1> DEFINE to(n) == CHOOSE f : Names(f, n)
             F == [i \in Nat |-> to(i)[i]]
  <1>1. \A n \in Nat : Names(to(n), n)
    BY NamesExist
  <1> HIDE DEF to
  <1>2. ASSUME NEW i \in Nat PROVE F[i] = Named(F, i)
    <2> DEFINE f == to(i)
    <2>1. Names(f, i) /\ F[i] = f[i]
      BY <1>1
    <2> HIDE DEF f
    <2>2. f[i] = Named(f, i)
      <3> DEFINE v(j) == Named(f, j)
      <3>1. f = [j \in 0..i |-> v(j)] /\ i \in 0..i
        BY <2>1 DEF Names
      <3> HIDE DEF v
      <3>2. f[i] = v(i)
        BY <3>1
      <3> QED
        BY <3>2 DEF v
    <2>3. Named(f, i) = Named(F, i)
      <3>1. CASE i < Letters * Letters
        BY <3>1 DEF Named
      <3>2. CASE ~(i < Letters * Letters)
        <4>1. i >= Letters * Letters
          BY <3>2, SortAssumption
        <4>2. PICK j \in Nat : j = i \div Letters /\ j < i
          BY <4>1, Digits
        <4> DEFINE g == to(j)
        <4>3. Names(g, j) /\ F[j] = g[j]
          BY <1>1
        <4> HIDE DEF g
        <4>4. f[j] = g[j]
          BY <2>1, <4>2, <4>3, NamesAgree
        <4>5. f[i \div Letters] = F[i \div Letters]
          BY <4>2, <4>3, <4>4
        <4> HIDE DEF F
        <4> QED
          BY <4>5 DEF Named
      <3> QED
        BY <3>1, <3>2
    <2> QED
      BY <2>1, <2>2, <2>3
  <1>3. F = [i \in Nat |-> F[i]]
    OBVIOUS
  <1> HIDE DEF F
  <1>4. F = [i \in Nat |-> Named(F, i)]
    BY <1>2, <1>3
  <1>5. Name = CHOOSE f : f = [i \in Nat |-> Named(f, i)]
    BY DEF Name, Named
  <1>6. Name = [i \in Nat |-> Named(Name, i)]
    BY <1>4, <1>5
  <1> DEFINE v(i) == Named(Name, i)
  <1>7. Name = [i \in Nat |-> v(i)]
    BY <1>6
  <1> HIDE DEF v
  <1>8. \A i \in Nat : Name[i] = v(i)
    BY <1>7
  <1> QED
    BY <1>8 DEF v

\* A name has two letters at least.
LEMMA NameLong == \A i \in Nat : Name[i] \in Seq(Nat) /\ Len(Name[i]) >= 2
  <1> DEFINE Good(i) == Name[i] \in Seq(Nat) /\ Len(Name[i]) >= 2
             S == {i \in Nat : ~Good(i)}
  <1>1. SUFFICES ASSUME S # {} PROVE FALSE
    OBVIOUS
  <1>2. PICK i \in S : \A j \in S : i <= j
    <2>1. S \subseteq Nat
      OBVIOUS
    <2> HIDE DEF S
    <2> QED
      BY <1>1, <2>1, LeastNat
  <1>3. i \in Nat /\ ~Good(i)
    OBVIOUS
  <1>4. Name[i] = Named(Name, i)
    BY NameIs
  <1>5. i \div Letters \in Nat /\ i % Letters \in Nat
    BY Digits
  <1>6. CASE i < Letters * Letters
    <2>1. Name[i] = <<i \div Letters, i % Letters>>
      BY <1>4, <1>6 DEF Named
    <2> QED
      BY <1>3, <1>5, <2>1
  <1>7. CASE ~(i < Letters * Letters)
    <2>1. i >= Letters * Letters
      BY <1>7, SortAssumption
    <2>2. PICK h : h = Name[i \div Letters]
      OBVIOUS
    <2>3. i \div Letters < i
      BY <2>1, Digits
    <2>4. Good(i \div Letters)
      BY <1>2, <1>5, <2>3
    <2>5. h \in Seq(Nat) /\ Len(h) >= 2
      BY <2>2, <2>4
    <2>6. Name[i] = <<h[1], h[2], i % Letters>> \o SubSeq(h, 3, Len(h))
      BY <1>4, <1>7, <2>2 DEF Named
    <2>7. <<h[1], h[2], i % Letters>> \in Seq(Nat)
      BY <1>5, <2>5
    <2>8. SubSeq(h, 3, Len(h)) \in Seq(Nat)
      BY <2>5
    <2>9. Len(<<h[1], h[2], i % Letters>>) = 3
      OBVIOUS
    <2> QED
      BY <1>3, <2>6, <2>7, <2>8, <2>9
  <1> QED
    BY <1>6, <1>7

\* What a longer name is put together from.
Longer(s, z) == <<s[1], s[2], z>> \o SubSeq(s, 3, Len(s))

\* The places of a longer name.
LEMMA LongerParts ==
    ASSUME NEW S, NEW s \in Seq(S), Len(s) >= 2, NEW z \in S
    PROVE  /\ Len(Longer(s, z)) = Len(s) + 1
           /\ Longer(s, z)[1] = s[1] /\ Longer(s, z)[2] = s[2] /\ Longer(s, z)[3] = z
           /\ \A k \in 3..Len(s) : Longer(s, z)[k + 1] = s[k]
  <1>1. PICK n \in Nat, m \in Nat, t \in Nat : n = Len(s) /\ m = 2 /\ t = m + 1
    OBVIOUS
  <1>2. m \in 0..n /\ SubSeq(s, 3, Len(s)) = SubSeq(s, m + 1, n)
    BY <1>1
  <1>3. PICK r : r = SubSeq(s, m + 1, n)
    OBVIOUS
  <1>4. r \in Seq(S) /\ Len(r) = n - m
    BY <1>1, <1>2, <1>3
  <1>5. \A k \in 1..n - m : r[k] = s[k + m]
    BY <1>1, <1>2, <1>3
  <1>6. PICK x \in S, y \in S : x = s[1] /\ y = s[2]
    BY <1>1
  <1>7. PICK p \in Seq(S) : Len(p) = 3 /\ p = <<x, y, z>> /\ p[1] = x /\ p[2] = y /\ p[3] = z
    <2>1. <<x, y, z>> \in Seq(S) /\ Len(<<x, y, z>>) = 3
      OBVIOUS
    <2>2. <<x, y, z>>[1] = x /\ <<x, y, z>>[2] = y /\ <<x, y, z>>[3] = z
      OBVIOUS
    <2> QED
      BY <2>1, <2>2
  <1>8. Longer(s, z) = p \o r
    BY <1>2, <1>3, <1>6, <1>7 DEF Longer
  <1>9. Len(p) = t
    BY <1>1, <1>7
  <1>d. PICK d \in Nat : d = n - m
    BY <1>2
  <1>10. Len(p \o r) = t + (n - m)
    BY <1>4, <1>9
  <1>11. \A k \in 1..t : (p \o r)[k] = p[k]
    BY <1>4, <1>9
  <1>12. \A k \in 1..n - m : (p \o r)[k + t] = r[k]
    <2>1. Len(r) = d
      BY <1>d, <1>4
    <2>2. \A k \in 1..d : (p \o r)[k + t] = r[k]
      BY <2>1, <1>4, <1>9
    <2> QED
      BY <1>d, <2>2
  <1>13. ASSUME NEW k \in 3..n PROVE (p \o r)[k + 1] = s[k]
    <2>1. PICK j \in Nat : j = k - m
      BY <1>1
    <2>2. j \in 1..n - m /\ j + t = k + 1 /\ j + m = k
      BY <1>1, <2>1
    <2>3. (p \o r)[j + t] = r[j] /\ r[j] = s[j + m]
      BY <1>5, <1>12, <2>2
    <2> QED
      BY <2>2, <2>3
  <1>14. 1 \in 1..t /\ 2 \in 1..t /\ 3 \in 1..t /\ t + (n - m) = n + 1
    BY <1>1
  <1>15. Len(Longer(s, z)) = Len(s) + 1
    BY <1>1, <1>8, <1>10, <1>14
  <1>16. Longer(s, z)[1] = s[1] /\ Longer(s, z)[2] = s[2] /\ Longer(s, z)[3] = z
    BY <1>6, <1>7, <1>8, <1>11, <1>14
  <1> QED
    BY <1>1, <1>8, <1>13, <1>15, <1>16

\* Longer names are put together from their parts in one way.
LEMMA LongerNames ==
    ASSUME NEW S, NEW g \in Seq(S), NEW h \in Seq(S), Len(g) >= 2, Len(h) >= 2,
           NEW x \in S, NEW y \in S, Longer(g, x) = Longer(h, y)
    PROVE  g = h /\ x = y
  <1>1. Len(g) + 1 = Len(h) + 1
    BY LongerParts
  <1>2. Len(g) \in Nat /\ Len(h) \in Nat
    OBVIOUS
  <1>3. Len(g) = Len(h)
    BY <1>1, <1>2
  <1>4. g[1] = h[1] /\ g[2] = h[2] /\ x = y
    <2>1. Longer(g, x)[1] = g[1] /\ Longer(g, x)[2] = g[2] /\ Longer(g, x)[3] = x
      BY LongerParts
    <2>2. Longer(h, y)[1] = h[1] /\ Longer(h, y)[2] = h[2] /\ Longer(h, y)[3] = y
      BY LongerParts
    <2> QED
      BY <2>1, <2>2
  <1>5. ASSUME NEW k \in 3..Len(g) PROVE g[k] = h[k]
    <2>1. Longer(g, x)[k + 1] = g[k]
      BY LongerParts
    <2>2. k \in 3..Len(h)
      BY <1>3
    <2>3. Longer(h, y)[k + 1] = h[k]
      BY <2>2, LongerParts
    <2> QED
      BY <2>1, <2>3
  <1>6. \A k \in 1..Len(g) : k = 1 \/ k = 2 \/ k \in 3..Len(g)
    BY <1>2
  <1>7. \A k \in 1..Len(g) : g[k] = h[k]
    BY <1>4, <1>5, <1>6
  <1> QED
    BY <1>3, <1>4, <1>7

\* No two numbers have the same name, also where names get longer.
LEMMA NamesDiffer == \A i, j \in Nat : Name[i] = Name[j] => i = j
  <1> DEFINE S == {i \in Nat : \E j \in Nat : Name[i] = Name[j] /\ i # j}
  <1>1. SUFFICES ASSUME S # {} PROVE FALSE
    OBVIOUS
  <1>2. PICK i \in S : \A k \in S : i <= k
    <2>1. S \subseteq Nat
      OBVIOUS
    <2> HIDE DEF S
    <2> QED
      BY <1>1, <2>1, LeastNat
  <1>3. PICK j \in Nat : Name[i] = Name[j] /\ i # j
    OBVIOUS
  <1>4. i \in Nat /\ j \in Nat /\ j \in S
    BY <1>3
  <1>5. Name[i] = Named(Name, i) /\ Name[j] = Named(Name, j)
    BY <1>4, NameIs
  <1>6. /\ i \div Letters \in Nat /\ i % Letters \in Nat
        /\ j \div Letters \in Nat /\ j % Letters \in Nat
    BY <1>4, Digits
  <1>7. i < j
    BY <1>2, <1>3, <1>4
  <1>8. /\ i = (Letters * (i \div Letters)) + (i % Letters)
        /\ j = (Letters * (j \div Letters)) + (j % Letters)
    BY <1>4, Digits
  <1>9. CASE j < Letters * Letters
    <2>1. i < Letters * Letters
      BY <1>4, <1>7, <1>9, SortAssumption
    <2>2. <<i \div Letters, i % Letters>> = <<j \div Letters, j % Letters>>
      BY <1>3, <1>5, <1>9, <2>1 DEF Named
    <2>3. i \div Letters = j \div Letters /\ i % Letters = j % Letters
      BY <2>2
    <2> QED
      BY <1>3, <1>8, <2>3
  <1>10. CASE ~(j < Letters * Letters)
    <2>1. PICK h : h = Name[j \div Letters]
      OBVIOUS
    <2>2. h \in Seq(Nat) /\ Len(h) >= 2
      BY <1>6, <2>1, NameLong
    <2>3. Name[j] = <<h[1], h[2], j % Letters>> \o SubSeq(h, 3, Len(h))
      BY <1>5, <1>10, <2>1 DEF Named
    <2>4. CASE i < Letters * Letters
      <3>1. Name[i] = <<i \div Letters, i % Letters>>
        BY <1>5, <2>4 DEF Named
      <3>2. Len(Name[i]) = 2
        BY <1>6, <3>1
      <3>3. <<h[1], h[2], j % Letters>> \in Seq(Nat) /\ Len(<<h[1], h[2], j % Letters>>) = 3
        BY <1>6, <2>2
      <3>4. SubSeq(h, 3, Len(h)) \in Seq(Nat)
        BY <2>2
      <3>5. Len(Name[j]) >= 3
        BY <2>3, <3>3, <3>4
      <3> QED
        BY <1>3, <3>2, <3>5
    <2>5. CASE ~(i < Letters * Letters)
      <3>1. PICK g : g = Name[i \div Letters]
        OBVIOUS
      <3>2. g \in Seq(Nat) /\ Len(g) >= 2
        BY <1>6, <3>1, NameLong
      <3>3. Name[i] = <<g[1], g[2], i % Letters>> \o SubSeq(g, 3, Len(g))
        BY <1>5, <2>5, <3>1 DEF Named
      <3>4. g = h /\ i % Letters = j % Letters
        <4>1. Longer(g, i % Letters) = Longer(h, j % Letters)
          BY <1>3, <2>3, <3>3 DEF Longer
        <4>2. PICK x \in Nat, y \in Nat : x = i % Letters /\ y = j % Letters
          BY <1>6
        <4>3. Longer(g, x) = Longer(h, y)
          BY <4>1, <4>2
        <4>4. g = h /\ x = y
          BY <2>2, <3>2, <4>3, LongerNames
        <4> QED
          BY <4>2, <4>4
      <3>5. i >= Letters * Letters
        BY <1>4, <2>5, SortAssumption
      <3>6. i \div Letters < i
        BY <1>4, <3>5, Digits
      <3>7. i \div Letters \notin S
        BY <1>2, <1>4, <1>6, <3>6
      <3>8. i \div Letters = j \div Letters
        BY <1>6, <2>1, <3>1, <3>4, <3>7
      <3> QED
        BY <1>3, <1>8, <3>4, <3>8
    <2> QED
      BY <2>4, <2>5
  <1> QED
    BY <1>9, <1>10

\* The same for the temporary files.
LEMMA FilesDiffer ==
    ASSUME NEW i \in Int, NEW j \in Int, eargc \in Nat, i >= eargc, j >= eargc,
           Setfil(i) = Setfil(j)
    PROVE  i = j
  <1>1. PICK x \in Nat : x = i - eargc
    OBVIOUS
  <1>2. PICK y \in Nat : y = j - eargc
    OBVIOUS
  <1>3. Name[x] = Name[y]
    BY <1>1, <1>2 DEF Setfil
  <1>4. x = y
    BY <1>3, NamesDiffer
  <1> QED
    BY <1>1, <1>2, <1>4

-----------------------------------------------------------------------------
(* The files in the buffers *)

\* None of the files is at its end.
Bufs(b) == Many(b) /\ \A i \in DOMAIN b : b[i] # <<>>

\* They are put in a row, the greatest first.
Falling(b, n) == \A i, j \in 1..n : i < j => Head(b[i]) >= Head(b[j])
Row(b) == b \in Seq(Seq(Line)) /\ (\A i \in 1..Len(b) : b[i] # <<>>) /\ Falling(b, Len(b))

\* b is made of the same files as f.
Moved(b, f) == \E p \in Bijection(DOMAIN b, DOMAIN f) : \A i \in DOMAIN b : b[i] = f[p[i]]

\* What is moved is the same files, and has every line as often.
LEMMA MovedSame ==
    ASSUME NEW f, Many(f), NEW b, Moved(b, f)
    PROVE  /\ Many(b) /\ \A l : Total(b, l) = Total(f, l)
           /\ \A i \in DOMAIN b : \E j \in DOMAIN f : b[i] = f[j]
  <1>1. PICK p \in Bijection(DOMAIN b, DOMAIN f) : \A i \in DOMAIN b : b[i] = f[p[i]]
    BY DEF Moved
  <1>2. p \in [DOMAIN b -> DOMAIN f]
    BY DEF Bijection, Injection
  <1>3. \A i \in DOMAIN b : \E j \in DOMAIN f : b[i] = f[j]
    BY <1>1, <1>2
  <1>4. ASSUME NEW l PROVE Many(b) /\ Total(b, l) = Total(f, l)
    BY <1>1, TotalMoved
  <1> QED
    BY <1>3, <1>4

\* A row is a number of files.
LEMMA RowBufs ==
    ASSUME NEW b, Row(b)
    PROVE  Bufs(b) /\ Len(b) \in Nat /\ DOMAIN b = 1..Len(b)
  <1>1. DOMAIN b = 1..Len(b) /\ Len(b) \in Nat /\ \A i \in 1..Len(b) : b[i] \in Seq(Line)
    BY DEF Row
  <1>2. IsFiniteSet(1..Len(b))
    BY <1>1, FS_Interval
  <1> QED
    BY <1>1, <1>2 DEF Row, Bufs, Many

\* quicksort() makes a row of the files.
LEMMA ArrangedRow ==
    ASSUME Bufs(ibuf), NEW s \in Arrangements
    PROVE  Row(s) /\ Moved(s, ibuf)
  <1> DEFINE n == Cardinality(DOMAIN ibuf)
             places == 1..n
  <1>1. n \in Nat
    BY FS_CardinalityType DEF Bufs, Many
  <1> HIDE DEF n
  <1>2. PICK p \in [places -> DOMAIN ibuf] :
            /\ \A i, j \in places : i # j => p[i] # p[j]
            /\ \A i, j \in places : i < j => Head(ibuf[p[i]]) >= Head(ibuf[p[j]])
            /\ s = [i \in places |-> ibuf[p[i]]]
    BY DEF Arrangements, n
  <1>3. \A i \in places : ibuf[p[i]] \in Seq(Line) /\ ibuf[p[i]] # <<>>
    BY <1>2 DEF Bufs, Many
  <1>4. DOMAIN s = places /\ \A i \in places : s[i] = ibuf[p[i]]
    BY <1>2
  <1>5. s \in Seq(Seq(Line)) /\ Len(s) = n
    BY <1>1, <1>2, <1>3
  <1>6. Row(s)
    BY <1>2, <1>3, <1>4, <1>5 DEF Row, Falling
  <1>7. p \in Injection(places, DOMAIN ibuf)
    <2>1. \A i, j \in places : p[i] = p[j] => i = j
      BY <1>2
    <2> QED
      BY <2>1 DEF Injection, IsInjective
  <1>8. IsFiniteSet(DOMAIN ibuf) /\ Cardinality(places) = n
    BY <1>1, FS_Interval DEF Bufs, Many
  <1>9. p \in Surjection(places, DOMAIN ibuf)
    BY <1>7, <1>8, FS_Injection DEF n
  <1>10. p \in Bijection(DOMAIN s, DOMAIN ibuf)
    BY <1>4, <1>7, <1>9 DEF Bijection
  <1> QED
    BY <1>4, <1>6, <1>10 DEF Moved

\* The last file that moves up makes the row one again.
LEMMA InsertedRow ==
    ASSUME NEW s \in Seq(Seq(Line)), Len(s) > 0, \A i \in 1..Len(s) : s[i] # <<>>,
           Falling(s, Len(s) - 1)
    PROVE  Row(Inserted(s)) /\ Moved(Inserted(s), s) /\ Len(Inserted(s)) = Len(s)
  <1>1. PICK n \in Nat : n = Len(s) /\ n > 0
    OBVIOUS
  <1> DEFINE h(i) == Head(s[i])
             lesser(j) == \A i \in j..n - 1 : h(i) < h(n)
             S == {j \in 1..n : lesser(j)}
             fit(j) == j \in 1..n /\ lesser(j) /\ \A i \in 1..n : lesser(i) => j <= i
             k == CHOOSE j \in 1..n : lesser(j) /\ \A i \in 1..n : lesser(i) => j <= i
  <1>2. \A i \in 1..n : h(i) \in Int /\ s[i] \in Seq(Line)
    <2> TAKE i \in 1..n
    <2>1. s[i] \in Seq(Line) /\ s[i] # <<>>
      BY <1>1
    <2>2. Head(s[i]) \in Line
      BY <2>1
    <2> QED
      BY <2>1, <2>2, SortAssumption DEF Line
  <1>3. \A i, j \in 1..n - 1 : i < j => h(i) >= h(j)
    BY <1>1 DEF Falling
  <1>4. Inserted(s) = [i \in 1..n |-> IF i < k THEN s[i] ELSE IF i = k THEN s[n] ELSE s[i - 1]]
    BY <1>1 DEF Inserted
  <1> HIDE DEF h
  <1>5. fit(k)
    <2>1. n \in S
      BY <1>1
    <2>2. S \subseteq Nat
      OBVIOUS
    <2>3. PICK m \in S : \A j \in S : m <= j
      <3> HIDE DEF S
      <3> QED
        BY <2>1, <2>2, LeastNat
    <2>4. fit(m)
      BY <2>3
    <2>5. \E j \in 1..n : lesser(j) /\ \A i \in 1..n : lesser(i) => j <= i
      BY <2>4
    <2> HIDE DEF lesser
    <2> QED
      BY <2>5
  <1> HIDE DEF k
  <1>6. k \in 1..n /\ (\A i \in k..n - 1 : h(i) < h(n))
    BY <1>5
  <1>7. \A i \in 1..k - 1 : h(i) >= h(n)
    <2> SUFFICES ASSUME NEW i \in 1..k - 1, ~(h(i) >= h(n)) PROVE FALSE
      OBVIOUS
    <2>1. i \in 1..n /\ i < k
      BY <1>6
    <2>2. \A j \in i..n - 1 : h(j) < h(n)
      <3> TAKE j \in i..n - 1
      <3>1. h(j) \in Int /\ h(i) \in Int /\ h(n) \in Int
        BY <1>1, <1>2, <2>1
      <3>2. i = j \/ h(i) >= h(j)
        BY <1>3, <2>1
      <3> QED
        BY <3>1, <3>2
    <2>3. k <= i
      BY <1>5, <2>1, <2>2
    <2> QED
      BY <1>6, <2>1, <2>3
  <1> DEFINE t == Inserted(s)
             p == [i \in 1..n |-> IF i < k THEN i ELSE IF i = k THEN n ELSE i - 1]
  <1>8. \A i \in 1..n : p[i] \in 1..n /\ t[i] = s[p[i]]
    BY <1>1, <1>4, <1>6
  <1>9. DOMAIN t = 1..n
    BY <1>4
  <1>10. t \in Seq(Seq(Line)) /\ Len(t) = n
    <2>1. t = [i \in 1..n |-> t[i]]
      BY <1>4
    <2>2. \A i \in 1..n : t[i] \in Seq(Line)
      BY <1>2, <1>8
    <2> HIDE DEF t
    <2> QED
      BY <1>1, <2>1, <2>2
  <1>11. ASSUME NEW i \in 1..n, NEW j \in 1..n, i < j PROVE h(p[i]) >= h(p[j])
    <2>1. CASE j < k
      <3>1. p[i] = i /\ p[j] = j /\ j <= n - 1 /\ i \in 1..n - 1 /\ j \in 1..n - 1
        BY <1>6, <1>11, <2>1
      <3> QED
        BY <1>3, <1>11, <3>1
    <2>2. CASE j = k
      <3>1. p[i] = i /\ p[j] = n /\ i \in 1..k - 1
        BY <1>6, <1>11, <2>2
      <3> QED
        BY <1>7, <3>1
    <2>3. CASE i = k
      <3>1. p[i] = n /\ p[j] = j - 1 /\ j - 1 \in k..n - 1 /\ j - 1 \in 1..n
        BY <1>6, <1>11, <2>3
      <3>2. h(j - 1) < h(n) /\ h(j - 1) \in Int /\ h(n) \in Int
        <4>1. n \in 1..n
          BY <1>6
        <4> HIDE DEF p
        <4> QED
          BY <1>2, <1>6, <3>1, <4>1
      <3>3. h(n) >= h(j - 1)
        <4> HIDE DEF p
        <4> QED
          BY <3>2
      <3> QED
        BY <3>1, <3>3
    <2>4. CASE i < k /\ j > k
      <3>1. p[i] = i /\ p[j] = j - 1 /\ i < j - 1 /\ i \in 1..n - 1 /\ j - 1 \in 1..n - 1
        BY <1>6, <1>11, <2>4
      <3> QED
        BY <1>3, <1>11, <3>1
    <2>5. CASE i > k
      <3>1. p[i] = i - 1 /\ p[j] = j - 1 /\ i - 1 < j - 1 /\ i - 1 \in 1..n - 1 /\ j - 1 \in 1..n - 1
        BY <1>6, <1>11, <2>5
      <3> QED
        BY <1>3, <1>11, <3>1
    <2>6. j < k \/ j = k \/ i = k \/ (i < k /\ j > k) \/ i > k
      BY <1>6, <1>11
    <2> QED
      BY <2>1, <2>2, <2>3, <2>4, <2>5, <2>6
  <1>12. \A i \in 1..n : t[i] # <<>>
    <2> TAKE i \in 1..n
    <2>1. PICK j \in 1..n : j = p[i] /\ t[i] = s[j]
      BY <1>8
    <2> QED
      BY <1>1, <2>1
  <1>13. p \in Bijection(1..n, 1..n)
    <2>1. p \in [1..n -> 1..n]
      BY <1>6
    <2>2. \A i, j \in 1..n : p[i] = p[j] => i = j
      BY <1>6
    <2>3. ASSUME NEW m \in 1..n PROVE \E i \in 1..n : p[i] = m
      <3>1. CASE m < k
        <4>1. p[m] = m
          BY <3>1
        <4> QED
          BY <4>1
      <3>2. CASE m >= k /\ m < n
        <4>1. m + 1 \in 1..n /\ m + 1 # k /\ ~(m + 1 < k)
          BY <1>6, <3>2
        <4>2. p[m + 1] = (m + 1) - 1
          BY <4>1
        <4>3. p[m + 1] = m
          BY <4>2
        <4> QED
          BY <4>1, <4>3
      <3>3. CASE m = n
        <4>1. p[k] = n
          BY <1>6
        <4> QED
          BY <1>6, <3>3, <4>1
      <3> QED
        BY <1>6, <3>1, <3>2, <3>3
    <2> HIDE DEF p
    <2> QED
      BY <2>1, <2>2, <2>3, Zenon DEF Bijection, Injection, Surjection, IsInjective
  <1> HIDE DEF p, t
  <1>14. DOMAIN s = 1..n
    BY <1>1
  <1>15. Moved(t, s)
    BY <1>8, <1>9, <1>13, <1>14 DEF Moved
  <1>16. Row(t)
    <2>1. \A i \in 1..n : h(p[i]) = Head(t[i])
      BY <1>8 DEF h
    <2>2. Falling(t, n)
      <3> HIDE DEF h
      <3> QED
        BY <1>11, <2>1 DEF Falling
    <2> QED
      BY <1>10, <1>12, <2>2 DEF Row
  <1> QED
    BY <1>1, <1>10, <1>15, <1>16 DEF t

\* With -u, of the files that begin with a line one keeps it.
LEMMA WithoutKeeps ==
    ASSUME NEW s, Row(s)
    PROVE  /\ Bufs(Without(s))
           /\ \A l : Total(Without(s), l) > 0 <=> Total(s, l) > 0
           /\ \A i \in DOMAIN Without(s) :
                 \E j \in 1..Len(s) : Without(s)[i] \in {s[j], Tail(s[j])}
  <1>1. Bufs(s) /\ Len(s) \in Nat /\ DOMAIN s = 1..Len(s)
    BY RowBufs
  <1>2. \A i \in 1..Len(s) : s[i] \in Seq(Line) /\ s[i] # <<>> /\ Tail(s[i]) \in Seq(Line)
    BY DEF Row
  <1> DEFINE next == [i \in DOMAIN s |-> IF Twin(s, i) THEN Tail(s[i]) ELSE s[i]]
             w == Without(s)
  <1>3. w = [i \in {j \in DOMAIN s : next[j] # <<>>} |-> next[i]]
    BY DEF Without
  <1>4. DOMAIN w = {j \in 1..Len(s) : next[j] # <<>>} /\ \A i \in DOMAIN w : w[i] = next[i]
    BY <1>1, <1>3
  <1>5. DOMAIN next = 1..Len(s) /\ \A i \in 1..Len(s) : next[i] = IF Twin(s, i) THEN Tail(s[i]) ELSE s[i]
    BY <1>1
  <1> HIDE DEF next, w
  <1>6. \A i \in 1..Len(s) : next[i] \in Seq(Line)
    BY <1>2, <1>5
  <1>7. IsFiniteSet(DOMAIN w)
    <2>1. DOMAIN w \subseteq 1..Len(s) /\ IsFiniteSet(1..Len(s))
      BY <1>1, <1>4, FS_Interval
    <2> QED
      BY <2>1, FS_Subset
  <1>8. Bufs(w)
    BY <1>4, <1>6, <1>7 DEF Bufs, Many
  <1>9. \A i \in DOMAIN w : i \in 1..Len(s) /\ w[i] \in {s[i], Tail(s[i])}
    BY <1>4, <1>5
  <1>10. ASSUME NEW l, NEW i \in DOMAIN w, Count(w[i], l) > 0 PROVE Count(s[i], l) > 0
    <2>1. i \in 1..Len(s) /\ (w[i] = s[i] \/ w[i] = Tail(s[i]))
      BY <1>9
    <2>2. CASE w[i] = Tail(s[i])
      <3>1. Count(s[i], l) = (IF Head(s[i]) = l THEN 1 ELSE 0) + Count(Tail(s[i]), l)
        BY <1>2, <2>1, CountTail
      <3>2. Count(Tail(s[i]), l) \in Nat
        BY <1>2, <2>1, CountType
      <3> QED
        BY <1>10, <2>2, <3>1, <3>2
    <2> QED
      BY <1>10, <2>1, <2>2
  <1>11. ASSUME NEW l, NEW i \in 1..Len(s), Count(s[i], l) > 0
         PROVE  \E j \in DOMAIN w : Count(w[j], l) > 0
    <2>1. CASE Head(s[i]) = l
      <3> DEFINE S == {j \in 1..Len(s) : Head(s[j]) = l}
      <3>1. PICK j \in S : \A k \in S : j <= k
        <4>1. S \subseteq Nat /\ S # {}
          BY <2>1
        <4> HIDE DEF S
        <4> QED
          BY <4>1, LeastNat
      <3>2. ~Twin(s, j)
        <4> SUFFICES ASSUME Twin(s, j) PROVE FALSE
          OBVIOUS
        <4>1. j > 1 /\ Head(s[j]) = Head(s[j - 1])
          BY DEF Twin
        <4>2. j - 1 \in 1..Len(s)
          BY <1>1, <4>1
        <4>3. j - 1 \in S
          BY <4>1, <4>2
        <4> QED
          BY <3>1, <4>3
      <3>3. next[j] = s[j] /\ s[j] # <<>>
        BY <1>2, <1>5, <3>2
      <3>4. j \in DOMAIN w /\ w[j] = s[j]
        BY <1>4, <3>3
      <3>5. Count(s[j], l) = 1 + Count(Tail(s[j]), l)
        BY <1>2, CountTail
      <3>6. Count(Tail(s[j]), l) \in Nat
        BY <1>2, CountType
      <3> QED
        BY <3>4, <3>5, <3>6
    <2>2. CASE Head(s[i]) # l
      <3>1. Count(s[i], l) = Count(Tail(s[i]), l) /\ Count(Tail(s[i]), l) \in Nat
        <4>1. Count(s[i], l) = (IF Head(s[i]) = l THEN 1 ELSE 0) + Count(Tail(s[i]), l)
          BY <1>2, CountTail
        <4>2. Count(Tail(s[i]), l) \in Nat
          BY <1>2, CountType
        <4> QED
          BY <2>2, <4>1, <4>2
      <3>2. Count(next[i], l) > 0
        BY <1>5, <1>11, <3>1
      <3>3. next[i] # <<>>
        BY <3>2, CountEmpty
      <3> QED
        BY <1>4, <3>2, <3>3
    <2> QED
      BY <2>1, <2>2
  <1>12. ASSUME NEW l PROVE Total(w, l) > 0 <=> Total(s, l) > 0
    <2>1. Total(w, l) > 0 <=> \E i \in DOMAIN w : Count(w[i], l) > 0
      BY <1>8, TotalType DEF Bufs
    <2>2. Total(s, l) > 0 <=> \E i \in DOMAIN s : Count(s[i], l) > 0
      BY <1>1, TotalType DEF Bufs
    <2> QED
      BY <1>1, <1>9, <1>10, <1>11, <2>1, <2>2
  <1> QED
    BY <1>8, <1>9, <1>12 DEF w

\* The end of a file is met after its last line.
LEMMA OneLine ==
    ASSUME NEW s \in Seq(Line), s # <<>>
    PROVE  Tail(s) \in Seq(Line) /\ (Tail(s) = <<>> <=> Len(s) = 1)
  <1>1. PICK n \in Nat : n = Len(s) /\ n # 0
    OBVIOUS
  <1>2. Tail(s) \in Seq(Line) /\ Len(Tail(s)) = n - 1
    BY <1>1
  <1>3. PICK t \in Seq(Line) : t = Tail(s)
    BY <1>2
  <1>4. t = <<>> <=> Len(t) = 0
    OBVIOUS
  <1> QED
    BY <1>1, <1>2, <1>3, <1>4

\* A line less in the last file of a row.
LEMMA TakenRow ==
    ASSUME NEW b, Row(b), b # <<>>
    PROVE  LET r == [b EXCEPT ![Len(b)] = Tail(b[Len(b)])]
           IN /\ b[Len(b)] # <<>> /\ Head(b[Len(b)]) \in Line
              /\ Many(r) /\ \A l : Total(b, l) = Total(r, l) + IF Head(b[Len(b)]) = l THEN 1 ELSE 0
  <1>1. PICK n \in Nat : n = Len(b) /\ n > 0
    BY DEF Row
  <1>2. DOMAIN b = 1..n /\ Bufs(b) /\ b \in Seq(Seq(Line))
    BY <1>1, RowBufs DEF Row
  <1>3. PICK s \in Seq(Line) : s = b[n] /\ s # <<>>
    BY <1>1 DEF Row
  <1>4. Head(s) \in Line /\ Tail(s) \in Seq(Line)
    BY <1>3, CountTail
  <1> DEFINE r == [b EXCEPT ![n] = Tail(s)]
  <1>5. DOMAIN r = 1..n /\ r[n] = Tail(s) /\ \A i \in 1..n : i # n => r[i] = b[i]
    BY <1>1, <1>2
  <1>6. r \in Seq(Seq(Line))
    BY <1>1, <1>2, <1>4
  <1>7. r = [b EXCEPT ![Len(b)] = Tail(b[Len(b)])]
    BY <1>1, <1>3
  <1> HIDE DEF r
  <1>8. Many(r)
    <2>1. \A i \in 1..n : r[i] \in Seq(Line)
      BY <1>5, <1>6
    <2>2. IsFiniteSet(1..n)
      BY FS_Interval
    <2> QED
      BY <1>5, <2>1, <2>2 DEF Many
  <1>9. Others(r, n) = Others(b, n)
    BY <1>2, <1>5 DEF Others
  <1>10. ASSUME NEW l PROVE Total(b, l) = Total(r, l) + IF Head(s) = l THEN 1 ELSE 0
    <2>1. n \in 1..n
      BY <1>1
    <2> DEFINE o == Others(b, n)
    <2>2. Total(b, l) = Total(o, l) + Count(b[n], l) /\ Many(o)
      BY <1>2, <2>1, TotalAt DEF Bufs
    <2>3. Total(r, l) = Total(o, l) + Count(r[n], l)
      BY <1>5, <1>8, <1>9, <2>1, TotalAt
    <2>4. Count(s, l) = (IF Head(s) = l THEN 1 ELSE 0) + Count(Tail(s), l)
      BY <1>3, CountTail
    <2>5. Count(Tail(s), l) \in Nat
      BY <1>4, CountType
    <2> HIDE DEF o
    <2>6. Total(o, l) \in Nat
      BY <2>2, TotalType
    <2> QED
      BY <1>3, <1>5, <2>2, <2>3, <2>4, <2>5, <2>6
  <1> QED
    BY <1>1, <1>3, <1>4, <1>7, <1>8, <1>10

\* The row when the least line is gone.
Taken == [ibuf EXCEPT ![Len(ibuf)] = Tail(@)]

\* The row goes on without the least line: it is a row, with every other line as often.
LEMMA AdvancedRow ==
    ASSUME Row(ibuf), ibuf # <<>>
    PROVE  /\ Least \in Seq(Line) /\ Least # <<>> /\ Head(Least) \in Line
           /\ Many(Taken)
           /\ \A l : Total(ibuf, l) = Total(Taken, l) + IF Head(Least) = l THEN 1 ELSE 0
           /\ Row(Advanced)
           /\ \A l : Total(Advanced, l) = Total(Taken, l)
           /\ \A i \in 1..Len(Advanced) :
                 \/ Advanced[i] = Tail(Least) /\ Tail(Least) # <<>>
                 \/ \E j \in 1..Len(ibuf) - 1 : Advanced[i] = ibuf[j]
           /\ Len(Advanced) = IF Len(Least) = 1 THEN Len(ibuf) - 1 ELSE Len(ibuf)
  <1>1. PICK n \in Nat : n = Len(ibuf) /\ n > 0
    BY DEF Row
  <1>2. DOMAIN ibuf = 1..n /\ Bufs(ibuf) /\ ibuf \in Seq(Seq(Line))
    BY <1>1, RowBufs DEF Row
  <1>3. /\ Least = ibuf[n] /\ Least \in Seq(Line) /\ Least # <<>>
        /\ Head(Least) \in Line /\ Tail(Least) \in Seq(Line)
    <2>1. Least = ibuf[n] /\ Least \in Seq(Line) /\ Least # <<>>
      BY <1>1 DEF Least, Row
    <2> QED
      BY <2>1, CountTail
  <1> DEFINE r == [ibuf EXCEPT ![n] = Tail(Least)]
  <1>4. Taken = r
    BY <1>1, <1>3 DEF Taken
  <1>5. /\ DOMAIN r = 1..n /\ r[n] = Tail(Least)
        /\ \A i \in 1..n : i # n => r[i] = ibuf[i]
    BY <1>1, <1>2
  <1>6. r \in Seq(Seq(Line)) /\ Len(r) = n
    BY <1>1, <1>2, <1>3
  <1> HIDE DEF r
  <1>7. Many(r)
    <2>1. \A i \in 1..n : r[i] \in Seq(Line)
      BY <1>6
    <2>2. IsFiniteSet(1..n)
      BY FS_Interval
    <2> QED
      BY <1>5, <2>1, <2>2 DEF Many
  <1>8. r = [ibuf EXCEPT ![Len(ibuf)] = Tail(ibuf[Len(ibuf)])]
    BY <1>1, <1>3 DEF r
  <1>9. \A l : Total(ibuf, l) = Total(r, l) + IF Head(Least) = l THEN 1 ELSE 0
    <2>1. PICK b : b = ibuf
      OBVIOUS
    <2>2. \A l : Total(b, l) = Total(r, l) + IF Head(b[Len(b)]) = l THEN 1 ELSE 0
      BY <1>8, <2>1, TakenRow
    <2> QED
      BY <2>1, <2>2 DEF Least
  <1> DEFINE A == Advanced
  <1>10. CASE Len(Least) = 1
    <2>1. A = SubSeq(ibuf, 1, n - 1)
      BY <1>1, <1>10 DEF Advanced
    <2>2. A \in Seq(Seq(Line)) /\ Len(A) = n - 1 /\ \A i \in 1..n - 1 : A[i] = ibuf[i]
      BY <1>1, <1>2, <2>1
    <2> HIDE DEF A
    <2>3. Row(A)
      <3>1. \A i, j \in 1..n - 1 : i \in 1..n /\ j \in 1..n
        OBVIOUS
      <3>2. \A i \in 1..n - 1 : A[i] # <<>>
        BY <1>1, <2>2, <3>1 DEF Row
      <3>3. \A i, j \in 1..n - 1 : i < j => Head(A[i]) >= Head(A[j])
        BY <1>1, <2>2, <3>1 DEF Row, Falling
      <3> QED
        BY <2>2, <3>2, <3>3 DEF Row, Falling
    <2>4. Tail(Least) = <<>>
      BY <1>3, <1>10, OneLine
    <2>5. DOMAIN A = 1..n - 1
      BY <2>2
    <2>6. \A i \in 1..n : r[i] # <<>> <=> i \in 1..n - 1
      <3>1. \A i \in 1..n - 1 : i \in 1..n /\ i # n
        OBVIOUS
      <3>2. \A i \in 1..n - 1 : r[i] # <<>>
        BY <1>1, <1>5, <3>1 DEF Row
      <3>3. \A i \in 1..n : i = n \/ i \in 1..n - 1
        OBVIOUS
      <3> QED
        BY <1>5, <2>4, <3>1, <3>2, <3>3
    <2>7. {i \in DOMAIN r : r[i] # <<>>} = 1..n - 1
      BY <1>5, <2>6
    <2>8. \A i \in 1..n - 1 : A[i] = r[i]
      <3>1. \A i \in 1..n - 1 : i \in 1..n /\ i # n
        OBVIOUS
      <3> QED
        BY <1>5, <2>2, <3>1
    <2>9. A = [i \in {j \in DOMAIN r : r[j] # <<>>} |-> r[i]]
      <3>1. A = [i \in 1..n - 1 |-> A[i]]
        BY <2>2
      <3> QED
        BY <2>7, <2>8, <3>1
    <2>10. \A l : Total(A, l) = Total(r, l)
      <3> TAKE l
      <3> QED
        BY <1>7, <2>9, TotalFull
    <2>11. \A i \in 1..Len(A) : \E j \in 1..n - 1 : A[i] = ibuf[j]
      BY <2>2
    <2> QED
      BY <1>1, <1>3, <1>4, <1>7, <1>9, <1>10, <2>2, <2>3, <2>10, <2>11 DEF A
  <1>11. CASE Len(Least) # 1
    <2>1. A = Inserted(r)
      BY <1>4, <1>11 DEF Advanced, Taken
    <2>2. Tail(Least) # <<>>
      BY <1>3, <1>11, OneLine
    <2>3. \A i \in 1..n : r[i] # <<>>
      BY <1>1, <1>5, <2>2 DEF Row
    <2>4. Falling(r, n - 1)
      <3>1. \A i \in 1..n - 1 : i \in 1..n /\ i # n
        OBVIOUS
      <3>2. \A i \in 1..n - 1 : r[i] = ibuf[i]
        BY <1>5, <3>1
      <3> QED
        BY <1>1, <3>1, <3>2 DEF Row, Falling
    <2>5. Row(A) /\ Moved(A, r) /\ Len(A) = n
      BY <1>1, <1>6, <2>1, <2>3, <2>4, InsertedRow
    <2> HIDE DEF A
    <2>6. \A l : Total(A, l) = Total(r, l)
      BY <1>7, <2>5, MovedSame
    <2>7. \A i \in DOMAIN A : \E j \in DOMAIN r : A[i] = r[j]
      BY <1>7, <2>5, MovedSame
    <2>8. DOMAIN A = 1..n
      BY <2>5, RowBufs
    <2>9. ASSUME NEW i \in 1..n
          PROVE  A[i] = Tail(Least) \/ \E j \in 1..n - 1 : A[i] = ibuf[j]
      <3>1. PICK j \in 1..n : A[i] = r[j]
        BY <1>5, <2>7, <2>8
      <3>2. j = n \/ j \in 1..n - 1
        OBVIOUS
      <3>3. j # n => r[j] = ibuf[j]
        BY <1>5
      <3> QED
        BY <1>5, <3>1, <3>2, <3>3
    <2> QED
      BY <1>1, <1>3, <1>4, <1>7, <1>9, <1>11, <2>2, <2>5, <2>6, <2>9 DEF A
  <1> QED
    BY <1>10, <1>11

-----------------------------------------------------------------------------
(* The invariant *)

\* How two lines of a file follow each other; with -u the runs of sort() have a line once.
Up(x, y) == x <= y /\ (opt.u /\ ~opt.m => x # y)
Rising(s) == InOrder(s) /\ (opt.u /\ ~opt.m => Distinct(s))

\* What the variables may be.
TypesInv ==
    /\ pc \in Running \cup {"term", "exit"}
    /\ operand \in [0..eargc - 1 -> Seq(Line)]
    /\ \A f \in DOMAIN temp : temp[f] \in Seq(Line)
    /\ nfiles \in Nat /\ nfiles >= eargc
    /\ rest \in Seq(Line) /\ lspace \in Seq(Line) /\ Len(lspace) <= Room
    /\ done \in BOOLEAN
    /\ a \in Nat /\ upto \in Nat /\ a <= upto /\ upto <= nfiles /\ upto - a <= N
    /\ os \in (eargc..nfiles) \cup {None}
    /\ muflg \in BOOLEAN /\ prev \in 0..MaxLine
    /\ out \in Seq(Line) /\ error \in {0, 1}

\* What does not change.
GivenInv ==
    /\ input \in Seq(Seq(Line)) /\ eargc \in Nat /\ eargc > 0
    /\ opt.m \in BOOLEAN /\ opt.c \in BOOLEAN /\ opt.u \in BOOLEAN
    /\ opt.o \in {None} \cup 0..eargc - 1
    /\ opt.c => ~opt.m /\ eargc = 1
    /\ opt.m => \A i \in 1..eargc : InOrder(input[i])
    /\ unsafeout \in BOOLEAN /\ (opt.m \/ unsafeout = FALSE)
    /\ opt.m /\ AmongLast => unsafeout

\* sort() is at work.
Sorting == pc \in {"fill", "write"} \/ (pc \in {"create", "count", "open"} /\ a = upto)

\* Which files are merged, and to where.
PlaceInv ==
    /\ Sorting => ~opt.m /\ ~opt.c /\ a = eargc /\ upto = eargc
    /\ opt.m \/ opt.c \/ a >= eargc
    /\ pc \in Merging => a < upto
    /\ pc = "pass" => a = upto
    /\ pc \in Merging /\ os # None => os = nfiles - 1 /\ os >= upto
    /\ pc \in Merging /\ os = None => upto = nfiles
    /\ pc = "open" /\ a < upto => upto = nfiles
    /\ pc = "open" /\ a = upto => nfiles = eargc /\ done
    /\ pc = "write" /\ os = None => nfiles = eargc /\ done
    /\ pc = "write" /\ os # None => os = nfiles - 1 /\ temp[Setfil(os)] = <<>>
    /\ pc = "pass" /\ a = nfiles => os = None
    /\ error = 0 => pc \in {"term", "exit"}
    /\ pc = "open" /\ ~opt.c /\ opt.o # None => opt.o < a

\* What sort() still has to do, and what was written to the output.
RunInv ==
    /\ pc = "pass" \/ (pc \in Running /\ a < upto) => rest = <<>> /\ lspace = <<>>
    /\ pc = "fill" => lspace = <<>>
    /\ done => rest = <<>>
    /\ pc \in {"fill", "create", "count", "open", "write"} => out = <<>>
    /\ pc = "pass" /\ a # nfiles => out = <<>>
    /\ pc \in Merging /\ os # None => out = <<>>

\* The files that are left exist, and the operands among them are as they were.
FileInv ==
    /\ pc \in Running => \A i \in eargc..nfiles - 1 : i >= a => Setfil(i) \in DOMAIN temp
    /\ pc = "count" => Setfil(nfiles) \in DOMAIN temp /\ temp[Setfil(nfiles)] = <<>>
    /\ pc \in Running /\ (~opt.c \/ opt.o = None) => \A i \in a..eargc - 1 : operand[i] = input[i + 1]

\* The numbers of the files that count (Files).
Kept == (a..nfiles - 1) \ (IF pc \in Merging THEN {os} ELSE {})

\* The files that are left are in order, and so is what sort() wrote to the output.
OrderInv ==
    ~opt.c =>
      /\ pc \in Running => \A i \in Kept : Rising(Holds(i))
      /\ pc = "pass" /\ a = nfiles => Rising(out)

Written == IF os = None THEN out ELSE temp[Setfil(os)]
Sources == [i \in a..upto - 1 |-> Holds(i)]
InBuffers == {"first", "put", "next", "end"}

\* What is in the buffers and what was written is what the files hold; the line that "next"
\* goes on from is not counted in the buffers any more.
CountInv ==
    /\ pc \in {"merge", "first"} => Written = <<>>
    /\ pc \in {"first", "put", "end"} =>
          \A l \in Line : Same(Count(Written, l) + Total(ibuf, l), Total(Sources, l))
    /\ pc = "next" => \A l \in Line : Same(Count(Written, l) + Total(Taken, l), Total(Sources, l))
    /\ pc \in InBuffers /\ prev # 0 => opt.u /\ Count(Written, prev) > 0
    /\ pc \in InBuffers /\ muflg => opt.u

\* What is in the buffers is in order, and follows what was written.
BufferInv ==
    pc \in InBuffers =>
      /\ Rising(Written) /\ \A i \in DOMAIN ibuf : Rising(ibuf[i])
      /\ pc = "put" => \A k \in 1..Len(Written) : \A i \in 1..Len(ibuf) : Up(Written[k], Head(ibuf[i]))
      /\ pc = "next" => \A k \in 1..Len(Written) :
                           /\ Written[k] <= Head(Least)
                           /\ \A i \in 1..Len(ibuf) - 1 : Up(Written[k], Head(ibuf[i]))
      /\ pc = "first" /\ ~opt.m => ~muflg
      /\ ~opt.m /\ muflg => Len(ibuf) <= 1

\* The files in the buffers are such, in a row once they are sorted.
RowInv ==
    /\ Bufs(ibuf)
    /\ pc \in {"put", "next", "end"} => Row(ibuf)
    /\ pc = "next" => ibuf # <<>>
    /\ pc = "end" => ibuf = <<>>

\* No line is lost (NothingLost), and a status of 0 is right (OutputRight).
LeftInv ==
    ~opt.c =>
      /\ pc \in Running => \A l \in Line : Same(Left(l), Total(input, l))
      /\ pc \in {"term", "exit"} /\ error = 0 =>
            Rising(out) /\ \A l \in Line : Same(Count(out, l), Total(input, l))

\* -c has found order so far: up to the line whose place is p.
InOrderTo(p) == \A i, j \in 1..p : i < j => /\ input[1][i] <= input[1][j]
                                            /\ opt.u => input[1][i] # input[1][j]

\* There is one buffer, which has the lines from place p on.
LeftFrom(p) == /\ Len(ibuf) = 1 /\ Len(ibuf[1]) = Len(input[1]) - p + 1
               /\ \A k \in 1..Len(ibuf[1]) : ibuf[1][k] = input[1][p + k - 1]

\* What -c has still to read, from the line that it compares the next one with.
CheckInv ==
    opt.c /\ opt.o = None =>
      /\ pc \in Running => a = 0 /\ nfiles = 1 /\ pc \in {"pass", "open"} \cup Merging
      /\ pc \in Merging => os = None
      /\ pc \in InBuffers => muflg
      /\ pc = "first" => /\ \A i \in DOMAIN ibuf : i = 0 /\ ibuf[i] = input[1]
                         /\ input[1] = <<>> \/ 0 \in DOMAIN ibuf
      /\ pc = "put" => \/ ibuf = <<>> /\ input[1] = <<>>
                       \/ \E p \in 1..Len(input[1]) : LeftFrom(p) /\ InOrderTo(p)
      /\ pc = "next" => \E p \in 1..Len(input[1]) : /\ LeftFrom(p) /\ InOrderTo(p)
                                                    /\ prev = input[1][p]
      /\ pc = "end" => InOrderTo(Len(input[1]))

SortInv == TypesInv /\ GivenInv /\ PlaceInv /\ RunInv /\ FileInv /\ RowInv

\* They are what TypeOK says.
LEMMA TypesAreRight == SortInv => TypeOK
  <1> SUFFICES ASSUME SortInv PROVE TypeOK
    OBVIOUS
  <1>1. a \in 0..nfiles /\ upto \in a..nfiles
    BY DEF SortInv, TypesInv
  <1>2. \A i \in DOMAIN ibuf : ibuf[i] \in Seq(1..MaxLine) /\ ibuf[i] # <<>>
    BY DEF SortInv, RowInv, Bufs, Many, Line
  <1>3. pc \in {"put", "next", "end"} => ibuf \in Seq(Seq(1..MaxLine))
    BY DEF SortInv, RowInv, Row, Line
  <1> QED
    BY <1>1, <1>2, <1>3 DEF SortInv, TypesInv, GivenInv, TypeOK, Line

\* The options and the operands are there for good.
LEMMA GivenStays ==
    ASSUME GivenInv, [Next]_vars
    PROVE  /\ GivenInv' /\ input' = input /\ opt' = opt /\ unsafeout' = unsafeout /\ eargc' = eargc
           /\ \A i : Setfil(i)' = Setfil(i)
  <1>1. input' = input /\ opt' = opt /\ unsafeout' = unsafeout
    BY DEF Next, Program, vars, given, Fill, WriteRun, Create, Counted, OpenOut, Pass, MergeOpen,
         MergeFirst, MergePut, MergeNext, MergeEnd, Term, Stop
  <1>2. eargc' = eargc
    BY <1>1 DEF eargc
  <1>3. \A i : Setfil(i)' = Setfil(i)
    BY <1>2 DEF Setfil
  <1>4. GivenInv'
    BY <1>1, <1>2 DEF GivenInv, AmongLast
  <1> QED
    BY <1>1, <1>2, <1>3, <1>4

\* What is written goes where os says.
LEMMA FwriteDoes ==
    ASSUME TypesInv, NEW s \in Seq(Line), Fwrite(s), os # None => Setfil(os) \in DOMAIN temp
    PROVE  /\ out' \in Seq(Line) /\ DOMAIN temp' = DOMAIN temp
           /\ \A f \in DOMAIN temp' : temp'[f] \in Seq(Line)
           /\ os = None => out' = out \o s /\ temp' = temp
           /\ os # None => /\ out' = out /\ temp'[Setfil(os)] = temp[Setfil(os)] \o s
                           /\ \A f \in DOMAIN temp : f # Setfil(os) => temp'[f] = temp[f]
  <1>1. CASE os = None
    <2>1. out' = out \o s /\ temp' = temp
      BY <1>1 DEF Fwrite
    <2>2. out \in Seq(Line) /\ \A f \in DOMAIN temp : temp[f] \in Seq(Line)
      BY DEF TypesInv
    <2>3. out \o s \in Seq(Line)
      BY <2>2
    <2> QED
      BY <1>1, <2>1, <2>2, <2>3
  <1>2. CASE os # None
    <2> DEFINE w == temp[Setfil(os)] \o s
    <2>1. temp[Setfil(os)] \in Seq(Line)
      BY <1>2 DEF TypesInv
    <2>2. w \in Seq(Line)
      BY <2>1
    <2>3. temp' = [temp EXCEPT ![Setfil(os)] = w] /\ out' = out
      BY <1>2 DEF Fwrite
    <2> HIDE DEF w
    <2>4. temp'[Setfil(os)] = w
      BY <1>2, <2>3
    <2> QED
      BY <1>2, <2>2, <2>3, <2>4 DEF TypesInv, w
  <1> QED
    BY <1>1, <1>2

\* What is sorted is a sequence of lines, as many at most.
LEMMA SortingsAre ==
    ASSUME NEW s \in Seq(Line), NEW t \in Sortings(s)
    PROVE  /\ t \in Seq(Line) /\ InOrder(t)
           /\ \A l \in Line : Count(t, l) = IF opt.u /\ Count(s, l) > 0 THEN 1 ELSE Count(s, l)
  <1>1. PICK n \in 0..Len(s) : t \in [1..n -> Line]
    BY DEF Sortings, Line
  <1>2. t \in Seq(Line)
    BY <1>1
  <1> QED
    BY <1>2 DEF Sortings, Line

\* A signal, or an error.
LEMMA StopKeeps == ASSUME SortInv, Stop, GivenInv' PROVE SortInv'
  <1>1. eargc' = eargc /\ \A i : Setfil(i)' = Setfil(i)
    BY DEF Stop, given, eargc, Setfil
  <1>2. TypesInv'
    BY <1>1 DEF SortInv, TypesInv, Stop, sorting, merging
  <1>3. RowInv'
    BY DEF SortInv, RowInv, Stop, merging
  <1>4. pc' = "term" /\ opt' = opt /\ a' = a /\ upto' = upto /\ rest' = rest /\ done' = done
    BY DEF Stop, given, sorting
  <1>5. pc' \notin Running /\ pc' \notin Merging
    BY <1>4 DEF Running, Merging
  <1>6. PlaceInv'
    BY <1>1, <1>4, <1>5 DEF SortInv, PlaceInv, Sorting
  <1>7. RunInv'
    BY <1>4, <1>5 DEF SortInv, RunInv
  <1>8. FileInv'
    BY <1>4, <1>5 DEF FileInv
  <1> QED
    BY <1>2, <1>3, <1>6, <1>7, <1>8 DEF SortInv

\* term().
LEMMA TermKeeps == ASSUME SortInv, Term, GivenInv' PROVE SortInv'
  <1>1. eargc' = eargc
    BY DEF Term, given, eargc
  <1>2. \A f \in DOMAIN temp' : temp'[f] \in Seq(Line)
    BY DEF Term, Unlinked, SortInv, TypesInv
  <1>3. TypesInv'
    BY <1>1, <1>2 DEF SortInv, TypesInv, Term, sorting, merging
  <1>4. RowInv'
    BY DEF SortInv, RowInv, Term, merging
  <1>5. pc' = "exit" /\ opt' = opt /\ a' = a /\ upto' = upto /\ rest' = rest /\ done' = done
    BY DEF Term, given, sorting
  <1>6. pc' \notin Running /\ pc' \notin Merging
    BY <1>5 DEF Running, Merging
  <1>7. PlaceInv'
    BY <1>1, <1>5, <1>6 DEF SortInv, PlaceInv, Sorting
  <1>8. RunInv'
    BY <1>5, <1>6 DEF SortInv, RunInv
  <1>9. FileInv'
    BY <1>5, <1>6 DEF FileInv
  <1> QED
    BY <1>3, <1>4, <1>7, <1>8, <1>9 DEF SortInv

\* The lines are read that memory has room for.
LEMMA FillReads ==
    ASSUME TypesInv, Fill
    PROVE  /\ lspace' \in Seq(Line) /\ rest' \in Seq(Line) /\ Len(lspace') <= Room
           /\ done' \in BOOLEAN /\ (done' => rest' = <<>>)
           /\ \A l : Count(rest, l) = Count(lspace', l) + Count(rest', l)
  <1> DEFINE n == IF Len(rest) < Room THEN Len(rest) ELSE Room
  <1>1. PICK len \in Nat : len = Len(rest)
    BY DEF TypesInv
  <1>2. PICK m \in 0..len : m = n /\ m <= Room /\ (len <= Room => m = len)
    BY <1>1, SortAssumption
  <1>3. lspace' = SubSeq(rest, 1, m) /\ rest' = SubSeq(rest, m + 1, len)
    BY <1>1, <1>2 DEF Fill
  <1>4. done' \in {len < Room} \cup {len <= Room}
    BY <1>1 DEF Fill
  <1>5. rest \in Seq(Line)
    BY DEF TypesInv
  <1>6. /\ lspace' \in Seq(Line) /\ rest' \in Seq(Line)
        /\ \A l : Count(rest, l) = Count(lspace', l) + Count(rest', l)
    BY <1>1, <1>3, <1>5, CountCut
  <1>7. Len(lspace') = m
    BY <1>1, <1>3, <1>5
  <1>8. done' \in BOOLEAN
    <2>1. (len < Room) \in BOOLEAN /\ (len <= Room) \in BOOLEAN
      BY SortAssumption
    <2> QED
      BY <1>4, <2>1, Zenon
  <1>9. done' => len <= Room
    <2>1. CASE len <= Room
      BY <2>1
    <2>2. CASE ~(len <= Room)
      <3>1. (len < Room) = FALSE /\ (len <= Room) = FALSE
        BY <2>2, SortAssumption
      <3>2. done' = FALSE
        BY <1>4, <3>1, Zenon
      <3> QED
        BY <3>2, Zenon
    <2> QED
      BY <2>1, <2>2
  <1>10. len <= Room => rest' = <<>>
    BY <1>1, <1>2, <1>3, <1>5
  <1> QED
    BY <1>2, <1>6, <1>7, <1>8, <1>9, <1>10

\* sort() has read.
LEMMA FillKeeps == ASSUME SortInv, Fill, GivenInv' PROVE SortInv'
  <1>1. eargc' = eargc /\ \A i : Setfil(i)' = Setfil(i)
    BY DEF Fill, given, eargc, Setfil
  <1>2. /\ lspace' \in Seq(Line) /\ rest' \in Seq(Line) /\ Len(lspace') <= Room
        /\ done' \in BOOLEAN /\ (done' => rest' = <<>>)
    BY FillReads DEF SortInv
  <1>3. pc = "fill" /\ pc' \in {"create", "open"} /\ (pc' = "open" => done' /\ nfiles = eargc)
    BY DEF Fill
  <1>4. /\ operand' = operand /\ temp' = temp /\ nfiles' = nfiles /\ a' = a /\ upto' = upto
        /\ os' = os /\ out' = out /\ error' = error /\ opt' = opt
    BY DEF Fill, given
  <1>5. ibuf' = ibuf /\ muflg' = muflg /\ prev' = prev
    BY DEF Fill, merging
  <1>6. TypesInv'
    BY <1>1, <1>2, <1>3, <1>4, <1>5 DEF SortInv, TypesInv, Running
  <1>7. RowInv'
    BY <1>3, <1>5 DEF SortInv, RowInv
  <1>a. /\ ~opt.m /\ ~opt.c /\ a = eargc /\ upto = eargc /\ error # 0 /\ out = <<>>
        /\ opt.o # None => opt.o < a
    BY <1>3 DEF SortInv, PlaceInv, Sorting, RunInv, GivenInv, None
  <1>b. pc' \notin Merging /\ pc' \notin {"fill", "write", "pass", "count"} /\ ~(a < upto)
    BY <1>3, <1>a DEF Merging, SortInv, TypesInv
  <1>8. PlaceInv'
    BY <1>1, <1>2, <1>3, <1>4, <1>a, <1>b DEF SortInv, GivenInv, PlaceInv, Sorting
  <1>9. RunInv'
    BY <1>2, <1>3, <1>4, <1>a, <1>b DEF RunInv
  <1>10. FileInv'
    <2>1. pc \in Running
      BY <1>3 DEF Running
    <2>2. \A i \in eargc..nfiles - 1 : i >= a => Setfil(i) \in DOMAIN temp
      BY <2>1 DEF SortInv, FileInv
    <2>3. (\A i \in eargc..nfiles - 1 : i >= a => Setfil(i) \in DOMAIN temp)'
      BY <1>1, <1>4, <2>2
    <2>4. (\A i \in a..eargc - 1 : operand[i] = input[i + 1])'
      BY <1>1, <1>4, <1>a DEF SortInv, GivenInv
    <2> QED
      BY <1>b, <2>3, <2>4 DEF FileInv
  <1> QED
    BY <1>6, <1>7, <1>8, <1>9, <1>10 DEF SortInv

\* The files that are left stay as they are.
LEMMA FilesStay ==
    ASSUME SortInv, [Next]_vars, pc \in Running, pc' # "count",
           operand' = operand, DOMAIN temp' = DOMAIN temp, nfiles' = nfiles, a' = a
    PROVE  FileInv'
  <1>1. GivenInv
    BY DEF SortInv
  <1>2. input' = input /\ opt' = opt /\ eargc' = eargc /\ \A i : Setfil(i)' = Setfil(i)
    BY <1>1, GivenStays
  <1>3. \A i \in eargc..nfiles - 1 : i >= a => Setfil(i) \in DOMAIN temp
    BY DEF SortInv, FileInv
  <1>4. ~opt.c \/ opt.o = None => \A i \in a..eargc - 1 : operand[i] = input[i + 1]
    BY DEF SortInv, FileInv
  <1>5. (\A i \in eargc..nfiles - 1 : i >= a => Setfil(i) \in DOMAIN temp)'
    BY <1>2, <1>3
  <1>6. (~opt.c \/ opt.o = None => \A i \in a..eargc - 1 : operand[i] = input[i + 1])'
    BY <1>2, <1>4
  <1> QED
    BY <1>5, <1>6 DEF FileInv

\* What sort() knows of itself.
LEMMA SortingFacts ==
    ASSUME SortInv, Sorting
    PROVE  /\ ~opt.m /\ ~opt.c /\ a = eargc /\ upto = eargc /\ out = <<>>
           /\ opt.o # None => opt.o < a
           /\ pc \in Running /\ pc \notin Merging /\ error # 0
  <1>1. pc \in {"fill", "write", "create", "count", "open"}
    BY DEF Sorting
  <1> QED
    BY <1>1 DEF SortInv, PlaceInv, RunInv, Running, Merging, GivenInv, None

\* Memory is written out.
LEMMA WriteRunKeeps ==
    ASSUME SortInv, [Next]_vars, WriteRun, GivenInv'
    PROVE  SortInv' /\ \E s \in Sortings(lspace) : s \in Seq(Line) /\ Fwrite(s)
  <1>1. Sorting
    BY DEF WriteRun, Sorting
  <1>2. /\ ~opt.m /\ ~opt.c /\ a = eargc /\ upto = eargc /\ out = <<>>
        /\ opt.o # None => opt.o < a
        /\ pc \in Running /\ error # 0
    BY <1>1, SortingFacts
  <1>3. input' = input /\ opt' = opt /\ eargc' = eargc /\ \A i : Setfil(i)' = Setfil(i)
    BY GivenStays DEF SortInv
  <1>4. /\ pc = "write" /\ pc' = (IF done THEN "pass" ELSE "fill") /\ lspace' = <<>>
        /\ operand' = operand /\ nfiles' = nfiles /\ rest' = rest /\ done' = done /\ a' = a
        /\ upto' = upto /\ os' = os /\ error' = error
        /\ ibuf' = ibuf /\ muflg' = muflg /\ prev' = prev
    BY DEF WriteRun, merging
  <1>5. PICK s \in Sortings(lspace) : Fwrite(s)
    BY DEF WriteRun
  <1>6. s \in Seq(Line)
    BY SortingsAre DEF SortInv, TypesInv
  <1>7. eargc \in Nat /\ nfiles \in Nat /\ nfiles >= eargc
    BY DEF SortInv, GivenInv, TypesInv
  <1>8. os # None => os \in eargc..nfiles - 1 /\ os >= a
    BY <1>2, <1>4, <1>7 DEF SortInv, PlaceInv, TypesInv
  <1>9. os # None => Setfil(os) \in DOMAIN temp
    BY <1>2, <1>8 DEF SortInv, FileInv
  <1>10. /\ out' \in Seq(Line) /\ DOMAIN temp' = DOMAIN temp
         /\ \A f \in DOMAIN temp' : temp'[f] \in Seq(Line)
         /\ os # None => out' = out
    BY <1>5, <1>6, <1>9, FwriteDoes DEF SortInv
  <1>11. pc' \in {"pass", "fill"} /\ (pc' = "pass" => done)
    BY <1>4
  <1>12. TypesInv'
    <2>1. lspace' \in Seq(Line) /\ Len(lspace') <= Room
      BY <1>4, SortAssumption
    <2>2. pc' \in Running
      BY <1>11 DEF Running
    <2> QED
      BY <1>3, <1>4, <1>10, <2>1, <2>2 DEF SortInv, TypesInv
  <1>13. pc' \notin Merging /\ pc' \notin {"write", "create", "count", "open"}
    BY <1>11 DEF Merging
  <1>14. os = None => nfiles = eargc /\ done
    BY <1>4 DEF SortInv, PlaceInv
  <1>15. os # None => nfiles # a
    BY <1>7, <1>8
  <1>16. PlaceInv'
    BY <1>2, <1>3, <1>4, <1>11, <1>13, <1>14, <1>15 DEF SortInv, GivenInv, PlaceInv, Sorting
  <1>17. RunInv'
    <2>1. done => rest = <<>>
      BY DEF SortInv, RunInv
    <2>2. pc' = "pass" /\ a' # nfiles' => out' = <<>>
      BY <1>2, <1>4, <1>10, <1>14
    <2>3. pc' = "fill" => out' = <<>>
      <3>1. pc' = "fill" => ~done
        BY <1>4
      <3> QED
        BY <1>2, <1>10, <1>14, <3>1
    <2>4. ~(a' < upto')
      BY <1>2, <1>4, <1>7
    <2> QED
      BY <1>4, <1>11, <1>13, <2>1, <2>2, <2>3, <2>4 DEF RunInv
  <1>18. FileInv'
    BY <1>2, <1>4, <1>10, <1>13, FilesStay
  <1>19. RowInv'
    BY <1>4, <1>13, <1>11 DEF SortInv, RowInv
  <1> QED
    BY <1>5, <1>6, <1>12, <1>16, <1>17, <1>18, <1>19 DEF SortInv

\* newfile() creates a file of a number that no file has that is left.
LEMMA CreateKeeps ==
    ASSUME SortInv, [Next]_vars, Create, GivenInv'
    PROVE  /\ SortInv'
           /\ \A i \in eargc..nfiles - 1 : i >= a =>
                 Setfil(i) \in DOMAIN temp' /\ temp'[Setfil(i)] = temp[Setfil(i)]
  <1>1. input' = input /\ opt' = opt /\ eargc' = eargc /\ \A i : Setfil(i)' = Setfil(i)
    BY GivenStays DEF SortInv
  <1>2. /\ pc = "create" /\ pc' = "count"
        /\ operand' = operand /\ nfiles' = nfiles /\ rest' = rest /\ done' = done /\ lspace' = lspace
        /\ a' = a /\ upto' = upto /\ os' = os /\ error' = error /\ out' = out
        /\ ibuf' = ibuf /\ muflg' = muflg /\ prev' = prev
    BY DEF Create, merging, sorting
  <1>3. /\ DOMAIN temp' = DOMAIN temp \cup {Setfil(nfiles)}
        /\ temp'[Setfil(nfiles)] = <<>>
        /\ \A f \in DOMAIN temp : f # Setfil(nfiles) => temp'[f] = temp[f]
    BY DEF Create
  <1>4. eargc \in Nat /\ nfiles \in Nat /\ nfiles >= eargc /\ a \in Nat
    BY DEF SortInv, GivenInv, TypesInv
  <1>5. \A i \in eargc..nfiles - 1 : Setfil(i) # Setfil(nfiles)
    <2> TAKE i \in eargc..nfiles - 1
    <2>1. i \in Int /\ i >= eargc /\ i # nfiles /\ nfiles \in Int
      BY <1>4
    <2> QED
      BY <1>4, <2>1, FilesDiffer
  <1>6. pc \in Running
    BY <1>2 DEF Running
  <1>7. \A i \in eargc..nfiles - 1 : i >= a => Setfil(i) \in DOMAIN temp
    BY <1>6 DEF SortInv, FileInv
  <1>8. \A i \in eargc..nfiles - 1 : i >= a =>
            Setfil(i) \in DOMAIN temp' /\ temp'[Setfil(i)] = temp[Setfil(i)]
    BY <1>3, <1>5, <1>7
  <1>9. TypesInv'
    <2>1. <<>> \in Seq(Line)
      OBVIOUS
    <2>2. \A f \in DOMAIN temp' : temp'[f] \in Seq(Line)
      BY <1>3, <2>1 DEF SortInv, TypesInv
    <2>3. pc' \in Running
      BY <1>2 DEF Running
    <2> QED
      BY <1>1, <1>2, <2>2, <2>3 DEF SortInv, TypesInv
  <1>10. pc' \notin Merging /\ pc \notin Merging
    BY <1>2 DEF Merging
  <1>11. PlaceInv'
    BY <1>1, <1>2, <1>10 DEF SortInv, PlaceInv, Sorting
  <1>12. RunInv'
    BY <1>2, <1>6, <1>10 DEF SortInv, RunInv
  <1>13. FileInv'
    <2>1. (\A i \in eargc..nfiles - 1 : i >= a => Setfil(i) \in DOMAIN temp)'
      BY <1>1, <1>2, <1>8
    <2>2. ~opt.c \/ opt.o = None => \A i \in a..eargc - 1 : operand[i] = input[i + 1]
      BY <1>6 DEF SortInv, FileInv
    <2>3. (~opt.c \/ opt.o = None => \A i \in a..eargc - 1 : operand[i] = input[i + 1])'
      BY <1>1, <1>2, <2>2
    <2>4. (Setfil(nfiles) \in DOMAIN temp /\ temp[Setfil(nfiles)] = <<>>)'
      BY <1>1, <1>2, <1>3
    <2> QED
      BY <2>1, <2>3, <2>4 DEF FileInv
  <1>14. RowInv'
    BY <1>2 DEF SortInv, RowInv
  <1> QED
    BY <1>8, <1>9, <1>11, <1>12, <1>13, <1>14 DEF SortInv

\* newfile() has counted it.
LEMMA CountedKeeps ==
    ASSUME SortInv, [Next]_vars, Counted, GivenInv' PROVE SortInv'
  <1>1. input' = input /\ opt' = opt /\ eargc' = eargc /\ \A i : Setfil(i)' = Setfil(i)
    BY GivenStays DEF SortInv
  <1>2. /\ pc = "count" /\ pc' = (IF a = upto THEN "write" ELSE "merge")
        /\ os' = nfiles /\ nfiles' = nfiles + 1
        /\ operand' = operand /\ temp' = temp /\ rest' = rest /\ done' = done /\ lspace' = lspace
        /\ a' = a /\ upto' = upto /\ error' = error /\ out' = out
        /\ ibuf' = ibuf /\ muflg' = muflg /\ prev' = prev
    BY DEF Counted, Stage, merging, sorting
  <1>3. eargc \in Nat /\ nfiles \in Nat /\ nfiles >= eargc /\ a \in Nat /\ upto \in Nat /\ a <= upto /\ upto <= nfiles
    BY DEF SortInv, GivenInv, TypesInv
  <1>4. pc \in Running /\ pc' \in Running /\ pc' \in {"write", "merge"}
    BY <1>2 DEF Running, Merging
  <1>5. os' # None /\ os' = nfiles' - 1 /\ os' >= upto'
    BY <1>2, <1>3 DEF None
  <1>6. TypesInv'
    <2>1. nfiles' \in Nat /\ nfiles' >= eargc' /\ os' \in eargc'..nfiles' /\ upto' <= nfiles'
      BY <1>1, <1>2, <1>3
    <2> QED
      BY <1>1, <1>2, <1>4, <2>1 DEF SortInv, TypesInv
  <1>7. Setfil(nfiles) \in DOMAIN temp /\ temp[Setfil(nfiles)] = <<>>
    BY <1>2 DEF SortInv, FileInv
  <1>8. ASSUME a = upto PROVE PlaceInv' /\ RunInv'
    <2>1. pc' = "write" /\ Sorting
      BY <1>2, <1>8 DEF Sorting
    <2>2. ~opt.m /\ ~opt.c /\ a = eargc /\ upto = eargc /\ out = <<>> /\ error # 0
      BY <2>1, SortingFacts
    <2>3. pc' \notin Merging
      BY <2>1 DEF Merging
    <2>4. (temp[Setfil(os)] = <<>>)'
      BY <1>1, <1>2, <1>7
    <2>5. PlaceInv'
      BY <1>1, <1>2, <1>5, <2>1, <2>2, <2>3, <2>4 DEF SortInv, GivenInv, PlaceInv, Sorting
    <2>6. RunInv'
      <3>1. ~(a' < upto') /\ (done => rest = <<>>)
        BY <1>2, <1>3, <1>8 DEF SortInv, RunInv
      <3> QED
        BY <1>2, <2>1, <2>2, <2>3, <3>1 DEF RunInv
    <2> QED
      BY <2>5, <2>6
  <1>9. ASSUME a # upto PROVE PlaceInv' /\ RunInv'
    <2>1. pc' = "merge" /\ a < upto
      BY <1>2, <1>3, <1>9
    <2>2. error # 0 /\ out = <<>> /\ rest = <<>> /\ lspace = <<>>
      BY <1>2, <1>4, <2>1 DEF SortInv, PlaceInv, RunInv
    <2>3. PlaceInv'
      BY <1>1, <1>2, <1>5, <2>1, <2>2 DEF SortInv, GivenInv, PlaceInv, Sorting
    <2>4. RunInv'
      BY <1>2, <2>1, <2>2 DEF RunInv
    <2> QED
      BY <2>3, <2>4
  <1>10. FileInv'
    <2>1. \A i \in eargc..nfiles - 1 : i >= a => Setfil(i) \in DOMAIN temp
      BY <1>4 DEF SortInv, FileInv
    <2>2. \A i \in eargc..nfiles : i >= a => Setfil(i) \in DOMAIN temp
      <3> TAKE i \in eargc..nfiles
      <3>1. i = nfiles \/ i \in eargc..nfiles - 1
        BY <1>3
      <3> QED
        BY <1>7, <2>1, <3>1
    <2>3. (\A i \in eargc..nfiles - 1 : i >= a => Setfil(i) \in DOMAIN temp)'
      <3>1. eargc'..nfiles' - 1 = eargc..nfiles
        BY <1>1, <1>2, <1>3
      <3> QED
        BY <1>1, <1>2, <2>2, <3>1
    <2>4. ~opt.c \/ opt.o = None => \A i \in a..eargc - 1 : operand[i] = input[i + 1]
      BY <1>4 DEF SortInv, FileInv
    <2>5. (~opt.c \/ opt.o = None => \A i \in a..eargc - 1 : operand[i] = input[i + 1])'
      BY <1>1, <1>2, <2>4
    <2> QED
      BY <1>4, <2>3, <2>5 DEF FileInv
  <1>11. RowInv'
    BY <1>2, <1>4 DEF SortInv, RowInv
  <1> QED
    BY <1>6, <1>8, <1>9, <1>10, <1>11 DEF SortInv

\* oldfile() empties no operand that is still to be merged.
LEMMA OpenOutKeeps ==
    ASSUME SortInv, [Next]_vars, OpenOut, GivenInv'
    PROVE  SortInv' /\ \A i \in a..eargc - 1 : ~opt.c => operand'[i] = operand[i]
  <1>1. input' = input /\ opt' = opt /\ eargc' = eargc /\ \A i : Setfil(i)' = Setfil(i)
    BY GivenStays DEF SortInv
  <1>2. /\ pc = "open" /\ pc' = (IF a = upto THEN "write" ELSE "merge")
        /\ os' = None /\ nfiles' = nfiles
        /\ temp' = temp /\ rest' = rest /\ done' = done /\ lspace' = lspace
        /\ a' = a /\ upto' = upto /\ error' = error /\ out' = out
        /\ ibuf' = ibuf /\ muflg' = muflg /\ prev' = prev
    BY DEF OpenOut, Stage, merging, sorting
  <1>3. eargc \in Nat /\ nfiles \in Nat /\ nfiles >= eargc /\ a \in Nat /\ upto \in Nat /\ a <= upto /\ upto <= nfiles
    BY DEF SortInv, GivenInv, TypesInv
  <1>4. pc \in Running /\ pc' \in Running /\ pc' \in {"write", "merge"}
    BY <1>2 DEF Running, Merging
  <1>5. /\ opt.o = None => operand' = operand
        /\ opt.o # None => operand' = [operand EXCEPT ![opt.o] = <<>>]
    BY DEF OpenOut
  <1>6. operand \in [0..eargc - 1 -> Seq(Line)]
    BY DEF SortInv, TypesInv
  <1>7. operand' \in [0..eargc' - 1 -> Seq(Line)]
    <2>1. <<>> \in Seq(Line)
      OBVIOUS
    <2> QED
      BY <1>1, <1>5, <1>6, <2>1
  <1>8. TypesInv'
    BY <1>1, <1>2, <1>4, <1>7 DEF SortInv, TypesInv
  <1>9. ~opt.c /\ opt.o # None => opt.o < a /\ opt.o \in Nat
    BY <1>2 DEF SortInv, PlaceInv, GivenInv, None
  <1>10. \A i \in a..eargc - 1 : ~opt.c \/ opt.o = None => operand'[i] = operand[i]
    BY <1>3, <1>5, <1>6, <1>9
  <1>11. error # 0 /\ out = <<>>
    BY <1>2 DEF SortInv, PlaceInv, RunInv
  <1>12. ASSUME a = upto PROVE PlaceInv' /\ RunInv'
    <2>1. pc' = "write" /\ Sorting
      BY <1>2, <1>12 DEF Sorting
    <2>2. ~opt.m /\ ~opt.c /\ a = eargc /\ upto = eargc
      BY <2>1, SortingFacts
    <2>3. pc' \notin Merging
      BY <2>1 DEF Merging
    <2>4. nfiles = eargc /\ done
      BY <1>2, <1>12 DEF SortInv, PlaceInv
    <2>5. PlaceInv'
      BY <1>1, <1>2, <1>11, <2>1, <2>2, <2>3, <2>4 DEF SortInv, GivenInv, PlaceInv, Sorting
    <2>6. RunInv'
      <3>1. ~(a' < upto') /\ (done => rest = <<>>)
        BY <1>2, <1>3, <1>12 DEF SortInv, RunInv
      <3> QED
        BY <1>2, <1>11, <2>1, <2>3, <3>1 DEF RunInv
    <2> QED
      BY <2>5, <2>6
  <1>13. ASSUME a # upto PROVE PlaceInv' /\ RunInv'
    <2>1. pc' = "merge" /\ a < upto
      BY <1>2, <1>3, <1>13
    <2>2. rest = <<>> /\ lspace = <<>> /\ upto = nfiles
      BY <1>2, <1>4, <2>1 DEF SortInv, PlaceInv, RunInv
    <2>3. PlaceInv'
      BY <1>1, <1>2, <1>11, <2>1, <2>2 DEF SortInv, GivenInv, PlaceInv, Sorting
    <2>4. RunInv'
      BY <1>2, <1>11, <2>1, <2>2 DEF RunInv
    <2> QED
      BY <2>3, <2>4
  <1>14. FileInv'
    <2>1. \A i \in eargc..nfiles - 1 : i >= a => Setfil(i) \in DOMAIN temp
      BY <1>4 DEF SortInv, FileInv
    <2>2. (\A i \in eargc..nfiles - 1 : i >= a => Setfil(i) \in DOMAIN temp)'
      BY <1>1, <1>2, <2>1
    <2>3. ~opt.c \/ opt.o = None => \A i \in a..eargc - 1 : operand[i] = input[i + 1]
      BY <1>4 DEF SortInv, FileInv
    <2>4. (~opt.c \/ opt.o = None => \A i \in a..eargc - 1 : operand[i] = input[i + 1])'
      BY <1>1, <1>2, <1>10, <2>3
    <2> QED
      BY <1>4, <2>2, <2>4 DEF FileInv
  <1>15. RowInv'
    BY <1>2, <1>4 DEF SortInv, RowInv
  <1> QED
    BY <1>8, <1>10, <1>12, <1>13, <1>14, <1>15 DEF SortInv

\* What a pass is to merge.
LEMMA PassKeeps ==
    ASSUME SortInv, [Next]_vars, Pass, GivenInv'
    PROVE  SortInv' /\ (pc' = "term" => a = nfiles) /\ (pc' # "term" => a < upto')
  <1>1. input' = input /\ opt' = opt /\ eargc' = eargc /\ \A i : Setfil(i)' = Setfil(i)
    BY GivenStays DEF SortInv
  <1>2. /\ pc = "pass" /\ upto' = Until /\ pc' = (IF Again THEN "create" ELSE IF a # nfiles THEN "open" ELSE "term")
        /\ error' = (IF pc' = "term" THEN 0 ELSE error)
        /\ os' = os /\ nfiles' = nfiles
        /\ operand' = operand /\ temp' = temp /\ rest' = rest /\ done' = done /\ lspace' = lspace
        /\ a' = a /\ out' = out
        /\ ibuf' = ibuf /\ muflg' = muflg /\ prev' = prev
    BY DEF Pass, merging, sorting
  <1>3. eargc \in Nat /\ nfiles \in Nat /\ nfiles >= eargc /\ a \in Nat /\ a <= nfiles
    BY DEF SortInv, GivenInv, TypesInv
  <1>4. N \in Nat /\ N > 1
    BY SortAssumption
  <1>5. upto' \in Nat /\ a <= upto' /\ upto' <= nfiles /\ upto' - a <= N
    BY <1>2, <1>3, <1>4 DEF Until
  <1>6. pc' \in {"create", "open", "term"} /\ pc \in Running
    BY <1>2 DEF Running
  <1>7. Again => a < upto'
    BY <1>2, <1>3, <1>4 DEF Again, Until
  <1>8. ~Again => upto' = nfiles
    BY <1>2, <1>3, <1>4 DEF Again, Until
  <1>9. (pc' = "term" => a = nfiles) /\ (pc' # "term" => a < upto')
    BY <1>2, <1>3, <1>7, <1>8
  <1>10. pc' = "open" => upto' = nfiles
    BY <1>2, <1>8
  <1>11. TypesInv'
    <2>1. error' \in {0, 1}
      BY <1>2 DEF SortInv, TypesInv
    <2> QED
      BY <1>1, <1>2, <1>5, <1>6, <2>1 DEF SortInv, TypesInv, Running
  <1>12. pc' \notin Merging /\ pc' \notin {"fill", "write", "pass", "count"}
    BY <1>6 DEF Merging
  <1>13. pc' = "open" /\ ~opt.c /\ opt.o # None => opt.o < a
    <2> SUFFICES ASSUME pc' = "open", ~opt.c, opt.o # None PROVE opt.o < a
      OBVIOUS
    <2>1. ~Again /\ opt.o \in Nat /\ opt.o < eargc /\ unsafeout \in BOOLEAN
      BY <1>2 DEF SortInv, GivenInv, None
    <2>2a. ~opt.c
      OBVIOUS
    <2>2. CASE opt.m
      <3>1. AmongLast => unsafeout
        BY <2>2 DEF SortInv, GivenInv
      <3>2. a + N >= nfiles /\ (unsafeout => a >= eargc)
        BY <1>3, <1>4, <2>1 DEF Again
      <3>3. opt.o >= eargc - N => unsafeout
        BY <3>1 DEF AmongLast
      <3> QED
        BY <1>3, <1>4, <2>1, <3>2, <3>3
    <2>3. CASE ~opt.m
      <3>1. a >= eargc
        BY <2>2a, <2>3 DEF SortInv, PlaceInv
      <3> QED
        BY <1>3, <2>1, <3>1
    <2> QED
      BY <2>2, <2>3
  <1>14. error = 1
    BY <1>2 DEF SortInv, PlaceInv, TypesInv
  <1>15. PlaceInv'
    <2>1. ~Sorting'
      BY <1>2, <1>9, <1>12, <1>3 DEF Sorting
    <2>2. error' = 0 => pc' = "term"
      BY <1>2, <1>14
    <2>3. pc' = "open" => a' < upto' /\ a' # upto'
      BY <1>2, <1>3, <1>5, <1>9
    <2> QED
      BY <1>1, <1>2, <1>10, <1>12, <1>13, <2>1, <2>2, <2>3 DEF SortInv, PlaceInv
  <1>16. RunInv'
    <2>1. rest = <<>> /\ lspace = <<>>
      BY <1>2 DEF SortInv, RunInv
    <2>2. a # nfiles => out = <<>>
      BY <1>2 DEF SortInv, RunInv
    <2>3. pc' # "term" => a # nfiles
      BY <1>3, <1>5, <1>9
    <2> QED
      BY <1>2, <1>6, <1>12, <2>1, <2>2, <2>3 DEF RunInv
  <1>17. FileInv'
    BY <1>2, <1>6, FilesStay
  <1>18. RowInv'
    BY <1>2, <1>6 DEF SortInv, RowInv
  <1> QED
    BY <1>9, <1>11, <1>15, <1>16, <1>17, <1>18 DEF SortInv

\* The files that are left are sequences of lines.
LEMMA HoldsLines ==
    ASSUME SortInv, pc \in Running, NEW i \in a..nfiles - 1
    PROVE  Holds(i) \in Seq(Line) /\ (i >= eargc => Setfil(i) \in DOMAIN temp)
  <1>1. eargc \in Nat /\ nfiles \in Nat /\ a \in Nat
    BY DEF SortInv, GivenInv, TypesInv
  <1>2. CASE i < eargc
    <2>1. i \in 0..eargc - 1
      BY <1>1, <1>2
    <2>2. operand[i] \in Seq(Line)
      BY <2>1 DEF SortInv, TypesInv
    <2> QED
      BY <1>1, <1>2, <2>2 DEF Holds
  <1>3. CASE ~(i < eargc)
    <2>1. i \in eargc..nfiles - 1 /\ i >= a
      BY <1>1, <1>3
    <2>2. Setfil(i) \in DOMAIN temp
      BY <2>1 DEF SortInv, FileInv
    <2>3. temp[Setfil(i)] \in Seq(Line)
      BY <2>2 DEF SortInv, TypesInv
    <2> QED
      BY <1>3, <2>2, <2>3 DEF Holds
  <1> QED
    BY <1>2, <1>3

\* So are those that are merged.
LEMMA SourcesLines ==
    ASSUME SortInv, pc \in Running
    PROVE  Many(Sources) /\ DOMAIN Sources = a..upto - 1 /\ \A i \in a..upto - 1 : Sources[i] = Holds(i)
  <1>1. a \in Nat /\ upto \in Nat /\ nfiles \in Nat /\ upto <= nfiles
    BY DEF SortInv, TypesInv
  <1>2. \A i \in a..upto - 1 : i \in a..nfiles - 1
    BY <1>1
  <1>3. \A i \in a..upto - 1 : Holds(i) \in Seq(Line)
    BY <1>2, HoldsLines
  <1>4. IsFiniteSet(a..upto - 1)
    BY <1>1, FS_Interval
  <1> QED
    BY <1>3, <1>4 DEF Many, Sources

\* While files are merged, the passes stand still.
LEMMA MergingStays ==
    ASSUME SortInv, [Next]_vars, pc \in Merging, pc' \in Merging \cup {"term"},
           operand' = operand, DOMAIN temp' = DOMAIN temp, nfiles' = nfiles, a' = a, upto' = upto,
           os' = os, rest' = rest, lspace' = lspace, done' = done, error' = error,
           os # None => out' = out
    PROVE  PlaceInv' /\ RunInv' /\ FileInv'
  <1>1. input' = input /\ opt' = opt /\ eargc' = eargc
    BY GivenStays DEF SortInv
  <1>2. pc \in Running
    BY DEF Running
  <1>3. pc' \notin {"fill", "create", "count", "open", "write", "pass"}
    BY DEF Merging
  <1>4. /\ a < upto /\ error # 0 /\ rest = <<>> /\ lspace = <<>>
        /\ os # None => os = nfiles - 1 /\ os >= upto
        /\ os = None => upto = nfiles
        /\ os # None => out = <<>>
        /\ opt.m \/ opt.c \/ a >= eargc
    <2>1. /\ a < upto /\ error # 0
          /\ os # None => os = nfiles - 1 /\ os >= upto
          /\ os = None => upto = nfiles
          /\ opt.m \/ opt.c \/ a >= eargc
      BY DEF SortInv, PlaceInv, Merging
    <2> QED
      BY <1>2, <2>1 DEF SortInv, RunInv
  <1>5. PlaceInv'
    BY <1>1, <1>3, <1>4 DEF PlaceInv, Sorting
  <1>6. RunInv'
    BY <1>3, <1>4 DEF RunInv, SortInv
  <1>7. FileInv'
    BY <1>2, <1>3, FilesStay
  <1> QED
    BY <1>5, <1>6, <1>7

\* The types of what a merge leaves alone.
LEMMA MergingTypes ==
    ASSUME SortInv, [Next]_vars, pc \in Merging, pc' \in Merging \cup {"term"},
           operand' = operand, \A f \in DOMAIN temp' : temp'[f] \in Seq(Line), nfiles' = nfiles,
           a' = a, upto' = upto, os' = os, rest' = rest, lspace' = lspace, done' = done,
           error' = error, out' \in Seq(Line), muflg' \in BOOLEAN, prev' \in 0..MaxLine
    PROVE  TypesInv'
  <1>1. eargc' = eargc
    BY GivenStays DEF SortInv
  <1>2. pc' \in Running \cup {"term"}
    BY DEF Running
  <1> QED
    BY <1>1, <1>2 DEF SortInv, TypesInv

\* merge() opens its files and reads their first lines.
LEMMA MergeOpenKeeps ==
    ASSUME SortInv, [Next]_vars, MergeOpen, GivenInv'
    PROVE  /\ SortInv' /\ \A l : Total(ibuf', l) = Total(Sources, l)
           /\ \A i \in DOMAIN ibuf' : i \in a..upto - 1 /\ ibuf'[i] = Holds(i)
           /\ \A i \in a..upto - 1 : Holds(i) # <<>> => i \in DOMAIN ibuf'
  <1>1. /\ pc = "merge" /\ pc' = "first" /\ muflg' = ((opt.m /\ opt.u) \/ opt.c) /\ prev' = 0
        /\ operand' = operand /\ temp' = temp /\ nfiles' = nfiles /\ a' = a /\ upto' = upto
        /\ os' = os /\ rest' = rest /\ lspace' = lspace /\ done' = done /\ error' = error /\ out' = out
    BY DEF MergeOpen, sorting
  <1>2. pc \in Merging /\ pc' \in Merging /\ pc \in Running
    BY <1>1 DEF Merging, Running
  <1>3. ibuf' = [i \in {f \in a..upto - 1 : Holds(f) # <<>>} |-> Holds(i)]
    BY DEF MergeOpen
  <1>4. Many(Sources) /\ DOMAIN Sources = a..upto - 1 /\ \A i \in a..upto - 1 : Sources[i] = Holds(i)
    BY <1>2, SourcesLines
  <1>5. ibuf' = [i \in {j \in DOMAIN Sources : Sources[j] # <<>>} |-> Sources[i]]
    BY <1>3, <1>4
  <1>6. PICK b : b = ibuf'
    OBVIOUS
  <1>7. \A l : Many(b) /\ Total(b, l) = Total(Sources, l)
    BY <1>4, <1>5, <1>6, TotalFull
  <1>8. /\ \A i \in DOMAIN b : i \in a..upto - 1 /\ b[i] = Holds(i) /\ b[i] # <<>>
        /\ \A i \in a..upto - 1 : Holds(i) # <<>> => i \in DOMAIN b
    BY <1>3, <1>6
  <1>9. Bufs(b)
    BY <1>7, <1>8 DEF Bufs
  <1>10. RowInv'
    BY <1>1, <1>6, <1>9 DEF RowInv
  <1>11. muflg' \in BOOLEAN /\ prev' \in 0..MaxLine
    <2>1. ((opt.m /\ opt.u) \/ opt.c) \in BOOLEAN
      OBVIOUS
    <2>2. muflg' \in BOOLEAN
      BY <1>1, <2>1, Zenon
    <2> QED
      BY <1>1, <2>2, SortAssumption
  <1>12. TypesInv'
    <2>1. (\A f \in DOMAIN temp' : temp'[f] \in Seq(Line)) /\ out' \in Seq(Line)
      BY <1>1 DEF SortInv, TypesInv
    <2> QED
      BY <1>1, <1>2, <1>11, <2>1, MergingTypes
  <1>13. PlaceInv' /\ RunInv' /\ FileInv'
    BY <1>1, <1>2, MergingStays
  <1> QED
    BY <1>6, <1>7, <1>8, <1>10, <1>12, <1>13 DEF SortInv

\* merge() sorts its files.
LEMMA MergeFirstKeeps ==
    ASSUME SortInv, [Next]_vars, MergeFirst, GivenInv'
    PROVE  /\ SortInv'
           /\ \E s \in Arrangements :
                 /\ Row(s) /\ Moved(s, ibuf)
                 /\ \/ /\ opt.u /\ ibuf' = Without(s) /\ pc' = "first"
                    \/ /\ opt.u => \A i \in DOMAIN s : ~Twin(s, i)
                       /\ ibuf' = s /\ pc' = "put"
  <1>1. /\ pc = "first" /\ muflg' = muflg /\ prev' = prev
        /\ operand' = operand /\ temp' = temp /\ nfiles' = nfiles /\ a' = a /\ upto' = upto
        /\ os' = os /\ rest' = rest /\ lspace' = lspace /\ done' = done /\ error' = error /\ out' = out
    BY DEF MergeFirst, sorting
  <1>2. PICK s \in Arrangements :
            IF opt.u /\ \E i \in DOMAIN s : Twin(s, i)
            THEN ibuf' = Without(s) /\ UNCHANGED pc
            ELSE ibuf' = s /\ pc' = "put"
    BY DEF MergeFirst
  <1>3. Row(s) /\ Moved(s, ibuf)
    BY ArrangedRow DEF SortInv, RowInv
  <1>4. \/ /\ opt.u /\ ibuf' = Without(s) /\ pc' = "first"
        \/ /\ opt.u => \A i \in DOMAIN s : ~Twin(s, i)
           /\ ibuf' = s /\ pc' = "put"
    BY <1>1, <1>2
  <1>5. pc \in Merging /\ pc' \in Merging
    BY <1>1, <1>4 DEF Merging
  <1>6. Bufs(ibuf') /\ (pc' = "put" => Row(ibuf'))
    <2>1. CASE ibuf' = Without(s) /\ pc' = "first"
      <3>1. Bufs(Without(s))
        BY <1>3, WithoutKeeps
      <3> QED
        BY <2>1, <3>1
    <2>2. CASE ibuf' = s
      BY <1>3, <2>2, RowBufs
    <2> QED
      BY <1>4, <2>1, <2>2
  <1>7. RowInv'
    <2>1. pc' \in {"first", "put"}
      BY <1>4
    <2>2. Bufs(ibuf)' /\ (pc' = "put" => Row(ibuf)')
      BY <1>6
    <2> QED
      BY <2>1, <2>2 DEF RowInv
  <1>8. TypesInv'
    <2>1. /\ \A f \in DOMAIN temp' : temp'[f] \in Seq(Line)
          /\ out' \in Seq(Line) /\ muflg' \in BOOLEAN /\ prev' \in 0..MaxLine
      BY <1>1 DEF SortInv, TypesInv
    <2> QED
      BY <1>1, <1>5, <2>1, MergingTypes
  <1>9. PlaceInv' /\ RunInv' /\ FileInv'
    BY <1>1, <1>5, MergingStays
  <1> QED
    BY <1>3, <1>4, <1>7, <1>8, <1>9 DEF SortInv

\* Where a line is written while files are merged.
LEMMA OutputThere ==
    ASSUME SortInv, pc \in Running, (pc \in Merging \/ pc = "write"), os # None
    PROVE  os \in eargc..nfiles - 1 /\ os >= a /\ os >= upto /\ Setfil(os) \in DOMAIN temp
  <1>1. eargc \in Nat /\ nfiles \in Nat /\ nfiles >= eargc /\ a \in Nat /\ upto \in Nat /\ a <= upto /\ upto <= nfiles
    BY DEF SortInv, GivenInv, TypesInv
  <1>2. os \in eargc..nfiles
    BY DEF SortInv, TypesInv
  <1>3. os = nfiles - 1 /\ os >= upto
    <2>1. CASE pc = "write"
      <3>1. os = nfiles - 1 /\ upto = eargc
        BY <2>1 DEF SortInv, PlaceInv, Sorting
      <3> QED
        BY <1>1, <1>2, <3>1
    <2>2. CASE pc \in Merging
      BY <2>2 DEF SortInv, PlaceInv
    <2> QED
      BY <2>1, <2>2
  <1>4. os \in eargc..nfiles - 1 /\ os >= a
    BY <1>1, <1>2, <1>3
  <1> QED
    BY <1>3, <1>4 DEF SortInv, FileInv

\* merge() writes the least line, or leaves it to the next file that has it.
LEMMA MergePutKeeps ==
    ASSUME SortInv, [Next]_vars, MergePut, GivenInv'
    PROVE  /\ SortInv'
           /\ ibuf # <<>> => /\ Least \in Seq(Line) /\ Least # <<>> /\ Head(Least) \in Line
                             /\ Wanted => Fwrite(<<Head(Least)>>)
                             /\ ~Wanted => out' = out /\ temp' = temp
  <1>1. /\ pc = "put" /\ muflg' = muflg /\ ibuf' = ibuf
        /\ operand' = operand /\ nfiles' = nfiles /\ a' = a /\ upto' = upto
        /\ os' = os /\ rest' = rest /\ lspace' = lspace /\ done' = done /\ error' = error
    BY DEF MergePut, sorting
  <1>2. /\ ibuf = <<>> => pc' = "end" /\ temp' = temp /\ out' = out /\ prev' = prev
        /\ ibuf # <<>> => /\ pc' = "next"
                          /\ Wanted => Fwrite(<<Head(Least)>>)
                          /\ ~Wanted => temp' = temp /\ out' = out
                          /\ prev' = IF muflg THEN Head(Least) ELSE prev
    BY DEF MergePut
  <1>3. Row(ibuf) /\ Bufs(ibuf)
    BY <1>1 DEF SortInv, RowInv
  <1>4. ibuf # <<>> => Least \in Seq(Line) /\ Least # <<>> /\ Head(Least) \in Line
    BY <1>3, AdvancedRow
  <1>5. pc \in Merging /\ pc' \in Merging /\ pc \in Running
    BY <1>1, <1>2 DEF Merging, Running
  <1>6. os # None => Setfil(os) \in DOMAIN temp
    BY <1>5, OutputThere
  <1>7. /\ DOMAIN temp' = DOMAIN temp /\ \A f \in DOMAIN temp' : temp'[f] \in Seq(Line)
        /\ out' \in Seq(Line) /\ (os # None => out' = out)
    <2>1. CASE temp' = temp /\ out' = out
      BY <2>1 DEF SortInv, TypesInv
    <2>2. CASE ibuf # <<>> /\ Fwrite(<<Head(Least)>>)
      <3>1. <<Head(Least)>> \in Seq(Line)
        BY <1>4, <2>2
      <3> QED
        BY <1>6, <2>2, <3>1, FwriteDoes DEF SortInv
    <2> QED
      BY <1>2, <2>1, <2>2
  <1>8. prev' \in 0..MaxLine
    <2>1. Line \subseteq 0..MaxLine
      BY SortAssumption DEF Line
    <2>2. prev \in 0..MaxLine
      BY DEF SortInv, TypesInv
    <2> QED
      BY <1>2, <1>4, <2>1, <2>2
  <1>9. muflg' \in BOOLEAN
    BY <1>1 DEF SortInv, TypesInv
  <1>10. TypesInv'
    BY <1>1, <1>5, <1>7, <1>8, <1>9, MergingTypes
  <1>11. PlaceInv' /\ RunInv' /\ FileInv'
    BY <1>1, <1>5, <1>7, MergingStays
  <1>12. RowInv'
    BY <1>1, <1>2, <1>3 DEF RowInv
  <1> QED
    BY <1>2, <1>4, <1>10, <1>11, <1>12 DEF SortInv

\* merge() reads the next line.
LEMMA MergeNextKeeps ==
    ASSUME SortInv, [Next]_vars, MergeNext, GivenInv' PROVE SortInv'
  <1>1. /\ pc = "next" /\ ibuf' = Advanced /\ temp' = temp /\ out' = out
        /\ operand' = operand /\ nfiles' = nfiles /\ a' = a /\ upto' = upto
        /\ os' = os /\ rest' = rest /\ lspace' = lspace /\ done' = done /\ error' = error
    BY DEF MergeNext, sorting
  <1>2. Row(ibuf) /\ ibuf # <<>>
    BY <1>1 DEF SortInv, RowInv
  <1>3. Row(Advanced)
    BY <1>2, AdvancedRow
  <1>4. Row(ibuf') /\ Bufs(ibuf')
    BY <1>1, <1>3, RowBufs
  <1>5. /\ ibuf' = <<>> => pc' = "end"
        /\ ibuf' # <<>> => pc' \in {"put", "next", "term"}
    BY DEF MergeNext
  <1>6. pc \in Merging /\ pc' \in Merging \cup {"term"}
    BY <1>1, <1>5 DEF Merging
  <1>7. muflg' \in BOOLEAN /\ prev' \in 0..MaxLine
    <2> DEFINE one == Len(Least) = 1 /\ Len(Advanced) = 1
    <2>1. muflg' = (IF one THEN opt.u ELSE muflg) /\ prev' = (IF one THEN 0 ELSE prev)
      BY DEF MergeNext
    <2> HIDE DEF one
    <2>2. muflg \in BOOLEAN /\ prev \in 0..MaxLine /\ 0 \in 0..MaxLine
      BY SortAssumption DEF SortInv, TypesInv
    <2>3. opt.u \in BOOLEAN
      BY DEF SortInv, GivenInv
    <2> QED
      BY <2>1, <2>2, <2>3, Zenon
  <1>8. TypesInv'
    <2>1. (\A f \in DOMAIN temp' : temp'[f] \in Seq(Line)) /\ out' \in Seq(Line)
      BY <1>1 DEF SortInv, TypesInv
    <2> QED
      BY <1>1, <1>6, <1>7, <2>1, MergingTypes
  <1>9. PlaceInv' /\ RunInv' /\ FileInv'
    BY <1>1, <1>6, MergingStays
  <1>10. RowInv'
    <2>1. Bufs(ibuf)' /\ Row(ibuf)'
      BY <1>4
    <2> QED
      BY <1>5, <2>1 DEF RowInv
  <1> QED
    BY <1>8, <1>9, <1>10 DEF SortInv

\* merge() is done, and its files are unlinked.
LEMMA MergeEndKeeps ==
    ASSUME SortInv, [Next]_vars, MergeEnd, GivenInv'
    PROVE  /\ SortInv'
           /\ \A i \in upto..nfiles - 1 : i >= eargc =>
                 Setfil(i) \in DOMAIN temp' /\ temp'[Setfil(i)] = temp[Setfil(i)]
  <1>1. input' = input /\ opt' = opt /\ eargc' = eargc /\ \A i : Setfil(i)' = Setfil(i)
    BY GivenStays DEF SortInv
  <1>2. /\ pc = "end" /\ a' = upto /\ upto' = upto /\ out' = out /\ muflg' = muflg /\ prev' = prev
        /\ operand' = operand /\ nfiles' = nfiles /\ ibuf' = ibuf
        /\ os' = os /\ rest' = rest /\ lspace' = lspace /\ done' = done
        /\ os = None => pc' = "term" /\ error' = 0
        /\ os # None => pc' = "pass" /\ error' = error
        /\ temp' = Unlinked((eargc..nfiles) \cap (a..upto - 1))
    BY DEF MergeEnd, sorting, merging
  <1>3. pc \in Merging /\ pc \in Running
    BY <1>2 DEF Merging, Running
  <1>4. eargc \in Nat /\ nfiles \in Nat /\ nfiles >= eargc /\ a \in Nat /\ upto \in Nat /\ a <= upto /\ upto <= nfiles
    BY DEF SortInv, GivenInv, TypesInv
  <1>5. /\ DOMAIN temp' = DOMAIN temp \ {Setfil(i) : i \in (eargc..nfiles) \cap (a..upto - 1)}
        /\ \A f \in DOMAIN temp' : temp'[f] = temp[f]
    BY <1>2 DEF Unlinked
  <1>6. ASSUME NEW i \in upto..nfiles - 1, i >= eargc
        PROVE  Setfil(i) \in DOMAIN temp' /\ temp'[Setfil(i)] = temp[Setfil(i)]
    <2>1. i \in eargc..nfiles - 1 /\ i >= a
      BY <1>4, <1>6
    <2>2. Setfil(i) \in DOMAIN temp
      BY <1>3, <2>1 DEF SortInv, FileInv
    <2>3. ASSUME NEW j \in (eargc..nfiles) \cap (a..upto - 1) PROVE Setfil(i) # Setfil(j)
      <3>1. i \in Int /\ j \in Int /\ i >= eargc /\ j >= eargc /\ i # j
        BY <1>4, <1>6
      <3> QED
        BY <1>4, <3>1, FilesDiffer
    <2> QED
      BY <1>5, <2>2, <2>3
  <1>7. pc' \in {"term", "pass"} /\ pc' \notin Merging
    BY <1>2 DEF Merging
  <1>8. TypesInv'
    <2>1. \A f \in DOMAIN temp' : temp'[f] \in Seq(Line)
      BY <1>5 DEF SortInv, TypesInv
    <2>2. upto - upto <= N
      BY <1>4, SortAssumption
    <2>3. error' \in {0, 1} /\ pc' \in Running \cup {"term", "exit"}
      BY <1>2 DEF SortInv, TypesInv, Running
    <2>4. done' \in BOOLEAN /\ muflg' \in BOOLEAN
      BY <1>2, Zenon DEF SortInv, TypesInv
    <2>5. /\ os' \in (eargc'..nfiles') \cup {None} /\ prev' \in 0..MaxLine
          /\ out' \in Seq(Line) /\ rest' \in Seq(Line) /\ lspace' \in Seq(Line) /\ Len(lspace') <= Room
          /\ operand' \in [0..eargc' - 1 -> Seq(Line)]
      BY <1>1, <1>2 DEF SortInv, TypesInv
    <2>6. /\ a' \in Nat /\ upto' \in Nat /\ a' <= upto' /\ upto' <= nfiles' /\ upto' - a' <= N
          /\ nfiles' \in Nat /\ nfiles' >= eargc'
      BY <1>1, <1>2, <1>4, <2>2
    <2> QED
      BY <2>1, <2>3, <2>4, <2>5, <2>6 DEF TypesInv
  <1>9. /\ a < upto /\ error # 0 /\ rest = <<>> /\ lspace = <<>>
        /\ os # None => os = nfiles - 1 /\ os >= upto
        /\ os # None => out = <<>>
        /\ opt.m \/ opt.c \/ a >= eargc
    <2>1. /\ a < upto /\ error # 0
          /\ os # None => os = nfiles - 1 /\ os >= upto
          /\ opt.m \/ opt.c \/ a >= eargc
      BY <1>3 DEF SortInv, PlaceInv, Running, Merging
    <2> QED
      BY <1>3, <2>1 DEF SortInv, RunInv
  <1>10. PlaceInv'
    <2>1. pc' = "pass" => upto # nfiles
      BY <1>2, <1>4, <1>9
    <2>2. ~Sorting'
      BY <1>7 DEF Sorting
    <2>3. error' = 0 => pc' = "term"
      BY <1>2, <1>9
    <2>4. (opt.m \/ opt.c \/ a >= eargc)'
      BY <1>1, <1>2, <1>4, <1>9
    <2> QED
      BY <1>1, <1>2, <1>7, <2>1, <2>2, <2>3, <2>4 DEF PlaceInv
  <1>11. RunInv'
    BY <1>2, <1>7, <1>9 DEF SortInv, RunInv
  <1>12. FileInv'
    <2>1. \A i \in eargc..nfiles - 1 : i >= upto => Setfil(i) \in DOMAIN temp'
      BY <1>4, <1>6
    <2>2. (\A i \in eargc..nfiles - 1 : i >= a => Setfil(i) \in DOMAIN temp)'
      BY <1>1, <1>2, <2>1
    <2>3. ~opt.c \/ opt.o = None => \A i \in a..eargc - 1 : operand[i] = input[i + 1]
      BY <1>3 DEF SortInv, FileInv
    <2>4. ~opt.c \/ opt.o = None => \A i \in upto..eargc - 1 : operand[i] = input[i + 1]
      BY <1>4, <2>3
    <2>5. (~opt.c \/ opt.o = None => \A i \in a..eargc - 1 : operand[i] = input[i + 1])'
      BY <1>1, <1>2, <2>4
    <2> QED
      BY <1>7, <2>2, <2>5 DEF FileInv
  <1>13. RowInv'
    BY <1>2, <1>7 DEF SortInv, RowInv
  <1> QED
    BY <1>6, <1>8, <1>10, <1>11, <1>12, <1>13 DEF SortInv

\* At first.
LEMMA SortInit == Init => SortInv
  <1> SUFFICES ASSUME Init PROVE SortInv
    OBVIOUS
  <1>1. /\ input \in Inputs /\ opt \in [m : BOOLEAN, c : BOOLEAN, u : BOOLEAN, o : {None} \cup 0..eargc - 1]
        /\ opt.c => ~opt.m /\ eargc = 1
        /\ opt.m => \A i \in 1..eargc : InOrder(input[i])
        /\ pc = IF opt.m \/ opt.c THEN "pass" ELSE "fill"
        /\ operand = [i \in 0..eargc - 1 |-> input[i + 1]]
        /\ temp = [f \in {} |-> <<>>]
        /\ nfiles = eargc /\ unsafeout \in Unsafe
        /\ rest = IF opt.m \/ opt.c THEN <<>> ELSE Joined(input)
        /\ lspace = <<>> /\ done = FALSE
        /\ a = (IF opt.m \/ opt.c THEN 0 ELSE eargc) /\ upto = a
        /\ os = None /\ ibuf = <<>> /\ muflg = FALSE /\ prev = 0
        /\ out = <<>> /\ error = 1
    BY DEF Init
  <1>2. input \in Seq(Seq(Line)) /\ input # <<>>
    BY <1>1, SortAssumption DEF Line
  <1>3. eargc \in Nat /\ eargc > 0
    BY <1>2 DEF eargc
  <1>4. opt.m \in BOOLEAN /\ opt.c \in BOOLEAN /\ opt.u \in BOOLEAN /\ opt.o \in {None} \cup 0..eargc - 1
    BY <1>1
  <1>5. /\ unsafeout \in BOOLEAN /\ (opt.m \/ unsafeout = FALSE)
        /\ opt.m /\ AmongLast => unsafeout
    <2>1. CASE ~opt.m
      BY <1>1, <2>1 DEF Unsafe
    <2>2. CASE opt.m /\ AmongLast
      BY <1>1, <2>2 DEF Unsafe
    <2>3. CASE opt.m /\ ~AmongLast
      <3>1. unsafeout \in {FALSE, eargc < N}
        BY <1>1, <2>3 DEF Unsafe
      <3>2. (eargc < N) \in BOOLEAN
        BY <1>3, SortAssumption
      <3>3. unsafeout \in BOOLEAN
        BY <3>1, <3>2, Zenon
      <3> QED
        BY <2>3, <3>3
    <2> QED
      BY <2>1, <2>2, <2>3
  <1>6. GivenInv
    BY <1>1, <1>2, <1>3, <1>4, <1>5 DEF GivenInv
  <1>7. <<>> \in Seq(Line)
    OBVIOUS
  <1>8. pc \in {"pass", "fill"} /\ (pc = "fill" <=> ~(opt.m \/ opt.c))
    BY <1>1
  <1>9. pc \in Running /\ pc \notin Merging
    BY <1>8 DEF Running, Merging
  <1>10. a \in Nat /\ a <= nfiles /\ upto = a
    BY <1>1, <1>3
  <1>11. TypesInv
    <2>1. operand \in [0..eargc - 1 -> Seq(Line)]
      <3>1. \A i \in 0..eargc - 1 : input[i + 1] \in Seq(Line)
        <4> TAKE i \in 0..eargc - 1
        <4>1. i + 1 \in 1..Len(input)
          BY <1>3 DEF eargc
        <4> QED
          BY <1>2, <4>1
      <3> QED
        BY <1>1, <3>1
    <2>2. \A f \in DOMAIN temp : temp[f] \in Seq(Line)
      BY <1>1
    <2>3. rest \in Seq(Line)
      BY <1>1, <1>2, <1>7, JoinedCounts
    <2>4. lspace \in Seq(Line) /\ Len(lspace) <= Room /\ out \in Seq(Line)
      BY <1>1, <1>7, SortAssumption
    <2>5. upto - a <= N /\ 0 \in 0..MaxLine
      BY <1>10, SortAssumption
    <2>6. done \in BOOLEAN /\ muflg \in BOOLEAN
      BY <1>1
    <2>7. /\ os \in (eargc..nfiles) \cup {None} /\ error \in {0, 1} /\ prev \in 0..MaxLine
          /\ nfiles \in Nat /\ nfiles >= eargc
      BY <1>1, <1>3, <2>5
    <2> QED
      BY <1>9, <1>10, <2>1, <2>2, <2>3, <2>4, <2>5, <2>6, <2>7 DEF TypesInv
  <1>12. PlaceInv
    BY <1>1, <1>3, <1>8, <1>9, <1>10 DEF PlaceInv, Sorting
  <1>13. RunInv
    BY <1>1, <1>8, <1>9, <1>10 DEF RunInv
  <1>14. FileInv
    <2>1. \A i \in a..eargc - 1 : operand[i] = input[i + 1]
      BY <1>1, <1>3
    <2>2. \A i \in eargc..nfiles - 1 : i >= a => Setfil(i) \in DOMAIN temp
      BY <1>1, <1>3
    <2> QED
      BY <1>8, <2>1, <2>2 DEF FileInv
  <1>15. RowInv
    <2>1. DOMAIN ibuf = {}
      BY <1>1
    <2>2. IsFiniteSet(DOMAIN ibuf)
      BY <2>1, FS_EmptySet
    <2> QED
      BY <1>8, <2>1, <2>2 DEF RowInv, Bufs, Many
  <1> QED
    BY <1>6, <1>11, <1>12, <1>13, <1>14, <1>15 DEF SortInv

\* Every step keeps it.
LEMMA SortStep == SortInv /\ [Next]_vars => SortInv'
  <1> SUFFICES ASSUME SortInv, [Next]_vars PROVE SortInv'
    OBVIOUS
  <1>1. GivenInv'
    BY GivenStays DEF SortInv
  <1>2. CASE Fill
    BY <1>1, <1>2, FillKeeps
  <1>3. CASE WriteRun
    BY <1>1, <1>3, WriteRunKeeps
  <1>4. CASE Create
    BY <1>1, <1>4, CreateKeeps
  <1>5. CASE Counted
    BY <1>1, <1>5, CountedKeeps
  <1>6. CASE OpenOut
    BY <1>1, <1>6, OpenOutKeeps
  <1>7. CASE Pass
    BY <1>1, <1>7, PassKeeps
  <1>8. CASE MergeOpen
    BY <1>1, <1>8, MergeOpenKeeps
  <1>9. CASE MergeFirst
    BY <1>1, <1>9, MergeFirstKeeps
  <1>10. CASE MergePut
    BY <1>1, <1>10, MergePutKeeps
  <1>11. CASE MergeNext
    BY <1>1, <1>11, MergeNextKeeps
  <1>12. CASE MergeEnd
    BY <1>1, <1>12, MergeEndKeeps
  <1>13. CASE Term
    BY <1>1, <1>13, TermKeeps
  <1>14. CASE Stop
    BY <1>1, <1>14, StopKeeps
  <1>15. CASE UNCHANGED vars
    <2>1. UNCHANGED <<eargc, Sorting, Again>> /\ \A i : Setfil(i)' = Setfil(i)
      BY <1>15 DEF vars, eargc, Setfil, Sorting, Again
    <2>2. TypesInv' /\ PlaceInv' /\ RunInv'
      BY <1>15, <2>1 DEF SortInv, vars, TypesInv, PlaceInv, RunInv, Sorting
    <2>3. FileInv' /\ RowInv'
      BY <1>15, <2>1 DEF SortInv, vars, FileInv, RowInv, Bufs, Many, Row, Falling
    <2> QED
      BY <1>1, <2>2, <2>3 DEF SortInv
  <1> QED
    BY <1>2, <1>3, <1>4, <1>5, <1>6, <1>7, <1>8, <1>9, <1>10, <1>11, <1>12, <1>13, <1>14, <1>15
       DEF Next, Program

-----------------------------------------------------------------------------
(* Order, and how often a line is there *)

\* Lines are compared as numbers; 0 is none.
LEMMA LineInt == \A l \in Line : l \in Int /\ l > 0
  BY SortAssumption DEF Line

\* Same is an equivalence, and keeps sums.
LEMMA SameIs ==
    ASSUME NEW x \in Nat, NEW y \in Nat, NEW z \in Nat, NEW w \in Nat
    PROVE  /\ Same(x, x) /\ (Same(x, y) => Same(y, x))
           /\ Same(x, y) /\ Same(y, z) => Same(x, z)
           /\ Same(x, y) /\ Same(z, w) => Same(x + z, y + w)
  <1>1. CASE opt.u
    BY <1>1 DEF Same
  <1>2. CASE ~opt.u
    BY <1>2 DEF Same
  <1> QED
    BY <1>1, <1>2

\* A file that is in order goes on with a line that may follow.
LEMMA RisingJoin ==
    ASSUME NEW s \in Seq(Line), Rising(s), NEW x \in Line, \A k \in 1..Len(s) : Up(s[k], x)
    PROVE  Rising(s \o <<x>>)
  <1>1. PICK n \in Nat : n = Len(s)
    OBVIOUS
  <1>2. PICK t : t = s \o <<x>>
    OBVIOUS
  <1>3. Len(t) = n + 1 /\ t[n + 1] = x /\ \A k \in 1..n : t[k] = s[k]
    BY <1>1, <1>2
  <1>4. InOrder(t)
    <2> SUFFICES ASSUME NEW i \in 1..n + 1, NEW j \in 1..n + 1, i < j PROVE t[i] <= t[j]
      BY <1>3 DEF InOrder
    <2>1. CASE j = n + 1
      BY <1>1, <1>3, <2>1 DEF Up
    <2>2. CASE j # n + 1
      BY <1>1, <1>3, <2>2 DEF Rising, InOrder
    <2> QED
      BY <2>1, <2>2
  <1>5. opt.u /\ ~opt.m => Distinct(t)
    <2> SUFFICES ASSUME opt.u /\ ~opt.m, NEW i \in 1..n + 1, NEW j \in 1..n + 1, i # j PROVE t[i] # t[j]
      BY <1>3 DEF Distinct
    <2>1. CASE j = n + 1
      BY <1>1, <1>3, <2>1 DEF Up
    <2>2. CASE i = n + 1
      BY <1>1, <1>3, <2>2 DEF Up
    <2>3. CASE i # n + 1 /\ j # n + 1
      BY <1>1, <1>3, <2>3 DEF Rising, Distinct
    <2> QED
      BY <2>1, <2>2, <2>3
  <1> QED
    BY <1>2, <1>4, <1>5 DEF Rising

\* The rest of a file is in order, and follows its first line.
LEMMA RisingTail ==
    ASSUME NEW s \in Seq(Line), s # <<>>, Rising(s)
    PROVE  /\ Rising(Tail(s))
           /\ Tail(s) # <<>> => Head(Tail(s)) \in Line /\ Up(Head(s), Head(Tail(s)))
  <1>1. PICK n \in Nat : n = Len(s)
    OBVIOUS
  <1>2. PICK t \in Seq(Line) : t = Tail(s)
    BY OneLine
  <1>3. n > 0 /\ Len(t) = n - 1 /\ \A k \in 1..n - 1 : t[k] = s[k + 1]
    BY <1>1, <1>2
  <1>4. Rising(t)
    <2>1. InOrder(t)
      BY <1>1, <1>3 DEF Rising, InOrder
    <2>2. opt.u /\ ~opt.m => Distinct(t)
      BY <1>1, <1>3 DEF Rising, Distinct
    <2> QED
      BY <2>1, <2>2 DEF Rising
  <1>5. ASSUME t # <<>> PROVE Head(t) \in Line /\ Up(Head(s), Head(t))
    <2>1. Len(t) > 0
      BY <1>5
    <2>2. Head(s) = s[1] /\ Head(t) = s[2] /\ 1 \in 1..n /\ 2 \in 1..n
      BY <1>1, <1>3, <1>5, <2>1
    <2>3. Head(t) \in Line
      BY <1>5
    <2> QED
      BY <1>1, <2>2, <2>3 DEF Rising, InOrder, Distinct, Up
  <1> QED
    BY <1>2, <1>4, <1>5

\* What quicksort() makes of the lines is in order, and none is lost.
LEMMA SortingsRise ==
    ASSUME NEW s \in Seq(Line), NEW t \in Sortings(s)
    PROVE  t \in Seq(Line) /\ Rising(t) /\ \A l \in Line : Same(Count(s, l), Count(t, l))
  <1>1. /\ t \in Seq(Line) /\ InOrder(t)
        /\ \A l \in Line : Count(t, l) = IF opt.u /\ Count(s, l) > 0 THEN 1 ELSE Count(s, l)
    BY SortingsAre
  <1>2. \A l \in Line : Count(s, l) \in Nat /\ Count(t, l) \in Nat
    BY <1>1, CountType
  <1>3. ASSUME NEW l \in Line PROVE Same(Count(s, l), Count(t, l))
    BY <1>1, <1>2 DEF Same
  <1>4. ASSUME opt.u, NEW i \in 1..Len(t), NEW j \in 1..Len(t), i # j, t[i] = t[j] PROVE FALSE
    <2>1. PICK l \in Line : l = t[i]
      BY <1>1
    <2>2. i \in At(t, l) /\ j \in At(t, l)
      BY <1>4, <2>1 DEF At
    <2>3. IsFiniteSet(At(t, l)) /\ Count(t, l) = Cardinality(At(t, l)) /\ Count(t, l) > 0
      BY <1>1, <1>4, <2>1, CountType
    <2>4. Count(t, l) = 1
      BY <1>1, <1>2, <1>4, <2>3
    <2>5. PICK x : At(t, l) = {x}
      BY <2>3, <2>4, FS_Singleton
    <2> QED
      BY <1>4, <2>2, <2>5
  <1> QED
    BY <1>1, <1>3, <1>4 DEF Rising, Distinct

-----------------------------------------------------------------------------
(* The files *)

\* The files that count are sequences of lines.
LEMMA FilesLines ==
    ASSUME SortInv, pc \in Running
    PROVE  Many(Files) /\ DOMAIN Files = Kept /\ \A i \in Kept : Files[i] = Holds(i)
  <1>1. a \in Nat /\ nfiles \in Nat
    BY DEF SortInv, TypesInv
  <1>2. Kept \in SUBSET (a..nfiles - 1)
    BY DEF Kept
  <1>3. IsFiniteSet(Kept)
    <2>1. IsFiniteSet(a..nfiles - 1)
      BY <1>1, FS_Interval
    <2> QED
      BY <1>2, <2>1, FS_Subset
  <1>4. \A i \in Kept : Holds(i) \in Seq(Line)
    BY <1>2, HoldsLines
  <1>5. Files = [i \in Kept |-> Holds(i)]
    BY DEF Files, Kept
  <1> QED
    BY <1>3, <1>4, <1>5 DEF Many

\* What a line that is left is counted by.
LEMMA LeftIs ==
    ASSUME SortInv, pc \in Running, NEW l
    PROVE  /\ Count(rest, l) \in Nat /\ Count(lspace, l) \in Nat /\ Total(Files, l) \in Nat
           /\ Count(out, l) \in Nat /\ Left(l) \in Nat
           /\ Total(input, l) \in Nat
  <1>1. Count(rest, l) \in Nat /\ Count(lspace, l) \in Nat /\ Count(out, l) \in Nat
    BY CountType DEF SortInv, TypesInv
  <1>2. Total(Files, l) \in Nat
    BY FilesLines, TotalType
  <1>3. Many(input)
    <2>1. input \in Seq(Seq(Line)) /\ Len(input) \in Nat
      BY DEF SortInv, GivenInv
    <2>2. DOMAIN input = 1..Len(input) /\ IsFiniteSet(1..Len(input))
      BY <2>1, FS_Interval
    <2> QED
      BY <2>1, <2>2 DEF Many
  <1>4. Total(input, l) \in Nat
    BY <1>3, TotalType
  <1> QED
    BY <1>1, <1>2, <1>4 DEF Left

\* h is made of the files of f and those of g.
Parts(h, f, g) == /\ Many(f) /\ Many(g)
                  /\ DOMAIN h = DOMAIN f \cup DOMAIN g /\ DOMAIN f \cap DOMAIN g = {}
                  /\ \A i \in DOMAIN f : h[i] = f[i]
                  /\ \A i \in DOMAIN g : h[i] = g[i]

\* Parts count for the whole.
LEMMA TotalParts ==
    ASSUME NEW f, NEW g, NEW h, Parts(h, f, g), NEW l
    PROVE  Total(h, l) = Total(f, l) + Total(g, l)
  BY TotalApart DEF Parts

\* The lines of a file and those of the others.
LEMMA TotalWith ==
    ASSUME NEW f, Many(f), NEW h, NEW x, x \notin DOMAIN f, DOMAIN h = DOMAIN f \cup {x},
           h[x] \in Seq(Line), \A i \in DOMAIN f : h[i] = f[i], NEW l
    PROVE  Many(h) /\ Total(h, l) = Total(f, l) + Count(h[x], l)
  <1>1. Many(h)
    <2>1. IsFiniteSet(DOMAIN h)
      BY FS_AddElement DEF Many
    <2> QED
      BY <2>1 DEF Many
  <1>2. Total(h, l) = Total(Others(h, x), l) + Count(h[x], l)
    BY <1>1, TotalAt
  <1>3. DOMAIN Others(h, x) = DOMAIN f /\ \A i \in DOMAIN f : Others(h, x)[i] = f[i]
    BY DEF Others
  <1>4. Occurrences(Others(h, x), l) = Occurrences(f, l)
    BY <1>3 DEF Occurrences
  <1> QED
    BY <1>1, <1>2, <1>4 DEF Total

\* How often l is in the output, where it counts.
There(l) == IF os = None /\ a = upto THEN Count(out, l) ELSE 0

\* What is left, with the output as one summand.
LEMMA LeftThere == \A l : Left(l) = Count(rest, l) + Count(lspace, l) + Total(Files, l) + There(l)
  BY DEF Left, There

\* It is a number.
LEMMA ThereNat == ASSUME SortInv, NEW l PROVE There(l) \in Nat
  BY CountType DEF SortInv, TypesInv, There

\* Steps that leave the files that count as they are.
LEMMA Stands ==
    ASSUME SortInv, SortInv', [Next]_vars, OrderInv, LeftInv, ~opt.c,
           pc \in Running, pc' \in Running, pc' # "pass", Kept' = Kept,
           \A i \in Kept : Holds(i)' = Holds(i),
           \A l : Count(rest', l) + Count(lspace', l) = Count(rest, l) + Count(lspace, l),
           \A l : There(l)' = There(l)
    PROVE  OrderInv' /\ LeftInv'
  <1>1. opt' = opt /\ input' = input
    BY GivenStays DEF SortInv
  <1>2. OrderInv'
    <2>1. \A i \in Kept : Rising(Holds(i))
      BY DEF OrderInv
    <2>2. (\A i \in Kept : Rising(Holds(i)))'
      BY <1>1, <2>1 DEF Rising
    <2> QED
      BY <2>2 DEF OrderInv
  <1>3. Files' = Files
    <2>1. Files = [i \in Kept |-> Holds(i)]
      BY DEF Files, Kept
    <2>2. Files' = [i \in Kept' |-> Holds(i)']
      BY DEF Files, Kept
    <2> QED
      BY <2>1, <2>2
  <1>4. ASSUME NEW l \in Line PROVE Same(Left(l), Total(input, l))'
    <2>1. Left(l) = Count(rest, l) + Count(lspace, l) + Total(Files, l) + There(l)
      BY LeftThere
    <2>2. Left(l)' = Count(rest', l) + Count(lspace', l) + Total(Files', l) + There(l)'
      BY DEF Left, There
    <2>3. Left(l)' = Left(l)
      <3>1. There(l)' = There(l) /\ Count(rest', l) + Count(lspace', l) = Count(rest, l) + Count(lspace, l)
        OBVIOUS
      <3> QED
        BY <1>3, <2>1, <2>2, <3>1
    <2>4. Same(Left(l), Total(input, l))
      BY DEF LeftInv
    <2> QED
      BY <1>1, <2>3, <2>4 DEF Same
  <1>5. pc' \notin {"term", "exit"}
    BY DEF Running, Merging
  <1> QED
    BY <1>2, <1>4, <1>5 DEF LeftInv

\* sort() has read.
LEMMA FillFlows ==
    ASSUME SortInv, SortInv', [Next]_vars, OrderInv, LeftInv, ~opt.c, Fill
    PROVE  OrderInv' /\ LeftInv'
  <1>1. eargc' = eargc /\ opt' = opt /\ \A i : Setfil(i)' = Setfil(i)
    BY GivenStays DEF SortInv
  <1>2. /\ pc = "fill" /\ pc' \in {"create", "open"}
        /\ operand' = operand /\ temp' = temp /\ nfiles' = nfiles /\ a' = a /\ upto' = upto
        /\ os' = os /\ out' = out
    BY DEF Fill
  <1>3. pc \in Running /\ pc' \in Running /\ pc' # "pass" /\ pc \notin Merging /\ pc' \notin Merging
    BY <1>2 DEF Running, Merging
  <1>4. Kept' = Kept
    BY <1>2, <1>3 DEF Kept
  <1>5. \A i \in Kept : Holds(i)' = Holds(i)
    BY <1>1, <1>2 DEF Holds
  <1>6. \A l : Count(rest', l) + Count(lspace', l) = Count(rest, l) + Count(lspace, l)
    <2> TAKE l
    <2>1. lspace = <<>>
      BY <1>2 DEF SortInv, RunInv
    <2>2. Count(lspace, l) = 0
      BY <2>1, CountEmpty
    <2>3. Count(rest, l) = Count(lspace', l) + Count(rest', l)
      BY FillReads DEF SortInv
    <2>4. Count(lspace', l) \in Nat /\ Count(rest', l) \in Nat
      BY CountType DEF SortInv, TypesInv
    <2> QED
      BY <2>2, <2>3, <2>4
  <1>7. \A l : There(l)' = There(l)
    BY <1>2 DEF There
  <1> QED
    BY <1>3, <1>4, <1>5, <1>6, <1>7, Stands

\* A file is created.
LEMMA CreateFlows ==
    ASSUME SortInv, SortInv', [Next]_vars, OrderInv, LeftInv, ~opt.c, Create
    PROVE  OrderInv' /\ LeftInv'
  <1>1. eargc' = eargc /\ opt' = opt /\ GivenInv' /\ \A i : Setfil(i)' = Setfil(i)
    BY GivenStays DEF SortInv
  <1>2. /\ pc = "create" /\ pc' = "count"
        /\ operand' = operand /\ nfiles' = nfiles /\ a' = a /\ upto' = upto
        /\ os' = os /\ out' = out /\ rest' = rest /\ lspace' = lspace
    BY DEF Create, sorting
  <1>3. pc \in Running /\ pc' \in Running /\ pc' # "pass" /\ pc \notin Merging /\ pc' \notin Merging
    BY <1>2 DEF Running, Merging
  <1>4. Kept' = Kept /\ Kept = a..nfiles - 1
    BY <1>2, <1>3 DEF Kept
  <1>5. \A i \in eargc..nfiles - 1 : i >= a => temp'[Setfil(i)] = temp[Setfil(i)]
    BY <1>1, CreateKeeps
  <1>6. eargc \in Nat /\ a \in Nat /\ nfiles \in Nat
    BY DEF SortInv, GivenInv, TypesInv
  <1>7. \A i \in Kept : Holds(i)' = Holds(i)
    BY <1>1, <1>2, <1>4, <1>5, <1>6 DEF Holds
  <1>8. \A l : There(l)' = There(l)
    BY <1>2 DEF There
  <1> QED
    BY <1>2, <1>3, <1>4, <1>7, <1>8, Stands

\* The output is opened.
LEMMA OpenOutFlows ==
    ASSUME SortInv, SortInv', [Next]_vars, OrderInv, LeftInv, ~opt.c, OpenOut
    PROVE  OrderInv' /\ LeftInv'
  <1>1. eargc' = eargc /\ opt' = opt /\ GivenInv' /\ \A i : Setfil(i)' = Setfil(i)
    BY GivenStays DEF SortInv
  <1>2. /\ pc = "open" /\ pc' \in {"write", "merge"}
        /\ os' = None /\ temp' = temp /\ nfiles' = nfiles /\ a' = a /\ upto' = upto
        /\ out' = out /\ rest' = rest /\ lspace' = lspace
    BY DEF OpenOut, Stage, sorting
  <1>3. pc \in Running /\ pc' \in Running /\ pc' # "pass" /\ pc \notin Merging
    BY <1>2 DEF Running, Merging
  <1>4. eargc \in Nat /\ a \in Nat /\ nfiles \in Nat
    BY DEF SortInv, GivenInv, TypesInv
  <1>5. Kept' = Kept /\ Kept = a..nfiles - 1
    BY <1>2, <1>3, <1>4 DEF Kept, None
  <1>6. \A i \in a..eargc - 1 : operand'[i] = operand[i]
    BY <1>1, OpenOutKeeps
  <1>7. \A i \in Kept : Holds(i)' = Holds(i)
    BY <1>1, <1>2, <1>4, <1>5, <1>6 DEF Holds
  <1>8. out = <<>>
    BY <1>2 DEF SortInv, RunInv
  <1>9. \A l : There(l)' = There(l)
    BY <1>2, <1>8, CountEmpty DEF There
  <1> QED
    BY <1>2, <1>3, <1>5, <1>7, <1>9, Stands

\* The file is counted.
LEMMA CountedFlows ==
    ASSUME SortInv, SortInv', [Next]_vars, OrderInv, LeftInv, ~opt.c, Counted
    PROVE  OrderInv' /\ LeftInv'
  <1>1. eargc' = eargc /\ opt' = opt /\ input' = input /\ \A i : Setfil(i)' = Setfil(i)
    BY GivenStays DEF SortInv
  <1>2. /\ pc = "count" /\ pc' = (IF a = upto THEN "write" ELSE "merge")
        /\ os' = nfiles /\ nfiles' = nfiles + 1 /\ operand' = operand /\ temp' = temp /\ a' = a /\ upto' = upto
        /\ out' = out /\ rest' = rest /\ lspace' = lspace
    BY DEF Counted, Stage, sorting
  <1>3. pc \in Running /\ pc' \in Running /\ pc' # "pass" /\ pc \notin Merging
    BY <1>2 DEF Running, Merging
  <1>4. eargc \in Nat /\ a \in Nat /\ nfiles \in Nat /\ a <= nfiles /\ eargc <= nfiles
    BY DEF SortInv, GivenInv, TypesInv
  <1>5. Kept = a..nfiles - 1
    BY <1>3 DEF Kept
  <1>6. \A i : Holds(i)' = Holds(i)
    BY <1>1, <1>2 DEF Holds
  <1>7. out = <<>> /\ temp[Setfil(nfiles)] = <<>>
    BY <1>2, <1>3 DEF SortInv, RunInv, FileInv
  <1>8. \A l : There(l) = 0 /\ There(l)' = 0
    BY <1>2, <1>7, CountEmpty DEF There
  <1>9. CASE a # upto
    <2>1. Kept' = a..nfiles - 1
      BY <1>2, <1>4, <1>9 DEF Kept, Merging
    <2> QED
      BY <1>2, <1>3, <1>5, <1>6, <1>8, <2>1, Stands
  <1>10. CASE a = upto
    <2>1. pc' = "write" /\ pc' \notin Merging
      BY <1>2, <1>10 DEF Merging
    <2>2. Kept' = Kept \cup {nfiles} /\ nfiles \notin Kept
      BY <1>2, <1>4, <1>5, <2>1 DEF Kept
    <2>3. Holds(nfiles) = <<>>
      BY <1>4, <1>7 DEF Holds
    <2>4. OrderInv'
      <3>1. \A i \in Kept : Rising(Holds(i))
        BY <1>3 DEF OrderInv
      <3>2. Rising(<<>>)
        BY DEF Rising, InOrder, Distinct
      <3>3. \A i \in Kept \cup {nfiles} : Rising(Holds(i))
        BY <2>3, <3>1, <3>2
      <3>4. (\A i \in Kept : Rising(Holds(i)))'
        BY <1>1, <1>6, <2>2, <3>3 DEF Rising
      <3> QED
        BY <2>1, <3>4 DEF OrderInv
    <2>5. PICK f : f = Files
      OBVIOUS
    <2>6. PICK h : h = Files'
      OBVIOUS
    <2>7. Many(f) /\ DOMAIN f = Kept /\ \A i \in Kept : f[i] = Holds(i)
      BY <1>3, <2>5, FilesLines
    <2>8. h = [i \in Kept' |-> Holds(i)']
      BY <2>6 DEF Files, Kept
    <2>9. DOMAIN h = DOMAIN f \cup {nfiles} /\ h[nfiles] = <<>> /\ \A i \in DOMAIN f : h[i] = f[i]
      BY <1>6, <2>2, <2>3, <2>7, <2>8
    <2>10. ASSUME NEW l PROVE Total(h, l) = Total(f, l)
      <3>1. h[nfiles] \in Seq(Line) /\ Count(h[nfiles], l) = 0
        BY <2>9, CountEmpty
      <3>2. PICK x : x = nfiles
        OBVIOUS
      <3>3. x \notin DOMAIN f
        BY <2>2, <2>7, <3>2
      <3>4. DOMAIN h = DOMAIN f \cup {x}
        BY <2>9, <3>2
      <3>5. h[x] \in Seq(Line)
        BY <3>1, <3>2
      <3>6. Many(f) /\ \A i \in DOMAIN f : h[i] = f[i]
        BY <2>7, <2>9
      <3>7. Total(h, l) = Total(f, l) + Count(h[x], l)
        BY <3>3, <3>4, <3>5, <3>6, TotalWith
      <3> QED
        BY <2>7, <3>1, <3>2, <3>7, TotalType
    <2>11. ASSUME NEW l \in Line PROVE Same(Left(l), Total(input, l))'
      <3>1. Left(l) = Count(rest, l) + Count(lspace, l) + Total(f, l) + There(l)
        BY <2>5, LeftThere
      <3>2. Left(l)' = Count(rest', l) + Count(lspace', l) + Total(h, l) + There(l)'
        BY <2>6 DEF Left, There
      <3>3. There(l)' = There(l) /\ Total(h, l) = Total(f, l)
        BY <1>8, <2>10
      <3>4. Left(l)' = Left(l)
        BY <1>2, <3>1, <3>2, <3>3
      <3>5. Same(Left(l), Total(input, l))
        BY <1>3 DEF LeftInv
      <3> QED
        BY <1>1, <3>4, <3>5 DEF Same
    <2> QED
      BY <1>3, <2>1, <2>4, <2>11 DEF LeftInv
  <1> QED
    BY <1>9, <1>10

\* The end, whether or not sort is ready.
LEMMA EndFlows ==
    ASSUME SortInv, SortInv', [Next]_vars, LeftInv, ~opt.c, Stop \/ Term
    PROVE  OrderInv' /\ LeftInv'
  <1>1. opt' = opt /\ input' = input
    BY GivenStays DEF SortInv
  <1>2. pc' \in {"term", "exit"} /\ out' = out /\ error' = error
    BY DEF Stop, Term
  <1>3. pc' \notin Running /\ pc' # "pass"
    BY <1>2 DEF Running, Merging
  <1>4. OrderInv'
    BY <1>3 DEF OrderInv
  <1>5. CASE Stop
    <2>1. error' # 0
      BY <1>2, <1>5 DEF Stop, SortInv, PlaceInv, Running, Merging
    <2> QED
      BY <1>3, <1>4, <2>1 DEF LeftInv
  <1>6. CASE Term
    <2>1. pc = "term"
      BY <1>6 DEF Term
    <2>2. error = 0 => Rising(out) /\ \A l \in Line : Same(Count(out, l), Total(input, l))
      BY <2>1 DEF LeftInv
    <2>3. (error = 0 => Rising(out) /\ \A l \in Line : Same(Count(out, l), Total(input, l)))'
      BY <1>1, <1>2, <2>2 DEF Rising, Same
    <2> QED
      BY <1>3, <1>4, <2>3 DEF LeftInv
  <1> QED
    BY <1>5, <1>6

\* What a pass is to merge; or the end, with all in the output.
LEMMA PassFlows ==
    ASSUME SortInv, SortInv', [Next]_vars, OrderInv, LeftInv, ~opt.c, Pass
    PROVE  OrderInv' /\ LeftInv'
  <1>1. eargc' = eargc /\ opt' = opt /\ input' = input /\ GivenInv' /\ \A i : Setfil(i)' = Setfil(i)
    BY GivenStays DEF SortInv
  <1>2. /\ pc = "pass" /\ pc' \in {"create", "open", "term"}
        /\ operand' = operand /\ temp' = temp /\ nfiles' = nfiles /\ a' = a
        /\ os' = os /\ out' = out /\ rest' = rest /\ lspace' = lspace
    BY DEF Pass, sorting
  <1>3. (pc' = "term" => a = nfiles) /\ (pc' # "term" => a < upto')
    BY <1>1, PassKeeps
  <1>4. a \in Nat /\ nfiles \in Nat /\ upto' \in Nat /\ upto' <= nfiles
    BY <1>2 DEF SortInv, TypesInv
  <1>5. pc \in Running /\ pc \notin Merging /\ pc' \notin Merging
    BY <1>2 DEF Running, Merging
  <1>6. Kept' = Kept /\ Kept = a..nfiles - 1
    BY <1>2, <1>5 DEF Kept
  <1>7. CASE pc' # "term"
    <2>1. pc' \in Running /\ pc' # "pass"
      BY <1>2, <1>7 DEF Running
    <2>2. \A i \in Kept : Holds(i)' = Holds(i)
      BY <1>1, <1>2 DEF Holds
    <2>3. a # nfiles
      BY <1>3, <1>4, <1>7
    <2>4. out = <<>>
      BY <1>2, <2>3 DEF SortInv, RunInv
    <2>5. a # upto'
      BY <1>3, <1>4, <1>7
    <2>6. \A l : There(l)' = There(l)
      BY <1>2, <2>4, <2>5, CountEmpty DEF There
    <2> QED
      BY <1>2, <1>5, <1>6, <2>1, <2>2, <2>6, Stands
  <1>8. CASE pc' = "term"
    <2>1. a = nfiles /\ a = upto
      BY <1>2, <1>3, <1>8 DEF SortInv, PlaceInv
    <2>2. os = None /\ rest = <<>> /\ lspace = <<>>
      BY <1>2, <2>1 DEF SortInv, PlaceInv, RunInv
    <2>3. Rising(out)
      BY <1>2, <2>1 DEF OrderInv
    <2>4. DOMAIN Files = {}
      BY <1>4, <1>6, <2>1 DEF Files, Kept
    <2>5. ASSUME NEW l \in Line PROVE Same(Count(out, l), Total(input, l))
      <3>1. Left(l) = Count(rest, l) + Count(lspace, l) + Total(Files, l) + There(l)
        BY LeftThere
      <3>2. Total(Files, l) = 0
        BY <2>4, TotalNone
      <3>3. Count(rest, l) = 0 /\ Count(lspace, l) = 0
        BY <2>2, CountEmpty
      <3>4. There(l) = Count(out, l) /\ There(l) \in Nat
        BY <2>1, <2>2, ThereNat DEF There
      <3>5. Left(l) = Count(out, l)
        BY <3>1, <3>2, <3>3, <3>4
      <3> QED
        BY <1>5, <3>5 DEF LeftInv
    <2>6. (Rising(out) /\ \A l \in Line : Same(Count(out, l), Total(input, l)))'
      BY <1>1, <1>2, <2>3, <2>5 DEF Rising, Same
    <2>7. pc' \notin Running /\ pc' # "pass"
      BY <1>8 DEF Running, Merging
    <2> QED
      BY <2>6, <2>7 DEF OrderInv, LeftInv
  <1> QED
    BY <1>7, <1>8

\* What was in memory is in the output, or in the file.
LEMMA WriteRunFlows ==
    ASSUME SortInv, SortInv', [Next]_vars, OrderInv, LeftInv, ~opt.c, WriteRun
    PROVE  OrderInv' /\ LeftInv'
  <1>1. eargc' = eargc /\ opt' = opt /\ input' = input /\ GivenInv' /\ \A i : Setfil(i)' = Setfil(i)
    BY GivenStays DEF SortInv
  <1>2. /\ pc = "write" /\ pc' \in {"pass", "fill"}
        /\ operand' = operand /\ nfiles' = nfiles /\ a' = a /\ upto' = upto
        /\ os' = os /\ rest' = rest /\ lspace' = <<>>
    BY DEF WriteRun
  <1>3. PICK s \in Sortings(lspace) : s \in Seq(Line) /\ Fwrite(s)
    BY <1>1, WriteRunKeeps
  <1>4. lspace \in Seq(Line)
    BY DEF SortInv, TypesInv
  <1>5. Rising(s) /\ \A l \in Line : Same(Count(lspace, l), Count(s, l))
    BY <1>3, <1>4, SortingsRise
  <1>6. pc \in Running /\ pc \notin Merging /\ pc' \notin Merging /\ pc' \in Running
    BY <1>2 DEF Running, Merging
  <1>7. Kept' = Kept /\ Kept = a..nfiles - 1
    BY <1>2, <1>6 DEF Kept
  <1>8. Sorting
    BY <1>2 DEF Sorting
  <1>9. a = eargc /\ upto = eargc /\ out = <<>>
    BY <1>8, SortingFacts
  <1>10. os # None => os \in eargc..nfiles - 1 /\ Setfil(os) \in DOMAIN temp
    BY <1>2, <1>6, OutputThere
  <1>11. /\ os = None => out' = out \o s /\ temp' = temp
         /\ os # None => /\ out' = out /\ temp'[Setfil(os)] = temp[Setfil(os)] \o s
                         /\ \A f \in DOMAIN temp : f # Setfil(os) => temp'[f] = temp[f]
    BY <1>3, <1>10, FwriteDoes DEF SortInv
  <1>12. eargc \in Nat /\ nfiles \in Nat
    BY DEF SortInv, GivenInv, TypesInv
  <1>13. \A l \in Line : /\ Count(rest, l) \in Nat /\ Count(lspace, l) \in Nat /\ Total(Files, l) \in Nat
                         /\ There(l) \in Nat /\ Total(input, l) \in Nat /\ Count(s, l) \in Nat
    BY <1>3, <1>6, LeftIs, ThereNat, CountType
  <1>14. \A l : Count(lspace', l) = 0
    BY <1>2, CountEmpty
  <1>15. ASSUME os = None PROVE OrderInv' /\ \A l \in Line : Same(Left(l), Total(input, l))'
    <2>1. out' = s
      BY <1>3, <1>9, <1>11, <1>15
    <2>2. \A i \in Kept : Holds(i)' = Holds(i)
      BY <1>1, <1>2, <1>11, <1>15 DEF Holds
    <2>3. OrderInv'
      <3>1. \A i \in Kept : Rising(Holds(i))
        BY <1>6 DEF OrderInv
      <3>2. (\A i \in Kept : Rising(Holds(i)))'
        BY <1>1, <1>7, <2>2, <3>1 DEF Rising
      <3>3. Rising(out)'
        BY <1>1, <1>5, <2>1 DEF Rising
      <3> QED
        BY <3>2, <3>3 DEF OrderInv
    <2>4. Files' = Files
      <3>1. Files = [i \in Kept |-> Holds(i)]
        BY DEF Files, Kept
      <3>2. Files' = [i \in Kept' |-> Holds(i)']
        BY DEF Files, Kept
      <3> QED
        BY <1>7, <2>2, <3>1, <3>2
    <2>5. ASSUME NEW l \in Line PROVE Same(Left(l), Total(input, l))'
      <3>1. Left(l) = Count(rest, l) + Count(lspace, l) + Total(Files, l) + There(l)
        BY LeftThere
      <3>2. Left(l)' = Count(rest', l) + Count(lspace', l) + Total(Files', l) + There(l)'
        BY DEF Left, There
      <3>3. There(l) = 0 /\ There(l)' = Count(s, l)
        BY <1>2, <1>9, <1>15, <2>1, CountEmpty DEF There
      <3>4. PICK x \in Nat, y \in Nat, z \in Nat, t \in Nat :
               x = Count(rest, l) + Total(Files, l) /\ y = Count(lspace, l) /\ z = Count(s, l) /\ t = Total(input, l)
        BY <1>13
      <3>5. Left(l) = x + y /\ Left(l)' = x + z
        BY <1>2, <1>13, <1>14, <2>4, <3>1, <3>2, <3>3, <3>4
      <3>6. Same(x + y, t) /\ Same(y, z)
        BY <1>5, <1>6, <3>4, <3>5 DEF LeftInv
      <3>7. Same(x + z, t)
        BY <3>6, SameIs DEF Same
      <3> QED
        BY <1>1, <3>4, <3>5, <3>7 DEF Same
    <2> QED
      BY <2>3, <2>5
  <1>16. ASSUME os # None PROVE OrderInv' /\ \A l \in Line : Same(Left(l), Total(input, l))'
    <2>11. PICK x : x = os
      OBVIOUS
    <2>1. x \in Kept /\ Holds(x) = <<>> /\ Holds(x)' = s
      <3>1. os \in eargc..nfiles - 1 /\ temp[Setfil(os)] = <<>>
        BY <1>2, <1>10, <1>16 DEF SortInv, PlaceInv
      <3>2. temp'[Setfil(os)] = s
        BY <1>3, <1>11, <1>16, <3>1
      <3>3. ~(os < eargc) /\ os \in Kept
        BY <1>7, <1>9, <1>12, <3>1
      <3> QED
        BY <1>1, <1>2, <2>11, <3>1, <3>2, <3>3 DEF Holds
    <2>2. \A i \in Kept : i # os => Holds(i)' = Holds(i)
      <3> SUFFICES ASSUME NEW i \in Kept, i # os PROVE Holds(i)' = Holds(i)
        OBVIOUS
      <3>1. i \in eargc..nfiles - 1 /\ i \in Int /\ i >= eargc /\ os \in Int /\ os >= eargc
        BY <1>7, <1>9, <1>10, <1>12, <1>16
      <3>2. Setfil(i) # Setfil(os)
        BY <1>12, <3>1, FilesDiffer
      <3>3. Setfil(i) \in DOMAIN temp
        BY <1>6, <1>9, <3>1 DEF SortInv, FileInv
      <3>4. temp'[Setfil(i)] = temp[Setfil(i)]
        BY <1>11, <1>16, <3>2, <3>3
      <3> QED
        BY <1>1, <1>2, <3>1, <3>4 DEF Holds
    <2>3. OrderInv'
      <3>1. \A i \in Kept : Rising(Holds(i))
        BY <1>6 DEF OrderInv
      <3>2. (\A i \in Kept : Rising(Holds(i)))'
        <4>1. ASSUME NEW i \in Kept PROVE Rising(Holds(i))'
          <5>1. CASE i = x
            <6>1. Holds(i)' = s
              BY <2>1, <5>1
            <6> QED
              BY <1>1, <1>5, <6>1 DEF Rising
          <5>2. CASE i # x
            <6>1. Holds(i)' = Holds(i)
              BY <2>2, <2>11, <5>2
            <6> QED
              BY <1>1, <3>1, <6>1 DEF Rising
          <5> QED
            BY <5>1, <5>2
        <4> QED
          BY <1>7, <4>1
      <3>3. a' # nfiles'
        BY <1>2, <1>9, <1>10, <1>12, <1>16
      <3> QED
        BY <3>2, <3>3 DEF OrderInv
    <2>4. PICK f : f = Files
      OBVIOUS
    <2>5. PICK h : h = Files'
      OBVIOUS
    <2>6. Many(f) /\ DOMAIN f = Kept /\ \A i \in Kept : f[i] = Holds(i)
      BY <1>6, <2>4, FilesLines
    <2>7. h = [i \in Kept |-> Holds(i)']
      BY <1>7, <2>5 DEF Files, Kept
    <2>8. h[os] = s /\ f[os] = <<>> /\ DOMAIN h = Kept /\ \A i \in Kept : i # os => h[i] = f[i]
      <3>1. DOMAIN h = Kept /\ \A i \in Kept : h[i] = Holds(i)'
        BY <2>7
      <3>2. h[os] = s
        BY <2>1, <2>11, <3>1
      <3>3. f[os] = <<>>
        BY <2>1, <2>6, <2>11
      <3>4. ASSUME NEW i \in Kept, i # os PROVE h[i] = f[i]
        <4>1. Holds(i)' = Holds(i)
          BY <2>2, <3>4
        <4> QED
          BY <2>6, <3>1, <4>1
      <3> QED
        BY <3>1, <3>2, <3>3, <3>4
    <2>9. Others(h, os) = Others(f, os)
      BY <2>6, <2>8 DEF Others
    <2>10. Many(h)
      BY <1>3, <2>6, <2>8 DEF Many
    <2>12. ASSUME NEW l \in Line PROVE Total(h, l) = Total(f, l) + Count(s, l)
      <3>1. x \in DOMAIN f /\ x \in DOMAIN h
        BY <2>1, <2>6, <2>8, <2>11
      <3>2. Many(Others(f, x)) /\ Total(f, l) = Total(Others(f, x), l) + Count(f[x], l)
        BY <2>6, <3>1, TotalAt
      <3>3. Total(h, l) = Total(Others(h, x), l) + Count(h[x], l)
        BY <2>10, <3>1, TotalAt
      <3>4. Count(f[x], l) = 0 /\ h[x] = s
        BY <2>8, <2>11, CountEmpty
      <3>5. Total(Others(f, x), l) \in Nat
        BY <3>2, TotalType
      <3> QED
        BY <1>13, <2>9, <2>11, <3>2, <3>3, <3>4, <3>5
    <2>13. ASSUME NEW l \in Line PROVE Same(Left(l), Total(input, l))'
      <3>1. Left(l) = Count(rest, l) + Count(lspace, l) + Total(f, l) + There(l)
        BY <2>4, LeftThere
      <3>2. Left(l)' = Count(rest', l) + Count(lspace', l) + Total(h, l) + There(l)'
        BY <2>5 DEF Left, There
      <3>3. There(l) = 0 /\ There(l)' = 0
        BY <1>2, <1>16 DEF There
      <3>4. PICK y \in Nat, z \in Nat, t \in Nat :
               y = Count(lspace, l) /\ z = Count(s, l) /\ t = Total(input, l)
        BY <1>13
      <3>5. PICK w \in Nat : w = Count(rest, l) + Total(f, l)
        BY <1>13, <2>4
      <3>6. Left(l) = w + y /\ Left(l)' = w + z
        BY <1>2, <1>13, <1>14, <2>4, <2>12, <3>1, <3>2, <3>3, <3>4, <3>5
      <3>7. Same(w + y, t) /\ Same(y, z)
        BY <1>5, <1>6, <3>4, <3>6 DEF LeftInv
      <3>8. Same(w + z, t)
        BY <3>7, SameIs DEF Same
      <3> QED
        BY <1>1, <3>4, <3>6, <3>8 DEF Same
    <2> QED
      BY <2>3, <2>13
  <1>17. pc' \notin {"term", "exit"}
    BY <1>2
  <1> QED
    BY <1>15, <1>16, <1>17 DEF LeftInv

\* While files are merged, only the file that is written changes.
LEMMA MergingFlows ==
    ASSUME SortInv, SortInv', [Next]_vars, OrderInv, LeftInv, ~opt.c, pc \in Merging, pc' \in Merging,
           operand' = operand, nfiles' = nfiles, a' = a, upto' = upto, os' = os, rest' = rest,
           lspace' = lspace,
           \A f \in DOMAIN temp : os = None \/ f # Setfil(os) => temp'[f] = temp[f]
    PROVE  OrderInv' /\ LeftInv'
  <1>1. eargc' = eargc /\ \A i : Setfil(i)' = Setfil(i)
    BY GivenStays DEF SortInv
  <1>2. pc \in Running /\ pc' \in Running /\ pc' # "pass"
    BY DEF Running, Merging
  <1>3. Kept' = Kept /\ Kept = (a..nfiles - 1) \ {os}
    BY DEF Kept
  <1>4. eargc \in Nat /\ a \in Nat /\ nfiles \in Nat /\ upto \in Nat /\ a < upto
    BY <1>2 DEF SortInv, GivenInv, TypesInv, PlaceInv
  <1>5. \A i \in Kept : Holds(i)' = Holds(i)
    <2> SUFFICES ASSUME NEW i \in Kept PROVE Holds(i)' = Holds(i)
      OBVIOUS
    <2>1. CASE i < eargc
      BY <1>1, <2>1 DEF Holds
    <2>2. CASE ~(i < eargc)
      <3>1. i \in a..nfiles - 1 /\ i # os /\ i \in Int /\ i >= eargc
        BY <1>3, <1>4, <2>2
      <3>2. Setfil(i) \in DOMAIN temp
        BY <1>2, <3>1, HoldsLines
      <3>3. os = None \/ Setfil(i) # Setfil(os)
        <4>1. os # None => os \in Int /\ os >= eargc
          BY <1>4 DEF SortInv, TypesInv
        <4> QED
          BY <1>4, <3>1, <4>1, FilesDiffer
      <3>4. temp'[Setfil(i)] = temp[Setfil(i)]
        BY <3>2, <3>3
      <3> QED
        BY <1>1, <2>2, <3>4 DEF Holds
    <2> QED
      BY <2>1, <2>2
  <1>6. a # upto
    BY <1>4
  <1>7. \A l : There(l)' = There(l)
    BY <1>6 DEF There
  <1> QED
    BY <1>2, <1>3, <1>5, <1>7, Stands

\* The files that are merged, and the others that count.
LEMMA FilesParts ==
    ASSUME SortInv, pc \in Merging
    PROVE  /\ \A i \in (upto..nfiles - 1) \ {os} : i \in Kept
           /\ Many([i \in (upto..nfiles - 1) \ {os} |-> Holds(i)])
           /\ \A l : Total(Files, l) = Total(Sources, l) + Total([i \in (upto..nfiles - 1) \ {os} |-> Holds(i)], l)
  <1>1. pc \in Running
    BY DEF Running
  <1>2. eargc \in Nat /\ a \in Nat /\ nfiles \in Nat /\ upto \in Nat /\ a < upto /\ upto <= nfiles
    BY DEF SortInv, GivenInv, TypesInv, PlaceInv
  <1>3. os = None \/ os >= upto
    BY DEF SortInv, PlaceInv
  <1>4. Kept = (a..nfiles - 1) \ {os}
    BY DEF Kept
  <1>5. PICK r : r = [i \in (upto..nfiles - 1) \ {os} |-> Holds(i)]
    OBVIOUS
  <1>6. PICK s : s = Sources
    OBVIOUS
  <1>7. PICK h : h = Files
    OBVIOUS
  <1>8. Many(s) /\ DOMAIN s = a..upto - 1 /\ \A i \in a..upto - 1 : s[i] = Holds(i)
    BY <1>1, <1>6, SourcesLines
  <1>9. Many(h) /\ DOMAIN h = Kept /\ \A i \in Kept : h[i] = Holds(i)
    BY <1>1, <1>7, FilesLines
  <1>10. DOMAIN r = (upto..nfiles - 1) \ {os} /\ \A i \in DOMAIN r : r[i] = Holds(i)
    BY <1>5
  <1>11. \A i \in (upto..nfiles - 1) \ {os} : i \in Kept
    BY <1>2, <1>4
  <1>12. Many(r)
    <2>1. IsFiniteSet(upto..nfiles - 1)
      BY <1>2, FS_Interval
    <2>2. DOMAIN r \in SUBSET (upto..nfiles - 1)
      BY <1>10
    <2>3. IsFiniteSet(DOMAIN r)
      BY <2>1, <2>2, FS_Subset
    <2>4. \A i \in DOMAIN r : r[i] \in Seq(Line)
      BY <1>9, <1>10, <1>11 DEF Many
    <2> QED
      BY <2>3, <2>4 DEF Many
  <1>13. DOMAIN s \cap DOMAIN r = {} /\ DOMAIN h = DOMAIN s \cup DOMAIN r
    <2>1. \A i \in a..upto - 1 : i \notin upto..nfiles - 1 /\ i \in Kept
      BY <1>2, <1>3, <1>4 DEF None
    <2>2. \A i \in Kept : i \in a..upto - 1 \/ i \in (upto..nfiles - 1) \ {os}
      BY <1>2, <1>4
    <2> QED
      BY <1>8, <1>9, <1>10, <1>11, <2>1, <2>2
  <1>14. (\A i \in DOMAIN s : h[i] = s[i]) /\ \A i \in DOMAIN r : h[i] = r[i]
    BY <1>8, <1>9, <1>10, <1>13
  <1>15. ASSUME NEW l PROVE Total(h, l) = Total(s, l) + Total(r, l)
    <2>1. Parts(h, s, r)
      BY <1>8, <1>12, <1>13, <1>14 DEF Parts
    <2> QED
      BY <2>1, TotalParts
  <1> QED
    BY <1>5, <1>6, <1>7, <1>11, <1>12, <1>15

\* What was merged is in the new file, or in the output.
LEMMA MergeEndFlows ==
    ASSUME SortInv, SortInv', [Next]_vars, OrderInv, LeftInv, CountInv, BufferInv, ~opt.c, MergeEnd
    PROVE  OrderInv' /\ LeftInv'
  <1>1. eargc' = eargc /\ opt' = opt /\ input' = input /\ GivenInv' /\ \A i : Setfil(i)' = Setfil(i)
    BY GivenStays DEF SortInv
  <1>2. /\ pc = "end" /\ a' = upto /\ upto' = upto /\ out' = out
        /\ operand' = operand /\ nfiles' = nfiles /\ os' = os /\ rest' = rest /\ lspace' = lspace
        /\ os = None => pc' = "term" /\ error' = 0
        /\ os # None => pc' = "pass" /\ error' = error
    BY DEF MergeEnd, sorting
  <1>3. \A i \in upto..nfiles - 1 : i >= eargc => temp'[Setfil(i)] = temp[Setfil(i)]
    BY <1>1, MergeEndKeeps
  <1>4. pc \in Merging /\ pc \in Running /\ pc \in InBuffers
    BY <1>2 DEF Merging, Running, InBuffers
  <1>5. eargc \in Nat /\ a \in Nat /\ nfiles \in Nat /\ upto \in Nat /\ a < upto /\ upto <= nfiles
    BY <1>4 DEF SortInv, GivenInv, TypesInv, PlaceInv
  <1>6. Rising(Written) /\ \A l \in Line : Same(Count(Written, l) + Total(ibuf, l), Total(Sources, l))
    BY <1>2, <1>4 DEF CountInv, BufferInv
  <1>7. \A l : Total(ibuf, l) = 0
    <2>1. ibuf = <<>>
      BY <1>2 DEF SortInv, RowInv
    <2>2. DOMAIN ibuf = {}
      BY <2>1
    <2> QED
      BY <2>2, TotalNone
  <1>8. PICK r : r = [i \in (upto..nfiles - 1) \ {os} |-> Holds(i)]
    OBVIOUS
  <1>9. /\ \A i \in (upto..nfiles - 1) \ {os} : i \in Kept
        /\ Many(r) /\ \A l : Total(Files, l) = Total(Sources, l) + Total(r, l)
    BY <1>4, <1>8, FilesParts
  <1>10. DOMAIN r = (upto..nfiles - 1) \ {os} /\ \A i \in DOMAIN r : r[i] = Holds(i)
    BY <1>8
  <1>11. rest = <<>> /\ lspace = <<>>
    BY <1>4, <1>5 DEF SortInv, RunInv
  <1>12. Written \in Seq(Line)
    <2>1. os # None => Setfil(os) \in DOMAIN temp
      BY <1>4, OutputThere
    <2> QED
      BY <2>1 DEF Written, SortInv, TypesInv
  <1>13. ASSUME NEW l \in Line
         PROVE  /\ Same(Count(Written, l) + Total(r, l), Total(input, l))
                /\ Count(Written, l) \in Nat /\ Total(r, l) \in Nat
    <2>1. PICK w \in Nat, s \in Nat, q \in Nat, t \in Nat :
              w = Count(Written, l) /\ s = Total(Sources, l) /\ q = Total(r, l) /\ t = Total(input, l)
      BY <1>4, <1>9, <1>12, CountType, TotalType, SourcesLines, LeftIs
    <2>2. Same(w, s)
      BY <1>6, <1>7, <2>1
    <2>3. Left(l) = s + q
      <3>1. Left(l) = Count(rest, l) + Count(lspace, l) + Total(Files, l) + There(l)
        BY LeftThere
      <3>2. There(l) = 0
        BY <1>5 DEF There
      <3>3. Count(rest, l) = 0 /\ Count(lspace, l) = 0
        BY <1>11, CountEmpty
      <3> QED
        BY <1>9, <2>1, <3>1, <3>2, <3>3
    <2>4. Same(s + q, t)
      BY <1>4, <2>1, <2>3 DEF LeftInv
    <2>5. Same(w + q, t)
      BY <2>2, <2>4, SameIs DEF Same
    <2> QED
      BY <2>1, <2>5
  <1>14. CASE os = None
    <2>1. upto = nfiles
      BY <1>4, <1>14 DEF SortInv, PlaceInv
    <2>2. DOMAIN r = {}
      BY <1>5, <1>10, <2>1
    <2>3. ASSUME NEW l \in Line PROVE Same(Count(out, l), Total(input, l))
      <3>1. Total(r, l) = 0 /\ Written = out
        BY <1>14, <2>2, TotalNone DEF Written
      <3> QED
        BY <1>13, <3>1
    <2>4. Rising(out)
      BY <1>6, <1>14 DEF Written
    <2>5. (Rising(out) /\ \A l \in Line : Same(Count(out, l), Total(input, l)))'
      BY <1>1, <1>2, <2>3, <2>4 DEF Rising, Same
    <2>6. pc' = "term" /\ pc' \notin Running
      BY <1>2, <1>14 DEF Running, Merging
    <2> QED
      BY <2>5, <2>6 DEF OrderInv, LeftInv
  <1>15. CASE os # None
    <2>1. PICK x : x = os
      OBVIOUS
    <2>2. x \in eargc..nfiles - 1 /\ x >= upto /\ Written = temp[Setfil(x)]
      BY <1>4, <1>15, <2>1, OutputThere DEF Written
    <2>3. pc' = "pass" /\ pc' \in Running /\ pc' \notin Merging
      BY <1>2, <1>15 DEF Running, Merging
    <2>4. Kept' = upto..nfiles - 1
      BY <1>2, <2>3 DEF Kept
    <2>5. Kept' = DOMAIN r \cup {x} /\ x \notin DOMAIN r
      BY <1>5, <1>10, <2>1, <2>2, <2>4
    <2>6. \A i \in Kept' : Holds(i)' = Holds(i)
      <3> SUFFICES ASSUME NEW i \in upto..nfiles - 1 PROVE Holds(i)' = Holds(i)
        BY <2>4
      <3>1. i < eargc \/ i >= eargc
        BY <1>5
      <3> QED
        BY <1>1, <1>2, <1>3, <1>5, <3>1 DEF Holds
    <2>7. Holds(x) = Written
      BY <1>5, <2>2 DEF Holds
    <2>8. OrderInv'
      <3>1. \A i \in DOMAIN r : Rising(Holds(i))
        BY <1>4, <1>9, <1>10 DEF OrderInv
      <3>2. ASSUME NEW i \in Kept' PROVE Rising(Holds(i))'
        <4>1. Rising(Holds(i))
          BY <1>6, <2>5, <2>7, <3>1, <3>2
        <4>2. Holds(i)' = Holds(i)
          BY <2>6, <3>2
        <4> QED
          BY <1>1, <4>1, <4>2 DEF Rising
      <3>3. a' # nfiles'
        BY <1>2, <1>5, <2>2
      <3> QED
        BY <3>2, <3>3 DEF OrderInv
    <2>9. PICK h : h = Files'
      OBVIOUS
    <2>10. DOMAIN h = Kept' /\ \A i \in Kept' : h[i] = Holds(i)
      <3>1. h = [i \in Kept' |-> Holds(i)']
        BY <2>9 DEF Files, Kept
      <3> QED
        BY <2>6, <3>1
    <2>11. /\ DOMAIN h = DOMAIN r \cup {x} /\ h[x] = Written /\ h[x] \in Seq(Line)
           /\ \A i \in DOMAIN r : h[i] = r[i]
      BY <1>10, <1>12, <2>5, <2>7, <2>10
    <2>12. ASSUME NEW l \in Line PROVE Same(Left(l), Total(input, l))'
      <3>1. Total(h, l) = Total(r, l) + Count(h[x], l)
        BY <1>9, <2>5, <2>11, TotalWith
      <3>2. Left(l)' = Count(rest', l) + Count(lspace', l) + Total(h, l) + There(l)'
        BY <2>9 DEF Left, There
      <3>3. There(l)' = 0
        BY <1>2, <1>15 DEF There
      <3>4. Count(rest', l) = 0 /\ Count(lspace', l) = 0
        BY <1>2, <1>11, CountEmpty
      <3>5. Left(l)' = Count(Written, l) + Total(r, l)
        BY <1>13, <2>11, <3>1, <3>2, <3>3, <3>4
      <3> QED
        BY <1>1, <1>13, <3>5 DEF Same
    <2>13. pc' \notin {"term", "exit"}
      BY <2>3
    <2> QED
      BY <2>8, <2>12, <2>13 DEF LeftInv
  <1> QED
    BY <1>14, <1>15

\* What was written is lines.
LEMMA WrittenLines ==
    ASSUME SortInv, pc \in Merging
    PROVE  Written \in Seq(Line) /\ (os # None => Setfil(os) \in DOMAIN temp)
  <1>1. os # None => Setfil(os) \in DOMAIN temp
    BY OutputThere DEF Running
  <1> QED
    BY <1>1 DEF Written, SortInv, TypesInv

\* The file that is written stays what it is, when the step writes nothing.
LEMMA WrittenStays ==
    ASSUME SortInv, [Next]_vars, os' = os, out' = out, temp' = temp
    PROVE  Written' = Written
  <1>1. \A i : Setfil(i)' = Setfil(i)
    BY GivenStays DEF SortInv
  <1>2. PICK x : x = os
    OBVIOUS
  <1>3. Setfil(os)' = Setfil(os)
    BY <1>1, <1>2 DEF Setfil
  <1> QED
    BY <1>3 DEF Written

\* So do the files that are merged.
LEMMA SourcesStay ==
    ASSUME SortInv, [Next]_vars, pc \in Merging, operand' = operand, a' = a, upto' = upto,
           \A f \in DOMAIN temp : os = None \/ f # Setfil(os) => temp'[f] = temp[f]
    PROVE  Sources' = Sources
  <1>1. eargc' = eargc /\ \A i : Setfil(i)' = Setfil(i)
    BY GivenStays DEF SortInv
  <1>2. pc \in Running
    BY DEF Running
  <1>3. eargc \in Nat /\ a \in Nat /\ nfiles \in Nat /\ upto \in Nat /\ upto <= nfiles
    BY DEF SortInv, GivenInv, TypesInv
  <1>4. \A i \in a..upto - 1 : Holds(i)' = Holds(i)
    <2> SUFFICES ASSUME NEW i \in a..upto - 1 PROVE Holds(i)' = Holds(i)
      OBVIOUS
    <2>1. CASE i < eargc
      BY <1>1, <2>1 DEF Holds
    <2>2. CASE ~(i < eargc)
      <3>1. i \in a..nfiles - 1 /\ i \in Int /\ i >= eargc
        BY <1>3, <2>2
      <3>2. Setfil(i) \in DOMAIN temp
        BY <1>2, <3>1, HoldsLines
      <3>3. os = None \/ Setfil(i) # Setfil(os)
        <4>1. os # None => os \in Int /\ os >= eargc /\ os # i
          BY <1>3 DEF SortInv, TypesInv, PlaceInv
        <4> QED
          BY <1>3, <3>1, <4>1, FilesDiffer
      <3>4. temp'[Setfil(i)] = temp[Setfil(i)]
        BY <3>2, <3>3
      <3> QED
        BY <1>1, <2>2, <3>4 DEF Holds
    <2> QED
      BY <2>1, <2>2
  <1> QED
    BY <1>4 DEF Sources

\* Elsewhere there is nothing to say.
LEMMA ElsewhereFlows ==
    ASSUME pc' \notin Merging
    PROVE  CountInv' /\ BufferInv'
  <1>1. pc' \notin InBuffers /\ pc' \notin {"merge", "first", "put", "next", "end"}
    BY DEF InBuffers, Merging
  <1> QED
    BY <1>1 DEF CountInv, BufferInv

\* A merge begins with an empty file.
LEMMA BeginFlows ==
    ASSUME SortInv, SortInv', [Next]_vars, Counted \/ OpenOut
    PROVE  CountInv' /\ BufferInv'
  <1>1. pc' \in {"write", "merge"}
    BY DEF Counted, OpenOut, Stage
  <1>2. CASE pc' = "write"
    BY <1>2, ElsewhereFlows DEF Merging
  <1>3. CASE pc' = "merge"
    <2>1. \A i : Setfil(i)' = Setfil(i)
      BY GivenStays DEF SortInv
    <2>2. Written' = <<>>
      <3>1. CASE Counted
        <4>1. os' = nfiles /\ temp' = temp /\ pc = "count" /\ nfiles \in Nat
          BY <3>1 DEF Counted, SortInv, TypesInv
        <4>2. temp[Setfil(nfiles)] = <<>> /\ os' # None
          BY <4>1 DEF SortInv, FileInv, None
        <4>3. PICK x : x = nfiles
          OBVIOUS
        <4>4. Setfil(os)' = Setfil(nfiles)
          BY <2>1, <4>1, <4>3
        <4> QED
          BY <4>1, <4>2, <4>4 DEF Written
      <3>2. CASE OpenOut
        <4>1. os' = None /\ out' = out /\ pc = "open"
          BY <3>2 DEF OpenOut
        <4> QED
          BY <4>1 DEF Written, SortInv, RunInv
      <3> QED
        BY <3>1, <3>2
    <2>3. pc' \notin InBuffers /\ pc' \notin {"first", "put", "next", "end"}
      BY <1>3 DEF InBuffers
    <2> QED
      BY <2>2, <2>3 DEF CountInv, BufferInv
  <1> QED
    BY <1>1, <1>2, <1>3

\* The buffers hold what the files hold.
LEMMA MergeOpenFlows ==
    ASSUME SortInv, SortInv', [Next]_vars, OrderInv, LeftInv, CountInv, BufferInv, ~opt.c, MergeOpen
    PROVE  OrderInv' /\ LeftInv' /\ CountInv' /\ BufferInv'
  <1>1. eargc' = eargc /\ opt' = opt /\ GivenInv'
    BY GivenStays DEF SortInv
  <1>2. /\ pc = "merge" /\ pc' = "first" /\ muflg' = ((opt.m /\ opt.u) \/ opt.c) /\ prev' = 0
        /\ operand' = operand /\ temp' = temp /\ nfiles' = nfiles /\ a' = a /\ upto' = upto
        /\ os' = os /\ out' = out /\ rest' = rest /\ lspace' = lspace
    BY DEF MergeOpen, sorting
  <1>3. /\ \A l : Total(ibuf', l) = Total(Sources, l)
        /\ \A i \in DOMAIN ibuf' : i \in a..upto - 1 /\ ibuf'[i] = Holds(i)
    BY <1>1, MergeOpenKeeps
  <1>4. pc \in Merging /\ pc' \in Merging /\ pc \in Running /\ pc' \in InBuffers
    BY <1>2 DEF Merging, Running, InBuffers
  <1>5. Written' = <<>>
    <2>1. Written = <<>>
      BY <1>2 DEF CountInv
    <2> QED
      BY <1>2, <2>1, WrittenStays
  <1>6. Sources' = Sources
    BY <1>2, <1>4, SourcesStay
  <1>7. OrderInv' /\ LeftInv'
    BY <1>2, <1>4, MergingFlows
  <1>8. CountInv'
    <2>1. ASSUME NEW l \in Line PROVE Same(Count(Written, l) + Total(ibuf, l), Total(Sources, l))'
      <3>1. PICK t \in Nat : t = Total(Sources, l)
        BY <1>4, TotalType, SourcesLines
      <3>2. Count(Written', l) = 0
        BY <1>5, CountEmpty
      <3>3. Count(Written', l) + Total(ibuf', l) = t /\ Total(Sources', l) = t
        BY <1>3, <1>6, <3>1, <3>2
      <3>4. Same(t, t)
        BY SameIs
      <3> QED
        BY <1>1, <3>3, <3>4 DEF Same
    <2>2. muflg' => opt'.u
      BY <1>1, <1>2
    <2>3. pc' # "next"
      BY <1>2
    <2> QED
      BY <1>2, <1>5, <2>1, <2>2, <2>3 DEF CountInv
  <1>9. BufferInv'
    <2>1. Rising(Written)'
      BY <1>5 DEF Rising, InOrder, Distinct
    <2>2. ASSUME NEW i \in DOMAIN ibuf' PROVE Rising(ibuf[i])'
      <3>1. i \in a..upto - 1 /\ ibuf'[i] = Holds(i)
        BY <1>3
      <3>2. i \in Kept
        <4>1. /\ a \in Nat /\ nfiles \in Nat /\ upto \in Nat /\ upto <= nfiles
              /\ os = None \/ os >= upto
          BY <1>4 DEF SortInv, TypesInv, PlaceInv
        <4> QED
          BY <1>4, <3>1, <4>1 DEF Kept, None
      <3>3. Rising(Holds(i))
        BY <1>4, <3>2 DEF OrderInv
      <3> QED
        BY <1>1, <3>1, <3>3 DEF Rising
    <2>3. ~opt'.m => ~muflg'
      BY <1>1, <1>2
    <2>4. pc' # "next" /\ pc' # "put"
      BY <1>2
    <2> QED
      BY <2>1, <2>2, <2>3, <2>4 DEF BufferInv
  <1> QED
    BY <1>7, <1>8, <1>9

\* The buffers are sorted by their first lines.
LEMMA MergeFirstFlows ==
    ASSUME SortInv, SortInv', [Next]_vars, OrderInv, LeftInv, CountInv, BufferInv, ~opt.c, MergeFirst
    PROVE  OrderInv' /\ LeftInv' /\ CountInv' /\ BufferInv'
  <1>1. eargc' = eargc /\ opt' = opt /\ GivenInv'
    BY GivenStays DEF SortInv
  <1>2. /\ pc = "first" /\ pc' \in {"first", "put"} /\ muflg' = muflg /\ prev' = prev
        /\ operand' = operand /\ temp' = temp /\ nfiles' = nfiles /\ a' = a /\ upto' = upto
        /\ os' = os /\ out' = out /\ rest' = rest /\ lspace' = lspace
    BY DEF MergeFirst, sorting
  <1>3. PICK s \in Arrangements :
            /\ Row(s) /\ Moved(s, ibuf)
            /\ \/ /\ opt.u /\ ibuf' = Without(s) /\ pc' = "first"
               \/ ibuf' = s /\ pc' = "put"
    BY <1>1, MergeFirstKeeps
  <1>4. pc \in Merging /\ pc' \in Merging /\ pc \in Running /\ pc \in InBuffers /\ pc' \in InBuffers
    BY <1>2 DEF Merging, Running, InBuffers
  <1>5. Written = <<>> /\ Written' = <<>>
    <2>1. Written = <<>>
      BY <1>2 DEF CountInv
    <2> QED
      BY <1>2, <2>1, WrittenStays
  <1>6. Sources' = Sources
    BY <1>2, <1>4, SourcesStay
  <1>7. OrderInv' /\ LeftInv'
    BY <1>2, <1>4, MergingFlows
  <1>8. PICK b : b = ibuf
    OBVIOUS
  <1>9. Bufs(b) /\ (\A i \in DOMAIN b : Rising(b[i])) /\ Moved(s, b)
    BY <1>3, <1>4, <1>8 DEF SortInv, RowInv, BufferInv
  <1>10. /\ \A l : Total(s, l) = Total(b, l)
         /\ \A i \in DOMAIN s : \E j \in DOMAIN b : s[i] = b[j]
    BY <1>9, MovedSame DEF Bufs
  <1>11. \A i \in DOMAIN s : Rising(s[i])
    BY <1>9, <1>10
  <1>12. PICK c : c = ibuf'
    OBVIOUS
  <1>13. Many(s) /\ DOMAIN s = 1..Len(s)
    BY <1>3, RowBufs DEF Bufs
  <1>14. ASSUME NEW l \in Line
         PROVE  Many(c) /\ (IF opt.u THEN Total(c, l) > 0 <=> Total(s, l) > 0 ELSE Total(c, l) = Total(s, l))
    <2>1. CASE opt.u /\ c = Without(s)
      <3>1. Bufs(Without(s)) /\ (Total(Without(s), l) > 0 <=> Total(s, l) > 0)
        BY <1>3, WithoutKeeps
      <3> QED
        BY <2>1, <3>1 DEF Bufs
    <2>2. CASE c = s
      BY <1>13, <2>2
    <2> QED
      BY <1>3, <1>12, <2>1, <2>2
  <1>15. ASSUME NEW i \in DOMAIN c PROVE Rising(c[i])
    <2>1. CASE c = Without(s)
      <3>1. PICK j \in 1..Len(s) : Without(s)[i] \in {s[j], Tail(s[j])}
        BY <1>3, <1>15, <2>1, WithoutKeeps
      <3>2. PICK r \in Seq(Line) : r = s[j] /\ r # <<>>
        BY <1>3 DEF Row
      <3>3. Rising(r)
        BY <1>11, <1>13, <3>2
      <3>4. Rising(Tail(r))
        BY <3>2, <3>3, RisingTail
      <3> QED
        BY <2>1, <3>1, <3>2, <3>3, <3>4
    <2>2. CASE c = s
      BY <1>11, <1>15, <2>2
    <2> QED
      BY <1>3, <1>12, <2>1, <2>2
  <1>16. CountInv'
    <2>1. ASSUME NEW l \in Line PROVE Same(Count(Written, l) + Total(ibuf, l), Total(Sources, l))'
      <3>1. PICK x \in Nat, y \in Nat, t \in Nat : x = Total(c, l) /\ y = Total(b, l) /\ t = Total(Sources, l)
        BY <1>4, <1>9, <1>14, TotalType, SourcesLines DEF Bufs
      <3>2. Count(<<>>, l) = 0
        BY CountEmpty
      <3>3. Same(Count(Written, l) + Total(ibuf, l), Total(Sources, l))
        BY <1>2 DEF CountInv
      <3>4. Same(y, t)
        BY <1>5, <1>8, <3>1, <3>2, <3>3
      <3>5. Same(x, y)
        BY <1>10, <1>14, <3>1 DEF Same
      <3>6. Same(x, t)
        BY <3>4, <3>5, SameIs
      <3>7. Count(Written', l) + Total(ibuf', l) = x /\ Total(Sources', l) = t
        BY <1>5, <1>6, <1>12, <3>1, <3>2
      <3> QED
        BY <1>1, <3>6, <3>7 DEF Same
    <2>2. (prev # 0 => opt.u /\ Count(Written, prev) > 0) /\ (muflg => opt.u)
      BY <1>4 DEF CountInv
    <2>3. (prev # 0 => opt.u /\ Count(Written, prev) > 0)' /\ (muflg => opt.u)'
      BY <1>1, <1>2, <1>5, <2>2
    <2>4. pc' # "next" /\ pc' # "merge"
      BY <1>2
    <2> QED
      BY <1>5, <2>1, <2>3, <2>4 DEF CountInv
  <1>17. BufferInv'
    <2>1. Rising(Written)' /\ 1..Len(Written') = {}
      BY <1>5 DEF Rising, InOrder, Distinct
    <2>2. ASSUME NEW i \in DOMAIN ibuf' PROVE Rising(ibuf[i])'
      BY <1>1, <1>12, <1>15, <2>2 DEF Rising
    <2>3. ~opt.m => ~muflg
      BY <1>2, <1>4 DEF BufferInv
    <2>4. pc' # "next" /\ (~opt.m => ~muflg)'
      BY <1>1, <1>2, <2>3
    <2> QED
      BY <2>1, <2>2, <2>4 DEF BufferInv
  <1> QED
    BY <1>7, <1>16, <1>17

\* A row and what is left of it without its least line.
LEMMA TakenIs ==
    ASSUME Row(ibuf), ibuf # <<>>
    PROVE  /\ Len(ibuf) \in Nat /\ Len(ibuf) > 0 /\ Least = ibuf[Len(ibuf)]
           /\ \A i \in 1..Len(ibuf) : ibuf[i] \in Seq(Line) /\ ibuf[i] # <<>> /\ Head(ibuf[i]) \in Line
           /\ DOMAIN Taken = 1..Len(ibuf)
           /\ \A i \in 1..Len(ibuf) - 1 : Taken[i] = ibuf[i]
           /\ \A i \in 1..Len(ibuf) - 1 : Head(Least) <= Head(ibuf[i])
  <1>1. PICK n \in Nat : n = Len(ibuf) /\ n > 0
    BY DEF Row
  <1>2. DOMAIN ibuf = 1..n /\ \A i \in 1..n : ibuf[i] \in Seq(Line) /\ ibuf[i] # <<>>
    BY <1>1, RowBufs DEF Row
  <1>3. \A i \in 1..n : Head(ibuf[i]) \in Line
    BY <1>2, CountTail
  <1>4. Least = ibuf[n]
    BY <1>1 DEF Least
  <1>5. \A i \in 1..n - 1 : i \in 1..n /\ i < n /\ n \in 1..n
    BY <1>1
  <1>6. \A i \in 1..n - 1 : Head(Least) <= Head(ibuf[i])
    <2> SUFFICES ASSUME NEW i \in 1..n - 1 PROVE Head(Least) <= Head(ibuf[i])
      OBVIOUS
    <2>1. Head(ibuf[i]) >= Head(ibuf[n])
      BY <1>1, <1>5 DEF Row, Falling
    <2>2. Head(ibuf[i]) \in Int /\ Head(ibuf[n]) \in Int
      BY <1>3, <1>5, LineInt
    <2> QED
      BY <1>4, <2>1, <2>2
  <1>7. DOMAIN Taken = 1..n /\ \A i \in 1..n - 1 : Taken[i] = ibuf[i]
    BY <1>1, <1>2, <1>5 DEF Taken
  <1> QED
    BY <1>1, <1>2, <1>3, <1>4, <1>6, <1>7

\* Where the least line is not wanted, the next file has it too.
LEMMA NotWanted ==
    ASSUME Row(ibuf), ibuf # <<>>, ~opt.c, ~Wanted
    PROVE  opt.u /\ ~muflg /\ Total(Taken, Head(Least)) > 0
  <1>1. /\ opt.u /\ ~muflg /\ Len(ibuf) # 1
        /\ Head(Least) = Head(ibuf[Len(ibuf) - 1])
    BY DEF Wanted
  <1>2. PICK j \in 1..Len(ibuf) - 1 : j = Len(ibuf) - 1
    <2>1. PICK n \in Nat : n = Len(ibuf) /\ n > 0
      BY TakenIs
    <2>2. n - 1 \in 1..n - 1
      BY <1>1, <2>1
    <2> QED
      BY <2>1, <2>2
  <1>3. PICK s \in Seq(Line) : s = ibuf[j] /\ s # <<>> /\ s = Taken[j] /\ j \in DOMAIN Taken
    <2>1. j \in 1..Len(ibuf)
      BY TakenIs
    <2> QED
      BY <2>1, TakenIs
  <1>4. PICK x \in Line : x = Head(s)
    BY <1>3, CountTail
  <1>5. Count(s, x) > 0
    <2>1. Count(s, x) = (IF Head(s) = x THEN 1 ELSE 0) + Count(Tail(s), x) /\ Tail(s) \in Seq(Line)
      BY <1>3, CountTail
    <2>2. Count(Tail(s), x) \in Nat
      BY <2>1, CountType
    <2> QED
      BY <1>4, <2>1, <2>2
  <1>6. Many(Taken)
    BY AdvancedRow
  <1>7. Total(Taken, x) > 0
    BY <1>3, <1>5, <1>6, TotalType
  <1> QED
    BY <1>1, <1>2, <1>3, <1>4, <1>7

\* What MergePut() does to what was written.
LEMMA PutWrites ==
    ASSUME SortInv, [Next]_vars, MergePut, ibuf # <<>>, ~opt.c
    PROVE  /\ Wanted => Written' = Written \o <<Head(Least)>>
           /\ ~Wanted => Written' = Written
           /\ \A f \in DOMAIN temp : os = None \/ f # Setfil(os) => temp'[f] = temp[f]
  <1>1. /\ GivenInv' /\ \A i : Setfil(i)' = Setfil(i)
    BY GivenStays DEF SortInv
  <1>2. pc = "put" /\ os' = os
    BY DEF MergePut
  <1>3. /\ Head(Least) \in Line /\ (Wanted => Fwrite(<<Head(Least)>>))
        /\ ~Wanted => out' = out /\ temp' = temp
    BY <1>1, MergePutKeeps
  <1>4. os # None => Setfil(os) \in DOMAIN temp
    BY <1>2, WrittenLines DEF Merging
  <1>5. CASE ~Wanted
    BY <1>2, <1>3, <1>5, WrittenStays
  <1>6. CASE Wanted
    <2>1. <<Head(Least)>> \in Seq(Line) /\ TypesInv
      BY <1>3 DEF SortInv
    <2>2. /\ os = None => out' = out \o <<Head(Least)>> /\ temp' = temp
          /\ os # None => /\ out' = out /\ temp'[Setfil(os)] = temp[Setfil(os)] \o <<Head(Least)>>
                          /\ \A f \in DOMAIN temp : f # Setfil(os) => temp'[f] = temp[f]
      BY <1>3, <1>4, <1>6, <2>1, FwriteDoes
    <2>3. PICK x : x = os
      OBVIOUS
    <2>4. Setfil(os)' = Setfil(os)
      BY <1>1, <1>2, <2>3 DEF Setfil
    <2>5. Written' = IF os = None THEN out' ELSE temp'[Setfil(os)]
      BY <1>2, <2>4 DEF Written
    <2>6. Written' = Written \o <<Head(Least)>>
      BY <2>2, <2>5 DEF Written
    <2> QED
      BY <1>6, <2>2, <2>6
  <1> QED
    BY <1>5, <1>6

\* The least line goes to what was written.
LEMMA MergePutFlows ==
    ASSUME SortInv, SortInv', [Next]_vars, OrderInv, LeftInv, CountInv, BufferInv, ~opt.c, MergePut
    PROVE  OrderInv' /\ LeftInv' /\ CountInv' /\ BufferInv'
  <1>1. eargc' = eargc /\ opt' = opt /\ GivenInv'
    BY GivenStays DEF SortInv
  <1>2. /\ pc = "put" /\ pc' \in {"next", "end"} /\ muflg' = muflg /\ ibuf' = ibuf
        /\ operand' = operand /\ nfiles' = nfiles /\ a' = a /\ upto' = upto
        /\ os' = os /\ rest' = rest /\ lspace' = lspace
        /\ ibuf = <<>> => pc' = "end" /\ temp' = temp /\ out' = out /\ prev' = prev
        /\ ibuf # <<>> => pc' = "next" /\ prev' = IF muflg THEN Head(Least) ELSE prev
    BY DEF MergePut, sorting
  <1>3. pc \in Merging /\ pc' \in Merging /\ pc \in Running /\ pc \in InBuffers /\ pc' \in InBuffers
    BY <1>2 DEF Merging, Running, InBuffers
  <1>4. \A f \in DOMAIN temp : os = None \/ f # Setfil(os) => temp'[f] = temp[f]
    BY <1>2, PutWrites
  <1>5. Sources' = Sources
    BY <1>2, <1>3, <1>4, SourcesStay
  <1>6. OrderInv' /\ LeftInv'
    BY <1>2, <1>3, <1>4, MergingFlows
  <1>7. Row(ibuf) /\ Many(ibuf)
    BY <1>2 DEF SortInv, RowInv, Bufs
  <1>8. CASE ibuf = <<>>
    <2>1. Written' = Written
      BY <1>2, <1>8, WrittenStays
    <2>2. CountInv'
      <3>1. ASSUME NEW l \in Line PROVE Same(Count(Written, l) + Total(ibuf, l), Total(Sources, l))'
        <4>1. Same(Count(Written, l) + Total(ibuf, l), Total(Sources, l))
          BY <1>2 DEF CountInv
        <4> QED
          BY <1>1, <1>2, <1>5, <2>1, <4>1 DEF Same
      <3>2. (prev # 0 => opt.u /\ Count(Written, prev) > 0) /\ (muflg => opt.u)
        BY <1>3 DEF CountInv
      <3>3. (prev # 0 => opt.u /\ Count(Written, prev) > 0)' /\ (muflg => opt.u)'
        BY <1>1, <1>2, <1>8, <2>1, <3>2
      <3>4. pc' = "end"
        BY <1>2, <1>8
      <3> QED
        BY <3>1, <3>3, <3>4 DEF CountInv
    <2>3. BufferInv'
      <3>1. Rising(Written)'
        BY <1>1, <1>3, <2>1 DEF BufferInv, Rising
      <3>2. \A i \in DOMAIN ibuf : Rising(ibuf[i])
        BY <1>3 DEF BufferInv
      <3>3. (\A i \in DOMAIN ibuf : Rising(ibuf[i]))'
        BY <1>1, <1>2, <3>2 DEF Rising
      <3>4. (~opt.m /\ muflg => Len(ibuf) <= 1)'
        BY <1>1, <1>2, <1>3 DEF BufferInv
      <3>5. pc' = "end"
        BY <1>2, <1>8
      <3> QED
        BY <3>1, <3>3, <3>4, <3>5 DEF BufferInv
    <2> QED
      BY <1>6, <2>2, <2>3
  <1>9. CASE ibuf # <<>>
    <2>1. PICK n \in Nat : n = Len(ibuf) /\ n > 0
      BY <1>7, <1>9, TakenIs
    <2>2. PICK x \in Line : x = Head(Least)
      BY <1>7, <1>9, AdvancedRow
    <2>3. PICK w \in Seq(Line) : w = Written
      BY <1>3, WrittenLines
    <2>4. PICK v : v = Written'
      OBVIOUS
    <2>5. (Wanted => v = w \o <<x>>) /\ (~Wanted => v = w)
      BY <1>9, <2>2, <2>3, <2>4, PutWrites
    <2>6. v \in Seq(Line)
      <3>1. <<x>> \in Seq(Line)
        OBVIOUS
      <3>2. w \o <<x>> \in Seq(Line)
        BY <3>1
      <3> QED
        BY <2>5, <3>2
    <2>7. \A l : Count(v, l) = Count(w, l) + IF Wanted /\ l = x THEN 1 ELSE 0
      <3> TAKE l
      <3>1. Count(w \o <<x>>, l) = Count(w, l) + Count(<<x>>, l)
        <4>1. <<x>> \in Seq(Line)
          OBVIOUS
        <4> QED
          BY <4>1, CountJoin
      <3>2. Count(<<x>>, l) = IF x = l THEN 1 ELSE 0
        BY CountOne
      <3>3. Count(w, l) \in Nat
        BY CountType
      <3>4. CASE Wanted
        <4>1. Count(v, l) = Count(w, l) + IF x = l THEN 1 ELSE 0
          BY <2>5, <3>1, <3>2, <3>4
        <4> QED
          BY <3>4, <4>1
      <3>5. CASE ~Wanted
        BY <2>5, <3>3, <3>5
      <3> QED
        BY <3>4, <3>5
    <2>8. \A l : /\ Total(ibuf, l) = Total(Taken, l) + IF x = l THEN 1 ELSE 0
                 /\ Total(Taken, l) \in Nat /\ Count(w, l) \in Nat
      <3> TAKE l
      <3>1. Total(ibuf, l) = Total(Taken, l) + (IF x = l THEN 1 ELSE 0) /\ Many(Taken)
        BY <1>7, <1>9, <2>2, AdvancedRow
      <3> QED
        BY <3>1, TotalType, CountType
    <2>9. Taken' = Taken /\ Least' = Least /\ pc' = "next"
      BY <1>2, <1>9 DEF Taken, Least
    <2>10. ~Wanted => opt.u /\ ~muflg /\ Total(Taken, x) > 0
      BY <1>7, <1>9, <2>2, NotWanted
    <2>11. CountInv'
      <3>1. ASSUME NEW l \in Line PROVE Same(Count(Written, l) + Total(Taken, l), Total(Sources, l))'
        <4>1. PICK p \in Nat, q \in Nat, r \in Nat, t \in Nat :
                  p = Count(v, l) /\ q = Total(Taken, l) /\ r = Count(w, l) /\ t = Total(Sources, l)
          BY <1>3, <2>6, <2>8, CountType, TotalType, SourcesLines
        <4>2. Same(r + q + (IF x = l THEN 1 ELSE 0), t)
          <5>1. Same(Count(Written, l) + Total(ibuf, l), Total(Sources, l))
            BY <1>2 DEF CountInv
          <5>2. Count(Written, l) + Total(ibuf, l) = r + q + (IF x = l THEN 1 ELSE 0)
            BY <2>3, <2>8, <4>1
          <5> QED
            BY <4>1, <5>1, <5>2
        <4>3. p = r + IF Wanted /\ l = x THEN 1 ELSE 0
          BY <2>7, <4>1
        <4>4. Same(p + q, t)
          <5>1. CASE Wanted \/ l # x
            BY <4>2, <4>3, <5>1
          <5>2. CASE ~Wanted /\ l = x
            <6>1. opt.u /\ q > 0
              BY <2>10, <4>1, <5>2
            <6> QED
              BY <4>2, <4>3, <5>2, <6>1 DEF Same
          <5> QED
            BY <5>1, <5>2
        <4> QED
          BY <1>1, <1>5, <2>4, <2>9, <4>1, <4>4 DEF Same
      <3>2. (prev # 0 => opt.u /\ Count(Written, prev) > 0) /\ (muflg => opt.u)
        BY <1>3 DEF CountInv
      <3>3. (muflg => opt.u)'
        BY <1>1, <1>2, <3>2
      <3>4. prev' # 0 => opt.u /\ Count(v, prev') > 0
        <4>1. CASE muflg
          <5>1. prev' = x /\ Wanted /\ opt.u
            BY <1>2, <1>9, <2>2, <2>10, <3>2, <4>1
          <5> QED
            BY <2>7, <2>8, <5>1
        <4>2. CASE ~muflg
          <5>1. prev' = prev
            BY <1>2, <1>9, <4>2
          <5> QED
            BY <2>3, <2>7, <2>8, <3>2, <5>1
        <4> QED
          BY <4>1, <4>2
      <3>5. (prev # 0 => opt.u /\ Count(Written, prev) > 0)'
        BY <1>1, <2>4, <3>4
      <3> QED
        BY <2>9, <3>1, <3>3, <3>5 DEF CountInv
    <2>12. BufferInv'
      <3>1. \A k \in 1..Len(w) : \A i \in 1..n : Up(w[k], Head(ibuf[i]))
        BY <1>2, <1>3, <2>1, <2>3 DEF BufferInv
      <3>2. n \in 1..n /\ x = Head(ibuf[n])
        BY <1>7, <1>9, <2>1, <2>2, TakenIs
      <3>3. Rising(w)
        BY <1>3, <2>3 DEF BufferInv
      <3>4. Rising(v)
        <4>1. Rising(w \o <<x>>)
          BY <3>1, <3>2, <3>3, RisingJoin
        <4> QED
          BY <2>5, <3>3, <4>1
      <3>5. \A k \in 1..Len(v) : (k \in 1..Len(w) /\ v[k] = w[k]) \/ (Wanted /\ v[k] = x)
        <4>1. CASE Wanted
          BY <2>5, <4>1
        <4>2. CASE ~Wanted
          BY <2>5, <4>2
        <4> QED
          BY <4>1, <4>2
      <3>6. ASSUME Wanted, NEW i \in 1..n - 1 PROVE Up(x, Head(ibuf[i]))
        <4>1. x <= Head(ibuf[i])
          BY <1>7, <1>9, <2>1, <2>2, TakenIs
        <4>2. ASSUME opt.u, ~opt.m PROVE x # Head(ibuf[i])
          <5>1. muflg => n <= 1
            BY <1>3, <2>1, <4>2 DEF BufferInv
          <5>2. x # Head(ibuf[n - 1])
            BY <2>1, <2>2, <3>6, <4>2, <5>1 DEF Wanted
          <5>3. PICK j \in 1..n - 1 : j = n - 1
            BY <2>1
          <5>4. x <= Head(ibuf[j])
            BY <1>7, <1>9, <2>1, <2>2, TakenIs
          <5>5. i \in 1..n /\ j \in 1..n /\ (i = j \/ i < j)
            BY <2>1, <5>3
          <5>6. i = j \/ Head(ibuf[i]) >= Head(ibuf[j])
            BY <1>7, <2>1, <5>5 DEF Row, Falling
          <5>7. Head(ibuf[i]) \in Int /\ Head(ibuf[j]) \in Int /\ x \in Int
            BY <1>7, <1>9, <2>1, <5>5, TakenIs, LineInt
          <5> QED
            BY <5>2, <5>3, <5>4, <5>6, <5>7
        <4> QED
          BY <4>1, <4>2 DEF Up
      <3>7. ASSUME NEW k \in 1..Len(v) PROVE v[k] <= x /\ \A i \in 1..n - 1 : Up(v[k], Head(ibuf[i]))
        <4>1. CASE k \in 1..Len(w) /\ v[k] = w[k]
          <5>1. v[k] <= x
            BY <3>1, <3>2, <4>1 DEF Up
          <5>2. \A i \in 1..n - 1 : i \in 1..n
            OBVIOUS
          <5> QED
            BY <3>1, <4>1, <5>1, <5>2
        <4>2. CASE Wanted /\ v[k] = x
          BY <3>6, <4>2, LineInt
        <4> QED
          BY <3>5, <4>1, <4>2
      <3>8. Rising(Written)'
        BY <1>1, <2>4, <3>4 DEF Rising
      <3>9. \A i \in DOMAIN ibuf : Rising(ibuf[i])
        BY <1>3 DEF BufferInv
      <3>10. (\A i \in DOMAIN ibuf : Rising(ibuf[i]))'
        BY <1>1, <1>2, <3>9 DEF Rising
      <3>11. (~opt.m /\ muflg => Len(ibuf) <= 1)'
        BY <1>1, <1>2, <1>3 DEF BufferInv
      <3>12. (\A k \in 1..Len(Written) : /\ Written[k] <= Head(Least)
                                         /\ \A i \in 1..Len(ibuf) - 1 : Up(Written[k], Head(ibuf[i])))'
        <4>1. \A p, q : Up(p, q)' <=> Up(p, q)
          BY <1>1 DEF Up
        <4> QED
          BY <1>1, <1>2, <2>1, <2>2, <2>4, <2>9, <3>7 DEF Up
      <3> QED
        BY <2>9, <3>8, <3>10, <3>11, <3>12 DEF BufferInv
    <2> QED
      BY <1>6, <2>11, <2>12
  <1> QED
    BY <1>8, <1>9

\* merge() goes on to the next line, and passes over it if it was written already.
LEMMA MergeNextFlows ==
    ASSUME SortInv, SortInv', [Next]_vars, OrderInv, LeftInv, CountInv, BufferInv, ~opt.c, MergeNext
    PROVE  OrderInv' /\ LeftInv' /\ CountInv' /\ BufferInv'
  <1>1. eargc' = eargc /\ opt' = opt /\ GivenInv'
    BY GivenStays DEF SortInv
  <1> DEFINE one == Len(Least) = 1 /\ Len(Advanced) = 1
  <1>2. /\ pc = "next" /\ ibuf' = Advanced /\ temp' = temp /\ out' = out
        /\ operand' = operand /\ nfiles' = nfiles /\ a' = a /\ upto' = upto
        /\ os' = os /\ rest' = rest /\ lspace' = lspace
        /\ muflg' = (IF one THEN opt.u ELSE muflg) /\ prev' = (IF one THEN 0 ELSE prev)
    BY DEF MergeNext, sorting
  <1>3. pc' = IF ibuf' = <<>> THEN "end" ELSE IF prev' = 0 THEN "put"
              ELSE IF Head(ibuf'[Len(ibuf')]) = prev' THEN "next" ELSE "put"
    BY DEF MergeNext
  <1> HIDE DEF one
  <1>4. pc' \in {"put", "next", "end"}
    BY <1>3
  <1>5. pc \in Merging /\ pc' \in Merging /\ pc \in Running /\ pc \in InBuffers /\ pc' \in InBuffers
    BY <1>2, <1>4 DEF Merging, Running, InBuffers
  <1>6. Sources' = Sources
    BY <1>2, <1>5, SourcesStay
  <1>7. OrderInv' /\ LeftInv'
    BY <1>2, <1>5, MergingFlows
  <1>8. Row(ibuf) /\ ibuf # <<>>
    BY <1>2 DEF SortInv, RowInv
  <1>9. PICK n \in Nat : n = Len(ibuf) /\ n > 0
    BY <1>8, TakenIs
  <1>10. PICK b : b = Advanced
    OBVIOUS
  <1>11. PICK s \in Seq(Line) : s = Least /\ s # <<>> /\ s = ibuf[n] /\ Head(s) \in Line
    BY <1>8, <1>9, AdvancedRow, TakenIs
  <1>12. /\ Row(b) /\ Many(Taken) /\ \A l : Total(b, l) = Total(Taken, l)
         /\ \A i \in 1..Len(b) : \/ b[i] = Tail(s) /\ Tail(s) # <<>>
                                 \/ \E j \in 1..n - 1 : b[i] = ibuf[j]
         /\ Len(b) = IF Len(s) = 1 THEN n - 1 ELSE n
    BY <1>8, <1>9, <1>10, <1>11, AdvancedRow
  <1>13. DOMAIN b = 1..Len(b) /\ Len(b) \in Nat
    BY <1>12, RowBufs
  <1>14. PICK w \in Seq(Line) : w = Written /\ w = Written'
    BY <1>2, <1>5, WrittenLines, WrittenStays
  <1>15. /\ Rising(w) /\ \A i \in 1..n : Rising(ibuf[i])
         /\ \A k \in 1..Len(w) : w[k] <= Head(s) /\ \A i \in 1..n - 1 : Up(w[k], Head(ibuf[i]))
         /\ ~opt.m /\ muflg => n <= 1
    <2>1. DOMAIN ibuf = 1..n
      BY <1>8, <1>9, RowBufs
    <2> QED
      BY <1>2, <1>5, <1>9, <1>11, <1>14, <2>1 DEF BufferInv
  <1>16. /\ \A l \in Line : Same(Count(w, l) + Total(Taken, l), Total(Sources, l))
         /\ prev # 0 => opt.u /\ Count(w, prev) > 0
         /\ muflg => opt.u
    BY <1>2, <1>5, <1>14 DEF CountInv
  <1>17. /\ prev' # 0 => prev' = prev /\ opt.u /\ Count(w, prev') > 0
         /\ muflg' => opt.u
    <2>1. CASE one
      BY <1>2, <2>1
    <2>2. CASE ~one
      BY <1>2, <1>16, <2>2
    <2> QED
      BY <2>1, <2>2
  <1>18. CountInv'
    <2>1. (prev # 0 => opt.u /\ Count(Written, prev) > 0)' /\ (muflg => opt.u)'
      BY <1>1, <1>14, <1>17
    <2>2. ASSUME NEW l \in Line
          PROVE  /\ Count(w, l) \in Nat /\ Total(b, l) \in Nat /\ Total(Sources, l) \in Nat
                 /\ Same(Count(w, l) + Total(b, l), Total(Sources, l))
      <3>1. Total(b, l) = Total(Taken, l) /\ Total(Taken, l) \in Nat
        BY <1>12, TotalType
      <3> QED
        BY <1>5, <1>16, <3>1, CountType, TotalType, SourcesLines
    <2>3. CASE pc' # "next"
      <3>1. ASSUME NEW l \in Line PROVE Same(Count(Written, l) + Total(ibuf, l), Total(Sources, l))'
        <4>1. Same(Count(w, l) + Total(b, l), Total(Sources, l))
          BY <2>2
        <4> QED
          BY <1>1, <1>2, <1>6, <1>10, <1>14, <4>1 DEF Same
      <3> QED
        BY <1>4, <2>1, <2>3, <3>1 DEF CountInv
    <2>4. CASE pc' = "next"
      <3>1. b # <<>> /\ Head(b[Len(b)]) = prev' /\ prev' # 0
        BY <1>2, <1>3, <1>10, <2>4
      <3>2. PICK r : r = [b EXCEPT ![Len(b)] = Tail(b[Len(b)])]
        OBVIOUS
      <3>3. Taken' = r
        BY <1>2, <1>10, <3>2 DEF Taken
      <3>4. Many(r) /\ \A l : Total(b, l) = Total(r, l) + IF prev' = l THEN 1 ELSE 0
        BY <1>12, <3>1, <3>2, TakenRow
      <3>5. ASSUME NEW l \in Line PROVE Same(Count(Written, l) + Total(Taken, l), Total(Sources, l))'
        <4>1. PICK p \in Nat, q \in Nat, t \in Nat :
                  p = Count(w, l) /\ q = Total(r, l) /\ t = Total(Sources, l)
          BY <2>2, <3>4, TotalType
        <4>2. Same(p + q + (IF prev' = l THEN 1 ELSE 0), t)
          <5>1. Total(b, l) = q + (IF prev' = l THEN 1 ELSE 0) /\ Same(p + Total(b, l), t)
            BY <2>2, <3>4, <4>1
          <5>2. p + Total(b, l) = p + q + (IF prev' = l THEN 1 ELSE 0)
            BY <4>1, <5>1
          <5> QED
            BY <5>1, <5>2
        <4>3. prev' = l => opt.u /\ p > 0
          BY <1>17, <3>1, <4>1
        <4>4. Same(p + q, t)
          BY <4>1, <4>2, <4>3 DEF Same
        <4> QED
          BY <1>1, <1>6, <1>14, <3>3, <4>1, <4>4 DEF Same
      <3> QED
        BY <2>1, <2>4, <3>5 DEF CountInv
    <2> QED
      BY <2>3, <2>4
  <1>19. BufferInv'
    <2>1. Rising(Written)'
      BY <1>1, <1>14, <1>15 DEF Rising
    <2>2. \A i \in 1..n - 1 : i \in 1..n
      OBVIOUS
    <2>3. n \in 1..n
      BY <1>9
    <2>4. ASSUME NEW i \in 1..Len(b)
          PROVE  Rising(b[i]) /\ \A k \in 1..Len(w) : Up(w[k], Head(b[i]))
      <3>1. CASE b[i] = Tail(s) /\ Tail(s) # <<>>
        <4>1. Rising(s)
          BY <1>11, <1>15, <2>3
        <4>2. Rising(Tail(s)) /\ Head(Tail(s)) \in Line /\ Up(Head(s), Head(Tail(s)))
          BY <1>11, <3>1, <4>1, RisingTail
        <4>3. ASSUME NEW k \in 1..Len(w) PROVE Up(w[k], Head(Tail(s)))
          <5>1. w[k] \in Line
            OBVIOUS
          <5>2. PICK x \in Int, y \in Int, z \in Int : x = w[k] /\ y = Head(s) /\ z = Head(Tail(s))
            BY <1>11, <4>2, <5>1, LineInt
          <5>3. x <= y
            BY <1>15, <5>2
          <5>4. Up(y, z)
            BY <4>2, <5>2
          <5>5. Up(x, z)
            BY <5>3, <5>4 DEF Up
          <5> QED
            BY <5>2, <5>5
        <4> QED
          BY <3>1, <4>2, <4>3
      <3>2. CASE \E j \in 1..n - 1 : b[i] = ibuf[j]
        BY <1>15, <2>2, <3>2
      <3> QED
        BY <1>12, <3>1, <3>2
    <2>5. (\A i \in DOMAIN ibuf : Rising(ibuf[i]))'
      <3>1. \A i \in DOMAIN b : Rising(b[i])
        BY <1>13, <2>4
      <3> QED
        BY <1>1, <1>2, <1>10, <3>1 DEF Rising
    <2>6. \A p, q : Up(p, q)' <=> Up(p, q)
      BY <1>1 DEF Up
    <2>7. (\A k \in 1..Len(Written) : \A i \in 1..Len(ibuf) : Up(Written[k], Head(ibuf[i])))'
      BY <1>1, <1>2, <1>10, <1>14, <2>4 DEF Up
    <2>8. pc' = "next" => (\A k \in 1..Len(Written) :
                              /\ Written[k] <= Head(Least)
                              /\ \A i \in 1..Len(ibuf) - 1 : Up(Written[k], Head(ibuf[i])))'
      <3> SUFFICES ASSUME pc' = "next"
                   PROVE  (\A k \in 1..Len(Written) :
                              /\ Written[k] <= Head(Least)
                              /\ \A i \in 1..Len(ibuf) - 1 : Up(Written[k], Head(ibuf[i])))'
        OBVIOUS
      <3>1. b # <<>>
        BY <1>2, <1>3, <1>10
      <3>2. PICK m \in Nat : m = Len(b) /\ m > 0
        BY <1>12, <1>13, <3>1 DEF Row
      <3>3. m \in 1..m /\ \A i \in 1..m - 1 : i \in 1..m
        BY <3>2
      <3>4. Least' = b[m]
        BY <1>2, <1>10, <3>2 DEF Least
      <3>5. ASSUME NEW k \in 1..Len(w)
            PROVE  w[k] <= Head(b[m]) /\ \A i \in 1..m - 1 : Up(w[k], Head(b[i]))
        BY <2>4, <3>2, <3>3 DEF Up
      <3> QED
        BY <1>1, <1>2, <1>10, <1>14, <3>2, <3>4, <3>5 DEF Up
    <2>9. (~opt.m /\ muflg => Len(ibuf) <= 1)'
      <3>1. CASE one
        BY <1>2, <3>1 DEF one
      <3>2. CASE ~one
        <4>1. muflg' = muflg
          BY <1>2, <3>2
        <4>2. Len(b) <= n
          BY <1>9, <1>12
        <4>3. ~opt.m /\ muflg' => Len(b) <= 1
          BY <1>9, <1>13, <1>15, <4>1, <4>2
        <4> QED
          BY <1>1, <1>2, <1>10, <4>3
      <3> QED
        BY <3>1, <3>2
    <2>10. pc' # "first"
      BY <1>4
    <2> QED
      BY <2>1, <2>5, <2>7, <2>8, <2>9, <2>10 DEF BufferInv
  <1> QED
    BY <1>7, <1>18, <1>19

-----------------------------------------------------------------------------
(* sort and sort -m *)

\* All of it.
FlowInv == SortInv /\ OrderInv /\ LeftInv /\ (~opt.c => CountInv /\ BufferInv)

\* At first all lines are in the files, or still to be read.
LEMMA FlowInit == Init => FlowInv
  <1> SUFFICES ASSUME Init PROVE FlowInv
    OBVIOUS
  <1>1. SortInv
    BY SortInit
  <1>2. /\ opt.m => \A i \in 1..eargc : InOrder(input[i])
        /\ pc = IF opt.m \/ opt.c THEN "pass" ELSE "fill"
        /\ operand = [i \in 0..eargc - 1 |-> input[i + 1]]
        /\ nfiles = eargc
        /\ rest = IF opt.m \/ opt.c THEN <<>> ELSE Joined(input)
        /\ lspace = <<>>
        /\ a = (IF opt.m \/ opt.c THEN 0 ELSE eargc) /\ upto = a
        /\ os = None /\ out = <<>>
    BY DEF Init
  <1>3. pc \in {"pass", "fill"}
    BY <1>2
  <1>4. pc \in Running /\ pc \notin Merging /\ pc \notin {"term", "exit"}
    BY <1>3 DEF Running, Merging
  <1>5. input \in Seq(Seq(Line)) /\ eargc \in Nat /\ eargc > 0 /\ eargc = Len(input)
    BY <1>1 DEF SortInv, GivenInv, eargc
  <1>6. Kept = a..eargc - 1
    BY <1>2, <1>4 DEF Kept
  <1>7. ASSUME ~opt.c PROVE CountInv /\ BufferInv
    <2>1. pc \notin InBuffers /\ pc \notin {"merge", "first", "put", "next", "end"}
      BY <1>3 DEF InBuffers
    <2> QED
      BY <2>1 DEF CountInv, BufferInv
  <1>8. ASSUME ~opt.c PROVE OrderInv /\ LeftInv
    <2>1. CASE opt.m
      <3>1. Kept = 0..eargc - 1
        BY <1>2, <1>6, <2>1
      <3>2. \A i \in 0..eargc - 1 : i + 1 \in 1..eargc /\ Holds(i) = input[i + 1]
        BY <1>2, <1>5 DEF Holds
      <3>3. \A i \in Kept : Rising(Holds(i))
        BY <1>2, <2>1, <3>1, <3>2 DEF Rising
      <3>4. a # nfiles
        BY <1>2, <1>5, <2>1
      <3>5. OrderInv
        BY <3>3, <3>4 DEF OrderInv
      <3>6. ASSUME NEW l PROVE Total(Files, l) = Total(input, l)
        <4>1. PICK f : f = Files
          OBVIOUS
        <4>2. Many(f) /\ DOMAIN f = Kept /\ \A i \in Kept : f[i] = Holds(i)
          BY <1>1, <1>4, <4>1, FilesLines
        <4>3. PICK g : g = input
          OBVIOUS
        <4>4. DOMAIN g = 1..eargc /\ \A i \in 1..eargc : g[i] \in Seq(Line)
          BY <1>5, <4>3
        <4>5. Many(g)
          <5>1. IsFiniteSet(1..eargc)
            BY <1>5, FS_Interval
          <5> QED
            BY <4>4, <5>1 DEF Many
        <4>6. PICK p : p = [i \in 0..eargc - 1 |-> i + 1]
          OBVIOUS
        <4>7. p \in Bijection(0..eargc - 1, 1..eargc)
          <5>1. p \in [0..eargc - 1 -> 1..eargc]
            BY <1>5, <4>6
          <5>2. \A i, j \in 0..eargc - 1 : p[i] = p[j] => i = j
            BY <1>5, <4>6
          <5>3. \A k \in 1..eargc : k - 1 \in 0..eargc - 1 /\ p[k - 1] = k
            BY <1>5, <4>6
          <5> QED
            BY <5>1, <5>2, <5>3 DEF Bijection, Injection, Surjection, IsInjective
        <4>8. \A i \in DOMAIN f : f[i] = g[p[i]]
          BY <3>1, <3>2, <4>2, <4>3, <4>6
        <4>9. p \in Bijection(DOMAIN f, DOMAIN g)
          BY <3>1, <4>2, <4>4, <4>7
        <4>10. Total(f, l) = Total(g, l)
          BY <4>5, <4>8, <4>9, TotalMoved
        <4> QED
          BY <4>1, <4>3, <4>10
      <3>7. ASSUME NEW l \in Line PROVE Same(Left(l), Total(input, l))
        <4>1. PICK t \in Nat : t = Total(input, l)
          BY <1>1, <1>4, LeftIs
        <4>2. Left(l) = Count(rest, l) + Count(lspace, l) + Total(Files, l) + There(l)
          BY LeftThere
        <4>3. rest = <<>> /\ lspace = <<>> /\ There(l) = 0
          BY <1>2, <2>1, CountEmpty DEF There
        <4>4. Left(l) = t
          BY <3>6, <4>1, <4>2, <4>3, CountEmpty
        <4> QED
          BY <4>1, <4>4, SameIs
      <3> QED
        BY <1>4, <3>5, <3>7 DEF LeftInv
    <2>2. CASE ~opt.m
      <3>1. Kept = {}
        BY <1>2, <1>5, <1>6, <1>8, <2>2
      <3>2. pc = "fill"
        BY <1>2, <1>8, <2>2
      <3>3. OrderInv
        BY <3>1, <3>2 DEF OrderInv
      <3>4. DOMAIN Files = {}
        BY <3>1 DEF Files, Kept
      <3>5. ASSUME NEW l \in Line PROVE Same(Left(l), Total(input, l))
        <4>1. PICK t \in Nat : t = Total(input, l)
          BY <1>1, <1>4, LeftIs
        <4>2. Left(l) = Count(rest, l) + Count(lspace, l) + Total(Files, l) + There(l)
          BY LeftThere
        <4>3. lspace = <<>> /\ There(l) = 0 /\ rest = Joined(input)
          BY <1>2, <1>8, <2>2, CountEmpty DEF There
        <4>4. Count(rest, l) = t
          BY <1>5, <4>1, <4>3, JoinedCounts
        <4>5. Left(l) = t
          BY <3>4, <4>1, <4>2, <4>3, <4>4, CountEmpty, TotalNone
        <4> QED
          BY <4>1, <4>5, SameIs
      <3> QED
        BY <1>4, <3>3, <3>5 DEF LeftInv
    <2> QED
      BY <2>1, <2>2
  <1>9. opt.c => OrderInv /\ LeftInv
    BY DEF OrderInv, LeftInv
  <1> QED
    BY <1>1, <1>7, <1>8, <1>9 DEF FlowInv

\* Every step keeps it.
LEMMA FlowStep == FlowInv /\ [Next]_vars => FlowInv'
  <1> SUFFICES ASSUME FlowInv, [Next]_vars PROVE FlowInv'
    OBVIOUS
  <1>1. SortInv /\ SortInv'
    BY SortStep DEF FlowInv
  <1>2. opt' = opt
    BY <1>1, GivenStays DEF SortInv
  <1>3. CASE opt.c
    BY <1>1, <1>2, <1>3 DEF FlowInv, OrderInv, LeftInv
  <1>4. CASE ~opt.c
    <2>1. OrderInv /\ LeftInv /\ CountInv /\ BufferInv
      BY <1>4 DEF FlowInv
    <2>2. CASE Fill
      BY <1>1, <1>4, <2>1, <2>2, FillFlows, ElsewhereFlows DEF FlowInv, Fill, Merging
    <2>3. CASE WriteRun
      BY <1>1, <1>4, <2>1, <2>3, WriteRunFlows, ElsewhereFlows DEF FlowInv, WriteRun, Merging
    <2>4. CASE Create
      BY <1>1, <1>4, <2>1, <2>4, CreateFlows, ElsewhereFlows DEF FlowInv, Create, Merging
    <2>5. CASE Counted
      BY <1>1, <1>4, <2>1, <2>5, CountedFlows, BeginFlows DEF FlowInv
    <2>6. CASE OpenOut
      BY <1>1, <1>4, <2>1, <2>6, OpenOutFlows, BeginFlows DEF FlowInv
    <2>7. CASE Pass
      BY <1>1, <1>4, <2>1, <2>7, PassFlows, ElsewhereFlows DEF FlowInv, Pass, Merging
    <2>8. CASE MergeOpen
      BY <1>1, <1>4, <2>1, <2>8, MergeOpenFlows DEF FlowInv
    <2>9. CASE MergeFirst
      BY <1>1, <1>4, <2>1, <2>9, MergeFirstFlows DEF FlowInv
    <2>10. CASE MergePut
      BY <1>1, <1>4, <2>1, <2>10, MergePutFlows DEF FlowInv
    <2>11. CASE MergeNext
      BY <1>1, <1>4, <2>1, <2>11, MergeNextFlows DEF FlowInv
    <2>12. CASE MergeEnd
      BY <1>1, <1>4, <2>1, <2>12, MergeEndFlows, ElsewhereFlows DEF FlowInv, MergeEnd, Merging
    <2>13. CASE Stop \/ Term
      BY <1>1, <1>4, <2>1, <2>13, EndFlows, ElsewhereFlows DEF FlowInv, Stop, Term, Merging
    <2>14. CASE UNCHANGED vars
      <3>1. \A i : Setfil(i)' = Setfil(i)
        BY <1>1, GivenStays DEF SortInv
      <3>2. Written' = Written
        BY <1>1, <2>14, WrittenStays DEF vars
      <3>3. UNCHANGED <<ibuf, muflg, prev, pc, a, upto, os, nfiles, error, out, input, operand, temp, eargc, rest, lspace>>
        BY <2>14 DEF vars, eargc
      <3>4. \A i : Holds(i)' = Holds(i)
        BY <3>1, <3>3 DEF Holds
      <3>5. Kept' = Kept
        BY <3>3 DEF Kept
      <3>6. Sources' = Sources /\ Files' = Files
        BY <3>3, <3>4 DEF Sources, Files
      <3>7. Taken' = Taken /\ Least' = Least
        BY <3>3 DEF Taken, Least
      <3>8. CountInv'
        BY <1>2, <2>1, <3>2, <3>3, <3>6, <3>7 DEF CountInv, Same
      <3>9. BufferInv'
        BY <1>2, <2>1, <3>2, <3>3, <3>7 DEF BufferInv, Rising, Up
      <3>10. OrderInv'
        BY <1>2, <2>1, <3>3, <3>4, <3>5 DEF OrderInv, Rising
      <3>11. LeftInv'
        BY <1>2, <2>1, <3>3, <3>6 DEF LeftInv, Left, Same, Rising
      <3> QED
        BY <1>1, <3>8, <3>9, <3>10, <3>11 DEF FlowInv
    <2> QED
      BY <2>2, <2>3, <2>4, <2>5, <2>6, <2>7, <2>8, <2>9, <2>10, <2>11, <2>12, <2>13, <2>14
         DEF Next, Program
  <1> QED
    BY <1>3, <1>4

\* FlowInv holds of every state.
LEMMA FlowAlways == Spec => []FlowInv
  <1> QED
    BY FlowInit, FlowStep, PTL DEF Spec

\* No line is lost or doubled.
THEOREM NoLineLost == Spec => []NothingLost
  <1>1. FlowInv => NothingLost
    BY TypesAreRight DEF FlowInv, LeftInv, NothingLost, Line
  <1> QED
    BY <1>1, FlowAlways, PTL

\* What comes out with status 0 is the input, sorted.
THEOREM OutputIsRight == Spec => []OutputRight
  <1>1. FlowInv => OutputRight
    BY DEF FlowInv, LeftInv, OutputRight, Rising, Line
  <1> QED
    BY <1>1, FlowAlways, PTL

-----------------------------------------------------------------------------
(* sort -c *)

\* sort -c that writes to no operand.
Checking == opt.c /\ opt.o = None

\* What is to be found.
Right == InOrder(input[1]) /\ (opt.u => Distinct(input[1]))

\* The operand is a sequence of lines.
LEMMA OperandLines ==
    ASSUME SortInv, Checking
    PROVE  eargc = 1 /\ ~opt.m /\ input[1] \in Seq(Line) /\ Len(input[1]) \in Nat
  <1>1. eargc = 1 /\ ~opt.m /\ input \in Seq(Seq(Line)) /\ eargc = Len(input)
    BY DEF SortInv, GivenInv, Checking, eargc
  <1>2. input[1] \in Seq(Line)
    BY <1>1
  <1> QED
    BY <1>1, <1>2

\* All in order is right.
LEMMA AllInOrder ==
    ASSUME SortInv, Checking, InOrderTo(Len(input[1])) PROVE Right
  <1>1. PICK f \in Seq(Line) : f = input[1]
    BY OperandLines
  <1>2. PICK n \in Nat : n = Len(f)
    OBVIOUS
  <1>3. \A i, j \in 1..n : i < j => f[i] <= f[j] /\ (opt.u => f[i] # f[j])
    BY <1>1, <1>2 DEF InOrderTo
  <1>4. InOrder(f)
    BY <1>2, <1>3 DEF InOrder
  <1>5. ASSUME opt.u PROVE Distinct(f)
    <2> SUFFICES ASSUME NEW i \in 1..n, NEW j \in 1..n, i # j PROVE f[i] # f[j]
      BY <1>2 DEF Distinct
    <2>1. i < j \/ j < i
      OBVIOUS
    <2> QED
      BY <1>3, <1>5, <2>1
  <1> QED
    BY <1>1, <1>4, <1>5 DEF Right

\* One line more.
LEMMA OneMoreInOrder ==
    ASSUME SortInv, Checking, NEW p \in 1..Len(input[1]), p # Len(input[1]), InOrderTo(p),
           prev = input[1][p], ~Disorder(input[1][p + 1])
    PROVE  InOrderTo(p + 1)
  <1>1. PICK f \in Seq(Line) : f = input[1]
    BY OperandLines
  <1>2. PICK n \in Nat : n = Len(f) /\ p \in 1..n /\ p + 1 \in 1..n
    BY <1>1
  <1>3. \A i \in 1..n : f[i] \in Int
    BY <1>2, LineInt
  <1>4. f[p] <= f[p + 1] /\ (opt.u => f[p] # f[p + 1])
    <2>1. ~(f[p + 1] < f[p]) /\ ~(opt.u /\ f[p + 1] = f[p])
      BY <1>1 DEF Disorder
    <2> QED
      BY <1>2, <1>3, <2>1
  <1>5. \A i, j \in 1..p : i < j => f[i] <= f[j] /\ (opt.u => f[i] # f[j])
    BY <1>1 DEF InOrderTo
  <1>6. ASSUME NEW i \in 1..p + 1, NEW j \in 1..p + 1, i < j
        PROVE  f[i] <= f[j] /\ (opt.u => f[i] # f[j])
    <2>1. CASE j \in 1..p
      BY <1>2, <1>5, <1>6, <2>1
    <2>2. CASE j \notin 1..p
      <3>1. j = p + 1 /\ i \in 1..p /\ (i = p \/ i < p) /\ p \in 1..p /\ i \in 1..n
        BY <1>2, <1>6, <2>2
      <3>2. i = p \/ f[i] <= f[p]
        BY <1>5, <3>1
      <3>3. f[i] \in Int /\ f[p] \in Int /\ f[p + 1] \in Int
        BY <1>2, <1>3, <3>1
      <3>4. f[i] <= f[p + 1]
        BY <1>4, <3>2, <3>3
      <3>5. opt.u => f[i] # f[p + 1]
        BY <1>4, <3>2, <3>3
      <3> QED
        BY <3>1, <3>4, <3>5
    <2> QED
      BY <2>1, <2>2
  <1> QED
    BY <1>1, <1>6 DEF InOrderTo

\* A line out of order is found.
LEMMA DisorderIsWrong ==
    ASSUME SortInv, Checking, NEW p \in 1..Len(input[1]), p # Len(input[1]),
           prev = input[1][p], Disorder(input[1][p + 1])
    PROVE  ~Right
  <1>1. PICK f \in Seq(Line) : f = input[1]
    BY OperandLines
  <1>2. PICK n \in Nat : n = Len(f) /\ p \in 1..n /\ p + 1 \in 1..n /\ p < p + 1 /\ p # p + 1
    BY <1>1
  <1>3. f[p] \in Int /\ f[p + 1] \in Int
    BY <1>2, LineInt
  <1>4. f[p + 1] < f[p] \/ (opt.u /\ f[p + 1] = f[p])
    BY <1>1 DEF Disorder
  <1>5. CASE f[p + 1] < f[p]
    <2>1. ~InOrder(f)
      BY <1>2, <1>3, <1>5 DEF InOrder
    <2> QED
      BY <1>1, <2>1 DEF Right
  <1>6. CASE opt.u /\ f[p + 1] = f[p]
    <2>1. ~Distinct(f)
      BY <1>2, <1>6 DEF Distinct
    <2> QED
      BY <1>1, <1>6, <2>1 DEF Right
  <1> QED
    BY <1>4, <1>5, <1>6

\* The rest of a file is its lines but the first.
LEMMA TailIs ==
    ASSUME NEW s \in Seq(Line), NEW m \in Nat, m = Len(s), m > 0
    PROVE  /\ Tail(s) \in Seq(Line) /\ Len(Tail(s)) = m - 1
           /\ \A k \in 1..m - 1 : Tail(s)[k] = s[k + 1]
           /\ m > 1 => Tail(s) # <<>>
  <1>1. s # <<>>
    OBVIOUS
  <1>2. PICK t \in Seq(Line) : t = Tail(s)
    BY <1>1, OneLine
  <1>3. Len(t) = m - 1 /\ \A k \in 1..m - 1 : t[k] = s[k + 1]
    BY <1>1, <1>2
  <1>4. m > 1 => t # <<>>
    BY <1>3
  <1> QED
    BY <1>2, <1>3, <1>4

\* The buffer is read to its end, or goes on to the next line.
LEMMA CheckAdvances ==
    ASSUME SortInv, Checking, ibuf # <<>>, Row(ibuf), NEW p \in 1..Len(input[1]), LeftFrom(p)
    PROVE  /\ Head(Least) = input[1][p] /\ Len(Least) = Len(input[1]) - p + 1
           /\ p = Len(input[1]) => Advanced = <<>>
           /\ p # Len(input[1]) =>
                 /\ Advanced # <<>> /\ Head(Advanced[Len(Advanced)]) = input[1][p + 1]
                 /\ Len(Advanced) = 1 /\ Len(Advanced[1]) = Len(input[1]) - (p + 1) + 1
                 /\ \A k \in 1..Len(Advanced[1]) : Advanced[1][k] = input[1][(p + 1) + k - 1]
  <1>1. PICK f \in Seq(Line) : f = input[1]
    BY OperandLines
  <1>2. PICK n \in Nat : n = Len(f) /\ p \in 1..n
    BY <1>1
  <1>3. PICK s \in Seq(Line) : s = Least /\ s # <<>> /\ s = ibuf[1]
    BY AdvancedRow DEF Least, LeftFrom
  <1>4. PICK m \in Nat : m = Len(s) /\ m = n - p + 1 /\ m > 0
    BY <1>1, <1>2, <1>3 DEF LeftFrom
  <1>5. \A k \in 1..m : s[k] = f[p + k - 1]
    BY <1>1, <1>3, <1>4 DEF LeftFrom
  <1>6. Head(s) = f[p]
    <2>1. Head(s) = s[1] /\ 1 \in 1..m
      BY <1>3, <1>4
    <2>2. p + 1 - 1 = p
      BY <1>2
    <2> QED
      BY <1>5, <2>1, <2>2
  <1>7. PICK b : b = Advanced
    OBVIOUS
  <1>8. PICK q \in Nat : q = 1 /\ Len(ibuf) = q
    BY DEF LeftFrom
  <1>9. /\ Row(b)
        /\ \A i \in 1..Len(b) : b[i] = Tail(s) \/ \E j \in 1..q - 1 : b[i] = ibuf[j]
        /\ Len(b) = IF m = q THEN q - 1 ELSE q
    <2>1. /\ Row(b)
          /\ \A i \in 1..Len(b) : b[i] = Tail(s) \/ \E j \in 1..q - 1 : b[i] = ibuf[j]
          /\ Len(b) = IF Len(s) = 1 THEN Len(ibuf) - 1 ELSE Len(ibuf)
      BY <1>3, <1>7, <1>8, AdvancedRow
    <2>2. Len(b) = IF m = q THEN q - 1 ELSE q
      BY <1>4, <1>8, <2>1, Zenon
    <2> QED
      BY <2>1, <2>2
  <1>10. CASE p = n
    <2>1. Len(b) = 0
      <3>1. m = q
        BY <1>2, <1>4, <1>8, <1>10
      <3> QED
        BY <1>8, <1>9, <3>1
    <2>2. b = <<>>
      BY <1>9, <2>1 DEF Row
    <2> QED
      BY <1>1, <1>2, <1>3, <1>4, <1>6, <1>7, <1>10, <2>2
  <1>11. CASE p # n
    <2>1. Len(b) = q /\ m > 1
      <3>1. m # q /\ m > 1
        BY <1>2, <1>4, <1>8, <1>11
      <3> QED
        BY <1>9, <3>1
    <2>2. q \in 1..Len(b) /\ 1..q - 1 = {}
      BY <1>8, <2>1
    <2>3. b[q] = Tail(s)
      BY <1>9, <2>2
    <2>4. PICK t \in Seq(Line) : t = Tail(s) /\ t # <<>>
      BY <1>4, <2>1, TailIs
    <2>5. Len(t) = m - 1 /\ \A k \in 1..m - 1 : t[k] = s[k + 1]
      BY <1>4, <2>4, TailIs
    <2>6. \A k \in 1..m - 1 : t[k] = f[(p + 1) + k - 1]
      <3> TAKE k \in 1..m - 1
      <3>1. t[k] = s[k + 1] /\ k + 1 \in 1..m
        BY <1>4, <2>5
      <3>2. s[k + 1] = f[p + (k + 1) - 1] /\ p + (k + 1) - 1 = (p + 1) + k - 1
        BY <1>2, <1>5, <3>1
      <3> QED
        BY <3>1, <3>2
    <2>7. Head(t) = f[p + 1]
      <3>1. Head(t) = t[1] /\ 1 \in 1..m - 1 /\ (p + 1) + 1 - 1 = p + 1
        BY <1>2, <1>4, <2>1, <2>4
      <3> QED
        BY <2>6, <3>1
    <2>8. b # <<>> /\ b[1] = t /\ b[Len(b)] = t
      <3>1. b[1] = t /\ b[Len(b)] = t
        BY <1>8, <2>1, <2>3, <2>4
      <3>2. b # <<>>
        <4>1. DOMAIN b = 1..Len(b)
          BY <1>9, RowBufs
        <4>2. q \in DOMAIN b
          BY <2>2, <4>1
        <4>3. DOMAIN <<>> = {}
          OBVIOUS
        <4> QED
          BY <4>2, <4>3
      <3> QED
        BY <3>1, <3>2
    <2>9. Len(t) = n - (p + 1) + 1
      BY <1>2, <1>4, <2>5
    <2> QED
      BY <1>1, <1>2, <1>3, <1>4, <1>6, <1>7, <1>8, <1>11, <2>1, <2>5, <2>6, <2>7, <2>8, <2>9
  <1> QED
    BY <1>10, <1>11

\* There is one file.
LEMMA CheckInit == Init => CheckInv
  <1> SUFFICES ASSUME Init, Checking PROVE CheckInv
    BY DEF CheckInv, Checking
  <1>1. SortInv
    BY SortInit
  <1>2. eargc = 1
    BY <1>1, OperandLines
  <1>3. pc = "pass" /\ a = 0 /\ nfiles = 1
    BY <1>2 DEF Init, Checking
  <1>4. pc \notin Merging /\ pc \notin InBuffers
    BY <1>3 DEF Merging, InBuffers
  <1> QED
    BY <1>3, <1>4 DEF CheckInv

\* What stays and what there is to show.
LEMMA CheckStays ==
    ASSUME SortInv, CheckInv, Checking, [Next]_vars
    PROVE  /\ input' = input /\ opt' = opt /\ Checking' /\ opt.c /\ \A p : InOrderTo(p)' <=> InOrderTo(p)
           /\ pc \in Running => a = 0 /\ nfiles = 1 /\ pc \in {"pass", "open"} \cup Merging
           /\ pc \in Merging => os = None /\ upto = 1
           /\ pc \in InBuffers => muflg
  <1>1. input' = input /\ opt' = opt
    BY GivenStays DEF SortInv
  <1>2. \A p : InOrderTo(p)' <=> InOrderTo(p)
    BY <1>1 DEF InOrderTo
  <1>3. /\ pc \in Running => a = 0 /\ nfiles = 1 /\ pc \in {"pass", "open"} \cup Merging
        /\ pc \in Merging => os = None
        /\ pc \in InBuffers => muflg
    BY DEF CheckInv, Checking
  <1>4. pc \in Merging => upto = 1
    <2>1. pc \in Merging => pc \in Running
      BY DEF Running
    <2> QED
      BY <1>3, <2>1 DEF SortInv, PlaceInv
  <1> QED
    BY <1>1, <1>2, <1>3, <1>4 DEF Checking

\* The output is opened, to which nothing will go.
LEMMA CheckBegins ==
    ASSUME SortInv, CheckInv, Checking, [Next]_vars, Pass \/ OpenOut
    PROVE  CheckInv' /\ pc' \in {"open", "merge"}
  <1>1. pc \in {"pass", "open"}
    BY DEF Pass, OpenOut
  <1>2. pc \in Running
    BY <1>1 DEF Running
  <1>3. a = 0 /\ nfiles = 1 /\ Checking' /\ opt.c /\ eargc = 1 /\ ~opt.m
    BY <1>2, CheckStays, OperandLines
  <1>4. ~unsafeout
    BY <1>3 DEF SortInv, GivenInv
  <1>5. CASE Pass
    <2>1. ~Again
      BY <1>3, <1>4, SortAssumption DEF Again
    <2>2. pc' = "open" /\ a' = a /\ nfiles' = nfiles
      BY <1>3, <1>5, <2>1 DEF Pass
    <2>3. pc' \notin Merging /\ pc' \notin InBuffers /\ pc' \notin {"first", "put", "next", "end"}
      BY <2>2 DEF Merging, InBuffers
    <2> QED
      BY <1>3, <2>2, <2>3 DEF CheckInv
  <1>6. CASE OpenOut
    <2>1. pc = "open" /\ a' = a /\ nfiles' = nfiles /\ os' = None /\ pc' = Stage
      BY <1>6 DEF OpenOut
    <2>2. a # upto
      BY <1>3, <2>1 DEF SortInv, PlaceInv, Sorting
    <2>3. pc' = "merge"
      BY <2>1, <2>2 DEF Stage
    <2>4. pc' \in Merging /\ pc' \notin InBuffers /\ pc' \notin {"first", "put", "next", "end"}
      BY <2>3 DEF Merging, InBuffers
    <2> QED
      BY <1>3, <2>1, <2>3, <2>4 DEF CheckInv
  <1> QED
    BY <1>5, <1>6

\* The operand is in the one buffer.
LEMMA CheckOpens ==
    ASSUME SortInv, CheckInv, Checking, [Next]_vars, MergeOpen
    PROVE  CheckInv' /\ pc' = "first"
  <1>1. /\ pc = "merge" /\ pc' = "first" /\ muflg' = ((opt.m /\ opt.u) \/ opt.c)
        /\ nfiles' = nfiles /\ a' = a /\ os' = os
    BY DEF MergeOpen
  <1>2. pc \in Merging /\ pc \in Running /\ pc' \in Merging /\ pc' \in Running
    BY <1>1 DEF Merging, Running
  <1>3. input' = input /\ Checking' /\ opt.c /\ a = 0 /\ nfiles = 1 /\ os = None /\ upto = 1
    BY <1>2, CheckStays
  <1>4. GivenInv'
    BY GivenStays DEF SortInv
  <1>5. /\ \A i \in DOMAIN ibuf' : i \in a..upto - 1 /\ ibuf'[i] = Holds(i)
        /\ \A i \in a..upto - 1 : Holds(i) # <<>> => i \in DOMAIN ibuf'
    BY <1>4, MergeOpenKeeps
  <1>6. PICK z : z = 0
    OBVIOUS
  <1>7. \A i \in a..upto - 1 : i = z
    BY <1>3, <1>6
  <1>8. z \in a..upto - 1 /\ z + 1 = 1
    BY <1>3, <1>6
  <1>9. Holds(z) = input[1]
    <2>1. eargc = 1
      BY OperandLines
    <2>2. z \in a..eargc - 1 /\ z < eargc
      BY <1>3, <1>6, <2>1
    <2>3. operand[z] = input[z + 1]
      BY <1>2, <2>2 DEF SortInv, FileInv, Checking
    <2> QED
      BY <1>8, <2>2, <2>3 DEF Holds
  <1>10. \A i \in DOMAIN ibuf' : i = z /\ ibuf'[i] = input[1]
    BY <1>5, <1>7, <1>9
  <1>11. input[1] = <<>> \/ z \in DOMAIN ibuf'
    BY <1>5, <1>8, <1>9
  <1>12. muflg'
    BY <1>1, <1>3
  <1> QED
    BY <1>1, <1>2, <1>3, <1>6, <1>10, <1>11, <1>12 DEF CheckInv

\* One buffer is in order at once.
LEMMA CheckSorts ==
    ASSUME SortInv, CheckInv, Checking, [Next]_vars, MergeFirst
    PROVE  CheckInv' /\ pc' = "put"
  <1>1. /\ pc = "first" /\ muflg' = muflg /\ nfiles' = nfiles /\ a' = a /\ os' = os
    BY DEF MergeFirst
  <1>2. pc \in Merging /\ pc \in Running /\ pc \in InBuffers
    BY <1>1 DEF Merging, Running, InBuffers
  <1>3. /\ input' = input /\ Checking' /\ opt.c /\ a = 0 /\ nfiles = 1 /\ os = None /\ muflg
        /\ \A p : InOrderTo(p)' <=> InOrderTo(p)
    BY <1>2, CheckStays
  <1>4. PICK s \in Arrangements :
            IF opt.u /\ \E i \in DOMAIN s : Twin(s, i)
            THEN ibuf' = Without(s) /\ UNCHANGED pc
            ELSE ibuf' = s /\ pc' = "put"
    BY DEF MergeFirst
  <1>5. Row(s) /\ Moved(s, ibuf)
    BY ArrangedRow DEF SortInv, RowInv
  <1>6. PICK z : z = 0
    OBVIOUS
  <1>7. (\A i \in DOMAIN ibuf : i = z /\ ibuf[i] = input[1]) /\ (input[1] = <<>> \/ z \in DOMAIN ibuf)
    BY <1>1, <1>6 DEF CheckInv, Checking
  <1>8. PICK p \in Bijection(DOMAIN s, DOMAIN ibuf) : \A i \in DOMAIN s : s[i] = ibuf[p[i]]
    BY <1>5 DEF Moved
  <1>9. /\ \A i \in DOMAIN s : p[i] \in DOMAIN ibuf
        /\ \A i, j \in DOMAIN s : p[i] = p[j] => i = j
        /\ \A k \in DOMAIN ibuf : \E i \in DOMAIN s : p[i] = k
    BY <1>8 DEF Bijection, Injection, Surjection, IsInjective
  <1>10. \A i, j \in DOMAIN s : i = j
    BY <1>7, <1>9
  <1>11. PICK n \in Nat : n = Len(s) /\ DOMAIN s = 1..n
    BY <1>5, RowBufs
  <1>12. n <= 1
    <2>1. n > 1 => 1 \in 1..n /\ 2 \in 1..n
      OBVIOUS
    <2> QED
      BY <1>10, <1>11, <2>1
  <1>13. \A i \in DOMAIN s : ~Twin(s, i)
    BY <1>11, <1>12 DEF Twin
  <1>14. ibuf' = s /\ pc' = "put"
    BY <1>4, <1>13
  <1>15. pc' \in Merging /\ pc' \in InBuffers
    BY <1>14 DEF Merging, InBuffers
  <1>16. \/ ibuf' = <<>> /\ input'[1] = <<>>
         \/ (\E q \in 1..Len(input[1]) : LeftFrom(q) /\ InOrderTo(q))'
    <2>1. CASE n = 0
      <3>1. DOMAIN s = {} /\ s = <<>>
        BY <1>5, <1>11, <2>1 DEF Row
      <3>2. input[1] = <<>>
        BY <1>7, <1>9, <3>1
      <3> QED
        BY <1>3, <1>14, <3>1, <3>2
    <2>2. CASE n = 1
      <3>1. PICK f \in Seq(Line) : f = input[1]
        BY OperandLines
      <3>2. n \in DOMAIN s /\ s[n] = f
        BY <1>7, <1>8, <1>9, <1>11, <2>2, <3>1
      <3>3. f # <<>>
        BY <1>5, <1>11, <3>2 DEF Row
      <3>4. PICK m \in Nat : m = Len(f) /\ m > 0
        BY <3>3
      <3>5. s[1] = f /\ Len(s) = 1 /\ m - 1 + 1 = m /\ 1 \in 1..m /\ \A k \in 1..m : 1 + k - 1 = k
        BY <1>11, <2>2, <3>2, <3>4
      <3>6. LeftFrom(1)'
        <4>1. Len(ibuf') = 1 /\ ibuf'[1] = f /\ input'[1] = f
          BY <1>3, <1>14, <3>1, <3>5
        <4>2. Len(f) = Len(f) - 1 + 1 /\ \A k \in 1..Len(f) : f[k] = f[1 + k - 1]
          BY <3>4
        <4> QED
          BY <4>1, <4>2 DEF LeftFrom
      <3>7. InOrderTo(1)
        BY DEF InOrderTo
      <3>8. 1 \in 1..Len(input'[1])
        BY <1>3, <3>1, <3>4
      <3>9. \E q \in 1..Len(input'[1]) : LeftFrom(q)' /\ InOrderTo(q)'
        BY <1>3, <3>6, <3>7, <3>8
      <3> QED
        BY <3>9
    <2> QED
      BY <1>12, <2>1, <2>2
  <1>17. muflg'
    BY <1>1, <1>3
  <1>18. (pc \in Running => a = 0 /\ nfiles = 1 /\ pc \in {"pass", "open"} \cup Merging)'
    BY <1>1, <1>3, <1>15
  <1> QED
    BY <1>1, <1>3, <1>14, <1>16, <1>17, <1>18 DEF CheckInv

\* The line is kept to be compared.
LEMMA CheckKeeps ==
    ASSUME SortInv, CheckInv, Checking, [Next]_vars, MergePut
    PROVE  CheckInv' /\ pc' \in {"next", "end"}
  <1>1. /\ pc = "put" /\ muflg' = muflg /\ nfiles' = nfiles /\ a' = a /\ os' = os /\ ibuf' = ibuf
        /\ ibuf = <<>> => pc' = "end"
        /\ ibuf # <<>> => pc' = "next" /\ prev' = IF muflg THEN Head(Least) ELSE prev
    BY DEF MergePut
  <1>2. pc \in Merging /\ pc \in Running /\ pc \in InBuffers
    BY <1>1 DEF Merging, Running, InBuffers
  <1>3. /\ input' = input /\ Checking' /\ opt.c /\ a = 0 /\ nfiles = 1 /\ os = None /\ muflg
        /\ \A p : InOrderTo(p)' <=> InOrderTo(p)
    BY <1>2, CheckStays
  <1>4. \A p : LeftFrom(p)' <=> LeftFrom(p)
    BY <1>1, <1>3 DEF LeftFrom
  <1>5. pc' \in {"next", "end"}
    BY <1>1
  <1>6. pc' \in Merging /\ pc' \in InBuffers
    BY <1>5 DEF Merging, InBuffers
  <1>7. Row(ibuf)
    BY <1>1 DEF SortInv, RowInv
  <1>8. \/ ibuf = <<>> /\ input[1] = <<>>
        \/ \E p \in 1..Len(input[1]) : LeftFrom(p) /\ InOrderTo(p)
    BY <1>1 DEF CheckInv, Checking
  <1>9. (pc \in Running => a = 0 /\ nfiles = 1 /\ pc \in {"pass", "open"} \cup Merging)'
    BY <1>1, <1>3, <1>6
  <1>10. CASE ibuf = <<>>
    <2>1. \A p : ~LeftFrom(p)
      BY <1>10 DEF LeftFrom
    <2>2. input[1] = <<>>
      BY <1>8, <2>1
    <2>3. 1..Len(input[1]) = {}
      BY <2>2
    <2>4. InOrderTo(Len(input[1]))
      BY <2>3 DEF InOrderTo
    <2>5. InOrderTo(Len(input[1]))'
      BY <1>3, <2>4 DEF InOrderTo
    <2>6. pc' = "end"
      BY <1>1, <1>10
    <2> QED
      BY <1>1, <1>3, <1>9, <2>5, <2>6 DEF CheckInv
  <1>11. CASE ibuf # <<>>
    <2>1. PICK p \in 1..Len(input[1]) : LeftFrom(p) /\ InOrderTo(p)
      BY <1>8, <1>11
    <2>2. Head(Least) = input[1][p]
      BY <1>7, <1>11, <2>1, CheckAdvances
    <2>3. pc' = "next" /\ prev' = input[1][p]
      BY <1>1, <1>3, <1>11, <2>2
    <2>4. LeftFrom(p)' /\ InOrderTo(p)' /\ p \in 1..Len(input'[1]) /\ prev' = input'[1][p]
      BY <1>3, <1>4, <2>1, <2>3
    <2>5. (\E q \in 1..Len(input[1]) : LeftFrom(q) /\ InOrderTo(q) /\ prev = input[1][q])'
      BY <2>4
    <2> QED
      BY <1>1, <1>3, <1>9, <2>3, <2>5 DEF CheckInv
  <1> QED
    BY <1>5, <1>10, <1>11

\* The next line is in order; or it is not, and sort -c ends.
LEMMA CheckCompares ==
    ASSUME SortInv, CheckInv, Checking, [Next]_vars, MergeNext
    PROVE  CheckInv' /\ (pc' = "term" => ~Right) /\ error' = error /\ error # 0
  <1> DEFINE one == Len(Least) = 1 /\ Len(Advanced) = 1
  <1>1. /\ pc = "next" /\ ibuf' = Advanced /\ nfiles' = nfiles /\ a' = a /\ os' = os /\ error' = error
        /\ muflg' = (IF one THEN opt.u ELSE muflg) /\ prev' = (IF one THEN 0 ELSE prev)
    BY DEF MergeNext
  <1>2. pc \in Merging /\ pc \in Running /\ pc \in InBuffers
    BY <1>1 DEF Merging, Running, InBuffers
  <1>3. /\ input' = input /\ opt' = opt /\ Checking' /\ opt.c /\ a = 0 /\ nfiles = 1 /\ os = None /\ muflg
        /\ \A p : InOrderTo(p)' <=> InOrderTo(p)
    BY <1>2, CheckStays
  <1>4. pc' = IF ibuf' = <<>> THEN "end" ELSE IF prev' = 0 THEN "put"
              ELSE IF Disorder(Head(ibuf'[Len(ibuf')])) THEN "term" ELSE "put"
    BY <1>3 DEF MergeNext
  <1>5. Row(ibuf) /\ ibuf # <<>>
    BY <1>1 DEF SortInv, RowInv
  <1>6. PICK p \in 1..Len(input[1]) : LeftFrom(p) /\ InOrderTo(p) /\ prev = input[1][p]
    BY <1>1 DEF CheckInv, Checking
  <1>7. PICK f \in Seq(Line) : f = input[1]
    BY OperandLines
  <1>8. PICK n \in Nat : n = Len(f) /\ p \in 1..n
    BY <1>6, <1>7
  <1>9. PICK b : b = Advanced
    OBVIOUS
  <1>10. /\ Len(Least) = n - p + 1
         /\ p = n => b = <<>>
         /\ p # n => /\ b # <<>> /\ Head(b[Len(b)]) = f[p + 1]
                     /\ Len(b) = 1 /\ Len(b[1]) = n - (p + 1) + 1
                     /\ \A k \in 1..Len(b[1]) : b[1][k] = f[(p + 1) + k - 1]
    BY <1>5, <1>6, <1>7, <1>8, <1>9, CheckAdvances
  <1>11. ~one
    <2>1. p = n => Len(b) # 1
      BY <1>10
    <2>2. p # n => Len(Least) # 1
      BY <1>8, <1>10
    <2> QED
      BY <1>9, <2>1, <2>2
  <1> HIDE DEF one
  <1>12. muflg' /\ prev' = prev /\ prev # 0
    <2>1. prev \in Line
      BY <1>6, <1>7, <1>8
    <2> QED
      BY <1>1, <1>3, <1>11, <2>1, LineInt
  <1>13. error # 0
    BY <1>2 DEF SortInv, PlaceInv, Running, Merging
  <1>14. CASE p = n
    <2>1. pc' = "end" /\ pc' \in Merging
      BY <1>1, <1>4, <1>9, <1>10, <1>14 DEF Merging
    <2>2. InOrderTo(Len(input[1]))'
      BY <1>3, <1>6, <1>7, <1>8, <1>14 DEF InOrderTo
    <2> QED
      BY <1>1, <1>3, <1>12, <1>13, <2>1, <2>2 DEF CheckInv
  <1>15. CASE p # n
    <2>1. /\ p + 1 \in 1..n /\ b # <<>>
          /\ pc' = IF Disorder(f[p + 1]) THEN "term" ELSE "put"
      <3>1. p + 1 \in 1..n
        BY <1>8, <1>15
      <3>2. ibuf' # <<>> /\ Head(ibuf'[Len(ibuf')]) = f[p + 1]
        BY <1>1, <1>9, <1>10, <1>15
      <3> QED
        BY <1>4, <1>10, <1>12, <1>15, <3>1, <3>2
    <2>2. CASE Disorder(f[p + 1])
      <3>1. ~Right
        BY <1>6, <1>7, <1>8, <1>15, <2>2, DisorderIsWrong
      <3>2. pc' = "term"
        BY <2>1, <2>2
      <3>3. pc' \notin Running /\ pc' \notin Merging /\ pc' \notin InBuffers
        BY <3>2 DEF Running, Merging, InBuffers
      <3> QED
        BY <1>1, <1>13, <3>1, <3>2, <3>3 DEF CheckInv
    <2>3. CASE ~Disorder(f[p + 1])
      <3>1. pc' = "put" /\ pc' \in Merging
        BY <2>1, <2>3 DEF Merging
      <3>2. InOrderTo(p + 1)
        BY <1>6, <1>7, <1>8, <1>15, <2>3, OneMoreInOrder
      <3>3. LeftFrom(p + 1)'
        BY <1>1, <1>3, <1>7, <1>8, <1>9, <1>10, <1>15 DEF LeftFrom
      <3>4. p + 1 \in 1..Len(input'[1])
        BY <1>3, <1>7, <1>8, <2>1
      <3>5. PICK q : q = p + 1
        OBVIOUS
      <3>6. q \in 1..Len(input'[1]) /\ LeftFrom(q)' /\ InOrderTo(q)'
        BY <1>3, <3>2, <3>3, <3>4, <3>5
      <3>7. (\E t \in 1..Len(input[1]) : LeftFrom(t) /\ InOrderTo(t))'
        BY <3>6
      <3> QED
        BY <1>1, <1>3, <1>12, <1>13, <3>1, <3>7 DEF CheckInv
    <2> QED
      BY <2>2, <2>3
  <1> QED
    BY <1>14, <1>15

\* The end, when all was in order.
LEMMA CheckEnds ==
    ASSUME SortInv, CheckInv, Checking, [Next]_vars, MergeEnd
    PROVE  CheckInv' /\ Right /\ ibuf' = ibuf
  <1>1. pc = "end" /\ ibuf' = ibuf
    BY DEF MergeEnd, merging
  <1>2. pc \in Merging
    BY <1>1 DEF Merging
  <1>3. os = None
    BY <1>2, CheckStays
  <1>4. pc' = "term"
    BY <1>3 DEF MergeEnd
  <1>5. pc' \notin Running /\ pc' \notin Merging /\ pc' \notin InBuffers
    BY <1>4 DEF Running, Merging, InBuffers
  <1>6. CheckInv'
    BY <1>4, <1>5 DEF CheckInv
  <1>7. InOrderTo(Len(input[1]))
    BY <1>1 DEF CheckInv, Checking
  <1> QED
    BY <1>1, <1>6, <1>7, AllInOrder

\* Steps that -c does not take, but for a signal.
LEMMA CheckOthers ==
    ASSUME SortInv, CheckInv, Checking, [Next]_vars,
           Fill \/ WriteRun \/ Create \/ Counted \/ Stop \/ Term
    PROVE  /\ CheckInv' /\ ibuf' = ibuf
           /\ pc' = "term" => error' # 0
  <1>1. CASE Fill \/ WriteRun \/ Create \/ Counted
    <2>1. pc \in {"fill", "write", "create", "count"}
      BY <1>1 DEF Fill, WriteRun, Create, Counted
    <2>2. pc \in Running /\ pc \notin {"pass", "open"} \cup Merging
      BY <2>1 DEF Running, Merging
    <2> QED
      BY <2>2, CheckStays
  <1>2. CASE Stop \/ Term
    <2>1. pc' \in {"term", "exit"} /\ ibuf' = ibuf /\ error' = error
      BY <1>2 DEF Stop, Term, merging
    <2>2. pc' \notin Running /\ pc' \notin Merging /\ pc' \notin InBuffers /\ pc' \notin {"first", "put", "next", "end"}
      BY <2>1 DEF Running, Merging, InBuffers
    <2>3. pc' = "term" => pc \in Running
      BY <1>2 DEF Stop, Term
    <2>4. pc' = "term" => error' # 0
      BY <2>1, <2>3 DEF SortInv, PlaceInv, Running, Merging
    <2> QED
      BY <2>1, <2>2, <2>4 DEF CheckInv
  <1> QED
    BY <1>1, <1>2

\* Every step keeps it, and says what it found.
LEMMA CheckStep ==
    ASSUME SortInv, CheckInv, [Next]_vars
    PROVE  /\ CheckInv'
           /\ Next /\ Checking /\ pc' = "term" => (error' = 0 => Right) /\ (error' = 1 /\ ibuf' # ibuf => ~Right)
  <1>1. CASE ~Checking
    <2>1. opt' = opt
      BY GivenStays DEF SortInv
    <2> QED
      BY <1>1, <2>1 DEF Checking, CheckInv
  <1>2. CASE Checking /\ (Pass \/ OpenOut)
    <2>1. CheckInv' /\ pc' # "term"
      BY <1>2, CheckBegins
    <2> QED
      BY <2>1
  <1>3. CASE Checking /\ MergeOpen
    BY <1>3, CheckOpens
  <1>4. CASE Checking /\ MergeFirst
    BY <1>4, CheckSorts
  <1>5. CASE Checking /\ MergePut
    <2>1. CheckInv' /\ pc' # "term"
      BY <1>5, CheckKeeps
    <2> QED
      BY <2>1
  <1>6. CASE Checking /\ MergeNext
    BY <1>6, CheckCompares
  <1>7. CASE Checking /\ MergeEnd
    BY <1>7, CheckEnds
  <1>8. CASE Checking /\ (Fill \/ WriteRun \/ Create \/ Counted \/ Stop \/ Term)
    BY <1>8, CheckOthers
  <1>9. CASE Checking /\ UNCHANGED vars
    <2>1. UNCHANGED <<pc, ibuf, input, opt, a, nfiles, os, muflg, prev>>
      BY <1>9 DEF vars
    <2>2. CheckInv'
      <3>1. \A p : (LeftFrom(p)' <=> LeftFrom(p)) /\ (InOrderTo(p)' <=> InOrderTo(p))
        BY <2>1 DEF LeftFrom, InOrderTo
      <3> QED
        BY <2>1, <3>1 DEF CheckInv
    <2>3. ~Next \/ pc' # "term" \/ pc = "term"
      BY <2>1
    <2> QED
      BY <2>1, <2>2, <1>2, <1>3, <1>4, <1>5, <1>6, <1>7, <1>8, <1>9 DEF Next, Program
  <1> QED
    BY <1>1, <1>2, <1>3, <1>4, <1>5, <1>6, <1>7, <1>8, <1>9 DEF Next, Program

\* So does CheckInv.
LEMMA CheckAlways == Spec => [](SortInv /\ CheckInv)
  <1>1. Init => SortInv /\ CheckInv
    BY SortInit, CheckInit
  <1>2. SortInv /\ CheckInv /\ [Next]_vars => SortInv' /\ CheckInv'
    BY SortStep, CheckStep
  <1> QED
    BY <1>1, <1>2, PTL DEF Spec

\* sort -c tells whether its operand is in order.
THEOREM CheckIsRight == Spec => CheckRight
  <1> DEFINE A == opt.c /\ opt.o = None /\ pc' = "term" =>
                    LET right == InOrder(input[1]) /\ (opt.u => Distinct(input[1]))
                    IN /\ error' = 0 => right
                       /\ error' = 1 /\ ibuf' # ibuf => ~right
  <1>1. SortInv /\ CheckInv /\ [Next]_vars => [A]_vars
    <2> SUFFICES ASSUME SortInv, CheckInv, [Next]_vars, vars' # vars PROVE A
      OBVIOUS
    <2>1. Next
      OBVIOUS
    <2>2. Checking /\ pc' = "term" => (error' = 0 => Right) /\ (error' = 1 /\ ibuf' # ibuf => ~Right)
      BY <2>1, CheckStep
    <2> QED
      BY <2>2 DEF Checking, Right
  <1> QED
    BY <1>1, CheckAlways, PTL DEF Spec, CheckRight

-----------------------------------------------------------------------------
(* Clean-up *)

\* Every file has a number from eargc to nfiles; the last one is there between newfile()'s
\* open and its count.
Numbered == DOMAIN temp \subseteq {Setfil(i) : i \in eargc..nfiles}

Counts == eargc \in Nat /\ nfiles \in Nat /\ eargc <= nfiles

TempInv ==
    /\ Counts
    /\ pc # "exit" => Numbered
    /\ NoTempLeft

\* input does not change, so eargc is the number of the operands for good.
LEMMA InputStays == Next => input' = input /\ eargc' = eargc
  BY DEF Next, Program, given, Fill, WriteRun, Create, Counted, OpenOut, Pass, MergeOpen,
         MergeFirst, MergePut, MergeNext, MergeEnd, Term, Stop, eargc

\* The operands are counted by a number.
LEMMA CountsInit == Init => Counts
  <1> SUFFICES ASSUME Init PROVE Counts
    OBVIOUS
  <1>1. input \in Seq(Seq(1..MaxLine))
    BY SortAssumption DEF Init
  <1>2. Len(input) \in Nat
    BY <1>1
  <1> QED
    BY <1>2 DEF Init, Counts, eargc

\* nfiles only grows.
LEMMA CountsStep == Counts /\ Next => Counts' /\ nfiles <= nfiles'
  <1> SUFFICES ASSUME Counts, Next PROVE Counts' /\ nfiles <= nfiles'
    OBVIOUS
  <1>1. eargc' = eargc
    BY InputStays
  <1>2. nfiles' \in {nfiles, nfiles + 1}
    BY DEF Next, Program, given, Fill, WriteRun, Create, Counted, OpenOut, Pass, MergeOpen,
           MergeFirst, MergePut, MergeNext, MergeEnd, Term, Stop
  <1> QED
    BY <1>1, <1>2 DEF Counts

\* A file that was written to is still there, and no other one is.
LEMMA WrittenNumbered ==
    ASSUME NEW s, Fwrite(s) PROVE DOMAIN temp' = DOMAIN temp
  BY DEF Fwrite

\* Taking files away leaves some of those that were there.
LEMMA UnlinkedNumbered ==
    ASSUME NEW S PROVE DOMAIN Unlinked(S) = DOMAIN temp \ {Setfil(i) : i \in S}
  BY DEF Unlinked

\* What a name stands for depends on the operands' number only.
LEMMA NumberedStays ==
    ASSUME Counts, Next, Numbered, DOMAIN temp' \subseteq DOMAIN temp PROVE Numbered'
  <1>1. eargc' = eargc /\ nfiles <= nfiles' /\ nfiles' \in Nat
    BY InputStays, CountsStep DEF Counts
  <1>2. \A i : Setfil(i)' = Setfil(i)
    BY <1>1 DEF Setfil
  <1>3. eargc..nfiles \subseteq eargc..nfiles'
    BY <1>1 DEF Counts
  <1> QED
    BY <1>1, <1>2, <1>3 DEF Numbered

\* Every step keeps TempInv.
LEMMA TempStep == TempInv /\ [Next]_vars => TempInv'
  <1> SUFFICES ASSUME TempInv, [Next]_vars PROVE TempInv'
    OBVIOUS
  <1>1. CASE UNCHANGED vars
    BY <1>1 DEF TempInv, Counts, Numbered, NoTempLeft, vars, eargc, Setfil
  <1>2. CASE Next
    <2>1. Counts' /\ eargc' = eargc /\ pc # "exit"
      BY <1>2, CountsStep, InputStays
      DEF TempInv, Next, Program, Fill, WriteRun, Create, Counted, OpenOut, Pass, MergeOpen,
          MergeFirst, MergePut, MergeNext, MergeEnd, Term, Stop, Running, Merging
    <2>2. Numbered
      BY <2>1 DEF TempInv
    <2>3. CASE Create
      <3>1. DOMAIN temp' = DOMAIN temp \cup {Setfil(nfiles)} /\ nfiles' = nfiles /\ pc' = "count"
        BY <2>3 DEF Create
      <3>2. Numbered'
        BY <2>1, <2>2, <3>1 DEF Numbered, Setfil, TempInv, Counts
      <3> QED
        BY <2>1, <3>1, <3>2 DEF TempInv, NoTempLeft
    <2>4. CASE Term
      <3>1. DOMAIN temp' = DOMAIN temp \ {Setfil(i) : i \in Made} /\ pc' = "exit"
        BY <2>4, UnlinkedNumbered DEF Term
      <3>2. eargc..nfiles \subseteq Made
        BY DEF Made, TempInv, Counts
      <3>3. DOMAIN temp' = {}
        BY <2>2, <3>1, <3>2 DEF Numbered
      <3> QED
        BY <2>1, <3>1, <3>3 DEF TempInv, NoTempLeft
    <2>5. CASE WriteRun \/ MergePut
      <3>1. DOMAIN temp' = DOMAIN temp /\ pc' # "exit"
        BY <2>5, WrittenNumbered DEF WriteRun, MergePut
      <3> QED
        BY <1>2, <2>1, <2>2, <3>1, NumberedStays DEF TempInv, NoTempLeft
    <2>6. CASE MergeEnd
      <3>1. DOMAIN temp' \subseteq DOMAIN temp /\ pc' # "exit"
        BY <2>6, UnlinkedNumbered DEF MergeEnd
      <3> QED
        BY <1>2, <2>1, <2>2, <3>1, NumberedStays DEF TempInv, NoTempLeft
    <2>7. CASE Fill \/ Counted \/ OpenOut \/ Pass \/ MergeOpen \/ MergeFirst \/ MergeNext \/ Stop
      <3>1. temp' = temp
        BY <2>7 DEF Fill, Counted, OpenOut, Pass, MergeOpen, MergeFirst, MergeNext, Stop
      <3>2. pc' # "exit"
        BY <2>1, <2>7 DEF Fill, Counted, Stage, OpenOut, Pass, MergeOpen, MergeFirst, MergeNext, Stop
      <3> QED
        BY <1>2, <2>1, <2>2, <3>1, <3>2, NumberedStays DEF TempInv, NoTempLeft
    <2> QED
      BY <1>2, <2>3, <2>4, <2>5, <2>6, <2>7 DEF Next, Program
  <1> QED
    BY <1>1, <1>2 DEF Next

\* No temporary file is left behind, whatever the number of files, runs and passes, and
\* wherever a signal or an error stops sort (term() in sort.c).
THEOREM CleanExit == Spec => []NoTempLeft
  <1>1. Init => TempInv
    <2> SUFFICES ASSUME Init PROVE TempInv
      OBVIOUS
    <2>1. DOMAIN temp = {} /\ pc # "exit"
      BY DEF Init
    <2> QED
      BY <2>1, CountsInit DEF TempInv, Numbered, NoTempLeft
  <1>2. TempInv => NoTempLeft
    BY DEF TempInv
  <1> QED
    BY <1>1, <1>2, TempStep, PTL DEF Spec

-----------------------------------------------------------------------------
(* The output file *)

\* When the output file is emptied, it is none of the operands that are still to be merged.
OutputMerged == pc = "open" /\ opt.m /\ opt.o # None => opt.o < a

\* sort -m -o may name one of its operands: whatever N and the number of the operands, it is
\* merged before oldfile() empties it, and safeoutfil() need only look at the last N.
THEOREM OperandMergedFirst == Spec => []OutputMerged
  <1>1. Init => SortInv
    BY SortInit
  <1>2. SortInv => OutputMerged
    BY DEF SortInv, GivenInv, PlaceInv, OutputMerged
  <1> QED
    BY <1>1, <1>2, SortStep, PTL DEF Spec

=============================================================================
