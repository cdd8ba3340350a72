------------------------------ MODULE EdProofs ------------------------------
(***************************************************************************)
(* Proofs about Ed: that u can bring back the text as it was before the    *)
(* last command, as long as realloc() leaves both arrays in their places;  *)
(* that w leaves the old file alone until the new one is complete; that q  *)
(* warns; of the operations on the lines, that m and t rearrange them as   *)
(* they should and marks follow them; and that a hang-up saves the lines,  *)
(* but for the few that the loop it came into had in its hands.            *)
(***************************************************************************)
EXTENDS Ed, FiniteSetTheorems, TLAPS

Array(f) == f = [i \in Slot |-> f[i]]

\* A buffer as far as its operations depend on it.
Shape(x) ==
    /\ x \in [line : {x.line}, dot : Int, dol : Int, name : {x.name}, bits : {x.bits}]
    /\ Array(x.line)

OpShape(o) == o \in [c : {o.c}, a1 : Int, a2 : Int, t : Int, i : Int, flag : {o.flag}]

\* No line without its number from putline().
Short(x, n) == x.dol \in 0..(n - 1)

\* The commands for which checkpoint() is called.
Chosen == pc = "ck" => op.c \in {"a", "c", "d", "g", "i", "j", "m", "r", "s", "t"}

\* c, d, g and j go over lines of the text.
InText == \/ pc = "ck" /\ op.c \in {"c", "d", "g", "j"}
          \/ pc \in {"delete", "join", "mark"}
          => 1 <= op.a1 /\ op.a1 <= op.a2 /\ op.a2 <= b.dol

\* There is a number left for the line that j makes.
Spare == \/ pc = "ck" /\ op.c = "j"
         \/ pc = "join"
         => tline <= MaxLine

\* The undo copy x holds the text, as long as realloc() does not move dot and dol away from it.
Holds(x, h, t) == Moves = {0} /\ h /\ ~t => Snap(x) = before

UndoInv ==
    /\ Shape(b) /\ Shape(u) /\ OpShape(op)
    /\ tline \in 1..(MaxLine + 1)
    /\ Short(b, tline)
    /\ Chosen /\ InText /\ Spare
    /\ pc \notin {"over", "wild"} => Holds(u, has, torn)

\* What a signal leaves keeps the invariant.
Kept(m) ==
    /\ Shape(m.b) /\ Shape(m.u)
    /\ m.tline \in 1..(MaxLine + 1) /\ Short(m.b, m.tline)
    /\ Holds(m.u, m.has, m.torn)

-----------------------------------------------------------------------------
(* What the operations on a buffer leave *)

LEMMA SavedHolds ==
    ASSUME NEW x, Shape(x), x.dol \in 0..MaxLine, ~globp, MaxLine \in Nat
    PROVE  /\ Shape(Saved(x)) /\ Saved(x).dol = x.dol /\ Snap(Saved(x)) = Snap(x)
<1> DEFINE F == [i \in Slot |-> IF i <= x.dol THEN x.line[i] ELSE u.line[i]]
<1>1. Saved(x) = [x EXCEPT !.line = F]
  BY DEF Saved
<1>0. Array(F)
  BY DEF Array
<1>2. /\ Saved(x).line = F /\ Saved(x).dol = x.dol /\ Saved(x).dot = x.dot
      /\ Saved(x).name = x.name /\ Saved(x).bits = x.bits /\ Shape(Saved(x))
  <2> HIDE DEF F
  <2> QED  BY <1>0, <1>1 DEF Shape
<1>3. \A i \in 1..x.dol : F[i] = x.line[i]
  BY DEF Slot
<1>4. SubSeq(F, 1, x.dol) = SubSeq(x.line, 1, x.dol)
  BY <1>3
<1> QED  BY <1>2, <1>4 DEF Snap, Text

LEMMA PutShape ==
    ASSUME NEW x, Shape(x), NEW id
    PROVE  /\ Shape(Put(x, id)) /\ Put(x, id).dol = x.dol + 1
           /\ \A y \in PutParts(x) : Shape(y) /\ y.dol = x.dol + 1
<1> DEFINE n == x.dol + 1
           d == x.dot + 1
<1>1. n \in Int /\ d \in Int
  BY DEF Shape
<1>2. PICK l : Array(l) /\ Put(x, id) = [x EXCEPT !.dol = n, !.dot = d, !.line = l]
  <2> DEFINE F == [i \in Slot |-> IF i = x.dot + 1 THEN id
                                  ELSE IF i > x.dot + 1 /\ i <= x.dol + 1 THEN x.line[i - 1]
                                  ELSE x.line[i]]
  <2>1. Array(F)
    BY DEF Array
  <2>2. Put(x, id) = [x EXCEPT !.dol = n, !.dot = d, !.line = F]
    BY DEF Put
  <2> QED  BY <2>1, <2>2
<1>3. ASSUME NEW y \in PutParts(x)
      PROVE  \/ \E l1 : Array(l1) /\ y = [x EXCEPT !.dol = n, !.dot = d, !.line = l1]
             \/ y = [x EXCEPT !.dol = n]
  <2> DEFINE F(k) == [i \in Slot |-> IF i > k /\ i <= x.dol + 1 THEN x.line[i - 1]
                                     ELSE x.line[i]]
  <2>1. \A k : Array(F(k))
    BY DEF Array
  <2>2. \/ \E k : y = [x EXCEPT !.dol = n, !.dot = d, !.line = F(k)]
        \/ y = [x EXCEPT !.dol = n]
    BY <1>3 DEF PutParts
  <2> QED  BY <2>1, <2>2
<1> HIDE DEF n, d
<1>4. Shape(Put(x, id)) /\ Put(x, id).dol = n
  BY <1>1, <1>2 DEF Shape
<1>5. ASSUME NEW y \in PutParts(x)
      PROVE  Shape(y) /\ y.dol = n
  <2>1. CASE y = [x EXCEPT !.dol = n]
    BY <2>1, <1>1 DEF Shape
  <2>2. ASSUME NEW l1, Array(l1), y = [x EXCEPT !.dol = n, !.dot = d, !.line = l1]
        PROVE  Shape(y) /\ y.dol = n
    BY <1>1, <2>2 DEF Shape
  <2> QED  BY <1>3, <1>5, <2>1, <2>2
<1> QED  BY <1>4, <1>5 DEF n

LEMMA DeletedShape ==
    ASSUME NEW x, Shape(x), NEW a1 \in Int, NEW a2 \in Int
    PROVE  /\ Shape(Deleted(x, a1, a2)) /\ Deleted(x, a1, a2).dol = x.dol - (a2 - a1 + 1)
           /\ \A y \in DeletedParts(x, a1, a2) : Shape(y) /\ y.dol = x.dol - (a2 - a1 + 1)
<1> DEFINE n == x.dol - (a2 - a1 + 1)
           d == IF a1 > n THEN n ELSE a1
<1>1. n \in Int /\ d \in Int
  BY DEF Shape
<1>0. \A f, from, k, last : Array(Close(f, from, k, last))
  BY DEF Array, Close
<1>2. PICK l : Array(l) /\ Deleted(x, a1, a2) = [x EXCEPT !.line = l, !.dol = n, !.dot = d]
  BY <1>0, Zenon DEF Deleted
<1>3. ASSUME NEW y \in DeletedParts(x, a1, a2)
      PROVE  \E l1 : Array(l1) /\ y = [x EXCEPT !.dol = n, !.line = l1]
  BY <1>0, <1>3, Zenon DEF DeletedParts
<1> HIDE DEF n, d
<1>4. Shape(Deleted(x, a1, a2)) /\ Deleted(x, a1, a2).dol = n
  BY <1>1, <1>2 DEF Shape
<1>5. ASSUME NEW y \in DeletedParts(x, a1, a2)
      PROVE  Shape(y) /\ y.dol = n
  <2>1. PICK l1 : Array(l1) /\ y = [x EXCEPT !.dol = n, !.line = l1]
    BY <1>3, <1>5
  <2> QED  BY <2>1, <1>1 DEF Shape
<1> QED  BY <1>4, <1>5 DEF n

LEMMA ScannedShape ==
    ASSUME NEW x, Shape(x), NEW j \in Nat
    PROVE  Shape(Scanned(x, j)) /\ Scanned(x, j).dol = x.dol
<1> DEFINE hit == {i \in 1..j : x.line[i] \in x.bits}
           source(i) == {k \in (1..j) \ hit : Cardinality((1..k) \ hit) = i}
           before1 == {i \in (1..j) \ hit : \E k \in hit : i < k}
           F == [i \in Slot |-> IF source(i) = {} THEN x.line[i]
                             ELSE x.line[CHOOSE k \in source(i) : TRUE]]
           dt == IF Cardinality(hit) < 2 THEN x.dot ELSE Cardinality(before1) + 1
<1>1. Scanned(x, j) = [x EXCEPT !.line = F, !.dot = dt]
  BY DEF Scanned
<1>2. IsFiniteSet(1..j)
  BY FS_Interval
<1>3. Cardinality(before1) \in Nat
  BY <1>2, FS_Subset, FS_CardinalityType
<1>4. dt \in Int
  BY <1>3 DEF Shape
<1>5. Array(F)
  BY DEF Array
<1> HIDE DEF F, dt
<1> QED  BY <1>1, <1>4, <1>5 DEF Shape

LEMMA PackedShape ==
    ASSUME NEW x, Shape(x), x.dol \in Nat
    PROVE  Shape(Packed(x)) /\ Packed(x).dol \in 0..x.dol
<1> DEFINE S == {i \in 1..x.dol : x.line[i] \notin x.bits}
           n == Cardinality(S)
           y == Scanned(x, x.dol)
<1>1. n \in 0..x.dol
  <2>1. IsFiniteSet(1..x.dol) /\ Cardinality(1..x.dol) = x.dol
    <3>1. /\ IsFiniteSet(1..x.dol)
          /\ Cardinality(1..x.dol) = IF 1 > x.dol THEN 0 ELSE x.dol - 1 + 1
      BY FS_Interval
    <3> QED  BY <3>1
  <2>2. IsFiniteSet(S) /\ n <= x.dol
    BY <2>1, FS_Subset
  <2> QED  BY <2>2, FS_CardinalityType
<1>2. Shape(y)
  BY ScannedShape
<1> DEFINE d == IF y.dot > n THEN n ELSE y.dot
<1>3. Packed(x) = IF n = x.dol THEN x ELSE [y EXCEPT !.dol = n, !.dot = d]
  BY DEF Packed
<1>4. d \in Int /\ n \in Int
  BY <1>1, <1>2 DEF Shape
<1> HIDE DEF n, y, d
<1>5. ASSUME n # x.dol
      PROVE  Shape(Packed(x)) /\ Packed(x).dol = n
  <2>1. Packed(x) = [y EXCEPT !.dol = n, !.dot = d]
    BY <1>3, <1>5
  <2> QED  BY <1>2, <1>4, <2>1 DEF Shape
<1> QED  BY <1>1, <1>3, <1>5

\* Whatever is turned, it is the same array.
LEMMA TurnedArray ==
    ASSUME NEW f, Array(f), NEW turns, NEW n \in 0..3
    PROVE  Array(Turned(f, turns, n))
<1>1. \A g, lo, hi : Array(Reversed(g, lo, hi))
  BY DEF Array, Reversed
<1>2. \A g, r : Array(Turn(g, r))
  BY <1>1 DEF Turn
<1>3. CASE n = 0
  BY <1>3 DEF Turned
<1>4. CASE n = 1
  BY <1>2, <1>4 DEF Turned
<1>5. CASE n = 2
  BY <1>2, <1>5 DEF Turned
<1>6. CASE n = 3
  BY <1>2, <1>6 DEF Turned
<1> QED  BY <1>3, <1>4, <1>5, <1>6

LEMMA MovedShape ==
    ASSUME NEW x, Shape(x), NEW a1 \in Int, NEW a2 \in Int, NEW t \in Int
    PROVE  /\ Shape(Moved(x, a1, a2, t)) /\ Moved(x, a1, a2, t).dol = x.dol
           /\ \A y \in MovedParts(x, a1, a2, t) : Shape(y) /\ y.dol = x.dol
<1>1. MovedDot(a1, a2, t) \in Int
  BY DEF MovedDot
<1>2. Shape(Moved(x, a1, a2, t)) /\ Moved(x, a1, a2, t).dol = x.dol
  <2>1. PICK l : Array(l) /\ Moved(x, a1, a2, t) = [x EXCEPT !.dot = MovedDot(a1, a2, t),
                                                              !.line = l]
    <3>1. Array(x.line) /\ Array(Turned(x.line, Turns(a1, a2, t), 3))
      BY TurnedArray DEF Shape
    <3> QED  BY <3>1, Zenon DEF Moved
  <2> QED  BY <2>1, <1>1 DEF Shape
<1>3. ASSUME NEW y \in MovedParts(x, a1, a2, t)
      PROVE  Shape(y) /\ y.dol = x.dol
  <2>1. PICK l : Array(l) /\ y = [x EXCEPT !.dot = MovedDot(a1, a2, t), !.line = l]
    <3>1. \A f, lo, hi : \A p \in ReversedParts(f, lo, hi) : Array(p)
      BY DEF Array, ReversedParts, ReversedPart
    <3> QED  BY <1>3, <3>1 DEF MovedParts
  <2> QED  BY <2>1, <1>1 DEF Shape
<1> QED  BY <1>2, <1>3

LEMMA SubstitutedShape ==
    ASSUME NEW x, Shape(x), NEW i \in Int
    PROVE  /\ Shape(Renamed(x, i)) /\ Renamed(x, i).dol = x.dol
           /\ Shape(Replaced(x, i)) /\ Replaced(x, i).dol = x.dol
           /\ Shape([Substituted(x, i) EXCEPT !.dot = i])
           /\ [Substituted(x, i) EXCEPT !.dot = i].dol = x.dol
<1>1. ASSUME NEW y, Shape(y)
      PROVE  Shape(Replaced(y, i)) /\ Replaced(y, i).dol = y.dol
  <2> DEFINE f == [y.line EXCEPT ![i] = tline]
  <2>1. Array(f)
    BY <1>1 DEF Array, Shape
  <2>2. Replaced(y, i) = [y EXCEPT !.line = f]
    BY DEF Replaced
  <2> HIDE DEF f
  <2> QED  BY <1>1, <2>1, <2>2 DEF Shape
<1>2. Shape(Renamed(x, i)) /\ Renamed(x, i).dol = x.dol
  BY DEF Renamed, Shape
<1>3. Shape(Substituted(x, i)) /\ Substituted(x, i).dol = x.dol
  BY <1>1, <1>2 DEF Substituted
<1> QED  BY <1>1, <1>2, <1>3 DEF Shape

-----------------------------------------------------------------------------
(* What a signal finds *)

LEMMA AtKept ==
    ASSUME UndoInv, pc \notin {"over", "wild"}, NEW x, Shape(x), Short(x, tline)
    PROVE  Kept(At(x, u))
  BY DEF UndoInv, Kept, At

LEMMA StoredKept ==
    ASSUME UndoInv, pc \notin {"over", "wild"}, NEW x, Shape(x), NEW n \in Nat,
           Short(x, tline + n), tline + n <= MaxLine + 1
    PROVE  Kept(Stored(x, n))
<1>1. /\ Stored(x, n).b = x /\ Stored(x, n).u = u /\ Stored(x, n).has = has
      /\ Stored(x, n).torn = torn /\ Stored(x, n).tline = tline + n
  BY DEF Stored, At
<1>2. tline + n \in 1..(MaxLine + 1)
  BY LinesAssumption DEF UndoInv
<1> QED  BY <1>1, <1>2 DEF UndoInv, Kept

LEMMA CheckpointKept ==
    ASSUME UndoInv, pc \notin {"over", "wild"}, NEW m \in CheckpointParts
    PROVE  Kept(m)
<1> DEFINE lines(k) == [u EXCEPT !.line = [i \in Slot |-> IF i <= k THEN b.line[i] ELSE @[i]]]
           T(y, h) == [At(b, y) EXCEPT !.has = h, !.torn = TRUE]
<1>1. ASSUME NEW y, NEW h, Shape(y)
      PROVE  Kept(T(y, h))
  <2>1. T(y, h).b = b /\ T(y, h).u = y /\ T(y, h).has = h /\ T(y, h).torn /\ T(y, h).tline = tline
    BY DEF At
  <2> HIDE DEF T
  <2> QED  BY <1>1, <2>1 DEF UndoInv, Kept, Holds
<1>2. ASSUME NEW k
      PROVE  Shape(lines(k)) /\ lines(k).dol = u.dol
  <2>1. PICK l : Array(l) /\ lines(k) = [u EXCEPT !.line = l]
    <3> DEFINE F == [i \in Slot |-> IF i <= k THEN b.line[i] ELSE u.line[i]]
    <3>1. Array(F)
      BY DEF Array
    <3>2. lines(k) = [u EXCEPT !.line = F]
      OBVIOUS
    <3> QED  BY <3>1, <3>2
  <2> HIDE DEF lines
  <2> QED  BY <2>1 DEF UndoInv, Shape
<1> DEFINE all == lines(b.dol)
           y1 == [all EXCEPT !.dot = b.dot]
           y2 == [all EXCEPT !.dot = b.dot, !.dol = b.dol]
<1>3. \/ m = At(b, u)
      \/ \E k \in 1..b.dol : m = T(lines(k), has)
      \/ m = T(y1, TRUE)
      \/ m = T(y2, TRUE)
  BY DEF CheckpointParts
<1>4. Shape(all) /\ all.dol = u.dol
  BY <1>2
<1> HIDE DEF T, lines, all
<1>5. b.dot \in Int /\ b.dol \in Int
  BY DEF UndoInv, Shape
<1>6. Shape(y1) /\ y1.dol = u.dol
  BY <1>4, <1>5 DEF Shape
<1>7. Shape(y2) /\ y2.dol = b.dol
  BY <1>4, <1>5 DEF Shape
<1>8. ASSUME m = T(y1, TRUE) \/ m = T(y2, TRUE) \/ \E k \in 1..b.dol : m = T(lines(k), has)
      PROVE  Kept(m)
  BY <1>1, <1>2, <1>6, <1>7, <1>8
<1> QED  BY <1>3, <1>8, AtKept DEF UndoInv

LEMMA AppendKept ==
    ASSUME UndoInv, pc \notin {"over", "wild"}, NEW m \in AppendParts, ~m.bad
    PROVE  Kept(m)
<1>1. \/ m = At(b, u)
      \/ m = [At(b, u) EXCEPT !.bad = TRUE]
      \/ tline <= MaxLine /\ \E x \in PutParts(b) : m = Stored(x, 1)
  BY DEF AppendParts, More
<1>2. m # [At(b, u) EXCEPT !.bad = TRUE]
  BY DEF At
<1>3. ASSUME tline <= MaxLine, NEW x \in PutParts(b), m = Stored(x, 1)
      PROVE  Kept(m)
  <2>1. Shape(x) /\ x.dol = b.dol + 1
    BY <1>3, PutShape DEF UndoInv
  <2>2. Short(x, tline + 1) /\ tline + 1 <= MaxLine + 1
    BY <2>1, <1>3, LinesAssumption DEF UndoInv, Short
  <2> QED  BY <1>3, <2>1, <2>2, StoredKept
<1> QED  BY <1>1, <1>2, <1>3, AtKept DEF UndoInv

LEMMA DeleteKept ==
    ASSUME UndoInv, pc = "delete", NEW m,
           m = At(b, u) \/ \E x \in DeletedParts(b, op.a1, op.a2) : m = At(x, u)
    PROVE  Kept(m)
<1>1. ASSUME NEW x \in DeletedParts(b, op.a1, op.a2)
      PROVE  Shape(x) /\ Short(x, tline)
  <2>1. op.a1 \in Int /\ op.a2 \in Int
    BY DEF UndoInv, OpShape
  <2>2. Shape(x) /\ x.dol = b.dol - (op.a2 - op.a1 + 1)
    BY <1>1, <2>1, DeletedShape DEF UndoInv
  <2> QED  BY <2>1, <2>2, LinesAssumption DEF UndoInv, InText, Short
<1> QED  BY <1>1, AtKept DEF UndoInv

LEMMA JoinKept ==
    ASSUME UndoInv, pc = "join", NEW m \in JoinParts
    PROVE  Kept(m)
<1> DEFINE y == Replaced(b, op.a1)
<1>1. \/ m = At(b, u)
      \/ /\ op.a1 # op.a2
         /\ \E x \in {b, y} \cup DeletedParts(y, op.a1 + 1, op.a2) : m = Stored(x, 1)
  BY DEF JoinParts
<1>2. Shape(y) /\ y.dol = b.dol
  BY SubstitutedShape DEF UndoInv, OpShape
<1>3. op.a1 + 1 \in Int /\ op.a2 \in Int
  BY DEF UndoInv, OpShape
<1>4. ASSUME op.a1 # op.a2, NEW x \in {b, y} \cup DeletedParts(y, op.a1 + 1, op.a2)
      PROVE  Shape(x) /\ Short(x, tline + 1)
  <2>1. CASE x \in {b, y}
    BY <2>1, <1>2, LinesAssumption DEF UndoInv, Short
  <2>2. CASE x \in DeletedParts(y, op.a1 + 1, op.a2)
    <3>1. Shape(x) /\ x.dol = b.dol - (op.a2 - (op.a1 + 1) + 1)
      BY <2>2, <1>2, <1>3, DeletedShape
    <3> QED  BY <3>1, <1>4, LinesAssumption DEF UndoInv, OpShape, InText, Short
  <2> QED  BY <1>4, <2>1, <2>2
<1>5. tline + 1 <= MaxLine + 1
  BY LinesAssumption DEF UndoInv, Spare
<1> QED  BY <1>1, <1>4, <1>5, AtKept, StoredKept DEF UndoInv

LEMMA MoveKept ==
    ASSUME UndoInv, pc = "move", NEW m \in MoveParts
    PROVE  Kept(m)
<1>1. Shape(Unmarked) /\ Unmarked.dol = b.dol
  BY DEF Unmarked, UndoInv, Shape
<1>2. ASSUME NEW x \in MovedParts(Unmarked, op.a1, op.a2, op.t)
      PROVE  Shape(x) /\ Short(x, tline)
  <2>1. op.a1 \in Int /\ op.a2 \in Int /\ op.t \in Int
    BY DEF UndoInv, OpShape
  <2>2. Shape(x) /\ x.dol = b.dol
    BY <1>1, <1>2, <2>1, MovedShape
  <2> QED  BY <2>2 DEF UndoInv, Short
<1> QED  BY <1>2, AtKept DEF MoveParts, UndoInv

LEMMA SubKept ==
    ASSUME UndoInv, pc = "sub", NEW m \in SubParts, ~m.bad
    PROVE  Kept(m)
<1> DEFINE x == [Substituted(b, op.i) EXCEPT !.dot = op.i]
<1>1. /\ Shape(x) /\ x.dol = b.dol
      /\ Shape(Renamed(b, op.i)) /\ Renamed(b, op.i).dol = b.dol
  BY SubstitutedShape DEF UndoInv, OpShape
<1>2. \/ m = At(b, u)
      \/ /\ tline < MaxLine
         /\ \/ \E y \in {b, Renamed(b, op.i), x} : m = Stored(y, 1)
            \/ \E y \in PutParts(x) : m = Stored(y, 2)
  <2>1. m # [At(b, u) EXCEPT !.bad = TRUE]
    BY DEF At
  <2> QED  BY <2>1, LinesAssumption DEF SubParts, UndoInv
<1>3. ASSUME tline < MaxLine, NEW y \in {b, Renamed(b, op.i), x}
      PROVE  Kept(Stored(y, 1))
  <2> HIDE DEF x
  <2>1. Shape(y) /\ y.dol = b.dol
    BY <1>1, <1>3 DEF UndoInv
  <2>2. Short(y, tline + 1) /\ tline + 1 <= MaxLine + 1
    BY <2>1, <1>3, LinesAssumption DEF UndoInv, Short
  <2> QED  BY <2>1, <2>2, StoredKept
<1>4. ASSUME tline < MaxLine, NEW y \in PutParts(x)
      PROVE  Kept(Stored(y, 2))
  <2>1. Shape(y) /\ y.dol = b.dol + 1
    BY <1>1, <1>4, PutShape
  <2>2. Short(y, tline + 2) /\ tline + 2 <= MaxLine + 1
    BY <2>1, <1>4, LinesAssumption DEF UndoInv, Short
  <2> QED  BY <2>1, <2>2, StoredKept
<1> QED  BY <1>2, <1>3, <1>4, AtKept DEF UndoInv

LEMMA UndoKept ==
    ASSUME UndoInv, pc = "undo", NEW m \in UndoParts, ~m.bad
    PROVE  Kept(m)
<1> DEFINE x == [u EXCEPT !.name = b.name]
           y == [b EXCEPT !.name = u.name]
<1>1. \/ m = At(b, u)
      \/ Sane /\ m = [At(x, y) EXCEPT !.torn = TRUE]
  BY DEF UndoParts, At
<1>2. Shape(x) /\ x.dol = u.dol /\ Shape(y)
  BY DEF UndoInv, Shape
<1>3. ASSUME Sane, m = [At(x, y) EXCEPT !.torn = TRUE]
      PROVE  Kept(m)
  <2> HIDE DEF x, y
  <2>1. m.b = x /\ m.u = y /\ m.torn /\ m.tline = tline
    BY <1>3 DEF At
  <2>2. Short(x, tline)
    BY <1>2, <1>3, LinesAssumption DEF Sane, Short, UndoInv, Shape
  <2> QED  BY <1>2, <2>1, <2>2 DEF UndoInv, Kept, Holds
<1> QED  BY <1>1, <1>3, AtKept DEF UndoInv

\* Whatever a signal finds in the middle of a command, the text and the undo copy are kept.
LEMMA MidwayKept ==
    ASSUME UndoInv, pc \notin {"over", "wild"}, NEW m \in Midway, ~m.bad
    PROVE  Kept(m)
<1>1. CASE pc = "ck" /\ ~globp
  BY <1>1, CheckpointKept DEF Midway
<1>2. CASE pc = "append"
  BY <1>2, AppendKept DEF Midway
<1>3. CASE pc = "delete"
  BY <1>3, DeleteKept DEF Midway
<1>4. CASE pc = "join"
  BY <1>4, JoinKept DEF Midway
<1>5. CASE pc = "move"
  BY <1>5, MoveKept DEF Midway
<1>6. CASE pc = "sub"
  BY <1>6, SubKept DEF Midway
<1>7. CASE pc = "pack"
  <2>1. ASSUME NEW j \in 0..b.dol
        PROVE  Shape(Scanned(b, j)) /\ Short(Scanned(b, j), tline)
    <3>1. j \in Nat
      BY <2>1, LinesAssumption DEF UndoInv, Short
    <3> QED  BY <3>1, ScannedShape DEF UndoInv, Short
  <2> QED  BY <1>7, <2>1, AtKept DEF Midway
<1>8. CASE pc = "undo"
  BY <1>8, UndoKept DEF Midway
<1>9. CASE /\ ~(pc = "ck" /\ ~globp)
           /\ pc \notin {"append", "delete", "join", "move", "sub", "pack", "undo"}
  <2>1. m = At(b, u)
    BY <1>9 DEF Midway
  <2> QED  BY <2>1, AtKept DEF UndoInv
<1> QED  BY <1>1, <1>2, <1>3, <1>4, <1>5, <1>6, <1>7, <1>8, <1>9

-----------------------------------------------------------------------------
(* The steps *)

LEMMA InitInv == Init => UndoInv
<1> DEFINE x == [Empty EXCEPT !.line = [i \in Slot |-> IF i <= 2 THEN i ELSE 0],
                              !.dot = 2, !.dol = 2]
<1> SUFFICES ASSUME Init PROVE UndoInv
  OBVIOUS
<1>1. b = x /\ u = Empty /\ op = NoOp /\ tline = 3 /\ has = FALSE /\ pc = "cmd"
  BY DEF Init
<1>2. Shape(Empty)
  BY DEF Empty, Shape, Array
<1>3. Shape(x) /\ x.dol = 2
  <2>1. PICK l : Array(l) /\ x = [Empty EXCEPT !.line = l, !.dot = 2, !.dol = 2]
    <3> DEFINE F == [i \in Slot |-> IF i <= 2 THEN i ELSE 0]
    <3>1. Array(F)
      BY DEF Array
    <3> QED  BY <3>1
  <2>2. PICK e, n : e = Empty /\ n = 2
    OBVIOUS
  <2>3. x = [e EXCEPT !.line = l, !.dot = n, !.dol = n]
    BY <2>1, <2>2
  <2>4. Shape(e) /\ n \in Int
    BY <1>2, <2>2
  <2> HIDE DEF x
  <2> QED  BY <2>1, <2>2, <2>3, <2>4 DEF Shape
<1>4. OpShape(op)
  BY <1>1 DEF NoOp, Op, OpShape
<1> HIDE DEF x
<1> QED
  BY <1>1, <1>2, <1>3, <1>4, LinesAssumption
  DEF UndoInv, Short, Chosen, InText, Spare, Holds

\* A new command's addresses.
LEMMA RangesText ==
    ASSUME UndoInv, NEW r \in Ranges
    PROVE  /\ r[1] \in Int /\ r[2] \in Int
           /\ r \in Nonzero => 1 <= r[1] /\ r[1] <= r[2] /\ r[2] <= b.dol
<1>1. b.dot \in Int /\ b.dol \in Int
  BY DEF UndoInv, Shape
<1>2. r[1] \in Int /\ r[2] \in Int /\ r[1] <= r[2]
  BY <1>1 DEF Ranges
<1> QED  BY <1>2 DEF Nonzero

\* A step that leaves the undo copy alone, but for what realloc() does to it.
LEMMA MovedCopy ==
    ASSUME UndoInv, UNCHANGED <<has, torn, before>>, Shape(u'), Moves = {0} => u' = u,
           Shape(b'), OpShape(op'), tline' \in 1..(MaxLine + 1), Short(b', tline'),
           Chosen', InText', Spare', pc \notin {"over", "wild"}
    PROVE  UndoInv'
<1>1. pc' \notin {"over", "wild"} => Holds(u, has, torn)'
  BY DEF UndoInv, Holds, Snap, Text
<1> QED  BY <1>1 DEF UndoInv, Short, Shape, OpShape

\* A step that leaves the undo copy alone.
LEMMA SameCopy ==
    ASSUME UndoInv, UNCHANGED <<u, has, torn, before>>,
           Shape(b'), OpShape(op'), tline' \in 1..(MaxLine + 1), Short(b', tline'),
           Chosen', InText', Spare', pc \notin {"over", "wild"}
    PROVE  UndoInv'
  BY DEF UndoInv, Holds, Short, Shape, OpShape, Snap, Text

LEMMA ChangeStep == ASSUME UndoInv, Change PROVE UndoInv'
<1>1. /\ pc \in {"inner", "cmd"} /\ pc' = "ck"
      /\ UNCHANGED <<u, has, torn, before, b, tline>>
  BY DEF Change, Begin, Same
<1>2. /\ OpShape(op')
      /\ op'.c \in {"a", "c", "d", "g", "i", "j", "m", "r", "s", "t"}
      /\ op'.c \in {"c", "d", "g", "j"} =>
            1 <= op'.a1 /\ op'.a1 <= op'.a2 /\ op'.a2 <= b.dol
      /\ op'.c = "j" => tline <= MaxLine
  <2>0. b.dol \in Int
    BY DEF UndoInv, Shape
  <2>1. ASSUME NEW c, NEW a1 \in Int, NEW a2 \in Int, NEW t \in Int
        PROVE  LET o == Op(c, a1, a2, t)
               IN OpShape(o) /\ o.c = c /\ o.a1 = a1 /\ o.a2 = a2
    BY DEF Op, OpShape
  <2>2. ASSUME NEW o, OpShape(o), NEW i \in Int
        PROVE  /\ OpShape([o EXCEPT !.i = i]) /\ [o EXCEPT !.i = i].c = o.c
    BY <2>2 DEF OpShape
  <2>3. ASSUME NEW o, OpShape(o), NEW f
        PROVE  /\ OpShape([o EXCEPT !.flag = f]) /\ [o EXCEPT !.flag = f].c = o.c
    BY <2>3 DEF OpShape
  <2>4. \A r \in Nonzero : r \in Ranges
    BY DEF Nonzero
  <2>5. CASE \E r \in Ranges : op' = Op("a", r[1], r[2], 0)
    BY <2>5, <2>1, RangesText
  <2>6. CASE \E r \in Nonzero, c \in {"c", "d", "i"} : op' = Op(c, r[1], r[2], 0)
    BY <2>6, <2>1, <2>4, RangesText
  <2>7. CASE \E r \in Nonzero : tline <= MaxLine /\ op' = Op("j", r[1], r[2], 0)
    BY <2>7, <2>1, <2>4, RangesText
  <2>8. CASE \E r \in Nonzero : op' = [Op("s", r[1], r[2], 0) EXCEPT !.i = r[1]]
    BY <2>8, <2>1, <2>2, <2>4, RangesText
  <2>9. CASE \E r \in Nonzero, t \in 0..b.dol : op' = Op("m", r[1], r[2], t)
    BY <2>0, <2>9, <2>1, <2>4, RangesText
  <2>10. CASE \E r \in Nonzero, t \in 0..b.dol :
                 op' = [Op("t", r[1], r[2], t) EXCEPT !.i = b.dol]
    BY <2>0, <2>10, <2>1, <2>2, <2>4, RangesText
  <2>11. CASE \E r \in Ranges : op' = [Op("r", r[1], r[2], 0) EXCEPT !.flag = b.dol # 0]
    BY <2>11, <2>1, <2>3, RangesText
  <2>12. CASE \E r \in Nonzero : op' = Op("g", r[1], r[2], 0)
    BY <2>12, <2>1, <2>4, RangesText
  <2> QED  BY <2>5, <2>6, <2>7, <2>8, <2>9, <2>10, <2>11, <2>12 DEF Change, Begin
<1> QED  BY <1>1, <1>2, SameCopy DEF UndoInv, Chosen, InText, Spare

\* A step that begins or ends a command and leaves the text's length alone.
LEMMA EasyStep ==
    ASSUME UndoInv, UNCHANGED <<u, has, torn, before, tline>>, Shape(b'), b'.dol = b.dol,
           OpShape(op'), pc' \notin {"ck", "delete", "join", "mark"}, pc \notin {"over", "wild"}
    PROVE  UndoInv'
  BY SameCopy DEF UndoInv, Short, Chosen, InText, Spare

LEMMA OpShapes ==
    /\ OpShape(NoOp)
    /\ \A c, a1, a2, t : a1 \in Int /\ a2 \in Int /\ t \in Int => OpShape(Op(c, a1, a2, t))
  BY DEF NoOp, Op, OpShape

\* Nothing is promised of what is over or undefined.
LEMMA EndStep ==
    ASSUME UndoInv, UNCHANGED <<b, op>>, Shape(u'), tline' \in 1..(MaxLine + 1),
           Short(b, tline'), pc' \in {"over", "wild"}
    PROVE  UndoInv'
  BY DEF UndoInv, Short, Shape, OpShape, Chosen, InText, Spare

LEMMA CheckpointStep == ASSUME UndoInv, Checkpoint PROVE UndoInv'
<1>1. /\ pc = "ck" /\ pc' = Stage /\ u' = Saved(b) /\ has' = (has \/ ~globp)
      /\ b' = [b EXCEPT !.dot = From] /\ before' = IF globp THEN before ELSE Snap(b)
      /\ torn' = (torn /\ globp) /\ op' = op /\ tline' = tline
  BY DEF Checkpoint
<1>2. From \in Int
  BY DEF From, UndoInv, OpShape, Shape
<1>3. Shape(b') /\ b'.dol = b.dol
  BY <1>1, <1>2 DEF UndoInv, Shape
<1>4. Shape(u') /\ (Moves = {0} /\ has' /\ ~torn' => Snap(u') = before')
  <2>1. CASE globp
    BY <2>1, <1>1 DEF Saved, UndoInv, Holds
  <2>2. CASE ~globp
    <3>1. b.dol \in 0..MaxLine /\ MaxLine \in Nat
      BY LinesAssumption DEF UndoInv, Short
    <3> QED  BY <2>2, <3>1, <1>1, SavedHolds DEF UndoInv
  <2> QED  BY <2>1, <2>2
<1>5. /\ pc' # "ck"
      /\ pc' = "delete" => op.c \in {"c", "d"}
      /\ pc' = "join" => op.c = "j"
      /\ pc' = "mark" => op.c = "g"
  BY <1>1 DEF Stage, UndoInv, Chosen
<1>6. InText' /\ Spare' /\ Chosen'
  BY <1>1, <1>3, <1>5 DEF UndoInv, InText, Spare, Chosen
<1> QED  BY <1>1, <1>3, <1>4, <1>6 DEF UndoInv, Holds, Short, OpShape

\* realloc() moves the numbers of the undo copy; when it leaves the text in its place, none.
LEMMA RoomCopy ==
    ASSUME Shape(u), NEW x, NEW d \in Way(x), Room(x, d)
    PROVE  d \in Int /\ Shape(u') /\ (Moves = {0} => u' = u)
<1>1. d \in Int
  BY EdAssumption DEF Way
<1>2. u' = u \/ u' = [u EXCEPT !.dot = u.dot + d, !.dol = u.dol + d]
  BY DEF Room
<1>3. Shape(u')
  <2>1. PICK v, w : v = u.dot + d /\ w = u.dol + d
    OBVIOUS
  <2>2. v \in Int /\ w \in Int
    BY <1>1, <2>1 DEF Shape
  <2>3. CASE u' = [u EXCEPT !.dot = v, !.dol = w]
    BY <2>2, <2>3 DEF Shape
  <2> QED  BY <1>2, <2>1, <2>3
<1>4. ASSUME Moves = {0}
      PROVE  u' = u
  <2>1. d = 0
    BY <1>4 DEF Way
  <2>2. u.dot + d = u.dot /\ u.dol + d = u.dol
    BY <2>1 DEF Shape
  <2>3. [u EXCEPT !.dot = u.dot, !.dol = u.dol] = u
    BY DEF Shape
  <2> QED  BY <1>2, <2>2, <2>3
<1> QED  BY <1>1, <1>3, <1>4

LEMMA AppendLineStep == ASSUME UndoInv, AppendLine PROVE UndoInv'
<1>1. /\ pc = "append" /\ tline <= MaxLine /\ tline' = tline + 1
      /\ UNCHANGED <<op, has, torn, before>>
  BY DEF AppendLine, More, history
<1>2. Shape(u') /\ (Moves = {0} => u' = u)
  BY RoomCopy DEF AppendLine, UndoInv
<1>3. tline' \in 1..(MaxLine + 1) /\ Short(b, tline')
  BY <1>1, LinesAssumption DEF UndoInv, Short
<1>4. CASE b' = Put(b, tline) /\ pc' = pc
  <2>1. Shape(b') /\ b'.dol = b.dol + 1
    BY <1>4, PutShape DEF UndoInv
  <2>2. Short(b', tline')
    BY <1>1, <2>1, LinesAssumption DEF UndoInv, Short
  <2> QED
    BY <1>1, <1>2, <1>3, <1>4, <2>1, <2>2, MovedCopy DEF UndoInv, OpShape, Chosen, InText, Spare
<1>5. CASE b' = b /\ pc' = "wild"
  BY <1>1, <1>2, <1>3, <1>5, EndStep DEF UndoInv
<1> QED  BY <1>4, <1>5 DEF AppendLine, Wild

LEMMA AppendEndStep == ASSUME UndoInv, AppendEnd PROVE UndoInv'
<1>1. /\ pc = "append" /\ UNCHANGED <<u, has, torn, before, tline>>
      /\ pc' \in {"move", "cmd", "glob"}
      /\ \/ op' = NoOp
         \/ op' = [op EXCEPT !.a1 = op.i + 1, !.a2 = b.dol]
      /\ b' = b \/ b' = [b EXCEPT !.dot = b.dot + 1]
  BY DEF AppendEnd, Done, Onward, history
<1>2. Shape(b') /\ b'.dol = b.dol
  BY <1>1 DEF UndoInv, Shape
<1>3. OpShape(op')
  <2>1. PICK v, w : v = op.i + 1 /\ w = b.dol
    OBVIOUS
  <2>2. v \in Int /\ w \in Int
    BY <2>1 DEF UndoInv, Shape, OpShape
  <2>3. CASE op' = [op EXCEPT !.a1 = v, !.a2 = w]
    BY <2>2, <2>3 DEF UndoInv, OpShape
  <2> QED  BY <1>1, <2>1, <2>3, OpShapes
<1> QED  BY <1>1, <1>2, <1>3, EasyStep

LEMMA DeleteStep == ASSUME UndoInv, Delete PROVE UndoInv'
<1> DEFINE x == Deleted(b, op.a1, op.a2)
<1>1. /\ pc = "delete" /\ UNCHANGED <<u, has, torn, before, tline>>
      /\ b' = x \/ b' = [x EXCEPT !.dot = op.a1 - 1]
      /\ pc' \in {"append", "cmd", "glob"} /\ op' \in {op, NoOp}
  BY DEF Delete, Becomes, Done, Onward, history
<1>2. Shape(x) /\ x.dol = b.dol - (op.a2 - op.a1 + 1)
  BY DeletedShape DEF UndoInv, OpShape
<1>3. Shape(b') /\ b'.dol = x.dol
  <2>1. op.a1 - 1 \in Int
    BY DEF UndoInv, OpShape
  <2> HIDE DEF x
  <2> QED  BY <1>1, <1>2, <2>1 DEF Shape
<1>4. Short(b', tline)
  BY <1>1, <1>2, <1>3, LinesAssumption DEF UndoInv, OpShape, InText, Short
<1>5. OpShape(op')
  BY <1>1, OpShapes DEF UndoInv
<1> QED  BY <1>1, <1>3, <1>4, <1>5, SameCopy DEF UndoInv, Chosen, InText, Spare

LEMMA JoinStep == ASSUME UndoInv, Join PROVE UndoInv'
<1>1. /\ pc = "join" /\ UNCHANGED <<u, has, torn, before>>
      /\ pc' \in {"cmd", "glob"} /\ op' = NoOp
  BY DEF Join, Done, Onward, history
<1>2. CASE b' = b /\ tline' = tline
  BY <1>1, <1>2, OpShapes, EasyStep DEF UndoInv
<1> DEFINE y == Replaced(b, op.a1)
           x == Deleted(y, op.a1 + 1, op.a2)
<1>3. CASE b' = [x EXCEPT !.dot = op.a1] /\ tline' = tline + 1 /\ op.a1 # op.a2
  <2>1. op.a1 \in Int /\ op.a1 + 1 \in Int /\ op.a2 \in Int
    BY DEF UndoInv, OpShape
  <2>2. Shape(y) /\ y.dol = b.dol
    BY <2>1, SubstitutedShape DEF UndoInv
  <2>3. Shape(x) /\ x.dol = b.dol - (op.a2 - (op.a1 + 1) + 1)
    BY <2>1, <2>2, DeletedShape
  <2>4. Shape(b') /\ b'.dol = x.dol
    <3> HIDE DEF x
    <3> QED  BY <1>3, <2>1, <2>3 DEF Shape
  <2>5. Short(b', tline') /\ tline' \in 1..(MaxLine + 1)
    <3> HIDE DEF x
    <3> QED  BY <1>1, <1>3, <2>1, <2>3, <2>4, LinesAssumption DEF UndoInv, InText, Spare, Short
  <2> QED  BY <1>1, <2>4, <2>5, OpShapes, SameCopy DEF UndoInv, Chosen, InText, Spare
<1> QED  BY <1>2, <1>3 DEF Join, Becomes

LEMMA MoveStep == ASSUME UndoInv, Move PROVE UndoInv'
<1>1. /\ pc = "move" /\ UNCHANGED <<u, has, torn, before, tline>>
      /\ b' = Moved(Unmarked, op.a1, op.a2, op.t) \/ b' = Unmarked
      /\ pc' \in {"cmd", "glob"} /\ op' = NoOp
  BY DEF Move, Becomes, Error, Done, Onward, history
<1>2. Shape(Unmarked) /\ Unmarked.dol = b.dol
  BY DEF Unmarked, UndoInv, Shape
<1>3. Shape(b') /\ b'.dol = b.dol
  <2>1. op.a1 \in Int /\ op.a2 \in Int /\ op.t \in Int
    BY DEF UndoInv, OpShape
  <2>2. CASE b' = Moved(Unmarked, op.a1, op.a2, op.t)
    <3>1. PICK x, p, q, r : x = Unmarked /\ p = op.a1 /\ q = op.a2 /\ r = op.t
      OBVIOUS
    <3>2. Shape(x) /\ x.dol = b.dol /\ b' = Moved(x, p, q, r)
      BY <1>2, <2>2, <3>1
    <3>3. p \in Int /\ q \in Int /\ r \in Int
      BY <2>1, <3>1
    <3>4. Shape(Moved(x, p, q, r)) /\ Moved(x, p, q, r).dol = x.dol
      BY <3>2, <3>3, MovedShape
    <3> QED  BY <3>2, <3>4
  <2> QED  BY <1>1, <1>2, <2>2
<1> QED  BY <1>1, <1>3, OpShapes, EasyStep

LEMMA SubLineStep == ASSUME UndoInv, SubLine PROVE UndoInv'
<1>1. pc = "sub" /\ UNCHANGED <<has, torn, before>>
  BY DEF SubLine, history
<1> DEFINE x == [Substituted(b, op.i) EXCEPT !.dot = op.i]
<1>2. op.i \in Int /\ op.a2 \in Int /\ Shape(x) /\ x.dol = b.dol
  BY SubstitutedShape DEF UndoInv, OpShape
<1>3. CASE pc' = "wild" /\ UNCHANGED <<op, b, u, tline>>
  BY <1>3, EndStep DEF UndoInv
<1>4. CASE /\ pc' = pc /\ UNCHANGED <<b, u, tline>>
           /\ op' = [op EXCEPT !.i = op.i + 1]
  <2>1. OpShape(op')
    BY <1>2, <1>4 DEF UndoInv, OpShape
  <2> QED  BY <1>1, <1>4, <2>1, EasyStep DEF UndoInv
<1>5. CASE /\ pc' = pc /\ b' = x /\ u' = u
           /\ tline <= MaxLine /\ tline' = tline + 1
           /\ op' = [op EXCEPT !.i = op.i + 1, !.flag = TRUE]
  <2>1. OpShape(op')
    <3>1. PICK v, f : v = op.i + 1 /\ f = TRUE
      OBVIOUS
    <3>2. v \in Int /\ f \in BOOLEAN
      BY <1>2, <3>1
    <3>3. op' = [op EXCEPT !.i = v, !.flag = f]
      BY <1>5, <3>1
    <3> QED  BY <3>2, <3>3 DEF UndoInv, OpShape
  <2>2. Short(b', tline') /\ tline' \in 1..(MaxLine + 1)
    BY <1>2, <1>5, LinesAssumption DEF UndoInv, Short
  <2> QED  BY <1>1, <1>2, <1>5, <2>1, <2>2, SameCopy DEF Chosen, InText, Spare
<1>6. CASE /\ pc' = pc /\ b' = Put(x, tline + 1) /\ tline < MaxLine /\ tline' = tline + 2
           /\ \E d \in Way(x) :
                 /\ Room(x, d)
                 /\ op' = [op EXCEPT !.i = op.i + 2, !.a2 = op.a2 + 1 + d, !.flag = TRUE]
  <2>1. PICK d \in Int : /\ Shape(u') /\ (Moves = {0} => u' = u)
                         /\ op' = [op EXCEPT !.i = op.i + 2, !.a2 = op.a2 + 1 + d, !.flag = TRUE]
    <3> HIDE DEF x
    <3> QED  BY <1>6, RoomCopy DEF UndoInv
  <2>2. OpShape(op')
    <3>1. PICK v, w, f : v = op.i + 2 /\ w = op.a2 + 1 + d /\ f = TRUE
      OBVIOUS
    <3>2. v \in Int /\ w \in Int /\ f \in BOOLEAN
      BY <1>2, <3>1
    <3>3. op' = [op EXCEPT !.i = v, !.a2 = w, !.flag = f]
      BY <2>1, <3>1
    <3> QED  BY <3>2, <3>3 DEF UndoInv, OpShape
  <2>3. Shape(b') /\ b'.dol = b.dol + 1
    BY <1>2, <1>6, PutShape
  <2>4. Short(b', tline') /\ tline' \in 1..(MaxLine + 1)
    BY <1>6, <2>3, LinesAssumption DEF UndoInv, Short
  <2> QED  BY <1>1, <1>6, <2>1, <2>2, <2>3, <2>4, MovedCopy DEF Chosen, InText, Spare
<1> QED  BY <1>3, <1>4, <1>5, <1>6 DEF SubLine, Becomes, Wild

LEMMA SubEndStep == ASSUME UndoInv, SubEnd PROVE UndoInv'
<1>1. /\ pc = "sub" /\ UNCHANGED <<b, u, has, torn, before, tline>>
      /\ pc' \in {"cmd", "glob"} /\ op' = NoOp
  BY DEF SubEnd, Error, Done, Onward, history
<1> QED  BY <1>1, OpShapes, EasyStep DEF UndoInv

\* Commands without a checkpoint.
LEMMA CommandStep ==
    ASSUME UndoInv, Mark \/ UndoBegin \/ WriteBegin \/ Quit PROVE UndoInv'
<1>1. \A r \in Nonzero : r \in Ranges
  BY DEF Nonzero
<1>2. CASE Mark
  <2>1. /\ pc \in {"cmd", "inner"} /\ UNCHANGED <<u, has, torn, before, tline>>
        /\ pc' \in {"cmd", "glob"} /\ op' = NoOp
        /\ \E n : b' = [b EXCEPT !.name = n]
    BY <1>2, Zenon DEF Mark, Begin, Onward
  <2>2. Shape(b') /\ b'.dol = b.dol
    BY <2>1 DEF UndoInv, Shape
  <2> QED  BY <2>1, <2>2, OpShapes, EasyStep
<1>3. CASE UndoBegin
  <2>1. /\ pc \in {"cmd", "inner"} /\ UNCHANGED <<b, u, has, torn, before, tline>>
        /\ pc' = "undo" /\ op' = Op("u", 0, 0, 0)
    BY <1>3 DEF UndoBegin, Begin, Same
  <2> QED  BY <2>1, OpShapes, EasyStep DEF UndoInv
<1>4. CASE WriteBegin
  <2>1. /\ pc \in {"cmd", "inner"} /\ UNCHANGED <<b, u, has, torn, before, tline>>
        /\ pc' = "wopen"
        /\ \E r \in Ranges, c \in {"w", "W"} : op' = Op(c, r[1], r[2], 0)
    BY <1>4, <1>1 DEF WriteBegin, Begin
  <2>2. OpShape(op')
    BY <2>1, OpShapes, RangesText
  <2> QED  BY <2>1, <2>2, EasyStep DEF UndoInv
<1>5. CASE Quit
  <2>1. /\ pc \in {"cmd", "inner"} /\ UNCHANGED <<b, u, has, torn, before, tline>>
        /\ pc' \in {"cmd", "over"}
        /\ op' \in {NoOp, [NoOp EXCEPT !.c = "q"]}
    BY <1>5 DEF Quit, Begin
  <2>2. OpShape(op')
    BY <2>1 DEF NoOp, Op, OpShape
  <2> QED  BY <2>1, <2>2, EasyStep DEF UndoInv
<1> QED  BY <1>2, <1>3, <1>4, <1>5

LEMMA EditStep == ASSUME UndoInv, Edit PROVE UndoInv'
<1>1. /\ b' = [Empty EXCEPT !.line = b.line] /\ u' = [u EXCEPT !.name = Empty.name]
      /\ has' = FALSE /\ tline' = 1
      /\ pc' \in {"append", "cmd"} /\ op' \in {NoOp, Op("e", 0, 0, 0)}
  BY DEF Edit
<1>2. Shape(b') /\ b'.dol = 0
  BY <1>1 DEF Empty, Shape, UndoInv
<1>3. Shape(u')
  BY <1>1 DEF UndoInv, Shape
<1> QED
  BY <1>1, <1>2, <1>3, OpShapes, LinesAssumption
  DEF UndoInv, Short, Holds, Chosen, InText, Spare

\* A g marks, visits or packs the lines.
LEMMA GlobalStep ==
    ASSUME UndoInv, GlobalMark \/ GlobalPack \/ GlobalNext PROVE UndoInv'
<1>1. /\ pc \in {"mark", "pack", "glob"} /\ UNCHANGED <<u, has, torn, before, tline>>
      /\ pc' \in {"glob", "pack", "cmd", "inner"} /\ op' \in {op, NoOp}
      /\ \/ \E s : b' = [b EXCEPT !.bits = s]
         \/ b' = [Packed(b) EXCEPT !.bits = {}]
         \/ \E i \in 1..b.dol : b' = Visited(i)
         \/ b' = b
  <2>1. CASE GlobalMark
    BY <2>1, Zenon DEF GlobalMark, history
  <2>2. CASE GlobalPack
    BY <2>2 DEF GlobalPack, Becomes, history
  <2>3. CASE GlobalNext
    BY <2>3 DEF GlobalNext, Found, history
  <2> QED  BY <2>1, <2>2, <2>3
<1>2. Shape(b') /\ b'.dol \in 0..b.dol
  <2>1. Shape(b) /\ b.dol \in 0..b.dol /\ b.dol \in Nat
    BY LinesAssumption DEF UndoInv, Short
  <2>2. CASE \E s : b' = [b EXCEPT !.bits = s]
    BY <2>1, <2>2 DEF Shape
  <2>3. CASE b' = [Packed(b) EXCEPT !.bits = {}]
    <3>1. Shape(Packed(b)) /\ Packed(b).dol \in 0..b.dol
      BY <2>1, PackedShape
    <3> QED  BY <2>3, <3>1 DEF Shape
  <2>4. ASSUME NEW i \in 1..b.dol, b' = Visited(i)
        PROVE  Shape(b') /\ b'.dol = b.dol
    <3>1. PICK s : b' = [b EXCEPT !.dot = i, !.bits = s]
      BY <2>4, Zenon DEF Visited
    <3>2. i \in Int
      BY <2>1, <2>4
    <3> QED  BY <2>1, <3>1, <3>2 DEF Shape
  <2> QED  BY <1>1, <2>1, <2>2, <2>3, <2>4
<1>3. Short(b', tline)
  BY <1>2, LinesAssumption DEF UndoInv, Short
<1>4. OpShape(op')
  BY <1>1, OpShapes DEF UndoInv
<1> QED  BY <1>1, <1>2, <1>3, <1>4, SameCopy DEF UndoInv, Chosen, InText, Spare

LEMMA UndoStep == ASSUME UndoInv, Undo PROVE UndoInv'
<1>1. /\ pc = "undo" /\ u' = b /\ before' = Snap(b) /\ UNCHANGED tline
      /\ \/ Sane /\ b' = u /\ pc' \in {"cmd", "glob"} /\ op' = NoOp
         \/ b' = b /\ op' = op /\ pc' = "wild"
  BY DEF Undo, Becomes, Done, Onward, Wild
<1>2. CASE Sane /\ b' = u /\ pc' \in {"cmd", "glob"} /\ op' = NoOp
  <2>1. Short(b', tline')
    BY <1>1, <1>2, LinesAssumption DEF Sane, Short, UndoInv, Shape
  <2>2. Snap(u') = before'
    BY <1>1
  <2> QED
    BY <1>1, <1>2, <2>1, <2>2, OpShapes DEF UndoInv, Holds, Chosen, InText, Spare, Shape
<1>3. CASE b' = b /\ op' = op /\ pc' = "wild"
  BY <1>1, <1>3, EndStep DEF UndoInv
<1> QED  BY <1>1, <1>2, <1>3

LEMMA WriteStep ==
    ASSUME UndoInv, WriteOpen \/ WriteLines \/ WriteFails \/ WriteEnd PROVE UndoInv'
<1>1. /\ pc \in {"wopen", "wput", "wdone"} /\ UNCHANGED <<b, u, has, torn, before, tline>>
      /\ pc' \in {"wput", "wdone", "cmd", "glob"} /\ op' \in {op, NoOp}
  BY DEF WriteOpen, WriteLines, WriteFails, WriteEnd, Error, Done, Onward, history
<1> QED  BY <1>1, OpShapes, EasyStep DEF UndoInv

LEMMA SignalStep ==
    ASSUME UndoInv, Interrupt \/ Terminate \/ HangUp PROVE UndoInv'
<1>1. pc \notin {"over", "wild"}
  BY DEF Interrupt, Terminate, HangUp, Running
<1>2. \/ \E m \in Midway : ~m.bad /\ Leave(m)
      \/ pc' \in {"over", "wild"} /\ UNCHANGED <<b, op, u, tline>>
  BY DEF Interrupt, Terminate, HangUp, Undefined
<1>3. ASSUME NEW m \in Midway, ~m.bad, Leave(m)
      PROVE  UndoInv'
  <2>1. Kept(m)
    BY <1>1, <1>3, MidwayKept
  <2>2. /\ b' = m.b /\ u' = m.u /\ has' = m.has /\ torn' = m.torn /\ tline' = m.tline
        /\ before' = before /\ pc' = "cmd" /\ op' = NoOp
    BY <1>3 DEF Leave, Error
  <2> QED
    BY <2>1, <2>2, OpShapes
    DEF Kept, UndoInv, Short, Shape, Holds, Snap, Text, Chosen, InText, Spare
<1>4. CASE pc' \in {"over", "wild"} /\ UNCHANGED <<b, op, u, tline>>
  BY <1>4, EndStep DEF UndoInv, Shape
<1> QED  BY <1>2, <1>3, <1>4

LEMMA UndoInvStep == ASSUME UndoInv, [Next]_vars PROVE UndoInv'
<1>1. CASE UNCHANGED vars
  BY <1>1 DEF vars, UndoInv, Shape, OpShape, Short, Chosen, InText, Spare, Holds, Snap, Text
<1>2. CASE Program
  BY <1>2, CheckpointStep, AppendLineStep, AppendEndStep, DeleteStep, JoinStep, MoveStep,
     SubLineStep, SubEndStep, GlobalStep, UndoStep, WriteStep DEF Program
<1>3. CASE Command
  BY <1>3, ChangeStep, CommandStep, EditStep DEF Command
<1>4. CASE Interrupt \/ Terminate \/ HangUp
  BY <1>4, SignalStep
<1> QED  BY <1>1, <1>2, <1>3, <1>4 DEF Next

\* As long as realloc() does not move the text away from the undo copy, u can bring back the
\* text, dot and the marks as they were before the last command that changed anything, all of
\* a g included, whatever signals came, and for any number of lines and commands (checkpoint(),
\* undo(), and every command and handler between them).
THEOREM UndoRestores == Moves = {0} => (Spec => []UndoKeeps)
<1> SUFFICES ASSUME Moves = {0} PROVE Spec => []UndoKeeps
  OBVIOUS
<1>1. UndoInv /\ [Next]_vars => UndoInv'
  BY UndoInvStep
<1>2. UndoInv => UndoKeeps
  BY DEF UndoInv, Holds, UndoKeeps
<1> QED  BY <1>1, <1>2, InitInv, PTL DEF Spec

-----------------------------------------------------------------------------
(* The file that w replaces *)

\* The file to be renamed is there only while w is at work.
TempInv == wrtemp # "none" => pc \in {"wput", "wdone", "wild"}

\* What WriteSafe says of one step.
SafeStep == /\ disk = "whole" /\ disk' = "part" => how' # "temp"
            /\ pc' \in {"cmd", "over"} => wrtemp' = "none"

\* A step away from w, or to another command, without the file.
LEMMA FileLeft ==
    ASSUME TempInv, pc \notin {"wput", "wdone", "wild"}, UNCHANGED <<disk, wrtemp>>
    PROVE  TempInv' /\ SafeStep
BY DEF TempInv, SafeStep

LEMMA ErrorSafe ==
    ASSUME TempInv, Error, disk' = Cut, UNCHANGED how
    PROVE  TempInv' /\ SafeStep
BY DEF TempInv, SafeStep, Error, Cut

LEMMA TempStep == ASSUME TempInv, [Next]_vars PROVE TempInv' /\ (SafeStep \/ UNCHANGED vars)
<1>1. CASE UNCHANGED vars
  BY <1>1 DEF vars, TempInv
<1>2. CASE \/ Checkpoint \/ AppendLine \/ AppendEnd \/ Delete \/ Join \/ SubLine
           \/ GlobalMark \/ GlobalPack \/ GlobalNext \/ Undo
  <2>1. pc \notin {"wput", "wdone", "wild"} /\ UNCHANGED file
    BY <1>2 DEF Checkpoint, AppendLine, AppendEnd, Delete, Join, SubLine, GlobalMark, GlobalPack,
       GlobalNext, Undo
  <2> QED  BY <2>1, FileLeft DEF file
<1>3. CASE Move \/ SubEnd
  <2>1. /\ pc \notin {"wput", "wdone", "wild"} /\ UNCHANGED <<disk, how>>
        /\ UNCHANGED wrtemp \/ (Error /\ disk' = Cut)
    BY <1>3 DEF Move, SubEnd, Cut
  <2> QED  BY <2>1, FileLeft, ErrorSafe
<1>4. CASE Change \/ Mark \/ UndoBegin \/ WriteBegin
  <2>1. pc \in {"cmd", "inner"} /\ UNCHANGED file
    <3>1. CASE Change
      BY <3>1, Zenon DEF Change, Begin, Same
    <3>2. CASE Mark
      BY <3>2, Zenon DEF Mark, Begin
    <3>3. CASE UndoBegin
      BY <3>3, Zenon DEF UndoBegin, Begin, Same
    <3>4. CASE WriteBegin
      BY <3>4, Zenon DEF WriteBegin, Begin
    <3> QED  BY <1>4, <3>1, <3>2, <3>3, <3>4
  <2> QED  BY <2>1, FileLeft DEF file
<1>5. CASE Quit
  <2>1. wrtemp' = "none" /\ UNCHANGED disk
    BY <1>5 DEF Quit
  <2> QED  BY <2>1 DEF TempInv, SafeStep
<1>6. CASE Edit
  <2>1. pc = "cmd" /\ disk' = "whole" /\ UNCHANGED wrtemp
    BY <1>6 DEF Edit
  <2> QED  BY <2>1 DEF TempInv, SafeStep
<1>7. CASE WriteOpen
  BY <1>7 DEF WriteOpen, TempInv, SafeStep
<1>8. CASE WriteLines
  BY <1>8 DEF WriteLines, PutFile, TempInv, SafeStep
<1>9. CASE WriteFails
  <2>1. Error /\ disk' = Cut /\ UNCHANGED how
    BY <1>9 DEF WriteFails
  <2> QED  BY <2>1, ErrorSafe
<1>10. CASE WriteEnd
  BY <1>10 DEF WriteEnd, TempInv, SafeStep
<1>11. CASE \E m \in Midway : Leave(m)
  <2>1. Error /\ disk' = Cut /\ UNCHANGED how
    BY <1>11 DEF Leave
  <2> QED  BY <2>1, ErrorSafe
<1>12. CASE Undefined
  BY <1>12 DEF Undefined, file, TempInv, SafeStep
<1>13. CASE wrtemp' = "none" /\ disk' = Cut /\ UNCHANGED how
  BY <1>13 DEF TempInv, SafeStep, Cut
<1>14. Interrupt \/ Terminate \/ HangUp =>
         \/ \E m \in Midway : Leave(m)
         \/ Undefined
         \/ wrtemp' = "none" /\ disk' = Cut /\ UNCHANGED how
  BY DEF Interrupt, Terminate, HangUp
<1> QED
  BY <1>1, <1>2, <1>3, <1>4, <1>5, <1>6, <1>7, <1>8, <1>9, <1>10, <1>11, <1>12, <1>13, <1>14
  DEF Next, Program, Command

\* A file that w is to replace by a renamed one stays whole until that has been written, and
\* the other file is gone whenever w has ended, by an error or a signal too (WriteOpen to
\* WriteEnd, error2(), quit(), onhup()), for any number of lines, commands and signals.
THEOREM OldFileKept == Spec => WriteSafe
<1>1. Init => TempInv
  BY DEF Init, TempInv
<1>2. TempInv /\ [Next]_vars => TempInv'
  BY TempStep
<1>3. TempInv /\ [Next]_vars
        => [/\ disk = "whole" /\ disk' = "part" => how' # "temp"
            /\ pc' \in {"cmd", "over"} => wrtemp' = "none"]_vars
  BY TempStep DEF SafeStep
<1> QED  BY <1>1, <1>2, <1>3, PTL DEF Spec, WriteSafe

-----------------------------------------------------------------------------
(* What q warns of *)

\* fchange is set for every change that is unsaved, unless why says how it came to be wrong;
\* and ed ends when it is not set.  What e reads is no change.
WarnInv ==
    /\ dirty /\ why = {} => fchange
    /\ pc = "append" /\ op.c = "e" => ~dirty
    /\ pc = "over" /\ hup.at = "none" /\ why = {} => ~fchange
    /\ pc # "none"

\* A line more or less is a change, and sets fchange.
LEMMA EditWarns ==
    ASSUME UndoInv, WarnInv, AppendLine \/ AppendEnd \/ Delete \/ Join \/ SubLine
    PROVE  WarnInv'
<1>1. CASE AppendLine
  BY <1>1 DEF AppendLine, Noted, Wild, WarnInv
<1>2. CASE AppendEnd
  <2>1. pc = "append" /\ pc' \in {"move", "glob", "cmd"} /\ UNCHANGED dirty
    BY <1>2 DEF AppendEnd, Done, Onward
  <2>2. dirty /\ why' = {} => fchange'
    <3>1. CASE op.c = "r"
      BY <1>2, <3>1 DEF AppendEnd
    <3>2. CASE op.c = "e"
      BY <2>1, <3>2 DEF WarnInv
    <3>3. CASE op.c \notin {"r", "e"}
      BY <1>2, <3>3 DEF AppendEnd, WarnInv
    <3> QED  BY <3>1, <3>2, <3>3
  <2> QED  BY <2>1, <2>2 DEF WarnInv
<1>3. CASE Delete
  <2>1. pc' \in {"append", "glob", "cmd"} /\ (pc' = "append" => op'.c # "e") /\ fchange'
    BY <1>3 DEF Delete, Noted, Done, Onward
  <2> QED  BY <2>1 DEF WarnInv
<1>4. CASE Join
  BY <1>4 DEF Join, Noted, Done, Onward, WarnInv
<1>5. CASE SubLine
  BY <1>5 DEF SubLine, Noted, Wild, WarnInv
<1> QED  BY <1>1, <1>2, <1>3, <1>4, <1>5

\* The text is the same after a move to where the lines are, and after a g/.../d of no line.
LEMMA MoveWarns == ASSUME UndoInv, WarnInv, Move PROVE WarnInv'
<1>1. pc' \in {"glob", "cmd"}
  BY DEF Move, Done, Onward, Error
<1>2. CASE ~Legal
  BY <1>1, <1>2 DEF Move, WarnInv
<1>3. CASE Legal /\ op.t + 1 # op.a1
  <2>1. fchange'
    BY <1>3 DEF Move, Noted
  <2> QED  BY <1>1, <2>1 DEF WarnInv
<1>4. CASE Legal /\ op.t + 1 = op.a1
  <2> DEFINE y == Moved(Unmarked, op.a1, op.a2, op.t)
  <2>1. Shape(b) /\ Unmarked.line = b.line /\ Unmarked.dol = b.dol
    BY DEF UndoInv, Unmarked, Shape
  <2>2. PICK d : y = [Unmarked EXCEPT !.dot = d, !.line = Unmarked.line]
    BY <1>4, Zenon DEF Moved
  <2>3. y.line = b.line /\ y.dol = b.dol
    <3> HIDE DEF y
    <3> QED  BY <2>1, <2>2 DEF Unmarked, Shape
  <2>4. Text(y) = Text(b)
    BY <2>3 DEF Text
  <2>5. dirty' = (dirty \/ Text(y) # Text(b)) /\ UNCHANGED <<fchange, why>>
    BY <1>4, Zenon DEF Move, Becomes
  <2>6. (dirty' => dirty) /\ UNCHANGED <<fchange, why>>
    <3> HIDE DEF y
    <3> QED  BY <2>4, <2>5, Zenon
  <2> QED  BY <1>1, <2>6, Zenon DEF WarnInv
<1> QED  BY <1>2, <1>3, <1>4

LEMMA PackWarns == ASSUME UndoInv, WarnInv, GlobalPack PROVE WarnInv'
<1>1. pc' = "cmd"
  BY DEF GlobalPack
<1>2. CASE b.bits # {}
  BY <1>1, <1>2 DEF GlobalPack, Noted, WarnInv
<1>3. CASE b.bits = {}
  <2> DEFINE S == {i \in 1..b.dol : b.line[i] \notin b.bits}
             y == [Packed(b) EXCEPT !.bits = {}]
  <2>1. b.dol \in Nat /\ Shape(b)
    BY LinesAssumption DEF UndoInv, Short
  <2>2. S = 1..b.dol
    BY <1>3
  <2>3. Cardinality(1..b.dol) = IF 1 > b.dol THEN 0 ELSE b.dol - 1 + 1
    BY <2>1, FS_Interval
  <2>4. Cardinality(S) = b.dol
    <3>1. Cardinality(1..b.dol) = b.dol
      BY <2>1, <2>3
    <3> HIDE DEF S
    <3> QED  BY <2>2, <3>1
  <2>5. Packed(b) = b
    BY <2>4 DEF Packed
  <2>6. y.line = b.line /\ y.dol = b.dol
    BY <2>1, <2>5 DEF Shape
  <2>7. Text(y) = Text(b)
    BY <2>6 DEF Text
  <2>8. dirty' = (dirty \/ Text(y) # Text(b)) /\ UNCHANGED <<fchange, why>>
    BY <1>3, Zenon DEF GlobalPack, Becomes
  <2>9. (dirty' => dirty) /\ UNCHANGED <<fchange, why>>
    <3> HIDE DEF y
    <3> QED  BY <2>7, <2>8, Zenon
  <2> QED  BY <1>1, <2>9, Zenon DEF WarnInv
<1> QED  BY <1>2, <1>3

\* A w of all lines leaves no line unsaved, and any other leaves fchange as it was.
LEMMA WriteWarns ==
    ASSUME UndoInv, WarnInv, WriteOpen \/ WriteLines \/ WriteFails \/ WriteEnd
    PROVE  WarnInv'
<1>1. CASE WriteOpen \/ WriteLines \/ WriteFails
  <2>1. pc' \in {"wput", "wdone", "cmd"} /\ UNCHANGED <<fchange, dirty, why>>
    BY <1>1 DEF WriteOpen, WriteLines, WriteFails, Error
  <2> QED  BY <2>1 DEF WarnInv
<1>2. CASE WriteEnd
  <2>1. /\ pc' \in {"glob", "cmd"}
        /\ dirty' = (dirty /\ 1..b.dol \ op.a1..op.a2 # {})
        /\ fchange' = (fchange /\ ~Whole)
        /\ why' = IF dirty' THEN why ELSE {}
    BY <1>2 DEF WriteEnd, Done, Onward
  <2>2. Whole => 1..b.dol \ op.a1..op.a2 = {}
    BY DEF Whole, UndoInv, Shape, OpShape
  <2>3. dirty' => dirty /\ ~Whole /\ why' = why
    BY <2>1, <2>2
  <2>4. dirty' /\ why' = {} => fchange'
    <3>1. fchange /\ ~Whole => fchange'
      BY <2>1
    <3> QED  BY <2>3, <3>1, Zenon DEF WarnInv
  <2> QED  BY <2>1, <2>4, Zenon DEF WarnInv
<1> QED  BY <1>1, <1>2

LEMMA SignalWarns ==
    ASSUME WarnInv, Interrupt \/ Terminate \/ HangUp PROVE WarnInv'
<1>1. CASE Undefined
  BY <1>1 DEF Undefined, WarnInv
<1>2. CASE "signal" \in why' /\ pc' \in {"cmd", "over"}
  BY <1>2 DEF WarnInv
<1>3. CASE Warn /\ pc' = "cmd"
  BY <1>3 DEF Warn, WarnInv
<1>4. CASE /\ pc' = "over" /\ hup'.at # "none" /\ UNCHANGED <<fchange, dirty, why>>
  BY <1>4 DEF WarnInv
<1>6. Interrupt => Undefined \/ ("signal" \in why' /\ pc' = "cmd")
  BY DEF Interrupt, Leave, Error
<1>7. Terminate => \/ Undefined \/ (Warn /\ pc' = "cmd")
                   \/ ("signal" \in why' /\ pc' = "over")
  BY DEF Terminate, Leave, Error
<1>5. HangUp => \/ Undefined
                \/ pc' = "over" /\ hup'.at = pc /\ UNCHANGED <<fchange, dirty, why>>
  BY DEF HangUp
<1> QED  BY <1>1, <1>2, <1>3, <1>4, <1>5, <1>6, <1>7 DEF WarnInv

LEMMA WarnStep == ASSUME UndoInv, WarnInv, [Next]_vars PROVE WarnInv'
<1>1. CASE UNCHANGED vars
  BY <1>1 DEF vars, WarnInv
<1>2. CASE Checkpoint
  <2>1. /\ pc' \notin {"over", "none"} /\ (pc' = "append" => op'.c # "e")
        /\ UNCHANGED <<fchange, dirty, why>>
    BY <1>2 DEF Checkpoint, Stage, UndoInv, Chosen
  <2> QED  BY <2>1 DEF WarnInv
<1>3. CASE SubEnd \/ GlobalMark \/ GlobalNext
  <2>1. pc' \in {"cmd", "glob", "pack", "inner"} /\ UNCHANGED <<fchange, dirty, why>>
    BY <1>3 DEF SubEnd, GlobalMark, GlobalNext, Error, Done, Onward
  <2> QED  BY <2>1 DEF WarnInv
<1>4. CASE Undo
  BY <1>4 DEF Undo, Wild, Done, Onward, WarnInv
<1>5. CASE Change \/ Mark \/ UndoBegin \/ WriteBegin
  <2>1. /\ pc' \in {"ck", "undo", "wopen", "cmd", "glob"}
        /\ UNCHANGED <<fchange, dirty, why>>
    <3>1. CASE Change
      BY <3>1, Zenon DEF Change, Begin, Same
    <3>2. CASE Mark
      BY <3>2, Zenon DEF Mark, Begin, Onward
    <3>3. CASE UndoBegin
      BY <3>3, Zenon DEF UndoBegin, Begin, Same
    <3>4. CASE WriteBegin
      BY <3>4, Zenon DEF WriteBegin, Begin
    <3> QED  BY <1>5, <3>1, <3>2, <3>3, <3>4
  <2> QED  BY <2>1 DEF WarnInv
<1>6. CASE Quit
  <2>1. \/ pc' = "over" /\ ~fchange /\ UNCHANGED <<fchange, dirty, why>>
        \/ pc' = "cmd" /\ Warn
    BY <1>6, Zenon DEF Quit, Begin
  <2> QED  BY <2>1 DEF Warn, WarnInv
<1>7. CASE Edit
  BY <1>7 DEF Edit, WarnInv
<1> QED
  BY <1>1, <1>2, <1>3, <1>4, <1>5, <1>6, <1>7, EditWarns, MoveWarns, PackWarns, WriteWarns,
     SignalWarns DEF Next, Program, Command

\* q and SIGTERM end ed only over a text that was written since its last change, or of which
\* the user was warned, as ed.1 says, but for the changes that `why' tells of: by u while
\* fchange is clear, by r into an empty text, and by what a signal interrupted, and only until
\* fchange is set again (by append(), rdelete(), join(), move(), substitute() or gdelete());
\* for any number of lines, commands and signals, wherever realloc() puts the text.
THEOREM QuitTells == Spec => []QuitWarned
<1>1. Init => UndoInv /\ WarnInv
  BY InitInv DEF Init, WarnInv
<1>2. UndoInv /\ WarnInv /\ [Next]_vars => (UndoInv /\ WarnInv)'
  BY UndoInvStep, WarnStep
<1>3. WarnInv => QuitWarned
  BY DEF WarnInv, QuitWarned
<1> QED  BY <1>1, <1>2, <1>3, PTL DEF Spec

-----------------------------------------------------------------------------
(* Where move(), append() for t, and substitute() are *)

LeftInv == left \in [cmd : Nat, signal : Nat]

\* The lines that m moves are lines of the text, and so is the one they go behind.
MoveInv ==
    \/ pc = "ck" /\ op.c = "m"
    \/ pc = "move"
    => /\ 1 <= op.a1 /\ op.a1 <= op.a2 /\ op.a2 <= b.dol
       /\ 0 <= op.t /\ op.t <= b.dol

\* t adds lines behind the last one, op.i, before it moves them; there are numbers left for
\* those to come.
CopyInv ==
    pc \in {"ck", "append"} /\ op.c = "t"
    => /\ op.a1 <= op.a2 /\ 0 <= op.t /\ op.t <= op.i /\ op.i <= b.dol
       /\ tline + (op.a2 - op.a1) - (b.dol - op.i) <= MaxLine

SubInv == (pc = "ck" /\ op.c = "s") \/ pc = "sub" => op.i >= 1

PlaceInv == LeftInv /\ MoveInv /\ CopyInv /\ SubInv

\* A step to another place.
LEMMA Elsewhere ==
    ASSUME LeftInv', \/ pc' \notin {"ck", "append", "move", "sub"}
                     \/ pc' = "append" /\ op'.c # "t"
    PROVE  PlaceInv'
BY DEF PlaceInv, MoveInv, CopyInv, SubInv

LEMMA SameLeft ==
    ASSUME LeftInv, UNCHANGED left PROVE LeftInv'
BY DEF LeftInv

LEMMA BeginLeft ==
    ASSUME LeftInv, NEW o, NEW next, Begin(o, next) PROVE LeftInv'
<1>1. Cost(o.c) \in {0, 1, 2}
  <2>1. CASE globp \/ o.c \in {"u", "q"}
    BY <2>1 DEF Cost
  <2>2. CASE ~(globp \/ o.c \in {"u", "q"}) /\ o.c = "g"
    BY <2>2 DEF Cost
  <2>3. CASE ~(globp \/ o.c \in {"u", "q"}) /\ o.c # "g"
    BY <2>3 DEF Cost
  <2> QED  BY <2>1, <2>2, <2>3
<1>2. left' = [left EXCEPT !.cmd = left.cmd - Cost(o.c)] /\ Cost(o.c) <= left.cmd
  BY DEF Begin
<1>3. PICK n : n = left.cmd - Cost(o.c)
  OBVIOUS
<1>4. n \in Nat
  BY <1>1, <1>2, <1>3 DEF LeftInv
<1> QED  BY <1>2, <1>3, <1>4 DEF LeftInv

LEMMA CommandLeft ==
    ASSUME LeftInv, Command PROVE LeftInv'
<1>1. CASE Change
  <2>1. \E o : Begin(o, "ck")
    BY <1>1, Zenon DEF Change
  <2> QED  BY <2>1, BeginLeft
<1>2. CASE Mark
  BY <1>2, BeginLeft DEF Mark
<1>3. CASE UndoBegin
  BY <1>3, BeginLeft DEF UndoBegin
<1>4. CASE WriteBegin
  BY <1>4, BeginLeft DEF WriteBegin
<1>5. CASE Quit
  BY <1>5, BeginLeft DEF Quit
<1>6. CASE Edit
  <2>1. left' = [left EXCEPT !.cmd = left.cmd - 1] /\ left.cmd > 0
    BY <1>6 DEF Edit
  <2>2. PICK n : n = left.cmd - 1
    OBVIOUS
  <2> QED  BY <2>1, <2>2 DEF LeftInv
<1> QED  BY <1>1, <1>2, <1>3, <1>4, <1>5, <1>6 DEF Command

\* A signal is counted, and ends what runs.
LEMMA SignalLeft ==
    ASSUME LeftInv, Interrupt \/ Terminate \/ HangUp
    PROVE  LeftInv' /\ left' # left /\ pc' \in {"cmd", "over", "wild"}
<1>1. /\ left.signal > 0 /\ left' = [left EXCEPT !.signal = left.signal - 1]
      /\ pc' \in {"cmd", "over", "wild"}
  <2>1. CASE Interrupt
    BY <2>1, Zenon DEF Interrupt, Undefined, Leave, Error
  <2>2. CASE Terminate
    BY <2>2, Zenon DEF Terminate, Undefined, Leave, Error
  <2>3. CASE HangUp
    BY <2>3, Zenon DEF HangUp, Undefined
  <2> QED  BY <2>1, <2>2, <2>3
<1>2. PICK n : n = left.signal - 1
  OBVIOUS
<1>3. n \in Nat /\ n # left.signal
  BY <1>1, <1>2 DEF LeftInv
<1>4. left'.signal = n
  BY <1>1, <1>2 DEF LeftInv
<1> QED  BY <1>1, <1>2, <1>3, <1>4 DEF LeftInv

LEMMA ChangePlace == ASSUME UndoInv, PlaceInv, Change PROVE PlaceInv'
<1>1. LeftInv'
  BY CommandLeft DEF Command, PlaceInv
<1>2. pc' = "ck" /\ UNCHANGED <<b, tline>> /\ b.dol \in Nat
  BY LinesAssumption DEF Change, Begin, Same, UndoInv, Short
<1>3. \A r \in Nonzero : /\ r[1] \in Int /\ r[2] \in Int
                         /\ 1 <= r[1] /\ r[1] <= r[2] /\ r[2] <= b.dol
  BY RangesText DEF Nonzero
<1>4. \A c, a1, a2, t : LET o == Op(c, a1, a2, t)
                        IN o.c = c /\ o.a1 = a1 /\ o.a2 = a2 /\ o.t = t /\ o.i = 0
  BY DEF Op
<1>5. CASE op'.c \notin {"m", "t", "s"}
  BY <1>1, <1>2, <1>5 DEF PlaceInv, MoveInv, CopyInv, SubInv
<1>6. CASE \E r \in Nonzero : op' = [Op("s", r[1], r[2], 0) EXCEPT !.i = r[1]]
  <2>1. PICK r \in Nonzero : op' = [Op("s", r[1], r[2], 0) EXCEPT !.i = r[1]]
    BY <1>6
  <2>2. op'.c = "s" /\ op'.i >= 1
    BY <1>3, <2>1 DEF Op
  <2> QED  BY <1>1, <1>2, <2>2 DEF PlaceInv, MoveInv, CopyInv, SubInv
<1>7. CASE \E r \in Nonzero, t \in 0..b.dol : op' = Op("m", r[1], r[2], t)
  <2>1. PICK r \in Nonzero, t \in 0..b.dol : op' = Op("m", r[1], r[2], t)
    BY <1>7
  <2>2. op'.c = "m" /\ op'.a1 = r[1] /\ op'.a2 = r[2] /\ op'.t = t
    BY <1>4, <2>1
  <2> QED  BY <1>1, <1>2, <1>3, <2>1, <2>2 DEF PlaceInv, MoveInv, CopyInv, SubInv
<1>8. CASE \E r \in Nonzero, t \in 0..b.dol :
              /\ tline + r[2] - r[1] <= MaxLine
              /\ op' = [Op("t", r[1], r[2], t) EXCEPT !.i = b.dol]
  <2>1. PICK r \in Nonzero, t \in 0..b.dol :
              /\ tline + r[2] - r[1] <= MaxLine
              /\ op' = [Op("t", r[1], r[2], t) EXCEPT !.i = b.dol]
    BY <1>8
  <2>2. op'.c = "t" /\ op'.a1 = r[1] /\ op'.a2 = r[2] /\ op'.t = t /\ op'.i = b.dol
    BY <2>1 DEF Op
  <2>3. tline \in Int
    BY LinesAssumption DEF UndoInv
  <2> QED
    BY <1>1, <1>2, <1>3, <2>1, <2>2, <2>3, LinesAssumption
    DEF PlaceInv, MoveInv, CopyInv, SubInv
<1>9. \/ \E r \in Ranges : op' = Op("a", r[1], r[2], 0)
      \/ \E r \in Nonzero, c \in {"c", "d", "i"} : op' = Op(c, r[1], r[2], 0)
      \/ \E r \in Nonzero : op' = Op("j", r[1], r[2], 0)
      \/ \E r \in Nonzero : op' = [Op("s", r[1], r[2], 0) EXCEPT !.i = r[1]]
      \/ \E r \in Nonzero, t \in 0..b.dol : op' = Op("m", r[1], r[2], t)
      \/ \E r \in Nonzero, t \in 0..b.dol :
            /\ tline + r[2] - r[1] <= MaxLine
            /\ op' = [Op("t", r[1], r[2], t) EXCEPT !.i = b.dol]
      \/ \E r \in Ranges : op' = [Op("r", r[1], r[2], 0) EXCEPT !.flag = b.dol # 0]
      \/ \E r \in Nonzero : op' = Op("g", r[1], r[2], 0)
  BY DEF Change, Begin
<1>10. ASSUME \E r \in Ranges : op' = [Op("r", r[1], r[2], 0) EXCEPT !.flag = b.dol # 0]
       PROVE  op'.c = "r"
  BY <1>10 DEF Op
<1> QED  BY <1>4, <1>5, <1>6, <1>7, <1>8, <1>9, <1>10

LEMMA AppendPlace == ASSUME UndoInv, PlaceInv, AppendLine \/ AppendEnd PROVE PlaceInv'
<1>1. LeftInv' /\ pc = "append"
  BY DEF AppendLine, AppendEnd, PlaceInv, LeftInv
<1>2. /\ tline \in Int /\ b.dol \in Int
      /\ op.a1 \in Int /\ op.a2 \in Int /\ op.t \in Int /\ op.i \in Int
  BY LinesAssumption DEF UndoInv, Shape, OpShape
<1>3. CASE AppendLine /\ pc' = "wild"
  BY <1>1, <1>3, Elsewhere
<1>4. CASE AppendLine /\ pc' # "wild"
  <2>1. b' = Put(b, tline) /\ tline' = tline + 1 /\ op' = op /\ pc' = "append"
    BY <1>4 DEF AppendLine, Wild
  <2>2. b'.dol = b.dol + 1
    BY <2>1, PutShape DEF UndoInv
  <2> QED
    BY <1>1, <1>2, <2>1, <2>2, LinesAssumption DEF PlaceInv, MoveInv, CopyInv, SubInv
<1>5. CASE AppendEnd /\ op.c # "t"
  <2>1. pc' \in {"glob", "cmd"}
    BY <1>5 DEF AppendEnd, Done, Onward
  <2> QED  BY <1>1, <2>1, Elsewhere
<1>6. CASE AppendEnd /\ op.c = "t"
  <2>1. /\ pc' = "move" /\ ~More
        /\ op' = [op EXCEPT !.a1 = op.i + 1, !.a2 = b.dol]
        /\ b' = b
    BY <1>6 DEF AppendEnd
  <2>2. op'.a1 = op.i + 1 /\ op'.a2 = b.dol /\ op'.t = op.t
    BY <2>1 DEF UndoInv, OpShape
  <2>3. /\ op.a1 <= op.a2 /\ 0 <= op.t /\ op.t <= op.i /\ op.i <= b.dol
        /\ tline + (op.a2 - op.a1) - (b.dol - op.i) <= MaxLine
    BY <1>1, <1>6 DEF PlaceInv, CopyInv
  <2>4. op.i < b.dol
    <3>1. \/ ~(tline <= MaxLine)
          \/ ~(b.dol - op.i <= op.a2 - op.a1)
      BY <1>6, <2>1 DEF More
    <3> QED  BY <1>2, <2>3, <3>1, LinesAssumption
  <2> QED  BY <1>1, <1>2, <2>1, <2>2, <2>3, <2>4 DEF PlaceInv, MoveInv, CopyInv, SubInv
<1> QED  BY <1>3, <1>4, <1>5, <1>6

LEMMA PlaceStep == ASSUME UndoInv, PlaceInv, [Next]_vars PROVE PlaceInv'
<1>1. CASE UNCHANGED vars
  BY <1>1 DEF vars, PlaceInv, LeftInv, MoveInv, CopyInv, SubInv
<1>2. CASE Checkpoint
  <2>1. pc = "ck" /\ pc' = Stage /\ UNCHANGED <<op, tline, left>> /\ b' = [b EXCEPT !.dot = From]
    BY <1>2 DEF Checkpoint
  <2>2. b'.dol = b.dol
    BY <2>1 DEF UndoInv, Shape
  <2>3. /\ pc' # "ck"
        /\ pc' = "move" => op.c = "m"
        /\ pc' = "sub" => op.c = "s"
    BY <2>1 DEF Stage, UndoInv, Chosen
  <2>4. LeftInv'
    BY <2>1, SameLeft DEF PlaceInv
  <2> QED  BY <2>1, <2>2, <2>3, <2>4 DEF PlaceInv, MoveInv, CopyInv, SubInv
<1>3. CASE AppendLine \/ AppendEnd
  BY <1>3, AppendPlace
<1>4. CASE Delete
  <2>1. (pc' \in {"glob", "cmd"} \/ (pc' = "append" /\ op'.c # "t")) /\ UNCHANGED left
    BY <1>4 DEF Delete, Done, Onward
  <2> QED  BY <2>1, SameLeft, Elsewhere DEF PlaceInv
<1>5. CASE Join \/ Move \/ SubEnd \/ GlobalMark \/ GlobalPack \/ GlobalNext \/ Undo
  <2>1. UNCHANGED left /\ pc' \in {"glob", "cmd", "pack", "inner", "wild"}
    BY <1>5 DEF Join, Move, SubEnd, GlobalMark, GlobalPack, GlobalNext, Undo, Done, Onward, Error,
       Wild
  <2> QED  BY <2>1, SameLeft, Elsewhere DEF PlaceInv
<1>6. CASE SubLine
  <2>1. /\ UNCHANGED left /\ pc = "sub"
        /\ \/ pc' = "wild"
           \/ pc' = "sub" /\ op'.i \in {op.i + 1, op.i + 2}
    <3>1. /\ UNCHANGED left /\ pc = "sub"
          /\ \/ pc' = "wild"
             \/ /\ pc' = pc
                /\ \/ op' = [op EXCEPT !.i = op.i + 1]
                   \/ op' = [op EXCEPT !.i = op.i + 1, !.flag = TRUE]
                   \/ \E w : op' = [op EXCEPT !.i = op.i + 2, !.a2 = w, !.flag = TRUE]
      BY <1>6, Zenon DEF SubLine, Wild
    <3> QED  BY <3>1 DEF UndoInv, OpShape
  <2>2. LeftInv'
    BY <2>1, SameLeft DEF PlaceInv
  <2> QED  BY <2>1, <2>2 DEF PlaceInv, MoveInv, CopyInv, SubInv, UndoInv, OpShape
<1>7. CASE WriteOpen \/ WriteLines \/ WriteFails \/ WriteEnd
  <2>1. UNCHANGED left /\ pc' \in {"glob", "cmd", "wput", "wdone"}
    BY <1>7 DEF WriteOpen, WriteLines, WriteFails, WriteEnd, Done, Onward, Error
  <2> QED  BY <2>1, SameLeft, Elsewhere DEF PlaceInv
<1>8. CASE Change
  BY <1>8, ChangePlace
<1>9. CASE Mark \/ UndoBegin \/ WriteBegin \/ Quit \/ Edit
  <2>1. pc' \in {"glob", "cmd", "undo", "wopen", "over"} \/ (pc' = "append" /\ op'.c # "t")
    <3>1. CASE Mark
      BY <3>1, Zenon DEF Mark, Begin, Onward
    <3>2. CASE UndoBegin \/ WriteBegin \/ Quit
      BY <3>2 DEF UndoBegin, WriteBegin, Quit, Begin
    <3>3. CASE Edit
      BY <3>3 DEF Edit, Op
    <3> QED  BY <1>9, <3>1, <3>2, <3>3
  <2>2. LeftInv'
    BY <1>9, CommandLeft DEF Command, PlaceInv
  <2> QED  BY <2>1, <2>2, Elsewhere
<1>10. CASE Interrupt \/ Terminate \/ HangUp
  BY <1>10, SignalLeft, Elsewhere DEF PlaceInv
<1> QED
  BY <1>1, <1>2, <1>3, <1>4, <1>5, <1>6, <1>7, <1>8, <1>9, <1>10 DEF Next, Program, Command

LEMMA PlaceInit == Init => PlaceInv
BY EdAssumption DEF Init, PlaceInv, LeftInv, MoveInv, CopyInv, SubInv

LEMMA PlaceAlways == Spec => [](UndoInv /\ PlaceInv)
<1>1. UndoInv /\ PlaceInv /\ [Next]_vars => (UndoInv /\ PlaceInv)'
  BY UndoInvStep, PlaceStep
<1> QED  BY <1>1, InitInv, PlaceInit, PTL DEF Spec

-----------------------------------------------------------------------------
(* What becomes of the lines *)

\* Which line comes to place i when the lines a1 to a2 go behind line t.
Source(a1, a2, t, i) ==
    IF t < a1
    THEN IF i <= t \/ i > a2 THEN i
         ELSE IF i <= t + 1 + a2 - a1 THEN i + a1 - t - 1 ELSE i - (a2 + 1 - a1)
    ELSE IF i < a1 \/ i > t THEN i
         ELSE IF i < a1 + t - a2 THEN i + a2 + 1 - a1 ELSE i - (t - a2)

\* Three reversals are one rotation.
LEMMA TurnedLines ==
    ASSUME NEW f, NEW n \in 0..MaxLine, NEW a1 \in 1..n, NEW a2 \in a1..n, NEW t \in 0..n,
           t \notin a1..a2, t + 1 # a1, NEW i \in 1..n
    PROVE  Turned(f, Turns(a1, a2, t), 3)[i] = f[Source(a1, a2, t, i)]
<1> DEFINE r == Turns(a1, a2, t)
           one == Turn(f, r[1])
           two == Turn(one, r[2])
           three == Turn(two, r[3])
<1>1. Turned(f, r, 3) = three
  BY DEF Turned
<1>2. MaxLine \in Nat
  BY LinesAssumption
<1>3. \A g, lo, hi : \A k \in Slot :
         Reversed(g, lo, hi)[k] = IF k >= lo /\ k < hi THEN g[lo + hi - 1 - k] ELSE g[k]
  BY DEF Reversed
<1>4. CASE t < a1
  <2>1. r[1] = <<t + 1, a1>> /\ r[2] = <<a1, a2 + 1>> /\ r[3] = <<t + 1, a2 + 1>>
    BY <1>4 DEF Turns
  <2>2. /\ one = Reversed(f, t + 1, a1) /\ two = Reversed(one, a1, a2 + 1)
        /\ three = Reversed(two, t + 1, a2 + 1)
    BY <2>1 DEF Turn
  <2> HIDE DEF r, one, two, three
  <2>3. CASE i <= t \/ i > a2
    <3>1. three[i] = two[i] /\ two[i] = one[i] /\ one[i] = f[i]
      BY <1>2, <1>3, <1>4, <2>2, <2>3 DEF Slot
    <3> QED  BY <1>1, <1>4, <2>3, <3>1 DEF Source, r
  <2>4. CASE i > t /\ i <= t + 1 + a2 - a1
    <3> DEFINE j == t + 1 + a2 - i
               k == a1 + a2 - j
    <3>1. j \in Slot /\ j >= a1 /\ j <= a2 /\ i <= a2 /\ k \in Slot /\ k >= a1
          /\ k = i + a1 - t - 1
      BY <1>2, <1>4, <2>4 DEF Slot
    <3>2. three[i] = two[t + 1 + (a2 + 1) - 1 - i]
      BY <1>2, <1>3, <1>4, <2>2, <2>4, <3>1 DEF Slot
    <3>3. t + 1 + (a2 + 1) - 1 - i = j
      BY <1>2
    <3>4. two[j] = one[a1 + (a2 + 1) - 1 - j]
      BY <1>2, <1>3, <2>2, <3>1 DEF Slot
    <3>5. a1 + (a2 + 1) - 1 - j = k
      BY <1>2, <3>1 DEF Slot
    <3>6. one[k] = f[k]
      BY <1>2, <1>3, <2>2, <3>1 DEF Slot
    <3>7. Source(a1, a2, t, i) = k
      BY <1>2, <1>4, <2>4, <3>1 DEF Source
    <3> QED  BY <1>1, <3>2, <3>3, <3>4, <3>5, <3>6, <3>7 DEF r
  <2>5. CASE i > t + 1 + a2 - a1 /\ i <= a2
    <3> DEFINE j == t + 1 + a2 - i
               k == t + a1 - j
    <3>1. j \in Slot /\ j < a1 /\ j >= t + 1 /\ i > t /\ k \in Slot /\ k = i - (a2 + 1 - a1)
      BY <1>2, <1>4, <2>5 DEF Slot
    <3>2. three[i] = two[t + 1 + (a2 + 1) - 1 - i]
      BY <1>2, <1>3, <1>4, <2>2, <2>5, <3>1 DEF Slot
    <3>3. t + 1 + (a2 + 1) - 1 - i = j
      BY <1>2
    <3>4. two[j] = one[j]
      BY <1>2, <1>3, <2>2, <3>1 DEF Slot
    <3>5. one[j] = f[t + 1 + a1 - 1 - j]
      BY <1>2, <1>3, <2>2, <3>1 DEF Slot
    <3>6. t + 1 + a1 - 1 - j = k
      BY <1>2, <3>1 DEF Slot
    <3>7. Source(a1, a2, t, i) = k
      BY <1>2, <1>4, <2>5, <3>1 DEF Source
    <3> QED  BY <1>1, <3>2, <3>3, <3>4, <3>5, <3>6, <3>7 DEF r
  <2> QED  BY <1>2, <2>3, <2>4, <2>5
<1>5. CASE t > a2
  <2>0. ~(t < a1)
    BY <1>2, <1>5
  <2>1. r[1] = <<a1, a2 + 1>> /\ r[2] = <<a2 + 1, t + 1>> /\ r[3] = <<a1, t + 1>>
    BY <2>0 DEF Turns
  <2>2. /\ one = Reversed(f, a1, a2 + 1) /\ two = Reversed(one, a2 + 1, t + 1)
        /\ three = Reversed(two, a1, t + 1)
    BY <2>1 DEF Turn
  <2> HIDE DEF r, one, two, three
  <2>3. CASE i < a1 \/ i > t
    <3>1. three[i] = two[i] /\ two[i] = one[i] /\ one[i] = f[i]
      BY <1>2, <1>3, <1>5, <2>2, <2>3 DEF Slot
    <3> QED  BY <1>1, <2>0, <2>3, <3>1 DEF Source, r
  <2>4. CASE i >= a1 /\ i < a1 + t - a2
    <3> DEFINE j == a1 + t - i
               k == a2 + 1 + t - j
    <3>1. j \in Slot /\ j > a2 /\ j <= t /\ i <= t /\ k \in Slot /\ k > a2
          /\ k = i + a2 + 1 - a1
      BY <1>2, <1>5, <2>4 DEF Slot
    <3>2. three[i] = two[a1 + (t + 1) - 1 - i]
      BY <1>2, <1>3, <2>2, <2>4, <3>1 DEF Slot
    <3>3. a1 + (t + 1) - 1 - i = j
      BY <1>2
    <3>4. two[j] = one[a2 + 1 + (t + 1) - 1 - j]
      BY <1>2, <1>3, <2>2, <3>1 DEF Slot
    <3>5. a2 + 1 + (t + 1) - 1 - j = k
      BY <1>2, <3>1 DEF Slot
    <3>6. one[k] = f[k]
      BY <1>2, <1>3, <2>2, <3>1 DEF Slot
    <3>7. Source(a1, a2, t, i) = k
      BY <1>2, <2>0, <2>4, <3>1 DEF Source
    <3> QED  BY <1>1, <3>2, <3>3, <3>4, <3>5, <3>6, <3>7 DEF r
  <2>5. CASE i >= a1 + t - a2 /\ i <= t
    <3> DEFINE j == a1 + t - i
               k == a1 + a2 - j
    <3>1. j \in Slot /\ j >= a1 /\ j <= a2 /\ i >= a1 /\ k \in Slot /\ k = i - (t - a2)
      BY <1>2, <1>5, <2>5 DEF Slot
    <3>2. three[i] = two[a1 + (t + 1) - 1 - i]
      BY <1>2, <1>3, <2>2, <2>5, <3>1 DEF Slot
    <3>3. a1 + (t + 1) - 1 - i = j
      BY <1>2
    <3>4. two[j] = one[j]
      BY <1>2, <1>3, <2>2, <3>1 DEF Slot
    <3>5. one[j] = f[a1 + (a2 + 1) - 1 - j]
      BY <1>2, <1>3, <2>2, <3>1 DEF Slot
    <3>6. a1 + (a2 + 1) - 1 - j = k
      BY <1>2, <3>1 DEF Slot
    <3>7. Source(a1, a2, t, i) = k
      BY <1>2, <2>0, <2>5, <3>1 DEF Source
    <3> QED  BY <1>1, <3>2, <3>3, <3>4, <3>5, <3>6, <3>7 DEF r
  <2> QED  BY <1>2, <2>3, <2>4, <2>5
<1> QED  BY <1>2, <1>4, <1>5

\* The text after m, line by line; no line is lost.
LEMMA MovedLines ==
    ASSUME NEW x, Shape(x), x.dol \in 0..MaxLine, NEW a1 \in 1..x.dol, NEW a2 \in a1..x.dol,
           NEW t \in 0..x.dol, t \notin a1..a2
    PROVE  LET y == Moved(x, a1, a2, t)
           IN /\ y.dol = x.dol /\ y.name = x.name
              /\ \A i \in 1..x.dol : y.line[i] = x.line[Source(a1, a2, t, i)]
              /\ LinesOf(x) \subseteq LinesOf(y)
<1> DEFINE y == Moved(x, a1, a2, t)
           l == IF t + 1 = a1 THEN x.line ELSE Turned(x.line, Turns(a1, a2, t), 3)
<1>0. MaxLine \in Nat /\ x.dol \in Int
  BY LinesAssumption DEF Shape
<1>1. y = [x EXCEPT !.dot = MovedDot(a1, a2, t), !.line = l]
  BY DEF Moved
<1>2. y.dol = x.dol /\ y.name = x.name /\ y.line = l
  <2> HIDE DEF l
  <2> QED  BY <1>1 DEF Shape
<1>3. \A i \in 1..x.dol : l[i] = x.line[Source(a1, a2, t, i)]
  <2>1. CASE t + 1 = a1
    BY <1>0, <2>1 DEF Source
  <2>2. CASE t + 1 # a1
    BY <1>0, <2>2, TurnedLines
  <2> QED  BY <2>1, <2>2
<1>4. ASSUME NEW k \in 1..x.dol
      PROVE  \E i \in 1..x.dol : k = Source(a1, a2, t, i)
  <2>1. CASE t < a1
    <3>1. CASE k <= t \/ k > a2
      BY <1>0, <2>1, <3>1 DEF Source
    <3>2. CASE k >= a1 /\ k <= a2
      <4>1. k - a1 + t + 1 \in 1..x.dol /\ Source(a1, a2, t, k - a1 + t + 1) = k
        BY <1>0, <2>1, <3>2 DEF Source
      <4> QED  BY <4>1
    <3>3. CASE k > t /\ k < a1
      <4>1. k + (a2 + 1 - a1) \in 1..x.dol /\ Source(a1, a2, t, k + (a2 + 1 - a1)) = k
        BY <1>0, <2>1, <3>3 DEF Source
      <4> QED  BY <4>1
    <3> QED  BY <1>0, <3>1, <3>2, <3>3
  <2>2. CASE t > a2
    <3>1. CASE k < a1 \/ k > t
      BY <1>0, <2>2, <3>1 DEF Source
    <3>2. CASE k >= a1 /\ k <= a2
      <4>1. k + (t - a2) \in 1..x.dol /\ Source(a1, a2, t, k + (t - a2)) = k
        BY <1>0, <2>2, <3>2 DEF Source
      <4> QED  BY <4>1
    <3>3. CASE k > a2 /\ k <= t
      <4>1. k - (a2 + 1 - a1) \in 1..x.dol /\ Source(a1, a2, t, k - (a2 + 1 - a1)) = k
        BY <1>0, <2>2, <3>3 DEF Source
      <4> QED  BY <4>1
    <3> QED  BY <1>0, <3>1, <3>2, <3>3
  <2> QED  BY <1>0, <2>1, <2>2
<1> HIDE DEF y, l
<1>5. LinesOf(x) \subseteq LinesOf(y)
  BY <1>2, <1>3, <1>4 DEF LinesOf
<1> QED  BY <1>2, <1>3, <1>5 DEF y

\* w is made of p and q; of p, q, r and v.
Joins(w, p, q) ==
    /\ Len(w) = Len(p) + Len(q)
    /\ \A i \in 1..(Len(p) + Len(q)) : w[i] = IF i <= Len(p) THEN p[i] ELSE q[i - Len(p)]

JoinsAll(w, p, q, r, v) ==
    /\ Len(w) = Len(p) + Len(q) + Len(r) + Len(v)
    /\ \A i \in 1..(Len(p) + Len(q) + Len(r) + Len(v)) :
          w[i] = IF i <= Len(p) THEN p[i]
                 ELSE IF i <= Len(p) + Len(q) THEN q[i - Len(p)]
                 ELSE IF i <= Len(p) + Len(q) + Len(r) THEN r[i - (Len(p) + Len(q))]
                 ELSE v[i - (Len(p) + Len(q) + Len(r))]

LEMMA TwoParts ==
    ASSUME NEW V, NEW p \in Seq(V), NEW q \in Seq(V)
    PROVE  p \o q \in Seq(V) /\ Joins(p \o q, p, q)
BY DEF Joins

LEMMA FourParts ==
    ASSUME NEW V, NEW p \in Seq(V), NEW q \in Seq(V), NEW r \in Seq(V), NEW v \in Seq(V)
    PROVE  p \o q \o r \o v \in Seq(V) /\ JoinsAll(p \o q \o r \o v, p, q, r, v)
<1> DEFINE pq == p \o q
           pqr == pq \o r
           s == pqr \o v
           n == Len(p) + Len(q) + Len(r) + Len(v)
<1>0. Len(p) \in Nat /\ Len(q) \in Nat /\ Len(r) \in Nat /\ Len(v) \in Nat
  OBVIOUS
<1>a. pq \in Seq(V) /\ Joins(pq, p, q)
  BY TwoParts
<1>b. pqr \in Seq(V) /\ Joins(pqr, pq, r)
  <2> HIDE DEF pq
  <2> QED  BY <1>a, TwoParts
<1>c. s \in Seq(V) /\ Joins(s, pqr, v)
  <2> HIDE DEF pqr
  <2> QED  BY <1>b, TwoParts
<1> HIDE DEF pq, pqr, s
<1>1. /\ Len(pq) = Len(p) + Len(q)
      /\ \A i \in 1..(Len(p) + Len(q)) : pq[i] = IF i <= Len(p) THEN p[i] ELSE q[i - Len(p)]
  BY <1>a DEF Joins
<1>2. /\ Len(pqr) = Len(pq) + Len(r)
      /\ \A i \in 1..(Len(pq) + Len(r)) :
            pqr[i] = IF i <= Len(pq) THEN pq[i] ELSE r[i - Len(pq)]
  BY <1>b DEF Joins
<1>3. /\ Len(s) = Len(pqr) + Len(v)
      /\ \A i \in 1..(Len(pqr) + Len(v)) :
            s[i] = IF i <= Len(pqr) THEN pqr[i] ELSE v[i - Len(pqr)]
  BY <1>c DEF Joins
<1>4. ASSUME NEW i \in 1..n
      PROVE  s[i] = IF i <= Len(p) THEN p[i]
                    ELSE IF i <= Len(p) + Len(q) THEN q[i - Len(p)]
                    ELSE IF i <= Len(p) + Len(q) + Len(r) THEN r[i - (Len(p) + Len(q))]
                    ELSE v[i - (Len(p) + Len(q) + Len(r))]
  <2>1. CASE i <= Len(p) + Len(q)
    <3>1. i <= Len(pqr) /\ i <= Len(pq) /\ i \in 1..(Len(pqr) + Len(v))
          /\ i \in 1..(Len(pq) + Len(r)) /\ i \in 1..(Len(p) + Len(q))
      BY <1>0, <1>1, <1>2, <2>1
    <3>2. s[i] = IF i <= Len(p) THEN p[i] ELSE q[i - Len(p)]
      BY <1>1, <1>2, <1>3, <3>1
    <3> QED  BY <1>0, <2>1, <3>2
  <2>2. CASE i > Len(p) + Len(q) /\ i <= Len(p) + Len(q) + Len(r)
    <3>1. i <= Len(pqr) /\ ~(i <= Len(pq)) /\ i \in 1..(Len(pqr) + Len(v))
          /\ i \in 1..(Len(pq) + Len(r)) /\ ~(i <= Len(p)) /\ ~(i <= Len(p) + Len(q))
      BY <1>0, <1>1, <1>2, <2>2
    <3>2. s[i] = r[i - (Len(p) + Len(q))]
      BY <1>1, <1>2, <1>3, <3>1
    <3> QED  BY <2>2, <3>1, <3>2
  <2>3. CASE i > Len(p) + Len(q) + Len(r)
    <3>1. ~(i <= Len(pqr)) /\ i \in 1..(Len(pqr) + Len(v))
          /\ ~(i <= Len(p)) /\ ~(i <= Len(p) + Len(q)) /\ ~(i <= Len(p) + Len(q) + Len(r))
      BY <1>0, <1>1, <1>2, <2>3
    <3>2. s[i] = v[i - (Len(p) + Len(q) + Len(r))]
      BY <1>1, <1>2, <1>3, <3>1
    <3> QED  BY <3>1, <3>2
  <2> QED  BY <1>0, <2>1, <2>2, <2>3
<1>5. Len(s) = n
  BY <1>1, <1>2, <1>3
<1>6. JoinsAll(s, p, q, r, v)
  BY <1>4, <1>5 DEF JoinsAll
<1> QED  BY <1>c, <1>6 DEF s, pqr, pq

LEMMA SubSeqLines ==
    ASSUME NEW V, NEW s \in Seq(V), NEW m \in 1..(Len(s) + 1), NEW n \in (m - 1)..Len(s)
    PROVE  /\ SubSeq(s, m, n) \in Seq(V) /\ Len(SubSeq(s, m, n)) = n + 1 - m
           /\ \A i \in 1..(n + 1 - m) : SubSeq(s, m, n)[i] = s[m + i - 1]
<1>1. Len(s) \in Nat
  OBVIOUS
<1>2. \A i \in m..n : s[i] \in V
  BY <1>1
<1>3. SubSeq(s, m, n) = [i \in 1..(n - m + 1) |-> s[i + m - 1]]
  OBVIOUS
<1>4. CASE n = m - 1
  BY <1>1, <1>3, <1>4
<1>5. CASE n >= m
  BY <1>1, <1>2, <1>3, <1>5
<1> QED  BY <1>1, <1>4, <1>5

\* What m promises, line by line.
LEMMA RearrangedLines ==
    ASSUME NEW V, NEW s \in Seq(V), NEW a1 \in 1..Len(s), NEW a2 \in a1..Len(s),
           NEW t \in 0..Len(s), t \notin a1..a2
    PROVE  /\ Rearranged(s, a1, a2, t) \in Seq(V)
           /\ Len(Rearranged(s, a1, a2, t)) = Len(s)
           /\ \A i \in 1..Len(s) : Rearranged(s, a1, a2, t)[i] = s[Source(a1, a2, t, i)]
<1>0. Len(s) \in Nat
  OBVIOUS
<1> DEFINE n == Len(s)
           moved == SubSeq(s, a1, a2)
<1>1. /\ moved \in Seq(V) /\ Len(moved) = a2 + 1 - a1
      /\ \A i \in 1..(a2 + 1 - a1) : moved[i] = s[a1 + i - 1]
  BY <1>0, SubSeqLines
<1>2. CASE t < a1
  <2> DEFINE p == SubSeq(s, 1, t)
             q == SubSeq(s, t + 1, a1 - 1)
             r == SubSeq(s, a2 + 1, n)
  <2>1. p \in Seq(V) /\ Len(p) = t /\ \A i \in 1..t : p[i] = s[1 + i - 1]
    <3>1. 1 \in 1..(Len(s) + 1) /\ t \in (1 - 1)..Len(s) /\ t + 1 - 1 = t
      BY <1>0
    <3> QED  BY <3>1, SubSeqLines
  <2>2. /\ q \in Seq(V) /\ Len(q) = a1 - 1 - t
        /\ \A i \in 1..(a1 - 1 - t) : q[i] = s[t + 1 + i - 1]
    <3>1. /\ t + 1 \in 1..(Len(s) + 1) /\ a1 - 1 \in (t + 1 - 1)..Len(s)
          /\ a1 - 1 + 1 - (t + 1) = a1 - 1 - t
      BY <1>0, <1>2
    <3> QED  BY <3>1, SubSeqLines
  <2>3. /\ r \in Seq(V) /\ Len(r) = n - a2
        /\ \A i \in 1..(n - a2) : r[i] = s[a2 + 1 + i - 1]
    <3>1. /\ a2 + 1 \in 1..(Len(s) + 1) /\ n \in (a2 + 1 - 1)..Len(s)
          /\ n + 1 - (a2 + 1) = n - a2
      BY <1>0, <1>2
    <3> QED  BY <3>1, SubSeqLines
  <2>4. Rearranged(s, a1, a2, t) = p \o moved \o q \o r
    BY <1>2 DEF Rearranged
  <2> HIDE DEF p, q, r, moved
  <2> DEFINE w == p \o moved \o q \o r
  <2>5. /\ Len(p) = t /\ Len(p) + Len(moved) = t + a2 + 1 - a1
        /\ Len(p) + Len(moved) + Len(q) = a2
        /\ Len(p) + Len(moved) + Len(q) + Len(r) = n
    BY <1>0, <1>1, <1>2, <2>1, <2>2, <2>3
  <2>6. /\ w \in Seq(V) /\ Len(w) = n
        /\ \A i \in 1..n : w[i] = IF i <= t THEN p[i]
                                  ELSE IF i <= t + a2 + 1 - a1 THEN moved[i - t]
                                  ELSE IF i <= a2 THEN q[i - (t + a2 + 1 - a1)]
                                  ELSE r[i - a2]
    <3>1. w \in Seq(V) /\ JoinsAll(w, p, moved, q, r)
      BY <1>1, <2>1, <2>2, <2>3, FourParts
    <3> QED  BY <2>5, <3>1 DEF JoinsAll
  <2> HIDE DEF w, n
  <2>7. ASSUME NEW i \in 1..n
        PROVE  w[i] = s[Source(a1, a2, t, i)]
    <3>0. n \in Nat
      BY <1>0 DEF n
    <3>1. CASE i <= t
      <4>1. i \in 1..t /\ 1 + i - 1 = i
        BY <3>0, <3>1
      <4> QED  BY <1>2, <2>1, <2>6, <3>1, <4>1 DEF Source
    <3>2. CASE i > t /\ i <= t + a2 + 1 - a1
      <4>1. /\ i - t \in 1..(a2 + 1 - a1) /\ ~(i <= t) /\ ~(i > a2)
            /\ a1 + (i - t) - 1 = i + a1 - t - 1 /\ i <= t + 1 + a2 - a1
        BY <1>2, <3>0, <3>2
      <4>2. w[i] = s[i + a1 - t - 1]
        BY <1>1, <2>6, <3>2, <4>1
      <4> QED  BY <1>2, <4>1, <4>2 DEF Source
    <3>3. CASE i > t + a2 + 1 - a1 /\ i <= a2
      <4>1. /\ i - (t + a2 + 1 - a1) \in 1..(a1 - 1 - t) /\ ~(i <= t) /\ ~(i > a2)
            /\ ~(i <= t + a2 + 1 - a1) /\ ~(i <= t + 1 + a2 - a1)
            /\ t + 1 + (i - (t + a2 + 1 - a1)) - 1 = i - (a2 + 1 - a1)
        BY <1>2, <3>0, <3>3
      <4>2. w[i] = s[i - (a2 + 1 - a1)]
        BY <2>2, <2>6, <3>3, <4>1
      <4> QED  BY <1>2, <4>1, <4>2 DEF Source
    <3>4. CASE i > a2
      <4>1. /\ i - a2 \in 1..(n - a2) /\ a2 + 1 + (i - a2) - 1 = i
            /\ ~(i <= t) /\ ~(i <= t + a2 + 1 - a1) /\ ~(i <= a2)
        BY <1>2, <3>0, <3>4
      <4>2. w[i] = s[i]
        BY <2>3, <2>6, <4>1
      <4> QED  BY <1>2, <3>4, <4>2 DEF Source
    <3> QED  BY <1>2, <3>0, <3>1, <3>2, <3>3, <3>4
  <2> QED  BY <2>4, <2>6, <2>7 DEF n, w
<1>3. CASE t > a2
  <2> DEFINE p == SubSeq(s, 1, a1 - 1)
             q == SubSeq(s, a2 + 1, t)
             r == SubSeq(s, t + 1, n)
  <2>0. ~(t < a1)
    BY <1>0, <1>3
  <2>1. p \in Seq(V) /\ Len(p) = a1 - 1 /\ \A i \in 1..(a1 - 1) : p[i] = s[1 + i - 1]
    <3>1. 1 \in 1..(Len(s) + 1) /\ a1 - 1 \in (1 - 1)..Len(s) /\ a1 - 1 + 1 - 1 = a1 - 1
      BY <1>0
    <3> QED  BY <3>1, SubSeqLines
  <2>2. /\ q \in Seq(V) /\ Len(q) = t - a2
        /\ \A i \in 1..(t - a2) : q[i] = s[a2 + 1 + i - 1]
    <3>1. /\ a2 + 1 \in 1..(Len(s) + 1) /\ t \in (a2 + 1 - 1)..Len(s)
          /\ t + 1 - (a2 + 1) = t - a2
      BY <1>0, <1>3
    <3> QED  BY <3>1, SubSeqLines
  <2>3. /\ r \in Seq(V) /\ Len(r) = n - t
        /\ \A i \in 1..(n - t) : r[i] = s[t + 1 + i - 1]
    <3>1. /\ t + 1 \in 1..(Len(s) + 1) /\ n \in (t + 1 - 1)..Len(s)
          /\ n + 1 - (t + 1) = n - t
      BY <1>0, <1>3
    <3> QED  BY <3>1, SubSeqLines
  <2>4. Rearranged(s, a1, a2, t) = p \o q \o moved \o r
    BY <2>0 DEF Rearranged
  <2> HIDE DEF p, q, r, moved
  <2> DEFINE w == p \o q \o moved \o r
  <2>5. /\ Len(p) = a1 - 1 /\ Len(p) + Len(q) = a1 + t - a2 - 1
        /\ Len(p) + Len(q) + Len(moved) = t
        /\ Len(p) + Len(q) + Len(moved) + Len(r) = n
    BY <1>0, <1>1, <1>3, <2>1, <2>2, <2>3
  <2>6. /\ w \in Seq(V) /\ Len(w) = n
        /\ \A i \in 1..n : w[i] = IF i <= a1 - 1 THEN p[i]
                                  ELSE IF i <= a1 + t - a2 - 1 THEN q[i - (a1 - 1)]
                                  ELSE IF i <= t THEN moved[i - (a1 + t - a2 - 1)]
                                  ELSE r[i - t]
    <3>1. w \in Seq(V) /\ JoinsAll(w, p, q, moved, r)
      BY <1>1, <2>1, <2>2, <2>3, FourParts
    <3> QED  BY <2>5, <3>1 DEF JoinsAll
  <2> HIDE DEF w, n
  <2>7. ASSUME NEW i \in 1..n
        PROVE  w[i] = s[Source(a1, a2, t, i)]
    <3>0. n \in Nat
      BY <1>0 DEF n
    <3>1. CASE i < a1
      <4>1. i \in 1..(a1 - 1) /\ 1 + i - 1 = i /\ i <= a1 - 1
        BY <3>0, <3>1
      <4> QED  BY <2>0, <2>1, <2>6, <3>1, <4>1 DEF Source
    <3>2. CASE i >= a1 /\ i < a1 + t - a2
      <4>1. /\ i - (a1 - 1) \in 1..(t - a2) /\ ~(i <= a1 - 1) /\ i <= a1 + t - a2 - 1
            /\ ~(i < a1 \/ i > t) /\ a2 + 1 + (i - (a1 - 1)) - 1 = i + a2 + 1 - a1
        BY <1>3, <3>0, <3>2
      <4>2. w[i] = s[i + a2 + 1 - a1]
        BY <2>2, <2>6, <4>1
      <4> QED  BY <2>0, <3>2, <4>1, <4>2 DEF Source
    <3>3. CASE i >= a1 + t - a2 /\ i <= t
      <4>1. /\ i - (a1 + t - a2 - 1) \in 1..(a2 + 1 - a1)
            /\ ~(i <= a1 - 1) /\ ~(i <= a1 + t - a2 - 1)
            /\ ~(i < a1 \/ i > t) /\ ~(i < a1 + t - a2)
            /\ a1 + (i - (a1 + t - a2 - 1)) - 1 = i - (t - a2)
        BY <1>3, <3>0, <3>3
      <4>2. w[i] = s[i - (t - a2)]
        BY <1>1, <2>6, <3>3, <4>1
      <4> QED  BY <2>0, <4>1, <4>2 DEF Source
    <3>4. CASE i > t
      <4>1. /\ i - t \in 1..(n - t) /\ t + 1 + (i - t) - 1 = i
            /\ ~(i <= a1 - 1) /\ ~(i <= a1 + t - a2 - 1) /\ ~(i <= t)
        BY <1>3, <3>0, <3>4
      <4>2. w[i] = s[i]
        BY <2>3, <2>6, <4>1
      <4> QED  BY <2>0, <3>4, <4>2 DEF Source
    <3> QED  BY <1>3, <3>0, <3>1, <3>2, <3>3, <3>4
  <2> QED  BY <2>4, <2>6, <2>7 DEF n, w
<1> QED  BY <1>0, <1>2, <1>3

\* Two sequences that have the same length and the same elements.
LEMMA SameSeq ==
    ASSUME NEW V, NEW s \in Seq(V), NEW n \in Nat, NEW f, Len(s) = n,
           \A i \in 1..n : f[i] = s[i]
    PROVE  SubSeq(f, 1, n) = s
<1>1. s = [i \in 1..n |-> s[i]]
  OBVIOUS
<1>2. SubSeq(f, 1, n) = [i \in 1..n |-> f[i]]
  OBVIOUS
<1> QED  BY <1>1, <1>2

\* The three reversals of move() bring the lines to where they are to be.
LEMMA MovedText ==
    ASSUME NEW x, Shape(x), x.dol \in 0..MaxLine, NEW a1 \in 1..x.dol, NEW a2 \in a1..x.dol,
           NEW t \in 0..x.dol, t \notin a1..a2
    PROVE  Text(Moved(x, a1, a2, t)) = Rearranged(Text(x), a1, a2, t)
<1> DEFINE y == Moved(x, a1, a2, t)
           s == Text(x)
           V == {x.line[i] : i \in 1..x.dol}
<1>1. x.dol \in Nat
  BY LinesAssumption
<1>2. s \in Seq(V) /\ Len(s) = x.dol /\ \A i \in 1..x.dol : s[i] = x.line[i]
  <2>1. s = [i \in 1..x.dol |-> x.line[i]]
    BY <1>1 DEF Text
  <2> QED  BY <1>1, <2>1
<1>3. y.dol = x.dol /\ \A i \in 1..x.dol : y.line[i] = x.line[Source(a1, a2, t, i)]
  BY MovedLines
<1>4. \A i \in 1..x.dol : Source(a1, a2, t, i) \in 1..x.dol
  BY <1>1 DEF Source
<1> HIDE DEF s, y, V
<1>5. /\ Rearranged(s, a1, a2, t) \in Seq(V)
      /\ Len(Rearranged(s, a1, a2, t)) = x.dol
      /\ \A i \in 1..x.dol : Rearranged(s, a1, a2, t)[i] = s[Source(a1, a2, t, i)]
  BY <1>2, RearrangedLines
<1>6. \A i \in 1..x.dol : y.line[i] = Rearranged(s, a1, a2, t)[i]
  BY <1>2, <1>3, <1>4, <1>5
<1>7. SubSeq(y.line, 1, x.dol) = Rearranged(s, a1, a2, t)
  BY <1>1, <1>5, <1>6, SameSeq
<1> QED  BY <1>3, <1>7 DEF Text, y, s

\* A g does not visit the lines again, and does not change them.
LEMMA UnmarkedSame ==
    ASSUME UndoInv
    PROVE  /\ Shape(Unmarked) /\ Unmarked.dol = b.dol /\ Unmarked.line = b.line
           /\ Unmarked.name = b.name
BY DEF Unmarked, UndoInv, Shape

\* move() is called with lines of the text only.
LEMMA MovePlaces ==
    ASSUME UndoInv, PlaceInv, pc = "move"
    PROVE  /\ b.dol \in 0..MaxLine /\ op.a1 \in 1..b.dol /\ op.a2 \in op.a1..b.dol
           /\ op.t \in 0..b.dol
BY LinesAssumption DEF UndoInv, Short, OpShape, PlaceInv, MoveInv

LEMMA MoveRight ==
    ASSUME UndoInv, PlaceInv, Move
    PROVE  Text(b') = IF Legal THEN Rearranged(Text(b), op.a1, op.a2, op.t) ELSE Text(b)
<1>1. Text(Unmarked) = Text(b)
  BY UnmarkedSame DEF Text
<1>2. CASE ~Legal
  <2>1. b' = Unmarked
    BY <1>2 DEF Move
  <2> QED  BY <1>1, <1>2, <2>1
<1>3. CASE Legal
  <2>1. b' = Moved(Unmarked, op.a1, op.a2, op.t)
    BY <1>3 DEF Move, Becomes
  <2>2. PICK x, p, q, r : x = Unmarked /\ p = op.a1 /\ q = op.a2 /\ r = op.t
    OBVIOUS
  <2>3. /\ Shape(x) /\ x.dol \in 0..MaxLine /\ p \in 1..x.dol /\ q \in p..x.dol
        /\ r \in 0..x.dol /\ r \notin p..q
    <3>1. pc = "move"
      BY DEF Move
    <3> QED  BY <1>3, <2>2, <3>1, MovePlaces, UnmarkedSame DEF Legal
  <2>4. Text(Moved(x, p, q, r)) = Rearranged(Text(x), p, q, r)
    BY <2>3, MovedText
  <2> QED  BY <1>1, <1>3, <2>1, <2>2, <2>4
<1> QED  BY <1>2, <1>3

\* The steps of a command that a signal does not end.
LEMMA OwnSteps ==
    ASSUME PlaceInv, [Next]_vars, left' = left, pc \in {"append", "move", "sub"}
    PROVE  \/ UNCHANGED vars
           \/ pc = "append" /\ (AppendLine \/ AppendEnd)
           \/ pc = "move" /\ Move
           \/ pc = "sub" /\ (SubLine \/ SubEnd)
<1>1. CASE Program
  BY <1>1
  DEF Program, Checkpoint, AppendLine, AppendEnd, Delete, Join, Move, SubLine, SubEnd, GlobalMark,
      GlobalPack, GlobalNext, Undo, WriteOpen, WriteLines, WriteFails, WriteEnd
<1>2. ~Command
  <2>1. \A o, next : ~Begin(o, next)
    BY DEF Begin
  <2>2. ~Edit
    BY DEF Edit
  <2> QED  BY <2>1, <2>2, Zenon DEF Command, Change, Mark, UndoBegin, WriteBegin, Quit
<1>3. ~(Interrupt \/ Terminate \/ HangUp)
  BY SignalLeft DEF PlaceInv
<1> QED  BY <1>1, <1>2, <1>3 DEF Next

\* m, and t after it has added its lines, leave the text with the lines a1 to a2 behind line t
\* and all else in its order, whatever the addresses (move(), whose three calls of reverse()
\* rotate it; the addresses are checked by nonzero() and setnoaddr(), and for t made by
\* append()); for any number of lines, commands and signals.
THEOREM MoveIsRight == Spec => MoveRearranges
<1>1. UndoInv /\ PlaceInv /\ [Next]_vars =>
        [pc = "move" /\ left' = left =>
           Text(b') = IF Legal THEN Rearranged(Text(b), op.a1, op.a2, op.t) ELSE Text(b)]_vars
  <2> SUFFICES ASSUME UndoInv, PlaceInv, [Next]_vars, pc = "move", left' = left,
                      ~UNCHANGED vars
               PROVE  Text(b') = IF Legal THEN Rearranged(Text(b), op.a1, op.a2, op.t)
                                 ELSE Text(b)
    BY Zenon
  <2>1. Move
    BY OwnSteps
  <2> QED  BY <2>1, MoveRight
<1> QED  BY <1>1, PlaceAlways, PTL DEF Spec, MoveRearranges

-----------------------------------------------------------------------------
(* The marks *)

\* Every mark on a line of x is on a line of y.
Followed(x, y) == \A m \in Marks : x.name[m] \in LinesOf(x) => y.name[m] \in LinesOf(y)

LEMMA MoreLines ==
    ASSUME NEW x, NEW y, y.name = x.name, LinesOf(x) \subseteq LinesOf(y)
    PROVE  Followed(x, y)
BY DEF Followed

\* No line of the text is lost when one is put in.
LEMMA PutLines ==
    ASSUME NEW x, Shape(x), x.dol \in 0..MaxLine, x.dol < MaxLine, NEW id
    PROVE  Put(x, id).name = x.name /\ LinesOf(x) \subseteq LinesOf(Put(x, id))
<1> DEFINE F == [i \in Slot |-> IF i = x.dot + 1 THEN id
                               ELSE IF i > x.dot + 1 /\ i <= x.dol + 1 THEN x.line[i - 1]
                               ELSE x.line[i]]
           n == x.dol + 1
           d == x.dot + 1
           y == Put(x, id)
<1>1. MaxLine \in Nat /\ x.dol \in Int /\ x.dot \in Int
  BY LinesAssumption DEF Shape
<1>2. y = [x EXCEPT !.dol = n, !.dot = d, !.line = F]
  BY DEF Put
<1>3. y.dol = n /\ y.name = x.name /\ y.line = F
  <2> HIDE DEF n, d, F
  <2> QED  BY <1>2 DEF Shape
<1>4. ASSUME NEW k \in 1..x.dol
      PROVE  \E i \in 1..n : F[i] = x.line[k]
  <2>1. CASE k < d
    <3>1. k \in Slot /\ k \in 1..n /\ ~(k = x.dot + 1) /\ ~(k > x.dot + 1)
      BY <1>1, <2>1 DEF Slot
    <3>2. F[k] = x.line[k]
      BY <3>1
    <3> QED  BY <3>1, <3>2
  <2>2. CASE k >= d
    <3>1. /\ k + 1 \in Slot /\ k + 1 \in 1..n /\ ~(k + 1 = x.dot + 1) /\ k + 1 > x.dot + 1
          /\ k + 1 <= x.dol + 1 /\ k + 1 - 1 = k
      BY <1>1, <2>2 DEF Slot
    <3>2. F[k + 1] = x.line[k]
      BY <3>1
    <3> QED  BY <3>1, <3>2
  <2> QED  BY <1>1, <2>1, <2>2
<1>5. LinesOf(x) \subseteq LinesOf(y)
  <2> HIDE DEF F, n, y
  <2> QED  BY <1>3, <1>4 DEF LinesOf
<1> QED  BY <1>3, <1>5

\* A mark on a line that is substituted goes to the new one.
LEMMA SubstitutedMarks ==
    ASSUME NEW x, Shape(x), x.dol \in 0..MaxLine, NEW i \in 1..x.dol
    PROVE  LET y == [Substituted(x, i) EXCEPT !.dot = i]
           IN y.dol = x.dol /\ Followed(x, y)
<1> DEFINE y == [Substituted(x, i) EXCEPT !.dot = i]
           N == [m \in Marks |-> IF x.name[m] = x.line[i] THEN tline ELSE x.name[m]]
           L == [x.line EXCEPT ![i] = tline]
           z == Renamed(x, i)
<1>1. /\ Renamed(x, i) = [x EXCEPT !.name = N]
      /\ Replaced(z, i) = [z EXCEPT !.line[i] = tline]
  BY DEF Renamed, Replaced
<1>2. z.name = N /\ z.line = x.line /\ z.dol = x.dol
  <2> HIDE DEF N
  <2> QED  BY <1>1 DEF Shape
<1>3. Shape(z)
  <2>1. i \in Int
    BY DEF Shape
  <2> QED  BY <2>1, SubstitutedShape
<1> HIDE DEF z
<1>4. Replaced(z, i) = [z EXCEPT !.line = L]
  BY <1>1, <1>2
<1>5. y.name = N /\ y.line = L /\ y.dol = x.dol
  <2>1. y = [Replaced(z, i) EXCEPT !.dot = i]
    BY DEF Substituted, z
  <2> HIDE DEF N, L
  <2> QED  BY <1>2, <1>3, <1>4, <2>1 DEF Shape
<1>6. i \in Slot /\ \A k \in 1..x.dol : k \in Slot
  BY LinesAssumption DEF Slot
<1>7. L[i] = tline /\ \A k \in 1..x.dol : k # i => L[k] = x.line[k]
  BY <1>6 DEF Shape, Array
<1>8. ASSUME NEW m \in Marks, x.name[m] \in LinesOf(x)
      PROVE  N[m] \in {L[k] : k \in 1..x.dol}
  <2>1. PICK k \in 1..x.dol : x.name[m] = x.line[k]
    BY <1>8 DEF LinesOf
  <2>2. CASE x.name[m] = x.line[i]
    BY <1>7, <2>2
  <2>3. CASE x.name[m] # x.line[i]
    BY <1>7, <2>1, <2>3
  <2> QED  BY <2>2, <2>3
<1>9. Followed(x, y)
  <2> HIDE DEF y, N, L
  <2> QED  BY <1>5, <1>8 DEF Followed, LinesOf
<1> QED  BY <1>5, <1>9

LEMMA AppendMarks ==
    ASSUME UndoInv, AppendLine \/ AppendEnd PROVE Followed(b, b')
<1>1. CASE AppendLine
  <2>1. tline <= MaxLine /\ (b' = b \/ b' = Put(b, tline))
    BY <1>1 DEF AppendLine, More
  <2>2. b.dol \in 0..MaxLine /\ b.dol < MaxLine
    BY <2>1, LinesAssumption DEF UndoInv, Short
  <2>3. CASE b' = b
    BY <2>3 DEF Followed
  <2>4. CASE b' = Put(b, tline)
    BY <2>2, <2>4, PutLines, MoreLines DEF UndoInv
  <2> QED  BY <2>1, <2>3, <2>4
<1>2. CASE AppendEnd
  <2>1. b' = b \/ b' = [b EXCEPT !.dot = b.dot + 1]
    BY <1>2 DEF AppendEnd
  <2>2. b'.line = b.line /\ b'.dol = b.dol /\ b'.name = b.name
    BY <2>1 DEF UndoInv, Shape
  <2> QED  BY <2>2 DEF Followed, LinesOf
<1> QED  BY <1>1, <1>2

LEMMA MoveMarks ==
    ASSUME UndoInv, PlaceInv, Move PROVE Followed(b, b')
<1>1. CASE b' = Unmarked
  BY <1>1, UnmarkedSame DEF Followed, LinesOf
<1>2. CASE Legal /\ b' = Moved(Unmarked, op.a1, op.a2, op.t)
  <2>1. PICK x, p, q, r : x = Unmarked /\ p = op.a1 /\ q = op.a2 /\ r = op.t
    OBVIOUS
  <2>2. /\ Shape(x) /\ x.dol \in 0..MaxLine /\ p \in 1..x.dol /\ q \in p..x.dol
        /\ r \in 0..x.dol /\ r \notin p..q
    <3>1. pc = "move"
      BY DEF Move
    <3> QED  BY <1>2, <2>1, <3>1, MovePlaces, UnmarkedSame DEF Legal
  <2>3. /\ Moved(x, p, q, r).name = x.name
        /\ LinesOf(x) \subseteq LinesOf(Moved(x, p, q, r))
    BY <2>2, MovedLines
  <2>4. LinesOf(x) = LinesOf(b) /\ x.name = b.name
    BY <2>1, UnmarkedSame DEF LinesOf
  <2>5. b' = Moved(x, p, q, r)
    BY <1>2, <2>1
  <2> QED  BY <2>3, <2>4, <2>5, MoreLines
<1> QED  BY <1>1, <1>2 DEF Move, Becomes

LEMMA SubMarks ==
    ASSUME UndoInv, PlaceInv, SubLine \/ SubEnd PROVE Followed(b, b')
<1>1. CASE b' = b
  BY <1>1 DEF Followed
<1> DEFINE x == [Substituted(b, op.i) EXCEPT !.dot = op.i]
<1>2. CASE SubLine /\ b' # b
  <2>1. /\ pc = "sub" /\ op.i <= b.dol
        /\ b' = x \/ (tline < MaxLine /\ b' = Put(x, tline + 1))
    <3>1. op.i \in Int /\ b.dol \in Int
      BY DEF UndoInv, OpShape, Shape
    <3>2. ~(op.i > b.dol)
      BY <1>2 DEF SubLine
    <3> HIDE DEF x
    <3>3. b' = x \/ (tline < MaxLine /\ b' = Put(x, tline + 1))
      BY <1>2, <3>2, Zenon DEF SubLine, Becomes, x
    <3>4. pc = "sub"
      BY <1>2, Zenon DEF SubLine
    <3> QED  BY <3>1, <3>2, <3>3, <3>4
  <2>2. b.dol \in 0..MaxLine /\ Shape(b) /\ op.i \in Int /\ op.i \in 1..b.dol
    BY <2>1, LinesAssumption DEF UndoInv, Short, OpShape, PlaceInv, SubInv
  <2>3. x.dol = b.dol /\ Followed(b, x)
    BY <2>2, SubstitutedMarks
  <2>4. Shape(x)
    BY <2>2, SubstitutedShape
  <2> HIDE DEF x
  <2>5. ASSUME tline < MaxLine, b' = Put(x, tline + 1)
        PROVE  Followed(b, b')
    <3>1. x.dol \in 0..MaxLine /\ x.dol < MaxLine
      BY <2>2, <2>3, <2>5, LinesAssumption DEF UndoInv, Short
    <3>2. b'.name = x.name /\ LinesOf(x) \subseteq LinesOf(b')
      BY <2>4, <2>5, <3>1, PutLines
    <3> QED  BY <2>3, <3>2 DEF Followed
  <2> QED  BY <2>1, <2>3, <2>5
<1>3. SubEnd => b' = b
  BY DEF SubEnd
<1> QED  BY <1>1, <1>2, <1>3

\* While lines are added, moved, copied or substituted, a mark on a line of the text stays on
\* one: it moves with its line, and goes to the line that takes its place (append(), move(),
\* and substitute(), which looks through names[]); for any number of marks and lines.
THEOREM MarksFollow == Spec => MarksStay
<1>1. UndoInv /\ PlaceInv /\ [Next]_vars =>
        [left' = left /\ pc \in {"append", "move", "sub"} =>
           (\A m \in Marks : b.name[m] \in LinesOf(b) => b'.name[m] \in LinesOf(b'))]_vars
  <2> SUFFICES ASSUME UndoInv, PlaceInv, [Next]_vars, left' = left,
                      pc \in {"append", "move", "sub"}, ~UNCHANGED vars
               PROVE  Followed(b, b')
    BY Zenon DEF Followed
  <2>1. AppendLine \/ AppendEnd \/ Move \/ SubLine \/ SubEnd
    BY OwnSteps
  <2> QED  BY <2>1, AppendMarks, MoveMarks, SubMarks
<1> QED  BY <1>1, PlaceAlways, PTL DEF Spec, MarksStay

-----------------------------------------------------------------------------
(* The types, of the program and of what a signal finds *)

\* What the arrays of a buffer hold.
Typed(x) == x.line \in [Slot -> Line] /\ x.name \in [Marks -> Line] /\ x.bits \subseteq Line

\* A buffer whose dot is none of before its lines.
Sound(x) == Shape(x) /\ Typed(x) /\ x.dot >= 0 /\ x.dol \in 0..MaxLine

LEMMA PutTyped ==
    ASSUME NEW x, Sound(x), x.dol < MaxLine, NEW id \in Line
    PROVE  /\ Typed(Put(x, id)) /\ Put(x, id).dot >= 0
           /\ \A y \in PutParts(x) : Typed(y) /\ y.dot >= 0
<1> DEFINE n == x.dol + 1
           d == x.dot + 1
<1>1. n \in Int /\ d \in Int /\ MaxLine \in Nat /\ d >= 1 /\ n >= 1
  BY LinesAssumption DEF Sound, Shape
<1>0. \A l : l \in [Slot -> Line] => \A i \in Slot, k \in Int : k >= 1 /\ i > k => l[i - 1] \in Line
  BY <1>1 DEF Slot
<1>2. PICK l \in [Slot -> Line] : Put(x, id) = [x EXCEPT !.dol = n, !.dot = d, !.line = l]
  <2> DEFINE F == [i \in Slot |-> IF i = x.dot + 1 THEN id
                                  ELSE IF i > x.dot + 1 /\ i <= x.dol + 1 THEN x.line[i - 1]
                                  ELSE x.line[i]]
  <2>1. F \in [Slot -> Line]
    BY <1>0, <1>1 DEF Sound, Typed
  <2>2. Put(x, id) = [x EXCEPT !.dol = n, !.dot = d, !.line = F]
    BY DEF Put
  <2> QED  BY <2>1, <2>2
<1>3. ASSUME NEW y \in PutParts(x)
      PROVE  \/ \E l1 \in [Slot -> Line] : y = [x EXCEPT !.dol = n, !.dot = d, !.line = l1]
             \/ y = [x EXCEPT !.dol = n]
  <2> DEFINE F(k) == [i \in Slot |-> IF i > k /\ i <= x.dol + 1 THEN x.line[i - 1]
                                     ELSE x.line[i]]
  <2>1. \A k \in Int : k >= 1 => F(k) \in [Slot -> Line]
    BY <1>0, <1>1 DEF Sound, Typed
  <2>2. \/ \E k \in ((x.dot + 1)..x.dol) \cup {x.dol + 1} :
              y = [x EXCEPT !.dol = n, !.dot = d, !.line = F(k)]
        \/ y = [x EXCEPT !.dol = n]
    BY <1>3 DEF PutParts
  <2>3. \A k \in ((x.dot + 1)..x.dol) \cup {x.dol + 1} : k \in Int /\ k >= 1
    BY <1>1 DEF Sound, Shape
  <2> HIDE DEF F
  <2> QED  BY <2>1, <2>2, <2>3
<1> HIDE DEF n, d
<1>4. Typed(Put(x, id)) /\ Put(x, id).dot = d
  BY <1>1, <1>2 DEF Sound, Shape, Typed
<1>5. ASSUME NEW y \in PutParts(x)
      PROVE  Typed(y) /\ y.dot \in {d, x.dot}
  <2>1. CASE y = [x EXCEPT !.dol = n]
    BY <2>1, <1>1 DEF Sound, Shape, Typed
  <2>2. ASSUME NEW l1 \in [Slot -> Line], y = [x EXCEPT !.dol = n, !.dot = d, !.line = l1]
        PROVE  Typed(y) /\ y.dot = d
    BY <1>1, <2>2 DEF Sound, Shape, Typed
  <2> QED  BY <1>3, <1>5, <2>1, <2>2
<1> QED  BY <1>1, <1>4, <1>5 DEF Sound, n, d

LEMMA DeletedTyped ==
    ASSUME NEW x, Sound(x), NEW a1 \in 1..MaxLine, NEW a2 \in a1..x.dol
    PROVE  /\ Typed(Deleted(x, a1, a2)) /\ Deleted(x, a1, a2).dot >= 0
           /\ \A y \in DeletedParts(x, a1, a2) : Typed(y) /\ y.dot = x.dot
<1> DEFINE w == a2 - a1 + 1
           n == x.dol - w
           d == IF a1 > n THEN n ELSE a1
<1>1. n \in Nat /\ d \in Nat /\ MaxLine \in Nat /\ w \in Nat /\ n + w = x.dol
  BY LinesAssumption DEF Sound, Shape
<1>2. \A k \in Int : k <= n => Close(x.line, a1, w, k) \in [Slot -> Line]
  <2> SUFFICES ASSUME NEW k \in Int, k <= n
               PROVE  Close(x.line, a1, w, k) \in [Slot -> Line]
    OBVIOUS
  <2>1. \A i \in Slot : i <= k => i + w \in Slot
    BY <1>1, LinesAssumption DEF Slot, Sound
  <2> HIDE DEF n, w
  <2> QED  BY <2>1 DEF Close, Sound, Typed
<1>3. PICK l \in [Slot -> Line] :
         Deleted(x, a1, a2) = [x EXCEPT !.line = l, !.dol = n, !.dot = d]
  <2>1. Deleted(x, a1, a2) = [x EXCEPT !.line = Close(x.line, a1, w, n), !.dol = n, !.dot = d]
    BY Zenon DEF Deleted
  <2>2. Close(x.line, a1, w, n) \in [Slot -> Line]
    <3> HIDE DEF n, w
    <3> QED  BY <1>1, <1>2
  <2> QED  BY <2>1, <2>2, Zenon
<1>4. ASSUME NEW y \in DeletedParts(x, a1, a2)
      PROVE  \E l1 \in [Slot -> Line] : y = [x EXCEPT !.dol = n, !.line = l1]
  <2>1. PICK k \in (a1 - 1)..n : y = [x EXCEPT !.dol = n, !.line = Close(x.line, a1, w, k)]
    BY <1>4, Zenon DEF DeletedParts
  <2>2. k \in Int /\ k <= n
    BY <1>1, <2>1
  <2> HIDE DEF n, w
  <2> QED  BY <1>2, <2>1, <2>2
<1> HIDE DEF n, d
<1>5. Typed(Deleted(x, a1, a2)) /\ Deleted(x, a1, a2).dot = d
  BY <1>1, <1>3 DEF Sound, Shape, Typed
<1>6. ASSUME NEW y \in DeletedParts(x, a1, a2)
      PROVE  Typed(y) /\ y.dot = x.dot
  <2>1. PICK l1 \in [Slot -> Line] : y = [x EXCEPT !.dol = n, !.line = l1]
    BY <1>4, <1>6
  <2> QED  BY <2>1, <1>1 DEF Sound, Shape, Typed
<1> QED  BY <1>1, <1>5, <1>6

LEMMA ScannedTyped ==
    ASSUME NEW x, Sound(x), NEW j \in 0..MaxLine
    PROVE  Typed(Scanned(x, j)) /\ Scanned(x, j).dot >= 0
<1> DEFINE hit == {i \in 1..j : x.line[i] \in x.bits}
           source(i) == {k \in (1..j) \ hit : Cardinality((1..k) \ hit) = i}
           before1 == {i \in (1..j) \ hit : \E k \in hit : i < k}
           F == [i \in Slot |-> IF source(i) = {} THEN x.line[i]
                                ELSE x.line[CHOOSE k \in source(i) : TRUE]]
           dt == IF Cardinality(hit) < 2 THEN x.dot ELSE Cardinality(before1) + 1
<1>1. Scanned(x, j) = [x EXCEPT !.line = F, !.dot = dt]
  BY DEF Scanned
<1>2. IsFiniteSet(1..j)
  BY LinesAssumption, FS_Interval
<1>3. Cardinality(before1) \in Nat
  BY <1>2, FS_Subset, FS_CardinalityType
<1>4. dt \in Int /\ dt >= 0
  BY <1>3 DEF Sound, Shape
<1>5. \A i : source(i) \subseteq Slot
  BY LinesAssumption DEF Slot
<1>6. F \in [Slot -> Line]
  <2>1. \A i : source(i) # {} => (CHOOSE k \in source(i) : TRUE) \in Slot
    <3> HIDE DEF source
    <3> QED  BY <1>5
  <2> HIDE DEF source
  <2> QED  BY <2>1 DEF Sound, Typed
<1> HIDE DEF F, dt
<1> QED  BY <1>1, <1>4, <1>6 DEF Sound, Shape, Typed

LEMMA PackedTyped ==
    ASSUME NEW x, Sound(x)
    PROVE  Typed(Packed(x)) /\ Packed(x).dot >= 0
<1> DEFINE S == {i \in 1..x.dol : x.line[i] \notin x.bits}
           n == Cardinality(S)
           y == Scanned(x, x.dol)
<1>1. n \in Nat
  <2>1. IsFiniteSet(1..x.dol)
    BY LinesAssumption, FS_Interval DEF Sound
  <2> QED  BY <2>1, FS_Subset, FS_CardinalityType
<1>2. Shape(y) /\ Typed(y) /\ y.dot >= 0
  <2>1. x.dol \in Nat /\ x.dol \in 0..MaxLine
    BY LinesAssumption DEF Sound
  <2> QED  BY <2>1, ScannedShape, ScannedTyped DEF Sound
<1> DEFINE d == IF y.dot > n THEN n ELSE y.dot
<1>3. Packed(x) = IF n = x.dol THEN x ELSE [y EXCEPT !.dol = n, !.dot = d]
  BY DEF Packed
<1>4. d \in Int /\ d >= 0
  BY <1>1, <1>2 DEF Shape
<1> HIDE DEF n, y, d
<1> QED  BY <1>2, <1>3, <1>4 DEF Shape, Typed, Sound

LEMMA TurnedTyped ==
    ASSUME NEW a1 \in 1..MaxLine, NEW a2 \in a1..MaxLine, NEW t \in 0..MaxLine,
           t \notin a1..a2, NEW f \in [Slot -> Line]
    PROVE  /\ \A n \in 0..3 : Turned(f, Turns(a1, a2, t), n) \in [Slot -> Line]
           /\ \A j \in 1..3 : \A p \in ReversedParts(Turned(f, Turns(a1, a2, t), j - 1),
                                                     Turns(a1, a2, t)[j][1],
                                                     Turns(a1, a2, t)[j][2]) :
                p \in [Slot -> Line]
<1> DEFINE r == Turns(a1, a2, t)
<1>1. MaxLine \in Nat
  BY LinesAssumption
<1>2. \A j \in 1..3 : r[j][1] \in 1..(MaxLine + 1) /\ r[j][2] \in 1..(MaxLine + 1)
  <2>1. CASE t < a1
    <3>1. r = << <<t + 1, a1>>, <<a1, a2 + 1>>, <<t + 1, a2 + 1>> >>
      BY <2>1 DEF Turns
    <3> HIDE DEF r
    <3>2. /\ r[1][1] = t + 1 /\ r[1][2] = a1 /\ r[2][1] = a1 /\ r[2][2] = a2 + 1
          /\ r[3][1] = t + 1 /\ r[3][2] = a2 + 1
      BY <3>1
    <3> QED  BY <1>1, <2>1, <3>2
  <2>2. CASE ~(t < a1)
    <3>1. r = << <<a1, a2 + 1>>, <<a2 + 1, t + 1>>, <<a1, t + 1>> >>
      BY <2>2 DEF Turns
    <3> HIDE DEF r
    <3>2. /\ r[1][1] = a1 /\ r[1][2] = a2 + 1 /\ r[2][1] = a2 + 1 /\ r[2][2] = t + 1
          /\ r[3][1] = a1 /\ r[3][2] = t + 1
      BY <3>1
    <3> QED  BY <1>1, <2>2, <3>2
  <2> QED  BY <2>1, <2>2
<1>3. ASSUME NEW g \in [Slot -> Line], NEW lo \in 1..(MaxLine + 1), NEW hi \in 1..(MaxLine + 1)
      PROVE  /\ Reversed(g, lo, hi) \in [Slot -> Line]
             /\ \A p \in ReversedParts(g, lo, hi) : p \in [Slot -> Line]
  <2>1. \A i \in Slot : i >= lo /\ i < hi => lo + hi - 1 - i \in Slot
    BY <1>1 DEF Slot
  <2>2. Reversed(g, lo, hi) \in [Slot -> Line]
    BY <2>1 DEF Reversed
  <2>3. ASSUME NEW k \in 0..MaxLine, 2 * k < hi - lo - 1, NEW half \in BOOLEAN
        PROVE  ReversedPart(g, lo, hi, k, half) \in [Slot -> Line]
    <3>1. \A i \in (lo..(lo + k - 1)) \cup ((hi - k)..(hi - 1)) \cup (IF half THEN {hi - 1 - k} ELSE {}) :
             i >= lo /\ i < hi
      BY <1>1, <2>3
    <3> QED  BY <2>1, <3>1 DEF ReversedPart
  <2> QED  BY <2>2, <2>3 DEF ReversedParts
<1> HIDE DEF r
<1>4. ASSUME NEW g \in [Slot -> Line], NEW j \in 1..3
      PROVE  Turn(g, r[j]) \in [Slot -> Line]
  BY <1>2, <1>3 DEF Turn
<1>5. Turned(f, r, 0) = f /\ Turned(f, r, 0) \in [Slot -> Line]
  BY DEF Turned
<1>6. Turned(f, r, 1) = Turn(f, r[1]) /\ Turned(f, r, 1) \in [Slot -> Line]
  BY <1>4 DEF Turned
<1>7. Turned(f, r, 2) = Turn(Turn(f, r[1]), r[2]) /\ Turned(f, r, 2) \in [Slot -> Line]
  BY <1>4 DEF Turned
<1>8. Turned(f, r, 3) \in [Slot -> Line]
  <2>1. Turned(f, r, 3) = Turn(Turn(Turn(f, r[1]), r[2]), r[3])
    BY DEF Turned
  <2> QED  BY <1>4, <2>1
<1>9. \A n \in 0..3 : Turned(f, r, n) \in [Slot -> Line]
  BY <1>5, <1>6, <1>7, <1>8
<1>10. ASSUME NEW j \in 1..3
       PROVE  \A p \in ReversedParts(Turned(f, r, j - 1), r[j][1], r[j][2]) : p \in [Slot -> Line]
  <2>1. Turned(f, r, j - 1) \in [Slot -> Line]
    BY <1>9
  <2> QED  BY <2>1, <1>2, <1>3
<1> QED  BY <1>9, <1>10 DEF r

LEMMA MovedTyped ==
    ASSUME NEW x, Sound(x), NEW a1 \in 1..MaxLine, NEW a2 \in a1..MaxLine, NEW t \in 0..MaxLine,
           t \notin a1..a2
    PROVE  /\ Typed(Moved(x, a1, a2, t)) /\ Moved(x, a1, a2, t).dot >= 0
           /\ \A y \in MovedParts(x, a1, a2, t) : Typed(y) /\ y.dot >= 0
<1> DEFINE d == MovedDot(a1, a2, t)
<1>1. d \in Int /\ d >= 0
  BY LinesAssumption DEF MovedDot
<1>2. x.line \in [Slot -> Line]
  BY DEF Sound, Typed
<1>3. ASSUME NEW l \in [Slot -> Line], NEW y, y = [x EXCEPT !.dot = d, !.line = l]
      PROVE  Typed(y) /\ y.dot >= 0
  <2> HIDE DEF d
  <2> QED  BY <1>1, <1>3 DEF Sound, Shape, Typed
<1>4. PICK l \in [Slot -> Line] : Moved(x, a1, a2, t) = [x EXCEPT !.dot = d, !.line = l]
  <2>1. Turned(x.line, Turns(a1, a2, t), 3) \in [Slot -> Line]
    BY <1>2, TurnedTyped
  <2> QED  BY <1>2, <2>1, Zenon DEF Moved
<1>5. ASSUME NEW y \in MovedParts(x, a1, a2, t)
      PROVE  \E l1 \in [Slot -> Line] : y = [x EXCEPT !.dot = d, !.line = l1]
  <2>1. PICK j \in 1..3 : \E p \in ReversedParts(Turned(x.line, Turns(a1, a2, t), j - 1),
                                                 Turns(a1, a2, t)[j][1], Turns(a1, a2, t)[j][2]) :
                             y = [x EXCEPT !.dot = d, !.line = p]
    BY <1>5 DEF MovedParts
  <2> QED  BY <1>2, <2>1, TurnedTyped
<1> QED  BY <1>3, <1>4, <1>5

LEMMA SubstitutedTyped ==
    ASSUME NEW x, Sound(x), NEW i \in 0..MaxLine, tline \in Line
    PROVE  /\ Typed(Replaced(x, i)) /\ Replaced(x, i).dot = x.dot
           /\ Typed(Renamed(x, i)) /\ Renamed(x, i).dot = x.dot
           /\ Typed([Substituted(x, i) EXCEPT !.dot = i])
           /\ [Substituted(x, i) EXCEPT !.dot = i].dot = i
<1>1. ASSUME NEW y, Shape(y), Typed(y)
      PROVE  Typed(Replaced(y, i)) /\ Replaced(y, i).dot = y.dot
  <2> DEFINE f == [y.line EXCEPT ![i] = tline]
  <2>1. f \in [Slot -> Line]
    BY <1>1 DEF Typed
  <2>2. Replaced(y, i) = [y EXCEPT !.line = f]
    BY DEF Replaced
  <2> HIDE DEF f
  <2> QED  BY <1>1, <2>1, <2>2 DEF Shape, Typed
<1>2. Shape(Renamed(x, i)) /\ Typed(Renamed(x, i)) /\ Renamed(x, i).dot = x.dot
  <2> DEFINE F == [m \in Marks |-> IF x.name[m] = x.line[i] THEN tline ELSE x.name[m]]
  <2>1. F \in [Marks -> Line]
    BY DEF Sound, Typed
  <2>2. Renamed(x, i) = [x EXCEPT !.name = F]
    BY DEF Renamed
  <2> HIDE DEF F
  <2> QED  BY <2>1, <2>2 DEF Sound, Shape, Typed
<1>3. Shape(Substituted(x, i)) /\ Typed(Substituted(x, i))
  <2>1. i \in Int
    BY LinesAssumption
  <2>2. Shape(Substituted(x, i))
    <3>1. Shape(Renamed(x, i))
      BY <1>2
    <3>2. PICK y : y = Renamed(x, i)
      OBVIOUS
    <3>3. Shape(Replaced(y, i))
      BY <2>1, <3>1, <3>2, SubstitutedShape
    <3> QED  BY <3>2, <3>3 DEF Substituted
  <2> QED  BY <1>1, <1>2, <2>2 DEF Substituted
<1> QED  BY <1>1, <1>2, <1>3 DEF Sound, Shape, Typed

\* What a signal finds has the types.
TypedAt(m) == Typed(m.b) /\ Typed(m.u) /\ m.b.dot >= 0 /\ m.has \in BOOLEAN /\ m.torn \in BOOLEAN

\* The commands that begin before their second address have one.
OpPlace ==
    /\ pc = "ck" /\ op.c \in {"a", "i", "r"} => op.a2 >= 0 /\ (op.c = "i" => op.a2 >= 1)
    /\ op.t \in 0..MaxLine /\ op.i \in 0..(MaxLine + 1)

BufInv ==
    /\ Typed(b) /\ Typed(u) /\ b.dot >= 0
    /\ has \in BOOLEAN /\ torn \in BOOLEAN
    /\ OpPlace

LEMMA BufSound == ASSUME UndoInv, BufInv PROVE Sound(b)
BY LinesAssumption DEF UndoInv, BufInv, Sound, Short

LEMMA AtTyped ==
    ASSUME BufInv, NEW x, Typed(x), x.dot >= 0
    PROVE  TypedAt(At(x, u)) /\ \A n : TypedAt(Stored(x, n))
<1>1. TypedAt(At(x, u))
  BY DEF BufInv, TypedAt, At
<1>2. ASSUME NEW n
      PROVE  TypedAt(Stored(x, n))
  <2>1. /\ Stored(x, n).b = x /\ Stored(x, n).u = u /\ Stored(x, n).has = has
        /\ Stored(x, n).torn = torn
    BY DEF Stored, At
  <2> QED  BY <2>1 DEF BufInv, TypedAt
<1> QED  BY <1>1, <1>2

LEMMA CheckpointTyped ==
    ASSUME UndoInv, BufInv, NEW m \in CheckpointParts PROVE TypedAt(m)
<1> DEFINE lines(k) == [u EXCEPT !.line = [i \in Slot |-> IF i <= k THEN b.line[i] ELSE @[i]]]
           T(y, h) == [At(b, y) EXCEPT !.has = h, !.torn = TRUE]
<1>1. ASSUME NEW y, NEW h \in BOOLEAN, Typed(y)
      PROVE  TypedAt(T(y, h))
  <2>1. T(y, h).b = b /\ T(y, h).u = y /\ T(y, h).has = h /\ T(y, h).torn = TRUE
    BY DEF At
  <2> HIDE DEF T
  <2> QED  BY <1>1, <2>1 DEF BufInv, TypedAt
<1>2. ASSUME NEW k
      PROVE  Shape(lines(k)) /\ Typed(lines(k))
  <2>1. PICK l \in [Slot -> Line] : lines(k) = [u EXCEPT !.line = l]
    <3> DEFINE F == [i \in Slot |-> IF i <= k THEN b.line[i] ELSE u.line[i]]
    <3>1. F \in [Slot -> Line]
      BY DEF BufInv, Typed
    <3>2. lines(k) = [u EXCEPT !.line = F]
      OBVIOUS
    <3> QED  BY <3>1, <3>2
  <2> HIDE DEF lines
  <2> QED  BY <2>1 DEF UndoInv, BufInv, Shape, Typed, Array
<1> DEFINE all == lines(b.dol)
           y1 == [all EXCEPT !.dot = b.dot]
           y2 == [all EXCEPT !.dot = b.dot, !.dol = b.dol]
<1>3. \/ m = At(b, u)
      \/ \E k \in 1..b.dol : m = T(lines(k), has)
      \/ m = T(y1, TRUE)
      \/ m = T(y2, TRUE)
  BY DEF CheckpointParts
<1>4. Shape(all) /\ Typed(all)
  BY <1>2
<1> HIDE DEF T, lines, all
<1>5. Typed(y1) /\ Typed(y2)
  BY <1>4 DEF Shape, Typed
<1>6. ASSUME m = T(y1, TRUE) \/ m = T(y2, TRUE) \/ \E k \in 1..b.dol : m = T(lines(k), has)
      PROVE  TypedAt(m)
  <2>1. has \in BOOLEAN
    BY DEF BufInv
  <2> QED  BY <1>1, <1>2, <1>5, <1>6, <2>1
<1> QED  BY <1>3, <1>6, AtTyped DEF BufInv

\* Whatever a signal finds has the types.
LEMMA MidwayTyped ==
    ASSUME UndoInv, PlaceInv, BufInv, pc \notin {"over", "wild"}, NEW m \in Midway, ~m.bad
    PROVE  TypedAt(m)
<1>0. Sound(b) /\ MaxLine \in Nat
  BY BufSound, LinesAssumption DEF UndoInv, Short
<1>1. TypedAt(At(b, u))
  BY AtTyped DEF BufInv
<1>2. CASE pc = "ck" /\ ~globp
  BY <1>2, CheckpointTyped DEF Midway
<1>3. CASE pc = "append"
  <2>1. \/ m = At(b, u)
        \/ tline <= MaxLine /\ \E x \in PutParts(b) : m = Stored(x, 1)
    BY <1>3 DEF Midway, AppendParts, More, At
  <2>2. ASSUME tline <= MaxLine, NEW x \in PutParts(b), m = Stored(x, 1)
        PROVE  TypedAt(m)
    <3>1. b.dol < MaxLine /\ 0 \in Line
      BY <1>0, <2>2 DEF UndoInv, Short, Line
    <3> QED  BY <1>0, <2>2, <3>1, PutTyped, AtTyped
  <2> QED  BY <1>1, <2>1, <2>2
<1>4. CASE pc = "delete"
  <2>1. op.a1 \in 1..MaxLine /\ op.a2 \in op.a1..b.dol
    BY <1>0, <1>4 DEF UndoInv, InText, OpShape, Sound
  <2>2. \A x \in DeletedParts(b, op.a1, op.a2) : Typed(x) /\ x.dot = b.dot
    BY <1>0, <2>1, DeletedTyped
  <2>3. m = At(b, u) \/ \E x \in DeletedParts(b, op.a1, op.a2) : m = At(x, u)
    BY <1>4 DEF Midway
  <2> QED  BY <1>1, <2>2, <2>3, AtTyped DEF BufInv
<1>5. CASE pc = "join"
  <2> DEFINE y == Replaced(b, op.a1)
  <2>1. op.a1 \in 1..MaxLine /\ op.a2 \in op.a1..b.dol /\ tline \in Line /\ op.a1 \in Int
    BY <1>0, <1>5 DEF UndoInv, InText, Spare, OpShape, Sound, Line
  <2>2. Sound(y) /\ y.dol = b.dol /\ y.dot = b.dot
    <3>1. Shape(y) /\ y.dol = b.dol
      BY <2>1, SubstitutedShape DEF UndoInv
    <3>2. op.a1 \in 0..MaxLine
      BY <1>0, <2>1
    <3>3. Typed(y) /\ y.dot = b.dot
      BY <1>0, <2>1, <3>2, SubstitutedTyped
    <3> QED  BY <1>0, <3>1, <3>3 DEF Sound
  <2>3. \/ m = At(b, u)
        \/ /\ op.a1 # op.a2
           /\ \E x \in {b, y} \cup DeletedParts(y, op.a1 + 1, op.a2) : m = Stored(x, 1)
    BY <1>5 DEF Midway, JoinParts
  <2>4. ASSUME op.a1 # op.a2, NEW x \in {b, y} \cup DeletedParts(y, op.a1 + 1, op.a2)
        PROVE  Typed(x) /\ x.dot = b.dot
    <3>1. CASE x \in {b, y}
      BY <2>2, <3>1 DEF Sound, BufInv
    <3>2. CASE x \in DeletedParts(y, op.a1 + 1, op.a2)
      <4>1. op.a1 + 1 \in 1..MaxLine /\ op.a2 \in (op.a1 + 1)..y.dol
        BY <1>0, <2>1, <2>2, <2>4 DEF Sound
      <4>2. PICK z, p : z = y /\ p = op.a1 + 1
        OBVIOUS
      <4>3. Sound(z) /\ p \in 1..MaxLine /\ op.a2 \in p..z.dol /\ x \in DeletedParts(z, p, op.a2)
        BY <2>2, <3>2, <4>1, <4>2
      <4> QED  BY <2>2, <4>2, <4>3, DeletedTyped
    <3> QED  BY <2>4, <3>1, <3>2
  <2> QED  BY <1>1, <2>3, <2>4, AtTyped DEF BufInv
<1>6. CASE pc = "move"
  <2>1. /\ op.a1 \in 1..MaxLine /\ op.a2 \in op.a1..MaxLine /\ op.t \in 0..MaxLine
    BY <1>0, <1>6, MovePlaces DEF Sound
  <2>2. Sound(Unmarked) /\ Unmarked.dot = b.dot
    <3>1. PICK s \in SUBSET Line : Unmarked = [b EXCEPT !.bits = s]
      BY DEF Unmarked, BufInv, Typed
    <3> QED  BY <1>0, <3>1 DEF Sound, Shape, Typed
  <2>3. PICK x : x = Unmarked
    OBVIOUS
  <2>4. m = At(b, u) \/ (Legal /\ \E y \in MovedParts(x, op.a1, op.a2, op.t) : m = At(y, u))
    <3>1. m \in MoveParts
      BY <1>6 DEF Midway
    <3>2. m = At(b, u) \/ (Legal /\ \E y \in MovedParts(Unmarked, op.a1, op.a2, op.t) : m = At(y, u))
      BY <3>1, Zenon DEF MoveParts
    <3> QED  BY <2>3, <3>2
  <2>5. ASSUME Legal
        PROVE  \A y \in MovedParts(x, op.a1, op.a2, op.t) : Typed(y) /\ y.dot >= 0
    BY <2>1, <2>2, <2>3, <2>5, MovedTyped DEF Legal
  <2> QED  BY <1>1, <2>4, <2>5, AtTyped
<1>7. CASE pc = "sub"
  <2> DEFINE x == [Substituted(b, op.i) EXCEPT !.dot = op.i]
  <2>1. \/ m = At(b, u)
        \/ /\ tline < MaxLine /\ op.i <= b.dol
           /\ \/ \E y \in {b, Renamed(b, op.i), x} : m = Stored(y, 1)
              \/ \E y \in PutParts(x) : m = Stored(y, 2)
    <3>1. m \in SubParts /\ m # [At(b, u) EXCEPT !.bad = TRUE]
      BY <1>7 DEF Midway, At
    <3>2. ~(tline >= MaxLine) => tline < MaxLine
      BY <1>0 DEF UndoInv
    <3>3. ~(op.i > b.dol) => op.i <= b.dol
      BY <1>0 DEF UndoInv, OpShape, Sound
    <3> QED  BY <3>1, <3>2, <3>3, Zenon DEF SubParts
  <2>2. ASSUME tline < MaxLine, op.i <= b.dol
        PROVE  /\ Sound(x) /\ x.dol = b.dol
               /\ Typed(Renamed(b, op.i)) /\ Renamed(b, op.i).dot = b.dot
    <3>1. op.i \in 0..MaxLine /\ op.i \in Int /\ tline \in Line
      BY <1>0, <2>2 DEF UndoInv, OpShape, Sound, Line, BufInv, OpPlace
    <3>2. Typed(x) /\ x.dot = op.i /\ Typed(Renamed(b, op.i)) /\ Renamed(b, op.i).dot = b.dot
      BY <1>0, <3>1, SubstitutedTyped
    <3>3. Shape(x) /\ x.dol = b.dol
      BY <3>1, SubstitutedShape DEF UndoInv
    <3> QED  BY <1>0, <3>1, <3>2, <3>3 DEF Sound
  <2> HIDE DEF x
  <2>3. ASSUME tline < MaxLine, op.i <= b.dol, NEW y \in {b, Renamed(b, op.i), x}
        PROVE  Typed(y) /\ y.dot >= 0
    BY <2>2, <2>3 DEF Sound, BufInv
  <2>4. ASSUME tline < MaxLine, op.i <= b.dol, NEW y \in PutParts(x)
        PROVE  Typed(y) /\ y.dot >= 0
    <3>1. x.dol < MaxLine /\ 0 \in Line
      BY <1>0, <2>2, <2>4 DEF UndoInv, Short, Line
    <3> QED  BY <2>2, <2>4, <3>1, PutTyped
  <2> QED  BY <1>1, <2>1, <2>3, <2>4, AtTyped
<1>8. CASE pc = "pack"
  <2>1. \A j \in 0..b.dol : j \in 0..MaxLine
    BY <1>0 DEF Sound
  <2> QED  BY <1>0, <1>8, <2>1, ScannedTyped, AtTyped DEF Midway
<1>9. CASE pc = "undo"
  <2> DEFINE x == [u EXCEPT !.name = b.name]
             y == [b EXCEPT !.name = u.name]
  <2>1. \/ m = At(b, u)
        \/ Sane /\ m = [At(x, y) EXCEPT !.torn = TRUE]
    BY <1>9 DEF Midway, UndoParts, At
  <2>2. Typed(x) /\ x.dot = u.dot /\ Typed(y)
    BY DEF UndoInv, BufInv, Shape, Typed
  <2>3. ASSUME Sane, m = [At(x, y) EXCEPT !.torn = TRUE]
        PROVE  TypedAt(m)
    <3> HIDE DEF x, y
    <3>1. m.b = x /\ m.u = y /\ m.torn = TRUE /\ m.has = has
      BY <2>3 DEF At
    <3> QED  BY <2>2, <2>3, <3>1 DEF BufInv, TypedAt, Sane
  <2> QED  BY <1>1, <2>1, <2>3
<1>10. CASE /\ ~(pc = "ck" /\ ~globp)
            /\ pc \notin {"append", "delete", "join", "move", "sub", "pack", "undo"}
  BY <1>1, <1>10 DEF Midway
<1> QED  BY <1>2, <1>3, <1>4, <1>5, <1>6, <1>7, <1>8, <1>9, <1>10

LEMMA SameTypes ==
    ASSUME BufInv, UNCHANGED <<u, has, torn>>, Typed(b'), b'.dot >= 0, OpPlace'
    PROVE  BufInv'
BY DEF BufInv, Typed

LEMMA NoPlace ==
    /\ op' = NoOp => OpPlace'
    /\ \A c \in {"e", "u"} : op' = Op(c, 0, 0, 0) => OpPlace'
    /\ OpPlace /\ op' = op /\ pc' # "ck" => OpPlace'
<1>1. MaxLine \in Nat
  BY LinesAssumption
<1>2. ASSUME NEW c \in {"-", "e", "u"}, op' = Op(c, 0, 0, 0)
      PROVE  OpPlace'
  <2>1. op'.c = c /\ op'.t = 0 /\ op'.i = 0
    BY <1>2 DEF Op
  <2> QED  BY <1>1, <2>1 DEF OpPlace
<1>3. OpPlace /\ op' = op /\ pc' # "ck" => OpPlace'
  BY DEF OpPlace
<1> QED  BY <1>2, <1>3 DEF NoOp

LEMMA ChangeTypes == ASSUME UndoInv, BufInv, Change PROVE BufInv'
<1>1. UNCHANGED <<b, u, has, torn>>
  BY Zenon DEF Change, Begin, Same
<1>2. b.dol \in 0..MaxLine /\ b.dot \in Int /\ b.dot >= 0 /\ MaxLine \in Nat
  BY BufSound, LinesAssumption DEF Sound, Shape
<1>3. ASSUME NEW r \in Ranges
      PROVE  /\ r[1] \in Int /\ r[2] \in Int /\ r[1] >= 0 /\ r[2] >= 0
             /\ r \in Nonzero => 1 <= r[1] /\ r[1] <= r[2] /\ r[2] <= b.dol
  <2>1. r[1] >= 0 /\ r[2] >= 0
    BY <1>2 DEF Ranges
  <2> QED  BY <2>1, RangesText
<1>4. \A r \in Nonzero : r \in Ranges
  BY DEF Nonzero
<1>5. ASSUME NEW c, NEW a1 \in Int, NEW a2 \in Int, NEW t \in Int
      PROVE  LET o == Op(c, a1, a2, t)
             IN OpShape(o) /\ o.c = c /\ o.a1 = a1 /\ o.a2 = a2 /\ o.t = t /\ o.i = 0
  BY DEF Op, OpShape
<1>6. OpPlace'
  <2>1. ASSUME NEW o, OpShape(o), NEW j
        PROVE  LET p == [o EXCEPT !.i = j] IN p.c = o.c /\ p.t = o.t /\ p.i = j /\ p.a2 = o.a2
    BY <2>1 DEF OpShape
  <2>2. ASSUME NEW o, OpShape(o), NEW f
        PROVE  LET p == [o EXCEPT !.flag = f] IN p.c = o.c /\ p.t = o.t /\ p.i = o.i /\ p.a2 = o.a2
    BY <2>2 DEF OpShape
  <2>5. CASE \E r \in Ranges : op' = Op("a", r[1], r[2], 0)
    BY <2>5, <1>2, <1>3, <1>5 DEF OpPlace
  <2>6. CASE \E r \in Nonzero, c \in {"c", "d", "i"} : op' = Op(c, r[1], r[2], 0)
    BY <2>6, <1>2, <1>3, <1>4, <1>5 DEF OpPlace
  <2>7. CASE \E r \in Nonzero : tline <= MaxLine /\ op' = Op("j", r[1], r[2], 0)
    BY <2>7, <1>2, <1>3, <1>4, <1>5 DEF OpPlace
  <2>8. CASE \E r \in Nonzero : op' = [Op("s", r[1], r[2], 0) EXCEPT !.i = r[1]]
    BY <2>8, <2>1, <1>2, <1>3, <1>4, <1>5 DEF OpPlace
  <2>9. CASE \E r \in Nonzero, t \in 0..b.dol : op' = Op("m", r[1], r[2], t)
    BY <2>9, <1>2, <1>3, <1>4, <1>5 DEF OpPlace
  <2>10. CASE \E r \in Nonzero, t \in 0..b.dol :
                 op' = [Op("t", r[1], r[2], t) EXCEPT !.i = b.dol]
    BY <2>10, <2>1, <1>2, <1>3, <1>4, <1>5 DEF OpPlace
  <2>11. CASE \E r \in Ranges : op' = [Op("r", r[1], r[2], 0) EXCEPT !.flag = b.dol # 0]
    BY <2>11, <2>2, <1>2, <1>3, <1>5 DEF OpPlace
  <2>12. CASE \E r \in Nonzero : op' = Op("g", r[1], r[2], 0)
    BY <2>12, <1>2, <1>3, <1>4, <1>5 DEF OpPlace
  <2> QED  BY <2>5, <2>6, <2>7, <2>8, <2>9, <2>10, <2>11, <2>12 DEF Change, Begin
<1> QED  BY <1>1, <1>6, SameTypes DEF BufInv

\* The commands that change nothing here but a mark.
LEMMA CommandTypes ==
    ASSUME UndoInv, BufInv, Mark \/ UndoBegin \/ WriteBegin \/ Quit PROVE BufInv'
<1>1. CASE Mark
  <2>1. UNCHANGED <<u, has, torn>> /\ op' = NoOp
    BY <1>1, Zenon DEF Mark, Begin
  <2>2. PICK r \in Nonzero, m \in Marks : b' = [b EXCEPT !.name[m] = b.line[r[2]]]
    BY <1>1, Zenon DEF Mark
  <2>3. b.line[r[2]] \in Line
    <3>1. r[2] \in Slot
      BY RangesText, BufSound, LinesAssumption DEF Nonzero, Sound, Slot
    <3> QED  BY <3>1 DEF BufInv, Typed
  <2> DEFINE N == [b.name EXCEPT ![m] = b.line[r[2]]]
  <2>4. N \in [Marks -> Line]
    BY <2>3 DEF BufInv, Typed
  <2>5. b' = [b EXCEPT !.name = N]
    BY <2>2
  <2> HIDE DEF N
  <2>6. Typed(b') /\ b'.dot = b.dot
    BY <2>4, <2>5 DEF UndoInv, BufInv, Typed, Shape
  <2> QED  BY <2>1, <2>6, SameTypes, NoPlace DEF BufInv
<1>2. CASE UndoBegin
  <2>1. UNCHANGED <<b, u, has, torn>> /\ op' = Op("u", 0, 0, 0)
    BY <1>2, Zenon DEF UndoBegin, Begin, Same
  <2> QED  BY <2>1, SameTypes, NoPlace DEF BufInv
<1>3. CASE WriteBegin
  <2>1. UNCHANGED <<b, u, has, torn>> /\ pc' = "wopen"
    BY <1>3, Zenon DEF WriteBegin, Begin
  <2>2. \E c, r : op' = Op(c, r[1], r[2], 0)
    BY <1>3, Zenon DEF WriteBegin, Begin
  <2>3. OpPlace'
    BY <2>1, <2>2, LinesAssumption DEF OpPlace, Op
  <2> QED  BY <2>1, <2>3, SameTypes DEF BufInv
<1>4. CASE Quit
  <2>1. UNCHANGED <<b, u, has, torn>> /\ pc' # "ck" /\ op' \in {NoOp, [NoOp EXCEPT !.c = "q"]}
    BY <1>4 DEF Quit, Begin
  <2>2. OpPlace'
    BY <2>1, LinesAssumption DEF OpPlace, NoOp, Op
  <2> QED  BY <2>1, <2>2, SameTypes DEF BufInv
<1> QED  BY <1>1, <1>2, <1>3, <1>4

LEMMA EditTypes == ASSUME UndoInv, BufInv, Edit PROVE BufInv'
<1>1. /\ b' = [Empty EXCEPT !.line = b.line] /\ u' = [u EXCEPT !.name = Empty.name]
      /\ has' = FALSE /\ torn' = FALSE
      /\ op' \in {NoOp, Op("e", 0, 0, 0)}
  BY DEF Edit
<1>2. Empty.name \in [Marks -> Line]
  BY LinesAssumption DEF Empty, Line
<1>3. Typed(b') /\ b'.dot = 0
  BY <1>1, <1>2 DEF BufInv, Typed, Empty
<1>4. PICK n \in [Marks -> Line] : u' = [u EXCEPT !.name = n]
  BY <1>1, <1>2
<1>5. Typed(u')
  BY <1>4 DEF BufInv, Typed, UndoInv, Shape
<1>6. OpPlace'
  <2>1. CASE op' = NoOp
    BY <2>1, NoPlace
  <2>2. CASE op' = Op("e", 0, 0, 0)
    BY <2>2, NoPlace
  <2> QED  BY <1>1, <2>1, <2>2
<1>7. Typed(b)' /\ Typed(u)'
  BY <1>3, <1>5 DEF Typed
<1>8. has' \in BOOLEAN /\ torn' \in BOOLEAN
  BY <1>1, Zenon
<1> QED  BY <1>3, <1>6, <1>7, <1>8 DEF BufInv

LEMMA CheckpointTypes == ASSUME UndoInv, BufInv, Checkpoint PROVE BufInv'
<1>1. /\ pc = "ck" /\ pc' = Stage /\ u' = Saved(b) /\ has' = (has \/ ~globp)
      /\ b' = [b EXCEPT !.dot = From] /\ torn' = (torn /\ globp) /\ op' = op
  BY DEF Checkpoint
<1>2. From \in Int /\ From >= 0
  BY <1>1 DEF From, UndoInv, OpShape, Shape, BufInv, OpPlace, Chosen, Short
<1>3. Typed(b') /\ b'.dot = From
  BY <1>1, <1>2 DEF UndoInv, Shape, BufInv, Typed
<1>4. Typed(u')
  <2> DEFINE F == [i \in Slot |-> IF i <= b.dol THEN b.line[i] ELSE u.line[i]]
  <2>1. u' = u \/ u' = [b EXCEPT !.line = F]
    BY <1>1 DEF Saved
  <2>2. F \in [Slot -> Line]
    BY DEF BufInv, Typed
  <2> HIDE DEF F
  <2> QED  BY <2>1, <2>2 DEF BufInv, Typed, UndoInv, Shape
<1>5. OpPlace'
  <2>1. pc' # "ck"
    BY <1>1 DEF Stage, UndoInv, Chosen
  <2> QED  BY <1>1, <2>1, NoPlace DEF BufInv
<1>6. has' \in BOOLEAN /\ torn' \in BOOLEAN
  BY <1>1, Zenon
<1> QED  BY <1>2, <1>3, <1>4, <1>5, <1>6 DEF BufInv

LEMMA RoomTypes ==
    ASSUME UndoInv, BufInv, NEW x, NEW d, Room(x, d)
    PROVE  Typed(u')
<1>1. PICK v, w : u' = u \/ u' = [u EXCEPT !.dot = v, !.dol = w]
  BY Zenon DEF Room
<1> QED  BY <1>1 DEF UndoInv, BufInv, Shape, Typed

LEMMA AppendTypes == ASSUME UndoInv, BufInv, AppendLine \/ AppendEnd PROVE BufInv'
<1>1. CASE AppendLine
  <2>1. UNCHANGED <<has, torn, op>> /\ pc' \in {"append", "wild"} /\ tline <= MaxLine
    BY <1>1 DEF AppendLine, More, Wild, history
  <2>2. Typed(u')
    BY <1>1, RoomTypes DEF AppendLine
  <2>3. b' = b \/ b' = Put(b, tline)
    BY <1>1, Zenon DEF AppendLine
  <2>4. Sound(b) /\ b.dol < MaxLine /\ tline \in Line
    BY <2>1, BufSound, LinesAssumption DEF UndoInv, Short, Line
  <2>5. Typed(b') /\ b'.dot >= 0
    BY <2>3, <2>4, PutTyped DEF BufInv
  <2>6. OpPlace'
    BY <2>1, NoPlace DEF BufInv
  <2> QED  BY <2>1, <2>2, <2>5, <2>6 DEF BufInv
<1>2. CASE AppendEnd
  <2>1. /\ UNCHANGED <<u, has, torn>> /\ pc' # "ck"
        /\ op' = NoOp \/ op' = [op EXCEPT !.a1 = op.i + 1, !.a2 = b.dol]
        /\ b' = b \/ b' = [b EXCEPT !.dot = b.dot + 1]
    BY <1>2 DEF AppendEnd, Done, Onward, history
  <2>2. Typed(b') /\ b'.dot >= 0
    <3>1. PICK v : v = b.dot + 1
      OBVIOUS
    <3>2. v \in Int /\ v >= 0
      BY <3>1 DEF UndoInv, BufInv, Shape
    <3>3. b' = b \/ b' = [b EXCEPT !.dot = v]
      BY <2>1, <3>1
    <3> QED  BY <3>2, <3>3 DEF UndoInv, BufInv, Shape, Typed
  <2>3. OpPlace'
    <3>1. CASE op' = NoOp
      BY <3>1, NoPlace
    <3>2. ASSUME NEW v, NEW w, op' = [op EXCEPT !.a1 = v, !.a2 = w]
          PROVE  OpPlace'
      BY <2>1, <3>2 DEF UndoInv, OpShape, BufInv, OpPlace
    <3> QED  BY <2>1, <3>1, <3>2
  <2> QED  BY <2>1, <2>2, <2>3, SameTypes
<1> QED  BY <1>1, <1>2

LEMMA DeleteTypes == ASSUME UndoInv, BufInv, Delete \/ Join PROVE BufInv'
<1>0. Sound(b) /\ MaxLine \in Nat
  BY BufSound, LinesAssumption
<1>1. CASE Delete
  <2> DEFINE x == Deleted(b, op.a1, op.a2)
  <2>1. /\ pc = "delete" /\ UNCHANGED <<u, has, torn>>
        /\ b' = x \/ b' = [x EXCEPT !.dot = op.a1 - 1]
        /\ pc' # "ck" /\ op' \in {op, NoOp}
    BY <1>1 DEF Delete, Becomes, Done, Onward, history
  <2>2. op.a1 \in 1..MaxLine /\ op.a2 \in op.a1..b.dol /\ op.a1 \in Int /\ op.a2 \in Int
    BY <1>0, <2>1 DEF UndoInv, InText, OpShape, Sound
  <2>3. Shape(x) /\ Typed(x) /\ x.dot >= 0
    BY <1>0, <2>2, DeletedTyped, DeletedShape DEF Sound
  <2>4. Typed(b') /\ b'.dot >= 0
    <3>1. PICK v \in Int : v = op.a1 - 1
      BY <2>2
    <3>2. v >= 0
      BY <2>2, <3>1
    <3> HIDE DEF x
    <3> QED  BY <2>1, <2>3, <3>1, <3>2 DEF Shape, Typed
  <2>5. OpPlace'
    BY <2>1, NoPlace DEF BufInv
  <2> QED  BY <2>1, <2>4, <2>5, SameTypes
<1>2. CASE Join
  <2> DEFINE y == Replaced(b, op.a1)
  <2>1. pc = "join" /\ UNCHANGED <<u, has, torn>> /\ op' = NoOp
    BY <1>2 DEF Join, Done, history
  <2>2. CASE b' = b
    BY <2>1, <2>2, NoPlace, SameTypes DEF BufInv
  <2>3. CASE op.a1 # op.a2 /\ b' = [Deleted(y, op.a1 + 1, op.a2) EXCEPT !.dot = op.a1]
    <3>1. op.a1 \in 1..MaxLine /\ op.a2 \in op.a1..b.dol /\ tline \in Line /\ op.a1 \in Int
          /\ op.a1 \in 0..MaxLine
      BY <1>0, <2>1 DEF UndoInv, InText, Spare, OpShape, Sound, Line
    <3>2. Sound(y) /\ y.dol = b.dol
      <4>1. Shape(y) /\ y.dol = b.dol
        BY <3>1, SubstitutedShape DEF UndoInv
      <4>2. Typed(y) /\ y.dot = b.dot
        BY <1>0, <3>1, SubstitutedTyped
      <4> QED  BY <1>0, <4>1, <4>2 DEF Sound
    <3>3. PICK z, p : z = Deleted(y, p, op.a2) /\ p = op.a1 + 1
      OBVIOUS
    <3>4. p \in 1..MaxLine /\ op.a2 \in p..y.dol /\ p \in Int /\ op.a2 \in Int
      BY <1>0, <2>3, <3>1, <3>2, <3>3 DEF Sound
    <3>5. Shape(z) /\ Typed(z)
      <4> HIDE DEF y
      <4> QED  BY <3>2, <3>3, <3>4, DeletedTyped, DeletedShape DEF Sound
    <3>6. b' = [z EXCEPT !.dot = op.a1]
      BY <2>3, <3>3
    <3>7. Typed(b') /\ b'.dot >= 0
      BY <3>1, <3>5, <3>6 DEF Shape, Typed
    <3> QED  BY <2>1, <3>7, NoPlace, SameTypes
  <2> QED  BY <1>2, <2>2, <2>3 DEF Join, Becomes
<1> QED  BY <1>1, <1>2

LEMMA MoveTypes == ASSUME UndoInv, PlaceInv, BufInv, Move PROVE BufInv'
<1>1. /\ pc = "move" /\ UNCHANGED <<u, has, torn>>
      /\ (Legal /\ b' = Moved(Unmarked, op.a1, op.a2, op.t)) \/ b' = Unmarked
      /\ op' = NoOp
  BY DEF Move, Becomes, Error, Done, history
<1>2. /\ op.a1 \in 1..MaxLine /\ op.a2 \in op.a1..MaxLine /\ op.t \in 0..MaxLine /\ Sound(b)
  BY <1>1, MovePlaces, BufSound, LinesAssumption DEF Sound
<1>3. Sound(Unmarked)
  <2>1. PICK s \in SUBSET Line : Unmarked = [b EXCEPT !.bits = s]
    BY DEF Unmarked, BufInv, Typed
  <2> QED  BY <1>2, <2>1 DEF Sound, Shape, Typed
<1>4. PICK x : x = Unmarked
  OBVIOUS
<1>5. Typed(b') /\ b'.dot >= 0
  <2>1. CASE b' = Unmarked
    BY <1>3, <2>1 DEF Sound
  <2>2. CASE Legal /\ b' = Moved(x, op.a1, op.a2, op.t)
    BY <1>2, <1>3, <1>4, <2>2, MovedTyped DEF Legal
  <2> QED  BY <1>1, <1>4, <2>1, <2>2
<1> QED  BY <1>1, <1>5, NoPlace, SameTypes

LEMMA SubTypes == ASSUME UndoInv, BufInv, SubLine \/ SubEnd PROVE BufInv'
<1>0. Sound(b) /\ MaxLine \in Nat
  BY BufSound, LinesAssumption
<1>1. CASE SubEnd
  <2>1. UNCHANGED <<b, u, has, torn>> /\ op' = NoOp
    BY <1>1 DEF SubEnd, Error, Done, history
  <2> QED  BY <2>1, NoPlace, SameTypes DEF BufInv
<1>2. CASE SubLine
  <2> DEFINE x == [Substituted(b, op.i) EXCEPT !.dot = op.i]
  <2>1. pc = "sub" /\ UNCHANGED <<has, torn>>
    BY <1>2 DEF SubLine, history
  <2>2. CASE pc' = "wild" /\ UNCHANGED <<op, b, u>>
    BY <2>1, <2>2, NoPlace, SameTypes DEF BufInv
  <2>3. CASE /\ op.i <= b.dol /\ pc' = pc /\ UNCHANGED <<b, u>>
             /\ op' = [op EXCEPT !.i = op.i + 1]
    <3>1. PICK v : v = op.i + 1
      OBVIOUS
    <3>2. v \in 0..(MaxLine + 1)
      BY <1>0, <2>3, <3>1 DEF BufInv, OpPlace, Sound
    <3>3. OpPlace'
      BY <2>1, <2>3, <3>1, <3>2 DEF UndoInv, OpShape, BufInv, OpPlace
    <3> QED  BY <2>1, <2>3, <3>3, SameTypes DEF BufInv
  <2>4. ASSUME op.i <= b.dol, tline <= MaxLine
        PROVE  Sound(x) /\ x.dol = b.dol
    <3>1. op.i \in 0..MaxLine /\ op.i \in Int /\ tline \in Line
      BY <1>0, <2>4 DEF UndoInv, OpShape, Sound, Line, BufInv, OpPlace
    <3>2. Typed(x) /\ x.dot = op.i
      BY <1>0, <3>1, SubstitutedTyped
    <3>3. Shape(x) /\ x.dol = b.dol
      BY <3>1, SubstitutedShape DEF UndoInv
    <3> QED  BY <1>0, <3>1, <3>2, <3>3 DEF Sound
  <2>5. CASE /\ op.i <= b.dol /\ pc' = pc /\ b' = x /\ u' = u /\ tline <= MaxLine
             /\ op' = [op EXCEPT !.i = op.i + 1, !.flag = TRUE]
    <3>1. PICK v, f : v = op.i + 1 /\ f = TRUE
      OBVIOUS
    <3>2. v \in 0..(MaxLine + 1)
      BY <1>0, <2>5, <3>1 DEF BufInv, OpPlace, Sound
    <3>3. op' = [op EXCEPT !.i = v, !.flag = f]
      BY <2>5, <3>1
    <3>4. OpPlace'
      BY <2>1, <2>5, <3>3, <3>2 DEF UndoInv, OpShape, BufInv, OpPlace
    <3> HIDE DEF x
    <3> QED  BY <2>1, <2>4, <2>5, <3>4, SameTypes DEF BufInv, Sound
  <2>6. CASE /\ op.i <= b.dol /\ pc' = pc /\ b' = Put(x, tline + 1) /\ tline < MaxLine
             /\ \E d \in Way(x) :
                   /\ Room(x, d)
                   /\ op' = [op EXCEPT !.i = op.i + 2, !.a2 = op.a2 + 1 + d, !.flag = TRUE]
    <3> HIDE DEF x
    <3>1. Typed(u')
      BY <2>6, RoomTypes
    <3>2. PICK v, w, f : v = op.i + 2 /\ op' = [op EXCEPT !.i = v, !.a2 = w, !.flag = f]
      BY <2>6, Zenon
    <3>3. /\ b.dol + 1 <= tline /\ tline < MaxLine /\ tline + 1 \in Line
          /\ tline \in Int /\ b.dol \in Int /\ op.i \in Int /\ op.i >= 0
      BY <1>0, <2>6 DEF UndoInv, Short, Line, OpShape, BufInv, OpPlace, Shape
    <3>4. v \in 0..(MaxLine + 1)
      <4>1. v = op.i + 2
        BY <2>6, <3>2 DEF UndoInv, OpShape
      <4> QED  BY <1>0, <2>6, <3>3, <4>1
    <3>5. OpPlace'
      BY <2>1, <2>6, <3>2, <3>4 DEF UndoInv, OpShape, BufInv, OpPlace
    <3>6. Typed(b') /\ b'.dot >= 0
      <4>1. Sound(x) /\ x.dol < MaxLine
        <5>1. Sound(x) /\ x.dol = b.dol
          BY <2>4, <2>6, <3>3, <1>0
        <5> QED  BY <1>0, <3>3, <5>1
      <4> QED  BY <2>6, <3>3, <4>1, PutTyped
    <3> QED  BY <2>1, <3>1, <3>5, <3>6 DEF BufInv
  <2>7. (~(op.i > b.dol) => op.i <= b.dol)
    BY <1>0 DEF UndoInv, OpShape, Sound
  <2> QED  BY <1>2, <2>2, <2>3, <2>5, <2>6, <2>7 DEF SubLine, Becomes, Wild
<1> QED  BY <1>1, <1>2

LEMMA GlobalTypes ==
    ASSUME UndoInv, BufInv, GlobalMark \/ GlobalPack \/ GlobalNext PROVE BufInv'
<1>0. Sound(b) /\ MaxLine \in Nat
  BY BufSound, LinesAssumption
<1>1. /\ UNCHANGED <<u, has, torn>>
      /\ pc' # "ck" /\ op' \in {op, NoOp}
      /\ \/ /\ \E s \in SUBSET (op.a1..op.a2) : b' = [b EXCEPT !.bits = {b.line[i] : i \in s}]
            /\ pc = "mark"
         \/ b' = [Packed(b) EXCEPT !.bits = {}]
         \/ \E i \in 1..b.dol : b' = Visited(i)
         \/ b' = b
  <2>1. CASE GlobalMark
    BY <2>1, Zenon DEF GlobalMark, history
  <2>2. CASE GlobalPack
    BY <2>2 DEF GlobalPack, Becomes, history
  <2>3. CASE GlobalNext
    BY <2>3 DEF GlobalNext, Found, history
  <2> QED  BY <2>1, <2>2, <2>3
<1>2. CASE /\ \E s \in SUBSET (op.a1..op.a2) : b' = [b EXCEPT !.bits = {b.line[i] : i \in s}]
           /\ pc = "mark"
  <2>1. PICK s \in SUBSET (op.a1..op.a2) : b' = [b EXCEPT !.bits = {b.line[i] : i \in s}]
    BY <1>2
  <2>2. \A i \in s : i \in Slot
    BY <1>0, <1>2 DEF UndoInv, InText, OpShape, Sound, Slot
  <2>3. PICK h : h = {b.line[i] : i \in s}
    OBVIOUS
  <2>4. h \subseteq Line
    BY <2>2, <2>3 DEF BufInv, Typed
  <2>5. Typed(b') /\ b'.dot = b.dot
    BY <2>1, <2>3, <2>4 DEF UndoInv, Shape, BufInv, Typed
  <2> QED  BY <1>1, <2>5, NoPlace, SameTypes DEF BufInv
<1>3. CASE b' = [Packed(b) EXCEPT !.bits = {}]
  <2>1. Shape(Packed(b)) /\ Typed(Packed(b)) /\ Packed(b).dot >= 0
    BY <1>0, PackedTyped, PackedShape, LinesAssumption DEF Sound
  <2>2. Typed(b') /\ b'.dot >= 0
    BY <1>3, <2>1 DEF Shape, Typed
  <2> QED  BY <1>1, <2>2, NoPlace, SameTypes DEF BufInv
<1>4. ASSUME NEW i \in 1..b.dol, b' = Visited(i)
      PROVE  BufInv'
  <2>1. PICK h : h = b.bits \ {b.line[i]} /\ b' = [b EXCEPT !.dot = i, !.bits = h]
    BY <1>4, Zenon DEF Visited
  <2>2. i \in Int /\ i >= 0
    BY <1>0 DEF Sound
  <2>3. Typed(b') /\ b'.dot = i
    BY <2>1, <2>2 DEF UndoInv, Shape, BufInv, Typed
  <2> QED  BY <1>1, <2>2, <2>3, NoPlace, SameTypes DEF BufInv
<1>5. CASE b' = b
  BY <1>1, <1>5, NoPlace, SameTypes DEF BufInv
<1> QED  BY <1>1, <1>2, <1>3, <1>4, <1>5

LEMMA UndoTypes == ASSUME UndoInv, BufInv, Undo PROVE BufInv'
<1>1. /\ u' = b /\ UNCHANGED has /\ torn' = FALSE
      /\ \/ Sane /\ b' = u /\ op' = NoOp
         \/ b' = b /\ op' = op /\ pc' = "wild"
  BY DEF Undo, Becomes, Done, Wild
<1>2. OpPlace'
  BY <1>1, NoPlace DEF BufInv
<1>3. Typed(b') /\ b'.dot >= 0
  BY <1>1 DEF BufInv, Typed, Sane
<1>4. Typed(u')
  BY <1>1 DEF BufInv, Typed
<1> QED  BY <1>1, <1>2, <1>3, <1>4 DEF BufInv

LEMMA WriteTypes ==
    ASSUME BufInv, WriteOpen \/ WriteLines \/ WriteFails \/ WriteEnd PROVE BufInv'
<1>1. /\ UNCHANGED <<b, u, has, torn>> /\ pc' # "ck" /\ op' \in {op, NoOp}
  BY DEF WriteOpen, WriteLines, WriteFails, WriteEnd, Error, Done, Onward, history
<1> QED  BY <1>1, NoPlace, SameTypes DEF BufInv

LEMMA SignalTypes ==
    ASSUME UndoInv, PlaceInv, BufInv, Interrupt \/ Terminate \/ HangUp PROVE BufInv'
<1>1. pc \notin {"over", "wild"}
  BY DEF Interrupt, Terminate, HangUp, Running
<1>2. \/ \E m \in Midway : ~m.bad /\ Leave(m)
      \/ pc' \in {"over", "wild"} /\ UNCHANGED <<b, op, u, has, torn>>
  BY DEF Interrupt, Terminate, HangUp, Undefined, history
<1>3. ASSUME NEW m \in Midway, ~m.bad, Leave(m)
      PROVE  BufInv'
  <2>1. TypedAt(m)
    BY <1>1, <1>3, MidwayTyped
  <2>2. b' = m.b /\ u' = m.u /\ has' = m.has /\ torn' = m.torn /\ op' = NoOp
    BY <1>3 DEF Leave, Error
  <2> QED  BY <2>1, <2>2, NoPlace DEF TypedAt, BufInv, Typed
<1>4. CASE pc' \in {"over", "wild"} /\ UNCHANGED <<b, op, u, has, torn>>
  BY <1>4, NoPlace, SameTypes DEF BufInv
<1> QED  BY <1>2, <1>3, <1>4

LEMMA BufInvInit == Init => BufInv
<1> DEFINE F == [i \in Slot |-> IF i <= 2 THEN i ELSE 0]
           N == [m \in Marks |-> 0]
<1> SUFFICES ASSUME Init PROVE BufInv
  OBVIOUS
<1>1. F \in [Slot -> Line] /\ N \in [Marks -> Line] /\ [i \in Slot |-> 0] \in [Slot -> Line]
  BY LinesAssumption DEF Slot, Line
<1>2. b = [Empty EXCEPT !.line = F, !.dot = 2, !.dol = 2] /\ u = Empty /\ op = NoOp
      /\ has = FALSE /\ torn = FALSE /\ pc = "cmd"
  BY DEF Init
<1>3. Typed(Empty)
  BY <1>1 DEF Empty, Typed
<1>4. PICK l, d : l = F /\ d = 2
  OBVIOUS
<1>5. b = [Empty EXCEPT !.line = l, !.dot = d, !.dol = d]
  BY <1>2, <1>4
<1>6. b.line = l /\ b.dot = d /\ b.name = Empty.name /\ b.bits = Empty.bits
  BY <1>5 DEF Empty
<1>7. Typed(b) /\ b.dot >= 0
  BY <1>1, <1>3, <1>4, <1>6 DEF Typed
<1>8. OpPlace
  <2>1. op.c = "-" /\ op.t = 0 /\ op.i = 0
    BY <1>2 DEF NoOp, Op
  <2> QED  BY <1>2, <2>1, LinesAssumption DEF OpPlace
<1> QED  BY <1>2, <1>3, <1>7, <1>8 DEF BufInv

LEMMA BufInvStep == ASSUME UndoInv, PlaceInv, BufInv, [Next]_vars PROVE BufInv'
<1>1. CASE UNCHANGED vars
  BY <1>1 DEF vars, BufInv, Typed, OpPlace
<1>2. CASE Program
  BY <1>2, CheckpointTypes, AppendTypes, DeleteTypes, MoveTypes, SubTypes, GlobalTypes,
     UndoTypes, WriteTypes DEF Program
<1>3. CASE Command
  BY <1>3, ChangeTypes, CommandTypes, EditTypes DEF Command
<1>4. CASE Interrupt \/ Terminate \/ HangUp
  BY <1>4, SignalTypes
<1> QED  BY <1>1, <1>2, <1>3, <1>4 DEF Next

-----------------------------------------------------------------------------
(* Where ed is, its flags and its files *)

Letters == {"a", "c", "d", "e", "g", "i", "j", "m", "r", "s", "t", "u", "w", "W", "q", "-"}

\* Where ed is, and with which command.
CtlInv ==
    /\ pc \in Running \cup {"cmd", "inner", "glob", "over", "wild"}
    /\ globp \in BOOLEAN
    /\ op.c \in Letters /\ op.flag \in BOOLEAN
    /\ hup.at \in Running \cup {"none", "cmd", "inner", "glob"} /\ hup.lines \subseteq Line

\* The flags, the files and the bounds.
FlagInv ==
    /\ nlall \in Nat /\ fchange \in BOOLEAN /\ wrapp \in BOOLEAN
    /\ disk \in {"whole", "part", "joined"}
    /\ how \in {"temp", "trunc", "append"} /\ wrtemp \in {"none", "part", "full"}
    /\ dirty \in BOOLEAN /\ why \subseteq {"undo", "empty", "signal"}

BoundInv == left.cmd \in 0..MaxCmd /\ left.signal \in 0..MaxSignal

LEMMA RoomFlags ==
    ASSUME FlagInv, NEW x, NEW d, Room(x, d) PROVE nlall' \in Nat
BY EdAssumption DEF FlagInv, Room

LEMMA FlagStep == ASSUME UndoInv, CtlInv, FlagInv, [Next]_vars PROVE FlagInv'
<1>1. CASE UNCHANGED vars
  BY <1>1 DEF vars, FlagInv
<1>2. CASE Checkpoint \/ SubEnd \/ GlobalMark \/ GlobalNext
  <2>1. UNCHANGED <<nlall, fchange, disk, how, dirty, why>> /\ wrapp' \in {wrapp, FALSE}
        /\ wrtemp' \in {wrtemp, "none"}
    BY <1>2 DEF Checkpoint, SubEnd, GlobalMark, GlobalNext, Error, file
  <2> QED  BY <2>1 DEF FlagInv
<1>3. CASE AppendLine
  <2>1. /\ UNCHANGED <<wrapp, disk, how, wrtemp>> /\ fchange' = TRUE /\ why' = {}
        /\ dirty' = (dirty \/ op.c # "e")
    BY <1>3 DEF AppendLine, Noted, file
  <2>2. nlall' \in Nat
    BY <1>3, RoomFlags DEF AppendLine
  <2>3. dirty' \in BOOLEAN
    BY <2>1, Zenon
  <2> QED  BY <2>1, <2>2, <2>3 DEF FlagInv
<1>4. CASE AppendEnd
  <2>1. UNCHANGED <<nlall, wrapp, disk, how, wrtemp, dirty>> /\ why' \in {why, why \cup {"empty"}}
    BY <1>4 DEF AppendEnd, file
  <2>2. fchange' \in {op.flag, FALSE, fchange}
    <3>1. CASE op.c = "r"
      BY <1>4, <3>1 DEF AppendEnd
    <3>2. CASE op.c = "e"
      BY <1>4, <3>2 DEF AppendEnd
    <3>3. CASE op.c \notin {"r", "e"}
      BY <1>4, <3>3 DEF AppendEnd
    <3> QED  BY <3>1, <3>2, <3>3
  <2>3. fchange' \in BOOLEAN
    BY <2>2, Zenon DEF FlagInv, CtlInv
  <2> QED  BY <2>1, <2>3 DEF FlagInv
<1>5. CASE Delete \/ Join \/ GlobalPack
  <2>1. UNCHANGED <<nlall, wrapp, disk, how, wrtemp>> /\ why' \in {why, {}}
    BY <1>5 DEF Delete, Join, GlobalPack, Noted, file
  <2>2. fchange' \in BOOLEAN /\ dirty' \in BOOLEAN
    BY <1>5, Zenon DEF Delete, Join, GlobalPack, Noted, Becomes, FlagInv
  <2> QED  BY <2>1, <2>2 DEF FlagInv
<1>6. CASE Move
  <2>1. /\ UNCHANGED <<nlall, disk, how>> /\ wrapp' \in {wrapp, FALSE}
        /\ wrtemp' \in {wrtemp, "none"} /\ why' \in {why, {}}
    BY <1>6 DEF Move, Noted, Error
  <2>2. fchange' \in BOOLEAN /\ dirty' \in BOOLEAN
    BY <1>6, Zenon DEF Move, Noted, Becomes, FlagInv
  <2> QED  BY <2>1, <2>2 DEF FlagInv
<1>7. CASE SubLine
  <2>1. UNCHANGED <<wrapp, disk, how, wrtemp>> /\ why' \in {why, {}}
    BY <1>7 DEF SubLine, Noted, file
  <2>2. fchange' \in BOOLEAN /\ dirty' \in BOOLEAN
    BY <1>7, Zenon DEF SubLine, Noted, Becomes, FlagInv
  <2>3. nlall' \in Nat
    <3>1. nlall' = nlall \/ \E x, d : Room(x, d)
      BY <1>7, Zenon DEF SubLine
    <3> QED  BY <3>1, RoomFlags DEF FlagInv
  <2> QED  BY <2>1, <2>2, <2>3 DEF FlagInv
<1>8. CASE Undo
  <2>1. UNCHANGED <<nlall, fchange, wrapp, disk, how, wrtemp>> /\ why' \in {why, why \cup {"undo"}}
    BY <1>8 DEF Undo, file
  <2>2. dirty' \in BOOLEAN
    BY <1>8, Zenon DEF Undo, Becomes, FlagInv
  <2> QED  BY <2>1, <2>2 DEF FlagInv
<1>9. CASE WriteOpen \/ WriteLines \/ WriteFails \/ WriteEnd
  <2>1. /\ UNCHANGED nlall /\ disk' \in {disk, "whole", "part", "joined"}
        /\ how' \in {how, "append", "temp", "trunc"} /\ wrtemp' \in {wrtemp, "part", "none", "full"}
        /\ why' \in {why, {}}
    <3>1. CASE WriteOpen
      BY <3>1 DEF WriteOpen
    <3>2. CASE WriteLines
      <4>1. CASE how = "temp"
        BY <3>2, <4>1 DEF WriteLines, PutFile
      <4>2. CASE how = "trunc"
        BY <3>2, <4>2 DEF WriteLines, PutFile
      <4>3. CASE how = "append"
        BY <3>2, <4>3 DEF WriteLines, PutFile
      <4> QED  BY <4>1, <4>2, <4>3 DEF FlagInv
    <3>3. CASE WriteFails
      BY <3>3 DEF WriteFails, Error, Cut
    <3>4. CASE WriteEnd
      BY <3>4 DEF WriteEnd
    <3> QED  BY <1>9, <3>1, <3>2, <3>3, <3>4
  <2>2. fchange' \in BOOLEAN /\ dirty' \in BOOLEAN /\ wrapp' \in BOOLEAN
    BY <1>9, Zenon DEF WriteOpen, WriteLines, WriteFails, WriteEnd, Error, FlagInv
  <2> QED  BY <2>1, <2>2 DEF FlagInv
<1>10. CASE Change \/ Mark \/ UndoBegin \/ WriteBegin
  <2>1. UNCHANGED <<nlall, fchange, disk, how, wrtemp, dirty, why>>
    <3>1. CASE Change
      BY <3>1, Zenon DEF Change, Begin, Same, file
    <3>2. CASE Mark
      BY <3>2, Zenon DEF Mark, Begin, file
    <3>3. CASE UndoBegin
      BY <3>3, Zenon DEF UndoBegin, Begin, Same, file
    <3>4. CASE WriteBegin
      BY <3>4, Zenon DEF WriteBegin, Begin, file
    <3> QED  BY <1>10, <3>1, <3>2, <3>3, <3>4
  <2>2. wrapp' \in BOOLEAN
    <3>1. CASE Change \/ Mark \/ UndoBegin
      BY <3>1, Zenon DEF Change, Mark, UndoBegin, Same, FlagInv
    <3>2. CASE WriteBegin
      BY <3>2, Zenon DEF WriteBegin
    <3> QED  BY <1>10, <3>1, <3>2
  <2> QED  BY <2>1, <2>2 DEF FlagInv
<1>11. CASE Quit
  <2>1. /\ UNCHANGED <<nlall, disk, how>> /\ wrtemp' = "none"
        /\ \/ UNCHANGED <<fchange, dirty, why, wrapp>>
           \/ Warn /\ wrapp' = FALSE
    BY <1>11, Zenon DEF Quit, Begin
  <2> QED  BY <2>1 DEF Warn, FlagInv
<1>12. CASE Edit
  <2>1. /\ UNCHANGED <<nlall, how, wrtemp>> /\ fchange' = FALSE /\ dirty' = FALSE /\ why' = {}
        /\ disk' = "whole" /\ wrapp' \in {wrapp, FALSE}
    BY <1>12 DEF Edit
  <2> QED  BY <2>1 DEF FlagInv
<1>13. CASE Interrupt \/ Terminate \/ HangUp
  <2>1. /\ UNCHANGED <<nlall, how>> /\ disk' \in {disk, "part"} /\ wrtemp' \in {wrtemp, "none"}
        /\ wrapp' \in {wrapp, FALSE} /\ why' \in {why, why \cup {"signal"}, {}}
    BY <1>13, Zenon DEF Interrupt, Terminate, HangUp, Undefined, Leave, Error, Cut, Warn, file
  <2>2. fchange' \in BOOLEAN /\ dirty' \in BOOLEAN
    <3>1. CASE Interrupt
      BY <3>1, Zenon DEF Interrupt, Undefined, FlagInv
    <3>2. CASE Terminate
      BY <3>2, Zenon DEF Terminate, Undefined, Warn, history, FlagInv
    <3>3. CASE HangUp
      BY <3>3, Zenon DEF HangUp, Undefined, history, FlagInv
    <3> QED  BY <1>13, <3>1, <3>2, <3>3
  <2> QED  BY <2>1, <2>2 DEF FlagInv
<1> QED
  BY <1>1, <1>2, <1>3, <1>4, <1>5, <1>6, <1>7, <1>8, <1>9, <1>10, <1>11, <1>12, <1>13
  DEF Next, Program, Command

LEMMA BoundStep == ASSUME LeftInv, BoundInv, [Next]_vars PROVE BoundInv'
<1>1. MaxCmd \in Nat /\ MaxSignal \in Nat
  BY EdAssumption
<1>2. CASE UNCHANGED left
  BY <1>2 DEF BoundInv
<1>3. ASSUME NEW o, NEW next, Begin(o, next)
      PROVE  BoundInv'
  <2>1. Cost(o.c) \in {0, 1, 2}
    BY DEF Cost
  <2>2. left' = [left EXCEPT !.cmd = left.cmd - Cost(o.c)] /\ Cost(o.c) <= left.cmd
    BY <1>3 DEF Begin
  <2>3. PICK n : n = left.cmd - Cost(o.c)
    OBVIOUS
  <2> QED  BY <1>1, <2>1, <2>2, <2>3 DEF LeftInv, BoundInv
<1>4. CASE Edit
  <2>1. left' = [left EXCEPT !.cmd = left.cmd - 1] /\ left.cmd > 0
    BY <1>4 DEF Edit
  <2>2. PICK n : n = left.cmd - 1
    OBVIOUS
  <2> QED  BY <1>1, <2>1, <2>2 DEF LeftInv, BoundInv
<1>5. CASE left.signal > 0 /\ left' = [left EXCEPT !.signal = left.signal - 1]
  <2>2. PICK n : n = left.signal - 1
    OBVIOUS
  <2> QED  BY <1>1, <1>5, <2>2 DEF LeftInv, BoundInv
<1>6. CASE Program
  <2>1. UNCHANGED left
    BY <1>6, Zenon DEF Program, Checkpoint, AppendLine, AppendEnd, Delete, Join, Move, SubLine, SubEnd,
       GlobalMark, GlobalPack, GlobalNext, Undo, WriteOpen, WriteLines, WriteFails, WriteEnd
  <2> QED  BY <2>1, <1>2
<1>7. CASE Command
  <2>1. Edit \/ \E o, next : Begin(o, next)
    BY <1>7, Zenon DEF Command, Change, Mark, UndoBegin, WriteBegin, Quit
  <2> QED  BY <2>1, <1>3, <1>4
<1>8. CASE Interrupt \/ Terminate \/ HangUp
  <2>1. left.signal > 0 /\ left' = [left EXCEPT !.signal = left.signal - 1]
    BY <1>8, Zenon DEF Interrupt, Terminate, HangUp, Undefined, Leave
  <2> QED  BY <2>1, <1>5
<1>9. CASE UNCHANGED vars
  BY <1>9, <1>2 DEF vars
<1> QED  BY <1>6, <1>7, <1>8, <1>9 DEF Next

Plain(o, c) == o.c = c /\ o.flag = FALSE

LEMMA OpLetters ==
    ASSUME NEW c, NEW a1, NEW a2, NEW t PROVE Plain(Op(c, a1, a2, t), c)
BY DEF Op, Plain

\* The commands of Change.
LEMMA ChangeLetters ==
    ASSUME UndoInv, Change PROVE op'.c \in Letters /\ op'.flag \in BOOLEAN
<1>1. /\ \A r \in Nonzero : r \in Ranges
      /\ \A r \in Ranges : r[1] \in Int /\ r[2] \in Int
      /\ \A t \in 0..b.dol : t \in Int
  BY RangesText DEF Nonzero, UndoInv, Shape
<1>2. ASSUME NEW c, NEW a1 \in Int, NEW a2 \in Int, NEW t \in Int
      PROVE  OpShape(Op(c, a1, a2, t))
  BY DEF Op, OpShape
<1>3. ASSUME NEW o, OpShape(o), NEW j
      PROVE  [o EXCEPT !.i = j].c = o.c /\ [o EXCEPT !.i = j].flag = o.flag
  BY <1>3 DEF OpShape
<1>4. ASSUME NEW o, OpShape(o), NEW f
      PROVE  [o EXCEPT !.flag = f].c = o.c /\ [o EXCEPT !.flag = f].flag = f
  BY <1>4 DEF OpShape
<1>5. PICK c \in Letters, r \in Ranges, t \in Int :
         \/ op' = Op(c, r[1], r[2], t)
         \/ \E j : op' = [Op(c, r[1], r[2], t) EXCEPT !.i = j]
         \/ op' = [Op(c, r[1], r[2], t) EXCEPT !.flag = b.dol # 0]
  <2>1. /\ \A c \in {"a", "c", "d", "g", "i", "j", "m", "r", "s", "t"} : c \in Letters
        /\ \A r \in Nonzero : r \in Ranges
        /\ \A t \in 0..b.dol : t \in Int
        /\ 0 \in Int
    BY <1>1 DEF Letters
  <2>2. \/ \E r \in Ranges : op' = Op("a", r[1], r[2], 0)
        \/ \E r \in Nonzero, c \in {"c", "d", "i"} : op' = Op(c, r[1], r[2], 0)
        \/ \E r \in Nonzero : op' = Op("j", r[1], r[2], 0)
        \/ \E r \in Nonzero : op' = [Op("s", r[1], r[2], 0) EXCEPT !.i = r[1]]
        \/ \E r \in Nonzero, t \in 0..b.dol : op' = Op("m", r[1], r[2], t)
        \/ \E r \in Nonzero, t \in 0..b.dol : op' = [Op("t", r[1], r[2], t) EXCEPT !.i = b.dol]
        \/ \E r \in Ranges : op' = [Op("r", r[1], r[2], 0) EXCEPT !.flag = b.dol # 0]
        \/ \E r \in Nonzero : op' = Op("g", r[1], r[2], 0)
    BY Zenon DEF Change, Begin
  <2>3. ASSUME NEW c \in {"a", "c", "d", "g", "i", "j", "m", "r", "s", "t"}, NEW r, NEW t,
               r \in Ranges \/ r \in Nonzero, t = 0 \/ t \in 0..b.dol
        PROVE  c \in Letters /\ r \in Ranges /\ t \in Int
    BY <2>1, <2>3, Zenon
  <2> DEFINE Some(c, r, t) == \/ op' = Op(c, r[1], r[2], t)
                              \/ \E j : op' = [Op(c, r[1], r[2], t) EXCEPT !.i = j]
                              \/ op' = [Op(c, r[1], r[2], t) EXCEPT !.flag = b.dol # 0]
  <2>4. \E c \in {"a", "c", "d", "g", "i", "j", "m", "r", "s", "t"} : \E r, t :
           (r \in Ranges \/ r \in Nonzero) /\ (t = 0 \/ t \in 0..b.dol) /\ Some(c, r, t)
    <3>1. CASE \E r \in Ranges : op' = Op("a", r[1], r[2], 0)
      BY <3>1, Zenon
    <3>2. CASE \E r \in Nonzero, c \in {"c", "d", "i"} : op' = Op(c, r[1], r[2], 0)
      BY <3>2, Zenon
    <3>3. CASE \E r \in Nonzero : op' = Op("j", r[1], r[2], 0)
      BY <3>3, Zenon
    <3>4. CASE \E r \in Nonzero : op' = [Op("s", r[1], r[2], 0) EXCEPT !.i = r[1]]
      <4>1. PICK r \in Nonzero : op' = [Op("s", r[1], r[2], 0) EXCEPT !.i = r[1]]
        BY <3>4
      <4>2. Some("s", r, 0)
        BY <4>1, Zenon
      <4> HIDE DEF Some
      <4> QED  BY <4>2
    <3>5. CASE \E r \in Nonzero, t \in 0..b.dol : op' = Op("m", r[1], r[2], t)
      BY <3>5, Zenon
    <3>6. CASE \E r \in Nonzero, t \in 0..b.dol : op' = [Op("t", r[1], r[2], t) EXCEPT !.i = b.dol]
      <4>1. PICK r \in Nonzero, t \in 0..b.dol : op' = [Op("t", r[1], r[2], t) EXCEPT !.i = b.dol]
        BY <3>6
      <4>2. Some("t", r, t)
        BY <4>1, Zenon
      <4> HIDE DEF Some
      <4> QED  BY <4>2
    <3>7. CASE \E r \in Ranges : op' = [Op("r", r[1], r[2], 0) EXCEPT !.flag = b.dol # 0]
      BY <3>7, Zenon
    <3>8. CASE \E r \in Nonzero : op' = Op("g", r[1], r[2], 0)
      BY <3>8, Zenon
    <3> QED  BY <2>2, <3>1, <3>2, <3>3, <3>4, <3>5, <3>6, <3>7, <3>8, Zenon
  <2> HIDE DEF Some
  <2>5. \E c \in Letters, r \in Ranges, t \in Int : Some(c, r, t)
    BY <2>3, <2>4, Zenon
  <2> QED  BY <2>5 DEF Some
<1>6. PICK o : o = Op(c, r[1], r[2], t)
  OBVIOUS
<1>7. OpShape(o) /\ o.c = c
  <2>1. r[1] \in Int /\ r[2] \in Int
    BY <1>1
  <2>2. OpShape(o)
    BY <1>2, <1>6, <2>1
  <2>3. Plain(o, c)
    BY <1>6, OpLetters
  <2> QED  BY <2>2, <2>3 DEF Plain
<1>8. o.flag = FALSE
  <2>1. Plain(o, c)
    BY <1>6, OpLetters
  <2> QED  BY <2>1 DEF Plain
<1>9. CASE op' = o
  BY <1>7, <1>8, <1>9, Zenon
<1>10. ASSUME NEW j, op' = [o EXCEPT !.i = j]
       PROVE  op'.c \in Letters /\ op'.flag \in BOOLEAN
  BY <1>3, <1>7, <1>8, <1>10, Zenon
<1>11. CASE op' = [o EXCEPT !.flag = b.dol # 0]
  <2>1. (b.dol # 0) \in BOOLEAN
    OBVIOUS
  <2>2. PICK f \in BOOLEAN : f = (b.dol # 0)
    BY <2>1, Zenon
  <2>3. op' = [o EXCEPT !.flag = f]
    BY <1>11, <2>2, Zenon
  <2> QED  BY <1>4, <1>7, <2>2, <2>3, Zenon
<1> QED  BY <1>5, <1>6, <1>9, <1>10, <1>11, Zenon

\* Every other action leaves the letter and the flag, or has them from Op.
LEMMA SameLetters ==
    ASSUME CtlInv, UNCHANGED hup, globp' \in {globp, TRUE, FALSE},
           pc' \in Running \cup {"cmd", "inner", "glob", "over", "wild"},
           op'.c \in Letters, op'.flag \in {op.flag, TRUE, FALSE}
    PROVE  CtlInv'
<1>1. globp' \in BOOLEAN /\ op'.flag \in BOOLEAN
  BY Zenon DEF CtlInv
<1> QED  BY <1>1 DEF CtlInv

LEMMA ProgramCtl == ASSUME UndoInv, CtlInv, Program PROVE CtlInv'
<1>1. NoOp.c \in Letters /\ NoOp.flag = FALSE
  BY DEF NoOp, Op, Letters
<1>2. op.c \in Letters
  BY DEF CtlInv
<1>3. CASE Checkpoint
  <2>1. UNCHANGED <<hup, globp, op>> /\ pc' = Stage /\ pc = "ck"
    BY <1>3 DEF Checkpoint
  <2>2. Stage \in Running
    BY <2>1 DEF Stage, UndoInv, Chosen, Running
  <2> QED  BY <1>2, <2>1, <2>2, SameLetters
<1>4. CASE AppendLine \/ SubLine
  <2>1. /\ UNCHANGED hup /\ globp' \in {globp, FALSE} /\ pc' \in {pc, "wild"}
    BY <1>4, Zenon DEF AppendLine, SubLine, Wild
  <2>2. op'.c = op.c /\ op'.flag \in {op.flag, TRUE}
    <3>1. CASE op' = op
      BY <3>1
    <3>2. ASSUME NEW v, op' = [op EXCEPT !.i = v]
          PROVE  op'.c = op.c /\ op'.flag = op.flag
      BY <3>2 DEF UndoInv, OpShape
    <3>3. ASSUME NEW v, NEW w, op' = [op EXCEPT !.i = v, !.a2 = w, !.flag = TRUE]
          PROVE  op'.c = op.c /\ op'.flag = TRUE
      BY <3>3 DEF UndoInv, OpShape
    <3>4. ASSUME NEW v, op' = [op EXCEPT !.i = v, !.flag = TRUE]
          PROVE  op'.c = op.c /\ op'.flag = TRUE
      BY <3>4 DEF UndoInv, OpShape
    <3>5. \/ op' = op \/ \E v : op' = [op EXCEPT !.i = v]
          \/ \E v : op' = [op EXCEPT !.i = v, !.flag = TRUE]
          \/ \E v, w : op' = [op EXCEPT !.i = v, !.a2 = w, !.flag = TRUE]
      BY <1>4, Zenon DEF AppendLine, SubLine
    <3> QED  BY <3>1, <3>2, <3>3, <3>4, <3>5
  <2>3. pc \in Running \cup {"cmd", "inner", "glob", "over", "wild"}
    BY DEF CtlInv
  <2> QED  BY <1>2, <2>1, <2>2, <2>3, SameLetters
<1>5. CASE AppendEnd
  <2>1. /\ UNCHANGED <<hup, globp>> /\ pc' \in {"move", "glob", "cmd"}
        /\ op' = NoOp \/ \E v, w : op' = [op EXCEPT !.a1 = v, !.a2 = w]
    BY <1>5 DEF AppendEnd, Done, Onward
  <2>2. ASSUME NEW v, NEW w, op' = [op EXCEPT !.a1 = v, !.a2 = w]
        PROVE  op'.c = op.c /\ op'.flag = op.flag
    BY <2>2 DEF UndoInv, OpShape
  <2> QED  BY <1>1, <1>2, <2>1, <2>2, SameLetters DEF Running
<1>6. CASE Delete \/ Join \/ Move \/ SubEnd \/ GlobalMark \/ GlobalPack \/ GlobalNext \/ Undo
  <2>1. /\ UNCHANGED hup /\ globp' \in {globp, TRUE, FALSE} /\ op' \in {op, NoOp}
        /\ pc' \in {"append", "glob", "cmd", "pack", "inner", "wild"}
    BY <1>6, Zenon DEF Delete, Join, Move, SubEnd, GlobalMark, GlobalPack, GlobalNext, Undo, Done, Onward,
       Error, Wild
  <2> QED  BY <1>1, <1>2, <2>1, SameLetters DEF Running
<1>7. CASE WriteOpen \/ WriteLines \/ WriteFails \/ WriteEnd
  <2>1. /\ UNCHANGED hup /\ globp' \in {globp, FALSE} /\ op' \in {op, NoOp}
        /\ pc' \in {"wput", "wdone", "glob", "cmd"}
    BY <1>7 DEF WriteOpen, WriteLines, WriteFails, WriteEnd, Done, Onward, Error
  <2> QED  BY <1>1, <1>2, <2>1, SameLetters DEF Running
<1> QED  BY <1>3, <1>4, <1>5, <1>6, <1>7 DEF Program

LEMMA CommandCtl == ASSUME UndoInv, CtlInv, Command PROVE CtlInv'
<1>1. NoOp.c \in Letters /\ NoOp.flag = FALSE
  BY DEF NoOp, Op, Letters
<1>2. CASE Change
  <2>1. UNCHANGED <<hup, globp>> /\ pc' = "ck"
    BY <1>2, Zenon DEF Change, Begin, Same
  <2>2. op'.c \in Letters /\ op'.flag \in {TRUE, FALSE}
    BY <1>2, ChangeLetters
  <2>3. pc' \in Running
    BY <2>1 DEF Running
  <2> QED  BY <2>1, <2>2, <2>3, SameLetters
<1>3. CASE Mark
  <2>1. UNCHANGED <<hup, globp>> /\ pc' \in {"glob", "cmd"} /\ op' = NoOp
    BY <1>3, Zenon DEF Mark, Begin, Onward
  <2> QED  BY <1>1, <2>1, SameLetters
<1>4. CASE UndoBegin \/ WriteBegin
  <2>1. UNCHANGED <<hup, globp>> /\ pc' \in {"undo", "wopen"}
        /\ \E c \in {"u", "w", "W"} : \E a1, a2 : op' = Op(c, a1, a2, 0)
    BY <1>4, Zenon DEF UndoBegin, WriteBegin, Begin, Same
  <2>2. PICK c \in {"u", "w", "W"} : \E a1, a2 : op' = Op(c, a1, a2, 0)
    BY <2>1
  <2>4. op'.c = c /\ op'.flag = FALSE
    <3>1. Plain(op', c)
      BY <2>2, OpLetters
    <3> QED  BY <3>1 DEF Plain
  <2>3. op'.c \in Letters
    BY <2>4 DEF Letters
  <2> QED  BY <2>1, <2>4, <2>3, SameLetters DEF Running
<1>5. CASE Quit
  <2>1. UNCHANGED hup /\ globp' \in {globp, FALSE} /\ pc' \in {"over", "cmd"}
        /\ op' \in {NoOp, [NoOp EXCEPT !.c = "q"]}
    BY <1>5, Zenon DEF Quit, Begin
  <2>2. op'.c \in Letters /\ op'.flag = FALSE
    BY <2>1 DEF NoOp, Op, Letters
  <2> QED  BY <2>1, <2>2, SameLetters
<1>6. CASE Edit
  <2>1. UNCHANGED <<hup, globp>> /\ pc' \in {"append", "cmd"} /\ op' \in {NoOp, Op("e", 0, 0, 0)}
    BY <1>6 DEF Edit
  <2>2. op'.c \in Letters /\ op'.flag = FALSE
    BY <2>1 DEF NoOp, Op, Letters
  <2> QED  BY <2>1, <2>2, SameLetters DEF Running
<1> QED  BY <1>2, <1>3, <1>4, <1>5, <1>6 DEF Command

LEMMA SignalCtl ==
    ASSUME UndoInv, PlaceInv, BufInv, CtlInv, Interrupt \/ Terminate \/ HangUp PROVE CtlInv'
<1>1. NoOp.c \in Letters /\ NoOp.flag = FALSE
  BY DEF NoOp, Op, Letters
<1>2. op.c \in Letters
  BY DEF CtlInv
<1>3. CASE Interrupt \/ Terminate
  <2>1. UNCHANGED hup /\ globp' \in {globp, FALSE} /\ pc' \in {"over", "cmd", "wild"}
        /\ op' \in {op, NoOp}
    BY <1>3, Zenon DEF Interrupt, Terminate, Undefined, Leave, Error
  <2> QED  BY <1>1, <1>2, <2>1, SameLetters
<1>4. CASE HangUp
  <2>1. PICK m \in Midway :
           \/ m.bad /\ Undefined
           \/ /\ ~m.bad /\ globp' = FALSE /\ pc' = "over" /\ op' = op
              /\ hup' = [at |-> pc, lines |-> IF m.fchange THEN LinesOf(m.b) ELSE {}]
    BY <1>4, Zenon DEF HangUp
  <2>2. CASE m.bad /\ Undefined
    BY <1>2, <2>2, SameLetters DEF Undefined
  <2>3. CASE /\ ~m.bad /\ globp' = FALSE /\ pc' = "over" /\ op' = op
             /\ hup' = [at |-> pc, lines |-> IF m.fchange THEN LinesOf(m.b) ELSE {}]
    <3>1. pc \notin {"over", "wild"}
      BY <1>4 DEF HangUp
    <3>2. TypedAt(m) /\ Kept(m)
      BY <2>3, <3>1, MidwayTyped, MidwayKept
    <3>3. LinesOf(m.b) \subseteq Line
      BY <3>2, LinesAssumption DEF TypedAt, Typed, Kept, Short, LinesOf, Slot
    <3>4. hup'.at = pc /\ hup'.lines \subseteq Line
      BY <2>3, <3>3
    <3> QED  BY <2>3, <3>1, <3>4 DEF CtlInv
  <2> QED  BY <2>1, <2>2, <2>3
<1> QED  BY <1>3, <1>4

TypeInv == UndoInv /\ PlaceInv /\ BufInv /\ CtlInv /\ FlagInv /\ BoundInv

LEMMA TypeStep == ASSUME TypeInv, [Next]_vars PROVE TypeInv'
<1>1. LeftInv
  BY DEF TypeInv, PlaceInv
<1>2. CtlInv'
  <2>1. CASE UNCHANGED vars
    BY <2>1 DEF vars, TypeInv, CtlInv
  <2> QED  BY <2>1, ProgramCtl, CommandCtl, SignalCtl DEF Next, TypeInv
<1> QED
  BY <1>1, <1>2, UndoInvStep, PlaceStep, BufInvStep, FlagStep, BoundStep DEF TypeInv

LEMMA TypeInit == Init => TypeInv
<1> SUFFICES ASSUME Init PROVE TypeInv
  OBVIOUS
<1>1. op.c \in Letters /\ op.flag = FALSE
  BY DEF Init, NoOp, Op, Letters
<1>2. CtlInv
  BY <1>1 DEF Init, CtlInv
<1>3. FlagInv
  BY EdAssumption DEF Init, FlagInv
<1>4. BoundInv
  BY EdAssumption DEF Init, BoundInv
<1> QED  BY <1>2, <1>3, <1>4, InitInv, PlaceInit, BufInvInit DEF TypeInv

LEMMA TypesHold == TypeInv => TypeOK
<1> SUFFICES ASSUME TypeInv PROVE TypeOK
  OBVIOUS
<1>1. op \in [c : Letters, a1 : Int, a2 : Int, t : 0..MaxLine, i : 0..MaxLine + 1, flag : BOOLEAN]
  <2>1. OpShape(op) /\ op.t \in 0..MaxLine /\ op.i \in 0..MaxLine + 1
    BY DEF TypeInv, UndoInv, BufInv, OpPlace
  <2>2. op.c \in Letters /\ op.flag \in BOOLEAN
    BY DEF TypeInv, CtlInv
  <2> QED  BY <2>1, <2>2 DEF OpShape
<1>2. b \in Buffer
  <2>1. Sound(b) /\ b.dol \in Nat
    BY BufSound, LinesAssumption DEF TypeInv, Sound
  <2> QED  BY <2>1 DEF Sound, Shape, Typed, Buffer
<1>3. u \in [line : [Slot -> Line], dot : Int, dol : Int, name : [Marks -> Line],
             bits : SUBSET Line]
  BY DEF TypeInv, UndoInv, BufInv, Shape, Typed
<1> QED
  BY <1>1, <1>2, <1>3
  DEF TypeOK, TypeInv, UndoInv, BufInv, CtlInv, FlagInv, BoundInv, Letters

-----------------------------------------------------------------------------
(* What a hang-up leaves out *)

\* The lines of x that y has not.
Lost(x, y) == LinesOf(x) \ LinesOf(y)

\* So many slots hold no more lines.
LEMMA FewLines ==
    ASSUME NEW f, NEW S, IsFiniteSet(S), NEW T, T \subseteq {f[i] : i \in S}
    PROVE  IsFiniteSet(T) /\ Cardinality(T) <= Cardinality(S)
<1> DEFINE I == {f[i] : i \in S}
           g == [i \in S |-> f[i]]
<1>1. g \in Surjection(S, I)
  BY DEF Surjection
<1>2. IsFiniteSet(I) /\ Cardinality(I) <= Cardinality(S)
  <2> HIDE DEF g, I
  <2> QED  BY <1>1, FS_Surjection
<1>3. IsFiniteSet(T) /\ Cardinality(T) <= Cardinality(I)
  <2> HIDE DEF I
  <2>1. T \in SUBSET I
    BY DEF I
  <2> QED  BY <1>2, <2>1, FS_Subset
<1>4. Cardinality(T) \in Nat /\ Cardinality(I) \in Nat /\ Cardinality(S) \in Nat
  BY <1>2, <1>3, FS_CardinalityType
<1> HIDE DEF I
<1> QED  BY <1>2, <1>3, <1>4

\* append() in the middle of moving the lines up has them all.
LEMMA PutPartsLines ==
    ASSUME NEW x, Sound(x), x.dol < MaxLine, NEW y \in PutParts(x)
    PROVE  Lost(x, y) = {}
<1> DEFINE n == x.dol + 1
           F(k) == [i \in Slot |-> IF i > k /\ i <= x.dol + 1 THEN x.line[i - 1] ELSE x.line[i]]
<1>1. n \in Int /\ x.dol \in 0..MaxLine /\ MaxLine \in Nat /\ x.dot + 1 \in Int
  BY LinesAssumption DEF Sound, Shape
<1>2. ASSUME y = [x EXCEPT !.dol = n]
      PROVE  Lost(x, y) = {}
  <2>1. y.dol = n /\ y.line = x.line
    <3> HIDE DEF n
    <3> QED  BY <1>2 DEF Sound, Shape
  <2> QED  BY <1>1, <2>1 DEF Lost, LinesOf
<1>3. ASSUME NEW k \in Int, NEW d, y = [x EXCEPT !.dol = n, !.dot = d, !.line = F(k)]
      PROVE  Lost(x, y) = {}
  <2>1. y.dol = n /\ y.line = F(k)
    <3> HIDE DEF n, F
    <3> QED  BY <1>3 DEF Sound, Shape
  <2>2. ASSUME NEW j \in 1..x.dol
        PROVE  \E i \in 1..n : F(k)[i] = x.line[j]
    <3>1. CASE j <= k
      <4>1. j \in Slot /\ j \in 1..n /\ ~(j > k)
        BY <1>1, <3>1 DEF Slot
      <4>2. F(k)[j] = x.line[j]
        BY <4>1
      <4> QED  BY <4>1, <4>2
    <3>2. CASE j > k
      <4>1. j + 1 \in Slot /\ j + 1 \in 1..n /\ j + 1 > k /\ j + 1 <= x.dol + 1 /\ j + 1 - 1 = j
        BY <1>1, <3>2 DEF Slot
      <4>2. F(k)[j + 1] = x.line[j]
        BY <4>1
      <4> QED  BY <4>1, <4>2
    <3> QED  BY <1>1, <3>1, <3>2
  <2> HIDE DEF F, n
  <2> QED  BY <2>1, <2>2 DEF Lost, LinesOf
<1>4. \/ \E k \in ((x.dot + 1)..x.dol) \cup {x.dol + 1} :
             y = [x EXCEPT !.dol = n, !.dot = x.dot + 1, !.line = F(k)]
      \/ y = [x EXCEPT !.dol = n]
  BY DEF PutParts
<1>5. \A k \in ((x.dot + 1)..x.dol) \cup {x.dol + 1} : k \in Int
  BY <1>1
<1> HIDE DEF F, n
<1> QED  BY <1>2, <1>3, <1>4, <1>5

\* The slots whose lines rdelete() may lose: those it deletes, and as many at the end.
Ends(x, a1, a2) == (a1..a2) \cup ((x.dol - (a2 - a1))..x.dol)

LEMMA DeletedPartsLines ==
    ASSUME NEW x, Sound(x), NEW a1 \in 1..MaxLine, NEW a2 \in a1..x.dol,
           NEW y \in DeletedParts(x, a1, a2)
    PROVE  Lost(x, y) \subseteq {x.line[i] : i \in Ends(x, a1, a2)}
<1> DEFINE w == a2 - a1 + 1
           n == x.dol - w
           F(k) == [i \in Slot |-> IF i >= a1 /\ i <= k THEN x.line[i + w] ELSE x.line[i]]
<1>1. n \in Nat /\ MaxLine \in Nat /\ w \in Nat /\ n + w = x.dol /\ x.dol \in 0..MaxLine
      /\ a1 \in Int /\ a2 \in Int
  BY LinesAssumption DEF Sound, Shape
<1>2. PICK k \in (a1 - 1)..n : y = [x EXCEPT !.dol = n, !.line = F(k)]
  BY Zenon DEF DeletedParts, Close
<1>3. y.dol = n /\ y.line = F(k)
  <2> HIDE DEF n, F
  <2> QED  BY <1>2 DEF Sound, Shape
<1>4. ASSUME NEW j \in 1..x.dol, j \notin Ends(x, a1, a2)
      PROVE  \E i \in 1..n : F(k)[i] = x.line[j]
  <2>0. (j < a1 \/ j > a2) /\ j <= n
    BY <1>1, <1>4 DEF Ends
  <2>1. CASE j < a1
    <3>1. j \in Slot /\ j \in 1..n /\ ~(j >= a1)
      BY <1>1, <2>0, <2>1 DEF Slot
    <3>2. F(k)[j] = x.line[j]
      BY <3>1
    <3> QED  BY <3>1, <3>2
  <2>2. CASE j > a2 /\ j - w <= k
    <3>1. j - w \in Slot /\ j - w \in 1..n /\ j - w >= a1 /\ j - w <= k /\ j - w + w = j
      BY <1>1, <2>0, <2>2 DEF Slot
    <3>2. F(k)[j - w] = x.line[j]
      BY <3>1
    <3> QED  BY <3>1, <3>2
  <2>3. CASE j > a2 /\ j - w > k
    <3>1. j \in Slot /\ j \in 1..n /\ ~(j <= k)
      BY <1>1, <1>2, <2>0, <2>3 DEF Slot
    <3>2. F(k)[j] = x.line[j]
      BY <3>1
    <3> QED  BY <3>1, <3>2
  <2> QED  BY <1>1, <1>2, <2>0, <2>1, <2>2, <2>3
<1> HIDE DEF F, n
<1> QED  BY <1>3, <1>4 DEF Lost, LinesOf

LEMMA EndsFew ==
    ASSUME NEW x, Sound(x), NEW a1 \in 1..MaxLine, NEW a2 \in a1..x.dol
    PROVE  IsFiniteSet(Ends(x, a1, a2)) /\ Cardinality(Ends(x, a1, a2)) <= 2 * (a2 - a1 + 1)
<1> DEFINE A == a1..a2
           e == x.dol - (a2 - a1)
           B == e..x.dol
<1>1. a1 \in Int /\ a2 \in Int /\ x.dol \in Int /\ e \in Int /\ a1 <= a2
  BY LinesAssumption DEF Sound, Shape
<1>2. IsFiniteSet(A) /\ Cardinality(A) = a2 - a1 + 1
  <2>1. IsFiniteSet(A) /\ Cardinality(A) = IF a1 > a2 THEN 0 ELSE a2 - a1 + 1
    BY <1>1, FS_Interval
  <2> QED  BY <1>1, <2>1
<1>3. IsFiniteSet(B) /\ Cardinality(B) = a2 - a1 + 1
  <2>1. IsFiniteSet(B) /\ Cardinality(B) = IF e > x.dol THEN 0 ELSE x.dol - e + 1
    <3> HIDE DEF e
    <3> QED  BY <1>1, FS_Interval
  <2> QED  BY <1>1, <2>1
<1> HIDE DEF A, B
<1>4. /\ IsFiniteSet(A \cup B) /\ Cardinality(A \cap B) \in Nat
      /\ Cardinality(A \cup B) = Cardinality(A) + Cardinality(B) - Cardinality(A \cap B)
  <2>1. A \cap B \in SUBSET A
    OBVIOUS
  <2>2. IsFiniteSet(A \cap B)
    BY <2>1, <1>2, FS_Subset
  <2> QED  BY <1>2, <1>3, <2>2, FS_Union, FS_CardinalityType
<1>5. Ends(x, a1, a2) = A \cup B
  BY DEF Ends, A, B
<1> QED  BY <1>1, <1>2, <1>3, <1>4, <1>5

\* The lines in the first n slots.
Upto(f, n) == {f[i] : i \in 1..n}

LEMMA ReversedUpto ==
    ASSUME NEW f, NEW n \in 0..MaxLine, NEW lo \in 1..(n + 1), NEW hi \in 1..(n + 1)
    PROVE  Upto(f, n) \subseteq Upto(Reversed(f, lo, hi), n)
<1>0. MaxLine \in Nat
  BY LinesAssumption
<1>1. ASSUME NEW j \in 1..n
      PROVE  \E i \in 1..n : Reversed(f, lo, hi)[i] = f[j]
  <2>1. CASE j >= lo /\ j < hi
    <3>1. lo + hi - 1 - j \in Slot /\ lo + hi - 1 - j \in 1..n /\ lo + hi - 1 - j >= lo
          /\ lo + hi - 1 - j < hi /\ lo + hi - 1 - (lo + hi - 1 - j) = j
      BY <1>0, <2>1 DEF Slot
    <3>2. Reversed(f, lo, hi)[lo + hi - 1 - j] = f[j]
      BY <3>1 DEF Reversed
    <3> QED  BY <3>1, <3>2
  <2>2. CASE ~(j >= lo /\ j < hi)
    <3>1. j \in Slot
      BY <1>0 DEF Slot
    <3>2. Reversed(f, lo, hi)[j] = f[j]
      BY <2>2, <3>1 DEF Reversed
    <3> QED  BY <3>2
  <2> QED  BY <2>1, <2>2
<1> QED  BY <1>1 DEF Upto

\* In the middle of an exchange one line is in no slot.
LEMMA ReversedPartUpto ==
    ASSUME NEW f, NEW n \in 0..MaxLine, NEW lo \in 1..(n + 1), NEW hi \in 1..(n + 1),
           NEW p \in ReversedParts(f, lo, hi)
    PROVE  \E z : Upto(f, n) \ Upto(p, n) \subseteq {z}
<1>0. MaxLine \in Nat
  BY LinesAssumption
<1>1. PICK k \in 0..MaxLine, half \in BOOLEAN :
         2 * k < hi - lo - 1 /\ p = ReversedPart(f, lo, hi, k, half)
  BY DEF ReversedParts
<1> DEFINE S == (lo..(lo + k - 1)) \cup ((hi - k)..(hi - 1)) \cup (IF half THEN {hi - 1 - k} ELSE {})
<1>2. ASSUME NEW j \in 1..n, j # hi - 1 - k
      PROVE  \E i \in 1..n : p[i] = f[j]
  <2>1. CASE j \in S
    <3>1. j \in (lo..(lo + k - 1)) \cup ((hi - k)..(hi - 1))
      BY <1>0, <1>2, <2>1
    <3>2. lo + hi - 1 - j \in Slot /\ lo + hi - 1 - j \in 1..n
          /\ lo + hi - 1 - j \in (lo..(lo + k - 1)) \cup ((hi - k)..(hi - 1))
          /\ lo + hi - 1 - (lo + hi - 1 - j) = j
      BY <1>0, <1>1, <3>1 DEF Slot
    <3>3. p[lo + hi - 1 - j] = f[j]
      BY <1>1, <3>2 DEF ReversedPart
    <3> QED  BY <3>2, <3>3
  <2>2. CASE j \notin S
    <3>1. j \in Slot
      BY <1>0 DEF Slot
    <3>2. p[j] = f[j]
      BY <1>1, <2>2, <3>1 DEF ReversedPart
    <3> QED  BY <3>2
  <2> QED  BY <2>1, <2>2
<1>3. Upto(f, n) \ Upto(p, n) \subseteq {f[hi - 1 - k]}
  BY <1>2 DEF Upto
<1> QED  BY <1>3

LEMMA TurnsUpto ==
    ASSUME NEW n \in 0..MaxLine, NEW a1 \in 1..n, NEW a2 \in a1..n, NEW t \in 0..n, t \notin a1..a2,
           NEW j \in 1..3
    PROVE  Turns(a1, a2, t)[j][1] \in 1..(n + 1) /\ Turns(a1, a2, t)[j][2] \in 1..(n + 1)
<1> DEFINE r == Turns(a1, a2, t)
<1>1. MaxLine \in Nat
  BY LinesAssumption
<1>2. CASE t < a1
  <2>1. r = << <<t + 1, a1>>, <<a1, a2 + 1>>, <<t + 1, a2 + 1>> >>
    BY <1>2 DEF Turns
  <2> HIDE DEF r
  <2>2. /\ r[1][1] = t + 1 /\ r[1][2] = a1 /\ r[2][1] = a1 /\ r[2][2] = a2 + 1
        /\ r[3][1] = t + 1 /\ r[3][2] = a2 + 1
    BY <2>1
  <2>3. r[j][1] \in 1..(n + 1) /\ r[j][2] \in 1..(n + 1)
    BY <1>1, <1>2, <2>2
  <2> QED  BY <2>3 DEF r
<1>3. CASE ~(t < a1)
  <2>1. r = << <<a1, a2 + 1>>, <<a2 + 1, t + 1>>, <<a1, t + 1>> >>
    BY <1>3 DEF Turns
  <2> HIDE DEF r
  <2>2. /\ r[1][1] = a1 /\ r[1][2] = a2 + 1 /\ r[2][1] = a2 + 1 /\ r[2][2] = t + 1
        /\ r[3][1] = a1 /\ r[3][2] = t + 1
    BY <2>1
  <2>3. r[j][1] \in 1..(n + 1) /\ r[j][2] \in 1..(n + 1)
    BY <1>1, <1>3, <2>2
  <2> QED  BY <2>3 DEF r
<1> QED  BY <1>2, <1>3

\* move() in the middle of its reversals.
LEMMA MovedPartsLines ==
    ASSUME NEW x, Sound(x), NEW a1 \in 1..x.dol, NEW a2 \in a1..x.dol, NEW t \in 0..x.dol,
           t \notin a1..a2, NEW y \in MovedParts(x, a1, a2, t)
    PROVE  \E z : Lost(x, y) \subseteq {z}
<1> DEFINE r == Turns(a1, a2, t)
           n == x.dol
           f == x.line
<1>1. n \in 0..MaxLine
  BY DEF Sound
<1>2. PICK j \in 1..3 : \E p \in ReversedParts(Turned(f, r, j - 1), r[j][1], r[j][2]) :
                           y = [x EXCEPT !.dot = MovedDot(a1, a2, t), !.line = p]
  BY DEF MovedParts
<1>3. PICK p \in ReversedParts(Turned(f, r, j - 1), r[j][1], r[j][2]) :
         y = [x EXCEPT !.dot = MovedDot(a1, a2, t), !.line = p]
  BY <1>2
<1>4. y.dol = n /\ y.line = p
  BY <1>3 DEF Sound, Shape
<1>5. \A i \in 1..3 : r[i][1] \in 1..(n + 1) /\ r[i][2] \in 1..(n + 1)
  BY <1>1, TurnsUpto
<1> HIDE DEF r, n, f
<1>6. \A g : \A i \in 1..3 : Upto(g, n) \subseteq Upto(Turn(g, r[i]), n)
  BY <1>1, <1>5, ReversedUpto DEF Turn
<1>7. Upto(f, n) \subseteq Upto(Turned(f, r, j - 1), n)
  <2>1. CASE j = 1
    BY <2>1 DEF Turned
  <2>2. CASE j = 2
    <3>1. Turned(f, r, j - 1) = Turn(f, r[1])
      BY <2>2 DEF Turned
    <3> QED  BY <1>6, <3>1
  <2>3. CASE j = 3
    <3>1. PICK one : one = Turn(f, r[1])
      OBVIOUS
    <3>2. Turned(f, r, j - 1) = Turn(one, r[2])
      BY <2>3, <3>1 DEF Turned
    <3>3. Upto(f, n) \subseteq Upto(one, n) /\ Upto(one, n) \subseteq Upto(Turn(one, r[2]), n)
      BY <1>6, <3>1
    <3> QED  BY <3>2, <3>3
  <2> QED  BY <2>1, <2>2, <2>3
<1>8. PICK g : g = Turned(f, r, j - 1)
  OBVIOUS
<1>9. PICK z : Upto(g, n) \ Upto(p, n) \subseteq {z}
  BY <1>1, <1>5, <1>8, ReversedPartUpto
<1>10. LinesOf(x) = Upto(f, n) /\ LinesOf(y) = Upto(p, n)
  BY <1>4 DEF LinesOf, Upto, n, f
<1> QED  BY <1>7, <1>8, <1>9, <1>10 DEF Lost

\* gdelete() in the middle of its scan has lost no line but some of those it deletes.
LEMMA ScannedLines ==
    ASSUME NEW x, Sound(x), NEW j \in 0..x.dol
    PROVE  Lost(x, Scanned(x, j)) \subseteq x.bits
<1> DEFINE hit == {i \in 1..j : x.line[i] \in x.bits}
           kept(k) == (1..k) \ hit
           source(i) == {k \in (1..j) \ hit : Cardinality(kept(k)) = i}
           F == [i \in Slot |-> IF source(i) = {} THEN x.line[i]
                                ELSE x.line[CHOOSE k \in source(i) : TRUE]]
           y == Scanned(x, j)
<1>0. MaxLine \in Nat /\ x.dol \in 0..MaxLine /\ j \in Nat
  BY LinesAssumption DEF Sound
<1>1. y.dol = x.dol /\ y.line = F
  <2>1. PICK d : y = [x EXCEPT !.line = F, !.dot = d]
    BY Zenon DEF Scanned
  <2> HIDE DEF F, y
  <2> QED  BY <2>1 DEF Sound, Shape
<1>2. ASSUME NEW k \in Nat
      PROVE  IsFiniteSet(kept(k)) /\ Cardinality(kept(k)) \in 0..k
  <2>1. IsFiniteSet(1..k) /\ Cardinality(1..k) = k
    <3>1. IsFiniteSet(1..k) /\ Cardinality(1..k) = IF 1 > k THEN 0 ELSE k - 1 + 1
      BY FS_Interval
    <3> QED  BY <3>1
  <2>2. kept(k) \in SUBSET (1..k)
    OBVIOUS
  <2> HIDE DEF kept
  <2> QED  BY <2>1, <2>2, FS_Subset, FS_CardinalityType
<1>3. ASSUME NEW k \in Nat, NEW l \in (1..j) \ hit, k < l
      PROVE  Cardinality(kept(k)) < Cardinality(kept(l))
  <2>1. l \in Nat /\ kept(k) \in SUBSET kept(l) /\ l \in kept(l) /\ l \notin kept(k)
    BY <1>0, <1>3
  <2>2. IsFiniteSet(kept(l)) /\ Cardinality(kept(k)) \in Nat /\ Cardinality(kept(l)) \in Nat
    BY <1>2, <1>3, <2>1
  <2> HIDE DEF kept
  <2> QED  BY <2>1, <2>2, FS_Subset
<1>4. ASSUME NEW i \in 1..x.dol, x.line[i] \notin x.bits
      PROVE  \E c \in 1..x.dol : F[c] = x.line[i]
  <2>1. CASE i > j
    <3>1. source(i) = {}
      <4>1. ASSUME NEW k \in (1..j) \ hit
            PROVE  Cardinality(kept(k)) # i
        <5>1. k \in Nat /\ k < i
          BY <1>0, <2>1
        <5> HIDE DEF kept, hit
        <5> QED  BY <1>2, <2>1, <5>1
      <4> HIDE DEF kept
      <4> QED  BY <4>1
    <3>2. i \in Slot
      BY <1>0 DEF Slot
    <3> HIDE DEF source
    <3>3. F[i] = x.line[i]
      BY <3>1, <3>2
    <3> QED  BY <3>3
  <2>2. CASE i <= j
    <3> DEFINE c == Cardinality(kept(i))
    <3>1. i \in (1..j) \ hit /\ i \in Nat
      BY <1>0, <1>4, <2>2
    <3>2. c \in 1..x.dol /\ c \in Slot
      <4>1. c \in 0..i /\ Cardinality(kept(0)) \in 0..0 /\ Cardinality(kept(0)) < c
        BY <1>2, <1>3, <3>1
      <4> HIDE DEF c, kept
      <4> QED  BY <1>0, <4>1 DEF Slot
    <3>3. source(c) = {i}
      <4>1. \A k \in (1..j) \ hit : Cardinality(kept(k)) = c => k = i
        <5> SUFFICES ASSUME NEW k \in (1..j) \ hit, k # i PROVE Cardinality(kept(k)) # c
          OBVIOUS
        <5>1. k \in Nat /\ (k < i \/ i < k)
          BY <1>0, <3>1
        <5>2. Cardinality(kept(k)) \in Nat /\ Cardinality(kept(i)) \in Nat
          BY <1>2, <3>1, <5>1
        <5>3. Cardinality(kept(k)) < Cardinality(kept(i)) \/ Cardinality(kept(i)) < Cardinality(kept(k))
          BY <1>3, <3>1, <5>1
        <5> HIDE DEF kept
        <5> QED  BY <5>2, <5>3
      <4> HIDE DEF kept, hit
      <4> QED  BY <3>1, <4>1
    <3> HIDE DEF source, c
    <3>4. F[c] = x.line[CHOOSE k \in source(c) : TRUE]
      BY <3>2, <3>3
    <3>5. (CHOOSE k \in source(c) : TRUE) = i
      BY <3>3
    <3> QED  BY <3>2, <3>4, <3>5
  <2>3. i > j \/ i <= j
    BY <1>0
  <2> QED  BY <2>1, <2>2, <2>3
<1> HIDE DEF F, y
<1>5. Lost(x, y) \subseteq x.bits
  BY <1>1, <1>4 DEF Lost, LinesOf
<1> QED  BY <1>5 DEF y

\* fchange is never cleared in the middle of a command.
LEMMA MidwayChanged ==
    ASSUME NEW m \in Midway, ~m.bad, fchange = TRUE
    PROVE  m.fchange = TRUE
<1>1. ASSUME NEW x, NEW y, m = At(x, y)
      PROVE  m.fchange = TRUE
  BY <1>1 DEF At
<1>2. ASSUME NEW x, NEW n, m = Stored(x, n)
      PROVE  m.fchange = TRUE
  BY <1>2 DEF Stored, At
<1>3. ASSUME NEW x, NEW y, NEW h, NEW t, m = [At(x, y) EXCEPT !.has = h, !.torn = t]
      PROVE  m.fchange = TRUE
  BY <1>3 DEF At
<1>5. ASSUME NEW x, NEW y, NEW t, m = [At(x, y) EXCEPT !.torn = t]
      PROVE  m.fchange = TRUE
  BY <1>5 DEF At
<1>6. m # [At(b, u) EXCEPT !.bad = TRUE]
  BY DEF At
<1>4. \/ \E x, y : m = At(x, y)
      \/ \E x, n : m = Stored(x, n)
      \/ \E x, y, h, t : m = [At(x, y) EXCEPT !.has = h, !.torn = t]
      \/ \E x, y, t : m = [At(x, y) EXCEPT !.torn = t]
      \/ m = [At(b, u) EXCEPT !.bad = TRUE]
  <2>1. CASE m \in CheckpointParts
    BY <2>1, Zenon DEF CheckpointParts
  <2>2. CASE m \in AppendParts
    BY <2>2, Zenon DEF AppendParts
  <2>3. CASE m \in JoinParts
    BY <2>3, Zenon DEF JoinParts
  <2>4. CASE m \in MoveParts
    BY <2>4, Zenon DEF MoveParts
  <2>5. CASE m \in SubParts
    BY <2>5, Zenon DEF SubParts
  <2>6. CASE m \in UndoParts
    BY <2>6, Zenon DEF UndoParts
  <2>7. CASE \E x : m = At(x, u)
    BY <2>7
  <2> QED  BY <2>1, <2>2, <2>3, <2>4, <2>5, <2>6, <2>7 DEF Midway
<1>7. CASE \E x, y : m = At(x, y)
  BY <1>1, <1>7
<1>8. CASE \E x, n : m = Stored(x, n)
  BY <1>2, <1>8
<1>9. CASE \E x, y, h, t : m = [At(x, y) EXCEPT !.has = h, !.torn = t]
  <2>1. PICK x, y, h, t : m = [At(x, y) EXCEPT !.has = h, !.torn = t]
    BY <1>9
  <2> QED  BY <1>3, <2>1
<1>10. CASE \E x, y, t : m = [At(x, y) EXCEPT !.torn = t]
  <2>1. PICK x, y, t : m = [At(x, y) EXCEPT !.torn = t]
    BY <1>10
  <2> QED  BY <1>5, <2>1
<1> QED  BY <1>4, <1>6, <1>7, <1>8, <1>9, <1>10

LEMMA AtLines ==
    ASSUME NEW x PROVE At(x, u).b = x /\ \A n : Stored(x, n).b = x
BY DEF At, Stored

\* How many lines of the text the states in the middle of a command may lack.
MayLack == CASE pc \in {"move", "sub"} -> 1
             [] pc = "delete" -> 2 * (op.a2 - op.a1 + 1)
             [] pc = "join" -> 2 * (op.a2 - op.a1) + 1
             [] pc = "pack" -> Cardinality(b.bits)
             [] OTHER -> 0

Lacks(m, n) == Cardinality(Lost(b, m.b)) <= n

LEMMA NoneLost ==
    ASSUME NEW m, Lost(b, m.b) = {} PROVE \A n \in Nat : Lacks(m, n)
<1>1. Cardinality(Lost(b, m.b)) = 0
  BY FS_EmptySet
<1> QED  BY <1>1 DEF Lacks

LEMMA OneLost ==
    ASSUME NEW m, NEW z, Lost(b, m.b) \subseteq {z} PROVE Lacks(m, 1)
<1>1. IsFiniteSet({z}) /\ Cardinality({z}) = 1
  BY FS_Singleton
<1>2. Lost(b, m.b) \in SUBSET {z}
  OBVIOUS
<1>3. Cardinality(Lost(b, m.b)) <= 1
  BY <1>1, <1>2, FS_Subset
<1> QED  BY <1>3 DEF Lacks

LEMMA MidwayLacks ==
    ASSUME TypeInv, pc \notin {"over", "wild", "undo"}, NEW m \in Midway, ~m.bad
    PROVE  Lacks(m, MayLack)
<1>0. Sound(b) /\ MaxLine \in Nat /\ b.dol \in 0..MaxLine /\ UndoInv /\ PlaceInv /\ BufInv
  BY BufSound, LinesAssumption DEF TypeInv, Sound
<1>1. ASSUME m.b = b
      PROVE  \A n \in Nat : Lacks(m, n)
  <2>1. Lost(b, m.b) = {}
    BY <1>1 DEF Lost
  <2> QED  BY <2>1, NoneLost
<1>2. At(b, u).b = b
  BY AtLines
<1>3. CASE pc = "ck" /\ ~globp
  <2>1. m \in CheckpointParts /\ MayLack = 0
    BY <1>3 DEF Midway, MayLack
  <2>2. m = At(b, u) \/ \E y, h : m = [At(b, y) EXCEPT !.has = h, !.torn = TRUE]
    BY <2>1, Zenon DEF CheckpointParts
  <2>3. ASSUME NEW y, NEW h, m = [At(b, y) EXCEPT !.has = h, !.torn = TRUE]
        PROVE  m.b = b
    BY <2>3 DEF At
  <2> QED  BY <1>1, <1>2, <2>1, <2>2, <2>3
<1>4. CASE pc = "append"
  <2>1. MayLack = 0
    BY <1>4 DEF MayLack
  <2>2. \/ m = At(b, u)
        \/ tline <= MaxLine /\ \E x \in PutParts(b) : m = Stored(x, 1)
    BY <1>4 DEF Midway, AppendParts, More, At
  <2>3. ASSUME tline <= MaxLine, NEW x \in PutParts(b), m = Stored(x, 1)
        PROVE  Lost(b, m.b) = {}
    <3>1. b.dol < MaxLine
      BY <1>0, <2>3 DEF UndoInv, Short
    <3>2. m.b = x
      BY <2>3, AtLines
    <3> QED  BY <1>0, <3>1, <3>2, PutPartsLines
  <2> QED  BY <1>1, <1>2, <2>1, <2>2, <2>3, NoneLost
<1>5. CASE pc = "delete"
  <2>1. MayLack = 2 * (op.a2 - op.a1 + 1)
    BY <1>5 DEF MayLack
  <2>2. op.a1 \in 1..MaxLine /\ op.a2 \in op.a1..b.dol /\ op.a1 \in Int /\ op.a2 \in Int
    BY <1>0, <1>5 DEF UndoInv, InText, OpShape, Sound
  <2>3. m = At(b, u) \/ \E x \in DeletedParts(b, op.a1, op.a2) : m = At(x, u)
    BY <1>5 DEF Midway
  <2>4. CASE m = At(b, u)
    <3>1. MayLack \in Nat
      BY <1>0, <2>1, <2>2
    <3> QED  BY <1>1, <1>2, <2>4, <3>1
  <2>5. ASSUME NEW x \in DeletedParts(b, op.a1, op.a2), m = At(x, u)
        PROVE  Lacks(m, MayLack)
    <3>1. Lost(b, x) \subseteq {b.line[i] : i \in Ends(b, op.a1, op.a2)}
      BY <1>0, <2>2, DeletedPartsLines
    <3>2. IsFiniteSet(Ends(b, op.a1, op.a2))
          /\ Cardinality(Ends(b, op.a1, op.a2)) <= 2 * (op.a2 - op.a1 + 1)
      BY <1>0, <2>2, EndsFew
    <3>3. IsFiniteSet(Lost(b, x)) /\ Cardinality(Lost(b, x)) <= Cardinality(Ends(b, op.a1, op.a2))
      BY <3>1, <3>2, FewLines
    <3>4. Cardinality(Lost(b, x)) \in Nat /\ Cardinality(Ends(b, op.a1, op.a2)) \in Nat
      BY <3>2, <3>3, FS_CardinalityType
    <3>5. m.b = x
      BY <2>5, AtLines
    <3> QED  BY <2>1, <2>2, <3>2, <3>3, <3>4, <3>5 DEF Lacks
  <2> QED  BY <2>3, <2>4, <2>5
<1>6. CASE pc = "join"
  <2> DEFINE y == Replaced(b, op.a1)
  <2>1. MayLack = 2 * (op.a2 - op.a1) + 1
    BY <1>6 DEF MayLack
  <2>2. /\ op.a1 \in 1..MaxLine /\ op.a2 \in op.a1..b.dol /\ op.a1 \in Int /\ op.a2 \in Int
        /\ tline \in Line /\ op.a1 \in 0..MaxLine /\ b.dol \in Int
    BY <1>0, <1>6 DEF UndoInv, InText, Spare, OpShape, Sound, Line
  <2>3. MayLack \in Nat
    BY <1>0, <2>1, <2>2
  <2>4. Sound(y) /\ y.dol = b.dol /\ \A j \in 1..b.dol : j # op.a1 => y.line[j] = b.line[j]
    <3>1. Shape(y) /\ y.dol = b.dol
      BY <2>2, SubstitutedShape DEF UndoInv, TypeInv
    <3>2. Typed(y) /\ y.dot = b.dot
      BY <1>0, <2>2, SubstitutedTyped
    <3>3. y.line = [b.line EXCEPT ![op.a1] = tline]
      <4>1. PICK f : f = [b.line EXCEPT ![op.a1] = tline]
        OBVIOUS
      <4>2. y = [b EXCEPT !.line = f]
        BY <4>1 DEF Replaced
      <4> HIDE DEF y
      <4> QED  BY <4>1, <4>2 DEF TypeInv, UndoInv, Shape
    <3>4. \A j \in 1..b.dol : j \in Slot
      BY <1>0 DEF Slot
    <3>5. b.line \in [Slot -> Line]
      BY <1>0 DEF Sound, Typed
    <3>6. \A j \in 1..b.dol : j # op.a1 => y.line[j] = b.line[j]
      BY <3>3, <3>4, <3>5
    <3> QED  BY <1>0, <3>1, <3>2, <3>6 DEF Sound
  <2>5. \/ m = At(b, u)
        \/ /\ op.a1 # op.a2
           /\ \E x \in {b, y} \cup DeletedParts(y, op.a1 + 1, op.a2) : m = Stored(x, 1)
    BY <1>6 DEF Midway, JoinParts
  <2>6. Lost(b, y) \subseteq {b.line[op.a1]}
    <3> HIDE DEF y
    <3> QED  BY <2>4 DEF Lost, LinesOf
  <2>7. CASE m = At(b, u)
    BY <1>1, <1>2, <2>3, <2>7
  <2>8. ASSUME NEW x \in {b, y}, m = Stored(x, 1)
        PROVE  Lacks(m, MayLack)
    <3>1. m.b = x
      BY <2>8, AtLines
    <3>2. Lost(b, x) \subseteq {b.line[op.a1]}
      BY <2>6, <2>8 DEF Lost
    <3>3. Lacks(m, 1)
      BY <3>1, <3>2, OneLost
    <3>4. IsFiniteSet(Lost(b, m.b))
      BY <3>1, <3>2, FS_Singleton, FS_Subset
    <3>5. Cardinality(Lost(b, m.b)) \in Nat
      BY <3>4, FS_CardinalityType
    <3> QED  BY <2>1, <2>2, <3>3, <3>5 DEF Lacks
  <2>9. ASSUME op.a1 # op.a2, NEW x \in DeletedParts(y, op.a1 + 1, op.a2), m = Stored(x, 1)
        PROVE  Lacks(m, MayLack)
    <3>1. m.b = x
      BY <2>9, AtLines
    <3>2. PICK p \in Int : p = op.a1 + 1
      BY <2>2
    <3>3. p \in 1..MaxLine /\ op.a2 \in p..y.dol
      BY <1>0, <2>2, <2>4, <2>9, <3>2
    <3> DEFINE E == Ends(y, p, op.a2)
               J == E \cup {op.a1}
    <3>4. Lost(y, x) \subseteq {y.line[i] : i \in E}
      <4> HIDE DEF y
      <4> QED  BY <2>4, <2>9, <3>2, <3>3, DeletedPartsLines
    <3>5. Lost(b, x) \subseteq {b.line[i] : i \in J}
      <4>1. Lost(b, x) \subseteq Lost(b, y) \cup Lost(y, x)
        BY DEF Lost
      <4>2. E \subseteq 1..b.dol
        BY <2>2, <2>4, <3>2, <3>3 DEF Ends
      <4>3. \A i \in E : i # op.a1 => y.line[i] = b.line[i]
        <5> HIDE DEF y, E
        <5> QED  BY <2>4, <4>2
      <4>4. \A i \in E : y.line[i] \in LinesOf(y)
        <5> HIDE DEF E, y
        <5> QED  BY <2>4, <4>2 DEF LinesOf
      <4>5. ASSUME NEW l \in Lost(b, x), l \notin Lost(b, y)
            PROVE  \E i \in J : l = b.line[i]
        <5>1. PICK j \in 1..b.dol : l = b.line[j]
          BY <4>5 DEF Lost, LinesOf
        <5>2. CASE j = op.a1
          BY <5>1, <5>2
        <5>3. CASE j # op.a1
          <6>1. l = y.line[j] /\ l \in LinesOf(y)
            <7> HIDE DEF y
            <7> QED  BY <2>4, <5>1, <5>3 DEF LinesOf
          <6>2. l \in Lost(y, x)
            BY <4>5, <6>1 DEF Lost
          <6>3. PICK i \in E : l = y.line[i]
            BY <3>4, <6>2
          <6>4. CASE i # op.a1
            BY <4>3, <6>3, <6>4
          <6>5. CASE i = op.a1
            <7>1. i \notin E
              BY <2>2, <2>4, <3>2, <3>3, <6>5, <2>9, <1>0 DEF Ends
            <7> QED  BY <7>1
          <6> QED  BY <6>4, <6>5
        <5> QED  BY <5>2, <5>3
      <4>6. Lost(b, y) \subseteq {b.line[i] : i \in J}
        BY <2>6
      <4> HIDE DEF J, y
      <4> QED  BY <4>5, <4>6
    <3>6. IsFiniteSet(E) /\ Cardinality(E) <= 2 * (op.a2 - p + 1)
      <4> HIDE DEF y
      <4> QED  BY <2>4, <3>3, EndsFew
    <3>7. IsFiniteSet(J) /\ Cardinality(J) <= Cardinality(E) + 1 /\ Cardinality(E) \in Nat
          /\ Cardinality(J) \in Nat
      <4> HIDE DEF E
      <4>1. IsFiniteSet(J)
        BY <3>6, FS_AddElement
      <4>2. Cardinality(J) = IF op.a1 \in E THEN Cardinality(E) ELSE Cardinality(E) + 1
        BY <3>6, FS_AddElement
      <4>3. Cardinality(E) \in Nat /\ Cardinality(J) \in Nat
        BY <3>6, <4>1, FS_CardinalityType
      <4> QED  BY <4>1, <4>2, <4>3
    <3>8. IsFiniteSet(Lost(b, x)) /\ Cardinality(Lost(b, x)) <= Cardinality(J)
      <4> HIDE DEF J
      <4> QED  BY <3>5, <3>7, FewLines
    <3>9. Cardinality(Lost(b, x)) \in Nat
      BY <3>8, FS_CardinalityType
    <3> HIDE DEF E, J, y
    <3> QED  BY <2>1, <2>2, <3>1, <3>2, <3>6, <3>7, <3>8, <3>9 DEF Lacks
  <2> QED  BY <2>5, <2>7, <2>8, <2>9
<1>7. CASE pc = "move"
  <2>1. MayLack = 1
    BY <1>7 DEF MayLack
  <2>2. op.a1 \in 1..b.dol /\ op.a2 \in op.a1..b.dol /\ op.t \in 0..b.dol
    BY <1>0, <1>7, MovePlaces
  <2>3. PICK x : x = Unmarked
    OBVIOUS
  <2>4. Sound(x) /\ x.dol = b.dol /\ x.line = b.line
    <3>1. PICK s \in SUBSET Line : Unmarked = [b EXCEPT !.bits = s]
      BY <1>0 DEF Unmarked, BufInv, Typed
    <3> QED  BY <1>0, <2>3, <3>1 DEF Sound, Shape, Typed
  <2>5. m = At(b, u) \/ (Legal /\ \E y \in MovedParts(x, op.a1, op.a2, op.t) : m = At(y, u))
    <3>1. m \in MoveParts
      BY <1>7 DEF Midway
    <3>2. m = At(b, u) \/ (Legal /\ \E y \in MovedParts(Unmarked, op.a1, op.a2, op.t) : m = At(y, u))
      BY <3>1, Zenon DEF MoveParts
    <3> QED  BY <2>3, <3>2
  <2>6. ASSUME Legal, NEW y \in MovedParts(x, op.a1, op.a2, op.t), m = At(y, u)
        PROVE  Lacks(m, 1)
    <3>1. PICK z : Lost(x, y) \subseteq {z}
      BY <2>2, <2>4, <2>6, MovedPartsLines DEF Legal
    <3>2. Lost(b, m.b) = Lost(x, y)
      BY <2>4, <2>6, AtLines DEF Lost, LinesOf
    <3> QED  BY <3>1, <3>2, OneLost
  <2> QED  BY <1>1, <1>2, <2>1, <2>5, <2>6
<1>8. CASE pc = "sub"
  <2> DEFINE x == [Substituted(b, op.i) EXCEPT !.dot = op.i]
  <2>1. MayLack = 1
    BY <1>8 DEF MayLack
  <2>2. \/ m = At(b, u)
        \/ /\ tline < MaxLine /\ op.i <= b.dol
           /\ \/ \E y \in {b, Renamed(b, op.i), x} : m = Stored(y, 1)
              \/ \E y \in PutParts(x) : m = Stored(y, 2)
    <3>1. m \in SubParts /\ m # [At(b, u) EXCEPT !.bad = TRUE]
      BY <1>8 DEF Midway, At
    <3>2. ~(tline >= MaxLine) => tline < MaxLine
      BY <1>0 DEF UndoInv
    <3>3. ~(op.i > b.dol) => op.i <= b.dol
      BY <1>0 DEF UndoInv, OpShape, Sound
    <3> QED  BY <3>1, <3>2, <3>3, Zenon DEF SubParts
  <2>3. ASSUME tline < MaxLine, op.i <= b.dol
        PROVE  /\ Sound(x) /\ x.dol = b.dol /\ Lost(b, x) \subseteq {b.line[op.i]}
               /\ Lost(b, Renamed(b, op.i)) = {}
    <3>1. op.i \in 0..MaxLine /\ op.i \in Int /\ tline \in Line
      BY <1>0, <2>3 DEF UndoInv, OpShape, Sound, Line, BufInv, OpPlace
    <3>2. Typed(x) /\ x.dot = op.i
      BY <1>0, <3>1, SubstitutedTyped
    <3>3. Shape(x) /\ x.dol = b.dol
      BY <1>0, <3>1, SubstitutedShape DEF UndoInv
    <3>4. PICK y : y = Renamed(b, op.i)
      OBVIOUS
    <3>5. Shape(y) /\ y.dol = b.dol /\ y.line = b.line
      BY <1>0, <3>4 DEF Renamed, UndoInv, Shape
    <3>6. PICK f : f = [b.line EXCEPT ![op.i] = tline]
      OBVIOUS
    <3>7. x = [y EXCEPT !.line = f, !.dot = op.i]
      BY <3>4, <3>5, <3>6 DEF Substituted, Replaced
    <3>8. x.line = f
      <4> HIDE DEF x
      <4> QED  BY <3>5, <3>7 DEF Shape
    <3>9. \A j \in 1..b.dol : j # op.i => f[j] = b.line[j]
      <4>1. \A j \in 1..b.dol : j \in Slot
        BY <1>0 DEF Slot
      <4>2. b.line \in [Slot -> Line]
        BY <1>0 DEF Sound, Typed
      <4> QED  BY <3>6, <4>1, <4>2
    <3>10. Lost(b, x) \subseteq {b.line[op.i]}
      <4> HIDE DEF x
      <4> QED  BY <3>3, <3>8, <3>9 DEF Lost, LinesOf
    <3>11. Lost(b, y) = {}
      BY <3>5 DEF Lost, LinesOf
    <3> HIDE DEF x
    <3>12. Sound(x)
      BY <1>0, <3>1, <3>2, <3>3 DEF Sound
    <3> QED  BY <3>3, <3>4, <3>10, <3>11, <3>12
  <2> HIDE DEF x
  <2>4. ASSUME tline < MaxLine, op.i <= b.dol, NEW y \in {b, Renamed(b, op.i), x}, m = Stored(y, 1)
        PROVE  Lacks(m, 1)
    <3>1. m.b = y
      BY <2>4, AtLines
    <3>2. Lost(b, y) \subseteq {b.line[op.i]}
      BY <2>3, <2>4 DEF Lost
    <3> QED  BY <3>1, <3>2, OneLost
  <2>5. ASSUME tline < MaxLine, op.i <= b.dol, NEW y \in PutParts(x), m = Stored(y, 2)
        PROVE  Lacks(m, 1)
    <3>1. m.b = y
      BY <2>5, AtLines
    <3>2. x.dol < MaxLine
      BY <1>0, <2>3, <2>5 DEF UndoInv, Short
    <3>3. Lost(x, y) = {}
      BY <2>3, <2>5, <3>2, PutPartsLines
    <3>4. Lost(b, y) \subseteq {b.line[op.i]}
      BY <2>3, <2>5, <3>3 DEF Lost
    <3> QED  BY <3>1, <3>4, OneLost
  <2> QED  BY <1>1, <1>2, <2>1, <2>2, <2>4, <2>5
<1>9. CASE pc = "pack"
  <2>1. MayLack = Cardinality(b.bits)
    BY <1>9 DEF MayLack
  <2>2. PICK j \in 0..b.dol : m = At(Scanned(b, j), u)
    BY <1>9 DEF Midway
  <2>3. Lost(b, m.b) \in SUBSET b.bits
    BY <1>0, <2>2, ScannedLines, AtLines
  <2>4. IsFiniteSet(b.bits)
    <3>1. IsFiniteSet(Line)
      BY <1>0, FS_Interval DEF Line
    <3>2. b.bits \in SUBSET Line
      BY <1>0 DEF Sound, Typed
    <3> QED  BY <3>1, <3>2, FS_Subset
  <2> QED  BY <2>1, <2>3, <2>4, FS_Subset DEF Lacks
<1>10. CASE /\ ~(pc = "ck" /\ ~globp)
            /\ pc \notin {"append", "delete", "join", "move", "sub", "pack", "undo"}
  <2>1. m = At(b, u) /\ MayLack = 0
    BY <1>10 DEF Midway, MayLack
  <2> QED  BY <1>1, <1>2, <2>1
<1> QED  BY <1>3, <1>4, <1>5, <1>6, <1>7, <1>8, <1>9, <1>10

\* A hang-up ends ed, and left all lines but those that MayMiss counts.
HupInv ==
    /\ hup.at # "none" => pc = "over"
    /\ pc = "over" /\ hup.at \notin {"none", "undo"} /\ dirty /\ why = {}
        => Cardinality(LinesOf(b) \ hup.lines) <= MayMiss

\* No other step ends in a state after a hang-up.
LEMMA HupElse ==
    ASSUME HupInv, pc # "over", UNCHANGED hup PROVE HupInv'
BY DEF HupInv

LEMMA HangUpLeaves == ASSUME TypeInv, WarnInv, HupInv, HangUp PROVE HupInv'
<1>1. pc \notin {"over", "wild"}
  BY DEF HangUp
<1>2. CASE Undefined
  <2>1. UNCHANGED hup
    BY <1>2 DEF Undefined
  <2> QED  BY <1>1, <2>1, HupElse
<1>3. CASE ~Undefined
  <2>1. PICK m \in Midway :
           /\ ~m.bad /\ pc' = "over" /\ UNCHANGED <<op, b, dirty, why>>
           /\ hup' = [at |-> pc, lines |-> IF m.fchange THEN LinesOf(m.b) ELSE {}]
    BY <1>3, Zenon DEF HangUp, history
  <2>2. hup'.at = pc
    BY <2>1
  <2>3. ASSUME pc # "undo", dirty, why = {}
        PROVE  Cardinality(LinesOf(b') \ hup'.lines) <= MayMiss'
    <3>1. fchange = TRUE
      <4>1. fchange
        BY <2>3 DEF WarnInv
      <4> QED  BY <4>1, Zenon DEF TypeInv, FlagInv
    <3>2. m.fchange = TRUE
      BY <2>1, <3>1, MidwayChanged
    <3>3. hup'.lines = LinesOf(m.b)
      BY <2>1, <3>2
    <3>4. Lacks(m, MayLack)
      BY <1>1, <2>1, <2>3, MidwayLacks
    <3>5. MayMiss' = MayLack
      BY <2>1, <2>2 DEF MayMiss, MayLack
    <3>6. LinesOf(b') \ hup'.lines = Lost(b, m.b)
      BY <2>1, <3>3 DEF Lost, LinesOf
    <3> QED  BY <3>4, <3>5, <3>6 DEF Lacks
  <2> QED  BY <2>1, <2>2, <2>3 DEF HupInv
<1> QED  BY <1>2, <1>3

LEMMA HupStep == ASSUME TypeInv, WarnInv, HupInv, [Next]_vars PROVE HupInv'
<1>1. CASE UNCHANGED vars
  BY <1>1 DEF vars, HupInv, LinesOf, MayMiss
<1>2. CASE Program
  <2>1. pc # "over" /\ UNCHANGED hup
    BY <1>2, Zenon DEF Program, Checkpoint, AppendLine, AppendEnd, Delete, Join, Move, SubLine, SubEnd,
       GlobalMark, GlobalPack, GlobalNext, Undo, WriteOpen, WriteLines, WriteFails, WriteEnd
  <2> QED  BY <2>1, HupElse
<1>3. CASE Command
  <2>1. UNCHANGED hup /\ (pc = "cmd" \/ pc = "inner")
    <3>1. CASE Edit
      BY <3>1 DEF Edit
    <3>2. ASSUME NEW o, NEW next, Begin(o, next)
          PROVE  UNCHANGED hup /\ (pc = "cmd" \/ pc = "inner")
      BY <3>2 DEF Begin
    <3>3. Edit \/ \E o, next : Begin(o, next)
      BY <1>3, Zenon DEF Command, Change, Mark, UndoBegin, WriteBegin, Quit
    <3> QED  BY <3>1, <3>2, <3>3
  <2> QED  BY <2>1, HupElse
<1>4. CASE Interrupt \/ Terminate
  <2>1. pc # "over" /\ UNCHANGED hup
    <3>1. CASE Interrupt
      BY <3>1 DEF Interrupt, Running, Undefined, Leave
    <3>2. CASE Terminate
      BY <3>2, Zenon DEF Terminate, Undefined, Leave
    <3> QED  BY <1>4, <3>1, <3>2
  <2> QED  BY <2>1, HupElse
<1> QED  BY <1>1, <1>2, <1>3, <1>4, HangUpLeaves DEF Next

\* After a hang-up, whatever ed was doing and for any number of lines, commands and signals,
\* ed.hup has the lines of an unsaved text, but for at most as many as MayMiss counts: one in
\* move() and substitute(), in rdelete() and join() those that go and as many at the end, in
\* gdelete() as many as there are marked ones (onhup(), and the loops it may come into).  And
\* the arrays, the addresses and the flags are as declared all along.
THEOREM HangUpSaves == Spec => []HupSaves
<1>1. Init => TypeInv /\ WarnInv /\ HupInv
  <2>1. Init => HupInv
    BY DEF Init, HupInv
  <2>2. Init => WarnInv
    BY DEF Init, WarnInv
  <2> QED  BY <2>1, <2>2, TypeInit
<1>2. TypeInv /\ WarnInv /\ HupInv /\ [Next]_vars => (TypeInv /\ WarnInv /\ HupInv)'
  <2>1. TypeInv => UndoInv
    BY DEF TypeInv
  <2> QED  BY <2>1, TypeStep, WarnStep, HupStep
<1>3. TypeInv /\ HupInv => HupSaves
  BY TypesHold DEF HupInv, HupSaves
<1> QED  BY <1>1, <1>2, <1>3, PTL DEF Spec

=============================================================================
