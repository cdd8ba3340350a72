------------------------------- MODULE EdLines -------------------------------
(***************************************************************************)
(* ed/ed.c: what append(), rdelete(), gdelete(), join() and move() do to   *)
(* the array of line pointers, and what they may leave of it when a signal *)
(* takes the program out of their loops.                                   *)
(*                                                                         *)
(* A buffer is a record: line is the array behind zero, of which the slots *)
(* 1..dol are the text; dot and dol are counted from zero; name holds the  *)
(* marks, bits the lines with the low bit set, which a g has yet to visit. *)
(* A line is the number putline() gave it, 0 for what a slot holds that    *)
(* was never written.                                                      *)
(***************************************************************************)
EXTENDS Integers, Sequences, FiniteSets

CONSTANTS
    Marks,      \* the letters of k
    MaxLine     \* bound: the lines putline() gives out

ASSUME LinesAssumption == MaxLine \in Nat /\ MaxLine > 1

Slot == 1..MaxLine
Line == 0..MaxLine
Buffer == [line : [Slot -> Line], dot : Nat, dol : Nat, name : [Marks -> Line],
           bits : SUBSET Line]

Empty == [line |-> [i \in Slot |-> 0], dot |-> 0, dol |-> 0, name |-> [m \in Marks |-> 0],
          bits |-> {}]

Text(x) == SubSeq(x.line, 1, x.dol)
LinesOf(x) == {x.line[i] : i \in 1..x.dol}
Snap(x) == [text |-> Text(x), dot |-> x.dot, name |-> x.name]

-----------------------------------------------------------------------------
(* append(): one line *)

Put(x, id) ==
    [x EXCEPT !.dol = @ + 1, !.dot = @ + 1,
              !.line = [i \in Slot |-> IF i = x.dot + 1 THEN id
                                       ELSE IF i > x.dot + 1 /\ i <= x.dol + 1 THEN @[i - 1]
                                       ELSE @[i]]]

\* The first line is moved first.
SlipPutParts(x) ==
    {[x EXCEPT !.dol = @ + 1, !.dot = @ + 1,
               !.line = [i \in Slot |-> IF i > x.dot + 1 /\ i <= k THEN @[x.dot + 1] ELSE @[i]]] :
        k \in (x.dot + 1)..(x.dol + 1)}

\* dol and dot are counted up first; then the lines move up, the last one first.
PutParts(x) ==
    {[x EXCEPT !.dol = @ + 1, !.dot = @ + 1,
               !.line = [i \in Slot |-> IF i > k /\ i <= x.dol + 1 THEN @[i - 1] ELSE @[i]]] :
        k \in ((x.dot + 1)..x.dol) \cup {x.dol + 1}}
    \cup {[x EXCEPT !.dol = @ + 1]}

-----------------------------------------------------------------------------
(* rdelete() and gdelete() *)

Close(f, from, n, last) ==
    [i \in Slot |-> IF i >= from /\ i <= last THEN f[i + n] ELSE f[i]]

Deleted(x, a1, a2) ==
    LET n == a2 - a1 + 1
    IN [x EXCEPT !.line = Close(@, a1, n, x.dol - n), !.dol = @ - n,
                 !.dot = IF a1 > x.dol - n THEN x.dol - n ELSE a1]

\* dol is reduced first, dot set last.
DeletedParts(x, a1, a2) ==
    LET n == a2 - a1 + 1
    IN {[x EXCEPT !.dol = @ - n, !.line = Close(@, a1, n, k)] : k \in (a1 - 1)..(x.dol - n)}

\* g/.../d: after the scan has come to line j, the lines kept so far are packed, each behind as
\* many as were kept before it; dot is on the one that takes the place of a line that was
\* dropped, the first one excepted.
Scanned(x, j) ==
    LET hit == {i \in 1..j : x.line[i] \in x.bits}
        source(i) == {k \in (1..j) \ hit : Cardinality((1..k) \ hit) = i}
    IN [x EXCEPT !.line = [i \in Slot |-> IF source(i) = {} THEN x.line[i]
                                           ELSE x.line[CHOOSE k \in source(i) : TRUE]],
                 !.dot = IF Cardinality(hit) < 2 THEN @
                         ELSE Cardinality({i \in (1..j) \ hit : \E k \in hit : i < k}) + 1]

\* dol is reduced last.
Packed(x) ==
    LET n == Cardinality({i \in 1..x.dol : x.line[i] \notin x.bits})
        y == Scanned(x, x.dol)
    IN IF n = x.dol THEN x ELSE [y EXCEPT !.dol = n, !.dot = IF @ > n THEN n ELSE @]

-----------------------------------------------------------------------------
(* move(): three calls of reverse() on the half open ranges from lo to hi *)

Reversed(f, lo, hi) ==
    [i \in Slot |-> IF i >= lo /\ i < hi THEN f[lo + hi - 1 - i] ELSE f[i]]

\* After k exchanges; and with the upper half of the next one, t holding the line it replaces.
ReversedPart(f, lo, hi, k, half) ==
    [i \in Slot |-> IF i \in (lo..(lo + k - 1)) \cup ((hi - k)..(hi - 1))
                              \cup (IF half THEN {hi - 1 - k} ELSE {})
                    THEN f[lo + hi - 1 - i] ELSE f[i]]

ReversedParts(f, lo, hi) ==
    {ReversedPart(f, lo, hi, k, half) : k \in {j \in 0..MaxLine : 2 * j < hi - lo - 1},
                                        half \in BOOLEAN}

\* The ranges that bring the lines a1 to a2 behind line t; and a slip, one line further.
SlipTurns(a1, a2, t) ==
    IF t < a1 THEN << <<t + 1, a1>>, <<a1, a2 + 1>>, <<t + 1, a2 + 1>> >>
              ELSE << <<a1, a2 + 1>>, <<a2 + 1, t>>, <<a1, t>> >>

Turns(a1, a2, t) ==
    IF t < a1 THEN << <<t + 1, a1>>, <<a1, a2 + 1>>, <<t + 1, a2 + 1>> >>
              ELSE << <<a1, a2 + 1>>, <<a2 + 1, t + 1>>, <<a1, t + 1>> >>

Turn(f, r) == Reversed(f, r[1], r[2])

\* The array after the first n reversals.
Turned(f, turns, n) ==
    LET one == Turn(f, turns[1])
        two == Turn(one, turns[2])
    IN CASE n = 0 -> f
         [] n = 1 -> one
         [] n = 2 -> two
         [] n = 3 -> Turn(two, turns[3])

MovedDot(a1, a2, t) == IF t < a1 THEN t + (a2 + 1 - a1) ELSE t

Moved(x, a1, a2, t) ==
    [x EXCEPT !.dot = MovedDot(a1, a2, t),
              !.line = IF t + 1 = a1 THEN @ ELSE Turned(@, Turns(a1, a2, t), 3)]

MovedParts(x, a1, a2, t) ==
    UNION {{[x EXCEPT !.dot = MovedDot(a1, a2, t), !.line = p] :
               p \in ReversedParts(Turned(x.line, Turns(a1, a2, t), j - 1),
                                   Turns(a1, a2, t)[j][1], Turns(a1, a2, t)[j][2])} : j \in 1..3}

\* What m promises: the lines a1 to a2 of the text, behind line t of it.
Rearranged(s, a1, a2, t) ==
    LET moved == SubSeq(s, a1, a2)
    IN IF t < a1 THEN SubSeq(s, 1, t) \o moved \o SubSeq(s, t + 1, a1 - 1)
                      \o SubSeq(s, a2 + 1, Len(s))
       ELSE SubSeq(s, 1, a1 - 1) \o SubSeq(s, a2 + 1, t) \o moved \o SubSeq(s, t + 1, Len(s))

=============================================================================
