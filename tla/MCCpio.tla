------------------------------- MODULE MCCpio -------------------------------
(* a and b are the links of one file, c and d two of the three of another, v and w those  *)
(* of an empty one; s is a file by itself.  The archives of others have the data with     *)
(* each link, or with the first.                                                          *)
EXTENDS Cpio

CONSTANTS a, b, c, d, v, w, s, ab, cd, vw, sole

MCName == {a, b, c, d, v, w, s}
MCFileOf == [n \in MCName |-> CASE n \in {a, b} -> ab [] n \in {c, d} -> cd [] n \in {v, w} -> vw
                                [] OTHER -> sole]
MCNLink == [x \in {ab, cd, vw, sole} |-> CASE x = cd -> 3 [] x = sole -> 1 [] OTHER -> 2]
MCLists == {<<a, b>>, <<a, b, a, b>>, <<a, s, b>>, <<c, d>>, <<v, w>>, <<v>>}

Put1(n, data) == [name |-> n, data |-> data]
MCForeign == {<<Put1(a, TRUE), Put1(b, TRUE)>>, <<Put1(a, TRUE), Put1(b, FALSE)>>,
              <<Put1(c, FALSE), Put1(d, FALSE)>>}

MCWanted == {MCName, MCName \ {a}}

\* The links of a file may be links of one old file.
Id(n) == CASE n = a -> 1 [] n = b -> 2 [] n = c -> 3 [] n = d -> 4 [] n = v -> 5 [] n = w -> 6
           [] n = s -> 7
MCTargets ==
    {[dir |-> [n \in MCName |-> IF n \in there THEN IF joined /\ n = b THEN 1 ELSE Id(n) ELSE 0],
      ino |-> [j \in 1..7 |-> [what |-> "old", of |-> CHOOSE n \in MCName : Id(n) = j,
                               fresh |-> \E n \in fresh : Id(n) = j]]] :
      there \in {x \cup y : x \in SUBSET {a, b}, y \in {{}, {d, w, s}}},
      fresh \in {{}, {a}, {b, s}}, joined \in BOOLEAN}
=============================================================================
