------------------------------- MODULE MCSort -------------------------------
(* Two lines, two files to a merge, one line of memory; names of two letters out of two,  *)
(* so that they have to grow longer.                                                      *)
EXTENDS Sort

UpTo(n) == UNION {[1..k -> {1, 2}] : k \in 0..n}

MCInputs == {<<f>> : f \in UpTo(5)}
            \cup (UpTo(2) \X UpTo(2))
            \cup (UpTo(1) \X UpTo(2) \X UpTo(1))
            \cup {<<f, g, h, i>> : f \in UpTo(1), g \in UpTo(1), h \in UpTo(1), i \in UpTo(1)}
=============================================================================
