-------------------------------- MODULE MCMv --------------------------------
(* A directory d with two names a and b of one file, a subdirectory e with a symbolic    *)
(* link f, and n and o, which come later; and a file g. With a alone at first, b may     *)
(* come when a has been copied.                                                          *)
EXTENDS Mv, TLC

CONSTANTS d, a, b, e, f, n, o, g

MCNode == {d, a, b, e, f, n, o, g}
MCUp == [p \in MCNode |-> CASE p \in {a, b, e, n} -> d [] p \in {f, o} -> e [] OTHER -> None]
MCAbove == LET above[p \in MCNode] ==
                   {p} \cup IF MCUp[p] = None THEN {} ELSE above[MCUp[p]]
           IN above
MCKind == [p \in MCNode |-> CASE p \in {d, e} -> "dir" [] p = f -> "symlink" [] OTHER -> "file"]
MCIno == [p \in MCNode |-> IF p = b THEN a ELSE p]
MCOperands == <<d, g>>
MCStarts == {{d}, {g}, {d, a}, {d, e, f}, {d, a, b, g}}
MCBound == [fail |-> 1, other |-> 1, run |-> 1]
=============================================================================
