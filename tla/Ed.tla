--------------------------------- MODULE Ed ---------------------------------
(***************************************************************************)
(* ed/ed.c: the editor ed.  Its text is an array of line pointers; a       *)
(* second array, filled by checkpoint(), keeps the text as it was before   *)
(* the last command, and undo() exchanges the two.  SIGINT and, as long as *)
(* there are changes, SIGTERM leave whatever runs by a longjmp() to main();*)
(* SIGHUP writes the text it finds to ed.hup.                              *)
(*                                                                         *)
(* ed is one process: only a signal sees what is between two steps of a    *)
(* command, so a command is one action, or one for every line, and Midway  *)
(* is the set of the states that a signal may find.                        *)
(*                                                                         *)
(* Left out: the commands that change nothing here but dot (a without a    *)
(* line does that); v, G and V, which are g with another choice of lines;  *)
(* r, w, W, q and e from the command list of a g, which has one command    *)
(* here for every line; regular expressions and what the lines hold (a     *)
(* match is a choice); the errors and the size of the temporary file.      *)
(***************************************************************************)
EXTENDS EdLines

CONSTANTS
    Nlall,      \* nlall: the lines there is room for at first, the zeroth included
    Grow,       \* by how many it grows
    Moves,      \* how far realloc() may move the text, while the undo copy stays in its place
    OneLink,    \* the file is a regular one, the user's, with one link
    MaxCmd,     \* bound: commands
    MaxSignal   \* bound: signals

ASSUME EdAssumption ==
    /\ Nlall \in Nat \ {0} /\ Grow \in Nat \ {0}
    /\ Moves \subseteq Int /\ 0 \in Moves
    /\ OneLink \in BOOLEAN
    /\ MaxCmd \in Nat /\ MaxSignal \in Nat

VARIABLES
    pc,         \* "cmd", "inner" (a command of a g), or what is being done
    op,         \* the command: its letter, its addresses, and what it keeps
    b,          \* the text: zero, dot, dol, names, low bits
    u,          \* the undo copy: undzero, unddot, unddol, undnames
    has,        \* unddot is not NULL
    nlall,
    tline,      \* the next line of the temporary file
    fchange,
    wrapp,
    globp,      \* a g is being obeyed
    disk,       \* the file: "whole", "part" (of a text), "joined" (w appended)
    how,        \* how the last w opened it
    wrtemp,     \* the file that w is to rename: "none", "part", "full"
    hup,        \* ed.hup: the lines in it, at what point, or "none"
    left,       \* bound: the commands and signals that are left
    before,     \* history: text, dot and marks before the last command that can be undone
    torn,       \* history: a signal came in the middle of checkpoint()
    dirty,      \* history: the text has changed since the last w, and the user was not warned
    why         \* history: what has happened since fchange was set that may leave it wrong

vars == <<pc, op, b, u, has, nlall, tline, fchange, wrapp, globp, disk, how, wrtemp, hup,
          left, before, torn, dirty, why>>

file == <<disk, how, wrtemp>>
history == <<before, torn>>

Running == {"ck", "append", "join", "delete", "move", "sub", "mark", "pack", "undo",
            "wopen", "wput", "wdone"}

TypeOK ==
    /\ pc \in Running \cup {"cmd", "inner", "glob", "over", "wild"}
    /\ op \in [c : {"a", "c", "d", "e", "g", "i", "j", "m", "r", "s", "t", "u", "w", "W", "q", "-"},
               a1 : Int, a2 : Int, t : 0..MaxLine, i : 0..MaxLine + 1, flag : BOOLEAN]
    /\ b \in Buffer
    /\ u \in [line : [Slot -> Line], dot : Int, dol : Int, name : [Marks -> Line],
               bits : SUBSET Line]
    /\ has \in BOOLEAN /\ nlall \in Nat /\ tline \in 1..MaxLine + 1
    /\ fchange \in BOOLEAN /\ wrapp \in BOOLEAN /\ globp \in BOOLEAN
    /\ disk \in {"whole", "part", "joined"}
    /\ how \in {"temp", "trunc", "append"} /\ wrtemp \in {"none", "part", "full"}
    /\ hup.at \in Running \cup {"none", "cmd", "inner", "glob"} /\ hup.lines \subseteq Line
    /\ left.cmd \in 0..MaxCmd /\ left.signal \in 0..MaxSignal
    /\ torn \in BOOLEAN /\ dirty \in BOOLEAN /\ why \subseteq {"undo", "empty", "signal"}

Op(c, a1, a2, t) == [c |-> c, a1 |-> a1, a2 |-> a2, t |-> t, i |-> 0, flag |-> FALSE]

NoOp == Op("-", 0, 0, 0)

\* A file of two lines was read.
Init ==
    LET x == [Empty EXCEPT !.line = [i \in Slot |-> IF i <= 2 THEN i ELSE 0], !.dot = 2, !.dol = 2]
    IN /\ pc = "cmd" /\ op = NoOp
       /\ b = x /\ u = Empty /\ has = FALSE
       /\ nlall = Nlall /\ tline = 3
       /\ fchange = FALSE /\ wrapp = FALSE /\ globp = FALSE
       /\ disk = "whole" /\ how = "temp" /\ wrtemp = "none"
       /\ hup = [at |-> "none", lines |-> {}]
       /\ left = [cmd |-> MaxCmd, signal |-> MaxSignal]
       /\ before = Snap(x) /\ torn = FALSE
       /\ dirty = FALSE /\ why = {}

-----------------------------------------------------------------------------
(* A command: its addresses, its checks and its end *)

\* What address() gives for two addresses, or dot for none.  Bound: in a g, the line of the
\* g or that and the next one.
Ranges == {<<b.dot, b.dot>>}
          \cup {r \in (0..b.dol) \X (0..b.dol) :
                  /\ r[1] <= r[2]
                  /\ globp => r = <<b.dot, b.dot + 1>>}
Nonzero == {r \in Ranges : r[1] > 0 /\ r[2] <= b.dol}

\* Bound: a g counts for two commands, its own commands, u and q for none.
Cost(c) == CASE globp \/ c \in {"u", "q"} -> 0
             [] c = "g" -> 2
             [] OTHER -> 1

\* A command is read, from the terminal or for a line of a g.
Begin(o, next) ==
    /\ pc = IF globp THEN "inner" ELSE "cmd"
    /\ Cost(o.c) <= left.cmd
    /\ left' = [left EXCEPT !.cmd = @ - Cost(o.c)]
    /\ op' = o /\ pc' = next
    /\ UNCHANGED <<u, has, nlall, tline, hup, before, torn>>

\* Where commands() goes on.
Onward == IF globp THEN "glob" ELSE "cmd"
Done == pc' = Onward /\ op' = NoOp

\* The text becomes x.
Becomes(x) == /\ b' = x
              /\ dirty' = (dirty \/ Text(x) # Text(b))

\* A change of the text is noted: from here on fchange is right, whatever it was.
Noted == fchange' = TRUE /\ why' = {}

\* error2(): back to the command level.
Error == /\ pc' = "cmd" /\ op' = NoOp
         /\ globp' = FALSE /\ wrapp' = FALSE /\ wrtemp' = "none"

Same == UNCHANGED <<b, fchange, wrapp, globp, file, dirty, why>>

\* a, c, d, g, i, j, m, r, s, t: the commands that can be undone.
Change ==
    /\ \/ \E r \in Ranges : Begin(Op("a", r[1], r[2], 0), "ck")
       \/ \E r \in Nonzero, c \in {"c", "d", "i"} : Begin(Op(c, r[1], r[2], 0), "ck")
       \/ \E r \in Nonzero : tline <= MaxLine /\ Begin(Op("j", r[1], r[2], 0), "ck")
       \/ \E r \in Nonzero : Begin([Op("s", r[1], r[2], 0) EXCEPT !.i = r[1]], "ck")
       \/ \E r \in Nonzero, t \in 0..b.dol : Begin(Op("m", r[1], r[2], t), "ck")
       \/ \E r \in Nonzero, t \in 0..b.dol :
             /\ tline + r[2] - r[1] <= MaxLine
             /\ Begin([Op("t", r[1], r[2], t) EXCEPT !.i = b.dol], "ck")
       \/ \E r \in Ranges : ~globp /\ Begin([Op("r", r[1], r[2], 0) EXCEPT !.flag = b.dol # 0], "ck")
       \/ \E r \in Nonzero : ~globp /\ Begin(Op("g", r[1], r[2], 0), "ck")
    /\ Same

\* checkpoint() in a g as well.
SlipSaved(x) == [x EXCEPT !.line = [i \in Slot |-> IF i <= x.dol THEN @[i] ELSE u.line[i]]]

\* checkpoint(): nothing in a g, so that u undoes all of it.
Saved(x) == IF globp THEN u
            ELSE [x EXCEPT !.line = [i \in Slot |-> IF i <= x.dol THEN @[i] ELSE u.line[i]]]

\* append() begins by setting dot.
From == CASE op.c = "i" -> op.a2 - 1
          [] op.c = "t" -> b.dol
          [] op.c \in {"a", "r"} -> op.a2
          [] OTHER -> b.dot

Stage == CASE op.c \in {"a", "i", "r", "t"} -> "append"
           [] op.c \in {"c", "d"} -> "delete"
           [] op.c = "g" -> "mark"
           [] op.c = "j" -> "join"
           [] op.c = "m" -> "move"
           [] op.c = "s" -> "sub"

Checkpoint ==
    /\ pc = "ck" /\ pc' = Stage
    /\ u' = Saved(b) /\ has' = (has \/ ~globp)
    /\ b' = [b EXCEPT !.dot = From]
    /\ before' = IF globp THEN before ELSE Snap(b)
    /\ torn' = (torn /\ globp)
    /\ UNCHANGED <<op, nlall, tline, fchange, wrapp, globp, file, hup, left, dirty, why>>

-----------------------------------------------------------------------------
(* append(), with a line of the user, of a file, or of the text *)

More == /\ tline <= MaxLine
        /\ op.c = "t" => b.dol - op.i <= op.a2 - op.a1

\* The arrays grow when the text with one more line would fill them.  dot, dol and the
\* addresses are moved by the way of zero; so are unddot and unddol, which go with undzero.
Full(x) == x.dol + 1 >= nlall

Way(x) == IF Full(x) THEN Moves ELSE {0}

Room(x, d) ==
    /\ nlall' = IF Full(x) THEN nlall + Grow ELSE nlall
    /\ u' = IF has THEN [u EXCEPT !.dot = @ + d, !.dol = @ + d] ELSE u

\* Behind the last slot of the array anything may be overwritten.
Fits(x) == x.dot + 1 < nlall'

Wild == /\ pc' = "wild" /\ globp' = FALSE

AppendLine ==
    /\ pc = "append" /\ More
    /\ \E d \in Way(b) : Room(b, d)
    /\ IF Fits(b) THEN b' = Put(b, tline) /\ UNCHANGED <<pc, globp>>
                  ELSE Wild /\ UNCHANGED b
    /\ tline' = tline + 1 /\ Noted
    /\ dirty' = (dirty \/ op.c # "e")
    /\ UNCHANGED <<op, has, wrapp, file, hup, left, history>>

\* i leaves dot on the next line when none was typed; a file read into no text is no change.
AppendEnd ==
    /\ pc = "append" /\ ~(op.c = "t" /\ More)
    /\ b' = IF op.c = "i" /\ b.dot = op.a2 - 1 THEN [b EXCEPT !.dot = @ + 1] ELSE b
    /\ fchange' = CASE op.c = "r" -> op.flag
                    [] op.c = "e" -> FALSE
                    [] OTHER -> fchange
    /\ why' = IF op.c = "r" /\ ~op.flag THEN why \cup {"empty"} ELSE why
    /\ IF op.c = "t"
       THEN pc' = "move" /\ op' = [op EXCEPT !.a1 = op.i + 1, !.a2 = b.dol]
       ELSE Done
    /\ UNCHANGED <<u, has, nlall, tline, wrapp, globp, file, hup, left, history, dirty>>

-----------------------------------------------------------------------------
(* d, c, j, m, s, k *)

Delete ==
    /\ pc = "delete"
    /\ LET x == Deleted(b, op.a1, op.a2)
       IN Becomes(IF op.c = "c" THEN [x EXCEPT !.dot = op.a1 - 1] ELSE x)
    /\ Noted
    /\ IF op.c = "c" THEN pc' = "append" /\ UNCHANGED op ELSE Done
    /\ UNCHANGED <<u, has, nlall, tline, wrapp, globp, file, hup, left, history>>

Replaced(x, i) == [x EXCEPT !.line[i] = tline]

Join ==
    /\ pc = "join" /\ Done
    /\ IF op.a1 = op.a2 THEN UNCHANGED <<b, dirty, tline, fchange, why>>
       ELSE /\ Becomes([Deleted(Replaced(b, op.a1), op.a1 + 1, op.a2) EXCEPT !.dot = op.a1])
            /\ tline' = tline + 1 /\ Noted
    /\ UNCHANGED <<u, has, nlall, wrapp, globp, file, hup, left, history>>

Legal == op.t \notin op.a1..op.a2

\* A g does not visit the lines that are moved.
Unmarked == [b EXCEPT !.bits = @ \ {b.line[i] : i \in op.a1..op.a2}]

Move ==
    /\ pc = "move"
    /\ IF Legal
       THEN /\ Becomes(Moved(Unmarked, op.a1, op.a2, op.t))
            /\ IF op.t + 1 # op.a1 THEN Noted ELSE UNCHANGED <<fchange, why>>
            /\ Done /\ UNCHANGED <<globp, wrapp, wrtemp>>
       ELSE Error /\ b' = Unmarked /\ UNCHANGED <<dirty, fchange, why>>
    /\ UNCHANGED <<u, has, nlall, tline, disk, how, hup, left, history>>

\* The line gets another number; a mark on it follows.
SlipRenamed(x, i) == x

Renamed(x, i) == [x EXCEPT !.name = [m \in Marks |-> IF @[m] = x.line[i] THEN tline ELSE @[m]]]

Substituted(x, i) == Replaced(Renamed(x, i), i)

\* addr2 has already gone with the text when substitute() moves it once more: the loop may then
\* come to what is behind the text.
SubLine ==
    /\ pc = "sub" /\ op.i <= op.a2
    /\ IF op.i > b.dol THEN Wild /\ UNCHANGED <<op, b, dirty, u, nlall, tline, fchange, why>>
       ELSE LET x == [Substituted(b, op.i) EXCEPT !.dot = op.i]
            IN /\ UNCHANGED <<pc, globp>>
               /\ \/ /\ op' = [op EXCEPT !.i = @ + 1]
                     /\ UNCHANGED <<b, dirty, u, nlall, tline, fchange, why>>
                  \/ /\ tline <= MaxLine
                     /\ Becomes(x) /\ tline' = tline + 1 /\ Noted
                     /\ op' = [op EXCEPT !.i = @ + 1, !.flag = TRUE]
                     /\ UNCHANGED <<u, nlall>>
                  \/ /\ tline < MaxLine
                     /\ Becomes(Put(x, tline + 1)) /\ tline' = tline + 2 /\ Noted
                     /\ \E d \in Way(x) :
                           /\ Room(x, d)
                           /\ op' = [op EXCEPT !.i = @ + 2, !.a2 = @ + 1 + d, !.flag = TRUE]
    /\ UNCHANGED <<has, wrapp, file, hup, left, history>>

\* Without a match it is an error, except in a g.
SubEnd ==
    /\ pc = "sub" /\ op.i > op.a2
    /\ IF op.flag \/ globp THEN Done /\ UNCHANGED <<globp, wrapp, wrtemp>> ELSE Error
    /\ UNCHANGED <<b, u, has, nlall, tline, fchange, disk, how, hup, left, history, dirty, why>>

Mark == /\ \E r \in Nonzero, m \in Marks : /\ Begin(NoOp, Onward)
                                          /\ b' = [b EXCEPT !.name[m] = b.line[r[2]]]
        /\ UNCHANGED <<fchange, wrapp, globp, file, dirty, why>>

-----------------------------------------------------------------------------
(* g and u *)

\* Every line is tested first; g/.../d goes through them once.
GlobalMark ==
    /\ pc = "mark"
    /\ \E s \in SUBSET (op.a1..op.a2) : b' = [b EXCEPT !.bits = {b.line[i] : i \in s}]
    /\ \/ pc' = "glob" /\ globp' = TRUE
       \/ pc' = "pack" /\ globp' = FALSE
    /\ op' = NoOp
    /\ UNCHANGED <<u, has, nlall, tline, fchange, wrapp, file, hup, left, history, dirty, why>>

GlobalPack ==
    /\ pc = "pack" /\ pc' = "cmd"
    /\ Becomes([Packed(b) EXCEPT !.bits = {}])
    /\ IF b.bits # {} THEN Noted ELSE UNCHANGED <<fchange, why>>
    /\ UNCHANGED <<op, u, has, nlall, tline, wrapp, globp, file, hup, left, history>>

\* The search for a marked line begins at the top again after every command.
Found == {i \in 1..b.dol : b.line[i] \in b.bits}

\* The line goes on being marked.
SlipVisited(i) == [b EXCEPT !.dot = i]

Visited(i) == [b EXCEPT !.dot = i, !.bits = @ \ {b.line[i]}]

GlobalNext ==
    /\ pc = "glob"
    /\ IF Found = {} THEN pc' = "cmd" /\ globp' = FALSE /\ UNCHANGED b
       ELSE /\ pc' = "inner" /\ UNCHANGED globp
            /\ \E i \in Found : (\A k \in Found : i <= k) /\ b' = Visited(i)
    /\ UNCHANGED <<op, u, has, nlall, tline, fchange, wrapp, file, hup, left, history, dirty, why>>

UndoBegin == has /\ Begin(Op("u", 0, 0, 0), "undo") /\ Same

\* The undo copy has no more lines than were stored: unddot and unddol are right.
Sane == u.dol < tline /\ u.dol >= 0 /\ u.dot >= 0

Undo ==
    /\ pc = "undo"
    /\ IF Sane
       THEN Becomes(u) /\ Done /\ UNCHANGED globp
       ELSE UNCHANGED <<b, dirty, op>> /\ Wild
    /\ u' = b
    /\ before' = Snap(b) /\ torn' = FALSE
    /\ why' = IF fchange THEN why ELSE why \cup {"undo"}
    /\ UNCHANGED <<has, nlall, tline, fchange, wrapp, file, hup, left>>

-----------------------------------------------------------------------------
(* w, W, q, e, E *)

WriteBegin ==
    /\ ~globp
    /\ \E r \in (IF b.dol = 0 THEN Ranges ELSE Nonzero), c \in {"w", "W"} :
          /\ Begin(Op(c, r[1], r[2], 0), "wopen")
          /\ wrapp' = (wrapp \/ c = "W")
    /\ UNCHANGED <<b, fchange, globp, file, dirty, why>>

\* A file with one link is written under another name; else, or when there is no other
\* name to be had, it is cut to nothing first; so it is too for a W that cannot open it to
\* append.  wrapp outlives a W that has no line to write.
WriteOpen ==
    /\ pc = "wopen" /\ pc' = IF b.dol = 0 THEN "wdone" ELSE "wput"
    /\ wrapp' = (wrapp /\ b.dol = 0)
    /\ \/ wrapp /\ how' = "append" /\ UNCHANGED <<disk, wrtemp>>
       \/ OneLink /\ how' = "temp" /\ wrtemp' = "part" /\ UNCHANGED disk
       \/ /\ how' = "trunc" /\ UNCHANGED wrtemp
          /\ disk' = IF b.dol = 0 THEN "whole" ELSE "part"
    /\ UNCHANGED <<op, b, u, has, nlall, tline, fchange, globp, hup, left, history, dirty, why>>

\* putfile() into the file itself also when there is a temporary one.
SlipPutFile == disk' = "part" /\ wrtemp' = wrtemp

PutFile == CASE how = "temp" -> wrtemp' = "full" /\ disk' = disk
             [] how = "trunc" -> disk' = "whole" /\ wrtemp' = wrtemp
             [] how = "append" -> disk' = (IF op.c = "w" THEN "joined" ELSE disk) /\ wrtemp' = wrtemp

WriteLines ==
    /\ pc = "wput" /\ pc' = "wdone"
    /\ PutFile
    /\ UNCHANGED <<op, b, u, has, nlall, tline, fchange, wrapp, globp, how, hup, left, history,
                   dirty, why>>

\* What is left of a file that was being appended to.
Cut == IF pc = "wput" /\ how = "append" THEN "part" ELSE disk

\* The file cannot be opened, written or given its name: error().
WriteFails ==
    /\ pc \in {"wopen", "wput", "wdone"} /\ (pc = "wdone" => how = "temp")
    /\ Error
    /\ disk' = Cut
    /\ UNCHANGED <<b, u, has, nlall, tline, fchange, how, hup, left, history, dirty, why>>

\* A w that ends with the last line passes for one of all.
SlipWhole == op.a2 = b.dol

Whole == \/ op.a1 = 1 /\ op.a2 = b.dol
         \/ op.a1 = op.a2 /\ b.dol = 0

\* exfile()
WriteEnd ==
    /\ pc = "wdone" /\ Done
    /\ disk' = IF how = "temp" THEN "whole" ELSE disk
    /\ wrtemp' = "none"
    /\ fchange' = (fchange /\ ~Whole)
    /\ dirty' = (dirty /\ 1..b.dol \ op.a1..op.a2 # {})
    /\ why' = IF dirty' THEN why ELSE {}
    /\ UNCHANGED <<b, u, has, nlall, tline, wrapp, globp, how, hup, left, history>>

\* warning: expecting `w'
Warn == fchange' = FALSE /\ dirty' = FALSE /\ why' = {}

\* q, and e as far as it warns.
Quit ==
    /\ ~globp
    /\ \/ /\ ~fchange /\ Begin([NoOp EXCEPT !.c = "q"], "over")
          /\ wrtemp' = "none" /\ UNCHANGED <<fchange, dirty, why, wrapp, globp>>
       \/ /\ fchange /\ Begin(NoOp, "cmd")
          /\ Warn /\ wrapp' = FALSE /\ globp' = FALSE /\ wrtemp' = "none"
    /\ UNCHANGED <<b, disk, how>>

\* init(): the text and the marks are gone before the file is opened.
Edit ==
    /\ pc = "cmd" /\ left.cmd > 0 /\ left' = [left EXCEPT !.cmd = @ - 1]
    /\ b' = [Empty EXCEPT !.line = b.line]
    /\ u' = [u EXCEPT !.name = Empty.name]
    /\ has' = FALSE /\ torn' = FALSE /\ tline' = 1
    /\ \/ pc' = "append" /\ op' = Op("e", 0, 0, 0) /\ UNCHANGED wrapp
       \/ pc' = "cmd" /\ op' = NoOp /\ wrapp' = FALSE
    /\ fchange' = FALSE /\ dirty' = FALSE /\ why' = {} /\ disk' = "whole"
    /\ UNCHANGED <<nlall, globp, how, wrtemp, hup, before>>

-----------------------------------------------------------------------------
(* Signals *)

\* A state a signal finds: bad if what follows from it is undefined.
At(x, y) == [b |-> x, u |-> y, has |-> has, torn |-> torn,
             fchange |-> fchange, tline |-> tline, bad |-> FALSE]

\* After putline() stored n lines.
Stored(x, n) == [At(x, u) EXCEPT !.fchange = TRUE, !.tline = @ + n]

\* checkpoint(): the lines first, then unddot and unddol, then the marks.
CheckpointParts ==
    LET lines(k) == [u EXCEPT !.line = [i \in Slot |-> IF i <= k THEN b.line[i] ELSE @[i]]]
        all == lines(b.dol)
        torn1(y, h) == [At(b, y) EXCEPT !.has = h, !.torn = TRUE]
    IN {At(b, u)} \cup {torn1(lines(k), has) : k \in 1..b.dol}
       \cup {torn1([all EXCEPT !.dot = b.dot], TRUE),
             torn1([all EXCEPT !.dot = b.dot, !.dol = b.dol], TRUE)}

AppendParts ==
    {At(b, u)}
    \cup (IF ~More THEN {}
          ELSE IF Full(b) THEN {[At(b, u) EXCEPT !.bad = TRUE]}
          ELSE {Stored(x, 1) : x \in PutParts(b)})

SubParts ==
    {At(b, u)}
    \cup (IF op.i > op.a2 \/ tline >= MaxLine THEN {}   \* bound
          ELSE IF op.i > b.dol THEN {[At(b, u) EXCEPT !.bad = TRUE]}
          ELSE LET x == [Substituted(b, op.i) EXCEPT !.dot = op.i]
               IN {Stored(y, 1) : y \in {b, Renamed(b, op.i), x}}
                  \cup (IF Full(x) THEN {[At(b, u) EXCEPT !.bad = TRUE]}
                        ELSE {Stored(y, 2) : y \in PutParts(x)}))

JoinParts ==
    {At(b, u)}
    \cup (IF op.a1 = op.a2 THEN {}
          ELSE {Stored(x, 1) : x \in {b, Replaced(b, op.a1)}
                                     \cup DeletedParts(Replaced(b, op.a1), op.a1 + 1, op.a2)})

MoveParts ==
    {At(b, u)}
    \cup (IF ~Legal \/ op.t + 1 = op.a1 THEN {}
          ELSE {At(x, u) : x \in MovedParts(Unmarked, op.a1, op.a2, op.t)})

\* zero, dot, dol and names are exchanged one after the other: before the last exchange the
\* text is whole again; before that, dot and dol point into the other array.
UndoParts ==
    {At(b, u), [At(b, u) EXCEPT !.bad = TRUE]}
    \cup (IF Sane THEN {[At([u EXCEPT !.name = b.name], [b EXCEPT !.name = u.name])
                          EXCEPT !.torn = TRUE]} ELSE {})

Midway ==
    CASE pc = "ck" /\ ~globp -> CheckpointParts
      [] pc = "append" -> AppendParts
      [] pc = "delete" -> {At(b, u)}
                          \cup {At(x, u) : x \in DeletedParts(b, op.a1, op.a2)}
      [] pc = "join" -> JoinParts
      [] pc = "move" -> MoveParts
      [] pc = "sub" -> SubParts
      [] pc = "pack" -> {At(Scanned(b, j), u) : j \in 0..b.dol}
      [] pc = "undo" -> UndoParts
      [] OTHER -> {At(b, u)}

\* A file is being read: from sopen() to sclose().
Reading == op.c \in {"e", "r"} /\ pc \in {"ck", "append"}

\* longjmp() out of what runs.
Leave(m) ==
    /\ b' = m.b /\ u' = m.u /\ has' = m.has /\ torn' = m.torn /\ tline' = m.tline
    /\ Error
    /\ disk' = Cut
    /\ left' = [left EXCEPT !.signal = @ - 1]
    /\ UNCHANGED <<nlall, how, hup, before>>

Undefined ==
    /\ pc' = "wild" /\ globp' = FALSE
    /\ left' = [left EXCEPT !.signal = @ - 1]
    /\ UNCHANGED <<op, b, u, has, nlall, tline, fchange, wrapp, file, hup, history, dirty, why>>

\* onintr(): after a read that was cut short, fchange is cleared.
Interrupt ==
    /\ pc \in Running \cup {"inner", "glob"} /\ left.signal > 0
    /\ \E m \in Midway :
          IF m.bad THEN Undefined
          ELSE /\ Leave(m)
               /\ fchange' = (m.fchange /\ ~Reading)
               /\ dirty' = (dirty \/ (Text(m.b) # Text(b) /\ op.c # "e"))
               /\ why' = why \cup {"signal"}

\* SIGTERM: quit().
Terminate ==
    /\ pc \notin {"over", "wild"} /\ left.signal > 0
    /\ \E m \in Midway :
          IF m.bad THEN Undefined
          ELSE IF m.fchange
          THEN Leave(m) /\ Warn
          ELSE /\ pc' = "over" /\ wrtemp' = "none" /\ left' = [left EXCEPT !.signal = @ - 1]
               /\ globp' = FALSE /\ disk' = Cut /\ why' = why \cup {"signal"}
               /\ UNCHANGED <<op, b, u, has, nlall, tline, fchange, wrapp, how, hup,
                              history, dirty>>

\* onhup(): the text as it is found, if fchange is set.
HangUp ==
    /\ pc \notin {"over", "wild"} /\ left.signal > 0
    /\ \E m \in Midway :
          IF m.bad THEN Undefined
          ELSE /\ hup' = [at |-> pc, lines |-> IF m.fchange THEN LinesOf(m.b) ELSE {}]
               /\ pc' = "over" /\ wrtemp' = "none" /\ left' = [left EXCEPT !.signal = @ - 1]
               /\ globp' = FALSE /\ disk' = Cut
               /\ UNCHANGED <<op, b, u, has, nlall, tline, fchange, wrapp, how,
                              history, dirty, why>>

-----------------------------------------------------------------------------

\* What ed does of itself once a command was read.
Program == \/ Checkpoint \/ AppendLine \/ AppendEnd \/ Delete \/ Join \/ Move \/ SubLine \/ SubEnd
           \/ GlobalMark \/ GlobalPack \/ GlobalNext \/ Undo
           \/ WriteOpen \/ WriteLines \/ WriteFails \/ WriteEnd

Command == Change \/ Mark \/ UndoBegin \/ WriteBegin \/ Quit \/ Edit

Next == Program \/ Command \/ Interrupt \/ Terminate \/ HangUp

\* The lines of a g come from its command list, those of a and r from whoever types or
\* wrote them, and end.
Fairness == WF_vars(Program \/ (globp /\ Command))

Spec == Init /\ [][Next]_vars /\ Fairness

-----------------------------------------------------------------------------
(* Properties *)

\* The undo copy is the text, with dot and the marks, from before the last command that
\* changes anything, all of a g included, whatever a signal has made of the text since;
\* unless the signal came into checkpoint() or undo() itself.
UndoKeeps == has /\ ~torn /\ pc \notin {"over", "wild"} => Snap(u) = before

\* The three reversals of m and t bring the lines to where they are to be.
MoveRearranges ==
    [][pc = "move" /\ left' = left =>
         Text(b') = IF Legal THEN Rearranged(Text(b), op.a1, op.a2, op.t) ELSE Text(b)]_vars

\* A mark on a line of the text stays on a line of the text through a, i, r, m, t and s.
MarksStay ==
    [][left' = left /\ pc \in {"append", "move", "sub"} =>
         (\A m \in Marks : b.name[m] \in LinesOf(b) => b'.name[m] \in LinesOf(b'))]_vars

\* ed ends at q, or at a SIGTERM, only when the text was written since its last change or the
\* user was warned.  ed.1 promises it of every change: "a q or e command is considered to be in
\* error, unless a w has occurred since the last buffer change".  The code keeps that but for
\* three kinds of change, if no other has come after them: one by u while fchange is clear
\* (undo() does not set it), a file read into an empty text (r clears it), and one that a
\* signal interrupted.  The first two go against the promise.
QuitWarned == pc = "over" /\ hup.at = "none" /\ why = {} => ~dirty

\* How many lines of the text a hang-up may miss: the one on its way through reverse(), the
\* one that is replaced, those that are deleted, and as many of the lines behind them.
MayMiss == CASE hup.at \in {"move", "sub"} -> 1
             [] hup.at = "delete" -> 2 * (op.a2 - op.a1 + 1)
             [] hup.at = "join" -> 2 * (op.a2 - op.a1) + 1
             [] hup.at = "pack" -> Cardinality(b.bits)
             [] OTHER -> 0

\* After a hang-up the lines of an unsaved text are in ed.hup, but for those; unless fchange
\* was wrong before (QuitWarned), or undo() was just going on.  All along the buffer is one (TypeOK).
HupSaves ==
    /\ TypeOK
    /\ pc = "over" /\ hup.at \notin {"none", "undo"} /\ dirty /\ why = {}
        => Cardinality(LinesOf(b) \ hup.lines) <= MayMiss

\* The old file stays until the new one is complete, and no temporary file is left.
WriteSafe ==
    [][/\ disk = "whole" /\ disk' = "part" => how' # "temp"
       /\ pc' \in {"cmd", "over"} => wrtemp' = "none"]_vars

\* A global command ends: moved, copied and substituted lines are not visited again.
GlobalEnds == globp ~> ~globp

=============================================================================
