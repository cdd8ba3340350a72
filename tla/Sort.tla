-------------------------------- MODULE Sort --------------------------------
(***************************************************************************)
(* sort/sort.c: sort, which reads as many lines as memory holds, writes    *)
(* them sorted to a temporary file, and merges the files, N at a time,     *)
(* until N or fewer are left, which go to the output; sort -m, which       *)
(* merges its operands in the same way; and sort -c.                       *)
(*                                                                         *)
(* Files are numbered as in setfil(): the operands from 0 to eargc - 1,    *)
(* the temporary files from there on.  A line is its place in the order    *)
(* that the options ask for; with -u, lines of the same place are equal.   *)
(*                                                                         *)
(* Left out: keys and comparison, how quicksort() does its work, and the   *)
(* file that main() makes and unlinks, to try a directory, before it sets  *)
(* the handlers: a signal then has its default action, and may leave it.   *)
(***************************************************************************)
EXTENDS Integers, Sequences, FiniteSets

CONSTANTS
    N,          \* how many files are merged at once
    Letters,    \* how many letters there are for the names of temporary files
    Room,       \* the lines that memory holds
    MaxLine,    \* lines are 1 to MaxLine
    Inputs      \* bound: what the operands may hold

ASSUME SortAssumption ==
    /\ N \in Nat \ {0, 1} /\ Letters \in Nat \ {0, 1} /\ Room \in Nat \ {0}
    /\ MaxLine \in Nat
    /\ \A f \in Inputs : f \in Seq(Seq(1..MaxLine)) /\ f # <<>>

VARIABLES
    input,      \* what the operands hold at first; never changes
    opt,        \* -m, -c, -u, and o: the operand that -o names, or None for
                \* another file or no -o; never changes
    pc,
    operand,    \* what they hold now
    temp,       \* the temporary files that exist, by name
    nfiles,
    unsafeout,
    rest,       \* sort(): the lines that are not read yet
    lspace,     \* sort(): the lines in memory
    done,       \* sort(): the end of the input was met
    a, upto,    \* main(), merge(): the files from a to upto - 1 are being merged
    os,         \* the file that is written: its number, or None for the output
    ibuf,       \* merge(): the lines that are left in each file, the greatest first
    muflg, prev,\* merge(): compare with the line before; that line, 0 if it was not kept
    out,        \* what was written to the output
    error       \* the exit status

vars == <<input, opt, pc, operand, temp, nfiles, unsafeout, rest, lspace, done, a, upto, os,
          ibuf, muflg, prev, out, error>>

given == <<input, opt, unsafeout>>
sorting == <<rest, lspace, done>>
merging == <<ibuf, muflg, prev>>

None == -1
eargc == Len(input)

Joined(s) == LET upTo[n \in 0..Len(s)] == IF n = 0 THEN <<>> ELSE upTo[n - 1] \o s[n]
             IN upTo[Len(s)]

\* How often l is in s; and how often in all of the sequences of f.
Count(s, l) == Cardinality({k \in 1..Len(s) : s[k] = l})
Occurrences(f, l) == UNION {{i} \X {k \in 1..Len(f[i]) : f[i][k] = l} : i \in DOMAIN f}
Total(f, l) == Cardinality(Occurrences(f, l))

InOrder(s) == \A i, j \in 1..Len(s) : i < j => s[i] <= s[j]
Distinct(s) == \A i, j \in 1..Len(s) : i # j => s[i] # s[j]

\* What quicksort() makes of s: the same lines, in order; with -u, a line that equals another
\* one is given the length 0 and not written.
Sortings(s) ==
    LET copies(l) == IF opt.u /\ Count(s, l) > 0 THEN 1 ELSE Count(s, l)
    IN {t \in UNION {[1..n -> 1..MaxLine] : n \in 0..Len(s)} :
           InOrder(t) /\ \A l \in 1..MaxLine : Count(t, l) = copies(l)}

\* Two letters; from Letters * Letters on the low ones are appended.
Name[i \in Nat] ==
    IF i < Letters * Letters THEN <<i \div Letters, i % Letters>>
    ELSE LET high == Name[i \div Letters]
         IN <<high[1], high[2], i % Letters>> \o SubSeq(high, 3, Len(high))

Setfil(i) == Name[i - eargc]

Holds(i) == IF i < eargc THEN operand[i] ELSE temp[Setfil(i)]

Merging == {"merge", "first", "put", "next", "end"}
Running == {"fill", "create", "count", "open", "write", "pass"} \cup Merging

TypeOK ==
    /\ pc \in Running \cup {"term", "exit"}
    /\ operand \in [0..eargc - 1 -> Seq(1..MaxLine)]
    /\ \A f \in DOMAIN temp : temp[f] \in Seq(1..MaxLine)
    /\ nfiles \in Nat /\ nfiles >= eargc
    /\ rest \in Seq(1..MaxLine) /\ lspace \in Seq(1..MaxLine) /\ Len(lspace) <= Room
    /\ done \in BOOLEAN /\ unsafeout \in BOOLEAN
    /\ a \in 0..nfiles /\ upto \in a..nfiles /\ upto - a <= N
    /\ os \in (eargc..nfiles) \cup {None}
    /\ \A i \in DOMAIN ibuf : ibuf[i] \in Seq(1..MaxLine) /\ ibuf[i] # <<>>
    /\ pc \in {"put", "next", "end"} => ibuf \in Seq(Seq(1..MaxLine))
    /\ muflg \in BOOLEAN /\ prev \in 0..MaxLine
    /\ out \in Seq(1..MaxLine) /\ error \in {0, 1}

\* safeoutfil() with one operand less.
SlipAmongLast == opt.o > eargc - N

AmongLast == opt.o # None /\ opt.o >= eargc - N

\* safeoutfil(): is one of the last N operands the output file?  With fewer than N it looks at
\* what is in front of the operands as well, and may take that for the output file.
Unsafe == IF ~opt.m THEN {FALSE} ELSE IF AmongLast THEN {TRUE} ELSE {FALSE, eargc < N}

\* -m is given files that are sorted, -c one file.
Init ==
    /\ input \in Inputs
    /\ opt \in [m : BOOLEAN, c : BOOLEAN, u : BOOLEAN, o : {None} \cup 0..eargc - 1]
    /\ opt.c => ~opt.m /\ eargc = 1
    /\ opt.m => \A i \in 1..eargc : InOrder(input[i])
    /\ pc = IF opt.m \/ opt.c THEN "pass" ELSE "fill"
    /\ operand = [i \in 0..eargc - 1 |-> input[i + 1]]
    /\ temp = [f \in {} |-> <<>>]
    /\ nfiles = eargc /\ unsafeout \in Unsafe
    /\ rest = IF opt.m \/ opt.c THEN <<>> ELSE Joined(input)
    /\ lspace = <<>> /\ done = FALSE
    /\ a = (IF opt.m \/ opt.c THEN 0 ELSE eargc) /\ upto = a
    /\ os = None /\ ibuf = <<>> /\ muflg = FALSE /\ prev = 0
    /\ out = <<>> /\ error = 1

-----------------------------------------------------------------------------
(* sort() *)

\* When memory is full with the last line, the end of the input is met only next time; unless
\* that line lacks its newline.
Fill ==
    /\ pc = "fill"
    /\ LET n == IF Len(rest) < Room THEN Len(rest) ELSE Room
       IN /\ lspace' = SubSeq(rest, 1, n)
          /\ rest' = SubSeq(rest, n + 1, Len(rest))
    /\ done' \in {Len(rest) < Room} \cup {Len(rest) <= Room}
    /\ pc' = IF ~done' \/ nfiles # eargc THEN "create" ELSE "open"
    /\ UNCHANGED <<given, operand, temp, nfiles, a, upto, os, merging, out, error>>

\* To the file that os stands for.
Fwrite(s) ==
    IF os = None THEN out' = out \o s /\ UNCHANGED temp
    ELSE temp' = [temp EXCEPT ![Setfil(os)] = @ \o s] /\ UNCHANGED out

WriteRun ==
    /\ pc = "write" /\ pc' = IF done THEN "pass" ELSE "fill"
    /\ \E s \in Sortings(lspace) : Fwrite(s)
    /\ lspace' = <<>>
    /\ UNCHANGED <<given, operand, nfiles, rest, done, a, upto, os, merging, error>>

-----------------------------------------------------------------------------
(* newfile() and oldfile() *)

Create ==
    /\ pc = "create" /\ pc' = "count"
    /\ temp' = [f \in DOMAIN temp \cup {Setfil(nfiles)} |->
                  IF f = Setfil(nfiles) THEN <<>> ELSE temp[f]]
    /\ UNCHANGED <<given, operand, nfiles, sorting, a, upto, os, merging, out, error>>

\* What the new file is for: a run of sort(), or a merge.
Stage == IF a = upto THEN "write" ELSE "merge"

Counted ==
    /\ pc = "count" /\ pc' = Stage
    /\ os' = nfiles /\ nfiles' = nfiles + 1
    /\ UNCHANGED <<given, operand, temp, sorting, a, upto, merging, out, error>>

\* The output file is emptied before merge() opens what it is to read.
OpenOut ==
    /\ pc = "open" /\ pc' = Stage
    /\ os' = None
    /\ operand' = IF opt.o = None THEN operand ELSE [operand EXCEPT ![opt.o] = <<>>]
    /\ UNCHANGED <<given, temp, nfiles, sorting, a, upto, merging, out, error>>

-----------------------------------------------------------------------------
(* main(): the passes *)

\* Enough files for a pass; or operands left while the output file is one of the last.
Again == a + N < nfiles \/ (unsafeout /\ a < eargc)

Until == IF a + N < nfiles THEN a + N ELSE nfiles

Pass ==
    /\ pc = "pass" /\ upto' = Until
    /\ pc' = IF Again THEN "create" ELSE IF a # nfiles THEN "open" ELSE "term"
    /\ error' = IF pc' = "term" THEN 0 ELSE error
    /\ UNCHANGED <<given, operand, temp, nfiles, sorting, a, os, merging, out>>

-----------------------------------------------------------------------------
(* merge() *)

MergeOpen ==
    /\ pc = "merge" /\ pc' = "first"
    /\ ibuf' = [i \in {f \in a..upto - 1 : Holds(f) # <<>>} |-> Holds(i)]
    /\ muflg' = ((opt.m /\ opt.u) \/ opt.c) /\ prev' = 0
    /\ UNCHANGED <<given, operand, temp, nfiles, sorting, a, upto, os, out, error>>

\* What quicksort() may make of ibuf: the files by their first lines, the greatest first.
Arrangements ==
    LET places == 1..Cardinality(DOMAIN ibuf)
        orders == {p \in [places -> DOMAIN ibuf] : /\ \A i, j \in places : i # j => p[i] # p[j]
                                                  /\ \A i, j \in places : i < j =>
                                                        Head(ibuf[p[i]]) >= Head(ibuf[p[j]])}
    IN {[i \in places |-> ibuf[p[i]]] : p \in orders}

Twin(s, i) == i > 1 /\ Head(s[i]) = Head(s[i - 1])

\* The next line is not read where the line was found to be a duplicate.
SlipWithout(s) == s

\* With -u, of the files with the same line all but one go on to their next line.
Without(s) == LET next == [i \in DOMAIN s |-> IF Twin(s, i) THEN Tail(s[i]) ELSE s[i]]
              IN [i \in {j \in DOMAIN s : next[j] # <<>>} |-> next[i]]

\* Until no two files begin with the same line.
MergeFirst ==
    /\ pc = "first"
    /\ \E s \in Arrangements :
          IF opt.u /\ \E i \in DOMAIN s : Twin(s, i)
          THEN ibuf' = Without(s) /\ UNCHANGED pc
          ELSE ibuf' = s /\ pc' = "put"
    /\ UNCHANGED <<given, operand, temp, nfiles, sorting, a, upto, os, muflg, prev, out, error>>

Least == ibuf[Len(ibuf)]

\* With -u, the last one of equal lines.
Wanted == /\ ~opt.c
          /\ \/ ~opt.u \/ muflg \/ Len(ibuf) = 1
             \/ Head(Least) # Head(ibuf[Len(ibuf) - 1])

MergePut ==
    /\ pc = "put"
    /\ IF ibuf = <<>> THEN pc' = "end" /\ UNCHANGED <<temp, out, prev>>
       ELSE /\ pc' = "next"
            /\ IF Wanted THEN Fwrite(<<Head(Least)>>) ELSE UNCHANGED <<temp, out>>
            /\ prev' = IF muflg THEN Head(Least) ELSE prev
    /\ UNCHANGED <<given, operand, nfiles, sorting, a, upto, os, ibuf, muflg, error>>

\* A file stays where it is.
SlipInserted(s) == s

\* The last file moves in front of those with lesser lines.
Inserted(s) ==
    LET n == Len(s)
        lesser(j) == \A i \in j..n - 1 : Head(s[i]) < Head(s[n])
        k == CHOOSE j \in 1..n : lesser(j) /\ \A i \in 1..n : lesser(i) => j <= i
    IN [i \in 1..n |-> IF i < k THEN s[i] ELSE IF i = k THEN s[n] ELSE s[i - 1]]

\* The next line of the least file.
Advanced == IF Len(Least) = 1 THEN SubSeq(ibuf, 1, Len(ibuf) - 1)
            ELSE Inserted([ibuf EXCEPT ![Len(ibuf)] = Tail(@)])

\* An equal line passes for one out of order.
SlipDisorder(l) == l <= prev

Disorder(l) == l < prev \/ (opt.u /\ l = prev)

\* When one file is left, muflg is set for -u, and the line before is forgotten.
MergeNext ==
    /\ pc = "next"
    /\ LET one == Len(Least) = 1 /\ Len(Advanced) = 1
       IN /\ ibuf' = Advanced
          /\ muflg' = IF one THEN opt.u ELSE muflg
          /\ prev' = IF one THEN 0 ELSE prev
    /\ pc' = IF ibuf' = <<>> THEN "end"
             ELSE IF prev' = 0 THEN "put"
             ELSE IF opt.c THEN IF Disorder(Head(ibuf'[Len(ibuf')])) THEN "term" ELSE "put"
             ELSE IF Head(ibuf'[Len(ibuf')]) = prev' THEN "next" ELSE "put"
    /\ UNCHANGED <<given, operand, temp, nfiles, sorting, a, upto, os, out, error>>

Unlinked(numbers) == [f \in DOMAIN temp \ {Setfil(i) : i \in numbers} |-> temp[f]]

MergeEnd ==
    /\ pc = "end"
    /\ temp' = Unlinked((eargc..nfiles) \cap (a..upto - 1))
    /\ a' = upto
    /\ IF os = None THEN pc' = "term" /\ error' = 0 ELSE pc' = "pass" /\ UNCHANGED error
    /\ UNCHANGED <<given, operand, nfiles, sorting, upto, os, merging, out>>

-----------------------------------------------------------------------------
(* term() *)

\* A signal, or a call that fails.
Stop ==
    /\ pc \in Running /\ pc' = "term"
    /\ UNCHANGED <<given, operand, temp, nfiles, sorting, a, upto, os, merging, out, error>>

\* The files that have been counted.
SlipMade == eargc..nfiles - 1

\* One more, in case of a signal with nfiles not updated.
Made == eargc..(IF nfiles = eargc THEN nfiles + 1 ELSE nfiles)

Term ==
    /\ pc = "term" /\ pc' = "exit"
    /\ temp' = Unlinked(Made)
    /\ UNCHANGED <<given, operand, nfiles, sorting, a, upto, os, merging, out, error>>

-----------------------------------------------------------------------------

Program == \/ Fill \/ WriteRun \/ Create \/ Counted \/ OpenOut \/ Pass
           \/ MergeOpen \/ MergeFirst \/ MergePut \/ MergeNext \/ MergeEnd \/ Term

Next == Program \/ Stop

\* sort does not wait for anything but its input, which ends.
Fairness == WF_vars(Program)

Spec == Init /\ [][Next]_vars /\ Fairness

-----------------------------------------------------------------------------
(* Properties *)

\* How often there is to be a line that the operands have so often.
Same(x, y) == IF opt.u THEN (x > 0 <=> y > 0) ELSE x = y

\* The files that are left; while they are merged, they count and not what is made of them.
Files == [i \in (a..nfiles - 1) \ (IF pc \in Merging THEN {os} ELSE {}) |-> Holds(i)]

\* How often l is yet to go to the output, from the lines not read, those in memory and the
\* files that are left, or is there already.
Left(l) == Count(rest, l) + Count(lspace, l) + Total(Files, l)
           + IF os = None /\ a = upto THEN Count(out, l) ELSE 0

\* No line is lost or doubled between the files, whatever the number of passes, also when the
\* output file is an operand of -m, and however the names of temporary files come out; -c is
\* given no output file (oldfile() would empty its operand).  The files of a pass and of
\* the buffers are such that exist (TypeOK).
NothingLost ==
    /\ TypeOK
    /\ pc \in Running /\ ~opt.c => \A l \in 1..MaxLine : Same(Left(l), Total(input, l))

\* An exit status of 0 says that the output has every line of the input, in order; without -u
\* as often as the input, with -u and without -m once.  With both a line may
\* come twice: merge() clears the bit of muflg by which it would look at the line before.
OutputRight ==
    pc = "exit" /\ error = 0 /\ ~opt.c =>
        /\ InOrder(out)
        /\ opt.u /\ ~opt.m => Distinct(out)
        /\ \A l \in 1..MaxLine : Same(Count(out, l), Total(input, l))

\* -c: the status is 0 only for a file in order, and with -u without equal lines; and a line
\* that is read ends sort with status 1 only where there is no such order.
CheckRight ==
    [][opt.c /\ opt.o = None /\ pc' = "term" =>
         LET right == InOrder(input[1]) /\ (opt.u => Distinct(input[1]))
         IN /\ error' = 0 => right
            /\ error' = 1 /\ ibuf' # ibuf => ~right]_vars

\* No temporary file is left, also when a signal came between newfile()'s open and its count.
NoTempLeft == pc = "exit" => DOMAIN temp = {}

\* The passes come to an end, and so does every merge.
Ends == <>(pc = "exit")

=============================================================================
