------------------------------ MODULE CpioOut ------------------------------
(***************************************************************************)
(* cpio/cpio.c with -o: the archive of a list of names, and how hard links *)
(* get into it.  With the -c format (TYP_NCPIO) the links of a file are    *)
(* kept back until the last one comes, which alone carries the data; with  *)
(* the older formats each of them carries it.                              *)
(*                                                                         *)
(* A file of the source is a File with NLink links, those in the list and  *)
(* others; an entry of the archive has a name, and whether data follows.   *)
(* Its fake device and inode numbers stand for FileOf of the name.         *)
(*                                                                         *)
(* Left out: directories, symbolic links and devices, the tar, bar and zip *)
(* formats, limits of the formats, and files that change meanwhile.        *)
(***************************************************************************)
EXTENDS Naturals, Sequences

CONSTANTS
    Name, File,
    FileOf,     \* what a name is a link to
    NLink,      \* st_nlink: the names of a file, those that nobody lists included
    Empty,      \* the files of size 0
    Lists,      \* bound: the lists of names on standard input
    Failures    \* bound: failing calls

ASSUME CpioOutAssumption ==
    /\ FileOf \in [Name -> File]
    /\ NLink \in [File -> Nat \ {0}]
    /\ Empty \subseteq File
    /\ Lists \subseteq Seq(Name)
    /\ Failures \in Nat

VARIABLES
    svr4,       \* whether the format is TYP_NCPIO; never changes
    input,      \* the list; never changes
    list,       \* the names that have not been read
    kept,       \* for the inodes seen: i_nlk and i_lnk
    tape,
    failed,     \* history: the names that could not be added
    left        \* bound: what is left of Failures

archive == <<svr4, input, list, kept, tape, failed>>
outVars == <<archive, left>>

Fails == left > 0 /\ left' = left - 1

Entry(n, zerolink) ==
    [name |-> n, data |-> ~zerolink /\ FileOf[n] \notin Empty]

ZeroLinks(s) == [i \in DOMAIN s |-> Entry(s[i], TRUE)]

Put(f, x, y) == [z \in DOMAIN f \cup {x} |-> IF z = x THEN y ELSE f[z]]

OutType ==
    /\ svr4 \in BOOLEAN
    /\ input \in Seq(Name) /\ list \in Seq(Name)
    /\ DOMAIN kept \subseteq File
    /\ \A f \in DOMAIN kept : kept[f].nlk \in 0..NLink[f] /\ kept[f].lnk \in Seq(Name)
    /\ tape \in Seq([name : Name, data : BOOLEAN])
    /\ failed \subseteq Name /\ left \in 0..Failures

OutInit ==
    /\ svr4 \in BOOLEAN
    /\ input \in Lists /\ list = input
    /\ kept = <<>> /\ tape = <<>>
    /\ failed = {} /\ left = Failures

\* addfile(): only a file with data is opened, and when that fails it is not in the archive.
AddFile(links, n) ==
    LET e == Entry(n, FALSE) IN
    \/ tape' = tape \o ZeroLinks(links) \o <<e>> /\ UNCHANGED <<failed, left>>
    \/ e.data /\ Fails /\ tape' = tape \o ZeroLinks(links) /\ failed' = failed \cup {n}

Listed ==
    /\ list # <<>> /\ list' = Tail(list)
    /\ UNCHANGED <<svr4, input>>

LstatFails ==
    /\ Listed /\ Fails
    /\ failed' = failed \cup {Head(list)}
    /\ UNCHANGED <<kept, tape>>

\* outfile() of a file whose links need no care: it has one, or each carries the data.
OutFile ==
    /\ Listed
    /\ ~svr4 \/ NLink[FileOf[Head(list)]] = 1
    /\ AddFile(<<>>, Head(list))
    /\ UNCHANGED kept

\* The slot of the inode of n when outfile() looks at i_nlk: new, or used up, it begins again.
Slot(n) ==
    LET f == FileOf[n] IN
    IF f \in DOMAIN kept /\ kept[f].nlk > 0 THEN kept[f] ELSE [nlk |-> NLink[f], lnk |-> <<>>]

Linked(n) == Listed /\ svr4 /\ NLink[FileOf[n]] > 1

KeepLink ==
    LET n == Head(list) IN
    /\ Linked(n) /\ Slot(n).nlk > 1
    /\ kept' = Put(kept, FileOf[n], [nlk |-> Slot(n).nlk - 1, lnk |-> Append(Slot(n).lnk, n)])
    /\ UNCHANGED <<tape, failed, left>>

LastLink ==
    LET n == Head(list) IN
    /\ Linked(n) /\ Slot(n).nlk = 1
    /\ AddFile(Slot(n).lnk, n)
    /\ kept' = Put(kept, FileOf[n], [Slot(n) EXCEPT !.nlk = 0])

\* Mutant: a single link that is left is taken for one that was written.
SlipUnfinished == {f \in DOMAIN kept : kept[f].nlk > 1}

\* lflush(): the inodes that have links outside the list.
Unfinished == {f \in DOMAIN kept : kept[f].nlk > 0}

LFlush(f) ==
    LET lnk == kept[f].lnk IN
    /\ list = <<>> /\ f \in Unfinished
    /\ AddFile(SubSeq(lnk, 1, Len(lnk) - 1), lnk[Len(lnk)])
    /\ kept' = [kept EXCEPT ![f].nlk = 0]
    /\ UNCHANGED <<svr4, input, list>>

OutNext ==
    \/ LstatFails \/ OutFile \/ KeepLink \/ LastLink
    \/ \E f \in File : LFlush(f)

OutDone == list = <<>> /\ Unfinished = {}

OutSpec == OutInit /\ [][OutNext]_outVars
=============================================================================
